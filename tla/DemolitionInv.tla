--------------------------- MODULE DemolitionInv ---------------------------
(***************************************************************************)
(* The inductive invariants behind the theorems of the *Proofs modules.    *)
(* They speak of what is still on its way: the writes in the outboxes and  *)
(* the order they are in.                                                  *)
(***************************************************************************)
EXTENDS Demolition

Queued(c, l) == \E i \in DOMAIN outbox[c] : outbox[c][i][1] = l
Start == <<GameState, "inProgress">>
Tallies == {FlagsCaptured, NumAttackers, NumDefenders}

-----------------------------------------------------------------------------
(* LastOneOutCleansUp.                                                     *)

Gone(c) == screen[c] \in {"menu", "left"}

\* Who has left has a removal as its last write on the way, if it has any ...
LeftoverIsWipe ==
    \A c \in Player :
        Gone(c) /\ outbox[c] # <<>> => outbox[c][Len(outbox[c])][1] = Party

\* ... and a party in the database has somebody who has not left, or a removal
\* on its way.
PartyHasKeeper ==
    PartyExists(db) => \E c \in Player : ~Gone(c) \/ Queued(c, Party)

\* Whoever leaves the game over screen takes along what they brought, and the
\* last one all of it (GameOverViewController.swift:44-53).
CleanInv == LeftoverIsWipe /\ PartyHasKeeper

-----------------------------------------------------------------------------
(* StartIsComplete and NobodyPlaysBeforeStart.                             *)

\* The host has not yet published the flags, which are written once.
Opening == screen[Host] = "menu" \/ Queued(Host, Flags)

HostStartsEmpty == screen[Host] = "menu" => outbox[Host] = <<>> /\ listening[Host] = {}

OpeningIsNotStarted == Opening => db[GameState] # "inProgress"

\* The order of the host's writes: what the opening writes comes before any
\* start and any removal, and "inLobby" before the flags.
OpeningComesFirst ==
    \A i, j \in DOMAIN outbox[Host] :
        i < j /\ outbox[Host][j][1] = Flags
            => outbox[Host][i] # Start /\ outbox[Host][i][1] # Party

LobbyBeforeFlags ==
    \A i \in DOMAIN outbox[Host] :
        outbox[Host][i] = <<GameState, "inLobby">>
            => \E j \in DOMAIN outbox[Host] : i < j /\ outbox[Host][j][1] = Flags

\* What a start on its way announces is before it on the way, or committed,
\* or the party has been wiped.
StartAnnounces ==
    \A i \in DOMAIN outbox[Host] : outbox[Host][i] = Start =>
        \A l \in Tallies :
            \/ \E j \in DOMAIN outbox[Host] : j < i /\ outbox[Host][j][1] = l
            \/ db[l] # Null
            \/ ~Standing /\ ~Opening

RegularsKeepOff == \A c \in Regular : \A l \in Global : ~Queued(c, l)

\* The start is certain: the database has it, or has lost it to a wipe.
Started == ~Opening /\ (Standing => db[GameState] = "inProgress")

\* A player who knows of the start is right about it.
Aware(c) ==
    \/ InGame(c)
    \/ told[c] = "inProgress"
    \/ cache[c][GameState] = "inProgress"
    \/ Queued(c, Party)

AwareIsRight == \A c \in Regular : Aware(c) => Started

StartInv ==
    /\ StartIsComplete
    /\ HostStartsEmpty
    /\ OpeningIsNotStarted
    /\ OpeningComesFirst
    /\ LobbyBeforeFlags
    /\ StartAnnounces
    /\ RegularsKeepOff
    /\ AwareIsRight

StartOnItsWay == \E i \in DOMAIN outbox[Host] : outbox[Host][i] = Start

\* The host knows of the start from its own tap: it may still be on its way.
HostAware == InGame(Host) \/ told[Host] = "inProgress" \/ cache[Host][GameState] = "inProgress"

HostAwareIsRight == HostAware => StartOnItsWay \/ Started

\* A removal by the host comes after the start that made it a game.
HostWipesAfterStart ==
    \A k \in DOMAIN outbox[Host] : outbox[Host][k][1] = Party =>
        \/ \E i \in DOMAIN outbox[Host] : i < k /\ outbox[Host][i] = Start
        \/ Started

\* The start is one thing on its way through the host's queue, the database and
\* the phones: whoever knows of it is right, and nothing that follows from it
\* overtakes it (HostLobbyViewController.swift:159-173, 186-193).
WipeInv == StartInv /\ HostAwareIsRight /\ HostWipesAfterStart

-----------------------------------------------------------------------------
(* TimerNeedsStart.                                                        *)

\* An app that does not run sends nothing and listens to nothing.
StoppedIsSilent ==
    \A c \in Player : screen[c] \notin Alive =>
        outbox[c] = <<>> /\ listening[c] = {} /\ selector[c] = "Attacker"

\* Before the host opens the party nobody is in it.
HostComesFirst == screen[Host] = "menu" => ~PartyExists(db) /\ \A c \in Player : screen[c] = "menu"

UnsyncedKnowsNothing == \A c \in Player : c \notin synced => cache[c] = EmptyCache

ScreenInv == StoppedIsSilent /\ HostComesFirst /\ UnsyncedKnowsNothing

\* The flags are written once, before anything that a start brings about.
FlagsOnce ==
    \A i, j \in DOMAIN outbox[Host] :
        outbox[Host][i][1] = Flags /\ outbox[Host][j][1] = Flags => i = j

OpeningIsUnpublished == Opening => ~Standing /\ db[EndTime] = Null

\* The end time comes after the start that the listener was called with.
TimerFollowsStart ==
    \A k \in DOMAIN outbox[Host] : outbox[Host][k][1] = EndTime =>
        \/ \E i \in DOMAIN outbox[Host] : i < k /\ outbox[Host][i] = Start
        \/ Started

TimerInv == FlagsOnce /\ OpeningIsUnpublished /\ TimerFollowsStart /\ TimerNeedsStart

-----------------------------------------------------------------------------
(* SegueOnlyFromLobby.                                                     *)

\* The database will not say "inLobby" again.
Begun == ~Opening /\ db[GameState] # "inLobby"

AwareHasBegun ==
    /\ \A c \in Regular : Aware(c) => Begun
    /\ HostAware => StartOnItsWay \/ Begun

\* Who was told of the start will not be told "inLobby" again ...
NoWayBack ==
    \A c \in Player : told[c] = "inProgress" =>
        \/ c = Host /\ StartOnItsWay
        \/ cache[c][GameState] # "inLobby"

\* ... and so whoever is in the game has the start as the last word.
PlaysWhatItWasTold == \A c \in Player : InGame(c) => told[c] = "inProgress"

ToldInv == AwareHasBegun /\ NoWayBack /\ PlaysWhatItWasTold

\* Along the stages of a party there is no way back: what the opening writes is
\* written once and first, the clock follows the start, and a phone that was told
\* of the start is never told of the lobby again (HostLobbyViewController.swift:
\* 122-143, 159-173; RegularLobbyViewController.swift:149-163).
StagesInv == ScreenInv /\ TimerInv /\ ToldInv

-----------------------------------------------------------------------------
(* RoleIsRegistered.                                                       *)

\* The party has been published and removed: for good.
Over == ~Standing /\ ~Opening

\* Nobody writes for another player, and nobody but the host writes globals.
OwnPlacesOnly ==
    \A c \in Player : \A i \in DOMAIN outbox[c] : outbox[c][i][1] \in PlacesOf(c) \cup {Party}

WipesWhenLeft == \A c \in Player : Queued(c, Party) => screen[c] = "left"

SelectionIsComing ==
    \A c \in Player : screen[c] \in {"lobby"} \cup Team =>
        \/ Over
        \/ /\ Coming(c, TeamOf(c)) = selector[c]
           /\ selector[c] = "Defender" => Coming(c, HashTeamOf(c)) = "Defender"
           /\ c = Host => Coming(c, HashTeamOf(c)) \in {Null, selector[c]}

PlaysAsSelected == \A c \in Player : screen[c] \in Team => screen[c] = selector[c]

\* The segment that a player selected is what Teams will have of the player once
\* that player's writes have arrived, and what the copy at Players/<customHash>
\* will have if the segment is Defender, or if the player is the host and has
\* selected at all: nobody else writes there (HostLobbyViewController.swift:143,
\* 196-208, RegularLobbyViewController.swift:130, 192-204).
RoleInv == OwnPlacesOnly /\ WipesWhenLeft /\ SelectionIsComing /\ PlaysAsSelected

-----------------------------------------------------------------------------
(* CountsFromOneRoster.                                                    *)

\* The players who are registered, the host also when that is on its way.
Roster == {p \in Player : Registered(p) \/ Queued(Host, TeamOf(p))}

\* Before the host opens the party their phone knows of nobody.
HostStartsBlank ==
    screen[Host] = "menu" =>
        cache[Host] = EmptyCache /\ attackers[Host] = {} /\ defenders[Host] = {}

\* What the host's phone was told of, it was told by the database.
HostKnowsRoster ==
    \A p \in Player : cache[Host][TeamOf(p)] # Null => p \in Roster

TablesFromRoster ==
    /\ attackers[Host] \cap defenders[Host] = {}
    /\ attackers[Host] \cup defenders[Host] \subseteq Roster

\* The counts go in pairs, on their way and in the database, but for the
\* moment in which the first one of a pair has arrived.
CountsInPairs ==
    /\ \A i \in DOMAIN outbox[Host] : outbox[Host][i][1] = NumAttackers =>
         /\ i + 1 \in DOMAIN outbox[Host]
         /\ outbox[Host][i + 1][1] = NumDefenders
         /\ outbox[Host][i][2] + outbox[Host][i + 1][2] <= Cardinality(Roster)
    /\ \A i \in DOMAIN outbox[Host] : outbox[Host][i][1] = NumDefenders =>
         i = 1 \/ outbox[Host][i - 1][1] = NumAttackers
    /\ IF 1 \in DOMAIN outbox[Host] /\ outbox[Host][1][1] = NumDefenders
       THEN db[NumAttackers] # Null /\ db[NumAttackers] + outbox[Host][1][2] <= Cardinality(Roster)
       ELSE db[NumAttackers] # Null =>
              db[NumDefenders] # Null /\ db[NumAttackers] + db[NumDefenders] <= Cardinality(Roster)

\* The tables of the host's phone, the counts on their way and the counts in the
\* database all come from players who are registered, each counted once
\* (HostLobbyViewController.swift:145-157, 189-191).
CountsInv ==
    /\ HostStartsBlank
    /\ \/ Over
       \/ screen[Host] \notin Alive
       \/ HostKnowsRoster /\ TablesFromRoster /\ CountsInPairs

=============================================================================
