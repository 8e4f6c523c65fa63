------------------------------ MODULE PartyDB ------------------------------
(***************************************************************************)
(* The part of the Firebase realtime database that one party uses, and the *)
(* replica of it that the Firebase SDK keeps on each player's phone.       *)
(*                                                                         *)
(* Neither is code of this repository: both are modelled from how the view *)
(* controllers use them and from the comments of the SDK's headers.        *)
(*   - setValue and removeValue return at once: the write joins the FIFO   *)
(*     `outbox' of the phone, is visible on that phone immediately, and is *)
(*     committed by the server later (FIRDatabaseReference.h:82-100).      *)
(*   - observe(.value) is told the current value and then every change of  *)
(*     it, as seen on that phone (FIRDatabaseReference.h:207-216).         *)
(*   - a write whose phone is killed before the server got it is lost: the *)
(*     SDK's disk persistence is off unless it is asked for.               *)
(***************************************************************************)
EXTENDS Integers, Sequences, FiniteSets, FiniteSetsExt

CONSTANTS
    Player,     \* the people who may open the app for this party
    Host,       \* the one who created the party
    Null        \* what a location without a value holds (NSNull)

Team == {"Attacker", "Defender"}
Stage == {"inLobby", "inProgress"}
Count == 0 .. Cardinality(Player)

\* The locations of the party, below Parties/<partyID>.  The leaves of the six
\* flags are one location.  RecordOf(p) is PlayerStatus/<name> and HashTeamOf(p)
\* Players/<customHash>/Team.  The coordinates of a player, written right before
\* the team and read by nobody in the repository, are taken with the team.
Party         == <<"Parties", "partyID">>
GameState     == <<"Global", "gameState">>
FlagsCaptured == <<"Global", "flagsCaptured">>
NumAttackers  == <<"Global", "numAttackersAlive">>
NumDefenders  == <<"Global", "numDefendersAlive">>
EndTime       == <<"Global", "endTime">>
Flags         == <<"Global", "Flags">>
TeamOf(p)     == <<"Teams", p>>
RecordOf(p)   == <<"PlayerStatus", p>>
HashTeamOf(p) == <<"Players/Team", p>>

Global == {GameState, FlagsCaptured, NumAttackers, NumDefenders, EndTime, Flags}
Loc == Global \cup {TeamOf(p) : p \in Player} \cup {HashTeamOf(p) : p \in Player}
              \cup {RecordOf(p) : p \in Player}

\* A write is a location and a value, and these are the code's writes;
\* removeValue writes Null at Party.
Write ==
    ({Party} \X {Null})
        \cup ({GameState} \X Stage)
        \cup ({FlagsCaptured} \X {0})
        \cup ({NumAttackers, NumDefenders} \X Count)
        \cup ({EndTime} \X {"tenMinutesFromNow"})
        \cup ({Flags} \X {"Free"})
        \cup ({RecordOf(p) : p \in Player} \X {"Alive"})
        \cup (({TeamOf(p) : p \in Player} \cup {HashTeamOf(p) : p \in Player}) \X Team)

\* The locations that listeners of this repository watch.
Watched == {GameState} \cup {TeamOf(p) : p \in Player}
Node(l) == IF l = GameState THEN "gameState" ELSE "Teams"

ASSUME HostAssumption == Host \in Player
ASSUME PlayerAssumption == IsFiniteSet(Player)
ASSUME NullAssumption ==
    Null \notin Stage \cup Team \cup {"tenMinutesFromNow", "Free", "Alive"}
ASSUME NullIsNoCount == Null \notin Count

VARIABLES
    db,         \* db[l]: what the server holds at l
    cache,      \* cache[c]: what the server last told phone c about the nodes it listens to
    synced,     \* the phones whose listeners the server has answered
    outbox,     \* outbox[c]: the writes of c the server has not committed, oldest first
    listening   \* listening[c]: the nodes c has an observer on

dbVars == <<db, cache, synced, outbox, listening>>

EmptyCache == [l \in Watched |-> Null]

DBInit ==
    /\ db = [l \in Loc |-> Null]
    /\ cache = [c \in Player |-> EmptyCache]
    /\ synced = {}
    /\ outbox = [c \in Player |-> <<>>]
    /\ listening = [c \in Player |-> {}]

\* The database d after a write: removing the party removes everything below it.
Applied(d, w) ==
    IF w[1] = Party THEN [l \in Loc |-> Null] ELSE [d EXCEPT ![w[1]] = w[2]]

PartyExists(d) == \E l \in Loc : d[l] # Null

\* setValue and removeValue on phone c: ws are queued in the order of the calls.
Put(c, ws) == outbox' = [outbox EXCEPT ![c] = @ \o ws]

\* The pending writes of c that decide what c sees at l.
Pending(c, l) == {i \in DOMAIN outbox[c] : outbox[c][i][1] \in {l, Party}}

\* Over a value `base' of the server, the pending writes of c win.
Merged(c, l, base) ==
    LET mine == Pending(c, l)
    IN  IF mine = {} THEN base ELSE outbox[c][Max(mine)][2]
View(c, l) == Merged(c, l, cache[c][l])
Known(c, l) == c \in synced \/ Pending(c, l) # {}

\* What the server tells a phone that listens to `nodes' when it holds d.
Told(nodes, d) == [l \in Watched |-> IF Node(l) \in nodes THEN d[l] ELSE Null]

\* The server commits the oldest write of c.  The acknowledgement reaches c
\* on the same connection as, and so after, all that happened before it.
Commit(c) ==
    /\ outbox[c] # <<>>
    /\ LET d == Applied(db, Head(outbox[c]))
       IN  /\ db' = d
           /\ cache' = IF c \in synced THEN [cache EXCEPT ![c] = Told(listening[c], d)] ELSE cache
    /\ outbox' = [outbox EXCEPT ![c] = Tail(@)]
    /\ UNCHANGED <<synced, listening>>

\* The server answers the listeners of c, or tells c of later changes.
Sync(c) ==
    /\ listening[c] # {}
    /\ c \notin synced \/ cache[c] # Told(listening[c], db)
    /\ cache' = [cache EXCEPT ![c] = Told(listening[c], db)]
    /\ synced' = synced \cup {c}
    /\ UNCHANGED <<db, outbox, listening>>

\* observe(.value) on nodes of the party.
Observe(c, nodes) == listening' = [listening EXCEPT ![c] = @ \cup nodes]

\* removeAllObservers at one node: observers at its children stay
\* (FIRDatabaseReference.h:334).
RemoveAllObservers(nodes, node) == nodes \ {node}

\* The process of c ends: the SDK's memory is gone with it.
Disconnect(c) ==
    /\ cache' = [cache EXCEPT ![c] = EmptyCache]
    /\ synced' = synced \ {c}
    /\ outbox' = [outbox EXCEPT ![c] = <<>>]
    /\ listening' = [listening EXCEPT ![c] = {}]
    /\ UNCHANGED db

DBTypeOK ==
    /\ DOMAIN db = Loc
    /\ \A l \in Loc : db[l] = Null \/ <<l, db[l]>> \in Write
    /\ cache \in [Player -> [Watched -> Stage \cup Team \cup {Null}]]
    /\ synced \in SUBSET Player
    /\ outbox \in [Player -> Seq(Write)]
    /\ listening \in [Player -> SUBSET {"Teams", "gameState"}]

=============================================================================
