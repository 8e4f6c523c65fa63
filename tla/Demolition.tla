----------------------------- MODULE Demolition -----------------------------
(***************************************************************************)
(* One party of the game: the database, the lobby of the host, the lobbies *)
(* of the other players and the game over screens.  The phones share       *)
(* nothing but the database.                                               *)
(***************************************************************************)
EXTENDS HostLobby, RegularLobby, GameOver

vars == <<dbVars, lobbyVars>>

Init == DBInit /\ LobbyInit

\* The player kills the app: nothing in the code tells the others
\* (there is no onDisconnect write).
Quit(c) == screen[c] \in Alive /\ Die(c, "closed")

HostStep ==
    \/ HostOpens
    \/ StartButton
    \/ HostGameStateEvent
    \/ HostTeamsEvent
    \/ HostDidDisappear
    \/ HostValueChanged

RegularStep(c) ==
    \/ RegularOpens(c)
    \/ RegularGameStateEvent(c)
    \/ RegularTeamsEvent(c)
    \/ RegularDidDisappear(c)
    \/ RegularValueChanged(c)

AppStops(c) == Quit(c) \/ TeamsCastFails(c) \/ StatusCastFails(c)

ServerStep(c) == Commit(c) \/ Sync(c)

GameOverStep(c) ==
    \/ GameEnds(c)
    \/ GameOverDidDisappear(c)
    \/ WipeParty(c)

Next ==
    \/ HostStep
    \/ \E c \in Regular : RegularStep(c)
    \/ \E c \in Player :
        \/ AppStops(c)
        \/ ServerStep(c) /\ UNCHANGED lobbyVars
        \/ GameOverStep(c)

Spec == Init /\ [][Next]_vars

\* Fairness: the connection of a running phone and its main thread make
\* progress, so its writes are committed, it is told of changes, its
\* listeners run and its transitions end.  Players owe nothing.
HostHandler == HostGameStateEvent \/ HostTeamsEvent \/ HostDidDisappear
RegularHandler(c) == RegularGameStateEvent(c) \/ RegularTeamsEvent(c) \/ RegularDidDisappear(c)
CastFails(c) == TeamsCastFails(c) \/ StatusCastFails(c)

Fairness ==
    /\ WF_vars(HostHandler)
    /\ \A c \in Regular : WF_vars(RegularHandler(c))
    /\ \A c \in Player :
        /\ WF_vars(CastFails(c))
        /\ WF_vars(Commit(c) /\ UNCHANGED lobbyVars)
        /\ WF_vars(Sync(c) /\ UNCHANGED lobbyVars)
        /\ WF_vars(WipeParty(c))

FairSpec == Spec /\ Fairness

-----------------------------------------------------------------------------

\* Every variable of the party, the lobbies and the game over screens holds
\* what the code can put there.
TypeOK == DBTypeOK /\ LobbyTypeOK

\* The party is published and nobody has wiped it: the flags are written
\* once, by the host's opening, and only a wipe removes them.
Standing == db[Flags] # Null

Registered(p) == db[TeamOf(p)] # Null

\* What the server has at l when it has committed the writes of c.
Coming(c, l) == Merged(c, l, db[l])

\* The places that c alone writes to, the removal of the party apart.
PlacesOf(c) == {RecordOf(c), TeamOf(c), HashTeamOf(c)} \cup (IF c = Host THEN Global ELSE {})

InGame(c) == screen[c] \in Team \cup {"gameOver", "leaving", "left"}

\* START publishes the game state last (HostLobbyViewController.swift:186-193):
\* whoever sees the game in progress finds the captured flags and both counts,
\* wherever the host's phone or app stopped between the four writes.
StartIsComplete ==
    Standing /\ db[GameState] = "inProgress"
        => \A l \in {FlagsCaptured, NumAttackers, NumDefenders} : db[l] # Null

\* The listeners segue on "inProgress" only (RegularLobbyViewController.swift:
\* 149-163): a player who joined is never in a game that the database does not
\* say has started, unless the party was wiped meanwhile.
NobodyPlaysBeforeStart ==
    \A c \in Regular : InGame(c) /\ Standing => db[GameState] = "inProgress"

\* The segue goes by the selector, the other players go by Teams: once the
\* phone's writes of its team are committed, Teams has the player on the game
\* screen's side.  So has the copy at Players/<customHash>/Team for a Defender,
\* and for the host if there is one.  The copy of an Attacker who joined may be
\* missing, or a Defender's from before that app stopped: opening a lobby writes
\* Teams only (RegularLobbyViewController.swift:130, 192-204,
\* HostLobbyViewController.swift:143, 196-208).
RoleIsRegistered ==
    \A c \in Player :
        screen[c] \in Team /\ Standing /\ Pending(c, TeamOf(c)) \cup Pending(c, HashTeamOf(c)) = {}
            => /\ db[TeamOf(c)] = screen[c]
               /\ screen[c] = "Defender" => db[HashTeamOf(c)] = "Defender"
               /\ c = Host => db[HashTeamOf(c)] \in {Null, screen[c]}

\* The end time is the answer to a start: it is never in the database of a
\* party that still waits in the lobby (HostLobbyViewController.swift:163-169).
TimerNeedsStart == Standing /\ db[EndTime] # Null => db[GameState] = "inProgress"

\* The two counts of START come from one roster (the tables are emptied before
\* they are filled, HostLobbyViewController.swift:145-157): with no write of
\* the host on its way they never add up to more players than are registered,
\* also after a second START.  A host that stops half-way is excepted.
CountsFromOneRoster ==
    /\ Standing
    /\ screen[Host] \in Alive
    /\ outbox[Host] = <<>>
    /\ db[NumAttackers] # Null
    => db[NumAttackers] + db[NumDefenders] <= Cardinality({p \in Player : Registered(p)})

\* When everybody who opened a lobby has left the game over screen and every
\* write has arrived, the party is gone: no write that was late brings a part
\* of it back for good (GameOverViewController.swift:44-53).
LastOneOutCleansUp ==
    (\A c \in Player : screen[c] \in {"menu", "left"} /\ outbox[c] = <<>>) => ~PartyExists(db)

\* A player who has left the game over screen, and whose writes have arrived,
\* has left nothing behind, whoever else crashes, stays or still writes; a host
\* not even the party's globals (GameOverViewController.swift:44-53).
LeaversLeaveNothing ==
    \A c \in Player :
        screen[c] = "left" /\ outbox[c] = <<>> => \A l \in PlacesOf(c) : db[l] = Null

\* The game state observer is never removed, yet it is called with "inProgress"
\* in the lobby only: no second performSegue for a player who is in the game or
\* past it, not even to the same screen (HostLobbyViewController.swift:161-176,
\* RegularLobbyViewController.swift:149-161).
SegueOnlyFromLobby ==
    \A c \in Player : StatusChanges(c, "inProgress") => screen[c] = "lobby"

\* The two copies of a player's team agree, or there is only the one in Teams,
\* when the player's writes have arrived.
CopiesAgree(c) == Coming(c, HashTeamOf(c)) \in {Null, Coming(c, TeamOf(c))}

\* valueChanged keeps the two copies of a team together: nothing that happens
\* while a player's app runs, a removal of the party apart, makes them differ.
\* (Stopping and joining again can: see RoleIsRegistered.)
CopiesStayTogether ==
    [][\A c \in Player :
        CopiesAgree(c) /\ screen[c] \in Alive /\ screen'[c] \in Alive /\ Standing'
            => CopiesAgree(c)']_vars

\* Only the end of a game wipes the party: one that still waits in the lobby
\* is never removed from under its players.
WipeEndsStartedGame == [][Standing /\ ~Standing' => db[GameState] = "inProgress"]_vars

\* A tap of START ends the wait of everyone who is in a lobby, through the four
\* writes, the server and the listeners (HostLobbyViewController.swift:186-193,
\* RegularLobbyViewController.swift:149-163).  The one thing that can stop it
\* is that the host's app does, with the start still on its way: once the game
\* is in progress nobody stays in a lobby, whoever stops.
StartReachesEveryone ==
    \A c \in Player :
        (/\ screen[c] = "lobby"
         /\ \/ db[GameState] = "inProgress"
            \/ \E i \in DOMAIN outbox[Host] : outbox[Host][i] = <<GameState, "inProgress">>)
            ~> (\/ screen[c] # "lobby"
                \/ screen[Host] \notin Alive /\ db[GameState] = "inLobby")

\* A game in progress gets its end time, as long as the host's app runs and
\* nobody has already ended the game.
TimerIsSet ==
    (Standing /\ db[GameState] = "inProgress")
        ~> (db[EndTime] # Null \/ ~Standing \/ screen[Host] \notin Alive)

\* Every lobby ends up with the teams that the database has, whatever the
\* order in which selections, joins and snapshots met.
LobbiesConverge ==
    \A c \in Player :
        <>[](screen[c] = "lobby"
                => /\ attackers[c] = {p \in Player : db[TeamOf(p)] = "Attacker"}
                   /\ defenders[c] = {p \in Player : db[TeamOf(p)] = "Defender"})

-----------------------------------------------------------------------------
(* What the code says of itself and does not do.                           *)

\* "let status = snapshot.value as! String" (HostLobbyViewController.swift:162,
\* RegularLobbyViewController.swift:150): the listener is never called with a
\* game state that is not there.
StatusIsString == \A c \in Player : ~StatusChanges(c, Null)

\* "set numAttackersAlive and defendersAlive in DB" (HostLobbyViewController.
\* swift:189): once the start and all selections have arrived, the counts are
\* those of the registered teams.
CountsMatchTeams ==
    Standing /\ db[GameState] = "inProgress" /\ (\A c \in Player : outbox[c] = <<>>)
        => /\ db[NumAttackers] = Cardinality({p \in Player : db[TeamOf(p)] = "Attacker"})
           /\ db[NumDefenders] = Cardinality({p \in Player : db[TeamOf(p)] = "Defender"})

\* "get winners" (GameOverViewController.swift:29): a player of the team that
\* is announced finds their own name among the winners.
OwnNameAmongWinners ==
    \A c \in Player :
        screen[c] = "gameOver" =>
            \A reasons \in SUBSET Reason :
                LET winners == WinnersList(reasons, received[c])
                IN  winners # {} /\ Verdict(reasons) = selector[c] => c \in winners

\* "wipe party from database if still in databse" (GameOverViewController.
\* swift:45): the phone that asked for it removes the party, unless its player
\* kills the app.
PartyIsWiped ==
    \A c \in Player : (screen[c] = "left") ~> (~Standing \/ screen[c] = "closed")

=============================================================================
