---------------------------- MODULE RegularLobby ----------------------------
(***************************************************************************)
(* RegularLobbyViewController.swift: the lobby of a player who joined.  It *)
(* never writes the game state and has no START button: it waits for the   *)
(* host ("Waiting for host . . .", Main.storyboard:217).                   *)
(***************************************************************************)
EXTENDS Lobby

Regular == Player \ {Host}

\* viewDidLoad, then viewWillAppear.  JoinGameViewController, which is not in
\* the repository, lets a player in when the party exists; a player whose app
\* stopped may open it and join again.
RegularOpens(c) ==
    /\ screen[c] \in Screen \ Alive
    /\ PartyExists(db)
    /\ Open(c, << <<RecordOf(c), "Alive">>,
                  <<TeamOf(c), "Attacker">> >>)

\* Mutant: the status is not tested.
RegularGameStateEventAnyStatus(c) ==
    \E status \in Stage :
        /\ StatusChanges(c, status)
        /\ told' = [told EXCEPT ![c] = status]
        /\ Segue(c)
        /\ UNCHANGED <<dbVars, selector, attackers, defenders, taps>>

\* The game state listener: into the game as soon as it is in progress.
RegularGameStateEvent(c) ==
    \E status \in Stage :
        /\ StatusChanges(c, status)
        /\ told' = [told EXCEPT ![c] = status]
        /\ IF status = "inProgress" THEN Segue(c) ELSE UNCHANGED <<screen, received>>
        /\ UNCHANGED <<dbVars, selector, attackers, defenders, taps>>

RegularTeamsEvent(c) == ReceiveTeams(c)

\* ref.removeAllObservers() is called on the root, where there is none.
RegularDidDisappear(c) ==
    StopListening(c, RemoveAllObservers(RemoveAllObservers(listening[c], "root"), "Teams"))

RegularValueChanged(c) == \E t \in Team : ValueChanged(c, t)

=============================================================================
