----------------------------- MODULE HostLobby -----------------------------
(***************************************************************************)
(* HostLobbyViewController.swift: the lobby of the player who created the  *)
(* party.  It publishes the party, and its START button starts the game    *)
(* for everyone by four writes.                                            *)
(***************************************************************************)
EXTENDS Lobby

\* viewDidLoad, then viewWillAppear: the party appears with its first write.
HostOpens ==
    /\ screen[Host] = "menu"
    /\ Open(Host, << <<GameState, "inLobby">>,
                     <<RecordOf(Host), "Alive">>,
                     <<Flags, "Free">>,
                     <<TeamOf(Host), "Attacker">> >>)

\* Mutant: the game state is written before what it announces.
StartStatusFirst ==
    /\ screen[Host] = "lobby"
    /\ Tap(Host)
    /\ Put(Host, << <<GameState, "inProgress">>,
                    <<FlagsCaptured, 0>>,
                    <<NumAttackers, Cardinality(attackers[Host])>>,
                    <<NumDefenders, Cardinality(defenders[Host])>> >>)
    /\ UNCHANGED <<db, cache, synced, listening, screen, selector, attackers, defenders, told, received>>

\* startButton: the counts are those of the tables, not of the database.
StartButton ==
    /\ screen[Host] = "lobby"
    /\ Tap(Host)
    /\ Put(Host, << <<FlagsCaptured, 0>>,
                    <<NumAttackers, Cardinality(attackers[Host])>>,
                    <<NumDefenders, Cardinality(defenders[Host])>>,
                    <<GameState, "inProgress">> >>)
    /\ UNCHANGED <<db, cache, synced, listening, screen, selector, attackers, defenders, told, received>>

\* Mutant: the status is not tested.
HostGameStateEventAnyStatus ==
    \E status \in Stage :
        /\ StatusChanges(Host, status)
        /\ told' = [told EXCEPT ![Host] = status]
        /\ Put(Host, << <<EndTime, "tenMinutesFromNow">> >>)
        /\ Segue(Host)
        /\ UNCHANGED <<db, cache, synced, listening, selector, attackers, defenders, taps>>

\* Mutant: the segue without the timer.
HostGameStateEventNoTimer ==
    \E status \in Stage :
        /\ StatusChanges(Host, status)
        /\ told' = [told EXCEPT ![Host] = status]
        /\ IF status = "inProgress" THEN Segue(Host) ELSE UNCHANGED <<screen, received>>
        /\ UNCHANGED <<dbVars, selector, attackers, defenders, taps>>

\* The game state listener: the host's phone sets the timer of the game.
HostGameStateEvent ==
    \E status \in Stage :
        /\ StatusChanges(Host, status)
        /\ told' = [told EXCEPT ![Host] = status]
        /\ IF status = "inProgress"
           THEN Put(Host, << <<EndTime, "tenMinutesFromNow">> >>) /\ Segue(Host)
           ELSE UNCHANGED <<outbox, screen, received>>
        /\ UNCHANGED <<db, cache, synced, listening, selector, attackers, defenders, taps>>

HostTeamsEvent == ReceiveTeams(Host)

HostDidDisappear == StopListening(Host, RemoveAllObservers(listening[Host], "Teams"))

HostValueChanged == \E t \in Team : ValueChanged(Host, t)

=============================================================================
