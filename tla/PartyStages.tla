---------------------------- MODULE PartyStages ----------------------------
(***************************************************************************)
(* What a party promises its players, without phones, queues, replicas and *)
(* listeners: it is published once, starts once, is removed only after it  *)
(* has started and never comes back; a player who joined plays only what   *)
(* has started, on one team, once for every time they join.                *)
(***************************************************************************)
CONSTANTS Player, Host

Team == {"Attacker", "Defender"}
Place == {"outside", "lobby", "after"} \cup Team

VARIABLES
    stage,      \* "unpublished", "waiting", "started" or "over"
    clock,      \* the end time of the game is set
    place       \* place[p]: where p is

stageVars == <<stage, clock, place>>

Init ==
    /\ stage = "unpublished"
    /\ clock = FALSE
    /\ place = [p \in Player |-> "outside"]

Moves(p, from, to) ==
    /\ place[p] \in from
    /\ place' = [place EXCEPT ![p] = to]

\* The host opens the party; nobody joins one that nobody has opened, and the
\* host does not come back.
Join(p) ==
    /\ Moves(p, {"outside"}, "lobby")
    /\ IF p = Host THEN stage = "unpublished"
                   ELSE stage = "unpublished" => place[Host] # "outside"
    /\ UNCHANGED <<stage, clock>>

Publish ==
    /\ stage = "unpublished"
    /\ place[Host] # "outside"
    /\ stage' = "waiting"
    /\ UNCHANGED <<clock, place>>

Start ==
    /\ stage = "waiting"
    /\ stage' = "started"
    /\ UNCHANGED <<clock, place>>

\* The host, who calls the start, may be ahead of it.  The others enter a game
\* that has started, or has even ended since.
Enter(p) ==
    /\ \E t \in Team : Moves(p, {"lobby"}, t)
    /\ p = Host \/ stage \in {"started", "over"}
    /\ UNCHANGED <<stage, clock>>

SetClock ==
    /\ stage = "started"
    /\ ~clock
    /\ clock' = TRUE
    /\ UNCHANGED <<stage, place>>

Finish(p) ==
    /\ Moves(p, Team, "after")
    /\ UNCHANGED <<stage, clock>>

\* A party that its host stops before it is published never is.
Stop(p) ==
    /\ Moves(p, Place \ {"outside"}, "outside")
    /\ stage' = IF p = Host /\ stage = "unpublished" THEN "over" ELSE stage
    /\ UNCHANGED clock

Remove ==
    /\ stage = "started"
    /\ stage' = "over"
    /\ clock' = FALSE
    /\ UNCHANGED place

Next ==
    \/ Publish \/ Start \/ SetClock \/ Remove
    \/ \E p \in Player : Join(p) \/ Enter(p) \/ Finish(p) \/ Stop(p)

Spec == Init /\ [][Next]_stageVars

=============================================================================
