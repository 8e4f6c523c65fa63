-------------------------- MODULE DemolitionStages --------------------------
(***************************************************************************)
(* The refinement mapping from the party of phones and a database to the   *)
(* stages of PartyStages.                                                  *)
(***************************************************************************)
EXTENDS DemolitionInv

\* The stage is what the database says of it.  Without the flags the party is
\* not published yet, as long as the host's phone still has them to write.
StageOf ==
    IF ~Standing
    THEN IF Opening THEN "unpublished" ELSE "over"
    ELSE IF db[GameState] = "inProgress" THEN "started" ELSE "waiting"

ClockOf == Standing /\ db[EndTime] # Null

PlaceOf(c) ==
    CASE screen[c] \in Screen \ Alive -> "outside"
      [] screen[c] \in {"gameOver", "leaving", "left"} -> "after"
      [] OTHER -> screen[c]

Stages == INSTANCE PartyStages WITH
    stage <- StageOf,
    clock <- ClockOf,
    place <- [c \in Player |-> PlaceOf(c)]

\* The lobbies, the game over screens and the database together are a party as
\* PartyStages describes it: whatever commits, snapshots, crashes and removals
\* do, its stages follow each other (HostLobbyViewController.swift:122-193,
\* GameOverViewController.swift:44-53) and no player enters a game early, from
\* anywhere but the lobby, or on two teams.
ImplementsStages == Stages!Spec

=============================================================================
