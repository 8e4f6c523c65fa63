------------------------------ MODULE GameOver ------------------------------
(***************************************************************************)
(* GameOverViewController.swift: the verdict and the winners' names, and   *)
(* the removal of the party from the database when the screen is left.     *)
(***************************************************************************)
EXTENDS Lobby

Reason == {"didTimeExpire", "didCaptureMostFlags", "areAllAttackersDead", "areAllDefendersDead"}

\* viewDidLoad: what the labels show, from the flags that are set and the lists
\* that were handed over.  With no flag set the storyboard's text stays.
Verdict(reasons) ==
    IF reasons \cap {"didCaptureMostFlags", "areAllDefendersDead"} # {} THEN "Attacker" ELSE "Defender"

WinnersList(reasons, lists) == IF reasons = {} THEN {} ELSE lists[Verdict(reasons)]

\* The game screens, which are not in the repository, end the game for some of
\* the reasons and hand over the lists they were handed.  Nothing reads the
\* labels again, so the reasons leave no state.
GameEnds(c) ==
    /\ screen[c] \in Team
    /\ "Teams" \notin listening[c]
    /\ screen' = [screen EXCEPT ![c] = "gameOver"]
    /\ UNCHANGED <<dbVars, selector, attackers, defenders, told, received, taps>>

\* viewDidDisappear asks for the parties once ...
GameOverDidDisappear(c) ==
    /\ screen[c] = "gameOver"
    /\ screen' = [screen EXCEPT ![c] = "leaving"]
    /\ received' = [received EXCEPT ![c] = NoLists]
    /\ UNCHANGED <<dbVars, selector, attackers, defenders, told, taps>>

\* Mutant: only what the server has counts, not the phone's pending writes.
WipePartyServerOnly(c) ==
    /\ screen[c] = "leaving"
    /\ screen' = [screen EXCEPT ![c] = "left"]
    /\ IF PartyExists(db) THEN Put(c, << <<Party, Null>> >>) ELSE UNCHANGED outbox
    /\ UNCHANGED <<db, cache, synced, listening, selector, attackers, defenders, told, received, taps>>

\* ... and removes this one if the snapshot, in which the phone's own pending
\* writes count, has it.
WipeParty(c) ==
    /\ screen[c] = "leaving"
    /\ screen' = [screen EXCEPT ![c] = "left"]
    /\ IF \E l \in Loc : Merged(c, l, db[l]) # Null
       THEN Put(c, << <<Party, Null>> >>)
       ELSE UNCHANGED outbox
    /\ UNCHANGED <<db, cache, synced, listening, selector, attackers, defenders, told, received, taps>>

=============================================================================
