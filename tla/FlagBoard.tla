----------------------------- MODULE FlagBoard -----------------------------
(***************************************************************************)
(* The six flags that the host publishes, leaf by leaf, and the annotations*)
(* that every phone keeps of them (HostLobbyViewController.swift:95-132,   *)
(* RegularLobbyViewController.swift:81-119).  PartyDB has all of them as   *)
(* the one location Flags.  A place stands for a pair of coordinates: the  *)
(* six pairs are different, and the same on every phone.                   *)
(***************************************************************************)
EXTENDS Integers, SequencesExt

Flag == 1 .. 6
Leaf == {"Status", "Longitude", "Latitude"}
Unset == 0

\* flagAnnotations: the place of annotation k, under the key "Flag<k>".
flagAnnotations == [k \in Flag |-> k]

VARIABLES
    outbox,     \* the host's writes that the server has not committed
    board,      \* board[f][leaf]: what the server has below Flags/Flag<f>
    host        \* "menu", "running" or "closed"

boardVars == <<outbox, board, host>>

Init ==
    /\ outbox = <<>>
    /\ board = [f \in Flag |-> [leaf \in Leaf |-> Unset]]
    /\ host = "menu"

Free == 1

\* Mutant: the coordinates go first.
FlagWritesPlaceFirst(count, place) ==
    << <<count, "Longitude", place>>, <<count, "Latitude", place>>, <<count, "Status", Free>> >>

\* The three writes of flag number `count' at a place.
FlagWrites(count, place) ==
    << <<count, "Status", Free>>, <<count, "Longitude", place>>, <<count, "Latitude", place>> >>

\* Mutant: the number of the flag is not counted up after the fifth.
HostOpensMiscounts ==
    /\ host = "menu"
    /\ host' = "running"
    /\ \E values \in Bijection(Flag, Range(flagAnnotations)) :
        outbox' = FlattenSeq([count \in Flag |-> FlagWrites(IF count = 6 THEN 5 ELSE count, values[count])])
    /\ UNCHANGED board

\* The loop of viewDidLoad over flagAnnotations.values, in whatever order the
\* dictionary hands them out: the first one is numbered 1.
HostOpens ==
    /\ host = "menu"
    /\ host' = "running"
    /\ \E values \in Bijection(Flag, Range(flagAnnotations)) :
        outbox' = FlattenSeq([count \in Flag |-> FlagWrites(count, values[count])])
    /\ UNCHANGED board

\* The server commits the oldest write.
Commit ==
    /\ outbox # <<>>
    /\ LET w == Head(outbox) IN board' = [board EXCEPT ![w[1]][w[2]] = w[3]]
    /\ outbox' = Tail(outbox)
    /\ UNCHANGED host

\* The host's app stops, and what it has not sent is lost.
Quit ==
    /\ host = "running"
    /\ host' = "closed"
    /\ outbox' = <<>>
    /\ UNCHANGED board

Next == HostOpens \/ Commit \/ Quit

Spec == Init /\ [][Next]_boardVars

-----------------------------------------------------------------------------

Located(f) == board[f]["Latitude"] # Unset
PlaceOf(f) == <<board[f]["Longitude"], board[f]["Latitude"]>>

\* Wherever the host stops, the board is a prefix of the flags: one that has
\* its place is free and has all of it, and so has every flag before it.
BoardIsPrefix ==
    \A f \in Flag : Located(f) =>
        /\ \A g \in 1 .. f : \A leaf \in Leaf : board[g][leaf] # Unset
        /\ board[f]["Longitude"] = board[f]["Latitude"]

\* Once the host has sent everything there is one flag at each place, in
\* whatever order the dictionary had them: no place is missing or taken twice.
EveryPlaceHasItsFlag ==
    host = "running" /\ outbox = <<>> =>
        {PlaceOf(f) : f \in Flag} = {<<p, p>> : p \in Range(flagAnnotations)}

\* `flagAnnotations = ["Flag1" : annotation1, ...]' (HostLobbyViewController.
\* swift:122): Flag<k> is the flag of annotation k, for the database too.
FlagNumbersAgree ==
    \A f \in Flag : Located(f) => PlaceOf(f) = <<flagAnnotations[f], flagAnnotations[f]>>

=============================================================================
