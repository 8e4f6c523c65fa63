----------------------------- MODULE TeamTables -----------------------------
(***************************************************************************)
(* The two tables of a lobby: the arrays that the teams listener rebuilds, *)
(* and what the table views, which ask for their rows later, show of them. *)
(* The lobby of the host and the one of the other players have the same    *)
(* code.  Lobby keeps the arrays as sets; here they have rows.             *)
(*                                                                         *)
(* UIKit and the conversion of a snapshot are not in the repository.  A    *)
(* table that is told to reload asks for the number of its rows before it  *)
(* asks for a row again; until then it keeps the number it was told.       *)
(***************************************************************************)
EXTENDS Integers, SequencesExt

CONSTANTS
    Word,       \* names that are not numbers
    Digits      \* names that read as an integer, like "7"

ASSUME WordAssumption == IsFiniteSet(Word)
ASSUME DigitsAssumption == IsFiniteSet(Digits) /\ Digits \subseteq Nat
ASSUME NamesAssumption == Word \cap Digits = {}

Team == {"Attacker", "Defender"}
Name == Word \cup Digits

VARIABLES
    list,       \* list[t]: the array of team t
    stale,      \* the tables that were told to reload and have not done so yet
    rows,       \* rows[t]: the number of rows that table t was told
    cells,      \* cells[t]: the name in each row that table t has made a cell for
    app         \* "running", or what stopped the app

tableVars == <<list, stale, rows, cells, app>>

NoCells == [i \in {} |-> ""]

\* viewDidLoad makes this controller the data source of both empty tables.
Init ==
    /\ list = [t \in Team |-> <<>>]
    /\ stale = Team
    /\ rows = [t \in Team |-> 0]
    /\ cells = [t \in Team |-> NoCells]
    /\ app = "running"

Roster == UNION {[S -> Team] : S \in SUBSET Name}

\* A node whose children read as small integers is handed over as an NSArray
\* (FIRDataSnapshot.h:91-95): its length may not pass twice the children.
ReadsAsArray(names) ==
    /\ names # {}
    /\ names \subseteq Digits
    /\ Max(names) < 2 * Cardinality(names)

\* The loop over the keys, in the order in which the dictionary hands them out:
\* a name of team t is appended to the array of t.
Members(roster, keys, t) ==
    LET filled[n \in 0 .. Len(keys)] ==
          IF n = 0 THEN <<>>
          ELSE IF roster[keys[n]] = t THEN Append(filled[n - 1], keys[n]) ELSE filled[n - 1]
    IN  filled[Len(keys)]

\* Mutant: only the table of the attackers is told to reload.
TeamsListenerHalfReload ==
    /\ app = "running"
    /\ \E roster \in Roster :
        /\ DOMAIN roster # {} /\ ~ReadsAsArray(DOMAIN roster)
        /\ \E keys \in SetToSeqs(DOMAIN roster) : list' = [t \in Team |-> Members(roster, keys, t)]
    /\ stale' = stale \cup {"Attacker"}
    /\ UNCHANGED <<rows, cells, app>>

\* Mutant: the arrays are not emptied first (for as long as they stay small).
TeamsListenerAppends ==
    /\ app = "running"
    /\ \A t \in Team : Len(list[t]) <= Cardinality(Name)
    /\ \E roster \in Roster :
        /\ DOMAIN roster # {} /\ ~ReadsAsArray(DOMAIN roster)
        /\ \E keys \in SetToSeqs(DOMAIN roster) : list' = [t \in Team |-> list[t] \o Members(roster, keys, t)]
    /\ stale' = Team
    /\ UNCHANGED <<rows, cells, app>>

\* The teams listener: both arrays are rebuilt, both tables told to reload.
TeamsListener ==
    /\ app = "running"
    /\ \E roster \in Roster :
        /\ DOMAIN roster # {} /\ ~ReadsAsArray(DOMAIN roster)
        /\ \E keys \in SetToSeqs(DOMAIN roster) : list' = [t \in Team |-> Members(roster, keys, t)]
    /\ stale' = Team
    /\ UNCHANGED <<rows, cells, app>>

\* "as! NSDictionary" stops the app on NSNull and on an NSArray.
TeamsCastFails ==
    /\ app = "running"
    /\ \E roster \in Roster :
        \/ DOMAIN roster = {} /\ app' = "castOfNull"
        \/ ReadsAsArray(DOMAIN roster) /\ app' = "castOfArray"
    /\ UNCHANGED <<list, stale, rows, cells>>

\* Mutant: both tables are told the number of attackers.
NumberOfAttackers(t) ==
    /\ app = "running"
    /\ t \in stale
    /\ stale' = stale \ {t}
    /\ rows' = [rows EXCEPT ![t] = Len(list["Attacker"])]
    /\ cells' = [cells EXCEPT ![t] = NoCells]
    /\ UNCHANGED <<list, app>>

\* numberOfRowsInSection, asked by a table that was told to reload.
NumberOfRows(t) ==
    /\ app = "running"
    /\ t \in stale
    /\ stale' = stale \ {t}
    /\ rows' = [rows EXCEPT ![t] = Len(list[t])]
    /\ cells' = [cells EXCEPT ![t] = NoCells]
    /\ UNCHANGED <<list, app>>

\* cellForRowAt, asked for any row the table believes to have, when it comes
\* into sight.  An index that the array does not have stops the app.
CellForRowAt(t, i) ==
    /\ app = "running"
    /\ t \notin stale
    /\ i \in 1 .. rows[t]
    /\ IF i <= Len(list[t])
       THEN /\ cells' = [cells EXCEPT ![t] = [j \in DOMAIN @ \cup {i} |-> IF j = i THEN list[t][i] ELSE @[j]]]
            /\ UNCHANGED app
       ELSE /\ app' = "indexOutOfRange"
            /\ UNCHANGED cells
    /\ UNCHANGED <<list, stale, rows>>

Next ==
    \/ TeamsListener
    \/ TeamsCastFails
    \/ \E t \in Team : NumberOfRows(t)
    \/ \E t \in Team : \E i \in 1 .. rows[t] : CellForRowAt(t, i)

Spec == Init /\ [][Next]_tableVars

-----------------------------------------------------------------------------

\* A row is asked for long after the rows were counted, with any number of
\* snapshots in between, and is there all the same: every rebuilding of the
\* arrays is followed by a reload of both tables (HostLobbyViewController.
\* swift:145-157, 244-254).
RowsAreThere == app # "indexOutOfRange"

\* A table that has reloaded shows the array as it is, row by row: no name of
\* an earlier snapshot stays in sight.
TablesShowTheArrays ==
    \A t \in Team \ stale :
        /\ rows[t] = Len(list[t])
        /\ \A i \in DOMAIN cells[t] : cells[t][i] = list[t][i]

\* Nobody has two rows, in one table or in both: what START counts and the
\* winners' list copies are players (HostLobbyViewController.swift:190-191).
NobodyTwice ==
    /\ \A t \in Team : IsInjective(list[t])
    /\ ToSet(list["Attacker"]) \cap ToSet(list["Defender"]) = {}

\* "let value = snapshot.value as! NSDictionary" (HostLobbyViewController.
\* swift:145): a team with somebody on it is a dictionary.
TeamsIsDictionary == app # "castOfArray"

=============================================================================
