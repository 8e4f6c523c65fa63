-------------------------- MODULE TeamTablesProofs --------------------------
(***************************************************************************)
(* The tables of a lobby: what is asked for is there, and what is shown is *)
(* the array, for any names and any sequence of snapshots and reloads.     *)
(***************************************************************************)
EXTENDS TeamTables, FiniteSetTheorems, WellFoundedInduction, TLAPS

-----------------------------------------------------------------------------
(* The loop that fills an array.                                           *)

\* A set of numbers has a least one: the induction of this module.
LEMMA LeastNumber ==
    ASSUME NEW T, T \subseteq Nat, T # {}
    PROVE  \E x \in T : \A y \in T : ~(y < x)
<1>1. \E x \in T : \A y \in T : <<y, x>> \notin OpToRel(<, Nat)
  BY NatLessThanWellFounded, WFMin
<1> QED BY <1>1 DEF OpToRel

\* f has the arrays that the loop goes through in its first n rounds.
Filling(roster, keys, t, n, f) ==
    f = [i \in 0 .. n |->
          IF i = 0 THEN <<>>
          ELSE IF roster[keys[i]] = t THEN Append(f[i - 1], keys[i]) ELSE f[i - 1]]

\* The arrays of the rounds exist: each round needs only the one before it.
LEMMA FillingExists ==
    ASSUME NEW roster, NEW keys, NEW t, NEW n \in Nat
    PROVE  \E f : Filling(roster, keys, t, n, f)
<1> DEFINE Bad == {m \in Nat : ~ \E f : Filling(roster, keys, t, m, f)}
<1> SUFFICES ASSUME Bad # {} PROVE FALSE
  OBVIOUS
<1>1. PICK m \in Bad : \A y \in Bad : ~(y < m)
  BY LeastNumber
<1>2. CASE m = 0
  <2>1. Filling(roster, keys, t, 0, [i \in 0 .. 0 |-> <<>>])
    BY DEF Filling
  <2> QED BY <1>2, <2>1
<1>3. CASE m # 0
  <2>1. PICK f : Filling(roster, keys, t, m - 1, f)
    BY <1>1, <1>3
  <2> DEFINE g == [i \in 0 .. m |-> IF i < m THEN f[i]
                     ELSE IF roster[keys[i]] = t THEN Append(f[i - 1], keys[i]) ELSE f[i - 1]]
  <2>m. m \in Nat /\ m - 1 \in Nat
    BY <1>1, <1>3
  <2>2. \A i \in 0 .. m - 1 : f[i] = IF i = 0 THEN <<>>
                     ELSE IF roster[keys[i]] = t THEN Append(f[i - 1], keys[i]) ELSE f[i - 1]
    BY <2>1, <2>m DEF Filling
  <2>3. ASSUME NEW i \in 0 .. m
        PROVE  g[i] = IF i = 0 THEN <<>>
                      ELSE IF roster[keys[i]] = t THEN Append(g[i - 1], keys[i]) ELSE g[i - 1]
    <3>1. i # 0 => i - 1 \in 0 .. m /\ i - 1 < m
      BY <2>m
    <3>2. i # 0 => g[i - 1] = f[i - 1]
      BY <3>1
    <3>3. CASE i < m
      <4>1. g[i] = f[i] /\ i \in 0 .. m - 1
        BY <3>3, <2>m
      <4> HIDE DEF g
      <4> QED BY <4>1, <2>2, <3>2
    <3>4. CASE ~(i < m)
      <4>1. g[i] = IF roster[keys[i]] = t THEN Append(f[i - 1], keys[i]) ELSE f[i - 1]
        BY <3>4
      <4>2. i # 0
        BY <3>4, <2>m, <1>3
      <4> HIDE DEF g
      <4> QED BY <4>1, <4>2, <3>2
    <3> QED BY <3>3, <3>4
  <2>4. Filling(roster, keys, t, m, g)
    BY <2>3 DEF Filling
  <2> QED BY <2>4
<1> QED BY <1>2, <1>3

\* Members is the array after the last round.
LEMMA MembersAreFilled ==
    ASSUME NEW roster, NEW keys, NEW t, Len(keys) \in Nat,
           \E f : Filling(roster, keys, t, Len(keys), f)
    PROVE  \E f : Filling(roster, keys, t, Len(keys), f) /\ Members(roster, keys, t) = f[Len(keys)]
<1> DEFINE g == CHOOSE f : Filling(roster, keys, t, Len(keys), f)
<1>1. Filling(roster, keys, t, Len(keys), g)
  BY Zenon
<1>2. Members(roster, keys, t) = g[Len(keys)]
  BY Zenon DEF Members, Filling
<1> QED BY <1>1, <1>2

\* s lists those of the first n keys that are on team t, each of them once.
Lists(roster, keys, t, n, s) ==
    /\ s \in Seq(DOMAIN roster)
    /\ \A p \in DOMAIN roster :
         (\E i \in DOMAIN s : s[i] = p) <=> \E i \in 1 .. n : keys[i] = p /\ roster[p] = t
    /\ \A i, j \in DOMAIN s : s[i] = s[j] => i = j

\* What the loop leaves in the array of a team: its names, each of them once.
LEMMA MembersList ==
    ASSUME NEW roster, NEW t, NEW keys \in Seq(DOMAIN roster),
           \A i, j \in 1 .. Len(keys) : i # j => keys[i] # keys[j]
    PROVE  Lists(roster, keys, t, Len(keys), Members(roster, keys, t))
<1>1. Len(keys) \in Nat
  OBVIOUS
<1>2. PICK f : Filling(roster, keys, t, Len(keys), f) /\ Members(roster, keys, t) = f[Len(keys)]
  BY <1>1, MembersAreFilled, FillingExists
<1>3. \A i \in 0 .. Len(keys) :
        f[i] = IF i = 0 THEN <<>> ELSE IF roster[keys[i]] = t THEN Append(f[i - 1], keys[i]) ELSE f[i - 1]
  BY <1>2 DEF Filling
<1> DEFINE Bad == {m \in 0 .. Len(keys) : ~Lists(roster, keys, t, m, f[m])}
<1>4. Bad = {}
  <2> SUFFICES ASSUME Bad # {} PROVE FALSE
    OBVIOUS
  <2>b. Bad \subseteq Nat
    BY <1>1
  <2>1. PICK m \in Bad : \A y \in Bad : ~(y < m)
    BY <2>b, LeastNumber
  <2>m. m \in 0 .. Len(keys) /\ m \in Nat
    BY <1>1
  <2>2. CASE m = 0
    <3>1. f[m] = <<>>
      BY <1>3, <2>m, <2>2
    <3>2. Lists(roster, keys, t, 0, <<>>)
      BY DEF Lists
    <3> QED BY <3>1, <3>2, <2>2
  <2>3. CASE m # 0
    <3>1. m - 1 \in 0 .. Len(keys) /\ m \in 1 .. Len(keys) /\ m - 1 < m
      BY <2>m, <2>3
    <3>2. Lists(roster, keys, t, m - 1, f[m - 1])
      BY <3>1, <2>1
    <3>3. keys[m] \in DOMAIN roster
      BY <3>1
    <3>4. CASE roster[keys[m]] = t
      <4> DEFINE s == f[m - 1]
      <4>1. f[m] = Append(s, keys[m])
        BY <1>3, <3>4, <2>m, <2>3
      <4>2. s \in Seq(DOMAIN roster) /\ Len(s) \in Nat
        BY <3>2 DEF Lists
      <4>3. Lists(roster, keys, t, m - 1, s)
        BY <3>2
      <4> HIDE DEF s
      <4> DEFINE r == Append(s, keys[m])
      <4>4. /\ r \in Seq(DOMAIN roster)
            /\ DOMAIN r = 1 .. Len(s) + 1
            /\ r[Len(s) + 1] = keys[m]
            /\ \A i \in 1 .. Len(s) : r[i] = s[i]
            /\ DOMAIN s = 1 .. Len(s)
        BY <4>2, <3>3
      <4> HIDE DEF r
      <4>5. ~ \E i \in 1 .. m - 1 : keys[i] = keys[m]
        BY <3>1
      <4>6. ~ \E i \in DOMAIN s : s[i] = keys[m]
        BY <4>3, <4>5, <3>3 DEF Lists
      <4>7. \A i, j \in DOMAIN r : r[i] = r[j] => i = j
        BY <4>4, <4>6, <4>3, <4>2 DEF Lists
      <4>8. ASSUME NEW p \in DOMAIN roster
            PROVE  (\E i \in DOMAIN r : r[i] = p) <=> \E i \in 1 .. m : keys[i] = p /\ roster[p] = t
        <5>1. (\E i \in DOMAIN r : r[i] = p) <=> (\E i \in DOMAIN s : s[i] = p) \/ p = keys[m]
          BY <4>4, <4>2
        <5>2. (\E i \in DOMAIN s : s[i] = p) <=> \E i \in 1 .. m - 1 : keys[i] = p /\ roster[p] = t
          BY <4>3 DEF Lists
        <5>3. (\E i \in 1 .. m : keys[i] = p /\ roster[p] = t)
                <=> (\E i \in 1 .. m - 1 : keys[i] = p /\ roster[p] = t) \/ (keys[m] = p /\ roster[p] = t)
          BY <3>1, <2>m
        <5> QED BY <5>1, <5>2, <5>3, <3>4
      <4>9. Lists(roster, keys, t, m, r)
        BY <4>4, <4>7, <4>8 DEF Lists
      <4> QED BY <4>1, <4>9 DEF r
    <3>5. CASE roster[keys[m]] # t
      <4>1. f[m] = f[m - 1]
        BY <1>3, <3>5, <2>m, <2>3
      <4>2. ASSUME NEW p \in DOMAIN roster
            PROVE  (\E i \in 1 .. m : keys[i] = p /\ roster[p] = t)
                    <=> \E i \in 1 .. m - 1 : keys[i] = p /\ roster[p] = t
        BY <3>1, <2>m, <3>5
      <4>3. Lists(roster, keys, t, m, f[m - 1])
        BY <3>2, <4>2 DEF Lists
      <4> QED BY <4>1, <4>3
    <3> QED BY <3>4, <3>5
  <2> QED BY <2>2, <2>3
<1>5. Lists(roster, keys, t, Len(keys), f[Len(keys)])
  BY <1>1, <1>4
<1> QED BY <1>2, <1>5

-----------------------------------------------------------------------------
(* The tables.                                                             *)

\* A table that has reloaded was told the length of its array as it still is.
TablesAreTables == DOMAIN rows = Team /\ DOMAIN cells = Team

TablesInv == TablesAreTables /\ TablesShowTheArrays

\* Before the first snapshot every table is to reload.
LEMMA InitTables == Init => TablesInv
BY DEF Init, TablesInv, TablesAreTables, TablesShowTheArrays

\* An array changes only with every table told to reload.
LEMMA NextTables == TablesInv /\ [Next]_tableVars => TablesInv'
<1> SUFFICES ASSUME TablesInv, [Next]_tableVars PROVE TablesInv'
  OBVIOUS
<1> USE DEF TablesInv, TablesAreTables, TablesShowTheArrays
<1>1. CASE TeamsListener
  \* Every table is to reload.
  BY <1>1 DEF TeamsListener
<1>2. CASE TeamsCastFails
  BY <1>2 DEF TeamsCastFails
<1>3. ASSUME NEW t \in Team, NumberOfRows(t)
      PROVE  TablesInv'
  BY <1>3 DEF NumberOfRows, NoCells
<1>4. ASSUME NEW t \in Team, NEW i \in 1 .. rows[t], CellForRowAt(t, i)
      PROVE  TablesInv'
  <2>1. CASE i <= Len(list[t])
    <3>1. cells' = [cells EXCEPT ![t] = [j \in DOMAIN @ \cup {i} |-> IF j = i THEN list[t][i] ELSE @[j]]]
      BY <1>4, <2>1 DEF CellForRowAt
    <3>2. \A j \in DOMAIN cells'[t] : cells'[t][j] = list[t][j]
      BY <1>4, <3>1 DEF CellForRowAt
    <3> QED BY <1>4, <3>1, <3>2 DEF CellForRowAt
  <2>2. CASE ~(i <= Len(list[t]))
    BY <1>4, <2>2 DEF CellForRowAt
  <2> QED BY <2>1, <2>2
<1>5. CASE UNCHANGED tableVars
  BY <1>5 DEF tableVars
<1> QED BY <1>1, <1>2, <1>3, <1>4, <1>5 DEF Next

\* A row that a table asks for is one the array has.
LEMMA RowsStep == TablesInv /\ RowsAreThere /\ [Next]_tableVars => RowsAreThere'
<1> SUFFICES ASSUME TablesInv, RowsAreThere, [Next]_tableVars PROVE RowsAreThere'
  OBVIOUS
<1>1. CASE TeamsListener \/ TeamsCastFails \/ UNCHANGED tableVars
  BY <1>1 DEF TeamsListener, TeamsCastFails, tableVars, RowsAreThere
<1>2. ASSUME NEW t \in Team, NumberOfRows(t)
      PROVE  RowsAreThere'
  BY <1>2 DEF NumberOfRows, RowsAreThere
<1>3. ASSUME NEW t \in Team, NEW i \in 1 .. rows[t], CellForRowAt(t, i)
      PROVE  RowsAreThere'
  <2>1. i <= Len(list[t])
    BY <1>3 DEF CellForRowAt, TablesInv, TablesShowTheArrays
  <2> QED BY <1>3, <2>1 DEF CellForRowAt, RowsAreThere
<1> QED BY <1>1, <1>2, <1>3 DEF Next

\* A table shows the array as it is, row by row, unless it is about to reload:
\* no name of an earlier snapshot stays in sight.
THEOREM TablesShow == Spec => []TablesShowTheArrays
<1>1. TablesInv => TablesShowTheArrays
  BY DEF TablesInv
<1> QED BY <1>1, InitTables, NextTables, PTL DEF Spec

\* cellForRowAt never indexes an array beyond its end, however many snapshots
\* come between the counting of the rows and the asking.
THEOREM RowsThere == Spec => []RowsAreThere
<1>1. Init => RowsAreThere
  BY DEF Init, RowsAreThere
<1> QED BY <1>1, InitTables, NextTables, RowsStep, PTL DEF Spec

\* Nobody has two rows: each name is appended to the array of its team, once,
\* after both arrays were emptied (HostLobbyViewController.swift:145-155).
THEOREM NobodyIsTwice == Spec => []NobodyTwice
<1>1. Init => NobodyTwice
  BY DEF Init, NobodyTwice, IsInjective, ToSet, Team
<1>2. NobodyTwice /\ [Next]_tableVars => NobodyTwice'
  <2>1. ASSUME TeamsListener PROVE NobodyTwice'
    <3>1. PICK roster \in Roster : \E keys \in SetToSeqs(DOMAIN roster) :
            list' = [t \in Team |-> Members(roster, keys, t)]
      BY <2>1 DEF TeamsListener
    <3>2. PICK keys \in SetToSeqs(DOMAIN roster) : list' = [t \in Team |-> Members(roster, keys, t)]
      BY <3>1
    <3>3. Cardinality(DOMAIN roster) \in Nat
      <4>1. DOMAIN roster \subseteq Word \cup Digits
        BY DEF Roster, Name
      <4>2. IsFiniteSet(Word \cup Digits)
        BY WordAssumption, DigitsAssumption, FS_Union
      <4> QED BY <4>1, <4>2, FS_Subset, FS_CardinalityType
    <3>4. keys \in Seq(DOMAIN roster) /\ \A i, j \in 1 .. Len(keys) : i # j => keys[i] # keys[j]
      BY <3>3 DEF SetToSeqs
    <3>5. ASSUME NEW t \in Team
          PROVE  /\ \A i, j \in DOMAIN list'[t] : list'[t][i] = list'[t][j] => i = j
                 /\ \A i \in DOMAIN list'[t] : roster[list'[t][i]] = t
      <4>1. list'[t] = Members(roster, keys, t)
        BY <3>2
      <4>2. Lists(roster, keys, t, Len(keys), list'[t])
        BY <3>4, <4>1, MembersList
      <4> QED BY <4>2 DEF Lists
    <3>6. \A t \in Team : IsInjective(list'[t])
      BY <3>5 DEF IsInjective
    <3>7. ToSet(list'["Attacker"]) \cap ToSet(list'["Defender"]) = {}
      BY <3>5 DEF ToSet, Team
    <3> QED BY <3>6, <3>7 DEF NobodyTwice
  <2>2. ASSUME UNCHANGED list, NobodyTwice PROVE NobodyTwice'
    BY <2>2 DEF NobodyTwice, IsInjective, ToSet
  <2> QED BY <2>1, <2>2 DEF Next, TeamsCastFails, NumberOfRows, CellForRowAt, tableVars
<1> QED BY <1>1, <1>2, PTL DEF Spec

=============================================================================
