---------------------------- MODULE RosterProofs ----------------------------
(***************************************************************************)
(* Who is registered: the selections of the players reach the database,    *)
(* and the counts of a start come from those who are there.                *)
(***************************************************************************)
EXTENDS StagesProofs

-----------------------------------------------------------------------------
(* What is pending wins.                                                   *)

\* The value at l after the writes of q, over the value base.
Latest(q, l, base) ==
    LET mine == {i \in DOMAIN q : q[i][1] \in {l, Party}}
    IN  IF mine = {} THEN base ELSE q[Max(mine)][2]

LEMMA ComingIsLatest ==
    ASSUME NEW c, NEW l
    PROVE  /\ Coming(c, l) = Latest(outbox[c], l, db[l])
           /\ Coming(c, l)' = Latest(outbox'[c], l, db'[l])
           /\ View(c, l) = Latest(outbox[c], l, cache[c][l])
BY DEF Coming, View, Merged, Pending, Latest

LEMMA LatestNone ==
    ASSUME NEW q, NEW l, NEW base, \A i \in DOMAIN q : q[i][1] \notin {l, Party}
    PROVE  Latest(q, l, base) = base
BY DEF Latest

LEMMA LatestAt ==
    ASSUME NEW q \in Seq(Write), NEW l, NEW base, NEW i \in DOMAIN q, q[i][1] \in {l, Party},
           \A j \in DOMAIN q : i < j => q[j][1] \notin {l, Party}
    PROVE  Latest(q, l, base) = q[i][2]
<1> DEFINE mine == {k \in DOMAIN q : q[k][1] \in {l, Party}}
<1>1. Len(q) \in Nat /\ DOMAIN q = 1 .. Len(q)
  BY LenProperties
<1>2. mine \in SUBSET (1 .. Len(q)) /\ i \in mine /\ \A k \in mine : k <= i
  BY <1>1
<1>3. Max(mine) = i
  <2>1. Max(mine) \in mine /\ \A k \in mine : Max(mine) >= k
    <3> HIDE DEF mine
    <3> QED BY <1>1, <1>2, MaxIsMember
  <2> HIDE DEF mine
  <2> QED BY <1>1, <1>2, <2>1
<1> QED BY <1>2, <1>3 DEF Latest

\* There is a last one, if there is any.
LEMMA LatestCases ==
    ASSUME NEW q \in Seq(Write), NEW l, NEW base
    PROVE  \/ /\ Latest(q, l, base) = base
              /\ \A i \in DOMAIN q : q[i][1] \notin {l, Party}
           \/ \E i \in DOMAIN q :
                /\ q[i][1] \in {l, Party}
                /\ \A j \in DOMAIN q : i < j => q[j][1] \notin {l, Party}
                /\ Latest(q, l, base) = q[i][2]
<1> DEFINE mine == {k \in DOMAIN q : q[k][1] \in {l, Party}}
<1>1. Len(q) \in Nat /\ DOMAIN q = 1 .. Len(q)
  BY LenProperties
<1>2. CASE mine = {}
  BY <1>2 DEF Latest
<1>3. CASE mine # {}
  <2>1. mine \in SUBSET (1 .. Len(q))
    BY <1>1
  <2>2. Max(mine) \in mine /\ \A k \in mine : Max(mine) >= k
    <3> HIDE DEF mine
    <3> QED BY <1>1, <1>3, <2>1, MaxIsMember
  <2>3. PICK i \in mine : i = Max(mine)
    BY <2>2
  <2>4. i \in DOMAIN q /\ q[i][1] \in {l, Party}
    BY <2>3
  <2>5. ASSUME NEW j \in DOMAIN q, i < j
        PROVE  q[j][1] \notin {l, Party}
    <3>1. j \in mine => i >= j
      BY <2>2, <2>3
    <3> HIDE DEF mine
    <3>2. j \notin mine
      BY <1>1, <2>4, <2>5, <3>1
    <3> QED BY <3>2 DEF mine
  <2> QED BY <2>4, <2>5, LatestAt
<1> QED BY <1>2, <1>3

\* Writes elsewhere do not change what is coming, ...
LEMMA ComingPut ==
    ASSUME TypeOK, TypeOK', NEW c \in Player, NEW ws \in Seq(Write), Put(c, ws), db' = db, NEW l,
           \A i \in 1 .. Len(ws) : ws[i][1] \notin {l, Party}
    PROVE  Coming(c, l)' = Coming(c, l)
<1> DEFINE q == outbox[c]
<1> DEFINE qq == outbox'[c]
<1>t. q \in Seq(Write) /\ qq \in Seq(Write)
  BY DEF TypeOK, DBTypeOK
<1>p. /\ \A i \in DOMAIN q : i \in DOMAIN qq /\ qq[i] = q[i]
      /\ \A k \in DOMAIN qq : \/ k \in DOMAIN q /\ qq[k] = q[k]
                              \/ \E j \in 1 .. Len(ws) : qq[k] = ws[j]
  BY SendsPositions
<1>l. Coming(c, l) = Latest(q, l, db[l]) /\ Coming(c, l)' = Latest(qq, l, db[l])
  BY ComingIsLatest
<1> HIDE DEF q, qq
<1>1. CASE \A i \in DOMAIN q : q[i][1] \notin {l, Party}
  <2>1. \A i \in DOMAIN qq : qq[i][1] \notin {l, Party}
    BY <1>1, <1>p
  <2> QED BY <1>1, <2>1, <1>l, LatestNone
<1>2. ASSUME NEW i \in DOMAIN q, q[i][1] \in {l, Party},
             \A j \in DOMAIN q : i < j => q[j][1] \notin {l, Party}
      PROVE  Coming(c, l)' = Coming(c, l)
  <2>1. /\ i \in DOMAIN qq /\ qq[i] = q[i]
        /\ \A j \in DOMAIN qq : i < j => qq[j][1] \notin {l, Party}
    BY <1>2, <1>p
  <2>2. Latest(q, l, db[l]) = q[i][2]
    BY <1>t, <1>2, LatestAt
  <2>3. Latest(qq, l, db[l]) = qq[i][2]
    BY <1>t, <1>2, <2>1, LatestAt
  <2> QED BY <1>l, <2>1, <2>2, <2>3
<1> QED BY <1>t, <1>1, <1>2, LatestCases

\* ... and the last one of the writes there is what is coming.
LEMMA ComingPutLast ==
    ASSUME TypeOK, TypeOK', NEW c \in Player, NEW ws \in Seq(Write), Put(c, ws), NEW l,
           NEW k \in 1 .. Len(ws), ws[k][1] \in {l, Party},
           \A i \in 1 .. Len(ws) : k < i => ws[i][1] \notin {l, Party}
    PROVE  Coming(c, l)' = ws[k][2]
<1> DEFINE n == Len(outbox[c])
<1> DEFINE qq == outbox'[c]
<1>p. /\ n \in Nat /\ Len(ws) \in Nat
      /\ DOMAIN outbox[c] = 1 .. n /\ DOMAIN qq = 1 .. (n + Len(ws))
      /\ \A i \in 1 .. Len(ws) : qq[n + i] = ws[i]
  BY PutPositions
<1>s. \A i \in DOMAIN qq : \/ i \in DOMAIN outbox[c]
                           \/ \E j \in 1 .. Len(ws) : i = n + j /\ qq[i] = ws[j]
  BY SendsPositions
<1>t. qq \in Seq(Write)
  BY DEF TypeOK, DBTypeOK
<1>l. Coming(c, l)' = Latest(qq, l, db'[l])
  BY ComingIsLatest
<1> HIDE DEF qq, n
<1>1. n + k \in DOMAIN qq /\ qq[n + k] = ws[k]
  BY <1>p
<1>2. ASSUME NEW j \in DOMAIN qq, n + k < j
      PROVE  qq[j][1] \notin {l, Party}
  <2>1. j \notin DOMAIN outbox[c]
    BY <1>p, <1>2
  <2>2. PICK i \in 1 .. Len(ws) : j = n + i /\ qq[j] = ws[i]
    BY <1>s, <2>1
  <2> QED BY <1>p, <1>2, <2>2
<1> QED BY <1>l, <1>t, <1>1, <1>2, LatestAt

\* What is committed was coming.
LEMMA ComingCommit ==
    ASSUME TypeOK, TypeOK', NEW c \in Player, Commit(c), NEW l \in Loc
    PROVE  Coming(c, l)' = Coming(c, l)
<1> DEFINE q == outbox[c]
<1> DEFINE qq == outbox'[c]
<1>t. q \in Seq(Write) /\ qq \in Seq(Write)
  BY DEF TypeOK, DBTypeOK
<1>p. /\ 1 \in DOMAIN q
      /\ \A i \in DOMAIN qq : i + 1 \in DOMAIN q /\ qq[i] = q[i + 1] /\ 1 < i + 1
      /\ \A i \in DOMAIN q : i # 1 => (i - 1 \in DOMAIN qq /\ qq[i - 1] = q[i])
      /\ DOMAIN q \subseteq Int /\ DOMAIN qq \subseteq Int
  BY CommitShift
<1>w. /\ q[1] \in Write
      /\ q[1][1] = Party => db'[l] = Null
      /\ q[1][1] # Party => db'[l] = IF l = q[1][1] THEN q[1][2] ELSE db[l]
  BY CommitEffect
<1>l. Coming(c, l) = Latest(q, l, db[l]) /\ Coming(c, l)' = Latest(qq, l, db'[l])
  BY ComingIsLatest
<1> HIDE DEF q, qq
<1>1. CASE \A i \in DOMAIN q : q[i][1] \notin {l, Party}
  <2>1. \A i \in DOMAIN qq : qq[i][1] \notin {l, Party}
    BY <1>1, <1>p
  <2>2. db'[l] = db[l]
    BY <1>1, <1>p, <1>w
  <2> QED BY <1>1, <2>1, <2>2, <1>l, LatestNone
<1>2. ASSUME NEW i \in DOMAIN q, q[i][1] \in {l, Party},
             \A j \in DOMAIN q : i < j => q[j][1] \notin {l, Party}
      PROVE  Coming(c, l)' = Coming(c, l)
  <2>1. Latest(q, l, db[l]) = q[i][2]
    BY <1>t, <1>2, LatestAt
  <2>2. CASE i = 1
    <3>1. \A j \in DOMAIN qq : qq[j][1] \notin {l, Party}
      BY <1>2, <1>p, <2>2
    <3>2. db'[l] = q[1][2]
      BY <1>2, <1>w, <2>2, WriteShape, PartyIsNoLoc
    <3> QED BY <1>l, <2>1, <2>2, <3>1, <3>2, LatestNone
  <2>3. CASE i # 1
    <3>1. i - 1 \in DOMAIN qq /\ qq[i - 1] = q[i]
      BY <1>p, <2>3
    <3>2. ASSUME NEW j \in DOMAIN qq, i - 1 < j
          PROVE  qq[j][1] \notin {l, Party}
      <4>1. j + 1 \in DOMAIN q /\ qq[j] = q[j + 1] /\ i < j + 1
        BY <1>p, <3>2
      <4> QED BY <1>2, <4>1
    <3>3. Latest(qq, l, db'[l]) = qq[i - 1][2]
      BY <1>t, <1>2, <3>1, <3>2, LatestAt
    <3> QED BY <1>l, <2>1, <3>1, <3>3
  <2> QED BY <2>2, <2>3
<1> QED BY <1>t, <1>1, <1>2, LatestCases

-----------------------------------------------------------------------------
(* A party that is over stays so.                                          *)

LEMMA OverStays ==
    ASSUME TypeOK, ScreenInv, WipeInv, Over, [Next]_vars
    PROVE  Over'
<1> USE HostAssumption
<1>1. CASE HostOpens
  BY <1>1 DEF HostOpens, Over, Opening
<1>2. CASE HostIdle
  BY <1>2 DEF HostIdle, Over, Opening, Queued, Standing
<1>3. CASE HostStops
  <2>1. DOMAIN <<>> = {}
    OBVIOUS
  <2> QED BY <1>3, <2>1 DEF HostStops, Over, Opening, Queued, Standing
<1>4. ASSUME NEW ws \in Seq(Write), HostSends(ws)
      PROVE  Over'
  <2>1. Queued(Host, Flags)' => Queued(Host, Flags)
    BY <1>4, QueuedPut DEF HostSends
  <2> QED BY <1>4, <2>1 DEF HostSends, Over, Opening, Standing
<1>5. CASE Commits(Host)
  <2>1. ~Opening'
    BY <1>5, CommitOpening DEF Commits, Over, WipeInv
  <2>2. outbox[Host][1][1] # Flags
    BY <1>5, CommitShift DEF Commits, Over, Opening, Queued
  <2>3. db'[Flags] = Null
    BY <1>5, <2>2, CommitEffect, Globals DEF Commits, Over, Standing
  <2> QED BY <2>1, <2>3 DEF Over, Standing
<1>6. ASSUME NEW c \in Regular, Commits(c)
      PROVE  Over'
  BY <1>6, RegularCommitEffect, Globals DEF WipeInv, Over, Standing
<1> QED BY <1>1, <1>2, <1>3, <1>4, <1>5, <1>6, HostQueueSteps DEF Regular

\* A removal that arrives ends the party.
LEMMA WipedIsOver ==
    ASSUME TypeOK, WipeInv, NEW c \in Player, Commits(c), outbox[c][1][1] = Party
    PROVE  Over'
<1>1. \A l \in Loc : db'[l] = Null
  BY CommitEffect DEF Commits
<1>2. CASE c = Host
  BY <1>1, <1>2, CommitOpening, Globals DEF Commits, WipeInv, Over, Standing
<1>3. CASE c \in Regular
  BY <1>1, <1>3, RegularCommitEffect, Globals DEF WipeInv, Over, Standing
<1> QED BY <1>2, <1>3 DEF Regular

-----------------------------------------------------------------------------
(* The selections.                                                         *)

\* The teams of different players, and of one, are different locations.
LEMMA TeamsApart ==
    ASSUME NEW c \in Player, NEW d \in Player
    PROVE  /\ TeamOf(c) \in Loc /\ HashTeamOf(c) \in Loc /\ TeamOf(c) \in Watched
           /\ c # d => TeamOf(c) # TeamOf(d) /\ HashTeamOf(c) # HashTeamOf(d)
           /\ TeamOf(c) # HashTeamOf(d) /\ TeamOf(c) # RecordOf(d) /\ HashTeamOf(c) # RecordOf(d)
<1>1. TeamOf(c) \in Loc /\ HashTeamOf(c) \in Loc /\ TeamOf(c) \in Watched
  BY DEF Loc, Watched
<1>2. /\ c # d => TeamOf(c) # TeamOf(d) /\ HashTeamOf(c) # HashTeamOf(d)
      /\ TeamOf(c) # HashTeamOf(d) /\ TeamOf(c) # RecordOf(d) /\ HashTeamOf(c) # RecordOf(d)
  BY DEF TeamOf, HashTeamOf, RecordOf
<1> QED BY <1>1, <1>2

\* What a player writes is the player's own.
LEMMA PlacesApart ==
    ASSUME NEW c \in Player
    PROVE  /\ PlacesOf(c) \subseteq Loc /\ Party \notin PlacesOf(c)
           /\ RecordOf(c) \in PlacesOf(c) /\ TeamOf(c) \in PlacesOf(c) /\ HashTeamOf(c) \in PlacesOf(c)
           /\ c = Host => Global \subseteq PlacesOf(c)
           /\ \A d \in Player : c # d => PlacesOf(c) \cap PlacesOf(d) = {}
<1>1. PlacesOf(c) \subseteq Loc
  BY DEF PlacesOf, Loc
<1>2. ASSUME NEW d \in Player, c # d
      PROVE  PlacesOf(c) \cap PlacesOf(d) = {}
  <2>1. \A p \in Player : RecordOf(p) \notin Global /\ TeamOf(p) \notin Global /\ HashTeamOf(p) \notin Global
    BY DEF RecordOf, TeamOf, HashTeamOf, Global, GameState, FlagsCaptured, NumAttackers, NumDefenders,
           EndTime, Flags
  <2>2. RecordOf(c) # RecordOf(d)
    BY <1>2 DEF RecordOf
  <2>3. {RecordOf(c), TeamOf(c), HashTeamOf(c)} \cap {RecordOf(d), TeamOf(d), HashTeamOf(d)} = {}
    BY <1>2, <2>2, TeamsApart
  <2>4. ~(c = Host /\ d = Host)
    BY <1>2
  <2> QED BY <2>1, <2>3, <2>4 DEF PlacesOf
<1> QED BY <1>1, <1>2, PartyIsNoLoc DEF PlacesOf

Chosen(c) ==
    /\ Coming(c, TeamOf(c)) = selector[c]
    /\ selector[c] = "Defender" => Coming(c, HashTeamOf(c)) = "Defender"
    /\ c = Host => Coming(c, HashTeamOf(c)) \in {Null, selector[c]}

\* The part of RoleInv that is about c.
RoleOf(c) ==
    /\ \A i \in DOMAIN outbox[c] : outbox[c][i][1] \in PlacesOf(c) \cup {Party}
    /\ Queued(c, Party) => screen[c] = "left"
    /\ screen[c] \in {"lobby"} \cup Team => Over \/ Chosen(c)
    /\ screen[c] \in Team => screen[c] = selector[c]

LEMMA RoleByPlayer == RoleInv <=> \A c \in Player : RoleOf(c)
<1>1. RoleInv => \A c \in Player : RoleOf(c)
  BY DEF RoleInv, OwnPlacesOnly, WipesWhenLeft, SelectionIsComing, PlaysAsSelected, RoleOf, Chosen
<1>2. (\A c \in Player : RoleOf(c)) => RoleInv
  BY DEF RoleInv, OwnPlacesOnly, WipesWhenLeft, SelectionIsComing, PlaysAsSelected, RoleOf, Chosen
<1> QED BY <1>1, <1>2

LEMMA RoleByPlayerNext == (\A c \in Player : RoleOf(c)') => RoleInv'
BY DEF RoleInv, OwnPlacesOnly, WipesWhenLeft, SelectionIsComing, PlaysAsSelected, RoleOf, Chosen

\* Steps in which c writes nothing.
LEMMA RoleQuiet ==
    ASSUME NEW c \in Player, RoleOf(c), Over => Over', db' = db,
           outbox'[c] = outbox[c], selector'[c] = selector[c],
           \/ screen'[c] = screen[c]
           \/ screen[c] # "left" /\ screen'[c] \notin {"lobby"} \cup Team
           \/ screen[c] = "lobby" /\ screen'[c] = selector[c]
    PROVE  RoleOf(c)'
<1>1. Chosen(c) => Chosen(c)'
  BY ComingIsLatest DEF Chosen
<1> QED BY <1>1 DEF RoleOf, Queued, Team

\* Steps in which c writes anything but a removal.
LEMMA RolePut ==
    ASSUME TypeOK, NEW c \in Player, RoleOf(c), NEW ws \in Seq(Write), Put(c, ws), screen[c] # "left",
           \A i \in 1 .. Len(ws) : ws[i][1] \in PlacesOf(c),
           Over' \/ Chosen(c)',
           screen'[c] \in Team => screen'[c] = selector'[c]
    PROVE  RoleOf(c)'
<1>1. ~Queued(c, Party)'
  BY QueuedPut, PlacesApart DEF RoleOf
<1>2. \A i \in DOMAIN outbox'[c] : outbox'[c][i][1] \in PlacesOf(c) \cup {Party}
  BY SendsPositions DEF RoleOf
<1> QED BY <1>1, <1>2 DEF RoleOf, PlacesOf

\* Writes that have nothing to do with teams.
LEMMA RolePutElse ==
    ASSUME TypeOK, TypeOK', RoleOf(Host), NEW ws \in Seq(Write), Put(Host, ws), db' = db,
           Over => Over', screen[Host] \in {"lobby"} \cup Team, selector'[Host] = selector[Host],
           \A i \in 1 .. Len(ws) : ws[i][1] \in Global,
           screen'[Host] \in Team => screen'[Host] = selector[Host]
    PROVE  RoleOf(Host)'
<1> DEFINE c == Host
<1>c. c \in Player
  BY HostAssumption
<1> HIDE DEF c
<1>1. \A i \in 1 .. Len(ws) : /\ ws[i][1] # Party /\ ws[i][1] \in PlacesOf(c)
                              /\ \A d \in Player : ws[i][1] # TeamOf(d) /\ ws[i][1] # HashTeamOf(d)
  BY <1>c, OwnLocations, Globals, PlacesApart DEF c
<1>2. Chosen(c) => Chosen(c)'
  <2>1. Coming(c, TeamOf(c))' = Coming(c, TeamOf(c)) /\ Coming(c, HashTeamOf(c))' = Coming(c, HashTeamOf(c))
    BY <1>c, <1>1, ComingPut DEF c
  <2> QED BY <2>1 DEF Chosen, c
<1> QED BY <1>c, <1>1, <1>2, RolePut DEF RoleOf, Team, c

LEMMA RoleOpens ==
    ASSUME TypeOK, TypeOK', ScreenInv, NEW c \in Player, RoleOf(c), NEW ws \in Seq(Write), Open(c, ws),
           screen[c] \notin Alive,
           NEW k \in 1 .. Len(ws), k = Len(ws), ws[k] = <<TeamOf(c), "Attacker">>,
           \A i \in 1 .. Len(ws) : ws[i][1] \in PlacesOf(c),
           c = Host => Coming(c, HashTeamOf(c))' = Null
    PROVE  RoleOf(c)'
<1>1. selector'[c] = "Attacker" /\ screen'[c] = "lobby" /\ screen[c] # "left" /\ Put(c, ws)
  BY DEF Open, ScreenInv, StoppedIsSilent, Alive, Screen, TypeOK, LobbyTypeOK
<1>2. Coming(c, TeamOf(c))' = "Attacker"
  <2>1. ws[k][1] = TeamOf(c) /\ ws[k][2] = "Attacker" /\ ~\E i \in 1 .. Len(ws) : k < i
    OBVIOUS
  <2> QED BY <1>1, <2>1, ComingPutLast
<1>3. Chosen(c)'
  BY <1>1, <1>2 DEF Chosen
<1>4. screen'[c] \notin Team
  BY <1>1 DEF Team
<1> QED BY <1>1, <1>3, <1>4, RolePut

\* A selection is coming in both places.
LEMMA SelectionComes ==
    ASSUME TypeOK, TypeOK', NEW c \in Player, NEW t \in Team, ValueChanged(c, t)
    PROVE  /\ Coming(c, TeamOf(c))' = t /\ Coming(c, HashTeamOf(c))' = t
           /\ \E ws \in Seq(Write) : Put(c, ws) /\ \A i \in 1 .. Len(ws) : ws[i][1] \in PlacesOf(c)
<1> DEFINE ws == << <<TeamOf(c), t>>, <<HashTeamOf(c), t>> >>
<1>1. ws \in Seq(Write)
  BY WritesAreWrites, ShortSeqs
<1>2. Len(ws) = 2 /\ ws[1][1] = TeamOf(c) /\ ws[2][1] = HashTeamOf(c) /\ ws[1][2] = t /\ ws[2][2] = t
  OBVIOUS
<1>3. Put(c, ws)
  BY DEF ValueChanged
<1> HIDE DEF ws
<1>4. /\ ws[2][1] \notin {TeamOf(c), Party}
      /\ \A i \in 1 .. Len(ws) : ws[i][1] \in PlacesOf(c)
  BY <1>2, OwnLocations, TeamsApart, PlacesApart
<1>5. 1 \in 1 .. Len(ws) /\ 2 \in 1 .. Len(ws) /\ \A i \in 1 .. Len(ws) : (1 < i => i = 2) /\ ~(2 < i)
  BY <1>2
<1>6. Coming(c, TeamOf(c))' = t
  BY <1>1, <1>2, <1>3, <1>4, <1>5, ComingPutLast
<1>7. Coming(c, HashTeamOf(c))' = t
  BY <1>1, <1>2, <1>3, <1>5, ComingPutLast
<1> QED BY <1>1, <1>3, <1>4, <1>6, <1>7

LEMMA RoleSelects ==
    ASSUME TypeOK, TypeOK', NEW c \in Player, RoleOf(c), NEW t \in Team, ValueChanged(c, t)
    PROVE  RoleOf(c)'
<1>1. PICK ws \in Seq(Write) : Put(c, ws) /\ \A i \in 1 .. Len(ws) : ws[i][1] \in PlacesOf(c)
  BY SelectionComes
<1>2. selector'[c] = t /\ screen[c] = "lobby" /\ screen'[c] = "lobby"
  BY DEF ValueChanged, TypeOK, LobbyTypeOK
<1>3. Chosen(c)'
  BY <1>2, SelectionComes DEF Chosen
<1> QED BY <1>1, <1>2, <1>3, RolePut DEF Team

LEMMA RoleHost ==
    ASSUME TypeOK, TypeOK', ScreenInv, WipeInv, ToldInv, RoleOf(Host), Over => Over', HostStep
    PROVE  RoleOf(Host)'
<1> USE HostAssumption
<1>1. CASE HostOpens
  <2> DEFINE ws == << <<GameState, "inLobby">>, <<RecordOf(Host), "Alive">>, <<Flags, "Free">>,
                      <<TeamOf(Host), "Attacker">> >>
  <2>1. /\ Len(ws) = 4 /\ ws[1][1] = GameState /\ ws[2][1] = RecordOf(Host)
        /\ ws[3][1] = Flags /\ ws[4] = <<TeamOf(Host), "Attacker">>
    OBVIOUS
  <2>2. ws \in Seq(Write)
    <3>1. /\ <<GameState, "inLobby">> \in Write /\ <<Flags, "Free">> \in Write
          /\ <<RecordOf(Host), "Alive">> \in Write /\ <<TeamOf(Host), "Attacker">> \in Write
      BY WritesAreWrites DEF Stage, Team
    <3> QED BY <3>1, ShortSeqs
  <2>3. Open(Host, ws) /\ screen[Host] \notin Alive
    BY <1>1 DEF HostOpens, Alive
  <2> HIDE DEF ws
  <2>4. \A i \in 1 .. Len(ws) : ws[i][1] \in PlacesOf(Host)
    BY <2>1, PlacesApart DEF Global
  <2>5. 4 \in 1 .. Len(ws)
    BY <2>1
  <2>6. Coming(Host, HashTeamOf(Host))' = Null
    <3>1. \A i \in 1 .. Len(ws) : ws[i][1] \notin {HashTeamOf(Host), Party}
      BY <2>1, OwnLocations, TeamsApart, Globals
    <3>2. Put(Host, ws) /\ db' = db /\ screen[Host] = "menu" /\ outbox[Host] = <<>>
      BY <1>1, <2>3 DEF HostOpens, Open, ScreenInv, StoppedIsSilent
    <3>3. db[HashTeamOf(Host)] = Null
      BY <3>2, TeamsApart DEF ScreenInv, HostComesFirst, PartyExists
    <3>4. \A i \in DOMAIN outbox[Host] : outbox[Host][i][1] \notin {HashTeamOf(Host), Party}
      <4>1. DOMAIN <<>> = {}
        OBVIOUS
      <4> QED BY <3>2, <4>1
    <3>5. Coming(Host, HashTeamOf(Host)) = Null
      BY <3>3, <3>4, ComingIsLatest, LatestNone
    <3> QED BY <2>2, <3>1, <3>2, <3>5, ComingPut
  <2> QED BY <2>1, <2>2, <2>3, <2>4, <2>5, <2>6, RoleOpens
<1>2. CASE StartButton
  <2> DEFINE ws == << <<FlagsCaptured, 0>>, <<NumAttackers, Cardinality(attackers[Host])>>,
                      <<NumDefenders, Cardinality(defenders[Host])>>, <<GameState, "inProgress">> >>
  <2>1. ws \in Seq(Write)
    <3>1. Cardinality(attackers[Host]) \in Count /\ Cardinality(defenders[Host]) \in Count
      BY CountsAreCounts DEF TypeOK, LobbyTypeOK
    <3>2. /\ <<FlagsCaptured, 0>> \in Write
          /\ <<NumAttackers, Cardinality(attackers[Host])>> \in Write
          /\ <<NumDefenders, Cardinality(defenders[Host])>> \in Write
          /\ <<GameState, "inProgress">> \in Write
      BY <3>1, WritesAreWrites DEF Stage
    <3> QED BY <3>2, ShortSeqs
  <2>2. /\ Len(ws) = 4
        /\ ws[1][1] = FlagsCaptured /\ ws[2][1] = NumAttackers /\ ws[3][1] = NumDefenders
        /\ ws[4][1] = GameState
    OBVIOUS
  <2>3. /\ Put(Host, ws) /\ db' = db /\ screen[Host] = "lobby" /\ screen'[Host] = "lobby"
        /\ selector' = selector
    BY <1>2 DEF StartButton
  <2> HIDE DEF ws
  <2>4. \A i \in 1 .. Len(ws) : ws[i][1] \in Global
    BY <2>2, Globals DEF Tallies
  <2> QED BY <2>1, <2>3, <2>4, RolePutElse DEF Team
<1>3. CASE HostGameStateEvent
  <2> PICK status \in Stage :
        /\ StatusChanges(Host, status)
        /\ IF status = "inProgress"
           THEN Put(Host, << <<EndTime, "tenMinutesFromNow">> >>) /\ Segue(Host)
           ELSE UNCHANGED <<outbox, screen, received>>
        /\ db' = db /\ selector' = selector
    BY <1>3 DEF HostGameStateEvent
  <2>1. CASE status # "inProgress"
    BY <2>1, RoleQuiet
  <2>2. CASE status = "inProgress"
    <3> DEFINE ws == << <<EndTime, "tenMinutesFromNow">> >>
    <3>1. ws \in Seq(Write) /\ Len(ws) = 1 /\ ws[1][1] = EndTime
      BY WritesAreWrites
    <3>2. Put(Host, ws)
      BY <2>2
    <3> HIDE DEF ws
    <3>3. screen'[Host] = selector[Host] /\ screen'[Host] \in Team
      BY <2>2 DEF Segue, TypeOK, LobbyTypeOK
    <3>4. screen[Host] \in {"lobby"} \cup Team
      BY <1>3, <3>3, SegueStep DEF Next, HostStep
    <3>5. \A i \in 1 .. Len(ws) : ws[i][1] \in Global
      BY <3>1, EndTimeApart
    <3> QED BY <3>1, <3>2, <3>3, <3>4, <3>5, RolePutElse
  <2> QED BY <2>1, <2>2
<1>4. CASE HostTeamsEvent
  BY <1>4, RoleQuiet DEF HostTeamsEvent, ReceiveTeams, dbVars
<1>5. CASE HostDidDisappear
  BY <1>5, RoleQuiet DEF HostDidDisappear, StopListening
<1>6. CASE HostValueChanged
  BY <1>6, RoleSelects DEF HostValueChanged
<1> QED BY <1>1, <1>2, <1>3, <1>4, <1>5, <1>6 DEF HostStep

LEMMA RoleRegular ==
    ASSUME TypeOK, TypeOK', ScreenInv, WipeInv, ToldInv, NEW c \in Regular, RoleOf(c), Over => Over',
           RegularStep(c)
    PROVE  RoleOf(c)'
<1>c. c \in Player
  BY DEF Regular
<1>1. CASE RegularOpens(c)
  <2> DEFINE ws == << <<RecordOf(c), "Alive">>, <<TeamOf(c), "Attacker">> >>
  <2>1. Len(ws) = 2 /\ ws[1][1] = RecordOf(c) /\ ws[2] = <<TeamOf(c), "Attacker">>
    OBVIOUS
  <2>2. ws \in Seq(Write)
    BY <1>c, WritesAreWrites, ShortSeqs DEF Team
  <2>3. Open(c, ws) /\ screen[c] \notin Alive
    BY <1>1 DEF RegularOpens
  <2> HIDE DEF ws
  <2>4. \A i \in 1 .. Len(ws) : ws[i][1] \in PlacesOf(c)
    BY <1>c, <2>1, PlacesApart
  <2>5. 2 \in 1 .. Len(ws) /\ c # Host
    BY <2>1 DEF Regular
  <2> QED BY <1>c, <2>1, <2>2, <2>3, <2>4, <2>5, RoleOpens
<1>2. CASE RegularGameStateEvent(c)
  <2>1. /\ db' = db /\ outbox' = outbox /\ selector' = selector
        /\ screen'[c] = screen[c] \/ Segue(c)
    BY <1>2 DEF RegularGameStateEvent, dbVars
  <2>2. CASE screen'[c] = screen[c]
    BY <1>c, <2>1, <2>2, RoleQuiet
  <2>3. CASE screen'[c] # screen[c]
    <3>1. screen'[c] = selector[c] /\ screen'[c] \in Team
      BY <1>c, <2>1, <2>3 DEF Segue, TypeOK, LobbyTypeOK
    <3>2. screen[c] = "lobby"
      BY <1>c, <1>2, <2>3, <3>1, SegueStep DEF Next, RegularStep
    <3> QED BY <1>c, <2>1, <3>1, <3>2, RoleQuiet
  <2> QED BY <2>2, <2>3
<1>3. CASE RegularTeamsEvent(c)
  BY <1>c, <1>3, RoleQuiet DEF RegularTeamsEvent, ReceiveTeams, dbVars
<1>4. CASE RegularDidDisappear(c)
  BY <1>c, <1>4, RoleQuiet DEF RegularDidDisappear, StopListening
<1>5. CASE RegularValueChanged(c)
  BY <1>c, <1>5, RoleSelects DEF RegularValueChanged
<1> QED BY <1>1, <1>2, <1>3, <1>4, <1>5 DEF RegularStep

LEMMA RoleGameOver ==
    ASSUME TypeOK, NEW c \in Player, RoleOf(c), Over => Over', GameOverStep(c)
    PROVE  RoleOf(c)'
<1>1. CASE GameEnds(c)
  <2>1. screen[c] \in Team /\ screen'[c] = "gameOver"
    BY <1>1 DEF GameEnds, TypeOK, LobbyTypeOK
  <2> QED BY <1>1, <2>1, RoleQuiet DEF GameEnds, dbVars, Team
<1>2. CASE GameOverDidDisappear(c)
  <2>1. screen[c] = "gameOver" /\ screen'[c] = "leaving"
    BY <1>2 DEF GameOverDidDisappear, TypeOK, LobbyTypeOK
  <2> QED BY <1>2, <2>1, RoleQuiet DEF GameOverDidDisappear, dbVars, Team
<1>3. CASE WipeParty(c)
  <2> DEFINE ws == << <<Party, Null>> >>
  <2>1. ws \in Seq(Write) /\ Len(ws) = 1 /\ ws[1][1] = Party
    BY WritesAreWrites
  <2>2. /\ screen[c] = "leaving" /\ screen'[c] = "left"
        /\ Put(c, ws) \/ UNCHANGED outbox
    BY <1>3 DEF WipeParty, TypeOK, LobbyTypeOK
  <2> HIDE DEF ws
  <2>3. \A i \in DOMAIN outbox'[c] : outbox'[c][i][1] \in PlacesOf(c) \cup {Party}
    <3>1. CASE Put(c, ws)
      BY <2>1, <3>1, SendsPositions DEF RoleOf
    <3>2. CASE UNCHANGED outbox
      BY <3>2 DEF RoleOf
    <3> QED BY <2>2, <3>1, <3>2
  <2> QED BY <2>2, <2>3 DEF RoleOf, Team, PlacesOf
<1> QED BY <1>1, <1>2, <1>3 DEF GameOverStep

LEMMA RoleStops ==
    ASSUME TypeOK, NEW c \in Player, NEW how \in {"closed", "crashed"}, Die(c, how)
    PROVE  RoleOf(c)'
<1>1. screen'[c] = how /\ outbox'[c] = <<>> /\ DOMAIN <<>> = {}
  BY DEF Die, Disconnect, TypeOK, DBTypeOK, LobbyTypeOK
<1> QED BY <1>1 DEF RoleOf, Queued, Team

\* A commit that is no removal leaves alone what the others write.
LEMMA OthersPlaces ==
    ASSUME TypeOK, RoleInv, NEW d \in Player, Commits(d), outbox[d][1][1] # Party,
           NEW c \in Player, c # d, NEW l \in PlacesOf(c)
    PROVE  db'[l] = db[l]
<1>1. outbox[d][1][1] \in PlacesOf(d)
  BY CommitShift DEF Commits, RoleInv, OwnPlacesOnly
<1>2. l \in Loc /\ l # outbox[d][1][1]
  BY <1>1, PlacesApart
<1> QED BY <1>2, CommitEffect DEF Commits

\* A commit of one player's write, seen from every player.
LEMMA RoleCommit ==
    ASSUME TypeOK, TypeOK', ScreenInv, WipeInv, RoleInv, Over => Over',
           NEW d \in Player, Commits(d), NEW c \in Player
    PROVE  RoleOf(c)'
<1>r. RoleOf(c) /\ RoleOf(d)
  BY RoleByPlayer
<1>w. /\ outbox[d][1][1] # Party =>
            \A l \in Loc : db'[l] = IF l = outbox[d][1][1] THEN outbox[d][1][2] ELSE db[l]
      /\ screen' = screen /\ selector' = selector
  BY CommitEffect DEF Commits, lobbyVars
<1>p. /\ 1 \in DOMAIN outbox[d]
      /\ \A i \in DOMAIN outbox'[d] : i + 1 \in DOMAIN outbox[d] /\ outbox'[d][i] = outbox[d][i + 1]
      /\ \A e \in Player \ {d} : outbox'[e] = outbox[e]
  BY CommitShift DEF Commits
<1>1. Over' \/ (Chosen(c) => Chosen(c)')
  <2>1. CASE outbox[d][1][1] = Party
    BY <2>1, WipedIsOver
  <2>2. CASE outbox[d][1][1] # Party /\ c = d
    BY <1>w, <2>2, ComingCommit, TeamsApart DEF Commits, Chosen
  <2>3. CASE outbox[d][1][1] # Party /\ c # d
    <3>1. db'[TeamOf(c)] = db[TeamOf(c)] /\ db'[HashTeamOf(c)] = db[HashTeamOf(c)]
      BY <2>3, OthersPlaces, PlacesApart, TeamsApart
    <3> QED BY <1>p, <1>w, <2>3, <3>1, ComingIsLatest DEF Chosen
  <2> QED BY <2>1, <2>2, <2>3
<1>2. /\ Queued(c, Party)' => Queued(c, Party)
      /\ \A i \in DOMAIN outbox'[c] : \E j \in DOMAIN outbox[c] : outbox'[c][i] = outbox[c][j]
  BY <1>p DEF Queued
<1> QED BY <1>r, <1>w, <1>1, <1>2 DEF RoleOf, PlacesOf

\* Only the server changes the database.
LEMMA PhonesKeepOff ==
    ASSUME NEW d \in Player, StepOf(d), ~Commits(d)
    PROVE  db' = db
<1>1. CASE HostStep \/ RegularStep(d) \/ GameOverStep(d)
  BY <1>1 DEF HostStep, HostOpens, Open, StartButton, HostGameStateEvent, HostTeamsEvent,
        ReceiveTeams, HostDidDisappear, StopListening, HostValueChanged, ValueChanged, dbVars,
        RegularStep, RegularOpens, RegularGameStateEvent, RegularTeamsEvent, RegularDidDisappear,
        RegularValueChanged, GameOverStep, GameEnds, GameOverDidDisappear, WipeParty
<1>2. CASE AppStops(d)
  BY <1>2 DEF AppStops, Quit, TeamsCastFails, StatusCastFails, Die, Disconnect
<1>3. CASE ServerStep(d) /\ UNCHANGED lobbyVars
  BY <1>3 DEF ServerStep, Sync, Commits
<1> QED BY <1>1, <1>2, <1>3 DEF StepOf

LEMMA NextRole ==
    ASSUME TypeOK, TypeOK', ScreenInv, WipeInv, ToldInv, RoleInv, [Next]_vars
    PROVE  RoleInv'
<1>o. Over => Over'
  BY OverStays
<1>r. \A c \in Player : RoleOf(c)
  BY RoleByPlayer
<1> SUFFICES ASSUME NEW c \in Player PROVE RoleOf(c)'
  BY RoleByPlayerNext
<1>1. CASE UNCHANGED vars
  BY <1>1, <1>o, <1>r, RoleQuiet DEF vars, dbVars, lobbyVars
<1>2. ASSUME NEW d \in Player, Commits(d)
      PROVE  RoleOf(c)'
  BY <1>2, <1>o, RoleCommit
<1>3. ASSUME NEW d \in Player, StepOf(d), ~Commits(d)
      PROVE  RoleOf(c)'
  <2>1. CASE d # c
    <3>1. Apart(c)
      BY <1>3, <2>1, OthersApart
    <3>2. db' = db
      BY <1>3, PhonesKeepOff
    <3> QED BY <1>o, <1>r, <3>1, <3>2, RoleQuiet DEF Apart
  <2>2. CASE d = c /\ AppStops(c)
    BY <2>2, StopsAlive, RoleStops
  <2>3. CASE d = c /\ ServerStep(c) /\ UNCHANGED lobbyVars
    BY <1>3, <1>o, <1>r, <2>3, RoleQuiet DEF ServerStep, Sync, Commits, lobbyVars
  <2> QED BY <1>3, <1>o, <1>r, <2>1, <2>2, <2>3, RoleHost, RoleRegular, RoleGameOver DEF StepOf
<1> QED BY <1>1, <1>2, <1>3, NextIsStep

LEMMA InitRole == Init => RoleInv
<1> SUFFICES ASSUME Init, NEW c \in Player PROVE RoleOf(c)
  BY RoleByPlayer
<1>1. screen[c] = "menu" /\ outbox[c] = <<>> /\ DOMAIN <<>> = {}
  BY DEF Init, DBInit, LobbyInit
<1> QED BY <1>1 DEF RoleOf, Queued, Team

\* The inductive invariant of the selections: nobody writes at another player's
\* places, and when a phone's writes have arrived Teams has the segment of its
\* selector; so has Players/<customHash>/Team if that segment is Defender, and
\* for a host who selected (RegularLobbyViewController.swift:192-204).
THEOREM RoleKept == Spec => []RoleInv
<1>1. TypeOK /\ TypeOK' /\ WipeInv /\ StagesInv /\ RoleInv /\ [Next]_vars => RoleInv'
  BY NextRole DEF StagesInv
<1> QED BY <1>1, InitRole, StagesKept, PTL DEF Spec

\* A player on a game screen is on that team in Teams once the phone's writes
\* have arrived: no selection is lost, overtaken or written for somebody else.
\* A Defender, and the host, find the same at Players/<customHash>/Team; the
\* copy of an Attacker who joined may be missing or stale.
THEOREM RoleRegistered == Spec => []RoleIsRegistered
<1>1. RoleInv => RoleIsRegistered
  <2> SUFFICES ASSUME RoleInv, NEW c \in Player, screen[c] \in Team, Standing,
                      Pending(c, TeamOf(c)) \cup Pending(c, HashTeamOf(c)) = {}
               PROVE  /\ db[TeamOf(c)] = screen[c]
                      /\ screen[c] = "Defender" => db[HashTeamOf(c)] = "Defender"
                      /\ c = Host => db[HashTeamOf(c)] \in {Null, screen[c]}
    BY DEF RoleIsRegistered
  <2>1. Chosen(c) /\ screen[c] = selector[c]
    BY RoleByPlayer DEF RoleOf, Over
  <2>2. Coming(c, TeamOf(c)) = db[TeamOf(c)] /\ Coming(c, HashTeamOf(c)) = db[HashTeamOf(c)]
    BY DEF Coming, Merged
  <2> QED BY <2>1, <2>2 DEF Chosen
<1> QED BY <1>1, RoleKept, PTL

-----------------------------------------------------------------------------
(* The two copies of a team.                                               *)

StartWrites == << <<FlagsCaptured, 0>>, <<NumAttackers, Cardinality(attackers[Host])>>,
                  <<NumDefenders, Cardinality(defenders[Host])>>, <<GameState, "inProgress">> >>

\* What a phone whose app goes on running writes.
LEMMA RunningWrites ==
    ASSUME TypeOK, NEW c \in Player, StepOf(c), ~Commits(c), screen[c] \in Alive, screen'[c] \in Alive
    PROVE  \/ outbox'[c] = outbox[c]
           \/ \E ws \in Seq(Write) : Put(c, ws) /\ \A i \in 1 .. Len(ws) : ws[i][1] \in Global
           \/ \E t \in Team : ValueChanged(c, t)
           \/ Put(c, << <<Party, Null>> >>)
<1>1. CASE c = Host /\ HostStep
  <2>1. ~HostOpens
    BY <1>1 DEF HostOpens, Alive
  <2>2. CASE StartButton
    <3>1. Put(Host, StartWrites)
      BY <2>2 DEF StartButton, StartWrites
    <3>2. StartWrites \in Seq(Write)
      <4>1. Cardinality(attackers[Host]) \in Count /\ Cardinality(defenders[Host]) \in Count
        BY HostAssumption, CountsAreCounts DEF TypeOK, LobbyTypeOK
      <4>2. /\ <<FlagsCaptured, 0>> \in Write
            /\ <<NumAttackers, Cardinality(attackers[Host])>> \in Write
            /\ <<NumDefenders, Cardinality(defenders[Host])>> \in Write
            /\ <<GameState, "inProgress">> \in Write
        BY <4>1, WritesAreWrites DEF Stage
      <4> QED BY <4>2, ShortSeqs DEF StartWrites
    <3>3. /\ Len(StartWrites) = 4
          /\ StartWrites[1][1] = FlagsCaptured /\ StartWrites[2][1] = NumAttackers
          /\ StartWrites[3][1] = NumDefenders /\ StartWrites[4][1] = GameState
      BY DEF StartWrites
    <3>4. \A i \in 1 .. Len(StartWrites) : StartWrites[i][1] \in Global
      BY <3>3, Globals DEF Tallies
    <3> QED BY <1>1, <3>1, <3>2, <3>4
  <2>3. CASE HostGameStateEvent
    <3> DEFINE ws == << <<EndTime, "tenMinutesFromNow">> >>
    <3>1. ws \in Seq(Write) /\ Len(ws) = 1 /\ ws[1][1] \in Global
      BY WritesAreWrites, EndTimeApart
    <3>2. Put(Host, ws) \/ outbox' = outbox
      BY <2>3 DEF HostGameStateEvent
    <3> HIDE DEF ws
    <3> QED BY <1>1, <3>1, <3>2
  <2>4. CASE HostTeamsEvent \/ HostDidDisappear
    BY <2>4 DEF HostTeamsEvent, ReceiveTeams, dbVars, HostDidDisappear, StopListening
  <2>5. CASE HostValueChanged
    BY <1>1, <2>5 DEF HostValueChanged
  <2> QED BY <1>1, <2>1, <2>2, <2>3, <2>4, <2>5 DEF HostStep
<1>2. CASE RegularStep(c)
  <2>1. ~RegularOpens(c)
    BY DEF RegularOpens
  <2>2. CASE RegularGameStateEvent(c) \/ RegularTeamsEvent(c) \/ RegularDidDisappear(c)
    BY <2>2 DEF RegularGameStateEvent, RegularTeamsEvent, ReceiveTeams, RegularDidDisappear,
          StopListening, dbVars
  <2>3. CASE RegularValueChanged(c)
    BY <2>3 DEF RegularValueChanged
  <2> QED BY <1>2, <2>1, <2>2, <2>3 DEF RegularStep
<1>3. ~AppStops(c)
  BY DEF AppStops, Quit, TeamsCastFails, StatusCastFails, Die, Alive, TypeOK, LobbyTypeOK
<1>4. CASE ServerStep(c) /\ UNCHANGED lobbyVars
  BY <1>4 DEF ServerStep, Sync, Commits
<1>5. CASE GameOverStep(c)
  BY <1>5 DEF GameOverStep, GameEnds, GameOverDidDisappear, WipeParty, dbVars
<1> QED BY <1>1, <1>2, <1>3, <1>4, <1>5 DEF StepOf

LEMMA CopiesStep ==
    ASSUME TypeOK, TypeOK', WipeInv, RoleInv, [Next]_vars, NEW c \in Player, CopiesAgree(c),
           screen[c] \in Alive, screen'[c] \in Alive, Standing'
    PROVE  CopiesAgree(c)'
<1> DEFINE Same == /\ Coming(c, TeamOf(c))' = Coming(c, TeamOf(c))
                   /\ Coming(c, HashTeamOf(c))' = Coming(c, HashTeamOf(c))
<1>s. Same => CopiesAgree(c)'
  BY DEF CopiesAgree
<1>1. CASE UNCHANGED vars
  <2>1. Same
    BY <1>1, ComingIsLatest DEF vars, dbVars
  <2> QED BY <1>s, <2>1
<1>2. ASSUME NEW d \in Player, Commits(d)
      PROVE  CopiesAgree(c)'
  <2>1. outbox[d][1][1] # Party
    BY <1>2, WipedIsOver DEF Over
  <2>2. CASE d = c
    <3>1. Same
      BY <1>2, <2>2, ComingCommit, TeamsApart DEF Commits
    <3> QED BY <1>s, <3>1
  <2>3. CASE d # c
    <3>1. outbox'[c] = outbox[c]
      BY <1>2, <2>3, CommitShift DEF Commits
    <3>2. db'[TeamOf(c)] = db[TeamOf(c)] /\ db'[HashTeamOf(c)] = db[HashTeamOf(c)]
      BY <1>2, <2>1, <2>3, OthersPlaces, PlacesApart
    <3>3. Same
      BY <3>1, <3>2, ComingIsLatest
    <3> QED BY <1>s, <3>3
  <2> QED BY <2>2, <2>3
<1>3. ASSUME NEW d \in Player, StepOf(d), ~Commits(d)
      PROVE  CopiesAgree(c)'
  <2>1. db' = db
    BY <1>3, PhonesKeepOff
  <2>2. CASE outbox'[c] = outbox[c]
    <3>1. Same
      BY <2>1, <2>2, ComingIsLatest
    <3> QED BY <1>s, <3>1
  <2>3. ASSUME NEW ws \in Seq(Write), Put(c, ws), \A i \in 1 .. Len(ws) : ws[i][1] \in Global
        PROVE  CopiesAgree(c)'
    <3>1. \A i \in 1 .. Len(ws) : ws[i][1] \notin {TeamOf(c), Party} /\ ws[i][1] \notin {HashTeamOf(c), Party}
      BY <2>3, OwnLocations, Globals
    <3>2. Same
      BY <2>1, <2>3, <3>1, ComingPut
    <3> QED BY <1>s, <3>2
  <2>4. ASSUME NEW t \in Team, ValueChanged(c, t)
        PROVE  CopiesAgree(c)'
    BY <2>4, SelectionComes DEF CopiesAgree
  <2>5. CASE Put(c, << <<Party, Null>> >>)
    <3> DEFINE ws == << <<Party, Null>> >>
    <3>1. /\ ws \in Seq(Write) /\ Len(ws) = 1 /\ ws[1][1] = Party /\ ws[1][2] = Null
          /\ 1 \in 1 .. Len(ws) /\ \A i \in 1 .. Len(ws) : ~(1 < i)
      BY WritesAreWrites
    <3>2. Put(c, ws)
      BY <2>5
    <3> HIDE DEF ws
    <3>3. Coming(c, HashTeamOf(c))' = Null
      BY <3>1, <3>2, ComingPutLast
    <3> QED BY <3>3 DEF CopiesAgree
  <2>6. CASE d = c
    BY <1>3, <2>2, <2>3, <2>4, <2>5, <2>6, RunningWrites
  <2>7. CASE d # c
    BY <1>3, <2>2, <2>7, OthersApart DEF Apart
  <2> QED BY <2>6, <2>7
<1> QED BY <1>1, <1>2, <1>3, NextIsStep

\* While a player's app runs and the party stands, the two copies of the team
\* that valueChanged writes go together: neither a commit, a start, another
\* player's write nor a removal still on its way separates them
\* (RegularLobbyViewController.swift:192-204).
THEOREM CopiesTogether == Spec => CopiesStayTogether
<1> DEFINE Kept == \A c \in Player : CopiesAgree(c) /\ screen[c] \in Alive /\ screen'[c] \in Alive /\ Standing'
                                        => CopiesAgree(c)'
<1>1. TypeOK /\ TypeOK' /\ WipeInv /\ RoleInv /\ [Next]_vars => [Kept]_vars
  BY CopiesStep
<1> QED BY <1>1, StagesKept, RoleKept, PTL DEF Spec, CopiesStayTogether

-----------------------------------------------------------------------------
(* What who has left has left behind.                                      *)

LEMMA LeftByWipe ==
    ASSUME TypeOK, NEW c \in Player, StepOf(c), screen'[c] = "left"
    PROVE  screen[c] = "left" \/ WipeParty(c)
<1> USE DEF TypeOK, LobbyTypeOK
<1>1. CASE c = Host /\ HostStep
  <2>1. CASE HostGameStateEvent
    BY <1>1, <2>1 DEF HostGameStateEvent, Segue, Team
  <2>2. CASE HostOpens \/ StartButton \/ HostTeamsEvent \/ HostDidDisappear \/ HostValueChanged
    BY <1>1, <2>2 DEF HostOpens, Open, StartButton, HostTeamsEvent, ReceiveTeams, HostDidDisappear,
          StopListening, HostValueChanged, ValueChanged
  <2> QED BY <1>1, <2>1, <2>2 DEF HostStep
<1>2. CASE RegularStep(c)
  <2>1. CASE RegularGameStateEvent(c)
    BY <2>1 DEF RegularGameStateEvent, Segue, Team
  <2>2. CASE RegularOpens(c) \/ RegularTeamsEvent(c) \/ RegularDidDisappear(c) \/ RegularValueChanged(c)
    BY <2>2 DEF RegularOpens, Open, RegularTeamsEvent, ReceiveTeams, RegularDidDisappear,
          StopListening, RegularValueChanged, ValueChanged
  <2> QED BY <1>2, <2>1, <2>2 DEF RegularStep
<1>3. CASE AppStops(c)
  BY <1>3 DEF AppStops, Quit, TeamsCastFails, StatusCastFails, Die
<1>4. CASE ServerStep(c) /\ UNCHANGED lobbyVars
  BY <1>4 DEF lobbyVars
<1>5. CASE GameOverStep(c)
  BY <1>5 DEF GameOverStep, GameEnds, GameOverDidDisappear
<1> QED BY <1>1, <1>2, <1>3, <1>4, <1>5 DEF StepOf

\* What was on its way is still on its way, or committed.
LEMMA EmptyWasEmpty ==
    ASSUME TypeOK, NEW c \in Player, NEW ws \in Seq(Write), Put(c, ws), outbox'[c] = <<>>
    PROVE  outbox[c] = <<>> /\ ws = <<>>
<1>1. DOMAIN outbox'[c] = 1 .. (Len(outbox[c]) + Len(ws)) /\ Len(outbox[c]) \in Nat /\ Len(ws) \in Nat
  BY PutPositions
<1>2. DOMAIN <<>> = 1 .. 0
  OBVIOUS
<1>3. Len(outbox[c]) = 0 /\ Len(ws) = 0
  <2>1. ~(1 \in 1 .. (Len(outbox[c]) + Len(ws)))
    BY <1>1, <1>2
  <2> QED BY <1>1, <2>1
<1> QED BY <1>3, EmptySeq DEF TypeOK, DBTypeOK

LEMMA LeaversStep ==
    ASSUME TypeOK, TypeOK', CleanInv, RoleInv, LeaversLeaveNothing, [Next]_vars
    PROVE  LeaversLeaveNothing'
<1> SUFFICES ASSUME NEW c \in Player, screen'[c] = "left", outbox'[c] = <<>>, NEW l \in PlacesOf(c)
             PROVE  db'[l] = Null
  BY DEF LeaversLeaveNothing, PlacesOf
<1>0. screen[c] = "left" /\ outbox[c] = <<>> => db[l] = Null
  BY DEF LeaversLeaveNothing
<1>l. l \in Loc
  BY PlacesApart
<1>1. CASE UNCHANGED vars
  BY <1>0, <1>1 DEF vars, dbVars, lobbyVars
<1>2. ASSUME NEW d \in Player, Commits(d)
      PROVE  db'[l] = Null
  <2>1. CASE outbox[d][1][1] = Party
    BY <1>2, <1>l, <2>1, CommitEffect DEF Commits
  <2>2. CASE outbox[d][1][1] # Party /\ d # c
    <3>1. outbox'[c] = outbox[c] /\ screen' = screen
      BY <1>2, <2>2, CommitShift DEF Commits, lobbyVars
    <3> QED BY <1>0, <1>2, <2>2, <3>1, OthersPlaces
  <2>3. CASE d = c
    <3> DEFINE n == Len(outbox[c])
    <3>1. screen[c] = "left" /\ outbox[c] # <<>>
      BY <1>2, <2>3 DEF Commits, Commit, lobbyVars
    <3>2. outbox[c] \in Seq(Write) /\ n \in Nat \ {0} /\ DOMAIN outbox[c] = 1 .. n
      BY <3>1, LenProperties, EmptySeq DEF TypeOK, DBTypeOK
    <3>3. n = 1
      <4>0. n \in DOMAIN outbox[c]
        BY <3>2
      <4>1. n # 1 => n - 1 \in DOMAIN outbox'[c]
        <5> HIDE DEF n
        <5> QED BY <1>2, <2>3, <4>0, CommitShift DEF Commits
      <4>2. DOMAIN <<>> = {}
        OBVIOUS
      <4> QED BY <4>1, <4>2
    <3>4. outbox[c][1][1] = Party
      BY <3>1, <3>3 DEF CleanInv, LeftoverIsWipe, Gone
    <3> QED BY <2>1, <2>3, <3>4
  <2> QED BY <2>1, <2>2, <2>3
<1>3. ASSUME NEW d \in Player, StepOf(d), ~Commits(d)
      PROVE  db'[l] = Null
  <2>1. db' = db
    BY <1>3, PhonesKeepOff
  <2>2. CASE d # c
    BY <1>0, <1>3, <2>1, <2>2, OthersApart DEF Apart
  <2>3. CASE d = c /\ WipeParty(c)
    <3>1. << <<Party, Null>> >> \in Seq(Write) /\ << <<Party, Null>> >> # <<>>
      BY WritesAreWrites
    <3>2. ~Put(c, << <<Party, Null>> >>)
      BY <3>1, EmptyWasEmpty
    <3>3. Merged(c, l, db[l]) = Null /\ outbox[c] = <<>>
      BY <1>l, <2>3, <3>2 DEF WipeParty
    <3>4. \A i \in DOMAIN outbox[c] : outbox[c][i][1] \notin {l, Party}
      <4>1. DOMAIN <<>> = {}
        OBVIOUS
      <4> QED BY <3>3, <4>1
    <3>5. Merged(c, l, db[l]) = db[l]
      BY <3>4 DEF Merged, Pending
    <3> QED BY <2>1, <3>3, <3>5
  <2>4. CASE d = c /\ screen[c] = "left"
    <3>1. screen[c] \in Alive /\ screen'[c] \in Alive
      BY <2>4 DEF Alive, Screen
    <3>2. \A t \in Team : ~ValueChanged(c, t)
      BY <2>4 DEF ValueChanged
    <3>3. << <<Party, Null>> >> \in Seq(Write)
      BY WritesAreWrites
    <3>4. outbox[c] = <<>>
      BY <1>3, <2>4, <3>1, <3>2, <3>3, RunningWrites, EmptyWasEmpty
    <3> QED BY <1>0, <2>1, <2>4, <3>4
  <2> QED BY <1>3, <2>2, <2>3, <2>4, LeftByWipe
<1> QED BY <1>1, <1>2, <1>3, NextIsStep

\* A player who has left, and whose writes have arrived, has left nothing of
\* their own in the database, whatever the others' apps do; a host not even the
\* globals (GameOverViewController.swift:44-53).
THEOREM LeaversClean == Spec => []LeaversLeaveNothing
<1>1. Init => LeaversLeaveNothing
  BY DEF Init, LobbyInit, LeaversLeaveNothing
<1>2. TypeOK /\ TypeOK' /\ CleanInv /\ RoleInv /\ LeaversLeaveNothing /\ [Next]_vars => LeaversLeaveNothing'
  BY LeaversStep
<1> QED BY <1>1, <1>2, TypeCorrect, CleanKept, RoleKept, PTL DEF Spec

-----------------------------------------------------------------------------
(* The roster.                                                             *)

LEMMA CountWrites ==
    ASSUME NEW w \in Write, w[1] \in {NumAttackers, NumDefenders}
    PROVE  w[2] \in Count
<1> USE DEF Party, GameState, FlagsCaptured, NumAttackers, NumDefenders, EndTime, Flags,
            TeamOf, HashTeamOf, RecordOf
<1>1. CASE w \in {Party} \X {Null}
  BY <1>1
<1>2. CASE w \in {GameState} \X Stage
  BY <1>2
<1>3. CASE w \in {FlagsCaptured} \X {0}
  BY <1>3
<1>4. CASE w \in {NumAttackers, NumDefenders} \X Count
  BY <1>4
<1>5. CASE w \in {EndTime} \X {"tenMinutesFromNow"}
  BY <1>5
<1>6. CASE w \in {Flags} \X {"Free"}
  BY <1>6
<1>7. CASE w \in {RecordOf(p) : p \in Player} \X {"Alive"}
  BY <1>7
<1>8. CASE w \in ({TeamOf(p) : p \in Player} \cup {HashTeamOf(p) : p \in Player}) \X Team
  BY <1>8
<1> QED BY <1>1, <1>2, <1>3, <1>4, <1>5, <1>6, <1>7, <1>8, WriteCases

\* The counts in the database and on their way are numbers.
LEMMA CountsAreNumbers ==
    ASSUME TypeOK
    PROVE  /\ \A l \in {NumAttackers, NumDefenders} : db[l] # Null => db[l] \in Int
           /\ \A i \in DOMAIN outbox[Host] :
                outbox[Host][i][1] \in {NumAttackers, NumDefenders} => outbox[Host][i][2] \in Int
<1>1. Count \subseteq Int
  BY DEF Count
<1>2. ASSUME NEW l \in {NumAttackers, NumDefenders}, db[l] # Null
      PROVE  db[l] \in Int
  <2>1. l \in Loc
    BY Globals DEF Tallies
  <2>2. PICK w \in Write : w = <<l, db[l]>>
    BY <1>2, <2>1 DEF TypeOK, DBTypeOK
  <2> QED BY <1>1, <2>2, CountWrites
<1>3. \A i \in DOMAIN outbox[Host] : outbox[Host][i] \in Write
  BY HostAssumption, QueuedWrites
<1> QED BY <1>1, <1>2, <1>3, CountWrites

LEMMA RosterIsFinite ==
    /\ Roster \in SUBSET Player /\ IsFiniteSet(Roster)
    /\ Cardinality(Roster) \in Nat
    /\ \A S \in SUBSET Roster : IsFiniteSet(S) /\ Cardinality(S) \in Nat /\ Cardinality(S) <= Cardinality(Roster)
<1>1. Roster \in SUBSET Player
  BY DEF Roster
<1>2. IsFiniteSet(Roster)
  BY <1>1, PlayerAssumption, FS_Subset
<1> HIDE DEF Roster
<1>3. \A S \in SUBSET Roster : IsFiniteSet(S) /\ Cardinality(S) <= Cardinality(Roster)
  BY <1>2, FS_Subset
<1> QED BY <1>1, <1>2, <1>3, FS_CardinalityType

LEMMA RosterIsFiniteNext ==
    /\ IsFiniteSet(Roster') /\ Cardinality(Roster') \in Nat
    /\ \A S \in SUBSET Roster' : IsFiniteSet(S) /\ Cardinality(S) \in Nat /\ Cardinality(S) <= Cardinality(Roster')
<1>1. Roster' \in SUBSET Player
  BY DEF Roster
<1>2. IsFiniteSet(Roster')
  <2> HIDE DEF Roster
  <2> QED BY <1>1, PlayerAssumption, FS_Subset
<1>3. \A S \in SUBSET Roster' : IsFiniteSet(S) /\ Cardinality(S) <= Cardinality(Roster')
  BY <1>2, FS_Subset
<1> QED BY <1>2, <1>3, FS_CardinalityType

\* As long as the party is not over and the host's app runs, nobody is lost
\* from the roster.
LEMMA RosterGrows ==
    ASSUME TypeOK, ScreenInv, WipeInv, ~Over', screen'[Host] \in Alive, [Next]_vars
    PROVE  Roster \subseteq Roster'
<1> USE HostAssumption
<1> SUFFICES ASSUME NEW p \in Player, Registered(p) \/ Queued(Host, TeamOf(p))
             PROVE  Registered(p)' \/ Queued(Host, TeamOf(p))'
  BY DEF Roster
<1>1. CASE HostOpens
  <2>1. outbox[Host] = <<>> /\ DOMAIN <<>> = {} /\ db' = db
    BY <1>1 DEF HostOpens, Open, ScreenInv, StoppedIsSilent, Alive
  <2> QED BY <2>1 DEF Registered, Queued
<1>2. CASE HostIdle
  BY <1>2 DEF HostIdle, Registered, Queued
<1>3. CASE HostStops
  BY <1>3 DEF HostStops, Alive
<1>4. ASSUME NEW ws \in Seq(Write), HostSends(ws)
      PROVE  Registered(p)' \/ Queued(Host, TeamOf(p))'
  BY <1>4, SendsPositions DEF HostSends, Registered, Queued
<1>5. ASSUME NEW c \in Player, Commits(c)
      PROVE  Registered(p)' \/ Queued(Host, TeamOf(p))'
  <2>1. outbox[c][1][1] # Party
    BY <1>5, WipedIsOver
  <2>2. /\ outbox[c][1][2] # Null
        /\ db'[TeamOf(p)] = IF TeamOf(p) = outbox[c][1][1] THEN outbox[c][1][2] ELSE db[TeamOf(p)]
    BY <1>5, <2>1, CommitEffect, TeamsApart DEF Commits
  <2>3. CASE Registered(p)
    BY <2>2, <2>3 DEF Registered
  <2>4. CASE Queued(Host, TeamOf(p)) /\ c = Host
    BY <1>5, <2>2, <2>4, CommitShift DEF Commits, Queued, Registered
  <2>5. CASE Queued(Host, TeamOf(p)) /\ c # Host
    BY <1>5, <2>5, CommitShift DEF Commits, Queued
  <2> QED BY <2>3, <2>4, <2>5
<1> QED BY <1>1, <1>2, <1>3, <1>4, <1>5, HostQueueSteps

\* Before the host opens the party, and after their app has stopped, the only
\* step of the host is to open it.
LEMMA HostAsleep ==
    ASSUME ScreenInv, TypeOK, StepOf(Host), screen[Host] \notin Alive
    PROVE  HostOpens
<1>1. outbox[Host] = <<>> /\ listening[Host] = {}
  BY HostAssumption DEF ScreenInv, StoppedIsSilent
<1>2. Team \cup {"lobby", "gameOver", "leaving"} \subseteq Alive
  BY DEF Alive, Screen, Team
<1>3. ~AppStops(Host)
  BY StopsAlive, HostAssumption
<1>4. ~ServerStep(Host)
  BY <1>1 DEF ServerStep, Commit, Sync
<1>5. ~GameOverStep(Host)
  BY <1>2 DEF GameOverStep, GameEnds, GameOverDidDisappear, WipeParty
<1>6. HostStep => HostOpens
  BY <1>1, <1>2 DEF HostStep, StartButton, HostGameStateEvent, StatusChanges, HostTeamsEvent, ReceiveTeams,
     TeamsSnapshot, HostDidDisappear, StopListening, HostValueChanged, ValueChanged
<1> QED BY <1>3, <1>4, <1>5, <1>6 DEF StepOf, Regular

-----------------------------------------------------------------------------
(* The host's tables.                                                      *)

\* What the host's phone knows.
TablesSame ==
    cache'[Host] = cache[Host] /\ attackers'[Host] = attackers[Host] /\ defenders'[Host] = defenders[Host]

TablesEmptied ==
    /\ \A l \in Watched : cache'[Host][l] \in {cache[Host][l], Null}
    /\ attackers'[Host] = {} /\ defenders'[Host] = {}

TablesFilled ==
    /\ cache'[Host] = cache[Host]
    /\ attackers'[Host] = OnTeam(Host, "Attacker") /\ defenders'[Host] = OnTeam(Host, "Defender")

TablesTold ==
    /\ \A l \in Watched : cache'[Host][l] \in {cache[Host][l], db'[l], Null}
    /\ attackers'[Host] = attackers[Host] /\ defenders'[Host] = defenders[Host]

LEMMA TablesSteps ==
    ASSUME TypeOK, [Next]_vars, ~\E how \in {"closed", "crashed"} : Die(Host, how)
    PROVE  TablesSame \/ TablesEmptied \/ TablesFilled \/ TablesTold
<1> USE HostAssumption
<1>1. CASE UNCHANGED vars
  BY <1>1 DEF vars, dbVars, lobbyVars, TablesSame
<1>2. ASSUME NEW d \in Player, StepOf(d)
      PROVE  TablesSame \/ TablesEmptied \/ TablesFilled \/ TablesTold
  <2>1. CASE d # Host
    <3>1. Apart(Host)
      BY <1>2, <2>1, OthersApart
    <3> QED BY <3>1 DEF Apart, TablesSame
  <2>2. CASE HostOpens \/ StartButton \/ HostGameStateEvent \/ HostValueChanged
    BY <2>2 DEF HostOpens, Open, StartButton, HostGameStateEvent, HostValueChanged, ValueChanged, TablesSame
  <2>3. CASE HostTeamsEvent
    BY <2>3 DEF HostTeamsEvent, ReceiveTeams, dbVars, TablesFilled, TypeOK, LobbyTypeOK
  <2>4. CASE HostDidDisappear
    BY <2>4 DEF HostDidDisappear, StopListening, TablesEmptied, TypeOK, DBTypeOK, LobbyTypeOK
  <2>5. CASE ServerStep(Host) /\ UNCHANGED lobbyVars
    BY <2>5 DEF ServerStep, Commit, Sync, Told, lobbyVars, TablesTold, TypeOK, DBTypeOK
  <2>6. CASE GameOverStep(Host)
    BY <2>6 DEF GameOverStep, GameEnds, GameOverDidDisappear, WipeParty, dbVars, TablesSame
  <2>7. ~AppStops(Host)
    BY DEF AppStops, Quit, TeamsCastFails, StatusCastFails
  <2> QED BY <1>2, <2>1, <2>2, <2>3, <2>4, <2>5, <2>6, <2>7 DEF StepOf, HostStep, Regular
<1> QED BY <1>1, <1>2, NextIsStep

\* Who is on a team in the host's view is on the roster, and on one team only.
LEMMA SeenAreOnRoster ==
    ASSUME TypeOK, HostKnowsRoster
    PROVE  /\ OnTeam(Host, "Attacker") \cap OnTeam(Host, "Defender") = {}
           /\ OnTeam(Host, "Attacker") \cup OnTeam(Host, "Defender") \subseteq Roster
<1> SUFFICES ASSUME NEW p \in Player, View(Host, TeamOf(p)) \in Team
             PROVE  p \in Roster
  BY DEF OnTeam, Team
<1>1. View(Host, TeamOf(p)) # Null
  BY NullAssumption
<1>2. outbox[Host] \in Seq(Write)
  BY HostAssumption DEF TypeOK, DBTypeOK
<1>3. CASE View(Host, TeamOf(p)) = cache[Host][TeamOf(p)]
  BY <1>1, <1>3 DEF HostKnowsRoster
<1>4. ASSUME NEW i \in DOMAIN outbox[Host], outbox[Host][i][1] \in {TeamOf(p), Party},
             View(Host, TeamOf(p)) = outbox[Host][i][2]
      PROVE  p \in Roster
  <2>1. outbox[Host][i] \in Write
    BY HostAssumption, QueuedWrites
  <2>2. outbox[Host][i][1] # Party
    BY <1>1, <1>4, <2>1, WriteShape, PartyIsNoLoc
  <2> QED BY <1>4, <2>2 DEF Roster, Queued
<1> QED BY <1>2, <1>3, <1>4, LatestCases, ComingIsLatest

LEMMA NextTables ==
    ASSUME TypeOK, ScreenInv, WipeInv, HostKnowsRoster, TablesFromRoster, ~Over', screen'[Host] \in Alive,
           [Next]_vars
    PROVE  HostKnowsRoster' /\ TablesFromRoster'
<1>1. Roster \subseteq Roster'
  BY RosterGrows
<1>2. ~\E how \in {"closed", "crashed"} : Die(Host, how)
  BY HostAssumption DEF Die, Alive, TypeOK, LobbyTypeOK
<1>3. \A p \in Player : db'[TeamOf(p)] # Null => p \in Roster'
  BY DEF Roster, Registered
<1>4. \A p \in Player : TeamOf(p) \in Watched
  BY TeamsApart
<1> HIDE DEF Roster
<1>5. CASE TablesSame
  BY <1>1, <1>5 DEF TablesSame, HostKnowsRoster, TablesFromRoster
<1>6. CASE TablesEmptied
  BY <1>1, <1>4, <1>6 DEF TablesEmptied, HostKnowsRoster, TablesFromRoster
<1>7. CASE TablesFilled
  BY <1>1, <1>7, SeenAreOnRoster DEF TablesFilled, HostKnowsRoster, TablesFromRoster
<1>8. CASE TablesTold
  BY <1>1, <1>3, <1>4, <1>8 DEF TablesTold, HostKnowsRoster, TablesFromRoster
<1> QED BY <1>2, <1>5, <1>6, <1>7, <1>8, TablesSteps

-----------------------------------------------------------------------------
(* The counts.                                                             *)

LEMMA CountsApart ==
    /\ NumAttackers # NumDefenders
    /\ {NumAttackers, NumDefenders} \subseteq Global /\ {NumAttackers, NumDefenders} \subseteq Loc
    /\ GameState \notin {NumAttackers, NumDefenders} /\ Flags \notin {NumAttackers, NumDefenders}
    /\ FlagsCaptured \notin {NumAttackers, NumDefenders}
    /\ Party \notin {NumAttackers, NumDefenders}
BY DEF Loc, Global, Party, GameState, FlagsCaptured, NumAttackers, NumDefenders, EndTime, Flags

\* Steps that leave the host's queue and the counts alone.
LEMMA PairsKeep ==
    ASSUME TypeOK, CountsInPairs, Roster \subseteq Roster', outbox'[Host] = outbox[Host],
           \A l \in {NumAttackers, NumDefenders} : db'[l] = db[l]
    PROVE  CountsInPairs'
<1> DEFINE n == Cardinality(Roster)
<1> DEFINE nn == Cardinality(Roster')
<1>1. n \in Int /\ nn \in Int /\ n <= nn
  BY RosterIsFinite, RosterIsFiniteNext
<1>2. Cardinality(Roster)' = nn
  OBVIOUS
<1> HIDE DEF n, nn
<1>3. \A i \in DOMAIN outbox[Host] : i \in Int
  BY HostAssumption, LenProperties DEF TypeOK, DBTypeOK
<1>4. \A i, j \in Int : i + j <= n => i + j <= nn
  BY <1>1
<1> QED BY <1>2, <1>3, <1>4, CountsAreNumbers DEF CountsInPairs, n

\* The host appends writes: counts only in pairs that the roster covers.
LEMMA PairsPut ==
    ASSUME TypeOK, CountsInPairs, Roster \subseteq Roster', NEW ws \in Seq(Write), Put(Host, ws), db' = db,
           \A i \in 1 .. Len(ws) : ws[i][1] = NumAttackers =>
              /\ i + 1 \in 1 .. Len(ws)
              /\ ws[i + 1][1] = NumDefenders
              /\ ws[i][2] + ws[i + 1][2] <= Cardinality(Roster'),
           \A i \in 1 .. Len(ws) : ws[i][1] = NumDefenders =>
              /\ i # 1
              /\ ws[i - 1][1] = NumAttackers
    PROVE  CountsInPairs'
<1> DEFINE q == outbox[Host]
<1> DEFINE qq == outbox'[Host]
<1> DEFINE n == Len(q)
<1> DEFINE r == Cardinality(Roster)
<1> DEFINE rr == Cardinality(Roster')
<1>p. /\ n \in Nat /\ Len(ws) \in Nat
      /\ DOMAIN q = 1 .. n /\ DOMAIN qq = 1 .. (n + Len(ws))
      /\ \A i \in 1 .. n : qq[i] = q[i]
      /\ \A i \in 1 .. Len(ws) : qq[n + i] = ws[i]
  BY HostAssumption, PutPositions
<1>s. \A k \in DOMAIN qq : \/ k \in DOMAIN q /\ qq[k] = q[k]
                           \/ \E j \in 1 .. Len(ws) : k = n + j /\ qq[k] = ws[j]
  BY HostAssumption, SendsPositions
<1>r. r \in Int /\ rr \in Int /\ r <= rr /\ Cardinality(Roster)' = rr
  BY RosterIsFinite, RosterIsFiniteNext
<1>c. /\ \A i \in DOMAIN q : q[i][1] \in {NumAttackers, NumDefenders} => q[i][2] \in Int
      /\ \A l \in {NumAttackers, NumDefenders} : db[l] # Null => db[l] \in Int
  BY CountsAreNumbers
<1>u. \A i \in 1 .. Len(ws) : ws[i][1] = NumAttackers => ws[i][2] + ws[i + 1][2] <= rr
  OBVIOUS
<1>v. /\ \A i \in DOMAIN q : q[i][1] = NumAttackers =>
           i + 1 \in DOMAIN q /\ q[i + 1][1] = NumDefenders /\ q[i][2] + q[i + 1][2] <= r
      /\ \A i \in DOMAIN q : q[i][1] = NumDefenders => i = 1 \/ q[i - 1][1] = NumAttackers
      /\ IF 1 \in DOMAIN q /\ q[1][1] = NumDefenders
         THEN db[NumAttackers] # Null /\ db[NumAttackers] + q[1][2] <= r
         ELSE db[NumAttackers] # Null => db[NumDefenders] # Null /\ db[NumAttackers] + db[NumDefenders] <= r
  BY DEF CountsInPairs
<1> HIDE DEF q, qq, n, r, rr
<1>1. ASSUME NEW i \in DOMAIN qq, qq[i][1] = NumAttackers
      PROVE  i + 1 \in DOMAIN qq /\ qq[i + 1][1] = NumDefenders /\ qq[i][2] + qq[i + 1][2] <= rr
  <2>1. CASE i \in DOMAIN q /\ qq[i] = q[i]
    <3>1. i + 1 \in DOMAIN q /\ q[i + 1][1] = NumDefenders /\ q[i][2] + q[i + 1][2] <= r
      BY <1>1, <1>v, <2>1
    <3>2. i + 1 \in DOMAIN qq /\ qq[i + 1] = q[i + 1]
      BY <1>p, <3>1
    <3>3. q[i][2] \in Int /\ q[i + 1][2] \in Int
      BY <1>1, <1>c, <2>1, <3>1
    <3> QED BY <1>r, <2>1, <3>1, <3>2, <3>3
  <2>2. ASSUME NEW j \in 1 .. Len(ws), i = n + j, qq[i] = ws[j]
        PROVE  i + 1 \in DOMAIN qq /\ qq[i + 1][1] = NumDefenders /\ qq[i][2] + qq[i + 1][2] <= rr
    <3>1. j + 1 \in 1 .. Len(ws) /\ ws[j + 1][1] = NumDefenders /\ ws[j][2] + ws[j + 1][2] <= rr
      BY <1>1, <1>u, <2>2
    <3>2. i + 1 = n + (j + 1) /\ i + 1 \in DOMAIN qq
      BY <1>p, <2>2, <3>1
    <3>3. qq[i + 1] = ws[j + 1]
      BY <1>p, <3>1, <3>2
    <3> QED BY <2>2, <3>1, <3>2, <3>3
  <2> QED BY <1>s, <2>1, <2>2
<1>2. ASSUME NEW i \in DOMAIN qq, qq[i][1] = NumDefenders
      PROVE  i = 1 \/ qq[i - 1][1] = NumAttackers
  <2>1. CASE i \in DOMAIN q /\ qq[i] = q[i]
    <3>1. i = 1 \/ i - 1 \in DOMAIN q
      BY <1>p, <2>1
    <3> QED BY <1>2, <1>p, <1>v, <2>1, <3>1
  <2>2. ASSUME NEW j \in 1 .. Len(ws), i = n + j, qq[i] = ws[j]
        PROVE  qq[i - 1][1] = NumAttackers
    <3>1. j # 1 /\ ws[j - 1][1] = NumAttackers
      BY <1>2, <2>2
    <3>2. i - 1 = n + (j - 1) /\ j - 1 \in 1 .. Len(ws)
      BY <1>p, <2>2, <3>1
    <3>3. qq[i - 1] = ws[j - 1]
      BY <1>p, <3>2
    <3> QED BY <3>1, <3>3
  <2> QED BY <1>s, <2>1, <2>2
<1>3. (1 \in DOMAIN qq /\ qq[1][1] = NumDefenders) <=> (1 \in DOMAIN q /\ q[1][1] = NumDefenders)
  <2>1. 1 \in DOMAIN q => 1 \in DOMAIN qq /\ qq[1] = q[1]
    BY <1>p
  <2>2. ASSUME 1 \in DOMAIN qq, qq[1][1] = NumDefenders, 1 \notin DOMAIN q
        PROVE  FALSE
    <3>1. PICK j \in 1 .. Len(ws) : 1 = n + j /\ qq[1] = ws[j]
      BY <1>s, <2>2
    <3>2. j = 1
      BY <1>p, <3>1
    <3> QED BY <2>2, <3>1, <3>2
  <2> QED BY <2>1, <2>2
<1>4. 1 \in DOMAIN q => qq[1] = q[1]
  BY <1>p
<1>5. IF 1 \in DOMAIN qq /\ qq[1][1] = NumDefenders
      THEN db[NumAttackers] # Null /\ db[NumAttackers] + qq[1][2] <= rr
      ELSE db[NumAttackers] # Null => db[NumDefenders] # Null /\ db[NumAttackers] + db[NumDefenders] <= rr
  <2>1. CASE 1 \in DOMAIN q /\ q[1][1] = NumDefenders
    BY <1>3, <1>4, <1>c, <1>r, <1>v, <2>1
  <2>2. CASE ~(1 \in DOMAIN q /\ q[1][1] = NumDefenders)
    BY <1>3, <1>c, <1>r, <1>v, <2>2
  <2> QED BY <2>1, <2>2
<1> QED BY <1>1, <1>2, <1>5, <1>r DEF CountsInPairs, qq

LEMMA PairsHostCommit ==
    ASSUME TypeOK, CountsInPairs, Roster \subseteq Roster', Commits(Host), outbox[Host][1][1] # Party
    PROVE  CountsInPairs'
<1> USE HostAssumption
<1> DEFINE q == outbox[Host]
<1> DEFINE qq == outbox'[Host]
<1> DEFINE w == q[1]
<1> DEFINE r == Cardinality(Roster)
<1> DEFINE rr == Cardinality(Roster')
<1>p. /\ 1 \in DOMAIN q
      /\ \A i \in DOMAIN qq : i + 1 \in DOMAIN q /\ qq[i] = q[i + 1] /\ 1 < i + 1
      /\ \A i \in DOMAIN q : i # 1 => (i - 1 \in DOMAIN qq /\ qq[i - 1] = q[i])
      /\ DOMAIN q \subseteq Int /\ DOMAIN qq \subseteq Int
  BY CommitShift DEF Commits
<1>b. \A i \in DOMAIN qq : i = 1 \/ i - 1 \in DOMAIN qq
  BY CommitPositions DEF Commits
<1>w. /\ \A l \in Loc : db'[l] = IF l = w[1] THEN w[2] ELSE db[l]
      /\ w[2] # Null
  BY CommitEffect DEF Commits
<1>r. r \in Int /\ rr \in Int /\ r <= rr /\ Cardinality(Roster)' = rr
  BY RosterIsFinite, RosterIsFiniteNext
<1>c. /\ \A i \in DOMAIN q : q[i][1] \in {NumAttackers, NumDefenders} => q[i][2] \in Int
      /\ \A l \in {NumAttackers, NumDefenders} : db[l] # Null => db[l] \in Int
  BY CountsAreNumbers
<1>v. /\ \A i \in DOMAIN q : q[i][1] = NumAttackers =>
           i + 1 \in DOMAIN q /\ q[i + 1][1] = NumDefenders /\ q[i][2] + q[i + 1][2] <= r
      /\ \A i \in DOMAIN q : q[i][1] = NumDefenders => i = 1 \/ q[i - 1][1] = NumAttackers
      /\ IF q[1][1] = NumDefenders
         THEN db[NumAttackers] # Null /\ db[NumAttackers] + q[1][2] <= r
         ELSE db[NumAttackers] # Null => db[NumDefenders] # Null /\ db[NumAttackers] + db[NumDefenders] <= r
  BY <1>p DEF CountsInPairs
<1> HIDE DEF q, qq, r, rr
<1>1. ASSUME NEW i \in DOMAIN qq, qq[i][1] = NumAttackers
      PROVE  i + 1 \in DOMAIN qq /\ qq[i + 1][1] = NumDefenders /\ qq[i][2] + qq[i + 1][2] <= rr
  <2>1. i + 1 \in DOMAIN q /\ qq[i] = q[i + 1] /\ i \in Int
    BY <1>p
  <2>2. /\ (i + 1) + 1 \in DOMAIN q /\ q[(i + 1) + 1][1] = NumDefenders
        /\ q[i + 1][2] + q[(i + 1) + 1][2] <= r
    BY <1>1, <1>v, <2>1
  <2>3. (i + 1) + 1 # 1 /\ ((i + 1) + 1) - 1 = i + 1
    BY <1>p, <2>1
  <2>4. i + 1 \in DOMAIN qq /\ qq[i + 1] = q[(i + 1) + 1]
    BY <1>p, <2>2, <2>3
  <2>5. q[i + 1][2] \in Int /\ q[(i + 1) + 1][2] \in Int
    BY <1>1, <1>c, <2>1, <2>2
  <2> QED BY <1>r, <2>1, <2>2, <2>4, <2>5
<1>2. ASSUME NEW i \in DOMAIN qq, qq[i][1] = NumDefenders
      PROVE  i = 1 \/ qq[i - 1][1] = NumAttackers
  <2>1. i + 1 \in DOMAIN q /\ qq[i] = q[i + 1] /\ i + 1 # 1 /\ (i + 1) - 1 = i
    BY <1>p
  <2>2. q[i][1] = NumAttackers
    BY <1>2, <1>v, <2>1
  <2>3. i # 1 => i - 1 \in DOMAIN qq /\ qq[i - 1] = q[i]
    <3> SUFFICES ASSUME i # 1 PROVE i - 1 \in DOMAIN qq /\ qq[i - 1] = q[i]
      OBVIOUS
    <3>1. i - 1 \in DOMAIN qq /\ (i - 1) + 1 = i
      BY <1>b, <1>p
    <3> QED BY <1>p, <3>1
  <2> QED BY <2>2, <2>3
<1>3. 1 \in DOMAIN qq => 2 \in DOMAIN q /\ qq[1] = q[2] /\ 2 - 1 = 1 /\ 1 + 1 = 2
  <2>1. 1 + 1 = 2
    OBVIOUS
  <2> QED BY <1>p, <2>1
<1>4. 1 \in DOMAIN qq /\ qq[1][1] = NumDefenders <=> w[1] = NumAttackers
  <2>1. ASSUME 1 \in DOMAIN qq, qq[1][1] = NumDefenders PROVE w[1] = NumAttackers
    <3>1. 2 \in DOMAIN q /\ q[2][1] = NumDefenders /\ 2 # 1 /\ 2 - 1 = 1
      BY <1>3, <2>1
    <3>2. q[2 - 1][1] = NumAttackers
      BY <1>v, <3>1
    <3> QED BY <3>1, <3>2
  <2>2. ASSUME w[1] = NumAttackers PROVE 1 \in DOMAIN qq /\ qq[1][1] = NumDefenders
    <3>1. 1 + 1 \in DOMAIN q /\ q[1 + 1][1] = NumDefenders
      BY <1>p, <1>v, <2>2
    <3>2. 1 + 1 # 1 /\ (1 + 1) - 1 = 1
      OBVIOUS
    <3> QED BY <1>p, <3>1, <3>2
  <2> QED BY <2>1, <2>2
<1>5. IF 1 \in DOMAIN qq /\ qq[1][1] = NumDefenders
      THEN db'[NumAttackers] # Null /\ db'[NumAttackers] + qq[1][2] <= rr
      ELSE db'[NumAttackers] # Null => db'[NumDefenders] # Null /\ db'[NumAttackers] + db'[NumDefenders] <= rr
  <2>1. CASE w[1] = NumAttackers
    <3>1. db'[NumAttackers] = q[1][2]
      BY <1>w, <2>1, CountsApart
    <3>2. q[1 + 1][1] = NumDefenders /\ q[1][2] + q[1 + 1][2] <= r /\ 1 + 1 \in DOMAIN q
      BY <1>p, <1>v, <2>1
    <3>3. 1 \in DOMAIN qq /\ qq[1][1] = NumDefenders /\ qq[1] = q[1 + 1]
      BY <1>3, <1>4, <2>1
    <3>4. q[1][2] \in Int /\ q[1 + 1][2] \in Int
      BY <1>c, <1>p, <2>1, <3>2
    <3> QED BY <1>r, <1>w, <3>1, <3>2, <3>3, <3>4
  <2>2. CASE w[1] = NumDefenders
    <3>1. db'[NumDefenders] = q[1][2] /\ db'[NumAttackers] = db[NumAttackers]
      BY <1>w, <2>2, CountsApart
    <3>2. db[NumAttackers] # Null /\ db[NumAttackers] + q[1][2] <= r
      BY <1>v, <2>2
    <3>3. q[1][2] \in Int /\ db[NumAttackers] \in Int
      BY <1>c, <1>p, <2>2, <3>2
    <3> QED BY <1>4, <1>r, <1>w, <2>2, <3>1, <3>2, <3>3, CountsApart
  <2>3. CASE w[1] \notin {NumAttackers, NumDefenders}
    <3>1. db'[NumDefenders] = db[NumDefenders] /\ db'[NumAttackers] = db[NumAttackers]
      BY <1>w, <2>3, CountsApart
    <3> QED BY <1>4, <1>c, <1>r, <1>v, <2>3, <3>1
  <2> QED BY <2>1, <2>2, <2>3
<1> QED BY <1>1, <1>2, <1>5, <1>r DEF CountsInPairs, qq

\* The counts of START are those of two disjoint tables of the roster.
LEMMA PairsStart ==
    ASSUME TypeOK, CountsInPairs, TablesFromRoster, Roster \subseteq Roster', StartButton
    PROVE  CountsInPairs'
<1> DEFINE a == Cardinality(attackers[Host])
<1> DEFINE d == Cardinality(defenders[Host])
<1> DEFINE ws == << <<FlagsCaptured, 0>>, <<NumAttackers, a>>, <<NumDefenders, d>>, <<GameState, "inProgress">> >>
<1>1. ws \in Seq(Write)
  <2>1. Cardinality(attackers[Host]) \in Count /\ Cardinality(defenders[Host]) \in Count
    BY HostAssumption, CountsAreCounts DEF TypeOK, LobbyTypeOK
  <2>2. /\ <<FlagsCaptured, 0>> \in Write
        /\ <<NumAttackers, Cardinality(attackers[Host])>> \in Write
        /\ <<NumDefenders, Cardinality(defenders[Host])>> \in Write
        /\ <<GameState, "inProgress">> \in Write
    BY <2>1, WritesAreWrites DEF Stage
  <2> QED BY <2>2, ShortSeqs
<1>2. a + d <= Cardinality(Roster')
  <2> DEFINE A == attackers[Host]
  <2> DEFINE D == defenders[Host]
  <2>1. A \in SUBSET Roster' /\ D \in SUBSET Roster' /\ A \cup D \in SUBSET Roster' /\ A \cap D = {}
    BY DEF TablesFromRoster
  <2> HIDE DEF A, D
  <2>2. IsFiniteSet(A) /\ IsFiniteSet(D) /\ Cardinality(A) \in Nat /\ Cardinality(D) \in Nat
        /\ Cardinality(A \cup D) <= Cardinality(Roster') /\ Cardinality(Roster') \in Nat
    BY <2>1, RosterIsFiniteNext
  <2>3. Cardinality(A \cup D) = Cardinality(A) + Cardinality(D) - Cardinality({})
    BY <2>1, <2>2, FS_Union
  <2>4. Cardinality({}) = 0
    BY FS_EmptySet
  <2>5. Cardinality(A) + Cardinality(D) <= Cardinality(Roster')
    BY <2>2, <2>3, <2>4
  <2> QED BY <2>5 DEF A, D
<1>3. Put(Host, ws) /\ db' = db
  BY DEF StartButton
<1>4. /\ Len(ws) = 4
      /\ ws[1][1] = FlagsCaptured /\ ws[2][1] = NumAttackers /\ ws[3][1] = NumDefenders
      /\ ws[4][1] = GameState /\ ws[2][2] = a /\ ws[3][2] = d
  OBVIOUS
<1> HIDE DEF ws, a, d
<1>5. ASSUME NEW i \in 1 .. Len(ws), ws[i][1] = NumAttackers
      PROVE  /\ i + 1 \in 1 .. Len(ws)
             /\ ws[i + 1][1] = NumDefenders
             /\ ws[i][2] + ws[i + 1][2] <= Cardinality(Roster')
  <2>1. i = 2
    BY <1>4, <1>5, CountsApart
  <2>2. i + 1 = 3 /\ 3 \in 1 .. Len(ws)
    BY <1>4, <2>1
  <2> QED BY <1>2, <1>4, <2>1, <2>2
<1>6. ASSUME NEW i \in 1 .. Len(ws), ws[i][1] = NumDefenders
      PROVE  i # 1 /\ ws[i - 1][1] = NumAttackers
  <2>1. i = 3 /\ i - 1 = 2
    BY <1>4, <1>6, CountsApart
  <2> QED BY <1>4, <2>1
<1> QED BY <1>1, <1>3, <1>5, <1>6, PairsPut

LEMMA NextPairs ==
    ASSUME TypeOK, ScreenInv, WipeInv, CountsInPairs, TablesFromRoster, ~Over', screen[Host] \in Alive,
           screen'[Host] \in Alive, [Next]_vars
    PROVE  CountsInPairs'
<1>1. Roster \subseteq Roster'
  BY RosterGrows
<1>2. ~HostOpens
  BY DEF HostOpens, Alive
<1>3. CASE HostIdle
  BY <1>1, <1>3, PairsKeep DEF HostIdle
<1>4. ~HostStops
  BY DEF HostStops, Alive
<1>5. ASSUME NEW ws \in Seq(Write), HostSends(ws)
      PROVE  CountsInPairs'
  <2>1. CASE StartButton
    BY <1>1, <2>1, PairsStart
  <2>2. CASE ~StartButton
    <3>1. \A i \in 1 .. Len(ws) : ws[i][1] # NumAttackers /\ ws[i][1] # NumDefenders
      BY <1>5, <2>2 DEF HostSends
    <3> QED BY <1>1, <1>5, <3>1, PairsPut DEF HostSends
  <2> QED BY <2>1, <2>2
<1>6. ASSUME NEW c \in Player, Commits(c)
      PROVE  CountsInPairs'
  <2>1. outbox[c][1][1] # Party
    BY <1>6, WipedIsOver
  <2>2. CASE c = Host
    BY <1>1, <1>6, <2>1, <2>2, PairsHostCommit
  <2>3. CASE c \in Regular
    BY <1>1, <1>6, <2>1, <2>3, RegularCommitEffect, CountsApart, PairsKeep DEF WipeInv
  <2> QED BY <2>2, <2>3 DEF Regular
<1> QED BY <1>2, <1>3, <1>4, <1>5, <1>6, HostQueueSteps

\* The host opens a party that nobody is in yet.
LEMMA CountsOpen ==
    ASSUME TypeOK, ScreenInv, HostStartsBlank, HostOpens
    PROVE  HostKnowsRoster' /\ TablesFromRoster' /\ CountsInPairs'
<1> USE HostAssumption
<1> DEFINE q == << <<GameState, "inLobby">>, <<RecordOf(Host), "Alive">>, <<Flags, "Free">>,
                   <<TeamOf(Host), "Attacker">> >>
<1>0. screen[Host] = "menu" /\ outbox[Host] = <<>>
  BY DEF HostOpens, Open, ScreenInv, StoppedIsSilent, Alive
<1>1. /\ db' = db /\ outbox'[Host] = q
      /\ cache'[Host] = EmptyCache /\ attackers'[Host] = {} /\ defenders'[Host] = {}
  BY <1>0 DEF HostOpens, Open, Put, HostStartsBlank, TypeOK, DBTypeOK
<1>2. /\ DOMAIN q = 1 .. 4
      /\ q[1][1] = GameState /\ q[2][1] = RecordOf(Host) /\ q[3][1] = Flags /\ q[4][1] = TeamOf(Host)
  OBVIOUS
<1> HIDE DEF q
<1>3. \A i \in 1 .. 4 : q[i][1] # NumAttackers /\ q[i][1] # NumDefenders
  BY <1>2, OwnLocations, CountsApart
<1>4. db'[NumAttackers] = Null
  BY <1>0, <1>1, CountsApart DEF ScreenInv, HostComesFirst, PartyExists
<1>5. HostKnowsRoster' /\ TablesFromRoster'
  BY <1>1, TeamsApart DEF HostKnowsRoster, TablesFromRoster, EmptyCache
<1>6. CountsInPairs'
  BY <1>1, <1>2, <1>3, <1>4 DEF CountsInPairs
<1> QED BY <1>5, <1>6

LEMMA NextBlank ==
    ASSUME TypeOK, ScreenInv, WipeInv, HostStartsBlank, [Next]_vars, screen'[Host] = "menu"
    PROVE  cache'[Host] = EmptyCache /\ attackers'[Host] = {} /\ defenders'[Host] = {}
<1> USE HostAssumption
<1>1. screen[Host] = "menu"
  <2>1. ~HostOpens
    BY DEF HostOpens, Open, TypeOK, LobbyTypeOK
  <2> QED BY <2>1, HostQueueSteps DEF HostIdle, HostStops, HostSends, Commits, lobbyVars
<1>2. TablesSame
  <2>1. CASE UNCHANGED vars
    BY <2>1 DEF vars, dbVars, lobbyVars, TablesSame
  <2>2. ASSUME NEW d \in Player, StepOf(d)
        PROVE  TablesSame
    <3>1. d # Host
      <4>1. ~HostOpens
        BY DEF HostOpens, Open, TypeOK, LobbyTypeOK
      <4> QED BY <1>1, <2>2, <4>1, HostAsleep DEF Alive
    <3> QED BY <2>2, <3>1, OthersApart DEF Apart, TablesSame
  <2> QED BY <2>1, <2>2, NextIsStep
<1> QED BY <1>1, <1>2 DEF HostStartsBlank, TablesSame

LEMMA NextCounts ==
    ASSUME TypeOK, ScreenInv, WipeInv, CountsInv, [Next]_vars
    PROVE  CountsInv'
<1>1. HostStartsBlank'
  BY NextBlank DEF HostStartsBlank, CountsInv
<1>2. ASSUME ~Over', screen'[Host] \in Alive
      PROVE  HostKnowsRoster' /\ TablesFromRoster' /\ CountsInPairs'
  <2>1. ~Over
    BY <1>2, OverStays
  <2>2. CASE screen[Host] \in Alive
    BY <1>2, <2>1, <2>2, NextTables, NextPairs DEF CountsInv
  <2>3. CASE screen[Host] \notin Alive
    <3>1. HostOpens
      <4>1. ~UNCHANGED vars
        BY <1>2, <2>3 DEF vars, lobbyVars
      <4>2. PICK d \in Player : StepOf(d)
        BY <4>1, NextIsStep
      <4>3. d = Host
        BY <1>2, <2>3, <4>2, OthersApart, HostAssumption DEF Apart
      <4> QED BY <2>3, <4>2, <4>3, HostAsleep
    <3> QED BY <3>1, CountsOpen DEF CountsInv
  <2> QED BY <2>2, <2>3
<1> QED BY <1>1, <1>2 DEF CountsInv

LEMMA InitCounts == Init => CountsInv
BY HostAssumption DEF Init, DBInit, LobbyInit, CountsInv, HostStartsBlank, Alive

\* The inductive invariant of the counts: the tables of the host's phone show
\* players of one roster, and the counts are on their way, and arrive, in pairs
\* that fit into it (HostLobbyViewController.swift:145-157, 189-191).
THEOREM CountsKept == Spec => []CountsInv
<1>1. TypeOK /\ WipeInv /\ StagesInv /\ CountsInv /\ [Next]_vars => CountsInv'
  BY NextCounts DEF StagesInv
<1> QED BY <1>1, InitCounts, StagesKept, PTL DEF Spec

\* The two counts of START never add up to more players than are registered,
\* after however many starts and whatever order selections, joins and commits
\* come in.
THEOREM CountsRight == Spec => []CountsFromOneRoster
<1>1. TypeOK /\ CountsInv => CountsFromOneRoster
  <2> SUFFICES ASSUME TypeOK, CountsInv, Standing, screen[Host] \in Alive, outbox[Host] = <<>>,
                      db[NumAttackers] # Null
               PROVE  db[NumAttackers] + db[NumDefenders] <= Cardinality({p \in Player : Registered(p)})
    BY DEF CountsFromOneRoster
  <2>1. DOMAIN <<>> = {}
    OBVIOUS
  <2>2. Roster = {p \in Player : Registered(p)}
    BY <2>1 DEF Roster, Queued
  <2>3. CountsInPairs
    BY DEF CountsInv, Over
  <2> QED BY <2>1, <2>2, <2>3 DEF CountsInPairs
<1> QED BY <1>1, TypeCorrect, CountsKept, PTL

=============================================================================
