---------------------------- MODULE StartProofs -----------------------------
(***************************************************************************)
(* A start is complete wherever it is seen, and nobody who joined plays    *)
(* before it.                                                              *)
(***************************************************************************)
EXTENDS TypeProofs

LEMMA Globals ==
    /\ GameState \in Loc /\ Flags \in Loc /\ Tallies \subseteq Loc
    /\ Tallies \subseteq Global /\ GameState \in Global /\ Flags \in Global
    /\ GameState # Flags /\ GameState \notin Tallies /\ Flags \notin Tallies
    /\ Party \notin Global
    /\ GameState \in Watched
BY DEF Loc, Global, Tallies, Watched, Party, GameState, FlagsCaptured, NumAttackers, NumDefenders,
       EndTime, Flags

\* Steps that leave the global part of the database and the host's outbox alone.
LEMMA StartKeep ==
    ASSUME StartInv, \A l \in Global : db'[l] = db[l], outbox'[Host] = outbox[Host],
           screen'[Host] = "menu" => screen[Host] = "menu" /\ listening'[Host] = listening[Host],
           \A c \in Regular : \A l \in Global : ~Queued(c, l)',
           \A c \in Regular : Aware(c)' => Started
    PROVE  StartInv'
<1>1. Opening' => Opening
  BY DEF Opening, Queued
<1>2. /\ Standing' = Standing /\ db'[GameState] = db[GameState]
      /\ \A l \in Tallies : db'[l] = db[l]
  BY Globals DEF Standing
<1>3. StartIsComplete' /\ HostStartsEmpty' /\ OpeningIsNotStarted'
  BY <1>1, <1>2 DEF StartInv, StartIsComplete, HostStartsEmpty, OpeningIsNotStarted, Tallies
<1>4. OpeningComesFirst' /\ LobbyBeforeFlags'
  BY DEF StartInv, OpeningComesFirst, LobbyBeforeFlags
<1>5. StartAnnounces'
  BY <1>1, <1>2 DEF StartInv, StartAnnounces
<1>6. RegularsKeepOff'
  BY DEF RegularsKeepOff
<1>7. AwareIsRight'
  BY <1>1, <1>2 DEF AwareIsRight, Started
<1> QED BY <1>3, <1>4, <1>5, <1>6, <1>7 DEF StartInv

\* Steps in which the host appends writes that are no opening, and in which a
\* start comes after what it announces.
LEMMA StartHostPut ==
    ASSUME TypeOK, StartInv, NEW ws \in Seq(Write), Put(Host, ws), db' = db,
           screen[Host] # "menu", screen'[Host] # "menu",
           \A c \in Regular : Aware(c)' => Aware(c),
           \A i \in 1 .. Len(ws) :
              /\ ws[i][1] # Flags
              /\ ws[i] # <<GameState, "inLobby">>
              /\ ws[i] = Start => \A l \in Tallies : \E j \in 1 .. Len(ws) : j < i /\ ws[j][1] = l
    PROVE  StartInv'
<1> DEFINE q == outbox[Host]
<1> DEFINE n == Len(outbox[Host])
<1> DEFINE qq == outbox'[Host]
<1>p. /\ n \in Nat /\ Len(ws) \in Nat
      /\ DOMAIN q = 1 .. n /\ DOMAIN qq = 1 .. (n + Len(ws))
      /\ \A i \in 1 .. n : qq[i] = q[i]
      /\ \A i \in 1 .. Len(ws) : qq[n + i] = ws[i]
      /\ \A d \in Player \ {Host} : outbox'[d] = outbox[d]
  BY HostAssumption, PutPositions
<1>q. \A k \in DOMAIN qq : \/ k \in DOMAIN q /\ qq[k] = q[k]
                           \/ \E i \in 1 .. Len(ws) : k = n + i /\ qq[k] = ws[i]
  <2> SUFFICES ASSUME NEW k \in 1 .. (n + Len(ws)), k \notin 1 .. n
               PROVE  \E i \in 1 .. Len(ws) : k = n + i /\ qq[k] = ws[i]
    BY <1>p
  <2>1. k - n \in 1 .. Len(ws) /\ k = n + (k - n)
    <3> HIDE DEF n
    <3> QED BY <1>p
  <2>2. PICK i \in 1 .. Len(ws) : k = n + i
    BY <2>1
  <2>3. qq[n + i] = ws[i]
    BY <1>p
  <2> QED BY <2>2, <2>3
<1>r. \A k \in DOMAIN q : k \in DOMAIN qq /\ qq[k] = q[k]
  BY <1>p
<1> HIDE DEF q, n, qq
<1>1. Opening' => Opening
  BY <1>q DEF Opening, Queued, q, qq
<1>2. Standing' = Standing
  BY DEF Standing
<1>3. StartIsComplete' /\ HostStartsEmpty' /\ OpeningIsNotStarted'
  BY <1>1, <1>2 DEF StartInv, StartIsComplete, HostStartsEmpty, OpeningIsNotStarted
<1>4. OpeningComesFirst'
  <2> SUFFICES ASSUME NEW i \in DOMAIN qq, NEW j \in DOMAIN qq, i < j, qq[j][1] = Flags
               PROVE  qq[i] # Start /\ qq[i][1] # Party
    BY DEF OpeningComesFirst, qq
  <2>1. j \in 1 .. n /\ i \in 1 .. n
    BY <1>p, <1>q
  <2> QED BY <1>p, <2>1 DEF StartInv, OpeningComesFirst, q
<1>5. LobbyBeforeFlags'
  <2> SUFFICES ASSUME NEW i \in DOMAIN qq, qq[i] = <<GameState, "inLobby">>
               PROVE  \E j \in DOMAIN qq : i < j /\ qq[j][1] = Flags
    BY DEF LobbyBeforeFlags, qq
  <2>1. i \in DOMAIN q /\ q[i] = <<GameState, "inLobby">>
    BY <1>q
  <2>2. PICK j \in DOMAIN q : i < j /\ q[j][1] = Flags
    BY <2>1 DEF StartInv, LobbyBeforeFlags, q
  <2> QED BY <1>r, <2>2
<1>6. StartAnnounces'
  <2> SUFFICES ASSUME NEW i \in DOMAIN qq, qq[i] = Start, NEW l \in Tallies
               PROVE  \/ \E j \in DOMAIN qq : j < i /\ qq[j][1] = l
                      \/ db[l] # Null
                      \/ ~Standing /\ ~Opening
    BY <1>1, <1>2 DEF StartAnnounces, qq
  <2>1. CASE i \in DOMAIN q /\ qq[i] = q[i]
    BY <1>r, <2>1 DEF StartInv, StartAnnounces, q
  <2>2. CASE \E k \in 1 .. Len(ws) : i = n + k /\ qq[i] = ws[k]
    <3>1. PICK k \in 1 .. Len(ws) : i = n + k /\ ws[k] = Start
      BY <2>2
    <3>2. PICK j \in 1 .. Len(ws) : j < k /\ ws[j][1] = l
      BY <3>1
    <3>3. n + j \in DOMAIN qq /\ n + j < i /\ qq[n + j] = ws[j]
      BY <1>p, <3>1, <3>2
    <3> QED BY <3>2, <3>3
  <2> QED BY <1>q, <2>1, <2>2
<1>7. RegularsKeepOff'
  BY <1>p DEF StartInv, RegularsKeepOff, Queued, Regular
<1>8. AwareIsRight'
  BY <1>1, <1>2 DEF StartInv, AwareIsRight, Started
<1> QED BY <1>3, <1>4, <1>5, <1>6, <1>7, <1>8 DEF StartInv

\* After a removal nothing that StartInv says of the database is at stake.
LEMMA StartWiped ==
    ASSUME StartInv, \A l \in Loc : db'[l] = Null, ~Opening', HostStartsEmpty',
           OpeningComesFirst', LobbyBeforeFlags', RegularsKeepOff'
    PROVE  StartInv'
<1>1. ~Standing' /\ db'[GameState] # "inProgress"
  BY Globals, NullAssumption DEF Standing, Stage
<1> QED
  BY <1>1 DEF StartInv, StartIsComplete, OpeningIsNotStarted, StartAnnounces, AwareIsRight, Started

\* A commit moves the writes behind the first one up.
LEMMA CommitShift ==
    ASSUME TypeOK, NEW c \in Player, Commit(c)
    PROVE  /\ 1 \in DOMAIN outbox[c]
           /\ \A i \in DOMAIN outbox'[c] :
                 i + 1 \in DOMAIN outbox[c] /\ outbox'[c][i] = outbox[c][i + 1] /\ 1 < i + 1
           /\ \A i \in DOMAIN outbox[c] :
                 i # 1 => (i - 1 \in DOMAIN outbox'[c] /\ outbox'[c][i - 1] = outbox[c][i])
           /\ DOMAIN outbox[c] \subseteq Int /\ DOMAIN outbox'[c] \subseteq Int
           /\ \A d \in Player \ {c} : outbox'[d] = outbox[d]
<1> DEFINE q == outbox[c]
<1> DEFINE qq == outbox'[c]
<1> DEFINE n == Len(q)
<1>1. /\ n \in Nat \ {0} /\ DOMAIN q = 1 .. n /\ DOMAIN qq = 1 .. (n - 1)
      /\ \A i \in DOMAIN qq : qq[i] = q[i + 1]
      /\ \A d \in Player \ {c} : outbox'[d] = outbox[d]
  BY CommitPositions
<1> HIDE DEF n, q, qq
<1>2. /\ 1 \in DOMAIN q
      /\ \A i \in DOMAIN qq : i + 1 \in DOMAIN q /\ 1 < i + 1
      /\ \A i \in DOMAIN q : i # 1 => i - 1 \in DOMAIN qq
      /\ DOMAIN q \subseteq Int /\ DOMAIN qq \subseteq Int
  BY <1>1
<1>3. ASSUME NEW i \in DOMAIN q, i # 1
      PROVE  qq[i - 1] = q[i]
  <2>1. qq[i - 1] = q[(i - 1) + 1]
    BY <1>1, <1>2, <1>3
  <2>2. (i - 1) + 1 = i
    BY <1>1
  <2> QED BY <2>1, <2>2
<1> QED BY <1>1, <1>2, <1>3 DEF q, qq

\* The host's oldest write: it can neither be a start nor a removal while the
\* flags are still on their way.
LEMMA CommitOpening ==
    ASSUME TypeOK, StartInv, Commit(Host), UNCHANGED lobbyVars
    PROVE  /\ screen[Host] # "menu"
           /\ Opening' => Opening
           /\ Opening' => outbox[Host][1] # Start /\ outbox[Host][1][1] # Party
<1> DEFINE q == outbox[Host]
<1> DEFINE qq == outbox'[Host]
<1>p. /\ 1 \in DOMAIN q
      /\ \A i \in DOMAIN qq : i + 1 \in DOMAIN q /\ qq[i] = q[i + 1] /\ 1 < i + 1
  BY HostAssumption, CommitShift
<1> HIDE DEF q, qq
<1>m. screen[Host] # "menu"
  BY DEF Commit, StartInv, HostStartsEmpty
<1>1. /\ Opening' => Opening
      /\ Opening' => q[1] # Start /\ q[1][1] # Party
  <2> SUFFICES ASSUME NEW i \in DOMAIN qq, qq[i][1] = Flags
               PROVE  Opening /\ q[1] # Start /\ q[1][1] # Party
    BY <1>m DEF Opening, Queued, lobbyVars, qq
  <2>1. i + 1 \in DOMAIN q /\ q[i + 1][1] = Flags /\ 1 < i + 1
    BY <1>p
  <2>2. Opening
    BY <2>1 DEF Opening, Queued, q
  <2>3. q[1] # Start /\ q[1][1] # Party
    BY <1>p, <2>1 DEF StartInv, OpeningComesFirst, q
  <2> QED BY <2>2, <2>3
<1> QED BY <1>m, <1>1 DEF q

\* A start that is certain stays so: what the opening wrote has arrived.
LEMMA CommitStarted ==
    ASSUME TypeOK, StartInv, NEW c \in Player, Commit(c), UNCHANGED lobbyVars, Started
    PROVE  Started'
<1> DEFINE w == outbox[c][1]
<1>w. /\ 1 \in DOMAIN outbox[c] /\ w \in Write /\ db' = Applied(db, w)
      /\ w = <<w[1], w[2]>>
      /\ w[1] = Party \/ w[1] \in Loc
      /\ \A d \in Player \ {c} : outbox'[d] = outbox[d]
  BY CommitPositions, WriteShape
<1>d. DOMAIN db = Loc
  BY DEF TypeOK, DBTypeOK
<1> HIDE DEF w
<1>1. ~Opening'
  <2>1. CASE c = Host
    BY <2>1, CommitOpening DEF Started
  <2>2. CASE c # Host
    BY <1>w, <2>2, HostAssumption DEF Started, Opening, Queued, lobbyVars
  <2> QED BY <2>1, <2>2
<1>2. CASE w[1] = Party
  BY <1>1, <1>2, <1>w, Globals DEF Applied, Started, Standing
<1>3. CASE w[1] # Party
  <2>1. db' = [db EXCEPT ![w[1]] = w[2]]
    BY <1>3, <1>w DEF Applied
  <2>2. w[1] # Flags /\ w # <<GameState, "inLobby">>
    <3>1. CASE c = Host
      BY <1>w, <3>1 DEF Started, Opening, Queued, StartInv, LobbyBeforeFlags, w
    <3>2. CASE c # Host
      <4>1. w[1] \notin Global
        BY <1>w, <3>2 DEF StartInv, RegularsKeepOff, Queued, Regular, w
      <4> QED BY <4>1, Globals
    <3> QED BY <3>1, <3>2
  <2>3. w[1] = GameState => w[2] = "inProgress"
    BY <1>w, <2>2, StatusWrites DEF Stage
  <2> QED BY <1>1, <1>d, <1>3, <1>w, <2>1, <2>2, <2>3, Globals DEF Started, Standing
<1> QED BY <1>2, <1>3

LEMMA StartHostCommit ==
    ASSUME TypeOK, StartInv, Commit(Host), UNCHANGED lobbyVars
    PROVE  StartInv'
<1> DEFINE q == outbox[Host]
<1> DEFINE qq == outbox'[Host]
<1> DEFINE w == outbox[Host][1]
<1>p. /\ 1 \in DOMAIN q
      /\ \A i \in DOMAIN qq : i + 1 \in DOMAIN q /\ qq[i] = q[i + 1] /\ 1 < i + 1
      /\ \A i \in DOMAIN q : i # 1 => (i - 1 \in DOMAIN qq /\ qq[i - 1] = q[i])
      /\ DOMAIN q \subseteq Int /\ DOMAIN qq \subseteq Int
      /\ \A d \in Player \ {Host} : outbox'[d] = outbox[d]
  BY HostAssumption, CommitShift
<1>w. /\ w \in Write /\ w = q[1] /\ db' = Applied(db, w)
      /\ w = <<w[1], w[2]>>
      /\ \/ w[1] = Party /\ w[2] = Null
         \/ w[1] \in Loc /\ w[2] # Null
  BY HostAssumption, CommitPositions, WriteShape
<1>d. DOMAIN db = Loc
  BY DEF TypeOK, DBTypeOK
<1> HIDE DEF q, qq, w
<1>m. screen[Host] # "menu"
  BY CommitOpening
<1>0. screen' = screen /\ told' = told
  BY DEF lobbyVars
<1>1. /\ Opening' => Opening
      /\ Opening' => w # Start /\ w[1] # Party
  BY CommitOpening DEF w
<1>2. HostStartsEmpty'
  BY <1>0, <1>m DEF HostStartsEmpty
<1>3. OpeningComesFirst'
  <2> SUFFICES ASSUME NEW i \in DOMAIN qq, NEW j \in DOMAIN qq, i < j, qq[j][1] = Flags
               PROVE  qq[i] # Start /\ qq[i][1] # Party
    BY DEF OpeningComesFirst, qq
  <2>1. i + 1 < j + 1
    BY <1>p
  <2> QED BY <1>p, <2>1 DEF StartInv, OpeningComesFirst, q
<1>4. LobbyBeforeFlags'
  <2> SUFFICES ASSUME NEW i \in DOMAIN qq, qq[i] = <<GameState, "inLobby">>
               PROVE  \E j \in DOMAIN qq : i < j /\ qq[j][1] = Flags
    BY DEF LobbyBeforeFlags, qq
  <2>1. PICK j \in DOMAIN q : i + 1 < j /\ q[j][1] = Flags
    BY <1>p DEF StartInv, LobbyBeforeFlags, q
  <2>2. j - 1 \in DOMAIN qq /\ qq[j - 1] = q[j] /\ i < j - 1
    BY <1>p, <2>1
  <2> QED BY <2>1, <2>2
<1>5. RegularsKeepOff'
  BY <1>p DEF StartInv, RegularsKeepOff, Queued, Regular
<1>6. CASE w[1] = Party
  <2>1. \A l \in Loc : db'[l] = Null
    BY <1>6, <1>w DEF Applied
  <2>2. ~Opening'
    BY <1>1, <1>6
  <2> QED BY <2>1, <2>2, <1>2, <1>3, <1>4, <1>5, StartWiped
<1>7. CASE w[1] # Party
  <2>1. /\ w[1] \in Loc /\ w[2] # Null
        /\ db' = [db EXCEPT ![w[1]] = w[2]]
    BY <1>7, <1>w DEF Applied
  <2>2. /\ \A l \in Loc : l # w[1] => db'[l] = db[l]
        /\ db'[w[1]] = w[2]
    BY <2>1, <1>d
  <2>3. w[1] = Flags => Opening
    BY <1>p, <1>w DEF Opening, Queued, q
  <2>4. db'[GameState] = "inProgress" => w = Start \/ (w[1] # GameState /\ db[GameState] = "inProgress")
    BY <1>w, <2>2, Globals DEF Start
  <2>5. OpeningIsNotStarted'
    BY <1>1, <2>4 DEF StartInv, OpeningIsNotStarted
  <2>6. StartIsComplete'
    <3> SUFFICES ASSUME Standing', db'[GameState] = "inProgress", NEW l \in Tallies
                 PROVE  db'[l] # Null
      BY DEF StartIsComplete, Tallies
    <3>1. CASE w = Start
      <4>1. w[1] = GameState /\ w[1] # l /\ w[1] # Flags
        BY <3>1, Globals DEF Start
      <4>2. Standing /\ db'[l] = db[l]
        BY <2>2, <4>1, Globals DEF Standing
      <4>3. ~\E j \in DOMAIN q : j < 1 /\ q[j][1] = l
        BY HostAssumption, CommitPositions DEF q
      <4>4. 1 \in DOMAIN q /\ q[1] = Start
        BY <1>p, <1>w, <3>1
      <4>5. \/ \E j \in DOMAIN q : j < 1 /\ q[j][1] = l
            \/ db[l] # Null
            \/ ~Standing /\ ~Opening
        <5>1. StartAnnounces
          BY <1>p DEF StartInv
        <5> QED BY <5>1, <4>4 DEF StartAnnounces, q
      <4> QED BY <4>2, <4>3, <4>5
    <3>2. CASE w[1] # GameState /\ db[GameState] = "inProgress"
      <4>1. w[1] # Flags
        BY <2>3, <3>2 DEF StartInv, OpeningIsNotStarted
      <4>2. Standing
        BY <2>2, <4>1, Globals DEF Standing
      <4>3. db[l] # Null
        BY <3>2, <4>2 DEF StartInv, StartIsComplete, Tallies
      <4> QED BY <2>1, <2>2, <4>3, Globals
    <3> QED BY <2>4, <3>1, <3>2
  <2>7. StartAnnounces'
    <3> SUFFICES ASSUME NEW i \in DOMAIN qq, qq[i] = Start, NEW l \in Tallies
                 PROVE  \/ \E j \in DOMAIN qq : j < i /\ qq[j][1] = l
                        \/ db'[l] # Null
                        \/ ~Standing' /\ ~Opening'
      BY DEF StartAnnounces, qq
    <3>1. \/ \E j \in DOMAIN q : j < i + 1 /\ q[j][1] = l
          \/ db[l] # Null
          \/ ~Standing /\ ~Opening
      BY <1>p DEF StartInv, StartAnnounces, q
    <3>2. CASE \E j \in DOMAIN q : j < i + 1 /\ q[j][1] = l
      <4> PICK j \in DOMAIN q : j < i + 1 /\ q[j][1] = l
        BY <3>2
      <4>1. CASE j = 1
        BY <1>w, <2>1, <2>2, <4>1
      <4>2. CASE j # 1
        <5>1. j - 1 \in DOMAIN qq /\ qq[j - 1] = q[j] /\ j - 1 < i
          BY <1>p, <4>2
        <5> QED BY <5>1
      <4> QED BY <4>1, <4>2
    <3>3. CASE db[l] # Null
      BY <2>1, <2>2, <3>3, Globals
    <3>4. CASE ~Standing /\ ~Opening
      BY <1>1, <2>2, <2>3, <3>4, Globals DEF Standing
    <3> QED BY <3>1, <3>2, <3>3, <3>4
  <2>8. AwareIsRight'
    <3> SUFFICES ASSUME NEW c \in Regular, Aware(c)'
                 PROVE  Started'
      BY DEF AwareIsRight
    <3>1. cache'[c] = cache[c] /\ outbox'[c] = outbox[c]
      BY <1>p DEF Commit, Regular, TypeOK, DBTypeOK
    <3>2. Aware(c)
      BY <1>0, <3>1 DEF Aware, InGame, Queued
    <3>3. Started
      BY <3>2 DEF StartInv, AwareIsRight
    <3> QED BY <3>3, CommitStarted, HostAssumption
  <2> QED BY <1>2, <1>3, <1>4, <1>5, <2>5, <2>6, <2>7, <2>8 DEF StartInv
<1> QED BY <1>6, <1>7

\* What a phone is told of the game state is what the server has.
LEMMA ToldIsRight ==
    ASSUME StartInv, NEW nodes, NEW d, d[GameState] = db[GameState],
           Told(nodes, d)[GameState] = "inProgress"
    PROVE  Started
<1>1. db[GameState] = "inProgress"
  BY Globals, NullAssumption DEF Told, Stage
<1> QED BY <1>1 DEF StartInv, OpeningIsNotStarted, Started

LEMMA StartRegularCommit ==
    ASSUME TypeOK, StartInv, NEW c \in Regular, Commit(c), UNCHANGED lobbyVars
    PROVE  StartInv'
<1> DEFINE w == outbox[c][1]
<1>c. c \in Player /\ c # Host /\ Host \in Player
  BY HostAssumption DEF Regular
<1>p. /\ \A i \in DOMAIN outbox'[c] : i + 1 \in DOMAIN outbox[c] /\ outbox'[c][i] = outbox[c][i + 1]
      /\ 1 \in DOMAIN outbox[c]
      /\ \A d \in Player \ {c} : outbox'[d] = outbox[d]
      /\ w \in Write
      /\ db' = Applied(db, w)
  BY <1>c, CommitPositions
<1>0. /\ screen' = screen /\ told' = told /\ outbox'[Host] = outbox[Host] /\ listening' = listening
      /\ Opening' = Opening
  BY <1>c, <1>p DEF lobbyVars, Commit, Opening, Queued
<1>1. \A l : Queued(c, l)' => Queued(c, l)
  BY <1>p DEF Queued
<1>2. RegularsKeepOff'
  <2>1. \A d \in Regular \ {c} : \A l : Queued(d, l)' = Queued(d, l)
    BY <1>p DEF Queued, Regular
  <2> QED BY <1>1, <2>1 DEF StartInv, RegularsKeepOff
<1> HIDE DEF w
<1>3. CASE w[1] = Party
  <2>1. Queued(c, Party)
    BY <1>3, <1>p DEF Queued, w
  <2>2. ~Opening
    BY <2>1 DEF StartInv, AwareIsRight, Aware, Started
  <2>3. \A l \in Loc : db'[l] = Null
    BY <1>3, <1>p DEF Applied
  <2>4. HostStartsEmpty' /\ OpeningComesFirst' /\ LobbyBeforeFlags'
    BY <1>0 DEF StartInv, HostStartsEmpty, OpeningComesFirst, LobbyBeforeFlags
  <2> QED BY <1>0, <1>2, <2>2, <2>3, <2>4, StartWiped
<1>4. CASE w[1] # Party
  <2>1. w[1] \notin Global
    BY <1>p DEF StartInv, RegularsKeepOff, Queued, w
  <2>2. \A l \in Global : db'[l] = db[l]
    <3>1. DOMAIN db = Loc /\ Global \subseteq Loc
      BY DEF TypeOK, DBTypeOK, Loc
    <3>2. db' = [db EXCEPT ![w[1]] = w[2]]
      BY <1>4, <1>p DEF Applied
    <3> QED BY <2>1, <3>1, <3>2
  <2>3. ASSUME NEW d \in Regular, Aware(d)'
        PROVE  Started
    <3>1. CASE d # c
      <4>1. outbox'[d] = outbox[d] /\ cache'[d] = cache[d]
        BY <1>p, <3>1 DEF Commit, Regular, TypeOK, DBTypeOK
      <4>2. Aware(d)
        BY <1>0, <2>3, <4>1 DEF Aware, InGame, Queued
      <4> QED BY <4>2 DEF StartInv, AwareIsRight
    <3>2. CASE d = c
      <4>1. CASE Aware(c)
        BY <4>1 DEF StartInv, AwareIsRight
      <4>2. CASE ~Aware(c)
        <5>1. cache'[c] # cache[c] /\ cache'[c][GameState] = "inProgress"
          BY <1>0, <1>1, <2>3, <3>2, <4>2 DEF Aware, InGame
        <5>2. cache'[c] = Told(listening[c], db')
          BY <1>c, <1>p, <5>1 DEF Commit, TypeOK, DBTypeOK, w
        <5> QED BY <2>2, <5>1, <5>2, ToldIsRight, Globals
      <4> QED BY <4>1, <4>2
    <3> QED BY <3>1, <3>2
  <2>4. \A d \in Regular : \A l \in Global : ~Queued(d, l)'
    BY <1>2 DEF RegularsKeepOff
  <2> QED BY <1>0, <2>2, <2>3, <2>4, StartKeep
<1> QED BY <1>3, <1>4

\* Steps that leave the database and the outboxes alone.
LEMMA StartQuiet ==
    ASSUME StartInv, UNCHANGED <<db, outbox>>,
           screen'[Host] = "menu" => screen[Host] = "menu" /\ listening'[Host] = listening[Host],
           \A c \in Regular : Aware(c)' => Started
    PROVE  StartInv'
<1>1. \A c \in Regular : \A l \in Global : ~Queued(c, l)'
  BY DEF StartInv, RegularsKeepOff, Queued
<1> QED BY <1>1, StartKeep

LEMMA StartSync ==
    ASSUME TypeOK, StartInv, NEW c \in Player, Sync(c), UNCHANGED lobbyVars
    PROVE  StartInv'
<1>1. ASSUME NEW d \in Regular, Aware(d)'
      PROVE  Started
  <2>1. CASE Aware(d)
    BY <2>1 DEF StartInv, AwareIsRight
  <2>2. CASE ~Aware(d)
    <3>1. cache'[d] # cache[d] /\ cache'[d][GameState] = "inProgress"
      BY <1>1, <2>2 DEF Aware, InGame, Queued, Sync, lobbyVars
    <3>2. cache'[d] = Told(listening[c], db)
      BY <3>1 DEF Sync, TypeOK, DBTypeOK, Regular
    <3> QED BY <3>1, <3>2, ToldIsRight
  <2> QED BY <2>1, <2>2
<1> QED BY <1>1, StartQuiet DEF Sync, lobbyVars

\* Steps in which a player who joined appends writes.
LEMMA StartRegularPut ==
    ASSUME TypeOK, StartInv, NEW c \in Regular, NEW ws \in Seq(Write), Put(c, ws),
           UNCHANGED <<db, cache, told>>,
           \A d \in Player \ {c} : screen'[d] = screen[d] /\ listening'[d] = listening[d],
           InGame(c)' => InGame(c),
           \A i \in 1 .. Len(ws) :
              /\ ws[i][1] \notin Global
              /\ ws[i][1] = Party => Aware(c)
    PROVE  StartInv'
<1> DEFINE n == Len(outbox[c])
<1>c. c \in Player /\ c # Host /\ Host \in Player
  BY HostAssumption DEF Regular
<1>p. /\ n \in Nat /\ Len(ws) \in Nat
      /\ DOMAIN outbox[c] = 1 .. n /\ DOMAIN outbox'[c] = 1 .. (n + Len(ws))
      /\ \A i \in 1 .. n : outbox'[c][i] = outbox[c][i]
      /\ \A i \in 1 .. Len(ws) : outbox'[c][n + i] = ws[i]
      /\ \A d \in Player \ {c} : outbox'[d] = outbox[d]
  BY <1>c, PutPositions
<1>1. ASSUME NEW l, Queued(c, l)'
      PROVE  Queued(c, l) \/ \E i \in 1 .. Len(ws) : ws[i][1] = l
  <2>1. PICK k \in 1 .. (n + Len(ws)) : outbox'[c][k][1] = l
    BY <1>1, <1>p DEF Queued
  <2>2. CASE k \in 1 .. n
    BY <1>p, <2>1, <2>2 DEF Queued
  <2>3. CASE k \notin 1 .. n
    <3>1. k - n \in 1 .. Len(ws) /\ n + (k - n) = k
      <4> HIDE DEF n
      <4> QED BY <1>p, <2>1, <2>3
    <3>2. PICK i \in 1 .. Len(ws) : k = n + i
      BY <3>1
    <3>3. outbox'[c][n + i] = ws[i]
      BY <1>p
    <3> QED BY <2>1, <3>2, <3>3
  <2> QED BY <2>2, <2>3
<1>2. ASSUME NEW d \in Regular, NEW l \in Global PROVE ~Queued(d, l)'
  <2>1. CASE d = c
    BY <1>1, <2>1 DEF StartInv, RegularsKeepOff
  <2>2. CASE d # c
    BY <1>p, <2>2 DEF StartInv, RegularsKeepOff, Queued, Regular
  <2> QED BY <2>1, <2>2
<1>3. ASSUME NEW d \in Regular, Aware(d)' PROVE Aware(d)
  <2>1. CASE d = c
    BY <1>1, <1>3, <2>1 DEF Aware
  <2>2. CASE d # c
    BY <1>3, <1>p, <2>2 DEF Aware, InGame, Queued, Regular
  <2> QED BY <2>1, <2>2
<1>4. \A d \in Regular : Aware(d)' => Started
  BY <1>3 DEF StartInv, AwareIsRight
<1> QED BY <1>c, <1>p, <1>2, <1>4, StartKeep

LEMMA StartHostOpens ==
    ASSUME TypeOK, StartInv, HostOpens
    PROVE  StartInv'
<1> DEFINE q == << <<GameState, "inLobby">>, <<RecordOf(Host), "Alive">>, <<Flags, "Free">>,
                   <<TeamOf(Host), "Attacker">> >>
<1>1. /\ screen[Host] = "menu" /\ outbox[Host] = <<>> /\ Opening
      /\ screen'[Host] = "lobby"
      /\ db' = db /\ cache' = cache /\ told' = told
      /\ \A d \in Regular : outbox'[d] = outbox[d] /\ screen'[d] = screen[d]
      /\ outbox'[Host] = q
  BY HostAssumption
     DEF HostOpens, Open, Put, StartInv, HostStartsEmpty, Opening, Regular, TypeOK, DBTypeOK, LobbyTypeOK
<1>2. /\ DOMAIN q = 1 .. 4
      /\ q[1] = <<GameState, "inLobby">> /\ q[2][1] = RecordOf(Host)
      /\ q[3][1] = Flags /\ q[4][1] = TeamOf(Host)
  OBVIOUS
<1>3. \A i \in 1 .. 4 : q[i][1] = Flags <=> i = 3
  BY <1>2 DEF GameState, Flags, RecordOf, TeamOf
<1>4. /\ \A i \in 1 .. 4 : q[i] # Start /\ q[i][1] # Party
      /\ \A i \in 1 .. 4 : q[i] = <<GameState, "inLobby">> => i = 1
  <2>1. q[1] # Start
    BY <1>2 DEF Start
  <2>2. \A i \in 2 .. 4 : q[i][1] # GameState
    BY <1>2 DEF GameState, Flags, RecordOf, TeamOf
  <2>3. Start[1] = GameState /\ <<GameState, "inLobby">>[1] = GameState
    BY DEF Start
  <2>4. \A i \in 1 .. 4 : q[i][1] # Party
    BY <1>2 DEF GameState, Flags, RecordOf, TeamOf, Party
  <2> HIDE DEF q
  <2>5. \A i \in 1 .. 4 : i = 1 \/ i \in 2 .. 4
    OBVIOUS
  <2> QED BY <2>1, <2>2, <2>3, <2>4, <2>5
<1> HIDE DEF q
<1>5. StartIsComplete' /\ HostStartsEmpty' /\ OpeningIsNotStarted'
  BY <1>1 DEF StartInv, StartIsComplete, HostStartsEmpty, OpeningIsNotStarted, Standing
<1>6. OpeningComesFirst' /\ LobbyBeforeFlags' /\ StartAnnounces'
  BY <1>1, <1>2, <1>3, <1>4 DEF OpeningComesFirst, LobbyBeforeFlags, StartAnnounces
<1>7. RegularsKeepOff'
  BY <1>1 DEF StartInv, RegularsKeepOff, Queued
<1>8. \A c \in Regular : ~Aware(c)'
  BY <1>1 DEF StartInv, AwareIsRight, Aware, InGame, Queued, Started
<1> QED BY <1>5, <1>6, <1>7, <1>8 DEF StartInv, AwareIsRight

LEMMA DeadIsUnaware ==
    ASSUME TypeOK, NEW c \in Regular, NEW how \in {"closed", "crashed"}, Die(c, how)
    PROVE  /\ ~Aware(c)'
           /\ outbox'[c] = <<>>
           /\ \A d \in Player \ {c} : /\ outbox'[d] = outbox[d] /\ screen'[d] = screen[d]
                                      /\ told'[d] = told[d] /\ cache'[d] = cache[d]
                                      /\ listening'[d] = listening[d]
<1>c. c \in Player
  BY DEF Regular
<1>1. /\ screen'[c] = how /\ told'[c] = "untold" /\ cache'[c] = EmptyCache /\ outbox'[c] = <<>>
      /\ \A d \in Player \ {c} : /\ outbox'[d] = outbox[d] /\ screen'[d] = screen[d]
                                 /\ told'[d] = told[d] /\ cache'[d] = cache[d]
                                 /\ listening'[d] = listening[d]
  BY <1>c DEF Die, Disconnect, TypeOK, DBTypeOK, LobbyTypeOK
<1>2. EmptyCache[GameState] # "inProgress"
  BY Globals, NullAssumption DEF EmptyCache, Stage
<1>3. ~InGame(c)'
  BY <1>1 DEF InGame, Team
<1>4. DOMAIN <<>> = {}
  OBVIOUS
<1>5. ~Queued(c, Party)'
  BY <1>1, <1>4 DEF Queued
<1> QED BY <1>1, <1>2, <1>3, <1>5 DEF Aware

LEMMA StartDie ==
    ASSUME TypeOK, StartInv, NEW c \in Player, NEW how \in {"closed", "crashed"}, Die(c, how)
    PROVE  StartInv'
<1>d. db' = db
  BY DEF Die, Disconnect
<1>1. CASE c = Host
  <2>1. /\ outbox'[Host] = <<>> /\ screen'[Host] # "menu"
        /\ \A d \in Regular : /\ outbox'[d] = outbox[d] /\ screen'[d] = screen[d]
                              /\ told'[d] = told[d] /\ cache'[d] = cache[d]
    BY <1>1 DEF Die, Disconnect, Regular, TypeOK, DBTypeOK, LobbyTypeOK
  <2>2. DOMAIN <<>> = {}
    OBVIOUS
  <2>3. /\ ~Opening' /\ HostStartsEmpty' /\ OpeningIsNotStarted' /\ OpeningComesFirst'
        /\ LobbyBeforeFlags' /\ StartAnnounces'
    BY <2>1, <2>2 DEF Opening, Queued, HostStartsEmpty, OpeningIsNotStarted, OpeningComesFirst,
                      LobbyBeforeFlags, StartAnnounces
  <2>4. RegularsKeepOff' /\ \A d \in Regular : Aware(d)' => Aware(d)
    BY <2>1 DEF StartInv, RegularsKeepOff, Queued, Aware, InGame
  <2> QED BY <1>d, <2>3, <2>4 DEF StartInv, StartIsComplete, AwareIsRight, Standing, Started
<1>2. CASE c # Host
  <2>0. c \in Regular /\ Host \in Player \ {c}
    BY <1>2, HostAssumption DEF Regular
  <2>1. DOMAIN <<>> = {}
    OBVIOUS
  <2>2. \A d \in Regular : \A l \in Global : ~Queued(d, l)'
    BY <2>0, <2>1, DeadIsUnaware DEF StartInv, RegularsKeepOff, Queued, Regular
  <2>3. \A d \in Regular : Aware(d)' => Aware(d)
    BY <2>0, DeadIsUnaware DEF Aware, InGame, Queued, Regular
  <2>4. \A d \in Regular : Aware(d)' => Started
    BY <2>3 DEF StartInv, AwareIsRight
  <2>5. /\ outbox'[Host] = outbox[Host] /\ screen'[Host] = screen[Host]
        /\ listening'[Host] = listening[Host]
    BY <2>0, DeadIsUnaware
  <2> QED BY <1>d, <2>2, <2>4, <2>5, StartKeep
<1> QED BY <1>1, <1>2

\* A player who joined and sees the game in progress knew it already: it is
\* none of the player's own writes.
LEMMA SeenIsKnown ==
    ASSUME TypeOK, StartInv, NEW c \in Regular, View(c, GameState) = "inProgress"
    PROVE  Aware(c)
<1>1. CASE Pending(c, GameState) = {}
  BY <1>1 DEF View, Merged, Aware
<1>2. CASE Pending(c, GameState) # {}
  <2>1. Queued(c, GameState) \/ Queued(c, Party)
    BY <1>2 DEF Pending, Queued
  <2> QED BY <2>1, Globals DEF StartInv, RegularsKeepOff, Aware
<1> QED BY <1>1, <1>2

\* The locations of a player are not the game's.
LEMMA OwnLocations ==
    ASSUME NEW p \in Player
    PROVE  /\ TeamOf(p) \notin Global /\ HashTeamOf(p) \notin Global /\ RecordOf(p) \notin Global
           /\ TeamOf(p) # Party /\ HashTeamOf(p) # Party /\ RecordOf(p) # Party
<1> USE DEF Global, Party, GameState, FlagsCaptured, NumAttackers, NumDefenders, EndTime, Flags
<1>1. TeamOf(p) \notin Global /\ TeamOf(p) # Party
  BY DEF TeamOf
<1>2. HashTeamOf(p) \notin Global /\ HashTeamOf(p) # Party
  BY DEF HashTeamOf
<1>3. RecordOf(p) \notin Global /\ RecordOf(p) # Party
  BY DEF RecordOf
<1> QED BY <1>1, <1>2, <1>3

LEMMA StartHostStep ==
    ASSUME TypeOK, StartInv, HostStep
    PROVE  StartInv'
<1> USE HostAssumption
<1>r. \A c \in Regular : c \in Player /\ c # Host
  BY DEF Regular
<1>1. CASE HostOpens
  BY <1>1, StartHostOpens
<1>2. CASE StartButton
  <2> DEFINE ws == << <<FlagsCaptured, 0>>, <<NumAttackers, Cardinality(attackers[Host])>>,
                      <<NumDefenders, Cardinality(defenders[Host])>>, Start >>
  <2>1. ws \in Seq(Write)
    <3>1. Cardinality(attackers[Host]) \in Count /\ Cardinality(defenders[Host]) \in Count
      BY CountsAreCounts DEF TypeOK, LobbyTypeOK
    <3>2. /\ <<FlagsCaptured, 0>> \in Write
          /\ <<NumAttackers, Cardinality(attackers[Host])>> \in Write
          /\ <<NumDefenders, Cardinality(defenders[Host])>> \in Write
          /\ Start \in Write
      BY <3>1, WritesAreWrites DEF Stage, Start
    <3> QED BY <3>2, ShortSeqs
  <2>2. /\ Len(ws) = 4
        /\ ws[1][1] = FlagsCaptured /\ ws[2][1] = NumAttackers /\ ws[3][1] = NumDefenders /\ ws[4] = Start
    OBVIOUS
  <2>3. Put(Host, ws) /\ screen[Host] = "lobby" /\ screen' = screen
    BY <1>2 DEF StartButton, Start
  <2> HIDE DEF ws
  <2>4. \A i \in 1 .. Len(ws) :
          /\ ws[i][1] # Flags /\ ws[i] # <<GameState, "inLobby">>
          /\ ws[i] = Start => \A l \in Tallies : \E j \in 1 .. Len(ws) : j < i /\ ws[j][1] = l
    <3> SUFFICES ASSUME NEW i \in 1 .. 4
                 PROVE  /\ ws[i][1] # Flags /\ ws[i] # <<GameState, "inLobby">>
                        /\ ws[i] = Start => \A l \in Tallies : \E j \in 1 .. 4 : j < i /\ ws[j][1] = l
      BY <2>2
    <3>1. CASE i = 4
      BY <2>2, <3>1 DEF Start, Tallies, GameState, Flags
    <3>2. CASE i \in {1, 2, 3}
      <4>1. ws[i][1] \in Tallies
        BY <2>2, <3>2 DEF Tallies
      <4> QED BY <4>1, Globals DEF Start
    <3> QED BY <3>1, <3>2
  <2>5. \A c \in Regular : Aware(c)' => Aware(c)
    <3>1. \A d \in Player \ {Host} : outbox'[d] = outbox[d]
      BY <2>1, <2>3, PutPositions
    <3> QED BY <1>2, <1>r, <3>1 DEF StartButton, Aware, InGame, Queued
  <2>6. db' = db /\ screen[Host] # "menu" /\ screen'[Host] # "menu"
    BY <1>2 DEF StartButton
  <2> QED BY <2>1, <2>3, <2>4, <2>5, <2>6, StartHostPut
<1>3. CASE HostGameStateEvent
  <2>1. screen[Host] # "menu"
    BY <1>3 DEF HostGameStateEvent, StatusChanges, StartInv, HostStartsEmpty
  <2>2. CASE UNCHANGED <<outbox, screen>>
    <3>1. \A c \in Regular : Aware(c)' => Aware(c)
      BY <1>3, <1>r, <2>2 DEF HostGameStateEvent, Aware, InGame, Queued, TypeOK, LobbyTypeOK
    <3>2. \A c \in Regular : Aware(c)' => Started
      BY <3>1 DEF StartInv, AwareIsRight
    <3> QED BY <1>3, <2>2, <3>2, StartQuiet DEF HostGameStateEvent
  <2>3. CASE Put(Host, << <<EndTime, "tenMinutesFromNow">> >>) /\ Segue(Host)
    <3> DEFINE ws == << <<EndTime, "tenMinutesFromNow">> >>
    <3>1. ws \in Seq(Write) /\ Len(ws) = 1 /\ ws[1][1] = EndTime
      BY WritesAreWrites
    <3> HIDE DEF ws
    <3>2. Put(Host, ws)
      BY <2>3 DEF ws
    <3>3. screen'[Host] \in Team /\ \A d \in Player \ {Host} : screen'[d] = screen[d]
      BY <2>3 DEF Segue, TypeOK, LobbyTypeOK
    <3>4. \A i \in 1 .. Len(ws) :
            /\ ws[i][1] # Flags /\ ws[i] # <<GameState, "inLobby">>
            /\ ws[i] = Start => \A l \in Tallies : \E j \in 1 .. Len(ws) : j < i /\ ws[j][1] = l
      BY <3>1 DEF EndTime, Flags, GameState, Start
    <3>5. \A c \in Regular : Aware(c)' => Aware(c)
      <4>1. \A d \in Player \ {Host} : outbox'[d] = outbox[d]
        BY <3>1, <3>2, PutPositions
      <4>2. \A d \in Player \ {Host} : told'[d] = told[d] /\ cache'[d] = cache[d]
        BY <1>3 DEF HostGameStateEvent, TypeOK, LobbyTypeOK
      <4> QED BY <1>r, <3>3, <4>1, <4>2 DEF Aware, InGame, Queued
    <3>6. db' = db /\ screen'[Host] # "menu"
      BY <1>3, <3>3 DEF HostGameStateEvent, Team
    <3> QED BY <2>1, <3>1, <3>2, <3>4, <3>5, <3>6, StartHostPut
  <2> QED BY <1>3, <2>2, <2>3 DEF HostGameStateEvent
<1>4. CASE HostTeamsEvent
  <2>1. \A c \in Regular : Aware(c)' => Started
    BY <1>4 DEF HostTeamsEvent, ReceiveTeams, dbVars, Aware, InGame, Queued, StartInv, AwareIsRight
  <2> QED BY <1>4, <2>1, StartQuiet DEF HostTeamsEvent, ReceiveTeams, dbVars
<1>5. CASE HostDidDisappear
  <2>1. \A c \in Regular : cache'[c] = cache[c]
    BY <1>5, <1>r DEF HostDidDisappear, StopListening, TypeOK, DBTypeOK
  <2>2. \A c \in Regular : Aware(c)' => Started
    BY <1>5, <2>1 DEF HostDidDisappear, StopListening, Aware, InGame, Queued, StartInv, AwareIsRight
  <2>3. screen'[Host] # "menu"
    BY <1>5 DEF HostDidDisappear, StopListening, Alive
  <2> QED BY <1>5, <2>2, <2>3, StartQuiet DEF HostDidDisappear, StopListening
<1>6. CASE HostValueChanged
  <2> PICK t \in Team : ValueChanged(Host, t)
    BY <1>6 DEF HostValueChanged
  <2> DEFINE ws == << <<TeamOf(Host), t>>, <<HashTeamOf(Host), t>> >>
  <2>1. ws \in Seq(Write) /\ Len(ws) = 2 /\ ws[1][1] = TeamOf(Host) /\ ws[2][1] = HashTeamOf(Host)
    BY WritesAreWrites
  <2>2. \A i \in 1 .. 2 : ws[i][1] \notin Global
    BY <2>1, OwnLocations
  <2>3. Put(Host, ws) /\ screen[Host] = "lobby" /\ screen' = screen
    BY DEF ValueChanged
  <2> HIDE DEF ws
  <2>4. \A i \in 1 .. Len(ws) :
          /\ ws[i][1] # Flags /\ ws[i] # <<GameState, "inLobby">>
          /\ ws[i] = Start => \A l \in Tallies : \E j \in 1 .. Len(ws) : j < i /\ ws[j][1] = l
    BY <2>1, <2>2, Globals DEF Start
  <2>5. \A c \in Regular : Aware(c)' => Aware(c)
    <3>1. \A d \in Player \ {Host} : outbox'[d] = outbox[d]
      BY <2>1, <2>3, PutPositions
    <3> QED BY <1>r, <3>1 DEF ValueChanged, Aware, InGame, Queued
  <2>6. db' = db /\ screen[Host] # "menu" /\ screen'[Host] # "menu"
    BY <2>3 DEF ValueChanged
  <2> QED BY <2>1, <2>3, <2>4, <2>5, <2>6, StartHostPut
<1> QED BY <1>1, <1>2, <1>3, <1>4, <1>5, <1>6 DEF HostStep

LEMMA StartRegularStep ==
    ASSUME TypeOK, StartInv, NEW c \in Regular, RegularStep(c)
    PROVE  StartInv'
<1> USE HostAssumption
<1>c. c \in Player /\ c # Host
  BY DEF Regular
<1>o. \A d \in Regular : Aware(d) => Started
  BY DEF StartInv, AwareIsRight
<1>1. CASE RegularOpens(c)
  <2> DEFINE ws == << <<RecordOf(c), "Alive">>, <<TeamOf(c), "Attacker">> >>
  <2>1. ws \in Seq(Write) /\ Len(ws) = 2 /\ ws[1][1] = RecordOf(c) /\ ws[2][1] = TeamOf(c)
    <3>1. <<RecordOf(c), "Alive">> \in Write /\ <<TeamOf(c), "Attacker">> \in Write
      BY <1>c, WritesAreWrites DEF Team
    <3> QED BY <3>1, ShortSeqs
  <2>2. \A i \in 1 .. 2 : ws[i][1] \notin Global /\ ws[i][1] # Party
    BY <1>c, <2>1, OwnLocations
  <2>3. Put(c, ws) /\ UNCHANGED <<db, cache, told>>
    BY <1>1 DEF RegularOpens, Open
  <2> HIDE DEF ws
  <2>4. /\ screen'[c] = "lobby"
        /\ \A d \in Player \ {c} : screen'[d] = screen[d] /\ listening'[d] = listening[d]
    BY <1>1, <1>c DEF RegularOpens, Open, Observe, TypeOK, DBTypeOK, LobbyTypeOK
  <2>5. ~InGame(c)'
    BY <2>4 DEF InGame, Team
  <2> QED BY <2>1, <2>2, <2>3, <2>4, <2>5, StartRegularPut
<1>2. CASE RegularGameStateEvent(c)
  <2> PICK status \in Stage :
        /\ StatusChanges(c, status)
        /\ told' = [told EXCEPT ![c] = status]
        /\ IF status = "inProgress" THEN Segue(c) ELSE UNCHANGED <<screen, received>>
        /\ UNCHANGED <<dbVars, selector, attackers, defenders, taps>>
    BY <1>2 DEF RegularGameStateEvent
  <2>1. \A d \in Player \ {c} : screen'[d] = screen[d] /\ told'[d] = told[d]
    BY <1>c DEF Segue, TypeOK, LobbyTypeOK
  <2>2. Aware(c)' => Aware(c)
    <3>1. CASE status = "inProgress"
      BY <3>1, SeenIsKnown DEF StatusChanges
    <3>2. CASE status # "inProgress"
      BY <1>c, <3>2 DEF Aware, InGame, Queued, dbVars, TypeOK, LobbyTypeOK
    <3> QED BY <3>1, <3>2
  <2>3. \A d \in Regular : Aware(d)' => Aware(d)
    BY <2>1, <2>2 DEF Aware, InGame, Queued, dbVars, Regular
  <2>4. screen'[Host] = screen[Host]
    BY <1>c, <2>1
  <2> QED BY <1>o, <2>3, <2>4, StartQuiet DEF dbVars
<1>3. CASE RegularTeamsEvent(c)
  <2>1. \A d \in Regular : Aware(d)' => Aware(d)
    BY <1>3 DEF RegularTeamsEvent, ReceiveTeams, dbVars, Aware, InGame, Queued
  <2> QED BY <1>3, <1>o, <2>1, StartQuiet DEF RegularTeamsEvent, ReceiveTeams, dbVars
<1>4. CASE RegularDidDisappear(c)
  <2>1. /\ \A d \in Player \ {c} : cache'[d] = cache[d] /\ listening'[d] = listening[d]
        /\ cache'[c][GameState] \in {cache[c][GameState], Null}
    BY <1>4, <1>c, Globals DEF RegularDidDisappear, StopListening, TypeOK, DBTypeOK
  <2>2. \A d \in Regular : Aware(d)' => Aware(d)
    BY <1>4, <2>1, NullAssumption
       DEF RegularDidDisappear, StopListening, Aware, InGame, Queued, Regular, Stage
  <2>3. listening'[Host] = listening[Host]
    BY <1>c, <2>1
  <2> QED BY <1>4, <1>o, <2>2, <2>3, StartQuiet DEF RegularDidDisappear, StopListening
<1>5. CASE RegularValueChanged(c)
  <2> PICK t \in Team : ValueChanged(c, t)
    BY <1>5 DEF RegularValueChanged
  <2> DEFINE ws == << <<TeamOf(c), t>>, <<HashTeamOf(c), t>> >>
  <2>1. ws \in Seq(Write) /\ Len(ws) = 2 /\ ws[1][1] = TeamOf(c) /\ ws[2][1] = HashTeamOf(c)
    BY <1>c, WritesAreWrites
  <2>2. \A i \in 1 .. 2 : ws[i][1] \notin Global /\ ws[i][1] # Party
    BY <1>c, <2>1, OwnLocations
  <2>3. Put(c, ws) /\ UNCHANGED <<db, cache, told, screen, listening>>
    BY DEF ValueChanged
  <2> HIDE DEF ws
  <2>4. InGame(c)' => InGame(c)
    BY <2>3 DEF InGame
  <2> QED BY <2>1, <2>2, <2>3, <2>4, StartRegularPut
<1> QED BY <1>1, <1>2, <1>3, <1>4, <1>5 DEF RegularStep

\* The steps of the game screens and the game over screen but the removal.
LEMMA StartGameOn ==
    ASSUME TypeOK, StartInv, NEW c \in Player, InGame(c), UNCHANGED <<dbVars, told>>,
           \A d \in Player \ {c} : screen'[d] = screen[d], screen'[c] # "menu"
    PROVE  StartInv'
<1>1. \A d \in Regular : Aware(d)' => Aware(d)
  BY DEF Aware, InGame, Queued, dbVars, Regular
<1>2. screen'[Host] = "menu" => screen[Host] = "menu"
  BY HostAssumption
<1>3. \A d \in Regular : Aware(d)' => Started
  BY <1>1 DEF StartInv, AwareIsRight
<1> QED BY <1>2, <1>3, StartQuiet DEF dbVars

LEMMA StartWipeParty ==
    ASSUME TypeOK, StartInv, NEW c \in Player, WipeParty(c)
    PROVE  StartInv'
<1> DEFINE ws == << <<Party, Null>> >>
<1>s. /\ screen[c] = "leaving" /\ screen'[c] = "left" /\ InGame(c)
      /\ UNCHANGED <<db, cache, told, listening, synced>>
      /\ \A d \in Player \ {c} : screen'[d] = screen[d]
  BY DEF WipeParty, InGame, TypeOK, LobbyTypeOK
<1>w. ws \in Seq(Write) /\ Len(ws) = 1 /\ ws[1] = <<Party, Null>>
  BY WritesAreWrites
<1> HIDE DEF ws
<1>1. CASE Put(c, ws)
  <2>1. CASE c = Host
    <3>1. \A i \in 1 .. Len(ws) :
            /\ ws[i][1] # Flags /\ ws[i] # <<GameState, "inLobby">>
            /\ ws[i] = Start => \A l \in Tallies : \E j \in 1 .. Len(ws) : j < i /\ ws[j][1] = l
      BY <1>w, Globals DEF Start
    <3>2. \A d \in Regular : Aware(d)' => Aware(d)
      <4>1. \A d \in Player \ {Host} : outbox'[d] = outbox[d]
        BY <1>1, <1>w, <2>1, PutPositions
      <4> QED BY <1>s, <2>1, <4>1 DEF Aware, InGame, Queued, Regular
    <3> QED BY <1>1, <1>s, <1>w, <2>1, <3>1, <3>2, StartHostPut
  <2>2. CASE c # Host
    <3>1. c \in Regular /\ Aware(c)
      BY <1>s, <2>2 DEF Regular, Aware
    <3>2. \A i \in 1 .. Len(ws) : ws[i][1] \notin Global
      BY <1>w, Globals
    <3> QED BY <1>1, <1>s, <1>w, <3>1, <3>2, StartRegularPut
  <2> QED BY <2>1, <2>2
<1>2. CASE UNCHANGED outbox
  BY <1>2, <1>s, StartGameOn DEF dbVars
<1> QED BY <1>1, <1>2 DEF WipeParty, ws

LEMMA NextStart == TypeOK /\ StartInv /\ [Next]_vars => StartInv'
<1> SUFFICES ASSUME TypeOK, StartInv, [Next]_vars PROVE StartInv'
  OBVIOUS
<1>1. CASE HostStep
  BY <1>1, StartHostStep
<1>2. CASE \E c \in Regular : RegularStep(c)
  BY <1>2, StartRegularStep
<1>3. ASSUME NEW c \in Player, AppStops(c)
      PROVE  StartInv'
  <2>1. PICK how \in {"closed", "crashed"} : Die(c, how)
    BY <1>3 DEF AppStops, Quit, TeamsCastFails, StatusCastFails
  <2> QED BY <2>1, StartDie
<1>4. ASSUME NEW c \in Player, ServerStep(c), UNCHANGED lobbyVars
      PROVE  StartInv'
  <2>1. CASE Commit(c) /\ c = Host
    BY <1>4, <2>1, StartHostCommit
  <2>2. CASE Commit(c) /\ c # Host
    BY <1>4, <2>2, StartRegularCommit DEF Regular
  <2>3. CASE Sync(c)
    BY <1>4, <2>3, StartSync
  <2> QED BY <1>4, <2>1, <2>2, <2>3 DEF ServerStep
<1>5. ASSUME NEW c \in Player, GameOverStep(c)
      PROVE  StartInv'
  <2>1. CASE GameEnds(c)
    BY <2>1, StartGameOn DEF GameEnds, InGame, TypeOK, LobbyTypeOK
  <2>2. CASE GameOverDidDisappear(c)
    BY <2>2, StartGameOn DEF GameOverDidDisappear, InGame, TypeOK, LobbyTypeOK
  <2>3. CASE WipeParty(c)
    BY <2>3, StartWipeParty
  <2> QED BY <1>5, <2>1, <2>2, <2>3 DEF GameOverStep
<1>6. CASE UNCHANGED vars
  <2>1. \A c \in Regular : Aware(c)' => Started
    BY <1>6 DEF vars, dbVars, lobbyVars, StartInv, AwareIsRight, Aware, InGame, Queued
  <2> QED BY <1>6, <2>1, StartQuiet DEF vars, dbVars, lobbyVars
<1> QED BY <1>1, <1>2, <1>3, <1>4, <1>5, <1>6 DEF Next

LEMMA InitStart == Init => StartInv
<1> SUFFICES ASSUME Init PROVE StartInv
  OBVIOUS
<1>1. /\ screen[Host] = "menu" /\ listening[Host] = {}
      /\ db[GameState] = Null /\ db[Flags] = Null
      /\ \A c \in Player : /\ outbox[c] = <<>> /\ screen[c] = "menu" /\ told[c] = "untold"
                           /\ cache[c] = EmptyCache
  BY HostAssumption, Globals DEF Init, DBInit, LobbyInit
<1>2. EmptyCache[GameState] # "inProgress" /\ Null # "inProgress"
  BY Globals, NullAssumption DEF EmptyCache, Stage
<1>3. DOMAIN <<>> = {}
  OBVIOUS
<1>4. \A c \in Player : \A l : ~Queued(c, l)
  BY <1>1, <1>3 DEF Queued
<1>5. \A c \in Regular : ~Aware(c)
  BY <1>1, <1>2, <1>4 DEF Aware, InGame, Team, Regular
<1>6. /\ StartIsComplete /\ HostStartsEmpty /\ OpeningIsNotStarted /\ OpeningComesFirst
      /\ LobbyBeforeFlags /\ StartAnnounces
  BY <1>1, <1>2, <1>3, HostAssumption
     DEF StartIsComplete, Standing, HostStartsEmpty, OpeningIsNotStarted, OpeningComesFirst,
         LobbyBeforeFlags, StartAnnounces
<1>7. RegularsKeepOff /\ AwareIsRight
  BY <1>4, <1>5 DEF RegularsKeepOff, AwareIsRight, Regular
<1> QED BY <1>6, <1>7 DEF StartInv

\* Whoever finds the game in progress finds the captured flags and both counts:
\* the four writes of startButton arrive in order, and no crash of the host, no
\* other player's write and no wipe breaks the order up.
THEOREM StartComplete == Spec => []StartIsComplete
<1>1. StartInv => StartIsComplete
  BY DEF StartInv
<1> QED BY <1>1, InitStart, TypeCorrect, NextStart, PTL DEF Spec

\* A player who joined is in the game only when the database says that it has
\* started, or when the party is gone.
THEOREM NoEarlyPlay == Spec => []NobodyPlaysBeforeStart
<1>1. StartInv => NobodyPlaysBeforeStart
  BY DEF StartInv, AwareIsRight, Aware, NobodyPlaysBeforeStart, Started
<1> QED BY <1>1, InitStart, TypeCorrect, NextStart, PTL DEF Spec

=============================================================================
