----------------------------- MODULE WipeProofs -----------------------------
(***************************************************************************)
(* The removal of the party: once everybody has left, nothing of it stays  *)
(* in the database, and only the end of a game takes it away.              *)
(***************************************************************************)
EXTENDS StartProofs

-----------------------------------------------------------------------------
(* The last one out.                                                       *)

\* A step of a player who is then still there changes nothing for the others.
LEMMA CleanBusy ==
    ASSUME TypeOK, CleanInv, NEW c \in Player, db' = db, ~Gone(c)',
           \A d \in Player \ {c} : outbox'[d] = outbox[d] /\ screen'[d] = screen[d]
    PROVE  CleanInv'
BY DEF CleanInv, LeftoverIsWipe, PartyHasKeeper, Gone

\* A commit: if it leaves the party in the database, the write was not a
\* removal, so its phone has a removal behind it or is still there.
LEMMA CleanCommit ==
    ASSUME TypeOK, CleanInv, NEW c \in Player, Commit(c), UNCHANGED screen
    PROVE  CleanInv'
<1> USE DEF CleanInv, Gone
<1> DEFINE n == Len(outbox[c])
<1>1. LeftoverIsWipe'
  <2>1. ASSUME screen[c] \in {"menu", "left"}, outbox'[c] # <<>>
        PROVE  outbox'[c][Len(outbox'[c])][1] = Party
    <3>1. Len(outbox'[c]) \in DOMAIN outbox'[c]
      <4>1. outbox'[c] \in Seq(Write)
        BY HeadTailProperties DEF Commit, TypeOK, DBTypeOK
      <4> QED BY <2>1, <4>1, EmptySeq, LenProperties
    <3>2. outbox'[c][Len(outbox'[c])] = outbox[c][n]
      BY <3>1, CommitPositions
    <3> QED BY <2>1, <3>2 DEF LeftoverIsWipe, Commit
  <2> QED BY <2>1, CommitPositions DEF LeftoverIsWipe
<1>2. PartyHasKeeper'
  <2> SUFFICES ASSUME PartyExists(db') PROVE \E d \in Player : ~Gone(d)' \/ Queued(d, Party)'
    BY DEF PartyHasKeeper
  <2>1. outbox[c][1][1] # Party
    BY CommitPositions DEF PartyExists, Applied
  <2>2. CASE ~Gone(c)
    BY <2>2
  <2>3. CASE Gone(c)
    <3>1. n \in DOMAIN outbox[c] /\ outbox[c][n][1] = Party
      BY <2>3, CommitPositions DEF LeftoverIsWipe, Commit
    <3>2. n - 1 \in DOMAIN outbox'[c] /\ outbox'[c][n - 1] = outbox[c][n]
      BY <2>1, <3>1, CommitPositions
    <3> QED BY <3>1, <3>2 DEF Queued
  <2> QED BY <2>2, <2>3
<1> QED BY <1>1, <1>2

\* The phone that leaves without a removal sees no party: all it has on its
\* way ends in a removal.
LEMMA CleanWipe ==
    ASSUME TypeOK, CleanInv, NEW c \in Player, WipeParty(c)
    PROVE  CleanInv'
<1> USE DEF CleanInv, Gone
<1> DEFINE n == Len(outbox[c])
<1>0. /\ outbox[c] \in Seq(Write) /\ n \in Nat /\ DOMAIN outbox[c] = 1 .. n
      /\ outbox[c] # <<>> => n # 0
  BY LenProperties, EmptySeq DEF TypeOK, DBTypeOK
<1>s. /\ db' = db /\ \A d \in Player \ {c} : screen'[d] = screen[d]
  BY DEF WipeParty, TypeOK, LobbyTypeOK
<1>1. CASE Put(c, << <<Party, Null>> >>)
  <2>1. << <<Party, Null>> >> \in Seq(Write) /\ Len(<< <<Party, Null>> >>) = 1
    BY WritesAreWrites
  <2>2. DOMAIN outbox'[c] = 1 .. (n + 1) /\ outbox'[c][n + 1] = <<Party, Null>>
    <3> DEFINE ws == << <<Party, Null>> >>
    <3>1. 1 \in 1 .. Len(ws) /\ ws[1] = <<Party, Null>> /\ Len(ws) = 1
      BY <2>1
    <3> HIDE DEF ws
    <3> QED BY <1>1, <2>1, <3>1, PutPositions DEF ws
  <2>3. Len(outbox'[c]) = n + 1
    <3>1. outbox'[c] \in Seq(Write)
      BY <1>1, <2>1, PutType DEF TypeOK, DBTypeOK
    <3> QED BY <1>0, <2>2, <3>1, LenProperties
  <2>4. \A d \in Player \ {c} : outbox'[d] = outbox[d]
    BY <1>1, <2>1, PutPositions
  <2>5. LeftoverIsWipe'
    BY <1>s, <2>2, <2>3, <2>4 DEF LeftoverIsWipe
  <2>6. Queued(c, Party)'
    BY <1>0, <2>2 DEF Queued
  <2> QED BY <2>5, <2>6 DEF PartyHasKeeper
<1>2. CASE /\ UNCHANGED outbox
           /\ \A l \in Loc : Merged(c, l, db[l]) = Null
  <2>1. outbox[c] # <<>> => outbox[c][n][1] = Party
    <3> SUFFICES ASSUME outbox[c] # <<>>, outbox[c][n][1] # Party PROVE FALSE
      OBVIOUS
    <3> DEFINE l == outbox[c][n][1]
    <3>1. n \in DOMAIN outbox[c]
      BY <1>0
    <3>2. l \in Loc /\ outbox[c][n][2] # Null
      BY <3>1, QueuedWrites, WriteShape
    <3>3. n \in Pending(c, l) /\ Pending(c, l) \in SUBSET (1 .. n)
      BY <1>0, <3>1 DEF Pending
    <3>4. Max(Pending(c, l)) = n
      BY <1>0, <3>3, MaxIsLast
    <3>5. Merged(c, l, db[l]) = outbox[c][n][2]
      BY <3>3, <3>4 DEF Merged
    <3> QED BY <1>2, <3>2, <3>5
  <2>2. LeftoverIsWipe'
    BY <1>2, <1>s, <2>1 DEF LeftoverIsWipe
  <2>3. ASSUME PartyExists(db) PROVE Queued(c, Party)
    <3>1. PICK l \in Loc : db[l] # Null
      BY <2>3 DEF PartyExists
    <3>2. Pending(c, l) # {}
      BY <1>2, <3>1 DEF Merged
    <3>3. outbox[c] # <<>> /\ n \in DOMAIN outbox[c]
      BY <1>0, <3>2 DEF Pending
    <3> QED BY <2>1, <3>3 DEF Queued
  <2> QED BY <1>2, <1>s, <2>2, <2>3 DEF PartyHasKeeper, Queued
<1> QED BY <1>1, <1>2 DEF WipeParty

LEMMA CleanStable ==
    ASSUME CleanInv, UNCHANGED <<db, outbox, screen>>
    PROVE  CleanInv'
BY DEF CleanInv, LeftoverIsWipe, PartyHasKeeper, Gone, Queued

LEMMA NextClean == TypeOK /\ CleanInv /\ [Next]_vars => CleanInv'
<1> SUFFICES ASSUME TypeOK, CleanInv, [Next]_vars PROVE CleanInv'
  OBVIOUS
<1> USE HostAssumption
<1>1. CASE HostStep
  <2>1. CASE HostOpens
    BY <2>1, CleanBusy DEF HostOpens, Open, Put, Gone, TypeOK, DBTypeOK, LobbyTypeOK
  <2>2. CASE StartButton
    BY <2>2, CleanBusy DEF StartButton, Put, Gone, TypeOK, DBTypeOK, LobbyTypeOK
  <2>3. CASE HostGameStateEvent
    <3>1. CASE UNCHANGED <<outbox, screen>>
      BY <2>3, <3>1, CleanStable DEF HostGameStateEvent
    <3>2. CASE Put(Host, << <<EndTime, "tenMinutesFromNow">> >>) /\ Segue(Host)
      <4>1. screen'[Host] \in Team
        BY <3>2 DEF Segue, TypeOK, LobbyTypeOK
      <4>2. \A d \in Player \ {Host} : outbox'[d] = outbox[d] /\ screen'[d] = screen[d]
        BY <3>2 DEF Put, Segue, TypeOK, DBTypeOK, LobbyTypeOK
      <4> QED BY <2>3, <4>1, <4>2, CleanBusy DEF HostGameStateEvent, Gone, Team
    <3> QED BY <2>3, <3>1, <3>2 DEF HostGameStateEvent
  <2>4. CASE HostTeamsEvent
    BY <2>4, CleanStable DEF HostTeamsEvent, ReceiveTeams, dbVars
  <2>5. CASE HostDidDisappear
    BY <2>5, CleanStable DEF HostDidDisappear, StopListening
  <2>6. CASE HostValueChanged
    BY <2>6, CleanBusy DEF HostValueChanged, ValueChanged, Put, Gone, TypeOK, DBTypeOK, LobbyTypeOK
  <2> QED BY <1>1, <2>1, <2>2, <2>3, <2>4, <2>5, <2>6 DEF HostStep
<1>2. ASSUME NEW c \in Regular, RegularStep(c)
      PROVE  CleanInv'
  <2>c. c \in Player
    BY DEF Regular
  <2>1. CASE RegularOpens(c)
    BY <2>c, <2>1, CleanBusy DEF RegularOpens, Open, Put, Gone, TypeOK, DBTypeOK, LobbyTypeOK
  <2>2. CASE RegularGameStateEvent(c)
    <3>1. CASE UNCHANGED screen
      BY <2>2, <3>1, CleanStable DEF RegularGameStateEvent, dbVars
    <3>2. CASE Segue(c)
      <4>1. screen'[c] \in Team /\ \A d \in Player \ {c} : screen'[d] = screen[d]
        BY <2>c, <3>2 DEF Segue, TypeOK, LobbyTypeOK
      <4> QED BY <2>c, <2>2, <4>1, CleanBusy DEF RegularGameStateEvent, dbVars, Gone, Team
    <3> QED BY <2>2, <3>1, <3>2 DEF RegularGameStateEvent
  <2>3. CASE RegularTeamsEvent(c)
    BY <2>3, CleanStable DEF RegularTeamsEvent, ReceiveTeams, dbVars
  <2>4. CASE RegularDidDisappear(c)
    BY <2>4, CleanStable DEF RegularDidDisappear, StopListening
  <2>5. CASE RegularValueChanged(c)
    BY <2>c, <2>5, CleanBusy DEF RegularValueChanged, ValueChanged, Put, Gone, TypeOK, DBTypeOK, LobbyTypeOK
  <2> QED BY <1>2, <2>1, <2>2, <2>3, <2>4, <2>5 DEF RegularStep
<1>3. ASSUME NEW c \in Player, AppStops(c)
      PROVE  CleanInv'
  <2>1. PICK how \in {"closed", "crashed"} : Die(c, how)
    BY <1>3 DEF AppStops, Quit, TeamsCastFails, StatusCastFails
  <2> QED BY <2>1, CleanBusy DEF Die, Disconnect, Gone, TypeOK, DBTypeOK, LobbyTypeOK
<1>4. ASSUME NEW c \in Player, ServerStep(c), UNCHANGED lobbyVars
      PROVE  CleanInv'
  <2>1. CASE Commit(c)
    BY <1>4, <2>1, CleanCommit DEF lobbyVars
  <2>2. CASE Sync(c)
    BY <1>4, <2>2, CleanStable DEF Sync, lobbyVars
  <2> QED BY <1>4, <2>1, <2>2 DEF ServerStep
<1>5. ASSUME NEW c \in Player, GameOverStep(c)
      PROVE  CleanInv'
  <2>1. CASE GameEnds(c)
    BY <2>1, CleanBusy DEF GameEnds, dbVars, Gone, TypeOK, LobbyTypeOK
  <2>2. CASE GameOverDidDisappear(c)
    BY <2>2, CleanBusy DEF GameOverDidDisappear, dbVars, Gone, TypeOK, LobbyTypeOK
  <2>3. CASE WipeParty(c)
    BY <2>3, CleanWipe
  <2> QED BY <1>5, <2>1, <2>2, <2>3 DEF GameOverStep
<1>6. CASE UNCHANGED vars
  BY <1>6, CleanStable DEF vars, dbVars, lobbyVars
<1> QED BY <1>1, <1>2, <1>3, <1>4, <1>5, <1>6 DEF Next

\* The inductive invariant of the removal (GameOverViewController.swift:44-53):
\* whoever has left has a removal as the last write on the way, and a party in
\* the database has somebody in it, or a removal on its way.
THEOREM CleanKept == Spec => []CleanInv
<1>1. Init => CleanInv
  BY DEF Init, DBInit, LobbyInit, CleanInv, LeftoverIsWipe, PartyHasKeeper, PartyExists
<1> QED BY <1>1, TypeCorrect, NextClean, PTL DEF Spec

\* When everybody who opened a lobby has left the game over screen and every
\* write has arrived, nothing of the party is left in the database.
THEOREM LastOneOut == Spec => []LastOneOutCleansUp
<1>1. CleanInv => LastOneOutCleansUp
  <2> SUFFICES ASSUME CleanInv, PartyExists(db),
                      \A c \in Player : screen[c] \in {"menu", "left"} /\ outbox[c] = <<>>
               PROVE  FALSE
    BY DEF LastOneOutCleansUp
  <2>1. PICK c \in Player : Queued(c, Party)
    BY DEF CleanInv, PartyHasKeeper, Gone
  <2>2. DOMAIN outbox[c] = {}
    <3>1. DOMAIN <<>> = {}
      OBVIOUS
    <3> QED BY <3>1
  <2> QED BY <2>1, <2>2 DEF Queued
<1> QED BY <1>1, CleanKept, PTL

-----------------------------------------------------------------------------
(* The end of the game.                                                    *)

LEMMA MaxIsMember ==
    ASSUME NEW n \in Nat, NEW S \in SUBSET (1 .. n), S # {}
    PROVE  Max(S) \in S /\ \A x \in S : Max(S) >= x
<1> DEFINE T == {k \in Nat : n - k \in S}
<1>1. T \subseteq Nat /\ T # {}
  <2>1. PICK x \in S : TRUE
    OBVIOUS
  <2>2. n - x \in Nat /\ n - (n - x) = x
    BY <2>1
  <2> QED BY <2>1, <2>2
<1>2. PICK m \in T : \A k \in T : <<k, m>> \notin OpToRel(<, Nat)
  <2> HIDE DEF T
  <2> QED BY <1>1, WFMin, NatLessThanWellFounded, Zenon
<1>3. \A k \in T : ~(k < m)
  <2>1. \A k \in T : k \in Nat
    BY <1>1
  <2> HIDE DEF T
  <2> QED BY <1>2, <2>1, Zenon DEF OpToRel
<1>4. n - m \in S
  OBVIOUS
<1>5. ASSUME NEW y \in S PROVE n - m >= y
  <2>1. n - y \in Nat /\ n - (n - y) = y
    OBVIOUS
  <2>2. n - y \in T
    BY <2>1
  <2>3. ~(n - y < m)
    BY <1>3, <2>2
  <2> QED BY <2>1, <2>3
<1> HIDE DEF T
<1> QED BY <1>4, <1>5 DEF Max

\* What the host sees in progress, its phone was told or has on its way.
LEMMA HostSeesOwn ==
    ASSUME TypeOK, View(Host, GameState) = "inProgress"
    PROVE  StartOnItsWay \/ cache[Host][GameState] = "inProgress"
<1> DEFINE P == Pending(Host, GameState)
<1> USE HostAssumption
<1>1. CASE P = {}
  BY <1>1 DEF View, Merged
<1>2. CASE P # {}
  <2>1. outbox[Host] \in Seq(Write)
    BY DEF TypeOK, DBTypeOK
  <2>2. Len(outbox[Host]) \in Nat /\ DOMAIN outbox[Host] = 1 .. Len(outbox[Host])
    BY <2>1, LenProperties
  <2>3. P \in SUBSET (1 .. Len(outbox[Host]))
    BY <2>2 DEF Pending
  <2> DEFINE i == Max(P)
  <2>4. i \in P
    BY <1>2, <2>2, <2>3, MaxIsMember
  <2>5. outbox[Host][i][2] = "inProgress"
    BY <1>2 DEF View, Merged
  <2>6. /\ i \in DOMAIN outbox[Host] /\ outbox[Host][i] \in Write
        /\ outbox[Host][i][1] \in {GameState, Party}
    BY <2>4, QueuedWrites DEF Pending
  <2> HIDE DEF i
  <2>7. outbox[Host][i] = <<outbox[Host][i][1], outbox[Host][i][2]>>
    BY <2>6, WriteShape
  <2>8. outbox[Host][i][1] # Party
    BY <2>5, <2>6, WriteShape, NullAssumption, PartyIsNoLoc DEF Stage
  <2> QED BY <2>5, <2>6, <2>7, <2>8 DEF StartOnItsWay, Start
<1> QED BY <1>1, <1>2

LEMMA HostSees ==
    ASSUME TypeOK, WipeInv, View(Host, GameState) = "inProgress"
    PROVE  StartOnItsWay \/ Started
BY HostSeesOwn DEF WipeInv, HostAwareIsRight, HostAware

\* Steps that leave the host's outbox alone.
LEMMA WipeKeep ==
    ASSUME WipeInv, StartInv', outbox'[Host] = outbox[Host], Started => Started',
           HostAware' => HostAware \/ Started
    PROVE  WipeInv'
<1>1. HostAwareIsRight'
  BY DEF WipeInv, HostAwareIsRight, StartOnItsWay
<1>2. HostWipesAfterStart'
  BY DEF WipeInv, HostWipesAfterStart
<1> QED BY <1>1, <1>2 DEF WipeInv

\* Steps in which the host appends writes.
LEMMA WipePut ==
    ASSUME TypeOK, WipeInv, StartInv', NEW ws \in Seq(Write), Put(Host, ws), Started => Started',
           HostAware' => HostAware \/ StartOnItsWay \/ Started,
           \A i \in 1 .. Len(ws) : ws[i][1] = Party => HostAware
    PROVE  WipeInv'
<1> DEFINE q == outbox[Host]
<1> DEFINE qq == outbox'[Host]
<1> DEFINE n == Len(q)
<1>p. /\ n \in Nat /\ Len(ws) \in Nat
      /\ DOMAIN q = 1 .. n /\ DOMAIN qq = 1 .. (n + Len(ws))
      /\ \A i \in 1 .. n : qq[i] = q[i]
      /\ \A i \in 1 .. Len(ws) : qq[n + i] = ws[i]
  BY HostAssumption, PutPositions
<1> HIDE DEF q, qq, n
<1>1. HostAware \/ StartOnItsWay \/ Started => StartOnItsWay \/ Started
  BY DEF WipeInv, HostAwareIsRight
<1>2. HostAwareIsRight'
  <2>1. StartOnItsWay => StartOnItsWay'
    BY <1>p DEF StartOnItsWay, q, qq
  <2> QED BY <1>1, <2>1 DEF HostAwareIsRight
<1>3. HostWipesAfterStart'
  <2> SUFFICES ASSUME NEW k \in DOMAIN qq, qq[k][1] = Party
               PROVE  (\E i \in DOMAIN qq : i < k /\ qq[i] = Start) \/ Started'
    BY DEF HostWipesAfterStart, qq
  <2>1. CASE k \in 1 .. n
    <3>1. (\E i \in DOMAIN q : i < k /\ q[i] = Start) \/ Started
      BY <1>p, <2>1 DEF WipeInv, HostWipesAfterStart, q
    <3> QED BY <1>p, <3>1
  <2>2. CASE k \notin 1 .. n
    <3>1. k - n \in 1 .. Len(ws) /\ n + (k - n) = k
      BY <1>p, <2>2
    <3>2. PICK j \in 1 .. Len(ws) : k = n + j
      BY <3>1
    <3>3. HostAware
      BY <1>p, <3>2
    <3>4. StartOnItsWay \/ Started
      BY <1>1, <3>3
    <3>5. CASE StartOnItsWay
      <4>1. PICK i \in DOMAIN q : q[i] = Start
        BY <3>5 DEF StartOnItsWay, q
      <4>2. i \in DOMAIN qq /\ i < k /\ qq[i] = Start
        BY <1>p, <2>2, <4>1
      <4> QED BY <4>2
    <3> QED BY <3>4, <3>5
  <2> QED BY <2>1, <2>2
<1> QED BY <1>2, <1>3 DEF WipeInv

LEMMA WipeHostCommit ==
    ASSUME TypeOK, WipeInv, StartInv', Commit(Host), UNCHANGED lobbyVars
    PROVE  WipeInv'
<1> DEFINE q == outbox[Host]
<1> DEFINE qq == outbox'[Host]
<1> USE HostAssumption
<1>p. /\ 1 \in DOMAIN q
      /\ \A i \in DOMAIN qq : i + 1 \in DOMAIN q /\ qq[i] = q[i + 1] /\ 1 < i + 1
      /\ \A i \in DOMAIN q : i # 1 => (i - 1 \in DOMAIN qq /\ qq[i - 1] = q[i])
      /\ DOMAIN q \subseteq Int /\ DOMAIN qq \subseteq Int
  BY CommitShift
<1>w. q[1] \in Write /\ db' = Applied(db, q[1])
  BY CommitPositions
<1> HIDE DEF q, qq
<1>1. Started => Started'
  BY CommitStarted DEF WipeInv
<1>2. q[1] = Start => Started'
  <2> SUFFICES ASSUME q[1] = Start PROVE Started'
    OBVIOUS
  <2>1. ~Opening'
    BY CommitOpening DEF WipeInv, q
  <2>2. db'[GameState] = "inProgress"
    <3>1. q[1][1] = GameState /\ q[1][2] = "inProgress" /\ GameState # Party /\ GameState \in DOMAIN db
      BY Globals DEF Start, TypeOK, DBTypeOK
    <3>2. db' = [db EXCEPT ![GameState] = "inProgress"]
      BY <1>w, <3>1 DEF Applied
    <3> QED BY <3>1, <3>2
  <2> QED BY <2>1, <2>2 DEF Started
<1>3. StartOnItsWay => StartOnItsWay' \/ Started'
  BY <1>p, <1>2 DEF StartOnItsWay, q, qq
<1>4. HostAwareIsRight'
  <2> SUFFICES ASSUME HostAware' PROVE StartOnItsWay' \/ Started'
    BY DEF HostAwareIsRight
  <2>1. CASE HostAware
    BY <1>1, <1>3, <2>1 DEF WipeInv, HostAwareIsRight
  <2>2. CASE ~HostAware
    <3>1. cache'[Host] # cache[Host] /\ cache'[Host][GameState] = "inProgress"
      BY <2>2 DEF HostAware, InGame, lobbyVars
    <3>2. cache'[Host] = Told(listening[Host], db')
      BY <1>w, <3>1 DEF Commit, TypeOK, DBTypeOK, q
    <3>3. db'[GameState] = "inProgress"
      BY <3>1, <3>2, Globals, NullAssumption DEF Told, Stage
    <3> QED BY <3>3 DEF StartInv, OpeningIsNotStarted, Started
  <2> QED BY <2>1, <2>2
<1>5. HostWipesAfterStart'
  <2> SUFFICES ASSUME NEW k \in DOMAIN qq, qq[k][1] = Party
               PROVE  (\E i \in DOMAIN qq : i < k /\ qq[i] = Start) \/ Started'
    BY DEF HostWipesAfterStart, qq
  <2>1. (\E i \in DOMAIN q : i < k + 1 /\ q[i] = Start) \/ Started
    BY <1>p DEF WipeInv, HostWipesAfterStart, q
  <2>2. ASSUME NEW i \in DOMAIN q, i < k + 1, q[i] = Start
        PROVE  (\E j \in DOMAIN qq : j < k /\ qq[j] = Start) \/ Started'
    <3>1. CASE i = 1
      BY <1>2, <2>2, <3>1
    <3>2. CASE i # 1
      <4>1. i - 1 \in DOMAIN qq /\ qq[i - 1] = Start /\ i - 1 < k
        BY <1>p, <2>2, <3>2
      <4> QED BY <4>1
    <3> QED BY <3>1, <3>2
  <2> QED BY <1>1, <2>1, <2>2
<1> QED BY <1>4, <1>5 DEF WipeInv

\* Steps after which no flags of the host are on their way that were not.
LEMMA StartedKeep ==
    ASSUME Started, db' = db, screen'[Host] = "menu" => screen[Host] = "menu",
           Queued(Host, Flags)' => Queued(Host, Flags)
    PROVE  Started'
BY DEF Started, Standing, Opening

LEMMA StartedPut ==
    ASSUME TypeOK, Started, db' = db, screen'[Host] # "menu", NEW ws \in Seq(Write), Put(Host, ws),
           \A i \in 1 .. Len(ws) : ws[i][1] # Flags
    PROVE  Started'
<1> DEFINE n == Len(outbox[Host])
<1>p. /\ n \in Nat /\ Len(ws) \in Nat
      /\ DOMAIN outbox[Host] = 1 .. n /\ DOMAIN outbox'[Host] = 1 .. (n + Len(ws))
      /\ \A i \in 1 .. n : outbox'[Host][i] = outbox[Host][i]
      /\ \A i \in 1 .. Len(ws) : outbox'[Host][n + i] = ws[i]
  BY HostAssumption, PutPositions
<1>1. ASSUME NEW k \in 1 .. (n + Len(ws)), outbox'[Host][k][1] = Flags
      PROVE  Queued(Host, Flags)
  <2>1. CASE k \in 1 .. n
    BY <1>1, <1>p, <2>1 DEF Queued
  <2>2. CASE k \notin 1 .. n
    <3> HIDE DEF n
    <3>1. k - n \in 1 .. Len(ws) /\ n + (k - n) = k
      BY <1>p, <1>1, <2>2
    <3>2. PICK j \in 1 .. Len(ws) : k = n + j
      BY <3>1
    <3> QED BY <1>1, <1>p, <3>2
  <2> QED BY <2>1, <2>2
<1>2. Queued(Host, Flags)' => Queued(Host, Flags)
  BY <1>1, <1>p DEF Queued
<1> QED BY <1>2, StartedKeep

LEMMA WipeHostStep ==
    ASSUME TypeOK, WipeInv, StartInv', HostStep
    PROVE  WipeInv'
<1> USE HostAssumption
<1>m. screen[Host] = "menu" => outbox[Host] = <<>> /\ listening[Host] = {} /\ ~Started
  BY DEF WipeInv, StartInv, HostStartsEmpty, Started, Opening
<1>1. CASE HostOpens
  <2> DEFINE ws == << <<GameState, "inLobby">>, <<RecordOf(Host), "Alive">>, <<Flags, "Free">>,
                      <<TeamOf(Host), "Attacker">> >>
  <2>1. /\ Len(ws) = 4 /\ ws[1][1] = GameState /\ ws[2][1] = RecordOf(Host)
        /\ ws[3][1] = Flags /\ ws[4][1] = TeamOf(Host)
    OBVIOUS
  <2>2. ws \in Seq(Write)
    <3>1. /\ <<GameState, "inLobby">> \in Write
          /\ <<Flags, "Free">> \in Write
          /\ <<RecordOf(Host), "Alive">> \in Write
          /\ <<TeamOf(Host), "Attacker">> \in Write
      BY WritesAreWrites DEF Stage, Team
    <3> QED BY <3>1, ShortSeqs
  <2>3. Put(Host, ws)
    BY <1>1 DEF HostOpens, Open
  <2> HIDE DEF ws
  <2>4. \A i \in 1 .. Len(ws) : ws[i][1] # Party
    BY <2>1, Globals, OwnLocations
  <2>5. screen[Host] = "menu" /\ screen'[Host] = "lobby"
    BY <1>1 DEF HostOpens, Open, TypeOK, LobbyTypeOK
  <2>6. HostAware' => HostAware
    BY <1>1, <2>5 DEF HostOpens, Open, HostAware, InGame, Team
  <2> QED BY <1>m, <2>2, <2>3, <2>4, <2>5, <2>6, WipePut
<1>2. CASE StartButton
  <2> DEFINE ws == << <<FlagsCaptured, 0>>, <<NumAttackers, Cardinality(attackers[Host])>>,
                      <<NumDefenders, Cardinality(defenders[Host])>>, <<GameState, "inProgress">> >>
  <2>1. ws \in Seq(Write)
    <3>1. Cardinality(attackers[Host]) \in Count /\ Cardinality(defenders[Host]) \in Count
      BY CountsAreCounts DEF TypeOK, LobbyTypeOK
    <3>2. /\ <<FlagsCaptured, 0>> \in Write
          /\ <<NumAttackers, Cardinality(attackers[Host])>> \in Write
          /\ <<NumDefenders, Cardinality(defenders[Host])>> \in Write
          /\ <<GameState, "inProgress">> \in Write
      BY <3>1, WritesAreWrites DEF Stage
    <3> QED BY <3>2, ShortSeqs
  <2>2. /\ Len(ws) = 4
        /\ ws[1][1] = FlagsCaptured /\ ws[2][1] = NumAttackers /\ ws[3][1] = NumDefenders
        /\ ws[4][1] = GameState
    OBVIOUS
  <2>3. Put(Host, ws) /\ screen' = screen /\ told' = told /\ cache' = cache /\ db' = db
        /\ screen[Host] # "menu"
    BY <1>2 DEF StartButton
  <2> HIDE DEF ws
  <2>4. \A i \in 1 .. Len(ws) : ws[i][1] # Flags /\ ws[i][1] # Party
    BY <2>2, Globals DEF Tallies
  <2>5. Started => Started'
    BY <2>1, <2>3, <2>4, StartedPut
  <2>6. HostAware' => HostAware
    BY <2>3 DEF HostAware, InGame
  <2> QED BY <2>1, <2>3, <2>4, <2>5, <2>6, WipePut
<1>3. CASE HostGameStateEvent
  <2> PICK status \in Stage :
        /\ StatusChanges(Host, status)
        /\ told' = [told EXCEPT ![Host] = status]
        /\ IF status = "inProgress"
           THEN Put(Host, << <<EndTime, "tenMinutesFromNow">> >>) /\ Segue(Host)
           ELSE UNCHANGED <<outbox, screen, received>>
        /\ UNCHANGED <<db, cache, synced, listening, selector, attackers, defenders, taps>>
    BY <1>3 DEF HostGameStateEvent
  <2>1. CASE status # "inProgress"
    <3>1. HostAware' => HostAware
      BY <2>1 DEF HostAware, InGame, TypeOK, LobbyTypeOK
    <3>2. Started => Started'
      BY <2>1, StartedKeep DEF Queued
    <3> QED BY <2>1, <3>1, <3>2, WipeKeep
  <2>2. CASE status = "inProgress"
    <3> DEFINE ws == << <<EndTime, "tenMinutesFromNow">> >>
    <3>1. ws \in Seq(Write) /\ Len(ws) = 1 /\ ws[1][1] = EndTime
      BY WritesAreWrites
    <3>2. Put(Host, ws)
      BY <2>2
    <3> HIDE DEF ws
    <3>3. \A i \in 1 .. Len(ws) : ws[i][1] # Flags /\ ws[i][1] # Party
      BY <3>1 DEF EndTime, Flags, Party
    <3>4. screen'[Host] # "menu"
      BY <2>2 DEF Segue, TypeOK, LobbyTypeOK, Team
    <3>5. StartOnItsWay \/ Started
      BY <2>2, HostSees DEF StatusChanges
    <3>6. Started => Started'
      BY <3>1, <3>2, <3>3, <3>4, StartedPut
    <3> QED BY <3>1, <3>2, <3>3, <3>5, <3>6, WipePut
  <2> QED BY <2>1, <2>2
<1>4. CASE HostTeamsEvent
  <2>1. UNCHANGED <<db, outbox, cache, screen, told>>
    BY <1>4 DEF HostTeamsEvent, ReceiveTeams, dbVars
  <2>2. (HostAware' => HostAware) /\ (Started => Started')
    BY <2>1, StartedKeep DEF HostAware, InGame, Queued
  <2> QED BY <2>1, <2>2, WipeKeep
<1>5. CASE HostDidDisappear
  <2>1. /\ UNCHANGED <<db, outbox, screen, told>>
        /\ cache'[Host][GameState] \in {cache[Host][GameState], Null}
    BY <1>5, Globals DEF HostDidDisappear, StopListening, TypeOK, DBTypeOK
  <2>2. (HostAware' => HostAware) /\ (Started => Started')
    BY <2>1, StartedKeep, NullAssumption DEF HostAware, InGame, Queued, Stage
  <2> QED BY <2>1, <2>2, WipeKeep
<1>6. CASE HostValueChanged
  <2> PICK t \in Team : ValueChanged(Host, t)
    BY <1>6 DEF HostValueChanged
  <2> DEFINE ws == << <<TeamOf(Host), t>>, <<HashTeamOf(Host), t>> >>
  <2>1. ws \in Seq(Write) /\ Len(ws) = 2 /\ ws[1][1] = TeamOf(Host) /\ ws[2][1] = HashTeamOf(Host)
    BY WritesAreWrites
  <2>2. Put(Host, ws) /\ screen' = screen /\ told' = told /\ cache' = cache /\ db' = db
        /\ screen[Host] # "menu"
    BY DEF ValueChanged
  <2> HIDE DEF ws
  <2>3. \A i \in 1 .. Len(ws) : ws[i][1] # Flags /\ ws[i][1] # Party
    BY <2>1, OwnLocations, Globals
  <2>4. Started => Started'
    BY <2>1, <2>2, <2>3, StartedPut
  <2>5. HostAware' => HostAware
    BY <2>2 DEF HostAware, InGame
  <2> QED BY <2>1, <2>2, <2>3, <2>4, <2>5, WipePut
<1> QED BY <1>1, <1>2, <1>3, <1>4, <1>5, <1>6 DEF HostStep

LEMMA NextWipe == TypeOK /\ WipeInv /\ StartInv' /\ [Next]_vars => WipeInv'
<1> SUFFICES ASSUME TypeOK, WipeInv, StartInv', [Next]_vars PROVE WipeInv'
  OBVIOUS
<1> USE HostAssumption
<1>1. CASE HostStep
  BY <1>1, WipeHostStep
<1>q. ASSUME UNCHANGED <<db, screen>> \/ (db' = db /\ screen'[Host] # "menu"),
             outbox'[Host] = outbox[Host], HostAware' => HostAware \/ Started
      PROVE  WipeInv'
  <2>1. Started => Started'
    BY <1>q, StartedKeep DEF Queued
  <2> QED BY <1>q, <2>1, WipeKeep
<1>2. ASSUME NEW c \in Player \ {Host},
             db' = db, outbox'[Host] = outbox[Host], cache'[Host] = cache[Host],
             screen'[Host] = screen[Host], told'[Host] = told[Host]
      PROVE  WipeInv'
  <2>1. (HostAware' => HostAware) /\ (Started => Started')
    BY <1>2, StartedKeep DEF HostAware, InGame, Queued
  <2> QED BY <1>2, <2>1, WipeKeep
<1>3. ASSUME NEW c \in Regular, RegularStep(c)
      PROVE  WipeInv'
  <2>c. c \in Player \ {Host}
    BY DEF Regular
  <2>1. CASE RegularOpens(c)
    BY <1>2, <2>c, <2>1 DEF RegularOpens, Open, Put, TypeOK, DBTypeOK, LobbyTypeOK
  <2>2. CASE RegularGameStateEvent(c)
    BY <1>2, <2>c, <2>2 DEF RegularGameStateEvent, Segue, dbVars, TypeOK, LobbyTypeOK
  <2>3. CASE RegularTeamsEvent(c)
    BY <1>2, <2>c, <2>3 DEF RegularTeamsEvent, ReceiveTeams, dbVars
  <2>4. CASE RegularDidDisappear(c)
    BY <1>2, <2>c, <2>4 DEF RegularDidDisappear, StopListening, TypeOK, DBTypeOK
  <2>5. CASE RegularValueChanged(c)
    BY <1>2, <2>c, <2>5 DEF RegularValueChanged, ValueChanged, Put, TypeOK, DBTypeOK
  <2> QED BY <1>3, <2>1, <2>2, <2>3, <2>4, <2>5 DEF RegularStep
<1>4. ASSUME NEW c \in Player, AppStops(c)
      PROVE  WipeInv'
  <2>1. PICK how \in {"closed", "crashed"} : Die(c, how)
    BY <1>4 DEF AppStops, Quit, TeamsCastFails, StatusCastFails
  <2>2. CASE c = Host
    <3>1. /\ outbox'[Host] = <<>> /\ screen'[Host] = how /\ told'[Host] = "untold"
          /\ cache'[Host] = EmptyCache
      BY <2>1, <2>2 DEF Die, Disconnect, TypeOK, DBTypeOK, LobbyTypeOK
    <3>2. EmptyCache[GameState] # "inProgress"
      BY Globals, NullAssumption DEF EmptyCache, Stage
    <3>3. ~HostAware'
      BY <3>1, <3>2 DEF HostAware, InGame, Team
    <3>4. DOMAIN <<>> = {}
      OBVIOUS
    <3>5. HostWipesAfterStart'
      BY <3>1, <3>4 DEF HostWipesAfterStart
    <3> QED BY <3>3, <3>5 DEF WipeInv, HostAwareIsRight
  <2>3. CASE c # Host
    BY <1>2, <2>1, <2>3 DEF Die, Disconnect, TypeOK, DBTypeOK, LobbyTypeOK
  <2> QED BY <2>2, <2>3
<1>5. ASSUME NEW c \in Player, ServerStep(c), UNCHANGED lobbyVars
      PROVE  WipeInv'
  <2>1. CASE Commit(c) /\ c = Host
    BY <1>5, <2>1, WipeHostCommit
  <2>2. CASE Commit(c) /\ c # Host
    <3>1. outbox'[Host] = outbox[Host] /\ cache'[Host] = cache[Host]
      BY <2>2 DEF Commit, TypeOK, DBTypeOK
    <3>2. Started => Started'
      BY <1>5, <2>2, CommitStarted DEF WipeInv
    <3>3. HostAware' => HostAware
      BY <1>5, <3>1 DEF HostAware, InGame, lobbyVars
    <3> QED BY <3>1, <3>2, <3>3, WipeKeep
  <2>3. CASE Sync(c)
    <3>1. db' = db /\ outbox' = outbox /\ screen' = screen /\ told' = told
      BY <1>5, <2>3 DEF Sync, lobbyVars
    <3>2. ASSUME HostAware' PROVE HostAware \/ Started
      <4>1. SUFFICES ASSUME ~HostAware PROVE Started
        OBVIOUS
      <4>2. cache'[Host] # cache[Host] /\ cache'[Host][GameState] = "inProgress"
        BY <3>1, <3>2, <4>1 DEF HostAware, InGame
      <4>3. cache'[Host] = Told(listening[Host], db)
        BY <2>3, <4>2 DEF Sync, TypeOK, DBTypeOK
      <4> QED BY <4>2, <4>3, ToldIsRight DEF WipeInv
    <3> QED BY <1>q, <3>1, <3>2
  <2> QED BY <1>5, <2>1, <2>2, <2>3 DEF ServerStep
<1>6. ASSUME NEW c \in Player, GameOverStep(c)
      PROVE  WipeInv'
  <2>1. CASE c # Host
    <3>1. CASE GameEnds(c)
      BY <1>2, <2>1, <3>1 DEF GameEnds, dbVars, TypeOK, LobbyTypeOK
    <3>2. CASE GameOverDidDisappear(c)
      BY <1>2, <2>1, <3>2 DEF GameOverDidDisappear, dbVars, TypeOK, LobbyTypeOK
    <3>3. CASE WipeParty(c)
      BY <1>2, <2>1, <3>3 DEF WipeParty, Put, TypeOK, DBTypeOK, LobbyTypeOK
    <3> QED BY <1>6, <3>1, <3>2, <3>3 DEF GameOverStep
  <2>2. CASE c = Host
    <3>1. CASE GameEnds(c)
      <4>1. InGame(Host) /\ screen'[Host] = "gameOver" /\ UNCHANGED dbVars
        BY <2>2, <3>1 DEF GameEnds, InGame, TypeOK, LobbyTypeOK
      <4> QED BY <1>q, <4>1 DEF dbVars, HostAware
    <3>2. CASE GameOverDidDisappear(c)
      <4>1. InGame(Host) /\ screen'[Host] = "leaving" /\ UNCHANGED dbVars
        BY <2>2, <3>2 DEF GameOverDidDisappear, InGame, TypeOK, LobbyTypeOK
      <4> QED BY <1>q, <4>1 DEF dbVars, HostAware
    <3>3. CASE WipeParty(c)
      <4> DEFINE ws == << <<Party, Null>> >>
      <4>1. InGame(Host) /\ screen'[Host] = "left" /\ db' = db
        BY <2>2, <3>3 DEF WipeParty, InGame, TypeOK, LobbyTypeOK
      <4>2. HostAware
        BY <4>1 DEF HostAware
      <4>3. ws \in Seq(Write) /\ Len(ws) = 1 /\ ws[1][1] = Party
        BY WritesAreWrites
      <4> HIDE DEF ws
      <4>4. CASE Put(Host, ws)
        <5>1. \A i \in 1 .. Len(ws) : ws[i][1] # Flags
          BY <4>3, Globals
        <5>2. Started => Started'
          BY <4>1, <4>3, <4>4, <5>1, StartedPut
        <5> QED BY <4>2, <4>3, <4>4, <5>2, WipePut
      <4>5. CASE UNCHANGED outbox
        BY <1>q, <4>1, <4>2, <4>5
      <4> QED BY <2>2, <3>3, <4>4, <4>5 DEF WipeParty, ws
    <3> QED BY <1>6, <3>1, <3>2, <3>3 DEF GameOverStep
  <2> QED BY <2>1, <2>2
<1>7. CASE UNCHANGED vars
  <2>1. UNCHANGED <<db, outbox, screen>> /\ (HostAware' => HostAware)
    BY <1>7 DEF vars, dbVars, lobbyVars, HostAware, InGame
  <2> QED BY <1>q, <2>1
<1> QED BY <1>1, <1>3, <1>4, <1>5, <1>6, <1>7 DEF Next

\* A removal that takes the party away finds it in progress.
LEMMA WipeStep == TypeOK /\ WipeInv /\ [Next]_vars => (Standing /\ ~Standing' => db[GameState] = "inProgress")
<1> SUFFICES ASSUME TypeOK, WipeInv, [Next]_vars, Standing, ~Standing'
             PROVE  db[GameState] = "inProgress"
  OBVIOUS
<1>1. PICK c \in Player : Commit(c)
  <2>1. db' # db
    BY DEF Standing
  <2>2. ~HostStep
    BY <2>1 DEF HostStep, HostOpens, Open, StartButton, HostGameStateEvent, HostTeamsEvent, ReceiveTeams,
                HostDidDisappear, StopListening, HostValueChanged, ValueChanged, dbVars
  <2>3. \A c \in Regular : ~RegularStep(c)
    BY <2>1 DEF RegularStep, RegularOpens, Open, RegularGameStateEvent, RegularTeamsEvent, ReceiveTeams,
                RegularDidDisappear, StopListening, RegularValueChanged, ValueChanged, dbVars
  <2>4. \A c \in Player : ~AppStops(c) /\ ~Sync(c) /\ ~GameOverStep(c)
    BY <2>1 DEF AppStops, Quit, TeamsCastFails, StatusCastFails, Die, Disconnect, Sync, GameOverStep,
                GameEnds, GameOverDidDisappear, WipeParty, dbVars
  <2>5. ~UNCHANGED vars
    BY <2>1 DEF vars, dbVars
  <2> QED BY <2>2, <2>3, <2>4, <2>5 DEF Next, ServerStep
<1> DEFINE w == outbox[c][1]
<1>2. 1 \in DOMAIN outbox[c] /\ DOMAIN outbox[c] \subseteq Int /\ w \in Write /\ db' = Applied(db, w)
  BY <1>1, CommitPositions, CommitShift
<1>3. w[1] = Party
  <2> SUFFICES ASSUME w[1] # Party PROVE Standing'
    OBVIOUS
  <2>1. db' = [db EXCEPT ![w[1]] = w[2]] /\ w[2] # Null
    BY <1>2, WriteShape DEF Applied
  <2>2. DOMAIN db = Loc /\ Flags \in Loc
    BY Globals DEF TypeOK, DBTypeOK
  <2> HIDE DEF w
  <2> QED BY <2>1, <2>2 DEF Standing
<1>4. Started
  <2>1. CASE c = Host
    <3>1. ~\E i \in DOMAIN outbox[Host] : i < 1
      BY <2>1, <1>1, CommitPositions
    <3> QED BY <1>2, <1>3, <2>1, <3>1 DEF WipeInv, HostWipesAfterStart
  <2>2. CASE c # Host
    BY <1>2, <1>3, <2>2 DEF WipeInv, StartInv, AwareIsRight, Aware, Queued, Regular
  <2> QED BY <2>1, <2>2
<1> QED BY <1>4 DEF Started

LEMMA InitWipe == Init => WipeInv
<1> SUFFICES ASSUME Init PROVE WipeInv
  OBVIOUS
<1>1. /\ screen[Host] = "menu" /\ told[Host] = "untold" /\ outbox[Host] = <<>>
      /\ cache[Host] = EmptyCache
  BY HostAssumption DEF Init, DBInit, LobbyInit
<1>2. EmptyCache[GameState] # "inProgress"
  BY Globals, NullAssumption DEF EmptyCache, Stage
<1>3. DOMAIN <<>> = {}
  OBVIOUS
<1> QED BY <1>1, <1>2, <1>3, InitStart DEF WipeInv, HostAwareIsRight, HostAware, InGame, Team, HostWipesAfterStart

\* The inductive invariant of the start and the removal: what is on its way from
\* the host's phone keeps the order of startButton, nobody knows of a start that
\* is not certain, and no removal is ahead of the start it ends
\* (HostLobbyViewController.swift:186-193, GameOverViewController.swift:44-53).
THEOREM WipeKept == Spec => []WipeInv
<1>1. WipeInv => StartInv
  BY DEF WipeInv
<1> QED BY <1>1, InitWipe, TypeCorrect, NextStart, NextWipe, PTL DEF Spec

\* The party is removed from the database only while its game is in progress:
\* no removal that is late, and no player who left a game, takes a party away
\* that still waits in the lobby.
THEOREM WipeEndsGame == Spec => WipeEndsStartedGame
<1>1. TypeOK /\ WipeInv /\ [Next]_vars => [Standing /\ ~Standing' => db[GameState] = "inProgress"]_vars
  BY WipeStep
<1> QED BY <1>1, TypeCorrect, WipeKept, PTL DEF Spec, WipeEndsStartedGame

=============================================================================
