---------------------------- MODULE TimerProofs -----------------------------
(***************************************************************************)
(* The end time of a game is the answer to its start.  What the host's     *)
(* phone may do to its queue of writes, and what an app that does not run  *)
(* leaves alone, is stated here for the modules that follow as well.       *)
(***************************************************************************)
EXTENDS WipeProofs

-----------------------------------------------------------------------------
(* Who is on which screen.                                                 *)

\* Steps of one player, who is there or comes in.
LEMMA ScreenKeep ==
    ASSUME TypeOK, ScreenInv, NEW c \in Player,
           c = Host \/ PartyExists(db) \/ screen[c] \in Alive,
           screen'[c] \in Alive,
           \A d \in Player \ {c} : /\ screen'[d] = screen[d] /\ selector'[d] = selector[d]
                                   /\ outbox'[d] = outbox[d] /\ listening'[d] = listening[d],
           \A d \in Player : d \notin synced' => d \notin synced /\ cache'[d] \in {cache[d], EmptyCache}
    PROVE  ScreenInv'
<1>1. StoppedIsSilent'
  BY DEF ScreenInv, StoppedIsSilent
<1>2. HostComesFirst'
  <2> SUFFICES ASSUME screen'[Host] = "menu" PROVE FALSE
    BY DEF HostComesFirst
  <2>1. c # Host /\ screen[Host] = "menu"
    BY HostAssumption DEF Alive
  <2> QED BY <2>1 DEF ScreenInv, HostComesFirst, Alive
<1>3. UnsyncedKnowsNothing'
  BY DEF ScreenInv, UnsyncedKnowsNothing
<1> QED BY <1>1, <1>2, <1>3 DEF ScreenInv

\* An app that stops was running.
LEMMA StopsAlive ==
    ASSUME TypeOK, ScreenInv, NEW c \in Player, AppStops(c)
    PROVE  screen[c] \in Alive /\ \E how \in {"closed", "crashed"} : Die(c, how)
<1>1. screen[c] \in Alive
  BY DEF AppStops, Quit, TeamsCastFails, TeamsSnapshot, StatusCastFails, StatusChanges,
         ScreenInv, StoppedIsSilent
<1> QED BY <1>1 DEF AppStops, Quit, TeamsCastFails, StatusCastFails

LEMMA ListenersAlive ==
    ASSUME TypeOK, ScreenInv, NEW c \in Player, listening[c] # {} \/ outbox[c] # <<>>
    PROVE  screen[c] \in Alive
BY DEF ScreenInv, StoppedIsSilent

LEMMA SegueScreens ==
    ASSUME TypeOK, NEW c \in Player, Segue(c)
    PROVE  screen'[c] \in Team /\ \A d \in Player \ {c} : screen'[d] = screen[d]
BY DEF Segue, TypeOK, LobbyTypeOK

\* What is left of a cache that is empty.
LEMMA EmptyStays ==
    ASSUME NEW nodes, NEW old, old = EmptyCache
    PROVE  [l \in Watched |-> IF Node(l) \in nodes THEN old[l] ELSE Null] = EmptyCache
BY DEF EmptyCache

LEMMA ScreenListener ==
    ASSUME TypeOK, ScreenInv, NEW c \in Player, NEW nodes, StopListening(c, nodes)
    PROVE  ScreenInv'
<1>1. \A d \in Player : d \notin synced => cache'[d] \in {cache[d], EmptyCache}
  BY EmptyStays DEF StopListening, ScreenInv, UnsyncedKnowsNothing, TypeOK, DBTypeOK
<1> QED BY <1>1, ScreenKeep DEF StopListening, TypeOK, DBTypeOK

LEMMA ScreenHostStep ==
    ASSUME TypeOK, ScreenInv, HostStep
    PROVE  ScreenInv'
<1> USE HostAssumption
<1>1. CASE HostOpens
  BY <1>1, ScreenKeep DEF HostOpens, Open, Put, Observe, TypeOK, DBTypeOK, LobbyTypeOK, Alive, Screen
<1>2. CASE StartButton
  BY <1>2, ScreenKeep DEF StartButton, Put, TypeOK, DBTypeOK, Alive, Screen
<1>3. CASE HostGameStateEvent
  <2>1. screen[Host] \in Alive
    BY <1>3, ListenersAlive DEF HostGameStateEvent, StatusChanges
  <2>2. screen'[Host] \in Alive /\ \A d \in Player \ {Host} : screen'[d] = screen[d]
    BY <1>3, <2>1, SegueScreens DEF HostGameStateEvent, Alive, Screen, Team
  <2>3. \A d \in Player \ {Host} : outbox'[d] = outbox[d]
    BY <1>3 DEF HostGameStateEvent, Put, TypeOK, DBTypeOK
  <2> QED BY <1>3, <2>1, <2>2, <2>3, ScreenKeep DEF HostGameStateEvent
<1>4. CASE HostTeamsEvent
  <2>1. screen[Host] \in Alive
    BY <1>4, ListenersAlive DEF HostTeamsEvent, ReceiveTeams, TeamsSnapshot
  <2> QED BY <1>4, <2>1, ScreenKeep DEF HostTeamsEvent, ReceiveTeams, dbVars
<1>5. CASE HostDidDisappear
  BY <1>5, ScreenListener DEF HostDidDisappear
<1>6. CASE HostValueChanged
  BY <1>6, ScreenKeep DEF HostValueChanged, ValueChanged, Put, TypeOK, DBTypeOK, LobbyTypeOK, Alive, Screen
<1> QED BY <1>1, <1>2, <1>3, <1>4, <1>5, <1>6 DEF HostStep

LEMMA ScreenRegularStep ==
    ASSUME TypeOK, ScreenInv, NEW c \in Regular, RegularStep(c)
    PROVE  ScreenInv'
<1>c. c \in Player
  BY DEF Regular
<1>1. CASE RegularOpens(c)
  BY <1>c, <1>1, ScreenKeep
     DEF RegularOpens, Open, Put, Observe, TypeOK, DBTypeOK, LobbyTypeOK, Alive, Screen
<1>2. CASE RegularGameStateEvent(c)
  <2>1. screen[c] \in Alive
    BY <1>c, <1>2, ListenersAlive DEF RegularGameStateEvent, StatusChanges
  <2>2. screen'[c] \in Alive /\ \A d \in Player \ {c} : screen'[d] = screen[d]
    BY <1>c, <1>2, <2>1, SegueScreens DEF RegularGameStateEvent, Alive, Screen, Team
  <2> QED BY <1>c, <1>2, <2>1, <2>2, ScreenKeep DEF RegularGameStateEvent, dbVars
<1>3. CASE RegularTeamsEvent(c)
  <2>1. screen[c] \in Alive
    BY <1>c, <1>3, ListenersAlive DEF RegularTeamsEvent, ReceiveTeams, TeamsSnapshot
  <2> QED BY <1>c, <1>3, <2>1, ScreenKeep DEF RegularTeamsEvent, ReceiveTeams, dbVars
<1>4. CASE RegularDidDisappear(c)
  BY <1>c, <1>4, ScreenListener DEF RegularDidDisappear
<1>5. CASE RegularValueChanged(c)
  BY <1>c, <1>5, ScreenKeep
     DEF RegularValueChanged, ValueChanged, Put, TypeOK, DBTypeOK, LobbyTypeOK, Alive, Screen
<1> QED BY <1>1, <1>2, <1>3, <1>4, <1>5 DEF RegularStep

LEMMA ScreenServerStep ==
    ASSUME TypeOK, ScreenInv, NEW c \in Player, ServerStep(c), UNCHANGED lobbyVars
    PROVE  ScreenInv'
<1>1. screen[c] \in Alive
  BY ListenersAlive DEF ServerStep, Commit, Sync
<1>2. CASE Commit(c)
  BY <1>1, <1>2, ScreenKeep DEF Commit, lobbyVars, TypeOK, DBTypeOK
<1>3. CASE Sync(c)
  BY <1>1, <1>3, ScreenKeep DEF Sync, lobbyVars, TypeOK, DBTypeOK
<1> QED BY <1>2, <1>3 DEF ServerStep

LEMMA ScreenGameOverStep ==
    ASSUME TypeOK, ScreenInv, NEW c \in Player, GameOverStep(c)
    PROVE  ScreenInv'
<1>1. CASE GameEnds(c)
  BY <1>1, ScreenKeep DEF GameEnds, dbVars, TypeOK, LobbyTypeOK, Alive, Screen, Team
<1>2. CASE GameOverDidDisappear(c)
  BY <1>2, ScreenKeep DEF GameOverDidDisappear, dbVars, TypeOK, LobbyTypeOK, Alive, Screen
<1>3. CASE WipeParty(c)
  BY <1>3, ScreenKeep DEF WipeParty, Put, TypeOK, DBTypeOK, LobbyTypeOK, Alive, Screen
<1> QED BY <1>1, <1>2, <1>3 DEF GameOverStep

LEMMA ScreenDie ==
    ASSUME TypeOK, ScreenInv, NEW c \in Player, NEW how \in {"closed", "crashed"}, Die(c, how),
           screen[c] \in Alive
    PROVE  ScreenInv'
<1>1. /\ screen'[c] = how /\ selector'[c] = "Attacker" /\ cache'[c] = EmptyCache
      /\ outbox'[c] = <<>> /\ listening'[c] = {}
      /\ \A d \in Player \ {c} : /\ outbox'[d] = outbox[d] /\ screen'[d] = screen[d]
                                 /\ selector'[d] = selector[d] /\ cache'[d] = cache[d]
                                 /\ listening'[d] = listening[d]
      /\ synced' = synced \ {c}
  BY DEF Die, Disconnect, TypeOK, DBTypeOK, LobbyTypeOK
<1>2. StoppedIsSilent' /\ UnsyncedKnowsNothing'
  BY <1>1 DEF ScreenInv, StoppedIsSilent, UnsyncedKnowsNothing
<1>3. HostComesFirst'
  BY <1>1, HostAssumption DEF ScreenInv, HostComesFirst, Alive
<1> QED BY <1>2, <1>3 DEF ScreenInv

LEMMA NextScreen == TypeOK /\ ScreenInv /\ [Next]_vars => ScreenInv'
<1> SUFFICES ASSUME TypeOK, ScreenInv, [Next]_vars PROVE ScreenInv'
  OBVIOUS
<1>1. CASE HostStep
  BY <1>1, ScreenHostStep
<1>2. CASE \E c \in Regular : RegularStep(c)
  BY <1>2, ScreenRegularStep
<1>3. CASE \E c \in Player : AppStops(c)
  BY <1>3, StopsAlive, ScreenDie
<1>4. CASE \E c \in Player : ServerStep(c) /\ UNCHANGED lobbyVars
  BY <1>4, ScreenServerStep
<1>5. CASE \E c \in Player : GameOverStep(c)
  BY <1>5, ScreenGameOverStep
<1>6. CASE UNCHANGED vars
  BY <1>6 DEF ScreenInv, StoppedIsSilent, HostComesFirst, UnsyncedKnowsNothing, PartyExists,
              vars, dbVars, lobbyVars
<1> QED BY <1>1, <1>2, <1>3, <1>4, <1>5, <1>6 DEF Next

LEMMA InitScreen == Init => ScreenInv
BY DEF Init, DBInit, LobbyInit, ScreenInv, StoppedIsSilent, HostComesFirst, UnsyncedKnowsNothing, PartyExists

-----------------------------------------------------------------------------
(* The host's queue.                                                       *)

HostIdle ==
    db' = db /\ outbox'[Host] = outbox[Host] /\ (screen'[Host] = "menu" <=> screen[Host] = "menu")

\* Anything but the opening: the end time only in answer to a start, the counts
\* only with one.
HostSends(ws) ==
    /\ db' = db
    /\ Put(Host, ws)
    /\ screen[Host] # "menu" /\ screen'[Host] # "menu"
    /\ \A i \in 1 .. Len(ws) :
        /\ ws[i][1] # Flags
        /\ ws[i][1] = EndTime => StartOnItsWay \/ Started
        /\ ws[i][1] \in {NumAttackers, NumDefenders} => StartButton

HostStops ==
    /\ db' = db
    /\ outbox'[Host] = <<>> /\ cache'[Host] = EmptyCache /\ told'[Host] = "untold"
    /\ screen[Host] # "menu" /\ screen'[Host] \in {"closed", "crashed"}

Commits(c) == Commit(c) /\ UNCHANGED lobbyVars

LEMMA EndTimeApart ==
    /\ EndTime \in Loc /\ EndTime \in Global
    /\ EndTime # GameState /\ EndTime # Flags /\ EndTime # Party /\ EndTime \notin Tallies
BY DEF Loc, Global, Tallies, Party, GameState, FlagsCaptured, NumAttackers, NumDefenders, EndTime, Flags

LEMMA OwnLocationsApart ==
    ASSUME NEW p \in Player
    PROVE  /\ TeamOf(p) # Flags /\ HashTeamOf(p) # Flags /\ RecordOf(p) # Flags
           /\ TeamOf(p) # EndTime /\ HashTeamOf(p) # EndTime /\ RecordOf(p) # EndTime
BY OwnLocations, EndTimeApart, Globals

LEMMA HostQueueHost ==
    ASSUME TypeOK, ScreenInv, WipeInv, HostStep
    PROVE  HostOpens \/ HostIdle \/ \E ws \in Seq(Write) : HostSends(ws)
<1> USE HostAssumption
<1>m. /\ "lobby" \in Alive /\ "menu" \notin Alive /\ "menu" \notin Team
  BY DEF Alive, Screen, Team
<1>2. CASE StartButton
  <2> DEFINE ws == << <<FlagsCaptured, 0>>, <<NumAttackers, Cardinality(attackers[Host])>>,
                      <<NumDefenders, Cardinality(defenders[Host])>>, <<GameState, "inProgress">> >>
  <2>1. ws \in Seq(Write)
    <3>1. Cardinality(attackers[Host]) \in Count /\ Cardinality(defenders[Host]) \in Count
      BY CountsAreCounts DEF TypeOK, LobbyTypeOK
    <3>2. /\ <<FlagsCaptured, 0>> \in Write
          /\ <<NumAttackers, Cardinality(attackers[Host])>> \in Write
          /\ <<NumDefenders, Cardinality(defenders[Host])>> \in Write
          /\ <<GameState, "inProgress">> \in Write
      BY <3>1, WritesAreWrites DEF Stage
    <3> QED BY <3>2, ShortSeqs
  <2>2. /\ Len(ws) = 4
        /\ ws[1][1] = FlagsCaptured /\ ws[2][1] = NumAttackers /\ ws[3][1] = NumDefenders
        /\ ws[4][1] = GameState
    OBVIOUS
  <2>3. Put(Host, ws) /\ db' = db /\ screen[Host] = "lobby" /\ screen'[Host] = "lobby"
    BY <1>2 DEF StartButton
  <2> HIDE DEF ws
  <2>4. \A i \in 1 .. Len(ws) : ws[i][1] # Flags /\ ws[i][1] # EndTime
    BY <2>2, Globals, EndTimeApart DEF Tallies
  <2>5. HostSends(ws)
    BY <1>2, <2>3, <2>4 DEF HostSends
  <2> QED BY <2>1, <2>5
<1>3. CASE HostGameStateEvent
  <2> PICK status \in Stage :
        /\ StatusChanges(Host, status)
        /\ IF status = "inProgress"
           THEN Put(Host, << <<EndTime, "tenMinutesFromNow">> >>) /\ Segue(Host)
           ELSE UNCHANGED <<outbox, screen, received>>
        /\ db' = db
    BY <1>3 DEF HostGameStateEvent
  <2>1. CASE status # "inProgress"
    BY <2>1 DEF HostIdle
  <2>2. CASE status = "inProgress"
    <3> DEFINE ws == << <<EndTime, "tenMinutesFromNow">> >>
    <3>1. ws \in Seq(Write) /\ Len(ws) = 1 /\ ws[1][1] = EndTime
      BY WritesAreWrites
    <3>2. Put(Host, ws)
      BY <2>2
    <3> HIDE DEF ws
    <3>3. screen[Host] # "menu"
      BY <1>m, ListenersAlive DEF StatusChanges
    <3>4. screen'[Host] # "menu"
      BY <1>m, <2>2, SegueScreens
    <3>5. StartOnItsWay \/ Started
      BY <2>2, HostSees DEF StatusChanges
    <3>6. HostSends(ws)
      BY <3>1, <3>2, <3>3, <3>4, <3>5, EndTimeApart DEF HostSends, Tallies
    <3> QED BY <3>1, <3>6
  <2> QED BY <2>1, <2>2
<1>4. CASE HostTeamsEvent
  BY <1>4 DEF HostTeamsEvent, ReceiveTeams, dbVars, HostIdle
<1>5. CASE HostDidDisappear
  BY <1>5 DEF HostDidDisappear, StopListening, HostIdle
<1>6. CASE HostValueChanged
  <2> PICK t \in Team : ValueChanged(Host, t)
    BY <1>6 DEF HostValueChanged
  <2> DEFINE ws == << <<TeamOf(Host), t>>, <<HashTeamOf(Host), t>> >>
  <2>1. ws \in Seq(Write) /\ Len(ws) = 2 /\ ws[1][1] = TeamOf(Host) /\ ws[2][1] = HashTeamOf(Host)
    BY WritesAreWrites
  <2>2. Put(Host, ws) /\ db' = db /\ screen[Host] = "lobby" /\ screen'[Host] = "lobby"
    BY DEF ValueChanged
  <2> HIDE DEF ws
  <2>3. HostSends(ws)
    BY <2>1, <2>2, OwnLocationsApart, OwnLocations, Globals DEF HostSends, Tallies
  <2> QED BY <2>1, <2>3
<1> QED BY <1>2, <1>3, <1>4, <1>5, <1>6 DEF HostStep

LEMMA HostQueueRegular ==
    ASSUME TypeOK, NEW c \in Regular, RegularStep(c)
    PROVE  HostIdle
<1>1. c \in Player /\ c # Host
  BY DEF Regular
<1>2. screen \in [Player -> Screen] /\ outbox \in [Player -> Seq(Write)]
  BY DEF TypeOK, DBTypeOK, LobbyTypeOK
<1>3. CASE RegularOpens(c)
  BY <1>1, <1>2, <1>3, HostAssumption DEF RegularOpens, Open, Put, HostIdle
<1>4. CASE RegularGameStateEvent(c)
  BY <1>1, <1>2, <1>4, HostAssumption DEF RegularGameStateEvent, Segue, dbVars, HostIdle
<1>5. CASE RegularTeamsEvent(c) \/ RegularDidDisappear(c)
  BY <1>5 DEF RegularTeamsEvent, ReceiveTeams, RegularDidDisappear, StopListening, dbVars, HostIdle
<1>6. CASE RegularValueChanged(c)
  BY <1>1, <1>2, <1>6, HostAssumption DEF RegularValueChanged, ValueChanged, Put, HostIdle
<1> QED BY <1>3, <1>4, <1>5, <1>6 DEF RegularStep

LEMMA HostQueueStops ==
    ASSUME TypeOK, ScreenInv, NEW c \in Player, AppStops(c)
    PROVE  IF c = Host THEN HostStops ELSE HostIdle
<1> USE HostAssumption
<1>m. "menu" \notin Alive
  BY DEF Alive
<1>1. PICK how \in {"closed", "crashed"} : screen[c] \in Alive /\ Die(c, how)
  BY StopsAlive
<1>2. CASE c = Host
  BY <1>m, <1>1, <1>2 DEF Die, Disconnect, HostStops, TypeOK, DBTypeOK, LobbyTypeOK
<1>3. CASE c # Host
  BY <1>1, <1>3 DEF Die, Disconnect, HostIdle, TypeOK, DBTypeOK, LobbyTypeOK
<1> QED BY <1>2, <1>3

LEMMA HostQueueGameOver ==
    ASSUME TypeOK, NEW c \in Player, GameOverStep(c)
    PROVE  HostIdle \/ \E ws \in Seq(Write) : HostSends(ws)
<1> USE HostAssumption
<1>1. CASE GameEnds(c) \/ GameOverDidDisappear(c)
  BY <1>1 DEF GameEnds, GameOverDidDisappear, HostIdle, dbVars, TypeOK, LobbyTypeOK, Team
<1>2. CASE WipeParty(c)
  <2> DEFINE ws == << <<Party, Null>> >>
  <2>1. ws \in Seq(Write) /\ Len(ws) = 1 /\ ws[1][1] = Party
    BY WritesAreWrites
  <2>2. /\ db' = db /\ screen[c] = "leaving" /\ screen'[c] = "left"
        /\ \A d \in Player \ {c} : screen'[d] = screen[d]
        /\ Put(c, ws) \/ UNCHANGED outbox
    BY <1>2 DEF WipeParty, TypeOK, LobbyTypeOK
  <2> HIDE DEF ws
  <2>3. CASE c = Host /\ Put(c, ws)
    <3>1. HostSends(ws)
      BY <2>1, <2>2, <2>3, Globals, EndTimeApart DEF HostSends, Tallies
    <3> QED BY <2>1, <3>1
  <2>4. CASE c # Host /\ Put(c, ws)
    BY <2>2, <2>4 DEF HostIdle, Put, TypeOK, DBTypeOK
  <2>5. CASE UNCHANGED outbox
    BY <2>2, <2>5 DEF HostIdle
  <2> QED BY <2>2, <2>3, <2>4, <2>5
<1> QED BY <1>1, <1>2 DEF GameOverStep

LEMMA HostQueueSteps ==
    ASSUME TypeOK, ScreenInv, WipeInv, [Next]_vars
    PROVE  \/ HostOpens \/ HostIdle \/ HostStops
           \/ \E ws \in Seq(Write) : HostSends(ws)
           \/ \E c \in Player : Commits(c)
<1>1. ASSUME NEW c \in Player, ServerStep(c), UNCHANGED lobbyVars
      PROVE  HostIdle \/ Commits(c)
  BY <1>1 DEF ServerStep, Sync, HostIdle, Commits, lobbyVars
<1>2. CASE UNCHANGED vars
  BY <1>2 DEF vars, dbVars, lobbyVars, HostIdle
<1> QED BY <1>1, <1>2, HostQueueHost, HostQueueRegular, HostQueueStops, HostQueueGameOver DEF Next

-----------------------------------------------------------------------------
(* The timer.                                                              *)

LEMMA TimerIdle ==
    ASSUME TimerInv, HostIdle
    PROVE  TimerInv'
<1>1. Opening' = Opening /\ Standing' = Standing
  BY DEF HostIdle, Opening, Queued, Standing
<1> QED
  BY <1>1 DEF HostIdle, TimerInv, FlagsOnce, OpeningIsUnpublished, TimerFollowsStart, TimerNeedsStart, Started

LEMMA TimerStops ==
    ASSUME TimerInv, HostStops
    PROVE  TimerInv'
<1>1. DOMAIN <<>> = {}
  OBVIOUS
<1>2. ~Opening' /\ Standing' = Standing
  BY <1>1 DEF HostStops, Opening, Queued, Standing
<1> QED
  BY <1>1, <1>2 DEF HostStops, TimerInv, FlagsOnce, OpeningIsUnpublished, TimerFollowsStart, TimerNeedsStart

\* Writes that are appended are behind those on their way.
LEMMA SendsPositions ==
    ASSUME TypeOK, NEW c \in Player, NEW ws \in Seq(Write), Put(c, ws)
    PROVE  /\ \A i \in DOMAIN outbox[c] : i \in DOMAIN outbox'[c] /\ outbox'[c][i] = outbox[c][i]
           /\ \A k \in DOMAIN outbox'[c] :
                 \/ k \in DOMAIN outbox[c] /\ outbox'[c][k] = outbox[c][k]
                 \/ /\ \A i \in DOMAIN outbox[c] : i < k
                    /\ \E j \in 1 .. Len(ws) : k = Len(outbox[c]) + j /\ outbox'[c][k] = ws[j]
<1> DEFINE n == Len(outbox[c])
<1>1. /\ n \in Nat /\ Len(ws) \in Nat
      /\ DOMAIN outbox[c] = 1 .. n /\ DOMAIN outbox'[c] = 1 .. (n + Len(ws))
      /\ \A i \in 1 .. n : outbox'[c][i] = outbox[c][i]
      /\ \A i \in 1 .. Len(ws) : outbox'[c][n + i] = ws[i]
  BY PutPositions
<1>2. ASSUME NEW k \in 1 .. (n + Len(ws)), k \notin 1 .. n
      PROVE  /\ \A i \in 1 .. n : i < k
             /\ \E j \in 1 .. Len(ws) : k = n + j /\ outbox'[c][k] = ws[j]
  <2> HIDE DEF n
  <2>1. k - n \in 1 .. Len(ws) /\ k = n + (k - n) /\ \A i \in 1 .. n : i < k
    BY <1>1, <1>2
  <2>2. PICK j \in 1 .. Len(ws) : k = n + j
    BY <2>1
  <2> QED BY <1>1, <2>1, <2>2
<1> QED BY <1>1, <1>2

LEMMA TimerSends ==
    ASSUME TypeOK, TimerInv, NEW ws \in Seq(Write), HostSends(ws)
    PROVE  TimerInv'
<1> DEFINE q == outbox[Host]
<1> DEFINE qq == outbox'[Host]
<1> USE HostAssumption
<1>p. /\ \A i \in DOMAIN q : i \in DOMAIN qq /\ qq[i] = q[i]
      /\ \A k \in DOMAIN qq : \/ k \in DOMAIN q /\ qq[k] = q[k]
                              \/ /\ \A i \in DOMAIN q : i < k
                                 /\ \E j \in 1 .. Len(ws) : qq[k] = ws[j]
  BY SendsPositions DEF HostSends
<1> HIDE DEF q, qq
<1>f. \A k \in DOMAIN qq : qq[k][1] = Flags => k \in DOMAIN q /\ qq[k] = q[k]
  BY <1>p DEF HostSends
<1>1. (Opening' => Opening) /\ Standing' = Standing
  BY <1>f DEF HostSends, Opening, Queued, Standing, q, qq
<1>2. FlagsOnce'
  BY <1>f DEF TimerInv, FlagsOnce, q, qq
<1>3. OpeningIsUnpublished' /\ TimerNeedsStart'
  BY <1>1 DEF HostSends, TimerInv, OpeningIsUnpublished, TimerNeedsStart
<1>4. TimerFollowsStart'
  <2> SUFFICES ASSUME NEW k \in DOMAIN qq, qq[k][1] = EndTime
               PROVE  (\E i \in DOMAIN qq : i < k /\ qq[i] = Start) \/ Started'
    BY DEF TimerFollowsStart, qq
  <2>1. Started => Started'
    BY <1>1 DEF HostSends, Started
  <2>2. CASE k \in DOMAIN q /\ qq[k] = q[k]
    BY <1>p, <2>1, <2>2 DEF TimerInv, TimerFollowsStart, q
  <2>3. CASE (\A i \in DOMAIN q : i < k) /\ \E j \in 1 .. Len(ws) : qq[k] = ws[j]
    <3>1. StartOnItsWay \/ Started
      BY <2>3 DEF HostSends
    <3> QED BY <1>p, <2>1, <2>3, <3>1 DEF StartOnItsWay, q
  <2> QED BY <1>p, <2>2, <2>3
<1> QED BY <1>2, <1>3, <1>4 DEF TimerInv

LEMMA TimerOpens ==
    ASSUME TypeOK, ScreenInv, HostOpens
    PROVE  TimerInv'
<1> DEFINE q == << <<GameState, "inLobby">>, <<RecordOf(Host), "Alive">>, <<Flags, "Free">>,
                   <<TeamOf(Host), "Attacker">> >>
<1>0. screen[Host] = "menu" /\ outbox[Host] = <<>> /\ db' = db
  BY HostAssumption DEF HostOpens, Open, ScreenInv, StoppedIsSilent, Alive
<1>1. /\ screen[Host] = "menu" /\ outbox[Host] = <<>> /\ db' = db
      /\ outbox'[Host] = q
  BY HostAssumption, <1>0 DEF HostOpens, Open, Put, TypeOK, DBTypeOK
<1>2. /\ DOMAIN q = 1 .. 4
      /\ q[1][1] = GameState /\ q[2][1] = RecordOf(Host) /\ q[3][1] = Flags /\ q[4][1] = TeamOf(Host)
  OBVIOUS
<1> HIDE DEF q
<1>3. \A i \in 1 .. 4 : /\ q[i][1] = Flags => i = 3
                        /\ q[i][1] # EndTime
  BY <1>2, HostAssumption, OwnLocationsApart, EndTimeApart, Globals
<1>4. ~Standing' /\ db'[EndTime] = Null
  BY <1>1, EndTimeApart, Globals DEF ScreenInv, HostComesFirst, PartyExists, Standing
<1>5. FlagsOnce' /\ TimerFollowsStart'
  BY <1>1, <1>2, <1>3 DEF FlagsOnce, TimerFollowsStart
<1> QED BY <1>4, <1>5 DEF TimerInv, OpeningIsUnpublished, TimerNeedsStart

\* What a write does to the database.
LEMMA CommitEffect ==
    ASSUME TypeOK, NEW c \in Player, Commit(c)
    PROVE  /\ outbox[c][1] \in Write
           /\ outbox[c][1][1] = Party => \A l \in Loc : db'[l] = Null
           /\ outbox[c][1][1] # Party =>
                /\ outbox[c][1][1] \in Loc /\ outbox[c][1][2] # Null
                /\ \A l \in Loc : db'[l] = IF l = outbox[c][1][1] THEN outbox[c][1][2] ELSE db[l]
<1>1. outbox[c][1] \in Write /\ db' = Applied(db, outbox[c][1]) /\ DOMAIN db = Loc
  BY CommitPositions DEF TypeOK, DBTypeOK
<1> QED BY <1>1, WriteShape DEF Applied

LEMMA TimerHostCommit ==
    ASSUME TypeOK, StartInv, TimerInv, Commits(Host)
    PROVE  TimerInv'
<1> DEFINE q == outbox[Host]
<1> DEFINE qq == outbox'[Host]
<1> DEFINE w == q[1]
<1> USE HostAssumption
<1>p. /\ 1 \in DOMAIN q
      /\ \A i \in DOMAIN qq : i + 1 \in DOMAIN q /\ qq[i] = q[i + 1] /\ 1 < i + 1
      /\ \A i \in DOMAIN q : i # 1 => (i - 1 \in DOMAIN qq /\ qq[i - 1] = q[i])
      /\ DOMAIN q \subseteq Int /\ DOMAIN qq \subseteq Int
  BY CommitShift DEF Commits
<1>n. ~\E i \in DOMAIN q : i < 1
  BY CommitPositions DEF Commits
<1>w. /\ w \in Write
      /\ w[1] = Party => \A l \in Loc : db'[l] = Null
      /\ w[1] # Party => \A l \in Loc : db'[l] = IF l = w[1] THEN w[2] ELSE db[l]
  BY CommitEffect DEF Commits
<1> HIDE DEF q, qq, w
<1>1. Opening' => Opening
  BY CommitOpening DEF Commits
<1>s. Started => Started'
  BY CommitStarted DEF Commits
<1>e. w[1] = EndTime => Started
  BY <1>n, <1>p DEF TimerInv, TimerFollowsStart, q, w
<1>f. w[1] = Flags => ~Opening'
  <2> SUFFICES ASSUME w[1] = Flags, NEW i \in DOMAIN qq, qq[i][1] = Flags PROVE FALSE
    BY CommitOpening DEF Commits, Opening, Queued, lobbyVars, StartInv, HostStartsEmpty, Commit, qq
  <2>1. i + 1 \in DOMAIN q /\ q[i + 1][1] = Flags /\ 1 < i + 1
    BY <1>p
  <2> QED BY <1>p, <2>1 DEF TimerInv, FlagsOnce, q, w
<1>2. FlagsOnce'
  <2> SUFFICES ASSUME NEW i \in DOMAIN qq, NEW j \in DOMAIN qq, qq[i][1] = Flags, qq[j][1] = Flags
               PROVE  i = j
    BY DEF FlagsOnce, qq
  <2>1. i + 1 = j + 1
    BY <1>p DEF TimerInv, FlagsOnce, q
  <2> QED BY <1>p, <2>1
<1>3. OpeningIsUnpublished'
  <2> SUFFICES ASSUME Opening' PROVE db'[Flags] = Null /\ db'[EndTime] = Null
    BY DEF OpeningIsUnpublished, Standing
  <2>1. Opening /\ db[Flags] = Null /\ db[EndTime] = Null
    BY <1>1 DEF TimerInv, OpeningIsUnpublished, Standing
  <2>2. w[1] # Flags /\ w[1] # EndTime
    BY <1>e, <1>f, <2>1 DEF Started
  <2> QED BY <1>w, <2>1, <2>2, EndTimeApart, Globals
<1>4. TimerFollowsStart'
  <2> SUFFICES ASSUME NEW k \in DOMAIN qq, qq[k][1] = EndTime
               PROVE  (\E i \in DOMAIN qq : i < k /\ qq[i] = Start) \/ Started'
    BY DEF TimerFollowsStart, qq
  <2>1. (\E i \in DOMAIN q : i < k + 1 /\ q[i] = Start) \/ Started
    BY <1>p DEF TimerInv, TimerFollowsStart, q
  <2>2. ASSUME NEW i \in DOMAIN q, i < k + 1, q[i] = Start
        PROVE  (\E j \in DOMAIN qq : j < k /\ qq[j] = Start) \/ Started'
    <3>1. CASE i = 1
      <4>1. w[1] = GameState /\ w[2] = "inProgress"
        BY <2>2, <3>1 DEF w, Start
      <4>2. ~Opening'
        BY <2>2, <3>1, CommitOpening DEF Commits, q
      <4> QED BY <1>w, <4>1, <4>2, Globals DEF Started
    <3>2. CASE i # 1
      <4>1. i - 1 \in DOMAIN qq /\ qq[i - 1] = Start /\ i - 1 < k
        BY <1>p, <2>2, <3>2
      <4> QED BY <4>1
    <3> QED BY <3>1, <3>2
  <2> QED BY <1>s, <2>1, <2>2
<1>5. TimerNeedsStart'
  <2> SUFFICES ASSUME db'[Flags] # Null, db'[EndTime] # Null PROVE db'[GameState] = "inProgress"
    BY DEF TimerNeedsStart, Standing
  <2>0. w[1] # Party
    BY <1>w, Globals
  <2>1. CASE w[1] = Flags
    <3>1. Opening
      BY <1>p, <2>1 DEF Opening, Queued, q, w
    <3> QED BY <1>w, <2>0, <2>1, <3>1, EndTimeApart DEF TimerInv, OpeningIsUnpublished
  <2>2. CASE w[1] = GameState
    <3>1. w[2] \in Stage /\ w = <<w[1], w[2]>>
      BY <1>w, <2>2, StatusWrites, WriteShape
    <3>2. CASE w[2] = "inLobby"
      <4>1. \E j \in DOMAIN q : 1 < j /\ q[j][1] = Flags
        BY <1>p, <2>2, <3>1, <3>2 DEF StartInv, LobbyBeforeFlags, q, w
      <4>2. Opening
        BY <4>1 DEF Opening, Queued, q
      <4> QED BY <1>w, <2>0, <2>2, <4>2, Globals DEF TimerInv, OpeningIsUnpublished, Standing
    <3>3. CASE w[2] = "inProgress"
      BY <1>w, <2>0, <2>2, <3>3, Globals
    <3> QED BY <3>1, <3>2, <3>3 DEF Stage
  <2>3. CASE w[1] = EndTime
    BY <1>e, <1>w, <2>0, <2>3, EndTimeApart, Globals DEF Started, Standing
  <2>4. CASE w[1] \notin {Flags, GameState, EndTime}
    BY <1>w, <2>0, <2>4, EndTimeApart, Globals DEF TimerInv, TimerNeedsStart, Standing
  <2> QED BY <2>1, <2>2, <2>3, <2>4
<1> QED BY <1>2, <1>3, <1>4, <1>5 DEF TimerInv

\* The other players' writes are no part of this, but for the removal.
LEMMA RegularCommitEffect ==
    ASSUME TypeOK, StartInv, NEW c \in Regular, Commits(c)
    PROVE  /\ outbox'[Host] = outbox[Host] /\ screen' = screen /\ Opening' = Opening
           /\ \/ ~Opening /\ outbox[c][1][1] = Party /\ \A l \in Loc : db'[l] = Null
              \/ outbox[c][1][1] # Party /\ \A l \in Global : db'[l] = db[l]
<1>c. c \in Player /\ c # Host /\ Host \in Player
  BY HostAssumption DEF Regular
<1>1. 1 \in DOMAIN outbox[c]
  BY <1>c, CommitShift DEF Commits
<1>2. outbox'[Host] = outbox[Host] /\ screen' = screen
  BY <1>c, CommitPositions DEF Commits, lobbyVars
<1>3. Opening' = Opening
  BY <1>2 DEF Opening, Queued
<1>4. CASE outbox[c][1][1] = Party
  <2>1. Aware(c)
    BY <1>1, <1>4 DEF Aware, Queued
  <2> QED BY <1>c, <1>2, <1>3, <1>4, <2>1, CommitEffect DEF Commits, StartInv, AwareIsRight, Started
<1>5. CASE outbox[c][1][1] # Party
  <2>1. outbox[c][1][1] \notin Global
    BY <1>1 DEF StartInv, RegularsKeepOff, Queued
  <2>2. Global \subseteq Loc
    BY DEF Loc
  <2> QED BY <1>c, <1>2, <1>3, <1>5, <2>1, <2>2, CommitEffect DEF Commits
<1> QED BY <1>4, <1>5

LEMMA TimerRegularCommit ==
    ASSUME TypeOK, StartInv, TimerInv, NEW c \in Regular, Commits(c)
    PROVE  TimerInv'
<1>1. outbox'[Host] = outbox[Host] /\ Opening' = Opening
  BY RegularCommitEffect
<1>2. FlagsOnce'
  BY <1>1 DEF TimerInv, FlagsOnce
<1>3. TimerFollowsStart'
  <2>1. c \in Player
    BY DEF Regular
  <2>2. Started => Started'
    BY <2>1, CommitStarted DEF Commits
  <2> QED BY <1>1, <2>2 DEF TimerInv, TimerFollowsStart
<1>4. CASE ~Opening /\ \A l \in Loc : db'[l] = Null
  BY <1>1, <1>2, <1>3, <1>4, Globals DEF TimerInv, OpeningIsUnpublished, TimerNeedsStart, Standing
<1>5. CASE \A l \in Global : db'[l] = db[l]
  BY <1>1, <1>2, <1>3, <1>5, Globals, EndTimeApart
     DEF TimerInv, OpeningIsUnpublished, TimerNeedsStart, Standing
<1> QED BY <1>4, <1>5, RegularCommitEffect

LEMMA NextTimer == TypeOK /\ ScreenInv /\ WipeInv /\ TimerInv /\ [Next]_vars => TimerInv'
<1> SUFFICES ASSUME TypeOK, ScreenInv, WipeInv, TimerInv, [Next]_vars PROVE TimerInv'
  OBVIOUS
<1>1. StartInv
  BY DEF WipeInv
<1>2. ASSUME NEW c \in Player, Commits(c) PROVE TimerInv'
  BY <1>1, <1>2, TimerHostCommit, TimerRegularCommit DEF Regular
<1> QED BY <1>2, HostQueueSteps, TimerOpens, TimerIdle, TimerStops, TimerSends

LEMMA InitTimer == Init => TimerInv
<1> SUFFICES ASSUME Init PROVE TimerInv
  OBVIOUS
<1>1. outbox[Host] = <<>> /\ db[Flags] = Null /\ db[EndTime] = Null /\ DOMAIN <<>> = {}
  BY HostAssumption, Globals, EndTimeApart DEF Init, DBInit
<1> QED BY <1>1 DEF TimerInv, FlagsOnce, OpeningIsUnpublished, TimerFollowsStart, TimerNeedsStart, Standing

\* The facts of this module so far, together with those of the start.
LEMMA TimersKept == Spec => [](TypeOK /\ ScreenInv /\ WipeInv /\ TimerInv)
<1>1. WipeInv => StartInv
  BY DEF WipeInv
<1> QED BY <1>1, InitScreen, InitTimer, InitWipe, TypeCorrect, NextStart, NextWipe, NextScreen, NextTimer, PTL DEF Spec

\* The end time in the database is always the answer to a start that is there
\* too: neither the host's own view, which is ahead of the server, nor a second
\* start or a crash puts a clock on a party that waits.
THEOREM TimerAfterStart == Spec => []TimerNeedsStart
<1>1. TimerInv => TimerNeedsStart
  BY DEF TimerInv
<1> QED BY <1>1, TimersKept, PTL

=============================================================================
