---------------------------- MODULE StagesProofs ----------------------------
(***************************************************************************)
(* The segue into the game, and the stages of a party: the composition of  *)
(* phones and database implements PartyStages.                             *)
(***************************************************************************)
EXTENDS TimerProofs, DemolitionStages

-----------------------------------------------------------------------------
(* Who knows of the start.                                                 *)

\* A step of c, which is all that happens.
StepOf(c) ==
    \/ c = Host /\ HostStep
    \/ c \in Regular /\ RegularStep(c)
    \/ AppStops(c)
    \/ ServerStep(c) /\ UNCHANGED lobbyVars
    \/ GameOverStep(c)

\* Nothing of d changes.
Apart(d) ==
    /\ cache'[d] = cache[d] /\ outbox'[d] = outbox[d] /\ listening'[d] = listening[d]
    /\ screen'[d] = screen[d] /\ selector'[d] = selector[d] /\ told'[d] = told[d]
    /\ attackers'[d] = attackers[d] /\ defenders'[d] = defenders[d]

LEMMA NextIsStep == ASSUME Next PROVE \E c \in Player : StepOf(c)
BY HostAssumption DEF Next, StepOf, Regular

LEMMA LobbyApart ==
    ASSUME TypeOK, NEW c \in Player, NEW d \in Player \ {c},
           \/ \E ws : Open(c, ws)
           \/ ReceiveTeams(c)
           \/ \E nodes : StopListening(c, nodes)
           \/ \E t \in Team : ValueChanged(c, t)
    PROVE  Apart(d)
<1> USE DEF Apart, TypeOK, DBTypeOK, LobbyTypeOK
<1>1. CASE \E ws : Open(c, ws)
  BY <1>1 DEF Open, Put, Observe
<1>2. CASE ReceiveTeams(c)
  BY <1>2 DEF ReceiveTeams, dbVars
<1>3. CASE \E nodes : StopListening(c, nodes)
  BY <1>3 DEF StopListening
<1>4. CASE \E t \in Team : ValueChanged(c, t)
  BY <1>4 DEF ValueChanged, Put
<1> QED BY <1>1, <1>2, <1>3, <1>4

LEMMA OthersApart ==
    ASSUME TypeOK, NEW c \in Player, StepOf(c), NEW d \in Player \ {c}
    PROVE  Apart(d)
<1>1. CASE c = Host /\ HostStep
  <2>1. CASE StartButton
    BY <1>1, <2>1 DEF StartButton, Put, Apart, TypeOK, DBTypeOK
  <2>2. CASE HostGameStateEvent
    BY <1>1, <2>2 DEF HostGameStateEvent, Segue, Put, Apart, TypeOK, DBTypeOK, LobbyTypeOK
  <2> QED
    BY <1>1, <2>1, <2>2, LobbyApart DEF HostStep, HostOpens, HostTeamsEvent, HostDidDisappear, HostValueChanged
<1>2. CASE RegularStep(c)
  <2>1. CASE RegularGameStateEvent(c)
    BY <2>1 DEF RegularGameStateEvent, Segue, Apart, dbVars, TypeOK, LobbyTypeOK
  <2> QED
    BY <1>2, <2>1, LobbyApart DEF RegularStep, RegularOpens, RegularTeamsEvent, RegularDidDisappear, RegularValueChanged
<1>3. CASE AppStops(c)
  <2>1. PICK how \in {"closed", "crashed"} : Die(c, how)
    BY <1>3 DEF AppStops, Quit, TeamsCastFails, StatusCastFails
  <2> QED BY <2>1 DEF Die, Disconnect, Apart, TypeOK, DBTypeOK, LobbyTypeOK
<1>4. CASE ServerStep(c) /\ UNCHANGED lobbyVars
  BY <1>4 DEF ServerStep, Commit, Sync, lobbyVars, Apart, TypeOK, DBTypeOK
<1>5. CASE GameOverStep(c)
  BY <1>5 DEF GameOverStep, GameEnds, GameOverDidDisappear, WipeParty, Put, dbVars, Apart,
              TypeOK, DBTypeOK, LobbyTypeOK
<1> QED BY <1>1, <1>2, <1>3, <1>4, <1>5 DEF StepOf

\* c learns nothing of the game.
Unmoved(c) ==
    /\ told'[c] = told[c]
    /\ cache'[c][GameState] \in {cache[c][GameState], Null}
    /\ InGame(c)' => InGame(c)
    /\ screen'[c] \in Team => screen'[c] = screen[c]
    /\ Queued(c, Party)' => Queued(c, Party) \/ InGame(c)

\* The server tells c of the game state.
Informed(c) ==
    /\ cache'[c][GameState] \in {db'[GameState], Null}
    /\ told'[c] = told[c] /\ screen'[c] = screen[c]
    /\ Queued(c, Party)' => Queued(c, Party)

\* The listener of c is called.
Called(c) ==
    \E status \in Stage :
        /\ StatusChanges(c, status)
        /\ told'[c] = status
        /\ cache'[c] = cache[c]
        /\ IF status = "inProgress" THEN screen'[c] \in Team ELSE screen'[c] = screen[c]
        /\ Queued(c, Party)' => Queued(c, Party)

Stopped(c) ==
    /\ told'[c] = "untold" /\ cache'[c] = EmptyCache /\ outbox'[c] = <<>>
    /\ screen'[c] \in {"closed", "crashed"}

LEMMA QueuedPut ==
    ASSUME TypeOK, NEW c \in Player, NEW ws \in Seq(Write), Put(c, ws), NEW l,
           \A i \in 1 .. Len(ws) : ws[i][1] # l
    PROVE  Queued(c, l)' => Queued(c, l)
<1>1. \A k \in DOMAIN outbox'[c] :
         \/ k \in DOMAIN outbox[c] /\ outbox'[c][k] = outbox[c][k]
         \/ \E j \in 1 .. Len(ws) : outbox'[c][k] = ws[j]
  BY SendsPositions
<1> QED BY <1>1 DEF Queued

LEMMA UnmovedPut ==
    ASSUME TypeOK, NEW c \in Player, NEW ws \in Seq(Write), Put(c, ws),
           \A i \in 1 .. Len(ws) : ws[i][1] # Party,
           told'[c] = told[c], cache'[c] = cache[c], screen'[c] \in {"lobby", screen[c]}
    PROVE  Unmoved(c)
<1>1. Queued(c, Party)' => Queued(c, Party)
  BY QueuedPut
<1> QED BY <1>1 DEF Unmoved, InGame, Team

LEMMA OpensUnmoved ==
    ASSUME TypeOK, NEW c \in Player, NEW ws \in Seq(Write), Open(c, ws),
           \A i \in 1 .. Len(ws) : ws[i][1] # Party
    PROVE  Unmoved(c)
BY UnmovedPut DEF Open, TypeOK, LobbyTypeOK

LEMMA SelectionUnmoved ==
    ASSUME TypeOK, NEW c \in Player, NEW t \in Team, ValueChanged(c, t)
    PROVE  Unmoved(c)
<1> DEFINE ws == << <<TeamOf(c), t>>, <<HashTeamOf(c), t>> >>
<1>1. ws \in Seq(Write) /\ Len(ws) = 2 /\ ws[1][1] = TeamOf(c) /\ ws[2][1] = HashTeamOf(c)
  BY WritesAreWrites
<1>2. Put(c, ws) /\ told' = told /\ cache' = cache /\ screen' = screen
  BY DEF ValueChanged
<1> HIDE DEF ws
<1> QED BY <1>1, <1>2, OwnLocations, UnmovedPut

LEMMA ListenerUnmoved ==
    ASSUME TypeOK, NEW c \in Player, NEW nodes, StopListening(c, nodes)
    PROVE  Unmoved(c)
BY Globals DEF StopListening, Unmoved, InGame, Queued, TypeOK, DBTypeOK

LEMMA TeamsUnmoved ==
    ASSUME NEW c \in Player, ReceiveTeams(c)
    PROVE  Unmoved(c)
BY DEF ReceiveTeams, Unmoved, InGame, Queued, dbVars

LEMMA KnowHost ==
    ASSUME TypeOK, HostStep
    PROVE  Unmoved(Host) \/ Called(Host)
<1> USE HostAssumption
<1>1. CASE HostOpens
  <2> DEFINE ws == << <<GameState, "inLobby">>, <<RecordOf(Host), "Alive">>, <<Flags, "Free">>,
                      <<TeamOf(Host), "Attacker">> >>
  <2>1. /\ Len(ws) = 4 /\ ws[1][1] = GameState /\ ws[2][1] = RecordOf(Host)
        /\ ws[3][1] = Flags /\ ws[4][1] = TeamOf(Host)
    OBVIOUS
  <2>2. ws \in Seq(Write)
    <3>1. /\ <<GameState, "inLobby">> \in Write /\ <<Flags, "Free">> \in Write
          /\ <<RecordOf(Host), "Alive">> \in Write /\ <<TeamOf(Host), "Attacker">> \in Write
      BY WritesAreWrites DEF Stage, Team
    <3> QED BY <3>1, ShortSeqs
  <2>3. Open(Host, ws)
    BY <1>1 DEF HostOpens
  <2> HIDE DEF ws
  <2> QED BY <2>1, <2>2, <2>3, Globals, OwnLocations, OpensUnmoved
<1>2. CASE StartButton
  <2> DEFINE ws == << <<FlagsCaptured, 0>>, <<NumAttackers, Cardinality(attackers[Host])>>,
                      <<NumDefenders, Cardinality(defenders[Host])>>, <<GameState, "inProgress">> >>
  <2>1. ws \in Seq(Write)
    <3>1. Cardinality(attackers[Host]) \in Count /\ Cardinality(defenders[Host]) \in Count
      BY CountsAreCounts DEF TypeOK, LobbyTypeOK
    <3>2. /\ <<FlagsCaptured, 0>> \in Write
          /\ <<NumAttackers, Cardinality(attackers[Host])>> \in Write
          /\ <<NumDefenders, Cardinality(defenders[Host])>> \in Write
          /\ <<GameState, "inProgress">> \in Write
      BY <3>1, WritesAreWrites DEF Stage
    <3> QED BY <3>2, ShortSeqs
  <2>2. /\ Len(ws) = 4
        /\ ws[1][1] = FlagsCaptured /\ ws[2][1] = NumAttackers /\ ws[3][1] = NumDefenders
        /\ ws[4][1] = GameState
    OBVIOUS
  <2>3. Put(Host, ws) /\ told' = told /\ cache' = cache /\ screen' = screen
    BY <1>2 DEF StartButton
  <2> HIDE DEF ws
  <2>4. \A i \in 1 .. Len(ws) : ws[i][1] # Party
    BY <2>2, Globals DEF Tallies
  <2> QED BY <2>1, <2>3, <2>4, UnmovedPut
<1>3. CASE HostGameStateEvent
  <2> PICK status \in Stage :
        /\ StatusChanges(Host, status)
        /\ told' = [told EXCEPT ![Host] = status]
        /\ IF status = "inProgress"
           THEN Put(Host, << <<EndTime, "tenMinutesFromNow">> >>) /\ Segue(Host)
           ELSE UNCHANGED <<outbox, screen, received>>
        /\ cache' = cache
    BY <1>3 DEF HostGameStateEvent
  <2>1. told'[Host] = status
    BY DEF TypeOK, LobbyTypeOK
  <2>2. CASE status # "inProgress"
    BY <2>1, <2>2 DEF Called, Queued
  <2>3. CASE status = "inProgress"
    <3> DEFINE ws == << <<EndTime, "tenMinutesFromNow">> >>
    <3>1. ws \in Seq(Write) /\ Len(ws) = 1 /\ ws[1][1] = EndTime
      BY WritesAreWrites
    <3>2. Put(Host, ws)
      BY <2>3
    <3> HIDE DEF ws
    <3>3. Queued(Host, Party)' => Queued(Host, Party)
      BY <3>1, <3>2, QueuedPut, EndTimeApart
    <3>4. screen'[Host] \in Team
      BY <2>3, SegueScreens
    <3> QED BY <2>1, <2>3, <3>3, <3>4 DEF Called
  <2> QED BY <2>2, <2>3
<1>4. CASE HostTeamsEvent
  BY <1>4, TeamsUnmoved DEF HostTeamsEvent
<1>5. CASE HostDidDisappear
  BY <1>5, ListenerUnmoved DEF HostDidDisappear
<1>6. CASE HostValueChanged
  BY <1>6, SelectionUnmoved DEF HostValueChanged
<1> QED BY <1>1, <1>2, <1>3, <1>4, <1>5, <1>6 DEF HostStep

LEMMA KnowRegular ==
    ASSUME TypeOK, NEW c \in Regular, RegularStep(c)
    PROVE  Unmoved(c) \/ Called(c)
<1>c. c \in Player
  BY DEF Regular
<1>1. CASE RegularOpens(c)
  <2> DEFINE ws == << <<RecordOf(c), "Alive">>, <<TeamOf(c), "Attacker">> >>
  <2>1. ws \in Seq(Write)
    BY <1>c, WritesAreWrites, ShortSeqs DEF Team
  <2>3. Len(ws) = 2 /\ ws[1][1] = RecordOf(c) /\ ws[2][1] = TeamOf(c)
    OBVIOUS
  <2>2. Open(c, ws)
    BY <1>1 DEF RegularOpens
  <2> HIDE DEF ws
  <2> QED BY <1>c, <2>1, <2>2, <2>3, OwnLocations, OpensUnmoved
<1>2. CASE RegularGameStateEvent(c)
  <2> PICK status \in Stage :
        /\ StatusChanges(c, status)
        /\ told' = [told EXCEPT ![c] = status]
        /\ IF status = "inProgress" THEN Segue(c) ELSE UNCHANGED <<screen, received>>
        /\ UNCHANGED <<cache, outbox>>
    BY <1>2 DEF RegularGameStateEvent, dbVars
  <2>1. told'[c] = status
    BY <1>c DEF TypeOK, LobbyTypeOK
  <2> QED BY <1>c, <2>1, SegueScreens DEF Called, Queued
<1>3. CASE RegularTeamsEvent(c)
  BY <1>c, <1>3, TeamsUnmoved DEF RegularTeamsEvent
<1>4. CASE RegularDidDisappear(c)
  BY <1>c, <1>4, ListenerUnmoved DEF RegularDidDisappear
<1>5. CASE RegularValueChanged(c)
  BY <1>c, <1>5, SelectionUnmoved DEF RegularValueChanged
<1> QED BY <1>1, <1>2, <1>3, <1>4, <1>5 DEF RegularStep

LEMMA KnowServer ==
    ASSUME TypeOK, ScreenInv, NEW c \in Player, ServerStep(c), UNCHANGED lobbyVars
    PROVE  Informed(c)
<1>1. CASE Commit(c)
  <2>1. cache'[c][GameState] \in {db'[GameState], Null}
    BY <1>1, Globals DEF Commit, Told, EmptyCache, ScreenInv, UnsyncedKnowsNothing, TypeOK, DBTypeOK
  <2>2. Queued(c, Party)' => Queued(c, Party)
    BY <1>1, CommitShift DEF Queued
  <2> QED BY <2>1, <2>2 DEF Informed, lobbyVars
<1>2. CASE Sync(c)
  BY <1>2, Globals DEF Sync, Told, Informed, Queued, lobbyVars, TypeOK, DBTypeOK
<1> QED BY <1>1, <1>2 DEF ServerStep

LEMMA KnowGameOver ==
    ASSUME TypeOK, NEW c \in Player, GameOverStep(c)
    PROVE  Unmoved(c)
<1>1. screen'[c] \notin Team /\ InGame(c) /\ told' = told /\ cache' = cache
  BY DEF GameOverStep, GameEnds, GameOverDidDisappear, WipeParty, InGame, Team, dbVars, TypeOK, LobbyTypeOK
<1> QED BY <1>1 DEF Unmoved

LEMMA KnowSteps ==
    ASSUME TypeOK, ScreenInv, NEW c \in Player, [Next]_vars
    PROVE  Unmoved(c) \/ Informed(c) \/ Called(c) \/ Stopped(c)
<1>1. CASE UNCHANGED vars
  BY <1>1 DEF vars, dbVars, lobbyVars, Unmoved, InGame, Queued
<1>2. ASSUME NEW d \in Player, StepOf(d)
      PROVE  Unmoved(c) \/ Informed(c) \/ Called(c) \/ Stopped(c)
  <2>1. CASE d # c
    <3>1. Apart(c)
      BY <1>2, <2>1, OthersApart
    <3> QED BY <3>1 DEF Apart, Unmoved, InGame, Queued
  <2>2. CASE d = c /\ AppStops(c)
    <3>1. PICK how \in {"closed", "crashed"} : Die(c, how)
      BY <2>2, StopsAlive
    <3> QED BY <3>1 DEF Die, Disconnect, Stopped, TypeOK, DBTypeOK, LobbyTypeOK
  <2> QED BY <1>2, <2>1, <2>2, KnowHost, KnowRegular, KnowServer, KnowGameOver DEF StepOf
<1> QED BY <1>1, <1>2, NextIsStep

\* The game state does not go back.
LEMMA BegunStays ==
    ASSUME TypeOK, ScreenInv, WipeInv, Begun, [Next]_vars
    PROVE  Begun'
<1> USE HostAssumption
<1>1. CASE HostOpens
  BY <1>1 DEF HostOpens, Begun, Opening
<1>2. CASE HostIdle
  BY <1>2 DEF HostIdle, Begun, Opening, Queued
<1>3. CASE HostStops
  <2>1. DOMAIN <<>> = {}
    OBVIOUS
  <2> QED BY <1>3, <2>1 DEF HostStops, Begun, Opening, Queued
<1>4. ASSUME NEW ws \in Seq(Write), HostSends(ws)
      PROVE  Begun'
  <2>1. Queued(Host, Flags)' => Queued(Host, Flags)
    BY <1>4, QueuedPut DEF HostSends
  <2> QED BY <1>4, <2>1 DEF HostSends, Begun, Opening
<1>5. CASE Commits(Host)
  <2>1. ~Opening'
    BY <1>5, CommitOpening DEF Commits, Begun, WipeInv
  <2> DEFINE w == outbox[Host][1]
  <2>2. 1 \in DOMAIN outbox[Host]
    BY <1>5, CommitShift DEF Commits
  <2>3. CASE w = <<GameState, "inLobby">>
    BY <2>2, <2>3 DEF WipeInv, StartInv, LobbyBeforeFlags, Begun, Opening, Queued
  <2>4. CASE w # <<GameState, "inLobby">>
    <3>1. w \in Write
          /\ (w[1] = Party => \A l \in Loc : db'[l] = Null)
          /\ (w[1] # Party => \A l \in Loc : db'[l] = IF l = w[1] THEN w[2] ELSE db[l])
      BY <1>5, CommitEffect DEF Commits
    <3>2. w = <<w[1], w[2]>>
      BY <3>1, WriteShape
    <3> HIDE DEF w
    <3>3. w[1] # GameState \/ w[2] # "inLobby"
      BY <2>4, <3>2
    <3>4. db'[GameState] # "inLobby"
      BY <3>1, <3>3, Globals, NullAssumption DEF Begun, Stage
    <3> QED BY <2>1, <3>4 DEF Begun
  <2> QED BY <2>3, <2>4
<1>6. ASSUME NEW c \in Regular, Commits(c)
      PROVE  Begun'
  BY <1>6, RegularCommitEffect, Globals, NullAssumption DEF WipeInv, Begun, Stage
<1> QED BY <1>1, <1>2, <1>3, <1>4, <1>5, <1>6, HostQueueSteps DEF Regular

\* A start stays on its way until it arrives, unless the host's app stops.
LEMMA StartStaysOn ==
    ASSUME TypeOK, ScreenInv, WipeInv, StartInv', StartOnItsWay, [Next]_vars
    PROVE  \/ StartOnItsWay'
           \/ HostStops
           \/ Begun' /\ cache'[Host][GameState] # "inLobby"
<1> USE HostAssumption
<1>1. CASE HostOpens
  <2>1. outbox[Host] = <<>> /\ DOMAIN <<>> = {}
    BY <1>1 DEF HostOpens, ScreenInv, StoppedIsSilent, Alive
  <2> QED BY <2>1 DEF StartOnItsWay
<1>2. CASE HostIdle
  BY <1>2 DEF HostIdle, StartOnItsWay
<1>3. ASSUME NEW ws \in Seq(Write), HostSends(ws)
      PROVE  StartOnItsWay'
  BY <1>3, SendsPositions DEF HostSends, StartOnItsWay
<1>4. CASE Commits(Host)
  <2>1. PICK i \in DOMAIN outbox[Host] : outbox[Host][i] = Start
    BY DEF StartOnItsWay
  <2>2. CASE i # 1
    BY <1>4, <2>1, <2>2, CommitShift DEF Commits, StartOnItsWay
  <2>3. CASE i = 1
    <3>1. db'[GameState] = "inProgress"
      BY <1>4, <2>1, <2>3, CommitEffect, Globals DEF Commits, Start
    <3>2. Begun'
      BY <3>1 DEF StartInv, OpeningIsNotStarted, Begun
    <3>3. Informed(Host)
      BY <1>4, KnowServer DEF Commits, ServerStep
    <3> QED BY <3>1, <3>2, <3>3, NullAssumption DEF Informed, Stage
  <2> QED BY <2>2, <2>3
<1>5. ASSUME NEW c \in Regular, Commits(c)
      PROVE  StartOnItsWay'
  BY <1>5, RegularCommitEffect DEF WipeInv, StartOnItsWay
<1> QED BY <1>1, <1>2, <1>3, <1>4, <1>5, HostQueueSteps DEF Regular

\* What the listener of a player who joined is told comes from the server.
LEMMA RegularSees ==
    ASSUME TypeOK, StartInv, NEW c \in Regular, NEW status \in Stage, View(c, GameState) = status
    PROVE  cache[c][GameState] = status
<1> DEFINE P == Pending(c, GameState)
<1>c. c \in Player
  BY DEF Regular
<1>1. CASE P = {}
  BY <1>1 DEF View, Merged
<1>2. CASE P # {}
  <2>1. outbox[c] \in Seq(Write)
    BY <1>c DEF TypeOK, DBTypeOK
  <2>2. Len(outbox[c]) \in Nat /\ DOMAIN outbox[c] = 1 .. Len(outbox[c])
    BY <2>1, LenProperties
  <2>3. P \in SUBSET (1 .. Len(outbox[c]))
    BY <2>2 DEF Pending
  <2> DEFINE i == Max(P)
  <2>4. i \in P
    BY <1>2, <2>2, <2>3, MaxIsMember
  <2>5. outbox[c][i][2] = status
    BY <1>2 DEF View, Merged
  <2>6. /\ i \in DOMAIN outbox[c] /\ outbox[c][i] \in Write
        /\ outbox[c][i][1] \in {GameState, Party}
    BY <1>c, <2>4, QueuedWrites DEF Pending
  <2> HIDE DEF i
  <2>7. outbox[c][i][1] # GameState
    BY <2>6, Globals DEF StartInv, RegularsKeepOff, Queued
  <2>8. outbox[c][i][2] = Null
    BY <2>6, <2>7, WriteShape, PartyIsNoLoc
  <2> QED BY <2>5, <2>8, NullAssumption
<1> QED BY <1>1, <1>2

\* Who was told of the start does not see a party that waits.
LEMMA NeverBack ==
    ASSUME TypeOK, WipeInv, ToldInv, NEW c \in Player, told[c] = "inProgress"
    PROVE  View(c, GameState) # "inLobby"
<1> SUFFICES ASSUME View(c, GameState) = "inLobby" PROVE FALSE
  OBVIOUS
<1>1. CASE c \in Regular
  <2>1. cache[c][GameState] = "inLobby"
    BY <1>1, RegularSees DEF WipeInv, Stage
  <2> QED BY <1>1, <2>1 DEF ToldInv, NoWayBack, Regular
<1>2. CASE c = Host
  <2> DEFINE P == Pending(Host, GameState)
  <2> DEFINE q == outbox[Host]
  <2>0. HostAware
    BY <1>2 DEF HostAware
  <2>1. CASE P = {}
    <3>1. cache[Host][GameState] = "inLobby"
      BY <1>2, <2>1 DEF View, Merged
    <3>2. StartOnItsWay
      BY <1>2, <3>1 DEF ToldInv, NoWayBack
    <3> QED BY <2>1, <3>2 DEF StartOnItsWay, Start, Pending
  <2>2. CASE P # {}
    <3>1. q \in Seq(Write)
      BY HostAssumption DEF TypeOK, DBTypeOK
    <3>2. Len(q) \in Nat /\ DOMAIN q = 1 .. Len(q)
      BY <3>1, LenProperties
    <3>3. P \in SUBSET (1 .. Len(q))
      BY <3>2 DEF Pending
    <3> DEFINE i == Max(P)
    <3>4. i \in P /\ \A k \in P : i >= k
      BY <2>2, <3>2, <3>3, MaxIsMember
    <3>5. q[i][2] = "inLobby"
      BY <1>2, <2>2 DEF View, Merged
    <3>6. i \in DOMAIN q /\ q[i] \in Write /\ q[i][1] \in {GameState, Party}
      BY HostAssumption, <3>4, QueuedWrites DEF Pending
    <3> HIDE DEF i
    <3>7. q[i] = <<GameState, "inLobby">>
      BY <3>5, <3>6, WriteShape, NullAssumption, PartyIsNoLoc DEF Stage
    <3>8. PICK j \in DOMAIN q : i < j /\ q[j][1] = Flags
      BY <3>6, <3>7 DEF WipeInv, StartInv, LobbyBeforeFlags
    <3>9. Opening
      BY <3>8 DEF Opening, Queued
    <3>10. PICK k \in DOMAIN q : q[k] = Start
      BY <2>0, <3>9 DEF WipeInv, HostAwareIsRight, Started, StartOnItsWay
    <3>11. i >= k
      BY <3>4, <3>10 DEF Start, Pending
    <3>12. k < j
      BY <3>2, <3>6, <3>8, <3>11
    <3> QED BY <3>8, <3>10, <3>12 DEF WipeInv, StartInv, OpeningComesFirst
  <2> QED BY <2>1, <2>2
<1> QED BY <1>1, <1>2 DEF Regular

LEMMA NextTold ==
    ASSUME TypeOK, ScreenInv, WipeInv, ToldInv, StartInv', [Next]_vars
    PROVE  ToldInv'
<1> USE HostAssumption
<1>n. Null # "inProgress" /\ Null # "inLobby" /\ EmptyCache[GameState] = Null /\ DOMAIN <<>> = {}
  BY Globals, NullAssumption DEF EmptyCache, Stage
<1>b. db'[GameState] = "inProgress" => Begun'
  BY DEF StartInv, OpeningIsNotStarted, Begun
<1>h. StartOnItsWay \/ Begun => StartOnItsWay' \/ Begun' \/ HostStops
  BY BegunStays, StartStaysOn
<1>s. ASSUME NEW c \in Player, Stopped(c)
      PROVE  ~InGame(c)' /\ told'[c] # "inProgress" /\ cache'[c][GameState] # "inProgress" /\ ~Queued(c, Party)'
  BY <1>n, <1>s DEF Stopped, InGame, Team, Queued
<1>1. ASSUME NEW c \in Regular, Aware(c)'
      PROVE  Begun'
  <2>c. c \in Player
    BY DEF Regular
  <2>1. Aware(c) => Begun'
    BY BegunStays DEF ToldInv, AwareHasBegun
  <2>2. CASE Unmoved(c)
    BY <1>1, <1>n, <2>1, <2>2 DEF Unmoved, Aware
  <2>3. CASE Informed(c)
    BY <1>1, <1>b, <1>n, <2>1, <2>3 DEF Informed, Aware, InGame
  <2>4. CASE Called(c)
    <3> PICK status \in Stage :
          /\ StatusChanges(c, status) /\ told'[c] = status /\ cache'[c] = cache[c]
          /\ IF status = "inProgress" THEN screen'[c] \in Team ELSE screen'[c] = screen[c]
          /\ Queued(c, Party)' => Queued(c, Party)
      BY <2>4 DEF Called
    <3>1. CASE status = "inProgress"
      BY <2>1, <3>1, SeenIsKnown DEF StatusChanges, WipeInv
    <3>2. CASE status # "inProgress"
      BY <1>1, <2>1, <3>2 DEF Aware, InGame
    <3> QED BY <3>1, <3>2
  <2>5. CASE Stopped(c)
    BY <1>1, <1>s, <2>c, <2>5 DEF Aware
  <2> QED BY <2>c, <2>2, <2>3, <2>4, <2>5, KnowSteps
<1>2. ASSUME HostAware'
      PROVE  StartOnItsWay' \/ Begun'
  <2>0. ~HostStops
    BY <1>2, <1>n DEF HostStops, HostAware, InGame, Team
  <2>1. HostAware \/ StartOnItsWay => StartOnItsWay' \/ Begun'
    BY <1>h, <2>0 DEF ToldInv, AwareHasBegun
  <2>2. CASE Unmoved(Host)
    BY <1>2, <1>n, <2>1, <2>2 DEF Unmoved, HostAware
  <2>3. CASE Informed(Host)
    BY <1>2, <1>b, <1>n, <2>1, <2>3 DEF Informed, HostAware, InGame
  <2>4. CASE Called(Host)
    <3> PICK status \in Stage :
          /\ StatusChanges(Host, status) /\ told'[Host] = status /\ cache'[Host] = cache[Host]
          /\ IF status = "inProgress" THEN screen'[Host] \in Team ELSE screen'[Host] = screen[Host]
      BY <2>4 DEF Called
    <3>1. CASE status = "inProgress"
      BY <2>1, <3>1, HostSeesOwn DEF StatusChanges, HostAware
    <3>2. CASE status # "inProgress"
      BY <1>2, <2>1, <3>2 DEF HostAware, InGame
    <3> QED BY <3>1, <3>2
  <2>5. CASE Stopped(Host)
    BY <1>2, <1>s, <2>5 DEF HostAware
  <2> QED BY <2>2, <2>3, <2>4, <2>5, KnowSteps
<1>3. ASSUME NEW c \in Player, told'[c] = "inProgress"
      PROVE  (c = Host /\ StartOnItsWay') \/ cache'[c][GameState] # "inLobby"
  <2>0. c = Host => ~HostStops
    BY <1>3 DEF HostStops
  <2>1. c = Host /\ StartOnItsWay => StartOnItsWay' \/ cache'[c][GameState] # "inLobby"
    BY <2>0, StartStaysOn
  <2>2. CASE Unmoved(c)
    BY <1>3, <1>n, <2>1, <2>2 DEF Unmoved, ToldInv, NoWayBack
  <2>3. CASE Informed(c)
    <3>1. told[c] = "inProgress"
      BY <1>3, <2>3 DEF Informed
    <3>2. Begun \/ (c = Host /\ StartOnItsWay)
      BY <3>1 DEF ToldInv, AwareHasBegun, Aware, HostAware, Regular
    <3>3. CASE Begun
      BY <1>n, <2>3, <3>3, BegunStays DEF Informed, Begun
    <3> QED BY <2>1, <3>2, <3>3
  <2>4. CASE Called(c)
    <3>1. View(c, GameState) = "inProgress" /\ cache'[c] = cache[c]
      BY <1>3, <2>4 DEF Called, StatusChanges
    <3>2. CASE c \in Regular
      BY <3>1, <3>2, RegularSees DEF WipeInv, Stage
    <3>3. CASE c = Host
      BY <2>1, <3>1, <3>3, HostSeesOwn
    <3> QED BY <3>2, <3>3 DEF Regular
  <2>5. CASE Stopped(c)
    BY <1>3, <1>s, <2>5
  <2> QED BY <2>2, <2>3, <2>4, <2>5, KnowSteps
<1>4. ASSUME NEW c \in Player, InGame(c)'
      PROVE  told'[c] = "inProgress"
  <2>1. CASE Unmoved(c)
    BY <1>4, <2>1 DEF Unmoved, ToldInv, PlaysWhatItWasTold
  <2>2. CASE Informed(c)
    BY <1>4, <2>2 DEF Informed, InGame, ToldInv, PlaysWhatItWasTold
  <2>3. CASE Called(c)
    <3> PICK status \in Stage :
          /\ StatusChanges(c, status) /\ told'[c] = status
          /\ IF status = "inProgress" THEN screen'[c] \in Team ELSE screen'[c] = screen[c]
      BY <2>3 DEF Called
    <3>1. CASE status # "inProgress"
      <4>1. InGame(c)
        BY <1>4, <3>1 DEF InGame
      <4>2. View(c, GameState) # "inLobby"
        BY <4>1, NeverBack DEF ToldInv, PlaysWhatItWasTold
      <4> QED BY <3>1, <4>2 DEF StatusChanges, Stage
    <3> QED BY <3>1
  <2>4. CASE Stopped(c)
    BY <1>4, <1>s, <2>4
  <2> QED BY <2>1, <2>2, <2>3, <2>4, KnowSteps
<1>5. AwareHasBegun'
  BY <1>1, <1>2 DEF AwareHasBegun
<1>6. NoWayBack' /\ PlaysWhatItWasTold'
  BY <1>3, <1>4 DEF NoWayBack, PlaysWhatItWasTold
<1> QED BY <1>5, <1>6 DEF ToldInv

LEMMA InitTold == Init => ToldInv
<1> SUFFICES ASSUME Init PROVE ToldInv
  OBVIOUS
<1>1. \A c \in Player : /\ outbox[c] = <<>> /\ screen[c] = "menu" /\ told[c] = "untold"
                        /\ cache[c] = EmptyCache
  BY DEF Init, DBInit, LobbyInit
<1>2. EmptyCache[GameState] # "inProgress" /\ DOMAIN <<>> = {}
  BY Globals, NullAssumption DEF EmptyCache, Stage
<1>3. \A c \in Player : ~Aware(c) /\ ~InGame(c) /\ told[c] # "inProgress"
  BY <1>1, <1>2 DEF Aware, InGame, Team, Queued
<1>4. ~HostAware
  BY <1>1, <1>2, HostAssumption DEF HostAware, InGame, Team
<1> QED BY <1>3, <1>4 DEF ToldInv, AwareHasBegun, NoWayBack, PlaysWhatItWasTold, Regular

\* The inductive invariant of the stages: no end time before a start
\* (HostLobbyViewController.swift:163-169), and nobody who knows of the start will
\* be told "inLobby" again (RegularLobbyViewController.swift:149-163).
THEOREM StagesKept == Spec => [](TypeOK /\ WipeInv /\ StagesInv)
<1>1. TypeOK /\ ScreenInv /\ WipeInv /\ ToldInv /\ StartInv' /\ [Next]_vars => ToldInv'
  BY NextTold
<1>2. WipeInv => StartInv
  BY DEF WipeInv
<1>3. ScreenInv /\ TimerInv /\ ToldInv <=> StagesInv
  BY DEF StagesInv
<1> QED BY <1>1, <1>2, <1>3, TimersKept, InitTold, PTL DEF Spec

\* The listener is called with a start where a player waits for it: who is in
\* the game was told of it, and a listener belongs to an app that runs.
LEMMA CalledInLobby ==
    ASSUME TypeOK, ScreenInv, ToldInv, NEW c \in Player, StatusChanges(c, "inProgress")
    PROVE  screen[c] = "lobby"
<1>1. told[c] # "inProgress" /\ listening[c] # {}
  BY DEF StatusChanges
<1>2. ~InGame(c)
  BY <1>1 DEF ToldInv, PlaysWhatItWasTold
<1>3. screen[c] \in Alive
  BY <1>1, ListenersAlive
<1> QED BY <1>2, <1>3 DEF Alive, Screen, InGame

\* A player who segues was in the lobby.
LEMMA SegueStep ==
    ASSUME TypeOK, ScreenInv, ToldInv, [Next]_vars, NEW c \in Player,
           screen'[c] \in Team, screen'[c] # screen[c]
    PROVE  screen[c] = "lobby"
<1>1. ~Unmoved(c) /\ ~Informed(c) /\ ~Stopped(c)
  BY DEF Unmoved, Informed, Stopped, Team
<1>2. Called(c)
  BY <1>1, KnowSteps
<1> QED BY <1>2, CalledInLobby DEF Called

\* A game state listener that is never removed does no harm: it is called with
\* "inProgress" in the lobby only, so that no player in the game or past it has
\* performSegue called again (RegularLobbyViewController.swift:149-161).
THEOREM SegueFromLobby == Spec => []SegueOnlyFromLobby
<1>1. TypeOK /\ StagesInv => SegueOnlyFromLobby
  BY CalledInLobby DEF StagesInv, SegueOnlyFromLobby
<1> QED BY <1>1, StagesKept, PTL

-----------------------------------------------------------------------------
(* The stages of the party.                                                *)

Places == [p \in Player |-> PlaceOf(p)]

LEMMA PlaceValues ==
    ASSUME NEW c, screen[c] \in Screen
    PROVE  /\ PlaceOf(c) = "outside" <=> screen[c] \notin Alive
           /\ screen[c] \in Team \cup {"lobby"} => PlaceOf(c) = screen[c]
           /\ screen[c] \in {"gameOver", "leaving", "left"} <=> PlaceOf(c) = "after"
           /\ PlaceOf(c) \in {"outside", "lobby", "after"} \cup Team
BY DEF PlaceOf, Screen, Alive, Team

LEMMA PlaceValuesNext ==
    ASSUME NEW c, screen'[c] \in Screen
    PROVE  /\ PlaceOf(c)' = "outside" <=> screen'[c] \notin Alive
           /\ screen'[c] \in Team \cup {"lobby"} => PlaceOf(c)' = screen'[c]
           /\ screen'[c] \in {"gameOver", "leaving", "left"} <=> PlaceOf(c)' = "after"
BY DEF PlaceOf, Screen, Alive, Team

\* A step of one player moves nobody else.
LEMMA PlacesMove ==
    ASSUME NEW c \in Player, \A d \in Player \ {c} : screen'[d] = screen[d]
    PROVE  Places' = [Places EXCEPT ![c] = PlaceOf(c)']
<1>1. \A d \in Player \ {c} : PlaceOf(d)' = PlaceOf(d)
  BY DEF PlaceOf
<1> QED BY <1>1 DEF Places

LEMMA PlacesStay ==
    ASSUME NEW c \in Player, \A d \in Player \ {c} : screen'[d] = screen[d], PlaceOf(c)' = PlaceOf(c)
    PROVE  Places' = Places
<1>1. \A d \in Player : PlaceOf(d)' = PlaceOf(d)
  BY DEF PlaceOf
<1> QED BY <1>1 DEF Places

StageStays == StageOf' = StageOf /\ ClockOf' = ClockOf

\* The host's phone on its own changes neither the stage nor the clock.
LEMMA QueueStage ==
    ASSUME TypeOK, HostOpens \/ HostIdle \/ \E ws \in Seq(Write) : HostSends(ws)
    PROVE  StageStays
<1> USE HostAssumption
<1>1. db' = db /\ (Opening' <=> Opening)
  <2>1. CASE HostOpens
    <3> DEFINE ws == << <<GameState, "inLobby">>, <<RecordOf(Host), "Alive">>, <<Flags, "Free">>,
                        <<TeamOf(Host), "Attacker">> >>
    <3>1. Len(ws) = 4 /\ ws[3][1] = Flags
      OBVIOUS
    <3>2. ws \in Seq(Write)
      <4>1. /\ <<GameState, "inLobby">> \in Write /\ <<Flags, "Free">> \in Write
            /\ <<RecordOf(Host), "Alive">> \in Write /\ <<TeamOf(Host), "Attacker">> \in Write
        BY WritesAreWrites DEF Stage, Team
      <4> QED BY <4>1, ShortSeqs
    <3>3. Put(Host, ws) /\ db' = db /\ screen[Host] = "menu"
      BY <2>1 DEF HostOpens, Open
    <3> HIDE DEF ws
    <3>4. /\ Len(outbox[Host]) \in Nat
          /\ DOMAIN outbox'[Host] = 1 .. (Len(outbox[Host]) + Len(ws))
          /\ outbox'[Host][Len(outbox[Host]) + 3] = ws[3]
      <4>1. 3 \in 1 .. Len(ws)
        BY <3>1
      <4> QED BY <3>2, <3>3, <4>1, PutPositions
    <3>5. Len(outbox[Host]) + 3 \in DOMAIN outbox'[Host]
      BY <3>1, <3>4
    <3> QED BY <3>1, <3>3, <3>4, <3>5 DEF Opening, Queued
  <2>2. CASE HostIdle
    BY <2>2 DEF HostIdle, Opening, Queued
  <2>3. ASSUME NEW ws \in Seq(Write), HostSends(ws)
        PROVE  db' = db /\ (Opening' <=> Opening)
    <3>1. Queued(Host, Flags)' => Queued(Host, Flags)
      BY <2>3, QueuedPut DEF HostSends
    <3>2. Queued(Host, Flags) => Queued(Host, Flags)'
      BY <2>3, SendsPositions DEF HostSends, Queued
    <3> QED BY <2>3, <3>1, <3>2 DEF HostSends, Opening
  <2> QED BY <2>1, <2>2, <2>3
<1> QED BY <1>1 DEF StageStays, StageOf, ClockOf, Standing

\* Nothing that the stages speak of: a step of PartyStages that stutters.
Stutters == StageStays /\ Places' = Places

LEMMA StutterImplements ==
    ASSUME Stutters
    PROVE  [Stages!Next]_(Stages!stageVars)
BY DEF Stutters, StageStays, Places, Stages!stageVars

LEMMA StageHost ==
    ASSUME TypeOK, TypeOK', ScreenInv, WipeInv, ToldInv, HostStep
    PROVE  [Stages!Next]_(Stages!stageVars)
<1> USE HostAssumption
<1>t. screen[Host] \in Screen /\ screen'[Host] \in Screen
  BY DEF TypeOK, LobbyTypeOK
<1>q. StageStays
  BY HostQueueHost, QueueStage
<1>o. \A d \in Player \ {Host} : screen'[d] = screen[d]
  BY OthersApart DEF StepOf, Apart
<1>1. CASE HostOpens
  <2>1. /\ screen[Host] = "menu" /\ screen'[Host] = "lobby"
    BY <1>1 DEF HostOpens, Open, TypeOK, LobbyTypeOK
  <2>2. StageOf = "unpublished"
    BY <2>1, Globals DEF StageOf, Standing, Opening, ScreenInv, HostComesFirst, PartyExists
  <2>3. PlaceOf(Host) = "outside" /\ PlaceOf(Host)' = "lobby"
    BY <1>t, <2>1, PlaceValues, PlaceValuesNext DEF Alive
  <2>4. Places[Host] = "outside" /\ Places' = [Places EXCEPT ![Host] = "lobby"]
    BY <1>o, <2>3, PlacesMove DEF Places
  <2>5. Stages!Join(Host)
    BY <1>q, <2>2, <2>4 DEF StageStays, Places, Stages!Join, Stages!Moves
  <2> QED BY <2>5 DEF Stages!Next
<1>2. CASE HostGameStateEvent /\ screen'[Host] # screen[Host]
  <2>1. screen'[Host] \in Team
    BY <1>2, SegueScreens DEF HostGameStateEvent
  <2>2. screen[Host] = "lobby"
    BY <1>2, <2>1, SegueStep DEF Next, HostStep
  <2>3. PlaceOf(Host) = "lobby" /\ PlaceOf(Host)' = screen'[Host]
    BY <1>t, <2>1, <2>2, PlaceValues, PlaceValuesNext
  <2>4. Places[Host] = "lobby" /\ Places' = [Places EXCEPT ![Host] = screen'[Host]]
    BY <1>o, <2>3, PlacesMove DEF Places
  <2>5. Stages!Enter(Host)
    BY <1>q, <2>1, <2>4 DEF StageStays, Places, Team, Stages!Enter, Stages!Moves, Stages!Team
  <2> QED BY <2>5 DEF Stages!Next
<1>3. CASE screen'[Host] = screen[Host]
  BY <1>3, <1>o, <1>q, PlacesStay, StutterImplements DEF Stutters, PlaceOf
<1>4. screen'[Host] # screen[Host] => HostOpens \/ HostGameStateEvent
  BY DEF HostStep, StartButton, HostTeamsEvent, ReceiveTeams, HostDidDisappear, StopListening,
         HostValueChanged, ValueChanged
<1> QED BY <1>1, <1>2, <1>3, <1>4

LEMMA StageRegular ==
    ASSUME TypeOK, TypeOK', ScreenInv, WipeInv, ToldInv, NEW c \in Regular, RegularStep(c)
    PROVE  [Stages!Next]_(Stages!stageVars)
<1>c. c \in Player /\ c # Host /\ Host \in Player
  BY HostAssumption DEF Regular
<1>t. screen[c] \in Screen /\ screen'[c] \in Screen /\ screen[Host] \in Screen
  BY <1>c DEF TypeOK, LobbyTypeOK
<1>q. StageStays
  BY HostQueueRegular, QueueStage
<1>o. \A d \in Player \ {c} : screen'[d] = screen[d]
  BY <1>c, OthersApart DEF StepOf, Apart
<1>1. CASE RegularOpens(c)
  <2>1. /\ screen[c] \in Screen \ Alive /\ screen'[c] = "lobby" /\ PartyExists(db)
    BY <1>c, <1>1 DEF RegularOpens, Open, TypeOK, LobbyTypeOK
  <2>2. StageOf = "unpublished" => PlaceOf(Host) # "outside"
    <3> SUFFICES ASSUME Opening, screen[Host] \notin Alive PROVE FALSE
      BY <1>t, PlaceValues DEF StageOf
    <3>1. outbox[Host] = <<>> /\ DOMAIN <<>> = {}
      BY <1>c DEF ScreenInv, StoppedIsSilent
    <3>2. screen[Host] = "menu"
      BY <3>1 DEF Opening, Queued
    <3> QED BY <2>1, <3>2 DEF ScreenInv, HostComesFirst
  <2>3. PlaceOf(c) = "outside" /\ PlaceOf(c)' = "lobby"
    BY <1>t, <2>1, PlaceValues, PlaceValuesNext
  <2>4. Places[c] = "outside" /\ Places' = [Places EXCEPT ![c] = "lobby"]
    BY <1>c, <1>o, <2>3, PlacesMove DEF Places
  <2>5. Stages!Join(c)
    BY <1>c, <1>q, <2>2, <2>4 DEF StageStays, Places, Stages!Join, Stages!Moves
  <2> QED BY <1>c, <2>5 DEF Stages!Next
<1>2. CASE RegularGameStateEvent(c) /\ screen'[c] # screen[c]
  <2>1. screen'[c] \in Team /\ View(c, GameState) = "inProgress"
    BY <1>c, <1>2, SegueScreens DEF RegularGameStateEvent, StatusChanges
  <2>2. screen[c] = "lobby"
    BY <1>c, <1>2, <2>1, SegueStep DEF Next, RegularStep
  <2>3. StageOf \in {"started", "over"}
    <3>1. Started
      BY <2>1, SeenIsKnown DEF WipeInv, StartInv, AwareIsRight
    <3> QED BY <3>1 DEF Started, StageOf
  <2>4. PlaceOf(c) = "lobby" /\ PlaceOf(c)' = screen'[c]
    BY <1>t, <2>1, <2>2, PlaceValues, PlaceValuesNext
  <2>5. Places[c] = "lobby" /\ Places' = [Places EXCEPT ![c] = screen'[c]]
    BY <1>c, <1>o, <2>4, PlacesMove DEF Places
  <2>6. Stages!Enter(c)
    BY <1>q, <2>1, <2>3, <2>5 DEF StageStays, Places, Team, Stages!Enter, Stages!Moves, Stages!Team
  <2> QED BY <1>c, <2>6 DEF Stages!Next
<1>3. CASE screen'[c] = screen[c]
  BY <1>3, <1>c, <1>o, <1>q, PlacesStay, StutterImplements DEF Stutters, PlaceOf
<1>4. screen'[c] # screen[c] => RegularOpens(c) \/ RegularGameStateEvent(c)
  BY DEF RegularStep, RegularTeamsEvent, ReceiveTeams, RegularDidDisappear, StopListening,
         RegularValueChanged, ValueChanged
<1> QED BY <1>1, <1>2, <1>3, <1>4

LEMMA StageStops ==
    ASSUME TypeOK, TypeOK', ScreenInv, NEW c \in Player, AppStops(c)
    PROVE  [Stages!Next]_(Stages!stageVars)
<1>t. screen[c] \in Screen /\ screen'[c] \in Screen
  BY DEF TypeOK, LobbyTypeOK
<1>1. PICK how \in {"closed", "crashed"} : screen[c] \in Alive /\ Die(c, how)
  BY StopsAlive
<1>2. screen'[c] \notin Alive /\ \A d \in Player \ {c} : screen'[d] = screen[d]
  BY <1>1 DEF Die, Alive, TypeOK, LobbyTypeOK
<1>3. PlaceOf(c) \in {"lobby", "after"} \cup Team /\ PlaceOf(c)' = "outside"
  BY <1>t, <1>1, <1>2, PlaceValues, PlaceValuesNext
<1>4. Places[c] \in {"lobby", "after"} \cup Team /\ Places' = [Places EXCEPT ![c] = "outside"]
  BY <1>2, <1>3, PlacesMove DEF Places
<1>5. /\ StageOf' = IF c = Host /\ StageOf = "unpublished" THEN "over" ELSE StageOf
      /\ ClockOf' = ClockOf
  <2>1. CASE c = Host
    <3>1. HostStops /\ DOMAIN <<>> = {}
      BY <2>1, HostQueueStops
    <3>2. ~Opening' /\ Standing' = Standing
      BY <3>1 DEF HostStops, Opening, Queued, Standing
    <3> QED BY <2>1, <3>1, <3>2 DEF HostStops, StageOf, ClockOf
  <2>2. CASE c # Host
    BY <2>2, HostQueueStops, QueueStage DEF StageStays
  <2> QED BY <2>1, <2>2
<1>6. Stages!Stop(c)
  BY <1>4, <1>5 DEF Places, Team, Stages!Stop, Stages!Moves, Stages!Place, Stages!Team
<1> QED BY <1>6 DEF Stages!Next

LEMMA StageGameOver ==
    ASSUME TypeOK, TypeOK', NEW c \in Player, GameOverStep(c)
    PROVE  [Stages!Next]_(Stages!stageVars)
<1>t. screen[c] \in Screen /\ screen'[c] \in Screen
  BY DEF TypeOK, LobbyTypeOK
<1>q. StageStays
  BY HostQueueGameOver, QueueStage
<1>o. \A d \in Player \ {c} : screen'[d] = screen[d]
  BY OthersApart DEF StepOf, Apart
<1>1. CASE GameEnds(c)
  <2>1. screen[c] \in Team /\ screen'[c] = "gameOver"
    BY <1>1 DEF GameEnds, TypeOK, LobbyTypeOK
  <2>2. PlaceOf(c) \in Team /\ PlaceOf(c)' = "after"
    BY <1>t, <2>1, PlaceValues, PlaceValuesNext
  <2>3. Places[c] \in Team /\ Places' = [Places EXCEPT ![c] = "after"]
    BY <1>o, <2>2, PlacesMove DEF Places
  <2>4. Stages!Finish(c)
    BY <1>q, <2>3 DEF StageStays, Places, Team, Stages!Finish, Stages!Moves, Stages!Team
  <2> QED BY <2>4 DEF Stages!Next
<1>2. CASE GameOverDidDisappear(c) \/ WipeParty(c)
  <2>1. {screen[c], screen'[c]} \subseteq {"gameOver", "leaving", "left"}
    BY <1>2 DEF GameOverDidDisappear, WipeParty, TypeOK, LobbyTypeOK
  <2>2. PlaceOf(c)' = PlaceOf(c)
    BY <1>t, <2>1, PlaceValues, PlaceValuesNext
  <2> QED BY <1>o, <1>q, <2>2, PlacesStay, StutterImplements DEF Stutters
<1> QED BY <1>1, <1>2 DEF GameOverStep

\* What the other players' writes leave alone.
LEMMA StageRegularCommit ==
    ASSUME TypeOK, WipeInv, NEW c \in Regular, Commits(c)
    PROVE  [Stages!Next]_(Stages!stageVars)
<1>c. c \in Player
  BY DEF Regular
<1>p. Places' = Places
  BY DEF Commits, lobbyVars, Places, PlaceOf
<1>e. /\ Opening' = Opening
      /\ \/ ~Opening /\ outbox[c][1][1] = Party /\ \A l \in Loc : db'[l] = Null
         \/ outbox[c][1][1] # Party /\ \A l \in Global : db'[l] = db[l]
  BY RegularCommitEffect DEF WipeInv
<1>1. CASE ~Opening /\ outbox[c][1][1] = Party /\ \A l \in Loc : db'[l] = Null
  <2>1. Aware(c)
    BY <1>c, <1>1, CommitShift DEF Commits, Aware, Queued
  <2>2. StageOf \in {"started", "over"}
    BY <2>1 DEF WipeInv, StartInv, AwareIsRight, Started, StageOf
  <2>3. StageOf' = "over" /\ ClockOf' = FALSE
    BY <1>1, <1>e, Globals DEF StageOf, ClockOf, Standing
  <2>4. CASE StageOf = "started"
    <3>1. Stages!Remove
      BY <1>p, <2>3, <2>4 DEF Places, Stages!Remove
    <3> QED BY <3>1 DEF Stages!Next
  <2>5. CASE StageOf = "over"
    <3>1. ClockOf = FALSE
      BY <2>5 DEF StageOf, ClockOf
    <3> QED BY <1>p, <2>3, <2>5, <3>1, StutterImplements DEF Stutters, StageStays
  <2> QED BY <2>2, <2>4, <2>5
<1>2. CASE \A l \in Global : db'[l] = db[l]
  <2>1. StageStays
    BY <1>e, <1>2, Globals, EndTimeApart DEF StageStays, StageOf, ClockOf, Standing
  <2> QED BY <1>p, <2>1, StutterImplements DEF Stutters
<1> QED BY <1>e, <1>1, <1>2

LEMMA StageHostCommit ==
    ASSUME TypeOK, ScreenInv, WipeInv, TimerInv, Commits(Host)
    PROVE  [Stages!Next]_(Stages!stageVars)
<1> USE HostAssumption
<1> DEFINE q == outbox[Host]
<1> DEFINE qq == outbox'[Host]
<1> DEFINE w == q[1]
<1>p. /\ 1 \in DOMAIN q
      /\ \A i \in DOMAIN qq : i + 1 \in DOMAIN q /\ qq[i] = q[i + 1] /\ 1 < i + 1
      /\ \A i \in DOMAIN q : i # 1 => (i - 1 \in DOMAIN qq /\ qq[i - 1] = q[i])
  BY CommitShift DEF Commits
<1>n. ~\E i \in DOMAIN q : i < 1
  BY CommitPositions DEF Commits
<1>w. /\ w \in Write
      /\ w[1] = Party => \A l \in Loc : db'[l] = Null
      /\ w[1] # Party => w[2] # Null /\ \A l \in Loc : db'[l] = IF l = w[1] THEN w[2] ELSE db[l]
  BY CommitEffect DEF Commits
<1>s. Places' = Places /\ screen' = screen
  BY DEF Commits, lobbyVars, Places, PlaceOf
<1>o. /\ screen[Host] # "menu"
      /\ Opening' => Opening
      /\ Opening' => w # Start /\ w[1] # Party
  BY CommitOpening DEF Commits, WipeInv
<1>a. screen[Host] \in Alive
  BY ListenersAlive DEF Commits, Commit
<1> HIDE DEF q, qq, w
<1>k. w[1] # Flags => (Opening <=> Opening')
  <2> SUFFICES ASSUME w[1] # Flags, Opening PROVE Opening'
    BY <1>o
  <2>1. PICK j \in DOMAIN q : q[j][1] = Flags
    BY <1>o DEF Opening, Queued, q
  <2>2. j - 1 \in DOMAIN qq /\ qq[j - 1][1] = Flags
    BY <1>p, <2>1 DEF w
  <2> QED BY <2>2 DEF Opening, Queued, qq
<1>1. CASE w[1] = Party
  <2>1. Started
    BY <1>n, <1>p, <1>1 DEF WipeInv, HostWipesAfterStart, q, w
  <2>2. StageOf \in {"started", "over"}
    BY <2>1 DEF Started, StageOf
  <2>3. StageOf' = "over" /\ ClockOf' = FALSE
    BY <1>o, <1>w, <1>1, Globals DEF StageOf, ClockOf, Standing
  <2>4. CASE StageOf = "started"
    <3>1. Stages!Remove
      BY <1>s, <2>3, <2>4 DEF Places, Stages!Remove
    <3> QED BY <3>1 DEF Stages!Next
  <2>5. CASE StageOf = "over"
    <3>1. ClockOf = FALSE
      BY <2>5 DEF StageOf, ClockOf
    <3> QED BY <1>s, <2>3, <2>5, <3>1, StutterImplements DEF Stutters, StageStays
  <2> QED BY <2>2, <2>4, <2>5
<1>2. CASE w[1] = Flags
  <2>1. Opening /\ ~Opening'
    <3>1. Opening
      BY <1>p, <1>2 DEF Opening, Queued, q, w
    <3>2. ASSUME NEW i \in DOMAIN qq, qq[i][1] = Flags
          PROVE  FALSE
      <4>1. i + 1 \in DOMAIN q /\ q[i + 1][1] = Flags /\ 1 < i + 1
        BY <1>p, <3>2
      <4> QED BY <1>2, <1>p, <4>1 DEF TimerInv, FlagsOnce, q, w
    <3> QED BY <1>o, <1>s, <3>1, <3>2 DEF Opening, Queued, qq
  <2>2. ~Standing /\ db[EndTime] = Null /\ db[GameState] # "inProgress"
    BY <2>1 DEF TimerInv, OpeningIsUnpublished, WipeInv, StartInv, OpeningIsNotStarted
  <2>3. db'[Flags] # Null /\ db'[EndTime] = Null /\ db'[GameState] # "inProgress"
    BY <1>w, <1>2, <2>2, Globals, EndTimeApart
  <2>4. StageOf = "unpublished" /\ StageOf' = "waiting" /\ ClockOf' = FALSE /\ ClockOf = FALSE
    BY <2>1, <2>2, <2>3 DEF StageOf, ClockOf, Standing
  <2>5. Places[Host] # "outside"
    BY <1>a, PlaceValues DEF Places, TypeOK, LobbyTypeOK
  <2>6. Stages!Publish
    BY <1>s, <2>4, <2>5 DEF Places, Stages!Publish
  <2> QED BY <2>6 DEF Stages!Next
<1>3. CASE w[1] = GameState
  <2>1. w[2] \in Stage /\ w = <<w[1], w[2]>>
    BY <1>w, <1>3, StatusWrites, WriteShape
  <2>2. Standing' = Standing /\ ClockOf' = ClockOf /\ db'[GameState] = w[2]
    BY <1>w, <1>3, Globals, EndTimeApart DEF Standing, ClockOf
  <2>3. CASE w[2] = "inLobby"
    <3>1. \E j \in DOMAIN q : q[j][1] = Flags
      BY <1>3, <1>p, <2>1, <2>3 DEF WipeInv, StartInv, LobbyBeforeFlags, q, w
    <3>2. Opening /\ Opening'
      BY <1>3, <1>k, <3>1, Globals DEF Opening, Queued, q
    <3>3. ~Standing
      BY <3>2 DEF TimerInv, OpeningIsUnpublished
    <3>4. StageStays
      BY <2>2, <3>2, <3>3 DEF StageStays, StageOf
    <3> QED BY <1>s, <3>4, StutterImplements DEF Stutters
  <2>4. CASE w[2] = "inProgress"
    <3>1. ~Opening /\ ~Opening'
      BY <1>3, <1>k, <1>o, <2>1, <2>4, Globals DEF Start
    <3>2. CASE StageOf = "waiting"
      <4>1. StageOf' = "started"
        BY <2>2, <2>4, <3>2 DEF StageOf
      <4>2. Stages!Start
        BY <1>s, <2>2, <3>2, <4>1 DEF Places, Stages!Start
      <4> QED BY <4>2 DEF Stages!Next
    <3>3. CASE StageOf # "waiting"
      <4>1. StageOf' = StageOf
        BY <2>2, <2>4, <3>1, <3>3 DEF StageOf
      <4> QED BY <1>s, <2>2, <4>1, StutterImplements DEF Stutters, StageStays
    <3> QED BY <3>2, <3>3
  <2> QED BY <2>1, <2>3, <2>4 DEF Stage
<1>4. CASE w[1] = EndTime
  <2>1. Started
    BY <1>n, <1>p, <1>4 DEF TimerInv, TimerFollowsStart, q, w
  <2>2. /\ Standing' = Standing /\ db'[GameState] = db[GameState] /\ db'[EndTime] # Null
        /\ (Opening' <=> Opening)
    BY <1>k, <1>w, <1>4, Globals, EndTimeApart DEF Standing
  <2>3. StageOf' = StageOf
    BY <2>2 DEF StageOf
  <2>4. CASE Standing /\ ~ClockOf
    <3>1. StageOf = "started" /\ ClockOf' = TRUE
      BY <2>1, <2>2, <2>4 DEF Started, StageOf, ClockOf
    <3>2. Stages!SetClock
      BY <1>s, <2>3, <2>4, <3>1 DEF Places, Stages!SetClock
    <3> QED BY <3>2 DEF Stages!Next
  <2>5. CASE ~(Standing /\ ~ClockOf)
    <3>1. ClockOf' = ClockOf
      BY <2>2, <2>5 DEF ClockOf
    <3> QED BY <1>s, <2>3, <3>1, StutterImplements DEF Stutters, StageStays
  <2> QED BY <2>4, <2>5
<1>5. CASE w[1] \notin {Party, Flags, GameState, EndTime}
  <2>1. /\ db'[Flags] = db[Flags] /\ db'[GameState] = db[GameState] /\ db'[EndTime] = db[EndTime]
    BY <1>w, <1>5, Globals, EndTimeApart
  <2>2. StageStays
    BY <1>k, <1>5, <2>1 DEF StageStays, StageOf, ClockOf, Standing
  <2> QED BY <1>s, <2>2, StutterImplements DEF Stutters
<1> QED BY <1>1, <1>2, <1>3, <1>4, <1>5

\* Every step of the party is a step of PartyStages, or none.
LEMMA StageStep ==
    ASSUME TypeOK, TypeOK', WipeInv, StagesInv, [Next]_vars
    PROVE  [Stages!Next]_(Stages!stageVars)
<1>i. ScreenInv /\ TimerInv /\ ToldInv
  BY DEF StagesInv
<1>1. CASE UNCHANGED vars
  <2>1. Stutters
    BY <1>1 DEF vars, dbVars, lobbyVars, Stutters, StageStays, StageOf, ClockOf, Standing, Opening, Queued,
                Places, PlaceOf
  <2> QED BY <2>1, StutterImplements
<1>2. ASSUME NEW c \in Player, ServerStep(c), UNCHANGED lobbyVars
      PROVE  [Stages!Next]_(Stages!stageVars)
  <2>1. CASE Commit(c)
    BY <1>2, <1>i, <2>1, StageHostCommit, StageRegularCommit DEF Commits, Regular
  <2>2. CASE Sync(c)
    <3>1. Stutters
      BY <1>2, <2>2 DEF Sync, lobbyVars, Stutters, StageStays, StageOf, ClockOf, Standing, Opening, Queued,
                        Places, PlaceOf
    <3> QED BY <3>1, StutterImplements
  <2> QED BY <1>2, <2>1, <2>2 DEF ServerStep
<1> QED BY <1>i, <1>1, <1>2, StageHost, StageRegular, StageStops, StageGameOver DEF Next

LEMMA StageInit == Init => Stages!Init
<1> SUFFICES ASSUME Init PROVE Stages!Init
  OBVIOUS
<1>1. /\ db[Flags] = Null /\ screen[Host] = "menu"
      /\ \A c \in Player : screen[c] = "menu"
  BY Globals, HostAssumption DEF Init, DBInit, LobbyInit
<1>2. StageOf = "unpublished" /\ ClockOf = FALSE
  BY <1>1 DEF StageOf, ClockOf, Standing, Opening
<1>3. \A c \in Player : PlaceOf(c) = "outside"
  BY <1>1, PlaceValues DEF Screen, Alive
<1>4. Places = [c \in Player |-> "outside"]
  BY <1>3 DEF Places
<1> QED BY <1>2, <1>4 DEF Places, Stages!Init

\* The phones and the database together are a party as PartyStages describes
\* it, for every number of players and whatever their apps do.
THEOREM StagesImplemented == Spec => ImplementsStages
<1>1. Spec => [](TypeOK /\ WipeInv /\ StagesInv)
  BY StagesKept
<1>2. TypeOK /\ TypeOK' /\ WipeInv /\ StagesInv /\ [Next]_vars => [Stages!Next]_(Stages!stageVars)
  BY StageStep
<1> QED BY <1>1, <1>2, StageInit, PTL DEF Spec, ImplementsStages, Stages!Spec

=============================================================================
