----------------------------- MODULE TypeProofs -----------------------------
(***************************************************************************)
(* Theorems about Demolition, for every set of players and every bound on  *)
(* their taps.  This module: the writes and the outboxes, type correctness,*)
(* and the positions that a write takes in an outbox.                      *)
(***************************************************************************)
EXTENDS DemolitionInv, SequenceTheorems, FiniteSetTheorems, TLAPS

-----------------------------------------------------------------------------
(* Locations, writes and the outboxes.                                     *)

LEMMA PartyIsNoLoc == Party \notin Loc
BY DEF Loc, Global, Party, GameState, FlagsCaptured, NumAttackers, NumDefenders, EndTime, Flags,
       TeamOf, HashTeamOf, RecordOf

LEMMA WatchedAreLoc == Watched \subseteq Loc
BY DEF Watched, Loc, Global

LEMMA CountsAreCounts ==
    ASSUME NEW S \in SUBSET Player
    PROVE  Cardinality(S) \in Count
<1>1. IsFiniteSet(S) /\ Cardinality(S) <= Cardinality(Player)
  BY PlayerAssumption, FS_Subset
<1>2. Cardinality(S) \in Nat /\ Cardinality(Player) \in Nat
  BY <1>1, PlayerAssumption, FS_CardinalityType
<1> QED BY <1>1, <1>2 DEF Count

LEMMA WritesAreWrites ==
    /\ <<Party, Null>> \in Write
    /\ \A s \in Stage : <<GameState, s>> \in Write
    /\ <<FlagsCaptured, 0>> \in Write
    /\ \A n \in Count : <<NumAttackers, n>> \in Write /\ <<NumDefenders, n>> \in Write
    /\ <<EndTime, "tenMinutesFromNow">> \in Write
    /\ <<Flags, "Free">> \in Write
    /\ \A p \in Player : <<RecordOf(p), "Alive">> \in Write
    /\ \A p \in Player, t \in Team : <<TeamOf(p), t>> \in Write /\ <<HashTeamOf(p), t>> \in Write
BY DEF Write

\* Conversely, a write is one of these.
LEMMA WriteCases ==
    ASSUME NEW w \in Write
    PROVE  \/ w \in {Party} \X {Null}
           \/ w \in {GameState} \X Stage
           \/ w \in {FlagsCaptured} \X {0}
           \/ w \in {NumAttackers, NumDefenders} \X Count
           \/ w \in {EndTime} \X {"tenMinutesFromNow"}
           \/ w \in {Flags} \X {"Free"}
           \/ w \in {RecordOf(p) : p \in Player} \X {"Alive"}
           \/ w \in ({TeamOf(p) : p \in Player} \cup {HashTeamOf(p) : p \in Player}) \X Team
BY Zenon DEF Write

\* A write is at the party and removes it, or puts a value at a location.
LEMMA WriteShape ==
    ASSUME NEW w \in Write
    PROVE  /\ w = <<w[1], w[2]>>
           /\ \/ w[1] = Party /\ w[2] = Null
              \/ w[1] \in Loc /\ w[2] # Null
<1>0. 0 \in Count
  BY CountsAreCounts, FS_EmptySet
<1>1. CASE w \in {Party} \X {Null}
  BY <1>1
<1>2. CASE w \in {GameState} \X Stage
  <2>1. w = <<w[1], w[2]>> /\ w[1] \in Loc /\ w[2] \in Stage
    BY <1>2 DEF Loc, Global
  <2> QED BY <2>1, NullAssumption
<1>3. CASE w \in {FlagsCaptured} \X {0}
  <2>1. w = <<w[1], w[2]>> /\ w[1] \in Loc /\ w[2] \in {0}
    BY <1>3 DEF Loc, Global
  <2> QED BY <2>1, <1>0, NullIsNoCount
<1>4. CASE w \in {NumAttackers, NumDefenders} \X Count
  <2>1. w = <<w[1], w[2]>> /\ w[1] \in Loc /\ w[2] \in Count
    BY <1>4 DEF Loc, Global
  <2> QED BY <2>1, NullIsNoCount
<1>5. CASE w \in {EndTime} \X {"tenMinutesFromNow"}
  <2>1. w = <<w[1], w[2]>> /\ w[1] \in Loc /\ w[2] \in {"tenMinutesFromNow"}
    BY <1>5 DEF Loc, Global
  <2> QED BY <2>1, NullAssumption
<1>6. CASE w \in {Flags} \X {"Free"}
  <2>1. w = <<w[1], w[2]>> /\ w[1] \in Loc /\ w[2] \in {"Free"}
    BY <1>6 DEF Loc, Global
  <2> QED BY <2>1, NullAssumption
<1>7. CASE w \in {RecordOf(p) : p \in Player} \X {"Alive"}
  <2>1. w = <<w[1], w[2]>> /\ w[1] \in Loc /\ w[2] \in {"Alive"}
    BY <1>7 DEF Loc
  <2> QED BY <2>1, NullAssumption
<1>8. CASE w \in ({TeamOf(p) : p \in Player} \cup {HashTeamOf(p) : p \in Player}) \X Team
  <2>1. w = <<w[1], w[2]>> /\ w[1] \in Loc /\ w[2] \in Team
    BY <1>8 DEF Loc
  <2> QED BY <2>1, NullAssumption
<1> QED BY <1>1, <1>2, <1>3, <1>4, <1>5, <1>6, <1>7, <1>8, WriteCases

\* What may be written at the locations that are listened to.
LEMMA WatchedValues ==
    ASSUME NEW w \in Write, w[1] \in Watched
    PROVE  w[2] \in Stage \cup Team
<1> USE DEF Watched, Party, GameState, FlagsCaptured, NumAttackers, NumDefenders, EndTime, Flags,
            TeamOf, HashTeamOf, RecordOf
<1>1. CASE w \in {Party} \X {Null}
  BY <1>1
<1>2. CASE w \in {GameState} \X Stage
  BY <1>2
<1>3. CASE w \in {FlagsCaptured} \X {0}
  BY <1>3
<1>4. CASE w \in {NumAttackers, NumDefenders} \X Count
  BY <1>4
<1>5. CASE w \in {EndTime} \X {"tenMinutesFromNow"}
  BY <1>5
<1>6. CASE w \in {Flags} \X {"Free"}
  BY <1>6
<1>7. CASE w \in {RecordOf(p) : p \in Player} \X {"Alive"}
  BY <1>7
<1>8. CASE w \in ({TeamOf(p) : p \in Player} \cup {HashTeamOf(p) : p \in Player}) \X Team
  <2>1. w[2] \in Team
    BY ONLY <1>8
  <2> QED BY <2>1
<1> QED BY <1>1, <1>2, <1>3, <1>4, <1>5, <1>6, <1>7, <1>8, WriteCases

\* What may be written at the game state.
LEMMA StatusWrites ==
    ASSUME NEW w \in Write, w[1] = GameState
    PROVE  w[2] \in Stage
<1> USE DEF Party, GameState, FlagsCaptured, NumAttackers, NumDefenders, EndTime, Flags,
            TeamOf, HashTeamOf, RecordOf
<1>1. CASE w \in {Party} \X {Null}
  BY <1>1
<1>2. CASE w \in {GameState} \X Stage
  BY <1>2
<1>3. CASE w \in {FlagsCaptured} \X {0}
  BY <1>3
<1>4. CASE w \in {NumAttackers, NumDefenders} \X Count
  BY <1>4
<1>5. CASE w \in {EndTime} \X {"tenMinutesFromNow"}
  BY <1>5
<1>6. CASE w \in {Flags} \X {"Free"}
  BY <1>6
<1>7. CASE w \in {RecordOf(p) : p \in Player} \X {"Alive"}
  BY <1>7
<1>8. CASE w \in ({TeamOf(p) : p \in Player} \cup {HashTeamOf(p) : p \in Player}) \X Team
  BY <1>8
<1> QED BY <1>1, <1>2, <1>3, <1>4, <1>5, <1>6, <1>7, <1>8, WriteCases

\* setValue keeps every outbox a sequence of writes.
LEMMA PutType ==
    ASSUME outbox \in [Player -> Seq(Write)], NEW c \in Player, NEW ws \in Seq(Write), Put(c, ws)
    PROVE  /\ outbox' \in [Player -> Seq(Write)]
           /\ outbox'[c] = outbox[c] \o ws
           /\ \A d \in Player \ {c} : outbox'[d] = outbox[d]
<1>1. outbox[c] \o ws \in Seq(Write)
  BY ConcatProperties
<1> QED BY <1>1 DEF Put

LEMMA ShortSeqs ==
    ASSUME NEW S, NEW v \in S, NEW w \in S, NEW x \in S, NEW y \in S
    PROVE  /\ <<v>> \in Seq(S)
           /\ <<v, w>> \in Seq(S)
           /\ <<v, w, x>> \in Seq(S)
           /\ <<v, w, x, y>> \in Seq(S)
OBVIOUS

\* A database of the right type has one after a write.
LEMMA AppliedType ==
    ASSUME NEW d, DOMAIN d = Loc, \A l \in Loc : d[l] = Null \/ <<l, d[l]>> \in Write,
           NEW w \in Write
    PROVE  /\ DOMAIN Applied(d, w) = Loc
           /\ \A l \in Loc : Applied(d, w)[l] = Null \/ <<l, Applied(d, w)[l]>> \in Write
<1>1. CASE w[1] = Party
  BY <1>1 DEF Applied
<1>2. CASE w[1] # Party
  <2>1. w = <<w[1], w[2]>> /\ w[1] \in Loc
    BY <1>2, WriteShape
  <2>2. Applied(d, w) = [d EXCEPT ![w[1]] = w[2]]
    BY <1>2 DEF Applied
  <2> QED BY <2>1, <2>2
<1> QED BY <1>1, <1>2

\* What a phone is told has the type of its cache.
LEMMA ToldType ==
    ASSUME NEW d, \A l \in Loc : d[l] = Null \/ <<l, d[l]>> \in Write, NEW nodes
    PROVE  Told(nodes, d) \in [Watched -> Stage \cup Team \cup {Null}]
<1>1. ASSUME NEW l \in Watched
      PROVE  d[l] \in Stage \cup Team \cup {Null}
  <2>1. CASE <<l, d[l]>> \in Write
    <3>1. PICK w \in Write : w = <<l, d[l]>>
      BY <2>1
    <3> QED BY <3>1, WatchedValues
  <2> QED BY <2>1, WatchedAreLoc
<1> QED BY <1>1 DEF Told

-----------------------------------------------------------------------------
(* Type correctness.                                                       *)

\* A process that ends leaves a well-typed state.
LEMMA DieType ==
    ASSUME TypeOK, NEW c \in Player, NEW how \in {"closed", "crashed"}, Die(c, how)
    PROVE  TypeOK'
<1>1. DBTypeOK'
  <2>1. EmptyCache \in [Watched -> Stage \cup Team \cup {Null}]
    BY DEF EmptyCache
  <2>2. <<>> \in Seq(Write)
    BY EmptySeq
  <2> QED BY <2>1, <2>2 DEF TypeOK, DBTypeOK, Die, Disconnect
<1>2. LobbyTypeOK'
  <2>1. NoLists \in [Team -> SUBSET Player]
    BY DEF NoLists, Team
  <2> QED BY <2>1 DEF TypeOK, LobbyTypeOK, Die, Screen, Team
<1> QED BY <1>1, <1>2 DEF TypeOK

LEMMA SegueType ==
    ASSUME LobbyTypeOK, NEW c \in Player, Segue(c)
    PROVE  screen' \in [Player -> Screen] /\ received' \in [Player -> [Team -> SUBSET Player]]
<1>1. [Attacker |-> attackers[c], Defender |-> defenders[c]] \in [Team -> SUBSET Player]
  <2>1. attackers[c] \in SUBSET Player /\ defenders[c] \in SUBSET Player
    BY DEF LobbyTypeOK
  <2> QED BY <2>1 DEF Team
<1> QED BY <1>1 DEF Segue, LobbyTypeOK, Screen

LEMMA InitType == Init => TypeOK
<1> SUFFICES ASSUME Init PROVE TypeOK
  OBVIOUS
<1>1. DBTypeOK
  BY EmptySeq DEF Init, DBInit, DBTypeOK, EmptyCache
<1>2. LobbyTypeOK
  BY DEF Init, LobbyInit, LobbyTypeOK, NoLists, Screen, Team
<1> QED BY <1>1, <1>2 DEF TypeOK

LEMMA HostStepType ==
    ASSUME TypeOK, HostStep
    PROVE  TypeOK'
<1> USE HostAssumption DEF TypeOK
<1>1. CASE HostOpens
  <2>1. << <<GameState, "inLobby">>, <<RecordOf(Host), "Alive">>, <<Flags, "Free">>,
           <<TeamOf(Host), "Attacker">> >> \in Seq(Write)
    <3>1. /\ <<GameState, "inLobby">> \in Write
          /\ <<Flags, "Free">> \in Write
          /\ <<RecordOf(Host), "Alive">> \in Write
          /\ <<TeamOf(Host), "Attacker">> \in Write
      BY WritesAreWrites DEF Stage, Team
    <3> QED BY <3>1, ShortSeqs
  <2>2. outbox' \in [Player -> Seq(Write)]
    BY <1>1, <2>1, PutType DEF HostOpens, Open, DBTypeOK
  <2>3. DBTypeOK'
    BY <1>1, <2>2 DEF HostOpens, Open, Observe, DBTypeOK
  <2>4. LobbyTypeOK'
    BY <1>1 DEF HostOpens, Open, Tap, LobbyTypeOK, Screen
  <2> QED BY <2>3, <2>4
<1>2. CASE StartButton
  <2>1. << <<FlagsCaptured, 0>>, <<NumAttackers, Cardinality(attackers[Host])>>,
           <<NumDefenders, Cardinality(defenders[Host])>>, <<GameState, "inProgress">> >> \in Seq(Write)
    <3>1. Cardinality(attackers[Host]) \in Count /\ Cardinality(defenders[Host]) \in Count
      BY CountsAreCounts DEF LobbyTypeOK
    <3>2. /\ <<FlagsCaptured, 0>> \in Write
          /\ <<NumAttackers, Cardinality(attackers[Host])>> \in Write
          /\ <<NumDefenders, Cardinality(defenders[Host])>> \in Write
          /\ <<GameState, "inProgress">> \in Write
      BY <3>1, WritesAreWrites DEF Stage
    <3> QED BY <3>2, ShortSeqs
  <2>2. outbox' \in [Player -> Seq(Write)]
    BY <1>2, <2>1, PutType DEF StartButton, DBTypeOK
  <2>3. DBTypeOK'
    BY <1>2, <2>2 DEF StartButton, DBTypeOK
  <2>4. LobbyTypeOK'
    BY <1>2 DEF StartButton, Tap, LobbyTypeOK
  <2> QED BY <2>3, <2>4
<1>3. CASE HostGameStateEvent
  <2>1. outbox' \in [Player -> Seq(Write)]
    <3>1. << <<EndTime, "tenMinutesFromNow">> >> \in Seq(Write)
      BY WritesAreWrites
    <3> QED BY <1>3, <3>1, PutType DEF HostGameStateEvent, DBTypeOK
  <2>2. DBTypeOK'
    BY <1>3, <2>1 DEF HostGameStateEvent, DBTypeOK
  <2>3. screen' \in [Player -> Screen] /\ received' \in [Player -> [Team -> SUBSET Player]]
    <3>1. CASE Segue(Host)
      BY <3>1, SegueType
    <3>2. CASE UNCHANGED <<screen, received>>
      BY <3>2 DEF LobbyTypeOK
    <3> QED BY <1>3, <3>1, <3>2 DEF HostGameStateEvent
  <2>4. LobbyTypeOK'
    <3>1. PICK status \in Stage : told' = [told EXCEPT ![Host] = status]
      BY <1>3 DEF HostGameStateEvent
    <3>2. told' \in [Player -> Stage \cup {"untold"}]
      BY <3>1 DEF LobbyTypeOK
    <3>3. UNCHANGED <<selector, attackers, defenders, taps>>
      BY <1>3 DEF HostGameStateEvent
    <3> QED BY <2>3, <3>2, <3>3 DEF LobbyTypeOK
  <2> QED BY <2>2, <2>4
<1>4. CASE HostTeamsEvent
  <2>1. DBTypeOK'
    BY <1>4 DEF HostTeamsEvent, ReceiveTeams, DBTypeOK, dbVars
  <2>2. LobbyTypeOK'
    BY <1>4 DEF HostTeamsEvent, ReceiveTeams, OnTeam, LobbyTypeOK
  <2> QED BY <2>1, <2>2
<1>5. CASE HostDidDisappear
  <2>1. DBTypeOK'
    BY <1>5 DEF HostDidDisappear, StopListening, RemoveAllObservers, DBTypeOK
  <2>2. LobbyTypeOK'
    BY <1>5 DEF HostDidDisappear, StopListening, LobbyTypeOK
  <2> QED BY <2>1, <2>2
<1>6. CASE HostValueChanged
  <2> PICK t \in Team : ValueChanged(Host, t)
    BY <1>6 DEF HostValueChanged
  <2>1. << <<TeamOf(Host), t>>, <<HashTeamOf(Host), t>> >> \in Seq(Write)
    BY WritesAreWrites
  <2>2. outbox' \in [Player -> Seq(Write)]
    BY <2>1, PutType DEF ValueChanged, DBTypeOK
  <2>3. DBTypeOK'
    BY <2>2 DEF ValueChanged, DBTypeOK
  <2>4. LobbyTypeOK'
    BY DEF ValueChanged, Tap, LobbyTypeOK
  <2> QED BY <2>3, <2>4
<1> QED BY <1>1, <1>2, <1>3, <1>4, <1>5, <1>6 DEF HostStep

LEMMA RegularStepType ==
    ASSUME TypeOK, NEW c \in Regular, RegularStep(c)
    PROVE  TypeOK'
<1> USE DEF TypeOK
<1>c. c \in Player
  BY DEF Regular
<1>1. CASE RegularOpens(c)
  <2>1. << <<RecordOf(c), "Alive">>, <<TeamOf(c), "Attacker">> >> \in Seq(Write)
    <3>1. <<RecordOf(c), "Alive">> \in Write /\ <<TeamOf(c), "Attacker">> \in Write
      BY <1>c, WritesAreWrites DEF Team
    <3> QED BY <3>1, ShortSeqs
  <2>2. outbox' \in [Player -> Seq(Write)]
    BY <1>1, <1>c, <2>1, PutType DEF RegularOpens, Open, DBTypeOK
  <2>3. DBTypeOK'
    BY <1>1, <1>c, <2>2 DEF RegularOpens, Open, Observe, DBTypeOK
  <2>4. LobbyTypeOK'
    BY <1>1, <1>c DEF RegularOpens, Open, Tap, LobbyTypeOK, Screen
  <2> QED BY <2>3, <2>4
<1>2. CASE RegularGameStateEvent(c)
  <2>1. DBTypeOK'
    BY <1>2 DEF RegularGameStateEvent, DBTypeOK, dbVars
  <2>2. screen' \in [Player -> Screen] /\ received' \in [Player -> [Team -> SUBSET Player]]
    <3>1. CASE Segue(c)
      BY <1>c, <3>1, SegueType
    <3>2. CASE UNCHANGED <<screen, received>>
      BY <3>2 DEF LobbyTypeOK
    <3> QED BY <1>2, <3>1, <3>2 DEF RegularGameStateEvent
  <2>3. LobbyTypeOK'
    <3>1. PICK status \in Stage : told' = [told EXCEPT ![c] = status]
      BY <1>2 DEF RegularGameStateEvent
    <3>2. told' \in [Player -> Stage \cup {"untold"}]
      BY <1>c, <3>1 DEF LobbyTypeOK
    <3>3. UNCHANGED <<selector, attackers, defenders, taps>>
      BY <1>2 DEF RegularGameStateEvent
    <3> QED BY <2>2, <3>2, <3>3 DEF LobbyTypeOK
  <2> QED BY <2>1, <2>3
<1>3. CASE RegularTeamsEvent(c)
  <2>1. DBTypeOK'
    BY <1>3 DEF RegularTeamsEvent, ReceiveTeams, DBTypeOK, dbVars
  <2>2. LobbyTypeOK'
    BY <1>3, <1>c DEF RegularTeamsEvent, ReceiveTeams, OnTeam, LobbyTypeOK
  <2> QED BY <2>1, <2>2
<1>4. CASE RegularDidDisappear(c)
  <2>1. DBTypeOK'
    BY <1>4, <1>c DEF RegularDidDisappear, StopListening, RemoveAllObservers, DBTypeOK
  <2>2. LobbyTypeOK'
    BY <1>4, <1>c DEF RegularDidDisappear, StopListening, LobbyTypeOK
  <2> QED BY <2>1, <2>2
<1>5. CASE RegularValueChanged(c)
  <2> PICK t \in Team : ValueChanged(c, t)
    BY <1>5 DEF RegularValueChanged
  <2>1. << <<TeamOf(c), t>>, <<HashTeamOf(c), t>> >> \in Seq(Write)
    BY <1>c, WritesAreWrites
  <2>2. outbox' \in [Player -> Seq(Write)]
    BY <1>c, <2>1, PutType DEF ValueChanged, DBTypeOK
  <2>3. DBTypeOK'
    BY <2>2 DEF ValueChanged, DBTypeOK
  <2>4. LobbyTypeOK'
    BY <1>c DEF ValueChanged, Tap, LobbyTypeOK
  <2> QED BY <2>3, <2>4
<1> QED BY <1>1, <1>2, <1>3, <1>4, <1>5 DEF RegularStep

LEMMA AppStopsType ==
    ASSUME TypeOK, NEW c \in Player, AppStops(c)
    PROVE  TypeOK'
<1>1. PICK how \in {"closed", "crashed"} : Die(c, how)
  BY DEF AppStops, Quit, TeamsCastFails, StatusCastFails
<1> QED BY <1>1, DieType

LEMMA ServerStepType ==
    ASSUME TypeOK, NEW c \in Player, ServerStep(c), UNCHANGED lobbyVars
    PROVE  TypeOK'
<1>1. LobbyTypeOK'
  BY DEF TypeOK, LobbyTypeOK, lobbyVars
<1>2. CASE Commit(c)
  <2> DEFINE w == Head(outbox[c])
  <2>1. outbox[c] \in Seq(Write) /\ outbox[c] # <<>>
    BY <1>2 DEF Commit, TypeOK, DBTypeOK
  <2>2. w \in Write /\ Tail(outbox[c]) \in Seq(Write)
    BY <2>1, HeadTailProperties
  <2>3. db' = Applied(db, w) /\ outbox' = [outbox EXCEPT ![c] = Tail(@)]
    BY <1>2 DEF Commit
  <2>4. DOMAIN db' = Loc /\ \A l \in Loc : db'[l] = Null \/ <<l, db'[l]>> \in Write
    BY <2>2, <2>3, AppliedType DEF TypeOK, DBTypeOK
  <2>5. Told(listening[c], db') \in [Watched -> Stage \cup Team \cup {Null}]
    BY <2>4, ToldType
  <2>6. cache' \in [Player -> [Watched -> Stage \cup Team \cup {Null}]]
    BY <1>2, <2>3, <2>5 DEF Commit, TypeOK, DBTypeOK
  <2>7. outbox' \in [Player -> Seq(Write)]
    BY <2>2, <2>3 DEF TypeOK, DBTypeOK
  <2> QED BY <1>1, <1>2, <2>4, <2>6, <2>7 DEF Commit, TypeOK, DBTypeOK
<1>3. CASE Sync(c)
  <2>1. Told(listening[c], db) \in [Watched -> Stage \cup Team \cup {Null}]
    BY ToldType DEF TypeOK, DBTypeOK
  <2> QED BY <1>1, <1>3, <2>1 DEF Sync, TypeOK, DBTypeOK
<1> QED BY <1>2, <1>3 DEF ServerStep

LEMMA GameOverStepType ==
    ASSUME TypeOK, NEW c \in Player, GameOverStep(c)
    PROVE  TypeOK'
<1> USE DEF TypeOK
<1>1. CASE GameEnds(c)
  <2>1. DBTypeOK'
    BY <1>1 DEF GameEnds, DBTypeOK, dbVars
  <2>2. LobbyTypeOK'
    BY <1>1 DEF GameEnds, LobbyTypeOK, Screen
  <2> QED BY <2>1, <2>2
<1>2. CASE GameOverDidDisappear(c)
  <2>1. DBTypeOK'
    BY <1>2 DEF GameOverDidDisappear, DBTypeOK, dbVars
  <2>2. NoLists \in [Team -> SUBSET Player]
    BY DEF NoLists, Team
  <2>3. LobbyTypeOK'
    BY <1>2, <2>2 DEF GameOverDidDisappear, LobbyTypeOK, Screen
  <2> QED BY <2>1, <2>3
<1>3. CASE WipeParty(c)
  <2>1. << <<Party, Null>> >> \in Seq(Write)
    BY WritesAreWrites
  <2>2. outbox' \in [Player -> Seq(Write)]
    BY <1>3, <2>1, PutType DEF WipeParty, DBTypeOK
  <2>3. DBTypeOK'
    BY <1>3, <2>2 DEF WipeParty, DBTypeOK
  <2>4. LobbyTypeOK'
    BY <1>3 DEF WipeParty, LobbyTypeOK, Screen
  <2> QED BY <2>3, <2>4
<1> QED BY <1>1, <1>2, <1>3 DEF GameOverStep

LEMMA NextType == TypeOK /\ [Next]_vars => TypeOK'
<1> SUFFICES ASSUME TypeOK, [Next]_vars PROVE TypeOK'
  OBVIOUS
<1>1. CASE HostStep
  BY <1>1, HostStepType
<1>2. CASE \E c \in Regular : RegularStep(c)
  BY <1>2, RegularStepType
<1>3. CASE \E c \in Player : AppStops(c)
  BY <1>3, AppStopsType
<1>4. CASE \E c \in Player : ServerStep(c) /\ UNCHANGED lobbyVars
  BY <1>4, ServerStepType
<1>5. CASE \E c \in Player : GameOverStep(c)
  BY <1>5, GameOverStepType
<1>6. CASE UNCHANGED vars
  BY <1>6 DEF TypeOK, DBTypeOK, LobbyTypeOK, vars, dbVars, lobbyVars
<1> QED BY <1>1, <1>2, <1>3, <1>4, <1>5, <1>6 DEF Next

\* Whatever the players, the phones and the server do, every variable of the
\* model keeps its type; in particular every queued write is a write that the
\* code makes, at a location of the party.
THEOREM TypeCorrect == Spec => []TypeOK
BY InitType, NextType, PTL DEF Spec

-----------------------------------------------------------------------------
(* Positions in the outboxes.                                              *)

LEMMA MaxIsLast ==
    ASSUME NEW n \in Nat, NEW S \in SUBSET (1..n), n \in S
    PROVE  Max(S) = n
<1>1. \E x \in S : \A y \in S : x >= y
  OBVIOUS
<1>2. Max(S) \in S /\ \A y \in S : Max(S) >= y
  BY <1>1 DEF Max
<1>3. \A x \in S : x >= n => x = n
  OBVIOUS
<1> QED BY <1>2, <1>3, Zenon

\* A write of a handler goes behind the writes already on their way.
LEMMA PutPositions ==
    ASSUME TypeOK, NEW c \in Player, NEW ws \in Seq(Write), Put(c, ws)
    PROVE  /\ Len(outbox[c]) \in Nat /\ Len(ws) \in Nat
           /\ DOMAIN outbox[c] = 1 .. Len(outbox[c])
           /\ DOMAIN outbox'[c] = 1 .. (Len(outbox[c]) + Len(ws))
           /\ \A i \in DOMAIN outbox[c] : outbox'[c][i] = outbox[c][i]
           /\ \A i \in 1 .. Len(ws) : outbox'[c][Len(outbox[c]) + i] = ws[i]
           /\ \A d \in Player \ {c} : outbox'[d] = outbox[d]
<1>1. outbox \in [Player -> Seq(Write)]
  BY DEF TypeOK, DBTypeOK
<1>2. outbox'[c] = outbox[c] \o ws /\ \A d \in Player \ {c} : outbox'[d] = outbox[d]
  BY <1>1, PutType
<1>3. outbox[c] \in Seq(Write)
  BY <1>1
<1>4. /\ Len(outbox[c]) \in Nat /\ Len(ws) \in Nat
      /\ DOMAIN outbox[c] = 1 .. Len(outbox[c])
  BY <1>3, LenProperties
<1>5. /\ outbox[c] \o ws \in Seq(Write)
      /\ Len(outbox[c] \o ws) = Len(outbox[c]) + Len(ws)
      /\ \A i \in 1 .. Len(outbox[c]) + Len(ws) :
            (outbox[c] \o ws)[i] = IF i <= Len(outbox[c]) THEN outbox[c][i] ELSE ws[i - Len(outbox[c])]
  BY <1>3, ConcatProperties
<1>6. DOMAIN (outbox[c] \o ws) = 1 .. (Len(outbox[c]) + Len(ws))
  BY <1>5, LenProperties
<1>7. ASSUME NEW i \in 1 .. Len(ws)
      PROVE  (outbox[c] \o ws)[Len(outbox[c]) + i] = ws[i]
  <2>1. /\ Len(outbox[c]) + i \in 1 .. Len(outbox[c]) + Len(ws)
        /\ ~(Len(outbox[c]) + i <= Len(outbox[c]))
        /\ (Len(outbox[c]) + i) - Len(outbox[c]) = i
    BY <1>4
  <2> QED BY <1>5, <2>1
<1> QED BY <1>2, <1>4, <1>5, <1>6, <1>7

\* A commit takes the first write, and the others move up.
LEMMA CommitPositions ==
    ASSUME TypeOK, NEW c \in Player, Commit(c)
    PROVE  /\ Len(outbox[c]) \in Nat \ {0}
           /\ DOMAIN outbox[c] = 1 .. Len(outbox[c])
           /\ DOMAIN outbox'[c] = 1 .. (Len(outbox[c]) - 1)
           /\ Len(outbox'[c]) = Len(outbox[c]) - 1
           /\ \A i \in DOMAIN outbox'[c] : outbox'[c][i] = outbox[c][i + 1]
           /\ \A d \in Player \ {c} : outbox'[d] = outbox[d]
           /\ outbox[c][1] \in Write
           /\ db' = Applied(db, outbox[c][1])
<1>1. outbox[c] \in Seq(Write) /\ outbox[c] # <<>>
  BY DEF TypeOK, DBTypeOK, Commit
<1>2. outbox'[c] = Tail(outbox[c]) /\ \A d \in Player \ {c} : outbox'[d] = outbox[d]
  BY DEF TypeOK, DBTypeOK, Commit
<1>3. /\ Tail(outbox[c]) \in Seq(Write)
      /\ Len(Tail(outbox[c])) = Len(outbox[c]) - 1
      /\ \A i \in 1 .. Len(Tail(outbox[c])) : Tail(outbox[c])[i] = outbox[c][i + 1]
  BY <1>1, HeadTailProperties
<1>4. Len(outbox[c]) \in Nat \ {0} /\ DOMAIN outbox[c] = 1 .. Len(outbox[c])
  BY <1>1, LenProperties, EmptySeq
<1>5. DOMAIN Tail(outbox[c]) = 1 .. (Len(outbox[c]) - 1)
  BY <1>3, LenProperties
<1>6. Head(outbox[c]) = outbox[c][1] /\ outbox[c][1] \in Write
  BY <1>1, <1>4, ElementOfSeq
<1> QED BY <1>2, <1>3, <1>4, <1>5, <1>6 DEF Commit

\* Every queued write is one.
LEMMA QueuedWrites ==
    ASSUME TypeOK, NEW c \in Player
    PROVE  \A i \in DOMAIN outbox[c] : outbox[c][i] \in Write
<1>1. outbox[c] \in Seq(Write)
  BY DEF TypeOK, DBTypeOK
<1> QED BY <1>1, LenProperties, ElementOfSeq

=============================================================================
