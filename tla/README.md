# Demolition: a TLA+ model of a party

Demolition is an iOS game for a group of people with a phone each. One player
hosts a *party*, the others join it and pick a team, the host taps START, the
phones enter the game, and when it is over the party is removed from a Firebase
realtime database. The phones share nothing but that database.

The repository holds three view controllers of the app
(`HostLobbyViewController.swift`, `RegularLobbyViewController.swift`,
`GameOverViewController.swift`), the storyboard, and vendored pods. This
project models those three completely, with the database and the SDK's replica
on each phone as their environment.

Line numbers below are in `src/Demolition/Demolition/`; `Host:` stands for
`HostLobbyViewController.swift`, `Regular:` and `Over:` for the other two.

## 1. Inventory

### Components

| Component | State it keeps | Operations |
|---|---|---|
| Realtime database (external) | the tree below `Parties/<partyID>`: `Global` (gameState, flagsCaptured, counts, endTime, Flags), `Teams`, `PlayerStatus`, `Players` | commit of a write, commit of a removal, telling a phone of a change |
| Firebase SDK on each phone (external) | queue of unacknowledged writes, last known server values, registered observers | setValue, removeValue, observe, observeSingleEvent, removeAllObservers |
| Host lobby (`Host:12-262`) | `partyID`, the two arrays behind the tables, `teamSelector`, registered listeners | viewDidLoad, viewWillAppear, teams listener, game state listener, startButton, valueChanged, prepare(for:), viewDidDisappear |
| Regular lobby (`Regular:12-240`) | the same | the same without startButton |
| Game over screen (`Over:12-66`) | four reasons the game ended, the received lists, two labels | viewDidLoad, viewDidDisappear |
| Table data sources (`Host:231-262`, `Regular:207-240`) | none of their own: they index the arrays | numberOfRowsInSection, cellForRowAt |
| Flags and map annotations (`Host:122-132`, `Regular:115-119`) | six annotations | published once by the host, read by nobody in the repository |
| Storyboard (`Base.lproj/Main.storyboard`) | screens, segues, initial segment and label text, `valueChanged` wired twice | navigation |
| New/join game, attacker and defender screens, app delegate, `CustomPointAnnotation` | not in the repository | named by the storyboard and by `prepare(for:)` only |
| Test bundles | only their property lists are in the repository | - |
| Vendored pods, images | third party | - |
| A saved page of the Firebase web console, with nine minified scripts, in the folder of the pin image | not part of the app: the image set's `Contents.json` names only `blueFlag.png` | - |

### How they interact

* The host's opening publishes the party with four groups of writes (game
  state, the host's record, flags, the host's team). A joining player's opening
  adds a record and a team (`Host:122-143`, `Regular:121-130`).
* Each lobby observes `Teams` and `Global/gameState`. A change of `Teams`
  rebuilds both tables. A change of the status to `inProgress` makes the host's
  phone write `endTime` and makes every phone segue into a game screen chosen by
  the segment of its own selector, with a copy of its tables.
* START is four separate writes: `flagsCaptured`, the two counts, the status.
* The game over screen shows the verdict and, on leaving, asks for `Parties`
  once; the completion removes the party if the snapshot has it.

### What is hard

* *Nothing is a transaction.* START, the opening and a selection are sequences
  of writes which a kill or a failing cast can cut anywhere.
* *Every phone sees its own writes first.* The host's listener fires on
  `inProgress` before the server has it, and the removal by a phone is shown to
  that phone's own listeners before anyone else's.
* *Listeners outlive their screen.* `viewDidDisappear` removes the observers of
  `Teams`; the game state observer stays registered.
* *Check then act.* The removal is asked for in one callback and carried out in
  another, while other phones write and remove.
* *A team is kept twice.* A selection writes `Teams/<name>` and
  `Players/<customHash>/Team`; opening a lobby writes the first only, so joining
  again after a crash leaves the second as it was.
* *Stale data is copied.* The counts and the winners' list are those of the
  tables as they were when a button was tapped or a segue ran.
* *Forced casts.* `as! String` and `as! NSDictionary` end the app if the node is
  gone.

`PROJECT.json` lists each of these hazards at its line with the properties that
would catch it. What makes each component correct:

* Host lobby: the start is published as a whole or not seen at all
  (`StartIsComplete`), the counts come from one roster (`CountsFromOneRoster`),
  the game gets its end time and only after a start (`TimerIsSet`,
  `TimerNeedsStart`).
* Regular lobby: nobody plays before the start (`NobodyPlaysBeforeStart`),
  nobody is left behind in the lobby (`StartReachesEveryone`), the tables settle
  on the registered teams (`LobbiesConverge`), and the role a player plays is
  the one registered (`RoleIsRegistered`); a running phone does not make the two
  copies of a team differ (`CopiesStayTogether`); a late status cannot segue a
  player twice (`SegueOnlyFromLobby`).
* Game over: the last to leave takes the party along (`LastOneOutCleansUp`),
  whoever leaves takes along what they wrote (`LeaversLeaveNothing`), and only a
  started game is removed (`WipeEndsStartedGame`).
* Tables: a row that is asked for is there (`RowsAreThere`), what is in sight is
  the array (`TablesShowTheArrays`), and a player has one row (`NobodyTwice`).
* Flags: the board is a prefix of complete flags at any moment (`BoardIsPrefix`)
  and complete in the end (`EveryPlaceHasItsFlag`).
* All of them together: a party goes through its stages in order
  (`ImplementsStages`).

## 2. Modules and how they correspond to the code

| Module | Models | Composes |
|---|---|---|
| `PartyDB` | the database and the SDK's replica: `db`, `cache`, `synced`, `outbox`, `listening` | - |
| `Lobby` | what both lobby controllers have in common: tables, selector, segue, listeners, casts | `PartyDB` |
| `HostLobby` | the handlers of the host's controller, with START and the timer | `Lobby` |
| `RegularLobby` | the handlers of the other players' controller | `Lobby` |
| `GameOver` | the verdict, the winners, the removal | `Lobby` |
| `Demolition` | the whole party, its fairness and its properties | the three above |
| `DemolitionInv` | the inductive invariants | `Demolition` |
| `PartyStages` | abstract: the stages of a party, its clock and where its players are | - |
| `DemolitionStages` | the refinement mapping | `DemolitionInv`, an instance of `PartyStages` |
| `MCDemolition` | the symmetry of the runs | `DemolitionStages` |
| `TeamTables` | the arrays with their rows, the two table views and the teams listener | - |
| `FlagBoard` | the eighteen writes of the flags, their commits, the annotations | - |
| `TypeProofs` | type correctness and the lemmas about queues, views and merges | `DemolitionInv` |
| `StartProofs` | `StartIsComplete`, `NobodyPlaysBeforeStart` | `TypeProofs` |
| `WipeProofs` | `LastOneOutCleansUp`, `WipeEndsStartedGame` and their invariants | `StartProofs` |
| `TimerProofs` | `TimerNeedsStart`, and what the host's queue is made of | `WipeProofs` |
| `StagesProofs` | `SegueOnlyFromLobby`, `StagesInv`, and the refinement `ImplementsStages` | `TimerProofs`, `DemolitionStages` |
| `RosterProofs` | `RoleIsRegistered`, `CopiesStayTogether`, `LeaversLeaveNothing`, `CountsFromOneRoster` and their invariants | `StagesProofs` |
| `TeamTablesProofs` | the three invariants of the tables, and what the loop over the keys builds | `TeamTables` |
| `FlagBoardProofs` | the two invariants of the board, and what the loop over the flags queues | `FlagBoard` |

A handler runs on the main thread to its end, so a handler is one action. The
actions:

| Action | Code |
|---|---|
| `HostOpens` | `viewDidLoad` and `viewWillAppear` of the host |
| `RegularOpens(c)` | the same of a player who joins, or joins again after the app stopped |
| `StartButton` | `startButton` (`Host:186-193`) |
| `HostGameStateEvent`, `RegularGameStateEvent(c)` | the game state listener and the segue it performs |
| `HostTeamsEvent`, `RegularTeamsEvent(c)` | the teams listener |
| `TeamsCastFails(c)`, `StatusCastFails(c)` | the same listeners when the forced cast meets NSNull |
| `HostValueChanged`, `RegularValueChanged(c)` | `valueChanged`; the storyboard's second call writes the same values again |
| `HostDidDisappear`, `RegularDidDisappear(c)` | `viewDidDisappear` |
| `GameEnds(c)` | environment: the game screen ends the game; then `viewDidLoad` of the game over screen |
| `GameOverDidDisappear(c)`, `WipeParty(c)` | the request for the parties and its completion |
| `Quit(c)` | the player kills the app, at any moment |
| `TeamTables`: `TeamsListener`, `TeamsCastFails` | the teams listener with the order of `allKeys` and both reloads (`Host:144-158`, `Regular:131-146`) |
| `TeamTables`: `NumberOfRows(t)`, `CellForRowAt(t, i)` | the data source (`Host:231-262`, `Regular:207-240`), called when UIKit wants |
| `FlagBoard`: `HostOpens` | the loop over `flagAnnotations.values` (`Host:122-132`) |
| `Commit(c)`, `Sync(c)` | the server commits the oldest write of a phone, or tells it of changes |

### How data is abstracted

* A location is a pair; a write is a location with a value. `RecordOf` is
  `PlayerStatus/<name>`, which the host writes before the flags (`Host:93`). The
  leaves of the six flags are one location (`Flags`), written one after the
  other. The coordinates of a player are written right before the team and read
  by nobody here: they are taken with the team's write. `Players/<hash>/Team` is
  kept apart (`HashTeamOf`), since it duplicates `Teams` and can disagree with it.
* The two listeners of a phone are called in any order. The SDK raises a phone's
  events in the order of the changes, so the model has more behaviours than the
  app. It matters for one reading only: in the trace of `winners` the
  player's table may be stale because the server told of the start first, not
  because a callback was passed over.
* `View(c, l)` is what phone `c` sees at `l`: its latest pending write there, or
  the removal of the party, over the server's last word.
* The end time is one value: the clock is read in the game screens, which are
  not in the repository. The tables are sets of names: rows have no meaning but
  the name. (`TeamTables` has the rows and their order, and `NobodyTwice` is why
  the number of rows is the size of the set.)
* `FlagBoard` has the leaves of the flags that `PartyDB` takes as one; as
  `BoardIsPrefix` says, the last leaf is there only if all are, so it is the commit of
  that leaf which the one write stands for. A party that its host leaves
  before that is not published in either view.
* A table that was told to reload asks for its number of rows before it asks for
  a row again: that is UIKit's promise, and the model makes no other about when
  either call comes.
* What is dead is reset, so that states that behave alike are one: the tables
  when the lobby stops listening to `Teams`, the copied lists when the game over
  screen has gone. The two labels are not state: they are written once, from the
  reasons and the copied lists, and nothing reads them again, so they are the
  operators `Verdict` and `WinnersList`.
* A lobby that stops by a kill is `closed`, by a cast `crashed`.

## 3. What is checked

| Run | Instance | Properties |
|---|---|---|
| `safety` | host and one player, 3 taps of the host, 2 of the player; 1.0 M states | `TypeOK`, six safety invariants, `WipeEndsStartedGame`; `RoleInv`, `CountsInv`, `WipeInv` and `StagesInv`, inductive invariants of the proofs |
| `stages` | host and one player, 2 taps of the host, 3 of the player; 470 k states | `RoleIsRegistered`, `LeaversLeaveNothing`, `CopiesStayTogether`; `ImplementsStages`, the refinement of `PartyStages`; the inductive `RoleInv` and `CleanInv` |
| `three` | host and two players, 2 taps and 1, symmetry of the two; 1.8 M states | `NobodyPlaysBeforeStart`, `LastOneOutCleansUp` |
| `live` | host and one player, 2 taps each; 130 k states | `StartReachesEveryone`, `TimerIsSet`, `LobbiesConverge` under `FairSpec` |
| `tables` | three names, one of them a number, any sequence of snapshots | `RowsAreThere`, `TablesShowTheArrays`, `NobodyTwice` |
| `flags` | the six flags in all 720 orders; 19 k states | `BoardIsPrefix`, `EveryPlaceHasItsFlag` |
| `status_cast`, `counts`, `winners`, `wipe`, `array`, `flag_numbers` | as above | one claim of the code's own comments, keys or casts each, violated: see Findings |

`safety`, `stages`, `three` and `live` check `Demolition`'s `Spec` or `FairSpec`
through `MCDemolition`.

### What the passing runs show

* **`StartIsComplete`**: wherever the host's phone stops between the four writes
  of START, a database that says `inProgress` has the captured flags and both
  counts. It rests on two facts about order: the status is written last, and the
  SDK commits a phone's writes in order. With the status first it fails.
* **`NobodyPlaysBeforeStart`**: no player who joined is in a game that the
  database does not know of, in whatever order snapshots, wipes and rejoining
  meet.
* **`RoleIsRegistered`**: the segue goes by the selector while the others go by
  `Teams`; once the phone's selections are committed, `Teams` has the player on
  the side of the screen. The copy at `Players/<customHash>/Team` is another
  matter. A Defender's agrees, since only a selection gets a player there; so does
  the host's, if there is one, since the host opens a lobby once. The copy of an
  Attacker who joined may be missing, or wrong: select Defender, crash, join again,
  and the phone plays as Attacker, registered as Attacker in `Teams`, with
  `Defender` left at the second place. Nothing in the repository reads that copy
  or promises that it agrees, so this is no finding; the property says
  exactly where agreement holds.
* **`CopiesStayTogether`**: the copies of a running player's team, once they agree
  (or there is one only), agree for as long as the app runs: no selection,
  commit, snapshot or other phone makes them differ. With what is said above this
  leaves a crash followed by joining again as the only way. Here "agree"
  is about what the server will have when the player's writes have arrived.
* **`TimerNeedsStart`**, **`TimerIsSet`**: the end time follows a start, and a
  start gets its end time as long as the host's app runs. A host that stops
  between START and its own listener leaves a game without an end; the code has
  nothing against that, and the property says so in its conclusion.
* **`CountsFromOneRoster`**: after any number of STARTs the two counts never add
  up to more players than are registered. (They can add up to fewer: finding 2.)
* **`SegueOnlyFromLobby`**: the game state observer is never removed and goes on
  being called, yet with `inProgress` in the lobby only: the segue is not performed
  twice, from a game screen neither, whichever screen it would lead to. It rests on
  the status never going back, on phones which see their own writes early.
* **`LastOneOutCleansUp`**: once everybody has left and every write has arrived
  there is nothing in the database, although two phones may both remove and
  writes queued earlier may arrive after another phone's removal. It holds since
  a phone's own pending writes count in the snapshot it decides by, so that each
  phone's last write is a removal. Deciding by the server's data alone breaks it.
* **`LeaversLeaveNothing`**: one phone at a time, and with no condition on the
  others: a player who has left and has nothing more to send has no record and no team in the
  database, and a host no globals. `LastOneOutCleansUp` says nothing as soon as
  one player has crashed, for example on the empty `Teams` of somebody else's removal
  (`Regular:132`); this says what then is left can only be the crashed player's own.
* **`WipeEndsStartedGame`**: a removal never takes away a party that still waits.
* **`StartReachesEveryone`**: a tap of START ends the wait of everyone who is in a
  lobby: they get into the game, or their app ends at the cast of a status that somebody
  has removed meanwhile; unless the host's app stops with the
  start still on its way; after that nobody stays behind, whoever stops. It is
  what waiting players depend on, and all they depend on: nothing tells them of
  a host who is gone.
* **`LobbiesConverge`**: no order of joins, selections and snapshots leaves a lobby
  with wrong tables.
* **`ImplementsStages`**: the party of phones, queues, replicas and listeners is a
  party of `PartyStages`. There it is published once, starts once, gets its clock
  after that, is removed only after it has started, and never comes back; nobody
  joins a party that no one has opened; nobody but the host, who calls the
  start, enters a game that has not started, and nobody from anywhere but the
  lobby. A stage is read off the database: without flags the party is
  `unpublished` while the host's phone still has them to write, else `over`.
* **`RowsAreThere`**, **`TablesShowTheArrays`**: `cellForRowAt` indexes the array by a row
  number given out earlier. It is safe since every rebuilding ends with both
  `reloadData` calls: with one of them missing the other table goes wrong.
* **`BoardIsPrefix`**, **`EveryPlaceHasItsFlag`**: in whatever order the dictionary
  hands out the annotations, each place gets one flag, and a reader who finds a
  flag's place finds the flag complete and every flag before it.

Each property also has a mutant: a plausible mistake in the code (a dropped
`status == "inProgress"`, tables not emptied, the status written first, a
selection written to one place only, ...) for which the run finds a violation.

### Bounds

`HostTaps` and `RegularTaps` bound what players do: opening a lobby, tapping
START and selecting a team each use a tap. They are the only bounds; kills,
crashes, games ending and the server's steps are unbounded but for the finite
state that taps leave. Three host taps allow an opening, a selection and a
START, or two STARTs; two taps of the player allow a selection after joining, or a crash
and joining again. That is `safety`. In `stages` the player has a third tap, which the
stale copy of a team needs (a selection, a crash, joining again), and the host
two: an opening and START. A host who selects and then starts is in
`safety`, where `RoleInv`, from which `RoleIsRegistered` follows, is checked as
well; the refinement under a second START is left to its theorem. One joining player has every race with the host and its own
queue. A third phone is needed for two removals that race past a phone that
still writes, and for one joining player seeing another; that is run `three`.
More players add phones whose handlers do not touch each other's state; for any
number the theorems of section 5 take over. A queue is bounded by the taps.

In `TeamTables` three names are enough for two rows in one table and one in the
other, for a table that grows and one that shrinks, and for names of both kinds.
There is no other bound: snapshots come in any number and order. `FlagBoard` has
all six flags.

`CHECK_DEADLOCK FALSE` is set since the players may all have stopped or left
with no taps remaining; nothing further is then to happen.

### Fairness

`FairSpec` has weak fairness of each phone's listener callbacks and transitions,
its failing casts, the commit of its writes, the delivery of changes, and the
completion of its one-shot read. That is what the main thread's event loop and
the SDK's connection (which reconnects for as long as the process lives) do.
A handler that is enabled stays enabled until it runs or the app stops, or what
it would be told has changed; so weak fairness is enough. The acts of people
(opening, START, selecting, ending a game, leaving the game over screen, killing
the app) have none: a host may never start.

## 4. Findings

1. **The status listener meets a missing status** (`StatusIsString`,
   `Regular:150`, `Host:162`). `snapshot.value as! String` is applied to NSNull
   when the party is removed, since the observer is never removed, or when a
   lobby is entered during a removal. The app ends.
2. **The counts are not those of the teams** (`CountsMatchTeams`, `Host:189-191`).
   START before the first snapshot of `Teams` publishes zero and zero; a selection on
   its way is not counted. Nothing corrects the numbers.
3. **A winner can be missing from the winners** (`OwnNameAmongWinners`,
   `Over:29-40`). The list is the table at the time of the segue; a player who
   joined or changed teams just before the start is not on it.
4. **A removal can end the app before it is sent** (`PartyIsWiped`,
   `Over:45-50`). The removal is visible at once on the phone that makes it, so
   its own status listener fails its cast; the queued removal dies with the
   process and the party stays.

5. **A name that is a number** (`TeamsIsDictionary`, `Host:145`, `Regular:132`).
   The SDK hands a node over as an `NSArray` if its children are named by small
   integers (`FIRDataSnapshot.h:91-95`), and the cast is to `NSDictionary`. A host
   called 1 stops their own app by opening the lobby.
6. **Two numberings of the flags** (`FlagNumbersAgree`, `Host:122-127`). The map
   numbers the flags by the dictionary's keys, the database by the order of the
   dictionary's values.

Findings 1 and 4 rest on the game state observer still being registered while
the game over screen is left. The three controllers never remove it. The attacker and
defender screens, which are not in the repository, could.

## 5. What is proved

The theorems about a party hold for every finite set of players, every host in
it, and any number of taps; those about the tables for every finite set of names.
Assumptions: `HostAssumption` (the host is a player), `PlayerAssumption`
(players are finite), `NullAssumption` and `NullIsNoCount` (no value is no value
that is written), `TapsAssumption` (the bounds are naturals), `WordAssumption`
and `DigitsAssumption` (names are finitely many). They are evaluated in the runs
of the modules that declare them.

| Theorem | Statement |
|---|---|
| `TypeCorrect` (`TypeProofs`) | `Spec => []TypeOK` |
| `StartComplete`, `NoEarlyPlay` (`StartProofs`) | `Spec => []StartIsComplete`, `Spec => []NobodyPlaysBeforeStart` |
| `CleanKept`, `LastOneOut` (`WipeProofs`) | `Spec => []CleanInv`, `Spec => []LastOneOutCleansUp` |
| `WipeKept`, `WipeEndsGame` (`WipeProofs`) | `Spec => []WipeInv`, `Spec => WipeEndsStartedGame` |
| `TimerAfterStart` (`TimerProofs`) | `Spec => []TimerNeedsStart` |
| `StagesKept`, `SegueFromLobby` (`StagesProofs`) | `Spec => [](TypeOK /\ WipeInv /\ StagesInv)`, `Spec => []SegueOnlyFromLobby` |
| `StagesImplemented` (`StagesProofs`) | `Spec => ImplementsStages` |
| `RoleKept`, `RoleRegistered` (`RosterProofs`) | `Spec => []RoleInv`, `Spec => []RoleIsRegistered` |
| `CopiesTogether`, `LeaversClean` (`RosterProofs`) | `Spec => CopiesStayTogether`, `Spec => []LeaversLeaveNothing` |
| `CountsKept`, `CountsRight` (`RosterProofs`) | `Spec => []CountsInv`, `Spec => []CountsFromOneRoster` |
| `TablesShow`, `RowsThere`, `NobodyIsTwice` (`TeamTablesProofs`) | `[]` of `TablesShowTheArrays`, `RowsAreThere`, `NobodyTwice` |
| `PrefixOnBoard`, `PlacesOnBoard` (`FlagBoardProofs`) | `[]` of `BoardIsPrefix`, `EveryPlaceHasItsFlag` |

* **Types.** `TypeOK` is inductive as it stands. It carries a fact the others
  use throughout: every queued write is one the code makes, and every stored
  value is a value written at that location. Lemmas say what a merge, a view, an
  append and a commit do to such values.
* **Cleaning up.** `LastOneOutCleansUp` speaks of empty queues, so it is not
  inductive. `CleanInv` adds what makes it so: a phone that has left has a
  removal as its *last* queued write, if any (`LeftoverIsWipe`), and a party in
  the database has somebody who has not left or a removal on its way
  (`PartyHasKeeper`). The step that matters is `WipeParty`: a phone whose
  snapshot lacks the party has no pending write that would bring it back.
* **Starting.** `StartInv` follows the start from the host's queue through the
  database to the other phones. The queue's order is the argument: what the
  opening writes precedes any start (`OpeningComesFirst`, `LobbyBeforeFlags`),
  what a start announces precedes it in the queue, or is committed, or has gone with
  the party (`StartAnnounces`). No one but the host writes below `Global`
  (`RegularsKeepOff`), and a player who knows of the start, by screen, listener,
  cache or a removal of their own, is right about it (`AwareIsRight`).
* **Wiping.** `WipeInv` adds that the host, who may know of its own start before
  the server does, has it queued or committed (`HostAwareIsRight`) and never queues a
  removal ahead of it (`HostWipesAfterStart`). The theorem is an action property
  shown from `WipeInv`: only the commit of a removal makes a standing party
  vanish.

* **The timer.** `TimerNeedsStart` says nothing of an end time on its way.
  `TimerInv` does: the end time is queued behind the start its listener was
  called with, or that start is certain (`TimerFollowsStart`). The host's listener
  is called as soon as the phone's own view says so, which may be ahead of the
  server; `HostSeesOwn` finds the start in the queue or in the replica. Two
  facts of the opening are needed as well: the flags are queued once
  (`FlagsOnce`) and nothing is published before them (`OpeningIsUnpublished`).
  `ScreenInv` has what the screens rule out: an app that does not run has
  nothing queued and listens to nothing, and nothing happens before the host's
  opening.
* **No way back.** `ToldInv` is why an observer that is never removed does no
  harm. Who knows of the start knows that the database will not say `inLobby`
  again (`AwareHasBegun`); who was told of the start has it queued, or has no
  `inLobby` in the replica (`NoWayBack`); and whoever is in the game has the
  start as the last word told (`PlaysWhatItWasTold`). A listener is called with a
  status it was not told, so none in the game, or past it, is called with `inProgress` again,
  and none before the lobby is there to be called (`CalledInLobby`): `SegueFromLobby`. `StagesInv` is `ScreenInv`, `TimerInv` and `ToldInv`.
* **The refinement.** `StagesImplemented` maps every step of a phone or the
  server to a step of `PartyStages` or to none. The commit of the flags
  publishes the party, the first commit of `inProgress` starts it, that of the end
  time sets its clock, the commit of a removal, or the host's app stopping with
  the flags unsent, ends it; the screens give the players' places. Each of the
  guards of `PartyStages` is one of the invariants above: a start needs
  `OpeningComesFirst`, a clock `TimerFollowsStart`, a removal
  `HostWipesAfterStart` and `AwareIsRight`, a player who plays `AwareHasBegun`
  and `NoWayBack`.
* **The role.** `RoleIsRegistered` speaks of a phone whose selections have
  arrived, so `RoleInv` follows them on their way: what the server will have at a
  player's team when that phone's writes are committed (`Coming`) is the segment
  of the selector, and so is the copy's, for a Defender and for a host who has one
  (`SelectionIsComing`). It rests on nobody writing at another player's places
  (`OwnPlacesOnly`) and on removals being queued by those who have left only
  (`WipesWhenLeft`): so a removal that takes somebody's registration
  away comes from elsewhere, and `WipeInv` then makes the party `Over`.
* **The copies.** `CopiesTogether` is an action property, shown from the same
  invariants (`CopiesStep`): a commit of the player's own writes changes nothing of
  what is coming, other phones write elsewhere, and a selection queues both copies.
* **The leavers.** `LeaversClean` combines `LeftoverIsWipe` and `OwnPlacesOnly`. A
  player leaves by the completion of the one-shot read only (`LeftByWipe`): either
  the snapshot, own pending writes included, has nothing of the party, or a
  removal is queued, last. Nobody else writes at the player's own places, so what is gone
  stays gone (`LeaversStep`).
* **The counts.** The roster is who is registered, and the host as soon as that
  is on its way: the host's own phone sees it before the server. `CountsInv` says that
  the host's replica and tables show members of it (`HostKnowsRoster`,
  `TablesFromRoster`), each in one table, and that the two counts of a START stand next
  to each other in the queue and add up to no more (`CountsInPairs`). In
  between, one of a pair is in the database and the other first in the queue,
  which is the case that the last conjunct of `CountsInPairs` separates.
  The roster only grows until the party is over. `HostStartsBlank` was
  missing at first: without it nothing in the invariant said that the tables are
  empty when the host opens, and the step was not provable.
* **The tables.** `TablesShowTheArrays` is inductive but for the domains of the two
  functions, and gives `RowsAreThere`. `NobodyTwice` needs to know what the
  listener's loop builds. `MembersList` says so for any keys: the names of the
  team, each of them once.
* **The board.** `BoardInv` has the queue as what is left of the eighteen writes of
  one order of the flags, and the board as what has arrived of them. It holds for
  every order at once. `QueuePublishes` says what the loop over the flags queues.

The library's induction theorems cannot be used here, since their hypotheses are operators.
`MembersList` and `FlatteningExists` use a least counterexample instead:
a non-empty set of naturals has a least member (`LeastNumber`, from the
library's `WFMin`), which is stated of sets. That a recursive function exists at
all is shown the same way.

The invariants of the party were checked by the runs `safety` and `stages` before they were proved.

### Only model-checked

`StartReachesEveryone`, `TimerIsSet` and `LobbiesConverge` are liveness under
fairness, which the prover does not treat. Every other property of a passing run
has a theorem. The six claims of the findings are refuted by their runs, and
there is nothing to prove.

## 6. What is not modelled, and why

* The new-game, join-game, attacker and defender screens: not in the repository.
  Their effect on what is modelled is an environment: a player gets into a
  lobby; a game ends for any set of reasons and hands over the lists it was
  handed. What they write (captured flags, players alive) is not known here, so
  `flagsCaptured` and the counts keep the values of START.
* Joining from the main menu once more: by a player who has left the game over
  screen (`Main.storyboard:757` leads there, in an app that goes on running), or by
  a host whose app crashed and who comes back as a player. Both go through the
  join screen. A player who has left still has the status observer, which ends the app
  at the next word of the removal (finding 4), so only the time before that is
  left out; a crashed host would write with the rights of a player, for
  which the model has other players.
* Party IDs that are used again and players of the same name: both are decided
  in those screens. The model has one party and a name per player.
* Labels, layout, colours, the blurred popups, the coordinates of flags.
* Transactions, `onDisconnect`, priorities, queries and disk persistence of the
  database: not used by the repository.
* The text of names, except that `TeamTables` tells numbers from words.
* Whether UIKit shows a segue that is performed while the lobby itself is still
  being presented: it is taken to.
* Vendored pods and the test bundles' property lists.
* The scripts in `Assets.xcassets/pin.imageset`: a page of the Firebase web console
  (analytics, tag manager, feedback prompt) saved with its minified third-party
  scripts. The app neither loads nor refers to them.

## 7. Plan

Done: the modules of section 2, their runs and mutants, and the theorems of
section 5, which cover every safety invariant, every action property and the
refinement.

Next:

1. The safety part of what the liveness properties promise: in a state in which
   nothing is enabled any more but the acts of people, the tables are those of
   the registered teams and nobody waits for a start that has been committed. TLC checks
   that such a state is reached, a theorem could say what it is like.
2. The weaker truths behind the findings: what START's counts do say when they differ
   from the teams, and which names the winners' list can miss.
3. A bound on a phone's queue in terms of its taps, which the runs rely on.
