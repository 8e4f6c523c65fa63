------------------------------- MODULE Lobby -------------------------------
(***************************************************************************)
(* What the lobbies of the host and of the other players have in common:   *)
(* the state of the view controller, the listener of the teams, the        *)
(* listener of the game state, the team selector and the segue into the    *)
(* game.  HostLobbyViewController.swift and RegularLobbyViewController.    *)
(* swift each have a copy of this code; the modules HostLobby and          *)
(* RegularLobby give each its own handlers.                                *)
(*                                                                         *)
(* Every handler runs on the phone's main thread, so a handler is a step.  *)
(* A listener is called when what the phone sees differs from what the     *)
(* listener was last told.                                                 *)
(***************************************************************************)
EXTENDS PartyDB

CONSTANTS HostTaps, RegularTaps   \* bound: how often a player opens the lobby or taps in it

ASSUME TapsAssumption == HostTaps \in Nat /\ RegularTaps \in Nat

VARIABLES
    screen,      \* screen[c]: the view controller that c is looking at
    selector,    \* selector[c]: the segment selected in teamSelector
    attackers,   \* attackers[c], defenders[c]: the players in the two tables
    defenders,
    told,        \* told[c]: the status the game state listener was last called with
    received,    \* received[c]: receivedAttackersList and receivedDefendersList
    taps         \* taps[c]: how often c has opened the lobby or tapped in it (for the bound)

lobbyVars == <<screen, selector, attackers, defenders, told, received, taps>>

\* "Attacker" and "Defender" are the two game screens, "leaving" a game over
\* screen that is gone and waits for the snapshot of the parties.
Screen == {"menu", "lobby", "gameOver", "leaving", "left", "closed", "crashed"} \cup Team
Alive == Screen \ {"menu", "closed", "crashed"}

NoLists == [Attacker |-> {}, Defender |-> {}]

LobbyInit ==
    /\ screen = [c \in Player |-> "menu"]
    /\ selector = [c \in Player |-> "Attacker"]
    /\ attackers = [c \in Player |-> {}]
    /\ defenders = [c \in Player |-> {}]
    /\ told = [c \in Player |-> "untold"]
    /\ received = [c \in Player |-> NoLists]
    /\ taps = [c \in Player |-> 0]

\* The player acts, as often as the bound allows.
Tap(c) ==
    /\ taps[c] < (IF c = Host THEN HostTaps ELSE RegularTaps)
    /\ taps' = [taps EXCEPT ![c] = @ + 1]

\* The app of c ends, killed by the player or by a cast that fails.
Die(c, how) ==
    /\ Disconnect(c)
    /\ screen' = [screen EXCEPT ![c] = how]
    /\ selector' = [selector EXCEPT ![c] = "Attacker"]
    /\ attackers' = [attackers EXCEPT ![c] = {}]
    /\ defenders' = [defenders EXCEPT ![c] = {}]
    /\ told' = [told EXCEPT ![c] = "untold"]
    /\ received' = [received EXCEPT ![c] = NoLists]
    /\ UNCHANGED taps

\* viewDidLoad and viewWillAppear of a lobby: the writes, then the observers.
Open(c, writes) ==
    /\ Tap(c)
    /\ screen' = [screen EXCEPT ![c] = "lobby"]
    /\ Put(c, writes)
    /\ Observe(c, {"Teams", "gameState"})
    /\ UNCHANGED <<db, cache, synced, selector, attackers, defenders, told, received>>

\* The names that the snapshot of Teams has on team t.
OnTeam(c, t) == {p \in Player : View(c, TeamOf(p)) = t}

TeamsSnapshot(c) == "Teams" \in listening[c] /\ c \in synced
NobodyOnTeams(c) == \A p \in Player : View(c, TeamOf(p)) = Null

\* Mutant: the tables are not emptied before they are filled.
ReceiveTeamsKeepingRows(c) ==
    /\ TeamsSnapshot(c)
    /\ ~NobodyOnTeams(c)
    /\ <<attackers[c], defenders[c]>> # <<OnTeam(c, "Attacker"), OnTeam(c, "Defender")>>
    /\ attackers' = [attackers EXCEPT ![c] = @ \cup OnTeam(c, "Attacker")]
    /\ defenders' = [defenders EXCEPT ![c] = @ \cup OnTeam(c, "Defender")]
    /\ UNCHANGED <<dbVars, screen, selector, told, received, taps>>

\* The teams listener: both tables are emptied and filled from the snapshot.
ReceiveTeams(c) ==
    /\ TeamsSnapshot(c)
    /\ ~NobodyOnTeams(c)
    /\ <<attackers[c], defenders[c]>> # <<OnTeam(c, "Attacker"), OnTeam(c, "Defender")>>
    /\ attackers' = [attackers EXCEPT ![c] = OnTeam(c, "Attacker")]
    /\ defenders' = [defenders EXCEPT ![c] = OnTeam(c, "Defender")]
    /\ UNCHANGED <<dbVars, screen, selector, told, received, taps>>

\* A snapshot without a child is NSNull: `as! NSDictionary' stops the app.
TeamsCastFails(c) ==
    /\ TeamsSnapshot(c)
    /\ NobodyOnTeams(c)
    /\ Die(c, "crashed")

\* Mutant: the listener is called again with a status it has been told.
StatusChangesEveryTime(c, status) ==
    "gameState" \in listening[c] /\ Known(c, GameState) /\ View(c, GameState) = status

\* Mutant: observeSingleEvent instead of observe.
StatusChangesOnce(c, status) ==
    StatusChangesEveryTime(c, status) /\ told[c] = "untold"

\* The game state listener is called with a status it has not been told.
StatusChanges(c, status) ==
    /\ "gameState" \in listening[c]
    /\ Known(c, GameState)
    /\ View(c, GameState) = status
    /\ told[c] # status

\* performSegue and prepare(for:): the selector decides the screen, and the
\* tables are copied as they are.
Segue(c) ==
    /\ screen' = [screen EXCEPT ![c] = selector[c]]
    /\ received' = [received EXCEPT ![c] = [Attacker |-> attackers[c], Defender |-> defenders[c]]]

\* Mutant: the cast lets a missing status through.
StatusCastPasses(c) ==
    /\ StatusChanges(c, Null)
    /\ told' = [told EXCEPT ![c] = Null]
    /\ UNCHANGED <<dbVars, screen, selector, attackers, defenders, received, taps>>

\* `as! String' on the snapshot of a game state that is gone stops the app.
StatusCastFails(c) ==
    /\ StatusChanges(c, Null)
    /\ Die(c, "crashed")

\* Mutant: the selection is not written to Teams.
ValueChangedHashOnly(c, t) ==
    /\ screen[c] = "lobby"
    /\ selector[c] # t
    /\ Tap(c)
    /\ selector' = [selector EXCEPT ![c] = t]
    /\ Put(c, << <<HashTeamOf(c), t>> >>)
    /\ UNCHANGED <<db, cache, synced, listening, screen, attackers, defenders, told, received>>

\* Mutant: selecting Attacker is not written to the second place.
ValueChangedNoAttackerCopy(c, t) ==
    /\ screen[c] = "lobby"
    /\ selector[c] # t
    /\ Tap(c)
    /\ selector' = [selector EXCEPT ![c] = t]
    /\ Put(c, << <<TeamOf(c), t>> >>
                 \o (IF t = "Attacker" THEN <<>> ELSE << <<HashTeamOf(c), t>> >>))
    /\ UNCHANGED <<db, cache, synced, listening, screen, attackers, defenders, told, received>>

\* The other segment of teamSelector is tapped.  The storyboard wires the
\* handler twice; the second call repeats the two writes with no effect.
ValueChanged(c, t) ==
    /\ screen[c] = "lobby"
    /\ selector[c] # t
    /\ Tap(c)
    /\ selector' = [selector EXCEPT ![c] = t]
    /\ Put(c, << <<TeamOf(c), t>>, <<HashTeamOf(c), t>> >>)
    /\ UNCHANGED <<db, cache, synced, listening, screen, attackers, defenders, told, received>>

\* viewDidDisappear: the segue has been shown, observers of Teams are removed.
\* What the server would still say of a node no one watches is not kept.
StopListening(c, nodes) ==
    /\ screen[c] \in Alive \ {"lobby"}
    /\ "Teams" \in listening[c]
    /\ listening' = [listening EXCEPT ![c] = nodes]
    /\ cache' = [cache EXCEPT ![c] = [l \in Watched |-> IF Node(l) \in nodes THEN @[l] ELSE Null]]
    /\ attackers' = [attackers EXCEPT ![c] = {}]
    /\ defenders' = [defenders EXCEPT ![c] = {}]
    /\ UNCHANGED <<db, synced, outbox, screen, selector, told, received, taps>>

LobbyTypeOK ==
    /\ screen \in [Player -> Screen]
    /\ selector \in [Player -> Team]
    /\ attackers \in [Player -> SUBSET Player]
    /\ defenders \in [Player -> SUBSET Player]
    /\ told \in [Player -> Stage \cup {"untold"}]
    /\ received \in [Player -> [Team -> SUBSET Player]]
    /\ taps \in [Player -> Nat]

=============================================================================
