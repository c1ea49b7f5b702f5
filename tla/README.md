# Kung-Fo Chess: a verification project

Kung-Fo Chess is chess in real time: there are no turns, a move takes time to
travel, a piece that has acted must rest before it acts again, and two players
on one asyncio server command their pieces whenever they like. This directory
holds TLA+ models of that server and of the game it runs, the TLC
configurations that check them on small instances, and TLAPS proofs of what the
models promise for every instance. `PROJECT.json` is the index: runs, mutants,
the map from definitions to source lines, hazards, findings and theorems.

Run a model with `tlc -config <cfg> <module>`, check proofs with
`tlapm <module>.tla`. Both need the community modules on their path.

## 1. The system

Paths are under `src/kungfu_chess/`.

| component | state | operations | who calls it | module |
|---|---|---|---|---|
| Movement rules: `rules/`, `model/board.py` | none (a board is an argument) | `legal_destinations` of six kinds, `validate_move` | the engine, per command | `PieceRules` |
| Game engine: `engine/game_engine.py` | `_game_over`, `_winner_color`, the board | `request_move`, `request_jump`, `force_game_over`, `wait`, `snapshot` | sessions and tick loops | `GameEngine` |
| Real-time arbiter: `realtime/` | `_active_motions` (a list, in start order), `_active_rests`, `_airborne_pos` | `start_motion`, `start_jump`, `advance_time` | the engine | `GameEngine` |
| Tick loop: `server/session/tick_loop.py` | its task, `last_broadcast` | `start`, `stop`, one tick per interval | room manager | `GameEngine`, `SnapshotStream` |
| Rooms and sessions: `server/session/room_manager.py`, `game_session.py` | `_rooms`, `_tick_loops`; per session `_players`, `_conn_to_username`, `_spectators` | create, join, rejoin, watch, cancel; `resign`, `tick`, `handle_command` | gateway, matchmaking | `RoomLifecycle` |
| Disconnects: `disconnect_coordinator.py`, `disconnect_monitor.py` | `_monitors` (timers by room and name) | `on_disconnect`, `_auto_resign` | gateway, timers | `RoomLifecycle` |
| Connections: `server/network/connection_registry.py` | `_conns`, `_conn_to_room`, identities | `register`, `forget`, `assign_room`, `remove_room_entries` | everything on the server | `ConnectionRegistry` |
| The same in Redis: `redis_connection_registry.py`, `allocator/` | keys and sets, the room directory | the same, as several calls each; allocation of rooms | the gateway of the two-process deployment | `RedisRegistry` |
| Gateway: `server/network/ws_gateway.py` | none of its own | one handler per connection: dispatch, then `on_disconnect`, then `forget` | clients | each module has its part |
| Matchmaking: `server/matchmaking/` | the queue, the loop's task | enqueue, cancel, `find_match`, `sweep_timeouts`, hand-over | gateway, its loop | `Matchmaking` |
| Accounts and ELO: `server/auth/` | users in PostgreSQL, a Redis cache | register, login, `apply_elo_update` | API and gateway, auto-resign | `Accounts` |
| Pregame: `client/pregame.py` | local | login, search, create, join | the user | `Pregame` |
| Game window: `app.py`, `client/`, `input/`, `ui/` | last snapshot, countdown, refusal, selection, command queue | `feed`, a frame, a click | the user, the network task | `GameWindow`, `SnapshotStream` |

How they interact. Everything on the server runs in one asyncio loop, so the
atomic step is the stretch between two awaits, and the interesting state is
what a task read before an await and uses after it. A connection's handler
serves its commands one at a time; tick loops, timers, resignations, the
matchmaking loop and other connections run in between. The game itself is
sequential: `wait` and the commands never await inside. Database and cache work
goes through `asyncio.to_thread`, and its awaits are where logins, registrations
and ratings interleave. `server/main.py` serves everything in one process with
the registry in memory; `main_ws.py` and `main_api.py` are two processes that
share Redis.

Which behaviours are hard, and what makes each component correct:

* *Engine.* One `wait` computes a list of events (collisions, air captures,
  arrivals, landings, rest ends) from a state that applying the earlier events
  changes. Captured pieces keep their motion in the arbiter. Correct means: the
  board's keys and the pieces' own cells agree, nobody acts during a cooldown,
  every shown state has something in the arbiter that will end it, the
  airborne marker is not left behind, captured is for good, over is for good.
* *Rooms.* Sessions are indexed twice (by player and by connection), players
  come back from other connections while the old ones are still served, room
  ids are reused, timers outlive what they were armed for. Correct means: the
  two indexes agree, slots and colours are kept, no connection sits in a room
  that is gone, a live room ticks, an armed timer settles the game.
* *Matchmaking.* A match is handed over across awaits; players leave, cancel
  and search again meanwhile; a tear-down may fail before it reaches the queue.
  Correct means: every entry is a live connection's, or one whose tear-down
  failed, nobody is matched with itself, a search gets one answer and does not
  last for ever while the loop lives, and a player who is told of a match has an
  opponent who is told too, unless that one has closed its connection.
* *Accounts.* A look-up, a hash and an insert; a read, a computation and two
  writes; a cache that is written by logins and dropped by ratings. Correct
  means: a name has one owner, a stale cache entry does not outlive its time.
* *Redis.* What is one statement in memory is several calls there, any of which
  can raise. Correct means: without faults the two cannot be told apart; with
  them, no broadcast reaches a stranger and a live room can be found.
* *Handshake.* Two senders of the server and a room share one connection
  without request ids, and the client guesses what answers what. Correct means:
  a client that enters a game knows its room, role and colour, and every wait
  is answered, a search for as long as the matchmaking loop lives.
* *Snapshots.* Replies to commands, ticks, joins and a resignation send the
  same game along different awaits. Correct means: once the room is quiet a
  client shows the board, and once it is gone a client knows the game is over,
  if no board held since before the resignation comes in last.
* *Window.* Frames, network and mouse share one thread and meet only at
  awaits. Correct means: what was received is shown, what was clicked is sent.

`PROJECT.json` lists every hazard with its line, the properties that watch it,
and where no property can, why.

## 2. The modules

| module | models | kind |
|---|---|---|
| `PieceRules` | `rules/piece_rules.py`, `rules/rule_engine.py` | operators on a board |
| `BoardRules` | the boards of `model/board.py`, and what the rules should answer on them | specification and reference definitions |
| `Cooldown` | what the real-time core promises a player | abstract specification |
| `GameEngine` | `engine/`, `realtime/`, `model/board.py`, the tick | specification; implements `Cooldown` |
| `RoomLifecycle` | rooms, sessions, connections, disconnections | specification |
| `Matchmaking` | the queue, the loop, the hand-over into rooms | specification |
| `Accounts` | registration, login, rating, the cache | specification |
| `ConnectionRegistry` | the registry in memory | abstract specification |
| `RedisRegistry` | the registry and the directory in Redis | specification; implements `ConnectionRegistry` while nothing fails |
| `Pregame` | a client before its game, and the server's side of its connection | specification (composition) |
| `SnapshotStream` | who sends which board when, and what a client shows | specification (composition) |
| `GameWindow` | receiver, render loop, mouse | specification |
| `MC*` | small instances of the specifications | models for TLC |
| `GameEngineProofs` (with the rules), `RoomLifecycleProofs`, `MatchmakingProofs`, `AccountsProofs`, `RedisRegistryProofs`, `PregameProofs`, `SnapshotStreamProofs`, `GameWindowProofs` | | proofs |

### PieceRules and BoardRules

`LegalDestinations(kind, color, startRow, cell, occupied)` is the table of
`RuleEngine` with the loops of the movement classes as recursive functions and
set comprehensions. Only whether a cell is occupied matters to the shapes; the
colour test of `validate_move` is in `GameEngine`. `BoardRules` places and lifts
pieces and says of each board what the destinations should be, by lines and
distances instead of loops.

### GameEngine

| TLA+ | code |
|---|---|
| `grid`, `cell` | `Board._grid` and each `piece.cell`, kept apart because the code does |
| `motion`, `ahead` | the `Motion` of a piece, and its place in the list `_active_motions` |
| `rest`, `airborne` | `_active_rests`, `_airborne_pos` |
| `RequestMove`, `RequestJump`, `ForceGameOver` | the commands, with their early returns as guards |
| `AdvanceTime` | `advance_time`: time passes, collisions, air captures, arrivals and rests are decided, eliminations without a slayer are applied |
| `ApplyArrival` | the body of `wait` for one arrived motion, in event order |
| `ApplyMoveRaises` | the `KeyError` of `Board.move_piece` from an empty square: the tick loop's task ends |
| `loop` | whether that task is alive |

A tick is one call; it is split into the steps above so that each event of the
list is an action, and commands require that none is pending, because `wait`
does not await. Each motion carries its *fate*, what the tick decided about it,
until the event is applied.

A piece's `motion` is a field of the piece here and an entry of a list in the
code: `request_move` refuses a piece that has a motion, so there is at most one.
The order of the list, which decides who wins a collision and who is captured
first, is `ahead`.

### RoomLifecycle

| TLA+ | code |
|---|---|
| `step`, `subject` | where a connection's handler is suspended, and the locals it will use |
| `roomOf` | `ConnectionRegistry._conn_to_room` |
| `session`, `created`, `loops` | `RoomManager._rooms`, the session objects that exist, and those whose `TickLoop` runs |
| `players`, `pointer`, `spectators` | the three dicts and sets of a `GameSession` |
| `ending`, `winner` | the engine's game-over flag with its cause, and its winner |
| `monitors`, `resigning` | the timers that sleep, and the `_auto_resign` calls under way |
| `Rejoin`, `Enrol`, `Watch` | the three ways through `handle_join_room` |
| `Leave`, `Left` | `on_disconnect` before and after it tells the opponent |
| `Resume` | `handle_join_room` after it told the opponent of a return; it may raise |
| `Fire`, `Close`, `RatingFails` | a timer's end: the resignation, its tear-down, and a database error that skips the tear-down |
| `KingFalls` | a tick that ends the game by a capture |

A session is an object and outlives its room: handlers and resignations that
hold it go on with it. A connection id is `id(ws)`, so a later connection may
get an id that a session still knows. Awaits after which a handler touches none
of this state, or before which it has read none, are left out: they order
messages, not states. `create_room` with a blank id draws an unused one, a
special case of choosing any.

### Matchmaking

| TLA+ | code |
|---|---|
| `queue` | `Matchmaker._queue`, with the intervals each entry has waited for its `joined_at_ms` |
| `Wake` | one iteration of `MatchmakingLoop._run` up to its first await: a match leaves the queue and gets its room, or the timed-out entries are swept |
| `pair`, `todo`, `Announce`, `Continue` | `_on_match`: each player joins, is told, and only then the next one |
| `late`, `Notify` | `_on_timeout` for one swept entry after another |
| `RedisFails` | an exception of the allocator or the registry, which ends the task |
| `Close`, `Forget` | `_on_disconnect` with `cancel_by_identity`, and the end of the handler |
| `CloseFails` | a Redis call of the tear-down raises: `forget` is skipped, and `cancel` too if it was the first call; the connection is `stranded` |

The list comprehensions and filters of the matchmaker keep some positions of a
list in their order: `Keep(entries, positions)`. An entry younger than the clock
of the iteration has a negative age, as in the code: hence `Whole`. The joins here are the part of `RoomLifecycle`'s joins that
a new room allows.

### Accounts

One step per `to_thread` call. `call` and `rating` hold the locals of handlers
and ratings; `greeted` remembers who was told `MSG_REGISTERED`. The cache hides
its failures, so `CacheGet` may always miss and `CacheSet`, `CacheInvalidate`
may do nothing. An `IntegrityError` of the insert is caught by nobody: the
handler ends. A password is the connection that chose it.

### ConnectionRegistry and RedisRegistry

`ConnectionRegistry` has the three dicts of the class and its operations, each
one step. `RedisRegistry` has the keys `conn:*:identity`, `conn:*:room`,
`room:*:conns` and `room_dir:*`, the local table of websockets, and one
operation under way (`op`) whose calls are the steps: the client is synchronous
and blocks the gateway's only thread. `CallFails`, `DisconnectFails`, `Crash`
and `Wipe` are the faults.

### Pregame

The client's flows (`login_or_register`, `find_match_flow`, `room_flow`,
`run_pregame`) with what each skips, accepts or gives up, against two senders on
its connection: the handler (`Serve`, `SendAnswer`) and the matchmaking loop
(`MatchEnds`, `SendMatch`), with the announcements of the room it is in
(`RoomSends`) in between. The server's side is the part of `RoomLifecycle` and
`Matchmaking` that one client can tell: the room, the seat, the queue.

### SnapshotStream

The tick loop, two handlers, a join and a resignation, each of which takes its
snapshot before an await and sends it after. A snapshot holds each player's
piece (state, and its progress while it moves), the moves and captures of
`GameStatsTracker`, and whether the game is over; equality of two snapshots is
what decides a broadcast, so what a snapshot leaves out matters. The
sends of one broadcast are one step: only `Me` is followed.

### GameWindow

`frame` is where `run_render_loop` stands: drawing (with `pop_error` and the
countdown), draining the command queue, in `waitKey` (where the mouse callbacks
run), asleep. The network task runs only where the loop awaits. `Banner` is the
one text that `HudLayer.draw` puts over the board.

### Faults

Each specification also defines, next to an operator of the code, what a
plausible bug would make of it (`KeepEntries` beside `DropEntries`). Nothing
uses these definitions; `PROJECT.json` lists under `mutants` which property of
which run each of them breaks when it takes the operator's place.

## 3. The runs

| run | question | bounds |
|---|---|---|
| `rules` | do the rules agree with reference definitions on every small board? | all boards of 3 by 5 cells built by placing and lifting up to three pieces |
| `engine_line` | the engine's safety and its refinement of `Cooldown` | three pieces on four cells of one rank; commands, resignations and ticks in any order |
| `engine_live` | does every motion and every rest end? | a rook and a pawn that can promote on a 2 by 5 board, fair ticks |
| `rooms` | types, colours, room entries and clocks across sessions of one id | one connection, three users, two sessions |
| `rooms_live` | who speaks for whom; slots; do armed timers settle? | two connections, two users, one session, fairness |
| `matchmaking` | whose are the entries, no room with oneself, one answer to a search, no search without end but under a dead loop | three users on four connections, one of which may cancel, and one whose tear-down may fail |
| `accounts` | one owner to a name; does a stale cache entry go away? | two connections, two users, one game between them |
| `registry` | what do keys, sets, directory and gateway agree on, with and without faults? | three connections, one user, two rooms, two faults |
| `pregame` | what does a client believe when its game begins; is it answered, whether the loop dies or not? | two rooms, three flows, one unread announcement |
| `stream` | what does a client show when the room is quiet, and when it is gone? | two pieces, two commands, two messages on their way |
| `window` | what does each frame show, and what becomes of each command? | two cells, three boards, three messages, two mouse events |
| `tick_loop_dies` | does the tick loop survive what a game can do? | as `engine_live`; it is violated |

Why the bounds are enough.

*Rules.* Three by five is the smallest board that is not square in which a
slider has a cell, a blocker and a cell behind it on every kind of line, and a
pawn its double step. Three pieces give a mover, a blocker and a bystander.

*Engine.* On one rank every pair of the three pieces can meet head-on, follow,
collide late and capture each other under way, and two pieces of one side cover
what depends on colour. Durations keep the order of the shipped ones (500 for a
square, 625 and 833 for the rests, 1000 for a jump, 50 for a tick), scaled so
that a square is two ticks (one in the Duel) and rests end between ticks. The
Duel has a pawn one step from promotion, so that a piece changes its kind
between two of its moves, and a board long enough for a captured piece's motion
to outlast the rest of its captor, which is what it takes for the tick loop to
die. There are no counters to bound: time is kept as remaining time.

*Rooms.* `Session` bounds the sessions ever created. With one connection and
three users every order of joins, leaves, tear-downs and re-creations of an id
happens, and a third name finds the room full; the hazards of this run are in
timers and resignations that outlive a session, which need a second one. Users,
connections and sessions are interchangeable, so symmetry is sound (no liveness
in that run), and the view drops the contents of sessions that no room, handler
or resignation can reach: no action reads them but `KingFalls`, which writes
only them, and no property of that run tells them apart beyond what their last
reachable state already showed. `rooms_live` has neither symmetry nor view: two
connections are what it takes for a player to be rebound while its old
connection is still served. At most one resignation per room and name is under
way at a time; a second timer for the same key waits. `JoinNames` leaves the
empty name out: the code seats a nameless joiner, where `protocol.py` line 82
calls it "spectator-only", and what is meant is open. The theorems that do not
need this say nothing of `JoinNames`, so they hold with the empty name too.

*Matchmaking.* Two connections of one user, one user within range of her and
one on the other side, out of range of the first: a second search replaces the
first one, a match can be made in two ways, and somebody is left over and times
out. A connection id is used once and a name is logged in once on each
connection; a client searches again only after its answer (`pregame.py`), and
`Cancels` says which users may cancel, and `Ghosts` whose tear-down may fail
(one of the two connections of one user, so that its entry can be replaced,
cancelled and matched from the other); `MaxLag = 0` keeps the loop on time, and
ages still differ by the moment of arrival.

*Accounts.* One game and two connections are two writers and a reader of one
cache entry and two registrations of one name. Each game is rated once. With
two games of one user the code loses a result (section 5), which says nothing
of the cache, so the run leaves them out; the theorems do not.

*Registry.* Three connections are an audience of two and a stranger, two rooms
a move from one to the other; two faults are a half-done operation that meets a
second one. The API process is not modelled, and no operation is stalled
across a restart of Redis: an operation under way fails first.

*Pregame.* Three flows are a login and two attempts, the second of which finds
what the first left behind. One unread announcement is enough to come before
any answer. The connection stays open and the name is logged in here only; the
run ends when the client enters its game, quits or crashes.

*Stream.* Two commands overtake each other, and a tick overtakes both. `Me`
stays until the room closes. `Patience` is an assumption: a command's broadcast
is out before the motion it started is over (two lines of a log file against a
second), or a client could be left showing a motion that has ended; and no
later than a rest takes. The proof asked for the second half: with a rest
shorter than that, the answer to a command whose piece is captured meanwhile can
follow the last tick of its captor's rest, and TLC shows it with
`MoveTicks = JumpTicks = 3`, `Patience = 2`, `RestTicks = 1`. The shipped rests
are seconds.

*Window.* Durations of two frames, so that each can begin, go on and end
between two others. One unread message suffices, since the task drains the
line before the next frame or not, as it likes. The server is external: boards
come in any order, also one of a game that goes on after a final one, or with
another winner, as `stream` and `rooms` say they can; a player hears that its
opponent is back only after it left, a spectator hears of two players.

### Fairness

`GameEngine!FairSpec` is weak fairness of the tick: the tick task sleeps and
asyncio wakes it; no command can disable a tick. Commands are never fair.
`RoomLifecycle!FairSpec` is weak fairness of suspended handlers (their send is
done, or fails: both end the await), and of a timer with the resignation it
starts (the sleep ends, and so does the database call, well or badly; the model
does not say which). `Matchmaking!FairSpec` is weak fairness of the loop: its
sleep and its sends end; that Redis fails is a way to go on. `Accounts!FairSpec`
is weak fairness of each handler, whose call returns or raises, and of the
expiry of each cache entry: the entries are set with a time to live. A set
renews that time, so an entry that logins set again and again need not expire,
which is less than the fairness assumes. It makes no difference to
`CacheConverges`: a login sets what it read from the table, so that after the
last rating only the logins that had read before it can set a stale value.
`Pregame!FairSpec` is weak fairness of reading what has come, of the handler
and of the matchmaking loop while it lives, whose own progress is `SearchEnds`;
the loop may die at any time (`LoopDies`), and then a search is not answered.
`GameWindow!Fairness` is weak fairness of the two tasks of the client. Nobody is
ever forced to connect, log in, search, join, play, leave or press a key.

### The refinements

`engine_line` checks that `GameEngine` implements `Cooldown`: an action of a
piece is a `Begin`, and ticks are `Lapse`s, so that nobody acts before its rest
is over whatever the arbiter does inside. `registry` checks that, until the
first fault, the calls of a Redis operation add up to one step of
`ConnectionRegistry`: a connection being forgotten still counts as registered
until its last key is gone, and a room is torn down for everybody whose key
names it though only its set is read. After a fault `MembersPointBack` and
`CheckedIsListed` still hold.

### What the violated run shows

`tick_loop_dies`: a captured piece's motion can arrive from a square that is
empty by then; the `KeyError` ends the room's tick loop for good, against the
lines quoted under `findings`.

## 4. The proofs

Every invariant and every action property that a passing run checks is also a
theorem, for all values of the constants that the named assumptions allow; only
liveness is left to TLC. What the theorems do not cover is what the models leave
out (section 6).

For every board size, every set of pieces, starting position and positive
durations (`PieceAssumption`, `TimeAssumption`, `BoardAssumption`):

| theorem of `GameEngineProofs` | states |
|---|---|
| `TypeCorrect` | `TypeOK` |
| `GridCellAgreement` | the piece found at a key has that key as its cell |
| `NoActionDuringRest` | while the loop lives, nothing under way has a rest running |
| `StatesMatchArbiter` | the state shown for a piece is the arbiter's |
| `MarkerCorrect` | the airborne marker always has a jump that will clear it |
| `JumperGuardsItsCell` | `AirborneGuarded`: no enemy passes a jumper that stays in the air, but behind one shot in the same tick |
| `SquareIsSettled` | `ArrivalSettlesSquare`: an arrival leaves no enemy on its way to its square |
| `CapturedForGood`, `GameOverFinal` | `NoReturn`, `GameOverIsFinal` |
| `CrossingsHaveOneOutcome` | whatever crosses in one tick, exactly one set of motions is eliminated by it |
| `Refinement` | `GameEngine` implements `Cooldown` |
| `OpenLines`, `PawnsTakeDiagonally` | the reference definitions of `BoardRules`, on boards of any size with any number of pieces |
| `NobodyIsJumpedOver` | what follows for a game: no accepted move of a slider or a pawn passes over a piece |

The inductive invariant is `IInv == TypeOK /\ MotionShape /\ GridCellAgree /\
RestLedger /\ StateLedger`. The checked invariants alone are not inductive: in
the middle of a tick, an event to come refers to pieces that earlier events may
have captured or relabelled. `MotionShape` says what a motion of each fate
looks like, `RestLedger` when a rest may be running beside a motion, and
`StateLedger` what a piece's state is while its event is pending. Each action
has a lemma with one step per conjunct. `MarkerCorrect` adds its own conjunct:
the marked cell's jump goes on or is decided in the same step that clears the
marker. `Refinement` maps the initial state and shows that commands are `Begin`
and that every step of a tick is a `Lapse`.

The last theorems need more. `ListOrder` says that `ahead` is a strict linear
order of the motions under way, as the list it stands for. The model describes
the eliminations of a tick by an equation (`LosersOfCrossings`: whoever meets an
earlier motion that is not eliminated itself), the code by a double loop;
`CrossingsHaveOneOutcome` says the equation has exactly one solution. It would be
an induction along the list; the library's induction theorems cannot be used, so
the proof takes a motion that comes first among those where two solutions differ
(a minimal element of a well-founded order on finite sets, `OldestExists`), and
a largest part of the list that has a solution. `ArrivalsSettled` strengthens
`ArrivalSettlesSquare` to every state within a tick.

The rules are in reach in spite of their recursion, which is along one ray and
bounded by the board. `Ray` is a recursive function, that is, some solution of an
equation. `RayIsWalked` shows that the set of cells seen up to the first blocker
solves it and that two solutions differ nowhere, by the last cell at which they
would: a ray leaves the board before the end of the range (`RayLeaves`), so that
cell has a successor. The rest is geometry: what `Between` says by distances
and slopes is, on a ray, a smaller number of steps (`BetweenOnRay`), a board is
convex, and a cell is aligned exactly when one of the eight directions leads to
it.

For every set of connections, users, rooms and sessions (`NameAssumption`):

| theorem of `RoomLifecycleProofs` | states |
|---|---|
| `TypesHold` | `TypeOK` |
| `VoicesBound` | the two indexes of a session agree |
| `EntriesLive`, `ClocksTick` | room entries and clocks follow the rooms |
| `ColorsApart`, `SlotsStay` | colours and slots, if nobody joins without a name |

Here `IInv` adds four facts. `PlaceholdersSelfBound`: a record filed under a
connection id names that connection; without it a nameless player's record
could be overwritten under somebody else. `LeaversNamed`: a handler that is
about to arm a timer holds a room and a player. `SessionsApart`: no session is
in two rooms; without it a tear-down could stop another room's clock.
`NamedSeats`: a session is empty, has a white player, or a white and a black
one; "at most two, of different colours" alone does not say that the first one
is white. Only joins touch players, so every other action keeps those
conjuncts by one lemma.

For all users, connections and ratings, and however late the loop wakes
(`ConstantAssumption`):

| theorem of `MatchmakingProofs` | states |
|---|---|
| `QueueIsOfTheConnected` | `EntryBacked`: an entry's connection is open, or its tear-down failed, it is logged in as the entry's user, and the user has no other entry |
| `RoomIsForTwo` | `RoomOfTwo` |
| `OneAnswer` | `OneAnswerPerSearch` |
| `NobodyWaitsAlone` | `MatchIsMutual`: who is told of a match has an opponent who is told too, or has closed its connection, or is being told, unless the loop died |

The inductive invariant speaks of what the loop holds in its locals across its
awaits: `Match` says how far the hand-over is, as seen from the last room's
players; `Halls` that what was told of a room is true of it; `Mutual` that only
the room being handed over may lack an announcement; `Entries` that whoever is
in the loop's lists, and does not cancel, still waits for the answer the loop is
about to give. Everything the matchmaker does to a list is `Keep`, and
`KeepFacts` says what that returns: the entry at a position kept is found at
the rank of the position among those kept. Ranks are cardinalities, so the
library's theorems about finite sets give their order, and again minimal
elements take the place of induction.

For all rooms, any number of flows and of unread messages (`PregameAssumption`):

| theorem of `PregameProofs` | states |
|---|---|
| `ClientKnowsItsSeat` | `SeatKnown`: a client that enters a game is where the server seated it |
| `HandshakeIsOver` | `NothingLeftOver`: and has left no answer, search or command behind |

The invariant `Flow` has one part for each wait of the client, which says which
answers are still to come and what the room looks like if they do. What is to
come is spread over the client's inbox and the two senders, with announcements
of the room in between at any place: `Carries(q, l)` says that the answers in `q`
are `l` in this order. Its lemmas (an answer read, an answer said, news anywhere)
are all that the steps need. Both properties speak of a client that has not
given up a search: section 5 has what happens to one that has.

For all durations that keep `Patience` below a motion and not above a rest, any
number of commands and any length of the line (`StreamAssumption`):

| theorem of `SnapshotStreamProofs` | states |
|---|---|
| `QuietViews` | `QuietViewsCurrent`: in a quiet room a client shows the board |
| `EndIsSeen` | `EndSeen`: once the room is gone a client shows a game that is over, or else a board held by a sender from before the resignation until after its last word |

`Caught` is the heart: when nothing on the board is left to do, the newest board
on its way to a client (`NewestIn`: the last on the line, or the one shown) is the
board, unless a newer one is sure to be sent. `Hurried` says that an answer on
its way implies that there is something left to do, which is where `Patience`
is needed, and `Followed` that the tick loop's last picture differs from the
board only by what commands and a resignation did since, so that its next tick
sees the difference. `EndIsSeen` rests on `OlderKnown` (after a resignation every
board a sender holds is of a game that is over, or was held as it began) and
`LastWordHeard` (what comes after the last word is such a board).

For every set of connections, users and rooms and any number of faults
(`RegistryAssumption`):

| theorem of `RedisRegistryProofs` | states |
|---|---|
| `TypesHold` | `TypeOK` |
| `SetsPointBack` | a room's set holds only connections whose key names the room, through every fault |
| `DirectoryRepaired` | a live room that a join has looked for stays listed |
| `AudiencesAgree` | until the first fault, keys, sets, directory and rooms agree between operations |
| `Refinement` | until the first fault, the registry in Redis implements the one in memory |

The checked invariants speak of the moments between operations; the inductive
one says how far a half-done operation has come. `OpShape`: the locals of the
operation are of its kind. `OutFirst`: a connection that is about to lose its
key, or to get another one, is already out of the old set; this order, and
nothing else, is what makes `MembersPointBack` survive a crash between any two
calls. `ListedFirst`: a room is entered in the directory before it lives, and
dies before it is taken out. `Agreement`: without faults, keys, sets and
directory differ from each other exactly by what the operation has left to do.
The refinement follows from these: each operation has one call that is the
abstract step, and the others stutter.

For all connections, names, games, and every formula of points that yields
integers (`GameAssumption`, and `GainTyped` as a hypothesis):

| theorem of `AccountsProofs` | states |
|---|---|
| `TypesHold` | `TypeOK` |
| `NameKept` | however many register one name at once, one is told so and keeps it |

`Kept` strengthens `OneAccount` by the existence of the row, which a rating must
not undo; `RatingShape` says that what is written was read from two rows that
exist.

For every set of boards, durations and bounds (`WindowAssumption`):

| theorem of `GameWindowProofs` | states |
|---|---|
| `FramesFollow` | `CountdownFollows` |
| `RefusalsShown` | `RefusalIsShown` |

Both are action properties and rest on the types of what is on the line and on
`CountPaired`: the window's own countdown runs exactly when the receiver's did
at the last look. Without it a frame could go on counting what the receiver has
dropped, and cover a refusal with it.

Only checked, not proved: liveness (`EveryMotionEnds`, `EveryRestEnds`,
`ArmedTimerSettles`, `SearchEnds`, `CacheConverges`, `AnswerComes`,
`CommandsLeave`). All of it rests on weak fairness, whose definition has
`ENABLED`, and that is out of the prover's reach. So is induction over data; where
a proof wanted one, a minimal or largest counterexample among finitely many
stands in for it. `RECURSIVE` operators take the SMT backend away and do not
occur. That two models of the same part agree (the room in `Pregame` and in
`RoomLifecycle`, say) is not stated: each takes what it needs from the source.

## 5. What no property says, and why

The models have these behaviours; the code does not keep what its documents
promise of them, or promises nothing, so no property of a passing run can say
otherwise. Each is a hazard with a note in `PROJECT.json`.

* Eliminating a piece removes whatever stands where its motion began. If the
  king has moved there meanwhile it leaves the board and the game goes on
  (`game_engine.py:39`, "Game ends when a king is captured").
* An air capture clears the airborne marker although its jumper is still in the
  air, so a second piece may jump.
* Spectators of a session are never forgotten, so a player on a connection id
  that once watched leaves without a timer.
* The timer is armed after two awaits without looking again; a player who came
  back in between is resigned at the table.
* After a king's capture, closing the client first makes the other player the
  winner, whoever had won.
* Two ratings of one user that interleave lose one result.
* `room_flow` takes the next message for its answer; a snapshot can take its
  place.
* An answer to a search that was given up comes into another flow.
* An enemy that reaches the marked cell in the tick in which the jump lands is
  not shot but takes the jumper: `advance_time` drops the landing jump from the
  active motions (line 126) before `_resolve_air_capture` looks for it. The
  comment at `real_time_arbiter.py:130` says otherwise: "Resolve MOVE before JUMP
  so air-capture is checked while the piece is still airborne".
  `AirborneGuarded` excepts the jump that lands in the tick, and the enemy behind
  one that was shot, as the first shot clears the marker.
* A tear-down that Redis cuts short leaves its connection registered and its
  entry in the queue, where it is matched (`CloseFails`).
* The matchmaking loop that died is not started again, and searches go on being
  accepted (`LoopDies`).
* A board held since before a resignation may be the last one a client is sent.

## 6. What is not modelled

* The renderer's layers, the animator and the assets draw a snapshot and keep
  no state that anything else reads; of `ui/` the tracker and the text over the
  board are modelled.
* The API process (`main_api.py`, `api_gateway.py`) authenticates as `Accounts`
  does, and registers its own connections in Redis under ids nobody else reads.
* The `ConnectionRouter` facade forwards; `ws_client.connect_and_join`,
  `forget_login`, `forget_room` and `all_conn_ids` have no caller outside the
  tests.
* Parsing and printing of boards, JSON shapes, configuration and the entry
  points keep no state; the configured values are the CONSTANTS. Password
  hashing and SQL are other people's code.
* What the log says. The event bus calls handlers that only log; where a
  publication is an await in the middle of a handler it is one here.

Boards are the six shipped kinds with `allow_friendly_capture` off, as shipped.
No module has the whole server at once: `Pregame` and `SnapshotStream` compose
the parts that meet on one connection, and take from the others what those
runs establish.

## 7. Plan

The safety properties of all runs are proved. What may follow:

1. The steps that the liveness properties rest on, as action properties with
   proofs: the remaining time of a motion falls with every tick while the loop
   lives, and a suspended handler moves only forward.
2. `Pregame` and `SnapshotStream` as refinements of the parts of `RoomLifecycle`
   and `Matchmaking` they are cut from.
