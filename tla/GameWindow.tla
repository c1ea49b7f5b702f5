------------------------------ MODULE GameWindow ------------------------------
(***************************************************************************)
(* One client in its game: the network task that feeds what the server     *)
(* sends to the receiver (app.py, client/snapshot_receiver.py), the render *)
(* loop that shows it frame by frame and sends the player's commands       *)
(* (client/render_loop.py), and the mouse, whose callbacks run inside the  *)
(* wait for a key (input/controller.py).  The tasks share one thread: the  *)
(* receiver is fed only while the render loop awaits a send or sleeps.     *)
(*                                                                         *)
(* The server is external: it may send any board at any time, an older one *)
(* or one with another ending after the last word as well, and it reports  *)
(* that a player's opponent is back only once it has left; a spectator     *)
(* hears of both players.  A board has one piece of each colour.  Times    *)
(* are counted in frames; the first frame that shows a countdown or an     *)
(* error shows it in full.                                                 *)
(*                                                                         *)
(* Bounds: MaxMessages, MaxInbox, MaxMouse.                                *)
(***************************************************************************)
EXTENDS Naturals, Sequences, FiniteSets, TLC

CONSTANTS
    White, Black, None,
    Cells, Outside,                     \* where the mouse can be
    Boards,                             \* the boards the server may send
    Reasons,                            \* why a command is refused
    Mine,                               \* the player's colour
    AutoResign, ErrorDisplay,           \* durations, in frames
    MaxMessages, MaxInbox, MaxMouse     \* bounds

Colors == {White, Black}
Resting == {"long_rest", "short_rest"}
Gone == [cell |-> None, state |-> "captured"]

ASSUME WindowAssumption ==
    /\ White # Black /\ Mine \in Colors
    /\ Outside \notin Cells /\ None \notin Cells \cup Reasons \cup Nat
    /\ Boards \subseteq [Colors -> [cell : Cells \cup {None}, state : STRING]]
    /\ {AutoResign, ErrorDisplay} \subseteq Nat \ {0}
    /\ {MaxMessages, MaxInbox, MaxMouse} \subseteq Nat

VARIABLES
    line,       \* the WebSocket
    inbox,      \* what the server sent and the network task has not read
    away,       \* the opponent has been reported as away
    messages,   \* the messages sent so far
    receiver,   \* SnapshotReceiver: _snapshot (pieces, outcome), _countdown_ms, ...
    frame,      \* where run_render_loop is
    count,      \* its countdown, and the receiver's when it last looked
    message,    \* its error, and the frames it is still shown
    banner,     \* HudLayer: the text over the board in the last frame
    selected,   \* Controller._selected
    queue,      \* command_queue
    mouse,      \* the mouse events so far
    role        \* player or spectator

server == <<messages, away>>
window == <<count, message, banner>>
hands == <<selected, queue, mouse>>
vars == <<line, inbox, server, receiver, frame, window, hands, role>>

\* How a board says the game stands: on, won by a colour (a resignation), or
\* over without a word on the winner (a captured king).
Outcomes == Colors \cup {"on", "over"}
Move(from, to) == [cmd |-> "move", from |-> from, to |-> to]
Jump(pos) == [cmd |-> "jump", from |-> pos, to |-> pos]

Init ==
    /\ line = "up" /\ inbox = <<>> /\ away = FALSE /\ messages = 0
    /\ receiver = [board |-> None, outcome |-> "on", countdown |-> None, error |-> None]
    /\ frame = "draw"
    /\ count = [left |-> None, server |-> None]
    /\ message = [text |-> None, left |-> 0]
    /\ banner = [kind |-> None, text |-> None]
    /\ selected = None /\ queue = <<>> /\ mouse = 0
    /\ role \in {"player", "spectator"}
-----------------------------------------------------------------------------
(* The server and the line.                                                *)

Absence == {"opponent_disconnected", "opponent_reconnected"}
Messages ==
    [type : {"snapshot"}, board : Boards, outcome : Outcomes]
    \cup [type : {"error"}, reason : Reasons]
    \cup [type : Absence]

Says ==
    /\ line = "up" /\ messages < MaxMessages /\ Len(inbox) < MaxInbox
    /\ \E m \in Messages :
          /\ m.type = "error" => role = "player"
          /\ m.type \in Absence /\ role = "player" => (m.type = "opponent_reconnected" <=> away)
          /\ inbox' = Append(inbox, m)
          /\ away' = CASE m.type = "opponent_disconnected" -> TRUE
                       [] m.type = "opponent_reconnected" -> FALSE
                       [] OTHER -> away
    /\ messages' = messages + 1
    /\ UNCHANGED <<line, receiver, frame, window, hands, role>>

\* The network task ends with it; the render loop does not hear of it.
LineBreaks ==
    /\ line = "up"
    /\ line' = "broken"
    /\ UNCHANGED <<inbox, server, receiver, frame, window, hands, role>>
-----------------------------------------------------------------------------
(* The network task: SnapshotReceiver.feed.                                *)

\* Seeded fault of Feed: a board clears what is pending.
FeedClears(m) ==
    receiver' =
        CASE m.type = "snapshot" -> [receiver EXCEPT !.board = m.board, !.error = None]
          [] m.type = "error" -> [receiver EXCEPT !.error = m.reason]
          [] OTHER -> receiver

\* A board that ends the game also ends the countdown.
Feed(m) ==
    receiver' =
        CASE m.type = "snapshot" ->
                [receiver EXCEPT !.board = m.board, !.outcome = m.outcome,
                                 !.countdown = IF m.outcome = "on" THEN @ ELSE None]
          [] m.type = "opponent_disconnected" -> [receiver EXCEPT !.countdown = AutoResign]
          [] m.type = "opponent_reconnected" -> [receiver EXCEPT !.countdown = None]
          [] m.type = "error" -> [receiver EXCEPT !.error = m.reason]

\* _network_loop runs while the render loop awaits.
Receive ==
    /\ inbox # <<>> /\ frame \in {"sending", "asleep"}
    /\ Feed(Head(inbox))
    /\ inbox' = Tail(inbox)
    /\ UNCHANGED <<line, server, frame, window, hands, role>>
-----------------------------------------------------------------------------
(* The render loop.                                                        *)

Less(n) == IF n = 0 THEN 0 ELSE n - 1

\* Seeded fault of Counted: it looks only for a countdown that begins.
CountedStarts ==
    IF receiver.countdown # None /\ count.server = None
    THEN [left |-> receiver.countdown, server |-> receiver.countdown]
    ELSE IF count.left # None THEN [count EXCEPT !.left = Less(@)] ELSE count

\* A change of the receiver's countdown restarts the window's own.
Counted ==
    IF receiver.countdown # count.server
    THEN [left |-> receiver.countdown, server |-> receiver.countdown]
    ELSE IF count.left # None THEN [count EXCEPT !.left = Less(@)] ELSE count

\* pop_error, and the error that is shown for a while.
Popped ==
    IF receiver.error # None
    THEN [text |-> receiver.error, left |-> ErrorDisplay]
    ELSE [message EXCEPT !.left = Less(@)]

\* HudLayer._draw_game_over: the winner is known after a resignation only, and
\* a spectator has no colour to compare it with.
Ending ==
    IF receiver.outcome \notin Colors \/ role = "spectator" THEN "game over"
    ELSE IF receiver.outcome = Mine THEN "you win" ELSE "you lose"

\* HudLayer.draw: one text over the board.  The end of the game comes first,
\* then the countdown, then the refusal (or none).
Banner(left, text) ==
    CASE receiver.outcome # "on" -> [kind |-> Ending, text |-> None]
      [] receiver.outcome = "on" /\ left # None -> [kind |-> "countdown", text |-> left]
      [] OTHER -> [kind |-> "error", text |-> text]

Draw ==
    /\ frame = "draw"
    /\ count' = Counted
    /\ message' = Popped
    /\ receiver' = [receiver EXCEPT !.error = None]
    /\ banner' = IF receiver.board = None THEN banner
                 ELSE Banner(count'.left, IF message'.left > 0 THEN message'.text ELSE None)
    /\ frame' = "drain"
    /\ UNCHANGED <<line, inbox, server, hands, role>>

\* Seeded fault of Fails: the command is kept for another attempt.
FailsKept ==
    /\ frame' = frame
    /\ UNCHANGED queue

\* A send that fails is logged, and the command is lost.
Fails ==
    /\ frame' = frame
    /\ queue' = Tail(queue)

Sends ==
    /\ frame' = "sending"
    /\ queue' = Tail(queue)

Drain ==
    /\ frame = "drain" /\ queue # <<>>
    /\ IF line = "up" THEN Sends ELSE Fails
    /\ UNCHANGED <<line, inbox, server, receiver, window, selected, mouse, role>>

Sent ==
    /\ frame = "sending"
    /\ frame' = "drain"
    /\ UNCHANGED <<line, inbox, server, receiver, window, hands, role>>

Drained ==
    /\ frame = "drain" /\ queue = <<>>
    /\ frame' = "keys"
    /\ UNCHANGED <<line, inbox, server, receiver, window, hands, role>>

\* waitKey returned -1, and the interval has passed.
NoKey ==
    /\ frame = "keys"
    /\ frame' = "asleep"
    /\ UNCHANGED <<line, inbox, server, receiver, window, hands, role>>

Wake ==
    /\ frame = "asleep"
    /\ frame' = "draw"
    /\ UNCHANGED <<line, inbox, server, receiver, window, hands, role>>

\* A key ends the loop; async_main cancels the network task and closes.
Key ==
    /\ frame = "keys"
    /\ frame' = "stopped"
    /\ line' = "closed"
    /\ UNCHANGED <<inbox, server, receiver, window, hands, role>>
-----------------------------------------------------------------------------
(* The mouse: on_mouse and the Controller, on the newest board.            *)

PieceAt(c) == {p \in Colors : receiver.board # None /\ receiver.board[p].cell = c}

\* A piece that may be selected: present, and not resting.
Ready(c) == \E p \in PieceAt(c) : receiver.board[p].state \notin Resting

\* A second click on a piece of the colour of the selected one.
SameColour(c) == \E p \in PieceAt(c) : p \in PieceAt(selected)

Gives(command) == queue' = Append(queue, command)

Selects(c) == selected' = c /\ UNCHANGED queue

\* Controller.click
Click(c) ==
    CASE c = Outside -> Selects(None)
      [] c # Outside /\ selected = None -> Selects(IF Ready(c) THEN c ELSE None)
      [] c # Outside /\ selected # None /\ SameColour(c) -> Selects(c)
      [] OTHER -> selected' = None /\ Gives(Move(selected, c))

\* Controller.jump: the second press of a double click, the first was a click.
DoubleClick(c) ==
    IF c = Outside THEN Selects(selected) ELSE selected' = None /\ Gives(Jump(c))

\* BoardMapper.pixel_to_cell: a cell of the board, or none.
Pixels == Cells \cup {Outside}

\* on_mouse: only a player's mouse gives commands.
Mouse ==
    /\ frame = "keys" /\ role = "player" /\ mouse < MaxMouse
    /\ mouse' = mouse + 1
    /\ \E c \in Pixels : Click(c) \/ DoubleClick(c)
    /\ UNCHANGED <<line, inbox, server, receiver, frame, window, role>>
-----------------------------------------------------------------------------
Next ==
    \/ Says \/ LineBreaks \/ Receive
    \/ Draw \/ Drain \/ Sent \/ Drained \/ NoKey \/ Wake \/ Key
    \/ Mouse

\* The event loop runs every task that is ready; no key has to be pressed.
Fairness ==
    /\ WF_vars(Receive)
    /\ WF_vars(Draw \/ Drain \/ Sent \/ Drained \/ NoKey \/ Wake)

Spec == Init /\ [][Next]_vars /\ Fairness
-----------------------------------------------------------------------------
(* Properties.                                                             *)

\* Every frame tells whether a countdown runs, as the receiver knows it then,
\* though the loop only looks at it once a frame and counts by itself between.
\* A countdown that ended and began anew between two frames is not restarted.
CountdownFollows ==
    [][ frame = "draw" /\ frame' = "drain" =>
            (count'.left = None <=> receiver.countdown = None) ]_vars

\* The reason of a refusal is forgotten only by a frame that shows it, or when
\* a newer one takes its place, or when the end of the game or the countdown of
\* an absent opponent is in its place on the board.  (There is nothing to draw
\* on before the first board.)
RefusalIsShown ==
    [][ receiver.error # None /\ receiver'.error # receiver.error =>
            \/ receiver'.error \in Reasons
            \/ banner' = [kind |-> "error", text |-> receiver.error]
            \/ receiver.board = None \/ receiver.outcome # "on" \/ receiver.countdown # None ]_vars

\* No command waits for ever: it is sent or, the line being broken, given up.
CommandsLeave == queue # <<>> ~> queue = <<>> \/ frame = "stopped"
=============================================================================
