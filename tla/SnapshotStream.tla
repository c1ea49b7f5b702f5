---------------------------- MODULE SnapshotStream ----------------------------
(***************************************************************************)
(* What a client sees of a running game.  The server sends a room the      *)
(* whole board, and never a change: the tick loop when the board differs   *)
(* from what it sent last (server/session/tick_loop.py), the handler of a  *)
(* command when it was accepted (server/network/ws_gateway.py), a join to  *)
(* the joiner (server/session/room_manager.py), and a resignation at the   *)
(* end (server/session/disconnect_coordinator.py).  Each of them takes its *)
(* snapshot before an await and sends it after; a client shows whatever    *)
(* came last (client/snapshot_receiver.py).                                *)
(*                                                                         *)
(* One client is followed, Me; a broadcast reaches the others of the room  *)
(* before or after it, which is the time the broadcast takes here.  Each   *)
(* player has one piece, and a piece is what a snapshot says of it: its    *)
(* state and, while it moves, its progress.  With the pieces go the moves  *)
(* made and the pieces taken (ui/game_stats_tracker.py).                   *)
(*                                                                         *)
(* Bounds: MaxCommands; MaxInbox, the messages on their way; Patience,     *)
(* the ticks a command may take from its acceptance to its broadcast,      *)
(* fewer than a motion lasts and no more than a rest does (a command waits *)
(* for two lines of a log file, a square takes 20 ticks, a rest 50).       *)
(***************************************************************************)
EXTENDS Naturals, Sequences, FiniteSets

CONSTANTS
    Me, Other, None,
    MoveTicks, JumpTicks, RestTicks,    \* durations, in ticks
    Patience, MaxCommands, MaxInbox     \* bounds

Player == {Me, Other}

\* A board as the server sends it, and the other thing it may send.
Shows == [state : {"idle", "moving", "airborne", "resting", "captured"}, left : Nat]
Boards == [pieces : [Player -> Shows],
           stats : [Player -> [moves : Nat, taken : Nat]], over : BOOLEAN]
Error == [error |-> TRUE]

ASSUME StreamAssumption ==
    /\ Me # Other /\ None \notin Boards \cup {Error}
    /\ {MoveTicks, JumpTicks, RestTicks, Patience, MaxCommands, MaxInbox} \subseteq Nat
    /\ Patience < MoveTicks /\ Patience < JumpTicks
    /\ Patience <= RestTicks /\ 0 < RestTicks

VARIABLES
    board,      \* each player's piece: its state and the ticks to its end
    stats,      \* GameStatsTracker: of each player, its moves and its captures
    over,       \* GameEngine._game_over
    loop,       \* the tick loop, and the snapshot it is sending
    last,       \* its last_broadcast
    handler,    \* the handler of each player's connection, and its snapshot
    ending,     \* the resignation, its snapshot, and the older boards on their way
    present,    \* Me is in the room, by the registry
    inbox,      \* what was sent to Me and not read
    shown,      \* SnapshotReceiver._snapshot of Me
    commands    \* the commands given so far

vars == <<board, stats, over, loop, last, handler, ending, present, inbox, shown, commands>>

Still == [at |-> "idle", snap |-> None, age |-> 0]

\* build_snapshot: a piece at rest or in the air does not show its progress.
Seen(q) == IF q.state = "moving" THEN q ELSE [q EXCEPT !.left = 0]
Picture(b, st, o) == [pieces |-> [p \in Player |-> Seen(b[p])], stats |-> st, over |-> o]
Snapshot == Picture(board, stats, over)

Init ==
    /\ board = [p \in Player |-> [state |-> "idle", left |-> 0]]
    /\ stats = [p \in Player |-> [moves |-> 0, taken |-> 0]]
    /\ over = FALSE
    /\ loop = [at |-> "asleep", snap |-> None, heard |-> FALSE]
    /\ last = None
    /\ handler = [p \in Player |-> Still]
    /\ ending = [at |-> "none", snap |-> None, old |-> {}]
    /\ present = FALSE
    /\ inbox = <<>>
    /\ shown = None
    /\ commands = 0

Live == ending.at # "closed"

\* A board goes out with everything in it (snapshot_to_json).
Send(m) == Len(inbox) < MaxInbox /\ inbox' = Append(inbox, m)
-----------------------------------------------------------------------------
(* The tick loop: session.tick and build_snapshot, then the broadcast.     *)

Landed(q) ==
    CASE q.state \in {"moving", "airborne"} -> [state |-> "resting", left |-> RestTicks]
      [] OTHER -> [state |-> "idle", left |-> 0]

Advanced(q) ==
    IF q.left > 1 THEN [q EXCEPT !.left = @ - 1]
    ELSE IF q.left = 1 THEN Landed(q) ELSE q

Arriving == {p \in Player : board[p].state = "moving" /\ board[p].left = 1}

\* The piece that an arrival captures, or that a guarded square eliminates.
Victims == {p \in Player : Arriving # {} /\ board[p].state # "captured"}
Fallen(p) == [state |-> "captured", left |-> 0]

Ticked(victims) ==
    board' = [p \in Player |-> IF p \in victims THEN Fallen(p) ELSE Advanced(board[p])]

\* GameStatsTracker.process: an arrival is a move; a capture, and an elimination,
\* counts for the other side.  Of two arrivals the first may fall to the second.
Process(victims) ==
    \E arrived \in {Arriving \ victims} \cup ({Arriving} \ {victims}) :
        stats' = [p \in Player |->
                    [moves |-> stats[p].moves + Cardinality(arrived \cap {p}),
                     taken |-> stats[p].taken + Cardinality(victims \ {p})]]

\* Seeded fault of Broadcast: nothing is sent once nothing moves.
BroadcastMotion(s) ==
    IF s = last \/ \A p \in Player : s.pieces[p].state # "moving"
    THEN UNCHANGED <<loop, last>>
    ELSE /\ loop' = [at |-> "sending", snap |-> s, heard |-> present]
         /\ last' = last

\* On change only.  The connections of the room are looked up first.
Broadcast(s) ==
    IF s = last
    THEN UNCHANGED <<loop, last>>
    ELSE /\ loop' = [at |-> "sending", snap |-> s, heard |-> present]
         /\ last' = last

Tick ==
    /\ loop.at = "asleep"
    /\ \A p \in Player : handler[p].age < Patience
    /\ \E victims \in {{}} \cup {{p} : p \in Victims} :
          /\ Ticked(victims) /\ Process(victims)
          /\ over' \in IF victims = {} THEN {over} ELSE {over, TRUE}
    /\ Broadcast(Picture(board', stats', over'))
    /\ handler' = [p \in Player |-> IF handler[p].at \in {"accepted", "built", "sending"}
                                    THEN [handler[p] EXCEPT !.age = @ + 1]
                                    ELSE handler[p]]
    /\ UNCHANGED <<ending, present, inbox, shown, commands>>

Ticks ==
    /\ loop.at = "sending"
    /\ IF loop.heard THEN Send(loop.snap) ELSE inbox' = inbox
    /\ last' = loop.snap
    /\ loop' = [loop EXCEPT !.at = "asleep", !.snap = None, !.heard = FALSE]
    /\ UNCHANGED <<board, stats, over, handler, ending, present, shown, commands>>
-----------------------------------------------------------------------------
(* Commands: _dispatch, GameSession.handle_command, _broadcast_snapshot.   *)

Goes(p, h) == handler' = [handler EXCEPT ![p] = h]

Jumping == [state |-> "airborne", left |-> JumpTicks]
Moving == [state |-> "moving", left |-> MoveTicks]

\* GameSession.owns_piece_at, of the piece the command is about.
Owns(p) == board[p].state # "captured"

\* Only the sender is told: no room, not its piece.
Refuse(p) ==
    /\ IF p = Me THEN Send(Error) ELSE inbox' = inbox
    /\ UNCHANGED <<board, handler>>

\* The engine takes it at once; the result is published, which waits.
Accept(p) ==
    /\ board[p].state = "idle" /\ ~over
    /\ board' \in {[board EXCEPT ![p] = q] : q \in {Moving, Jumping}}
    /\ Goes(p, [Still EXCEPT !.at = "accepted"])
    /\ UNCHANGED inbox

Reject(p) ==
    /\ Goes(p, [Still EXCEPT !.at = "rejected"])
    /\ UNCHANGED <<board, inbox>>

\* What parse_incoming_message makes no command of, a move without its squares.
Unreadable(p) == Refuse(p)

Command(p) ==
    /\ commands < MaxCommands
    /\ commands' = commands + 1
    /\ handler[p].at = "idle"
    /\ p = Me => present \/ ~Live
    /\ \/ Unreadable(p)
       \/ IF Live /\ Owns(p)
          THEN Accept(p) \/ Reject(p)
          ELSE Refuse(p)
    /\ UNCHANGED <<stats, over, loop, last, ending, present, shown>>

\* EventBus.publish: the subscribers, which write to the log, have been awaited,
\* and those that failed passed over.
Published(p, what) == handler[p].at = what

\* The snapshot is taken, published, which waits, and sent, which waits.
Build(p) ==
    /\ Published(p, "accepted")
    /\ Goes(p, [handler[p] EXCEPT !.at = "built", !.snap = Snapshot])
    /\ UNCHANGED <<board, stats, over, loop, last, ending, present, inbox, shown, commands>>

BroadcastStarts(p) ==
    /\ Published(p, "built")
    /\ Goes(p, IF present THEN [handler[p] EXCEPT !.at = "sending"] ELSE Still)
    /\ UNCHANGED <<board, stats, over, loop, last, ending, present, inbox, shown, commands>>

Reply(p) ==
    /\ \/ handler[p].at = "sending" /\ Send(handler[p].snap)
       \/ /\ Published(p, "rejected")
          /\ IF p = Me THEN Send(Error) ELSE inbox' = inbox
    /\ Goes(p, Still)
    /\ UNCHANGED <<board, stats, over, loop, last, ending, present, shown, commands>>
-----------------------------------------------------------------------------
(* Joining and leaving: handle_join_room, _auto_resign.                    *)

\* In the room at once; its snapshot comes after the answers to the join.
Join ==
    /\ ~present /\ Live
    /\ handler[Me].at = "idle"
    /\ present' = TRUE
    /\ Goes(Me, [Still EXCEPT !.at = "joining"])
    /\ UNCHANGED <<board, stats, over, loop, last, ending, inbox, shown, commands>>

\* Seeded fault of Welcome: the joiner waits for the next broadcast.
WelcomeSilent ==
    /\ handler[Me].at = "joining"
    /\ inbox' = inbox
    /\ Goes(Me, Still)
    /\ UNCHANGED <<board, stats, over, loop, last, ending, present, shown, commands>>

Welcome ==
    /\ handler[Me].at = "joining"
    /\ Send(Snapshot)
    /\ Goes(Me, Still)
    /\ UNCHANGED <<board, stats, over, loop, last, ending, present, shown, commands>>

\* The boards that were taken and are still to be sent.
Senders == {loop} \cup {handler[p] : p \in Player}
Held == {s.snap : s \in {t \in Senders : t.at \in {"built", "sending"}}}

\* A player's timer fires: the result is forced, and published.
Resign ==
    /\ ending.at = "none"
    /\ over' = TRUE
    /\ ending' = [at |-> "publishing", snap |-> None, old |-> Held]
    /\ UNCHANGED <<board, stats, loop, last, handler, present, inbox, shown, commands>>

\* The snapshot is taken; the result is rated, which may fail.
Rate ==
    /\ ending.at = "publishing"
    /\ ending' = [ending EXCEPT !.at = "rating", !.snap = Snapshot]
    /\ UNCHANGED <<board, stats, over, loop, last, handler, present, inbox, shown, commands>>

RatingFails ==
    /\ ending.at = "rating"
    /\ ending' = [ending EXCEPT !.at = "failed", !.snap = None]
    /\ UNCHANGED <<board, stats, over, loop, last, handler, present, inbox, shown, commands>>

\* Seeded fault of LastWord: the room is torn down before it is told.
LastWordUnheard ==
    /\ ending.at = "rating"
    /\ ending' = [ending EXCEPT !.at = "sent", !.old = @ \cap Held]
    /\ inbox' = inbox
    /\ UNCHANGED <<board, stats, over, loop, last, handler, present, shown, commands>>

LastWord ==
    /\ ending.at = "rating"
    /\ ending' = [ending EXCEPT !.at = "sent", !.old = @ \cap Held]
    /\ IF present THEN Send(ending.snap) ELSE inbox' = inbox
    /\ UNCHANGED <<board, stats, over, loop, last, handler, present, shown, commands>>

\* cancel_room: a broadcast of the tick loop ends where it is.
Close ==
    /\ ending.at = "sent"
    /\ ending' = [ending EXCEPT !.at = "closed", !.snap = None]
    /\ present' = FALSE
    /\ loop' = [at |-> "stopped", snap |-> None, heard |-> FALSE]
    /\ UNCHANGED <<board, stats, over, last, handler, inbox, shown, commands>>
-----------------------------------------------------------------------------
\* SnapshotReceiver.feed
Feed(m) == shown' = IF m = Error THEN shown ELSE m

Receive ==
    /\ inbox # <<>>
    /\ Feed(Head(inbox))
    /\ inbox' = Tail(inbox)
    /\ UNCHANGED <<board, stats, over, loop, last, handler, ending, present, commands>>

Next ==
    \/ Tick \/ Ticks
    \/ \E p \in Player : Command(p) \/ Build(p) \/ BroadcastStarts(p) \/ Reply(p)
    \/ Join \/ Welcome
    \/ Resign \/ Rate \/ RatingFails \/ LastWord \/ Close
    \/ Receive

Spec == Init /\ [][Next]_vars
-----------------------------------------------------------------------------
(* Properties.                                                             *)

\* Nothing is on its way and nothing will change by itself.
Silent ==
    /\ \A p \in Player : handler[p].at = "idle" /\ board[p].left = 0
    /\ loop.at = "asleep"
    /\ ending.at = "none" \/ (ending.at = "failed" /\ last = Snapshot)
    /\ inbox = <<>>

\* The server says nothing while the board does not change, so what a client
\* shows then has to be the board: whatever was overtaken on the way, whenever
\* the client joined, and though a snapshot of a command is not noted as sent.
QuietViewsCurrent == Silent /\ present => shown = Snapshot

\* When the room is gone nobody will ever send its players anything else, and
\* they show that the game is over, however the last snapshots of the tick loop,
\* of the commands and of the resignation fell (disconnect_coordinator.py:97
\* sends the final one).  With one exception: a board that was taken before the
\* resignation, and whose sending outlasts its last word, arrives last, of a game
\* that goes on.  Nothing taken later does.
EndSeen ==
    ending.at = "closed" /\ inbox = <<>> /\ shown # None
        /\ (\A p \in Player : handler[p].at = "idle")
    => shown.over \/ shown \in ending.old
=============================================================================
