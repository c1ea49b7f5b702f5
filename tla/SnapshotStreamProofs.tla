------------------------ MODULE SnapshotStreamProofs ------------------------
(***************************************************************************)
(* Proofs about SnapshotStream, for every duration, any number of commands *)
(* and any length of the line: what a client shows once the room is quiet, *)
(* and once it is gone.                                                    *)
(***************************************************************************)
EXTENDS SnapshotStream, FiniteSetTheorems, TLAPS

Message == Boards \cup {Error}

\* A piece that waits has nothing left to wait for, and one that does not has.
Piece == [state : {"moving", "airborne", "resting"}, left : Nat \ {0}]
         \cup [state : {"idle", "captured"}, left : {0}]
Tally == [Player -> [moves : Nat, taken : Nat]]
Loops == [at : {"asleep", "stopped"}, snap : {None}, heard : {FALSE}]
         \cup [at : {"sending"}, snap : Boards, heard : BOOLEAN]
Handlers == [at : {"idle", "accepted", "rejected", "joining"}, snap : {None}, age : Nat]
            \cup [at : {"built", "sending"}, snap : Boards, age : Nat]
Endings == [at : {"none", "publishing", "failed", "closed"}, snap : {None}, old : SUBSET Boards]
           \cup [at : {"rating", "sent"}, snap : Boards, old : SUBSET Boards]

Types ==
    /\ board \in [Player -> Piece] /\ stats \in Tally /\ over \in BOOLEAN
    /\ loop \in Loops /\ last \in Boards \cup {None}
    /\ handler \in [Player -> Handlers] /\ handler[Other].at # "joining"
    /\ ending \in Endings /\ present \in BOOLEAN
    /\ inbox \in Seq(Message) /\ shown \in Boards \cup {None}

-----------------------------------------------------------------------------
(* The newest board of a client: the last one on its way to it, or what it *)
(* shows when there is none.                                               *)

NewestIn(q, sh, S) ==
    \E i \in 0 .. Len(q) :
        /\ IF i = 0 THEN sh \in S ELSE q[i] \in S
        /\ \A j \in (i + 1) .. Len(q) : q[j] = Error

\* A board that is sent is the newest one.
LEMMA NewestSent ==
    ASSUME NEW q \in Seq(Message), NEW sh, NEW S, NEW m \in Message, m \in S
    PROVE  NewestIn(Append(q, m), sh, S)
<1>1. /\ Append(q, m) \in Seq(Message) /\ Len(Append(q, m)) = Len(q) + 1
      /\ Append(q, m)[Len(q) + 1] = m /\ Len(q) \in Nat
  OBVIOUS
<1>. QED BY <1>1 DEF NewestIn

\* A refusal leaves the newest board what it was.
LEMMA NewestRefused ==
    ASSUME NEW q \in Seq(Message), NEW sh, NEW S, NewestIn(q, sh, S)
    PROVE  NewestIn(Append(q, Error), sh, S)
<1>1. PICK i \in 0 .. Len(q) :
        /\ IF i = 0 THEN sh \in S ELSE q[i] \in S
        /\ \A j \in (i + 1) .. Len(q) : q[j] = Error
  BY DEF NewestIn
<1> DEFINE r == Append(q, Error)
<1>2. /\ Len(r) = Len(q) + 1 /\ r[Len(q) + 1] = Error /\ Len(q) \in Nat
      /\ \A j \in 1 .. Len(q) : r[j] = q[j]
  BY DEF Message
<1> HIDE DEF r
<1>3. i \in 0 .. Len(r) /\ (IF i = 0 THEN sh \in S ELSE r[i] \in S)
  BY <1>1, <1>2
<1>4. \A j \in (i + 1) .. Len(r) : r[j] = Error
  BY <1>1, <1>2
<1>5. NewestIn(r, sh, S)
  BY <1>3, <1>4 DEF NewestIn
<1>. QED BY <1>5 DEF r

\* Reading a message leaves the newest board what it was.
LEMMA NewestRead ==
    ASSUME NEW q \in Seq(Message), q # <<>>, NEW sh, NEW S, Error \notin S,
           NewestIn(q, sh, S)
    PROVE  NewestIn(Tail(q), IF Head(q) = Error THEN sh ELSE Head(q), S)
<1>1. PICK i \in 0 .. Len(q) :
        /\ IF i = 0 THEN sh \in S ELSE q[i] \in S
        /\ \A j \in (i + 1) .. Len(q) : q[j] = Error
  BY DEF NewestIn
<1> DEFINE r == Tail(q)
           now == IF Head(q) = Error THEN sh ELSE Head(q)
<1>2. /\ Len(q) \in Nat \ {0} /\ Len(r) = Len(q) - 1 /\ Head(q) = q[1]
      /\ \A j \in 1 .. Len(r) : r[j] = q[j + 1]
  OBVIOUS
<1> HIDE DEF r
<1>3. CASE i = 0
  <2>1. now \in S /\ \A j \in 1 .. Len(r) : r[j] = Error
    BY <1>1, <1>2, <1>3
  <2>. QED BY <1>2, <2>1 DEF NewestIn, r
<1>4. CASE i = 1
  <2>1. now \in S /\ \A j \in 1 .. Len(r) : r[j] = Error
    BY <1>1, <1>2, <1>4
  <2>. QED BY <1>2, <2>1 DEF NewestIn, r
<1>5. CASE i > 1
  <2>1. i - 1 \in 1 .. Len(r) /\ r[i - 1] \in S
    BY <1>1, <1>2, <1>5
  <2>2. \A j \in i .. Len(r) : r[j] = Error
    BY <1>1, <1>2, <1>5
  <2>3. NewestIn(r, now, S)
    BY <1>2, <2>1, <2>2 DEF NewestIn
  <2>. QED BY <2>3 DEF r
<1>. QED BY <1>1, <1>3, <1>4, <1>5

\* With nothing on its way the newest board is the one shown.
LEMMA NewestShown ==
    ASSUME NEW sh, NEW S, NewestIn(<<>>, sh, S)
    PROVE  sh \in S
  BY DEF NewestIn

-----------------------------------------------------------------------------
(* Types.                                                                  *)

\* A snapshot of pieces, tallies and the end of the game is a board.
LEMMA PictureBoard ==
    ASSUME NEW b \in [Player -> Piece], NEW st \in Tally, NEW o \in BOOLEAN
    PROVE  Picture(b, st, o) \in Boards
<1>1. \A q \in Piece : Seen(q) \in Shows
  <2> SUFFICES ASSUME NEW q \in Piece
               PROVE  Seen(q) \in Shows
    OBVIOUS
  <2>1. q \in Shows
    BY DEF Piece, Shows
  <2>2. [q EXCEPT !.left = 0] \in Shows
    BY <2>1 DEF Shows
  <2>3. Seen(q) \in {q, [q EXCEPT !.left = 0]}
    BY Zenon DEF Seen
  <2>. QED BY <2>1, <2>2, <2>3
<1>2. [p \in Player |-> Seen(b[p])] \in [Player -> Shows]
  BY <1>1
<1>. QED BY <1>2 DEF Picture, Boards, Tally

\* A tick makes a piece of a piece.
LEMMA AdvancedPiece == \A q \in Piece : Advanced(q) \in Piece
<1> SUFFICES ASSUME NEW q \in Piece
             PROVE  Advanced(q) \in Piece
  OBVIOUS
<1>1. Landed(q) \in Piece
  BY StreamAssumption DEF Landed, Piece
<1>2. CASE q.left > 1
  <2>1. q \in [state : {"moving", "airborne", "resting"}, left : Nat \ {0}]
    BY <1>2 DEF Piece
  <2>2. [q EXCEPT !.left = @ - 1] \in [state : {"moving", "airborne", "resting"}, left : Nat \ {0}]
    BY <1>2, <2>1
  <2>. QED BY <1>2, <2>2 DEF Advanced, Piece
<1>. QED BY <1>1, <1>2 DEF Advanced

\* What a tick does to the board: at most one piece falls, and one that arrived
\* made it; the others go on.
LEMMA TickBoard ==
    ASSUME Types, Tick
    PROVE  \E victims \in {{}} \cup {{p} : p \in Victims} :
             /\ Ticked(victims)
             /\ stats' \in Tally /\ over' \in BOOLEAN /\ (over => over')
             /\ board' \in [Player -> Piece]
<1>1. PICK victims \in {{}} \cup {{p} : p \in Victims} :
        /\ Ticked(victims) /\ Process(victims)
        /\ over' \in IF victims = {} THEN {over} ELSE {over, TRUE}
  BY DEF Tick
<1>2. over' \in BOOLEAN /\ (over => over')
  BY <1>1 DEF Types
<1>3. stats' \in Tally
  <2>1. PICK arrived :
          stats' = [p \in Player |->
                      [moves |-> stats[p].moves + Cardinality(arrived \cap {p}),
                       taken |-> stats[p].taken + Cardinality(victims \ {p})]]
    BY <1>1 DEF Process
  <2>2. ASSUME NEW p \in Player
        PROVE  Cardinality(arrived \cap {p}) \in Nat /\ Cardinality(victims \ {p}) \in Nat
    <3>1. IsFiniteSet({p}) /\ arrived \cap {p} \subseteq {p}
      BY FS_Singleton
    <3>2. IsFiniteSet(victims) /\ victims \ {p} \subseteq victims
      BY FS_Singleton, FS_EmptySet
    <3>3. IsFiniteSet(arrived \cap {p})
      BY <3>1, FS_Subset
    <3>4. IsFiniteSet(victims \ {p})
      BY <3>2, FS_Subset
    <3>. QED BY <3>3, <3>4, FS_CardinalityType
  <2>3. ASSUME NEW p \in Player
        PROVE  [moves |-> stats[p].moves + Cardinality(arrived \cap {p}),
                taken |-> stats[p].taken + Cardinality(victims \ {p})] \in [moves : Nat, taken : Nat]
    <3>1. stats[p].moves \in Nat /\ stats[p].taken \in Nat
      BY DEF Types, Tally
    <3>. QED BY <2>2, <3>1
  <2>. QED BY <2>1, <2>3 DEF Tally
<1>4. board' \in [Player -> Piece]
  BY <1>1, AdvancedPiece DEF Ticked, Fallen, Piece, Types
<1>. QED BY <1>1, <1>2, <1>3, <1>4

\* The tick loop broadcasts a board that is not the last one it sent.
LEMMA TickSends ==
    ASSUME Types, Tick
    PROVE  /\ loop.at = "asleep"
           /\ \/ Snapshot' = last /\ UNCHANGED <<loop, last>>
              \/ /\ loop' = [at |-> "sending", snap |-> Snapshot', heard |-> present]
                 /\ last' = last
           /\ Snapshot' \in Boards
<1>1. Snapshot' = Picture(board', stats', over')
  BY DEF Snapshot
<1>2. Snapshot' \in Boards
  BY <1>1, TickBoard, PictureBoard
<1>. QED BY <1>1, <1>2 DEF Tick, Broadcast

\* What GameEngine.snapshot answers is a board.
LEMMA SnapshotBoard ==
    ASSUME Types
    PROVE  Snapshot \in Boards
  BY PictureBoard DEF Types, Snapshot

\* The records by their fields.
LEMMA Records ==
    ASSUME Types
    PROVE  /\ loop = [at |-> loop.at, snap |-> loop.snap, heard |-> loop.heard]
           /\ ending = [at |-> ending.at, snap |-> ending.snap, old |-> ending.old]
           /\ \A p \in Player : handler[p] = [at |-> handler[p].at, snap |-> handler[p].snap, age |-> handler[p].age]
<1>1. \A l \in Loops : l = [at |-> l.at, snap |-> l.snap, heard |-> l.heard]
  <2> SUFFICES ASSUME NEW l \in Loops
               PROVE  l = [at |-> l.at, snap |-> l.snap, heard |-> l.heard]
    OBVIOUS
  <2>1. CASE l \in [at : {"asleep", "stopped"}, snap : {None}, heard : {FALSE}]
    BY <2>1
  <2>2. CASE l \in [at : {"sending"}, snap : Boards, heard : BOOLEAN]
    BY <2>2
  <2>. QED BY <2>1, <2>2 DEF Loops
<1>2. \A e \in Endings : e = [at |-> e.at, snap |-> e.snap, old |-> e.old]
  BY DEF Endings
<1>3. \A h \in Handlers : h = [at |-> h.at, snap |-> h.snap, age |-> h.age]
  BY DEF Handlers
<1>. QED BY <1>1, <1>2, <1>3 DEF Types

\* The boards that are held are those of the senders.
LEMMA HeldBoards ==
    ASSUME Types
    PROVE  /\ Held \subseteq Boards
           /\ loop.at = "sending" => loop.snap \in Held
           /\ \A p \in Player : handler[p].at \in {"built", "sending"} => handler[p].snap \in Held
<1>1. loop.at # "built" /\ (loop.at = "sending" => loop.snap \in Boards)
  BY DEF Types, Loops
<1>2. \A p \in Player : handler[p].at \in {"built", "sending"} => handler[p].snap \in Boards
  BY DEF Types, Handlers
<1>. QED BY <1>1, <1>2 DEF Held, Senders

\* A handler that builds its answer keeps its age.
LEMMA BuiltFields ==
    ASSUME NEW h \in Handlers, NEW v
    PROVE  LET f == [h EXCEPT !.at = "built", !.snap = v]
           IN  f.at = "built" /\ f.snap = v /\ f.age = h.age
  BY DEF Handlers

\* What each step does to the handlers, one of which goes.
LEMMA GoesTyped ==
    ASSUME Types, NEW p \in Player, NEW h \in Handlers, p = Other => h.at # "joining", Goes(p, h)
    PROVE  handler' \in [Player -> Handlers] /\ handler'[Other].at # "joining"
  BY StreamAssumption DEF Goes, Types, Player

\* A message joins the line.
LEMMA SentTyped ==
    ASSUME Types, NEW m \in Message, Send(m)
    PROVE  inbox' \in Seq(Message)
  BY DEF Send, Types

\* The tick loop wakes.
LEMMA TypesTick ==
    ASSUME Types, Tick
    PROVE  Types'
<1>1. board' \in [Player -> Piece] /\ stats' \in Tally /\ over' \in BOOLEAN
  BY TickBoard
<1>2. last' \in Boards \cup {None} /\ loop' \in Loops
  <2>1. \A b \in Boards : [at |-> "sending", snap |-> b, heard |-> present] \in Loops
    BY DEF Types, Loops
  <2>. QED BY <2>1, TickSends DEF Types
<1>3. handler' \in [Player -> Handlers] /\ handler'[Other].at # "joining"
  <2>1. \A p \in Player : [handler[p] EXCEPT !.age = @ + 1] \in Handlers
    BY DEF Types, Handlers
  <2>2. \A p \in Player : handler'[p] = IF handler[p].at \in {"accepted", "built", "sending"}
                                       THEN [handler[p] EXCEPT !.age = @ + 1]
                                       ELSE handler[p]
    BY DEF Tick
  <2>3. handler' \in [Player -> Handlers]
    BY <2>1 DEF Tick, Types
  <2>4. handler'[Other].at = handler[Other].at
    BY <2>2 DEF Player, Types, Handlers
  <2>. QED BY <2>3, <2>4 DEF Types
<1>4. UNCHANGED <<ending, present, inbox, shown>>
  BY DEF Tick
<1>. QED BY <1>1, <1>2, <1>3, <1>4 DEF Types

\* A command is accepted, or refused.
LEMMA TypesCommand ==
    ASSUME Types, NEW p \in Player, Command(p)
    PROVE  Types'
<1>1. UNCHANGED <<stats, over, loop, last, ending, present, shown>>
  BY DEF Command
<1>2. CASE Refuse(p)
  <2>1. inbox' \in Seq(Message)
    BY <1>2, SentTyped DEF Refuse, Message, Types
  <2>. QED BY <1>1, <1>2, <2>1 DEF Refuse, Types
<1>3. CASE Accept(p)
  <2>1. Moving \in Piece /\ Jumping \in Piece
    BY StreamAssumption DEF Moving, Jumping, Piece
  <2>2. board' \in [Player -> Piece]
    BY <1>3, <2>1 DEF Accept, Types
  <2>3. [Still EXCEPT !.at = "accepted"] = [at |-> "accepted", snap |-> None, age |-> 0]
    BY DEF Still
  <2>4. handler' \in [Player -> Handlers] /\ handler'[Other].at # "joining"
    BY <1>3, <2>3, GoesTyped DEF Accept, Handlers
  <2>. QED BY <1>1, <1>3, <2>2, <2>4 DEF Accept, Types
<1>4. CASE Reject(p)
  <2>3. [Still EXCEPT !.at = "rejected"] = [at |-> "rejected", snap |-> None, age |-> 0]
    BY DEF Still
  <2>4. handler' \in [Player -> Handlers] /\ handler'[Other].at # "joining"
    BY <1>4, <2>3, GoesTyped DEF Reject, Handlers
  <2>. QED BY <1>1, <1>4, <2>4 DEF Reject, Types
<1>. QED BY <1>2, <1>3, <1>4 DEF Command, Unreadable

\* A handler builds and sends its answer.
LEMMA TypesHandler ==
    ASSUME Types, NEW p \in Player, Build(p) \/ BroadcastStarts(p) \/ Reply(p)
    PROVE  Types'
<1>1. UNCHANGED <<board, stats, over, loop, last, ending, present, shown>>
  BY DEF Build, BroadcastStarts, Reply
<1>2. Still \in Handlers /\ Still.at = "idle"
  BY DEF Still, Handlers
<1>3. CASE Build(p)
  <2>1. [handler[p] EXCEPT !.at = "built", !.snap = Snapshot] \in Handlers
    BY SnapshotBoard DEF Types, Handlers
  <2>2. [handler[p] EXCEPT !.at = "built", !.snap = Snapshot].at = "built"
    BY DEF Types, Handlers
  <2>3. handler' \in [Player -> Handlers] /\ handler'[Other].at # "joining"
    BY <1>3, <2>1, <2>2, GoesTyped DEF Build
  <2>. QED BY <1>1, <1>3, <2>3 DEF Build, Types
<1>4. CASE BroadcastStarts(p)
  <2>1. [handler[p] EXCEPT !.at = "sending"] \in Handlers
        /\ [handler[p] EXCEPT !.at = "sending"].at = "sending"
    BY <1>4 DEF BroadcastStarts, Published, Types, Handlers
  <2>3. handler' \in [Player -> Handlers] /\ handler'[Other].at # "joining"
    BY <1>2, <1>4, <2>1, GoesTyped DEF BroadcastStarts
  <2>. QED BY <1>1, <1>4, <2>3 DEF BroadcastStarts, Types
<1>5. CASE Reply(p)
  <2>1. handler' \in [Player -> Handlers] /\ handler'[Other].at # "joining"
    BY <1>2, <1>5, GoesTyped DEF Reply
  <2>2. inbox' \in Seq(Message)
    <3>1. CASE handler[p].at = "sending" /\ Send(handler[p].snap)
      <4>1. handler[p].snap \in Message
        BY <3>1 DEF Types, Handlers, Message
      <4>. QED BY <3>1, <4>1, SentTyped
    <3>2. CASE IF p = Me THEN Send(Error) ELSE inbox' = inbox
      BY <3>2, SentTyped DEF Types, Message
    <3>. QED BY <1>5, <3>1, <3>2 DEF Reply
  <2>. QED BY <1>1, <2>1, <2>2 DEF Types
<1>. QED BY <1>3, <1>4, <1>5

\* The client joins and is shown the board.
LEMMA TypesJoin ==
    ASSUME Types, Join \/ Welcome
    PROVE  Types'
<1>1. UNCHANGED <<board, stats, over, loop, last, ending, shown>> /\ present' \in BOOLEAN
  BY DEF Join, Welcome, Types
<1>2. [Still EXCEPT !.at = "joining"] = [at |-> "joining", snap |-> None, age |-> 0]
  BY DEF Still
<1>3. Me \in Player /\ Me # Other
  BY StreamAssumption DEF Player
<1>4. handler' \in [Player -> Handlers] /\ handler'[Other].at # "joining"
  <2>1. CASE Join
    BY <1>2, <1>3, <2>1, GoesTyped DEF Join, Handlers
  <2>2. CASE Welcome
    BY <1>3, <2>2, GoesTyped DEF Welcome, Handlers, Still
  <2>. QED BY <2>1, <2>2
<1>5. inbox' \in Seq(Message)
  BY SnapshotBoard, SentTyped DEF Join, Welcome, Types, Message
<1>. QED BY <1>1, <1>4, <1>5 DEF Types

\* A resignation, call by call.
LEMMA TypesEnding ==
    ASSUME Types, Resign \/ Rate \/ RatingFails \/ LastWord \/ Close
    PROVE  Types'
<1>1. UNCHANGED <<board, stats, last, handler, shown>>
  BY DEF Resign, Rate, RatingFails, LastWord, Close
<1>2. ending' \in Endings
  <2>1. CASE Resign
    BY <2>1, HeldBoards DEF Resign, Endings
  <2>2. CASE Rate
    BY <2>2, SnapshotBoard DEF Rate, Types, Endings
  <2>3. CASE RatingFails
    BY <2>3 DEF RatingFails, Types, Endings
  <2>4. CASE LastWord
    BY <2>4 DEF LastWord, Types, Endings
  <2>5. CASE Close
    BY <2>5 DEF Close, Types, Endings
  <2>. QED BY <2>1, <2>2, <2>3, <2>4, <2>5
<1>3. over' \in BOOLEAN /\ present' \in BOOLEAN
  BY DEF Resign, Rate, RatingFails, LastWord, Close, Types
<1>5. loop' \in Loops
  <2>1. loop' \in {loop, [at |-> "stopped", snap |-> None, heard |-> FALSE]}
    BY DEF Resign, Rate, RatingFails, LastWord, Close
  <2>2. [at |-> "stopped", snap |-> None, heard |-> FALSE] \in Loops
    BY DEF Loops
  <2>. QED BY <2>1, <2>2 DEF Types
<1>4. inbox' \in Seq(Message)
  <2>1. CASE LastWord
    <3>1. ending.snap \in Message
      BY <2>1 DEF LastWord, Types, Endings, Message
    <3>. QED BY <2>1, <3>1, SentTyped DEF LastWord, Types
  <2>. QED BY <2>1 DEF Resign, Rate, RatingFails, Close, Types
<1>. QED BY <1>1, <1>2, <1>3, <1>4, <1>5 DEF Types

\* The tick loop ends its broadcast; the client reads.
LEMMA TypesRest ==
    ASSUME Types, Ticks \/ Receive
    PROVE  Types'
<1>1. CASE Ticks
  <2>1. loop.snap \in Boards
    BY <1>1 DEF Ticks, Types, Loops
  <2>2. loop' \in Loops /\ last' \in Boards \cup {None}
    BY <1>1, <2>1 DEF Ticks, Types, Loops
  <2>3. inbox' \in Seq(Message)
    BY <1>1, <2>1, SentTyped DEF Ticks, Types, Message
  <2>. QED BY <1>1, <2>2, <2>3 DEF Ticks, Types
<1>2. CASE Receive
  <2>1. Head(inbox) \in Message /\ inbox' \in Seq(Message)
    BY <1>2 DEF Receive, Types
  <2>2. shown' \in Boards \cup {None}
    BY <1>2, <2>1 DEF Receive, Feed, Types, Message
  <2>. QED BY <1>2, <2>1, <2>2 DEF Receive, Types
<1>. QED BY <1>1, <1>2

\* Every step keeps the types.
LEMMA TypesStep ==
    ASSUME Types, [Next]_vars
    PROVE  Types'
<1>1. CASE UNCHANGED vars
  BY <1>1 DEF Types, vars
<1>. QED
  BY <1>1, TypesTick, TypesCommand, TypesHandler, TypesJoin, TypesEnding, TypesRest
     DEF Next

-----------------------------------------------------------------------------
(* The invariant.                                                          *)

\* The room is gone just when its tick loop is.
Stopped == ending.at = "closed" <=> loop.at = "stopped"

\* Nobody sends anything to a client that has not joined yet.
Absent ==
    ~present /\ Live =>
        /\ inbox = <<>> /\ shown = None
        /\ handler[Me].at = "idle" /\ ~loop.heard
        /\ \A p \in Player : handler[p].at # "sending"

Overs == {b \in Boards \cup {None} : b # None => b.over}

\* The boards a sender holds, and the one of the last word.
Within(S, l, h, e) ==
    /\ l.at = "sending" => l.snap \in S
    /\ \A p \in Player : h[p].at \in {"built", "sending"} => h[p].snap \in S
    /\ e.at \in {"rating", "sent"} => e.snap.over

\* After a resignation the game is over, and on every board that is held, but on
\* those that were held as it began.
OlderKnown ==
    ending.at # "none" => over /\ Within(ending.old \cup Overs, loop, handler, ending)

\* The last word goes to every client that is there, and of a game that goes on
\* nothing comes after it but a board that was held before.
LastWordHeard ==
    ending.at \in {"sent", "closed"} => NewestIn(inbox, shown, ending.old \cup Overs)

\* A command is answered while the board still has something to do.
Hurried ==
    \A p \in Player : handler[p].at \in {"accepted", "built", "sending"} =>
        /\ handler[p].age <= Patience
        /\ \E q \in Player : board[q].left + handler[p].age > Patience

\* A board the tick loop took: since then there were commands, and perhaps a
\* resignation, and no tick.
Behind(s) ==
    /\ \A p \in Player :
          \/ s.pieces[p] = Seen(board[p])
          \/ s.pieces[p].state = "idle" /\ board[p] \in {Moving, Jumping}
    /\ s.stats = stats
    /\ s.over => over
    /\ ending.at = "none" => s.over = over

\* What the tick loop will have sent last, once it sleeps.
Coming == IF loop.at = "sending" THEN loop.snap ELSE last
Followed == Live /\ Coming # None => Behind(Coming)

\* When the board has nothing left to do the newest board of a client that is
\* there is the board, unless a newer one is sure to be sent.
Resting == \A p \in Player : board[p].left = 0
Caught ==
    present /\ Resting /\ ending.at \notin {"sent", "closed"} =>
        \/ handler[Me].at = "joining"
        \/ ending.at # "none" /\ Coming # Snapshot
        \/ loop.at = "sending" /\ loop.heard /\ loop.snap = Snapshot
        \/ NewestIn(inbox, shown, {Snapshot}) /\ ~loop.heard

IInv == /\ Types /\ Stopped /\ Absent /\ OlderKnown /\ LastWordHeard
        /\ Hurried /\ Followed /\ Caught

\* Nobody has joined at first.
LEMMA InitInvariant == Init => IInv
<1> SUFFICES ASSUME Init
             PROVE  IInv
  OBVIOUS
<1>1. Types
  <2>1. [state |-> "idle", left |-> 0] \in Piece
    BY DEF Piece
  <2>2. [moves |-> 0, taken |-> 0] \in [moves : Nat, taken : Nat]
    OBVIOUS
  <2>3. Still \in Handlers /\ Still.at = "idle"
    BY DEF Still, Handlers
  <2>4. loop \in Loops
    BY DEF Init, Loops
  <2>5. ending \in Endings
    BY DEF Init, Endings
  <2>6. handler \in [Player -> Handlers] /\ handler[Other].at # "joining"
    BY <2>3 DEF Init, Player
  <2>7. board \in [Player -> Piece] /\ stats \in Tally
    BY <2>1, <2>2 DEF Init, Tally
  <2>8. over \in BOOLEAN /\ last \in Boards \cup {None} /\ present \in BOOLEAN
        /\ inbox \in Seq(Message) /\ shown \in Boards \cup {None}
    <3>1. <<>> \in Seq(Message)
      OBVIOUS
    <3>2. FALSE \in BOOLEAN
      OBVIOUS
    <3>. QED BY <3>1, <3>2, Zenon DEF Init
  <2>. QED BY <2>4, <2>5, <2>6, <2>7, <2>8 DEF Types
<1>2. Stopped /\ Absent /\ OlderKnown /\ LastWordHeard /\ Caught
  BY DEF Init, Stopped, Absent, OlderKnown, LastWordHeard, Caught, Still, Player
<1>3. Hurried /\ Followed
  BY DEF Init, Hurried, Followed, Coming, Still, Player
<1>. QED BY <1>1, <1>2, <1>3 DEF IInv

-----------------------------------------------------------------------------
(* Each part is kept by each step.                                         *)

\* What each step of a resignation writes.
LEMMA EndingFields ==
    ASSUME Types
    PROVE  /\ Rate => ending' = [at |-> "rating", snap |-> Snapshot, old |-> ending.old]
           /\ RatingFails => ending' = [at |-> "failed", snap |-> None, old |-> ending.old]
           /\ LastWord => ending' = [at |-> "sent", snap |-> ending.snap, old |-> ending.old \cap Held]
           /\ Close => ending' = [at |-> "closed", snap |-> None, old |-> ending.old]
  BY Records DEF Rate, RatingFails, LastWord, Close

\* Only the close of the room stops the loop.
LEMMA StoppedStep ==
    ASSUME IInv, [Next]_vars
    PROVE  Stopped'
<1>1. CASE Tick
  <2>1. loop.at = "asleep" /\ ending' = ending
    BY <1>1 DEF Tick
  <2>2. loop' = loop \/ loop' = [at |-> "sending", snap |-> Snapshot', heard |-> present]
    BY <1>1, TickSends DEF IInv
  <2>3. loop'.at # "stopped"
    BY <2>1, <2>2
  <2>. QED BY <2>1, <2>3 DEF IInv, Stopped
<1>2. CASE Ticks
  BY <1>2, Records DEF IInv, Stopped, Ticks
<1>3. CASE Resign \/ Rate \/ RatingFails \/ LastWord
  <2>1. loop' = loop /\ ending.at # "closed"
    BY <1>3 DEF Resign, Rate, RatingFails, LastWord
  <2>2. ending'.at \in {"publishing", "rating", "failed", "sent"}
    BY <1>3, EndingFields DEF Resign, IInv
  <2>. QED BY <2>1, <2>2 DEF IInv, Stopped
<1>4. CASE Close
  <2>1. ending'.at = "closed" /\ loop'.at = "stopped"
    BY <1>4, EndingFields DEF Close, IInv
  <2>. QED BY <2>1 DEF Stopped
<1>5. CASE UNCHANGED <<loop, ending>>
  BY <1>5 DEF IInv, Stopped
<1>. QED
  BY <1>1, <1>2, <1>3, <1>4, <1>5
     DEF Next, vars, Command, Build, BroadcastStarts, Reply, Join, Welcome, Receive

\* The resignation is moved on by its own steps only.
LEMMA EndingSteps ==
    ASSUME [Next]_vars
    PROVE  ending' = ending \/ Resign \/ Rate \/ RatingFails \/ LastWord \/ Close
<1>1. CASE Tick
  BY <1>1 DEF Tick
<1>2. CASE Ticks \/ Join \/ Welcome \/ Receive \/ UNCHANGED vars
  BY <1>2 DEF Ticks, Join, Welcome, Receive, vars
<1>3. ASSUME NEW p \in Player, Command(p) \/ Build(p) \/ BroadcastStarts(p) \/ Reply(p)
      PROVE  ending' = ending
  BY <1>3 DEF Command, Build, BroadcastStarts, Reply
<1>. QED BY <1>1, <1>2, <1>3 DEF Next

\* A room that is gone stays gone, and a client leaves it only then.
LEMMA LiveStep ==
    ASSUME IInv, [Next]_vars, Live'
    PROVE  Live /\ (present => present')
<1>1. Types
  BY DEF IInv
<1>2. CASE Resign \/ Rate \/ RatingFails \/ LastWord
  BY <1>2 DEF Resign, Rate, RatingFails, LastWord, Live
<1>3. CASE Close
  BY <1>1, <1>3, EndingFields DEF Live
<1>4. CASE UNCHANGED ending /\ (present => present')
  BY <1>4 DEF Live
<1>5. CASE Tick
  BY <1>4, <1>5 DEF Tick
<1>6. CASE Ticks \/ Join \/ Welcome \/ Receive \/ UNCHANGED vars
  BY <1>4, <1>6 DEF Ticks, Join, Welcome, Receive, vars
<1>7. ASSUME NEW p \in Player, Command(p) \/ Build(p) \/ BroadcastStarts(p) \/ Reply(p)
      PROVE  Live /\ (present => present')
  BY <1>4, <1>7 DEF Command, Build, BroadcastStarts, Reply
<1>. QED BY <1>2, <1>3, <1>5, <1>6, <1>7 DEF Next

\* A handler that does not go is what it was.
LEMMA GoesElsewhere ==
    ASSUME Types, NEW p \in Player, NEW h, Goes(p, h)
    PROVE  handler'[p] = h /\ \A q \in Player : q # p => handler'[q] = handler[q]
  BY DEF Goes, Types

\* Only a join is sent anything.
LEMMA AbsentStep ==
    ASSUME IInv, [Next]_vars
    PROVE  Absent'
<1> SUFFICES ASSUME ~present', Live'
             PROVE  /\ inbox' = <<>> /\ shown' = None
                    /\ handler'[Me].at = "idle" /\ ~loop'.heard
                    /\ \A p \in Player : handler'[p].at # "sending"
  BY DEF Absent
<1>1. Types /\ ~present /\ Live /\ Me \in Player
  BY LiveStep DEF IInv, Player
<1>2. /\ inbox = <<>> /\ shown = None
      /\ handler[Me].at = "idle" /\ ~loop.heard
      /\ \A p \in Player : handler[p].at # "sending"
  BY <1>1 DEF IInv, Absent
<1>3. CASE Tick
  <2>1. UNCHANGED <<inbox, shown>>
    BY <1>3 DEF Tick
  <2>3. loop' = loop \/ loop' = [at |-> "sending", snap |-> Snapshot', heard |-> present]
    BY <1>1, <1>3, TickSends
  <2>4. ~loop'.heard
    BY <1>1, <1>2, <2>3
  <2>2. \A p \in Player : handler'[p].at = handler[p].at
    BY <1>1, <1>3, Records DEF Tick
  <2>. QED BY <1>1, <1>2, <2>1, <2>2, <2>4
<1>4. CASE Ticks
  BY <1>1, <1>2, <1>4, Records DEF Ticks
<1>5. ASSUME NEW p \in Player, Command(p)
      PROVE  /\ inbox' = <<>> /\ shown' = None
             /\ handler'[Me].at = "idle" /\ ~loop'.heard
             /\ \A q \in Player : handler'[q].at # "sending"
  <2>1. p # Me /\ UNCHANGED <<shown, loop>>
    BY <1>1, <1>5 DEF Command
  <2>2. inbox' = inbox /\ (handler' = handler \/ \E h : h.at \in {"accepted", "rejected"} /\ Goes(p, h))
    BY <1>5, <2>1 DEF Command, Unreadable, Refuse, Accept, Reject, Still
  <2>. QED BY <1>1, <1>2, <2>1, <2>2, GoesElsewhere
<1>6. ASSUME NEW p \in Player, Build(p) \/ BroadcastStarts(p) \/ Reply(p)
      PROVE  /\ inbox' = <<>> /\ shown' = None
             /\ handler'[Me].at = "idle" /\ ~loop'.heard
             /\ \A q \in Player : handler'[q].at # "sending"
  <2>1. p # Me /\ UNCHANGED <<shown, loop>>
    BY <1>1, <1>2, <1>6 DEF Build, BroadcastStarts, Reply, Published
  <2>2. inbox' = inbox
    BY <1>1, <1>2, <1>6, <2>1 DEF Build, BroadcastStarts, Reply
  <2>3. Goes(p, Still) \/ Goes(p, [handler[p] EXCEPT !.at = "built", !.snap = Snapshot])
    BY <1>1, <1>6 DEF Build, BroadcastStarts, Reply
  <2>4. Still.at = "idle" /\ [handler[p] EXCEPT !.at = "built", !.snap = Snapshot].at = "built"
    BY <1>1, Records DEF Still
  <2>. QED BY <1>1, <1>2, <2>1, <2>2, <2>3, <2>4, GoesElsewhere
<1>7. CASE LastWord \/ Resign \/ Rate \/ RatingFails
  BY <1>1, <1>2, <1>7 DEF LastWord, Resign, Rate, RatingFails
<1>8. ~Join /\ ~Welcome /\ ~Receive
  BY <1>1, <1>2 DEF Join, Welcome, Receive
<1>9. CASE Close
  BY <1>1, <1>9, EndingFields DEF Live
<1>10. CASE UNCHANGED vars
  BY <1>2, <1>10 DEF vars
<1>. QED BY <1>3, <1>4, <1>5, <1>6, <1>7, <1>8, <1>9, <1>10 DEF Next

\* The game does not go on once it is over, and a resignation keeps what it noted
\* until its last word.
LEMMA OverStep ==
    ASSUME IInv, [Next]_vars
    PROVE  /\ over => over'
           /\ ending.at # "none" => ending'.at # "none" /\ (LastWord \/ ending'.old = ending.old)
<1>1. Types
  BY DEF IInv
<1>2. CASE Tick
  BY <1>1, <1>2, TickBoard DEF Tick
<1>3. CASE Resign
  BY <1>3 DEF Resign
<1>4. CASE Rate \/ RatingFails \/ LastWord \/ Close
  <2>1. ending'.at # "none" /\ (LastWord \/ ending'.old = ending.old)
    BY <1>1, <1>4, EndingFields
  <2>. QED BY <1>4, <2>1 DEF Rate, RatingFails, LastWord, Close
<1>5. CASE Ticks \/ Join \/ Welcome \/ Receive \/ UNCHANGED vars
  BY <1>5 DEF Ticks, Join, Welcome, Receive, vars
<1>6. ASSUME NEW p \in Player, Command(p) \/ Build(p) \/ BroadcastStarts(p) \/ Reply(p)
      PROVE  UNCHANGED <<over, ending>>
  BY <1>6 DEF Command, Build, BroadcastStarts, Reply
<1>. QED BY <1>2, <1>3, <1>4, <1>5, <1>6 DEF Next

\* A snapshot knows whether the game is over.
LEMMA SnapshotOver == Snapshot.over = over
  BY DEF Snapshot, Picture

\* Once the game is over so is every board taken of it.
LEMMA WithinStep ==
    ASSUME IInv, [Next]_vars, over, over', ending.at # "none",
           NEW S, Overs \subseteq S, Within(S, loop, handler, ending)
    PROVE  Within(S, loop', handler', ending')
<1>1. Types /\ Snapshot.over /\ Snapshot \in S /\ Snapshot' \in S
  <2>1. Types /\ Types'
    BY TypesStep DEF IInv
  <2>2. Snapshot \in Boards /\ Snapshot' \in Boards
    BY <2>1, PictureBoard DEF Types, Snapshot
  <2>3. Snapshot.over /\ Snapshot'.over
    BY SnapshotOver DEF Snapshot, Picture
  <2>. QED BY <2>1, <2>2, <2>3 DEF Overs
<1>2. CASE Tick
  <2>1. loop'.at = "sending" => loop'.snap \in S
    BY <1>1, <1>2, TickSends DEF Within
  <2>2. \A p \in Player : handler'[p].at = handler[p].at /\ handler'[p].snap = handler[p].snap
    BY <1>1, <1>2, Records DEF Tick
  <2>3. ending' = ending
    BY <1>2 DEF Tick
  <2>. QED BY <2>1, <2>2, <2>3 DEF Within
<1>3. CASE Ticks
  BY <1>1, <1>3, Records DEF Ticks, Within
<1>4. ASSUME NEW p \in Player, Command(p) \/ Build(p) \/ BroadcastStarts(p) \/ Reply(p)
      PROVE  Within(S, loop', handler', ending')
  <2>1. UNCHANGED <<loop, ending>>
    BY <1>4 DEF Command, Build, BroadcastStarts, Reply
  <2>2. CASE Command(p)
    <3>1. handler' = handler \/ \E h : h.at \in {"accepted", "rejected"} /\ Goes(p, h)
      BY <2>2 DEF Command, Unreadable, Refuse, Accept, Reject, Still
    <3>. QED BY <1>1, <2>1, <3>1, GoesElsewhere DEF Within
  <2>3. CASE Build(p)
    <3>1. \E h : h.at = "built" /\ h.snap = Snapshot /\ Goes(p, h)
      <4> DEFINE f == [handler[p] EXCEPT !.at = "built", !.snap = Snapshot]
      <4>1. f.at = "built" /\ f.snap = Snapshot
        BY <1>1, BuiltFields DEF Types
      <4>2. Goes(p, f)
        BY <2>3 DEF Build
      <4> HIDE DEF f
      <4>. QED BY <4>1, <4>2
    <3>. QED BY <1>1, <2>1, <3>1, GoesElsewhere DEF Within
  <2>4. CASE BroadcastStarts(p)
    <3>1. handler[p].at = "built"
          /\ (Goes(p, Still) \/ Goes(p, [at |-> "sending", snap |-> handler[p].snap, age |-> handler[p].age]))
      BY <1>1, <2>4, Records DEF BroadcastStarts, Published
    <3>. QED BY <1>1, <2>1, <3>1, GoesElsewhere DEF Within, Still
  <2>5. CASE Reply(p)
    <3>1. Goes(p, Still)
      BY <2>5 DEF Reply
    <3>. QED BY <1>1, <2>1, <3>1, GoesElsewhere DEF Within, Still
  <2>. QED BY <1>4, <2>2, <2>3, <2>4, <2>5
<1>5. CASE Join \/ Welcome
  <2>1. UNCHANGED <<loop, ending>> /\ Me \in Player
    BY <1>5 DEF Join, Welcome, Player
  <2>2. \E h : h.at \in {"idle", "joining"} /\ Goes(Me, h)
    BY <1>5 DEF Join, Welcome, Still
  <2>. QED BY <1>1, <2>1, <2>2, GoesElsewhere DEF Within
<1>6. CASE Rate \/ RatingFails \/ LastWord \/ Close
  <2>1. loop'.at = "sending" => loop' = loop
    BY <1>6 DEF Rate, RatingFails, LastWord, Close
  <2>2. handler' = handler
    BY <1>6 DEF Rate, RatingFails, LastWord, Close
  <2>3. ending'.at \in {"rating", "sent"} => ending'.snap.over
    BY <1>1, <1>6, EndingFields DEF Within, LastWord
  <2>. QED BY <2>1, <2>2, <2>3 DEF Within
<1>7. CASE Receive \/ UNCHANGED vars
  BY <1>7 DEF Receive, vars, Within
<1>8. ~Resign
  BY DEF Resign
<1>. QED BY <1>2, <1>3, <1>4, <1>5, <1>6, <1>7, <1>8 DEF Next

\* A resignation notes what is held as it begins, and forgets what has been sent
\* by its last word.
LEMMA OlderKnownStep ==
    ASSUME IInv, [Next]_vars
    PROVE  OlderKnown'
<1>1. Types
  BY DEF IInv
<1>2. CASE ending.at # "none"
  <2> DEFINE S == ending.old \cup Overs
  <2>1. over /\ over' /\ Within(S, loop, handler, ending)
    BY <1>2, OverStep DEF IInv, OlderKnown
  <2>2. Within(S, loop', handler', ending')
    BY <1>2, <2>1, WithinStep
  <2>3. CASE LastWord
    <3>1. UNCHANGED <<loop, handler>> /\ ending'.old = ending.old \cap Held
      BY <1>1, <2>3, EndingFields DEF LastWord
    <3>. QED BY <1>1, <2>1, <2>2, <3>1, HeldBoards DEF OlderKnown, Within
  <2>4. CASE ~LastWord
    <3>1. ending'.old = ending.old
      BY <1>2, <2>4, OverStep
    <3>. QED BY <2>1, <2>2, <3>1 DEF OlderKnown
  <2>. QED BY <2>3, <2>4
<1>3. CASE Resign
  <2>1. /\ over' /\ ending' = [at |-> "publishing", snap |-> None, old |-> Held]
        /\ UNCHANGED <<loop, handler>>
    BY <1>3 DEF Resign
  <2>. QED BY <1>1, <2>1, HeldBoards DEF OlderKnown, Within
<1>4. CASE ending.at = "none" /\ ~Resign
  <2>1. ending' = ending
    BY <1>4, EndingSteps DEF Rate, RatingFails, LastWord, Close
  <2>. QED BY <1>4, <2>1 DEF OlderKnown
<1>. QED BY <1>2, <1>3, <1>4

\* What is sent and what is read, as the newest board goes.
LEMMA NewestKept ==
    ASSUME Types, NEW S, Error \notin S, NewestIn(inbox, shown, S),
           \/ UNCHANGED <<inbox, shown>>
           \/ shown' = shown /\ \E m \in Message : (m \in S \/ m = Error) /\ Send(m)
           \/ Receive
    PROVE  NewestIn(inbox', shown', S)
<1>1. inbox \in Seq(Message)
  BY DEF Types
<1>2. CASE shown' = shown /\ \E m \in Message : (m \in S \/ m = Error) /\ Send(m)
  BY <1>1, <1>2, NewestSent, NewestRefused DEF Send
<1>3. CASE Receive
  <2>1. inbox # <<>> /\ inbox' = Tail(inbox)
        /\ shown' = IF Head(inbox) = Error THEN shown ELSE Head(inbox)
    BY <1>3 DEF Receive, Feed
  <2>. QED BY <1>1, <2>1, NewestRead
<1>. QED BY <1>2, <1>3

\* Who may send Me what, after a step that is not a join's.
LEMMA Sends ==
    ASSUME Types, [Next]_vars
    PROVE  \/ UNCHANGED <<inbox, shown>>
           \/ shown' = shown /\ Send(Error)
           \/ Ticks /\ loop.at = "sending" /\ loop.heard /\ shown' = shown /\ Send(loop.snap)
           \/ \E p \in Player : Reply(p) /\ handler[p].at = "sending" /\ shown' = shown /\ Send(handler[p].snap)
           \/ Welcome /\ shown' = shown /\ Send(Snapshot)
           \/ LastWord /\ present /\ shown' = shown /\ Send(ending.snap)
           \/ Receive
<1>1. CASE Tick \/ Join \/ Resign \/ Rate \/ RatingFails \/ Close \/ UNCHANGED vars
  BY <1>1 DEF Tick, Join, Resign, Rate, RatingFails, Close, vars
<1>2. CASE Ticks \/ Welcome \/ LastWord
  BY <1>2 DEF Ticks, Welcome, LastWord
<1>3. ASSUME NEW p \in Player, Command(p)
      PROVE  UNCHANGED <<inbox, shown>> \/ (shown' = shown /\ Send(Error))
  BY <1>3 DEF Command, Unreadable, Refuse, Accept, Reject
<1>4. ASSUME NEW p \in Player, Build(p) \/ BroadcastStarts(p)
      PROVE  UNCHANGED <<inbox, shown>>
  BY <1>4 DEF Build, BroadcastStarts
<1>5. ASSUME NEW p \in Player, Reply(p)
      PROVE  \/ UNCHANGED <<inbox, shown>>
             \/ shown' = shown /\ Send(Error)
             \/ Reply(p) /\ handler[p].at = "sending" /\ shown' = shown /\ Send(handler[p].snap)
  BY <1>5 DEF Reply
<1>. QED BY <1>1, <1>2, <1>3, <1>4, <1>5 DEF Next

\* None is no message.
LEMMA NoneNot == None \notin Boards /\ None # Error /\ Error \notin Boards
<1>1. \A b \in Boards : "error" \notin DOMAIN b
  BY DEF Boards
<1>2. "error" \in DOMAIN Error
  BY DEF Error
<1>. QED BY <1>1, <1>2, StreamAssumption

\* After the last word only boards of the end are sent, and those held before.
LEMMA LastWordStep ==
    ASSUME IInv, [Next]_vars
    PROVE  LastWordHeard'
<1> SUFFICES ASSUME ending'.at \in {"sent", "closed"}
             PROVE  NewestIn(inbox', shown', ending'.old \cup Overs)
  BY DEF LastWordHeard, Overs
<1> DEFINE S == ending.old \cup Overs
<1>1. Types /\ Error \notin Overs /\ None \in Overs /\ \A b \in Boards : b.over => b \in Overs
  BY NoneNot DEF IInv, Overs
<1>2. CASE LastWord
  <2>1. ending.at = "rating" /\ Live
    BY <1>1, <1>2, EndingFields DEF LastWord, Live
  <2>2. ending.snap \in Boards /\ ending.snap.over
    BY <2>1 DEF IInv, OlderKnown, Within, Types, Endings
  <2>3. CASE present
    <3>1. Send(ending.snap) /\ shown' = shown /\ ending.snap \in Overs
      BY <1>1, <1>2, <2>2, <2>3 DEF LastWord
    <3>. QED BY <1>1, <2>2, <3>1, NewestSent DEF Send, Types, Message
  <2>4. CASE ~present
    <3>1. inbox = <<>> /\ shown = None /\ inbox' = inbox /\ shown' = shown
      BY <1>2, <2>1, <2>4 DEF IInv, Absent, LastWord
    <3>. QED BY <1>1, <3>1 DEF NewestIn
  <2>. QED BY <2>3, <2>4
<1>3. CASE ~LastWord
  <2>1. ending.at \in {"sent", "closed"}
    <3>1. CASE Close
      BY <1>1, <3>1, EndingFields DEF Close
    <3>2. CASE Resign
      BY <3>2 DEF Resign
    <3>3. CASE Rate \/ RatingFails
      BY <1>1, <3>3, EndingFields
    <3>. QED BY <1>3, <3>1, <3>2, <3>3, EndingSteps
  <2>2. NewestIn(inbox, shown, S) /\ Within(S, loop, handler, ending) /\ Snapshot.over
    BY <2>1, SnapshotOver DEF IInv, LastWordHeard, OlderKnown
  <2>3. Snapshot \in Boards /\ Snapshot \in S
    BY <1>1, <2>2, SnapshotBoard
  <2>4. ending'.old = ending.old /\ ending.old \subseteq Boards /\ Error \notin S
    BY <1>1, <1>3, <2>1, OverStep, NoneNot DEF Types, Endings
  <2>5. loop.at = "sending" => loop.snap \in Message \cap S
    BY <1>1, <2>2 DEF Types, Loops, Message, Within
  <2>6. \A p \in Player : handler[p].at = "sending" => handler[p].snap \in Message \cap S
    BY <1>1, <2>2 DEF Types, Handlers, Message, Within
  <2>7. \/ UNCHANGED <<inbox, shown>>
        \/ shown' = shown /\ \E m \in Message : (m \in S \/ m = Error) /\ Send(m)
        \/ Receive
    <3>1. Snapshot \in Message /\ Error \in Message
      BY <2>3 DEF Message
    <3> HIDE DEF S
    <3>. QED BY <1>1, <1>3, <2>3, <2>5, <2>6, <3>1, Sends
  <2>8. NewestIn(inbox', shown', S)
    <3> HIDE DEF S
    <3>. QED BY <1>1, <2>2, <2>4, <2>7, NewestKept
  <2>. QED BY <2>4, <2>8
<1>. QED BY <1>2, <1>3

\* A piece that is seen to wait has nothing left.
LEMMA PieceFacts ==
    ASSUME NEW q \in Piece
    PROVE  /\ q.left \in Nat /\ (q.left = 0 <=> q.state \in {"idle", "captured"})
           /\ Seen(q).state = q.state
           /\ q.left = 0 => Advanced(q) = q
           /\ q.left > 1 => Advanced(q).left = q.left - 1
           /\ q.state \in {"moving", "airborne"} /\ q.left = 1 => Advanced(q).left = RestTicks
<1>1. q.left \in Nat /\ (q.left = 0 <=> q.state \in {"idle", "captured"})
  BY DEF Piece
<1>2. Seen(q).state = q.state
  BY DEF Seen, Piece
<1>3. q.left = 0 => Advanced(q) = q
  BY <1>1 DEF Advanced
<1>4. q.left > 1 => Advanced(q).left = q.left - 1
  BY <1>1 DEF Advanced, Piece
<1>5. q.state \in {"moving", "airborne"} /\ q.left = 1 => Advanced(q).left = RestTicks
  BY <1>1 DEF Advanced, Landed
<1>. QED BY <1>1, <1>2, <1>3, <1>4, <1>5

\* A handler that has not answered is as old as before, or one tick older.
LEMMA HurriedTick ==
    ASSUME IInv, Tick
    PROVE  Hurried'
<1> SUFFICES ASSUME NEW p \in Player, handler'[p].at \in {"accepted", "built", "sending"}
             PROVE  /\ handler'[p].age <= Patience
                    /\ \E q \in Player : board'[q].left + handler'[p].age > Patience
  BY DEF Hurried
<1>1. Types /\ Patience \in Nat /\ RestTicks \in Nat /\ Patience <= RestTicks
  BY StreamAssumption DEF IInv
<1>2. /\ handler[p].at \in {"accepted", "built", "sending"}
      /\ handler[p].age \in Nat /\ handler[p].age < Patience
      /\ handler'[p].age = handler[p].age + 1
  <2>1. handler[p] \in Handlers /\ handler[p].age \in Nat /\ handler[p].age < Patience
    BY <1>1 DEF Tick, Types, Handlers
  <2>2. handler'[p] = IF handler[p].at \in {"accepted", "built", "sending"}
                      THEN [handler[p] EXCEPT !.age = @ + 1]
                      ELSE handler[p]
    BY DEF Tick
  <2>3. [handler[p] EXCEPT !.age = @ + 1].age = handler[p].age + 1
    BY <2>1 DEF Handlers
  <2>. QED BY <2>1, <2>2, <2>3
<1>3. PICK q \in Player : board[q].left + handler[p].age > Patience
  BY <1>2 DEF IInv, Hurried
<1>4. board[q] \in Piece /\ board[q].left \in Nat /\ board[q].left > 1
  <2>1. board[q] \in Piece
    BY <1>1 DEF Types
  <2>2. board[q].left \in Nat
    BY <2>1, PieceFacts
  <2>. QED BY <1>1, <1>2, <1>3, <2>1, <2>2
<1>5. PICK victims \in {{}} \cup {{v} : v \in Victims} : Ticked(victims)
  BY <1>1, TickBoard
<1>6. CASE q \notin victims
  <2>1. board'[q].left = board[q].left - 1
    BY <1>4, <1>5, <1>6, PieceFacts DEF Ticked
  <2>. QED BY <1>1, <1>2, <1>3, <1>4, <2>1
<1>7. CASE q \in victims
  <2>1. victims = {q} /\ Arriving # {}
    BY <1>5, <1>7 DEF Victims
  <2>2. PICK r \in Player : board[r].state = "moving" /\ board[r].left = 1
    BY <2>1 DEF Arriving
  <2>3. r \notin victims /\ board[r] \in Piece
    BY <1>1, <1>4, <2>1, <2>2 DEF Types
  <2>4. board'[r].left = RestTicks
    BY <1>5, <2>2, <2>3, PieceFacts DEF Ticked
  <2>. QED BY <1>1, <1>2, <2>4
<1>. QED BY <1>6, <1>7

\* An answer gets older by a tick, and so does the motion it is about.
LEMMA HurriedStep ==
    ASSUME IInv, [Next]_vars
    PROVE  Hurried'
<1>1. Types /\ Hurried
  BY DEF IInv
<1>2. ASSUME NEW p \in Player, Command(p)
      PROVE  Hurried'
  <2>1. CASE UNCHANGED <<board, handler>>
    BY <1>1, <2>1 DEF Hurried
  <2>2. CASE Reject(p)
    <3>1. UNCHANGED board /\ \E h : h.at = "rejected" /\ Goes(p, h)
      BY <2>2 DEF Reject, Still
    <3>. QED BY <1>1, <3>1, GoesElsewhere DEF Hurried
  <2>3. CASE Accept(p)
    <3>1. PICK piece \in {Moving, Jumping} : board' = [board EXCEPT ![p] = piece]
      BY <2>3 DEF Accept
    <3>2. piece.left \in Nat /\ piece.left > Patience /\ Patience \in Nat
      BY StreamAssumption DEF Moving, Jumping
    <3>3. board[p].left = 0
      BY <1>1, <2>3, PieceFacts DEF Accept, Types
    <3>4. \E h : h.age = 0 /\ Goes(p, h)
      BY <2>3 DEF Accept, Still
    <3>5. handler'[p].age = 0 /\ board'[p] = piece
      BY <1>1, <3>1, <3>4, GoesElsewhere DEF Types
    <3>6. ASSUME NEW q \in Player, q # p, handler'[q].at \in {"accepted", "built", "sending"}
          PROVE  /\ handler'[q].age <= Patience
                 /\ \E r \in Player : board'[r].left + handler'[q].age > Patience
      <4>1. handler'[q] = handler[q]
        BY <1>1, <3>4, <3>6, GoesElsewhere
      <4>2. PICK r \in Player : board[r].left + handler[q].age > Patience
        BY <1>1, <3>6, <4>1 DEF Hurried
      <4>3. handler[q].age \in Nat /\ handler[q].age <= Patience
        BY <1>1, <3>6, <4>1 DEF Hurried, Types, Handlers
      <4>4. r # p
        BY <3>2, <3>3, <4>2, <4>3
      <4>. QED BY <1>1, <3>1, <4>1, <4>2, <4>3, <4>4 DEF Types
    <3>. QED BY <3>2, <3>5, <3>6 DEF Hurried
  <2>. QED BY <1>2, <2>1, <2>2, <2>3 DEF Command, Unreadable, Refuse
<1>3. ASSUME NEW p \in Player, Build(p) \/ BroadcastStarts(p) \/ Reply(p)
      PROVE  Hurried'
  <2>1. board' = board
    BY <1>3 DEF Build, BroadcastStarts, Reply
  <2>2. \/ Goes(p, Still)
        \/ \E h : /\ Goes(p, h) /\ h.age = handler[p].age
                  /\ handler[p].at \in {"accepted", "built", "sending"}
    <3>1. CASE Build(p)
      <4> DEFINE f == [handler[p] EXCEPT !.at = "built", !.snap = Snapshot]
      <4>1. f.age = handler[p].age
        BY <1>1, BuiltFields DEF Types
      <4>2. Goes(p, f) /\ handler[p].at = "accepted"
        BY <3>1 DEF Build, Published
      <4> HIDE DEF f
      <4>. QED BY <4>1, <4>2
    <3>2. CASE BroadcastStarts(p)
      <4> DEFINE f == [handler[p] EXCEPT !.at = "sending"]
      <4>1. f.age = handler[p].age
        BY <1>1 DEF Types, Handlers
      <4>2. (Goes(p, f) \/ Goes(p, Still)) /\ handler[p].at = "built"
        BY <3>2 DEF BroadcastStarts, Published
      <4> HIDE DEF f
      <4>. QED BY <4>1, <4>2
    <3>3. CASE Reply(p)
      BY <3>3 DEF Reply
    <3>. QED BY <1>3, <3>1, <3>2, <3>3
  <2>. QED BY <1>1, <2>1, <2>2, GoesElsewhere DEF Hurried, Still
<1>4. CASE Join \/ Welcome
  <2>1. Me \in Player /\ UNCHANGED board /\ \E h : h.at \in {"idle", "joining"} /\ Goes(Me, h)
    BY <1>4 DEF Join, Welcome, Still, Player
  <2>. QED BY <1>1, <2>1, GoesElsewhere DEF Hurried
<1>5. CASE Ticks \/ Resign \/ Rate \/ RatingFails \/ LastWord \/ Close \/ Receive \/ UNCHANGED vars
  <2>1. UNCHANGED <<board, handler>>
    BY <1>5 DEF Ticks, Resign, Rate, RatingFails, LastWord, Close, Receive, vars
  <2>. QED BY <1>1, <2>1 DEF Hurried
<1>. QED BY HurriedTick, <1>2, <1>3, <1>4, <1>5 DEF Next

\* While the tick loop has said nothing of it, the board moves by commands only.
LEMMA FollowedStep ==
    ASSUME IInv, [Next]_vars
    PROVE  Followed'
<1> SUFFICES ASSUME Live', Coming' # None
             PROVE  Behind(Coming)'
  BY DEF Followed
<1>1. Types /\ Live
  BY LiveStep DEF IInv
<1>2. CASE Tick
  <2>1. Coming' = Snapshot'
    BY <1>1, <1>2, TickSends DEF Coming
  <2>. QED BY <2>1 DEF Behind, Snapshot, Picture
<1>3. CASE Ticks
  <2>1. Coming' = Coming
    <3>1. loop.at = "sending" /\ last' = loop.snap /\ loop'.at # "sending"
      BY <1>1, <1>3, Records DEF Ticks
    <3>. QED BY <3>1 DEF Coming
  <2>2. Behind(Coming)
    BY <1>1, <2>1 DEF IInv, Followed
  <2>3. UNCHANGED <<board, stats, over, ending>>
    BY <1>3 DEF Ticks
  <2>. QED BY <2>1, <2>2, <2>3 DEF Behind
<1>4. ASSUME UNCHANGED <<loop, last>>
      PROVE  Coming' = Coming /\ Behind(Coming)
  <2>1. Coming' = Coming
    BY <1>4 DEF Coming
  <2>. QED BY <1>1, <2>1 DEF IInv, Followed
<1>5. ASSUME NEW p \in Player, Accept(p), Command(p)
      PROVE  Behind(Coming)'
  <2>1. UNCHANGED <<stats, over, loop, last, ending>>
    BY <1>5 DEF Command
  <2>2. PICK piece \in {Moving, Jumping} : board' = [board EXCEPT ![p] = piece]
    BY <1>5 DEF Accept
  <2>3. Coming' = Coming /\ Behind(Coming)
    BY <1>4, <2>1
  <2>4. Coming.pieces[p].state = "idle" /\ board'[p] \in {Moving, Jumping}
    <3>1. board[p].state = "idle" /\ board[p] \in Piece
      BY <1>1, <1>5 DEF Accept, Types
    <3>2. board[p] \notin {Moving, Jumping}
      BY <3>1 DEF Moving, Jumping
    <3>3. Coming.pieces[p] = Seen(board[p])
      BY <2>3, <3>2 DEF Behind
    <3>. QED BY <1>1, <2>2, <3>1, <3>3, PieceFacts DEF Types
  <2>5. \A q \in Player : q # p => board'[q] = board[q]
    BY <1>1, <2>2 DEF Types
  <2>. QED BY <2>1, <2>3, <2>4, <2>5 DEF Behind
<1>6. CASE Resign
  <2>1. UNCHANGED <<board, stats, loop, last>> /\ over' /\ ending'.at # "none"
    BY <1>6 DEF Resign
  <2>. QED BY <1>4, <2>1 DEF Behind
<1>7. ASSUME UNCHANGED <<board, stats, over, loop, last>>, ending'.at = "none" => ending.at = "none"
      PROVE  Behind(Coming)'
  BY <1>4, <1>7 DEF Behind
<1>8. CASE Rate \/ RatingFails \/ LastWord
  <2>1. UNCHANGED <<board, stats, over, loop, last>>
    BY <1>8 DEF Rate, RatingFails, LastWord
  <2>2. ending'.at # "none"
    BY <1>1, <1>8, EndingFields
  <2>. QED BY <1>7, <2>1, <2>2
<1>9. ~Close
  BY <1>1, EndingFields DEF Live
<1>10. CASE Join \/ Welcome \/ Receive \/ UNCHANGED vars
  <2>1. UNCHANGED <<board, stats, over, loop, last, ending>>
    BY <1>10 DEF Join, Welcome, Receive, vars
  <2>. QED BY <1>7, <2>1
<1>11. ASSUME NEW p \in Player, Build(p) \/ BroadcastStarts(p) \/ Reply(p)
       PROVE  Behind(Coming)'
  <2>1. UNCHANGED <<board, stats, over, loop, last, ending>>
    BY <1>11 DEF Build, BroadcastStarts, Reply
  <2>. QED BY <1>7, <2>1
<1>12. ASSUME NEW p \in Player, Command(p), ~Accept(p)
       PROVE  Behind(Coming)'
  <2>1. UNCHANGED <<board, stats, over, loop, last, ending>>
    BY <1>12 DEF Command, Unreadable, Refuse, Reject
  <2>. QED BY <1>7, <2>1
<1>. QED BY <1>2, <1>3, <1>5, <1>6, <1>8, <1>9, <1>10, <1>11, <1>12 DEF Next

-----------------------------------------------------------------------------
(* The newest board of a client that is there.                             *)

\* A board the tick loop took is the board, when nothing moved since and nobody
\* has resigned.
LEMMA BehindResting ==
    ASSUME Types, Resting, NEW s \in Boards, Behind(s), s.over = over
    PROVE  s = Snapshot
<1>1. ASSUME NEW p \in Player
      PROVE  s.pieces[p] = Seen(board[p])
  <2>1. board[p].left = 0
    BY DEF Resting
  <2>2. board[p] \notin {Moving, Jumping}
    BY <2>1, StreamAssumption DEF Moving, Jumping
  <2>. QED BY <2>2 DEF Behind
<1>2. s.pieces = [p \in Player |-> Seen(board[p])]
  BY <1>1 DEF Boards
<1>3. s = [pieces |-> s.pieces, stats |-> s.stats, over |-> s.over]
  BY DEF Boards
<1>. QED BY <1>2, <1>3 DEF Behind, Snapshot, Picture

\* A tick that shows what the one before it showed has moved nothing.
LEMMA TickIdle ==
    ASSUME Types, Tick, Behind(last), Snapshot' = last, Resting'
    PROVE  Resting /\ Snapshot' = Snapshot
<1>1. PICK victims \in {{}} \cup {{v} : v \in Victims} :
         Ticked(victims) /\ over' \in BOOLEAN /\ (over => over') /\ stats' \in Tally
  BY TickBoard
<1>2. last.stats = stats' /\ last.over = over' /\ last.pieces = [p \in Player |-> Seen(board'[p])]
  BY DEF Snapshot, Picture
<1>3. stats' = stats /\ over' = over
  BY <1>1, <1>2 DEF Behind, Types
<1>4. ASSUME NEW p \in Player
      PROVE  board[p].left = 0 /\ board'[p] = board[p]
  <2>1. board[p] \in Piece /\ board'[p] \in Piece /\ board'[p].left = 0
    BY TickBoard DEF Types, Resting
  <2>2. last.pieces[p].state = board'[p].state
    BY <1>2, <2>1, PieceFacts
  <2>3. \/ board'[p].state = board[p].state
        \/ board'[p].state = "idle" /\ board[p] \in {Moving, Jumping}
    BY <2>1, <2>2, PieceFacts DEF Behind
  <2>4. CASE p \in victims
    <3>1. board'[p].state = "captured" /\ board[p].state # "captured"
      BY <1>1, <2>4 DEF Ticked, Fallen, Victims
    <3>. QED BY <2>3, <3>1
  <2>5. CASE p \notin victims
    <3>1. board'[p] = Advanced(board[p])
      BY <1>1, <2>5 DEF Ticked
    <3>2. board[p].left = 0
      <4>1. CASE board[p].left > 1
        <5>1. board'[p].left = board[p].left - 1
          BY <2>1, <3>1, <4>1, PieceFacts
        <5>. QED BY <2>1, <4>1, <5>1, PieceFacts
      <4>2. CASE board[p].left = 1
        <5>1. board[p].state \notin {"moving", "airborne"}
          BY <2>1, <3>1, <4>2, PieceFacts, StreamAssumption
        <5>2. board'[p].state = "idle"
          BY <3>1, <4>2, <5>1 DEF Advanced, Landed
        <5>3. board[p].state = "resting"
          BY <2>1, <4>2, <5>1 DEF Piece
        <5>. QED BY <2>3, <5>1, <5>2, <5>3 DEF Moving, Jumping
      <4>. QED BY <2>1, <4>1, <4>2, PieceFacts
    <3>. QED BY <2>1, <3>1, <3>2, PieceFacts
  <2>. QED BY <2>4, <2>5
<1>5. board' = board
  BY <1>4, TickBoard DEF Types
<1>. QED BY <1>3, <1>4, <1>5 DEF Resting, Snapshot, Picture

\* Nothing happened but that a message was read or a refusal sent.
LEMMA CaughtKept ==
    ASSUME Types, Caught,
           UNCHANGED <<board, stats, over, loop, last, present>>,
           ending'.at \notin {"sent", "closed"} => ending.at \notin {"sent", "closed"},
           ending.at # "none" => ending'.at # "none",
           handler[Me].at = "joining" => handler'[Me].at = "joining",
           \/ UNCHANGED <<inbox, shown>>
           \/ shown' = shown /\ Send(Error)
           \/ Receive
    PROVE  Caught'
<1>1. Snapshot' = Snapshot /\ Coming' = Coming /\ (Resting' <=> Resting)
  BY DEF Snapshot, Picture, Coming, Resting
<1>2. Error \notin {Snapshot} /\ Error \in Message
  BY SnapshotBoard, NoneNot DEF Message
<1>3. NewestIn(inbox, shown, {Snapshot}) => NewestIn(inbox', shown', {Snapshot})
  BY <1>2, NewestKept
<1>. QED BY <1>1, <1>3 DEF Caught

\* A tick that changes the board announces it.
LEMMA CaughtTick ==
    ASSUME IInv, Tick
    PROVE  Caught'
<1>1. Types /\ UNCHANGED <<ending, present, inbox, shown>>
  BY DEF IInv, Tick
<1>2. CASE loop' = [at |-> "sending", snap |-> Snapshot', heard |-> present]
  <2>1. present' => loop'.at = "sending" /\ loop'.heard /\ loop'.snap = Snapshot'
    BY <1>1, <1>2
  <2>. QED BY <2>1 DEF Caught
<1>3. CASE Snapshot' = last /\ UNCHANGED <<loop, last>>
  <2> SUFFICES ASSUME Resting', ending.at # "closed"
               PROVE  Caught'
    BY <1>1 DEF Caught
  <2>1. loop.at = "asleep" /\ Snapshot' \in Boards
    BY <1>1, TickSends
  <2>2. Coming = last /\ Coming' = last /\ last # None
    BY <1>3, <2>1, NoneNot DEF Coming
  <2>3. Behind(last)
    BY <2>2 DEF IInv, Followed, Live
  <2>4. Resting /\ Snapshot' = Snapshot
    BY <1>1, <1>3, <2>3, TickIdle
  <2>5. handler'[Me].at = handler[Me].at
    BY <1>1, Records DEF Tick, Player
  <2>6. Caught
    BY DEF IInv
  <2>. QED BY <1>1, <1>3, <2>2, <2>4, <2>5, <2>6 DEF Caught
<1>. QED BY <1>1, <1>2, <1>3, TickSends

\* A broadcast ends with the newest board on its way.
LEMMA CaughtTicks ==
    ASSUME IInv, Ticks
    PROVE  Caught'
<1>1. Types /\ Caught
  BY DEF IInv
<1>2. UNCHANGED <<board, stats, over, handler, ending, present, shown>> /\ loop.at = "sending"
  BY DEF Ticks
<1>3. loop'.at = "asleep" /\ ~loop'.heard /\ last' = loop.snap
  BY <1>1, Records DEF Ticks
<1>4. Coming' = Coming /\ Coming = loop.snap
  BY <1>2, <1>3 DEF Coming
<1>5. Snapshot' = Snapshot /\ (Resting' <=> Resting)
  BY <1>2 DEF Snapshot, Picture, Resting
<1>6. loop.heard => NewestIn(inbox', shown', {loop.snap})
  <2>1. loop.snap \in Message /\ (loop.heard => Send(loop.snap))
    BY <1>1, <1>2 DEF Ticks, Types, Loops, Message
  <2>. QED BY <1>1, <1>2, <2>1, NewestSent DEF Send, Types
<1>7. ~loop.heard => inbox' = inbox
  BY DEF Ticks
<1>. QED BY <1>1, <1>2, <1>3, <1>4, <1>5, <1>6, <1>7 DEF Caught

\* A command puts the board to work.
LEMMA CaughtCommand ==
    ASSUME IInv, NEW p \in Player, Command(p)
    PROVE  Caught'
<1>1. Types /\ Caught /\ handler[p].at = "idle"
  BY DEF IInv, Command
<1>2. UNCHANGED <<stats, over, loop, last, ending, present, shown>>
  BY DEF Command
<1>3. CASE Accept(p)
  <2>1. PICK piece \in {Moving, Jumping} : board' = [board EXCEPT ![p] = piece]
    BY <1>3 DEF Accept
  <2>2. board'[p].left # 0
    BY <1>1, <2>1, StreamAssumption DEF Types, Moving, Jumping
  <2>. QED BY <2>2 DEF Caught, Resting
<1>4. CASE Refuse(p) \/ Reject(p)
  <2>1. board' = board /\ (UNCHANGED <<inbox, shown>> \/ (shown' = shown /\ Send(Error)))
    BY <1>2, <1>4 DEF Refuse, Reject
  <2>2. handler[Me].at = "joining" => handler'[Me].at = "joining"
    <3>1. handler' = handler \/ \E h : Goes(p, h)
      BY <1>4 DEF Refuse, Reject
    <3>. QED BY <1>1, <3>1, GoesElsewhere DEF Player
  <2>. QED BY <1>1, <1>2, <2>1, <2>2, CaughtKept
<1>. QED BY <1>3, <1>4 DEF Command, Unreadable

\* An answer is sent while there is work to do.
LEMMA CaughtHandler ==
    ASSUME IInv, NEW p \in Player, Build(p) \/ BroadcastStarts(p) \/ Reply(p)
    PROVE  Caught'
<1>1. Types /\ Caught
  BY DEF IInv
<1>2. UNCHANGED <<board, stats, over, loop, last, ending, present, shown>>
  BY DEF Build, BroadcastStarts, Reply
<1>3. handler[p].at \in {"accepted", "built", "sending", "rejected"} /\ \E h : Goes(p, h)
  BY DEF Build, BroadcastStarts, Reply, Published
<1>4. handler[Me].at = "joining" => handler'[Me].at = "joining"
  BY <1>1, <1>3, GoesElsewhere DEF Player
<1>5. CASE Reply(p) /\ handler[p].at = "sending"
  <2>1. PICK q \in Player : board[q].left + handler[p].age > Patience /\ handler[p].age <= Patience
    BY <1>5 DEF IInv, Hurried
  <2>2. handler[p].age \in Nat /\ board[q].left \in Nat
    BY <1>1, PieceFacts DEF Types, Handlers
  <2>3. board[q].left # 0
    BY <2>1, <2>2, StreamAssumption
  <2>. QED BY <1>2, <2>3 DEF Caught, Resting
<1>6. CASE ~(Reply(p) /\ handler[p].at = "sending")
  <2>1. UNCHANGED <<inbox, shown>> \/ (shown' = shown /\ Send(Error))
    BY <1>2, <1>6 DEF Build, BroadcastStarts, Reply
  <2>. QED BY <1>1, <1>2, <1>4, <2>1, CaughtKept
<1>. QED BY <1>5, <1>6

\* Whoever joins is shown the board.
LEMMA CaughtWelcome ==
    ASSUME IInv, Welcome
    PROVE  Caught'
<1> SUFFICES ASSUME Resting', ending'.at \notin {"sent", "closed"}, ending'.at = "none" \/ Coming' = Snapshot'
             PROVE  \/ loop'.at = "sending" /\ loop'.heard /\ loop'.snap = Snapshot'
                    \/ NewestIn(inbox', shown', {Snapshot'}) /\ ~loop'.heard
  BY DEF Caught
<1>1. Types /\ UNCHANGED <<board, stats, over, loop, last, ending, present, shown>> /\ Send(Snapshot)
  BY DEF IInv, Welcome
<1>2. Snapshot' = Snapshot /\ Coming' = Coming /\ Resting
  BY <1>1 DEF Snapshot, Picture, Coming, Resting
<1>3. NewestIn(inbox', shown', {Snapshot})
  BY <1>1, SnapshotBoard, NewestSent DEF Send, Types, Message
<1>4. CASE loop.heard
  <2>1. loop.at = "sending" /\ Coming = loop.snap /\ loop.snap \in Boards
    <3>1. loop.at = "sending" /\ loop.snap \in Boards
      BY <1>1, <1>4 DEF Types, Loops
    <3>. QED BY <3>1 DEF Coming
  <2>2. loop.snap = Snapshot
    <3>1. CASE ending.at = "none"
      <4>1. Behind(loop.snap)
        BY <1>1, <2>1, <3>1, NoneNot DEF IInv, Followed, Live
      <4>. QED BY <1>1, <1>2, <2>1, <3>1, <4>1, BehindResting DEF Behind
    <3>2. CASE ending.at # "none"
      BY <1>1, <1>2, <2>1, <3>2
    <3>. QED BY <3>1, <3>2
  <2>. QED BY <1>1, <1>2, <1>4, <2>1, <2>2
<1>. QED BY <1>1, <1>2, <1>3, <1>4

\* A resignation changes the board before its last word.
LEMMA CaughtEnding ==
    ASSUME IInv, Resign \/ Rate \/ RatingFails \/ LastWord \/ Close
    PROVE  Caught'
<1>1. Types /\ Caught
  BY DEF IInv
<1>2. CASE Resign
  <2>1. /\ UNCHANGED <<board, stats, loop, last, handler, present, inbox, shown>>
        /\ over' = TRUE /\ ending.at = "none" /\ ending'.at = "publishing"
    BY <1>2 DEF Resign
  <2>2. CASE Coming = Snapshot'
    <3>1. Coming \in Boards
      BY <1>1, <2>2, <2>1, PictureBoard DEF Snapshot, Types
    <3>2. Behind(Coming)
      BY <2>1, <3>1, NoneNot DEF IInv, Followed, Live
    <3>3. over = TRUE
      BY <1>1, <2>1, <2>2, <3>2 DEF Behind, Snapshot, Picture, Types
    <3>. QED BY <1>1, <2>1, <3>3, CaughtKept
  <2>3. CASE Coming # Snapshot'
    <3>1. Coming' = Coming
      BY <2>1 DEF Coming
    <3>. QED BY <2>1, <2>3, <3>1 DEF Caught
  <2>. QED BY <2>2, <2>3
<1>3. CASE Rate \/ RatingFails
  <2>1. UNCHANGED <<board, stats, over, loop, last, handler, present, inbox, shown>>
        /\ ending.at \in {"publishing", "rating"}
    BY <1>3 DEF Rate, RatingFails
  <2>2. ending'.at \in {"rating", "failed"}
    BY <1>1, <1>3, EndingFields
  <2>. QED BY <1>1, <2>1, <2>2, CaughtKept
<1>4. CASE LastWord \/ Close
  <2>1. ending'.at \in {"sent", "closed"}
    BY <1>1, <1>4, EndingFields
  <2>. QED BY <2>1 DEF Caught
<1>. QED BY <1>2, <1>3, <1>4

\* Every step keeps the client caught up.
LEMMA CaughtStep ==
    ASSUME IInv, [Next]_vars
    PROVE  Caught'
<1>1. Types /\ Caught
  BY DEF IInv
<1>2. CASE Join
  <2>1. Goes(Me, [Still EXCEPT !.at = "joining"]) /\ Me \in Player
    BY <1>2 DEF Join, Player
  <2>2. handler'[Me].at = "joining"
    BY <1>1, <2>1, GoesElsewhere DEF Still
  <2>. QED BY <2>2 DEF Caught
<1>3. CASE Receive \/ UNCHANGED vars
  <2>1. UNCHANGED <<board, stats, over, loop, last, handler, ending, present>>
    BY <1>3 DEF Receive, vars
  <2>2. UNCHANGED <<inbox, shown>> \/ Receive
    BY <1>3 DEF vars
  <2>. QED BY <1>1, <2>1, <2>2, CaughtKept
<1>. QED
  BY <1>2, <1>3, CaughtTick, CaughtTicks, CaughtCommand, CaughtHandler, CaughtWelcome, CaughtEnding
     DEF Next

-----------------------------------------------------------------------------

\* The invariant holds of every behaviour.
THEOREM Invariance == Spec => []IInv
<1>1. IInv /\ [Next]_vars => IInv'
  BY TypesStep, StoppedStep, AbsentStep, OlderKnownStep, LastWordStep, HurriedStep,
     FollowedStep, CaughtStep DEF IInv
<1>. QED BY InitInvariant, <1>1, PTL DEF Spec

\* Whatever was overtaken on the way, and whenever it joined, a client shows the
\* board once the server has nothing more to say (server/session/tick_loop.py,
\* server/network/ws_gateway.py).
THEOREM QuietViews == Spec => []QuietViewsCurrent
<1>1. IInv => QuietViewsCurrent
  <2> SUFFICES ASSUME IInv, Silent, present
               PROVE  shown = Snapshot
    BY DEF QuietViewsCurrent
  <2>1. Types /\ Caught /\ Resting /\ inbox = <<>> /\ loop.at = "asleep" /\ handler[Me].at = "idle"
    BY DEF IInv, Silent, Resting, Player
  <2>2. ending.at = "none" \/ (ending.at = "failed" /\ Coming = Snapshot)
    BY <2>1 DEF Silent, Coming
  <2>3. NewestIn(inbox, shown, {Snapshot})
    BY <2>1, <2>2 DEF Caught
  <2>. QED BY <2>1, <2>3, NewestShown
<1>. QED BY <1>1, Invariance, PTL

\* The last word is heard: a client of a room that is gone, to whom nothing is on
\* its way, shows a game that is over, or else a board that was being sent before
\* the resignation and still was after its last word; if it shows any
\* (server/session/disconnect_coordinator.py).
THEOREM EndIsSeen == Spec => []EndSeen
<1>1. IInv => EndSeen
  <2> SUFFICES ASSUME IInv, ending.at = "closed", inbox = <<>>, shown # None
               PROVE  shown.over \/ shown \in ending.old
    BY DEF EndSeen
  <2>1. NewestIn(<<>>, shown, ending.old \cup Overs)
    BY DEF IInv, LastWordHeard
  <2>2. shown \in ending.old \cup Overs
    BY <2>1, NewestShown
  <2>. QED BY <2>2 DEF Overs
<1>. QED BY <1>1, Invariance, PTL
=============================================================================
