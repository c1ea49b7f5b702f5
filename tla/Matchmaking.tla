---------------------------- MODULE Matchmaking -----------------------------
(***************************************************************************)
(* The matchmaking queue, the loop that serves it and the hand-over of a   *)
(* match into a room: server/matchmaking/ with the commands and the        *)
(* connection handler of server/network/ws_gateway.py that reach it.       *)
(*                                                                         *)
(* The loop is one asyncio task.  It looks at the queue when it wakes, and *)
(* then waits for every message it sends: between two of its steps the     *)
(* connections go on searching, cancelling and closing.  A step here is    *)
(* what the loop does from one of those waits to the next.                 *)
(*                                                                         *)
(* Time is counted in the loop's own intervals.  A client searches again   *)
(* only when its last search is over (client/pregame.py), and plays once.  *)
(* Bounds: a connection id is used once, and a name is logged in once.     *)
(***************************************************************************)
EXTENDS Integers, SequencesExt

CONSTANTS
    Conn,         \* connection ids
    User,         \* user names
    Name,         \* the name each connection logs in with
    Rating,       \* each user's rating
    Cancels,      \* the connections whose user may cancel a search
    Ghosts,       \* bound: the connections whose tear-down may fail
    EloRange, WidenStep,
    Timeout,      \* timeout_ms, in intervals
    MaxLag        \* bound: the intervals by which the loop may wake late

ASSUME ConstantAssumption ==
    /\ Name \in [Conn -> User]
    /\ Rating \in [User -> Int]
    /\ Cancels \subseteq Conn /\ Ghosts \subseteq Conn
    /\ EloRange \in Nat /\ WidenStep \in Nat
    /\ Timeout \in Nat \ {0}
    /\ MaxLag \in Nat

VARIABLES
    status,   \* where each connection and its client stand
    queue,    \* Matchmaker._queue
    rooms,    \* the players of each room created here, in joining order
    told,     \* the MSG_MATCH_FOUND sent: connection, room and opponent
    loop,     \* where the loop's task stands
    pair,     \* the entries of the match being handed over
    todo,     \* those of them not dealt with yet
    late      \* the entries swept out and not told yet

vars == <<status, queue, rooms, told, loop, pair, todo, late>>

\* A connection is new, anonymous, logged in ("idle"), searching or playing;
\* then "leaving", served no more but still registered, and closed for good; or
\* "stranded", when its tear-down failed: never forgotten, nor served again.
Registered(c) == status[c] \notin {"new", "closed"}
Serves(c) == status[c] \in {"anonymous", "idle", "searching", "playing"}
LoggedIn(c) == status[c] \in {"idle", "searching", "playing"}
Stranded(c) == status[c] = "stranded"

Init ==
    /\ status = [c \in Conn |-> "new"]
    /\ queue = <<>>
    /\ rooms = <<>>
    /\ told = {}
    /\ loop = "off"
    /\ pair = <<>>
    /\ todo = <<>>
    /\ late = <<>>
-----------------------------------------------------------------------------
(* Connections.                                                            *)

\* The first connection starts the loop.  start() does nothing once a task was
\* created, be it finished.
Connect(c) ==
    /\ status[c] = "new"
    /\ status' = [status EXCEPT ![c] = "anonymous"]
    /\ loop' = IF loop = "off" THEN "asleep" ELSE loop
    /\ UNCHANGED <<queue, rooms, told, pair, todo, late>>

Login(c) ==
    /\ status[c] = "anonymous"
    /\ status' = [status EXCEPT ![c] = "idle"]
    /\ UNCHANGED <<queue, rooms, told, loop, pair, todo, late>>

\* The entries of a list at the given positions, in their order: what a list
\* comprehension with a condition leaves.
Keep(entries, positions) ==
    [k \in 1 .. Cardinality(positions) |->
        entries[CHOOSE i \in positions : Cardinality(positions \cap (1 .. i)) = k]]

\* Seeded fault of Cancelled: the older entry of the user stays.
CancelledNever(q, user) == q

\* Matchmaker.cancel
Cancelled(q, user) == Keep(q, {i \in DOMAIN q : q[i].user # user})

\* handle_find_match of a logged-in connection, and Matchmaker.enqueue.
FindMatch(c) ==
    /\ status[c] = "idle"
    /\ status' = [status EXCEPT ![c] = "searching"]
    /\ queue' = Append(Cancelled(queue, Name[c]),
                       [user |-> Name[c], conn |-> c, waited |-> 0])
    /\ UNCHANGED <<rooms, told, loop, pair, todo, late>>

CancelMatch(c) ==
    /\ c \in Cancels
    /\ status[c] = "searching"
    /\ status' = [status EXCEPT ![c] = "idle"]
    /\ queue' = Cancelled(queue, Name[c])
    /\ UNCHANGED <<rooms, told, loop, pair, todo, late>>

Seated(c) == \E r \in DOMAIN rooms : \E i \in DOMAIN rooms[r] : rooms[r][i].conn = c

\* Seeded fault of LeaveQueue: the entry of a closed connection stays.
StayQueued(c) == queue' = queue

\* MatchmakingCoordinator.cancel_by_identity
LeaveQueue(c) == queue' = IF LoggedIn(c) THEN Cancelled(queue, Name[c]) ELSE queue

\* The connection closes.  A player's handler still tells the opponent, which
\* takes time, before it forgets the connection.
Close(c) ==
    /\ Serves(c)
    /\ LeaveQueue(c)
    /\ status' = [status EXCEPT ![c] = IF Seated(c) THEN "leaving" ELSE "closed"]
    /\ UNCHANGED <<rooms, told, loop, pair, todo, late>>

\* Redis is gone when the connection closes: the exception ends its handler,
\* before the entry is cancelled or after it, and nothing is forgotten.
CloseFails(c) ==
    /\ c \in Ghosts
    /\ Serves(c)
    /\ status' = [status EXCEPT ![c] = "stranded"]
    /\ UNCHANGED queue \/ LeaveQueue(c)
    /\ UNCHANGED <<rooms, told, loop, pair, todo, late>>

Forget(c) ==
    /\ status[c] = "leaving"
    /\ status' = [status EXCEPT ![c] = "closed"]
    /\ UNCHANGED <<queue, rooms, told, loop, pair, todo, late>>
-----------------------------------------------------------------------------
(* Matchmaker.find_match and sweep_timeouts.                               *)

\* The intervals that have passed in full: an entry younger than the loop's
\* last look at the clock has a negative age, as in the code.
Whole(e) == e.waited - 1
CurrentRange(e) == EloRange + Whole(e) * WidenStep

Gap(a, b) ==
    IF Rating[a.user] >= Rating[b.user] THEN Rating[a.user] - Rating[b.user]
                                        ELSE Rating[b.user] - Rating[a.user]
Overlap(a, b) == Gap(a, b) <= CurrentRange(a) \/ Gap(a, b) <= CurrentRange(b)

Pairs(q) == {p \in (DOMAIN q) \X (DOMAIN q) : p[1] < p[2] /\ Overlap(q[p[1]], q[p[2]])}
Before(p, o) == p[1] < o[1] \/ (p[1] = o[1] /\ p[2] <= o[2])
FirstPair(q) == CHOOSE p \in Pairs(q) : \A o \in Pairs(q) : Before(p, o)

\* Seeded fault of Unmatched: the first removal shifts the second player.
UnmatchedShifted(q, p) == RemoveAt(RemoveAt(q, p[1]), p[2])

Unmatched(q, p) == Keep(q, DOMAIN q \ {p[1], p[2]})

TimedOut(e) == Whole(e) >= Timeout
-----------------------------------------------------------------------------
(* MatchmakingLoop._run and the coordinator's callbacks.                   *)

\* Seeded fault of Due: whoever has cancelled meanwhile is passed over.
DueSearching(entries) ==
    Keep(entries, {i \in DOMAIN entries : status[entries[i].conn] = "searching"})

\* The entries from the first one whose connection is still registered.
Due(entries) ==
    Keep(entries, {j \in DOMAIN entries : \E i \in 1 .. j : Registered(entries[i].conn)})

\* A search that has its answer is over.
Answered(c, next) == [status EXCEPT ![c] = IF @ = "searching" THEN next ELSE @]

\* Seeded fault of TellTimeout: the entries behind the first one are dropped.
TellTimeoutOnce(entries) ==
    LET due == Due(entries)
    IN  /\ late' = <<>>
        /\ loop' = "asleep"
        /\ status' = IF due = <<>> THEN status ELSE Answered(due[1].conn, "idle")

\* The first entry that is due is told that nobody was found, and the loop
\* waits for the message; when nobody is, the loop goes to sleep.
TellTimeout(entries) ==
    LET due == Due(entries)
    IN  IF due = <<>>
        THEN /\ late' = <<>>
             /\ loop' = "asleep"
             /\ status' = status
        ELSE /\ late' = Tail(due)
             /\ loop' = "sweeping"
             /\ status' = Answered(due[1].conn, "idle")

\* The rest of an iteration, by the clock of its beginning.
Sweep(q) ==
    /\ queue' = Keep(q, {i \in DOMAIN q : ~TimedOut(q[i])})
    /\ TellTimeout(Keep(q, {i \in DOMAIN q : TimedOut(q[i])}))

\* The first entry that is due joins the room, up to the first message of the
\* join; when nobody is, the queue is swept.
HandOver(match, entries, halls, q) ==
    LET due == Due(entries)
    IN  IF due = <<>>
        THEN /\ rooms' = halls
             /\ pair' = <<>>
             /\ todo' = <<>>
             /\ Sweep(q)
        ELSE /\ rooms' = [halls EXCEPT ![Len(halls)] =
                             Append(@, [user |-> due[1].user, conn |-> due[1].conn])]
             /\ pair' = match
             /\ todo' = due
             /\ loop' = "joining"
             /\ queue' = q
             /\ UNCHANGED <<late, status>>

\* Redis is gone when the room is entered in the directory or the connection
\* in the registry: the exception ends the loop, with what it held.
RedisFails(q) ==
    /\ loop' = "dead"
    /\ queue' = q
    /\ pair' = <<>>
    /\ todo' = <<>>
    /\ UNCHANGED <<rooms, late, status>>

\* The loop wakes, an interval or more after it went to sleep.  A match leaves
\* the queue and gets a room before the loop waits again.
Wake ==
    /\ loop = "asleep"
    /\ \E lag \in 0..MaxLag :
          LET aged == [i \in DOMAIN queue |-> [queue[i] EXCEPT !.waited = @ + 1 + lag]]
              p == FirstPair(aged)
              match == <<aged[p[1]], aged[p[2]]>>
          IN  IF Pairs(aged) = {}
              THEN /\ Sweep(aged)
                   /\ UNCHANGED <<rooms, pair, todo>>
              ELSE \/ HandOver(match, match, Append(rooms, <<>>), Unmatched(aged, p))
                   \/ RedisFails(Unmatched(aged, p))
    /\ UNCHANGED told

\* The join is done, or its connection is gone: MSG_MATCH_FOUND goes out.
Announce ==
    /\ loop = "joining"
    /\ loop' = "announcing"
    /\ LET c == todo[1].conn
           opponent == IF todo[1] = pair[1] THEN pair[2].user ELSE pair[1].user
       IN  IF Registered(c)
           THEN /\ told' = told \cup {[conn |-> c, room |-> Len(rooms),
                                       opponent |-> opponent]}
                /\ status' = Answered(c, "playing")
           ELSE UNCHANGED <<told, status>>
    /\ UNCHANGED <<queue, rooms, pair, todo, late>>

\* The message is out: the other player of the match is next.
Continue ==
    /\ loop = "announcing"
    /\ \/ HandOver(pair, Tail(todo), rooms, queue)
       \/ Due(Tail(todo)) # <<>> /\ RedisFails(queue)
    /\ UNCHANGED told

Notify ==
    /\ loop = "sweeping"
    /\ TellTimeout(late)
    /\ UNCHANGED <<queue, rooms, told, pair, todo>>
-----------------------------------------------------------------------------
Connection(c) ==
    \/ Connect(c) \/ Login(c) \/ Close(c) \/ CloseFails(c) \/ Forget(c)
    \/ FindMatch(c) \/ CancelMatch(c)
Loop == Wake \/ Announce \/ Continue \/ Notify

Next == Loop \/ \E c \in Conn : Connection(c)

Spec == Init /\ [][Next]_vars

\* asyncio wakes the loop when its sleep or its message is over.  Nobody has to
\* search, cancel or close.
FairSpec == Spec /\ WF_vars(Loop)
-----------------------------------------------------------------------------
(* Properties.                                                             *)

\* Whoever is in the queue has an open connection that goes by the name of the
\* entry, whichever connection of a user closes, searches or cancels.  Somebody
\* who was gone before the loop woke is matched only after a tear-down that
\* Redis cut short: cancel_by_identity asks it who the connection is.
EntryBacked ==
    \A i \in DOMAIN queue :
        LET e == queue[i]
        IN  /\ LoggedIn(e.conn) \/ Stranded(e.conn)
            /\ Name[e.conn] = e.user
            /\ \A j \in DOMAIN queue : queue[j].user = e.user => j = i

\* The loop joins two different users to a matchmade room, and whoever is told
\* of it has a seat there and the other user's name: nobody is matched with
\* itself, though it may search from two connections, and nobody is joined as
\* a third.  Who joins the room by its id is not the loop's doing.
RoomOfTwo ==
    /\ \A r \in DOMAIN rooms :
          /\ Len(rooms[r]) <= 2
          /\ Len(rooms[r]) = 2 => rooms[r][1].user # rooms[r][2].user
    /\ \A m \in told :
          /\ m.opponent # Name[m.conn]
          /\ \E i \in DOMAIN rooms[m.room] : rooms[m.room][i].conn = m.conn
          /\ \A i \in DOMAIN rooms[m.room] :
                rooms[m.room][i].user \in {Name[m.conn], m.opponent}

\* The entries of a connection: queued, being handed over or swept out.
Tickets(c) ==
    Cardinality({i \in DOMAIN queue : queue[i].conn = c})
    + Cardinality({i \in DOMAIN todo : todo[i].conn = c /\ ~(i = 1 /\ loop = "announcing")})
    + Cardinality({i \in DOMAIN late : late[i].conn = c})

\* The loop never answers one search twice, nor a search that is over: somebody
\* who does not cancel has at most one entry anywhere, and an entry only while
\* it waits or because it closed.
OneAnswerPerSearch ==
    \A c \in Conn \ Cancels :
        /\ Tickets(c) <= 1
        /\ Tickets(c) = 1 => status[c] \in {"searching", "leaving", "closed", "stranded"}

\* Nobody searches for ever whose name no other connection uses: the search
\* ends with a match, a timeout or a closed connection, unless Redis failed
\* under the loop.
Alone(c) == \A d \in Conn \ {c} : Name[d] # Name[c]
SearchEnds ==
    \A c \in {d \in Conn : Alone(d)} :
        status[c] = "searching" ~> status[c] # "searching" \/ loop = "dead"

\* Who is told of a match has an opponent who is told of the room too, or is
\* next, whether it cancelled meanwhile or not; unless the loop died, or the
\* opponent closed its connection meanwhile: of that nobody is told.
MatchIsMutual ==
    \A m \in told, d \in Conn : m.opponent = Name[d] /\ Alone(d) =>
        \/ \E n \in told : n.conn = d /\ n.room = m.room
        \/ ~Serves(d)
        \/ m.room = Len(rooms) /\ todo # <<>>
        \/ loop = "dead"
=============================================================================
