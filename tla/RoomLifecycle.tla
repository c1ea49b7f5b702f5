---------------------------- MODULE RoomLifecycle ---------------------------
(***************************************************************************)
(* Rooms, players and connections of one server: session/room_manager.py,  *)
(* session/game_session.py, session/disconnect_coordinator.py and          *)
(* session/disconnect_monitor.py over network/connection_registry.py, with *)
(* the commands of network/ws_gateway.py that reach them.                  *)
(*                                                                         *)
(* The server is one asyncio loop.  A step here is what a task does from   *)
(* one await to the next: the handler of a connection serves its commands  *)
(* one after the other, but between two of its steps any other task may    *)
(* run.  Awaits after which a handler touches no state are left out (the   *)
(* messages of a join), those before its first look at the state too.      *)
(*                                                                         *)
(* A session is an object: it lives on in the tasks that hold it after its *)
(* room id is dropped or given to another one.  A connection id is id(ws), *)
(* which a later connection may get again.                                 *)
(***************************************************************************)
EXTENDS FiniteSets, Naturals, Functions

CONSTANTS
    Conn,        \* connection ids
    Room,        \* room ids
    Session,     \* bound: the GameSession objects ever created
    User,        \* the user names that join
    Anonymous,   \* the empty user name
    JoinNames,   \* bound: the names in join commands
    NoRoom, NoSession, NoName

ASSUME NameAssumption ==
    /\ JoinNames \subseteq User \cup {Anonymous}
    /\ Anonymous \notin User
    /\ NoRoom \notin Room
    /\ NoSession \notin Session
    /\ Conn \cap User = {}
    /\ NoName \notin User \cup Conn

VARIABLES
    step,         \* where each connection's handler stands
    subject,      \* the locals of a suspended handler
    roomOf,       \* ConnectionRegistry._conn_to_room
    session,      \* RoomManager._rooms
    created,      \* the sessions that exist
    loops,        \* the sessions whose TickLoop is started and not stopped
    players,      \* GameSession._players: player name |-> record
    pointer,      \* GameSession._conn_to_username
    spectators,   \* GameSession._spectators
    ending,       \* why the session's engine says game over, if it does
    winner,       \* GameEngine._winner_color
    monitors,     \* DisconnectCoordinator._monitors: the timers that sleep
    resigning     \* the _auto_resign calls under way, by room and name

vars == <<step, subject, roomOf, session, created, loops, players, pointer,
          spectators, ending, winner, monitors, resigning>>

Player == User \cup Conn    \* an anonymous player goes by its connection id
Color == {"w", "b"}
Record == [color : Color, conn : Conn]
Key == Room \X Player

Step == {"closed", "ready", "resuming", "leaving"}
Nothing == [room |-> NoRoom, name |-> NoName, session |-> NoSession]

\* An open connection may close or send the next command.
Ready(c) == step[c] = "ready"

\* d[k] = v of a Python dict.
Put(d, k, v) == [x \in DOMAIN d \cup {k} |-> IF x = k THEN v ELSE d[x]]
Without(d, k) == Restrict(d, DOMAIN d \ {k})
Empty == [x \in {} |-> x]
-----------------------------------------------------------------------------
Init ==
    /\ step = [c \in Conn |-> "closed"]
    /\ subject = [c \in Conn |-> Nothing]
    /\ roomOf = [c \in Conn |-> NoRoom]
    /\ session = [r \in Room |-> NoSession]
    /\ created = {}
    /\ loops = {}
    /\ players = [s \in Session |-> Empty]
    /\ pointer = [s \in Session |-> [c \in Conn |-> NoName]]
    /\ spectators = [s \in Session |-> {}]
    /\ ending = [s \in Session |-> "none"]
    /\ winner = [s \in Session |-> "none"]
    /\ monitors = {}
    /\ resigning = Empty

Connect(c) ==
    /\ step[c] = "closed"
    /\ step' = [step EXCEPT ![c] = "ready"]
    /\ UNCHANGED <<subject, roomOf, session, created, loops, players, pointer,
                   spectators, ending, winner, monitors, resigning>>
-----------------------------------------------------------------------------
(* Rooms.                                                                  *)

\* A blank id is replaced by an unused one; a given id may be in use, and its
\* entries in _rooms and _tick_loops are then overwritten.
CreateRoom(c, r) ==
    /\ Ready(c)
    /\ \E s \in Session \ created :
          /\ session' = [session EXCEPT ![r] = s]
          /\ created' = created \cup {s}
          /\ loops' = loops \cup {s}
    /\ UNCHANGED <<step, subject, roomOf, players, pointer, spectators, ending,
                   winner, monitors, resigning>>

\* Seeded fault of DropEntries: the connections keep the room they were in.
KeepEntries(r) == roomOf' = roomOf

\* ConnectionRegistry.remove_room_entries
DropEntries(r) ==
    roomOf' = [c \in Conn |-> IF roomOf[c] = r THEN NoRoom ELSE roomOf[c]]

\* Seeded fault of TearDown: the room keeps its session.
TearDownKeepingRoom(r) ==
    /\ loops' = loops \ {session[r]}
    /\ session' = session
    /\ DropEntries(r)

\* RoomManager.cancel_room of an existing room.
TearDown(r) ==
    /\ loops' = loops \ {session[r]}
    /\ session' = [session EXCEPT ![r] = NoSession]
    /\ DropEntries(r)

CancelRoom(c, r) ==
    /\ Ready(c)
    /\ session[r] # NoSession
    /\ TearDown(r)
    /\ UNCHANGED <<step, subject, created, players, pointer, spectators, ending,
                   winner, monitors, resigning>>
-----------------------------------------------------------------------------
(* RoomManager.handle_join_room.                                           *)

Full(s) == Cardinality(DOMAIN players[s]) >= 2

\* Seeded fault of Rebound: the old connection keeps speaking for the player.
ReboundKeepingOld(s, name, c) == [pointer[s] EXCEPT ![c] = name]

\* GameSession.rebind_connection, the pointers: the connection that the record
\* names, whoever it speaks for by now, speaks for nobody.
Rebound(s, name, c) ==
    [[pointer[s] EXCEPT ![players[s][name].conn] = NoName] EXCEPT ![c] = name]

\* Seeded fault of Disarmed: the timers of the whole room are cancelled.
DisarmRoom(r, name) == {key \in monitors : key[1] # r}

\* The player's own timer is cancelled, if there is one.
Disarmed(r, name) == monitors \ {<<r, name>>}

\* A known player comes back, from any connection.
Rejoin(c, r, name) ==
    LET s == session[r]
    IN  /\ Ready(c)
        /\ s # NoSession
        /\ name # Anonymous
        /\ name \in DOMAIN players[s]
        /\ roomOf' = [roomOf EXCEPT ![c] = r]
        /\ pointer' = [pointer EXCEPT ![s] = Rebound(s, name, c)]
        /\ players' = [players EXCEPT ![s][name].conn = c]
        /\ monitors' = Disarmed(r, name)
        /\ step' = [step EXCEPT ![c] = "resuming"]
        /\ subject' = [subject EXCEPT ![c] =
                          [room |-> r, name |-> name, session |-> s]]
        /\ UNCHANGED <<session, created, loops, spectators, ending, winner, resigning>>

\* Seeded fault of NextColor: white goes to whoever joins first under its name.
AlwaysWhite(s) == "w"

NextColor(s) == IF DOMAIN players[s] = {} THEN "w" ELSE "b"

\* Seeded fault of Enrolled: every record of the connection makes way.
EnrolledInstead(s, c, name) ==
    LET kept == {u \in DOMAIN players[s] : players[s][u].conn # c}
    IN  Put(Restrict(players[s], kept), IF name = Anonymous THEN c ELSE name,
            [color |-> NextColor(s), conn |-> c])

\* assign_color files the newcomer under its connection id; record_join, for
\* a joiner with a name, files it under that name instead.
Enrolled(s, c, name) ==
    LET record == [color |-> NextColor(s), conn |-> c]
    IN  IF name = Anonymous THEN Put(players[s], c, record)
        ELSE Put(Without(players[s], c), name, record)

Enrol(c, r, name) ==
    LET s == session[r]
        player == IF name = Anonymous THEN c ELSE name
    IN  /\ Ready(c)
        /\ s # NoSession
        /\ name = Anonymous \/ name \notin DOMAIN players[s]
        /\ ~Full(s)
        /\ roomOf' = [roomOf EXCEPT ![c] = r]
        /\ players' = [players EXCEPT ![s] = Enrolled(s, c, name)]
        /\ pointer' = [pointer EXCEPT ![s][c] = player]
        /\ UNCHANGED <<step, subject, session, created, loops, spectators, ending,
                       winner, monitors, resigning>>

Watch(c, r, name) ==
    LET s == session[r]
    IN  /\ Ready(c)
        /\ s # NoSession
        /\ name = Anonymous \/ name \notin DOMAIN players[s]
        /\ Full(s)
        /\ roomOf' = [roomOf EXCEPT ![c] = r]
        /\ spectators' = [spectators EXCEPT ![s] = @ \cup {c}]
        /\ UNCHANGED <<step, subject, session, created, loops, players, pointer,
                       ending, winner, monitors, resigning>>

JoinRoom(c, r, name) == Rejoin(c, r, name) \/ Enrol(c, r, name) \/ Watch(c, r, name)
-----------------------------------------------------------------------------
(* DisconnectCoordinator.on_disconnect, and ConnectionRegistry.forget.     *)

Forget(c) ==
    /\ step' = [step EXCEPT ![c] = "closed"]
    /\ roomOf' = [roomOf EXCEPT ![c] = NoRoom]
    /\ subject' = [subject EXCEPT ![c] = Nothing]

\* Seeded fault of PlaysHere: a connection that speaks for nobody goes on.
SitsHere(c) ==
    /\ roomOf[c] # NoRoom
    /\ session[roomOf[c]] # NoSession
    /\ c \notin spectators[session[roomOf[c]]]

\* The early returns: no room, no session, a spectator, nobody's connection.
PlaysHere(c) ==
    /\ roomOf[c] # NoRoom
    /\ session[roomOf[c]] # NoSession
    /\ c \notin spectators[session[roomOf[c]]]
    /\ pointer[session[roomOf[c]]][c] # NoName

\* The handler's loop is over: it tells the opponent, or forgets at once.
BeginLeaving(c) ==
    IF PlaysHere(c)
    THEN /\ step' = [step EXCEPT ![c] = "leaving"]
         /\ subject' = [subject EXCEPT ![c] =
                           [room |-> roomOf[c],
                            name |-> pointer[session[roomOf[c]]][c],
                            session |-> session[roomOf[c]]]]
         /\ UNCHANGED roomOf
    ELSE Forget(c)

Leave(c) ==
    /\ Ready(c)
    /\ BeginLeaving(c)
    /\ UNCHANGED <<session, created, loops, players, pointer, spectators, ending,
                   winner, monitors, resigning>>

\* The opponent has been told; color.value raises when the player has been
\* rebound elsewhere meanwhile, and the handler ends.
Resume(c) ==
    /\ step[c] = "resuming"
    /\ IF pointer[subject[c].session][c] = NoName
       THEN BeginLeaving(c)
       ELSE /\ step' = [step EXCEPT ![c] = "ready"]
            /\ subject' = [subject EXCEPT ![c] = Nothing]
            /\ UNCHANGED roomOf
    /\ UNCHANGED <<session, created, loops, players, pointer, spectators, ending,
                   winner, monitors, resigning>>

\* The opponent has been told: the timer is armed, whatever happened since.
Left(c) ==
    /\ step[c] = "leaving"
    /\ monitors' = monitors \cup {<<subject[c].room, subject[c].name>>}
    /\ Forget(c)
    /\ UNCHANGED <<session, created, loops, players, pointer, spectators, ending,
                   winner, resigning>>
-----------------------------------------------------------------------------
(* DisconnectCoordinator._auto_resign and GameSession.resign.              *)

\* The players other than name, first in the order of the dict: the white
\* one joined first.
Others(s, name) == DOMAIN players[s] \ {name}
Opponents(s, name) ==
    LET white == {u \in Others(s, name) : players[s][u].color = "w"}
    IN  IF white # {} THEN white ELSE Others(s, name)

\* force_game_over sets the flag and the colour whatever they were.
ForcedEnding(s) == IF ending[s] = "none" THEN "resigned" ELSE ending[s]
Resign(s, name) ==
    /\ ending' = [ending EXCEPT ![s] = ForcedEnding(s)]
    /\ IF Others(s, name) = {}
       THEN winner' = [winner EXCEPT ![s] = "none"]
       ELSE \E u \in Opponents(s, name) :
               winner' = [winner EXCEPT ![s] = players[s][u].color]

\* The timer is over: the game is resigned, and the call goes on to publish the
\* result, to rate it and to send the last snapshot, all of which are awaits
\* that leave this module's state alone.  Bound: one call by room and name.
Fire(r, name) ==
    /\ <<r, name>> \in monitors
    /\ <<r, name>> \notin DOMAIN resigning
    /\ monitors' = monitors \ {<<r, name>>}
    /\ IF session[r] = NoSession
       THEN UNCHANGED <<ending, winner, resigning>>
       ELSE /\ Resign(session[r], name)
            /\ resigning' = Put(resigning, <<r, name>>, session[r])
    /\ UNCHANGED <<step, subject, roomOf, session, created, loops, players,
                   pointer, spectators>>

\* All is sent: whatever session has the room id by then is dropped.
Close(r, name) ==
    /\ <<r, name>> \in DOMAIN resigning
    /\ resigning' = Without(resigning, <<r, name>>)
    /\ IF session[r] = NoSession THEN UNCHANGED <<loops, session, roomOf>>
                                 ELSE TearDown(r)
    /\ UNCHANGED <<step, subject, created, players, pointer, spectators, ending,
                   winner, monitors>>

\* The database fails while the result is rated: the timer's task logs it and
\* ends, and the room is left as it is.
RatingFails(r, name) ==
    /\ <<r, name>> \in DOMAIN resigning
    /\ Others(resigning[<<r, name>>], name) # {}
    /\ resigning' = Without(resigning, <<r, name>>)
    /\ UNCHANGED <<step, subject, roomOf, session, created, loops, players,
                   pointer, spectators, ending, winner, monitors>>

AutoResign(r, name) ==
    Fire(r, name) \/ Close(r, name) \/ RatingFails(r, name)
-----------------------------------------------------------------------------
(* TickLoop: a tick of the session's engine captures a king.               *)
KingFalls(s) ==
    /\ s \in loops
    /\ DOMAIN players[s] # {}
    /\ ending[s] = "none"
    /\ ending' = [ending EXCEPT ![s] = "king"]
    /\ UNCHANGED <<step, subject, roomOf, session, created, loops, players,
                   pointer, spectators, winner, monitors, resigning>>
-----------------------------------------------------------------------------
Command(c) ==
    \/ Leave(c)
    \/ \E r \in Room : CreateRoom(c, r) \/ CancelRoom(c, r)
    \/ \E r \in Room, name \in JoinNames : JoinRoom(c, r, name)

Handler(c) == Resume(c) \/ Left(c)

Next ==
    \/ \E c \in Conn : Connect(c) \/ Command(c) \/ Handler(c)
    \/ \E r \in Room, name \in Player : AutoResign(r, name)
    \/ \E s \in Session : KingFalls(s)

Spec == Init /\ [][Next]_vars

\* asyncio wakes a handler whose send is done, a timer that is over and a
\* resignation whose thread has answered, well or badly.
FairSpec ==
    /\ Spec
    /\ \A c \in Conn : WF_vars(Handler(c))
    /\ \A r \in Room, name \in Player : WF_vars(AutoResign(r, name))
-----------------------------------------------------------------------------
(* Properties.                                                             *)

\* The dicts from some of the keys to values.
Dict(keys, values) == UNION {[D -> values] : D \in SUBSET keys}

TypeOK ==
    /\ step \in [Conn -> Step]
    /\ subject \in [Conn -> [room : Room \cup {NoRoom}, name : Player \cup {NoName},
                             session : Session \cup {NoSession}]]
    /\ roomOf \in [Conn -> Room \cup {NoRoom}]
    /\ session \in [Room -> Session \cup {NoSession}]
    /\ created \in SUBSET Session
    /\ loops \in SUBSET created
    /\ players \in [Session -> Dict(Player, Record)]
    /\ pointer \in [Session -> [Conn -> Player \cup {NoName}]]
    /\ spectators \in [Session -> SUBSET Conn]
    /\ ending \in [Session -> {"none", "king", "resigned"}]
    /\ winner \in [Session -> Color \cup {"none"}]
    /\ monitors \in SUBSET Key
    /\ resigning \in Dict(Key, created)

\* The two indexes of a session agree: whoever a connection speaks for is a
\* player whose record names that connection.  So however players come back
\* from other connections or change names, no two connections ever command
\* one player's pieces.
VoiceIsBound ==
    \A s \in Session, c \in Conn : pointer[s][c] # NoName =>
        /\ pointer[s][c] \in DOMAIN players[s]
        /\ players[s][pointer[s][c]].conn = c

\* A game has at most two players, of different colours, when every joiner
\* gives a name.
ColorsDistinct ==
    \A s \in Session :
        /\ Cardinality(DOMAIN players[s]) <= 2
        /\ \A u, v \in DOMAIN players[s] :
              u # v => players[s][u].color # players[s][v].color

\* A player's slot and colour are kept for good: through disconnections, other
\* players' joins and its own returns.
SlotsKept ==
    [][\A s \in Session : \A u \in DOMAIN players[s] :
          /\ u \in DOMAIN players'[s]
          /\ players'[s][u].color = players[s][u].color]_vars

\* No connection is left in a room that is gone: after a tear-down, by command
\* or by a resignation that was under way, nobody still sits in the room.
RoomEntriesLive ==
    \A c \in Conn : roomOf[c] # NoRoom => session[roomOf[c]] # NoSession

\* The clock of a room that can be played in is never stopped, whichever of
\* the sessions that had its id was torn down.
LiveRoomTicks ==
    \A r \in Room : session[r] # NoSession => session[r] \in loops

\* The player is in the room, on the connection its record names.
Present(r, u) ==
    LET s == session[r]
    IN  /\ s # NoSession
        /\ u \in DOMAIN players[s]
        /\ LET c == players[s][u].conn
           IN  /\ step[c] \in {"ready", "resuming"}
               /\ roomOf[c] = r
               /\ pointer[s][c] = u

\* Nobody waits for ever for a player whose timer is armed: the game ends, the
\* player comes back, or the room id gets another session or none.
ArmedTimerSettles ==
    \A r \in Room, u \in Player, s \in Session :
        <<r, u>> \in monitors /\ session[r] = s
            ~> \/ ending[s] # "none"
               \/ session[r] # s
               \/ Present(r, u)
=============================================================================
