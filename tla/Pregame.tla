-------------------------------- MODULE Pregame -------------------------------
(***************************************************************************)
(* A client before its game (client/pregame.py) and the server's side of   *)
(* its connection: the handler that serves one command at a time           *)
(* (server/network/ws_gateway.py), the matchmaking loop that sends over    *)
(* the same connection whenever it likes, and the room, whose snapshots    *)
(* and announcements reach whoever is in it.  The protocol has no request  *)
(* ids: the client takes a message for the answer by its type and by what  *)
(* it waits for.                                                           *)
(*                                                                         *)
(* A step of the client takes one message or one decision of its user; a   *)
(* step of the server is what happens between two of its awaits.           *)
(* Bounds: MaxFlows commands that open a flow, and the messages of a room  *)
(* only while fewer than MaxInbox are unread.  The connection stays open,  *)
(* and the user's name is logged in here only.                             *)
(***************************************************************************)
EXTENDS Naturals, SequencesExt

CONSTANTS
    Room, None,
    MaxFlows,    \* bound: the logins and menu choices of a user
    MaxInbox,    \* bound: the unread messages while a room goes on sending
    MayGiveUp    \* whether the client's timeouts and the cancel event may come

ASSUME PregameAssumption ==
    /\ None \notin Room
    /\ MaxFlows \in Nat /\ MaxInbox \in Nat
    /\ MayGiveUp \in BOOLEAN

VARIABLES
    at,        \* what the client waits for
    mine,      \* the client's room, role, colour, and how it came by them
    inbox,     \* the messages sent to the client and not read
    outbox,    \* the commands sent to the server and not served
    handler,   \* what the command being served has left to send
    loop,      \* whether the matchmaking loop runs or is dead
    match,     \* what the loop has left to send here
    logged,    \* ConnectionRegistry._logged_in has the connection
    queued,    \* Matchmaker._queue has the user
    where,     \* ConnectionRegistry._conn_to_room of the connection
    seats,     \* each room's state, and its players in the order they came
    clean,     \* the flow was opened with nothing of an earlier one under way
    flows      \* the flows opened so far

client == <<at, mine, inbox>>
server == <<handler, loop, match, logged, queued, where, seats>>
vars == <<client, outbox, server, clean, flows>>

Unseated == [room |-> None, role |-> None, color |-> None, via |-> None]
Waiting == {"auth", "matching", "creating", "joining", "awaitColor"}

Message(type, r, value) == [type |-> type, room |-> r, value |-> value]
\* A snapshot, or an announcement to everybody in the room.
News(r) == Message("news", r, None)
Error == Message("error", None, None)
IsAnswer(m) == m.type # "news"

Me == "me"
Other == "other"

Init ==
    /\ at = "credentials"
    /\ mine = Unseated
    /\ inbox = <<>>
    /\ outbox = <<>>
    /\ handler = <<>>
    /\ loop = "running"
    /\ match = <<>>
    /\ logged = FALSE
    /\ queued = FALSE
    /\ where = None
    /\ seats = [r \in Room |-> [state |-> "none", players |-> <<>>]]
    /\ clean = TRUE
    /\ flows = 0
-----------------------------------------------------------------------------
(* The client: login_or_register, find_match_flow, room_flow, run_pregame. *)

Say(command) == outbox' = Append(outbox, command)
Command(cmd, r, name, password) ==
    [cmd |-> cmd, room |-> r, username |-> name, password |-> password]

Quiet ==
    /\ outbox = <<>> /\ handler = <<>> /\ match = <<>> /\ ~queued
    /\ ~\E i \in DOMAIN inbox : IsAnswer(inbox[i])

Open(place, command) ==
    /\ flows < MaxFlows
    /\ flows' = flows + 1
    /\ at' = place
    /\ Say(command)
    /\ mine' = [Unseated EXCEPT !.room = command.room]
    /\ clean' = Quiet
    /\ UNCHANGED <<inbox, server>>

\* What a user can type for a name and a password.  The first prompt insists
\* on a name of the right length; the later ones take whatever is not blank.
Names == IF flows = 0 THEN {"fine"} ELSE {"fine", "long"}
Passwords == {"fine", "empty", "long"}

Authenticate ==
    /\ at = "credentials"
    /\ \E name \in Names, password \in Passwords :
          Open("auth", Command("login", None, name, password))

Play ==
    /\ at = "menu"
    /\ Open("matching", Command("find_match", None, "fine", None))

\* The room id is left blank, or typed; the room may not exist.
CreateRoom ==
    /\ at = "menu"
    /\ Open("creating", Command("create_room", None, "fine", None))

JoinRoom ==
    /\ at = "menu"
    /\ \E r \in Room : Open("joining", Command("join_room", r, "fine", None))

Quit ==
    /\ at \in {"credentials", "menu"}
    /\ at' = "quit"
    /\ UNCHANGED <<mine, inbox, outbox, server, clean, flows>>

\* login_or_register skips what it does not wait for; a failure asks again.
AuthReply(m) ==
    /\ at = "auth"
    /\ at' = CASE m.type = "logged_in" -> "menu"
               [] m.type = "error" -> "credentials"
               [] OTHER -> "auth"
    /\ UNCHANGED <<mine, outbox>>

\* Seeded fault of MatchReply: the colour is not kept.
MatchReplyColorless(m) ==
    /\ at = "matching"
    /\ CASE m.type = "match_found" ->
              /\ at' = "game"
              /\ mine' = [mine EXCEPT !.room = m.room, !.role = "player", !.via = "match"]
         [] m.type \in {"match_timeout", "error"} -> at' = "menu" /\ mine' = mine
         [] OTHER -> UNCHANGED <<at, mine>>
    /\ UNCHANGED outbox

\* find_match_flow keeps the last colour it skips.
MatchReply(m) ==
    /\ at = "matching"
    /\ CASE m.type = "match_found" ->
              /\ at' = "game"
              /\ mine' = [mine EXCEPT !.room = m.room, !.role = "player", !.via = "match"]
         [] m.type \in {"match_timeout", "error"} -> at' = "menu" /\ mine' = mine
         [] m.type = "assigned" -> at' = at /\ mine' = [mine EXCEPT !.color = m.value]
         [] OTHER -> UNCHANGED <<at, mine>>
    /\ UNCHANGED outbox

\* room_flow takes the next message, whatever it is.
CreateReply(m) ==
    /\ at = "creating"
    /\ IF m.type = "room_created"
       THEN /\ at' = "joining"
            /\ mine' = [mine EXCEPT !.room = m.room]
            /\ Say(Command("join_room", m.room, "fine", None))
       ELSE /\ at' = "menu"
            /\ UNCHANGED <<mine, outbox>>

JoinReply(m) ==
    /\ at = "joining"
    /\ IF m.type = "room_joined"
       THEN /\ at' = IF m.value = "player" THEN "awaitColor" ELSE "game"
            /\ mine' = [mine EXCEPT !.role = m.value, !.via = "room"]
       ELSE at' = "menu" /\ mine' = mine
    /\ UNCHANGED outbox

ColorReply(m) ==
    /\ at = "awaitColor"
    /\ at' = "game"
    /\ mine' = [mine EXCEPT !.color = IF m.type = "assigned" THEN m.value ELSE None]
    /\ UNCHANGED outbox

Receive ==
    /\ inbox # <<>>
    /\ inbox' = Tail(inbox)
    /\ LET m == Head(inbox)
       IN  \/ AuthReply(m) \/ MatchReply(m)
           \/ CreateReply(m) \/ JoinReply(m) \/ ColorReply(m)
    /\ UNCHANGED <<server, clean, flows>>

\* No answer in time: the login is not caught, the other flows end in the menu.
\* A search that the client gives up is not cancelled.
TimeOut ==
    /\ MayGiveUp
    /\ at \in Waiting
    /\ at' = IF at = "auth" THEN "crashed" ELSE "menu"
    /\ UNCHANGED <<mine, inbox, outbox, server, clean, flows>>

\* The cancel event is set.  When the answer has come at the same moment, it is
\* dropped.
CancelSearch ==
    /\ MayGiveUp
    /\ at = "matching"
    /\ at' = "menu"
    /\ \/ inbox' = inbox
       \/ /\ inbox # <<>>
          /\ Head(inbox).type \in {"match_found", "match_timeout", "error"}
          /\ inbox' = Tail(inbox)
    /\ Say(Command("cancel_match", None, "fine", None))
    /\ UNCHANGED <<mine, server, clean, flows>>
-----------------------------------------------------------------------------
(* The server: _dispatch, handle_join_room, and the matchmaking loop.      *)

BadName(name) == name \in {"blank", "long"}
BadPassword(password) == password \in {"empty", "long"}

\* parse_incoming_message: the commands that come to a ProtocolError.
Malformed(c) ==
    CASE c.cmd = "login" -> BadName(c.username) \/ BadPassword(c.password)
      [] c.cmd = "join_room" -> c.room = None \/ c.username = "long"
      [] OTHER -> FALSE

Live(r) == seats[r].state = "live"
Plays(r, who) == \E i \in DOMAIN seats[r].players : seats[r].players[i] = who
ColorIn(r) == IF seats[r].players[1] = Me THEN "white" ELSE "black"

\* Before its first message, a join has put the connection into the room and
\* the user into the session: as the player it is there already, as the next
\* player, or as a spectator.
Seated(r, players) ==
    /\ where' = r
    /\ seats' = [seats EXCEPT ![r] = [state |-> "live", players |-> players]]

Players(r) ==
    IF Plays(r, Me) \/ Len(seats[r].players) = 2 THEN seats[r].players
                                                 ELSE Append(seats[r].players, Me)

Welcome(r, players) ==
    IF Contains(players, Me)
    THEN << Message("room_joined", r, "player"),
            Message("assigned", r, IF players[1] = Me THEN "white" ELSE "black"),
            News(r) >>
    ELSE << Message("room_joined", r, "spectator"), News(r) >>

\* Seeded fault of Handover: the match is announced before the join.
HandoverFirst(r, players) ==
    <<Message("match_found", r, None)>> \o Welcome(r, players)

Handover(r, players) == Append(Welcome(r, players), Message("match_found", r, None))

ServeAuth(c) ==
    /\ c.cmd = "login"
    /\ \/ logged' = TRUE /\ handler' = <<Message("logged_in", None, None)>>
       \/ logged' = logged /\ handler' = <<Error>>
    /\ UNCHANGED <<queued, where, seats>>

ServeFind(c) ==
    /\ c.cmd = "find_match"
    /\ IF logged THEN queued' = TRUE /\ handler' = <<>>
                 ELSE queued' = queued /\ handler' = <<Error>>
    /\ UNCHANGED <<logged, where, seats>>

ServeCancel(c) ==
    /\ c.cmd = "cancel_match"
    /\ queued' = IF logged THEN FALSE ELSE queued
    /\ UNCHANGED <<handler, logged, where, seats>>

ServeCreate(c) ==
    /\ c.cmd = "create_room"
    /\ \E r \in Room :
          /\ seats[r].state = "none"
          /\ seats' = [seats EXCEPT ![r].state = "live"]
          /\ handler' = <<Message("room_created", r, None)>>
    /\ UNCHANGED <<logged, queued, where>>

\* Seeded fault of ServeJoin: a room that is not there is not answered for.
ServeJoinSilently(c) ==
    /\ c.cmd = "join_room"
    /\ IF Live(c.room)
       THEN /\ Seated(c.room, Players(c.room))
            /\ handler' = Welcome(c.room, Players(c.room))
       ELSE UNCHANGED <<handler, where, seats>>
    /\ UNCHANGED <<logged, queued>>

ServeJoin(c) ==
    /\ c.cmd = "join_room"
    /\ IF Live(c.room)
       THEN /\ Seated(c.room, Players(c.room))
            /\ handler' = Welcome(c.room, Players(c.room))
       ELSE /\ handler' = <<Error>>
            /\ UNCHANGED <<where, seats>>
    /\ UNCHANGED <<logged, queued>>

\* The handler reads the next command once it is done with the last one.
Serve ==
    /\ outbox # <<>>
    /\ handler = <<>>
    /\ outbox' = Tail(outbox)
    /\ LET c == Head(outbox)
       IN  IF Malformed(c)
           THEN /\ handler' = <<Error>>
                /\ UNCHANGED <<logged, queued, where, seats>>
           ELSE \/ ServeAuth(c) \/ ServeFind(c) \/ ServeCancel(c)
                \/ ServeCreate(c) \/ ServeJoin(c)
    /\ UNCHANGED <<client, loop, match, clean, flows>>

SendAnswer ==
    /\ handler # <<>>
    /\ inbox' = Append(inbox, Head(handler))
    /\ handler' = Tail(handler)
    /\ UNCHANGED <<at, mine, outbox, loop, match, logged, queued, where, seats, clean, flows>>

\* The loop takes the user out of the queue, and seats it in a new room before
\* or after its opponent, or tells it that nobody was found.  The room may be
\* cancelled while the opponent is told: the user gets an error, and is then
\* told of the match all the same.
MatchEnds ==
    /\ loop = "running"
    /\ queued
    /\ match = <<>>
    /\ queued' = FALSE
    /\ \/ \E r \in Room, before \in {<<>>, <<Other>>} :
             /\ seats[r].state = "none"
             /\ Seated(r, Append(before, Me))
             /\ match' = Handover(r, Append(before, Me))
       \/ \E r \in Room :
             /\ seats[r].state = "none"
             /\ seats' = [seats EXCEPT ![r] = [state |-> "gone", players |-> <<Other>>]]
             /\ match' = <<Error, Message("match_found", r, None)>>
             /\ UNCHANGED where
       \/ /\ match' = <<Message("match_timeout", None, None)>>
          /\ UNCHANGED <<where, seats>>
    /\ UNCHANGED <<client, outbox, handler, loop, logged, clean, flows>>

\* Redis fails under the loop: over another match, or over the user's.  Then the
\* user is out of the queue, with no room or half entered in one, and the room
\* lives on.
LoopDies ==
    /\ loop = "running"
    /\ match = <<>>
    /\ loop' = "dead"
    /\ \/ UNCHANGED <<queued, where, seats>>
       \/ /\ queued
          /\ queued' = FALSE
          /\ \/ UNCHANGED <<where, seats>>
             \/ \E r \in Room, players \in {<<>>, <<Other>>} :
                   /\ seats[r].state = "none"
                   /\ seats' = [seats EXCEPT ![r] = [state |-> "live", players |-> players]]
                   /\ where' \in {where, r}
    /\ UNCHANGED <<client, outbox, handler, match, logged, clean, flows>>

SendMatch ==
    /\ match # <<>>
    /\ inbox' = Append(inbox, Head(match))
    /\ match' = Tail(match)
    /\ UNCHANGED <<at, mine, outbox, handler, loop, logged, queued, where, seats, clean, flows>>

\* The rest of the room: its tick loop, its other players, its end.
RoomSends ==
    /\ where # None
    /\ Len(inbox) < MaxInbox
    /\ inbox' = Append(inbox, News(where))
    /\ UNCHANGED <<at, mine, outbox, server, clean, flows>>

OtherJoins(r) ==
    /\ Live(r)
    /\ Len(seats[r].players) < 2
    /\ seats' = [seats EXCEPT ![r].players = Append(@, Other)]
    /\ UNCHANGED <<client, outbox, handler, loop, match, logged, queued, where, clean, flows>>

RoomEnds(r) ==
    /\ Live(r)
    /\ seats' = [seats EXCEPT ![r].state = "gone"]
    /\ where' = IF where = r THEN None ELSE where
    /\ UNCHANGED <<client, outbox, handler, loop, match, logged, queued, clean, flows>>
-----------------------------------------------------------------------------
User == Authenticate \/ Play \/ CreateRoom \/ JoinRoom \/ Quit
Elsewhere == RoomSends \/ \E r \in Room : OtherJoins(r) \/ RoomEnds(r)

\* What comes after the client is gone is not of this module.
Next ==
    /\ at \notin {"quit", "crashed"}
    /\ \/ User \/ Receive \/ TimeOut \/ CancelSearch
       \/ Serve \/ SendAnswer \/ MatchEnds \/ SendMatch \/ LoopDies
       \/ Elsewhere

Spec == Init /\ [][Next]_vars

\* The client reads what has come, the server serves and sends what it has, and
\* the matchmaking loop comes round (Matchmaking) for as long as it runs.
\* Timeouts, users and rooms need not do anything.
FairSpec ==
    /\ Spec
    /\ WF_vars(Receive)
    /\ WF_vars(Serve) /\ WF_vars(SendAnswer)
    /\ WF_vars(MatchEnds) /\ WF_vars(SendMatch)
-----------------------------------------------------------------------------
(* Properties.                                                             *)

\* A client that enters a game believes what the server has it down for: the
\* room, unless that has ended meanwhile, its role, and its colour.  It holds
\* for a flow opened with nothing of an earlier one under way, however many
\* failed before it, whatever the room sends between the answers.  Only a
\* player who came by room_flow may lack the colour: a message of the room can
\* take the place of the assignment (pregame.py:367).
SeatKnown ==
    at = "game" /\ clean =>
        LET r == mine.room
        IN  /\ where = r \/ seats[r].state = "gone"
            /\ mine.role = IF Plays(r, Me) THEN "player" ELSE "spectator"
            /\ mine.role = "player" =>
                  \/ mine.color = ColorIn(r)
                  \/ mine.via = "room" /\ mine.color = None
            /\ mine.role = "spectator" => mine.color = None

\* It also has read every answer there was, and left no search behind: nothing
\* of the handshake meets the game window, and the server will not move the
\* client into another room later on.  The assignment whose place another
\* message took is the exception.
NothingLeftOver ==
    at = "game" /\ clean =>
        /\ ~queued /\ outbox = <<>>
        /\ \A pending \in {inbox, handler, match} : \A i \in DOMAIN pending :
              IsAnswer(pending[i]) => /\ pending[i].type = "assigned"
                                      /\ mine.via = "room" /\ mine.color = None

\* Whoever waits for the server is answered, without any timeout of its own;
\* only a search may last for ever, and only when the matchmaking loop is dead:
\* nothing starts it again, and the server goes on taking searches.
AnswerComes ==
    at \in Waiting ~> at \notin Waiting \/ (at = "matching" /\ loop = "dead")
=============================================================================
