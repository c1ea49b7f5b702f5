---------------------------- MODULE RedisRegistry ---------------------------
(***************************************************************************)
(* The registry of connections and the directory of rooms in Redis         *)
(* (server/network/redis_connection_registry.py, server/allocator/), as    *)
(* the WebSocket gateway uses them: its connection handlers, and the       *)
(* creation, the joining and the cancellation of rooms                     *)
(* (server/network/ws_gateway.py, server/session/room_manager.py).         *)
(*                                                                         *)
(* An operation is several calls of Redis, and each call is a step here.   *)
(* The calls block the gateway's only thread, so that its operations do    *)
(* not interleave; but a call may raise, which ends the operation and the  *)
(* connection it served, and the gateway may crash and restart between any *)
(* two calls; Redis may lose its data.  That a call had its effect and     *)
(* raised all the same is the next call failing instead.                   *)
(*                                                                         *)
(* A connection's id is the address of its websocket: it is used again     *)
(* once nobody holds the old one.  Bound: MaxFaults.                       *)
(***************************************************************************)
EXTENDS Naturals

CONSTANTS Conn, User, Room, None, MaxFaults

ASSUME RegistryAssumption ==
    /\ None \notin Conn \cup User \cup Room
    /\ MaxFaults \in Nat

VARIABLES
    \* Redis
    identity,   \* conn:*:identity, without the rating
    room,       \* conn:*:room
    members,    \* room:*:conns
    directory,  \* the rooms with a room_dir:* key
    \* The gateway
    ws,         \* RedisConnectionRegistry._local_ws
    status,     \* where the handler of each connection stands
    rooms,      \* RoomManager._rooms
    op,         \* the operation under way, with its locals
    \* History
    checked,    \* the rooms found in or put into the directory by a join
    faults      \* how often something went wrong

redis == <<identity, room, members, directory>>
gateway == <<ws, status, rooms>>
vars == <<redis, gateway, op, checked, faults>>

Idle == [at |-> "idle", conn |-> None, room |-> None, old |-> None, stale |-> {}]

Init ==
    /\ identity = [c \in Conn |-> None]
    /\ room = [c \in Conn |-> None]
    /\ members = [r \in Room |-> {}]
    /\ directory = {}
    /\ ws = {}
    /\ status = [c \in Conn |-> "closed"]
    /\ rooms = {}
    /\ op = Idle
    /\ checked = {}
    /\ faults = 0

At(place) == op.at = place
Begin(place, c, r) == op' = [Idle EXCEPT !.at = place, !.conn = c, !.room = r]
Then(place) == op' = [op EXCEPT !.at = place]
Done == op' = Idle

Srem(r, c) == members' = [members EXCEPT ![r] = @ \ {c}]
Sadd(r, c) == members' = [members EXCEPT ![r] = @ \cup {c}]
-----------------------------------------------------------------------------
(* Connections.                                                            *)

Connect(c) ==
    /\ At("idle")
    /\ status[c] = "closed"
    /\ c \notin ws
    /\ ws' = ws \cup {c}
    /\ status' = [status EXCEPT ![c] = "open"]
    /\ UNCHANGED <<redis, rooms, op, checked, faults>>

MarkLoggedIn(c, u) ==
    /\ At("idle")
    /\ status[c] = "open"
    /\ identity' = [identity EXCEPT ![c] = u]
    /\ UNCHANGED <<room, members, directory, gateway, op, checked, faults>>

\* on_disconnect reads the registry; the opponent is told before forget.
Disconnect(c) ==
    /\ At("idle")
    /\ status[c] \in {"open", "raised"}
    /\ status' = [status EXCEPT ![c] = "leaving"]
    /\ UNCHANGED <<redis, ws, rooms, op, checked, faults>>

\* forget
ForgetWs(c) ==
    /\ At("idle")
    /\ status[c] = "leaving"
    /\ ws' = ws \ {c}
    /\ status' = [status EXCEPT ![c] = "closed"]
    /\ Begin("forgetGet", c, None)
    /\ UNCHANGED <<redis, rooms, checked, faults>>

ForgetGet ==
    /\ At("forgetGet")
    /\ op' = [op EXCEPT !.at = IF room[op.conn] = None THEN "forgetDel" ELSE "forgetSrem",
                        !.old = room[op.conn]]
    /\ UNCHANGED <<redis, gateway, checked, faults>>

\* Seeded fault of ForgetSrem: the connection stays in its room's set.
ForgetSremNothing ==
    /\ At("forgetSrem")
    /\ Then("forgetDel")
    /\ UNCHANGED <<redis, gateway, checked, faults>>

ForgetSrem ==
    /\ At("forgetSrem")
    /\ Srem(op.old, op.conn)
    /\ Then("forgetDel")
    /\ UNCHANGED <<identity, room, directory, gateway, checked, faults>>

\* Seeded fault of ForgetDel: the key of the room is forgotten.
ForgetDelIdentity ==
    /\ At("forgetDel")
    /\ identity' = [identity EXCEPT ![op.conn] = None]
    /\ Done
    /\ UNCHANGED <<room, members, directory, gateway, checked, faults>>

ForgetDel ==
    /\ At("forgetDel")
    /\ identity' = [identity EXCEPT ![op.conn] = None]
    /\ room' = [room EXCEPT ![op.conn] = None]
    /\ Done
    /\ UNCHANGED <<members, directory, gateway, checked, faults>>
-----------------------------------------------------------------------------
(* create_room and cancel_room.                                            *)

\* The allocator has one shard, which is the answer for every room.
CreateList(c, r) ==
    /\ At("idle")
    /\ status[c] = "open"
    /\ directory' = directory \cup {r}
    /\ Begin("create", c, r)
    /\ UNCHANGED <<identity, room, members, gateway, checked, faults>>

CreateRoom ==
    /\ At("create")
    /\ rooms' = rooms \cup {op.room}
    /\ Done
    /\ UNCHANGED <<redis, ws, status, checked, faults>>

\* By a command, or by an auto-resignation that no connection waits for.
CancelRoom(c, r) ==
    /\ At("idle")
    /\ c # None => status[c] = "open"
    /\ r \in rooms
    /\ rooms' = rooms \ {r}
    /\ Begin("smembers", c, r)
    /\ UNCHANGED <<redis, ws, status, checked, faults>>

Smembers ==
    /\ At("smembers")
    /\ op' = [op EXCEPT !.at = "exec", !.stale = members[op.room]]
    /\ UNCHANGED <<redis, gateway, checked, faults>>

\* Seeded fault of RemoveRoomEntries: the keys of the connections stay.
RemoveRoomSet ==
    /\ At("exec")
    /\ members' = [members EXCEPT ![op.room] = {}]
    /\ Then("unlist")
    /\ UNCHANGED <<identity, room, directory, gateway, checked, faults>>

\* The pipeline is one transaction.
RemoveRoomEntries ==
    /\ At("exec")
    /\ room' = [c \in Conn |-> IF c \in op.stale THEN None ELSE room[c]]
    /\ members' = [members EXCEPT ![op.room] = {}]
    /\ Then("unlist")
    /\ UNCHANGED <<identity, directory, gateway, checked, faults>>

Unlist ==
    /\ At("unlist")
    /\ directory' = directory \ {op.room}
    /\ Done
    /\ UNCHANGED <<identity, room, members, gateway, checked, faults>>
-----------------------------------------------------------------------------
(* handle_join_room up to assign_room.                                     *)

\* A room that lives here and has no entry is registered again.
JoinLookup(c, r) ==
    /\ At("idle")
    /\ status[c] = "open"
    /\ Begin(IF r \in rooms \ directory THEN "relist" ELSE "lookup", c, r)
    /\ checked' = IF r \in directory THEN checked \cup {r} ELSE checked
    /\ UNCHANGED <<redis, gateway, faults>>

\* Seeded fault of JoinRelist: the lookup is all there is.
JoinRelistNothing ==
    /\ At("relist")
    /\ checked' = checked \cup {op.room}
    /\ Then("lookup")
    /\ UNCHANGED <<redis, gateway, faults>>

JoinRelist ==
    /\ At("relist")
    /\ directory' = directory \cup {op.room}
    /\ checked' = checked \cup {op.room}
    /\ Then("lookup")
    /\ UNCHANGED <<identity, room, members, gateway, faults>>

NotFound ==
    /\ At("lookup")
    /\ op.room \notin rooms
    /\ Done
    /\ UNCHANGED <<redis, gateway, checked, faults>>

\* assign_room
AssignGet ==
    LET old == room[op.conn]
    IN  /\ At("lookup")
        /\ op.room \in rooms
        /\ op' = [op EXCEPT !.at = IF old \in {None, op.room} THEN "set" ELSE "assignSrem",
                            !.old = old]
        /\ UNCHANGED <<redis, gateway, checked, faults>>

AssignSrem ==
    /\ At("assignSrem")
    /\ Srem(op.old, op.conn)
    /\ Then("set")
    /\ UNCHANGED <<identity, room, directory, gateway, checked, faults>>

AssignSet ==
    /\ At("set")
    /\ room' = [room EXCEPT ![op.conn] = op.room]
    /\ Then("sadd")
    /\ UNCHANGED <<identity, members, directory, gateway, checked, faults>>

AssignSadd ==
    /\ At("sadd")
    /\ Sadd(op.room, op.conn)
    /\ Done
    /\ UNCHANGED <<identity, room, directory, gateway, checked, faults>>
-----------------------------------------------------------------------------
(* What goes wrong.                                                        *)

Fault ==
    /\ faults < MaxFaults
    /\ faults' = faults + 1

\* A call raises: the operation ends where it is.  The connection it served is
\* closed, unless it is being forgotten already.
CallFails ==
    /\ Fault
    /\ ~At("idle")
    /\ Done
    /\ status' = [c \in Conn |-> IF c = op.conn /\ status[c] = "open" THEN "raised"
                                                                     ELSE status[c]]
    /\ UNCHANGED <<redis, ws, rooms, checked>>

\* A call of on_disconnect raises: the connection is never forgotten, and its
\* websocket stays in the table.
DisconnectFails(c) ==
    /\ Fault
    /\ At("idle")
    /\ status[c] \in {"open", "raised"}
    /\ status' = [status EXCEPT ![c] = "closed"]
    /\ UNCHANGED <<redis, ws, rooms, op, checked>>

\* The gateway dies and is started again.
Crash ==
    /\ Fault
    /\ ws' = {}
    /\ status' = [c \in Conn |-> "closed"]
    /\ rooms' = {}
    /\ Done
    /\ UNCHANGED <<redis, checked>>

\* Redis is restarted and has lost everything.  That takes longer than the calls
\* of one operation are apart: an operation under way fails first.
Wipe ==
    /\ Fault
    /\ At("idle")
    /\ identity' = [c \in Conn |-> None]
    /\ room' = [c \in Conn |-> None]
    /\ members' = [r \in Room |-> {}]
    /\ directory' = {}
    /\ checked' = {}
    /\ UNCHANGED <<gateway, op>>
-----------------------------------------------------------------------------
Operation ==
    \/ ForgetGet \/ ForgetSrem \/ ForgetDel
    \/ CreateRoom \/ Smembers \/ RemoveRoomEntries \/ Unlist
    \/ JoinRelist \/ NotFound \/ AssignGet \/ AssignSrem \/ AssignSet \/ AssignSadd

Command(c) ==
    \/ Connect(c) \/ Disconnect(c) \/ ForgetWs(c)
    \/ \E u \in User : MarkLoggedIn(c, u)
    \/ \E r \in Room : CreateList(c, r) \/ JoinLookup(c, r)

Next ==
    \/ Operation
    \/ \E c \in Conn : Command(c) \/ DisconnectFails(c)
    \/ \E c \in Conn \cup {None}, r \in Room : CancelRoom(c, r)
    \/ CallFails \/ Crash \/ Wipe

Spec == Init /\ [][Next]_vars
-----------------------------------------------------------------------------
(* Properties.                                                             *)

Places == {"idle", "forgetGet", "forgetSrem", "forgetDel", "create", "smembers",
           "exec", "unlist", "relist", "lookup", "assignSrem", "set", "sadd"}

TypeOK ==
    /\ identity \in [Conn -> User \cup {None}]
    /\ room \in [Conn -> Room \cup {None}]
    /\ members \in [Room -> SUBSET Conn]
    /\ directory \in SUBSET Room
    /\ ws \in SUBSET Conn
    /\ status \in [Conn -> {"closed", "open", "raised", "leaving"}]
    /\ rooms \in SUBSET Room
    /\ op \in [at : Places, conn : Conn \cup {None}, room : Room \cup {None},
               old : Room \cup {None}, stale : SUBSET Conn]
    /\ checked \in SUBSET Room
    /\ faults \in 0..MaxFaults

\* The two halves of a room assignment are written one after the other, and
\* whatever fails, crashes or is lost in between, the set of a room holds nobody
\* whose own key says otherwise: no broadcast of a room reaches a connection
\* that has been assigned to another one, and tearing a room down by its set
\* takes nobody out of another one.
MembersPointBack ==
    \A r \in Room : \A c \in members[r] : room[c] = r

\* room_manager.py:129: a live room whose entry was lost is registered again "so
\* the directory stays consistent": once a join has looked for it, a live room
\* is listed until Redis loses its data again, through failed cancellations and
\* failed creations of the same id too.
CheckedIsListed == checked \cap rooms \subseteq directory

\* As long as nothing has gone wrong, Redis and the gateway agree between two
\* operations: the set of a room, which a broadcast goes by and by which a room
\* is torn down, has everybody whose key names the room; nobody is left in a
\* room that is gone; and the directory lists the rooms that live.
AudienceAgrees ==
    faults = 0 /\ At("idle") =>
        /\ \A r \in Room : members[r] = {c \in Conn : room[c] = r}
        /\ \A c \in Conn : room[c] \in rooms \cup {None}
        /\ directory = rooms

Forgetting == IF op.at \in {"forgetGet", "forgetSrem", "forgetDel"} THEN {op.conn} ELSE {}

Registry == INSTANCE ConnectionRegistry
              WITH connections <- ws \cup Forgetting,
                   loggedIn <- identity,
                   connToRoom <- room

\* As long as nothing has gone wrong, the calls of an operation add up to one
\* step of the registry in memory: a connection is forgotten in full, and a room
\* is torn down for everybody whose key names it, though only its set is read.
ImplementsRegistry ==
    /\ Registry!Init
    /\ [][faults' > 0 \/ Registry!Next]_(Registry!vars)
=============================================================================
