------------------------- MODULE ConnectionRegistry -------------------------
(***************************************************************************)
(* The registry of connections in one process                             *)
(* (server/network/connection_registry.py): who is connected, who is       *)
(* logged in, and who is in which room.  Every operation is one step.      *)
(* It is what the gateways are written against, and so what the registry   *)
(* in Redis has to look like (RedisRegistry).                              *)
(***************************************************************************)
CONSTANTS Conn, User, Room, None

VARIABLES
    connections,   \* the connections with a websocket
    loggedIn,      \* the user of each connection
    connToRoom     \* the room of each connection

vars == <<connections, loggedIn, connToRoom>>

Init ==
    /\ connections = {}
    /\ loggedIn = [c \in Conn |-> None]
    /\ connToRoom = [c \in Conn |-> None]

Register(c) ==
    /\ c \notin connections
    /\ connections' = connections \cup {c}
    /\ UNCHANGED <<loggedIn, connToRoom>>

Forget(c) ==
    /\ c \in connections
    /\ connections' = connections \ {c}
    /\ loggedIn' = [loggedIn EXCEPT ![c] = None]
    /\ connToRoom' = [connToRoom EXCEPT ![c] = None]

MarkLoggedIn(c, u) ==
    /\ c \in connections
    /\ loggedIn' = [loggedIn EXCEPT ![c] = u]
    /\ UNCHANGED <<connections, connToRoom>>

AssignRoom(c, r) ==
    /\ c \in connections
    /\ connToRoom' = [connToRoom EXCEPT ![c] = r]
    /\ UNCHANGED <<connections, loggedIn>>

ConnsInRoom(r) == {c \in Conn : connToRoom[c] = r}

RemoveRoomEntries(r) ==
    /\ connToRoom' = [c \in Conn |-> IF c \in ConnsInRoom(r) THEN None
                                                             ELSE connToRoom[c]]
    /\ UNCHANGED <<connections, loggedIn>>

Next ==
    \/ \E c \in Conn :
          \/ Register(c) \/ Forget(c)
          \/ \E u \in User : MarkLoggedIn(c, u)
          \/ \E r \in Room : AssignRoom(c, r)
    \/ \E r \in Room : RemoveRoomEntries(r)

Spec == Init /\ [][Next]_vars
=============================================================================
