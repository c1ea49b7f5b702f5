------------------------ MODULE RedisRegistryProofs -------------------------
(***************************************************************************)
(* What RedisRegistry keeps for any number of connections, users, rooms    *)
(* and faults.  The inductive invariant says of every place at which an    *)
(* operation may be interrupted what it has written by then.               *)
(***************************************************************************)
EXTENDS RedisRegistry, TLAPS

ForgetPlaces == {"forgetGet", "forgetSrem", "forgetDel"}
JoinPlaces == {"relist", "lookup", "assignSrem", "set", "sadd"}
CancelPlaces == {"smembers", "exec", "unlist"}

\* The locals of an operation, and the connections that the gateway holds.
OpShape ==
    /\ op.at \in ForgetPlaces => op.conn \in Conn \ ws
    /\ op.at \in JoinPlaces => op.conn \in Conn \cap ws
    /\ op.at \in JoinPlaces \cup CancelPlaces \cup {"create"} => op.room \in Room
    /\ op.at \in {"forgetSrem", "assignSrem"} => op.old \in Room /\ op.old = room[op.conn]
    /\ op.at = "exec" => op.stale = members[op.room]
    /\ \A c \in Conn : status[c] # "closed" => c \in ws

\* A connection is out of the sets before its key is written or deleted.
OutFirst ==
    /\ op.at = "forgetDel" => \A r \in Room : op.conn \notin members[r]
    /\ op.at = "set" => \A r \in Room \ {op.room} : op.conn \notin members[r]
    /\ op.at = "sadd" => room[op.conn] = op.room

\* A room is listed before it lives, and dead before it is taken off the list.
ListedFirst ==
    /\ op.at = "create" => op.room \in directory
    /\ op.at \in CancelPlaces => op.room \notin rooms

\* The connections whose key and set are both as they should be, and what the
\* directory and the keys of the connections may hold beyond the live rooms.
Settled(c) == c = op.conn => op.at \notin {"forgetDel", "set", "sadd"}
Unborn == IF op.at \in CancelPlaces \cup {"create"} THEN {op.room} ELSE {}
Emptied == IF op.at \in {"smembers", "exec"} THEN {op.room} ELSE {}

Agreement ==
    /\ \A r \in Room, c \in Conn : Settled(c) => (c \in members[r] <=> room[c] = r)
    /\ \A c \in Conn : room[c] \in rooms \cup {None} \cup Emptied
    /\ op.at \in {"assignSrem", "set", "sadd"} => op.room \in rooms
    /\ op.at # "relist"
    /\ directory = rooms \cup Unborn

IInv ==
    /\ TypeOK
    /\ OpShape /\ OutFirst /\ MembersPointBack
    /\ ListedFirst /\ CheckedIsListed
    /\ faults = 0 => Agreement

-----------------------------------------------------------------------------
(* Type correctness.                                                       *)

\* Nothing is stored at first.
LEMMA InitTypes == Init => TypeOK
  BY RegistryAssumption DEF Init, TypeOK, Idle, Places

\* Every step keeps the types.
LEMMA StepTypes ==
    ASSUME TypeOK, OpShape, [Next]_vars
    PROVE  TypeOK'
<1> USE DEF TypeOK, Places, Then, Done, Idle, Begin, At, Srem, Sadd
<1>1. CASE Operation
  <2>1. CASE ForgetGet
    BY <2>1 DEF ForgetGet, redis, gateway, OpShape, ForgetPlaces
  <2>2. CASE ForgetSrem
    BY <2>2 DEF ForgetSrem, gateway, OpShape, ForgetPlaces
  <2>3. CASE ForgetDel
    BY <2>3 DEF ForgetDel, gateway
  <2>4. CASE CreateRoom
    BY <2>4 DEF CreateRoom, redis, OpShape
  <2>5. CASE Smembers
    BY <2>5 DEF Smembers, redis, gateway, OpShape, CancelPlaces
  <2>6. CASE RemoveRoomEntries
    BY <2>6 DEF RemoveRoomEntries, gateway
  <2>7. CASE Unlist
    BY <2>7 DEF Unlist, gateway
  <2>8. CASE JoinRelist
    BY <2>8 DEF JoinRelist, gateway, OpShape, JoinPlaces
  <2>9. CASE NotFound
    BY <2>9 DEF NotFound, redis, gateway
  <2>10. CASE AssignGet
    BY <2>10 DEF AssignGet, redis, gateway, OpShape, JoinPlaces
  <2>11. CASE AssignSrem
    BY <2>11 DEF AssignSrem, gateway
  <2>12. CASE AssignSet
    BY <2>12 DEF AssignSet, gateway, OpShape, JoinPlaces
  <2>13. CASE AssignSadd
    BY <2>13 DEF AssignSadd, gateway, OpShape, JoinPlaces
  <2>. QED
    BY <1>1, <2>1, <2>2, <2>3, <2>4, <2>5, <2>6, <2>7, <2>8, <2>9, <2>10, <2>11, <2>12,
       <2>13 DEF Operation
<1>2. ASSUME NEW c \in Conn, Command(c) \/ DisconnectFails(c) PROVE TypeOK'
  <2>1. CASE Connect(c) \/ Disconnect(c)
    BY <2>1 DEF Connect, Disconnect, redis
  <2>5. CASE ForgetWs(c)
    <3>1. op' \in [at : Places, conn : Conn \cup {None}, room : Room \cup {None},
                   old : Room \cup {None}, stale : SUBSET Conn]
      BY <2>5 DEF ForgetWs
    <3>2. ws' \in SUBSET Conn /\ status' \in [Conn -> {"closed", "open", "raised", "leaving"}]
      BY <2>5 DEF ForgetWs
    <3>. QED BY <2>5, <3>1, <3>2 DEF ForgetWs, redis
  <2>2. ASSUME NEW u \in User, MarkLoggedIn(c, u) PROVE TypeOK'
    BY <2>2 DEF MarkLoggedIn, gateway
  <2>3. ASSUME NEW r \in Room, CreateList(c, r) \/ JoinLookup(c, r) PROVE TypeOK'
    BY <2>3 DEF CreateList, JoinLookup, redis, gateway
  <2>4. CASE DisconnectFails(c)
    BY <2>4, RegistryAssumption DEF DisconnectFails, Fault, redis
  <2>. QED BY <1>2, <2>1, <2>2, <2>3, <2>4, <2>5 DEF Command
<1>3. ASSUME NEW c \in Conn \cup {None}, NEW r \in Room, CancelRoom(c, r) PROVE TypeOK'
  BY <1>3 DEF CancelRoom, redis
<1>4. CASE CallFails
  BY <1>4, RegistryAssumption DEF CallFails, Fault, redis
<1>5. CASE Crash
  BY <1>5, RegistryAssumption DEF Crash, Fault, redis
<1>6. CASE Wipe
  BY <1>6, RegistryAssumption DEF Wipe, Fault, gateway
<1>7. CASE UNCHANGED vars
  BY <1>7 DEF vars, redis, gateway
<1>. QED BY <1>1, <1>2, <1>3, <1>4, <1>5, <1>6, <1>7 DEF Next

-----------------------------------------------------------------------------
(* The shape of an operation, and who is in the set of a room.             *)

\* Every step leaves the locals of an operation of its kind.
LEMMA StepShape ==
    ASSUME TypeOK, OpShape, [Next]_vars
    PROVE  OpShape'
<1> USE RegistryAssumption
    DEF OpShape, ForgetPlaces, JoinPlaces, CancelPlaces, Then, Done, Idle, Begin, At
<1>1. CASE Operation
  <2>1. CASE ForgetGet
    BY <2>1 DEF ForgetGet, redis, gateway, TypeOK
  <2>2. CASE ForgetSrem
    BY <2>2 DEF ForgetSrem, gateway, TypeOK
  <2>3. CASE ForgetDel
    BY <2>3 DEF ForgetDel, gateway
  <2>4. CASE CreateRoom
    BY <2>4 DEF CreateRoom, redis
  <2>5. CASE Smembers
    BY <2>5 DEF Smembers, redis, gateway, TypeOK
  <2>6. CASE RemoveRoomEntries
    BY <2>6 DEF RemoveRoomEntries, gateway, TypeOK
  <2>7. CASE Unlist
    BY <2>7 DEF Unlist, gateway
  <2>8. CASE JoinRelist
    BY <2>8 DEF JoinRelist, gateway, TypeOK
  <2>9. CASE NotFound
    BY <2>9 DEF NotFound, redis, gateway
  <2>10. CASE AssignGet
    BY <2>10 DEF AssignGet, redis, gateway, TypeOK
  <2>11. CASE AssignSrem
    BY <2>11 DEF AssignSrem, gateway, TypeOK
  <2>12. CASE AssignSet
    BY <2>12 DEF AssignSet, gateway, TypeOK
  <2>13. CASE AssignSadd
    BY <2>13 DEF AssignSadd, gateway
  <2>. QED
    BY <1>1, <2>1, <2>2, <2>3, <2>4, <2>5, <2>6, <2>7, <2>8, <2>9, <2>10, <2>11, <2>12,
       <2>13 DEF Operation
<1>2. ASSUME NEW c \in Conn, Command(c) \/ DisconnectFails(c) PROVE OpShape'
  <2>1. CASE Connect(c)
    BY <2>1 DEF Connect, redis, TypeOK
  <2>2. CASE Disconnect(c)
    BY <2>2 DEF Disconnect, redis, TypeOK
  <2>3. CASE ForgetWs(c)
    BY <2>3 DEF ForgetWs, redis, TypeOK
  <2>4. ASSUME NEW u \in User, MarkLoggedIn(c, u) PROVE OpShape'
    BY <2>4 DEF MarkLoggedIn, gateway
  <2>5. ASSUME NEW r \in Room, CreateList(c, r) PROVE OpShape'
    BY <2>5 DEF CreateList, gateway
  <2>6. ASSUME NEW r \in Room, JoinLookup(c, r) PROVE OpShape'
    BY <2>6 DEF JoinLookup, redis, gateway
  <2>7. CASE DisconnectFails(c)
    BY <2>7 DEF DisconnectFails, redis, TypeOK
  <2>. QED BY <1>2, <2>1, <2>2, <2>3, <2>4, <2>5, <2>6, <2>7 DEF Command
<1>3. ASSUME NEW c \in Conn \cup {None}, NEW r \in Room, CancelRoom(c, r) PROVE OpShape'
  BY <1>3 DEF CancelRoom, redis
<1>4. CASE CallFails
  BY <1>4 DEF CallFails, redis, TypeOK
<1>5. CASE Crash
  BY <1>5 DEF Crash, redis
<1>6. CASE Wipe
  BY <1>6 DEF Wipe, gateway
<1>7. CASE UNCHANGED vars
  BY <1>7 DEF vars, redis, gateway
<1>. QED BY <1>1, <1>2, <1>3, <1>4, <1>5, <1>6, <1>7 DEF Next

\* Out of the set before out of the key, call by call.
LEMMA StepMembers ==
    ASSUME TypeOK, OpShape, OutFirst, MembersPointBack, [Next]_vars
    PROVE  OutFirst' /\ MembersPointBack'
<1> USE RegistryAssumption DEF OutFirst, MembersPointBack, Then, Done, Idle, Begin, At
<1>1. CASE Operation
  <2>1. CASE ForgetGet
    BY <2>1 DEF ForgetGet, redis, gateway, TypeOK, OpShape, ForgetPlaces
  <2>2. CASE ForgetSrem
    BY <2>2 DEF ForgetSrem, Srem, gateway, TypeOK, OpShape, ForgetPlaces
  <2>3. CASE ForgetDel
    BY <2>3 DEF ForgetDel, gateway, TypeOK
  <2>4. CASE RemoveRoomEntries
    BY <2>4 DEF RemoveRoomEntries, gateway, TypeOK, OpShape, CancelPlaces
  <2>5. CASE AssignGet
    BY <2>5 DEF AssignGet, redis, gateway, TypeOK, OpShape, JoinPlaces
  <2>6. CASE AssignSrem
    BY <2>6 DEF AssignSrem, Srem, gateway, TypeOK, OpShape, JoinPlaces
  <2>7. CASE AssignSet
    BY <2>7 DEF AssignSet, gateway, TypeOK, OpShape, JoinPlaces
  <2>8. CASE AssignSadd
    BY <2>8 DEF AssignSadd, Sadd, gateway, TypeOK, OpShape, JoinPlaces
  <2>9. CASE CreateRoom \/ Smembers \/ Unlist \/ JoinRelist \/ NotFound
    <3>1. UNCHANGED <<room, members>>
      BY <2>9 DEF CreateRoom, Smembers, Unlist, JoinRelist, NotFound, redis
    <3>2. op'.at \notin {"forgetDel", "set", "sadd"}
      <4>1. CASE CreateRoom \/ Unlist \/ NotFound
        BY <4>1 DEF CreateRoom, Unlist, NotFound
      <4>2. CASE Smembers
        BY <4>2 DEF Smembers, TypeOK
      <4>3. CASE JoinRelist
        BY <4>3 DEF JoinRelist, TypeOK
      <4>. QED BY <2>9, <4>1, <4>2, <4>3
    <3>. QED BY <3>1, <3>2
  <2>. QED
    BY <1>1, <2>1, <2>2, <2>3, <2>4, <2>5, <2>6, <2>7, <2>8, <2>9 DEF Operation
<1>2. ASSUME NEW c \in Conn, Command(c) \/ DisconnectFails(c)
      PROVE  OutFirst' /\ MembersPointBack'
  <2>1. UNCHANGED <<room, members>>
    BY <1>2 DEF Command, Connect, Disconnect, ForgetWs, MarkLoggedIn, CreateList, JoinLookup,
                DisconnectFails, redis
  <2>2. op'.at \notin {"forgetDel", "set", "sadd"}
    BY <1>2 DEF Command, Connect, Disconnect, ForgetWs, MarkLoggedIn, CreateList, JoinLookup,
                DisconnectFails
  <2>. QED BY <2>1, <2>2
<1>3. ASSUME NEW c \in Conn \cup {None}, NEW r \in Room, CancelRoom(c, r)
      PROVE  OutFirst' /\ MembersPointBack'
  BY <1>3 DEF CancelRoom, redis
<1>4. CASE CallFails \/ Crash
  BY <1>4 DEF CallFails, Crash, redis
<1>5. CASE Wipe
  BY <1>5 DEF Wipe
<1>6. CASE UNCHANGED vars
  BY <1>6 DEF vars, redis
<1>. QED BY <1>1, <1>2, <1>3, <1>4, <1>5, <1>6 DEF Next

-----------------------------------------------------------------------------
(* The directory.                                                          *)

\* Listed before alive, dead before unlisted, call by call.
LEMMA StepListed ==
    ASSUME TypeOK, ListedFirst, CheckedIsListed, [Next]_vars
    PROVE  ListedFirst' /\ CheckedIsListed'
<1> USE DEF ListedFirst, CheckedIsListed, CancelPlaces, Then, Done, Idle, Begin, At
<1>1. CASE Operation
  <2>1. CASE CreateRoom
    BY <2>1 DEF CreateRoom, redis
  <2>2. CASE Smembers
    BY <2>2 DEF Smembers, redis, gateway, TypeOK
  <2>3. CASE RemoveRoomEntries
    BY <2>3 DEF RemoveRoomEntries, gateway, TypeOK
  <2>4. CASE Unlist
    BY <2>4 DEF Unlist, gateway
  <2>5. CASE JoinRelist
    BY <2>5 DEF JoinRelist, gateway, TypeOK
  <2>6. CASE ForgetGet \/ ForgetSrem \/ ForgetDel
    <3>1. UNCHANGED <<directory, rooms, checked>>
      BY <2>6 DEF ForgetGet, ForgetSrem, ForgetDel, redis, gateway
    <3>2. op'.at \in {"idle", "forgetSrem", "forgetDel"}
      <4>1. CASE ForgetGet
        BY <4>1 DEF ForgetGet, TypeOK
      <4>2. CASE ForgetSrem
        BY <4>2 DEF ForgetSrem, TypeOK
      <4>3. CASE ForgetDel
        BY <4>3 DEF ForgetDel
      <4>. QED BY <2>6, <4>1, <4>2, <4>3
    <3>. QED BY <3>1, <3>2
  <2>7. CASE NotFound \/ AssignGet
    <3>1. UNCHANGED <<directory, rooms, checked>>
      BY <2>7 DEF NotFound, AssignGet, redis, gateway
    <3>2. op'.at \in {"idle", "set", "assignSrem"}
      <4>1. CASE NotFound
        BY <4>1 DEF NotFound
      <4>2. CASE AssignGet
        BY <4>2 DEF AssignGet, TypeOK
      <4>. QED BY <2>7, <4>1, <4>2
    <3>. QED BY <3>1, <3>2
  <2>8. CASE AssignSrem \/ AssignSet \/ AssignSadd
    BY <2>8 DEF AssignSrem, AssignSet, AssignSadd, gateway, TypeOK
  <2>. QED
    BY <1>1, <2>1, <2>2, <2>3, <2>4, <2>5, <2>6, <2>7, <2>8 DEF Operation
<1>2. ASSUME NEW c \in Conn, Command(c) \/ DisconnectFails(c)
      PROVE  ListedFirst' /\ CheckedIsListed'
  <2>1. CASE Connect(c) \/ Disconnect(c) \/ ForgetWs(c) \/ DisconnectFails(c)
    BY <2>1 DEF Connect, Disconnect, ForgetWs, DisconnectFails, redis
  <2>2. ASSUME NEW u \in User, MarkLoggedIn(c, u) PROVE ListedFirst' /\ CheckedIsListed'
    BY <2>2 DEF MarkLoggedIn, gateway
  <2>3. ASSUME NEW r \in Room, CreateList(c, r) PROVE ListedFirst' /\ CheckedIsListed'
    BY <2>3 DEF CreateList, gateway
  <2>4. ASSUME NEW r \in Room, JoinLookup(c, r) PROVE ListedFirst' /\ CheckedIsListed'
    BY <2>4 DEF JoinLookup, redis, gateway
  <2>. QED BY <1>2, <2>1, <2>2, <2>3, <2>4 DEF Command
<1>3. ASSUME NEW c \in Conn \cup {None}, NEW r \in Room, CancelRoom(c, r)
      PROVE  ListedFirst' /\ CheckedIsListed'
  BY <1>3 DEF CancelRoom, redis
<1>4. CASE CallFails
  BY <1>4 DEF CallFails, redis
<1>5. CASE Crash \/ Wipe
  BY <1>5 DEF Crash, Wipe, redis, gateway
<1>6. CASE UNCHANGED vars
  BY <1>6 DEF vars, redis, gateway
<1>. QED BY <1>1, <1>2, <1>3, <1>4, <1>5, <1>6 DEF Next

-----------------------------------------------------------------------------
(* As long as nothing has gone wrong.                                      *)

\* The steps that count no fault.
Smooth ==
    \/ Operation
    \/ \E c \in Conn : Command(c)
    \/ \E c \in Conn \cup {None}, r \in Room : CancelRoom(c, r)
    \/ UNCHANGED vars

\* A run without a fault has had none before.
LEMMA FaultsCount ==
    ASSUME TypeOK, [Next]_vars, faults' = 0
    PROVE  faults = 0 /\ Smooth
<1>1. faults \in Nat
  BY RegistryAssumption DEF TypeOK
<1>2. ASSUME Fault PROVE FALSE
  BY <1>1, <1>2 DEF Fault
<1>3. Smooth
  BY <1>2 DEF Next, Smooth, DisconnectFails, CallFails, Crash, Wipe
<1>4. ASSUME Operation PROVE faults = 0
  BY <1>4 DEF Operation, ForgetGet, ForgetSrem, ForgetDel, CreateRoom, Smembers,
              RemoveRoomEntries, Unlist, JoinRelist, NotFound, AssignGet, AssignSrem,
              AssignSet, AssignSadd
<1>5. ASSUME NEW c \in Conn, Command(c) PROVE faults = 0
  BY <1>5 DEF Command, Connect, Disconnect, ForgetWs, MarkLoggedIn, CreateList, JoinLookup
<1>6. ASSUME NEW c \in Conn \cup {None}, NEW r \in Room, CancelRoom(c, r) PROVE faults = 0
  BY <1>6 DEF CancelRoom
<1>. QED BY <1>3, <1>4, <1>5, <1>6 DEF Smooth, vars

\* Without a fault, a call takes one item off what is left to do.
LEMMA StepAgreement ==
    ASSUME TypeOK, OpShape, OutFirst, MembersPointBack, ListedFirst, Agreement, Smooth
    PROVE  Agreement'
<1> USE RegistryAssumption
    DEF Agreement, Settled, Unborn, Emptied, CancelPlaces, Then, Done, Idle, Begin, At
<1>1. CASE Operation
  <2>1. CASE ForgetGet
    BY <2>1 DEF ForgetGet, redis, gateway, TypeOK, OpShape, ForgetPlaces
  <2>2. CASE ForgetSrem
    BY <2>2 DEF ForgetSrem, Srem, gateway, TypeOK, OpShape, ForgetPlaces
  <2>3. CASE ForgetDel
    BY <2>3 DEF ForgetDel, gateway, TypeOK, OutFirst, OpShape, ForgetPlaces
  <2>4. CASE CreateRoom
    BY <2>4 DEF CreateRoom, redis, TypeOK
  <2>5. CASE Smembers
    BY <2>5 DEF Smembers, redis, gateway, TypeOK
  <2>6. CASE RemoveRoomEntries
    BY <2>6 DEF RemoveRoomEntries, gateway, TypeOK, OpShape
  <2>7. CASE Unlist
    BY <2>7 DEF Unlist, gateway, TypeOK, ListedFirst
  <2>8. CASE JoinRelist
    BY <2>8 DEF JoinRelist
  <2>9. CASE NotFound
    BY <2>9 DEF NotFound, redis, gateway, TypeOK
  <2>10. CASE AssignGet
    BY <2>10 DEF AssignGet, redis, gateway, TypeOK
  <2>11. CASE AssignSrem
    BY <2>11 DEF AssignSrem, Srem, gateway, TypeOK, OpShape, JoinPlaces
  <2>12. CASE AssignSet
    BY <2>12 DEF AssignSet, gateway, TypeOK, OpShape, JoinPlaces
  <2>13. CASE AssignSadd
    BY <2>13 DEF AssignSadd, Sadd, gateway, TypeOK, OutFirst, MembersPointBack, OpShape,
                 JoinPlaces
  <2>. QED
    BY <1>1, <2>1, <2>2, <2>3, <2>4, <2>5, <2>6, <2>7, <2>8, <2>9, <2>10, <2>11, <2>12,
       <2>13 DEF Operation
<1>2. ASSUME NEW c \in Conn, Command(c) PROVE Agreement'
  <2>1. CASE Connect(c) \/ Disconnect(c)
    BY <2>1 DEF Connect, Disconnect, redis
  <2>2. CASE ForgetWs(c)
    BY <2>2 DEF ForgetWs, redis
  <2>3. ASSUME NEW u \in User, MarkLoggedIn(c, u) PROVE Agreement'
    BY <2>3 DEF MarkLoggedIn, gateway
  <2>4. ASSUME NEW r \in Room, CreateList(c, r) PROVE Agreement'
    BY <2>4 DEF CreateList, gateway
  <2>5. ASSUME NEW r \in Room, JoinLookup(c, r) PROVE Agreement'
    BY <2>5 DEF JoinLookup, redis, gateway
  <2>. QED BY <1>2, <2>1, <2>2, <2>3, <2>4, <2>5 DEF Command
<1>3. ASSUME NEW c \in Conn \cup {None}, NEW r \in Room, CancelRoom(c, r) PROVE Agreement'
  BY <1>3 DEF CancelRoom, redis
<1>4. CASE UNCHANGED vars
  BY <1>4 DEF vars, redis, gateway
<1>. QED BY <1>1, <1>2, <1>3, <1>4 DEF Smooth

-----------------------------------------------------------------------------
(* The invariant, and what follows from it.                                *)

\* Nothing is stored and nothing under way at first.
LEMMA InitInvariant == Init => IInv
<1>. SUFFICES ASSUME Init PROVE IInv
  OBVIOUS
<1>1. TypeOK
  BY InitTypes
<1>2. OpShape
  BY DEF Init, Idle, OpShape, ForgetPlaces, JoinPlaces, CancelPlaces
<1>3. OutFirst /\ MembersPointBack /\ ListedFirst /\ CheckedIsListed
  BY DEF Init, Idle, OutFirst, MembersPointBack, ListedFirst, CheckedIsListed, CancelPlaces
<1>4. Agreement
  BY RegistryAssumption DEF Init, Idle, Agreement, Settled, Unborn, Emptied, CancelPlaces
<1>. QED BY <1>1, <1>2, <1>3, <1>4 DEF IInv

\* Every step keeps the invariant.
LEMMA StepInvariant == IInv /\ [Next]_vars => IInv'
<1>. SUFFICES ASSUME IInv, [Next]_vars PROVE IInv'
  OBVIOUS
<1>1. TypeOK /\ OpShape /\ OutFirst /\ MembersPointBack /\ ListedFirst /\ CheckedIsListed
  BY DEF IInv
<1>2. TypeOK' /\ OpShape'
  BY <1>1, StepTypes, StepShape
<1>3. OutFirst' /\ MembersPointBack' /\ ListedFirst' /\ CheckedIsListed'
  BY <1>1, StepMembers, StepListed
<1>4. ASSUME faults' = 0 PROVE Agreement'
  <2>1. faults = 0 /\ Smooth
    BY <1>1, <1>4, FaultsCount
  <2>2. Agreement
    BY <2>1 DEF IInv
  <2>. QED BY <1>1, <2>1, <2>2, StepAgreement
<1>. QED BY <1>2, <1>3, <1>4 DEF IInv

\* Whatever fails, crashes or is lost, and wherever: what is written down of an
\* operation is there at the place it was interrupted at.
THEOREM Invariance == Spec => []IInv
  BY InitInvariant, StepInvariant, PTL DEF Spec

\* Redis, the gateway and the operation under way keep their types, through
\* failing calls, crashes and restarts (redis_connection_registry.py).
THEOREM TypesHold == Spec => []TypeOK
<1>1. IInv => TypeOK
  BY DEF IInv
<1>. QED BY <1>1, Invariance, PTL

\* No set of a room ever holds a connection whose own key says otherwise
\* (assign_room and forget take it out of the set first).
THEOREM SetsPointBack == Spec => []MembersPointBack
<1>1. IInv => MembersPointBack
  BY DEF IInv
<1>. QED BY <1>1, Invariance, PTL

\* A live room that a join has looked for stays in the directory until Redis
\* loses its data (room_manager.py:126-134).
THEOREM DirectoryRepaired == Spec => []CheckedIsListed
<1>1. IInv => CheckedIsListed
  BY DEF IInv
<1>. QED BY <1>1, Invariance, PTL

\* Before the first fault the sets, the keys, the rooms and the directory agree
\* between any two operations.
THEOREM AudiencesAgree == Spec => []AudienceAgrees
<1>1. IInv => AudienceAgrees
  <2>. SUFFICES ASSUME IInv, faults = 0, At("idle") PROVE AudienceAgrees
    BY DEF AudienceAgrees
  <2>1. TypeOK /\ Agreement
    BY DEF IInv
  <2>2. \A r \in Room : members[r] = {c \in Conn : room[c] = r}
    BY <2>1 DEF TypeOK, Agreement, Settled, At
  <2>3. directory = rooms /\ \A c \in Conn : room[c] \in rooms \cup {None}
    BY <2>1 DEF Agreement, Unborn, Emptied, CancelPlaces, At
  <2>. QED BY <2>2, <2>3 DEF AudienceAgrees
<1>. QED BY <1>1, Invariance, PTL

-----------------------------------------------------------------------------
(* The registry in memory.                                                 *)

\* Two empty registries are the same.
LEMMA InitRefines == Init => Registry!Init
  BY DEF Init, Registry!Init, Idle, Forgetting

\* A connection that is served is in the table; one that is being forgotten is
\* so no longer, and counts as connected until its keys are gone.
LEMMA StepRefines ==
    ASSUME TypeOK, OpShape, Agreement, Smooth
    PROVE  Registry!Next \/ UNCHANGED Registry!vars
<1> USE DEF Then, Done, Idle, Begin, At, Forgetting, Registry!vars
<1>1. CASE Operation
  <2>1. CASE ForgetGet
    BY <2>1 DEF ForgetGet, redis, gateway, TypeOK
  <2>2. CASE ForgetSrem
    BY <2>2 DEF ForgetSrem, gateway, TypeOK
  <2>3. CASE ForgetDel
    <3>1. op.conn \in Conn \ ws
      BY <2>3 DEF ForgetDel, OpShape, ForgetPlaces
    <3>2. Registry!Forget(op.conn)
      BY <2>3, <3>1 DEF ForgetDel, gateway, Registry!Forget
    <3>. QED BY <3>1, <3>2 DEF Registry!Next
  <2>4. CASE RemoveRoomEntries
    <3>1. op.room \in Room /\ op.stale = {c \in Conn : room[c] = op.room}
      BY <2>4 DEF RemoveRoomEntries, OpShape, CancelPlaces, Agreement, Settled, TypeOK
    <3>2. Registry!RemoveRoomEntries(op.room)
      BY <2>4, <3>1 DEF RemoveRoomEntries, gateway, TypeOK, Registry!RemoveRoomEntries,
                        Registry!ConnsInRoom
    <3>. QED BY <3>1, <3>2 DEF Registry!Next
  <2>5. CASE AssignSet
    <3>1. op.conn \in Conn \cap ws /\ op.room \in Room
      BY <2>5 DEF AssignSet, OpShape, JoinPlaces
    <3>2. Registry!AssignRoom(op.conn, op.room)
      BY <2>5, <3>1 DEF AssignSet, gateway, TypeOK, Registry!AssignRoom
    <3>. QED BY <3>1, <3>2 DEF Registry!Next
  <2>6. CASE CreateRoom \/ Unlist \/ NotFound \/ AssignSadd
    BY <2>6 DEF CreateRoom, Unlist, NotFound, AssignSadd, redis, gateway
  <2>7. CASE Smembers
    BY <2>7 DEF Smembers, redis, gateway, TypeOK
  <2>8. CASE JoinRelist
    BY <2>8 DEF JoinRelist, gateway, TypeOK
  <2>9. CASE AssignGet
    BY <2>9 DEF AssignGet, redis, gateway, TypeOK
  <2>10. CASE AssignSrem
    BY <2>10 DEF AssignSrem, gateway, TypeOK
  <2>. QED
    BY <1>1, <2>1, <2>2, <2>3, <2>4, <2>5, <2>6, <2>7, <2>8, <2>9, <2>10 DEF Operation
<1>2. ASSUME NEW c \in Conn, Command(c) PROVE Registry!Next \/ UNCHANGED Registry!vars
  <2>1. CASE Connect(c)
    <3>1. Registry!Register(c)
      BY <2>1 DEF Connect, redis, Registry!Register
    <3>. QED BY <3>1 DEF Registry!Next
  <2>2. CASE Disconnect(c)
    BY <2>2 DEF Disconnect, redis
  <2>3. CASE ForgetWs(c)
    BY <2>3 DEF ForgetWs, redis, OpShape
  <2>4. ASSUME NEW u \in User, MarkLoggedIn(c, u) PROVE Registry!Next
    <3>1. Registry!MarkLoggedIn(c, u)
      BY <2>4 DEF MarkLoggedIn, gateway, OpShape, Registry!MarkLoggedIn
    <3>. QED BY <3>1 DEF Registry!Next
  <2>5. ASSUME NEW r \in Room, CreateList(c, r) \/ JoinLookup(c, r)
        PROVE  UNCHANGED Registry!vars
    BY <2>5 DEF CreateList, JoinLookup, redis, gateway
  <2>. QED BY <1>2, <2>1, <2>2, <2>3, <2>4, <2>5 DEF Command
<1>3. ASSUME NEW c \in Conn \cup {None}, NEW r \in Room, CancelRoom(c, r)
      PROVE  UNCHANGED Registry!vars
  BY <1>3 DEF CancelRoom, redis
<1>4. CASE UNCHANGED vars
  BY <1>4 DEF vars, redis, gateway
<1>. QED BY <1>1, <1>2, <1>3, <1>4 DEF Smooth

\* The calls of Redis add up to the operations of the registry in memory
\* (connection_registry.py), as long as nothing has gone wrong.
THEOREM Refinement == Spec => ImplementsRegistry
<1>1. IInv /\ [Next]_vars => [faults' > 0 \/ Registry!Next]_(Registry!vars)
  <2>. SUFFICES ASSUME IInv, [Next]_vars, ~(faults' > 0)
                PROVE  Registry!Next \/ UNCHANGED Registry!vars
    OBVIOUS
  <2>1. TypeOK /\ OpShape /\ TypeOK'
    BY StepInvariant DEF IInv
  <2>2. faults' = 0
    BY <2>1, RegistryAssumption DEF TypeOK
  <2>3. faults = 0 /\ Smooth
    BY <2>1, <2>2, FaultsCount
  <2>4. Agreement
    BY <2>3 DEF IInv
  <2>. QED BY <2>1, <2>3, <2>4, StepRefines
<1>. QED BY <1>1, InitRefines, Invariance, PTL DEF Spec, ImplementsRegistry
=============================================================================
