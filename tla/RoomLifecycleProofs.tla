------------------------ MODULE RoomLifecycleProofs ------------------------
(***************************************************************************)
(* Proofs about RoomLifecycle, for any sets of connections, rooms,         *)
(* sessions and users.  The inductive invariant is IInv: the types, that   *)
(* the two indexes of a session agree, that a placeholder record belongs   *)
(* to the connection it is filed under, that a handler on its way out      *)
(* holds a player's name, that no two rooms share a session and, when      *)
(* every joiner gives a name, the three ways a session's slots are filled. *)
(***************************************************************************)
EXTENDS RoomLifecycle, FiniteSetTheorems, TLAPS

\* A player filed under a connection id has its record name that connection.
PlaceholdersSelfBound ==
    \A s \in Session : \A k \in DOMAIN players[s] :
        k \in Conn => players[s][k].conn = k

\* No session is in two rooms.
SessionsApart ==
    \A q, r \in Room : session[q] # NoSession /\ session[q] = session[r] => q = r

\* Nobody, a white player, or a white player and a black one.
Seating(d) ==
    \/ DOMAIN d = {}
    \/ \E u \in Player : DOMAIN d = {u} /\ d[u].color = "w"
    \/ \E u, v \in Player :
          u # v /\ DOMAIN d = {u, v} /\ d[u].color = "w" /\ d[v].color = "b"

\* When every joiner gives a name, all players go by one, and are seated.
NamedSeats ==
    Anonymous \notin JoinNames =>
        \A s \in Session : Seating(players[s]) /\ DOMAIN players[s] \cap Conn = {}

\* A handler that tells the opponent of its going holds a player of a room.
LeaversNamed ==
    \A c \in Conn : step[c] = "leaving" => <<subject[c].room, subject[c].name>> \in Key

IInv ==
    /\ TypeOK
    /\ LeaversNamed
    /\ VoiceIsBound
    /\ PlaceholdersSelfBound
    /\ RoomEntriesLive
    /\ LiveRoomTicks
    /\ SessionsApart
    /\ NamedSeats
-----------------------------------------------------------------------------
(* Dicts.                                                                  *)

\* A dict, from its parts: what every update of one must show.
LEMMA DictIntro ==
    ASSUME NEW keys, NEW values, NEW D \in SUBSET keys, NEW d \in [D -> values]
    PROVE  d \in Dict(keys, values)
BY DEF Dict

\* The parts of a dict.
LEMMA DictParts ==
    ASSUME NEW keys, NEW values, NEW d \in Dict(keys, values)
    PROVE  /\ DOMAIN d \in SUBSET keys
           /\ d \in [DOMAIN d -> values]
           /\ \A k \in DOMAIN d : d[k] \in values
BY DEF Dict

\* A session's players after players[k] = v.
LEMMA PlayersPut ==
    ASSUME NEW d \in Dict(Player, Record), NEW k \in Player, NEW v \in Record
    PROVE  /\ Put(d, k, v) \in Dict(Player, Record)
           /\ DOMAIN Put(d, k, v) = DOMAIN d \cup {k}
           /\ Put(d, k, v)[k] = v
           /\ \A j \in DOMAIN d : j # k => Put(d, k, v)[j] = d[j]
<1>1. Put(d, k, v) \in [DOMAIN d \cup {k} -> Record]
  BY DictParts DEF Put
<1>2. DOMAIN d \cup {k} \in SUBSET Player
  BY DictParts
<1>3. Put(d, k, v) \in Dict(Player, Record)
  BY <1>1, <1>2, DictIntro
<1>. QED BY <1>3 DEF Put

\* A session's players after del players[k].
LEMMA PlayersWithout ==
    ASSUME NEW d \in Dict(Player, Record), NEW k
    PROVE  /\ Without(d, k) \in Dict(Player, Record)
           /\ DOMAIN Without(d, k) = DOMAIN d \ {k}
           /\ \A j \in DOMAIN d : j # k => Without(d, k)[j] = d[j]
<1>1. Without(d, k) \in [DOMAIN d \ {k} -> Record]
  BY DictParts DEF Without, Restrict
<1>2. DOMAIN d \ {k} \in SUBSET Player
  BY DictParts
<1>3. Without(d, k) \in Dict(Player, Record)
  BY <1>1, <1>2, DictIntro
<1>. QED BY <1>3 DEF Without, Restrict

\* The keys and the values of a session's dict of players.
LEMMA PlayersParts ==
    ASSUME TypeOK, NEW s \in Session
    PROVE  /\ players[s] \in Dict(Player, Record)
           /\ DOMAIN players[s] \in SUBSET Player
           /\ \A k \in DOMAIN players[s] : players[s][k] \in Record
<1>1. players[s] \in Dict(Player, Record)
  BY DEF TypeOK
<1>. QED BY <1>1, DictParts

\* A join name is a player's or the empty one; players are users or connections.
LEMMA JoinerIsPlayer ==
    ASSUME NEW name \in JoinNames, name # Anonymous
    PROVE  name \in User /\ name \in Player /\ name \notin Conn
BY NameAssumption DEF Player

\* What GameSession.record_join leaves: the newcomer with the next colour on
\* its connection, and everybody but whoever was filed under that connection.
LEMMA EnrolledParts ==
    ASSUME TypeOK, NEW s \in Session, NEW c \in Conn, NEW name \in JoinNames
    PROVE  LET player == IF name = Anonymous THEN c ELSE name
               d == Enrolled(s, c, name)
           IN  /\ d \in Dict(Player, Record)
               /\ DOMAIN d \subseteq DOMAIN players[s] \cup {player}
               /\ DOMAIN players[s] \subseteq DOMAIN d \cup {c}
               /\ player \in DOMAIN d
               /\ d[player] = [color |-> NextColor(s), conn |-> c]
               /\ \A j \in DOMAIN d : j # player => j \in DOMAIN players[s] /\ d[j] = players[s][j]
<1>. DEFINE player == IF name = Anonymous THEN c ELSE name
            record == [color |-> NextColor(s), conn |-> c]
<1>1. record \in Record
  BY DEF Record, Color, NextColor
<1>2. players[s] \in Dict(Player, Record)
  BY PlayersParts
<1>3. CASE name = Anonymous
  <2>1. c \in Player
    BY DEF Player
  <2>2. Enrolled(s, c, name) = Put(players[s], c, record)
    BY <1>3 DEF Enrolled
  <2>. HIDE DEF record
  <2>3. /\ Put(players[s], c, record) \in Dict(Player, Record)
        /\ DOMAIN Put(players[s], c, record) = DOMAIN players[s] \cup {c}
        /\ Put(players[s], c, record)[c] = record
        /\ \A j \in DOMAIN players[s] : j # c => Put(players[s], c, record)[j] = players[s][j]
    BY <1>1, <1>2, <2>1, PlayersPut
  <2>. QED BY <1>3, <2>2, <2>3 DEF record
<1>4. CASE name # Anonymous
  <2>. DEFINE rest == Without(players[s], c)
  <2>1. name \in Player /\ name # c
    BY <1>4, JoinerIsPlayer
  <2>2. Enrolled(s, c, name) = Put(rest, name, record)
    BY <1>4 DEF Enrolled
  <2>3. /\ rest \in Dict(Player, Record)
        /\ DOMAIN rest = DOMAIN players[s] \ {c}
        /\ \A j \in DOMAIN players[s] : j # c => rest[j] = players[s][j]
    BY <1>2, PlayersWithout
  <2>. HIDE DEF record, rest
  <2>4. /\ Put(rest, name, record) \in Dict(Player, Record)
        /\ DOMAIN Put(rest, name, record) = DOMAIN rest \cup {name}
        /\ Put(rest, name, record)[name] = record
        /\ \A j \in DOMAIN rest : j # name => Put(rest, name, record)[j] = rest[j]
    BY <1>1, <2>1, <2>3, PlayersPut
  <2>. QED BY <1>4, <2>1, <2>2, <2>3, <2>4 DEF record
<1>. QED BY <1>3, <1>4

\* What a player's return leaves: the same dict, but for the player's connection.
LEMMA RejoinParts ==
    ASSUME TypeOK, NEW c \in Conn, NEW r \in Room, NEW name \in JoinNames,
           Rejoin(c, r, name)
    PROVE  LET s == session[r]
           IN  /\ s \in Session
               /\ name \in DOMAIN players[s]
               /\ name \in Player /\ name \notin Conn
               /\ players[s][name].conn \in Conn
               /\ players' = [players EXCEPT ![s] = players'[s]]
               /\ players'[s] \in Dict(Player, Record)
               /\ DOMAIN players'[s] = DOMAIN players[s]
               /\ players'[s][name].conn = c
               /\ \A j \in DOMAIN players[s] :
                     /\ players'[s][j].color = players[s][j].color
                     /\ j # name => players'[s][j] = players[s][j]
               /\ pointer' = [pointer EXCEPT ![s] = Rebound(s, name, c)]
<1>. DEFINE s == session[r]
            back == [players[s][name] EXCEPT !.conn = c]
<1>1. /\ s \in Session
      /\ name \in DOMAIN players[s]
      /\ name # Anonymous
      /\ pointer' = [pointer EXCEPT ![s] = Rebound(s, name, c)]
      /\ players' = [players EXCEPT ![s][name].conn = c]
  BY DEF Rejoin, TypeOK
<1>2. players'[s] = [players[s] EXCEPT ![name] = back]
  BY <1>1 DEF TypeOK
<1>3. players' = [players EXCEPT ![s] = players'[s]]
  BY <1>1 DEF TypeOK
<1>4. players[s] \in Dict(Player, Record) /\ \A k \in DOMAIN players[s] : players[s][k] \in Record
  BY <1>1, PlayersParts
<1>5. back \in Record /\ back.color = players[s][name].color /\ back.conn = c
  BY <1>1, <1>4 DEF Record
<1>6. players[s] \in [DOMAIN players[s] -> Record] /\ DOMAIN players[s] \in SUBSET Player
  BY <1>1, <1>4, DictParts
<1>. HIDE DEF s, back
<1>7. players'[s] \in [DOMAIN players[s] -> Record]
  BY <1>2, <1>5, <1>6
<1>8. players'[s] \in Dict(Player, Record)
  BY <1>6, <1>7, DictIntro
<1>9. name \in Player /\ name \notin Conn
  BY <1>1, JoinerIsPlayer
<1>10. players[s][name].conn \in Conn
  BY <1>1, <1>4 DEF Record
<1>11. \A j \in DOMAIN players[s] :
          /\ players'[s][j].color = players[s][j].color
          /\ j # name => players'[s][j] = players[s][j]
  BY <1>2, <1>5, <1>6
<1>12. DOMAIN players'[s] = DOMAIN players[s] /\ players'[s][name].conn = c
  BY <1>1, <1>2, <1>5, <1>6
<1>. QED BY <1>1, <1>3, <1>8, <1>9, <1>10, <1>11, <1>12 DEF s
-----------------------------------------------------------------------------
(* Initially.                                                              *)

\* The dicts of the initial state.
LEMMA EmptyIsDict ==
    /\ Empty \in Dict(Player, Record)
    /\ Empty \in Dict(Key, {})
    /\ DOMAIN Empty = {}
<1>1. Empty \in [{} -> Record] /\ Empty \in [{} -> {}] /\ DOMAIN Empty = {}
  BY DEF Empty
<1>2. {} \in SUBSET Player /\ {} \in SUBSET Key
  OBVIOUS
<1>. HIDE DEF Empty
<1>. QED BY <1>1, <1>2 DEF Dict

\* The inductive invariant holds before the first connection.
LEMMA InitIInv == Init => IInv
<1>. SUFFICES ASSUME Init PROVE IInv
  OBVIOUS
<1>. HIDE DEF Empty
<1>1. TypeOK
  <2>1. /\ players \in [Session -> Dict(Player, Record)]
        /\ resigning \in Dict(Key, created)
    BY EmptyIsDict DEF Init
  <2>. QED BY <2>1 DEF Init, TypeOK, Step, Nothing
<1>2. \A s \in Session : DOMAIN players[s] = {}
  BY EmptyIsDict DEF Init
<1>3. VoiceIsBound
  BY DEF Init, VoiceIsBound
<1>4. PlaceholdersSelfBound /\ NamedSeats
  BY <1>2 DEF PlaceholdersSelfBound, NamedSeats, Seating
<1>5. RoomEntriesLive /\ LiveRoomTicks /\ SessionsApart /\ LeaversNamed
  BY DEF Init, RoomEntriesLive, LiveRoomTicks, SessionsApart, LeaversNamed
<1>. QED BY <1>1, <1>3, <1>4, <1>5 DEF IInv
-----------------------------------------------------------------------------
(* Every step keeps the types.                                             *)

\* Forgetting a connection, or starting to leave, keeps the handlers' types.
LEMMA LeavingTypes ==
    ASSUME TypeOK, NEW c \in Conn, BeginLeaving(c)
    PROVE  /\ step' \in [Conn -> Step]
           /\ subject' \in [Conn -> [room : Room \cup {NoRoom}, name : Player \cup {NoName},
                                     session : Session \cup {NoSession}]]
           /\ roomOf' \in [Conn -> Room \cup {NoRoom}]
           /\ LeaversNamed => LeaversNamed'
<1>. DEFINE Locals == [room : Room \cup {NoRoom}, name : Player \cup {NoName},
                       session : Session \cup {NoSession}]
            leaver == [room |-> roomOf[c], name |-> pointer[session[roomOf[c]]][c],
                       session |-> session[roomOf[c]]]
<1>0. /\ step \in [Conn -> Step]
      /\ subject \in [Conn -> Locals]
      /\ roomOf \in [Conn -> Room \cup {NoRoom}]
      /\ {"closed", "leaving"} \subseteq Step
  BY DEF TypeOK, Step
<1>1. CASE PlaysHere(c)
  <2>1. roomOf[c] \in Room /\ session[roomOf[c]] \in Session
    BY <1>1 DEF PlaysHere, TypeOK
  <2>2. pointer[session[roomOf[c]]][c] \in Player
    BY <1>1, <2>1 DEF PlaysHere, TypeOK
  <2>3. leaver \in Locals
    BY <2>1, <2>2
  <2>4. /\ step' = [step EXCEPT ![c] = "leaving"]
        /\ subject' = [subject EXCEPT ![c] = leaver]
        /\ roomOf' = roomOf
    BY <1>1 DEF BeginLeaving
  <2>5. leaver.room = roomOf[c] /\ leaver.name = pointer[session[roomOf[c]]][c]
    OBVIOUS
  <2>6. <<leaver.room, leaver.name>> \in Key
    BY <2>1, <2>2, <2>5 DEF Key
  <2>. HIDE DEF Locals, leaver
  <2>7. subject' \in [Conn -> Locals]
    BY <1>0, <2>3, <2>4
  <2>8. LeaversNamed => LeaversNamed'
    BY <1>0, <2>4, <2>6 DEF LeaversNamed
  <2>. QED BY <1>0, <2>4, <2>7, <2>8 DEF Locals
<1>2. CASE ~PlaysHere(c)
  <2>1. Nothing \in Locals
    BY DEF Nothing
  <2>2. /\ step' = [step EXCEPT ![c] = "closed"]
        /\ subject' = [subject EXCEPT ![c] = Nothing]
        /\ roomOf' = [roomOf EXCEPT ![c] = NoRoom]
    BY <1>2 DEF BeginLeaving, Forget
  <2>. HIDE DEF Locals
  <2>3. subject' \in [Conn -> Locals]
    BY <1>0, <2>1, <2>2
  <2>4. LeaversNamed => LeaversNamed'
    BY <1>0, <2>2 DEF LeaversNamed
  <2>. QED BY <1>0, <2>2, <2>3, <2>4 DEF Locals
<1>. QED BY <1>1, <1>2

\* The other resignations stay dicts of sessions.
LEMMA ResigningWithout ==
    ASSUME TypeOK, NEW key
    PROVE  Without(resigning, key) \in Dict(Key, created)
<1>1. /\ DOMAIN resigning \in SUBSET Key
      /\ resigning \in [DOMAIN resigning -> created]
  BY DictParts DEF TypeOK
<1>2. Without(resigning, key) \in [DOMAIN resigning \ {key} -> created]
  BY <1>1 DEF Without, Restrict
<1>3. DOMAIN resigning \ {key} \in SUBSET Key
  BY <1>1
<1>. QED BY <1>2, <1>3, DictIntro

\* A join of any kind keeps the types.
LEMMA JoinTypes ==
    ASSUME TypeOK, NEW c \in Conn, NEW r \in Room, NEW name \in JoinNames,
           JoinRoom(c, r, name)
    PROVE  TypeOK'
<1>1. CASE Rejoin(c, r, name)
  <2>. DEFINE s == session[r]
  <2>1. /\ s \in Session
        /\ name \in Player
        /\ players' = [players EXCEPT ![s] = players'[s]]
        /\ players'[s] \in Dict(Player, Record)
        /\ pointer' = [pointer EXCEPT ![s] = Rebound(s, name, c)]
    BY <1>1, RejoinParts
  <2>2. Rebound(s, name, c) \in [Conn -> Player \cup {NoName}]
    BY <2>1 DEF Rebound, TypeOK
  <2>3. /\ players' \in [Session -> Dict(Player, Record)]
        /\ pointer' \in [Session -> [Conn -> Player \cup {NoName}]]
    BY <2>1, <2>2 DEF TypeOK
  <2>4. /\ step' \in [Conn -> Step]
        /\ subject' \in [Conn -> [room : Room \cup {NoRoom}, name : Player \cup {NoName},
                                  session : Session \cup {NoSession}]]
        /\ roomOf' \in [Conn -> Room \cup {NoRoom}]
        /\ monitors' \in SUBSET Key
    BY <1>1, <2>1 DEF Rejoin, TypeOK, Disarmed, Step
  <2>. QED BY <1>1, <2>3, <2>4 DEF Rejoin, TypeOK
<1>2. CASE Enrol(c, r, name)
  <2>. DEFINE s == session[r]
              player == IF name = Anonymous THEN c ELSE name
  <2>1. s \in Session
    BY <1>2 DEF Enrol, TypeOK
  <2>2. player \in Player
    BY JoinerIsPlayer DEF Player
  <2>3. Enrolled(s, c, name) \in Dict(Player, Record)
    BY <2>1, EnrolledParts
  <2>4. /\ roomOf' = [roomOf EXCEPT ![c] = r]
        /\ players' = [players EXCEPT ![s] = Enrolled(s, c, name)]
        /\ pointer' = [pointer EXCEPT ![s][c] = player]
        /\ UNCHANGED <<step, subject, session, created, loops, spectators, ending,
                       winner, monitors, resigning>>
    BY <1>2 DEF Enrol
  <2>. HIDE DEF s, player
  <2>. QED BY <2>1, <2>2, <2>3, <2>4 DEF TypeOK
<1>3. CASE Watch(c, r, name)
  BY <1>3 DEF Watch, TypeOK
<1>. QED BY <1>1, <1>2, <1>3 DEF JoinRoom

\* Resigning a session, in whatever state its game is.
LEMMA ResignTypes ==
    ASSUME TypeOK, NEW s \in Session, NEW name \in Player, Resign(s, name)
    PROVE  /\ ending' \in [Session -> {"none", "king", "resigned"}]
           /\ winner' \in [Session -> Color \cup {"none"}]
<1>1. ending' \in [Session -> {"none", "king", "resigned"}]
  BY DEF Resign, ForcedEnding, TypeOK
<1>2. CASE Others(s, name) = {}
  BY <1>1, <1>2 DEF Resign, TypeOK
<1>3. CASE Others(s, name) # {}
  <2>1. PICK u \in Opponents(s, name) : winner' = [winner EXCEPT ![s] = players[s][u].color]
    BY <1>3 DEF Resign
  <2>2. u \in DOMAIN players[s]
    BY <2>1 DEF Opponents, Others
  <2>3. players[s][u] \in Record
    BY <2>2, PlayersParts
  <2>4. players[s][u].color \in Color
    BY <2>3 DEF Record
  <2>. QED BY <1>1, <2>1, <2>4 DEF TypeOK
<1>. QED BY <1>2, <1>3

\* One more resignation of a live room's session.
LEMMA ResigningPut ==
    ASSUME TypeOK, NEW key \in Key, NEW s \in created
    PROVE  Put(resigning, key, s) \in Dict(Key, created)
<1>1. /\ DOMAIN resigning \in SUBSET Key
      /\ resigning \in [DOMAIN resigning -> created]
  BY DictParts DEF TypeOK
<1>2. Put(resigning, key, s) \in [DOMAIN resigning \cup {key} -> created]
  BY <1>1 DEF Put
<1>3. DOMAIN resigning \cup {key} \in SUBSET Key
  BY <1>1
<1>. QED BY <1>2, <1>3, DictIntro

\* A timer, and the resignation it starts, keep the types.
LEMMA ResignationTypes ==
    ASSUME TypeOK, LiveRoomTicks, NEW r \in Room, NEW name \in Player, AutoResign(r, name)
    PROVE  TypeOK'
<1>1. CASE Fire(r, name)
  <2>1. CASE session[r] = NoSession
    BY <1>1, <2>1 DEF Fire, TypeOK
  <2>2. CASE session[r] # NoSession
    <3>1. session[r] \in Session /\ <<r, name>> \in Key
      BY <2>2 DEF TypeOK, Key
    <3>2. Resign(session[r], name) /\ resigning' = Put(resigning, <<r, name>>, session[r])
      BY <1>1, <2>2 DEF Fire
    <3>3. /\ ending' \in [Session -> {"none", "king", "resigned"}]
          /\ winner' \in [Session -> Color \cup {"none"}]
      BY <3>1, <3>2, ResignTypes
    <3>4. session[r] \in created
      BY <2>2 DEF LiveRoomTicks, TypeOK
    <3>5. resigning' \in Dict(Key, created)
      BY <3>1, <3>2, <3>4, ResigningPut
    <3>. QED BY <1>1, <3>3, <3>5 DEF Fire, TypeOK
  <2>. QED BY <2>1, <2>2
<1>2. CASE Close(r, name)
  BY <1>2, ResigningWithout DEF Close, TearDown, DropEntries, TypeOK
<1>3. CASE RatingFails(r, name)
  BY <1>3, ResigningWithout DEF RatingFails, TypeOK
<1>. QED BY <1>1, <1>2, <1>3 DEF AutoResign
-----------------------------------------------------------------------------
(* Joins keep the two indexes of a session in agreement.                   *)

\* A player's return: its old connection speaks for nobody from then on.
LEMMA RejoinBinds ==
    ASSUME TypeOK, VoiceIsBound, PlaceholdersSelfBound,
           NEW c \in Conn, NEW r \in Room, NEW name \in JoinNames, Rejoin(c, r, name)
    PROVE  VoiceIsBound' /\ PlaceholdersSelfBound'
<1>. DEFINE s == session[r]
            old == players[s][name].conn
<1>1. /\ s \in Session
      /\ name \in DOMAIN players[s]
      /\ name \in Player /\ name \notin Conn
      /\ old \in Conn
      /\ players' = [players EXCEPT ![s] = players'[s]]
      /\ DOMAIN players'[s] = DOMAIN players[s]
      /\ players'[s][name].conn = c
      /\ \A j \in DOMAIN players[s] : j # name => players'[s][j] = players[s][j]
      /\ pointer' = [pointer EXCEPT ![s] = Rebound(s, name, c)]
  BY RejoinParts
<1>2. /\ \A d \in Conn : pointer'[s][d] = IF d = c THEN name
                                          ELSE IF d = old THEN NoName ELSE pointer[s][d]
      /\ \A q \in Session : q # s => pointer'[q] = pointer[q] /\ players'[q] = players[q]
  BY <1>1 DEF Rebound, TypeOK
<1>3. ASSUME NEW q \in Session, NEW d \in Conn, pointer'[q][d] # NoName
      PROVE  /\ pointer'[q][d] \in DOMAIN players'[q]
             /\ players'[q][pointer'[q][d]].conn = d
  <2>1. CASE q # s
    BY <1>2, <1>3, <2>1 DEF VoiceIsBound
  <2>2. CASE q = s /\ d = c
    BY <1>1, <1>2, <2>2
  <2>3. CASE q = s /\ d # c
    <3>1. d # old /\ pointer'[s][d] = pointer[s][d]
      BY <1>2, <1>3, <2>3
    <3>2. pointer[s][d] \in DOMAIN players[s] /\ players[s][pointer[s][d]].conn = d
      BY <1>1, <1>3, <2>3, <3>1 DEF VoiceIsBound
    <3>3. pointer[s][d] # name
      BY <3>1, <3>2
    <3>. QED BY <1>1, <2>3, <3>1, <3>2, <3>3
  <2>. QED BY <2>1, <2>2, <2>3
<1>4. ASSUME NEW q \in Session, NEW k \in DOMAIN players'[q], k \in Conn
      PROVE  players'[q][k].conn = k
  <2>1. CASE q # s
    BY <1>2, <1>4, <2>1 DEF PlaceholdersSelfBound
  <2>2. CASE q = s
    BY <1>1, <1>4, <2>2 DEF PlaceholdersSelfBound
  <2>. QED BY <2>1, <2>2
<1>. QED BY <1>3, <1>4 DEF VoiceIsBound, PlaceholdersSelfBound

\* A newcomer: whoever was filed under its connection was that connection's.
LEMMA EnrolBinds ==
    ASSUME TypeOK, VoiceIsBound, PlaceholdersSelfBound,
           NEW c \in Conn, NEW r \in Room, NEW name \in JoinNames, Enrol(c, r, name)
    PROVE  VoiceIsBound' /\ PlaceholdersSelfBound'
<1>. DEFINE s == session[r]
            player == IF name = Anonymous THEN c ELSE name
            d == Enrolled(s, c, name)
<1>1. /\ s \in Session
      /\ name = Anonymous \/ name \notin DOMAIN players[s]
      /\ players' = [players EXCEPT ![s] = d]
      /\ pointer' = [pointer EXCEPT ![s][c] = player]
  BY DEF Enrol, TypeOK
<1>2. /\ DOMAIN players[s] \subseteq DOMAIN d \cup {c}
      /\ player \in DOMAIN d
      /\ d[player] = [color |-> NextColor(s), conn |-> c]
      /\ \A j \in DOMAIN d : j # player => j \in DOMAIN players[s] /\ d[j] = players[s][j]
  BY <1>1, EnrolledParts
<1>3. player \in Conn => player = c
  BY JoinerIsPlayer
<1>. HIDE DEF d
<1>4. /\ players'[s] = d
      /\ \A e \in Conn : pointer'[s][e] = IF e = c THEN player ELSE pointer[s][e]
      /\ \A q \in Session : q # s => pointer'[q] = pointer[q] /\ players'[q] = players[q]
  BY <1>1 DEF TypeOK
<1>5. ASSUME NEW q \in Session, NEW e \in Conn, pointer'[q][e] # NoName
      PROVE  /\ pointer'[q][e] \in DOMAIN players'[q]
             /\ players'[q][pointer'[q][e]].conn = e
  <2>1. CASE q # s
    BY <1>4, <1>5, <2>1 DEF VoiceIsBound
  <2>2. CASE q = s /\ e = c
    BY <1>2, <1>4, <2>2
  <2>3. CASE q = s /\ e # c
    <3>. DEFINE p == pointer[s][e]
    <3>1. p = pointer'[s][e] /\ p \in DOMAIN players[s] /\ players[s][p].conn = e
      BY <1>1, <1>4, <1>5, <2>3 DEF VoiceIsBound
    <3>2. p # c
      BY <1>1, <2>3, <3>1 DEF PlaceholdersSelfBound
    <3>3. p # player
      BY <1>1, <3>1, <3>2
    <3>4. p \in DOMAIN d /\ d[p] = players[s][p]
      BY <1>2, <3>1, <3>2, <3>3
    <3>. QED BY <1>4, <2>3, <3>1, <3>4
  <2>. QED BY <2>1, <2>2, <2>3
<1>6. ASSUME NEW q \in Session, NEW k \in DOMAIN players'[q], k \in Conn
      PROVE  players'[q][k].conn = k
  <2>1. CASE q # s
    BY <1>4, <1>6, <2>1 DEF PlaceholdersSelfBound
  <2>2. CASE q = s /\ k = player
    BY <1>2, <1>3, <1>4, <1>6, <2>2
  <2>3. CASE q = s /\ k # player
    BY <1>1, <1>2, <1>4, <1>6, <2>3 DEF PlaceholdersSelfBound
  <2>. QED BY <2>1, <2>2, <2>3
<1>. QED BY <1>5, <1>6 DEF VoiceIsBound, PlaceholdersSelfBound
-----------------------------------------------------------------------------
(* Joins fill the slots in order, when every joiner gives a name.          *)

\* How many players a seating has.
LEMMA SeatingCounts ==
    ASSUME NEW d, Seating(d)
    PROVE  /\ Cardinality(DOMAIN d) \in 0..2
           /\ Cardinality(DOMAIN d) < 2 <=>
                 \/ DOMAIN d = {}
                 \/ \E u \in Player : DOMAIN d = {u} /\ d[u].color = "w"
<1>1. CASE DOMAIN d = {}
  BY <1>1, FS_EmptySet
<1>2. CASE \E u \in Player : DOMAIN d = {u} /\ d[u].color = "w"
  <2>1. PICK u \in Player : DOMAIN d = {u} /\ d[u].color = "w"
    BY <1>2
  <2>2. Cardinality(DOMAIN d) = 1
    BY <2>1, FS_Singleton
  <2>. QED BY <1>2, <2>2
<1>3. CASE \E u, v \in Player :
              u # v /\ DOMAIN d = {u, v} /\ d[u].color = "w" /\ d[v].color = "b"
  <2>1. PICK u, v \in Player : u # v /\ DOMAIN d = {u, v}
    BY <1>3
  <2>2. IsFiniteSet({u}) /\ Cardinality({u}) = 1
    BY FS_Singleton
  <2>3. Cardinality({u} \cup {v}) = 2
    BY <2>1, <2>2, FS_AddElement
  <2>4. {u, v} = {u} \cup {v}
    OBVIOUS
  <2>5. Cardinality(DOMAIN d) = 2
    BY <2>1, <2>3, <2>4
  <2>6. DOMAIN d # {} /\ \A w : DOMAIN d # {w}
    BY <2>1
  <2>7. Cardinality(DOMAIN d) \in 0..2 /\ ~(Cardinality(DOMAIN d) < 2)
    BY <2>5
  <2>. QED BY <2>6, <2>7
<1>. QED BY <1>1, <1>2, <1>3 DEF Seating

\* A newcomer with a name takes white if nobody plays, else black, and nobody
\* loses a slot.
LEMMA EnrolSeats ==
    ASSUME TypeOK, NamedSeats, Anonymous \notin JoinNames,
           NEW c \in Conn, NEW r \in Room, NEW name \in JoinNames, Enrol(c, r, name)
    PROVE  /\ NamedSeats'
           /\ \A s \in Session : \A u \in DOMAIN players[s] :
                 u \in DOMAIN players'[s] /\ players'[s][u].color = players[s][u].color
<1>. DEFINE s == session[r]
            d == Enrolled(s, c, name)
<1>1. /\ s \in Session
      /\ name # Anonymous
      /\ name \notin DOMAIN players[s]
      /\ ~Full(s)
      /\ players' = [players EXCEPT ![s] = d]
  BY DEF Enrol, TypeOK
<1>2. name \in Player /\ name \notin Conn
  BY <1>1, JoinerIsPlayer
<1>3. /\ DOMAIN d \subseteq DOMAIN players[s] \cup {name}
      /\ DOMAIN players[s] \subseteq DOMAIN d \cup {c}
      /\ name \in DOMAIN d
      /\ d[name] = [color |-> NextColor(s), conn |-> c]
      /\ \A j \in DOMAIN d : j # name => d[j] = players[s][j]
  BY <1>1, EnrolledParts
<1>4. Seating(players[s]) /\ DOMAIN players[s] \cap Conn = {}
  BY <1>1 DEF NamedSeats
<1>. HIDE DEF d
<1>5. DOMAIN d = DOMAIN players[s] \cup {name}
  BY <1>3, <1>4
<1>6. players'[s] = d /\ \A q \in Session : q # s => players'[q] = players[q]
  BY <1>1 DEF TypeOK
<1>7. Seating(d)
  <2>1. CASE DOMAIN players[s] = {}
    <3>1. DOMAIN d = {name} /\ d[name].color = "w"
      BY <1>3, <1>5, <2>1 DEF NextColor
    <3>. QED BY <1>2, <3>1 DEF Seating
  <2>2. CASE DOMAIN players[s] # {}
    <3>1. Cardinality(DOMAIN players[s]) < 2
      <4>1. Cardinality(DOMAIN players[s]) \in 0..2
        BY <1>4, SeatingCounts
      <4>. QED BY <1>1, <4>1 DEF Full
    <3>2. PICK u \in Player : DOMAIN players[s] = {u} /\ players[s][u].color = "w"
      BY <1>4, <2>2, <3>1, SeatingCounts
    <3>3. u # name /\ DOMAIN d = {u, name} /\ d[u].color = "w" /\ d[name].color = "b"
      BY <1>1, <1>3, <1>5, <2>2, <3>2 DEF NextColor
    <3>. QED BY <1>2, <3>3 DEF Seating
  <2>. QED BY <2>1, <2>2
<1>8. DOMAIN d \cap Conn = {}
  BY <1>2, <1>4, <1>5
<1>9. NamedSeats'
  BY <1>6, <1>7, <1>8 DEF NamedSeats
<1>10. ASSUME NEW q \in Session, NEW u \in DOMAIN players[q]
       PROVE  u \in DOMAIN players'[q] /\ players'[q][u].color = players[q][u].color
  <2>1. CASE q # s
    BY <1>6, <2>1
  <2>2. CASE q = s
    BY <1>1, <1>3, <1>5, <1>6, <2>2
  <2>. QED BY <2>1, <2>2
<1>. QED BY <1>9, <1>10

\* A player's return changes neither slots nor colours.
LEMMA RejoinSeats ==
    ASSUME TypeOK, NamedSeats,
           NEW c \in Conn, NEW r \in Room, NEW name \in JoinNames, Rejoin(c, r, name)
    PROVE  /\ NamedSeats'
           /\ \A s \in Session : \A u \in DOMAIN players[s] :
                 u \in DOMAIN players'[s] /\ players'[s][u].color = players[s][u].color
<1>. DEFINE s == session[r]
<1>1. /\ s \in Session
      /\ players' = [players EXCEPT ![s] = players'[s]]
      /\ DOMAIN players'[s] = DOMAIN players[s]
      /\ \A j \in DOMAIN players[s] : players'[s][j].color = players[s][j].color
  BY RejoinParts
<1>2. \A q \in Session : q # s => players'[q] = players[q]
  BY <1>1 DEF TypeOK
<1>3. ASSUME NEW q \in Session
      PROVE  /\ DOMAIN players'[q] = DOMAIN players[q]
             /\ \A j \in DOMAIN players[q] : players'[q][j].color = players[q][j].color
  BY <1>1, <1>2
<1>4. \A q \in Session : Seating(players[q]) => Seating(players'[q])
  BY <1>3 DEF Seating
<1>. QED BY <1>3, <1>4 DEF NamedSeats
-----------------------------------------------------------------------------
(* Rooms, their sessions and their clocks.                                 *)

Rooms == RoomEntriesLive /\ LiveRoomTicks /\ SessionsApart

\* A new session, in a new room or in the place of an old one: being new, it is
\* in no other room.
LEMMA CreateKeepsRooms ==
    ASSUME TypeOK, Rooms, NEW c \in Conn, NEW r \in Room, CreateRoom(c, r)
    PROVE  Rooms'
<1>1. PICK s \in Session \ created :
         /\ session' = [session EXCEPT ![r] = s]
         /\ loops' = loops \cup {s}
         /\ roomOf' = roomOf
  BY DEF CreateRoom
<1>2. s # NoSession /\ \A q \in Room : session[q] # s
  BY <1>1, NameAssumption DEF Rooms, LiveRoomTicks, TypeOK
<1>3. \A q \in Room : session'[q] = IF q = r THEN s ELSE session[q]
  BY <1>1 DEF TypeOK
<1>4. RoomEntriesLive'
  <2>. SUFFICES ASSUME NEW e \in Conn, roomOf[e] # NoRoom
                PROVE  session'[roomOf[e]] # NoSession
    BY <1>1 DEF RoomEntriesLive
  <2>1. roomOf[e] \in Room
    BY DEF TypeOK
  <2>. QED BY <1>2, <1>3, <2>1 DEF Rooms, RoomEntriesLive
<1>5. LiveRoomTicks'
  BY <1>1, <1>3 DEF Rooms, LiveRoomTicks
<1>6. SessionsApart'
  BY <1>2, <1>3 DEF Rooms, SessionsApart
<1>. QED BY <1>4, <1>5, <1>6 DEF Rooms

\* A tear-down: nobody stays in the room, and no other room had its session.
LEMMA TearDownKeepsRooms ==
    ASSUME TypeOK, Rooms, NEW r \in Room, TearDown(r)
    PROVE  Rooms'
<1>1. /\ \A q \in Room : session'[q] = IF q = r THEN NoSession ELSE session[q]
      /\ \A c \in Conn : roomOf'[c] = IF roomOf[c] = r THEN NoRoom ELSE roomOf[c]
      /\ loops' = loops \ {session[r]}
  BY DEF TearDown, DropEntries, TypeOK
<1>2. RoomEntriesLive'
  <2>. SUFFICES ASSUME NEW c \in Conn, roomOf'[c] # NoRoom
                PROVE  session'[roomOf'[c]] # NoSession
    BY DEF RoomEntriesLive
  <2>1. roomOf'[c] = roomOf[c] /\ roomOf[c] # r /\ roomOf[c] \in Room
    BY <1>1 DEF TypeOK
  <2>. QED BY <1>1, <2>1 DEF Rooms, RoomEntriesLive
<1>3. LiveRoomTicks'
  BY <1>1 DEF Rooms, LiveRoomTicks, SessionsApart
<1>4. SessionsApart'
  BY <1>1 DEF Rooms, SessionsApart
<1>. QED BY <1>2, <1>3, <1>4 DEF Rooms

\* A connection that joins a live room, stays where it is or is forgotten.
LEMMA EntryKeepsRooms ==
    ASSUME TypeOK, Rooms, UNCHANGED <<session, loops>>, NEW c \in Conn,
           \/ UNCHANGED roomOf
           \/ roomOf' = [roomOf EXCEPT ![c] = NoRoom]
           \/ \E r \in Room : session[r] # NoSession /\ roomOf' = [roomOf EXCEPT ![c] = r]
    PROVE  Rooms'
<1>1. RoomEntriesLive'
  BY DEF Rooms, RoomEntriesLive, TypeOK
<1>. QED BY <1>1 DEF Rooms, LiveRoomTicks, SessionsApart

\* A step that touches none of it.
LEMMA UntouchedRooms ==
    ASSUME Rooms, UNCHANGED <<roomOf, session, loops>>
    PROVE  Rooms'
BY DEF Rooms, RoomEntriesLive, LiveRoomTicks, SessionsApart

\* A step that touches no player: only joins do.
LEMMA UntouchedSeats ==
    ASSUME VoiceIsBound, PlaceholdersSelfBound, NamedSeats, UNCHANGED <<players, pointer>>
    PROVE  VoiceIsBound' /\ PlaceholdersSelfBound' /\ NamedSeats'
BY DEF VoiceIsBound, PlaceholdersSelfBound, NamedSeats, Seating
-----------------------------------------------------------------------------
(* Every step keeps the invariant.                                         *)

\* A connection's own steps other than joins.
LEMMA HandlerKeepsIInv ==
    ASSUME IInv, NEW c \in Conn, Connect(c) \/ Leave(c) \/ Handler(c)
    PROVE  IInv'
<1>1. TypeOK /\ Rooms
  BY DEF IInv, Rooms
<1>2. UNCHANGED <<players, pointer, session, loops>>
  BY DEF Connect, Leave, Handler, Resume, Left
<1>3. \A d \in Conn : BeginLeaving(d) => \/ UNCHANGED roomOf
                                         \/ roomOf' = [roomOf EXCEPT ![d] = NoRoom]
  BY DEF BeginLeaving, Forget
<1>4. \/ UNCHANGED roomOf
      \/ roomOf' = [roomOf EXCEPT ![c] = NoRoom]
  BY <1>3 DEF Connect, Leave, Handler, Resume, Left, Forget
<1>5. Rooms'
  BY <1>1, <1>2, <1>4, EntryKeepsRooms
<1>6. TypeOK'
  <2>1. CASE Connect(c)
    BY <1>1, <2>1 DEF Connect, TypeOK, Step
  <2>2. CASE Leave(c)
    BY <1>1, <2>2, LeavingTypes DEF Leave, TypeOK
  <2>3. CASE Resume(c)
    <3>1. CASE BeginLeaving(c)
      BY <1>1, <2>3, <3>1, LeavingTypes DEF Resume, TypeOK
    <3>2. CASE ~BeginLeaving(c)
      <4>. DEFINE Locals == [room : Room \cup {NoRoom}, name : Player \cup {NoName},
                             session : Session \cup {NoSession}]
      <4>1. /\ step' = [step EXCEPT ![c] = "ready"]
            /\ subject' = [subject EXCEPT ![c] = Nothing]
            /\ UNCHANGED <<roomOf, session, created, loops, players, pointer, spectators,
                           ending, winner, monitors, resigning>>
        BY <2>3, <3>2 DEF Resume
      <4>2. Nothing \in Locals /\ subject \in [Conn -> Locals]
        BY <1>1 DEF Nothing, TypeOK
      <4>. HIDE DEF Locals
      <4>3. subject' \in [Conn -> Locals]
        BY <4>1, <4>2
      <4>. QED BY <1>1, <4>1, <4>3 DEF TypeOK, Step, Locals
    <3>. QED BY <3>1, <3>2
  <2>4. CASE Left(c)
    <3>1. <<subject[c].room, subject[c].name>> \in Key
      BY <2>4 DEF Left, IInv, LeaversNamed
    <3>. QED BY <1>1, <2>4, <3>1 DEF Left, Forget, TypeOK, Step, Nothing
  <2>. QED BY <2>1, <2>2, <2>3, <2>4 DEF Handler
<1>7. LeaversNamed'
  <2>1. LeaversNamed
    BY DEF IInv
  <2>2. CASE BeginLeaving(c)
    BY <1>1, <2>1, <2>2, LeavingTypes
  <2>3. CASE ~BeginLeaving(c)
    <3>1. /\ step \in [Conn -> Step]
          /\ subject' = subject \/ subject' = [subject EXCEPT ![c] = Nothing]
          /\ step' = [step EXCEPT ![c] = "ready"] \/ step' = [step EXCEPT ![c] = "closed"]
      BY <1>1, <2>3 DEF Connect, Leave, Handler, Resume, Left, Forget, TypeOK
    <3>. QED BY <1>1, <2>1, <3>1 DEF LeaversNamed, TypeOK
  <2>. QED BY <2>2, <2>3
<1>. QED BY <1>2, <1>5, <1>6, <1>7, UntouchedSeats DEF IInv, Rooms

\* A join.
LEMMA JoinKeepsIInv ==
    ASSUME IInv, NEW c \in Conn, NEW r \in Room, NEW name \in JoinNames,
           JoinRoom(c, r, name)
    PROVE  IInv'
<1>1. TypeOK /\ VoiceIsBound /\ PlaceholdersSelfBound /\ Rooms /\ NamedSeats /\ LeaversNamed
  BY DEF IInv, Rooms
<1>2. TypeOK'
  BY <1>1, JoinTypes
<1>3. /\ UNCHANGED <<session, loops>>
      /\ session[r] # NoSession
      /\ roomOf' = [roomOf EXCEPT ![c] = r]
  BY DEF JoinRoom, Rejoin, Enrol, Watch
<1>4. Rooms'
  BY <1>1, <1>3, EntryKeepsRooms
<1>5. VoiceIsBound' /\ PlaceholdersSelfBound'
  <2>1. CASE Rejoin(c, r, name)
    BY <1>1, <2>1, RejoinBinds
  <2>2. CASE Enrol(c, r, name)
    BY <1>1, <2>2, EnrolBinds
  <2>3. CASE Watch(c, r, name)
    <3>1. UNCHANGED <<players, pointer>>
      BY <2>3 DEF Watch
    <3>. QED BY <1>1, <3>1, UntouchedSeats
  <2>. QED BY <2>1, <2>2, <2>3 DEF JoinRoom
<1>6. NamedSeats'
  <2>1. CASE Anonymous \in JoinNames
    BY <2>1 DEF NamedSeats
  <2>2. CASE Rejoin(c, r, name)
    BY <1>1, <2>2, RejoinSeats
  <2>3. CASE Enrol(c, r, name) /\ Anonymous \notin JoinNames
    BY <1>1, <2>3, EnrolSeats
  <2>4. CASE Watch(c, r, name)
    <3>1. UNCHANGED <<players, pointer>>
      BY <2>4 DEF Watch
    <3>. QED BY <1>1, <3>1, UntouchedSeats
  <2>. QED BY <2>1, <2>2, <2>3, <2>4 DEF JoinRoom
<1>7. LeaversNamed'
  <2>1. CASE Rejoin(c, r, name)
    <3>1. /\ step \in [Conn -> Step]
          /\ step' = [step EXCEPT ![c] = "resuming"]
          /\ \A d \in Conn : d # c => subject'[d] = subject[d]
      BY <1>1, <2>1 DEF Rejoin, TypeOK
    <3>. QED BY <1>1, <3>1 DEF LeaversNamed
  <2>2. CASE Enrol(c, r, name) \/ Watch(c, r, name)
    <3>1. UNCHANGED <<step, subject>>
      BY <2>2 DEF Enrol, Watch
    <3>. QED BY <1>1, <3>1 DEF LeaversNamed
  <2>. QED BY <2>1, <2>2 DEF JoinRoom
<1>. QED BY <1>2, <1>4, <1>5, <1>6, <1>7 DEF IInv, Rooms

\* The commands on rooms, the resignations and the captures.
LEMMA RoomStepKeepsIInv ==
    ASSUME IInv,
           \/ \E c \in Conn, r \in Room : CreateRoom(c, r) \/ CancelRoom(c, r)
           \/ \E r \in Room, name \in Player : AutoResign(r, name)
           \/ \E s \in Session : KingFalls(s)
    PROVE  IInv'
<1>1. TypeOK /\ Rooms /\ LiveRoomTicks
  BY DEF IInv, Rooms
<1>2. UNCHANGED <<players, pointer, step, subject>>
  BY DEF CreateRoom, CancelRoom, AutoResign, Fire, Close, RatingFails, KingFalls
<1>3. VoiceIsBound' /\ PlaceholdersSelfBound' /\ NamedSeats'
  BY <1>2, UntouchedSeats DEF IInv
<1>4. LeaversNamed'
  BY <1>2 DEF IInv, LeaversNamed
<1>5. Rooms'
  <2>1. ASSUME NEW c \in Conn, NEW r \in Room, CreateRoom(c, r) PROVE Rooms'
    BY <1>1, <2>1, CreateKeepsRooms
  <2>2. ASSUME NEW c \in Conn, NEW r \in Room, CancelRoom(c, r) PROVE Rooms'
    BY <1>1, <2>2, TearDownKeepsRooms DEF CancelRoom
  <2>3. ASSUME NEW r \in Room, NEW name \in Player, AutoResign(r, name) PROVE Rooms'
    <3>1. TearDown(r) \/ UNCHANGED <<roomOf, session, loops>>
      BY <2>3 DEF AutoResign, Fire, Close, RatingFails
    <3>. QED BY <1>1, <3>1, TearDownKeepsRooms, UntouchedRooms
  <2>4. ASSUME NEW s \in Session, KingFalls(s) PROVE Rooms'
    BY <1>1, <2>4, UntouchedRooms DEF KingFalls
  <2>. QED BY <2>1, <2>2, <2>3, <2>4
<1>6. TypeOK'
  <2>1. ASSUME NEW c \in Conn, NEW r \in Room, CreateRoom(c, r) PROVE TypeOK'
    <3>1. /\ DOMAIN resigning \in SUBSET Key
          /\ resigning \in [DOMAIN resigning -> created]
      BY <1>1, DictParts DEF TypeOK
    <3>2. created \subseteq created' /\ resigning' = resigning
      BY <2>1 DEF CreateRoom
    <3>3. resigning' \in [DOMAIN resigning -> created']
      BY <3>1, <3>2
    <3>4. resigning' \in Dict(Key, created')
      BY <3>1, <3>3, DictIntro
    <3>. QED BY <1>1, <2>1, <3>4 DEF CreateRoom, TypeOK
  <2>2. ASSUME NEW c \in Conn, NEW r \in Room, CancelRoom(c, r) PROVE TypeOK'
    BY <1>1, <2>2 DEF CancelRoom, TearDown, DropEntries, TypeOK
  <2>3. ASSUME NEW r \in Room, NEW name \in Player, AutoResign(r, name) PROVE TypeOK'
    BY <1>1, <2>3, ResignationTypes
  <2>4. ASSUME NEW s \in Session, KingFalls(s) PROVE TypeOK'
    BY <1>1, <2>4 DEF KingFalls, TypeOK
  <2>. QED BY <2>1, <2>2, <2>3, <2>4
<1>. QED BY <1>3, <1>4, <1>5, <1>6 DEF IInv, Rooms

\* The inductive step.
LEMMA NextIInv == IInv /\ [Next]_vars => IInv'
<1>. SUFFICES ASSUME IInv, [Next]_vars PROVE IInv'
  OBVIOUS
<1>1. CASE UNCHANGED vars
  <2>1. UNCHANGED <<step, subject, roomOf, session, created, loops, players, pointer,
                    spectators, ending, winner, monitors, resigning>>
    BY <1>1 DEF vars
  <2>2. TypeOK' /\ LeaversNamed' /\ Rooms'
    BY <2>1, UntouchedRooms DEF IInv, TypeOK, LeaversNamed, Rooms
  <2>. QED BY <2>1, <2>2, UntouchedSeats DEF IInv, Rooms
<1>2. ASSUME NEW c \in Conn, Connect(c) \/ Leave(c) \/ Handler(c) PROVE IInv'
  BY <1>2, HandlerKeepsIInv
<1>3. ASSUME NEW c \in Conn, NEW r \in Room, NEW name \in JoinNames, JoinRoom(c, r, name)
      PROVE  IInv'
  BY <1>3, JoinKeepsIInv
<1>4. CASE \/ \E c \in Conn, r \in Room : CreateRoom(c, r) \/ CancelRoom(c, r)
           \/ \E r \in Room, name \in Player : AutoResign(r, name)
           \/ \E s \in Session : KingFalls(s)
  BY <1>4, RoomStepKeepsIInv
<1>. QED BY <1>1, <1>2, <1>3, <1>4 DEF Next, Command
-----------------------------------------------------------------------------
(* The theorems.                                                           *)

\* The inductive invariant holds of every reachable state.
LEMMA AlwaysIInv == Spec => []IInv
BY InitIInv, NextIInv, PTL DEF Spec

\* Every state of the rooms has the types that TypeOK gives.
THEOREM TypesHold == Spec => []TypeOK
<1>1. IInv => TypeOK
  BY DEF IInv
<1>. QED BY <1>1, AlwaysIInv, PTL

\* handle_join_room and GameSession.rebind_connection: however the players come
\* and go, no two connections ever speak for one of them.
THEOREM VoicesBound == Spec => []VoiceIsBound
<1>1. IInv => VoiceIsBound
  BY DEF IInv
<1>. QED BY <1>1, AlwaysIInv, PTL

\* RoomManager.cancel_room: nobody sits in a room that is gone.
THEOREM EntriesLive == Spec => []RoomEntriesLive
<1>1. IInv => RoomEntriesLive
  BY DEF IInv
<1>. QED BY <1>1, AlwaysIInv, PTL

\* RoomManager.create_room and cancel_room: a live room's clock ticks.
THEOREM ClocksTick == Spec => []LiveRoomTicks
<1>1. IInv => LiveRoomTicks
  BY DEF IInv
<1>. QED BY <1>1, AlwaysIInv, PTL

\* GameSession.assign_color: two players at most, of different colours, if
\* nobody joins without a name.
THEOREM ColorsApart ==
    ASSUME Anonymous \notin JoinNames
    PROVE  Spec => []ColorsDistinct
<1>1. IInv => ColorsDistinct
  <2>. SUFFICES ASSUME IInv, NEW s \in Session
                PROVE  /\ Cardinality(DOMAIN players[s]) <= 2
                       /\ \A u, v \in DOMAIN players[s] :
                             u # v => players[s][u].color # players[s][v].color
    BY DEF ColorsDistinct
  <2>1. Seating(players[s])
    BY DEF IInv, NamedSeats
  <2>2. Cardinality(DOMAIN players[s]) \in 0..2
    BY <2>1, SeatingCounts
  <2>3. \A u, v \in DOMAIN players[s] :
           u # v => players[s][u].color # players[s][v].color
    BY <2>1 DEF Seating
  <2>. QED BY <2>2, <2>3
<1>. QED BY <1>1, AlwaysIInv, PTL

\* GameSession.record_join: nobody loses a slot or a colour to another join, if
\* nobody joins without a name.
THEOREM SlotsStay ==
    ASSUME Anonymous \notin JoinNames
    PROVE  Spec => SlotsKept
<1>. DEFINE Kept == \A s \in Session : \A u \in DOMAIN players[s] :
                       /\ u \in DOMAIN players'[s]
                       /\ players'[s][u].color = players[s][u].color
<1>1. IInv /\ [Next]_vars => [Kept]_vars
  <2>. SUFFICES ASSUME IInv, Next PROVE Kept
    OBVIOUS
  <2>1. CASE UNCHANGED players
    BY <2>1
  <2>2. ASSUME NEW c \in Conn, NEW r \in Room, NEW name \in JoinNames, JoinRoom(c, r, name)
        PROVE  Kept
    <3>1. CASE Rejoin(c, r, name)
      BY <3>1, RejoinSeats DEF IInv
    <3>2. CASE Enrol(c, r, name)
      BY <3>2, EnrolSeats DEF IInv
    <3>3. CASE Watch(c, r, name)
      BY <2>1, <3>3 DEF Watch
    <3>. QED BY <2>2, <3>1, <3>2, <3>3 DEF JoinRoom
  <2>3. \/ UNCHANGED players
        \/ \E c \in Conn, r \in Room, name \in JoinNames : JoinRoom(c, r, name)
    BY DEF Next, Command, Connect, Leave, Handler, Resume, Left, CreateRoom, CancelRoom,
           AutoResign, Fire, Close, RatingFails, KingFalls
  <2>. QED BY <2>1, <2>2, <2>3
<1>. QED BY <1>1, AlwaysIInv, PTL DEF Spec, SlotsKept
=============================================================================
