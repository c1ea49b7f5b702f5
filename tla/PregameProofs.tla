---------------------------- MODULE PregameProofs ----------------------------
(***************************************************************************)
(* Proofs about Pregame, for any rooms, any number of flows and of unread  *)
(* messages: what a client knows, and what it leaves behind, when its game *)
(* begins.                                                                 *)
(***************************************************************************)
EXTENDS Pregame, TLAPS

Kinds == {"news", "error", "logged_in", "match_found", "match_timeout",
          "room_created", "room_joined", "assigned"}
Values == {None, "player", "spectator", "white", "black"}
Messages == [type : Kinds, room : Room \cup {None}, value : Values]
Commands == [cmd : {"login", "find_match", "create_room", "join_room", "cancel_match"},
             room : Room \cup {None}, username : {"fine", "long"},
             password : {"fine", "empty", "long", None}]
Places == [room : Room \cup {None}, role : Values, color : Values, via : {None, "match", "room"}]
Seats == [state : {"none", "live", "gone"}, players : Seq({Me, Other})]

Types ==
    /\ mine \in Places
    /\ inbox \in Seq(Messages) /\ handler \in Seq(Messages) /\ match \in Seq(Messages)
    /\ outbox \in Seq(Commands)
    /\ where \in Room \cup {None} /\ seats \in [Room -> Seats]
    /\ queued \in BOOLEAN /\ clean \in BOOLEAN

-----------------------------------------------------------------------------
(* The answers on their way, in their order, whatever news comes between.  *)

Carries(q, l) ==
    \E f \in [1 .. Len(l) -> 1 .. Len(q)] :
        /\ \A k \in 1 .. Len(l) : q[f[k]] = l[k]
        /\ \A j, k \in 1 .. Len(l) : j < k => f[j] < f[k]
        /\ \A i \in 1 .. Len(q) : IsAnswer(q[i]) <=> \E k \in 1 .. Len(l) : f[k] = i

\* Nothing that is no answer is anything else than nothing.
LEMMA CarriesNone ==
    ASSUME NEW q \in Seq(Messages), \A i \in 1 .. Len(q) : ~IsAnswer(q[i])
    PROVE  Carries(q, <<>>)
<1> DEFINE f == [k \in 1 .. Len(<<>>) |-> 1]
<1>1. f \in [1 .. Len(<<>>) -> 1 .. Len(q)] /\ 1 .. Len(<<>>) = {}
  OBVIOUS
<1> HIDE DEF f
<1>2. /\ \A k \in 1 .. Len(<<>>) : q[f[k]] = <<>>[k]
      /\ \A j, k \in 1 .. Len(<<>>) : j < k => f[j] < f[k]
      /\ \A i \in 1 .. Len(q) : IsAnswer(q[i]) <=> \E k \in 1 .. Len(<<>>) : f[k] = i
  BY <1>1
<1>. QED BY <1>1, <1>2 DEF Carries

\* Every answer there is, is carried.
LEMMA CarriesAll ==
    ASSUME NEW q \in Seq(Messages), NEW l \in Seq(Messages), Carries(q, l),
           NEW i \in 1 .. Len(q), IsAnswer(q[i])
    PROVE  \E k \in 1 .. Len(l) : q[i] = l[k]
  BY DEF Carries

\* News in between changes nothing.
LEMMA CarriesNews ==
    ASSUME NEW q \in Seq(Messages), NEW r \in Seq(Messages), NEW l \in Seq(Messages),
           NEW m \in Messages, ~IsAnswer(m), Carries(q \o r, l)
    PROVE  Carries(Append(q, m) \o r, l)
<1> DEFINE t == q \o r
           u == Append(q, m) \o r
<1>1. /\ Len(t) = Len(q) + Len(r) /\ Len(u) = Len(t) + 1 /\ Len(q) \in Nat /\ Len(r) \in Nat
      /\ \A i \in 1 .. Len(q) : t[i] = q[i] /\ u[i] = t[i]
      /\ u[Len(q) + 1] = m
      /\ \A i \in (Len(q) + 1) .. Len(t) : u[i + 1] = t[i]
  OBVIOUS
<1>2. PICK f \in [1 .. Len(l) -> 1 .. Len(t)] :
        /\ \A k \in 1 .. Len(l) : t[f[k]] = l[k]
        /\ \A j, k \in 1 .. Len(l) : j < k => f[j] < f[k]
        /\ \A i \in 1 .. Len(t) : IsAnswer(t[i]) <=> \E k \in 1 .. Len(l) : f[k] = i
  BY DEF Carries
<1> DEFINE g == [k \in 1 .. Len(l) |-> IF f[k] <= Len(q) THEN f[k] ELSE f[k] + 1]
<1> HIDE DEF t, u
<1>9. Len(q) \in Nat /\ Len(t) \in Nat /\ Len(u) = Len(t) + 1 /\ Len(q) <= Len(t)
  BY <1>1
<1>10. \A k \in 1 .. Len(l) : f[k] \in 1 .. Len(t)
  BY <1>2
<1>3. /\ g \in [1 .. Len(l) -> 1 .. Len(u)]
      /\ \A k \in 1 .. Len(l) :
            /\ f[k] \in 1 .. Len(t)
            /\ f[k] <= Len(q) => g[k] = f[k]
            /\ f[k] > Len(q) => g[k] = f[k] + 1
  BY <1>9, <1>10
<1> HIDE DEF g
<1>4. ASSUME NEW k \in 1 .. Len(l)
      PROVE  u[g[k]] = l[k]
  <2>1. CASE f[k] <= Len(q)
    BY <1>1, <1>2, <1>3, <2>1
  <2>2. CASE f[k] > Len(q)
    <3>1. f[k] \in (Len(q) + 1) .. Len(t)
      BY <1>1, <1>3, <2>2
    <3>. QED BY <1>1, <1>2, <1>3, <2>2, <3>1
  <2>. QED BY <1>1, <1>3, <2>1, <2>2
<1>5. ASSUME NEW j \in 1 .. Len(l), NEW k \in 1 .. Len(l), j < k
      PROVE  g[j] < g[k]
  <2>1. f[j] < f[k] /\ f[j] \in 1 .. Len(t) /\ f[k] \in 1 .. Len(t)
    BY <1>2, <1>3, <1>5
  <2>2. (f[j] <= Len(q) \/ f[j] > Len(q)) /\ (f[k] <= Len(q) \/ f[k] > Len(q))
    BY <1>1, <2>1
  <2>. QED BY <1>1, <1>3, <2>1, <2>2
<1>6. ASSUME NEW i \in 1 .. Len(u)
      PROVE  IsAnswer(u[i]) <=> \E k \in 1 .. Len(l) : g[k] = i
  <2>0. \A k \in 1 .. Len(l) : f[k] \in 1 .. Len(t) /\ (f[k] <= Len(q) \/ f[k] > Len(q))
    BY <1>1, <1>3
  <2>1. CASE i <= Len(q)
    <3>1. i \in 1 .. Len(q) /\ i \in 1 .. Len(t) /\ u[i] = t[i]
      BY <1>1, <2>1
    <3>2. \A k \in 1 .. Len(l) : g[k] = i <=> f[k] = i
      BY <1>1, <1>3, <2>0, <2>1
    <3>. QED BY <1>2, <3>1, <3>2
  <2>2. CASE i = Len(q) + 1
    <3>1. \A k \in 1 .. Len(l) : g[k] # i
      BY <1>3, <1>9, <2>0, <2>2
    <3>. QED BY <1>1, <2>2, <3>1
  <2>3. CASE i > Len(q) + 1
    <3>0. i \in Nat /\ i - 1 \in (Len(q) + 1) .. Len(t) /\ (i - 1) + 1 = i
      BY <1>1, <2>3
    <3>3. u[(i - 1) + 1] = t[i - 1]
      BY <1>1, <3>0
    <3>1. i - 1 \in 1 .. Len(t) /\ u[i] = t[i - 1]
      BY <1>9, <3>0, <3>3
    <3>2. \A k \in 1 .. Len(l) : g[k] = i <=> f[k] = i - 1
      <4> SUFFICES ASSUME NEW k \in 1 .. Len(l)
                   PROVE  g[k] = i <=> f[k] = i - 1
        OBVIOUS
      <4>1. CASE f[k] <= Len(q)
        BY <1>3, <1>9, <1>10, <2>3, <3>0, <4>1
      <4>2. CASE f[k] > Len(q)
        BY <1>3, <1>9, <1>10, <3>0, <4>2
      <4>. QED BY <2>0, <4>1, <4>2
    <3>. QED BY <1>2, <3>1, <3>2
  <2>. QED BY <1>1, <2>1, <2>2, <2>3
<1>7. Carries(u, l)
  BY <1>3, <1>4, <1>5, <1>6 DEF Carries
<1>. QED BY <1>7 DEF u

\* News read changes nothing.
LEMMA CarriesReadNews ==
    ASSUME NEW q \in Seq(Messages), NEW l \in Seq(Messages), q # <<>>,
           ~IsAnswer(Head(q)), Carries(q, l)
    PROVE  Carries(Tail(q), l)
<1> DEFINE u == Tail(q)
<1>1. /\ Len(q) \in Nat \ {0} /\ Len(u) = Len(q) - 1 /\ Head(q) = q[1]
      /\ \A i \in 1 .. Len(u) : u[i] = q[i + 1]
  OBVIOUS
<1>2. PICK f \in [1 .. Len(l) -> 1 .. Len(q)] :
        /\ \A k \in 1 .. Len(l) : q[f[k]] = l[k]
        /\ \A j, k \in 1 .. Len(l) : j < k => f[j] < f[k]
        /\ \A i \in 1 .. Len(q) : IsAnswer(q[i]) <=> \E k \in 1 .. Len(l) : f[k] = i
  BY DEF Carries
<1> DEFINE g == [k \in 1 .. Len(l) |-> f[k] - 1]
<1> HIDE DEF u
<1>3. \A k \in 1 .. Len(l) : f[k] \in 2 .. Len(q)
  BY <1>1, <1>2
<1>4. g \in [1 .. Len(l) -> 1 .. Len(u)]
  BY <1>1, <1>3
<1>5. \A k \in 1 .. Len(l) : u[g[k]] = l[k]
  <2> SUFFICES ASSUME NEW k \in 1 .. Len(l)
               PROVE  u[g[k]] = l[k]
    OBVIOUS
  <2>1. g[k] \in 1 .. Len(u) /\ g[k] + 1 = f[k]
    BY <1>1, <1>3
  <2>. QED BY <1>1, <1>2, <2>1
<1>6. \A j, k \in 1 .. Len(l) : j < k => g[j] < g[k]
  BY <1>2, <1>3
<1>7. ASSUME NEW i \in 1 .. Len(u)
      PROVE  IsAnswer(u[i]) <=> \E k \in 1 .. Len(l) : g[k] = i
  <2>1. i + 1 \in 1 .. Len(q) /\ u[i] = q[i + 1]
    BY <1>1
  <2>2. \A k \in 1 .. Len(l) : g[k] = i <=> f[k] = i + 1
    BY <1>1, <1>3
  <2>. QED BY <1>2, <2>1, <2>2
<1>8. Carries(u, l)
  BY <1>4, <1>5, <1>6, <1>7 DEF Carries
<1>. QED BY <1>8 DEF u

\* An answer read is the first one.
LEMMA CarriesReadAnswer ==
    ASSUME NEW q \in Seq(Messages), NEW l \in Seq(Messages), q # <<>>,
           IsAnswer(Head(q)), Carries(q, l)
    PROVE  l # <<>> /\ Head(l) = Head(q) /\ Carries(Tail(q), Tail(l))
<1> DEFINE u == Tail(q)
           v == Tail(l)
<1>1. /\ Len(q) \in Nat \ {0} /\ Len(u) = Len(q) - 1 /\ Head(q) = q[1]
      /\ \A i \in 1 .. Len(u) : u[i] = q[i + 1]
  OBVIOUS
<1>2. PICK f \in [1 .. Len(l) -> 1 .. Len(q)] :
        /\ \A k \in 1 .. Len(l) : q[f[k]] = l[k]
        /\ \A j, k \in 1 .. Len(l) : j < k => f[j] < f[k]
        /\ \A i \in 1 .. Len(q) : IsAnswer(q[i]) <=> \E k \in 1 .. Len(l) : f[k] = i
  BY DEF Carries
<1>3. PICK n \in 1 .. Len(l) : f[n] = 1
  BY <1>1, <1>2
<1>4. n = 1
  <2>1. Len(l) \in Nat /\ 1 \in 1 .. Len(l) /\ f[1] \in 1 .. Len(q)
    BY <1>3
  <2>2. 1 < n => f[1] < f[n]
    BY <1>2, <2>1
  <2>. QED BY <1>3, <2>1, <2>2
<1>5. /\ Len(l) \in Nat \ {0} /\ l # <<>> /\ Len(v) = Len(l) - 1 /\ Head(l) = l[1]
      /\ \A k \in 1 .. Len(v) : v[k] = l[k + 1]
  BY <1>3
<1>6. Head(l) = Head(q)
  BY <1>1, <1>2, <1>3, <1>4, <1>5
<1> DEFINE g == [k \in 1 .. Len(v) |-> f[k + 1] - 1]
<1> HIDE DEF u, v
<1>7. \A k \in 1 .. Len(v) : k + 1 \in 1 .. Len(l) /\ f[k + 1] \in 2 .. Len(q)
  <2> SUFFICES ASSUME NEW k \in 1 .. Len(v)
               PROVE  k + 1 \in 1 .. Len(l) /\ f[k + 1] \in 2 .. Len(q)
    OBVIOUS
  <2>1. k + 1 \in 1 .. Len(l) /\ 1 \in 1 .. Len(l) /\ 1 < k + 1
    BY <1>5
  <2>2. f[1] < f[k + 1]
    BY <1>2, <2>1
  <2>. QED BY <1>2, <1>3, <1>4, <2>1, <2>2
<1>8. g \in [1 .. Len(v) -> 1 .. Len(u)]
  BY <1>1, <1>7
<1>9. \A k \in 1 .. Len(v) : u[g[k]] = v[k]
  <2> SUFFICES ASSUME NEW k \in 1 .. Len(v)
               PROVE  u[g[k]] = v[k]
    OBVIOUS
  <2>1. g[k] \in 1 .. Len(u) /\ g[k] + 1 = f[k + 1]
    BY <1>1, <1>7
  <2>2. u[g[k]] = q[f[k + 1]]
    BY <1>1, <2>1
  <2>3. q[f[k + 1]] = l[k + 1]
    BY <1>2, <1>7
  <2>. QED BY <1>5, <2>2, <2>3
<1>10. \A j, k \in 1 .. Len(v) : j < k => g[j] < g[k]
  <2> SUFFICES ASSUME NEW j \in 1 .. Len(v), NEW k \in 1 .. Len(v), j < k
               PROVE  g[j] < g[k]
    OBVIOUS
  <2>1. f[j + 1] < f[k + 1]
    BY <1>2, <1>5, <1>7
  <2>. QED BY <1>7, <2>1
<1>11. ASSUME NEW i \in 1 .. Len(u)
       PROVE  IsAnswer(u[i]) <=> \E k \in 1 .. Len(v) : g[k] = i
  <2>1. i + 1 \in 1 .. Len(q) /\ u[i] = q[i + 1]
    BY <1>1
  <2>2. ASSUME NEW k \in 1 .. Len(v), g[k] = i
        PROVE  \E n1 \in 1 .. Len(l) : f[n1] = i + 1
    BY <1>7, <2>2
  <2>3. ASSUME NEW n1 \in 1 .. Len(l), f[n1] = i + 1
        PROVE  \E k \in 1 .. Len(v) : g[k] = i
    <3>1. n1 # 1
      BY <1>3, <1>4, <2>3
    <3>2. n1 - 1 \in 1 .. Len(v) /\ (n1 - 1) + 1 = n1
      BY <1>5, <3>1
    <3>3. g[n1 - 1] = i
      BY <2>3, <3>2
    <3>. QED BY <3>2, <3>3
  <2>. QED BY <1>2, <2>1, <2>2, <2>3
<1>12. Carries(u, v)
  BY <1>8, <1>9, <1>10, <1>11 DEF Carries
<1>. QED BY <1>5, <1>6, <1>12 DEF u, v

\* In a clean flow one of the two senders has nothing to say.
OneSender == handler = <<>> \/ match = <<>>
Stream == inbox \o (IF match = <<>> THEN handler ELSE match)
Coming(l) == OneSender /\ Carries(Stream, l)

Joined(r, role) == Message("room_joined", r, role)
Assigned(r, color) == Message("assigned", r, color)
Found(r) == Message("match_found", r, None)
Created(r) == Message("room_created", r, None)
TimedOut == Message("match_timeout", None, None)

\* A command on its way, and nothing else.
Asked(command) ==
    outbox = <<command>> /\ handler = <<>> /\ match = <<>> /\ ~queued /\ Coming(<<>>)
Served == outbox = <<>> /\ ~queued

InRoom(r) == r \in Room /\ (where = r \/ seats[r].state = "gone")

\* A search before its answer: asked for, waiting for the loop, or forgotten by
\* a loop that died; and one whose answer is on its way.
Searching ==
    \/ Asked(Command("find_match", None, "fine", None))
    \/ outbox = <<>> /\ handler = <<>> /\ match = <<>> /\ Coming(<<>>)
    \/ Served /\ \/ Coming(<<Error>>) \/ Coming(<<TimedOut>>)
                 \/ \E r \in Room : Coming(<<Error, Found(r)>>)
    \/ /\ Served
       /\ \E r \in Room :
             /\ InRoom(r) /\ Plays(r, Me)
             /\ \/ Coming(<<Joined(r, "player"), Assigned(r, ColorIn(r)), Found(r)>>)
                \/ Coming(<<Assigned(r, ColorIn(r)), Found(r)>>)
                \/ Coming(<<Found(r)>>) /\ mine.color = ColorIn(r)

Creating ==
    /\ mine = Unseated
    /\ \/ Asked(Command("create_room", None, "fine", None))
       \/ /\ Served /\ match = <<>>
          /\ \E r \in Room : \/ handler = <<Created(r)>> /\ Carries(inbox, <<>>)
                             \/ handler = <<>> /\ Carries(inbox, <<Created(r)>>)

Joining ==
    /\ mine.color = None /\ mine.room \in Room
    /\ LET r == mine.room
       IN  \/ Asked(Command("join_room", r, "fine", None))
           \/ Served /\ Coming(<<Error>>)
           \/ /\ Served /\ InRoom(r)
              /\ IF Plays(r, Me)
                 THEN Coming(<<Joined(r, "player"), Assigned(r, ColorIn(r))>>)
                 ELSE Coming(<<Joined(r, "spectator")>>)

AwaitingColor ==
    LET r == mine.room
    IN  /\ Served /\ InRoom(r) /\ Plays(r, Me)
        /\ mine.role = "player" /\ mine.via = "room" /\ mine.color = None
        /\ Coming(<<Assigned(r, ColorIn(r))>>)

InGame ==
    LET r == mine.room
    IN  /\ Served /\ InRoom(r)
        /\ \/ Plays(r, Me) /\ mine.role = "player" /\ mine.color = ColorIn(r) /\ Coming(<<>>)
           \/ /\ Plays(r, Me) /\ mine.role = "player" /\ mine.via = "room" /\ mine.color = None
              /\ Coming(<<Assigned(r, ColorIn(r))>>)
           \/ ~Plays(r, Me) /\ mine.role = "spectator" /\ mine.color = None /\ Coming(<<>>)

Flow ==
    clean =>
        /\ at = "matching" => Searching
        /\ at = "creating" => Creating
        /\ at = "joining" => Joining
        /\ at = "awaitColor" => AwaitingColor
        /\ at = "game" => InGame

-----------------------------------------------------------------------------
(* Types.                                                                  *)

\* What a room, the queue and a refusal say are messages.
LEMMA MessageTyped ==
    ASSUME NEW r \in Room, NEW v \in Values
    PROVE  /\ Error \in Messages /\ TimedOut \in Messages /\ News(r) \in Messages
           /\ Joined(r, v) \in Messages /\ Assigned(r, v) \in Messages
           /\ Found(r) \in Messages /\ Created(r) \in Messages
           /\ Message("logged_in", None, None) \in Messages
  BY DEF Error, TimedOut, News, Joined, Assigned, Found, Created, Message, Messages, Kinds, Values

\* The shortest lists of answers.
LEMMA PlainTyped ==
    /\ Error \in Messages /\ TimedOut \in Messages
    /\ <<>> \in Seq(Messages) /\ <<Error>> \in Seq(Messages) /\ <<TimedOut>> \in Seq(Messages)
    /\ <<Message("logged_in", None, None)>> \in Seq(Messages)
<1>1. Error \in Messages /\ TimedOut \in Messages /\ Message("logged_in", None, None) \in Messages
  BY DEF Error, TimedOut, Message, Messages, Kinds, Values
<1>. QED BY <1>1

\* The players of a room.
LEMMA PlayersTyped ==
    ASSUME Types, NEW r \in Room
    PROVE  /\ seats[r].players \in Seq({Me, Other}) /\ Players(r) \in Seq({Me, Other})
           /\ seats[r] \in Seats
  BY DEF Types, Seats, Players

\* What a joiner is told, by the handler and by the loop.
LEMMA WelcomeTyped ==
    ASSUME NEW r \in Room, NEW players \in Seq({Me, Other})
    PROVE  Welcome(r, players) \in Seq(Messages) /\ Handover(r, players) \in Seq(Messages)
<1>1. \A v \in {"player", "spectator", "white", "black"} :
         /\ Message("room_joined", r, v) \in Messages /\ Message("assigned", r, v) \in Messages
         /\ News(r) \in Messages /\ Message("match_found", r, None) \in Messages
  BY DEF News, Message, Messages, Kinds, Values
<1>2. Welcome(r, players) \in Seq(Messages)
  <2>1. <<Message("room_joined", r, "spectator"), News(r)>> \in Seq(Messages)
    BY <1>1
  <2>2. \A v \in {"white", "black"} :
           <<Message("room_joined", r, "player"), Message("assigned", r, v), News(r)>> \in Seq(Messages)
    BY <1>1
  <2>. QED BY <2>1, <2>2 DEF Welcome
<1>. QED BY <1>1, <1>2 DEF Handover

\* A join seats a player.
LEMMA SeatedTyped ==
    ASSUME Types, NEW r \in Room, NEW players \in Seq({Me, Other}), Seated(r, players)
    PROVE  where' \in Room \cup {None} /\ seats' \in [Room -> Seats]
  BY DEF Types, Seated, Seats

\* The handler serves a command.
LEMMA TypesServe ==
    ASSUME Types, Serve
    PROVE  Types'
<1> DEFINE c == Head(outbox)
<1>1. UNCHANGED <<at, mine, inbox, match, clean>>
  BY DEF Serve, client
<1>2. c \in Commands /\ outbox' \in Seq(Commands)
  BY DEF Types, Serve
<1>3. /\ handler' \in Seq(Messages) /\ queued' \in BOOLEAN
      /\ where' \in Room \cup {None} /\ seats' \in [Room -> Seats]
  <2> HIDE DEF c
  <2>1. CASE Malformed(c)
    <3>1. handler' = <<Error>> /\ UNCHANGED <<queued, where, seats>>
      BY <2>1 DEF Serve, c
    <3>. QED BY <3>1, PlainTyped DEF Types
  <2>2. CASE ~Malformed(c) /\ ServeAuth(c)
    <3>1. handler' \in {<<Error>>, <<Message("logged_in", None, None)>>} /\ UNCHANGED <<queued, where, seats>>
      BY <2>2 DEF ServeAuth
    <3>. QED BY <3>1, PlainTyped DEF Types
  <2>3. CASE ~Malformed(c) /\ ServeFind(c)
    <3>1. handler' \in {<<Error>>, <<>>} /\ queued' \in {TRUE, queued} /\ UNCHANGED <<where, seats>>
      BY <2>3 DEF ServeFind
    <3>. QED BY <3>1, PlainTyped DEF Types
  <2>4. CASE ~Malformed(c) /\ ServeCancel(c)
    BY <2>4 DEF ServeCancel, Types
  <2>5. CASE ~Malformed(c) /\ ServeCreate(c)
    <3>1. PICK r \in Room :
            /\ seats' = [seats EXCEPT ![r].state = "live"]
            /\ handler' = <<Message("room_created", r, None)>>
      BY <2>5 DEF ServeCreate
    <3>2. Message("room_created", r, None) \in Messages
      BY DEF Message, Messages, Kinds, Values
    <3>3. seats' \in [Room -> Seats]
      BY <3>1 DEF Types, Seats
    <3>. QED BY <2>5, <3>1, <3>2, <3>3 DEF ServeCreate, Types
  <2>6. CASE ~Malformed(c) /\ ServeJoin(c)
    <3>1. CASE c.room \in Room /\ Live(c.room)
      BY <2>6, <3>1, PlayersTyped, WelcomeTyped, SeatedTyped DEF ServeJoin, Types
    <3>2. CASE ~Live(c.room)
      <4>1. handler' = <<Error>> /\ UNCHANGED <<queued, where, seats>>
        BY <2>6, <3>2 DEF ServeJoin
      <4>. QED BY <4>1, PlainTyped DEF Types
    <3>3. c.room # None
      BY <2>6 DEF Malformed, ServeJoin
    <3>. QED BY <1>2, <3>1, <3>2, <3>3 DEF Commands
  <2>. QED BY <2>1, <2>2, <2>3, <2>4, <2>5, <2>6 DEF Serve, c
<1>. QED BY <1>1, <1>2, <1>3 DEF Types

\* The loop matches the client or gives it up.
LEMMA TypesMatchEnds ==
    ASSUME Types, MatchEnds
    PROVE  Types'
<1>1. UNCHANGED <<at, mine, inbox, outbox, handler, clean>> /\ queued' = FALSE
  BY DEF MatchEnds, client
<1>2. ASSUME NEW r \in Room, NEW before \in {<<>>, <<Other>>},
             Seated(r, Append(before, Me)), match' = Handover(r, Append(before, Me))
      PROVE  match' \in Seq(Messages) /\ where' \in Room \cup {None} /\ seats' \in [Room -> Seats]
  <2>1. Append(before, Me) \in Seq({Me, Other})
    <3>1. <<>> \in Seq({Me, Other}) /\ <<Other>> \in Seq({Me, Other})
      OBVIOUS
    <3>2. before \in Seq({Me, Other})
      BY <3>1
    <3>. QED BY <3>2
  <2>. QED BY <1>2, <2>1, WelcomeTyped, SeatedTyped
<1>3. ASSUME NEW r \in Room,
             seats' = [seats EXCEPT ![r] = [state |-> "gone", players |-> <<Other>>]],
             match' = <<Error, Message("match_found", r, None)>>, UNCHANGED where
      PROVE  match' \in Seq(Messages) /\ where' \in Room \cup {None} /\ seats' \in [Room -> Seats]
  <2>1. Message("match_found", r, None) \in Messages
    BY DEF Message, Messages, Kinds, Values
  <2>2. [state |-> "gone", players |-> <<Other>>] \in Seats
    BY DEF Seats
  <2>. QED BY <1>3, <2>1, <2>2, PlainTyped DEF Types
<1>4. ASSUME match' = <<Message("match_timeout", None, None)>>, UNCHANGED <<where, seats>>
      PROVE  match' \in Seq(Messages) /\ where' \in Room \cup {None} /\ seats' \in [Room -> Seats]
  BY <1>4, PlainTyped DEF Types, TimedOut
<1>. QED BY <1>1, <1>2, <1>3, <1>4 DEF MatchEnds, Types

\* The loop dies.
LEMMA TypesLoopDies ==
    ASSUME Types, LoopDies
    PROVE  Types'
<1>1. UNCHANGED <<mine, inbox, outbox, handler, match, clean>> /\ queued' \in BOOLEAN
  BY DEF LoopDies, client, Types
<1>2. ASSUME NEW r \in Room, NEW players \in {<<>>, <<Other>>}, where' \in {where, r},
             seats' = [seats EXCEPT ![r] = [state |-> "live", players |-> players]]
      PROVE  where' \in Room \cup {None} /\ seats' \in [Room -> Seats]
  <2>1. <<>> \in Seq({Me, Other}) /\ <<Other>> \in Seq({Me, Other})
    OBVIOUS
  <2>2. [state |-> "live", players |-> players] \in Seats
    BY <2>1 DEF Seats
  <2>. QED BY <1>2, <2>2 DEF Types
<1>3. where' \in Room \cup {None} /\ seats' \in [Room -> Seats]
  BY <1>2 DEF LoopDies, Types
<1>. QED BY <1>1, <1>3 DEF Types

\* Others come, and rooms end.
LEMMA TypesRoom ==
    ASSUME Types, Elsewhere
    PROVE  Types'
<1>1. UNCHANGED <<mine, outbox, handler, match, queued, clean>>
  BY DEF Elsewhere, RoomSends, OtherJoins, RoomEnds, client, server
<1>2. inbox' \in Seq(Messages) /\ where' \in Room \cup {None} /\ seats' \in [Room -> Seats]
  <2>1. CASE RoomSends
    <3>1. News(where) \in Messages
      BY <2>1 DEF RoomSends, Types, News, Message, Messages, Kinds, Values
    <3>. QED BY <2>1, <3>1 DEF RoomSends, Types, server
  <2>2. ASSUME NEW r \in Room, OtherJoins(r)
        PROVE  inbox' \in Seq(Messages) /\ where' \in Room \cup {None} /\ seats' \in [Room -> Seats]
    <3>1. seats[r] \in Seats
      BY DEF Types
    <3>2. [seats[r] EXCEPT !.players = Append(@, Other)] \in Seats
      BY <3>1 DEF Seats
    <3>3. seats' = [seats EXCEPT ![r] = [seats[r] EXCEPT !.players = Append(@, Other)]]
      BY <2>2 DEF OtherJoins, Types
    <3>4. seats' \in [Room -> Seats]
      BY <3>2, <3>3 DEF Types
    <3>. QED BY <2>2, <3>4 DEF OtherJoins, client, Types
  <2>3. ASSUME NEW r \in Room, RoomEnds(r)
        PROVE  inbox' \in Seq(Messages) /\ where' \in Room \cup {None} /\ seats' \in [Room -> Seats]
    BY <2>3 DEF RoomEnds, client, Types, Seats
  <2>. QED BY <2>1, <2>2, <2>3 DEF Elsewhere
<1>. QED BY <1>1, <1>2 DEF Types

\* A message joins the line.
LEMMA TypesSend ==
    ASSUME Types, SendAnswer \/ SendMatch
    PROVE  Types'
<1>1. inbox' \in Seq(Messages) /\ handler' \in Seq(Messages) /\ match' \in Seq(Messages)
  <2>1. CASE SendAnswer
    <3>1. Head(handler) \in Messages /\ Tail(handler) \in Seq(Messages)
      BY <2>1 DEF SendAnswer, Types
    <3>. QED BY <2>1, <3>1 DEF SendAnswer, Types
  <2>2. CASE SendMatch
    <3>1. Head(match) \in Messages /\ Tail(match) \in Seq(Messages)
      BY <2>2 DEF SendMatch, Types
    <3>. QED BY <2>2, <3>1 DEF SendMatch, Types
  <2>. QED BY <2>1, <2>2
<1>. QED BY <1>1 DEF SendAnswer, SendMatch, Types

\* The client starts a flow.
LEMMA TypesOpen ==
    ASSUME Types, NEW place, NEW command \in Commands, Open(place, command)
    PROVE  Types'
<1>1. Unseated \in Places
  BY DEF Unseated, Places, Values
<1>2. [Unseated EXCEPT !.room = command.room] \in Places
  BY <1>1 DEF Places, Commands
<1>3. mine' \in Places /\ outbox' \in Seq(Commands)
  BY <1>2 DEF Open, Say, Types
<1>4. clean' \in BOOLEAN
  BY DEF Open, Quiet
<1>5. UNCHANGED <<inbox, handler, match, where, seats, queued>>
  BY DEF Open, server
<1>. QED BY <1>3, <1>4, <1>5 DEF Types, Places

\* What the client sends are commands.
LEMMA CommandTyped ==
    ASSUME NEW cmd \in {"login", "find_match", "create_room", "join_room", "cancel_match"},
           NEW r \in Room \cup {None}, NEW name \in {"fine", "long"},
           NEW word \in {"fine", "empty", "long", None}
    PROVE  Command(cmd, r, name, word) \in Commands /\ Command(cmd, r, name, word).room = r
  BY DEF Command, Commands

\* The user starts a flow or quits; a search runs out or is cancelled.
LEMMA TypesUser ==
    ASSUME Types, User \/ TimeOut \/ CancelSearch
    PROVE  Types'
<1>1. CASE Authenticate
  <2>1. PICK name \in Names, password \in Passwords :
           Open("auth", Command("login", None, name, password))
    BY <1>1 DEF Authenticate
  <2>2. name \in {"fine", "long"} /\ password \in {"fine", "empty", "long", None}
    BY DEF Names, Passwords
  <2>3. Command("login", None, name, password) \in Commands
    BY <2>2, CommandTyped
  <2>. QED BY <2>1, <2>3, TypesOpen
<1>2. CASE Play \/ CreateRoom
  <2>1. /\ Command("find_match", None, "fine", None) \in Commands
        /\ Command("create_room", None, "fine", None) \in Commands
    BY CommandTyped
  <2>. QED BY <1>2, <2>1, TypesOpen DEF Play, CreateRoom
<1>3. CASE JoinRoom
  <2>1. \A r \in Room : Command("join_room", r, "fine", None) \in Commands
    BY CommandTyped
  <2>. QED BY <1>3, <2>1, TypesOpen DEF JoinRoom
<1>4. CASE Quit \/ TimeOut
  BY <1>4 DEF Quit, TimeOut, server, Types
<1>5. CASE CancelSearch
  <2>1. Command("cancel_match", None, "fine", None) \in Commands
    BY CommandTyped
  <2>2. outbox' \in Seq(Commands)
    BY <1>5, <2>1 DEF CancelSearch, Say, Types
  <2>3. inbox' \in Seq(Messages)
    <3>1. inbox \in Seq(Messages) /\ (inbox # <<>> => Tail(inbox) \in Seq(Messages))
      BY DEF Types
    <3>2. inbox' = inbox \/ (inbox # <<>> /\ inbox' = Tail(inbox))
      BY <1>5 DEF CancelSearch
    <3>. QED BY <3>1, <3>2
  <2>. QED BY <1>5, <2>2, <2>3 DEF CancelSearch, server, Types
<1>. QED BY <1>1, <1>2, <1>3, <1>4, <1>5 DEF User

\* The client reads a message.
LEMMA TypesReceive ==
    ASSUME Types, Receive
    PROVE  Types'
<1> DEFINE m == Head(inbox)
<1>1. m \in Messages /\ inbox' \in Seq(Messages)
  BY DEF Receive, Types
<1>2. m.room \in Room \cup {None} /\ m.value \in Values /\ "player" \in Values /\ None \in Values
  BY <1>1 DEF Messages, Values
<1>3. UNCHANGED <<handler, match, queued, where, seats, clean>>
  BY DEF Receive, server
<1>4. AuthReply(m) \/ MatchReply(m) \/ CreateReply(m) \/ JoinReply(m) \/ ColorReply(m)
  BY DEF Receive
<1> HIDE DEF m
<1>5. mine \in Places /\ outbox \in Seq(Commands)
  BY DEF Types, Places
<1>6. mine' \in Places
  <2>1. CASE AuthReply(m)
    BY <1>5, <2>1 DEF AuthReply
  <2>2. CASE MatchReply(m)
    <3>1. /\ [mine EXCEPT !.room = m.room, !.role = "player", !.via = "match"] \in Places
          /\ [mine EXCEPT !.color = m.value] \in Places
      BY <1>2, <1>5 DEF Places
    <3>2. mine' \in {mine, [mine EXCEPT !.room = m.room, !.role = "player", !.via = "match"],
                     [mine EXCEPT !.color = m.value]}
      BY <2>2 DEF MatchReply
    <3>. QED BY <1>5, <3>1, <3>2
  <2>3. CASE CreateReply(m)
    <3>1. [mine EXCEPT !.room = m.room] \in Places
      BY <1>2, <1>5 DEF Places
    <3>. QED BY <1>5, <2>3, <3>1 DEF CreateReply
  <2>4. CASE JoinReply(m)
    <3>1. [mine EXCEPT !.role = m.value, !.via = "room"] \in Places
      BY <1>2, <1>5 DEF Places
    <3>. QED BY <1>5, <2>4, <3>1 DEF JoinReply
  <2>5. CASE ColorReply(m)
    <3>1. \A c \in Values : [mine EXCEPT !.color = c] \in Places
      BY <1>5 DEF Places
    <3>2. (IF m.type = "assigned" THEN m.value ELSE None) \in Values
      BY <1>2
    <3>. QED BY <2>5, <3>1, <3>2 DEF ColorReply
  <2>. QED BY <1>4, <2>1, <2>2, <2>3, <2>4, <2>5
<1>7. outbox' \in Seq(Commands)
  <2>1. CASE CreateReply(m)
    <3>1. Command("join_room", m.room, "fine", None) \in Commands
      BY <1>2, CommandTyped
    <3>. QED BY <1>5, <2>1, <3>1 DEF CreateReply, Say
  <2>2. CASE ~CreateReply(m)
    BY <1>4, <1>5, <2>2 DEF AuthReply, MatchReply, JoinReply, ColorReply
  <2>. QED BY <2>1, <2>2
<1>. QED BY <1>1, <1>3, <1>6, <1>7 DEF Types, Places

\* Every step keeps the types.
LEMMA TypesStep ==
    ASSUME Types, [Next]_vars
    PROVE  Types'
<1>1. CASE UNCHANGED vars
  BY <1>1 DEF vars, client, server, Types
<1>. QED
  BY <1>1, TypesUser, TypesReceive, TypesServe, TypesSend, TypesMatchEnds, TypesLoopDies, TypesRoom DEF Next

-----------------------------------------------------------------------------
(* What each kind of step does to the stream of answers.                   *)

\* What is sent was on its way already.
LEMMA StreamSend ==
    ASSUME Types, OneSender, SendAnswer \/ SendMatch
    PROVE  OneSender' /\ Stream' = Stream
<1>1. ASSUME NEW q \in Seq(Messages), NEW r \in Seq(Messages), r # <<>>
      PROVE  Append(q, Head(r)) \o Tail(r) = q \o r
  BY <1>1
<1>2. CASE SendAnswer
  <2>1. match = <<>> /\ match' = match /\ handler # <<>>
        /\ inbox' = Append(inbox, Head(handler)) /\ handler' = Tail(handler)
    BY <1>2 DEF OneSender, SendAnswer
  <2>. QED BY <1>1, <2>1 DEF OneSender, Stream, Types
<1>3. CASE SendMatch
  <2>1. match # <<>> /\ handler = <<>> /\ handler' = handler
        /\ inbox' = Append(inbox, Head(match)) /\ match' = Tail(match)
    BY <1>3 DEF OneSender, SendMatch
  <2>2. Stream' = inbox' \o match'
    BY <2>1 DEF Stream
  <2>. QED BY <1>1, <2>1, <2>2 DEF OneSender, Stream, Types
<1>. QED BY <1>2, <1>3

\* What is to be said is a list of messages.
LEMMA RestTyped ==
    ASSUME Types
    PROVE  (IF match = <<>> THEN handler ELSE match) \in Seq(Messages) /\ Stream \in Seq(Messages)
  BY DEF Types, Stream

\* What the room sends comes in between.
LEMMA StreamNews ==
    ASSUME Types, RoomSends, NEW l \in Seq(Messages), Carries(Stream, l)
    PROVE  Carries(Stream', l)
<1> DEFINE r == IF match = <<>> THEN handler ELSE match
<1>1. r \in Seq(Messages) /\ inbox \in Seq(Messages)
  BY RestTyped DEF Types
<1>2. News(where) \in Messages /\ ~IsAnswer(News(where))
  BY DEF RoomSends, Types, News, Message, Messages, Kinds, Values, IsAnswer
<1>3. Stream = inbox \o r /\ Stream' = Append(inbox, News(where)) \o r
  BY DEF Stream, RoomSends, server
<1> HIDE DEF r
<1>. QED BY <1>1, <1>2, <1>3, CarriesNews

\* What is read was first.
LEMMA StreamRead ==
    ASSUME Types, inbox # <<>>, inbox' = Tail(inbox), UNCHANGED <<handler, match>>,
           NEW l \in Seq(Messages), Carries(Stream, l)
    PROVE  IF IsAnswer(Head(inbox))
           THEN l # <<>> /\ Head(l) = Head(inbox) /\ Carries(Stream', Tail(l))
           ELSE Carries(Stream', l)
<1> DEFINE r == IF match = <<>> THEN handler ELSE match
<1>1. r \in Seq(Messages) /\ inbox \in Seq(Messages)
  BY RestTyped DEF Types
<1>2. Stream = inbox \o r /\ Stream' = Tail(inbox) \o r
  BY DEF Stream
<1> HIDE DEF r
<1>3. Stream # <<>> /\ Head(Stream) = Head(inbox) /\ Tail(Stream) = Stream' /\ Stream \in Seq(Messages)
  <2>1. ASSUME NEW q \in Seq(Messages), q # <<>>
        PROVE  /\ q \o r \in Seq(Messages) /\ Len(q \o r) = Len(q) + Len(r)
               /\ q \o r # <<>> /\ Head(q \o r) = Head(q)
               /\ Tail(q \o r) = Tail(q) \o r
    <3>1. Len(q) \in Nat \ {0} /\ Len(r) \in Nat /\ Len(Tail(q)) = Len(q) - 1
      BY <1>1, <2>1
    <3>2. q \o r \in Seq(Messages) /\ Len(q \o r) = Len(q) + Len(r)
      BY <1>1
    <3>3. q \o r # <<>> /\ Head(q \o r) = Head(q)
      BY <1>1, <3>1, <3>2
    <3>4. Tail(q) \o r \in Seq(Messages) /\ Tail(q \o r) \in Seq(Messages)
      BY <1>1, <2>1, <3>2, <3>3
    <3>5. Len(Tail(q \o r)) = Len(Tail(q) \o r)
      BY <1>1, <2>1, <3>1, <3>2, <3>3
    <3>6. \A i \in 1 .. Len(Tail(q) \o r) : Tail(q \o r)[i] = (Tail(q) \o r)[i]
      BY <1>1, <2>1, <3>1, <3>2, <3>3, <3>5
    <3>. QED BY <3>2, <3>3, <3>4, <3>5, <3>6
  <2>. QED BY <1>1, <1>2, <2>1
<1>. QED BY <1>3, CarriesReadNews, CarriesReadAnswer

\* A sender that starts with nothing before it, and what it says.
LEMMA CarriesAfter ==
    ASSUME NEW q \in Seq(Messages), NEW r \in Seq(Messages), NEW l \in Seq(Messages),
           Carries(q, <<>>), Carries(r, l)
    PROVE  Carries(q \o r, l)
<1> DEFINE u == q \o r
<1>1. /\ Len(u) = Len(q) + Len(r) /\ Len(q) \in Nat /\ Len(r) \in Nat /\ Len(l) \in Nat
      /\ \A i \in 1 .. Len(q) : u[i] = q[i]
      /\ \A i \in 1 .. Len(r) : u[Len(q) + i] = r[i]
  OBVIOUS
<1>2. PICK f \in [1 .. Len(l) -> 1 .. Len(r)] :
        /\ \A k \in 1 .. Len(l) : r[f[k]] = l[k]
        /\ \A j, k \in 1 .. Len(l) : j < k => f[j] < f[k]
        /\ \A i \in 1 .. Len(r) : IsAnswer(r[i]) <=> \E k \in 1 .. Len(l) : f[k] = i
  BY DEF Carries
<1>3. \A i \in 1 .. Len(q) : ~IsAnswer(q[i])
  BY DEF Carries
<1> DEFINE g == [k \in 1 .. Len(l) |-> Len(q) + f[k]]
<1> HIDE DEF u
<1>4. /\ g \in [1 .. Len(l) -> 1 .. Len(u)]
      /\ \A k \in 1 .. Len(l) : g[k] = Len(q) + f[k] /\ f[k] \in 1 .. Len(r)
  <2>1. \A k \in 1 .. Len(l) : f[k] \in 1 .. Len(r)
    BY <1>2
  <2>2. Len(u) = Len(q) + Len(r) /\ Len(q) \in Nat /\ Len(r) \in Nat
    BY <1>1
  <2>3. \A k \in 1 .. Len(l) : Len(q) + f[k] \in 1 .. Len(u)
    BY <2>1, <2>2
  <2>. QED BY <2>1, <2>3
<1> HIDE DEF g
<1>5. \A k \in 1 .. Len(l) : u[g[k]] = l[k]
  BY <1>1, <1>2, <1>4
<1>6. \A j, k \in 1 .. Len(l) : j < k => g[j] < g[k]
  BY <1>1, <1>2, <1>4
<1>7. ASSUME NEW i \in 1 .. Len(u)
      PROVE  IsAnswer(u[i]) <=> \E k \in 1 .. Len(l) : g[k] = i
  <2>1. CASE i <= Len(q)
    <3>1. i \in 1 .. Len(q)
      BY <1>1, <2>1
    <3>2. ~IsAnswer(u[i])
      BY <1>1, <1>3, <3>1
    <3>3. \A k \in 1 .. Len(l) : g[k] # i
      BY <1>1, <1>4, <2>1
    <3>. QED BY <3>2, <3>3
  <2>2. CASE i > Len(q)
    <3>1. i - Len(q) \in 1 .. Len(r) /\ Len(q) + (i - Len(q)) = i
      BY <1>1, <2>2
    <3>2. u[i] = r[i - Len(q)]
      BY <1>1, <3>1
    <3>3. \A k \in 1 .. Len(l) : g[k] = i <=> f[k] = i - Len(q)
      BY <1>1, <1>4, <3>1
    <3>. QED BY <1>2, <3>1, <3>2, <3>3
  <2>. QED BY <1>1, <2>1, <2>2
<1>8. Carries(u, l)
  BY <1>4, <1>5, <1>6, <1>7 DEF Carries
<1>. QED BY <1>8 DEF u

\* What the server says, and the answers in it.
LEMMA CarriesOne ==
    ASSUME NEW m \in Messages, IsAnswer(m)
    PROVE  Carries(<<m>>, <<m>>)
<1> DEFINE q == <<m>>
           l == <<m>>
           f == [k \in 1 .. 1 |-> k]
<1>1. /\ Len(q) = 1 /\ Len(l) = 1 /\ 1 .. 1 = {1} /\ 1 .. 1 = {1}
      /\ q[1] = m
      /\ l[1] = m
      /\ f[1] = 1 /\ f \in [1 .. 1 -> 1 .. 1]
  OBVIOUS
<1> HIDE DEF q, l, f
<1>2. \A k \in 1 .. 1 : q[f[k]] = l[k]
  BY <1>1
<1>3. \A j, k \in 1 .. 1 : j < k => f[j] < f[k]
  BY <1>1
<1>4. \A i \in 1 .. 1 : IsAnswer(q[i]) <=> \E k \in 1 .. 1 : f[k] = i
  BY <1>1
<1>5. Carries(q, l)
  BY <1>1, <1>2, <1>3, <1>4 DEF Carries
<1>. QED BY <1>5 DEF q, l

\* Two answers are two answers.
LEMMA CarriesBoth ==
    ASSUME NEW m \in Messages, NEW n \in Messages, IsAnswer(m), IsAnswer(n)
    PROVE  Carries(<<m, n>>, <<m, n>>)
<1> DEFINE q == <<m, n>>
           l == <<m, n>>
           f == [k \in 1 .. 2 |-> k]
<1>1. /\ Len(q) = 2 /\ Len(l) = 2 /\ 1 .. 2 = {1, 2} /\ 1 .. 2 = {1, 2}
      /\ q[1] = m /\ q[2] = n
      /\ l[1] = m /\ l[2] = n
      /\ f[1] = 1 /\ f[2] = 2 /\ f \in [1 .. 2 -> 1 .. 2]
  OBVIOUS
<1> HIDE DEF q, l, f
<1>2. \A k \in 1 .. 2 : q[f[k]] = l[k]
  BY <1>1
<1>3. \A j, k \in 1 .. 2 : j < k => f[j] < f[k]
  BY <1>1
<1>4. \A i \in 1 .. 2 : IsAnswer(q[i]) <=> \E k \in 1 .. 2 : f[k] = i
  BY <1>1
<1>5. Carries(q, l)
  BY <1>1, <1>2, <1>3, <1>4 DEF Carries
<1>. QED BY <1>5 DEF q, l

\* News after an answer.
LEMMA CarriesFirst ==
    ASSUME NEW m \in Messages, NEW news \in Messages, IsAnswer(m), ~IsAnswer(news)
    PROVE  Carries(<<m, news>>, <<m>>)
<1> DEFINE q == <<m, news>>
           l == <<m>>
           f == [k \in 1 .. 1 |-> k]
<1>1. /\ Len(q) = 2 /\ Len(l) = 1 /\ 1 .. 2 = {1, 2} /\ 1 .. 1 = {1}
      /\ q[1] = m /\ q[2] = news
      /\ l[1] = m
      /\ f[1] = 1 /\ f \in [1 .. 1 -> 1 .. 2]
  OBVIOUS
<1> HIDE DEF q, l, f
<1>2. \A k \in 1 .. 1 : q[f[k]] = l[k]
  BY <1>1
<1>3. \A j, k \in 1 .. 1 : j < k => f[j] < f[k]
  BY <1>1
<1>4. \A i \in 1 .. 2 : IsAnswer(q[i]) <=> \E k \in 1 .. 1 : f[k] = i
  BY <1>1
<1>5. Carries(q, l)
  BY <1>1, <1>2, <1>3, <1>4 DEF Carries
<1>. QED BY <1>5 DEF q, l

\* News after two answers.
LEMMA CarriesThree ==
    ASSUME NEW m \in Messages, NEW n \in Messages, NEW news \in Messages,
           IsAnswer(m), IsAnswer(n), ~IsAnswer(news)
    PROVE  Carries(<<m, n, news>>, <<m, n>>)
<1> DEFINE q == <<m, n, news>>
           l == <<m, n>>
           f == [k \in 1 .. 2 |-> k]
<1>1. /\ Len(q) = 3 /\ Len(l) = 2 /\ 1 .. 3 = {1, 2, 3} /\ 1 .. 2 = {1, 2}
      /\ q[1] = m /\ q[2] = n /\ q[3] = news
      /\ l[1] = m /\ l[2] = n
      /\ f[1] = 1 /\ f[2] = 2 /\ f \in [1 .. 2 -> 1 .. 3]
  OBVIOUS
<1> HIDE DEF q, l, f
<1>2. \A k \in 1 .. 2 : q[f[k]] = l[k]
  BY <1>1
<1>3. \A j, k \in 1 .. 2 : j < k => f[j] < f[k]
  BY <1>1
<1>4. \A i \in 1 .. 3 : IsAnswer(q[i]) <=> \E k \in 1 .. 2 : f[k] = i
  BY <1>1
<1>5. Carries(q, l)
  BY <1>1, <1>2, <1>3, <1>4 DEF Carries
<1>. QED BY <1>5 DEF q, l

\* News among three answers, as a match is handed over.
LEMMA CarriesFour ==
    ASSUME NEW m \in Messages, NEW n \in Messages, NEW news \in Messages, NEW o \in Messages,
           IsAnswer(m), IsAnswer(n), ~IsAnswer(news), IsAnswer(o)
    PROVE  Carries(<<m, n, news, o>>, <<m, n, o>>)
<1> DEFINE q == <<m, n, news, o>>
           l == <<m, n, o>>
           f == [k \in 1 .. 3 |-> IF k = 3 THEN 4 ELSE k]
<1>1. /\ Len(q) = 4 /\ Len(l) = 3 /\ 1 .. 4 = {1, 2, 3, 4} /\ 1 .. 3 = {1, 2, 3}
      /\ q[1] = m /\ q[2] = n /\ q[3] = news /\ q[4] = o
      /\ l[1] = m /\ l[2] = n /\ l[3] = o
      /\ f[1] = 1 /\ f[2] = 2 /\ f[3] = 4 /\ f \in [1 .. 3 -> 1 .. 4]
  OBVIOUS
<1> HIDE DEF q, l, f
<1>2. \A k \in 1 .. 3 : q[f[k]] = l[k]
  BY <1>1
<1>3. \A j, k \in 1 .. 3 : j < k => f[j] < f[k]
  BY <1>1
<1>4. \A i \in 1 .. 4 : IsAnswer(q[i]) <=> \E k \in 1 .. 3 : f[k] = i
  BY <1>1
<1>5. Carries(q, l)
  BY <1>1, <1>2, <1>3, <1>4 DEF Carries
<1>. QED BY <1>5 DEF q, l

\* Which messages are answers, and what they say.
LEMMA AnswerKinds ==
    /\ IsAnswer(Error) /\ Error.type = "error"
    /\ IsAnswer(TimedOut) /\ TimedOut.type = "match_timeout"
    /\ \A r, v : /\ IsAnswer(Joined(r, v)) /\ Joined(r, v).type = "room_joined" /\ Joined(r, v).value = v
                 /\ IsAnswer(Assigned(r, v)) /\ Assigned(r, v).type = "assigned" /\ Assigned(r, v).value = v
                 /\ IsAnswer(Found(r)) /\ Found(r).type = "match_found" /\ Found(r).room = r
                 /\ IsAnswer(Created(r)) /\ Created(r).type = "room_created" /\ Created(r).room = r
                 /\ ~IsAnswer(News(r))
  BY DEF Error, TimedOut, Joined, Assigned, Found, Created, News, Message, IsAnswer

\* The lists of answers that flows wait for.
LEMMA ListsTyped ==
    ASSUME NEW r \in Room, NEW c \in {"white", "black"}
    PROVE  /\ <<>> \in Seq(Messages) /\ <<Error>> \in Seq(Messages) /\ <<TimedOut>> \in Seq(Messages)
           /\ <<Error, Found(r)>> \in Seq(Messages) /\ <<Found(r)>> \in Seq(Messages)
           /\ <<Joined(r, "player"), Assigned(r, c), Found(r)>> \in Seq(Messages)
           /\ <<Assigned(r, c), Found(r)>> \in Seq(Messages)
           /\ <<Joined(r, "player"), Assigned(r, c)>> \in Seq(Messages)
           /\ <<Joined(r, "spectator")>> \in Seq(Messages)
           /\ <<Assigned(r, c)>> \in Seq(Messages) /\ <<Created(r)>> \in Seq(Messages)
<1>1. c \in Values /\ "player" \in Values /\ "spectator" \in Values
  BY DEF Values
<1>2. /\ Error \in Messages /\ TimedOut \in Messages
      /\ Joined(r, "player") \in Messages /\ Joined(r, "spectator") \in Messages
      /\ Assigned(r, c) \in Messages /\ Found(r) \in Messages /\ Created(r) \in Messages
  BY <1>1, MessageTyped
<1>. QED BY <1>2

\* A player sits on one side or the other.
LEMMA Colors == \A r : ColorIn(r) \in {"white", "black"}
  BY DEF ColorIn

-----------------------------------------------------------------------------
(* A flow goes on while the client neither reads nor decides.              *)

\* The rooms are as they were, for who is in them.
RoomsKept ==
    \A r \in Room :
        /\ InRoom(r) => InRoom(r)'
        /\ Plays(r, Me)' <=> Plays(r, Me)
        /\ Plays(r, Me) => ColorIn(r)' = ColorIn(r)

StreamKept ==
    /\ OneSender => OneSender'
    /\ OneSender => \A l \in Seq(Messages) : Carries(Stream, l) => Carries(Stream', l)
    /\ handler = <<>> /\ match = <<>> => handler' = <<>> /\ match' = <<>>

\* A search goes on until an answer is read.
LEMMA SearchingKept ==
    ASSUME RoomsKept, StreamKept, UNCHANGED <<mine, outbox, queued>>, Searching
    PROVE  Searching'
<1>1. \A l \in Seq(Messages) : Coming(l) => OneSender' /\ Carries(Stream', l)
  BY DEF StreamKept, Coming
<1>2. CASE Asked(Command("find_match", None, "fine", None))
  BY <1>1, <1>2, PlainTyped DEF Asked, Searching, Coming, StreamKept
<1>3. CASE outbox = <<>> /\ handler = <<>> /\ match = <<>> /\ Coming(<<>>)
  BY <1>1, <1>3, PlainTyped DEF Searching, Coming, StreamKept
<1>4. CASE Served /\ (Coming(<<Error>>) \/ Coming(<<TimedOut>>))
  BY <1>1, <1>4, PlainTyped DEF Searching, Coming, Served
<1>5. ASSUME Served, NEW r \in Room, Coming(<<Error, Found(r)>>)
      PROVE  Searching'
  BY <1>1, <1>5, ListsTyped DEF Searching, Coming, Served
<1>6. ASSUME Served, NEW r \in Room, InRoom(r), Plays(r, Me),
             \/ Coming(<<Joined(r, "player"), Assigned(r, ColorIn(r)), Found(r)>>)
             \/ Coming(<<Assigned(r, ColorIn(r)), Found(r)>>)
             \/ Coming(<<Found(r)>>) /\ mine.color = ColorIn(r)
      PROVE  Searching'
  <2>1. InRoom(r)' /\ Plays(r, Me)' /\ ColorIn(r)' = ColorIn(r) /\ Served'
    BY <1>6 DEF RoomsKept, Served
  <2>2. \/ OneSender' /\ Carries(Stream', <<Joined(r, "player"), Assigned(r, ColorIn(r)), Found(r)>>)
        \/ OneSender' /\ Carries(Stream', <<Assigned(r, ColorIn(r)), Found(r)>>)
        \/ OneSender' /\ Carries(Stream', <<Found(r)>>) /\ mine'.color = ColorIn(r)
    BY <1>1, <1>6, Colors, ListsTyped
  <2>. QED BY <2>1, <2>2 DEF Searching, Coming
<1>. QED BY <1>2, <1>3, <1>4, <1>5, <1>6 DEF Searching

\* So does a join,
LEMMA JoiningKept ==
    ASSUME RoomsKept, StreamKept, UNCHANGED <<mine, outbox, queued>>, Joining
    PROVE  Joining'
<1> DEFINE r == mine.room
<1>1. \A l \in Seq(Messages) : Coming(l) => OneSender' /\ Carries(Stream', l)
  BY DEF StreamKept, Coming
<1>2. r \in Room /\ mine.color = None /\ r' = r
  BY DEF Joining
<1>3. CASE Asked(Command("join_room", r, "fine", None))
  BY <1>1, <1>2, <1>3, PlainTyped DEF Asked, Joining, Coming, StreamKept
<1>4. CASE Served /\ Coming(<<Error>>)
  BY <1>1, <1>2, <1>4, PlainTyped DEF Joining, Coming, Served
<1>5. CASE Served /\ InRoom(r) /\ Plays(r, Me) /\ Coming(<<Joined(r, "player"), Assigned(r, ColorIn(r))>>)
  <2>1. InRoom(r)' /\ Plays(r, Me)' /\ ColorIn(r)' = ColorIn(r) /\ Served'
    BY <1>2, <1>5 DEF RoomsKept, Served
  <2>2. OneSender' /\ Carries(Stream', <<Joined(r, "player"), Assigned(r, ColorIn(r))>>)
    BY <1>1, <1>2, <1>5, Colors, ListsTyped
  <2>. QED BY <1>2, <2>1, <2>2 DEF Joining, Coming
<1>6. CASE Served /\ InRoom(r) /\ ~Plays(r, Me) /\ Coming(<<Joined(r, "spectator")>>)
  <2>1. InRoom(r)' /\ ~Plays(r, Me)' /\ Served'
    BY <1>2, <1>6 DEF RoomsKept, Served
  <2>2. OneSender' /\ Carries(Stream', <<Joined(r, "spectator")>>)
    BY <1>1, <1>2, <1>6, ListsTyped
  <2>. QED BY <1>2, <2>1, <2>2 DEF Joining, Coming
<1>. QED BY <1>3, <1>4, <1>5, <1>6 DEF Joining

\* so does the wait for a colour,
LEMMA ArrivedKept ==
    ASSUME RoomsKept, StreamKept, UNCHANGED <<mine, outbox, queued>>
    PROVE  (AwaitingColor => AwaitingColor') /\ (InGame => InGame')
<1> DEFINE r == mine.room
<1> SUFFICES ASSUME Served, InRoom(r)
             PROVE  (AwaitingColor => AwaitingColor') /\ (InGame => InGame')
  BY DEF AwaitingColor, InGame
<1>1. \A l \in Seq(Messages) : Coming(l) => OneSender' /\ Carries(Stream', l)
  BY DEF StreamKept, Coming
<1>2. r \in Room /\ r' = r /\ mine' = mine
  BY DEF InRoom
<1>3. /\ InRoom(r)' /\ (Plays(r, Me)' <=> Plays(r, Me)) /\ Served'
      /\ Plays(r, Me) => ColorIn(r)' = ColorIn(r)
  BY <1>2 DEF RoomsKept, Served
<1>4. /\ Coming(<<>>) => OneSender' /\ Carries(Stream', <<>>)
      /\ Coming(<<Assigned(r, ColorIn(r))>>) => OneSender' /\ Carries(Stream', <<Assigned(r, ColorIn(r))>>)
  BY <1>1, <1>2, Colors, ListsTyped
<1>. QED BY <1>2, <1>3, <1>4 DEF AwaitingColor, InGame, Coming

\* With nothing under way the stream is the inbox.
LEMMA StreamEmpty ==
    ASSUME Types, handler = <<>>, match = <<>>
    PROVE  Stream = inbox /\ OneSender
  BY DEF Stream, OneSender, Types

\* What comes after an inbox without answers.
LEMMA SaidAfter ==
    ASSUME NEW q \in Seq(Messages), NEW m \in Messages, IsAnswer(m), Carries(q, <<>>)
    PROVE  Carries(Append(q, m), <<m>>)
<1>1. <<m>> \in Seq(Messages) /\ Append(q, m) = q \o <<m>>
  OBVIOUS
<1>2. Carries(<<m>>, <<m>>)
  BY CarriesOne
<1>. QED BY <1>1, <1>2, CarriesAfter

\* and so does a creation.
LEMMA CreatingKept ==
    ASSUME Types, StreamKept, UNCHANGED <<mine, outbox, queued>>, Creating,
           SendAnswer \/ SendMatch \/ RoomSends \/ UNCHANGED <<inbox, handler, match>>
    PROVE  Creating'
<1>1. CASE Asked(Command("create_room", None, "fine", None))
  BY <1>1, PlainTyped DEF Asked, Creating, Coming, StreamKept
<1>2. ASSUME Served, match = <<>>, NEW r \in Room, handler = <<Created(r)>>, Carries(inbox, <<>>)
      PROVE  Creating'
  <2>1. mine' = Unseated /\ Served' /\ Created(r) \in Messages /\ IsAnswer(Created(r))
        /\ inbox \in Seq(Messages) /\ <<>> \in Seq(Messages)
    BY <1>2, MessageTyped, AnswerKinds DEF Creating, Served, Types, Values
  <2>2. CASE SendAnswer
    <3>1. inbox' = Append(inbox, Created(r)) /\ handler' = <<>> /\ match' = <<>>
      BY <1>2, <2>1, <2>2 DEF SendAnswer
    <3>. QED BY <1>2, <2>1, <3>1, SaidAfter DEF Creating
  <2>3. CASE RoomSends
    <3>1. inbox' = Append(inbox, News(where)) /\ UNCHANGED <<handler, match>>
      BY <2>3 DEF RoomSends, server
    <3>2. News(where) \in Messages /\ ~IsAnswer(News(where))
      BY <2>3 DEF RoomSends, Types, News, Message, Messages, Kinds, Values, IsAnswer
    <3>3. inbox \o <<>> = inbox /\ Append(inbox, News(where)) \o <<>> = Append(inbox, News(where))
      BY <2>1, <3>2
    <3>4. Carries(inbox', <<>>)
      BY <1>2, <2>1, <3>1, <3>2, <3>3, CarriesNews
    <3>. QED BY <1>2, <2>1, <3>1, <3>4 DEF Creating
  <2>4. CASE UNCHANGED <<inbox, handler, match>>
    BY <1>2, <2>1, <2>4 DEF Creating
  <2>5. ~SendMatch
    BY <1>2 DEF SendMatch
  <2>. QED BY <2>2, <2>3, <2>4, <2>5
<1>3. ASSUME Served, match = <<>>, NEW r \in Room, handler = <<>>, Carries(inbox, <<Created(r)>>)
      PROVE  Creating'
  <2>1. mine' = Unseated /\ Served' /\ inbox \in Seq(Messages) /\ <<Created(r)>> \in Seq(Messages)
        /\ <<>> \in Seq(Messages)
    BY <1>3, ListsTyped DEF Creating, Served, Types
  <2>3. CASE RoomSends
    <3>1. inbox' = Append(inbox, News(where)) /\ UNCHANGED <<handler, match>>
      BY <2>3 DEF RoomSends, server
    <3>2. News(where) \in Messages /\ ~IsAnswer(News(where))
      BY <2>3 DEF RoomSends, Types, News, Message, Messages, Kinds, Values, IsAnswer
    <3>3. inbox \o <<>> = inbox /\ Append(inbox, News(where)) \o <<>> = Append(inbox, News(where))
      BY <2>1, <3>2
    <3>4. Carries(inbox', <<Created(r)>>)
      BY <1>3, <2>1, <3>1, <3>2, <3>3, CarriesNews
    <3>. QED BY <1>3, <2>1, <3>1, <3>4 DEF Creating
  <2>4. CASE UNCHANGED <<inbox, handler, match>>
    BY <1>3, <2>1, <2>4 DEF Creating
  <2>5. ~SendMatch /\ ~SendAnswer
    BY <1>3 DEF SendMatch, SendAnswer
  <2>. QED BY <2>3, <2>4, <2>5
<1>. QED BY <1>1, <1>2, <1>3 DEF Creating

IInv == Types /\ Flow

\* A step that leaves the client and its commands alone leaves its flow alone.
LEMMA FlowKept ==
    ASSUME IInv, RoomsKept, StreamKept, UNCHANGED <<at, mine, outbox, queued, clean>>,
           SendAnswer \/ SendMatch \/ RoomSends \/ UNCHANGED <<inbox, handler, match>>
    PROVE  Flow'
  BY SearchingKept, CreatingKept, JoiningKept, ArrivedKept DEF IInv, Flow

\* A message joins the line.
LEMMA FlowSend ==
    ASSUME IInv, SendAnswer \/ SendMatch \/ RoomSends
    PROVE  Flow'
<1>1. Types
  BY DEF IInv
<1>2. UNCHANGED <<at, mine, outbox, queued, clean, where, seats>>
  BY DEF SendAnswer, SendMatch, RoomSends, server
<1>3. RoomsKept
  BY <1>2 DEF RoomsKept, InRoom, Plays, ColorIn
<1>4. StreamKept
  <2>1. CASE RoomSends
    <3>1. UNCHANGED <<handler, match>>
      BY <2>1 DEF RoomSends, server
    <3>. QED BY <1>1, <2>1, <3>1, StreamNews DEF StreamKept, OneSender
  <2>2. CASE SendAnswer \/ SendMatch
    <3>1. OneSender => OneSender' /\ Stream' = Stream
      BY <1>1, <2>2, StreamSend
    <3>2. ~(handler = <<>> /\ match = <<>>)
      BY <2>2 DEF SendAnswer, SendMatch
    <3>. QED BY <3>1, <3>2 DEF StreamKept
  <2>. QED BY <2>1, <2>2
<1>. QED BY <1>2, <1>3, <1>4, FlowKept

\* Others come, and rooms end.
LEMMA FlowRooms ==
    ASSUME IInv, NEW r0 \in Room, OtherJoins(r0) \/ RoomEnds(r0)
    PROVE  Flow'
<1>1. Types /\ UNCHANGED <<at, mine, inbox, outbox, handler, match, queued, clean>>
  BY DEF IInv, OtherJoins, RoomEnds, client
<1>2. StreamKept
  BY <1>1 DEF StreamKept, OneSender, Stream
<1>3. RoomsKept
  <2>1. CASE OtherJoins(r0)
    <3>1. where' = where /\ seats' = [seats EXCEPT ![r0].players = Append(@, Other)]
      BY <2>1 DEF OtherJoins
    <3>2. ASSUME NEW r \in Room
          PROVE  /\ InRoom(r) => InRoom(r)'
                 /\ Plays(r, Me)' <=> Plays(r, Me)
                 /\ Plays(r, Me) => ColorIn(r)' = ColorIn(r)
      <4> DEFINE ps == seats[r].players
      <4>1. seats[r] \in Seats /\ ps \in Seq({Me, Other}) /\ Me # Other
        BY <1>1, PlayersTyped DEF Me, Other
      <4>2. seats'[r].state = seats[r].state /\ seats'[r].players \in {ps, Append(ps, Other)}
        BY <1>1, <3>1, <4>1 DEF Types, Seats
      <4> HIDE DEF ps
      <4>3. /\ Len(ps) \in Nat /\ DOMAIN ps = 1 .. Len(ps)
            /\ Append(ps, Other) \in Seq({Me, Other}) /\ Len(Append(ps, Other)) = Len(ps) + 1
            /\ DOMAIN Append(ps, Other) = 1 .. (Len(ps) + 1)
            /\ Append(ps, Other)[Len(ps) + 1] = Other
            /\ \A i \in 1 .. Len(ps) : Append(ps, Other)[i] = ps[i]
        BY <4>1
      <4>4. (\E i \in DOMAIN seats'[r].players : seats'[r].players[i] = Me)
              <=> (\E i \in DOMAIN ps : ps[i] = Me)
        BY <4>1, <4>2, <4>3
      <4>5. (\E i \in DOMAIN ps : ps[i] = Me) => seats'[r].players[1] = ps[1]
        BY <4>2, <4>3
      <4>. QED BY <3>1, <4>2, <4>4, <4>5 DEF InRoom, Plays, ColorIn, ps
    <3>. QED BY <3>2 DEF RoomsKept
  <2>2. CASE RoomEnds(r0)
    <3>1. seats' = [seats EXCEPT ![r0].state = "gone"] /\ where' = IF where = r0 THEN None ELSE where
      BY <2>2 DEF RoomEnds
    <3>2. ASSUME NEW r \in Room
          PROVE  /\ seats'[r].players = seats[r].players
                 /\ seats'[r].state = IF r = r0 THEN "gone" ELSE seats[r].state
      <4>1. seats[r] \in Seats
        BY <1>1 DEF Types
      <4>. QED BY <1>1, <3>1, <4>1 DEF Types, Seats
    <3>. QED BY <3>1, <3>2 DEF RoomsKept, InRoom, Plays, ColorIn
  <2>. QED BY <2>1, <2>2
<1>. QED BY <1>1, <1>2, <1>3, FlowKept

\* Short lists, one message longer.
LEMMA AppendTo ==
    \A a, b, d, e : /\ Append(<<>>, a) = <<a>> /\ Append(<<b>>, a) = <<b, a>>
                    /\ Append(<<a, b, d>>, e) = <<a, b, d, e>>
<1> TAKE a, b, d, e
<1> DEFINE S == {a, b, d, e}
<1>1. ASSUME NEW x \in Seq(S), NEW y \in Seq(S), Len(x) = Len(y), \A i \in 1 .. Len(x) : x[i] = y[i]
      PROVE  x = y
  BY <1>1
<1>2. a \in S /\ b \in S /\ d \in S /\ e \in S
  OBVIOUS
<1> HIDE DEF S
<1>3. Append(<<>>, a) = <<a>>
  BY <1>1, <1>2
<1>4. Append(<<b>>, a) = <<b, a>>
  <2>1. <<b>> \in Seq(S) /\ <<b, a>> \in Seq(S) /\ Append(<<b>>, a) \in Seq(S)
    BY <1>2
  <2>2. Len(Append(<<b>>, a)) = 2 /\ Len(<<b, a>>) = 2 /\ 1 .. 2 = {1, 2}
    BY <2>1
  <2>3. Append(<<b>>, a)[1] = b /\ Append(<<b>>, a)[2] = a /\ <<b, a>>[1] = b /\ <<b, a>>[2] = a
    BY <1>2
  <2>. QED BY <1>1, <2>1, <2>2, <2>3
<1>5. Append(<<a, b, d>>, e) = <<a, b, d, e>>
  <2> DEFINE x == Append(<<a, b, d>>, e)
             y == <<a, b, d, e>>
  <2>1. x \in Seq(S) /\ y \in Seq(S)
    BY <1>2
  <2>2. Len(x) = 4 /\ Len(y) = 4 /\ 1 .. 4 = {1, 2, 3, 4}
    BY <1>2
  <2>3. x[1] = a /\ x[2] = b /\ x[3] = d /\ x[4] = e /\ y[1] = a /\ y[2] = b /\ y[3] = d /\ y[4] = e
    BY <1>2
  <2> HIDE DEF x, y
  <2>4. x = y
    BY <1>1, <2>1, <2>2, <2>3
  <2>. QED BY <2>4 DEF x, y
<1>. QED BY <1>3, <1>4, <1>5

\* The search ends, one way or the other: only a search that nobody has answered.
LEMMA FlowMatchEnds ==
    ASSUME IInv, MatchEnds
    PROVE  Flow'
<1>1. /\ Types /\ Types' /\ queued /\ match = <<>> /\ queued' = FALSE
      /\ UNCHANGED <<at, mine, inbox, outbox, handler, clean>>
  BY TypesMatchEnds DEF IInv, MatchEnds, client
<1> SUFFICES ASSUME clean
             PROVE  Flow'
  BY <1>1 DEF Flow
<1>2. at \notin {"creating", "joining", "awaitColor", "game"}
  BY <1>1 DEF IInv, Flow, Creating, Joining, AwaitingColor, InGame, Asked, Served
<1> SUFFICES ASSUME at = "matching"
             PROVE  Searching'
  BY <1>1, <1>2 DEF Flow
<1>3. outbox = <<>> /\ handler = <<>> /\ Coming(<<>>)
  BY <1>1 DEF IInv, Flow, Searching, Asked, Served
<1>4. Served' /\ OneSender' /\ Carries(inbox, <<>>) /\ inbox \in Seq(Messages)
  BY <1>1, <1>3, StreamEmpty DEF Served, OneSender, Coming, Types
<1>5. ASSUME NEW q \in Seq(Messages), match' = q, q # <<>>, NEW l \in Seq(Messages), Carries(q, l)
      PROVE  Carries(Stream', l)
  <2>1. Stream' = inbox \o q
    BY <1>1, <1>5 DEF Stream
  <2>. QED BY <1>4, <1>5, <2>1, CarriesAfter
<1>6. ASSUME NEW r \in Room, NEW before \in {<<>>, <<Other>>},
             Seated(r, Append(before, Me)), match' = Handover(r, Append(before, Me))
      PROVE  Searching'
  <2> DEFINE ps == Append(before, Me)
             c == IF ps[1] = Me THEN "white" ELSE "black"
             q == <<Joined(r, "player"), Assigned(r, c), News(r), Found(r)>>
             l == <<Joined(r, "player"), Assigned(r, c), Found(r)>>
  <2>1. ps = <<Me>> \/ ps = <<Other, Me>>
    <3>1. Append(<<>>, Me) = <<Me>> /\ Append(<<Other>>, Me) = <<Other, Me>>
      BY AppendTo DEF Me, Other
    <3>. QED BY <3>1
  <2>2. Contains(ps, Me) /\ (\E i \in DOMAIN ps : ps[i] = Me)
    <3>1. CASE ps = <<Me>>
      BY <3>1 DEF Contains
    <3>2. CASE ps = <<Other, Me>>
      <4>1. 2 \in DOMAIN ps /\ ps[2] = Me
        BY <3>2
      <4>. QED BY <4>1 DEF Contains
    <3>. QED BY <2>1, <3>1, <3>2
  <2>3. where' = r /\ seats'[r].players = ps
    BY <1>1, <1>6 DEF Seated, Types
  <2> HIDE DEF ps
  <2>4. InRoom(r)' /\ Plays(r, Me)' /\ ColorIn(r)' = c
    BY <2>2, <2>3 DEF InRoom, Plays, ColorIn
  <2>5. match' = q
    <3>1. Handover(r, ps) = Append(<<Joined(r, "player"), Assigned(r, c), News(r)>>, Found(r))
      BY <2>2 DEF Handover, Welcome, Joined, Assigned, Found
    <3>2. match' = Handover(r, ps)
      BY <1>6 DEF ps
    <3> HIDE DEF c
    <3>3. Append(<<Joined(r, "player"), Assigned(r, c), News(r)>>, Found(r)) = q
      BY AppendTo
    <3>. QED BY <3>1, <3>2, <3>3
  <2>6. c \in {"white", "black"}
    OBVIOUS
  <2> HIDE DEF c
  <2>7. /\ Joined(r, "player") \in Messages /\ Assigned(r, c) \in Messages
        /\ News(r) \in Messages /\ Found(r) \in Messages
    BY <2>6, MessageTyped DEF Values
  <2>8. q \in Seq(Messages) /\ q # <<>> /\ l \in Seq(Messages)
    BY <2>7
  <2>9. Carries(q, l)
    BY <2>7, CarriesFour, AnswerKinds
  <2>10. Carries(Stream', l)
    BY <1>5, <2>5, <2>8, <2>9
  <2>. QED BY <1>4, <2>4, <2>10 DEF Searching, Coming
<1>7. ASSUME NEW r \in Room, match' = <<Error, Message("match_found", r, None)>>
      PROVE  Searching'
  <2>1. match' = <<Error, Found(r)>>
    BY <1>7 DEF Found
  <2>2. Error \in Messages /\ Found(r) \in Messages
    BY MessageTyped DEF Values
  <2>3. <<Error, Found(r)>> \in Seq(Messages) /\ Carries(<<Error, Found(r)>>, <<Error, Found(r)>>)
    BY <2>2, AnswerKinds, CarriesBoth
  <2>4. Carries(Stream', <<Error, Found(r)>>)
    BY <1>5, <2>1, <2>3
  <2>. QED BY <1>4, <2>4 DEF Searching, Coming
<1>8. ASSUME match' = <<Message("match_timeout", None, None)>>
      PROVE  Searching'
  <2>1. match' = <<TimedOut>>
    BY <1>8 DEF TimedOut
  <2>2. <<TimedOut>> \in Seq(Messages) /\ Carries(<<TimedOut>>, <<TimedOut>>)
    BY PlainTyped, AnswerKinds, CarriesOne
  <2>3. Carries(Stream', <<TimedOut>>)
    BY <1>5, <2>1, <2>2
  <2>. QED BY <1>4, <2>3 DEF Searching, Coming
<1>. QED BY <1>6, <1>7, <1>8 DEF MatchEnds

\* The loop dies: the client's search is out of the queue, or nothing changes for
\* the client.
LEMMA FlowLoopDies ==
    ASSUME IInv, LoopDies
    PROVE  Flow'
<1>1. Types /\ UNCHANGED <<at, mine, inbox, outbox, handler, match, clean>>
  BY DEF IInv, LoopDies, client
<1>2. StreamKept
  BY <1>1 DEF StreamKept, OneSender, Stream
<1>3. CASE UNCHANGED <<queued, where, seats>>
  <2>1. RoomsKept
    BY <1>3 DEF RoomsKept, InRoom, Plays, ColorIn
  <2>. QED BY <1>1, <1>2, <1>3, <2>1, FlowKept
<1>4. CASE queued
  <2> SUFFICES ASSUME clean
               PROVE  Flow'
    BY <1>1 DEF Flow
  <2>1. at \notin {"creating", "joining", "awaitColor", "game"}
    BY <1>1, <1>4 DEF IInv, Flow, Creating, Joining, AwaitingColor, InGame, Asked, Served
  <2>2. at = "matching" => outbox = <<>> /\ handler = <<>> /\ match = <<>> /\ Coming(<<>>)
    BY <1>1, <1>4 DEF IInv, Flow, Searching, Asked, Served, LoopDies
  <2>3. Coming(<<>>) => Coming(<<>>)'
    BY <1>1 DEF Coming, OneSender, Stream
  <2>. QED BY <1>1, <2>1, <2>2, <2>3 DEF Flow, Searching
<1>. QED BY <1>3, <1>4 DEF LoopDies

\* A command of the flow is well formed, and only its own service answers it.
LEMMA ServedAs ==
    ASSUME Serve, NEW cmd \in {"find_match", "create_room", "join_room"}, NEW r \in Room \cup {None},
           outbox = <<Command(cmd, r, "fine", None)>>, cmd = "join_room" => r \in Room
    PROVE  /\ outbox' = <<>> /\ UNCHANGED <<at, mine, inbox, match, clean>>
           /\ cmd = "find_match" => ServeFind(Command(cmd, r, "fine", None))
           /\ cmd = "create_room" => ServeCreate(Command(cmd, r, "fine", None))
           /\ cmd = "join_room" => ServeJoin(Command(cmd, r, "fine", None))
<1> DEFINE c == Command(cmd, r, "fine", None)
<1>1. Head(outbox) = c /\ Tail(outbox) = <<>>
  OBVIOUS
<1>2. c.cmd = cmd /\ c.room = r /\ c.username = "fine"
  BY DEF Command
<1> HIDE DEF c
<1>3. ~Malformed(c)
  BY <1>2, PregameAssumption DEF Malformed, BadName
<1>4. ServeAuth(c) \/ ServeFind(c) \/ ServeCancel(c) \/ ServeCreate(c) \/ ServeJoin(c)
  BY <1>1, <1>3 DEF Serve
<1>5. /\ cmd = "find_match" => ServeFind(c)
      /\ cmd = "create_room" => ServeCreate(c)
      /\ cmd = "join_room" => ServeJoin(c)
  BY <1>2, <1>4 DEF ServeAuth, ServeFind, ServeCancel, ServeCreate, ServeJoin
<1>. QED BY <1>1, <1>5 DEF Serve, client, c

\* The handler serves the command of the flow.
LEMMA FlowServe ==
    ASSUME IInv, Serve
    PROVE  Flow'
<1>1. Types /\ outbox # <<>> /\ UNCHANGED <<at, mine, inbox, match, clean>> /\ inbox \in Seq(Messages)
  BY DEF IInv, Serve, client, Types
<1> SUFFICES ASSUME clean
             PROVE  Flow'
  BY <1>1 DEF Flow
<1>2. at \notin {"awaitColor", "game"}
  BY <1>1 DEF IInv, Flow, AwaitingColor, InGame, Served
<1>3. ASSUME NEW command, Asked(command), outbox' = <<>>
      PROVE  /\ OneSender' /\ match' = <<>> /\ Carries(inbox, <<>>)
             /\ handler' = <<>> => Carries(Stream', <<>>)
             /\ \A q, l \in Seq(Messages) : handler' = q /\ Carries(q, l) => Carries(Stream', l)
  <2>1. match = <<>> /\ Carries(inbox, <<>>)
    BY <1>1, <1>3, StreamEmpty DEF Asked, Coming
  <2>2. Stream' = inbox \o handler' /\ OneSender' /\ match' = <<>>
    BY <1>1, <2>1 DEF Stream, OneSender
  <2>3. inbox \o <<>> = inbox
    BY <1>1
  <2>. QED BY <1>1, <2>1, <2>2, <2>3, CarriesAfter
<1>4. Error \in Messages /\ <<Error>> \in Seq(Messages) /\ Carries(<<Error>>, <<Error>>)
  BY PlainTyped, AnswerKinds, CarriesOne
<1>5. ASSUME at = "matching"
      PROVE  Searching'
  <2> DEFINE c == Command("find_match", None, "fine", None)
  <2>1. Asked(c)
    BY <1>1, <1>5 DEF IInv, Flow, Searching, Served
  <2>2. outbox' = <<>> /\ ServeFind(c)
    BY <2>1, ServedAs DEF Asked
  <2>3. ~queued
    BY <2>1 DEF Asked
  <2>4. CASE queued' = TRUE /\ handler' = <<>>
    BY <1>3, <2>1, <2>2, <2>4 DEF Searching, Coming
  <2>5. CASE queued' = queued /\ handler' = <<Error>>
    <3>1. Carries(Stream', <<Error>>) /\ OneSender'
      BY <1>3, <1>4, <2>1, <2>2, <2>5
    <3>. QED BY <2>2, <2>3, <2>5, <3>1 DEF Searching, Coming, Served
  <2>. QED BY <2>2, <2>4, <2>5 DEF ServeFind
<1>6. ASSUME at = "creating"
      PROVE  Creating'
  <2> DEFINE c == Command("create_room", None, "fine", None)
  <2>1. Asked(c) /\ mine = Unseated
    BY <1>1, <1>6 DEF IInv, Flow, Creating, Served
  <2>2. outbox' = <<>> /\ ServeCreate(c)
    BY <2>1, ServedAs DEF Asked
  <2>3. ~queued
    BY <2>1 DEF Asked
  <2>4. queued' = queued /\ \E r \in Room : handler' = <<Created(r)>>
    BY <2>2 DEF ServeCreate, Created
  <2>. QED BY <1>1, <1>3, <2>1, <2>2, <2>3, <2>4 DEF Creating, Served, Unseated
<1>7. ASSUME at = "joining"
      PROVE  Joining'
  <2> DEFINE r == mine.room
             c == Command("join_room", r, "fine", None)
  <2>1. Asked(c) /\ r \in Room /\ mine.color = None
    BY <1>1, <1>7 DEF IInv, Flow, Joining, Served
  <2>2. outbox' = <<>> /\ ServeJoin(c)
    BY <2>1, ServedAs DEF Asked
  <2>3. ~queued /\ queued' = queued /\ c.room = r
    BY <2>1, <2>2 DEF Asked, ServeJoin, Command
  <2>4. Served' /\ r' = r /\ mine'.color = None
    BY <1>1, <2>1, <2>2, <2>3 DEF Served
  <2>5. CASE handler' = <<Error>>
    <3>1. Carries(Stream', <<Error>>) /\ OneSender'
      BY <1>3, <1>4, <2>1, <2>2, <2>5
    <3>. QED BY <2>1, <2>4, <3>1 DEF Joining, Coming
  <2>6. CASE Seated(r, Players(r)) /\ handler' = Welcome(r, Players(r))
    <3> DEFINE ps == Players(r)
               color == IF ps[1] = Me THEN "white" ELSE "black"
    <3>1. where' = r /\ seats'[r].players = ps
      BY <1>1, <2>1, <2>6 DEF Seated, Types
    <3> HIDE DEF ps
    <3>2. InRoom(r)' /\ (Plays(r, Me)' <=> \E i \in DOMAIN ps : ps[i] = Me) /\ ColorIn(r)' = color
      BY <2>1, <2>4, <3>1 DEF InRoom, Plays, ColorIn
    <3>3. Contains(ps, Me) <=> \E i \in DOMAIN ps : ps[i] = Me
      BY DEF Contains
    <3>4. color \in {"white", "black"}
      OBVIOUS
    <3> HIDE DEF color
    <3>5. /\ Joined(r, "player") \in Messages /\ Joined(r, "spectator") \in Messages
          /\ Assigned(r, color) \in Messages /\ News(r) \in Messages
      BY <2>1, <3>4, MessageTyped DEF Values
    <3>6. CASE Plays(r, Me)'
      <4>1. handler' = <<Joined(r, "player"), Assigned(r, color), News(r)>>
        BY <2>6, <3>2, <3>3, <3>6 DEF Welcome, ps, color, Joined, Assigned
      <4>2. /\ <<Joined(r, "player"), Assigned(r, color), News(r)>> \in Seq(Messages)
            /\ <<Joined(r, "player"), Assigned(r, color)>> \in Seq(Messages)
        BY <3>5
      <4>3. Carries(<<Joined(r, "player"), Assigned(r, color), News(r)>>,
                    <<Joined(r, "player"), Assigned(r, color)>>)
        BY <3>5, CarriesThree, AnswerKinds
      <4>4. Carries(Stream', <<Joined(r, "player"), Assigned(r, color)>>) /\ OneSender'
        BY <1>3, <2>1, <2>2, <4>1, <4>2, <4>3
      <4>. QED BY <2>1, <2>4, <3>2, <3>6, <4>4 DEF Joining, Coming
    <3>7. CASE ~Plays(r, Me)'
      <4>1. handler' = <<Joined(r, "spectator"), News(r)>>
        BY <2>6, <3>2, <3>3, <3>7 DEF Welcome, ps, Joined
      <4>2. <<Joined(r, "spectator"), News(r)>> \in Seq(Messages) /\ <<Joined(r, "spectator")>> \in Seq(Messages)
        BY <3>5
      <4>3. Carries(<<Joined(r, "spectator"), News(r)>>, <<Joined(r, "spectator")>>)
        BY <3>5, CarriesFirst, AnswerKinds
      <4>4. Carries(Stream', <<Joined(r, "spectator")>>) /\ OneSender'
        BY <1>3, <2>1, <2>2, <4>1, <4>2, <4>3
      <4>. QED BY <2>1, <2>4, <3>2, <3>7, <4>4 DEF Joining, Coming
    <3>. QED BY <3>6, <3>7
  <2>. QED BY <2>2, <2>3, <2>5, <2>6 DEF ServeJoin
<1>. QED BY <1>1, <1>2, <1>5, <1>6, <1>7 DEF Flow

\* The first of a short list, and the others.
LEMMA FirstOf ==
    \A a, b, d : /\ Head(<<a>>) = a /\ Tail(<<a>>) = <<>>
                 /\ Head(<<a, b>>) = a /\ Tail(<<a, b>>) = <<b>>
                 /\ Head(<<a, b, d>>) = a /\ Tail(<<a, b, d>>) = <<b, d>>
<1> TAKE a, b, d
<1> DEFINE S == {a, b, d}
<1>1. ASSUME NEW x \in Seq(S), NEW y \in Seq(S), Len(x) = Len(y), \A i \in 1 .. Len(x) : x[i] = y[i]
      PROVE  x = y
  BY <1>1
<1>2. a \in S /\ b \in S /\ d \in S
  OBVIOUS
<1> HIDE DEF S
<1>3. /\ <<a>> \in Seq(S) /\ <<b>> \in Seq(S) /\ <<a, b>> \in Seq(S)
      /\ <<b, d>> \in Seq(S) /\ <<a, b, d>> \in Seq(S)
  BY <1>2
<1>4. Head(<<a>>) = a /\ Head(<<a, b>>) = a /\ Head(<<a, b, d>>) = a
  BY <1>3
<1>5. Tail(<<a>>) = <<>>
  BY <1>3
<1>6. Tail(<<a, b>>) = <<b>>
  <2>1. Tail(<<a, b>>) \in Seq(S) /\ Len(Tail(<<a, b>>)) = 1 /\ Len(<<b>>) = 1 /\ 1 .. 1 = {1}
    BY <1>3
  <2>2. Tail(<<a, b>>)[1] = b /\ <<b>>[1] = b
    BY <1>3
  <2>. QED BY <1>1, <1>3, <2>1, <2>2
<1>7. Tail(<<a, b, d>>) = <<b, d>>
  <2>1. Tail(<<a, b, d>>) \in Seq(S) /\ Len(Tail(<<a, b, d>>)) = 2 /\ Len(<<b, d>>) = 2 /\ 1 .. 2 = {1, 2}
    BY <1>3
  <2>2. Tail(<<a, b, d>>)[1] = b /\ <<b, d>>[1] = b /\ Tail(<<a, b, d>>)[2] = d /\ <<b, d>>[2] = d
    BY <1>3
  <2>. QED BY <1>1, <1>3, <2>1, <2>2
<1>. QED BY <1>4, <1>5, <1>6, <1>7

\* Each reply is to the message at the head of the inbox.
LEMMA Reading ==
    ASSUME Types, Receive, NEW l \in Seq(Messages), Coming(l)
    PROVE  /\ OneSender'
           /\ IF IsAnswer(Head(inbox))
              THEN l # <<>> /\ Head(l) = Head(inbox) /\ Carries(Stream', Tail(l))
              ELSE Carries(Stream', l)
<1>1. inbox # <<>> /\ inbox' = Tail(inbox) /\ UNCHANGED <<handler, match>>
  BY DEF Receive, server
<1>. QED BY <1>1, StreamRead DEF Coming, OneSender

\* The client reads while it searches.
LEMMA FlowSearch ==
    ASSUME IInv, Receive, clean, at = "matching"
    PROVE  Flow'
<1> DEFINE m == Head(inbox)
<1>1. Types /\ UNCHANGED <<handler, match, queued, where, seats, clean>> /\ MatchReply(m) /\ outbox' = outbox
  BY DEF IInv, Receive, server, AuthReply, MatchReply, CreateReply, JoinReply, ColorReply
<1>2. Searching
  BY DEF IInv, Flow
<1> HIDE DEF m
<1>3. CASE ~IsAnswer(m)
  <2>1. at' = at /\ mine' = mine
    BY <1>1, <1>3 DEF MatchReply, IsAnswer
  <2>2. RoomsKept
    BY <1>1 DEF RoomsKept, InRoom, Plays, ColorIn
  <2>3. StreamKept
    <3>1. inbox # <<>> /\ inbox' = Tail(inbox)
      BY DEF Receive
    <3>. QED BY <1>1, <1>3, <3>1, StreamRead DEF StreamKept, OneSender, m
  <2>. QED BY <1>1, <1>2, <2>1, <2>2, <2>3, SearchingKept DEF Flow
<1>4. CASE IsAnswer(m)
  <2>1. ASSUME NEW l \in Seq(Messages), Coming(l)
        PROVE  l # <<>> /\ Head(l) = m /\ OneSender' /\ Carries(Stream', Tail(l))
    BY <1>1, <1>4, <2>1, Reading DEF m
  <2>2. ~Coming(<<>>)
    BY <2>1, PlainTyped
  <2>3. CASE m.type \in {"match_timeout", "error"}
    BY <1>1, <2>3 DEF MatchReply, Flow
  <2>4. ~Coming(<<Error>>) \/ m = Error
    BY <2>1, PlainTyped, FirstOf
  <2>5. ~Coming(<<TimedOut>>) \/ m = TimedOut
    BY <2>1, PlainTyped, FirstOf
  <2>6. ASSUME NEW r \in Room, Coming(<<Error, Found(r)>>)
        PROVE  m = Error
    <3>1. <<Error, Found(r)>> \in Seq(Messages)
      BY ListsTyped
    <3>2. Head(<<Error, Found(r)>>) = m
      BY <2>1, <2>6, <3>1
    <3>. QED BY <3>2, FirstOf
  <2>7. ASSUME m.type \notin {"match_timeout", "error"}
        PROVE  Flow'
    <3>1. m # Error /\ m # TimedOut
      BY <2>7, AnswerKinds
    <3>2. Served
      BY <1>2, <2>2 DEF Searching, Asked
    <3>3. PICK r \in Room :
             /\ InRoom(r) /\ Plays(r, Me)
             /\ \/ Coming(<<Joined(r, "player"), Assigned(r, ColorIn(r)), Found(r)>>)
                \/ Coming(<<Assigned(r, ColorIn(r)), Found(r)>>)
                \/ Coming(<<Found(r)>>) /\ mine.color = ColorIn(r)
      BY <1>2, <2>2, <2>4, <2>5, <2>6, <3>1 DEF Searching, Asked
    <3> DEFINE c == ColorIn(r)
    <3>4. Served' /\ InRoom(r)' /\ Plays(r, Me)' /\ ColorIn(r)' = c /\ c \in {"white", "black"}
      BY <1>1, <3>2, <3>3, Colors DEF Served, InRoom, Plays, ColorIn
    <3> HIDE DEF c
    <3>5. CASE Coming(<<Joined(r, "player"), Assigned(r, c), Found(r)>>)
      <4> DEFINE l == <<Joined(r, "player"), Assigned(r, c), Found(r)>>
      <4>0. l \in Seq(Messages) /\ Head(l) = Joined(r, "player") /\ Tail(l) = <<Assigned(r, c), Found(r)>>
        BY <3>4, ListsTyped, FirstOf
      <4> HIDE DEF l
      <4>1. m = Joined(r, "player") /\ OneSender' /\ Carries(Stream', <<Assigned(r, c), Found(r)>>)
        BY <2>1, <3>5, <4>0 DEF l
      <4>2. at' = at
        BY <1>1, <4>1, AnswerKinds DEF MatchReply
      <4>. QED BY <3>4, <4>1, <4>2 DEF Flow, Searching, Coming
    <3>6. CASE Coming(<<Assigned(r, c), Found(r)>>)
      <4> DEFINE l == <<Assigned(r, c), Found(r)>>
      <4>0. l \in Seq(Messages) /\ Head(l) = Assigned(r, c) /\ Tail(l) = <<Found(r)>>
        BY <3>4, ListsTyped, FirstOf
      <4> HIDE DEF l
      <4>1. m = Assigned(r, c) /\ OneSender' /\ Carries(Stream', <<Found(r)>>)
        BY <2>1, <3>6, <4>0 DEF l
      <4>2. at' = at /\ mine' = [mine EXCEPT !.color = c]
        BY <1>1, <4>1, AnswerKinds DEF MatchReply
      <4>3. mine'.color = c
        BY <1>1, <4>2 DEF Types, Places
      <4>. QED BY <3>4, <4>1, <4>2, <4>3 DEF Flow, Searching, Coming
    <3>7. CASE Coming(<<Found(r)>>) /\ mine.color = c
      <4> DEFINE l == <<Found(r)>>
      <4>0. l \in Seq(Messages) /\ Head(l) = Found(r) /\ Tail(l) = <<>>
        BY <3>4, ListsTyped, FirstOf
      <4> HIDE DEF l
      <4>1. m = Found(r) /\ OneSender' /\ Carries(Stream', <<>>)
        BY <2>1, <3>7, <4>0 DEF l
      <4>2. at' = "game" /\ mine' = [mine EXCEPT !.room = r, !.role = "player", !.via = "match"]
        BY <1>1, <4>1, AnswerKinds DEF MatchReply
      <4>3. mine'.room = r /\ mine'.role = "player" /\ mine'.color = c
        BY <1>1, <3>7, <4>2 DEF Types, Places
      <4>4. InGame'
        BY <3>4, <4>1, <4>3 DEF InGame, Coming
      <4>. QED BY <4>2, <4>4 DEF Flow
    <3>. QED BY <3>3, <3>5, <3>6, <3>7 DEF c
  <2>. QED BY <2>3, <2>7
<1>. QED BY <1>3, <1>4

\* The client reads while it creates a room.
LEMMA FlowCreate ==
    ASSUME IInv, Receive, clean, at = "creating"
    PROVE  Flow'
<1> DEFINE m == Head(inbox)
<1>1. /\ Types /\ inbox # <<>> /\ inbox' = Tail(inbox) /\ inbox \in Seq(Messages)
      /\ UNCHANGED <<handler, match, queued, where, seats, clean>> /\ CreateReply(m)
  BY DEF IInv, Receive, server, AuthReply, MatchReply, CreateReply, JoinReply, ColorReply, Types
<1>2. Creating
  BY DEF IInv, Flow
<1> HIDE DEF m
<1>3. CASE m.type # "room_created"
  BY <1>1, <1>3 DEF CreateReply, Flow
<1>4. CASE m.type = "room_created"
  <2>1. IsAnswer(m)
    BY <1>4 DEF IsAnswer
  <2>2. ASSUME NEW l \in Seq(Messages), Carries(inbox, l)
        PROVE  l # <<>> /\ Head(l) = m /\ Carries(inbox', Tail(l))
    BY <1>1, <2>1, <2>2, CarriesReadAnswer DEF m
  <2>3. ~Carries(inbox, <<>>)
    BY <2>2, PlainTyped
  <2>4. ~Asked(Command("create_room", None, "fine", None))
    BY <1>1, <2>3, StreamEmpty DEF Asked, Coming
  <2>5. PICK r \in Room : Carries(inbox, <<Created(r)>>) /\ handler = <<>> /\ match = <<>> /\ Served
    BY <1>2, <2>3, <2>4 DEF Creating
  <2>6. m = Created(r) /\ Carries(inbox', <<>>)
    <3> DEFINE l == <<Created(r)>>
    <3>1. l \in Seq(Messages) /\ Head(l) = Created(r) /\ Tail(l) = <<>>
      BY ListsTyped, FirstOf
    <3> HIDE DEF l
    <3>. QED BY <2>2, <2>5, <3>1 DEF l
  <2>7. at' = "joining" /\ mine' = [mine EXCEPT !.room = r]
        /\ outbox' = Append(outbox, Command("join_room", r, "fine", None))
    BY <1>1, <1>4, <2>6, AnswerKinds DEF CreateReply, Say
  <2>8. mine'.room = r /\ mine'.color = None
    BY <1>2, <2>7 DEF Creating, Unseated
  <2>9. outbox' = <<Command("join_room", r, "fine", None)>>
    BY <2>5, <2>7, AppendTo DEF Served
  <2>10. Coming(<<>>)'
    <3>1. Stream' = inbox' \o <<>> /\ OneSender' /\ inbox' \in Seq(Messages)
      BY <1>1, <2>5 DEF Stream, OneSender
    <3>. QED BY <2>6, <3>1 DEF Coming
  <2>11. Asked(Command("join_room", r, "fine", None))'
    BY <1>1, <2>5, <2>9, <2>10 DEF Asked, Served
  <2>12. Joining'
    BY <2>8, <2>11 DEF Joining
  <2>. QED BY <2>7, <2>12 DEF Flow
<1>. QED BY <1>3, <1>4

\* The client reads while it joins one.
LEMMA FlowJoin ==
    ASSUME IInv, Receive, clean, at = "joining"
    PROVE  Flow'
<1> DEFINE m == Head(inbox)
           r == mine.room
<1>1. /\ Types /\ UNCHANGED <<handler, match, queued, where, seats, clean>>
      /\ JoinReply(m) /\ outbox' = outbox
  BY DEF IInv, Receive, server, AuthReply, MatchReply, CreateReply, JoinReply, ColorReply
<1>2. Joining /\ r \in Room /\ mine.color = None
  BY DEF IInv, Flow, Joining
<1>3. ASSUME NEW l \in Seq(Messages), Coming(l), IsAnswer(m)
      PROVE  l # <<>> /\ Head(l) = m /\ OneSender' /\ Carries(Stream', Tail(l))
  BY <1>1, <1>3, Reading
<1> HIDE DEF m
<1>4. CASE m.type # "room_joined"
  BY <1>1, <1>4 DEF JoinReply, Flow
<1>5. CASE m.type = "room_joined"
  <2>1. IsAnswer(m)
    BY <1>5 DEF IsAnswer
  <2>2. ~Coming(<<>>)
    BY <1>3, <2>1, PlainTyped
  <2>3. ~Coming(<<Error>>)
    <3>1. Head(<<Error>>) = Error /\ Error.type # "room_joined"
      BY FirstOf, AnswerKinds
    <3>. QED BY <1>3, <1>5, <2>1, <3>1, PlainTyped
  <2>4. /\ Served /\ InRoom(r)
        /\ IF Plays(r, Me) THEN Coming(<<Joined(r, "player"), Assigned(r, ColorIn(r))>>)
                           ELSE Coming(<<Joined(r, "spectator")>>)
    BY <1>2, <2>2, <2>3 DEF Joining, Asked
  <2> DEFINE c == ColorIn(r)
  <2>5. Served' /\ InRoom(r)' /\ (Plays(r, Me)' <=> Plays(r, Me)) /\ c \in {"white", "black"}
    <3>1. CASE r' = r
      BY <1>1, <2>4, <3>1, Colors DEF Served, InRoom, Plays
    <3>2. r' = r
      BY <1>1, <1>5 DEF JoinReply, Types, Places
    <3>. QED BY <3>1, <3>2
  <2>6. /\ at' = IF m.value = "player" THEN "awaitColor" ELSE "game"
        /\ mine'.room = r /\ mine'.role = m.value /\ mine'.color = None /\ mine'.via = "room"
        /\ ColorIn(r)' = c
    BY <1>1, <1>2, <1>5 DEF JoinReply, Types, Places, ColorIn
  <2> HIDE DEF c
  <2>7. CASE Plays(r, Me)
    <3> DEFINE l == <<Joined(r, "player"), Assigned(r, c)>>
    <3>1. l \in Seq(Messages) /\ Head(l) = Joined(r, "player") /\ Tail(l) = <<Assigned(r, c)>>
      BY <1>2, <2>5, ListsTyped, FirstOf
    <3>2. Coming(l)
      BY <2>4, <2>7 DEF c
    <3> HIDE DEF l
    <3>3. m = Joined(r, "player") /\ OneSender' /\ Carries(Stream', <<Assigned(r, c)>>)
      BY <1>3, <2>1, <3>1, <3>2
    <3>4. at' = "awaitColor" /\ mine'.role = "player"
      BY <2>6, <3>3, AnswerKinds
    <3>5. AwaitingColor'
      BY <2>5, <2>6, <2>7, <3>3, <3>4 DEF AwaitingColor, Coming
    <3>. QED BY <3>4, <3>5 DEF Flow
  <2>8. CASE ~Plays(r, Me)
    <3> DEFINE l == <<Joined(r, "spectator")>>
    <3>1. l \in Seq(Messages) /\ Head(l) = Joined(r, "spectator") /\ Tail(l) = <<>>
      BY <1>2, ListsTyped, FirstOf
    <3>2. Coming(l)
      BY <2>4, <2>8
    <3> HIDE DEF l
    <3>3. m = Joined(r, "spectator") /\ OneSender' /\ Carries(Stream', <<>>)
      BY <1>3, <2>1, <3>1, <3>2
    <3>4. at' = "game" /\ mine'.role = "spectator"
      BY <2>6, <3>3, AnswerKinds
    <3>5. InGame'
      BY <2>5, <2>6, <2>8, <3>3, <3>4 DEF InGame, Coming
    <3>. QED BY <3>4, <3>5 DEF Flow
  <2>. QED BY <2>7, <2>8
<1>. QED BY <1>4, <1>5

\* The client reads while it waits for its colour.
LEMMA FlowColor ==
    ASSUME IInv, Receive, clean, at = "awaitColor"
    PROVE  Flow'
<1> DEFINE m == Head(inbox)
           r == mine.room
           c == ColorIn(r)
           l == <<Assigned(r, c)>>
<1>1. /\ Types /\ UNCHANGED <<handler, match, queued, where, seats, clean>>
      /\ ColorReply(m) /\ outbox' = outbox
  BY DEF IInv, Receive, server, AuthReply, MatchReply, CreateReply, JoinReply, ColorReply
<1>2. /\ Served /\ InRoom(r) /\ Plays(r, Me) /\ r \in Room
      /\ mine.role = "player" /\ mine.via = "room" /\ mine.color = None /\ Coming(l)
  BY DEF IInv, Flow, AwaitingColor, InRoom
<1>3. l \in Seq(Messages) /\ Head(l) = Assigned(r, c) /\ Tail(l) = <<>>
  BY <1>2, Colors, ListsTyped, FirstOf
<1>4. Served' /\ at' = "game"
  BY <1>1, <1>2 DEF Served, ColorReply
<1>5. /\ mine'.room = r /\ mine'.role = "player" /\ mine'.via = "room"
      /\ mine'.color = IF m.type = "assigned" THEN m.value ELSE None
  BY <1>1, <1>2 DEF ColorReply, Types, Places
<1>6. InRoom(r)' /\ Plays(r, Me)' /\ ColorIn(r)' = c
  BY <1>1, <1>2, <1>5 DEF InRoom, Plays, ColorIn
<1>7. /\ OneSender'
      /\ IF IsAnswer(m) THEN Head(l) = m /\ Carries(Stream', Tail(l)) ELSE Carries(Stream', l)
  BY <1>1, <1>2, <1>3, Reading
<1> HIDE DEF m, c
<1>8. CASE IsAnswer(m)
  <2>1. m = Assigned(r, c) /\ Carries(Stream', <<>>)
    BY <1>3, <1>7, <1>8
  <2>2. mine'.color = c
    BY <1>5, <2>1, AnswerKinds
  <2>. QED BY <1>4, <1>5, <1>6, <1>7, <2>1, <2>2 DEF Flow, InGame, Coming
<1>9. CASE ~IsAnswer(m)
  <2>1. mine'.color = None /\ Carries(Stream', <<Assigned(r, c)>>)
    BY <1>5, <1>7, <1>9 DEF IsAnswer
  <2>. QED BY <1>4, <1>5, <1>6, <1>7, <2>1 DEF Flow, InGame, Coming
<1>. QED BY <1>8, <1>9

\* Whatever the client reads.
LEMMA FlowReceive ==
    ASSUME IInv, Receive
    PROVE  Flow'
<1> SUFFICES ASSUME clean
             PROVE  Flow'
  BY DEF Receive, Flow
<1>1. CASE at \in {"matching", "creating", "joining", "awaitColor"}
  BY <1>1, FlowSearch, FlowCreate, FlowJoin, FlowColor
<1>2. CASE at \notin {"matching", "creating", "joining", "awaitColor"}
  <2>1. AuthReply(Head(inbox))
    BY <1>2 DEF Receive, MatchReply, CreateReply, JoinReply, ColorReply
  <2>2. at' \in {"menu", "credentials", "auth"}
    BY <2>1 DEF AuthReply
  <2>. QED BY <2>2 DEF Flow
<1>. QED BY <1>1, <1>2

\* The client starts a flow with nothing left over from the last one.
LEMMA FlowOpen ==
    ASSUME IInv, NEW place \in {"auth", "matching", "creating", "joining"}, NEW command, Open(place, command),
           place = "matching" => command = Command("find_match", None, "fine", None),
           place = "creating" => command = Command("create_room", None, "fine", None),
           place = "joining" => \E r \in Room : command = Command("join_room", r, "fine", None)
    PROVE  Flow'
<1>1. /\ Types /\ at' = place /\ outbox' = Append(outbox, command) /\ mine' = [Unseated EXCEPT !.room = command.room]
      /\ clean' = Quiet /\ UNCHANGED <<inbox, handler, match, queued, where, seats>> /\ inbox \in Seq(Messages)
  BY DEF IInv, Open, Say, server, Types
<1> SUFFICES ASSUME Quiet
             PROVE  Flow'
  BY <1>1 DEF Flow
<1>2. Carries(inbox, <<>>)
  <2>1. DOMAIN inbox = 1 .. Len(inbox)
    BY <1>1
  <2>. QED BY <1>1, <2>1, CarriesNone DEF Quiet
<1>3. outbox' = <<command>> /\ handler' = <<>> /\ match' = <<>> /\ ~queued'
  BY <1>1, AppendTo DEF Quiet
<1>4. Coming(<<>>)'
  <2>1. Stream' = inbox \o <<>> /\ OneSender' /\ inbox \o <<>> = inbox
    BY <1>1, <1>3 DEF Stream, OneSender
  <2>. QED BY <1>2, <2>1 DEF Coming
<1>5. Asked(command)'
  BY <1>3, <1>4 DEF Asked
<1>6. CASE place = "matching"
  BY <1>1, <1>5, <1>6 DEF Flow, Searching
<1>7. CASE place = "creating"
  <2>1. command.room = None
    BY <1>7 DEF Command
  <2>2. mine' = Unseated
    BY <1>1, <2>1 DEF Unseated
  <2>. QED BY <1>1, <1>5, <1>7, <2>2 DEF Flow, Creating
<1>8. CASE place = "joining"
  <2>1. PICK r \in Room : command = Command("join_room", r, "fine", None)
    BY <1>8
  <2>2. mine'.room = r /\ mine'.color = None
    BY <1>1, <2>1 DEF Unseated, Command
  <2>. QED BY <1>1, <1>5, <1>8, <2>1, <2>2 DEF Flow, Joining
<1>9. CASE place = "auth"
  BY <1>1, <1>9 DEF Flow
<1>. QED BY <1>6, <1>7, <1>8, <1>9

\* The user starts a flow or quits; a search runs out or is cancelled.
LEMMA FlowUser ==
    ASSUME IInv, User \/ TimeOut \/ CancelSearch
    PROVE  Flow'
<1>1. CASE Authenticate \/ Play \/ CreateRoom \/ JoinRoom
  BY <1>1, FlowOpen DEF Authenticate, Play, CreateRoom, JoinRoom
<1>2. CASE Quit \/ TimeOut \/ CancelSearch
  <2>1. at' \in {"quit", "menu", "crashed"}
    BY <1>2 DEF Quit, TimeOut, CancelSearch
  <2>. QED BY <2>1 DEF Flow
<1>. QED BY <1>1, <1>2 DEF User

-----------------------------------------------------------------------------
\* The client is at its login at first.
LEMMA InitInvariant == Init => IInv
<1> SUFFICES ASSUME Init
             PROVE  IInv
  OBVIOUS
<1>1. /\ Unseated \in Places /\ [state |-> "none", players |-> <<>>] \in Seats
      /\ <<>> \in Seq(Messages) /\ <<>> \in Seq(Commands)
  BY DEF Unseated, Places, Values, Seats
<1>2. Types
  BY <1>1 DEF Init, Types, Places
<1>3. Flow
  BY DEF Init, Flow
<1>. QED BY <1>2, <1>3 DEF IInv

\* Every step keeps the invariant.
LEMMA StepInvariant == IInv /\ [Next]_vars => IInv'
<1> SUFFICES ASSUME IInv, [Next]_vars
             PROVE  IInv'
  OBVIOUS
<1>1. Types'
  BY TypesStep DEF IInv
<1>2. CASE UNCHANGED vars
  <2>1. UNCHANGED <<at, mine, inbox, outbox, handler, match, queued, where, seats, clean>>
    BY <1>2 DEF vars, client, server
  <2>2. RoomsKept
    BY <2>1 DEF RoomsKept, InRoom, Plays, ColorIn
  <2>3. StreamKept
    BY <2>1 DEF StreamKept, OneSender, Stream
  <2>4. Flow'
    BY <2>1, <2>2, <2>3, FlowKept
  <2>. QED BY <1>1, <2>4 DEF IInv
<1>3. CASE Next
  <2>1. Flow'
    BY <1>3, FlowUser, FlowReceive, FlowServe, FlowSend, FlowMatchEnds, FlowLoopDies, FlowRooms DEF Next, Elsewhere
  <2>. QED BY <1>1, <2>1 DEF IInv
<1>. QED BY <1>2, <1>3

\* The answers on their way to a client, in a flow opened with nothing of an
\* earlier one under way, are those that its wait and what it has read call for.
THEOREM Invariance == Spec => []IInv
<1>1. Init => IInv
  BY InitInvariant
<1>2. IInv /\ [Next]_vars => IInv'
  BY StepInvariant
<1>. QED BY <1>1, <1>2, PTL DEF Spec

\* A client that enters a game believes what the server has it down for: its
\* room, its role and its colour (find_match_flow and room_flow take messages by
\* their types only, client/pregame.py).
THEOREM ClientKnowsItsSeat == Spec => []SeatKnown
<1>1. IInv => SeatKnown
  <2> SUFFICES ASSUME IInv, at = "game", clean
               PROVE  SeatKnown
    BY DEF SeatKnown
  <2>1. InGame
    BY DEF IInv, Flow
  <2>. QED BY <2>1 DEF InGame, InRoom, SeatKnown
<1>. QED BY <1>1, Invariance, PTL

\* It also has read every answer, and left no search or command behind.
THEOREM HandshakeIsOver == Spec => []NothingLeftOver
<1>1. IInv => NothingLeftOver
  <2> SUFFICES ASSUME IInv, at = "game", clean
               PROVE  NothingLeftOver
    BY DEF NothingLeftOver
  <2>1. InGame /\ Types
    BY DEF IInv, Flow
  <2>2. Served /\ OneSender
    BY <2>1 DEF InGame, Coming
  <2>3. ASSUME NEW i \in 1 .. Len(Stream), IsAnswer(Stream[i])
        PROVE  Stream[i].type = "assigned" /\ mine.via = "room" /\ mine.color = None
    <3>1. Stream \in Seq(Messages)
      BY <2>1, RestTyped
    <3>2. ~Carries(Stream, <<>>)
      <4>1. 1 .. Len(<<>>) = {} /\ <<>> \in Seq(Messages)
        OBVIOUS
      <4> SUFFICES ASSUME Carries(Stream, <<>>)
                   PROVE  FALSE
        OBVIOUS
      <4>2. \E k \in 1 .. Len(<<>>) : Stream[i] = <<>>[k]
        BY <2>3, <3>1, <4>1, CarriesAll
      <4>. QED BY <4>1, <4>2
    <3> DEFINE a == Assigned(mine.room, ColorIn(mine.room))
    <3>3. mine.via = "room" /\ mine.color = None /\ Carries(Stream, <<a>>) /\ mine.room \in Room
      BY <2>1, <3>2 DEF InGame, Coming, InRoom
    <3>4. <<a>> \in Seq(Messages) /\ a.type = "assigned"
      BY <3>3, Colors, ListsTyped, AnswerKinds
    <3> HIDE DEF a
    <3>5. \E k \in 1 .. Len(<<a>>) : Stream[i] = <<a>>[k]
      BY <2>3, <3>1, <3>3, <3>4, CarriesAll
    <3>6. Stream[i] = a
      BY <3>5
    <3>. QED BY <3>3, <3>4, <3>6
  <2>4. ASSUME NEW pending \in {inbox, handler, match}, NEW i \in DOMAIN pending
        PROVE  \E j \in 1 .. Len(Stream) : Stream[j] = pending[i]
    <3> DEFINE rest == IF match = <<>> THEN handler ELSE match
    <3>1. rest \in Seq(Messages) /\ inbox \in Seq(Messages) /\ Stream = inbox \o rest
      BY <2>1, RestTyped DEF Stream, Types
    <3>2. pending = inbox \/ pending = rest
      <4>1. pending # <<>>
        BY <2>4
      <4>. QED BY <2>2, <4>1 DEF OneSender
    <3> HIDE DEF rest
    <3>3. /\ Len(Stream) = Len(inbox) + Len(rest) /\ Len(inbox) \in Nat /\ Len(rest) \in Nat
          /\ \A j \in 1 .. Len(inbox) : Stream[j] = inbox[j]
          /\ \A j \in 1 .. Len(rest) : Stream[Len(inbox) + j] = rest[j]
      BY <3>1
    <3>4. CASE pending = inbox
      <4>1. i \in 1 .. Len(inbox)
        BY <2>4, <3>1, <3>4
      <4>. QED BY <3>3, <3>4, <4>1
    <3>5. CASE pending = rest
      <4>1. i \in 1 .. Len(rest)
        BY <2>4, <3>1, <3>5
      <4>2. Len(inbox) + i \in 1 .. Len(Stream)
        BY <3>3, <4>1
      <4>. QED BY <3>3, <3>5, <4>1, <4>2
    <3>. QED BY <3>2, <3>4, <3>5
  <2>. QED BY <2>2, <2>3, <2>4 DEF NothingLeftOver, Served
<1>. QED BY <1>1, Invariance, PTL
=============================================================================
