-------------------------- MODULE MatchmakingProofs --------------------------
(***************************************************************************)
(* Proofs about Matchmaking, for any users, connections and ratings, and   *)
(* however late the loop wakes: who is in the queue, who is in a room, and *)
(* who is told of what.                                                    *)
(***************************************************************************)
EXTENDS Matchmaking, FiniteSetTheorems, TLAPS

Statuses == {"new", "anonymous", "idle", "searching", "playing", "leaving", "closed",
             "stranded"}
Entry == [user : User, conn : Conn, waited : Nat]
Player == [user : User, conn : Conn]
Message == [conn : Conn, room : Nat, opponent : User]

Types ==
    /\ status \in [Conn -> Statuses]
    /\ queue \in Seq(Entry) /\ pair \in Seq(Entry) /\ todo \in Seq(Entry) /\ late \in Seq(Entry)
    /\ rooms \in Seq(Seq(Player))
    /\ told \in SUBSET Message
    /\ loop \in {"off", "asleep", "joining", "announcing", "sweeping", "dead"}

\* The loop holds entries only where it is about to use them.
HandingOver == loop \in {"joining", "announcing"}
Holds ==
    /\ ~HandingOver => pair = <<>> /\ todo = <<>>
    /\ loop # "sweeping" => late = <<>>

\* A connection that goes by a name: identity_of answers.
Known(c) == LoggedIn(c) \/ Stranded(c)

\* EntryBacked, of any list of entries.
Backed(q) ==
    \A i \in DOMAIN q :
        /\ Known(q[i].conn)
        /\ Name[q[i].conn] = q[i].user
        /\ \A j \in DOMAIN q : q[j].user = q[i].user => j = i

\* Whoever does not cancel is searching as long as it is in the list, if its
\* tear-down did not leave it there.
Pending(c) == c \notin Cancels => status[c] \in {"searching", "stranded"}
Searching(q) == \A i \in DOMAIN q : Pending(q[i].conn)

\* Who is told of a room, or has closed its connection for good.
Reached(c, r) == status[c] = "closed" \/ \E m \in told : m.conn = c /\ m.room = r

Seat(e) == [user |-> e.user, conn |-> e.conn]
Hall == rooms[Len(rooms)]

\* The match being handed over, and how far it is.
Match ==
    HandingOver =>
        /\ Len(pair) = 2 /\ pair[1].user # pair[2].user /\ rooms # <<>>
        /\ \A k \in {1, 2} : /\ Name[pair[k].conn] = pair[k].user
                             /\ status[pair[k].conn] \notin {"new", "anonymous"}
        /\ \/ todo = pair /\ Hall = <<Seat(pair[1])>>
           \/ /\ todo = <<pair[2]>>
              /\ Hall \in {<<Seat(pair[2])>>, <<Seat(pair[1]), Seat(pair[2])>>}
              /\ Reached(pair[1].conn, Len(rooms))
        /\ loop = "announcing" => Reached(todo[1].conn, Len(rooms))

\* What was told of a room is true of it.
Halls ==
    /\ \A r \in DOMAIN rooms : /\ Len(rooms[r]) <= 2
                               /\ Len(rooms[r]) = 2 => rooms[r][1].user # rooms[r][2].user
    /\ \A m \in told :
          /\ m.room \in DOMAIN rooms /\ m.opponent # Name[m.conn]
          /\ \E i \in DOMAIN rooms[m.room] : rooms[m.room][i].conn = m.conn
          /\ \A i \in DOMAIN rooms[m.room] : rooms[m.room][i].user \in {Name[m.conn], m.opponent}
          /\ HandingOver /\ m.room = Len(rooms) =>
                {Name[m.conn], m.opponent} = {pair[1].user, pair[2].user}

\* The opponent of whoever was told of a match is reached as well.
Mutual ==
    \A m \in told :
        \/ \E d \in Conn : Name[d] = m.opponent /\ Reached(d, m.room)
        \/ HandingOver /\ m.room = Len(rooms)
        \/ loop = "dead"

\* An entry outside the queue is of a search that is not over.
Unanswered(e, q) ==
    e.conn \notin Cancels =>
        /\ status[e.conn] \in {"searching", "leaving", "closed", "stranded"}
        /\ \A j \in DOMAIN q : q[j].conn # e.conn
Distinct(l) == \A i, j \in DOMAIN l : l[i].conn = l[j].conn => i = j
Entries ==
    /\ Searching(queue)
    /\ \A i \in DOMAIN todo : ~(i = 1 /\ loop = "announcing") => Unanswered(todo[i], queue)
    /\ \A i \in DOMAIN late : Unanswered(late[i], queue)
    /\ Distinct(late)

IInv == Types /\ Holds /\ EntryBacked /\ Match /\ Halls /\ Mutual /\ Entries

-----------------------------------------------------------------------------
(* What is kept of a list.                                                 *)

\* The positions kept, each with the place it gets.
LEMMA Ranks ==
  ASSUME NEW n \in Nat, NEW P \in SUBSET (1 .. n)
  PROVE  /\ Cardinality(P) \in Nat
         /\ \A i \in P : Cardinality(P \cap (1 .. i)) \in 1 .. Cardinality(P)
         /\ \A i, j \in P : i < j => Cardinality(P \cap (1 .. i)) < Cardinality(P \cap (1 .. j))
         /\ \A k \in 1 .. Cardinality(P) : \E i \in P : Cardinality(P \cap (1 .. i)) = k
<1> DEFINE r == [i \in P |-> Cardinality(P \cap (1 .. i))]
<1>1. IsFiniteSet(P) /\ Cardinality(P) \in Nat
  <2>1. IsFiniteSet(1 .. n)
    BY FS_Interval
  <2> QED
    BY <2>1, FS_Subset, FS_CardinalityType
<1>2. ASSUME NEW i \in P
      PROVE  /\ IsFiniteSet(P \cap (1 .. i))
             /\ Cardinality(P \cap (1 .. i)) \in 1 .. Cardinality(P)
  <2>1. IsFiniteSet(P \cap (1 .. i)) /\ Cardinality(P \cap (1 .. i)) <= Cardinality(P)
    BY <1>1, FS_Intersection
  <2>2. P \cap (1 .. i) # {} /\ Cardinality(P \cap (1 .. i)) \in Nat
    BY <2>1, FS_CardinalityType
  <2>3. Cardinality(P \cap (1 .. i)) # 0
    BY <2>1, <2>2, FS_EmptySet
  <2> QED
    BY <1>1, <2>1, <2>2, <2>3
<1>3. ASSUME NEW i \in P, NEW j \in P, i < j
      PROVE  Cardinality(P \cap (1 .. i)) < Cardinality(P \cap (1 .. j))
  <2>1. P \cap (1 .. i) \in SUBSET (P \cap (1 .. j)) /\ P \cap (1 .. j) # P \cap (1 .. i)
    BY <1>3
  <2>2. /\ Cardinality(P \cap (1 .. i)) <= Cardinality(P \cap (1 .. j))
        /\ Cardinality(P \cap (1 .. j)) # Cardinality(P \cap (1 .. i))
    BY <1>2, <2>1, FS_Subset
  <2> QED
    BY <1>1, <1>2, <2>2
<1>4. r \in [P -> 1 .. Cardinality(P)]
  BY <1>2
<1>5. \A i, j \in P : r[i] = r[j] => i = j
  <2> SUFFICES ASSUME NEW i \in P, NEW j \in P, i # j
               PROVE  r[i] # r[j]
    OBVIOUS
  <2>1. r[i] < r[j] \/ r[j] < r[i]
    BY <1>3
  <2> QED
    BY <1>1, <1>4, <2>1
<1>6. r \in Injection(P, 1 .. Cardinality(P))
  BY <1>4, <1>5 DEF Injection, IsInjective
<1>7. IsFiniteSet(1 .. Cardinality(P)) /\ Cardinality(1 .. Cardinality(P)) = Cardinality(P)
  BY <1>1, FS_Interval
<1>8. r \in Surjection(P, 1 .. Cardinality(P))
  <2> HIDE DEF r
  <2> QED
    BY <1>6, <1>7, FS_Injection
<1>9. \A k \in 1 .. Cardinality(P) : \E i \in P : r[i] = k
  BY <1>8 DEF Surjection
<1> QED
  BY <1>1, <1>2, <1>3, <1>9

\* The list l has the entries of q at the positions P, each once, in their order.
KeptOf(q, P, l) ==
    /\ Len(l) = Cardinality(P) /\ Cardinality(P) \in Nat
    /\ \E f \in [1 .. Cardinality(P) -> P] :
          /\ \A k \in 1 .. Cardinality(P) : l[k] = q[f[k]]
          /\ \A k, m \in 1 .. Cardinality(P) : k < m => f[k] < f[m]
          /\ \A i \in P : \E k \in 1 .. Cardinality(P) : f[k] = i

\* That is what Keep makes of it.
LEMMA KeepFacts ==
  ASSUME NEW S, NEW q \in Seq(S), NEW P \in SUBSET (DOMAIN q)
  PROVE  Keep(q, P) \in Seq(S) /\ KeptOf(q, P, Keep(q, P))
<1> DEFINE n == Cardinality(P)
           r == [i \in P |-> Cardinality(P \cap (1 .. i))]
           f == [k \in 1 .. n |-> CHOOSE i \in P : Cardinality(P \cap (1 .. i)) = k]
<1>1. Len(q) \in Nat /\ DOMAIN q = 1 .. Len(q) /\ \A i \in DOMAIN q : q[i] \in S
  OBVIOUS
<1>2. /\ n \in Nat
      /\ \A i \in P : r[i] \in 1 .. n
      /\ \A i, j \in P : i < j => r[i] < r[j]
      /\ \A k \in 1 .. n : \E i \in P : Cardinality(P \cap (1 .. i)) = k
  BY <1>1, Ranks
<1>3. ASSUME NEW k \in 1 .. n
      PROVE  f[k] \in P /\ r[f[k]] = k
  BY <1>2
<1>4. \A k \in 1 .. n : Keep(q, P)[k] = q[f[k]]
  BY DEF Keep
<1>5. Keep(q, P) = [k \in 1 .. n |-> q[f[k]]]
  BY DEF Keep
<1>6. f \in [1 .. n -> P]
  BY <1>3
<1>7. P \subseteq Int
  BY <1>1
<1>8. /\ \A k, m \in 1 .. n : k < m => f[k] < f[m]
      /\ \A i \in P : \E k \in 1 .. n : f[k] = i
  <2> HIDE DEF n, r, f
  <2>1. ASSUME NEW i \in P, NEW j \in P, r[i] = r[j]
        PROVE  i = j
    <3>1. i < j => r[i] < r[j]
      BY <1>2
    <3>2. j < i => r[j] < r[i]
      BY <1>2
    <3>3. r[i] \in Int /\ r[j] \in Int
      BY <1>2
    <3> QED
      BY <1>7, <2>1, <3>1, <3>2, <3>3
  <2>2. ASSUME NEW k \in 1 .. n, NEW m \in 1 .. n, k < m
        PROVE  f[k] < f[m]
    <3>1. f[k] \in P /\ f[m] \in P /\ r[f[k]] = k /\ r[f[m]] = m
      BY <1>3
    <3>2. f[m] < f[k] => m < k
      BY <1>2, <3>1
    <3>3. f[k] # f[m]
      BY <1>2, <2>2, <3>1
    <3> QED
      BY <1>2, <1>7, <2>2, <3>1, <3>2, <3>3
  <2>3. ASSUME NEW i \in P
        PROVE  f[r[i]] = i
    BY <1>2, <1>3, <2>1
  <2> QED
    BY <1>2, <2>2, <2>3
<1>9. Keep(q, P) \in Seq(S) /\ Len(Keep(q, P)) = n
  <2> HIDE DEF n, f
  <2>1. \A k \in 1 .. n : q[f[k]] \in S
    BY <1>1, <1>6
  <2> QED
    BY <1>2, <1>5, <2>1
<1> QED
  BY <1>2, <1>4, <1>6, <1>8, <1>9 DEF KeptOf

\* A set of numbers has a least one; this stands in for induction.
LEMMA LeastNumber ==
  ASSUME NEW T \in SUBSET Nat, T # {}
  PROVE  \E t \in T : \A u \in T : t <= u
<1> PICK top \in T : TRUE
  OBVIOUS
<1> DEFINE Low == {t \in T : t <= top}
           I == {1 .. t : t \in Low}
           R == StrictSubsetOrdering(1 .. top)
<1>1. IsFiniteSet(1 .. top)
  BY FS_Interval
<1>2. IsWellFoundedOn(R, SUBSET (1 .. top))
  BY <1>1, FS_StrictSubsetOrderingWellFounded, FS_FiniteSubsetsOfFinite
<1>3. I \subseteq SUBSET (1 .. top) /\ I # {}
  <2>1. 1 .. top \in I
    OBVIOUS
  <2>2. ASSUME NEW t \in Low
        PROVE  1 .. t \subseteq 1 .. top
    OBVIOUS
  <2> QED
    BY <2>1, <2>2
<1>4. \E x \in I : \A y \in I : ~(<<y, x>> \in R)
  <2> HIDE DEF I, R
  <2> QED
    BY <1>2, <1>3, WFMin
<1>5. PICK t \in Low : \A u \in Low : ~(<<1 .. u, 1 .. t>> \in R)
  BY <1>4
<1>6. ASSUME NEW u \in T
      PROVE  t <= u
  <2> SUFFICES ASSUME u < t
               PROVE  FALSE
    OBVIOUS
  <2>1. u \in Low
    OBVIOUS
  <2>2. 1 .. u \subseteq 1 .. t /\ t \in 1 .. t /\ t \notin 1 .. u
    OBVIOUS
  <2>3. 1 .. u \in SUBSET (1 .. top) /\ 1 .. t \in SUBSET (1 .. top) /\ 1 .. u # 1 .. t
    BY <2>2
  <2>4. <<1 .. u, 1 .. t>> \in R
    BY <2>2, <2>3 DEF StrictSubsetOrdering
  <2> QED
    BY <1>5, <2>1, <2>4
<1> QED
  BY <1>6

\* The nested loops of find_match end at one of the pairs.
LEMMA FirstPairFacts ==
  ASSUME NEW q \in Seq(Entry), Pairs(q) # {}
  PROVE  /\ FirstPair(q) \in Pairs(q)
         /\ FirstPair(q)[1] \in DOMAIN q /\ FirstPair(q)[2] \in DOMAIN q
         /\ FirstPair(q)[1] < FirstPair(q)[2]
<1>1. DOMAIN q \subseteq Nat
  OBVIOUS
<1>2. \A p \in Pairs(q) : p = <<p[1], p[2]>> /\ p[1] \in DOMAIN q /\ p[2] \in DOMAIN q /\ p[1] < p[2]
  BY DEF Pairs
<1> HIDE DEF Pairs
<1> DEFINE A == {p[1] : p \in Pairs(q)}
<1>3. A \in SUBSET Nat /\ A # {}
  BY <1>1, <1>2
<1>4. PICK a \in A : \A u \in A : a <= u
  <2> HIDE DEF A
  <2> QED
    BY <1>3, LeastNumber
<1> DEFINE B == {p[2] : p \in {o \in Pairs(q) : o[1] = a}}
<1>5. B \in SUBSET Nat /\ B # {}
  BY <1>1, <1>2
<1>6. PICK b \in B : \A u \in B : b <= u
  <2> HIDE DEF B
  <2> QED
    BY <1>5, LeastNumber
<1>7. PICK p \in Pairs(q) : p[1] = a /\ p[2] = b
  BY <1>6
<1>8. ASSUME NEW o \in Pairs(q)
      PROVE  Before(p, o)
  <2>1. a <= o[1] /\ (o[1] = a => b <= o[2])
    BY <1>4, <1>6
  <2>2. a \in Nat /\ o[1] \in Nat
    BY <1>1, <1>2, <1>3
  <2> QED
    BY <1>7, <2>1, <2>2 DEF Before
<1>9. FirstPair(q) \in Pairs(q)
  BY <1>8 DEF FirstPair
<1> QED
  BY <1>2, <1>9

-----------------------------------------------------------------------------
(* What is left of a list is part of it.                                   *)

\* Lists are equal when their entries are.
LEMMA SameList ==
  \A S : \A x, y \in Seq(S) :
     Len(x) = Len(y) /\ (\A k \in 1 .. Len(x) : x[k] = y[k]) => x = y
  OBVIOUS

\* What the entries of a list are.
LEMMA EntriesOf ==
  \A S : \A q \in Seq(S) :
     Len(q) \in Nat /\ DOMAIN q = 1 .. Len(q) /\ \A i \in DOMAIN q : q[i] \in S
  OBVIOUS

\* How many numbers there are up to n.
LEMMA CountUpTo ==
  \A n \in Nat : IsFiniteSet(1 .. n) /\ Cardinality(1 .. n) = n
  BY FS_Interval

\* The entries of l are entries of q, no one twice.
Part(l, q) ==
    \E f \in [DOMAIN l -> DOMAIN q] :
        /\ \A k \in DOMAIN l : l[k] = q[f[k]]
        /\ \A k, m \in DOMAIN l : f[k] = f[m] => k = m

\* Keep keeps the entries at the positions named, and no others.
LEMMA KeepPart ==
  ASSUME NEW q \in Seq(Entry), NEW P \in SUBSET (DOMAIN q)
  PROVE  /\ Keep(q, P) \in Seq(Entry) /\ Part(Keep(q, P), q)
         /\ \A k \in DOMAIN Keep(q, P) : \E i \in P : Keep(q, P)[k] = q[i]
         /\ \A i \in P : \E k \in DOMAIN Keep(q, P) : Keep(q, P)[k] = q[i]
<1>0. Keep(q, P) \in Seq(Entry) /\ KeptOf(q, P, Keep(q, P))
  BY KeepFacts
<1> DEFINE l == Keep(q, P)
           n == Cardinality(P)
<1>1. l \in Seq(Entry) /\ Len(l) = n /\ n \in Nat
  BY <1>0 DEF KeptOf
<1>2. PICK f \in [1 .. n -> P] :
        /\ \A k \in 1 .. n : l[k] = q[f[k]]
        /\ \A k, m \in 1 .. n : k < m => f[k] < f[m]
        /\ \A i \in P : \E k \in 1 .. n : f[k] = i
  BY <1>0 DEF KeptOf
<1> HIDE DEF l, n
<1>3. DOMAIN l = 1 .. n
  BY <1>1
<1>4. P \subseteq Nat
  OBVIOUS
<1>5. ASSUME NEW k \in 1 .. n, NEW m \in 1 .. n, f[k] = f[m]
      PROVE  k = m
  <2>1. ~(f[k] < f[m]) /\ ~(f[m] < f[k])
    BY <1>4, <1>5
  <2> QED
    BY <1>1, <1>2, <2>1
<1>6. f \in [DOMAIN l -> DOMAIN q]
  BY <1>3
<1>7. Part(l, q)
  <2>1. \A k \in DOMAIN l : l[k] = q[f[k]]
    BY <1>2, <1>3
  <2>2. \A k, m \in DOMAIN l : f[k] = f[m] => k = m
    BY <1>3, <1>5
  <2> QED
    BY <1>6, <2>1, <2>2 DEF Part
<1>8. \A k \in DOMAIN l : \E i \in P : l[k] = q[i]
  BY <1>2, <1>3
<1>9. \A i \in P : \E k \in DOMAIN l : l[k] = q[i]
  BY <1>2, <1>3
<1> QED
  BY <1>1, <1>7, <1>8, <1>9 DEF l

\* What is said of all entries of a list holds of a part of it.
LEMMA PartFacts ==
  ASSUME NEW q \in Seq(Entry), NEW l \in Seq(Entry), Part(l, q)
  PROVE  /\ \A k \in DOMAIN l : \E i \in DOMAIN q : l[k] = q[i]
         /\ Backed(q) => Backed(l)
         /\ Searching(q) => Searching(l)
         /\ Distinct(q) => Distinct(l)
  BY DEF Part, Backed, Searching, Pending, Distinct

\* The rest of a list, position by position.
LEMMA TailPart ==
  ASSUME NEW q \in Seq(Entry), q # <<>>
  PROVE  /\ Tail(q) \in Seq(Entry)
         /\ \A k \in DOMAIN Tail(q) : k + 1 \in DOMAIN q /\ Tail(q)[k] = q[k + 1]
  OBVIOUS

\* The first of different entries is not met again.
LEMMA TailDistinct ==
  ASSUME NEW q \in Seq(Entry), q # <<>>, Distinct(q)
  PROVE  Distinct(Tail(q)) /\ \A k \in DOMAIN Tail(q) : Tail(q)[k].conn # q[1].conn
<1> DEFINE l == Tail(q)
<1>1. /\ l \in Seq(Entry)
      /\ \A k \in DOMAIN l : k + 1 \in DOMAIN q /\ l[k] = q[k + 1]
  BY TailPart
<1>2. DOMAIN l \subseteq Nat \ {0} /\ 1 \in DOMAIN q
  BY <1>1
<1> HIDE DEF l
<1>3. ASSUME NEW i \in DOMAIN l, NEW j \in DOMAIN l, l[i].conn = l[j].conn
      PROVE  i = j
  <2>1. i + 1 = j + 1
    BY <1>1, <1>3 DEF Distinct
  <2> QED
    BY <1>2, <2>1
<1>4. ASSUME NEW k \in DOMAIN l
      PROVE  l[k].conn # q[1].conn
  <2>1. k + 1 # 1
    BY <1>2
  <2> QED
    BY <1>1, <1>2, <2>1 DEF Distinct
<1> QED
  BY <1>3, <1>4 DEF Distinct, l

\* One entry to a user is one to a connection.
LEMMA BackedDistinct ==
  ASSUME NEW q \in Seq(Entry), Backed(q)
  PROVE  Distinct(q)
  BY DEF Backed, Distinct

\* Who is due: nobody of a list when all its connections are closed, and first
\* of all somebody who is still registered.
LEMMA DueFacts ==
  ASSUME NEW q \in Seq(Entry)
  PROVE  /\ Due(q) \in Seq(Entry) /\ Part(Due(q), q)
         /\ Due(q) = <<>> => \A i \in DOMAIN q : ~Registered(q[i].conn)
         /\ (\E i \in DOMAIN q : Registered(q[i].conn)) => Due(q) # <<>>
<1> DEFINE P == {j \in DOMAIN q : \E i \in 1 .. j : Registered(q[i].conn)}
<1>1. P \in SUBSET (DOMAIN q) /\ Due(q) = Keep(q, P)
  BY DEF Due
<1>2. ASSUME NEW i \in DOMAIN q, Registered(q[i].conn)
      PROVE  i \in P
  BY <1>2
<1> HIDE DEF P
<1>3. /\ Due(q) \in Seq(Entry) /\ Part(Due(q), q)
      /\ \A i \in P : \E k \in DOMAIN Due(q) : Due(q)[k] = q[i]
  BY <1>1, KeepPart
<1>4. Due(q) = <<>> => P = {}
  BY <1>3
<1> QED
  BY <1>2, <1>3, <1>4

\* Of the two of a match, the second is due behind the first or alone.
LEMMA DueOfTwo ==
  ASSUME NEW q \in Seq(Entry), Len(q) = 2
  PROVE  \/ Registered(q[1].conn) /\ Due(q) = q
         \/ ~Registered(q[1].conn) /\ Registered(q[2].conn) /\ Due(q) = <<q[2]>>
         \/ ~Registered(q[1].conn) /\ ~Registered(q[2].conn) /\ Due(q) = <<>>
<1> DEFINE P == {j \in DOMAIN q : \E i \in 1 .. j : Registered(q[i].conn)}
           n == Cardinality(P)
<1>1. DOMAIN q = {1, 2} /\ P \in SUBSET {1, 2} /\ P \in SUBSET (DOMAIN q) /\ Due(q) = Keep(q, P)
  BY DEF Due
<1>2. /\ 1 \in P <=> Registered(q[1].conn)
      /\ 2 \in P <=> Registered(q[1].conn) \/ Registered(q[2].conn)
  <2>1. 1 .. 1 = {1} /\ 1 .. 2 = {1, 2}
    OBVIOUS
  <2> QED
    BY <1>1, <2>1
<1> HIDE DEF P
<1>0. Keep(q, P) \in Seq(Entry) /\ KeptOf(q, P, Keep(q, P))
  <2>1. P \in SUBSET (DOMAIN q)
    BY <1>1
  <2> QED
    BY <2>1, KeepFacts
<1>3. Due(q) \in Seq(Entry) /\ Len(Due(q)) = n /\ n \in Nat
  BY <1>0, <1>1 DEF KeptOf
<1>4. PICK f \in [1 .. n -> P] :
        /\ \A k \in 1 .. n : Due(q)[k] = q[f[k]]
        /\ \A k, m \in 1 .. n : k < m => f[k] < f[m]
  BY <1>0, <1>1 DEF KeptOf
<1>5. CASE 1 \in P
  <2>1. P = {1, 2}
    BY <1>1, <1>2, <1>5
  <2>2. n = 2
    <3>1. P = 1 .. 2
      BY <2>1
    <3> QED
      BY <3>1, CountUpTo
  <2> HIDE DEF n
  <2>3. f[1] < f[2] /\ f[1] \in {1, 2} /\ f[2] \in {1, 2}
    BY <1>4, <2>1, <2>2
  <2>4. f[1] = 1 /\ f[2] = 2
    BY <2>3
  <2>5. Due(q)[1] = q[1] /\ Due(q)[2] = q[2]
    BY <1>4, <2>2, <2>4
  <2>6. \A k \in 1 .. Len(q) : Due(q)[k] = q[k]
    BY <2>5
  <2>7. Due(q) = q
    BY <1>3, <2>2, <2>6, SameList
  <2> QED
    BY <1>2, <1>5, <2>7
<1>6. CASE 1 \notin P /\ 2 \in P
  <2>1. P = {2}
    BY <1>1, <1>6
  <2>2. n = 1
    BY <2>1, FS_Singleton
  <2> HIDE DEF n
  <2>3. f[1] = 2
    BY <1>4, <2>1, <2>2
  <2>4. Due(q)[1] = q[2]
    BY <1>4, <2>2, <2>3
  <2>5. <<q[2]>> \in Seq(Entry) /\ Len(<<q[2]>>) = 1 /\ <<q[2]>>[1] = q[2]
    <3>1. q[2] \in Entry
      BY <1>1, EntriesOf
    <3> QED
      BY <3>1
  <2>6. Due(q) = <<q[2]>>
    BY <1>3, <2>2, <2>4, <2>5, SameList
  <2> QED
    BY <1>2, <1>6, <2>6
<1>7. CASE 1 \notin P /\ 2 \notin P
  <2>1. P = {}
    BY <1>1, <1>7
  <2>2. n = 0
    BY <2>1, FS_EmptySet
  <2> HIDE DEF n
  <2>3. Due(q) = <<>>
    BY <1>3, <2>2
  <2> QED
    BY <1>2, <1>7, <2>3
<1> QED
  BY <1>5, <1>6, <1>7

\* Of a single entry, it is due or nobody is.
LEMMA DueOfOne ==
  ASSUME NEW e \in Entry
  PROVE  \/ Registered(e.conn) /\ Due(<<e>>) = <<e>>
         \/ ~Registered(e.conn) /\ Due(<<e>>) = <<>>
<1> DEFINE q == <<e>>
<1>1. q \in Seq(Entry) /\ Len(q) = 1 /\ q[1] = e /\ DOMAIN q = {1}
  OBVIOUS
<1> HIDE DEF q
<1>2. CASE Registered(e.conn)
  <2>1. Due(q) # <<>> /\ Due(q) \in Seq(Entry) /\ Part(Due(q), q)
    BY <1>1, <1>2, DueFacts
  <2>2. PICK f \in [DOMAIN Due(q) -> DOMAIN q] :
           /\ \A k \in DOMAIN Due(q) : Due(q)[k] = q[f[k]]
           /\ \A k, m \in DOMAIN Due(q) : f[k] = f[m] => k = m
    BY <2>1 DEF Part
  <2>3. Len(Due(q)) \in Nat /\ Len(Due(q)) # 0 /\ DOMAIN Due(q) = 1 .. Len(Due(q))
    BY <2>1
  <2>4. ~(2 \in DOMAIN Due(q))
    <3> SUFFICES ASSUME 2 \in DOMAIN Due(q)
                 PROVE  FALSE
      OBVIOUS
    <3>1. 1 \in DOMAIN Due(q)
      BY <2>3
    <3>2. f[1] = 1 /\ f[2] = 1
      BY <1>1, <3>1
    <3> QED
      BY <2>2, <3>1, <3>2
  <2>5. Len(Due(q)) = 1
    BY <2>3, <2>4
  <2>6. Due(q)[1] = q[1]
    BY <1>1, <2>2, <2>3, <2>5
  <2>7. Due(q) = q
    BY <1>1, <2>1, <2>5, <2>6, SameList
  <2> QED
    BY <1>2, <2>7 DEF q
<1>3. CASE ~Registered(e.conn)
  <2>1. Due(q) \in Seq(Entry) /\ Due(q) = Keep(q, {})
    <3>1. {j \in DOMAIN q : \E i \in 1 .. j : Registered(q[i].conn)} = {}
      BY <1>1, <1>3
    <3> QED
      BY <1>1, <3>1, DueFacts DEF Due
  <2>2. KeptOf(q, {}, Keep(q, {}))
    <3>1. {} \in SUBSET (DOMAIN q)
      OBVIOUS
    <3> QED
      BY <1>1, <3>1, KeepFacts
  <2>4. Len(Due(q)) = 0
    BY <2>1, <2>2, FS_EmptySet DEF KeptOf
  <2>3. Due(q) = <<>>
    BY <2>1, <2>4
  <2> QED
    BY <1>3, <2>3 DEF q
<1> QED
  BY <1>2, <1>3

\* Nobody is due in an empty list.
LEMMA DueOfNone == Due(<<>>) = <<>>
<1>1. <<>> \in Seq(Entry)
  OBVIOUS
<1>2. Due(<<>>) \in Seq(Entry) /\ Part(Due(<<>>), <<>>)
  BY <1>1, DueFacts
<1>3. DOMAIN Due(<<>>) = {}
  BY <1>2 DEF Part
<1> QED
  BY <1>2, <1>3

-----------------------------------------------------------------------------
(* The steps of the connections.                                           *)

\* EntryBacked speaks of the queue, before a step and after it.
LEMMA BackedIsEntryBacked ==
  /\ EntryBacked <=> Backed(queue)
  /\ EntryBacked' <=> Backed(queue)'
  BY DEF EntryBacked, Backed, Known

\* No connection comes back.
Onward ==
    /\ status' \in [Conn -> Statuses]
    /\ \A d \in Conn :
          /\ status[d] = "closed" => status'[d] = "closed"
          /\ status[d] \notin {"new", "anonymous"} => status'[d] \notin {"new", "anonymous"}

\* The rooms and the hand-over are left alone.
Aside ==
    /\ rooms' = rooms /\ told' = told /\ pair' = pair /\ todo' = todo /\ late' = late
    /\ \/ loop' = loop
       \/ loop = "off" /\ loop' = "asleep"

\* A connection that is not being told of its match leaves the match alone.
LEMMA Elsewhere ==
  ASSUME IInv, Onward, Aside
  PROVE  Holds' /\ Match' /\ Halls' /\ Mutual'
<1>1. HandingOver' = HandingOver
  BY DEF HandingOver, Aside
<1>2. Holds'
  BY <1>1 DEF IInv, Holds, Aside
<1>3. \A d \in Conn, r \in Nat : Reached(d, r) => Reached(d, r)'
  BY DEF Reached, Onward, Aside
<1>4. HandingOver => Len(rooms) \in Nat /\ pair[1].conn \in Conn /\ pair[2].conn \in Conn
                     /\ todo[1].conn \in Conn
  <2> SUFFICES ASSUME HandingOver
               PROVE  Len(rooms) \in Nat /\ pair[1].conn \in Conn /\ pair[2].conn \in Conn
                      /\ todo[1].conn \in Conn
    OBVIOUS
  <2>1. Len(pair) = 2 /\ (todo = pair \/ todo = <<pair[2]>>) /\ pair \in Seq(Entry)
    BY DEF IInv, Match, Types
  <2>2. pair[1] \in Entry /\ pair[2] \in Entry
    BY <2>1, EntriesOf
  <2>3. todo[1] \in {pair[1], pair[2]}
    BY <2>1
  <2>4. Len(rooms) \in Nat
    BY DEF IInv, Types
  <2> QED
    BY <2>2, <2>3, <2>4 DEF Entry
<1>5. Match'
  <2> SUFFICES ASSUME HandingOver
               PROVE  Match'
    BY <1>1 DEF Match
  <2>1. Hall' = Hall
    BY DEF Hall, Aside
  <2>2. \A k \in {1, 2} : status'[pair[k].conn] \notin {"new", "anonymous"}
    BY <1>4 DEF IInv, Match, Onward
  <2>3. /\ Reached(pair[1].conn, Len(rooms)) => Reached(pair[1].conn, Len(rooms))'
        /\ Reached(todo[1].conn, Len(rooms)) => Reached(todo[1].conn, Len(rooms))'
    BY <1>3, <1>4 DEF Aside
  <2>4. loop' = loop
    BY DEF HandingOver, Aside
  <2> QED
    BY <2>1, <2>2, <2>3, <2>4 DEF IInv, Match, Aside
<1>6. Halls'
  BY <1>1 DEF IInv, Halls, Aside
<1>7. Mutual'
  BY <1>1, <1>3 DEF IInv, Mutual, Types, Message, Aside
<1> QED
  BY <1>2, <1>5, <1>6, <1>7

\* What a step of one connection may do to the lists.
LEMMA ListsKept ==
  ASSUME IInv, Onward, Aside,
         queue' \in Seq(Entry), Searching(queue)',
         \A e \in Entry : Unanswered(e, queue) => Unanswered(e, queue)'
  PROVE  Types' /\ Entries'
<1>1. Types'
  BY DEF IInv, Types, Onward, Aside
<1>2. /\ \A i \in DOMAIN todo : todo[i] \in Entry
      /\ \A i \in DOMAIN late : late[i] \in Entry
  BY EntriesOf DEF IInv, Types
<1>3. \A i \in DOMAIN todo : ~(i = 1 /\ loop = "announcing") => Unanswered(todo[i], queue)
  BY DEF IInv, Entries
<1>4. \A i \in DOMAIN late : Unanswered(late[i], queue)
  BY DEF IInv, Entries
<1>5. \A i \in DOMAIN todo : ~(i = 1 /\ loop = "announcing") => Unanswered(todo[i], queue)'
  BY <1>2, <1>3 DEF Aside
<1>6. \A i \in DOMAIN late : Unanswered(late[i], queue)'
  BY <1>2, <1>4 DEF Aside
<1>7. loop' = "announcing" <=> loop = "announcing"
  BY DEF Aside
<1>8. Distinct(late')
  BY DEF IInv, Entries, Aside
<1>9. \A i \in DOMAIN todo' : ~(i = 1 /\ loop' = "announcing") => Unanswered(todo[i], queue)'
  BY <1>5, <1>7 DEF Aside
<1>10. \A i \in DOMAIN late' : Unanswered(late[i], queue)'
  BY <1>6 DEF Aside
<1> QED
  BY <1>1, <1>8, <1>9, <1>10 DEF Entries, Distinct

\* What is left to show of a step that changes the queue only.
LEMMA QueueStep ==
  ASSUME IInv, Onward, Aside,
         queue' \in Seq(Entry), Backed(queue)', Searching(queue)',
         \A e \in Entry : Unanswered(e, queue) => Unanswered(e, queue)'
  PROVE  IInv'
<1>1. Holds' /\ Match' /\ Halls' /\ Mutual'
  BY Elsewhere
<1>2. Types' /\ Entries'
  BY ListsKept
<1>3. EntryBacked'
  BY BackedIsEntryBacked
<1> QED
  BY <1>1, <1>2, <1>3 DEF IInv

\* A connection opens.
LEMMA ConnectKeeps ==
  ASSUME IInv, NEW c \in Conn, Connect(c)
  PROVE  IInv'
<1>1. Onward
  BY DEF Connect, Onward, IInv, Types, Statuses
<1>2. \A d \in Conn \ {c} : status'[d] = status[d]
  BY DEF Connect, IInv, Types
<1>3. status[c] = "new" /\ queue' = queue /\ queue \in Seq(Entry)
  BY DEF Connect, IInv, Types
<1>4. \A i \in DOMAIN queue : queue[i].conn \in Conn \ {c}
  <2>1. \A i \in DOMAIN queue : queue[i] \in Entry
    BY <1>3, EntriesOf
  <2>2. Backed(queue)
    BY BackedIsEntryBacked DEF IInv
  <2> QED
    BY <1>3, <2>1, <2>2 DEF Backed, Known, LoggedIn, Stranded, Entry
<1>5. Backed(queue)'
  BY <1>2, <1>3, <1>4, BackedIsEntryBacked DEF IInv, Backed, Known, LoggedIn, Stranded
<1>6. Searching(queue)'
  BY <1>2, <1>3, <1>4 DEF IInv, Entries, Searching, Pending
<1>7. \A e \in Entry : Unanswered(e, queue) => Unanswered(e, queue)'
  BY <1>2, <1>3 DEF Unanswered, Entry
<1>8. Aside
  <2>1. \/ loop' = loop
        \/ loop = "off" /\ loop' = "asleep"
    BY DEF Connect
  <2> QED
    BY <2>1 DEF Connect, Aside
<1>9. queue' \in Seq(Entry)
  BY <1>3
<1> QED
  BY <1>1, <1>5, <1>6, <1>7, <1>8, <1>9, QueueStep

\* Who is in the queue is logged in, by the name of the entry.
LEMMA Queued ==
  ASSUME IInv
  PROVE  /\ queue \in Seq(Entry) /\ Backed(queue) /\ Searching(queue)
         /\ \A i \in DOMAIN queue :
               /\ queue[i] \in Entry /\ queue[i].conn \in Conn
               /\ Known(queue[i].conn) /\ Name[queue[i].conn] = queue[i].user
<1>1. queue \in Seq(Entry) /\ Backed(queue) /\ Searching(queue)
  BY BackedIsEntryBacked DEF IInv, Types, Entries
<1>2. \A i \in DOMAIN queue : queue[i] \in Entry
  BY <1>1, EntriesOf
<1> QED
  BY <1>1, <1>2 DEF Backed, Entry

\* Of the queue, everybody is left whose name is not the user's.
LEMMA CancelledFacts ==
  ASSUME NEW q \in Seq(Entry), NEW user
  PROVE  /\ Cancelled(q, user) \in Seq(Entry) /\ Part(Cancelled(q, user), q)
         /\ \A k \in DOMAIN Cancelled(q, user) :
               /\ Cancelled(q, user)[k].user # user
               /\ \E i \in DOMAIN q : Cancelled(q, user)[k] = q[i]
<1> DEFINE P == {i \in DOMAIN q : q[i].user # user}
<1>1. P \in SUBSET (DOMAIN q) /\ (\A i \in P : q[i].user # user) /\ Cancelled(q, user) = Keep(q, P)
  BY DEF Cancelled
<1> HIDE DEF P
<1>2. /\ Keep(q, P) \in Seq(Entry) /\ Part(Keep(q, P), q)
      /\ \A k \in DOMAIN Keep(q, P) : \E i \in P : Keep(q, P)[k] = q[i]
  BY <1>1, KeepPart
<1> QED
  BY <1>1, <1>2

\* A name is logged in.
LEMMA LoginKeeps ==
  ASSUME IInv, NEW c \in Conn, Login(c)
  PROVE  IInv'
<1>1. Onward /\ Aside
  BY DEF Login, Onward, Aside, IInv, Types, Statuses
<1>2. \A d \in Conn \ {c} : status'[d] = status[d]
  BY DEF Login, IInv, Types
<1>3. status[c] = "anonymous" /\ queue' = queue
  BY DEF Login
<1>4. \A i \in DOMAIN queue : queue[i].conn \in Conn \ {c}
  BY <1>3, Queued DEF Known, LoggedIn, Stranded
<1>5. queue' \in Seq(Entry) /\ Backed(queue)'
  BY <1>2, <1>3, <1>4, Queued DEF Backed, Known, LoggedIn, Stranded
<1>6. Searching(queue)'
  BY <1>2, <1>3, <1>4, Queued DEF Searching, Pending
<1>7. \A e \in Entry : Unanswered(e, queue) => Unanswered(e, queue)'
  BY <1>2, <1>3 DEF Unanswered, Entry
<1> QED
  BY <1>1, <1>5, <1>6, <1>7, QueueStep

\* The handler of a connection ends.
LEMMA ForgetKeeps ==
  ASSUME IInv, NEW c \in Conn, Forget(c)
  PROVE  IInv'
<1>1. Onward /\ Aside
  BY DEF Forget, Onward, Aside, IInv, Types, Statuses
<1>2. (\A d \in Conn \ {c} : status'[d] = status[d]) /\ status'[c] = "closed"
  BY DEF Forget, IInv, Types
<1>3. status[c] = "leaving" /\ queue' = queue
  BY DEF Forget
<1>4. \A i \in DOMAIN queue : queue[i].conn \in Conn \ {c}
  BY <1>3, Queued DEF Known, LoggedIn, Stranded
<1>5. queue' \in Seq(Entry) /\ Backed(queue)'
  BY <1>2, <1>3, <1>4, Queued DEF Backed, Known, LoggedIn, Stranded
<1>6. Searching(queue)'
  BY <1>2, <1>3, <1>4, Queued DEF Searching, Pending
<1>7. \A e \in Entry : Unanswered(e, queue) => Unanswered(e, queue)'
  BY <1>2, <1>3 DEF Unanswered, Entry
<1> QED
  BY <1>1, <1>5, <1>6, <1>7, QueueStep

\* cancel_match takes the entry out of the queue.
LEMMA CancelMatchKeeps ==
  ASSUME IInv, NEW c \in Conn, CancelMatch(c)
  PROVE  IInv'
<1>1. Onward /\ Aside
  BY DEF CancelMatch, Onward, Aside, IInv, Types, Statuses
<1>2. (\A d \in Conn \ {c} : status'[d] = status[d]) /\ status'[c] = "idle"
  BY DEF CancelMatch, IInv, Types
<1>3. c \in Cancels /\ queue' = Cancelled(queue, Name[c])
  BY DEF CancelMatch
<1>4. /\ queue' \in Seq(Entry) /\ Part(queue', queue)
      /\ \A k \in DOMAIN queue' : \E i \in DOMAIN queue : queue'[k] = queue[i]
  BY <1>3, Queued, CancelledFacts
<1>5. Backed(queue') /\ Searching(queue')
  BY <1>4, Queued, PartFacts
<1>6. \A k \in DOMAIN queue' : queue'[k].conn \in Conn
  BY <1>4, Queued
<1>7. Backed(queue)'
  BY <1>2, <1>5, <1>6 DEF Backed, Known, LoggedIn, Stranded
<1>8. Searching(queue)'
  BY <1>2, <1>3, <1>5, <1>6 DEF Searching, Pending
<1>9. ASSUME NEW e \in Entry, Unanswered(e, queue)
      PROVE  Unanswered(e, queue)'
  BY <1>2, <1>3, <1>4, <1>9 DEF Unanswered, Entry
<1> QED
  BY <1>1, <1>4, <1>7, <1>8, <1>9, QueueStep

\* find_match replaces the entry of the user, if there is one.
LEMMA FindMatchKeeps ==
  ASSUME IInv, NEW c \in Conn, FindMatch(c)
  PROVE  IInv'
<1> DEFINE l == Cancelled(queue, Name[c])
           new == [user |-> Name[c], conn |-> c, waited |-> 0]
<1>1. Onward /\ Aside
  BY DEF FindMatch, Onward, Aside, IInv, Types, Statuses
<1>2. (\A d \in Conn \ {c} : status'[d] = status[d]) /\ status'[c] = "searching"
  BY DEF FindMatch, IInv, Types
<1>3. status[c] = "idle" /\ queue' = Append(l, new)
  BY DEF FindMatch
<1>4. /\ l \in Seq(Entry) /\ Part(l, queue)
      /\ \A k \in DOMAIN l : l[k].user # Name[c] /\ \E i \in DOMAIN queue : l[k] = queue[i]
  BY Queued, CancelledFacts
<1>5. Backed(l) /\ Searching(l)
  BY <1>4, Queued, PartFacts
<1>6. new \in Entry /\ new.user = Name[c] /\ new.conn = c
  BY ConstantAssumption DEF Entry
<1> HIDE DEF l, new
<1>7. \A k \in DOMAIN l : l[k].conn \in Conn
  BY <1>4, Queued
<1>8. /\ queue' \in Seq(Entry) /\ Len(l) \in Nat
      /\ DOMAIN queue' = (DOMAIN l) \cup {Len(l) + 1} /\ Len(l) + 1 \notin DOMAIN l
      /\ queue'[Len(l) + 1] = new
      /\ \A k \in DOMAIN l : queue'[k] = l[k]
  BY <1>3, <1>4, <1>6
<1>9. ASSUME NEW i \in DOMAIN queue'
      PROVE  /\ Known(queue[i].conn)'
             /\ Name[queue'[i].conn] = queue'[i].user
             /\ \A j \in DOMAIN queue' : queue'[j].user = queue'[i].user => j = i
             /\ Pending(queue[i].conn)'
  <2>1. CASE i \in DOMAIN l
    <3>1. queue'[i] = l[i] /\ l[i].conn \in Conn /\ l[i].user # Name[c]
      BY <1>4, <1>7, <1>8, <2>1
    <3>2. Known(l[i].conn) /\ Name[l[i].conn] = l[i].user
      BY <1>5, <2>1 DEF Backed
    <3>3. Pending(l[i].conn)
      BY <1>5, <2>1 DEF Searching
    <3>4. ASSUME NEW j \in DOMAIN queue', queue'[j].user = queue'[i].user
          PROVE  j = i
      <4>1. j \in DOMAIN l
        BY <1>6, <1>8, <3>1, <3>4
      <4> QED
        BY <1>5, <1>8, <2>1, <3>1, <3>4, <4>1 DEF Backed
    <3>5. status'[l[i].conn] \in {"idle", "searching", "playing", "stranded"}
      BY <1>2, <3>1, <3>2 DEF Known, LoggedIn, Stranded
    <3>6. l[i].conn \notin Cancels => status'[l[i].conn] \in {"searching", "stranded"}
      BY <1>2, <3>1, <3>3 DEF Pending
    <3>7. Known(queue[i].conn)' /\ Name[queue'[i].conn] = queue'[i].user
      BY <3>1, <3>2, <3>5 DEF Known, LoggedIn, Stranded
    <3> QED
      BY <3>1, <3>4, <3>6, <3>7 DEF Pending
  <2>2. CASE i = Len(l) + 1
    <3>1. queue'[i] = new
      BY <1>8, <2>2
    <3>2. \A j \in DOMAIN queue' : queue'[j].user = queue'[i].user => j = i
      BY <1>4, <1>6, <1>8, <2>2, <3>1
    <3> QED
      BY <1>2, <1>6, <3>1, <3>2 DEF Known, LoggedIn, Stranded, Pending
  <2> QED
    BY <1>8, <2>1, <2>2
<1>10. Backed(queue)' /\ Searching(queue)'
  BY <1>9 DEF Backed, Searching, Pending
<1>11. ASSUME NEW e \in Entry, Unanswered(e, queue)
       PROVE  Unanswered(e, queue)'
  <2> SUFFICES ASSUME e.conn \notin Cancels
               PROVE  /\ status'[e.conn] \in {"searching", "leaving", "closed", "stranded"}
                      /\ \A j \in DOMAIN queue' : queue'[j].conn # e.conn
    BY DEF Unanswered
  <2>1. e.conn \in Conn /\ e.conn # c
    BY <1>3, <1>11 DEF Unanswered, Entry
  <2>2. \A j \in DOMAIN l : l[j].conn # e.conn
    BY <1>4, <1>11 DEF Unanswered
  <2>3. \A j \in DOMAIN queue' : queue'[j].conn # e.conn
    BY <1>6, <1>8, <2>1, <2>2
  <2> QED
    BY <1>2, <1>11, <2>1, <2>3 DEF Unanswered
<1> QED
  BY <1>1, <1>8, <1>10, <1>11, QueueStep

\* What cancel_by_identity leaves of the queue: nothing of the connection's.
LEMMA LeaveQueueFacts ==
  ASSUME IInv, NEW c \in Conn, Serves(c), LeaveQueue(c)
  PROVE  /\ queue' \in Seq(Entry) /\ Backed(queue') /\ Searching(queue')
         /\ \A k \in DOMAIN queue' : \E i \in DOMAIN queue : queue'[k] = queue[i]
         /\ \A k \in DOMAIN queue' : queue'[k].conn # c
<1>0. queue' = IF LoggedIn(c) THEN Cancelled(queue, Name[c]) ELSE queue
  BY DEF LeaveQueue
<1>1. CASE LoggedIn(c)
  <2>1. /\ queue' \in Seq(Entry) /\ Part(queue', queue)
        /\ \A k \in DOMAIN queue' :
              queue'[k].user # Name[c] /\ \E i \in DOMAIN queue : queue'[k] = queue[i]
    BY <1>0, <1>1, Queued, CancelledFacts
  <2>2. Backed(queue') /\ Searching(queue')
    BY <2>1, Queued, PartFacts
  <2>3. \A k \in DOMAIN queue' : queue'[k].conn # c
    BY <2>1, Queued
  <2> QED
    BY <2>1, <2>2, <2>3
<1>2. CASE ~LoggedIn(c)
  <2>1. queue' = queue
    BY <1>0, <1>2
  <2>2. \A k \in DOMAIN queue : queue[k].conn # c
    BY <1>2, Queued DEF Known, LoggedIn, Stranded, Serves
  <2> QED
    BY <2>1, <2>2, Queued
<1> QED
  BY <1>1, <1>2

\* A connection closes, and its entry goes.
LEMMA CloseKeeps ==
  ASSUME IInv, NEW c \in Conn, Close(c)
  PROVE  IInv'
<1>1. Onward /\ Aside
  BY DEF Close, Onward, Aside, IInv, Types, Statuses, Serves
<1>2. (\A d \in Conn \ {c} : status'[d] = status[d]) /\ status'[c] \in {"leaving", "closed"}
  BY DEF Close, IInv, Types
<1>4. /\ queue' \in Seq(Entry) /\ Backed(queue') /\ Searching(queue')
      /\ \A k \in DOMAIN queue' : \E i \in DOMAIN queue : queue'[k] = queue[i]
      /\ \A k \in DOMAIN queue' : queue'[k].conn # c
  BY LeaveQueueFacts DEF Close
<1>5. \A k \in DOMAIN queue' : queue'[k].conn \in Conn \ {c}
  BY <1>4, Queued
<1>6. Backed(queue)'
  BY <1>2, <1>4, <1>5 DEF Backed, Known, LoggedIn, Stranded
<1>7. Searching(queue)'
  BY <1>2, <1>4, <1>5 DEF Searching, Pending
<1>8. ASSUME NEW e \in Entry, Unanswered(e, queue)
      PROVE  Unanswered(e, queue)'
  BY <1>2, <1>4, <1>8 DEF Unanswered, Entry
<1> QED
  BY <1>1, <1>4, <1>6, <1>7, <1>8, QueueStep

\* A failed tear-down leaves the queue as it was, or without the connection.
LEMMA CloseFailsKeeps ==
  ASSUME IInv, NEW c \in Conn, CloseFails(c)
  PROVE  IInv'
<1>1. Onward /\ Aside
  BY DEF CloseFails, Onward, Aside, IInv, Types, Statuses, Serves
<1>2. (\A d \in Conn \ {c} : status'[d] = status[d]) /\ status'[c] = "stranded"
  BY DEF CloseFails, IInv, Types
<1>3. /\ queue' \in Seq(Entry) /\ Backed(queue') /\ Searching(queue')
      /\ \A k \in DOMAIN queue' : \E i \in DOMAIN queue : queue'[k] = queue[i]
  <2>1. CASE queue' = queue
    BY <2>1, Queued
  <2>2. CASE LeaveQueue(c)
    BY <2>2, LeaveQueueFacts DEF CloseFails
  <2> QED
    BY <2>1, <2>2 DEF CloseFails
<1>4. \A k \in DOMAIN queue' : queue'[k].conn \in Conn
  BY <1>3, Queued
<1>5. Backed(queue)'
  BY <1>2, <1>3, <1>4 DEF Backed, Known, LoggedIn, Stranded
<1>6. Searching(queue)'
  BY <1>2, <1>3, <1>4 DEF Searching, Pending
<1>7. ASSUME NEW e \in Entry, Unanswered(e, queue)
      PROVE  Unanswered(e, queue)'
  BY <1>2, <1>3, <1>7 DEF Unanswered, Entry
<1> QED
  BY <1>1, <1>3, <1>5, <1>6, <1>7, QueueStep

-----------------------------------------------------------------------------
(* The loop: searches that are over.                                       *)

\* An answer ends a search, and nothing else.
LEMMA AnsweredFacts ==
  ASSUME IInv, NEW c \in Conn, NEW next \in {"idle", "playing"}, status' = Answered(c, next)
  PROVE  /\ Onward
         /\ \A d \in Conn \ {c} : status'[d] = status[d]
         /\ status'[c] \in {status[c], next}
         /\ \A d \in Conn : status[d] \in {"idle", "searching", "playing", "stranded"} =>
                             status'[d] \in {"idle", "searching", "playing", "stranded"}
<1>1. status \in [Conn -> Statuses]
  BY DEF IInv, Types
<1>2. /\ \A d \in Conn \ {c} : status'[d] = status[d]
      /\ status'[c] = IF status[c] = "searching" THEN next ELSE status[c]
      /\ status' \in [Conn -> Statuses]
  BY <1>1 DEF Answered, Statuses
<1> QED
  BY <1>2 DEF Onward

\* The loop has swept the queue, and told somebody or fallen asleep.
Swept ==
    /\ Onward
    /\ queue' \in Seq(Entry) /\ late' \in Seq(Entry)
    /\ \/ loop' = "asleep" /\ late' = <<>>
       \/ loop' = "sweeping"
    /\ Backed(queue)' /\ Searching(queue)'
    /\ \A i \in DOMAIN late' : Unanswered(late[i], queue)'
    /\ Distinct(late')

\* The swept entries that are left are of searches that are not over.
LEMMA TellTimeoutFacts ==
  ASSUME IInv, NEW l \in Seq(Entry), TellTimeout(l), Distinct(l),
         queue' \in Seq(Entry), Backed(queue'), Searching(queue'),
         \A i \in DOMAIN l : Unanswered(l[i], queue')
  PROVE  Swept
<1> DEFINE due == Due(l)
<1>1. due \in Seq(Entry) /\ Part(due, l)
  BY DueFacts
<1>2. Distinct(due) /\ \A k \in DOMAIN due : \E i \in DOMAIN l : due[k] = l[i]
  BY <1>1, PartFacts
<1>3. \A i \in DOMAIN queue' : queue'[i] \in Entry
  BY EntriesOf
<1>4. CASE due = <<>>
  <2>1. late' = <<>> /\ loop' = "asleep" /\ status' = status
    BY <1>4 DEF TellTimeout
  <2>2. Onward
    BY <2>1 DEF Onward, IInv, Types
  <2>3. Backed(queue)' /\ Searching(queue)'
    BY <2>1 DEF Backed, Known, LoggedIn, Stranded, Searching, Pending
  <2>4. late' \in Seq(Entry) /\ DOMAIN late' = {}
    BY <2>1
  <2> QED
    BY <2>1, <2>2, <2>3, <2>4 DEF Swept, Distinct
<1>5. CASE due # <<>>
  <2> DEFINE d == due[1].conn
  <2>1. late' = Tail(due) /\ loop' = "sweeping" /\ status' = Answered(d, "idle")
    BY <1>5 DEF TellTimeout
  <2>2. 1 \in DOMAIN due /\ due[1] \in Entry
    BY <1>1, <1>5, EntriesOf
  <2> HIDE DEF due
  <2>3. d \in Conn
    BY <2>2 DEF Entry
  <2>4. PICK i \in DOMAIN l : due[1] = l[i]
    BY <1>2, <2>2
  <2>5. d \notin Cancels => \A j \in DOMAIN queue' : queue'[j].conn # d
    BY <2>4 DEF Unanswered
  <2>6. /\ late' \in Seq(Entry) /\ Distinct(late')
        /\ \A k \in DOMAIN late' : late'[k].conn # d /\ \E j \in DOMAIN due : late'[k] = due[j]
    BY <1>1, <1>2, <1>5, <2>1, TailPart, TailDistinct
  <2> HIDE DEF d
  <2>7. /\ Onward
        /\ \A c \in Conn \ {d} : status'[c] = status[c]
        /\ \A c \in Conn : status[c] \in {"idle", "searching", "playing", "stranded"} =>
                            status'[c] \in {"idle", "searching", "playing", "stranded"}
    BY <2>1, <2>3, AnsweredFacts
  <2>8. Backed(queue)'
    <3>1. \A j \in DOMAIN queue' : status[queue'[j].conn] \in {"idle", "searching", "playing", "stranded"}
      BY DEF Backed, Known, LoggedIn, Stranded
    <3>2. \A j \in DOMAIN queue' : status'[queue'[j].conn] \in {"idle", "searching", "playing", "stranded"}
      BY <1>3, <2>7, <3>1 DEF Entry
    <3> QED
      BY <3>2 DEF Backed, Known, LoggedIn, Stranded
  <2>9. Searching(queue)'
    BY <1>3, <2>5, <2>7 DEF Searching, Pending, Entry
  <2>10. ASSUME NEW k \in DOMAIN late'
         PROVE  Unanswered(late[k], queue)'
    <3>1. PICK j \in DOMAIN due : late'[k] = due[j]
      BY <2>6
    <3>2. PICK m \in DOMAIN l : late'[k] = l[m]
      BY <1>2, <3>1
    <3>3. late'[k].conn \in Conn \ {d}
      <4>1. late'[k] \in Entry
        BY <2>6, EntriesOf
      <4> QED
        BY <2>6, <4>1 DEF Entry
    <3> QED
      BY <2>7, <3>2, <3>3 DEF Unanswered
  <2> QED
    BY <2>1, <2>6, <2>7, <2>8, <2>9, <2>10 DEF Swept
<1> QED
  BY <1>4, <1>5

\* Nobody who stays in the queue is told that the search is over.
LEMMA SweepFacts ==
  ASSUME IInv, NEW q \in Seq(Entry), Backed(q), Searching(q), Sweep(q)
  PROVE  Swept
<1> DEFINE In == {i \in DOMAIN q : ~TimedOut(q[i])}
           Out == {i \in DOMAIN q : TimedOut(q[i])}
           l == Keep(q, Out)
<1>1. queue' = Keep(q, In) /\ TellTimeout(l)
  BY DEF Sweep
<1>2. In \in SUBSET (DOMAIN q) /\ Out \in SUBSET (DOMAIN q) /\ In \cap Out = {}
  OBVIOUS
<1> HIDE DEF In, Out
<1>3. /\ queue' \in Seq(Entry) /\ Part(queue', q)
      /\ \A k \in DOMAIN queue' : \E i \in In : queue'[k] = q[i]
  BY <1>1, <1>2, KeepPart
<1>4. /\ l \in Seq(Entry) /\ Part(l, q)
      /\ \A k \in DOMAIN l : \E i \in Out : l[k] = q[i]
  BY <1>2, KeepPart
<1> HIDE DEF l
<1>5. Distinct(q)
  BY BackedDistinct
<1>6. Backed(queue') /\ Searching(queue') /\ Distinct(l)
  BY <1>3, <1>4, <1>5, PartFacts
<1>7. ASSUME NEW k \in DOMAIN l
      PROVE  Unanswered(l[k], queue')
  <2>1. PICK i \in Out : l[k] = q[i]
    BY <1>4
  <2>2. \A j \in DOMAIN queue' : queue'[j].conn # l[k].conn
    <3> SUFFICES ASSUME NEW j \in DOMAIN queue', queue'[j].conn = l[k].conn
                 PROVE  FALSE
      OBVIOUS
    <3>1. PICK m \in In : queue'[j] = q[m]
      BY <1>3
    <3>2. m = i
      BY <1>2, <1>5, <2>1, <3>1 DEF Distinct
    <3> QED
      BY <1>2, <3>2
  <2> QED
    BY <1>2, <2>1, <2>2 DEF Unanswered, Searching, Pending
<1> QED
  BY <1>1, <1>3, <1>4, <1>6, <1>7, TellTimeoutFacts

\* No match is being handed over any more; whoever was told of the last one has
\* an opponent who was reached.
LEMMA SweptKeeps ==
  ASSUME IInv, Swept, loop # "dead",
         pair' = <<>>, todo' = <<>>, told' = told, rooms' = rooms,
         \A m \in told : HandingOver /\ m.room = Len(rooms) =>
                            \E d \in Conn : Name[d] = m.opponent /\ Reached(d, m.room)
  PROVE  IInv'
<1>1. ~HandingOver'
  BY DEF Swept, HandingOver
<1>2. Types'
  <2>1. <<>> \in Seq(Entry)
    OBVIOUS
  <2> QED
    BY <2>1 DEF IInv, Types, Swept, Onward
<1>3. Holds'
  BY <1>1 DEF Holds, Swept
<1>4. EntryBacked'
  BY BackedIsEntryBacked DEF Swept
<1>5. Match'
  BY <1>1 DEF Match
<1>6. Halls'
  BY <1>1 DEF IInv, Halls
<1>7. \A d \in Conn, r \in Nat : Reached(d, r) => Reached(d, r)'
  BY DEF Swept, Onward, Reached
<1>8. Mutual'
  <2>1. \A m \in told : m.room \in Nat
    BY DEF IInv, Types, Message
  <2>2. \A m \in told : \E d \in Conn : Name[d] = m.opponent /\ Reached(d, m.room)
    BY DEF IInv, Mutual
  <2>3. \A m \in told' : \E d \in Conn : Name[d] = m.opponent /\ Reached(d, m.room)'
    BY <1>7, <2>1, <2>2
  <2> QED
    BY <2>3 DEF Mutual
<1>9. Entries'
  <2>1. DOMAIN todo' = {}
    OBVIOUS
  <2> QED
    BY <2>1 DEF Swept, Entries, Distinct
<1> QED
  BY <1>2, <1>3, <1>4, <1>5, <1>6, <1>8, <1>9 DEF IInv

\* The next of the swept entries is told.
LEMMA NotifyKeeps ==
  ASSUME IInv, Notify
  PROVE  IInv'
<1>1. /\ loop = "sweeping" /\ TellTimeout(late)
      /\ queue' = queue /\ rooms' = rooms /\ told' = told /\ pair' = pair /\ todo' = todo
  BY DEF Notify
<1>2. ~HandingOver /\ pair = <<>> /\ todo = <<>>
  BY <1>1 DEF IInv, Holds, HandingOver
<1>3. /\ late \in Seq(Entry) /\ Distinct(late)
      /\ \A i \in DOMAIN late : Unanswered(late[i], queue')
  BY <1>1 DEF IInv, Types, Entries
<1>4. queue' \in Seq(Entry) /\ Backed(queue') /\ Searching(queue')
  BY <1>1, Queued
<1>5. Swept
  BY <1>1, <1>3, <1>4, TellTimeoutFacts
<1> QED
  BY <1>1, <1>2, <1>5, SweptKeeps

-----------------------------------------------------------------------------
(* The loop: a match is made and handed over.                              *)

\* An exception ends the loop, and with it the match under way.
LEMMA RedisFailsKeeps ==
  ASSUME IInv, loop # "sweeping", NEW q \in Seq(Entry), Backed(q), Searching(q),
         RedisFails(q), told' = told
  PROVE  IInv'
<1>1. /\ loop' = "dead" /\ queue' = q /\ pair' = <<>> /\ todo' = <<>>
      /\ rooms' = rooms /\ late' = late /\ status' = status
  BY DEF RedisFails
<1>2. late = <<>> /\ <<>> \in Seq(Entry)
  BY DEF IInv, Holds
<1>3. ~HandingOver'
  BY <1>1 DEF HandingOver
<1>4. Types' /\ Holds'
  BY <1>1, <1>2 DEF IInv, Types, Holds
<1>5. EntryBacked' /\ Searching(queue)'
  BY <1>1, BackedIsEntryBacked DEF Backed, Known, LoggedIn, Stranded, Searching, Pending
<1>6. Match' /\ Mutual'
  BY <1>1, <1>3 DEF Match, Mutual
<1>7. Halls'
  BY <1>1, <1>3 DEF IInv, Halls
<1>8. Entries'
  <2>1. DOMAIN todo' = {} /\ DOMAIN late' = {}
    BY <1>1, <1>2
  <2> QED
    BY <1>5, <2>1 DEF Entries, Distinct
<1> QED
  BY <1>4, <1>5, <1>6, <1>7, <1>8 DEF IInv

\* The entries get older and nothing else.
LEMMA AgedFacts ==
  ASSUME IInv, NEW lag \in 0 .. MaxLag,
         NEW q, q = [i \in DOMAIN queue |-> [queue[i] EXCEPT !.waited = @ + 1 + lag]]
  PROVE  q \in Seq(Entry) /\ Backed(q) /\ Searching(q)
<1>1. MaxLag \in Nat /\ lag \in Nat
  BY ConstantAssumption
<1>2. /\ Len(queue) \in Nat /\ DOMAIN queue = 1 .. Len(queue)
      /\ \A i \in DOMAIN queue : queue[i] \in Entry
  BY Queued, EntriesOf
<1>3. ASSUME NEW i \in DOMAIN queue
      PROVE  q[i] \in Entry /\ q[i].conn = queue[i].conn /\ q[i].user = queue[i].user
  BY <1>1, <1>2 DEF Entry
<1>4. q \in Seq(Entry) /\ DOMAIN q = DOMAIN queue
  BY <1>2, <1>3
<1> QED
  BY <1>3, <1>4, Queued DEF Backed, Searching, Pending

\* The queue without the two who are matched knows nothing of them.
LEMMA UnmatchedFacts ==
  ASSUME NEW q \in Seq(Entry), Backed(q), Searching(q), NEW p,
         p[1] \in DOMAIN q, p[2] \in DOMAIN q
  PROVE  /\ Unmatched(q, p) \in Seq(Entry) /\ Backed(Unmatched(q, p)) /\ Searching(Unmatched(q, p))
         /\ \A k \in DOMAIN Unmatched(q, p) :
               Unmatched(q, p)[k].conn \notin {q[p[1]].conn, q[p[2]].conn}
<1> DEFINE P == DOMAIN q \ {p[1], p[2]}
           l == Keep(q, P)
<1>1. /\ l \in Seq(Entry) /\ Part(l, q)
      /\ \A k \in DOMAIN l : \E i \in P : l[k] = q[i]
  <2>1. P \in SUBSET (DOMAIN q)
    OBVIOUS
  <2> HIDE DEF P
  <2> QED
    BY <2>1, KeepPart
<1>2. Distinct(q)
  BY BackedDistinct
<1>3. \A i \in P : q[i].conn \notin {q[p[1]].conn, q[p[2]].conn}
  BY <1>2 DEF Distinct
<1> HIDE DEF l, P
<1>4. Backed(l) /\ Searching(l)
  BY <1>1, PartFacts
<1>5. \A k \in DOMAIN l : l[k].conn \notin {q[p[1]].conn, q[p[2]].conn}
  BY <1>1, <1>3
<1>6. Unmatched(q, p) = l
  BY DEF Unmatched, l, P
<1> QED
  BY <1>1, <1>4, <1>5, <1>6

\* A list with one more entry, position by position.
LEMMA AppendTo ==
  \A S : \A l \in Seq(S), x \in S :
     /\ Append(l, x) \in Seq(S) /\ Append(l, x) # <<>>
     /\ Len(l) \in Nat /\ Len(Append(l, x)) = Len(l) + 1
     /\ DOMAIN Append(l, x) = (DOMAIN l) \cup {Len(l) + 1} /\ Len(l) + 1 \notin DOMAIN l
     /\ Append(l, x)[Len(l) + 1] = x
     /\ \A k \in DOMAIN l : Append(l, x)[k] = l[k]
  OBVIOUS

\* A list of two, written out or appended to.
LEMMA ListOfTwo ==
  ASSUME NEW S, NEW x \in S, NEW y \in S
  PROVE  /\ <<x, y>> \in Seq(S) /\ Len(<<x, y>>) = 2 /\ DOMAIN <<x, y>> = {1, 2}
         /\ <<x, y>>[1] = x /\ <<x, y>>[2] = y
         /\ Append(<<x>>, y) = <<x, y>>
<1>1. <<x>> \in Seq(S) /\ Len(<<x>>) = 1 /\ DOMAIN <<x>> = {1} /\ <<x>>[1] = x
  OBVIOUS
<1>2. <<x, y>> \in Seq(S) /\ Len(<<x, y>>) = 2 /\ <<x, y>>[1] = x /\ <<x, y>>[2] = y
  OBVIOUS
<1> DEFINE l == <<x>>
           r == <<x, y>>
           m == Append(l, y)
<1> HIDE DEF l, r
<1>3. m \in Seq(S) /\ Len(m) = 2 /\ m[1] = x /\ m[2] = y
  <2>1. l \in Seq(S) /\ Len(l) = 1 /\ l[1] = x
    BY <1>1 DEF l
  <2> QED
    BY <2>1, AppendTo
<1> HIDE DEF m
<1>4. r \in Seq(S) /\ Len(r) = 2 /\ r[1] = x /\ r[2] = y
  BY <1>2 DEF r
<1>5. \A k \in 1 .. Len(m) : m[k] = r[k]
  BY <1>3, <1>4
<1>6. m = r
  BY <1>3, <1>4, <1>5, SameList
<1>7. DOMAIN r = {1, 2}
  BY <1>4
<1> QED
  BY <1>2, <1>6, <1>7 DEF m, l, r

\* The rest of a list of two.
LEMMA TailOfTwo ==
  ASSUME NEW S, NEW q \in Seq(S), Len(q) = 2
  PROVE  Tail(q) = <<q[2]>>
<1> DEFINE t == Tail(q)
           r == <<q[2]>>
<1>1. q[2] \in S
  <2>1. 2 \in DOMAIN q
    OBVIOUS
  <2> QED
    BY <2>1, EntriesOf
<1>2. t \in Seq(S) /\ Len(t) = 1 /\ t[1] = q[2]
  <2>1. q # <<>>
    OBVIOUS
  <2>2. Tail(q) \in Seq(S)
    BY <2>1
  <2>3. Len(Tail(q)) = 1
    BY <2>1
  <2>4. Tail(q)[1] = q[2]
    BY <2>1
  <2> QED
    BY <2>2, <2>3, <2>4
<1>3. r \in Seq(S) /\ Len(r) = 1 /\ r[1] = q[2]
  BY <1>1
<1> HIDE DEF t, r
<1>4. \A k \in 1 .. Len(t) : t[k] = r[k]
  BY <1>2, <1>3
<1>5. t = r
  BY <1>2, <1>3, <1>4, SameList
<1> QED
  BY <1>5 DEF t, r

\* A room with nobody in it gets its first player.
LEMMA FirstSeat ==
  \A halls \in Seq(Seq(Player)), seat \in Player :
     [Append(halls, <<>>) EXCEPT ![Len(Append(halls, <<>>))] = Append(@, seat)]
     = Append(halls, <<seat>>)
<1> SUFFICES ASSUME NEW halls \in Seq(Seq(Player)), NEW seat \in Player
             PROVE  [Append(halls, <<>>) EXCEPT ![Len(Append(halls, <<>>))] = Append(@, seat)]
                    = Append(halls, <<seat>>)
  OBVIOUS
<1> DEFINE l == Append(halls, <<>>)
           m == [l EXCEPT ![Len(l)] = Append(@, seat)]
           r == Append(halls, <<seat>>)
<1>1. <<>> \in Seq(Player) /\ <<seat>> \in Seq(Player) /\ Append(<<>>, seat) = <<seat>>
  OBVIOUS
<1>2. /\ l \in Seq(Seq(Player)) /\ Len(l) = Len(halls) + 1 /\ Len(halls) \in Nat
      /\ l[Len(l)] = <<>> /\ \A k \in 1 .. Len(halls) : l[k] = halls[k]
  BY <1>1
<1>3. /\ r \in Seq(Seq(Player)) /\ Len(r) = Len(halls) + 1
      /\ r[Len(halls) + 1] = <<seat>> /\ \A k \in 1 .. Len(halls) : r[k] = halls[k]
  BY <1>1
<1> HIDE DEF l, r
<1>4. /\ m \in Seq(Seq(Player)) /\ Len(m) = Len(l)
      /\ m[Len(l)] = <<seat>> /\ \A k \in 1 .. Len(halls) : m[k] = halls[k]
  BY <1>1, <1>2
<1> HIDE DEF m
<1>5. ASSUME NEW k \in 1 .. Len(m)
      PROVE  m[k] = r[k]
  <2>1. k \in 1 .. Len(halls) \/ k = Len(halls) + 1
    BY <1>2, <1>4
  <2>2. k \in 1 .. Len(halls) => m[k] = r[k]
    BY <1>3, <1>4
  <2>3. m[Len(halls) + 1] = <<seat>>
    BY <1>2, <1>4
  <2> QED
    BY <1>3, <2>1, <2>2, <2>3
<1>6. m = r
  BY <1>2, <1>3, <1>4, <1>5, SameList
<1> QED
  BY <1>6 DEF m, l, r

\* A match leaves the queue and gets its room.
LEMMA MatchMadeKeeps ==
  ASSUME IInv, loop = "asleep", NEW q \in Seq(Entry), Backed(q), Searching(q), NEW p,
         p[1] \in DOMAIN q, p[2] \in DOMAIN q, p[1] < p[2], told' = told,
         HandOver(<<q[p[1]], q[p[2]]>>, <<q[p[1]], q[p[2]]>>, Append(rooms, <<>>), Unmatched(q, p))
  PROVE  IInv'
<1> DEFINE a == q[p[1]]
           b == q[p[2]]
           match == <<a, b>>
           rest == Unmatched(q, p)
<1>1. a \in Entry /\ b \in Entry
  BY EntriesOf
<1>2. /\ a.user # b.user /\ Known(a.conn) /\ Known(b.conn)
      /\ Name[a.conn] = a.user /\ Name[b.conn] = b.user
      /\ Pending(a.conn)
      /\ Pending(b.conn)
  <2>1. p[1] # p[2]
    <3>1. p[1] \in Int /\ p[2] \in Int
      BY EntriesOf
    <3> QED
      BY <3>1
  <2> QED
    BY <2>1 DEF Backed, Searching, Pending
<1>3. /\ rest \in Seq(Entry) /\ Backed(rest) /\ Searching(rest)
      /\ \A k \in DOMAIN rest : rest[k].conn \notin {a.conn, b.conn}
  BY UnmatchedFacts
<1>4. HandOver(match, match, Append(rooms, <<>>), rest)
  OBVIOUS
<1> HIDE DEF a, b, rest
<1>5. match \in Seq(Entry) /\ Len(match) = 2 /\ match[1] = a /\ match[2] = b /\ match # <<>>
  BY <1>1
<1> HIDE DEF match
<1>6. Due(match) = match
  <2>1. Registered(match[1].conn)
    BY <1>2, <1>5 DEF Registered, Known, LoggedIn, Stranded
  <2> QED
    BY <1>5, <2>1, DueOfTwo
<1>7. /\ rooms' = [Append(rooms, <<>>) EXCEPT ![Len(Append(rooms, <<>>))] = Append(@, Seat(a))]
      /\ pair' = match /\ todo' = match /\ loop' = "joining" /\ queue' = rest
      /\ late' = late /\ status' = status
  BY <1>4, <1>5, <1>6 DEF HandOver, Seat
<1>8. Seat(a) \in Player /\ rooms \in Seq(Seq(Player)) /\ <<Seat(a)>> \in Seq(Player)
  <2>1. Seat(a) \in Player
    BY <1>1 DEF Seat, Player, Entry
  <2> QED
    BY <2>1 DEF IInv, Types
<1>9. rooms' = Append(rooms, <<Seat(a)>>)
  BY <1>7, <1>8, FirstSeat
<1>10. /\ rooms' \in Seq(Seq(Player)) /\ Len(rooms') = Len(rooms) + 1 /\ Len(rooms) \in Nat
       /\ rooms'[Len(rooms')] = <<Seat(a)>> /\ rooms' # <<>>
       /\ DOMAIN rooms' = (DOMAIN rooms) \cup {Len(rooms')} /\ Len(rooms') \notin DOMAIN rooms
       /\ \A r \in DOMAIN rooms : rooms'[r] = rooms[r]
  BY <1>8, <1>9, AppendTo
<1>11. late = <<>> /\ ~HandingOver /\ HandingOver'
  BY <1>7 DEF IInv, Holds, HandingOver
<1>12. Types'
  BY <1>3, <1>5, <1>7, <1>10 DEF IInv, Types
<1>13. Holds'
  BY <1>7, <1>11 DEF Holds
<1>14. EntryBacked'
  BY <1>3, <1>7, BackedIsEntryBacked DEF Backed, Known, LoggedIn, Stranded
<1>15. Match'
  <2>1. Hall' = <<Seat(a)>>
    BY <1>10 DEF Hall
  <2>2. /\ Len(pair') = 2 /\ pair'[1] = a /\ pair'[2] = b /\ todo' = pair' /\ loop' # "announcing"
    BY <1>5, <1>7
  <2>3. \A k \in {1, 2} : /\ Name[pair'[k].conn] = pair'[k].user
                           /\ status'[pair'[k].conn] \notin {"new", "anonymous"}
    BY <1>2, <1>7, <2>2 DEF Known, LoggedIn, Stranded
  <2> QED
    BY <1>2, <1>10, <2>1, <2>2, <2>3 DEF Match, Seat
<1>16. Halls'
  <2>1. \A m \in told : m.room \in DOMAIN rooms /\ m.room # Len(rooms')
    BY <1>10 DEF IInv, Halls
  <2>2. Len(<<Seat(a)>>) = 1
    OBVIOUS
  <2>3. \A r \in DOMAIN rooms' : /\ Len(rooms'[r]) <= 2
                                 /\ Len(rooms'[r]) = 2 => rooms'[r][1].user # rooms'[r][2].user
    <3> SUFFICES ASSUME NEW r \in DOMAIN rooms'
                 PROVE  /\ Len(rooms'[r]) <= 2
                        /\ Len(rooms'[r]) = 2 => rooms'[r][1].user # rooms'[r][2].user
      OBVIOUS
    <3>1. CASE r \in DOMAIN rooms
      <4>1. rooms'[r] = rooms[r]
        BY <1>10, <3>1
      <4> QED
        BY <3>1, <4>1 DEF IInv, Halls
    <3>2. CASE r = Len(rooms')
      <4>1. Len(rooms'[r]) = 1
        BY <1>10, <2>2, <3>2
      <4> QED
        BY <4>1
    <3> QED
      BY <1>10, <3>1, <3>2
  <2>4. ASSUME NEW m \in told
        PROVE  /\ m.room \in DOMAIN rooms' /\ m.opponent # Name[m.conn]
               /\ \E i \in DOMAIN rooms'[m.room] : rooms'[m.room][i].conn = m.conn
               /\ \A i \in DOMAIN rooms'[m.room] :
                     rooms'[m.room][i].user \in {Name[m.conn], m.opponent}
               /\ m.room # Len(rooms')
    <3>1. m.room \in DOMAIN rooms /\ m.room \in DOMAIN rooms' /\ rooms'[m.room] = rooms[m.room]
      BY <1>10, <2>1
    <3> QED
      BY <2>1, <3>1 DEF IInv, Halls
  <2> QED
    BY <2>3, <2>4 DEF Halls
<1>17. Mutual'
  <2>1. \A m \in told : \E d \in Conn : Name[d] = m.opponent /\ Reached(d, m.room)
    BY <1>11 DEF IInv, Mutual
  <2> QED
    BY <1>7, <2>1 DEF Mutual, Reached
<1>18. Entries'
  <2>1. Searching(queue)'
    BY <1>3, <1>7 DEF Searching, Pending
  <2>2. \A e \in {a, b} : Unanswered(e, queue)'
    BY <1>2, <1>3, <1>7 DEF Unanswered, Pending
  <2>3. DOMAIN todo' = {1, 2} /\ todo'[1] = a /\ todo'[2] = b /\ DOMAIN late' = {}
    BY <1>5, <1>7, <1>11
  <2>4. \A i \in DOMAIN todo' : Unanswered(todo[i], queue)'
    <3>1. \A i \in DOMAIN todo' : todo'[i] \in {a, b}
      BY <2>3
    <3> QED
      BY <2>2, <3>1 DEF Unanswered
  <2> QED
    BY <2>1, <2>3, <2>4 DEF Entries, Distinct
<1> QED
  BY <1>12, <1>13, <1>14, <1>15, <1>16, <1>17, <1>18 DEF IInv

\* One iteration of the loop: a match, or the sweep.
LEMMA WakeKeeps ==
  ASSUME IInv, Wake
  PROVE  IInv'
<1>1. loop = "asleep" /\ told' = told
  BY DEF Wake
<1>2. PICK lag \in 0 .. MaxLag :
        LET aged == [i \in DOMAIN queue |-> [queue[i] EXCEPT !.waited = @ + 1 + lag]]
            p == FirstPair(aged)
            match == <<aged[p[1]], aged[p[2]]>>
        IN  IF Pairs(aged) = {}
            THEN Sweep(aged) /\ UNCHANGED <<rooms, pair, todo>>
            ELSE \/ HandOver(match, match, Append(rooms, <<>>), Unmatched(aged, p))
                 \/ RedisFails(Unmatched(aged, p))
  BY DEF Wake
<1> DEFINE aged == [i \in DOMAIN queue |-> [queue[i] EXCEPT !.waited = @ + 1 + lag]]
           p == FirstPair(aged)
<1>3. /\ Pairs(aged) = {} => Sweep(aged) /\ UNCHANGED <<rooms, pair, todo>>
      /\ Pairs(aged) # {} =>
            \/ HandOver(<<aged[p[1]], aged[p[2]]>>, <<aged[p[1]], aged[p[2]]>>,
                        Append(rooms, <<>>), Unmatched(aged, p))
            \/ RedisFails(Unmatched(aged, p))
  BY <1>2
<1>4. aged \in Seq(Entry) /\ Backed(aged) /\ Searching(aged)
  <2>1. aged = [i \in DOMAIN queue |-> [queue[i] EXCEPT !.waited = @ + 1 + lag]]
    OBVIOUS
  <2> HIDE DEF aged
  <2> QED
    BY <2>1, AgedFacts
<1> HIDE DEF aged
<1>5. CASE Pairs(aged) = {}
  <2>1. Swept
    BY <1>3, <1>4, <1>5, SweepFacts
  <2>2. ~HandingOver /\ pair' = <<>> /\ todo' = <<>> /\ rooms' = rooms
    BY <1>1, <1>3, <1>5 DEF IInv, Holds, HandingOver
  <2> QED
    BY <1>1, <2>1, <2>2, SweptKeeps
<1>6. CASE Pairs(aged) # {}
  <2>1. p[1] \in DOMAIN aged /\ p[2] \in DOMAIN aged /\ p[1] < p[2]
    BY <1>4, <1>6, FirstPairFacts
  <2> HIDE DEF p
  <2>2. ASSUME HandOver(<<aged[p[1]], aged[p[2]]>>, <<aged[p[1]], aged[p[2]]>>,
                        Append(rooms, <<>>), Unmatched(aged, p))
        PROVE  IInv'
    BY <1>1, <1>4, <2>1, <2>2, MatchMadeKeeps
  <2>3. ASSUME RedisFails(Unmatched(aged, p))
        PROVE  IInv'
    <3>1. /\ Unmatched(aged, p) \in Seq(Entry) /\ Backed(Unmatched(aged, p))
          /\ Searching(Unmatched(aged, p))
      BY <1>4, <2>1, UnmatchedFacts
    <3> QED
      BY <1>1, <2>3, <3>1, RedisFailsKeeps
  <2> QED
    BY <1>3, <1>6, <2>2, <2>3
<1> QED
  BY <1>5, <1>6

\* What is known while a match is handed over.
LEMMA HandingFacts ==
  ASSUME IInv, HandingOver
  PROVE  /\ pair[1] \in Entry /\ pair[2] \in Entry
         /\ pair[1].conn # pair[2].conn /\ pair[1] # pair[2]
         /\ Len(rooms) \in Nat /\ Len(rooms) \in DOMAIN rooms /\ Hall \in Seq(Player)
         /\ late = <<>>
         /\ \/ todo = pair /\ todo[1] = pair[1] /\ todo[2] = pair[2] /\ DOMAIN todo = {1, 2}
               /\ Hall = <<Seat(pair[1])>>
            \/ todo = <<pair[2]>> /\ todo[1] = pair[2] /\ DOMAIN todo = {1}
               /\ Hall \in {<<Seat(pair[2])>>, <<Seat(pair[1]), Seat(pair[2])>>}
               /\ Reached(pair[1].conn, Len(rooms))
<1>1. pair \in Seq(Entry) /\ Len(pair) = 2 /\ pair[1].user # pair[2].user
  BY DEF IInv, Types, Match
<1>2. pair[1] \in Entry /\ pair[2] \in Entry /\ DOMAIN pair = {1, 2}
  BY <1>1, EntriesOf
<1>3. pair[1].conn # pair[2].conn
  <2>1. \A k \in {1, 2} : Name[pair[k].conn] = pair[k].user
    BY DEF IInv, Match
  <2> QED
    BY <1>1, <2>1
<1>4. rooms \in Seq(Seq(Player)) /\ rooms # <<>>
  BY DEF IInv, Types, Match
<1>5. Len(rooms) \in Nat /\ Len(rooms) \in DOMAIN rooms
  BY <1>4
<1>6. Hall \in Seq(Player)
  BY <1>4, <1>5, EntriesOf DEF Hall
<1>7. late = <<>>
  BY DEF IInv, Holds, HandingOver
<1>8. ASSUME todo = <<pair[2]>>
      PROVE  todo[1] = pair[2] /\ DOMAIN todo = {1}
  BY <1>8
<1> QED
  BY <1>1, <1>2, <1>3, <1>5, <1>6, <1>7, <1>8 DEF IInv, Match

\* Who is told of the match has joined, and hears the other's name.
LEMMA AnnounceKeeps ==
  ASSUME IInv, Announce
  PROVE  IInv'
<1> DEFINE c == todo[1].conn
           other == IF todo[1] = pair[1] THEN pair[2] ELSE pair[1]
           m == [conn |-> c, room |-> Len(rooms), opponent |-> other.user]
<1>1. /\ loop = "joining" /\ loop' = "announcing" /\ HandingOver /\ HandingOver'
      /\ queue' = queue /\ rooms' = rooms /\ pair' = pair /\ todo' = todo /\ late' = late
  BY DEF Announce, HandingOver
<1>2. \/ Registered(c) /\ told' = told \cup {m} /\ status' = Answered(c, "playing")
      \/ ~Registered(c) /\ told' = told /\ status' = status
  BY DEF Announce
<1>3. /\ pair[1] \in Entry /\ pair[2] \in Entry
      /\ pair[1].conn # pair[2].conn /\ pair[1] # pair[2]
      /\ Len(rooms) \in Nat /\ Len(rooms) \in DOMAIN rooms /\ Hall \in Seq(Player)
      /\ late = <<>>
      /\ \/ todo = pair /\ todo[1] = pair[1] /\ todo[2] = pair[2] /\ DOMAIN todo = {1, 2}
            /\ Hall = <<Seat(pair[1])>>
         \/ todo = <<pair[2]>> /\ todo[1] = pair[2] /\ DOMAIN todo = {1}
            /\ Hall \in {<<Seat(pair[2])>>, <<Seat(pair[1]), Seat(pair[2])>>}
            /\ Reached(pair[1].conn, Len(rooms))
  BY <1>1, HandingFacts
<1>4. /\ Len(pair) = 2 /\ pair[1].user # pair[2].user /\ rooms # <<>>
      /\ \A k \in {1, 2} : /\ Name[pair[k].conn] = pair[k].user
                           /\ status[pair[k].conn] \notin {"new", "anonymous"}
  BY <1>1 DEF IInv, Match
<1>5. c \in Conn /\ 1 \in DOMAIN todo /\ Name[c] = todo[1].user /\ status[c] \notin {"new", "anonymous"}
  BY <1>3, <1>4 DEF Entry
<1>6. {Name[c], other.user} = {pair[1].user, pair[2].user} /\ Name[c] # other.user /\ other \in Entry
  BY <1>3, <1>4
<1>7. c \notin Cancels => \A j \in DOMAIN queue : queue[j].conn # c
  BY <1>1, <1>5 DEF IInv, Entries, Unanswered
<1>8. m.conn = c /\ m.room = Len(rooms) /\ m.opponent = other.user /\ m \in Message
  <2>1. other.user \in User
    BY <1>6 DEF Entry
  <2> QED
    BY <1>3, <1>5, <2>1 DEF Message
<1> HIDE DEF c, other, m
<1>9. /\ Onward
      /\ \A d \in Conn \ {c} : status'[d] = status[d]
      /\ \A d \in Conn : status[d] \in {"idle", "searching", "playing", "stranded"} =>
                          status'[d] \in {"idle", "searching", "playing", "stranded"}
  <2>1. CASE status' = status
    BY <2>1 DEF Onward, IInv, Types
  <2>2. CASE status' = Answered(c, "playing")
    BY <1>5, <2>2, AnsweredFacts
  <2> QED
    BY <1>2, <2>1, <2>2
<1>10. told \subseteq told' /\ told' \subseteq told \cup {m}
  BY <1>2
<1>11. \A d \in Conn, r \in Nat : Reached(d, r) => Reached(d, r)'
  BY <1>9, <1>10 DEF Onward, Reached
<1>12. Reached(c, Len(rooms))'
  <2>1. CASE Registered(c) /\ told' = told \cup {m}
    BY <1>1, <1>8, <2>1 DEF Reached, c
  <2>2. CASE ~Registered(c)
    <3>1. status[c] = "closed"
      BY <1>5, <2>2 DEF Registered
    <3>2. status'[c] = "closed"
      BY <1>5, <1>9, <3>1 DEF Onward
    <3> QED
      BY <1>1, <3>2 DEF Reached, c
  <2> QED
    BY <1>2, <2>1, <2>2
<1>13. Types'
  BY <1>1, <1>8, <1>9, <1>10 DEF IInv, Types, Onward
<1>14. Holds'
  BY <1>1, <1>3 DEF Holds
<1>15. EntryBacked'
  <2>1. \A i \in DOMAIN queue : status'[queue[i].conn] \in {"idle", "searching", "playing", "stranded"}
    BY <1>9, Queued DEF Known, LoggedIn, Stranded
  <2> QED
    BY <1>1, <2>1, Queued, BackedIsEntryBacked DEF Backed, Known, LoggedIn, Stranded
<1>16. Match'
  <2>1. \A k \in {1, 2} : status'[pair[k].conn] \notin {"new", "anonymous"}
    BY <1>3, <1>4, <1>9 DEF Onward, Entry
  <2>2. Hall' = Hall
    BY <1>1 DEF Hall
  <2>3. Reached(pair[1].conn, Len(rooms)) => Reached(pair[1].conn, Len(rooms))'
    BY <1>1, <1>3, <1>11 DEF Entry
  <2>4. Reached(todo[1].conn, Len(rooms))'
    BY <1>1, <1>12 DEF c
  <2> QED
    BY <1>1, <1>3, <1>4, <2>1, <2>2, <2>3, <2>4 DEF Match
<1>17. Halls'
  <2>1. /\ m.room \in DOMAIN rooms /\ m.opponent # Name[m.conn]
        /\ {Name[m.conn], m.opponent} = {pair[1].user, pair[2].user}
    BY <1>3, <1>6, <1>8
  <2>2. /\ \E i \in DOMAIN Hall : Hall[i].conn = c
        /\ \A i \in DOMAIN Hall : Hall[i].user \in {pair[1].user, pair[2].user}
    <3>1. CASE Hall = <<Seat(pair[1])>> /\ todo[1] = pair[1]
      <4>1. DOMAIN Hall = {1} /\ Hall[1] = Seat(pair[1])
        BY <3>1
      <4> QED
        BY <3>1, <4>1 DEF Seat, c
    <3>2. CASE Hall = <<Seat(pair[2])>> /\ todo[1] = pair[2]
      <4>1. DOMAIN Hall = {1} /\ Hall[1] = Seat(pair[2])
        BY <3>2
      <4> QED
        BY <3>2, <4>1 DEF Seat, c
    <3>3. CASE Hall = <<Seat(pair[1]), Seat(pair[2])>> /\ todo[1] = pair[2]
      <4>1. DOMAIN Hall = {1, 2} /\ Hall[1] = Seat(pair[1]) /\ Hall[2] = Seat(pair[2])
        BY <3>3
      <4> QED
        BY <3>3, <4>1 DEF Seat, c
    <3> QED
      BY <1>3, <3>1, <3>2, <3>3
  <2>3. /\ \E i \in DOMAIN rooms[m.room] : rooms[m.room][i].conn = m.conn
        /\ \A i \in DOMAIN rooms[m.room] : rooms[m.room][i].user \in {Name[m.conn], m.opponent}
    BY <1>8, <2>1, <2>2 DEF Hall
  <2>4. \A n \in told' : n \in told \/ n = m
    BY <1>10
  <2> QED
    BY <1>1, <2>1, <2>3, <2>4 DEF IInv, Halls
<1>18. Mutual'
  <2>1. \A n \in told : n.room \in Nat
    BY DEF IInv, Types, Message
  <2>2. ASSUME NEW n \in told
        PROVE  \/ \E d \in Conn : Name[d] = n.opponent /\ Reached(d, n.room)'
               \/ n.room = Len(rooms)
    BY <1>1, <1>11, <2>1 DEF IInv, Mutual
  <2> QED
    BY <1>1, <1>8, <1>10, <2>2 DEF Mutual
<1>19. Entries'
  <2>1. Searching(queue)'
    BY <1>1, <1>7, <1>9, Queued DEF Searching, Pending
  <2>2. ASSUME NEW i \in DOMAIN todo, i # 1
        PROVE  Unanswered(todo[i], queue)'
    <3>1. todo[i] = pair[2] /\ todo[1] = pair[1]
      BY <1>3, <2>2
    <3>2. todo[i].conn \in Conn \ {c}
      BY <1>3, <3>1 DEF Entry, c
    <3>3. Unanswered(todo[i], queue)
      BY <1>1 DEF IInv, Entries
    <3> QED
      BY <1>1, <1>9, <3>2, <3>3 DEF Unanswered
  <2>3. DOMAIN late' = {}
    BY <1>1, <1>3
  <2> QED
    BY <1>1, <2>1, <2>2, <2>3 DEF Entries, Distinct
<1> QED
  BY <1>13, <1>14, <1>15, <1>16, <1>17, <1>18, <1>19 DEF IInv

\* The second player of the match joins the room.
LEMMA SecondSeatKeeps ==
  ASSUME IInv, loop = "announcing", told' = told, queue' = queue, late' = late, status' = status,
         loop' = "joining", pair' = pair, todo = pair, todo' = <<pair[2]>>,
         rooms' = [rooms EXCEPT ![Len(rooms)] = Append(@, Seat(pair[2]))]
  PROVE  IInv'
<1>1. HandingOver /\ HandingOver'
  BY DEF HandingOver
<1>2. /\ pair[1] \in Entry /\ pair[2] \in Entry
      /\ Len(rooms) \in Nat /\ Len(rooms) \in DOMAIN rooms
      /\ late = <<>> /\ todo[1] = pair[1] /\ todo[2] = pair[2] /\ DOMAIN todo = {1, 2}
      /\ pair[1] # pair[2]
  BY <1>1, HandingFacts
<1>3. Hall = <<Seat(pair[1])>>
  <2>1. todo # <<pair[2]>>
    BY <1>2
  <2> QED
    BY <1>1, <2>1, HandingFacts
<1>4. Seat(pair[1]) \in Player /\ Seat(pair[2]) \in Player /\ rooms \in Seq(Seq(Player))
  BY <1>2 DEF Seat, Player, Entry, IInv, Types
<1> DEFINE hall == <<Seat(pair[1]), Seat(pair[2])>>
<1>5. rooms[Len(rooms)] = <<Seat(pair[1])>>
  BY <1>3 DEF Hall
<1>6. /\ Append(<<Seat(pair[1])>>, Seat(pair[2])) = hall /\ hall \in Seq(Player) /\ Len(hall) = 2
      /\ DOMAIN hall = {1, 2} /\ hall[1] = Seat(pair[1]) /\ hall[2] = Seat(pair[2])
  BY <1>4, ListOfTwo
<1> HIDE DEF hall
<1>7. /\ rooms' \in Seq(Seq(Player)) /\ Len(rooms') = Len(rooms) /\ DOMAIN rooms' = DOMAIN rooms
      /\ rooms'[Len(rooms)] = hall
      /\ \A r \in DOMAIN rooms : r # Len(rooms) => rooms'[r] = rooms[r]
  BY <1>2, <1>4, <1>5, <1>6
<1>8. /\ Len(pair) = 2 /\ pair[1].user # pair[2].user /\ rooms # <<>>
      /\ \A k \in {1, 2} : /\ Name[pair[k].conn] = pair[k].user
                           /\ status[pair[k].conn] \notin {"new", "anonymous"}
      /\ Reached(pair[1].conn, Len(rooms))
  BY <1>1, <1>2 DEF IInv, Match
<1>9. todo' \in Seq(Entry) /\ DOMAIN todo' = {1} /\ todo'[1] = pair[2]
  BY <1>2
<1>10. Types'
  BY <1>7, <1>9 DEF IInv, Types
<1>11. Holds'
  BY <1>1, <1>2 DEF Holds
<1>12. EntryBacked'
  BY Queued, BackedIsEntryBacked DEF Backed, Known, LoggedIn, Stranded
<1>13. Match'
  <2>1. Hall' = hall /\ rooms' # <<>>
    BY <1>2, <1>7 DEF Hall
  <2>2. Reached(pair[1].conn, Len(rooms))'
    BY <1>7, <1>8 DEF Reached
  <2> QED
    BY <1>8, <2>1, <2>2 DEF Match, hall
<1>14. Halls'
  <2>1. ASSUME NEW r \in DOMAIN rooms'
        PROVE  /\ Len(rooms'[r]) <= 2
               /\ Len(rooms'[r]) = 2 => rooms'[r][1].user # rooms'[r][2].user
    <3>1. CASE r = Len(rooms)
      <4>1. Seat(pair[1]).user # Seat(pair[2]).user
        BY <1>8 DEF Seat
      <4> QED
        BY <1>6, <1>7, <3>1, <4>1
    <3>2. CASE r # Len(rooms)
      <4>1. r \in DOMAIN rooms /\ rooms'[r] = rooms[r]
        BY <1>7, <3>2
      <4> QED
        BY <4>1 DEF IInv, Halls
    <3> QED
      BY <3>1, <3>2
  <2>2. ASSUME NEW m \in told
        PROVE  /\ m.room \in DOMAIN rooms' /\ m.opponent # Name[m.conn]
               /\ \E i \in DOMAIN rooms'[m.room] : rooms'[m.room][i].conn = m.conn
               /\ \A i \in DOMAIN rooms'[m.room] :
                     rooms'[m.room][i].user \in {Name[m.conn], m.opponent}
               /\ m.room = Len(rooms) =>
                     {Name[m.conn], m.opponent} = {pair[1].user, pair[2].user}
    <3>1. /\ m.room \in DOMAIN rooms /\ m.opponent # Name[m.conn]
          /\ m.room = Len(rooms) => {Name[m.conn], m.opponent} = {pair[1].user, pair[2].user}
      BY <1>1 DEF IInv, Halls
    <3>2. PICK i \in DOMAIN rooms[m.room] : rooms[m.room][i].conn = m.conn
      BY DEF IInv, Halls
    <3>3. CASE m.room = Len(rooms)
      <4>1. \A k \in DOMAIN hall : hall[k].user \in {pair[1].user, pair[2].user}
        BY <1>6 DEF Seat
      <4>2. m.conn = pair[1].conn
        <5>1. DOMAIN <<Seat(pair[1])>> = {1} /\ <<Seat(pair[1])>>[1] = Seat(pair[1])
          OBVIOUS
        <5> QED
          BY <1>5, <3>2, <3>3, <5>1 DEF Seat
      <4>3. \E k \in DOMAIN hall : hall[k].conn = m.conn
        BY <1>6, <4>2 DEF Seat
      <4> QED
        BY <1>7, <3>1, <3>3, <4>1, <4>3
    <3>4. CASE m.room # Len(rooms)
      <4>1. rooms'[m.room] = rooms[m.room] /\ m.room \in DOMAIN rooms'
        BY <1>7, <3>1, <3>4
      <4> QED
        BY <3>1, <3>4, <4>1 DEF IInv, Halls
    <3> QED
      BY <3>3, <3>4
  <2> QED
    BY <1>7, <2>1, <2>2 DEF Halls
<1>15. Mutual'
  <2>1. ASSUME NEW m \in told
        PROVE  \/ \E d \in Conn : Name[d] = m.opponent /\ Reached(d, m.room)
               \/ m.room = Len(rooms)
    BY DEF IInv, Mutual
  <2> QED
    BY <1>1, <1>7, <2>1 DEF Mutual, Reached
<1>16. Entries'
  <2>1. Searching(queue)'
    BY Queued DEF Searching, Pending
  <2>2. Unanswered(pair[2], queue)
    <3>1. 2 \in DOMAIN todo /\ todo[2] = pair[2] /\ ~(2 = 1 /\ loop = "announcing")
      BY <1>2
    <3> QED
      BY <3>1 DEF IInv, Entries
  <2>3. \A i \in DOMAIN todo' : Unanswered(todo[i], queue)'
    BY <1>9, <2>2 DEF Unanswered
  <2>4. DOMAIN late' = {}
    BY <1>2
  <2> QED
    BY <2>1, <2>3, <2>4 DEF Entries, Distinct
<1> QED
  BY <1>10, <1>11, <1>12, <1>13, <1>14, <1>15, <1>16 DEF IInv

\* The hand-over is done: both players have been told of the room, or have gone.
LEMMA HandedOverKeeps ==
  ASSUME IInv, loop = "announcing", told' = told, Due(Tail(todo)) = <<>>,
         rooms' = rooms, pair' = <<>>, todo' = <<>>, Sweep(queue)
  PROVE  IInv'
<1>1. HandingOver
  BY DEF HandingOver
<1>2. Swept
  BY Queued, SweepFacts
<1>3. /\ pair[1] \in Entry /\ pair[2] \in Entry
      /\ Name[pair[1].conn] = pair[1].user /\ Name[pair[2].conn] = pair[2].user
  BY <1>1, HandingFacts DEF IInv, Match
<1>4. Reached(todo[1].conn, Len(rooms))
  BY <1>1 DEF IInv, Match
<1>5. Reached(pair[1].conn, Len(rooms)) /\ Reached(pair[2].conn, Len(rooms))
  <2>1. CASE todo = pair /\ todo[1] = pair[1]
    <3>1. Tail(todo) = <<pair[2]>>
      <4>1. Len(pair) = 2 /\ pair \in Seq(Entry)
        BY <1>1 DEF IInv, Match, Types
      <4> QED
        BY <2>1, <4>1, TailOfTwo
    <3>2. ~Registered(pair[2].conn)
      <4>1. <<pair[2]>> # <<>>
        OBVIOUS
      <4> QED
        BY <1>3, <3>1, <4>1, DueOfOne
    <3>3. status[pair[2].conn] # "new"
      BY <1>1 DEF IInv, Match
    <3> QED
      BY <1>4, <2>1, <3>2, <3>3 DEF Registered, Reached
  <2>2. CASE todo[1] = pair[2] /\ Reached(pair[1].conn, Len(rooms))
    BY <1>4, <2>2
  <2> QED
    BY <1>1, <2>1, <2>2, HandingFacts
<1>6. ASSUME NEW m \in told, m.room = Len(rooms)
      PROVE  \E d \in Conn : Name[d] = m.opponent /\ Reached(d, m.room)
  <2>1. m.opponent \in {pair[1].user, pair[2].user}
    BY <1>1, <1>6 DEF IInv, Halls
  <2>2. pair[1].conn \in Conn /\ pair[2].conn \in Conn
    BY <1>3 DEF Entry
  <2> QED
    BY <1>3, <1>5, <1>6, <2>1, <2>2
<1> QED
  BY <1>2, <1>6, SweptKeeps

\* The second player joins once the first one is told.
LEMMA ContinueKeeps ==
  ASSUME IInv, Continue
  PROVE  IInv'
<1>1. /\ loop = "announcing" /\ told' = told /\ HandingOver
      /\ \/ HandOver(pair, Tail(todo), rooms, queue)
         \/ Due(Tail(todo)) # <<>> /\ RedisFails(queue)
  BY DEF Continue, HandingOver
<1>2. CASE RedisFails(queue)
  BY <1>1, <1>2, Queued, RedisFailsKeeps
<1>3. CASE HandOver(pair, Tail(todo), rooms, queue) /\ Due(Tail(todo)) = <<>>
  <2>1. rooms' = rooms /\ pair' = <<>> /\ todo' = <<>> /\ Sweep(queue)
    BY <1>3 DEF HandOver
  <2> QED
    BY <1>1, <1>3, <2>1, HandedOverKeeps
<1>4. CASE HandOver(pair, Tail(todo), rooms, queue) /\ Due(Tail(todo)) # <<>>
  <2> DEFINE due == Due(Tail(todo))
  <2>1. /\ rooms' = [rooms EXCEPT ![Len(rooms)] = Append(@, Seat(due[1]))]
        /\ pair' = pair /\ todo' = due /\ loop' = "joining" /\ queue' = queue
        /\ late' = late /\ status' = status
    BY <1>4 DEF HandOver, Seat
  <2>2. todo # <<pair[2]>>
    <3> SUFFICES ASSUME todo = <<pair[2]>>
                 PROVE  FALSE
      OBVIOUS
    <3>1. Tail(<<pair[2]>>) = <<>>
      OBVIOUS
    <3> QED
      BY <1>4, <3>1, DueOfNone
  <2>3. todo = pair /\ pair[2] \in Entry
    BY <1>1, <2>2, HandingFacts
  <2>4. Tail(todo) = <<pair[2]>>
    <3>1. Len(pair) = 2 /\ pair \in Seq(Entry)
      BY <1>1 DEF IInv, Match, Types
    <3> QED
      BY <2>3, <3>1, TailOfTwo
  <2>5. due = <<pair[2]>>
    BY <1>4, <2>3, <2>4, DueOfOne
  <2> HIDE DEF due
  <2>6. due[1] = pair[2]
    BY <2>5
  <2> QED
    BY <1>1, <2>1, <2>3, <2>5, <2>6, SecondSeatKeeps
<1> QED
  BY <1>1, <1>2, <1>3, <1>4

-----------------------------------------------------------------------------
(* The theorems.                                                           *)

\* Nothing is queued at first.
LEMMA InitIInv == Init => IInv
<1> SUFFICES ASSUME Init
             PROVE  IInv
  OBVIOUS
<1>1. <<>> \in Seq(Entry) /\ <<>> \in Seq(Seq(Player)) /\ DOMAIN <<>> = {}
  OBVIOUS
<1>2. ~HandingOver
  BY DEF Init, HandingOver
<1>3. Types
  BY <1>1 DEF Init, Types, Statuses
<1>4. Holds /\ Match
  BY <1>2 DEF Init, Holds, Match
<1>5. EntryBacked
  BY <1>1 DEF Init, EntryBacked
<1>6. Halls /\ Mutual
  BY <1>1, <1>2 DEF Init, Halls, Mutual
<1>7. Entries
  BY <1>1 DEF Init, Entries, Searching, Pending, Distinct
<1> QED
  BY <1>3, <1>4, <1>5, <1>6, <1>7 DEF IInv

\* Whatever the loop and the connections do between two of each other's steps,
\* the queue, the rooms, the match being handed over and what was told fit.
THEOREM Invariance == Spec => []IInv
<1>1. IInv /\ [Next]_vars => IInv'
  <2> SUFFICES ASSUME IInv, [Next]_vars
               PROVE  IInv'
    OBVIOUS
  <2>1. ASSUME NEW c \in Conn, Connection(c)
        PROVE  IInv'
    <3>1. CASE Connect(c)
      BY <3>1, ConnectKeeps
    <3>2. CASE Login(c)
      BY <3>2, LoginKeeps
    <3>3. CASE Close(c)
      BY <3>3, CloseKeeps
    <3>4. CASE CloseFails(c)
      BY <3>4, CloseFailsKeeps
    <3>5. CASE Forget(c)
      BY <3>5, ForgetKeeps
    <3>6. CASE FindMatch(c)
      BY <3>6, FindMatchKeeps
    <3>7. CASE CancelMatch(c)
      BY <3>7, CancelMatchKeeps
    <3> QED
      BY <2>1, <3>1, <3>2, <3>3, <3>4, <3>5, <3>6, <3>7 DEF Connection
  <2>2. CASE Wake
    BY <2>2, WakeKeeps
  <2>3. CASE Announce
    BY <2>3, AnnounceKeeps
  <2>4. CASE Continue
    BY <2>4, ContinueKeeps
  <2>5. CASE Notify
    BY <2>5, NotifyKeeps
  <2>6. CASE UNCHANGED vars
    <3>1. Types' /\ Holds' /\ EntryBacked'
      BY <2>6 DEF vars, IInv, Types, Holds, HandingOver, EntryBacked, Known, LoggedIn, Stranded
    <3>2. Match'
      BY <2>6 DEF vars, IInv, HandingOver, Match, Hall, Reached
    <3>3. Halls'
      BY <2>6 DEF vars, IInv, HandingOver, Halls
    <3>4. Mutual'
      BY <2>6 DEF vars, IInv, HandingOver, Mutual, Reached
    <3>5. Entries'
      BY <2>6 DEF vars, IInv, Entries, Searching, Pending, Unanswered, Distinct
    <3> QED
      BY <3>1, <3>2, <3>3, <3>4, <3>5 DEF IInv
  <2> QED
    BY <2>1, <2>2, <2>3, <2>4, <2>5, <2>6 DEF Next, Loop
<1> QED
  BY <1>1, InitIInv, PTL DEF Spec

\* Whoever is in the queue is there once, by the name its connection is logged
\* in with, and that connection is open unless its tear-down failed (enqueue,
\* cancel, cancel_by_identity).
THEOREM QueueIsOfTheConnected == Spec => []EntryBacked
<1>1. IInv => EntryBacked
  BY DEF IInv
<1> QED
  BY <1>1, Invariance, PTL

\* A matchmade room is for two different users who are told of each other
\* (_on_match).
THEOREM RoomIsForTwo == Spec => []RoomOfTwo
<1>1. IInv => RoomOfTwo
  BY DEF IInv, Halls, RoomOfTwo
<1> QED
  BY <1>1, Invariance, PTL

\* A set of positions with at most one element counts one at most.
LEMMA AtMostOne ==
  ASSUME NEW n \in Nat, NEW S \in SUBSET (1 .. n), \A i, j \in S : i = j
  PROVE  Cardinality(S) \in {0, 1} /\ (Cardinality(S) = 0 <=> S = {})
<1>1. IsFiniteSet(1 .. n)
  BY CountUpTo
<1>2. IsFiniteSet(S)
  BY <1>1, FS_Subset
<1>3. CASE S = {}
  BY <1>3, FS_EmptySet
<1>4. CASE S # {}
  <2>1. PICK x \in S : TRUE
    BY <1>4
  <2>2. S = {x}
    BY <2>1
  <2>3. Cardinality({x}) = 1
    BY FS_Singleton
  <2> QED
    BY <1>4, <2>2, <2>3
<1> QED
  BY <1>3, <1>4

\* Nobody is answered who is not waiting for an answer, nor twice: a search has
\* one entry, wherever it is (_run with sweep_timeouts and find_match).
THEOREM OneAnswer == Spec => []OneAnswerPerSearch
<1>1. IInv => OneAnswerPerSearch
  <2> SUFFICES ASSUME IInv, NEW c \in Conn \ Cancels
               PROVE  /\ Tickets(c) <= 1
                      /\ Tickets(c) = 1 => status[c] \in {"searching", "leaving", "closed", "stranded"}
    BY DEF OneAnswerPerSearch
  <2> DEFINE A == {i \in DOMAIN queue : queue[i].conn = c}
             B == {i \in DOMAIN todo : todo[i].conn = c /\ ~(i = 1 /\ loop = "announcing")}
             C == {i \in DOMAIN late : late[i].conn = c}
  <2>1. Tickets(c) = Cardinality(A) + Cardinality(B) + Cardinality(C)
    BY DEF Tickets
  <2>2. /\ Len(queue) \in Nat /\ DOMAIN queue = 1 .. Len(queue)
        /\ Len(todo) \in Nat /\ DOMAIN todo = 1 .. Len(todo)
        /\ Len(late) \in Nat /\ DOMAIN late = 1 .. Len(late)
    BY EntriesOf DEF IInv, Types
  <2>3. \A i, j \in A : i = j
    BY Queued, BackedDistinct DEF Distinct
  <2>4. (\A i, j \in B : i = j) /\ (B # {} => HandingOver)
    <3>1. CASE HandingOver
      <4>1. /\ pair[1].conn # pair[2].conn
            /\ \/ todo[1] = pair[1] /\ todo[2] = pair[2] /\ DOMAIN todo = {1, 2}
               \/ DOMAIN todo = {1}
        BY <3>1, HandingFacts
      <4> QED
        BY <3>1, <4>1
    <3>2. CASE ~HandingOver
      <4>1. DOMAIN todo = {}
        BY <3>2 DEF IInv, Holds
      <4> QED
        BY <4>1
    <3> QED
      BY <3>1, <3>2
  <2>5. (\A i, j \in C : i = j) /\ (C # {} => ~HandingOver)
    <3>1. C # {} => late # <<>>
      OBVIOUS
    <3> QED
      BY <3>1 DEF IInv, Entries, Distinct, Holds, HandingOver
  <2>6. A # {} => status[c] \in {"searching", "stranded"}
    BY DEF IInv, Entries, Searching, Pending
  <2>7. B # {} => status[c] \in {"searching", "leaving", "closed", "stranded"} /\ A = {}
    BY DEF IInv, Entries, Unanswered
  <2>8. C # {} => status[c] \in {"searching", "leaving", "closed", "stranded"} /\ A = {}
    BY DEF IInv, Entries, Unanswered
  <2>9. /\ A \in SUBSET (1 .. Len(queue)) /\ B \in SUBSET (1 .. Len(todo))
        /\ C \in SUBSET (1 .. Len(late))
    BY <2>2
  <2> HIDE DEF A, B, C
  <2>10. /\ Cardinality(A) \in {0, 1} /\ (Cardinality(A) = 0 <=> A = {})
         /\ Cardinality(B) \in {0, 1} /\ (Cardinality(B) = 0 <=> B = {})
         /\ Cardinality(C) \in {0, 1} /\ (Cardinality(C) = 0 <=> C = {})
    <3>1. Cardinality(A) \in {0, 1} /\ (Cardinality(A) = 0 <=> A = {})
      BY <2>2, <2>3, <2>9, AtMostOne
    <3>2. Cardinality(B) \in {0, 1} /\ (Cardinality(B) = 0 <=> B = {})
      BY <2>2, <2>4, <2>9, AtMostOne
    <3>3. Cardinality(C) \in {0, 1} /\ (Cardinality(C) = 0 <=> C = {})
      BY <2>2, <2>5, <2>9, AtMostOne
    <3> QED
      BY <3>1, <3>2, <3>3
  <2>11. Tickets(c) <= 1
    BY <2>1, <2>4, <2>5, <2>7, <2>8, <2>10
  <2>12. Tickets(c) = 1 => status[c] \in {"searching", "leaving", "closed", "stranded"}
    BY <2>1, <2>6, <2>7, <2>8, <2>10
  <2> QED
    BY <2>11, <2>12
<1> QED
  BY <1>1, Invariance, PTL

\* Who is told of a match is not the only one who is: the opponent is told too,
\* has closed the connection, or is next (_on_match's loop over the two).
THEOREM NobodyWaitsAlone == Spec => []MatchIsMutual
<1>1. IInv => MatchIsMutual
  <2> SUFFICES ASSUME IInv, NEW m \in told, NEW d \in Conn, m.opponent = Name[d], Alone(d)
               PROVE  \/ \E n \in told : n.conn = d /\ n.room = m.room
                      \/ ~Serves(d)
                      \/ m.room = Len(rooms) /\ todo # <<>>
                      \/ loop = "dead"
    BY DEF MatchIsMutual
  <2>1. HandingOver => todo # <<>>
    <3>1. HandingOver => 1 \in DOMAIN todo
      BY HandingFacts
    <3> QED
      BY <3>1
  <2>2. ASSUME NEW e \in Conn, Name[e] = m.opponent, Reached(e, m.room)
        PROVE  \/ \E n \in told : n.conn = d /\ n.room = m.room
               \/ ~Serves(d)
    <3>1. e = d
      BY <2>2 DEF Alone
    <3> QED
      BY <2>2, <3>1 DEF Reached, Serves
  <2> QED
    BY <2>1, <2>2 DEF IInv, Mutual
<1> QED
  BY <1>1, Invariance, PTL
=============================================================================
