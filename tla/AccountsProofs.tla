--------------------------- MODULE AccountsProofs ---------------------------
(***************************************************************************)
(* Proofs about Accounts, for all connections, names and games, and for    *)
(* every formula of points that gives integers: types, and that a name     *)
(* belongs to the one who registered it.                                   *)
(***************************************************************************)
EXTENDS Accounts, TLAPS

\* New ratings are rounded (elo_service.py): points are integers.
GainTyped == \A gap \in Int : Gain(gap) \in Int

Calls == [at : {"idle", "closed", "hashing", "reading", "verifying"},
          user : User \cup {None}, elo : Elo, hint : Elo]

\* A handler that is at work has a name to work on.
CallShape ==
    \A c \in Conn : call[c].at \in {"hashing", "reading", "verifying"} =>
        call[c].user \in User

\* What has been read for a rating before it is written.
RatingShape ==
    \A g \in Game : rating[g].at \in {"bothRead", "winnerWritten"} =>
        rating[g].won \in Int /\ rating[g].lost \in Int

\* Ratings change the row of a player, and never make it look free again.
Kept ==
    \A c \in Conn, u \in User : <<c, u>> \in greeted => Exists(u) /\ secret[u] = c

IInv == TypeOK /\ CallShape /\ RatingShape /\ Kept

\* Nobody owns a name at first.
LEMMA InitInvariant == Init => IInv
<1> SUFFICES ASSUME Init PROVE IInv
  OBVIOUS
<1> USE GameAssumption DEF Init
<1>1. TypeOK
  BY DEF TypeOK, Elo, Places, Idle, Anonymous
<1>2. CallShape
  BY DEF CallShape, Idle
<1>3. RatingShape
  BY DEF RatingShape
<1>4. Kept
  BY DEF Kept
<1>. QED BY <1>1, <1>2, <1>3, <1>4 DEF IInv

-----------------------------------------------------------------------------
(* The handlers of connections, and the cache.                             *)

\* A handler that goes on with a call of the right type and shape, and touches
\* nobody's row, keeps the invariant.
LEMMA StepHandler ==
    ASSUME IInv, NEW c \in Conn, NEW record \in Calls,
           record.at \in {"hashing", "reading", "verifying"} => record.user \in User,
           Goes(c, record),
           identity' \in [Conn -> [user : User \cup {None}, elo : Elo]],
           cached' \in [User -> Elo],
           UNCHANGED <<stored, secret, greeted, rating>>
    PROVE  IInv'
<1>1. TypeOK /\ CallShape /\ RatingShape /\ Kept
  BY DEF IInv
<1>2. TypeOK'
  BY <1>1 DEF TypeOK, Goes, Calls
<1>3. CallShape'
  BY <1>1 DEF TypeOK, CallShape, Goes
<1>4. RatingShape'
  BY <1>1 DEF RatingShape
<1>5. Kept'
  BY <1>1 DEF Kept, Exists
<1>. QED BY <1>2, <1>3, <1>4, <1>5 DEF IInv

\* Where a handler may go.
LEMMA Records ==
    ASSUME NEW u \in User, NEW hint \in Elo, NEW elo \in Elo
    PROVE  /\ Idle \in Calls /\ Idle.at = "idle"
           /\ [Idle EXCEPT !.at = "closed"] \in Calls
           /\ [Idle EXCEPT !.at = "closed"].at = "closed"
           /\ [Idle EXCEPT !.at = "hashing", !.user = u] \in Calls
           /\ [Idle EXCEPT !.at = "hashing", !.user = u].user = u
           /\ [Idle EXCEPT !.at = "reading", !.user = u, !.hint = hint] \in Calls
           /\ [Idle EXCEPT !.at = "reading", !.user = u, !.hint = hint].user = u
  BY DEF Calls, Idle, Elo

\* A command to register starts a call with a pair of new locals.
LEMMA StepRegister ==
    ASSUME IInv, NEW c \in Conn, NEW u \in User, Register(c, u)
    PROVE  IInv'
<1>1. None \in Elo
  BY DEF Elo
<1>2. Goes(c, [Idle EXCEPT !.at = "hashing", !.user = u])
      /\ UNCHANGED <<stored, secret, cached, greeted, identity, rating>>
  BY DEF Register
<1> DEFINE next == [Idle EXCEPT !.at = "hashing", !.user = u]
<1>3. next \in Calls /\ next.user \in User
  BY <1>1, Records
<1>4. Goes(c, next)
  BY <1>2
<1> HIDE DEF next
<1>. QED BY <1>2, <1>3, <1>4, StepHandler DEF IInv, TypeOK

\* So does a login.
LEMMA StepLogin ==
    ASSUME IInv, NEW c \in Conn, NEW u \in User, Login(c, u)
    PROVE  IInv'
<1>1. PICK hint \in CacheGet(u) :
         Goes(c, [Idle EXCEPT !.at = "reading", !.user = u, !.hint = hint])
  BY DEF Login
<1>2. hint \in Elo
  BY DEF IInv, TypeOK, CacheGet, Elo
<1>3. UNCHANGED <<stored, secret, cached, greeted, identity, rating>>
  BY DEF Login
<1> DEFINE next == [Idle EXCEPT !.at = "reading", !.user = u, !.hint = hint]
<1>4. None \in Elo
  BY DEF Elo
<1>5. next \in Calls /\ next.user \in User
  BY <1>2, <1>4, Records
<1>6. Goes(c, next)
  BY <1>1
<1> HIDE DEF next
<1>. QED BY <1>3, <1>5, <1>6, StepHandler DEF IInv, TypeOK

\* A login looks its row up, if there is one.
LEMMA StepReadUser ==
    ASSUME IInv, NEW c \in Conn, ReadUser(c)
    PROVE  IInv'
<1> DEFINE u == call[c].user
           known == [call[c] EXCEPT !.at = "verifying", !.elo = stored[u]]
<1>1. u \in User /\ call[c] \in Calls /\ stored[u] \in Elo /\ None \in Elo
  BY DEF IInv, ReadUser, At, TypeOK, CallShape, Calls, Elo
<1>2. UNCHANGED <<stored, secret, cached, greeted, identity, rating>>
  BY DEF ReadUser
<1>3. CASE Exists(u)
  <2>1. Goes(c, known)
    BY <1>3 DEF ReadUser
  <2>2. known \in Calls /\ known.user \in User
    BY <1>1 DEF Calls
  <2>. QED BY <1>2, <2>1, <2>2, StepHandler DEF IInv, TypeOK
<1>4. CASE ~Exists(u)
  <2>1. Goes(c, Idle)
    BY <1>4 DEF ReadUser
  <2>. QED BY <1>1, <1>2, <2>1, Records, StepHandler DEF IInv, TypeOK
<1>. QED BY <1>3, <1>4

\* A password turns out wrong, or right: the login ends.
LEMMA StepVerify ==
    ASSUME IInv, NEW c \in Conn, WrongPassword(c) \/ LoggedIn(c)
    PROVE  IInv'
<1>1. call[c] \in Calls /\ call[c].user \in User /\ None \in Elo
  BY DEF IInv, WrongPassword, LoggedIn, At, TypeOK, CallShape, Calls, Elo
<1>2. Goes(c, Idle) /\ UNCHANGED <<stored, secret, greeted, rating>>
  BY DEF WrongPassword, LoggedIn
<1>3. CASE WrongPassword(c)
  BY <1>1, <1>2, <1>3, Records, StepHandler DEF WrongPassword, IInv, TypeOK
<1>4. CASE LoggedIn(c)
  <2>1. cached' \in [User -> Elo]
    BY <1>1, <1>4 DEF LoggedIn, Recached, CacheSet, Calls, IInv, TypeOK
  <2>2. identity' \in [Conn -> [user : User \cup {None}, elo : Elo]]
    BY <1>1, <1>4 DEF LoggedIn, Calls, IInv, TypeOK
  <2>. QED BY <1>1, <1>2, <2>1, <2>2, Records, StepHandler
<1>. QED BY <1>3, <1>4

\* The insert: the first of several for one name wins and is told so.
LEMMA StepCreateUser ==
    ASSUME IInv, NEW c \in Conn, CreateUser(c)
    PROVE  IInv'
<1> DEFINE u == call[c].user
<1>1. u \in User /\ Insert(c, u) /\ UNCHANGED <<cached, rating>>
  BY DEF IInv, CreateUser, At, CallShape
<1>2. None \in Elo /\ DefaultElo \in Elo /\ DefaultElo # None
      /\ TypeOK /\ CallShape /\ RatingShape /\ Kept
  BY GameAssumption DEF Elo, IInv
<1>3. CASE Exists(u)
  <2>1. /\ Goes(c, [Idle EXCEPT !.at = "closed"])
        /\ identity' = [identity EXCEPT ![c] = Anonymous]
        /\ UNCHANGED <<stored, secret, greeted>>
    BY <1>1, <1>3 DEF Insert
  <2>2. identity' \in [Conn -> [user : User \cup {None}, elo : Elo]]
    BY <1>2, <2>1 DEF TypeOK, Anonymous
  <2>. QED BY <1>1, <1>2, <2>1, <2>2, Records, StepHandler DEF TypeOK
<1>4. CASE ~Exists(u)
  <2>1. /\ stored' = [stored EXCEPT ![u] = DefaultElo]
        /\ secret' = [secret EXCEPT ![u] = c]
        /\ greeted' = greeted \cup {<<c, u>>}
        /\ identity' = [identity EXCEPT ![c] = [user |-> u, elo |-> DefaultElo]]
        /\ Goes(c, Idle)
    BY <1>1, <1>4 DEF Insert
  <2>2. Idle \in Calls /\ Idle.at = "idle"
    BY <1>1, <1>2, Records
  <2>3. TypeOK'
    <3>1. /\ stored' \in [User -> Elo] /\ secret' \in [User -> Conn \cup {None}]
          /\ greeted' \in SUBSET (Conn \X User)
      BY <1>1, <1>2, <2>1 DEF TypeOK
    <3>2. identity' \in [Conn -> [user : User \cup {None}, elo : Elo]]
      BY <1>1, <1>2, <2>1 DEF TypeOK
    <3>3. call' \in [Conn -> Calls]
      BY <1>2, <2>1, <2>2 DEF TypeOK, Calls, Goes
    <3>. QED BY <1>1, <1>2, <3>1, <3>2, <3>3 DEF TypeOK, Calls
  <2>4. CallShape'
    BY <1>2, <2>1, <2>2 DEF CallShape, Goes, TypeOK
  <2>5. RatingShape'
    BY <1>1, <1>2 DEF RatingShape
  <2>6. Kept'
    BY <1>1, <1>2, <1>4, <2>1 DEF Kept, Exists, TypeOK
  <2>. QED BY <2>3, <2>4, <2>5, <2>6 DEF IInv
<1>. QED BY <1>3, <1>4

\* An entry of the cache runs out.
LEMMA StepExpire ==
    ASSUME IInv, NEW u \in User, Expire(u)
    PROVE  IInv'
<1>1. UNCHANGED <<stored, secret, call, greeted, identity, rating>>
      /\ cached' = [cached EXCEPT ![u] = None]
  BY DEF Expire
<1>2. TypeOK'
  BY <1>1 DEF IInv, TypeOK, Elo
<1>. QED BY <1>1, <1>2 DEF IInv, CallShape, RatingShape, Kept, Exists

-----------------------------------------------------------------------------
(* The rating of a game.                                                   *)

Ratings == [at : Places, won : Elo, lost : Elo]

\* A step of a rating changes rows only of players who have one, and not their
\* passwords.
LEMMA StepRating ==
    ASSUME IInv, NEW g \in Game, NEW record \in Ratings,
           record.at \in {"bothRead", "winnerWritten"} =>
               record.won \in Int /\ record.lost \in Int,
           rating' = [rating EXCEPT ![g] = record],
           stored' \in [User -> Elo],
           \A u \in User : stored'[u] = stored[u] \/ stored'[u] \in Int,
           cached' \in [User -> Elo],
           UNCHANGED <<secret, call, greeted, identity>>
    PROVE  IInv'
<1>1. TypeOK /\ CallShape /\ RatingShape /\ Kept
  BY DEF IInv
<1>2. TypeOK'
  BY <1>1 DEF TypeOK, Ratings
<1>3. CallShape'
  BY <1>1 DEF CallShape
<1>4. RatingShape'
  BY <1>1 DEF RatingShape, TypeOK
<1>5. Kept'
  BY <1>1, GameAssumption DEF Kept, Exists
<1>. QED BY <1>2, <1>3, <1>4, <1>5 DEF IInv

\* A step that only moves a rating on.
LEMMA Placed ==
    ASSUME IInv, NEW g \in Game, NEW place \in Places, Place(g, place)
    PROVE  /\ [rating[g] EXCEPT !.at = place] \in Ratings
           /\ [rating[g] EXCEPT !.at = place].at = place
           /\ [rating[g] EXCEPT !.at = place].won = rating[g].won
           /\ [rating[g] EXCEPT !.at = place].lost = rating[g].lost
           /\ rating' = [rating EXCEPT ![g] = [rating[g] EXCEPT !.at = place]]
<1>1. rating[g] \in Ratings
  BY DEF IInv, TypeOK, Ratings
<1>. QED BY <1>1 DEF Ratings, Place

\* Both ratings are read from rows that exist.
LEMMA StepReadRatings ==
    ASSUME IInv, NEW g \in Game, ReadWinner(g) \/ ReadLoser(g)
    PROVE  IInv'
<1>1. rating[g] \in Ratings /\ stored[Winner[g]] \in Elo /\ stored[Loser[g]] \in Elo
  BY GameAssumption DEF IInv, TypeOK, Ratings
<1>2. UNCHANGED <<stored, secret, cached, call, greeted, identity>>
  BY DEF ReadWinner, ReadLoser
<1>3. stored' \in [User -> Elo] /\ cached' \in [User -> Elo]
      /\ \A u \in User : stored'[u] = stored[u]
  BY <1>2 DEF IInv, TypeOK
<1>4. CASE ReadWinner(g)
  <2> DEFINE record == [rating[g] EXCEPT !.at = "winnerRead", !.won = stored[Winner[g]]]
  <2>1. record \in Ratings /\ record.at = "winnerRead"
    BY <1>1 DEF Ratings, Places
  <2>2. rating' = [rating EXCEPT ![g] = record]
    BY <1>4 DEF ReadWinner
  <2> HIDE DEF record
  <2>. QED BY <1>2, <1>3, <2>1, <2>2, StepRating
<1>5. CASE ReadLoser(g)
  <2> DEFINE record == [rating[g] EXCEPT !.at = "bothRead", !.lost = stored[Loser[g]]]
  <2>1. CASE rating[g].won = None \/ stored[Loser[g]] = None
    <3>1. Place(g, "skipped")
      BY <1>5, <2>1 DEF ReadLoser
    <3>2. "skipped" \in Places
      BY DEF Places
    <3> DEFINE next == [rating[g] EXCEPT !.at = "skipped"]
    <3>3. next \in Ratings /\ next.at = "skipped" /\ rating' = [rating EXCEPT ![g] = next]
      BY <3>1, <3>2, Placed
    <3> HIDE DEF next
    <3>. QED BY <1>2, <1>3, <3>3, StepRating
  <2>2. CASE ~(rating[g].won = None \/ stored[Loser[g]] = None)
    <3>1. rating' = [rating EXCEPT ![g] = record]
      BY <1>5, <2>2 DEF ReadLoser
    <3>2. record \in Ratings /\ record.won \in Int /\ record.lost \in Int
      BY <1>1, <2>2 DEF Ratings, Places, Elo
    <3> HIDE DEF record
    <3>. QED BY <1>2, <1>3, <3>1, <3>2, StepRating
  <2>. QED BY <2>1, <2>2
<1>. QED BY <1>4, <1>5

\* Both are written back to them.
LEMMA StepWriteRatings ==
    ASSUME IInv, GainTyped, NEW g \in Game, WriteWinner(g) \/ WriteLoser(g)
    PROVE  IInv'
<1>1. /\ rating[g].won \in Int /\ rating[g].lost \in Int
      /\ UNCHANGED <<secret, cached, call, greeted, identity>>
  BY DEF IInv, RatingShape, WriteWinner, WriteLoser, Rates
<1>2. Points(g) \in Int
  BY <1>1 DEF GainTyped, Points
<1>3. PICK u \in User, elo \in Int : stored' = [stored EXCEPT ![u] = elo]
  <2>1. CASE WriteWinner(g)
    <3>1. rating[g].won + Points(g) \in Int
      BY <1>1, <1>2
    <3>. QED BY <2>1, <3>1, GameAssumption DEF WriteWinner, UpdateElo
  <2>2. CASE WriteLoser(g)
    <3>1. rating[g].lost - Points(g) \in Int
      BY <1>1, <1>2
    <3>. QED BY <2>2, <3>1, GameAssumption DEF WriteLoser, UpdateElo
  <2>. QED BY <2>1, <2>2
<1>4. stored' \in [User -> Elo] /\ cached' \in [User -> Elo]
      /\ \A v \in User : stored'[v] = stored[v] \/ stored'[v] \in Int
  BY <1>1, <1>3 DEF IInv, TypeOK, Elo
<1>5. PICK place \in {"winnerWritten", "bothWritten"} : Place(g, place)
  BY DEF WriteWinner, WriteLoser
<1> DEFINE next == [rating[g] EXCEPT !.at = place]
<1>6. /\ next \in Ratings /\ next.won \in Int /\ next.lost \in Int
      /\ rating' = [rating EXCEPT ![g] = next]
  <2>1. place \in Places
    BY DEF Places
  <2>. QED BY <1>1, <1>5, <2>1, Placed
<1> HIDE DEF next
<1>. QED BY <1>1, <1>4, <1>6, StepRating

\* The rating is over, well or badly.
LEMMA StepEndRating ==
    ASSUME IInv, NEW g \in Game,
           TableFails(g) \/ InvalidateWinner(g) \/ InvalidateLoser(g)
    PROVE  IInv'
<1>1. UNCHANGED <<stored, secret, call, greeted, identity>>
  BY DEF TableFails, InvalidateWinner, InvalidateLoser
<1>2. stored' \in [User -> Elo] /\ cached' \in [User -> Elo]
      /\ \A u \in User : stored'[u] = stored[u]
  BY <1>1, GameAssumption DEF TableFails, InvalidateWinner, InvalidateLoser,
                              CacheInvalidate, IInv, TypeOK, Elo
<1>3. PICK place \in {"failed", "winnerInvalid", "rated"} : Place(g, place)
  BY DEF TableFails, InvalidateWinner, InvalidateLoser
<1> DEFINE next == [rating[g] EXCEPT !.at = place]
<1>4. /\ next \in Ratings /\ next.at \in {"failed", "winnerInvalid", "rated"}
      /\ rating' = [rating EXCEPT ![g] = next]
  <2>1. place \in Places
    BY DEF Places
  <2>. QED BY <1>3, <2>1, Placed
<1> HIDE DEF next
<1>. QED BY <1>1, <1>2, <1>4, StepRating

-----------------------------------------------------------------------------
(* The theorems.                                                           *)

\* Every step keeps the invariant.
LEMMA StepInvariant ==
    ASSUME IInv, GainTyped, [Next]_vars
    PROVE  IInv'
<1>1. ASSUME NEW c \in Conn, Answer(c) PROVE IInv'
  BY <1>1, StepCreateUser, StepReadUser, StepVerify DEF Answer
<1>2. ASSUME NEW c \in Conn, NEW u \in User, Register(c, u) \/ Login(c, u) PROVE IInv'
  BY <1>2, StepRegister, StepLogin
<1>3. ASSUME NEW g \in Game, Rate(g) PROVE IInv'
  BY <1>3, StepReadRatings, StepWriteRatings, StepEndRating DEF Rate
<1>4. ASSUME NEW u \in User, Expire(u) PROVE IInv'
  BY <1>4, StepExpire
<1>5. CASE UNCHANGED vars
  BY <1>5 DEF vars, IInv, TypeOK, CallShape, RatingShape, Kept, Exists
<1>. QED BY <1>1, <1>2, <1>3, <1>4, <1>5 DEF Next

\* The invariant holds of every behaviour, when points are integers.
THEOREM Invariance ==
    ASSUME GainTyped
    PROVE  Spec => []IInv
<1>1. IInv /\ [Next]_vars => IInv'
  BY StepInvariant
<1>. QED BY <1>1, InitInvariant, PTL DEF Spec

\* The table, the cache, the identities and the locals of every handler and
\* rating keep their types (auth_service.py, elo_service.py).
THEOREM TypesHold ==
    ASSUME GainTyped
    PROVE  Spec => []TypeOK
<1>1. IInv => TypeOK
  BY DEF IInv
<1>. QED BY <1>1, Invariance, PTL

\* However many registrations of one name interleave (auth_service.py looks the
\* name up, hashes, and inserts), one is told that it succeeded, and the account
\* keeps that one's password through every rating.
THEOREM NameKept ==
    ASSUME GainTyped
    PROVE  Spec => []OneAccount
<1>1. IInv => OneAccount
  BY DEF IInv, Kept, OneAccount
<1>. QED BY <1>1, Invariance, PTL
=============================================================================
