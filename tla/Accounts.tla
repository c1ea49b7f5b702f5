------------------------------ MODULE Accounts ------------------------------
(***************************************************************************)
(* Accounts and ratings: registration and login (server/auth/              *)
(* auth_service.py, auth_handler.py), the rating of a finished game        *)
(* (elo_service.py), the user table (db.py) and the rating cache in Redis  *)
(* (elo_cache.py).                                                         *)
(*                                                                         *)
(* Every call of the table and of the cache runs in a thread while its     *)
(* task waits, so a step is one such call: logins, registrations and       *)
(* ratings of other games go on between two of them.  The table may fail   *)
(* under a rating, and Redis under any call, which the cache hides.        *)
(*                                                                         *)
(* A password is the connection that chose it.  Bound: every game is rated *)
(* once.                                                                   *)
(***************************************************************************)
EXTENDS Integers

CONSTANTS
    Conn,        \* connections
    User,        \* user names
    Game,        \* the finished games
    Winner, Loser,    \* who won and who lost each of them
    DefaultElo,  \* the rating of a new account
    Gain(_),     \* the winner's points, by the loser's rating minus its own
    None

ASSUME GameAssumption ==
    /\ Winner \in [Game -> User] /\ Loser \in [Game -> User]
    /\ \A g \in Game : Winner[g] # Loser[g]
    /\ DefaultElo \in Int
    /\ None \notin Int \cup Conn

VARIABLES
    stored,     \* the rating in the user table
    secret,     \* the password in the user table
    cached,     \* the rating in Redis
    call,       \* where the handler of each connection stands, and its locals
    greeted,    \* the MSG_REGISTERED sent: connection and name
    identity,   \* ConnectionRegistry._logged_in
    rating      \* where the rating of each game stands, and its locals

vars == <<stored, secret, cached, call, greeted, identity, rating>>

Elo == Int \cup {None}
Idle == [at |-> "idle", user |-> None, elo |-> None, hint |-> None]
Anonymous == [user |-> None, elo |-> None]

Init ==
    /\ stored = [u \in User |-> None]
    /\ secret = [u \in User |-> None]
    /\ cached = [u \in User |-> None]
    /\ call = [c \in Conn |-> Idle]
    /\ greeted = {}
    /\ identity = [c \in Conn |-> Anonymous]
    /\ rating = [g \in Game |-> [at |-> "due", won |-> None, lost |-> None]]

Exists(u) == stored[u] # None
At(c, place) == call[c].at = place
Goes(c, record) == call' = [call EXCEPT ![c] = record]
-----------------------------------------------------------------------------
(* UserRepository and EloCache.                                            *)

\* Seeded fault of Insert: a row that exists is written over.
Upsert(c, u) ==
    /\ stored' = [stored EXCEPT ![u] = DefaultElo]
    /\ secret' = [secret EXCEPT ![u] = c]
    /\ greeted' = greeted \cup {<<c, u>>}
    /\ identity' = [identity EXCEPT ![c] = [user |-> u, elo |-> DefaultElo]]
    /\ Goes(c, Idle)

\* create_user: the name is the primary key.  A second row raises, and nothing
\* on the way catches it: the handler of the connection ends.
Insert(c, u) ==
    IF Exists(u)
    THEN /\ Goes(c, [Idle EXCEPT !.at = "closed"])
         /\ identity' = [identity EXCEPT ![c] = Anonymous]
         /\ UNCHANGED <<stored, secret, greeted>>
    ELSE /\ stored' = [stored EXCEPT ![u] = DefaultElo]
         /\ secret' = [secret EXCEPT ![u] = c]
         /\ greeted' = greeted \cup {<<c, u>>}
         /\ identity' = [identity EXCEPT ![c] = [user |-> u, elo |-> DefaultElo]]
         /\ Goes(c, Idle)

UpdateElo(u, elo) == stored' = [stored EXCEPT ![u] = elo]

\* get: a miss, also when Redis fails.
CacheGet(u) == {cached[u], None}

\* set and invalidate: nothing happens when Redis fails.
CacheSet(u, elo) == cached' \in {cached, [cached EXCEPT ![u] = elo]}
CacheInvalidate(u) == cached' \in {cached, [cached EXCEPT ![u] = None]}

\* The entry's time to live is over.
Expire(u) ==
    /\ cached[u] # None
    /\ cached' = [cached EXCEPT ![u] = None]
    /\ UNCHANGED <<stored, secret, call, greeted, identity, rating>>
-----------------------------------------------------------------------------
(* AuthService.register                                                    *)

\* The name is free, or the client is told that it is taken.
Register(c, u) ==
    /\ At(c, "idle")
    /\ ~Exists(u)
    /\ Goes(c, [Idle EXCEPT !.at = "hashing", !.user = u])
    /\ UNCHANGED <<stored, secret, cached, greeted, identity, rating>>

CreateUser(c) ==
    /\ At(c, "hashing")
    /\ Insert(c, call[c].user)
    /\ UNCHANGED <<cached, rating>>
-----------------------------------------------------------------------------
(* AuthService.login                                                       *)

Login(c, u) ==
    /\ At(c, "idle")
    /\ \E hint \in CacheGet(u) :
          Goes(c, [Idle EXCEPT !.at = "reading", !.user = u, !.hint = hint])
    /\ UNCHANGED <<stored, secret, cached, greeted, identity, rating>>

ReadUser(c) ==
    LET u == call[c].user
    IN  /\ At(c, "reading")
        /\ IF Exists(u)
           THEN Goes(c, [call[c] EXCEPT !.at = "verifying", !.elo = stored[u]])
           ELSE Goes(c, Idle)
        /\ UNCHANGED <<stored, secret, cached, greeted, identity, rating>>

WrongPassword(c) ==
    /\ At(c, "verifying")
    /\ Goes(c, Idle)
    /\ UNCHANGED <<stored, secret, cached, greeted, identity, rating>>

\* Seeded fault of Recached: the entry that was read is written back.
RecachedHint(c) ==
    CacheSet(call[c].user, IF call[c].hint # None THEN call[c].hint ELSE call[c].elo)

\* The entry is set to what the table said, even when the cache said otherwise.
Recached(c) == CacheSet(call[c].user, call[c].elo)

\* The password is right: the user goes by the rating of the cache, if it had
\* one, and by the table's otherwise.
LoggedIn(c) ==
    /\ At(c, "verifying")
    /\ Recached(c)
    /\ identity' = [identity EXCEPT ![c] =
                       [user |-> call[c].user,
                        elo |-> IF call[c].hint # None THEN call[c].hint
                                                       ELSE call[c].elo]]
    /\ Goes(c, Idle)
    /\ UNCHANGED <<stored, secret, greeted, rating>>
-----------------------------------------------------------------------------
(* EloService.apply_elo_update                                             *)

Rates(g, place) == rating[g].at = place
Place(g, place) == rating' = [rating EXCEPT ![g].at = place]

ReadWinner(g) ==
    /\ Rates(g, "due")
    /\ rating' = [rating EXCEPT ![g] = [@ EXCEPT !.at = "winnerRead",
                                                 !.won = stored[Winner[g]]]]
    /\ UNCHANGED <<stored, secret, cached, call, greeted, identity>>

\* A player without an account: nothing is rated.
ReadLoser(g) ==
    LET lost == stored[Loser[g]]
    IN  /\ Rates(g, "winnerRead")
        /\ IF rating[g].won = None \/ lost = None
           THEN Place(g, "skipped")
           ELSE rating' = [rating EXCEPT ![g] = [@ EXCEPT !.at = "bothRead", !.lost = lost]]
        /\ UNCHANGED <<stored, secret, cached, call, greeted, identity>>

Points(g) == Gain(rating[g].lost - rating[g].won)

WriteWinner(g) ==
    /\ Rates(g, "bothRead")
    /\ UpdateElo(Winner[g], rating[g].won + Points(g))
    /\ Place(g, "winnerWritten")
    /\ UNCHANGED <<secret, cached, call, greeted, identity>>

WriteLoser(g) ==
    /\ Rates(g, "winnerWritten")
    /\ UpdateElo(Loser[g], rating[g].lost - Points(g))
    /\ Place(g, "bothWritten")
    /\ UNCHANGED <<secret, cached, call, greeted, identity>>

\* The table fails: the exception ends the rating where it is.
TableFails(g) ==
    /\ rating[g].at \in {"due", "winnerRead", "bothRead", "winnerWritten"}
    /\ Place(g, "failed")
    /\ UNCHANGED <<stored, secret, cached, call, greeted, identity>>

InvalidateWinner(g) ==
    /\ Rates(g, "bothWritten")
    /\ CacheInvalidate(Winner[g])
    /\ Place(g, "winnerInvalid")
    /\ UNCHANGED <<stored, secret, call, greeted, identity>>

InvalidateLoser(g) ==
    /\ Rates(g, "winnerInvalid")
    /\ CacheInvalidate(Loser[g])
    /\ Place(g, "rated")
    /\ UNCHANGED <<stored, secret, call, greeted, identity>>
-----------------------------------------------------------------------------
Rate(g) ==
    \/ ReadWinner(g) \/ ReadLoser(g) \/ WriteWinner(g) \/ WriteLoser(g)
    \/ TableFails(g) \/ InvalidateWinner(g) \/ InvalidateLoser(g)

\* What goes on once a call is made.
Answer(c) == CreateUser(c) \/ ReadUser(c) \/ WrongPassword(c) \/ LoggedIn(c)

Next ==
    \/ \E c \in Conn : Answer(c) \/ \E u \in User : Register(c, u) \/ Login(c, u)
    \/ \E g \in Game : Rate(g)
    \/ \E u \in User : Expire(u)

Spec == Init /\ [][Next]_vars

\* A thread answers, well or badly, and Redis drops an entry whose time is over.
FairSpec ==
    /\ Spec
    /\ \A c \in Conn : WF_vars(Answer(c))
    /\ \A u \in User : WF_vars(Expire(u))
-----------------------------------------------------------------------------
(* Properties.                                                             *)

Places == {"due", "winnerRead", "bothRead", "winnerWritten", "bothWritten",
           "winnerInvalid", "rated", "skipped", "failed"}

TypeOK ==
    /\ stored \in [User -> Elo]
    /\ secret \in [User -> Conn \cup {None}]
    /\ cached \in [User -> Elo]
    /\ call \in [Conn -> [at : {"idle", "closed", "hashing", "reading", "verifying"},
                          user : User \cup {None}, elo : Elo, hint : Elo]]
    /\ greeted \in SUBSET (Conn \X User)
    /\ identity \in [Conn -> [user : User \cup {None}, elo : Elo]]
    /\ rating \in [Game -> [at : Places, won : Elo, lost : Elo]]

\* However two registrations of one name interleave, at most one of them is
\* told that it succeeded, and the account has that one's password for good.
OneAccount ==
    \A c \in Conn, u \in User : <<c, u>> \in greeted =>
        /\ secret[u] = c
        /\ \A d \in Conn : <<d, u>> \in greeted => d = c

\* Once the last game is rated, a stale entry of the cache does not outlive its
\* time: logins that go on for ever do not keep it alive, neither one that read
\* the table before the rating nor one that read the stale entry, and neither
\* does a Redis that failed to drop it.
CacheConverges ==
    \A u \in User : <>[](cached[u] \in {None, stored[u]})
=============================================================================
