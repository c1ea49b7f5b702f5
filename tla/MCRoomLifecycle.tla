-------------------------- MODULE MCRoomLifecycle ---------------------------
(***************************************************************************)
(* Small servers for RoomLifecycle, with one room id.  One connection that *)
(* plays for every user in turn and two sessions reach what depends on the *)
(* sessions of the id; two connections and one session reach what depends  *)
(* on who speaks through which connection.                                 *)
(***************************************************************************)
EXTENDS RoomLifecycle, TLC

Interchangeable ==
    Permutations(Conn) \cup Permutations(User) \cup Permutations(Session)

\* A session that no room id, handler or resignation refers to is out of
\* everybody's reach: states that differ in its contents only are the same.
Held == {session[r] : r \in Room} \cup {subject[c].session : c \in Conn}
        \cup {resigning[k] : k \in DOMAIN resigning}
Reachable ==
    <<step, subject, roomOf, session, created, loops, monitors, resigning,
      [s \in Held \cap Session |->
          <<players[s], pointer[s], spectators[s], ending[s], winner[s]>>]>>
=============================================================================
