-------------------------- MODULE MCRedisRegistry ---------------------------
(* Three connections, one user and two rooms for TLC.                      *)
EXTENDS RedisRegistry, TLC

Symmetry == Permutations(Conn) \cup Permutations(Room)
=============================================================================
