----------------------------- MODULE MCAccounts -----------------------------
(* Two users and a game between them for TLC.                              *)
EXTENDS Accounts

CONSTANTS c1, c2, ann, bob, g1

MCWinner == [g \in Game |-> ann]
MCLoser == [g \in Game |-> bob]

\* elo_k_factor 32 by steps: 16 between equals, more for beating a stronger one.
MCGain(gap) == IF gap > 0 THEN 17 ELSE IF gap = 0 THEN 16 ELSE 15
=============================================================================
