--------------------------- MODULE MCMatchmaking ----------------------------
(* A lobby for TLC: three users on four connections.                       *)
EXTENDS Matchmaking

CONSTANTS c1, c2, c3, c4, ann, bob, cid

\* Ann searches from two connections; Bob's rating and Cid's are a step from
\* hers, on either side, and too far from each other to be matched in time.
MCName == [c \in Conn |-> CASE c \in {c1, c2} -> ann [] c = c3 -> bob [] OTHER -> cid]
MCRating == ann :> 2 @@ bob :> 3 @@ cid :> 1
=============================================================================
