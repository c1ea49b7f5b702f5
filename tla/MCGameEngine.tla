---------------------------- MODULE MCGameEngine ----------------------------
(***************************************************************************)
(* Small games for GameEngine.  The durations of the configurations keep   *)
(* the order of the shipped ones (square 500, short rest 625, long rest    *)
(* 833, jump 1000, tick 50), scaled so that a square takes two ticks (one  *)
(* in Duel) and no rest is a whole number of ticks.                        *)
(*   Line: two rooks and a king on one rank of four cells, two of them on  *)
(*         the same side: collisions of every kind, air captures, captures *)
(*         of pieces under way.                                            *)
(*   Duel: a rook against a pawn that can become a queen, on a board long  *)
(*         enough for a piece to outlive, in the arbiter, the rest of the  *)
(*         one that captured it.                                           *)
(***************************************************************************)
EXTENDS GameEngine

CONSTANTS wR, bR, bK, bP

LinePiece == {wR, bR, bK}
LineColor == [p \in LinePiece |-> IF p = wR THEN "w" ELSE "b"]
LineKind  == [p \in LinePiece |-> IF p = bK THEN "K" ELSE "R"]
LineCell  == [p \in LinePiece |->
                 CASE p = wR -> <<0, 0>> [] p = bR -> <<0, 2>> [] p = bK -> <<0, 3>>]

DuelPiece == {wR, bP}
DuelColor == [p \in DuelPiece |-> IF p = wR THEN "w" ELSE "b"]
DuelKind  == [p \in DuelPiece |-> IF p = wR THEN "R" ELSE "P"]
DuelCell  == [p \in DuelPiece |-> IF p = wR THEN <<0, 0>> ELSE <<0, 1>>]
=============================================================================
