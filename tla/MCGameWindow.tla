----------------------------- MODULE MCGameWindow -----------------------------
(* A board of two cells: both pieces on it, White resting after a capture,   *)
(* Black moving to the cell of the captured White.                           *)
EXTENDS GameWindow
CONSTANTS c1, c2

At(c, s) == [cell |-> c, state |-> s]
MCBoards == {White :> w @@ Black :> b :
                <<w, b>> \in {<<At(c1, "idle"), At(c2, "idle")>>,
                              <<At(c2, "long_rest"), Gone>>,
                              <<Gone, At(c1, "moving")>>}}
=============================================================================
