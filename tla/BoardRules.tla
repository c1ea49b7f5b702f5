----------------------------- MODULE BoardRules -----------------------------
(***************************************************************************)
(* The boards on which the rules of PieceRules are asked: whatever placing *)
(* and lifting pieces (Board.add_piece, remove_piece) can build with at    *)
(* most MaxOccupied pieces.  And what the rules should answer there, by    *)
(* reference definitions that know nothing of loops.                       *)
(***************************************************************************)
EXTENDS PieceRules, FiniteSets

CONSTANT MaxOccupied    \* bound on the pieces of a board

VARIABLE occupied       \* keys of Board._grid

BoardInit == occupied = {}

\* add_piece refuses an occupied cell.
Place(c) ==
    /\ c \notin occupied
    /\ Cardinality(occupied) < MaxOccupied
    /\ occupied' = occupied \cup {c}

Lift(c) ==
    /\ c \in occupied
    /\ occupied' = occupied \ {c}

BoardNext == \E c \in Cell : Place(c) \/ Lift(c)

BoardSpec == BoardInit /\ [][BoardNext]_occupied
-----------------------------------------------------------------------------
Sliders == {"Q", "R", "B"}

Legal(kind, c, board) == LegalDestinations(kind, "w", c[1], c, board)

\* c and d share a rank, a file (lines = "R") or a diagonal (lines = "B").
Aligned(kind, c, d) ==
    LET straight == c[1] = d[1] \/ c[2] = d[2]
        diagonal == Abs(c[1] - d[1]) = Abs(c[2] - d[2])
    IN  \/ kind \in {"R", "Q"} /\ straight
        \/ kind \in {"B", "Q"} /\ diagonal

\* The cells strictly inside the segment from c to an aligned d.
Between(c, d) ==
    {e \in Cell \ {c, d} :
        /\ Distance(c, e) + Distance(e, d) = Distance(c, d)
        /\ (e[1] - c[1]) * (d[2] - c[2]) = (e[2] - c[2]) * (d[1] - c[1])}

\* The sliding loop of piece_rules.py reaches exactly the cells that lie on
\* one of the piece's lines with nothing between: no cell behind a blocker,
\* no cell lost at the edge of a board that is not square, and the blocker's
\* own cell included.
SlidersSeeOpenLines ==
    \A kind \in Sliders, c \in Cell :
        Legal(kind, c, occupied)
            = {d \in Cell \ {c} : /\ Aligned(kind, c, d)
                                  /\ Between(c, d) \cap occupied = {}}

\* A pawn's rules split on what stands at the destination: it stays on its
\* file exactly when the destination is empty, never jumps over a piece with
\* its double step and never goes backwards, for either colour.
PawnTakesOnlyDiagonally ==
    \A color \in Color, c \in Cell, startRow \in 0 .. Height - 1 :
        \A d \in LegalDestinations("P", color, startRow, c, occupied) :
            /\ d[2] = c[2] <=> d \notin occupied
            /\ Between(c, d) \cap occupied = {}
            /\ Distance(c, d) = 2 => c[1] = startRow /\ d[2] = c[2]
            /\ IF color = "w" THEN d[1] < c[1] ELSE d[1] > c[1]
=============================================================================
