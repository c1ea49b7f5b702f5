----------------------------- MODULE PieceRules -----------------------------
(***************************************************************************)
(* The legality rules of rules/piece_rules.py and rules/rule_engine.py:    *)
(* which cells a piece of a given kind may be sent to.  Everything here is *)
(* a pure operator of the board: a cell is a pair <<row, col>> and a board *)
(* is the set of its occupied cells, which is all that the movement        *)
(* classes look at (colours are looked at by RuleEngine.validate_move      *)
(* only, which GameEngine.tla states over the grid).                       *)
(***************************************************************************)
EXTENDS Integers

CONSTANTS Width, Height    \* Board(width, height)

ASSUME BoardAssumption == Width \in Nat \ {0} /\ Height \in Nat \ {0}

Color == {"w", "b"}
Kind  == {"K", "Q", "R", "B", "N", "P"}

Cell == (0 .. Height - 1) \X (0 .. Width - 1)

\* The cell k strides of direction d away from c; it may lie off the board.
Shift(c, d, k) == <<c[1] + k * d[1], c[2] + k * d[2]>>

Abs(n) == IF n < 0 THEN -n ELSE n

\* max(|dr|, |dc|): the number of squares a motion is charged for.
Distance(a, b) ==
    LET dr == Abs(b[1] - a[1])
        dc == Abs(b[2] - a[2])
    IN  IF dr >= dc THEN dr ELSE dc

Straight == {<<0, 1>>, <<0, -1>>, <<1, 0>>, <<-1, 0>>}
Diagonal == {<<1, 1>>, <<1, -1>>, <<-1, 1>>, <<-1, -1>>}

Leaps == {<<-2, -1>>, <<-2, 1>>, <<-1, -2>>, <<-1, 2>>,
          <<1, -2>>, <<1, 2>>, <<2, -1>>, <<2, 1>>}

\* Seeded fault of Ray: a blocker's own cell left out.
RayWithoutBlocker(c, d, occupied) ==
    LET walk[k \in 1 .. Width + Height + 1] ==
            LET pos == Shift(c, d, k)
            IN  IF pos \notin Cell \/ pos \in occupied THEN {}
                ELSE {pos} \cup walk[k + 1]
    IN  walk[1]

\* One ray of _sliding_destinations: empty cells up to and including the
\* first occupied one, whatever its colour.
Ray(c, d, occupied) ==
    LET walk[k \in 1 .. Width + Height + 1] ==
            LET pos == Shift(c, d, k)
            IN  IF pos \notin Cell      THEN {}
                ELSE IF pos \in occupied THEN {pos}
                ELSE {pos} \cup walk[k + 1]
    IN  walk[1]

SlidingDestinations(c, directions, occupied) ==
    UNION {Ray(c, d, occupied) : d \in directions}

LeapDestinations(c, offsets) == {Shift(c, d, 1) : d \in offsets} \cap Cell

Forward(color) == IF color = "w" THEN -1 ELSE 1

\* PawnMovement.min_board_height_for_double_step
DoubleStepHeight == 5

\* Seeded fault of PawnDestinations: the double step does not look at the
\* cell it crosses.
PawnLeapsOver(c, color, startRow, occupied) ==
    LET one == Shift(c, <<Forward(color), 0>>, 1)
        two == Shift(c, <<Forward(color), 0>>, 2)
    IN  {pos \in {one, two} : /\ pos \in Cell \ occupied
                              /\ pos = two => c[1] = startRow}

PawnDestinations(c, color, startRow, occupied) ==
    LET ahead == <<Forward(color), 0>>
        one   == Shift(c, ahead, 1)
        two   == Shift(c, ahead, 2)
        takes == {Shift(c, <<Forward(color), dc>>, 1) : dc \in {-1, 1}}
        free(pos) == pos \in Cell \ occupied
    IN  {pos \in {one} : free(pos)}
        \cup {pos \in {two} : /\ free(one)
                              /\ c[1] = startRow
                              /\ Height >= DoubleStepHeight
                              /\ free(pos)}
        \cup (takes \cap Cell \cap occupied)

\* legal_destinations of the movement class that RuleEngine has for kind.
LegalDestinations(kind, color, startRow, c, occupied) ==
    CASE kind = "K" -> LeapDestinations(c, Straight \cup Diagonal)
      [] kind = "Q" -> SlidingDestinations(c, Straight, occupied)
                       \cup SlidingDestinations(c, Diagonal, occupied)
      [] kind = "R" -> SlidingDestinations(c, Straight, occupied)
      [] kind = "B" -> SlidingDestinations(c, Diagonal, occupied)
      [] kind = "N" -> LeapDestinations(c, Leaps)
      [] kind = "P" -> PawnDestinations(c, color, startRow, occupied)
=============================================================================
