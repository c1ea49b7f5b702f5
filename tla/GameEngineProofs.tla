-------------------------- MODULE GameEngineProofs --------------------------
(***************************************************************************)
(* Theorems about GameEngine for every set of pieces, every board and      *)
(* every duration.  The inductive invariant IInv relates the four views of *)
(* a piece that the code keeps in four places: the grid, the piece's own   *)
(* cell and state, the arbiter's motions and the arbiter's rests.          *)
(***************************************************************************)
EXTENDS GameEngine, BoardRules, FiniteSetTheorems, TLAPS

\* The shape of the motions the arbiter can hold.
MotionShape ==
    \A p \in Piece :
        /\ motion[p].type = "none" => motion[p].fate = "flying"
        /\ motion[p].type = "move" =>
               /\ motion[p].from \in Cell
               /\ motion[p].to \in Cell
               /\ motion[p].from # motion[p].to
        /\ motion[p].type = "jump" => motion[p].from \in Cell
        /\ motion[p].fate \in {"arrives", "shot", "slain"} => motion[p].type = "move"
        /\ motion[p].fate = "lands" => motion[p].type = "jump"

\* A rest is counted for no piece in flight and for every piece whose action
\* has just ended; the pieces the tick eliminated are marked.
RestLedger ==
    loop = "running" =>
        \A p \in Piece :
            /\ motion[p].fate \in {"arrives", "lands"} => rest[p] > 0
            /\ HasMotion(p) /\ motion[p].fate \notin {"arrives", "lands"} => rest[p] = 0
            /\ motion[p].fate \in {"shot", "slain"} => state[p] = "captured"

\* The state of a piece on the board is what the arbiter holds for it.
StateLedger ==
    loop = "running" =>
        \A p \in Piece : OnBoard(p) =>
            /\ Moving(p) => state[p] = "moving"
            /\ Jumping(p) => state[p] = "jumping"
            /\ state[p] = "moving" => motion[p].type = "move"
            /\ state[p] = "jumping" => motion[p].type = "jump"
            /\ HasMotion(p) => state[p] \notin Resting
            /\ ~HasMotion(p) => (state[p] \in Resting <=> rest[p] > 0)

IInv == TypeOK /\ MotionShape /\ GridCellAgree /\ RestLedger /\ StateLedger
-----------------------------------------------------------------------------
(* Lemmas about the operators of the model.                                *)

\* A distance between two cells is a natural number.
LEMMA DistanceNat == ASSUME NEW a \in Cell, NEW b \in Cell
                     PROVE  Distance(a, b) \in Nat
  BY BoardAssumption DEF Distance, Abs, Cell

\* NoCell is the position of nothing.
LEMMA NoCellOutside == NoCell \notin Cell
  BY BoardAssumption DEF NoCell, Cell

\* The remaining time of a motion or of a rest stays a natural number.
LEMMA ElapsedNat == ASSUME NEW ms \in Nat PROVE Elapsed(ms) \in Nat
  BY TimeAssumption DEF Elapsed

\* What a tick decides about a motion is one of the fates.
LEMMA FateOfFate == ASSUME NEW p, NEW S PROVE FateOf(p, S) \in Fate
  BY DEF FateOf, Fate

\* Two cells never hold the same piece when the grid and the cells agree.
LEMMA OnePlace == ASSUME GridCellAgree, NEW c \in Cell, NEW d \in Cell,
                         grid[c] # NoPiece, grid[c] = grid[d]
                  PROVE  c = d
  BY DEF GridCellAgree

\* The motion that a tick leaves to a piece has the form of a motion.
LEMMA AdvancedType ==
  ASSUME TypeOK, NEW p \in Piece, NEW S \in SUBSET Piece
  PROVE  Advanced(p, S) \in Motion
<1>1. motion[p] \in Motion
  BY DEF TypeOK
<1>2. TimeLeft(p) \in Nat
  BY <1>1, ElapsedNat DEF TimeLeft, Motion
<1>3. Oldest(Slayers(p, S)) \in SUBSET Piece
  BY DEF Oldest, Slayers
<1>4. FateOf(p, S) \in Fate
  BY FateOfFate
<1> QED
  BY <1>1, <1>2, <1>3, <1>4 DEF Advanced, Motion

\* A motion that is no longer there has the form of a motion.
LEMMA NoMotionType == NoMotion \in Motion
  BY DEF NoMotion, Motion, Fate
-----------------------------------------------------------------------------
(* The initial states.                                                     *)

\* The starting board, with nothing under way, satisfies the invariant.
LEMMA InitInv == Init => IInv
<1> SUFFICES ASSUME Init PROVE IInv
  OBVIOUS
<1> USE DEF Init
<1>1. grid \in [Cell -> Piece \cup {NoPiece}]
  <2>1. \A c \in Cell : grid[c] \in Piece \cup {NoPiece}
    OBVIOUS
  <2> QED
    BY <2>1
<1>2. TypeOK
  <2>1. motion \in [Piece -> Motion]
    BY NoMotionType
  <2> QED
    BY <1>1, <2>1, PieceAssumption DEF TypeOK, State
<1>3. MotionShape
  BY DEF MotionShape, NoMotion
<1>4. GridCellAgree
  <2> SUFFICES ASSUME NEW c \in Cell, grid[c] # NoPiece
               PROVE  cell[grid[c]] = c
    BY DEF GridCellAgree
  <2>1. \E p \in Piece : InitCell[p] = c
    OBVIOUS
  <2>2. grid[c] = CHOOSE p \in Piece : InitCell[p] = c
    BY <2>1
  <2> QED
    BY <2>1, <2>2
<1>5. RestLedger
  BY DEF RestLedger, NoMotion
<1>6. StateLedger
  BY DEF StateLedger, NoMotion, Moving, Jumping, Flying, HasMotion, Resting
<1> QED
  BY <1>2, <1>3, <1>4, <1>5, <1>6 DEF IInv
-----------------------------------------------------------------------------
(* The commands.                                                           *)

\* A new motion leaves every other motion and rest alone.
LEMMA StartMotionInv ==
  ASSUME IInv, NEW p \in Piece, NEW type \in {"move", "jump"},
         NEW from \in Cell, NEW to \in Cell \cup {NoCell}, NEW ms \in Nat,
         grid[from] = p, MayAct(p),
         StartMotion(p, type, from, to, ms),
         type = "move" => to \in Cell /\ from # to,
         state' = [state EXCEPT ![p] =
                      IF type = "move" THEN "moving" ELSE "jumping"],
         UNCHANGED <<grid, cell, kind, rest, gameOver, winner, loop>>,
         airborne' \in Cell \cup {NoCell}
  PROVE  IInv'
<1> DEFINE new == [type |-> type, from |-> from, to |-> to, left |-> ms,
                   fate |-> "flying", slayer |-> {}]
<1> USE DEF IInv
<1>1. /\ motion' = [motion EXCEPT ![p] = new]
      /\ ahead' = [ahead EXCEPT ![p] = {q \in Piece : HasMotion(q)}]
  BY DEF StartMotion
<1>2. new \in Motion
  BY DEF Motion, Fate
<1>3. motion \in [Piece -> Motion] /\ state \in [Piece -> State]
  BY DEF TypeOK
<1>4. \A q \in Piece : motion'[q] = IF q = p THEN new ELSE motion[q]
  BY <1>1, <1>3
<1>5. TypeOK'
  <2>1. motion' \in [Piece -> Motion]
    BY <1>1, <1>2, <1>3
  <2>2. state' \in [Piece -> State]
    BY <1>3 DEF State
  <2>3. ahead' \in [Piece -> SUBSET Piece]
    BY <1>1 DEF TypeOK
  <2> QED
    BY <2>1, <2>2, <2>3 DEF TypeOK
<1>6. MotionShape'
  BY <1>4 DEF MotionShape
<1>7. GridCellAgree'
  BY DEF GridCellAgree
<1>8. OnBoard(p) /\ ~HasMotion(p) /\ state[p] \notin Resting
  BY DEF MayAct, OnBoard
<1>9. loop = "running" => rest[p] = 0
  BY <1>8 DEF StateLedger, TypeOK
<1>10. RestLedger'
  BY <1>3, <1>4, <1>9 DEF RestLedger, HasMotion
<1>11. StateLedger'
  BY <1>3, <1>4 DEF StateLedger, OnBoard, HasMotion, Moving, Jumping, Flying, Resting
<1> QED
  BY <1>5, <1>6, <1>7, <1>10, <1>11

\* An accepted move keeps the invariant.
LEMMA RequestMoveInv ==
  ASSUME IInv, NEW source \in Cell, NEW dest \in Cell, RequestMove(source, dest)
  PROVE  IInv'
<1> DEFINE p == grid[source]
           ms == Distance(source, dest) * MsPerSquare
<1>1. p \in Piece /\ p # NoPiece
  BY PieceAssumption DEF RequestMove, IInv, TypeOK
<1>2. ms \in Nat
  BY DistanceNat, TimeAssumption
<1>3. source # dest
  BY <1>1 DEF RequestMove, ValidMove, FriendlyDestination
<1>4. /\ MayAct(p)
      /\ StartMotion(p, "move", source, dest, ms)
      /\ state' = [state EXCEPT ![p] = "moving"]
      /\ UNCHANGED <<grid, cell, kind, rest, airborne, gameOver, winner, loop>>
  BY DEF RequestMove
<1>5. airborne' \in Cell \cup {NoCell}
  BY <1>4 DEF IInv, TypeOK
<1> HIDE DEF p, ms
<1> QED
  BY <1>1, <1>2, <1>3, <1>4, <1>5, StartMotionInv DEF p

\* An accepted jump keeps the invariant.
LEMMA RequestJumpInv ==
  ASSUME IInv, NEW pos \in Cell, RequestJump(pos)
  PROVE  IInv'
<1> DEFINE p == grid[pos]
<1>1. p \in Piece
  BY PieceAssumption DEF RequestJump, IInv, TypeOK
<1>2. /\ MayAct(p)
      /\ StartMotion(p, "jump", pos, NoCell, JumpMs)
      /\ state' = [state EXCEPT ![p] = "jumping"]
      /\ UNCHANGED <<grid, cell, kind, rest, gameOver, winner, loop>>
      /\ airborne' \in Cell \cup {NoCell}
  BY DEF RequestJump
<1>3. JumpMs \in Nat
  BY TimeAssumption
<1> HIDE DEF p
<1> QED
  BY <1>1, <1>2, <1>3, StartMotionInv DEF p

\* A resignation keeps the invariant.
LEMMA ForceGameOverInv ==
  ASSUME IInv, NEW color \in Verdicts, ForceGameOver(color)
  PROVE  IInv'
<1> USE DEF ForceGameOver, IInv
<1>1. TypeOK'
  BY PieceAssumption DEF TypeOK
<1>2. MotionShape' /\ GridCellAgree' /\ RestLedger' /\ StateLedger'
  BY DEF MotionShape, GridCellAgree, RestLedger, StateLedger, OnBoard,
         HasMotion, Moving, Jumping, Flying
<1> QED
  BY <1>1, <1>2
-----------------------------------------------------------------------------
(* A tick: the arbiter's part.                                             *)

\* Taking the pieces off some cells leaves a well-formed grid, and every
\* piece that is still on it stands where it stood.
LEMMA WithoutOriginsGrid ==
  ASSUME TypeOK, GridCellAgree, NEW S \in SUBSET Piece
  PROVE  /\ WithoutOrigins(S) \in [Cell -> Piece \cup {NoPiece}]
         /\ \A c \in Cell : WithoutOrigins(S)[c] # NoPiece =>
                /\ WithoutOrigins(S)[c] = grid[c]
                /\ cell[WithoutOrigins(S)[c]] = c
  BY DEF WithoutOrigins, TypeOK, GridCellAgree

\* The losers of the crossings were all under way, as MOVEs.
LEMMA LosersMove ==
  ASSUME NEW lost \in SUBSET Arrived, LosersOfCrossings(lost), NEW p \in lost
  PROVE  p \in Piece /\ Moving(p)
  BY DEF LosersOfCrossings, Crossing, Arrived, Moving, Flying

\* What the tick may decide about each motion.
LEMMA FateFacts ==
  ASSUME TypeOK, Pending = {},
         NEW lost \in SUBSET Arrived, LosersOfCrossings(lost), NEW p \in Piece
  PROVE  LET fate == FateOf(p, Arrived \ lost)
         IN  /\ fate \in {"arrives", "shot", "slain"} => Moving(p) /\ p \notin lost
             /\ fate = "lands" => Jumping(p) /\ p \notin lost
             /\ p \in lost => fate = "flying"
             /\ fate = "flying" /\ p \notin lost => p \notin Arrived
<1>1. HasMotion(p) => Flying(p)
  BY DEF Pending, Flying
<1>2. motion[p].type \in {"move", "jump", "none"}
  BY DEF TypeOK, Motion
<1>3. Slayers(p, Arrived \ lost) # {} => Moving(p) /\ p \notin Arrived
  BY DEF Slayers, LateFor
<1> QED
  BY <1>1, <1>2, <1>3 DEF FateOf, Arrived, Moving, Jumping, Flying, HasMotion

\* The motion a tick leaves to each piece, field by field.
LEMMA MotionAfterAdvance ==
  ASSUME TypeOK, NEW lost \in SUBSET Arrived, AdvanceMotions(lost), NEW p \in Piece
  PROVE  LET fate == FateOf(p, Arrived \ lost)
         IN  IF ~HasMotion(p) \/ p \in lost THEN motion'[p] = NoMotion
             ELSE /\ motion'[p].type = motion[p].type
                  /\ motion'[p].from = motion[p].from
                  /\ motion'[p].to = motion[p].to
                  /\ motion'[p].fate = fate
<1>1. motion'[p] = IF ~HasMotion(p) \/ p \in lost THEN NoMotion
                   ELSE Advanced(p, Arrived \ lost)
  BY DEF AdvanceMotions
<1>2. motion[p] \in Motion
  BY DEF TypeOK
<1>3. /\ Advanced(p, Arrived \ lost).type = motion[p].type
      /\ Advanced(p, Arrived \ lost).from = motion[p].from
      /\ Advanced(p, Arrived \ lost).to = motion[p].to
      /\ Advanced(p, Arrived \ lost).fate = FateOf(p, Arrived \ lost)
  BY <1>2 DEF Advanced, Motion
<1> QED
  BY <1>1, <1>3

\* A lapse of time, whatever collides in it, keeps the invariant.
LEMMA AdvanceTimeInv == ASSUME IInv, AdvanceTime PROVE IInv'
<1> USE DEF IInv
<1>1. PICK lost \in SUBSET Arrived :
          /\ LosersOfCrossings(lost)
          /\ AdvanceMotions(lost)
          /\ AdvanceRests(lost)
          /\ AdvanceStates(lost)
          /\ grid' = WithoutOrigins(lost)
          /\ gameOver' = (gameOver \/ KingAmong(lost))
  BY DEF AdvanceTime
<1>2. /\ loop = "running" /\ Pending = {}
      /\ UNCHANGED <<cell, kind, winner, loop>>
  BY DEF AdvanceTime
<1> DEFINE survivors == Arrived \ lost
           fate(p) == FateOf(p, survivors)
<1>3. lost \subseteq Piece /\ survivors \subseteq Piece
  BY DEF Arrived
<1>4. \A p \in Piece :
          /\ fate(p) \in {"arrives", "shot", "slain"} => Moving(p) /\ p \notin lost
          /\ fate(p) = "lands" => Jumping(p) /\ p \notin lost
          /\ p \in lost => fate(p) = "flying"
          /\ fate(p) \in Fate
  BY <1>1, <1>2, FateFacts, FateOfFate
<1>5. \A p \in Piece :
          IF ~HasMotion(p) \/ p \in lost THEN motion'[p] = NoMotion
          ELSE /\ motion'[p].type = motion[p].type
               /\ motion'[p].from = motion[p].from
               /\ motion'[p].to = motion[p].to
               /\ motion'[p].fate = fate(p)
  BY <1>1, MotionAfterAdvance
<1>6. \A p \in Piece :
          /\ rest'[p] = CASE fate(p) = "arrives" -> LongRestMs
                          [] fate(p) = "lands" -> ShortRestMs
                          [] OTHER -> Elapsed(rest[p])
          /\ state'[p] = IF RestEnds(p) THEN "idle"
                         ELSE IF p \in lost \/ fate(p) \in {"shot", "slain"}
                         THEN "captured" ELSE state[p]
  BY <1>1 DEF AdvanceRests, AdvanceStates
<1>7. \A p \in Piece : Moving(p) \/ Jumping(p) <=> HasMotion(p)
  <2> SUFFICES ASSUME NEW p \in Piece
               PROVE  Moving(p) \/ Jumping(p) <=> HasMotion(p)
    OBVIOUS
  <2>1. motion[p].type \in {"move", "jump", "none"}
    BY DEF TypeOK, Motion
  <2> QED
    BY <2>1, <1>2 DEF Pending, Moving, Jumping, Flying, HasMotion
<1>8. \A p \in Piece : p \in lost => Moving(p)
  BY <1>1, LosersMove
<1>9. \A p \in Piece : rest[p] \in Nat /\ state[p] \in State
  BY DEF TypeOK
<1>10. \A p \in Piece : HasMotion(p) => rest[p] = 0
  BY <1>2, <1>7 DEF RestLedger, Moving, Jumping, Flying
<1>11. \A p \in Piece : HasMotion(p) => ~RestEnds(p)
  BY <1>10 DEF RestEnds
<1>12. \A c \in Cell : grid'[c] # NoPiece => grid'[c] = grid[c] /\ cell[grid'[c]] = c
  BY <1>1, <1>3, WithoutOriginsGrid
<1>13. \A p \in Piece : OnBoard(p)' => OnBoard(p)
  BY <1>12, PieceAssumption DEF OnBoard
<1>14. TypeOK'
  <2>1. grid' \in [Cell -> Piece \cup {NoPiece}]
    BY <1>1, <1>3, WithoutOriginsGrid
  <2>2. motion' \in [Piece -> Motion]
    <3>1. \A p \in Piece : Advanced(p, survivors) \in Motion
      BY <1>3, AdvancedType
    <3> QED
      BY <1>1, <3>1, NoMotionType DEF AdvanceMotions
  <2>3. ahead' \in [Piece -> SUBSET Piece]
    BY <1>1 DEF AdvanceMotions, TypeOK
  <2>4. rest' \in [Piece -> Nat]
    <3>1. \A p \in Piece : rest'[p] \in Nat
      <4> TAKE p \in Piece
      <4>1. Elapsed(rest[p]) \in Nat
        BY <1>9, ElapsedNat
      <4> QED
        BY <1>6, <4>1, TimeAssumption
    <3>2. rest' = [p \in Piece |-> rest'[p]]
      BY <1>1 DEF AdvanceRests
    <3> QED
      BY <3>1, <3>2
  <2>5. state' \in [Piece -> State]
    <3>1. \A p \in Piece : state'[p] \in State
      BY <1>6, <1>9 DEF State
    <3>2. state' = [p \in Piece |-> state'[p]]
      BY <1>1 DEF AdvanceStates
    <3> QED
      BY <3>1, <3>2
  <2>6. airborne' \in Cell \cup {NoCell}
    BY <1>1 DEF AdvanceMotions, TypeOK
  <2>7. gameOver' \in BOOLEAN
    BY <1>1 DEF TypeOK, KingAmong
  <2> QED
    BY <1>2, <2>1, <2>2, <2>3, <2>4, <2>5, <2>6, <2>7 DEF TypeOK
<1>15. MotionShape'
  <2> SUFFICES ASSUME NEW p \in Piece
      PROVE /\ motion'[p].type = "none" => motion'[p].fate = "flying"
            /\ motion'[p].type = "move" =>
                   /\ motion'[p].from \in Cell
                   /\ motion'[p].to \in Cell
                   /\ motion'[p].from # motion'[p].to
            /\ motion'[p].type = "jump" => motion'[p].from \in Cell
            /\ motion'[p].fate \in {"arrives", "shot", "slain"} => motion'[p].type = "move"
            /\ motion'[p].fate = "lands" => motion'[p].type = "jump"
    BY DEF MotionShape
  <2>1. CASE ~HasMotion(p) \/ p \in lost
    BY <1>5, <2>1 DEF NoMotion
  <2>2. CASE HasMotion(p) /\ p \notin lost
    <3> HIDE DEF fate
    <3> QED
      BY <1>4, <1>5, <2>2 DEF MotionShape, HasMotion, Moving, Jumping
  <2> QED
    BY <2>1, <2>2
<1>16. GridCellAgree'
  BY <1>2, <1>12 DEF GridCellAgree
<1> HIDE DEF fate
<1>17. RestLedger'
  <2> SUFFICES ASSUME NEW p \in Piece
      PROVE /\ motion'[p].fate \in {"arrives", "lands"} => rest'[p] > 0
            /\ motion'[p].type # "none" /\ motion'[p].fate \notin {"arrives", "lands"}
                   => rest'[p] = 0
            /\ motion'[p].fate \in {"shot", "slain"} => state'[p] = "captured"
    BY DEF RestLedger, HasMotion
  <2>1. CASE ~HasMotion(p) \/ p \in lost
    BY <1>5, <2>1 DEF NoMotion
  <2>2. CASE HasMotion(p) /\ p \notin lost
    <3>1. Elapsed(rest[p]) = 0
      BY <1>10, <2>2, TimeAssumption DEF Elapsed
    <3> QED
      BY <1>5, <1>6, <1>11, <2>2, <3>1, TimeAssumption
  <2> QED
    BY <2>1, <2>2
<1>18. StateLedger'
  <2> SUFFICES ASSUME NEW p \in Piece, OnBoard(p)'
      PROVE /\ Moving(p)' => state'[p] = "moving"
            /\ Jumping(p)' => state'[p] = "jumping"
            /\ state'[p] = "moving" => motion'[p].type = "move"
            /\ state'[p] = "jumping" => motion'[p].type = "jump"
            /\ HasMotion(p)' => state'[p] \notin Resting
            /\ ~HasMotion(p)' => (state'[p] \in Resting <=> rest'[p] > 0)
    BY DEF StateLedger
  <2>1. /\ Moving(p) => state[p] = "moving"
        /\ Jumping(p) => state[p] = "jumping"
        /\ state[p] = "moving" => motion[p].type = "move"
        /\ state[p] = "jumping" => motion[p].type = "jump"
        /\ HasMotion(p) => state[p] \notin Resting
        /\ ~HasMotion(p) => (state[p] \in Resting <=> rest[p] > 0)
    BY <1>2, <1>13 DEF StateLedger
  <2>2. CASE p \in lost
    <3>1. rest[p] = 0 /\ ~RestEnds(p)
      BY <1>7, <1>8, <1>10, <1>11, <2>2
    <3>2. state'[p] = "captured" /\ rest'[p] = Elapsed(0)
      BY <1>4, <1>6, <2>2, <3>1
    <3> QED
      BY <1>5, <2>2, <3>2, TimeAssumption
         DEF NoMotion, HasMotion, Moving, Jumping, Flying, Resting, Elapsed
  <2>3. CASE ~HasMotion(p)
    <3>1. fate(p) \notin {"arrives", "lands", "shot", "slain"} /\ p \notin lost
      BY <1>4, <1>7, <1>8, <2>3
    <3>2. /\ rest'[p] = Elapsed(rest[p])
          /\ state'[p] = IF RestEnds(p) THEN "idle" ELSE state[p]
      BY <1>6, <3>1
    <3>3. state[p] \notin {"moving", "jumping"}
      BY <2>1, <2>3 DEF HasMotion
    <3>4. rest'[p] > 0 <=> rest[p] > 0 /\ ~RestEnds(p)
      BY <1>9, <3>2, TimeAssumption DEF Elapsed, RestEnds
    <3>5. ~HasMotion(p)' /\ ~Moving(p)' /\ ~Jumping(p)'
      BY <1>5, <2>3 DEF NoMotion, HasMotion, Moving, Jumping, Flying
    <3> QED
      BY <2>1, <2>3, <3>2, <3>3, <3>4, <3>5, <1>9 DEF Resting, RestEnds
  <2>4. CASE HasMotion(p) /\ p \notin lost
    <3>1. ~RestEnds(p)
      BY <1>11, <2>4
    <3>2. /\ motion'[p].type = motion[p].type
          /\ motion'[p].fate = fate(p)
      BY <1>5, <2>4
    <3>3. state'[p] = IF fate(p) \in {"shot", "slain"} THEN "captured" ELSE state[p]
      BY <1>6, <3>1, <2>4
    <3>4. HasMotion(p)' /\ (Moving(p)' => Moving(p)) /\ (Jumping(p)' => Jumping(p))
      BY <1>7, <2>4, <3>2 DEF HasMotion, Moving, Jumping, Flying
    <3> QED
      BY <2>1, <2>4, <3>2, <3>3, <3>4 DEF Resting, HasMotion, Moving, Jumping, Flying
  <2> QED
    BY <2>2, <2>3, <2>4
<1> QED
  BY <1>14, <1>15, <1>16, <1>17, <1>18
-----------------------------------------------------------------------------
(* A tick: the events of the arrivals.                                     *)

\* Dropping the motions of some pieces leaves the others as they were.
LEMMA DiscardFacts ==
  ASSUME TypeOK, MotionShape, NEW S \in SUBSET Piece, Discard(S)
  PROVE  /\ \A p \in Piece : motion'[p] = IF p \in S THEN NoMotion ELSE motion[p]
         /\ motion' \in [Piece -> Motion]
         /\ ahead' \in [Piece -> SUBSET Piece]
         /\ MotionShape'
<1>1. \A p \in Piece : motion'[p] = IF p \in S THEN NoMotion ELSE motion[p]
  BY DEF Discard
<1>2. motion' \in [Piece -> Motion]
  <2>1. \A p \in Piece : motion'[p] \in Motion
    BY <1>1, NoMotionType DEF TypeOK
  <2> QED
    BY <2>1 DEF Discard
<1>3. ahead' \in [Piece -> SUBSET Piece]
  BY DEF Discard, TypeOK
<1>4. MotionShape'
  BY <1>1 DEF MotionShape, NoMotion
<1> QED
  BY <1>1, <1>2, <1>3, <1>4

\* The victims of a late collision are pending pieces.
LEMMA SlainFacts ==
  ASSUME NEW p PROVE Slain(p) \subseteq Piece /\ Slain(p) \subseteq Pending
                     /\ \A q \in Slain(p) : motion[q].fate = "slain"
  BY DEF Slain, Pending

\* A rest event or an elimination that touches no piece but those whose
\* motion it drops keeps the ledgers: S is dropped, grid may lose pieces.
LEMMA LedgersKept ==
  ASSUME IInv, NEW S \in SUBSET Piece, Discard(S), UNCHANGED <<rest, loop>>,
         \A q \in Piece : OnBoard(q)' => OnBoard(q),
         \A q \in Piece : q \notin S /\ OnBoard(q)' => state'[q] = state[q],
         \A q \in Piece : q \notin S /\ state'[q] # state[q] => state'[q] = "captured",
         \A q \in S : OnBoard(q)' => /\ state'[q] \in {"captured"} \cup Resting
                                     /\ state'[q] \in Resting <=> rest[q] > 0
  PROVE  RestLedger' /\ StateLedger'
<1> USE DEF IInv
<1>1. \A q \in Piece : motion'[q] = IF q \in S THEN NoMotion ELSE motion[q]
  BY DiscardFacts
<1>2. RestLedger'
  BY <1>1 DEF RestLedger, HasMotion, NoMotion
<1>3. StateLedger'
  <2> SUFFICES ASSUME loop' = "running", NEW q \in Piece, OnBoard(q)'
      PROVE /\ Moving(q)' => state'[q] = "moving"
            /\ Jumping(q)' => state'[q] = "jumping"
            /\ state'[q] = "moving" => motion'[q].type = "move"
            /\ state'[q] = "jumping" => motion'[q].type = "jump"
            /\ HasMotion(q)' => state'[q] \notin Resting
            /\ ~HasMotion(q)' => (state'[q] \in Resting <=> rest'[q] > 0)
    BY DEF StateLedger
  <2>1. CASE q \in S
    <3>1. ~HasMotion(q)' /\ ~Moving(q)' /\ ~Jumping(q)'
      BY <1>1, <2>1 DEF NoMotion, HasMotion, Moving, Jumping, Flying
    <3> QED
      BY <2>1, <3>1 DEF Resting
  <2>2. CASE q \notin S
    <3>1. OnBoard(q) /\ state'[q] = state[q] /\ motion'[q] = motion[q]
      BY <1>1, <2>2
    <3> QED
      BY <3>1 DEF StateLedger, HasMotion, Moving, Jumping, Flying
  <2> QED
    BY <2>1, <2>2
<1> QED
  BY <1>2, <1>3

\* An air capture keeps the invariant.
LEMMA ApplyAirCaptureInv ==
  ASSUME IInv, NEW p \in Piece, ApplyAirCapture(p) PROVE IInv'
<1> USE DEF IInv
<1> DEFINE S == Slain(p) \cup {p}
<1>1. /\ motion[p].fate = "shot"
      /\ grid' = WithoutOrigins(S)
      /\ gameOver' = (gameOver \/ KingAmong(S))
      /\ Discard(S)
      /\ UNCHANGED <<cell, kind, state, rest, airborne, winner, loop>>
  BY DEF ApplyAirCapture
<1>2. S \in SUBSET Piece /\ \A q \in S : motion[q].fate \in {"slain", "shot"}
  BY <1>1, SlainFacts
<1> HIDE DEF S
<1>3. /\ grid' \in [Cell -> Piece \cup {NoPiece}]
      /\ \A c \in Cell : grid'[c] # NoPiece => grid'[c] = grid[c] /\ cell[grid'[c]] = c
  BY <1>1, <1>2, WithoutOriginsGrid
<1>4. TypeOK'
  BY <1>1, <1>2, <1>3, DiscardFacts DEF TypeOK, KingAmong
<1>5. GridCellAgree'
  BY <1>1, <1>3 DEF GridCellAgree
<1>6. \A q \in Piece : OnBoard(q)' => OnBoard(q)
  BY <1>3, PieceAssumption DEF OnBoard
<1>7. loop = "running" => \A q \in S : state[q] = "captured" /\ rest[q] = 0
  BY <1>2 DEF RestLedger, MotionShape, HasMotion
<1>8. RestLedger' /\ StateLedger'
  <2>1. CASE loop = "running"
    BY <1>1, <1>2, <1>6, <1>7, <2>1, LedgersKept DEF Resting
  <2>2. CASE loop # "running"
    BY <1>1, <2>2 DEF RestLedger, StateLedger
  <2> QED
    BY <2>1, <2>2
<1> QED
  BY <1>1, <1>2, <1>4, <1>5, <1>8, DiscardFacts

\* A landing keeps the invariant.
LEMMA ApplyLandingInv ==
  ASSUME IInv, NEW p \in Piece, ApplyLanding(p) PROVE IInv'
<1> USE DEF IInv
<1>1. /\ motion[p].fate = "lands"
      /\ state' = [state EXCEPT ![p] = "short_rest"]
      /\ Discard({p})
      /\ UNCHANGED <<grid, cell, kind, rest, airborne, gameOver, winner, loop>>
  BY DEF ApplyLanding
<1>2. {p} \in SUBSET Piece
  OBVIOUS
<1>3. TypeOK'
  BY <1>1, <1>2, DiscardFacts DEF TypeOK, State
<1>4. GridCellAgree'
  BY <1>1 DEF GridCellAgree
<1>5. \A q \in Piece : OnBoard(q)' <=> OnBoard(q)
  BY <1>1 DEF OnBoard
<1>6. state'[p] = "short_rest" /\ \A q \in Piece \ {p} : state'[q] = state[q]
  BY <1>1 DEF TypeOK
<1>7. RestLedger' /\ StateLedger'
  <2>1. CASE loop = "running"
    <3>1. rest[p] > 0
      BY <1>1, <2>1 DEF RestLedger
    <3> QED
      BY <1>1, <1>2, <1>5, <1>6, <3>1, LedgersKept DEF Resting
  <2>2. CASE loop # "running"
    BY <1>1, <2>2 DEF RestLedger, StateLedger
  <2> QED
    BY <2>1, <2>2
<1> QED
  BY <1>1, <1>2, <1>3, <1>4, <1>7, DiscardFacts

\* A move that raises keeps the invariant.
LEMMA ApplyMoveRaisesInv ==
  ASSUME IInv, NEW p \in Piece, ApplyMoveRaises(p) PROVE IInv'
<1> USE DEF IInv
<1>1. /\ grid' = WithoutOrigins(Slain(p))
      /\ gameOver' = (gameOver \/ KingAmong(Slain(p)))
      /\ Discard(Pending)
      /\ loop' = "dead"
      /\ UNCHANGED <<cell, kind, state, rest, airborne, winner>>
  BY DEF ApplyMoveRaises
<1>2. Slain(p) \in SUBSET Piece /\ Pending \in SUBSET Piece
  BY SlainFacts DEF Pending
<1>3. /\ grid' \in [Cell -> Piece \cup {NoPiece}]
      /\ \A c \in Cell : grid'[c] # NoPiece => grid'[c] = grid[c] /\ cell[grid'[c]] = c
  BY <1>1, <1>2, WithoutOriginsGrid
<1>4. TypeOK'
  BY <1>1, <1>2, <1>3, DiscardFacts DEF TypeOK, KingAmong
<1>5. GridCellAgree'
  BY <1>1, <1>3 DEF GridCellAgree
<1>6. RestLedger' /\ StateLedger'
  BY <1>1 DEF RestLedger, StateLedger
<1> QED
  BY <1>1, <1>2, <1>4, <1>5, <1>6, DiscardFacts

\* The grid after a move: the mover is on its destination only, and every
\* other piece that is still on the board stands where it stood.
LEMMA MoveOnBoardGrid ==
  ASSUME IInv, NEW p \in Piece, ApplyMove(p)
  PROVE  LET from == motion[p].from
             to == motion[p].to
             board == WithoutOrigins(Slain(p))
             mover == board[from]
         IN  /\ from \in Cell /\ to \in Cell /\ from # to
             /\ mover \in Piece /\ grid[from] = mover /\ cell[mover] = from
             /\ board \in [Cell -> Piece \cup {NoPiece}]
             /\ grid' = [board EXCEPT ![from] = NoPiece, ![to] = mover]
             /\ cell' = [cell EXCEPT ![mover] = to]
             /\ \A c \in Cell : board[c] # NoPiece =>
                    board[c] = grid[c] /\ cell[board[c]] = c
<1> USE DEF IInv
<1>1. motion[p].from \in Cell /\ motion[p].to \in Cell /\ motion[p].from # motion[p].to
  BY DEF ApplyMove, MotionShape
<1>2. Slain(p) \in SUBSET Piece
  BY SlainFacts
<1>3. /\ WithoutOrigins(Slain(p)) \in [Cell -> Piece \cup {NoPiece}]
      /\ \A c \in Cell : WithoutOrigins(Slain(p))[c] # NoPiece =>
             /\ WithoutOrigins(Slain(p))[c] = grid[c]
             /\ cell[WithoutOrigins(Slain(p))[c]] = c
  BY <1>2, WithoutOriginsGrid
<1> QED
  BY <1>1, <1>3 DEF ApplyMove, MoveOnBoard, Mover, Relabelled

\* A move that arrives keeps the invariant, whatever piece it moves.
LEMMA ApplyMoveInv ==
  ASSUME IInv, NEW p \in Piece, ApplyMove(p) PROVE IInv'
<1> USE DEF IInv
<1> DEFINE from == motion[p].from
           to == motion[p].to
           board == WithoutOrigins(Slain(p))
           mover == board[from]
           target == board[to]
           S == Slain(p) \cup {p}
<1>1. /\ motion[p].fate = "arrives"
      /\ Discard(S)
      /\ UNCHANGED <<rest, airborne, winner, loop>>
  BY DEF ApplyMove
<1>2. /\ kind' = IF kind[p] = "P" /\ cell'[p][1] = PromotionRow(PieceColor[p])
                 THEN [kind EXCEPT ![p] = "Q"] ELSE kind
      /\ state' = [q \in Piece |->
                      IF q = p THEN "long_rest"
                      ELSE IF q = target THEN "captured" ELSE state[q]]
      /\ gameOver' = (gameOver \/ KingAmong(Slain(p))
                      \/ (target # NoPiece /\ kind[target] = "K"))
  BY DEF ApplyMove, MoveOnBoard
<1>3. /\ from \in Cell /\ to \in Cell /\ from # to
      /\ mover \in Piece /\ grid[from] = mover /\ cell[mover] = from
      /\ board \in [Cell -> Piece \cup {NoPiece}]
      /\ grid' = [board EXCEPT ![from] = NoPiece, ![to] = mover]
      /\ cell' = [cell EXCEPT ![mover] = to]
      /\ \A c \in Cell : board[c] # NoPiece => board[c] = grid[c] /\ cell[board[c]] = c
  BY MoveOnBoardGrid
<1>4. S \in SUBSET Piece /\ \A q \in Slain(p) : motion[q].fate = "slain"
  BY SlainFacts
<1> HIDE DEF from, to, board
<1>5. \A c \in Cell : grid'[c] = IF c = to THEN mover
                                 ELSE IF c = from THEN NoPiece ELSE board[c]
  BY <1>3
<1>6. \A q \in Piece : cell'[q] = IF q = mover THEN to ELSE cell[q]
  BY <1>3 DEF TypeOK
<1>7. \A q \in Piece : OnBoard(q)' => OnBoard(q) /\ (q # mover => q # target)
  <2> SUFFICES ASSUME NEW q \in Piece, NEW c \in Cell, grid'[c] = q
               PROVE  OnBoard(q) /\ (q # mover => q # target)
    BY DEF OnBoard
  <2>1. CASE c = to
    BY <1>3, <1>5, <2>1 DEF OnBoard
  <2>2. CASE c # to
    <3>1. q = board[c] /\ q # NoPiece
      BY <1>5, <2>2, PieceAssumption
    <3>2. q = grid[c] /\ cell[q] = c
      BY <1>3, <3>1
    <3>3. q = target => cell[q] = to
      BY <1>3, <3>1
    <3> QED
      BY <2>2, <3>2, <3>3 DEF OnBoard
  <2> QED
    BY <2>1, <2>2
<1>8. mover # target
  BY <1>3, PieceAssumption
<1> HIDE DEF mover, target
<1>9. TypeOK'
  <2>1. grid' \in [Cell -> Piece \cup {NoPiece}]
    BY <1>3
  <2>2. cell' \in [Piece -> Cell]
    BY <1>3 DEF TypeOK
  <2>3. kind' \in [Piece -> Kind]
    BY <1>2 DEF TypeOK, Kind
  <2>4. state' \in [Piece -> State]
    <3>1. \A q \in Piece : state'[q] \in State
      BY <1>2 DEF TypeOK, State
    <3> QED
      BY <1>2, <3>1
  <2>5. gameOver' \in BOOLEAN
    BY <1>2 DEF TypeOK, KingAmong
  <2> QED
    BY <1>1, <1>4, <2>1, <2>2, <2>3, <2>4, <2>5, DiscardFacts DEF TypeOK
<1>10. GridCellAgree'
  <2> SUFFICES ASSUME NEW c \in Cell, grid'[c] # NoPiece
               PROVE  cell'[grid'[c]] = c
    BY DEF GridCellAgree
  <2>1. CASE c = to
    BY <1>3, <1>5, <1>6, <2>1
  <2>2. CASE c # to
    <3>1. c # from /\ grid'[c] = board[c]
      BY <1>5, <2>2
    <3>2. grid'[c] \in Piece /\ cell[grid'[c]] = c
      BY <1>3, <3>1
    <3>3. grid'[c] # mover
      BY <1>3, <3>1, <3>2
    <3> QED
      BY <1>6, <3>2, <3>3
  <2> QED
    BY <2>1, <2>2
<1>11. \A q \in Piece : state'[q] = IF q = p THEN "long_rest"
                                    ELSE IF q = target THEN "captured" ELSE state[q]
  BY <1>2
<1>12. RestLedger' /\ StateLedger'
  <2>1. CASE loop = "running"
    <3>1. rest[p] > 0
      BY <1>1, <2>1 DEF RestLedger
    <3>2. \A q \in Slain(p) : state[q] = "captured" /\ rest[q] = 0 /\ q # p
      BY <1>1, <1>4, <2>1 DEF RestLedger, MotionShape, HasMotion
    <3>3. \A q \in Piece : OnBoard(q)' /\ q # p => state'[q] = state[q]
      BY <1>7, <1>8, <1>11
    <3>4. \A q \in S : OnBoard(q)' => /\ state'[q] \in {"captured"} \cup Resting
                                      /\ state'[q] \in Resting <=> rest[q] > 0
      BY <1>4, <1>11, <3>1, <3>2, <3>3 DEF Resting
    <3>5. \A q \in Piece : q \notin S /\ state'[q] # state[q] => state'[q] = "captured"
      BY <1>11
    <3>6. \A q \in Piece : OnBoard(q)' => OnBoard(q)
      BY <1>7
    <3>7. \A q \in Piece : q \notin S /\ OnBoard(q)' => state'[q] = state[q]
      BY <3>3
    <3>8. UNCHANGED <<rest, loop>> /\ Discard(S)
      BY <1>1
    <3> HIDE DEF S
    <3> QED
      BY <1>4, <3>4, <3>5, <3>6, <3>7, <3>8, LedgersKept
  <2>2. CASE loop # "running"
    BY <1>1, <2>2 DEF RestLedger, StateLedger
  <2> QED
    BY <2>1, <2>2
<1> QED
  BY <1>1, <1>4, <1>9, <1>10, <1>12, DiscardFacts
-----------------------------------------------------------------------------
(* The invariant and what follows from it.                                 *)

\* IInv is inductive: one case per action.
LEMMA NextInv == IInv /\ [Next]_vars => IInv'
<1> SUFFICES ASSUME IInv, [Next]_vars PROVE IInv'
  OBVIOUS
<1>1. ASSUME NEW source \in Cell, NEW dest \in Cell, RequestMove(source, dest)
      PROVE  IInv'
  BY <1>1, RequestMoveInv
<1>2. ASSUME NEW pos \in Cell, RequestJump(pos) PROVE IInv'
  BY <1>2, RequestJumpInv
<1>3. ASSUME NEW color \in Verdicts, ForceGameOver(color) PROVE IInv'
  BY <1>3, ForceGameOverInv
<1>4. CASE AdvanceTime
  BY <1>4, AdvanceTimeInv
<1>5. ASSUME NEW p \in Piece, ApplyMove(p) PROVE IInv'
  BY <1>5, ApplyMoveInv
<1>6. ASSUME NEW p \in Piece, ApplyMoveRaises(p) PROVE IInv'
  BY <1>6, ApplyMoveRaisesInv
<1>7. ASSUME NEW p \in Piece, ApplyAirCapture(p) PROVE IInv'
  BY <1>7, ApplyAirCaptureInv
<1>8. ASSUME NEW p \in Piece, ApplyLanding(p) PROVE IInv'
  BY <1>8, ApplyLandingInv
<1>9. CASE UNCHANGED vars
  BY <1>9 DEF vars, IInv, TypeOK, MotionShape, GridCellAgree, RestLedger,
              StateLedger, OnBoard, HasMotion, Moving, Jumping, Flying
<1> QED
  BY <1>1, <1>2, <1>3, <1>4, <1>5, <1>6, <1>7, <1>8, <1>9
     DEF Next, Tick, ApplyArrival

\* The inductive invariant holds in every reachable state.
THEOREM Invariance == Spec => []IInv
  BY InitInv, NextInv, PTL DEF Spec

\* Every variable keeps its type, whatever is captured or collides.
THEOREM TypeCorrect == Spec => []TypeOK
<1>1. IInv => TypeOK
  BY DEF IInv
<1> QED
  BY <1>1, Invariance, PTL

\* The grid and the pieces' own cells agree in every reachable state, also
\* after the wrong piece was moved or removed: the rules, which read the
\* piece's cell, and the commands, which name a cell of the grid, always
\* speak of the same square.
THEOREM GridCellAgreement == Spec => []GridCellAgree
<1>1. IInv => GridCellAgree
  BY DEF IInv
<1> QED
  BY <1>1, Invariance, PTL

\* No piece is under way or in the air while a rest of its own is running.
THEOREM NoActionDuringRest == Spec => []MotionExcludesRest
<1>1. IInv => MotionExcludesRest
  BY DEF IInv, RestLedger, MotionExcludesRest, Flying
<1> QED
  BY <1>1, Invariance, PTL

\* Between two ticks the state of every piece on the board is what the
\* arbiter holds for it, so none is stuck moving, jumping or resting.
THEOREM StatesMatchArbiter == Spec => []StateMatchesArbiter
<1>1. IInv => StateMatchesArbiter
  <2> SUFFICES ASSUME IInv, loop = "running", Pending = {},
                      NEW p \in Piece, OnBoard(p)
      PROVE /\ state[p] = "moving" <=> Moving(p)
            /\ state[p] = "jumping" <=> Jumping(p)
            /\ state[p] \in Resting <=> rest[p] > 0
    BY DEF StateMatchesArbiter
  <2>1. HasMotion(p) => Flying(p)
    BY DEF Pending, Flying
  <2>2. HasMotion(p) => rest[p] = 0
    BY <2>1 DEF IInv, RestLedger, Flying
  <2> QED
    BY <2>1, <2>2 DEF IInv, StateLedger, HasMotion, Moving, Jumping, Flying
<1> QED
  BY <1>1, Invariance, PTL
-----------------------------------------------------------------------------
(* The airborne marker.                                                    *)

\* A jump that a tick does not land keeps its cell and goes on.
LEMMA JumpGoesOn ==
  ASSUME TypeOK, NEW lost \in SUBSET Arrived, LosersOfCrossings(lost),
         AdvanceMotions(lost), NEW j \in Piece, Jumping(j), j \notin Arrived
  PROVE  Jumping(j)' /\ motion'[j].from = motion[j].from
<1>1. j \notin lost /\ j \notin Arrived \ lost
  OBVIOUS
<1>2. Slayers(j, Arrived \ lost) = {}
  BY DEF Slayers, LateFor, Moving, Jumping
<1>3. FateOf(j, Arrived \ lost) = "flying"
  BY <1>1, <1>2 DEF FateOf
<1>4. HasMotion(j)
  BY DEF Jumping, Flying
<1> QED
  BY <1>1, <1>3, <1>4, MotionAfterAdvance DEF Jumping, Flying, HasMotion

\* A jump that ends in a tick resets the marker.
LEMMA LandingUnmarks ==
  ASSUME NEW lost \in SUBSET Arrived, LosersOfCrossings(lost),
         AdvanceMotions(lost), NEW j \in Arrived, Jumping(j)
  PROVE  airborne' = NoCell
<1>1. j \in Arrived \ lost
  BY LosersMove DEF Moving, Jumping
<1>2. FateOf(j, Arrived \ lost) = "lands"
  BY <1>1 DEF FateOf, Jumping
<1> QED
  BY <1>1, <1>2 DEF AdvanceMotions, Unmarking

\* No step leaves the airborne marker without an active jump.
LEMMA NextMarker == IInv /\ MarkerHasJump /\ [Next]_vars => MarkerHasJump'
<1> SUFFICES ASSUME IInv, MarkerHasJump, [Next]_vars, airborne' # NoCell
             PROVE  \E p \in Piece : Jumping(p)' /\ motion'[p].from = airborne'
  BY DEF MarkerHasJump
<1>1. CASE airborne' = airborne
  <2>1. PICK j \in Piece : Jumping(j) /\ motion[j].from = airborne
    BY <1>1 DEF MarkerHasJump
  <2>2. HasMotion(j) /\ j \notin Pending
    BY <2>1 DEF Jumping, Flying, Pending
  <2>3. CASE motion'[j] = motion[j]
    BY <1>1, <2>1, <2>3 DEF Jumping, Flying, HasMotion
  <2>4. ASSUME NEW p, NEW type, NEW from, NEW to, NEW ms,
               StartMotion(p, type, from, to, ms), MayAct(p)
        PROVE  motion'[j] = motion[j]
    BY <2>2, <2>4 DEF StartMotion, MayAct, IInv, TypeOK
  <2>5. ASSUME NEW S, Discard(S), S \subseteq Pending
        PROVE  motion'[j] = motion[j]
    BY <2>2, <2>5 DEF Discard
  <2>6. CASE AdvanceTime
    <3>1. PICK lost \in SUBSET Arrived : LosersOfCrossings(lost) /\ AdvanceMotions(lost)
      BY <2>6 DEF AdvanceTime
    <3>2. CASE j \in Arrived
      BY <1>1, <2>1, <3>1, <3>2, LandingUnmarks
    <3>3. CASE j \notin Arrived
      BY <1>1, <2>1, <3>1, <3>3, JumpGoesOn DEF IInv
    <3> QED
      BY <3>2, <3>3
  <2>7. ASSUME NEW p \in Piece, ApplyArrival(p) PROVE motion'[j] = motion[j]
    <3>1. Slain(p) \cup {p} \subseteq Pending \/ ~NextToApply(p)
      BY SlainFacts DEF NextToApply
    <3> QED
      BY <2>5, <2>7, <3>1
         DEF ApplyArrival, ApplyMove, ApplyMoveRaises, ApplyAirCapture,
             ApplyLanding, NextToApply
  <2>8. ASSUME NEW source \in Cell, NEW dest \in Cell, RequestMove(source, dest)
        PROVE  motion'[j] = motion[j]
    BY <2>4, <2>8 DEF RequestMove
  <2>9. ASSUME NEW pos \in Cell, RequestJump(pos) PROVE motion'[j] = motion[j]
    BY <2>4, <2>9 DEF RequestJump
  <2> QED
    BY <2>3, <2>6, <2>7, <2>8, <2>9 DEF Next, Tick, ForceGameOver, vars
<1>2. CASE airborne' # airborne
  <2>1. PICK pos \in Cell : RequestJump(pos)
    <3>1. ~AdvanceTime
      BY <1>2 DEF AdvanceTime, AdvanceMotions
    <3> QED
      BY <1>2, <3>1 DEF Next, Tick, vars, RequestMove, ForceGameOver, ApplyArrival,
                        ApplyMove, ApplyMoveRaises, ApplyAirCapture, ApplyLanding
  <2>2. grid[pos] \in Piece
    BY <2>1 DEF RequestJump, IInv, TypeOK
  <2>3. /\ airborne' = pos
        /\ motion' = [motion EXCEPT ![grid[pos]] =
                         [type |-> "jump", from |-> pos, to |-> NoCell,
                          left |-> JumpMs, fate |-> "flying", slayer |-> {}]]
    BY <2>1 DEF RequestJump, StartMotion
  <2> QED
    BY <2>2, <2>3 DEF Jumping, Flying, HasMotion, IInv, TypeOK
<1> QED
  BY <1>1, <1>2

\* The airborne marker always belongs to a jump that is still active and
\* will reset it: no cell stays marked, and jumping is never blocked for good.
THEOREM MarkerCorrect == Spec => []MarkerHasJump
<1>1. Init => MarkerHasJump
  BY DEF Init, MarkerHasJump
<1> QED
  BY <1>1, NextMarker, Invariance, PTL DEF Spec
-----------------------------------------------------------------------------
(* Action properties.                                                      *)

\* No step puts a piece that is off the board on it.
LEMMA NextNoReturn ==
  IInv /\ [Next]_vars => \A p \in Piece : OnBoard(p)' => OnBoard(p)
<1> SUFFICES ASSUME IInv, [Next]_vars, NEW q \in Piece, OnBoard(q)'
             PROVE  OnBoard(q)
  OBVIOUS
<1> USE DEF IInv
<1>1. CASE grid' = grid
  BY <1>1 DEF OnBoard
<1>2. ASSUME NEW S \in SUBSET Piece, grid' = WithoutOrigins(S)
      PROVE  OnBoard(q)
  <2>1. \A c \in Cell : grid'[c] # NoPiece => grid'[c] = grid[c]
    BY <1>2, WithoutOriginsGrid
  <2> QED
    BY <2>1, PieceAssumption DEF OnBoard
<1>3. CASE AdvanceTime
  BY <1>2, <1>3 DEF AdvanceTime, Arrived
<1>4. ASSUME NEW p \in Piece, ApplyMove(p) PROVE OnBoard(q)
  <2>1. PICK c \in Cell : grid'[c] = q
    BY DEF OnBoard
  <2> QED
    BY <1>4, <2>1, MoveOnBoardGrid, PieceAssumption DEF OnBoard
<1>5. ASSUME NEW p \in Piece, ApplyMoveRaises(p) PROVE OnBoard(q)
  BY <1>2, <1>5, SlainFacts DEF ApplyMoveRaises
<1>6. ASSUME NEW p \in Piece, ApplyAirCapture(p) PROVE OnBoard(q)
  <2>1. Slain(p) \cup {p} \in SUBSET Piece
    BY SlainFacts
  <2> QED
    BY <1>2, <1>6, <2>1 DEF ApplyAirCapture
<1> QED
  BY <1>1, <1>3, <1>4, <1>5, <1>6
     DEF Next, Tick, ApplyArrival, ApplyLanding, RequestMove, RequestJump,
         ForceGameOver, vars

\* A piece that has left the board never comes back, although its motion may
\* still be in the arbiter and move whatever stands where it stood.
THEOREM CapturedForGood == Spec => NoReturn
<1>1. IInv /\ [Next]_vars => [\A p \in Piece : ~OnBoard(p) => ~OnBoard(p)']_vars
  BY NextNoReturn
<1> QED
  BY <1>1, Invariance, PTL DEF Spec, NoReturn

\* No step reopens the game or, when it is closed, starts a motion.
LEMMA NextGameOver ==
  IInv /\ [Next]_vars /\ gameOver =>
      gameOver' /\ \A p \in Piece : HasMotion(p)' => HasMotion(p)
<1> SUFFICES ASSUME IInv, [Next]_vars, gameOver
             PROVE  gameOver' /\ \A p \in Piece : HasMotion(p)' => HasMotion(p)
  OBVIOUS
<1>1. CASE AdvanceTime
  <2>1. \A p \in Piece : HasMotion(p)' => HasMotion(p)
    BY <1>1 DEF AdvanceTime, AdvanceMotions, HasMotion, NoMotion
  <2> QED
    BY <1>1, <2>1 DEF AdvanceTime
<1>2. ASSUME NEW p \in Piece, ApplyArrival(p)
      PROVE  gameOver' /\ \A q \in Piece : HasMotion(q)' => HasMotion(q)
  <2>1. \E S : Discard(S)
    BY <1>2 DEF ApplyArrival, ApplyMove, ApplyMoveRaises, ApplyAirCapture, ApplyLanding
  <2>2. \A q \in Piece : HasMotion(q)' => HasMotion(q)
    BY <2>1 DEF Discard, HasMotion, NoMotion
  <2>3. gameOver'
    BY <1>2 DEF ApplyArrival, ApplyMove, MoveOnBoard, ApplyMoveRaises,
                ApplyAirCapture, ApplyLanding
  <2> QED
    BY <2>2, <2>3
<1>3. ASSUME NEW color \in Verdicts, ForceGameOver(color)
      PROVE  gameOver' /\ \A q \in Piece : HasMotion(q)' => HasMotion(q)
  BY <1>3 DEF ForceGameOver, HasMotion
<1>4. ASSUME NEW source \in Cell, NEW dest \in Cell, RequestMove(source, dest)
      PROVE  FALSE
  BY <1>4 DEF RequestMove, MayAct
<1>5. ASSUME NEW pos \in Cell, RequestJump(pos) PROVE FALSE
  BY <1>5 DEF RequestJump, MayAct
<1>6. CASE UNCHANGED vars
  BY <1>6 DEF vars, HasMotion
<1> QED
  BY <1>1, <1>2, <1>3, <1>4, <1>5, <1>6 DEF Next, Tick

\* The end of the game is final, and nothing is set in motion after it.
THEOREM GameOverFinal == Spec => GameOverIsFinal
<1>1. IInv /\ [Next]_vars =>
          [gameOver => gameOver' /\ \A p \in Piece : HasMotion(p)' => HasMotion(p)]_vars
  BY NextGameOver
<1> QED
  BY <1>1, Invariance, PTL DEF Spec, GameOverIsFinal
-----------------------------------------------------------------------------
(* The order of the list of motions.                                       *)

\* The pieces before each motion in _active_motions are a strict linear order
\* of those under way.
ListOrder ==
    /\ \A p, q \in Piece :
          p \in ahead[q] => HasMotion(p) /\ HasMotion(q) /\ q \notin ahead[p]
    /\ \A p, q \in Piece :
          HasMotion(p) /\ HasMotion(q) /\ p # q => p \in ahead[q] \/ q \in ahead[p]
    /\ \A p, q, o \in Piece : p \in ahead[q] /\ q \in ahead[o] => p \in ahead[o]

\* There are only so many pieces: each has a cell of its own at the start.
LEMMA FinitelyManyPieces == IsFiniteSet(Piece)
<1>1. IsFiniteSet(Cell)
  <2>1. IsFiniteSet(0 .. Height - 1) /\ IsFiniteSet(0 .. Width - 1)
    BY BoardAssumption, FS_Interval
  <2> QED
    BY <2>1, FS_Product DEF Cell
<1>2. InitCell \in Injection(Piece, Cell)
  BY PieceAssumption DEF Injection, IsInjective
<1> QED
  BY <1>1, <1>2, FS_Injection

\* Of some motions one was started first.
LEMMA OldestExists ==
  ASSUME TypeOK, ListOrder, NEW S \in SUBSET Piece, S # {}, \A p \in S : HasMotion(p)
  PROVE  Oldest(S) # {}
<1> DEFINE T == {ahead[p] : p \in S}
           R == StrictSubsetOrdering(Piece)
<1>1. T \subseteq SUBSET Piece /\ T # {}
  BY DEF TypeOK
<1>2. IsWellFoundedOn(R, SUBSET Piece)
  BY FinitelyManyPieces, FS_StrictSubsetOrderingWellFounded, FS_FiniteSubsetsOfFinite
<1>3. \E x \in T : \A y \in T : ~(<<y, x>> \in R)
  <2> HIDE DEF T, R
  <2> QED
    BY <1>1, <1>2, WFMin
<1>4. PICK p \in S : \A o \in S : ~(<<ahead[o], ahead[p]>> \in R)
  BY <1>3
<1>5. ASSUME NEW o \in S \ {p}
      PROVE  p \in ahead[o]
  <2> SUFFICES ASSUME p \notin ahead[o]
               PROVE  FALSE
    OBVIOUS
  <2>1. o \in ahead[p] /\ o \notin ahead[o]
    BY DEF ListOrder
  <2>2. ahead[o] \subseteq ahead[p] /\ ahead[o] # ahead[p]
    <3>1. ahead[o] \subseteq Piece
      BY DEF TypeOK
    <3> QED
      BY <2>1, <3>1 DEF ListOrder
  <2>3. ahead[o] \in SUBSET Piece /\ ahead[p] \in SUBSET Piece
    BY DEF TypeOK
  <2>4. <<ahead[o], ahead[p]>> \in R
    BY <2>2, <2>3 DEF StrictSubsetOrdering
  <2> QED
    BY <1>4, <2>4
<1> QED
  BY <1>5 DEF Oldest

\* Whatever loses its motion leaves the list, and the others keep their order.
LEMMA ListOrderWithout ==
  ASSUME ListOrder, NEW S \in SUBSET Piece,
         ahead' = [p \in Piece |-> IF p \in S THEN {} ELSE ahead[p] \ S],
         \A p \in Piece : HasMotion(p)' <=> HasMotion(p) /\ p \notin S
  PROVE  ListOrder'
<1>1. \A p, q \in Piece : p \in ahead'[q] <=> p \in ahead[q] /\ p \notin S /\ q \notin S
  OBVIOUS
<1>2. ASSUME NEW p \in Piece, NEW q \in Piece
      PROVE  /\ p \in ahead'[q] => HasMotion(p)' /\ HasMotion(q)' /\ q \notin ahead'[p]
             /\ HasMotion(p)' /\ HasMotion(q)' /\ p # q => p \in ahead'[q] \/ q \in ahead'[p]
  BY <1>1 DEF ListOrder
<1>3. \A p, q, o \in Piece : p \in ahead'[q] /\ q \in ahead'[o] => p \in ahead'[o]
  BY <1>1 DEF ListOrder
<1> QED
  BY <1>2, <1>3 DEF ListOrder

\* A new motion comes after the others.
LEMMA ListOrderStart ==
  ASSUME TypeOK, ListOrder, NEW p \in Piece, ~HasMotion(p), NEW type \in {"move", "jump"},
         NEW from, NEW to, NEW ms, StartMotion(p, type, from, to, ms)
  PROVE  ListOrder'
<1>1. \A q \in Piece : HasMotion(q)' <=> HasMotion(q) \/ q = p
  BY DEF StartMotion, HasMotion, TypeOK
<1>2. \A q, o \in Piece : q \in ahead'[o] <=> IF o = p THEN HasMotion(q) ELSE q \in ahead[o]
  BY DEF StartMotion, TypeOK
<1>3. ASSUME NEW q \in Piece, NEW o \in Piece
      PROVE  /\ q \in ahead'[o] => HasMotion(q)' /\ HasMotion(o)' /\ o \notin ahead'[q]
             /\ HasMotion(q)' /\ HasMotion(o)' /\ q # o => q \in ahead'[o] \/ o \in ahead'[q]
  BY <1>1, <1>2 DEF ListOrder
<1>4. \A q, o, s \in Piece : q \in ahead'[o] /\ o \in ahead'[s] => q \in ahead'[s]
  BY <1>1, <1>2 DEF ListOrder
<1> QED
  BY <1>3, <1>4 DEF ListOrder

\* The pieces whose events an arrival applies.
LEMMA ArrivalDiscards ==
  ASSUME NEW p \in Piece, ApplyArrival(p)
  PROVE  /\ \E S \in SUBSET Pending : p \in S /\ Discard(S)
         /\ airborne' = airborne /\ p \in Pending
<1>1. p \in Pending /\ Slain(p) \in SUBSET Pending
  BY SlainFacts
     DEF ApplyArrival, ApplyMove, ApplyMoveRaises, ApplyAirCapture, ApplyLanding, NextToApply
<1>2. \E S \in {Slain(p) \cup {p}, Pending, {p}} : Discard(S)
  BY DEF ApplyArrival, ApplyMove, ApplyMoveRaises, ApplyAirCapture, ApplyLanding
<1> QED
  BY <1>1, <1>2
     DEF ApplyArrival, ApplyMove, ApplyMoveRaises, ApplyAirCapture, ApplyLanding

\* Every step keeps the order.
LEMMA NextListOrder == IInv /\ ListOrder /\ [Next]_vars => ListOrder'
<1> SUFFICES ASSUME IInv, ListOrder, [Next]_vars
             PROVE  ListOrder'
  OBVIOUS
<1>1. CASE UNCHANGED <<motion, ahead>>
  BY <1>1 DEF ListOrder, HasMotion
<1>2. ASSUME NEW source \in Cell, NEW dest \in Cell, RequestMove(source, dest)
      PROVE  ListOrder'
  <2>1. grid[source] \in Piece
    BY <1>2 DEF RequestMove, IInv, TypeOK
  <2> QED
    BY <1>2, <2>1, ListOrderStart DEF RequestMove, MayAct, IInv
<1>3. ASSUME NEW pos \in Cell, RequestJump(pos)
      PROVE  ListOrder'
  <2>1. grid[pos] \in Piece
    BY <1>3 DEF RequestJump, IInv, TypeOK
  <2> QED
    BY <1>3, <2>1, ListOrderStart DEF RequestJump, MayAct, IInv
<1>4. CASE AdvanceTime
  <2>1. PICK lost \in SUBSET Arrived : LosersOfCrossings(lost) /\ AdvanceMotions(lost)
    BY <1>4 DEF AdvanceTime
  <2>2. ASSUME NEW p \in Piece
        PROVE  HasMotion(p)' <=> HasMotion(p) /\ p \notin lost
    <3>1. CASE ~HasMotion(p) \/ p \in lost
      BY <2>1, <3>1 DEF AdvanceMotions, HasMotion, NoMotion
    <3>2. CASE HasMotion(p) /\ p \notin lost
      <4>1. motion'[p].type = motion[p].type
        BY <2>1, <3>2, MotionAfterAdvance DEF IInv
      <4> QED
        BY <3>2, <4>1 DEF HasMotion
    <3> QED
      BY <3>1, <3>2
  <2>3. lost \in SUBSET Piece
    BY <2>1 DEF Arrived
  <2> QED
    BY <2>1, <2>2, <2>3, ListOrderWithout DEF AdvanceMotions
<1>5. ASSUME NEW p \in Piece, ApplyArrival(p)
      PROVE  ListOrder'
  <2>1. PICK S \in SUBSET Pending : Discard(S)
    BY <1>5, ArrivalDiscards
  <2>2. S \in SUBSET Piece
    BY DEF Pending
  <2>3. \A q \in Piece : HasMotion(q)' <=> HasMotion(q) /\ q \notin S
    BY <2>1 DEF Discard, HasMotion, NoMotion
  <2> QED
    BY <2>1, <2>2, <2>3, ListOrderWithout DEF Discard
<1> QED
  BY <1>1, <1>2, <1>3, <1>4, <1>5 DEF Next, Tick, ForceGameOver, vars

\* The list of motions is what a list of different pieces is.
LEMMA ListOrderCorrect == Spec => []ListOrder
<1>1. Init => ListOrder
  BY DEF Init, ListOrder, HasMotion, NoMotion
<1> QED
  BY <1>1, NextListOrder, Invariance, PTL DEF Spec

\* No two sets of losers satisfy the rule.
LEMMA OneOutcome ==
  ASSUME TypeOK, ListOrder, NEW some \in SUBSET Arrived, NEW other \in SUBSET Arrived,
         LosersOfCrossings(some), LosersOfCrossings(other)
  PROVE  some = other
<1> DEFINE S == (some \ other) \cup (other \ some)
<1> SUFFICES ASSUME S # {}
             PROVE  FALSE
  OBVIOUS
<1>1. S \in SUBSET Piece /\ \A p \in S : HasMotion(p)
  BY DEF Arrived, Flying
<1>2. PICK q \in S : \A o \in S \ {q} : q \in ahead[o]
  BY <1>1, OldestExists DEF Oldest
<1>3. \A p \in Arrived : p \in ahead[q] => (p \in some <=> p \in other)
  <2> SUFFICES ASSUME NEW p \in Arrived, p \in ahead[q], p \in S
               PROVE  FALSE
    OBVIOUS
  <2>1. p \in Piece /\ q \in Piece
    BY <1>1
  <2>2. p # q
    BY <2>1 DEF ListOrder
  <2> QED
    BY <1>2, <2>1, <2>2 DEF ListOrder
<1>4. q \in Arrived
  OBVIOUS
<1> QED
  BY <1>3, <1>4 DEF LosersOfCrossings

\* The rule applied to the first of the arrivals only.
Decided(first, lost) ==
    /\ lost \subseteq first
    /\ \A q \in first : \A p \in Arrived : p \in ahead[q] => p \in first
    /\ \A q \in first : q \in lost <=> \E p \in first \ lost : p \in ahead[q] /\ Crossing(p, q)

\* What is decided for the first arrivals can be decided for one more.
LEMMA OneMoreDecided ==
  ASSUME TypeOK, ListOrder, NEW first \in SUBSET Arrived, NEW lost, Decided(first, lost),
         NEW q \in Oldest(Arrived \ first)
  PROVE  \E more : Decided(first \cup {q}, more)
<1>1. q \in Arrived \ first /\ \A o \in Arrived \ first : o # q => q \in ahead[o]
  BY DEF Oldest
<1>2. Arrived \subseteq Piece
  BY DEF Arrived
<1>3. \A p \in Arrived : p \in ahead[q] => p \in first
  BY <1>1, <1>2 DEF ListOrder
<1>4. q \notin ahead[q] /\ \A o \in first : q \notin ahead[o]
  BY <1>1, <1>2 DEF ListOrder, Decided
<1>5. CASE \E p \in first \ lost : p \in ahead[q] /\ Crossing(p, q)
  <2>1. Decided(first \cup {q}, lost \cup {q})
    BY <1>1, <1>3, <1>4, <1>5 DEF Decided
  <2> QED
    BY <2>1
<1>6. CASE ~\E p \in first \ lost : p \in ahead[q] /\ Crossing(p, q)
  <2>1. Decided(first \cup {q}, lost)
    BY <1>1, <1>3, <1>4, <1>6 DEF Decided
  <2> QED
    BY <2>1
<1> QED
  BY <1>5, <1>6

\* Some set of losers satisfies the rule.
LEMMA SomeOutcome ==
  ASSUME TypeOK, ListOrder
  PROVE  \E lost \in SUBSET Arrived : LosersOfCrossings(lost)
<1> DEFINE T == {missing \in SUBSET Piece : missing \subseteq Arrived /\ \E lost : Decided(Arrived \ missing, lost)}
           R == StrictSubsetOrdering(Piece)
<1>1. Arrived \in T
  <2>1. Decided({}, {}) /\ Arrived \ Arrived = {} /\ Arrived \in SUBSET Piece
    BY DEF Decided, Arrived
  <2> QED
    BY <2>1
<1>2. IsWellFoundedOn(R, SUBSET Piece)
  BY FinitelyManyPieces, FS_StrictSubsetOrderingWellFounded, FS_FiniteSubsetsOfFinite
<1>3. \E x \in T : \A y \in T : ~(<<y, x>> \in R)
  <2>1. T \subseteq SUBSET Piece /\ T # {}
    BY <1>1
  <2> HIDE DEF T, R
  <2> QED
    BY <1>2, <2>1, WFMin
<1>4. PICK left \in T : \A y \in T : ~(<<y, left>> \in R)
  BY <1>3
<1>5. PICK lost : Decided(Arrived \ left, lost)
  BY <1>4
<1>6. left = {}
  <2> SUFFICES ASSUME left # {}
               PROVE  FALSE
    OBVIOUS
  <2>1. left \in SUBSET Piece /\ left \subseteq Arrived /\ \A p \in left : HasMotion(p)
    BY DEF Arrived, Flying
  <2>2. Arrived \ (Arrived \ left) = left
    BY <2>1
  <2>3. PICK q \in Oldest(left) : TRUE
    BY <2>1, OldestExists
  <2>4. q \in left
    BY <2>3 DEF Oldest
  <2>5. \E more : Decided((Arrived \ left) \cup {q}, more)
    BY <1>5, <2>2, <2>3, OneMoreDecided
  <2>6. (Arrived \ left) \cup {q} = Arrived \ (left \ {q})
    BY <2>1, <2>4
  <2>7. left \ {q} \in T
    BY <2>1, <2>5, <2>6
  <2>8. <<left \ {q}, left>> \in R
    BY <2>1, <2>4 DEF StrictSubsetOrdering
  <2> QED
    BY <1>4, <2>7, <2>8
<1>7. Arrived \ left = Arrived
  BY <1>6
<1> QED
  BY <1>5, <1>7 DEF Decided, LosersOfCrossings

\* A tick decides by itself who loses where motions cross: however many meet,
\* the rule that the one started first survives has an outcome, and only one
\* (_eliminate_simultaneous_collisions).
THEOREM CrossingsHaveOneOutcome ==
  Spec => [](\E lost \in SUBSET Arrived :
                \A other \in SUBSET Arrived : LosersOfCrossings(other) <=> other = lost)
<1>1. TypeOK /\ ListOrder =>
         \E lost \in SUBSET Arrived :
            \A other \in SUBSET Arrived : LosersOfCrossings(other) <=> other = lost
  <2> SUFFICES ASSUME TypeOK, ListOrder
               PROVE  \E lost \in SUBSET Arrived :
                         \A other \in SUBSET Arrived : LosersOfCrossings(other) <=> other = lost
    OBVIOUS
  <2>1. PICK lost \in SUBSET Arrived : LosersOfCrossings(lost)
    BY SomeOutcome
  <2>2. \A other \in SUBSET Arrived : LosersOfCrossings(other) <=> other = lost
    BY <2>1, OneOutcome
  <2> QED
    BY <2>2
<1> QED
  BY <1>1, TypeCorrect, ListOrderCorrect, PTL
-----------------------------------------------------------------------------
(* The airborne guard.                                                     *)

\* What AirborneGuarded says of one piece.
GuardPassed(p) ==
    \E j \in Piece :
        /\ Jumping(j) /\ motion[j].from = airborne
        /\ \/ ~Enemy(j, p)
           \/ motion'[j].fate = "lands"
           \/ \E o \in Piece : /\ motion[o].to = airborne /\ o \in ahead[p]
                             /\ motion'[o].fate = "shot"

\* When every jump from the marked cell ends in the tick, one of them lands.
LEMMA LandsUnguarded ==
  ASSUME IInv, MarkerHasJump, Pending = {}, airborne # NoCell,
         NEW lost \in SUBSET Arrived, LosersOfCrossings(lost), AdvanceMotions(lost),
         Sentries = {}
  PROVE  \E j \in Piece : /\ Jumping(j) /\ motion[j].from = airborne
                          /\ motion'[j].fate = "lands"
<1>1. PICK j \in Piece : Jumping(j) /\ motion[j].from = airborne
  BY DEF MarkerHasJump
<1>2. j \in Arrived
  BY <1>1 DEF Sentries
<1>3. j \in Arrived \ lost
  BY <1>1, <1>2, LosersMove DEF Moving, Jumping
<1>4. FateOf(j, Arrived \ lost) = "lands" /\ HasMotion(j)
  BY <1>1, <1>3 DEF FateOf, Jumping, Flying
<1> QED
  BY <1>1, <1>3, <1>4, MotionAfterAdvance DEF IInv

\* What a tick lets arrive on the marked cell has passed the guard.
LEMMA GuardAdvance ==
  ASSUME IInv, MarkerHasJump, ListOrder, AdvanceTime,
         NEW p \in Piece, Moving(p), motion[p].to = airborne, motion'[p].fate = "arrives"
  PROVE  GuardPassed(p)
<1>1. PICK lost \in SUBSET Arrived : LosersOfCrossings(lost) /\ AdvanceMotions(lost)
  BY DEF AdvanceTime
<1> DEFINE survivors == Arrived \ lost
<1>2. Pending = {} /\ TypeOK
  BY DEF AdvanceTime, IInv
<1>3. FateOf(p, survivors) = "arrives" /\ p \notin lost
  BY <1>1, <1>2, MotionAfterAdvance DEF NoMotion
<1>4. HasMotion(p) /\ motion[p].type = "move" /\ airborne # NoCell
  BY NoCellOutside DEF Moving, Flying, IInv, MotionShape
<1>5. p \in survivors /\ ~Shot(p, survivors)
  BY <1>3, <1>4 DEF FateOf
<1>6. CASE Sentries = {}
  BY <1>1, <1>2, <1>4, <1>6, LandsUnguarded DEF GuardPassed
<1>7. CASE Sentries # {}
  <2>1. PICK j \in Sentries : j \in Oldest(Sentries)
    <3>1. Sentries \in SUBSET Piece /\ \A o \in Sentries : HasMotion(o)
      BY DEF Sentries, Jumping, Flying
    <3> QED
      BY <1>2, <1>7, <3>1, OldestExists DEF Oldest
  <2>2. j \in Piece /\ Jumping(j) /\ motion[j].from = airborne
    BY <2>1 DEF Sentries
  <2>3. CASE ~Enemy(j, p)
    BY <2>2, <2>3 DEF GuardPassed
  <2>4. CASE Enemy(j, p)
    <3> DEFINE S == {o \in survivors : Intruder(o)}
    <3>1. p \in S
      BY <1>4, <1>5, <2>1, <2>4 DEF Intruder
    <3>2. S \in SUBSET Piece /\ \A o \in S : HasMotion(o)
      BY DEF Arrived, Flying
    <3>3. PICK o \in survivors : o \in Oldest(S) /\ Intruder(o)
      <4>1. Oldest(S) # {}
        BY <1>2, <3>1, <3>2, OldestExists
      <4>2. \A o \in Oldest(S) : o \in survivors /\ Intruder(o)
        BY DEF Oldest
      <4> QED
        BY <4>1, <4>2
    <3>4. Shot(o, survivors)
      BY <3>3 DEF Shot
    <3>5. o # p /\ o \in ahead[p]
      BY <1>5, <3>1, <3>3, <3>4 DEF Oldest
    <3>6. FateOf(o, survivors) = "shot" /\ motion[o].to = airborne
      BY <3>3, <3>4 DEF FateOf, Intruder
    <3>7. o \in Piece /\ HasMotion(o) /\ o \notin lost
      BY <3>2, <3>3 DEF Arrived, Flying
    <3>8. motion'[o].fate = "shot"
      BY <1>1, <1>2, <3>6, <3>7, MotionAfterAdvance
    <3> QED
      BY <2>2, <3>5, <3>6, <3>7, <3>8 DEF GuardPassed
  <2> QED
    BY <2>3, <2>4
<1> QED
  BY <1>6, <1>7

\* Only a tick decides that a move arrives.
LEMMA ArrivalsAreDecidedByTicks ==
  ASSUME IInv, [Next]_vars, NEW p \in Piece, Flying(p), motion'[p].fate = "arrives"
  PROVE  AdvanceTime
<1> SUFFICES ASSUME ~AdvanceTime
             PROVE  FALSE
  OBVIOUS
<1>1. CASE UNCHANGED motion
  BY <1>1 DEF Flying
<1>2. ASSUME NEW q \in Piece, ApplyArrival(q)
      PROVE  FALSE
  <2>1. PICK S \in SUBSET Pending : Discard(S)
    BY <1>2, ArrivalDiscards
  <2>2. motion'[p] = IF p \in S THEN NoMotion ELSE motion[p]
    BY <2>1 DEF Discard
  <2> QED
    BY <2>2 DEF NoMotion, Flying
<1>3. ASSUME NEW q \in Piece, NEW type \in {"move", "jump"}, NEW from, NEW to, NEW ms,
             StartMotion(q, type, from, to, ms)
      PROVE  FALSE
  <2>1. motion'[p].fate = "flying" \/ motion'[p] = motion[p]
    BY <1>3 DEF StartMotion, IInv, TypeOK
  <2> QED
    BY <2>1 DEF Flying
<1>4. ASSUME NEW source \in Cell, NEW dest \in Cell, RequestMove(source, dest)
      PROVE  FALSE
  <2>1. grid[source] \in Piece
    BY <1>4 DEF RequestMove, IInv, TypeOK
  <2> QED
    BY <1>3, <1>4, <2>1 DEF RequestMove
<1>5. ASSUME NEW pos \in Cell, RequestJump(pos)
      PROVE  FALSE
  <2>1. grid[pos] \in Piece
    BY <1>5 DEF RequestJump, IInv, TypeOK
  <2> QED
    BY <1>3, <1>5, <2>1 DEF RequestJump
<1> QED
  BY <1>1, <1>2, <1>4, <1>5 DEF Next, Tick, ForceGameOver, vars

\* An enemy passes onto the marked cell only as its jump lands, or behind another
\* enemy that is shot in the same tick (_resolve_air_capture).
THEOREM JumperGuardsItsCell == Spec => AirborneGuarded
<1>1. IInv /\ MarkerHasJump /\ ListOrder /\ [Next]_vars =>
        [\A p \in Piece :
            Moving(p) /\ motion[p].to = airborne /\ motion'[p].fate = "arrives" =>
                GuardPassed(p)]_vars
  BY ArrivalsAreDecidedByTicks, GuardAdvance DEF Moving
<1> QED
  BY <1>1, MarkerCorrect, ListOrderCorrect, Invariance, PTL
     DEF Spec, AirborneGuarded, GuardPassed
-----------------------------------------------------------------------------
(* An arrival settles its square.                                          *)

\* No enemy of a piece about to arrive is still under way to its square.
ArrivalsSettled ==
    \A p, q \in Piece :
        motion[p].fate = "arrives" /\ Moving(q) /\ motion[q].to = motion[p].to => ~Enemy(p, q)

\* What survives the crossings eliminates the enemies that come later.
LEMMA SettledAdvance ==
  ASSUME IInv, AdvanceTime
  PROVE  ArrivalsSettled'
<1>1. PICK lost \in SUBSET Arrived : LosersOfCrossings(lost) /\ AdvanceMotions(lost)
  BY DEF AdvanceTime
<1> DEFINE survivors == Arrived \ lost
<1>2. Pending = {} /\ TypeOK
  BY DEF AdvanceTime, IInv
<1> SUFFICES ASSUME NEW p \in Piece, NEW q \in Piece, motion'[p].fate = "arrives", Moving(q)',
                    motion'[q].to = motion'[p].to, Enemy(p, q)
             PROVE  FALSE
  BY DEF ArrivalsSettled
<1>3. FateOf(p, survivors) = "arrives" /\ motion'[p].to = motion[p].to /\ p \notin lost
  BY <1>1, <1>2, MotionAfterAdvance DEF NoMotion
<1>4. p \in survivors /\ motion[p].type = "move"
  BY <1>1, <1>2, <1>3, FateFacts DEF FateOf, Moving
<1>5. /\ motion'[q].to = motion[q].to /\ FateOf(q, survivors) = "flying"
      /\ motion[q].type = "move" /\ HasMotion(q) /\ q \notin lost
  BY <1>1, <1>2, MotionAfterAdvance DEF NoMotion, Moving, Flying, HasMotion
<1>6. Moving(q) /\ q \notin Arrived
  BY <1>1, <1>2, <1>5, FateFacts DEF Moving, Flying, Pending
<1>7. p \in Slayers(q, survivors)
  BY <1>3, <1>4, <1>5, <1>6 DEF Slayers, LateFor
<1> QED
  BY <1>5, <1>6, <1>7 DEF FateOf

\* After that a square is only given up: every step keeps it settled.
LEMMA NextSettled == IInv /\ ArrivalsSettled /\ [Next]_vars => ArrivalsSettled'
<1> SUFFICES ASSUME IInv, ArrivalsSettled, [Next]_vars
             PROVE  ArrivalsSettled'
  OBVIOUS
<1>1. CASE UNCHANGED motion
  BY <1>1 DEF ArrivalsSettled, HasMotion, Moving, Flying
<1>2. CASE AdvanceTime
  BY <1>2, SettledAdvance
<1>3. ASSUME NEW p \in Piece, ApplyArrival(p)
      PROVE  ArrivalsSettled'
  <2>1. PICK S \in SUBSET Pending : Discard(S)
    BY <1>3, ArrivalDiscards
  <2>2. \A q \in Piece : motion'[q] = IF q \in S THEN NoMotion ELSE motion[q]
    BY <2>1 DEF Discard
  <2> QED
    BY <2>2 DEF ArrivalsSettled, NoMotion, Moving, Flying, HasMotion
<1>4. ASSUME NEW p \in Piece, NEW type \in {"move", "jump"}, NEW from, NEW to, NEW ms,
             Pending = {}, StartMotion(p, type, from, to, ms)
      PROVE  ArrivalsSettled'
  <2>1. \A q \in Piece : motion'[q].fate = "flying" \/ motion'[q] = motion[q]
    BY <1>4 DEF StartMotion, IInv, TypeOK
  <2>2. \A q \in Piece : motion[q].fate # "arrives"
    BY <1>4 DEF Pending, HasMotion, IInv, MotionShape
  <2> QED
    BY <2>1, <2>2 DEF ArrivalsSettled
<1>5. ASSUME NEW source \in Cell, NEW dest \in Cell, RequestMove(source, dest)
      PROVE  ArrivalsSettled'
  <2>1. grid[source] \in Piece
    BY <1>5 DEF RequestMove, IInv, TypeOK
  <2> QED
    BY <1>4, <1>5, <2>1 DEF RequestMove
<1>6. ASSUME NEW pos \in Cell, RequestJump(pos)
      PROVE  ArrivalsSettled'
  <2>1. grid[pos] \in Piece
    BY <1>6 DEF RequestJump, IInv, TypeOK
  <2> QED
    BY <1>4, <1>6, <2>1 DEF RequestJump
<1> QED
  BY <1>1, <1>2, <1>3, <1>5, <1>6 DEF Next, Tick, ForceGameOver, vars

\* A move that arrives settles its square: no enemy is left to arrive on it
\* after it (_eliminate_simultaneous_collisions and _resolve_late_collision).
THEOREM SquareIsSettled == Spec => ArrivalSettlesSquare
<1>1. Init => ArrivalsSettled
  BY DEF Init, ArrivalsSettled, Moving, Flying, HasMotion, NoMotion
<1>2. Spec => []ArrivalsSettled
  BY <1>1, NextSettled, Invariance, PTL DEF Spec
<1>3. ASSUME ArrivalsSettled, IInv, NEW p \in Piece, ApplyMove(p),
             NEW q \in Piece, Flying(q)', motion'[q].type = "move", motion'[q].to = motion[p].to
      PROVE  ~Enemy(p, q)
  <2>1. PICK S \in SUBSET Pending : Discard(S)
    BY <1>3, ArrivalDiscards DEF ApplyArrival
  <2>2. motion'[q] = IF q \in S THEN NoMotion ELSE motion[q]
    BY <2>1 DEF Discard
  <2>3. Moving(q) /\ motion[q].to = motion[p].to
    BY <1>3, <2>2 DEF Moving, Flying, HasMotion, NoMotion
  <2>4. motion[p].fate = "arrives"
    BY <1>3 DEF ApplyMove
  <2> QED
    BY <1>3, <2>3, <2>4 DEF ArrivalsSettled
<1>4. ArrivalsSettled /\ IInv /\ [Next]_vars =>
         [\A p \in Piece : ApplyMove(p) =>
             \A q \in Piece : Flying(q)' /\ motion'[q].type = "move"
                              /\ motion'[q].to = motion[p].to => ~Enemy(p, q)]_vars
  BY <1>3
<1> QED
  BY <1>2, <1>4, Invariance, PTL DEF Spec, ArrivalSettlesSquare
-----------------------------------------------------------------------------
(* Refinement.                                                             *)

\* The initial states map to initial states of the ledger.
LEMMA CooldownInit == Init => Ledger!Init
  BY DEF Init, Ledger!Init, CooldownPhase, HasMotion, NoMotion

\* The mapped phases are phases of the ledger.
LEMMA PhaseType == CooldownPhase \in [Piece -> Ledger!Phase]
                   /\ CooldownPhase' \in [Piece -> Ledger!Phase]
  BY DEF CooldownPhase, Ledger!Phase

\* An accepted command begins the action of a free piece.
LEMMA BeginStep ==
  ASSUME IInv, loop = "running", NEW p \in Piece, OnBoard(p), MayAct(p),
         NEW type \in {"move", "jump"}, NEW from, NEW to, NEW ms,
         StartMotion(p, type, from, to, ms), UNCHANGED <<rest, gameOver, loop>>
  PROVE  Ledger!Begin(p)
<1>1. ~gameOver /\ ~HasMotion(p) /\ state[p] \notin Resting
  BY DEF MayAct
<1>2. rest[p] = 0
  BY <1>1 DEF IInv, StateLedger, TypeOK
<1>3. \A q \in Piece : motion'[q].type = IF q = p THEN type ELSE motion[q].type
  BY DEF StartMotion, IInv, TypeOK
<1>4. CooldownPhase[p] = "free"
  BY <1>1, <1>2 DEF CooldownPhase
<1>5. CooldownPhase' = [CooldownPhase EXCEPT ![p] = "acting"]
  BY <1>3 DEF CooldownPhase, HasMotion
<1> QED
  BY <1>1, <1>4, <1>5 DEF Ledger!Begin

\* Any step that starts no motion and puts no new rest on a piece without
\* motion is a lapse of time.
LEMMA LapseStep ==
  ASSUME IInv, IInv', loop = "running",
         \A p \in Piece : HasMotion(p)' => HasMotion(p),
         \A p \in Piece : ~HasMotion(p) /\ rest'[p] > 0 => rest[p] > 0,
         gameOver => gameOver'
  PROVE  Ledger!Lapse
<1>1. \A p \in Piece : Ledger!Later(CooldownPhase[p], CooldownPhase'[p])
  <2> TAKE p \in Piece
  <2>1. CooldownPhase[p] = IF HasMotion(p) THEN "acting"
                           ELSE IF rest[p] > 0 THEN "resting" ELSE "free"
    BY DEF CooldownPhase
  <2>2. CooldownPhase'[p] = IF HasMotion(p)' THEN "acting"
                            ELSE IF rest'[p] > 0 THEN "resting" ELSE "free"
    BY DEF CooldownPhase
  <2> QED
    BY <2>1, <2>2 DEF Ledger!Later
<1>2. (loop = "dead")' \in BOOLEAN /\ (~gameOver)' \in BOOLEAN /\ loop # "dead"
  OBVIOUS
<1>3. (~gameOver)' => ~gameOver
  BY DEF IInv, TypeOK
<1> QED
  BY <1>1, <1>2, <1>3, PhaseType DEF Ledger!Lapse

\* Every step maps to a step of the ledger or to a stutter.
LEMMA CooldownNext == IInv /\ IInv' /\ [Next]_vars => [Ledger!Next]_(Ledger!vars)
<1> SUFFICES ASSUME IInv, IInv', [Next]_vars PROVE [Ledger!Next]_(Ledger!vars)
  OBVIOUS
<1>1. CASE UNCHANGED vars
  BY <1>1 DEF vars, Ledger!vars, CooldownPhase, HasMotion
<1>2. CASE loop # "running" /\ ~UNCHANGED vars
  <2>1. loop = "dead"
    BY <1>2 DEF IInv, TypeOK
  <2>2. loop' = "dead"
    BY <1>2, <2>1 DEF Next, Tick, AdvanceTime, ApplyArrival, ApplyMove, ApplyMoveRaises,
          ApplyAirCapture, ApplyLanding, RequestMove, RequestJump, ForceGameOver
  <2> QED
    BY <2>1, <2>2, PhaseType DEF Ledger!Next, Ledger!Unattended
<1>3. CASE loop = "running"
  <2>1. ASSUME NEW source \in Cell, NEW dest \in Cell, RequestMove(source, dest)
        PROVE  \E p \in Piece : Ledger!Begin(p)
    <3>1. grid[source] \in Piece /\ OnBoard(grid[source])
      BY <2>1 DEF RequestMove, OnBoard, IInv, TypeOK
    <3> QED
      BY <1>3, <2>1, <3>1, BeginStep DEF RequestMove
  <2>2. ASSUME NEW pos \in Cell, RequestJump(pos)
        PROVE  \E p \in Piece : Ledger!Begin(p)
    <3>1. grid[pos] \in Piece /\ OnBoard(grid[pos])
      BY <2>2 DEF RequestJump, OnBoard, IInv, TypeOK
    <3> QED
      BY <1>3, <2>2, <3>1, BeginStep DEF RequestJump
  <2>3. ASSUME NEW color \in Verdicts, ForceGameOver(color) PROVE Ledger!Lapse
    BY <1>3, <2>3, LapseStep DEF ForceGameOver, HasMotion
  <2>4. ASSUME AdvanceTime PROVE Ledger!Lapse
    <3>1. PICK lost \in SUBSET Arrived :
              LosersOfCrossings(lost) /\ AdvanceMotions(lost) /\ AdvanceRests(lost)
      BY <2>4 DEF AdvanceTime
    <3>2. \A p \in Piece : HasMotion(p)' => HasMotion(p)
      BY <3>1 DEF AdvanceMotions, HasMotion, NoMotion
    <3>3. \A p \in Piece : ~HasMotion(p) /\ rest'[p] > 0 => rest[p] > 0
      <4> SUFFICES ASSUME NEW p \in Piece, ~HasMotion(p), rest'[p] > 0
                   PROVE  rest[p] > 0
        OBVIOUS
      <4>1. FateOf(p, Arrived \ lost) \notin {"arrives", "lands"}
        BY <2>4, <3>1, FateFacts DEF AdvanceTime, Moving, Jumping, Flying, IInv
      <4>2. rest'[p] = Elapsed(rest[p]) /\ rest[p] \in Nat
        BY <3>1, <4>1 DEF AdvanceRests, IInv, TypeOK
      <4> QED
        BY <4>2, TimeAssumption DEF Elapsed
    <3> QED
      BY <1>3, <2>4, <3>2, <3>3, LapseStep DEF AdvanceTime
  <2>5. ASSUME NEW p \in Piece, ApplyArrival(p) PROVE Ledger!Lapse
    <3>1. (\E S : Discard(S)) /\ rest' = rest
      BY <2>5 DEF ApplyArrival, ApplyMove, ApplyMoveRaises, ApplyAirCapture,
                  ApplyLanding
    <3>2. \A q \in Piece : HasMotion(q)' => HasMotion(q)
      BY <3>1 DEF Discard, HasMotion, NoMotion
    <3>3. gameOver => gameOver'
      BY NextGameOver
    <3> QED
      BY <1>3, <3>1, <3>2, <3>3, LapseStep
  <2> QED
    BY <1>1, <2>1, <2>2, <2>3, <2>4, <2>5 DEF Next, Tick, Ledger!Next
<1> QED
  BY <1>1, <1>2, <1>3

\* The engine implements the cooldown ledger: as long as the tick loop lives
\* no interleaving of commands, captures, collisions and arrivals lets a
\* piece begin before its last action and its rest are over.
THEOREM Refinement == Spec => ImplementsCooldown
<1>1. []IInv /\ [][Next]_vars => [][Ledger!Next]_(Ledger!vars)
  BY CooldownNext, PTL
<1> QED
  BY <1>1, CooldownInit, Invariance, PTL DEF Spec, ImplementsCooldown, Ledger!Spec
-----------------------------------------------------------------------------
(* The rules.  BoardRules states what the destinations of a piece should   *)
(* be, by reference definitions.  Ray is a recursive function: RayIsWalked *)
(* solves its equation in closed form, and the rest is the geometry of a   *)
(* rectangle.                                                              *)

\* A cell is a pair of numbers within the board.
LEMMA CellFacts ==
  \A c \in Cell : /\ c = <<c[1], c[2]>> /\ c[1] \in Int /\ c[2] \in Int
                  /\ 0 <= c[1] /\ c[1] < Height /\ 0 <= c[2] /\ c[2] < Width
  BY BoardAssumption DEF Cell

\* Which pairs of numbers are cells.
LEMMA InCell ==
  \A r, s \in Int : <<r, s>> \in Cell <=> 0 <= r /\ r < Height /\ 0 <= s /\ s < Width
  BY BoardAssumption DEF Cell

\* A set of numbers has a least one; this stands in for induction below.
LEMMA LeastNumber ==
  ASSUME NEW T \in SUBSET Nat, T # {}
  PROVE  \E t \in T : \A u \in T : t <= u
<1> PICK top \in T : TRUE
  OBVIOUS
<1> DEFINE Low == {t \in T : t <= top}
           I == {1 .. t : t \in Low}
           R == StrictSubsetOrdering(1 .. top)
<1>1. IsFiniteSet(1 .. top)
  BY FS_Interval
<1>2. IsWellFoundedOn(R, SUBSET (1 .. top))
  BY <1>1, FS_StrictSubsetOrderingWellFounded, FS_FiniteSubsetsOfFinite
<1>3. I \subseteq SUBSET (1 .. top) /\ I # {}
  <2>1. 1 .. top \in I
    OBVIOUS
  <2>2. ASSUME NEW t \in Low
        PROVE  1 .. t \subseteq 1 .. top
    OBVIOUS
  <2> QED
    BY <2>1, <2>2
<1>4. \E x \in I : \A y \in I : ~(<<y, x>> \in R)
  <2> HIDE DEF I, R
  <2> QED
    BY <1>2, <1>3, WFMin
<1>5. PICK t \in Low : \A u \in Low : ~(<<1 .. u, 1 .. t>> \in R)
  BY <1>4
<1>6. ASSUME NEW u \in T
      PROVE  t <= u
  <2> SUFFICES ASSUME u < t
               PROVE  FALSE
    OBVIOUS
  <2>1. u \in Low
    OBVIOUS
  <2>2. 1 .. u \subseteq 1 .. t /\ t \in 1 .. t /\ t \notin 1 .. u
    OBVIOUS
  <2>3. 1 .. u \in SUBSET (1 .. top) /\ 1 .. t \in SUBSET (1 .. top) /\ 1 .. u # 1 .. t
    BY <2>2
  <2>4. <<1 .. u, 1 .. t>> \in R
    BY <2>2, <2>3 DEF StrictSubsetOrdering
  <2> QED
    BY <1>5, <2>1, <2>4
<1> QED
  BY <1>6

\* The bound of the walk along a ray in PieceRules.
Last == Width + Height + 1

\* The walk may go on from the j-th cell of a ray to the k-th.
Open(c, d, j, k, board) ==
    /\ \A m \in j .. k : Shift(c, d, m) \in Cell
    /\ \A m \in j .. k - 1 : Shift(c, d, m) \notin board

\* The cells from the j-th that the walk reaches.
Walked(c, d, j, board) ==
    {Shift(c, d, k) : k \in {i \in j .. Last : Open(c, d, j, i, board)}}

\* One turn of the sliding loop.
LEMMA Unrolled ==
  ASSUME NEW c \in Cell, NEW d \in Straight \cup Diagonal, NEW board \in SUBSET Cell,
         NEW j \in 1 .. Last
  PROVE  Walked(c, d, j, board) =
            IF Shift(c, d, j) \notin Cell THEN {}
            ELSE IF Shift(c, d, j) \in board THEN {Shift(c, d, j)}
            ELSE {Shift(c, d, j)} \cup Walked(c, d, j + 1, board)
<1>1. Last \in Nat /\ j \in Nat
  BY BoardAssumption DEF Last
<1>2. CASE Shift(c, d, j) \notin Cell
  <2>1. \A i \in j .. Last : ~Open(c, d, j, i, board)
    BY <1>1, <1>2 DEF Open
  <2> QED
    BY <1>2, <2>1 DEF Walked
<1>3. CASE Shift(c, d, j) \in board
  <2>1. ASSUME NEW i \in j .. Last
        PROVE  Open(c, d, j, i, board) <=> i = j
    <3>1. i # j => j \in j .. i - 1
      BY <1>1
    <3>2. i = j => j .. i = {j} /\ j .. i - 1 = {}
      BY <1>1
    <3> QED
      BY <1>3, <3>1, <3>2 DEF Open
  <2>2. j \in j .. Last
    BY <1>1
  <2> QED
    BY <1>3, <2>1, <2>2 DEF Walked
<1>4. CASE Shift(c, d, j) \in Cell \ board
  <2>1. ASSUME NEW i \in j + 1 .. Last
        PROVE  Open(c, d, j, i, board) <=> Open(c, d, j + 1, i, board)
    <3>1. j .. i = {j} \cup (j + 1 .. i) /\ j .. i - 1 = {j} \cup (j + 1 .. i - 1)
      BY <1>1
    <3> QED
      BY <1>4, <3>1 DEF Open
  <2>2. Open(c, d, j, j, board)
    <3>1. j .. j = {j} /\ j .. j - 1 = {}
      BY <1>1
    <3> QED
      BY <1>4, <3>1 DEF Open
  <2>3. j .. Last = {j} \cup (j + 1 .. Last) /\ j \notin j + 1 .. Last
    BY <1>1
  <2>4. {i \in j .. Last : Open(c, d, j, i, board)}
           = {j} \cup {i \in j + 1 .. Last : Open(c, d, j + 1, i, board)}
    BY <2>1, <2>2, <2>3
  <2> QED
    BY <1>4, <2>4 DEF Walked
<1> QED
  BY <1>2, <1>3, <1>4

\* A ray leaves the board before the last step that the loop could count.
LEMMA RayLeaves ==
  ASSUME NEW c \in Cell, NEW d \in Straight \cup Diagonal
  PROVE  Shift(c, d, Last) \notin Cell
<1>1. c[1] \in Nat /\ c[2] \in Nat /\ Width \in Nat /\ Height \in Nat /\ c[1] < Height /\ c[2] < Width
  BY CellFacts, BoardAssumption
<1>2. d \in {<<0, 1>>, <<0, -1>>, <<1, 0>>, <<-1, 0>>, <<1, 1>>, <<1, -1>>, <<-1, 1>>, <<-1, -1>>}
  BY DEF Straight, Diagonal
<1>3. /\ d[1] \in {0, 1, -1} /\ d[2] \in {0, 1, -1}
      /\ d[1] # 0 \/ d[2] # 0
  BY <1>2
<1>4. Last * d[1] \in {0, Last, -Last} /\ Last * d[2] \in {0, Last, -Last}
      /\ (Last * d[1] # 0 \/ Last * d[2] # 0)
  BY <1>1, <1>3 DEF Last
<1>5. /\ c[1] + Last * d[1] \in Int /\ c[2] + Last * d[2] \in Int
      /\ \/ c[1] + Last * d[1] < 0 \/ c[1] + Last * d[1] >= Height
         \/ c[2] + Last * d[2] < 0 \/ c[2] + Last * d[2] >= Width
  BY <1>1, <1>4 DEF Last
<1> DEFINE r == c[1] + Last * d[1]
           s == c[2] + Last * d[2]
<1>6. Shift(c, d, Last) = <<r, s>>
  BY DEF Shift
<1>7. r \in Int /\ s \in Int /\ ~(0 <= r /\ r < Height /\ 0 <= s /\ s < Width)
  BY <1>1, <1>5
<1> HIDE DEF r, s
<1> QED
  BY <1>6, <1>7, InCell

\* The recursive walk computes the cells seen along the ray.
LEMMA RayIsWalked ==
  ASSUME NEW c \in Cell, NEW d \in Straight \cup Diagonal, NEW board \in SUBSET Cell
  PROVE  Ray(c, d, board) = Walked(c, d, 1, board)
<1> DEFINE body(w) ==
              [k \in 1 .. Last |->
                  IF Shift(c, d, k) \notin Cell THEN {}
                  ELSE IF Shift(c, d, k) \in board THEN {Shift(c, d, k)}
                  ELSE {Shift(c, d, k)} \cup w[k + 1]]
           g == [k \in 1 .. Last |-> Walked(c, d, k, board)]
           walk == CHOOSE w : w = body(w)
<1>1. g = body(g)
  <2>1. ASSUME NEW k \in 1 .. Last
        PROVE  g[k] = body(g)[k]
    <3>1. CASE k = Last
      BY <3>1, RayLeaves, Unrolled
    <3>2. CASE k # Last
      <4>1. k + 1 \in 1 .. Last
        BY <3>2, BoardAssumption DEF Last
      <4>2. g[k + 1] = Walked(c, d, k + 1, board)
        BY <4>1
      <4>3. g[k] = Walked(c, d, k, board)
        OBVIOUS
      <4>4. body(g)[k] = IF Shift(c, d, k) \notin Cell THEN {}
                         ELSE IF Shift(c, d, k) \in board THEN {Shift(c, d, k)}
                         ELSE {Shift(c, d, k)} \cup g[k + 1]
        OBVIOUS
      <4>5. Walked(c, d, k, board) = IF Shift(c, d, k) \notin Cell THEN {}
                                        ELSE IF Shift(c, d, k) \in board THEN {Shift(c, d, k)}
                                        ELSE {Shift(c, d, k)} \cup Walked(c, d, k + 1, board)
        BY Unrolled
      <4> HIDE DEF g, body
      <4> QED
        BY <4>2, <4>3, <4>4, <4>5
    <3> QED
      BY <3>1, <3>2
  <2> QED
    BY <2>1
<1>2. walk = body(walk)
  <2> HIDE DEF body, g
  <2> QED
    BY <1>1
<1>3. Ray(c, d, board) = walk[1]
  BY DEF Ray, Last
<1> HIDE DEF walk
<1>4. \A k \in 1 .. Last :
         walk[k] = IF Shift(c, d, k) \notin Cell THEN {}
                   ELSE IF Shift(c, d, k) \in board THEN {Shift(c, d, k)}
                   ELSE {Shift(c, d, k)} \cup walk[k + 1]
  <2>1. \A k \in 1 .. Last : walk[k] = body(walk)[k]
    <3> HIDE DEF body
    <3> QED
      BY <1>2
  <2> QED
    BY <2>1
<1> HIDE DEF body
<1>5. Last \in Nat \ {0}
  BY BoardAssumption DEF Last
<1>6. \A k \in 1 .. Last : walk[k] = Walked(c, d, k, board)
  <2> DEFINE Wrong == {k \in 1 .. Last : walk[k] # Walked(c, d, k, board)}
             T == {Last - k : k \in Wrong}
  <2> SUFFICES ASSUME Wrong # {}
               PROVE  FALSE
    OBVIOUS
  <2>1. T \in SUBSET Nat /\ T # {}
    BY <1>5
  <2>2. PICK t \in T : \A u \in T : t <= u
    <3> HIDE DEF T
    <3> QED
      BY <2>1, LeastNumber
  <2>3. PICK k \in Wrong : \A i \in Wrong : i <= k
    <3>1. PICK k \in Wrong : t = Last - k
      OBVIOUS
    <3>2. \A i \in Wrong : Last - k <= Last - i
      BY <2>2, <3>1
    <3>3. \A i \in Wrong : i \in Int
      BY <1>5
    <3> QED
      BY <1>5, <3>2, <3>3
  <2>4. Shift(c, d, k) \in Cell \ board
    BY <1>4, <2>3, Unrolled
  <2>5. k + 1 \in 1 .. Last
    <3>1. k # Last
      BY <2>4, RayLeaves
    <3> QED
      BY <1>5, <3>1
  <2>6. k + 1 \notin Wrong
    BY <1>5, <2>3
  <2>7. walk[k + 1] = Walked(c, d, k + 1, board)
    BY <2>5, <2>6
  <2>8. k \in 1 .. Last /\ walk[k] # Walked(c, d, k, board)
    BY <2>3
  <2>9. walk[k] = {Shift(c, d, k)} \cup walk[k + 1]
    BY <1>4, <2>4, <2>8
  <2>10. Walked(c, d, k, board) = {Shift(c, d, k)} \cup Walked(c, d, k + 1, board)
    BY <2>4, <2>8, Unrolled
  <2> QED
    BY <2>7, <2>8, <2>9, <2>10
<1> QED
  BY <1>3, <1>5, <1>6

\* What a direction adds to a coordinate.
Unit == {-1, 0, 1}

\* The slope of a stretch does not depend on its length.
LEMMA SameLine ==
  ASSUME NEW x \in Int, NEW y \in Int, NEW k \in Nat \ {0},
         NEW d1 \in Unit, NEW d2 \in Unit
  PROVE  x * (k * d2) = y * (k * d1) <=> x * d2 = y * d1
<1>1. /\ k * 0 = 0 /\ k * 1 = k /\ k * (-1) = -k
      /\ x * 0 = 0 /\ y * 0 = 0 /\ x * 1 = x /\ y * 1 = y /\ x * (-1) = -x /\ y * (-1) = -y
  OBVIOUS
<1>2. /\ x * (-k) = -(x * k) /\ y * (-k) = -(y * k)
      /\ x * k \in Int /\ y * k \in Int
  OBVIOUS
<1>3. x * k = 0 <=> x = 0
  OBVIOUS
<1>4. y * k = 0 <=> y = 0
  OBVIOUS
<1>5. x * k = y * k <=> x = y
  <2>1. (x - y) * k = x * k - y * k
    OBVIOUS
  <2>2. (x - y) * k = 0 <=> x - y = 0
    OBVIOUS
  <2> QED
    BY <1>2, <2>1, <2>2
<1>6. x * k = -(y * k) <=> x = -y
  <2>1. (x + y) * k = x * k + y * k
    OBVIOUS
  <2>2. (x + y) * k = 0 <=> x + y = 0
    OBVIOUS
  <2> QED
    BY <1>2, <2>1, <2>2
<1>7. CASE d1 = 0
  BY <1>1, <1>2, <1>3, <1>7
<1>8. CASE d1 = 1
  BY <1>1, <1>2, <1>3, <1>4, <1>5, <1>6, <1>8
<1>9. CASE d1 = -1
  BY <1>1, <1>2, <1>3, <1>4, <1>5, <1>6, <1>9
<1> QED
  BY <1>7, <1>8, <1>9 DEF Unit

\* The length of an offset, as Distance measures it.
Far(x, y) == IF Abs(x) >= Abs(y) THEN Abs(x) ELSE Abs(y)

\* An offset <<x, y>> strictly inside the one of k steps, and one of fewer steps.
Inside(x, y, k, d1, d2) ==
    /\ <<x, y>> # <<0, 0>> /\ <<x, y>> # <<k * d1, k * d2>>
    /\ Far(x, y) + Far(k * d1 - x, k * d2 - y) = Far(k * d1, k * d2)
    /\ x * d2 = y * d1
Fewer(x, y, k, d1, d2) == \E m \in 1 .. k - 1 : x = m * d1 /\ y = m * d2

\* What lies between, for a stretch of k steps.
LEMMA OnTheWay ==
  ASSUME NEW x \in Int, NEW y \in Int, NEW k \in Nat \ {0},
         NEW d1 \in Unit, NEW d2 \in Unit, d1 # 0 \/ d2 # 0
  PROVE  Inside(x, y, k, d1, d2) <=> Fewer(x, y, k, d1, d2)
<1> DEFINE m == Far(x, y)
<1>1. m \in Nat
  BY DEF Far, Abs
<1>2. CASE d1 = 0 /\ d2 = 1
  BY <1>2 DEF Inside, Fewer, Far, Abs
<1>3. CASE d1 = 0 /\ d2 = -1
  BY <1>3 DEF Inside, Fewer, Far, Abs
<1>4. CASE d1 = 1 /\ d2 = 0
  BY <1>4 DEF Inside, Fewer, Far, Abs
<1>5. CASE d1 = -1 /\ d2 = 0
  BY <1>5 DEF Inside, Fewer, Far, Abs
<1>6. CASE d1 = 1 /\ d2 = 1
  BY <1>6 DEF Inside, Fewer, Far, Abs
<1>7. CASE d1 = 1 /\ d2 = -1
  BY <1>7 DEF Inside, Fewer, Far, Abs
<1>8. CASE d1 = -1 /\ d2 = 1
  BY <1>8 DEF Inside, Fewer, Far, Abs
<1>9. CASE d1 = -1 /\ d2 = -1
  BY <1>9 DEF Inside, Fewer, Far, Abs
<1> QED
  BY <1>2, <1>3, <1>4, <1>5, <1>6, <1>7, <1>8, <1>9 DEF Unit

\* The cells between a cell and one k steps away are those on the way.
LEMMA BetweenOnRay ==
  ASSUME NEW c \in Cell, NEW d \in Straight \cup Diagonal, NEW k \in Nat \ {0},
         Shift(c, d, k) \in Cell, NEW z \in Cell
  PROVE  z \in Between(c, Shift(c, d, k)) <=> \E m \in 1 .. k - 1 : z = Shift(c, d, m)
<1> DEFINE far == Shift(c, d, k)
           x == z[1] - c[1]
           y == z[2] - c[2]
<1>1. /\ c = <<c[1], c[2]>> /\ c[1] \in Int /\ c[2] \in Int
      /\ z = <<z[1], z[2]>> /\ z[1] \in Int /\ z[2] \in Int
  BY CellFacts
<1>2. d[1] \in Unit /\ d[2] \in Unit /\ (d[1] # 0 \/ d[2] # 0)
  <2>1. d \in {<<0, 1>>, <<0, -1>>, <<1, 0>>, <<-1, 0>>, <<1, 1>>, <<1, -1>>, <<-1, 1>>, <<-1, -1>>}
    BY DEF Straight, Diagonal
  <2> QED
    BY <2>1 DEF Unit
<1>3. x \in Int /\ y \in Int /\ k * d[1] \in Int /\ k * d[2] \in Int
  BY <1>1, <1>2 DEF Unit
<1>4. far = <<c[1] + k * d[1], c[2] + k * d[2]>>
  BY DEF Shift
<1>5. far[1] - c[1] = k * d[1] /\ far[2] - c[2] = k * d[2]
      /\ far[1] - z[1] = k * d[1] - x /\ far[2] - z[2] = k * d[2] - y
  BY <1>1, <1>3, <1>4
<1>6. z # c <=> <<x, y>> # <<0, 0>>
  BY <1>1
<1>7. z # far <=> <<x, y>> # <<k * d[1], k * d[2]>>
  BY <1>1, <1>3, <1>4
<1>8. /\ Distance(c, z) = Far(x, y)
      /\ Distance(z, far) = Far(k * d[1] - x, k * d[2] - y)
      /\ Distance(c, far) = Far(k * d[1], k * d[2])
  BY <1>5 DEF Distance, Far
<1>9. \A m \in 1 .. k - 1 : z = Shift(c, d, m) <=> x = m * d[1] /\ y = m * d[2]
  <2> SUFFICES ASSUME NEW m \in 1 .. k - 1
               PROVE  z = Shift(c, d, m) <=> x = m * d[1] /\ y = m * d[2]
    OBVIOUS
  <2>1. m * d[1] \in Int /\ m * d[2] \in Int
    BY <1>2 DEF Unit
  <2> QED
    BY <1>1, <2>1 DEF Shift
<1>0. far \in Cell
  OBVIOUS
<1>10. z \in Between(c, far)
         <=> /\ z # c /\ z # far
             /\ Distance(c, z) + Distance(z, far) = Distance(c, far)
             /\ (z[1] - c[1]) * (far[2] - c[2]) = (z[2] - c[2]) * (far[1] - c[1])
  <2> HIDE DEF far
  <2> QED
    BY <1>0 DEF Between, Distance, Abs, Distance, Abs, Cell, Cell
<1> HIDE DEF far, x, y
<1>11. (z[1] - c[1]) * (far[2] - c[2]) = (z[2] - c[2]) * (far[1] - c[1]) <=> x * d[2] = y * d[1]
  <2>1. x * (k * d[2]) = y * (k * d[1]) <=> x * d[2] = y * d[1]
    BY <1>2, <1>3, SameLine
  <2> QED
    BY <1>5, <2>1 DEF x, y
<1>12. Inside(x, y, k, d[1], d[2]) <=> Fewer(x, y, k, d[1], d[2])
  BY <1>2, <1>3, OnTheWay
<1>13. Inside(x, y, k, d[1], d[2])
         <=> /\ <<x, y>> # <<0, 0>> /\ <<x, y>> # <<k * d[1], k * d[2]>>
             /\ Far(x, y) + Far(k * d[1] - x, k * d[2] - y) = Far(k * d[1], k * d[2])
             /\ x * d[2] = y * d[1]
  BY DEF Inside
<1>14. Fewer(x, y, k, d[1], d[2]) <=> \E m \in 1 .. k - 1 : z = Shift(c, d, m)
  BY <1>9 DEF Fewer
<1>15. z \in Between(c, far) <=> Inside(x, y, k, d[1], d[2])
  BY <1>6, <1>7, <1>8, <1>10, <1>11, <1>13
<1> QED
  BY <1>12, <1>14, <1>15 DEF far

\* A direction goes one row, one column or both, and is not still.
LEMMA Directions ==
  \A d \in Straight \cup Diagonal : d[1] \in Unit /\ d[2] \in Unit /\ (d[1] # 0 \/ d[2] # 0)
<1>1. \A d \in Straight \cup Diagonal :
         d \in {<<0, 1>>, <<0, -1>>, <<1, 0>>, <<-1, 0>>, <<1, 1>>, <<1, -1>>, <<-1, 1>>, <<-1, -1>>}
  BY DEF Straight, Diagonal
<1> QED
  BY <1>1 DEF Unit

\* What n steps of a direction add to a coordinate.
LEMMA Steps ==
  \A n \in Int, u \in Unit : /\ n * u \in {0, n, -n}
                             /\ u = 0 => n * u = 0
                             /\ u = 1 => n * u = n
                             /\ u = -1 => n * u = -n
  BY DEF Unit

\* The board is convex: a ray that is on it after k steps never left it.
LEMMA Convex ==
  ASSUME NEW c \in Cell, NEW d \in Straight \cup Diagonal, NEW k \in Nat \ {0},
         Shift(c, d, k) \in Cell, NEW m \in 1 .. k
  PROVE  Shift(c, d, m) \in Cell
<1>1. d[1] \in Unit /\ d[2] \in Unit
  BY Directions
<1>2. /\ c[1] \in Int /\ c[2] \in Int /\ Height \in Nat /\ Width \in Nat
      /\ 0 <= c[1] /\ c[1] < Height /\ 0 <= c[2] /\ c[2] < Width
  BY CellFacts, BoardAssumption
<1> DEFINE a == k * d[1]
           b == k * d[2]
           r == m * d[1]
           s == m * d[2]
<1>3. /\ d[1] = 0 => a = 0 /\ r = 0
      /\ d[1] = 1 => a = k /\ r = m
      /\ d[1] = -1 => a = -k /\ r = -m
      /\ d[2] = 0 => b = 0 /\ s = 0
      /\ d[2] = 1 => b = k /\ s = m
      /\ d[2] = -1 => b = -k /\ s = -m
  BY <1>1, Steps
<1>4. Shift(c, d, k) = <<c[1] + a, c[2] + b>> /\ Shift(c, d, m) = <<c[1] + r, c[2] + s>>
  BY DEF Shift
<1> HIDE DEF a, b, r, s
<1>5. a \in Int /\ b \in Int /\ r \in Int /\ s \in Int
  BY <1>1, <1>3 DEF Unit
<1>6. 0 <= c[1] + a /\ c[1] + a < Height /\ 0 <= c[2] + b /\ c[2] + b < Width
  BY <1>2, <1>4, <1>5, InCell
<1>7. /\ 0 <= c[1] + r /\ c[1] + r < Height /\ 0 <= c[2] + s /\ c[2] + s < Width
  BY <1>1, <1>2, <1>3, <1>6 DEF Unit
<1> QED
  BY <1>2, <1>4, <1>5, <1>7, InCell

\* The loop gets to the k-th cell of a ray exactly when nothing is between.
LEMMA OpenMeansClear ==
  ASSUME NEW c \in Cell, NEW d \in Straight \cup Diagonal, NEW k \in Nat \ {0},
         NEW board \in SUBSET Cell
  PROVE  Open(c, d, 1, k, board)
         <=> /\ Shift(c, d, k) \in Cell
             /\ Between(c, Shift(c, d, k)) \cap board = {}
<1>1. CASE Shift(c, d, k) \notin Cell
  BY <1>1 DEF Open
<1>2. CASE Shift(c, d, k) \in Cell
  <2>1. \A m \in 1 .. k : Shift(c, d, m) \in Cell
    BY <1>2, Convex
  <2>2. \A z \in Cell : z \in Between(c, Shift(c, d, k))
                        <=> \E m \in 1 .. k - 1 : z = Shift(c, d, m)
    BY <1>2, BetweenOnRay
  <2>3. 1 .. k - 1 \subseteq 1 .. k
    OBVIOUS
  <2> QED
    BY <1>2, <2>1, <2>2, <2>3 DEF Open
<1> QED
  BY <1>1, <1>2

\* A ray that is still on the board is within the loop's range, and off its start.
LEMMA StillOnBoard ==
  ASSUME NEW c \in Cell, NEW d \in Straight \cup Diagonal, NEW k \in Nat \ {0},
         Shift(c, d, k) \in Cell
  PROVE  k \in 1 .. Last /\ Shift(c, d, k) # c
<1>1. d[1] \in Unit /\ d[2] \in Unit /\ (d[1] # 0 \/ d[2] # 0)
  BY Directions
<1>2. /\ c[1] \in Int /\ c[2] \in Int /\ Height \in Nat /\ Width \in Nat
      /\ 0 <= c[1] /\ c[1] < Height /\ 0 <= c[2] /\ c[2] < Width
      /\ c = <<c[1], c[2]>>
  BY CellFacts, BoardAssumption
<1> DEFINE a == k * d[1]
           b == k * d[2]
<1>3. /\ d[1] = 0 => a = 0
      /\ d[1] = 1 => a = k
      /\ d[1] = -1 => a = -k
      /\ d[2] = 0 => b = 0
      /\ d[2] = 1 => b = k
      /\ d[2] = -1 => b = -k
  BY <1>1, Steps
<1>4. Shift(c, d, k) = <<c[1] + a, c[2] + b>>
  BY DEF Shift
<1> HIDE DEF a, b
<1>5. a \in Int /\ b \in Int
  BY <1>1, <1>3 DEF Unit
<1>6. 0 <= c[1] + a /\ c[1] + a < Height /\ 0 <= c[2] + b /\ c[2] + b < Width
  BY <1>2, <1>4, <1>5, InCell
<1>7. k < Last /\ (a # 0 \/ b # 0)
  BY <1>1, <1>2, <1>3, <1>6 DEF Unit, Last
<1>8. c[1] + a # c[1] \/ c[2] + b # c[2]
  BY <1>2, <1>5, <1>7
<1>9. k \in 1 .. Last
  BY <1>2, <1>7 DEF Last
<1>10. Shift(c, d, k) # c
  BY <1>2, <1>4, <1>8
<1> QED
  BY <1>9, <1>10

\* What the loop sees along one direction.
LEMMA RaySees ==
  ASSUME NEW c \in Cell, NEW d \in Straight \cup Diagonal, NEW board \in SUBSET Cell
  PROVE  \A e : e \in Ray(c, d, board)
                <=> /\ e \in Cell \ {c} /\ Between(c, e) \cap board = {}
                    /\ \E k \in Nat \ {0} : e = Shift(c, d, k)
<1>1. Ray(c, d, board) = {Shift(c, d, k) : k \in {i \in 1 .. Last : Open(c, d, 1, i, board)}}
  BY RayIsWalked DEF Walked
<1> SUFFICES ASSUME NEW e
             PROVE  e \in Ray(c, d, board)
                    <=> /\ e \in Cell \ {c} /\ Between(c, e) \cap board = {}
                        /\ \E k \in Nat \ {0} : e = Shift(c, d, k)
  OBVIOUS
<1>2. ASSUME e \in Ray(c, d, board)
      PROVE  /\ e \in Cell \ {c} /\ Between(c, e) \cap board = {}
             /\ \E k \in Nat \ {0} : e = Shift(c, d, k)
  <2>1. PICK k \in 1 .. Last : e = Shift(c, d, k) /\ Open(c, d, 1, k, board)
    BY <1>1, <1>2
  <2>2. k \in Nat \ {0}
    BY BoardAssumption DEF Last
  <2>3. e \in Cell /\ Between(c, e) \cap board = {}
    BY <2>1, <2>2, OpenMeansClear
  <2>4. e # c
    BY <2>1, <2>2, <2>3, StillOnBoard
  <2> QED
    BY <2>1, <2>2, <2>3, <2>4
<1>3. ASSUME e \in Cell \ {c}, Between(c, e) \cap board = {},
             NEW k \in Nat \ {0}, e = Shift(c, d, k)
      PROVE  e \in Ray(c, d, board)
  <2>1. k \in 1 .. Last
    BY <1>3, StillOnBoard
  <2>2. Open(c, d, 1, k, board)
    BY <1>3, OpenMeansClear
  <2> QED
    BY <1>1, <1>3, <2>1, <2>2
<1> QED
  BY <1>2, <1>3

\* A cell on the same rank or file is some steps away in a straight direction.
LEMMA StraightLines ==
  ASSUME NEW c \in Cell, NEW e \in Cell, c # e
  PROVE  c[1] = e[1] \/ c[2] = e[2]
         <=> \E d \in Straight : \E k \in Nat \ {0} : e = Shift(c, d, k)
<1> DEFINE x == e[1] - c[1]
           y == e[2] - c[2]
<1>1. /\ c[1] \in Int /\ c[2] \in Int /\ e[1] \in Int /\ e[2] \in Int
      /\ c = <<c[1], c[2]>> /\ e = <<e[1], e[2]>>
  BY CellFacts
<1>2. x \in Int /\ y \in Int /\ (x # 0 \/ y # 0)
  BY <1>1
<1>3. \A k \in Nat \ {0} : /\ Shift(c, <<0, 1>>, k) = <<c[1], c[2] + k>>
                           /\ Shift(c, <<0, -1>>, k) = <<c[1], c[2] - k>>
                           /\ Shift(c, <<1, 0>>, k) = <<c[1] + k, c[2]>>
                           /\ Shift(c, <<-1, 0>>, k) = <<c[1] - k, c[2]>>
  BY <1>1 DEF Shift
<1>4. \A k \in Nat \ {0} : /\ e = Shift(c, <<0, 1>>, k) <=> x = 0 /\ y = k
                           /\ e = Shift(c, <<0, -1>>, k) <=> x = 0 /\ y = -k
                           /\ e = Shift(c, <<1, 0>>, k) <=> x = k /\ y = 0
                           /\ e = Shift(c, <<-1, 0>>, k) <=> x = -k /\ y = 0
  BY <1>1, <1>3
<1>5. (\E d \in Straight : \E k \in Nat \ {0} : e = Shift(c, d, k))
      <=> \E k \in Nat \ {0} : \/ e = Shift(c, <<0, 1>>, k) \/ e = Shift(c, <<0, -1>>, k)
                               \/ e = Shift(c, <<1, 0>>, k) \/ e = Shift(c, <<-1, 0>>, k)
  BY DEF Straight
<1>6. c[1] = e[1] \/ c[2] = e[2] <=> x = 0 \/ y = 0
  BY <1>1
<1> HIDE DEF x, y
<1>7. x = 0 \/ y = 0 <=> \E k \in Nat \ {0} : \/ x = 0 /\ y = k
                                              \/ x = 0 /\ y = -k
                                              \/ x = k /\ y = 0
                                              \/ x = -k /\ y = 0
  <2> DEFINE F(k) == \/ x = 0 /\ y = k
                     \/ x = 0 /\ y = -k
                     \/ x = k /\ y = 0
                     \/ x = -k /\ y = 0
  <2>1. ASSUME NEW k \in Nat \ {0}, F(k)
        PROVE  x = 0 \/ y = 0
    BY <2>1
  <2>2. ASSUME x = 0 \/ y = 0
        PROVE  \E k \in Nat \ {0} : F(k)
    <3>1. CASE x > 0
      <4>1. x \in Nat \ {0} /\ F(x)
        BY <1>2, <2>2, <3>1
      <4> QED
        BY <4>1
    <3>2. CASE x < 0
      <4>1. -x \in Nat \ {0} /\ F(-x)
        BY <1>2, <2>2, <3>2
      <4> HIDE DEF F
      <4> QED
        BY <4>1
    <3>3. CASE y > 0
      <4>0. x = 0 /\ y \in Nat \ {0}
        BY <1>2, <2>2, <3>3
      <4>1. y \in Nat \ {0} /\ F(y)
        BY <4>0
      <4> QED
        BY <4>1
    <3>4. CASE y < 0
      <4>0. x = 0 /\ -y \in Nat \ {0} /\ y = -(-y)
        BY <1>2, <2>2, <3>4
      <4>1. -y \in Nat \ {0} /\ F(-y)
        BY <4>0
      <4> HIDE DEF F
      <4> QED
        BY <4>1
    <3> QED
      BY <1>2, <3>1, <3>2, <3>3, <3>4
  <2> QED
    BY <2>1, <2>2
<1> QED
  BY <1>4, <1>5, <1>6, <1>7

\* A cell on the same diagonal is some steps away in a diagonal direction.
LEMMA DiagonalLines ==
  ASSUME NEW c \in Cell, NEW e \in Cell, c # e
  PROVE  Abs(c[1] - e[1]) = Abs(c[2] - e[2])
         <=> \E d \in Diagonal : \E k \in Nat \ {0} : e = Shift(c, d, k)
<1> DEFINE x == e[1] - c[1]
           y == e[2] - c[2]
<1>1. /\ c[1] \in Int /\ c[2] \in Int /\ e[1] \in Int /\ e[2] \in Int
      /\ c = <<c[1], c[2]>> /\ e = <<e[1], e[2]>>
  BY CellFacts
<1>2. x \in Int /\ y \in Int /\ (x # 0 \/ y # 0)
  BY <1>1
<1>3. \A k \in Nat \ {0} : /\ Shift(c, <<1, 1>>, k) = <<c[1] + k, c[2] + k>>
                           /\ Shift(c, <<1, -1>>, k) = <<c[1] + k, c[2] - k>>
                           /\ Shift(c, <<-1, 1>>, k) = <<c[1] - k, c[2] + k>>
                           /\ Shift(c, <<-1, -1>>, k) = <<c[1] - k, c[2] - k>>
  BY <1>1 DEF Shift
<1>4. \A k \in Nat \ {0} : /\ e = Shift(c, <<1, 1>>, k) <=> x = k /\ y = k
                           /\ e = Shift(c, <<1, -1>>, k) <=> x = k /\ y = -k
                           /\ e = Shift(c, <<-1, 1>>, k) <=> x = -k /\ y = k
                           /\ e = Shift(c, <<-1, -1>>, k) <=> x = -k /\ y = -k
  BY <1>1, <1>3
<1>5. (\E d \in Diagonal : \E k \in Nat \ {0} : e = Shift(c, d, k))
      <=> \E k \in Nat \ {0} : \/ e = Shift(c, <<1, 1>>, k) \/ e = Shift(c, <<1, -1>>, k)
                               \/ e = Shift(c, <<-1, 1>>, k) \/ e = Shift(c, <<-1, -1>>, k)
  BY DEF Diagonal
<1>6. Abs(c[1] - e[1]) = Abs(c[2] - e[2]) <=> x = y \/ x = -y
  BY <1>1 DEF Abs
<1> HIDE DEF x, y
<1>7. x = y \/ x = -y <=> \E k \in Nat \ {0} : \/ x = k /\ y = k
                                               \/ x = k /\ y = -k
                                               \/ x = -k /\ y = k
                                               \/ x = -k /\ y = -k
  <2> DEFINE F(k) == \/ x = k /\ y = k
                     \/ x = k /\ y = -k
                     \/ x = -k /\ y = k
                     \/ x = -k /\ y = -k
  <2>1. ASSUME NEW k \in Nat \ {0}, F(k)
        PROVE  x = y \/ x = -y
    BY <2>1
  <2>2. ASSUME x = y \/ x = -y
        PROVE  \E k \in Nat \ {0} : F(k)
    <3>1. x # 0
      BY <1>2, <2>2
    <3>2. CASE x > 0
      <4>0. x \in Nat \ {0} /\ (y = x \/ y = -x)
        BY <1>2, <2>2, <3>2
      <4>1. x \in Nat \ {0} /\ F(x)
        BY <4>0
      <4> HIDE DEF F
      <4> QED
        BY <4>1
    <3>3. CASE x < 0
      <4>0. -x \in Nat \ {0} /\ x = -(-x) /\ (y = -x \/ y = -(-x))
        BY <1>2, <2>2, <3>3
      <4>1. -x \in Nat \ {0} /\ F(-x)
        BY <4>0
      <4> HIDE DEF F
      <4> QED
        BY <4>1
    <3> QED
      BY <1>2, <3>1, <3>2, <3>3
  <2> QED
    BY <2>1, <2>2
<1> QED
  BY <1>4, <1>5, <1>6, <1>7

\* _sliding_destinations of some directions, for every board.
LEMMA SlidingSees ==
  ASSUME NEW c \in Cell, NEW D \in SUBSET (Straight \cup Diagonal), NEW board \in SUBSET Cell
  PROVE  \A e : e \in SlidingDestinations(c, D, board)
                <=> /\ e \in Cell \ {c} /\ Between(c, e) \cap board = {}
                    /\ \E d \in D : \E k \in Nat \ {0} : e = Shift(c, d, k)
<1>1. \A d \in D : \A e : e \in Ray(c, d, board)
                          <=> /\ e \in Cell \ {c} /\ Between(c, e) \cap board = {}
                              /\ \E k \in Nat \ {0} : e = Shift(c, d, k)
  BY RaySees
<1> QED
  BY <1>1 DEF SlidingDestinations

\* Queens, rooks and bishops, on every board: the aligned cells with nothing
\* between.
LEMMA SlidersOnEveryBoard ==
  ASSUME NEW sort \in Sliders, NEW color, NEW startRow, NEW c \in Cell, NEW board \in SUBSET Cell
  PROVE  LegalDestinations(sort, color, startRow, c, board)
           = {e \in Cell \ {c} : Aligned(sort, c, e) /\ Between(c, e) \cap board = {}}
<1> SUFFICES ASSUME NEW e
             PROVE  e \in LegalDestinations(sort, color, startRow, c, board)
                    <=> /\ e \in Cell \ {c} /\ Aligned(sort, c, e)
                        /\ Between(c, e) \cap board = {}
  OBVIOUS
<1> DEFINE On(D) == \E d \in D : \E k \in Nat \ {0} : e = Shift(c, d, k)
           Clear == e \in Cell \ {c} /\ Between(c, e) \cap board = {}
<1>1. Straight \in SUBSET (Straight \cup Diagonal) /\ Diagonal \in SUBSET (Straight \cup Diagonal)
  OBVIOUS
<1>2. e \in SlidingDestinations(c, Straight, board) <=> Clear /\ On(Straight)
  <2>1. \A x : x \in SlidingDestinations(c, Straight, board)
               <=> /\ x \in Cell \ {c} /\ Between(c, x) \cap board = {}
                   /\ \E d \in Straight : \E k \in Nat \ {0} : x = Shift(c, d, k)
    BY <1>1, SlidingSees
  <2> QED
    BY <2>1
<1>3. e \in SlidingDestinations(c, Diagonal, board) <=> Clear /\ On(Diagonal)
  <2>1. \A x : x \in SlidingDestinations(c, Diagonal, board)
               <=> /\ x \in Cell \ {c} /\ Between(c, x) \cap board = {}
                   /\ \E d \in Diagonal : \E k \in Nat \ {0} : x = Shift(c, d, k)
    BY <1>1, SlidingSees
  <2> QED
    BY <2>1
<1>4. ASSUME Clear
      PROVE  /\ On(Straight) <=> c[1] = e[1] \/ c[2] = e[2]
             /\ On(Diagonal) <=> Abs(c[1] - e[1]) = Abs(c[2] - e[2])
  BY <1>4, StraightLines, DiagonalLines
<1> HIDE DEF On
<1>5. Aligned(sort, c, e)
        <=> \/ sort \in {"R", "Q"} /\ (c[1] = e[1] \/ c[2] = e[2])
            \/ sort \in {"B", "Q"} /\ Abs(c[1] - e[1]) = Abs(c[2] - e[2])
  BY DEF Aligned
<1>6. e \in LegalDestinations(sort, color, startRow, c, board)
        <=> \/ sort \in {"R", "Q"} /\ e \in SlidingDestinations(c, Straight, board)
            \/ sort \in {"B", "Q"} /\ e \in SlidingDestinations(c, Diagonal, board)
  BY DEF LegalDestinations, Sliders
<1> QED
  BY <1>2, <1>3, <1>4, <1>5, <1>6

\* One and two steps along a ray: nothing between, and only the first cell.
LEMMA NearBetween ==
  ASSUME NEW c \in Cell, NEW d \in Straight \cup Diagonal
  PROVE  /\ Shift(c, d, 1) \in Cell => Between(c, Shift(c, d, 1)) = {}
         /\ Shift(c, d, 2) \in Cell => Between(c, Shift(c, d, 2)) \subseteq {Shift(c, d, 1)}
<1>1. \A e : Between(c, e) \subseteq Cell
  BY DEF Between
<1>2. ASSUME Shift(c, d, 1) \in Cell
      PROVE  Between(c, Shift(c, d, 1)) = {}
  <2>1. \A z \in Cell : z \in Between(c, Shift(c, d, 1))
                        <=> \E m \in 1 .. 1 - 1 : z = Shift(c, d, m)
    BY <1>2, BetweenOnRay
  <2>2. 1 .. 1 - 1 = {}
    OBVIOUS
  <2> QED
    BY <1>1, <2>1, <2>2
<1>3. ASSUME Shift(c, d, 2) \in Cell
      PROVE  Between(c, Shift(c, d, 2)) \subseteq {Shift(c, d, 1)}
  <2>1. \A z \in Cell : z \in Between(c, Shift(c, d, 2))
                        <=> \E m \in 1 .. 2 - 1 : z = Shift(c, d, m)
    BY <1>3, BetweenOnRay
  <2>2. 1 .. 2 - 1 = {1}
    OBVIOUS
  <2> QED
    BY <1>1, <2>1, <2>2
<1> QED
  BY <1>2, <1>3

\* Pawns of both colours, on every board.
LEMMA PawnsOnEveryBoard ==
  ASSUME NEW color \in Color, NEW c \in Cell, NEW startRow, NEW board \in SUBSET Cell,
         NEW e \in PawnDestinations(c, color, startRow, board)
  PROVE  /\ e[2] = c[2] <=> e \notin board
         /\ Between(c, e) \cap board = {}
         /\ Distance(c, e) = 2 => c[1] = startRow /\ e[2] = c[2]
         /\ IF color = "w" THEN e[1] < c[1] ELSE e[1] > c[1]
<1> DEFINE f == Forward(color)
           front == <<f, 0>>
           free(pos) == pos \in Cell \ board
<1>1. f \in {-1, 1} /\ (color = "w" => f = -1) /\ (color # "w" => f = 1)
  BY DEF Forward
<1>2. c = <<c[1], c[2]>> /\ c[1] \in Int /\ c[2] \in Int
  BY CellFacts
<1>3. front \in Straight \cup Diagonal /\ \A dc \in {-1, 1} : <<f, dc>> \in Straight \cup Diagonal
  BY <1>1 DEF Straight, Diagonal
<1>4. \/ e = Shift(c, front, 1) /\ free(e)
      \/ e = Shift(c, front, 2) /\ free(e) /\ free(Shift(c, front, 1)) /\ c[1] = startRow
      \/ \E dc \in {-1, 1} : e = Shift(c, <<f, dc>>, 1) /\ e \in Cell /\ e \in board
  BY DEF PawnDestinations
<1>5. /\ Shift(c, front, 1) = <<c[1] + f, c[2]>>
      /\ Shift(c, front, 2) = <<c[1] + 2 * f, c[2]>>
      /\ \A dc \in {-1, 1} : Shift(c, <<f, dc>>, 1) = <<c[1] + f, c[2] + dc>>
  BY <1>1, <1>2 DEF Shift
<1>6. CASE e = Shift(c, front, 1) /\ free(e)
  <2>1. Between(c, e) = {}
    BY <1>3, <1>6, NearBetween
  <2>2. e = <<c[1] + f, c[2]>> /\ e \notin board
    BY <1>5, <1>6
  <2>3. Distance(c, e) = 1
    BY <1>1, <1>2, <2>2 DEF Distance, Abs
  <2>4. IF color = "w" THEN e[1] < c[1] ELSE e[1] > c[1]
    BY <1>1, <1>2, <2>2
  <2>5. e[2] = c[2]
    BY <2>2
  <2> QED
    BY <2>1, <2>2, <2>3, <2>4, <2>5
<1>7. CASE e = Shift(c, front, 2) /\ free(e) /\ free(Shift(c, front, 1)) /\ c[1] = startRow
  <2>1. Between(c, e) \cap board = {}
    BY <1>3, <1>7, NearBetween
  <2>2. e = <<c[1] + 2 * f, c[2]>> /\ e \notin board
    BY <1>5, <1>7
  <2>3. IF color = "w" THEN e[1] < c[1] ELSE e[1] > c[1]
    BY <1>1, <1>2, <2>2
  <2>4. e[2] = c[2]
    BY <2>2
  <2> QED
    BY <1>7, <2>1, <2>2, <2>3, <2>4
<1>8. CASE \E dc \in {-1, 1} : e = Shift(c, <<f, dc>>, 1) /\ e \in Cell /\ e \in board
  <2>1. PICK dc \in {-1, 1} : e = Shift(c, <<f, dc>>, 1) /\ e \in Cell /\ e \in board
    BY <1>8
  <2>2. Between(c, e) = {}
    BY <1>3, <2>1, NearBetween
  <2>3. e = <<c[1] + f, c[2] + dc>>
    BY <1>5, <2>1
  <2>4. Distance(c, e) = 1
    BY <1>1, <1>2, <2>3 DEF Distance, Abs
  <2>5. IF color = "w" THEN e[1] < c[1] ELSE e[1] > c[1]
    BY <1>1, <1>2, <2>3
  <2>6. e[2] # c[2]
    BY <1>2, <2>3
  <2> QED
    BY <2>1, <2>2, <2>4, <2>5, <2>6
<1> QED
  BY <1>4, <1>6, <1>7, <1>8

\* What is asked is a board.
LEMMA BoardTyped == BoardSpec => [](occupied \in SUBSET Cell)
<1>1. BoardInit => occupied \in SUBSET Cell
  BY DEF BoardInit
<1>2. occupied \in SUBSET Cell /\ [BoardNext]_occupied => (occupied \in SUBSET Cell)'
  BY DEF BoardNext, Place, Lift
<1> QED
  BY <1>1, <1>2, PTL DEF BoardSpec

\* On a board of any size with any number of pieces the sliding loop of
\* piece_rules.py answers, for a queen, a rook or a bishop, what its lines show:
\* the aligned cells with nothing between, a blocker's own cell included.
THEOREM OpenLines == BoardSpec => []SlidersSeeOpenLines
<1>1. occupied \in SUBSET Cell => SlidersSeeOpenLines
  BY SlidersOnEveryBoard DEF SlidersSeeOpenLines, Legal
<1> QED
  BY <1>1, BoardTyped, PTL

\* On any such board PawnMovement answers: straight ahead only to empty cells,
\* never over a piece, diagonally only to take, never backwards, and two cells
\* only from the pawn's own starting row.
THEOREM PawnsTakeDiagonally == BoardSpec => []PawnTakesOnlyDiagonally
<1>1. \A color, startRow, c : LegalDestinations("P", color, startRow, c, occupied)
                              = PawnDestinations(c, color, startRow, occupied)
  BY DEF LegalDestinations
<1>2. occupied \in SUBSET Cell => PawnTakesOnlyDiagonally
  BY <1>1, PawnsOnEveryBoard DEF PawnTakesOnlyDiagonally
<1> QED
  BY <1>2, BoardTyped, PTL

\* In a game: a move that validate_move accepts never jumps over a piece unless
\* a king or a knight makes it, and it is always to another cell.
THEOREM NobodyIsJumpedOver ==
  Spec => [](\A p \in Piece, dest \in Cell :
                ValidMove(p, dest) /\ kind[p] \in Sliders \cup {"P"} =>
                    dest # cell[p] /\ Between(cell[p], dest) \cap Occupied = {})
<1>1. TypeOK =>
        \A p \in Piece, dest \in Cell :
           ValidMove(p, dest) /\ kind[p] \in Sliders \cup {"P"} =>
               dest # cell[p] /\ Between(cell[p], dest) \cap Occupied = {}
  <2> SUFFICES ASSUME TypeOK, NEW p \in Piece, NEW dest \in Cell, ValidMove(p, dest),
                      kind[p] \in Sliders \cup {"P"}
               PROVE  dest # cell[p] /\ Between(cell[p], dest) \cap Occupied = {}
    OBVIOUS
  <2>1. /\ cell[p] \in Cell /\ PieceColor[p] \in Color /\ Occupied \in SUBSET Cell
        /\ dest \in LegalDestinations(kind[p], PieceColor[p], InitCell[p][1], cell[p], Occupied)
    BY PieceAssumption DEF TypeOK, Occupied, ValidMove
  <2>2. CASE kind[p] \in Sliders
    <3>1. LegalDestinations(kind[p], PieceColor[p], InitCell[p][1], cell[p], Occupied)
            = {e \in Cell \ {cell[p]} : /\ Aligned(kind[p], cell[p], e)
                                         /\ Between(cell[p], e) \cap Occupied = {}}
      BY <2>1, <2>2, SlidersOnEveryBoard
    <3> QED
      BY <2>1, <3>1
  <2>3. CASE kind[p] = "P"
    <3>1. dest \in PawnDestinations(cell[p], PieceColor[p], InitCell[p][1], Occupied)
      BY <2>1, <2>3 DEF LegalDestinations
    <3>2. /\ Between(cell[p], dest) \cap Occupied = {}
          /\ IF PieceColor[p] = "w" THEN dest[1] < cell[p][1] ELSE dest[1] > cell[p][1]
      BY <2>1, <3>1, PawnsOnEveryBoard
    <3>3. cell[p][1] \in Int
      BY <2>1, CellFacts
    <3> QED
      BY <3>2, <3>3
  <2> QED
    BY <2>2, <2>3
<1> QED
  BY <1>1, TypeCorrect, PTL
=============================================================================
