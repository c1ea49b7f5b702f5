----------------------------- MODULE GameEngine -----------------------------
(***************************************************************************)
(* One game as the server plays it: engine/game_engine.py over             *)
(* realtime/real_time_arbiter.py, model/board.py and rules/rule_engine.py, *)
(* driven by server/session/tick_loop.py.                                  *)
(*                                                                         *)
(* A tick is GameEngine.wait(TickMs).  It is split where the code is:      *)
(* AdvanceTime is RealTimeArbiter.advance_time with the events that wait   *)
(* applies before any arrival; then ApplyArrival(p) applies the events of  *)
(* one arrived motion, in the order of the event list.  wait never awaits, *)
(* so no command is served between them: every command requires Pending to *)
(* be empty.  An event that raises ends the tick loop's task, and the      *)
(* events after it are never applied.                                      *)
(*                                                                         *)
(* Piece objects survive their capture: a piece is off the board when no   *)
(* cell of grid holds it, while its own attributes (cell, kind, state) and *)
(* its motion in the arbiter may live on.                                  *)
(***************************************************************************)
EXTENDS PieceRules

CONSTANTS
    Piece,          \* the pieces of the game
    NoPiece,        \* what Board.get_piece answers for an empty cell
    PieceColor,     \* piece |-> colour
    InitKind,       \* piece |-> kind on the starting board
    InitCell,       \* piece |-> cell on the starting board
    Verdicts,       \* bound: the winners a resignation may name
    TickMs,         \* RealtimeConfig.tick_interval_ms
    MsPerSquare, JumpMs, LongRestMs, ShortRestMs   \* RealTimeArbiter(...)

ASSUME PieceAssumption ==
    /\ NoPiece \notin Piece
    /\ PieceColor \in [Piece -> Color]
    /\ InitKind \in [Piece -> Kind]
    /\ InitCell \in [Piece -> Cell]
    /\ \A p, q \in Piece : InitCell[p] = InitCell[q] => p = q
    /\ Verdicts \subseteq Color \cup {"none"}

ASSUME TimeAssumption ==
    /\ TickMs \in Nat \ {0}
    /\ MsPerSquare \in Nat \ {0}
    /\ JumpMs \in Nat \ {0}
    /\ LongRestMs \in Nat \ {0}
    /\ ShortRestMs \in Nat \ {0}

VARIABLES
    grid,       \* Board._grid, with NoPiece for an absent key
    cell,       \* piece.cell
    kind,       \* piece.kind
    state,      \* piece.state
    motion,     \* the piece's Motion, or NoMotion
    ahead,      \* ahead[p]: the pieces before p in the list of motions
    rest,       \* remaining ms of the piece's entry in _active_rests, 0: none
    airborne,   \* RealTimeArbiter._airborne_pos, or NoCell
    gameOver,   \* GameEngine._game_over
    winner,     \* GameEngine._winner_color, or "none"
    loop        \* the TickLoop's task: "running" or "dead"

vars == <<grid, cell, kind, state, motion, ahead, rest, airborne,
          gameOver, winner, loop>>

NoCell == <<-1, -1>>

State == {"idle", "moving", "jumping", "long_rest", "short_rest", "captured"}
Resting == {"long_rest", "short_rest"}

(* A motion and what the current tick decided about it: "flying" while it  *)
(* is in _active_motions, otherwise the event wait has still to apply:     *)
(* an arrival, a landing, an air capture of the mover, or its elimination  *)
(* by the arrival of its slayer (a late collision; a set of one piece).    *)
Fate == {"flying", "arrives", "lands", "shot", "slain"}
Motion == [type : {"move", "jump", "none"}, from : Cell \cup {NoCell},
           to : Cell \cup {NoCell}, left : Nat, fate : Fate,
           slayer : SUBSET Piece]
NoMotion == [type |-> "none", from |-> NoCell, to |-> NoCell, left |-> 0,
             fate |-> "flying", slayer |-> {}]

Enemy(p, q) == PieceColor[p] # PieceColor[q]
Occupied == {c \in Cell : grid[c] # NoPiece}
OnBoard(p) == \E c \in Cell : grid[c] = p

HasMotion(p) == motion[p].type # "none"
Flying(p) == HasMotion(p) /\ motion[p].fate = "flying"
Pending == {p \in Piece : HasMotion(p) /\ motion[p].fate # "flying"}

Moving(p) == Flying(p) /\ motion[p].type = "move"
Jumping(p) == Flying(p) /\ motion[p].type = "jump"
-----------------------------------------------------------------------------
Init ==
    /\ grid = [c \in Cell |-> IF \E p \in Piece : InitCell[p] = c
                              THEN CHOOSE p \in Piece : InitCell[p] = c
                              ELSE NoPiece]
    /\ cell = InitCell
    /\ kind = InitKind
    /\ state = [p \in Piece |-> "idle"]
    /\ motion = [p \in Piece |-> NoMotion]
    /\ ahead = [p \in Piece |-> {}]
    /\ rest = [p \in Piece |-> 0]
    /\ airborne = NoCell
    /\ gameOver = FALSE
    /\ winner = "none"
    /\ loop = "running"
-----------------------------------------------------------------------------
(* Commands: GameEngine.request_move, request_jump, force_game_over.       *)

\* The part of RuleEngine.validate_move that looks at colours.
FriendlyDestination(p, dest) ==
    grid[dest] # NoPiece /\ PieceColor[grid[dest]] = PieceColor[p]

\* RuleEngine.validate_move(board, source, dest) answers "ok" for the piece p
\* found at source; the rules read the square from p.cell.
ValidMove(p, dest) ==
    /\ dest \in Cell
    /\ ~FriendlyDestination(p, dest)
    /\ dest \in LegalDestinations(kind[p], PieceColor[p], InitCell[p][1],
                                  cell[p], Occupied)

\* Seeded faults of MayAct: a check left out.
MayActWhileResting(p) == ~gameOver /\ ~HasMotion(p)
MayActInShortRest(p) == ~gameOver /\ ~HasMotion(p) /\ state[p] # "long_rest"
MayActAfterGameOver(p) == ~HasMotion(p) /\ state[p] \notin Resting

\* The refusals that request_move and request_jump share.
MayAct(p) ==
    /\ ~gameOver
    /\ ~HasMotion(p)
    /\ state[p] \notin Resting

\* Motions are appended to _active_motions: p comes after every other.
StartMotion(p, type, from, to, ms) ==
    /\ motion' = [motion EXCEPT ![p] =
                     [type |-> type, from |-> from, to |-> to, left |-> ms,
                      fate |-> "flying", slayer |-> {}]]
    /\ ahead' = [ahead EXCEPT ![p] = {q \in Piece : HasMotion(q)}]

RequestMove(source, dest) ==
    /\ Pending = {}
    /\ grid[source] # NoPiece
    /\ LET p == grid[source]
       IN  /\ MayAct(p)
           /\ ValidMove(p, dest)
           /\ state' = [state EXCEPT ![p] = "moving"]
           /\ StartMotion(p, "move", source, dest,
                          Distance(source, dest) * MsPerSquare)
    /\ UNCHANGED <<grid, cell, kind, rest, airborne, gameOver, winner, loop>>

RequestJump(pos) ==
    /\ Pending = {}
    /\ grid[pos] # NoPiece
    /\ LET p == grid[pos]
       IN  /\ MayAct(p)
           /\ airborne = NoCell
           /\ state' = [state EXCEPT ![p] = "jumping"]
           /\ StartMotion(p, "jump", pos, NoCell, JumpMs)
    /\ airborne' = pos
    /\ UNCHANGED <<grid, cell, kind, rest, gameOver, winner, loop>>

\* Resignation: the flag and the colour are set whatever they were.
ForceGameOver(color) ==
    /\ Pending = {}
    /\ gameOver' = TRUE
    /\ winner' = color
    /\ UNCHANGED <<grid, cell, kind, state, motion, ahead, rest, airborne, loop>>
-----------------------------------------------------------------------------
(* RealTimeArbiter.advance_time.                                           *)

\* Seeded fault of Elapsed: the remaining time is not cut off at zero.
ElapsedUnclamped(ms) == ms - TickMs
Elapsed(ms) == IF ms > TickMs THEN ms - TickMs ELSE 0

\* The first of the pieces in the order of the list of motions.
Oldest(pieces) == {p \in pieces : \A o \in pieces \ {p} : p \in ahead[o]}

Arrived == {p \in Piece : Flying(p) /\ motion[p].left <= TickMs}

\* _eliminate_simultaneous_collisions: two enemy MOVEs of the same tick with
\* the same destination, or swapping their squares head-on.
Crossing(p, q) ==
    /\ motion[p].type = "move" /\ motion[q].type = "move"
    /\ Enemy(p, q)
    /\ \/ motion[p].to = motion[q].to
       \/ motion[p].to = motion[q].from /\ motion[q].to = motion[p].from

\* Of two crossing motions the one started first survives, unless a still
\* earlier one has eliminated it: lost is the one set that solves this.
LosersOfCrossings(lost) ==
    \A q \in Arrived :
        q \in lost <=> \E p \in Arrived \ lost : p \in ahead[q] /\ Crossing(p, q)

\* Seeded fault of LateFor: only the motions started after p are looked at.
LateForStartedLater(p, q) ==
    /\ Moving(q) /\ q \notin Arrived
    /\ motion[p].type = "move"
    /\ motion[q].to = motion[p].to
    /\ Enemy(p, q)
    /\ p \in ahead[q]

\* _resolve_late_collision: of the survivors' arrivals, the first at q's
\* destination by an enemy takes q, which is still under way, out.
LateFor(p, q) ==
    /\ Moving(q) /\ q \notin Arrived
    /\ motion[p].type = "move"
    /\ motion[q].to = motion[p].to
    /\ Enemy(p, q)
Slayers(q, survivors) == {p \in survivors : LateFor(p, q)}

\* _get_airborne_piece_color: the oldest JUMP still active on the airborne
\* cell; a jump that lands in this tick has left _active_motions already.
Sentries == {j \in Piece : /\ Jumping(j) /\ j \notin Arrived
                           /\ motion[j].from = airborne}

\* _resolve_air_capture's test of an arrival.
Intruder(p) ==
    /\ motion[p].type = "move"
    /\ motion[p].to = airborne
    /\ \E j \in Oldest(Sentries) : Enemy(j, p)

\* Seeded fault of Shot: arrivals are not checked against the jumper.
NeverShot(p, survivors) == FALSE

\* The first intruder is eliminated and the marker is then gone, so only it.
Shot(p, survivors) == p \in Oldest({o \in survivors : Intruder(o)})

FateOf(p, survivors) ==
    IF p \in survivors
    THEN IF motion[p].type = "jump" THEN "lands"
         ELSE IF Shot(p, survivors) THEN "shot" ELSE "arrives"
    ELSE IF Slayers(p, survivors) # {} THEN "slain" ELSE "flying"

\* Seeded fault of TimeLeft: only MOVEs lose time.
TimeLeftOfMoves(p) ==
    IF motion[p].type = "jump" THEN motion[p].left ELSE Elapsed(motion[p].left)
TimeLeft(p) == Elapsed(motion[p].left)

Advanced(p, survivors) ==
    [motion[p] EXCEPT
        !.left = TimeLeft(p),
        !.fate = FateOf(p, survivors),
        !.slayer = Oldest(Slayers(p, survivors))]

\* The fates that reset _airborne_pos; seeded fault: a landing does not.
OnlyShotUnmarks == {"shot"}
Unmarking == {"lands", "shot"}

AdvanceMotions(lost) ==
    LET survivors == Arrived \ lost
    IN  /\ motion' = [p \in Piece |->
                         IF ~HasMotion(p) \/ p \in lost THEN NoMotion
                         ELSE Advanced(p, survivors)]
        /\ ahead' = [p \in Piece |-> IF p \in lost THEN {} ELSE ahead[p] \ lost]
        /\ airborne' = IF \E p \in survivors : FateOf(p, survivors) \in Unmarking
                       THEN NoCell ELSE airborne

\* Seeded faults of RestEnds: no IdleEvent at all, or none when advance_time
\* returns early because nothing is under way.
RestNeverEnds(p) == FALSE
RestEndsUnlessQuiet(p) ==
    rest[p] > 0 /\ rest[p] <= TickMs /\ \E q \in Piece : Flying(q)

\* A rest that ends, and the rest that a survivor's arrival starts.
RestEnds(p) == rest[p] > 0 /\ rest[p] <= TickMs
AdvanceRests(lost) ==
    rest' = [p \in Piece |->
                CASE FateOf(p, Arrived \ lost) = "arrives" -> LongRestMs
                  [] FateOf(p, Arrived \ lost) = "lands" -> ShortRestMs
                  [] OTHER -> Elapsed(rest[p])]

\* advance_time marks the pieces it eliminates; wait then applies the
\* IdleEvents and the EliminationEvents of the crossings, which come first.
AdvanceStates(lost) ==
    state' = [p \in Piece |->
                 IF RestEnds(p) THEN "idle"
                 ELSE IF p \in lost \/ FateOf(p, Arrived \ lost) \in {"shot", "slain"}
                 THEN "captured" ELSE state[p]]

\* EliminationEvents name a cell: whatever stands there leaves the board.
WithoutOrigins(pieces) ==
    [c \in Cell |-> IF \E p \in pieces : motion[p].from = c
                    THEN NoPiece ELSE grid[c]]
KingAmong(pieces) == \E p \in pieces : kind[p] = "K"

AdvanceTime ==
    /\ loop = "running"
    /\ Pending = {}
    /\ \E lost \in SUBSET Arrived :
          /\ LosersOfCrossings(lost)
          /\ AdvanceMotions(lost)
          /\ AdvanceRests(lost)
          /\ AdvanceStates(lost)
          /\ grid' = WithoutOrigins(lost)
          /\ gameOver' = (gameOver \/ KingAmong(lost))
    /\ UNCHANGED <<cell, kind, winner, loop>>
-----------------------------------------------------------------------------
(* GameEngine.wait, the events of one arrival.                             *)

Slain(p) == {q \in Pending : motion[q].fate = "slain" /\ p \in motion[q].slayer}

\* MOVEs are resolved before JUMPs, both in the order they were started.
NextToApply(p) ==
    /\ p \in Pending
    /\ motion[p].fate # "slain"
    /\ \A o \in Pending \ {p} :
          motion[o].fate = "slain"
          \/ IF motion[o].type = motion[p].type
             THEN p \in ahead[o]
             ELSE motion[p].type = "move"

Discard(pieces) ==
    /\ motion' = [q \in Piece |-> IF q \in pieces THEN NoMotion ELSE motion[q]]
    /\ ahead' = [q \in Piece |-> IF q \in pieces THEN {} ELSE ahead[q] \ pieces]

PromotionRow(color) == IF color = "w" THEN 0 ELSE Height - 1

\* Board.move_piece puts the piece it pops at from on the destination and
\* writes that piece's cell.  Seeded faults: the event's piece instead.
MoverIsArriving(p, board) == p
Mover(p, board) == board[motion[p].from]
RelabelsArriving(p, board) == p
Relabelled(p, board) == Mover(p, board)

\* Board.move_piece(from, to) and the policies around it, on the board that
\* the eliminations of the late collisions left: the piece that moves is
\* whatever stands on from.  The promotion policy looks at the arriving piece.
MoveOnBoard(p, board) ==
    LET from == motion[p].from
        to == motion[p].to
        target == board[to]
    IN  /\ grid' = [board EXCEPT ![from] = NoPiece, ![to] = Mover(p, board)]
        /\ cell' = [cell EXCEPT ![Relabelled(p, board)] = to]
        /\ kind' = IF kind[p] = "P" /\ cell'[p][1] = PromotionRow(PieceColor[p])
                   THEN [kind EXCEPT ![p] = "Q"] ELSE kind
        /\ state' = [q \in Piece |->
                        IF q = p THEN "long_rest"
                        ELSE IF q = target THEN "captured" ELSE state[q]]
        /\ gameOver' = (gameOver \/ KingAmong(Slain(p))
                        \/ (target # NoPiece /\ kind[target] = "K"))

\* The arrival of a MOVE that nothing stopped.
ApplyMove(p) ==
    /\ NextToApply(p) /\ motion[p].fate = "arrives"
    /\ WithoutOrigins(Slain(p))[motion[p].from] # NoPiece
    /\ MoveOnBoard(p, WithoutOrigins(Slain(p)))
    /\ Discard(Slain(p) \cup {p})
    /\ UNCHANGED <<rest, airborne, winner, loop>>

\* move_piece pops an absent key: the KeyError leaves wait, and the tick
\* loop logs it and ends.  The remaining events are lost.
ApplyMoveRaises(p) ==
    /\ NextToApply(p) /\ motion[p].fate = "arrives"
    /\ WithoutOrigins(Slain(p))[motion[p].from] = NoPiece
    /\ grid' = WithoutOrigins(Slain(p))
    /\ gameOver' = (gameOver \/ KingAmong(Slain(p)))
    /\ Discard(Pending)
    /\ loop' = "dead"
    /\ UNCHANGED <<cell, kind, state, rest, airborne, winner>>

\* The mover met an airborne enemy: it is removed where it started.
ApplyAirCapture(p) ==
    /\ NextToApply(p) /\ motion[p].fate = "shot"
    /\ grid' = WithoutOrigins(Slain(p) \cup {p})
    /\ gameOver' = (gameOver \/ KingAmong(Slain(p) \cup {p}))
    /\ Discard(Slain(p) \cup {p})
    /\ UNCHANGED <<cell, kind, state, rest, airborne, winner, loop>>

ApplyLanding(p) ==
    /\ NextToApply(p) /\ motion[p].fate = "lands"
    /\ state' = [state EXCEPT ![p] = "short_rest"]
    /\ Discard({p})
    /\ UNCHANGED <<grid, cell, kind, rest, airborne, gameOver, winner, loop>>

ApplyArrival(p) ==
    ApplyMove(p) \/ ApplyMoveRaises(p) \/ ApplyAirCapture(p) \/ ApplyLanding(p)
-----------------------------------------------------------------------------
Tick == AdvanceTime \/ \E p \in Piece : ApplyArrival(p)

Next ==
    \/ \E source, dest \in Cell : RequestMove(source, dest)
    \/ \E pos \in Cell : RequestJump(pos)
    \/ \E color \in Verdicts : ForceGameOver(color)
    \/ Tick

Spec == Init /\ [][Next]_vars

\* asyncio runs the tick task whenever its sleep is over.
FairSpec == Spec /\ WF_vars(Tick)
-----------------------------------------------------------------------------
(* Properties.                                                             *)

TypeOK ==
    /\ grid \in [Cell -> Piece \cup {NoPiece}]
    /\ cell \in [Piece -> Cell]
    /\ kind \in [Piece -> Kind]
    /\ state \in [Piece -> State]
    /\ motion \in [Piece -> Motion]
    /\ ahead \in [Piece -> SUBSET Piece]
    /\ rest \in [Piece -> Nat]
    /\ airborne \in Cell \cup {NoCell}
    /\ gameOver \in BOOLEAN
    /\ winner \in Color \cup {"none"}
    /\ loop \in {"running", "dead"}

\* The board's two views of where a piece stands agree: the piece found at a
\* key of _grid has that key as its cell.  The rules read piece.cell and the
\* commands the key, and move_piece rewrites both for whatever it finds.
GridCellAgree ==
    \A c \in Cell : grid[c] # NoPiece => cell[grid[c]] = c

\* While the tick loop runs, a piece under way or in the air has no rest
\* running: nobody acts before its cooldown is over, and no arrival can
\* leave a second entry in _active_rests.
MotionExcludesRest ==
    loop = "running" => \A p \in Piece : Flying(p) => rest[p] = 0

\* Between two ticks the state shown for a piece on the board is the
\* arbiter's: no piece is left moving, jumping or resting with nothing in
\* the arbiter that will ever end it, whatever was captured in between.
StateMatchesArbiter ==
    loop = "running" /\ Pending = {} =>
        \A p \in Piece : OnBoard(p) =>
            /\ state[p] = "moving" <=> Moving(p)
            /\ state[p] = "jumping" <=> Jumping(p)
            /\ state[p] \in Resting <=> rest[p] > 0

\* The airborne marker is never left behind: some jump from the marked cell
\* is active and will clear it, so jumping is not blocked for ever.
MarkerHasJump ==
    airborne # NoCell =>
        \E p \in Piece : Jumping(p) /\ motion[p].from = airborne

\* No enemy completes a move onto the cell of a piece that stays in the air: it
\* is shot, or was preceded in the same tick by one that was, which takes the
\* marker away.  The oldest jump from the cell decides.  A jump that lands in the
\* tick protects nobody any more: advance_time drops it from _active_motions
\* (line 126) before it looks for the airborne piece, although it resolves the
\* MOVEs first (line 131), and the enemy takes the piece as it lands.
AirborneGuarded ==
    [][\A p \in Piece :
          Moving(p) /\ motion[p].to = airborne /\ motion'[p].fate = "arrives" =>
              \E j \in Piece :
                  /\ Jumping(j) /\ motion[j].from = airborne
                  /\ \/ ~Enemy(j, p)
                     \/ motion'[j].fate = "lands"
                     \/ \E o \in Piece : /\ motion[o].to = airborne /\ o \in ahead[p]
                                       /\ motion'[o].fate = "shot"]_vars

\* A move that arrives settles its square: no enemy that was on its way to
\* the same square is left to arrive after it.
ArrivalSettlesSquare ==
    [][\A p \in Piece : ApplyMove(p) =>
          \A q \in Piece : Flying(q)' /\ motion'[q].type = "move"
                           /\ motion'[q].to = motion[p].to => ~Enemy(p, q)]_vars

\* A captured or eliminated piece never comes back to the board, although
\* its object and its motion may still be in the arbiter's hands.
NoReturn ==
    [][\A p \in Piece : ~OnBoard(p) => ~OnBoard(p)']_vars

\* The end of the game is final and nothing is set in motion after it, while
\* what was under way may still arrive.
GameOverIsFinal ==
    [][gameOver => gameOver' /\ \A p \in Piece : HasMotion(p)' => HasMotion(p)]_vars

\* Unless the tick loop dies, every motion ends.
EveryMotionEnds ==
    \A p \in Piece : HasMotion(p) ~> ~HasMotion(p) \/ loop = "dead"

\* Unless the tick loop dies, every resting piece on the board is given its
\* freedom to act back, or is taken.
EveryRestEnds ==
    \A p \in Piece :
        OnBoard(p) /\ state[p] \in Resting
            ~> state[p] = "idle" \/ ~OnBoard(p) \/ loop = "dead"
-----------------------------------------------------------------------------
(* The abstract specification this one implements.                         *)

CooldownPhase ==
    [p \in Piece |-> IF HasMotion(p) THEN "acting"
                    ELSE IF rest[p] > 0 THEN "resting" ELSE "free"]

Ledger == INSTANCE Cooldown WITH phase <- CooldownPhase, open <- ~gameOver,
                                 halted <- (loop = "dead")

\* Every behaviour of the engine is one of the cooldown ledger: while the
\* tick loop lives, no interleaving of commands, captures, collisions and
\* arrivals lets a piece begin before its last action and rest are over.
ImplementsCooldown == Ledger!Spec
-----------------------------------------------------------------------------
(* What the repository says and the code does not keep.                    *)

\* engine/game_engine.py:158: wait "applies all resulting board changes, and
\* returns the events"; server/session/tick_loop.py:6 ends the loop by stop()
\* only.  No event may raise and take the tick loop down with it.
LoopNeverDies == loop = "running"
=============================================================================
