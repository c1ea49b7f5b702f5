------------------------------ MODULE Cooldown ------------------------------
(***************************************************************************)
(* What the real-time core promises to a player, whatever happens on the   *)
(* board: each piece goes round free -> acting -> resting -> free, one     *)
(* command at a time.  A piece that acts can only stop acting, into a rest *)
(* or (when it is eliminated) without one, and a piece that rests can only *)
(* end its rest.  Nobody begins anything once the game is closed, and it   *)
(* is closed for good.  One lapse of time may move any number of pieces.   *)
(* If the clock ever halts, nothing is promised any more.                  *)
(***************************************************************************)
CONSTANT Piece

VARIABLES phase, open, halted

vars == <<phase, open, halted>>

Phase == {"free", "acting", "resting"}

TypeOK ==
    /\ phase \in [Piece -> Phase]
    /\ open \in BOOLEAN
    /\ halted \in BOOLEAN

Init ==
    /\ phase = [p \in Piece |-> "free"]
    /\ open = TRUE
    /\ halted = FALSE

Begin(p) ==
    /\ ~halted
    /\ open
    /\ phase[p] = "free"
    /\ phase' = [phase EXCEPT ![p] = "acting"]
    /\ UNCHANGED <<open, halted>>

\* What a lapse of time may turn a phase into.
Later(before, after) ==
    \/ after = before
    \/ before = "acting" /\ after \in {"resting", "free"}
    \/ before = "resting" /\ after = "free"

Lapse ==
    /\ ~halted
    /\ phase' \in [Piece -> Phase]
    /\ \A p \in Piece : Later(phase[p], phase'[p])
    /\ open' \in BOOLEAN
    /\ open' => open
    /\ halted' \in BOOLEAN

Unattended ==
    /\ halted /\ halted'
    /\ phase' \in [Piece -> Phase]
    /\ open' \in BOOLEAN

Next == Lapse \/ Unattended \/ \E p \in Piece : Begin(p)

Spec == Init /\ [][Next]_vars
=============================================================================
