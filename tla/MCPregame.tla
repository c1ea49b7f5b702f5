------------------------------ MODULE MCPregame -------------------------------
(* A user, a room or two of its own and of others, and what comes between. *)
EXTENDS Pregame
=============================================================================
