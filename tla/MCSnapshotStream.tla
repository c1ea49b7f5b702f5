--------------------------- MODULE MCSnapshotStream ---------------------------
(* Two players with a piece each, one of them watched while it joins.      *)
EXTENDS SnapshotStream
=============================================================================
