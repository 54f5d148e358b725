--------------------------- MODULE MCCheckpoint ---------------------------
(* Instances of Checkpoint for TLC: see the configurations.                *)
EXTENDS Checkpoint
=============================================================================
