------------------------------ MODULE MCServer ------------------------------
(***************************************************************************)
(* Instances of the server for TLC.  Connections are interchangeable, and  *)
(* so are the numbers of tasks.                                            *)
(***************************************************************************)
EXTENDS Server

MCSymmetry == Permutations(Conn) \cup Permutations(TaskId)
=============================================================================
