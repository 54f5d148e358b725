----------------------------- MODULE MCObjects -----------------------------
(***************************************************************************)
(* The instance of Objects for TLC.  Four numbers are the least with a     *)
(* list that has an element in its middle, and two places are the least    *)
(* that can be moved into each other.  Objects are given the parent #1 or  *)
(* none, and only #3 is made a player; renumber() gives these objects      *)
(* other numbers, so that grandparents and players of every number occur.  *)
(***************************************************************************)
EXTENDS Objects

MCFertile == {1, NOTHING}
MCPlace   == {0, 1, NOTHING}
MCPerson  == {3}
=============================================================================
