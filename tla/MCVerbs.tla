------------------------------ MODULE MCVerbs ------------------------------
(***************************************************************************)
(* The instance of Verbs for TLC: three objects make a hierarchy with an   *)
(* object without verbs in the middle.  Verbs, programs, cache entries,    *)
(* activations, forked tasks and a verb being programmed, which counts for *)
(* three, share one bound, so that any of them can be many while the       *)
(* others are few.                                                         *)
(***************************************************************************)
EXTENDS Verbs

CONSTANT MaxItems

Items ==
    Cardinality(DOMAIN verb) + Cardinality({p \in Program : ref_count[p] > 0})
  + (IF vc_table = NULL THEN 0 ELSE Cardinality(DOMAIN vc_table))
  + Cardinality({x \in Task \X (1..MaxFrames) : x[2] <= Len(stack[x[1]])})
  + Cardinality({t \in Task : forked[t] # NULL})
  + (IF stream = NULL THEN 0 ELSE 3)

MCNext == Next /\ Items' <= MaxItems
MCSpec == Init /\ [][MCNext]_vars

MCObj == 0..2
MCSymmetry == Permutations(Name) \cup Permutations(Verbdef)
              \cup Permutations(Program) \cup Permutations(Task)
=============================================================================
