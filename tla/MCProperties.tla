--------------------------- MODULE MCProperties ---------------------------
(* The instance of Properties for TLC.                                     *)
EXTENDS PropertiesByName, FiniteSetsExt, TLC

CONSTANT MaxSet   \* how many values have an owner that does not follow the object's

Bounded ==
  Quantify(Valid \X (1..Cardinality(Obj \X Name)), LAMBDA x :
    x[2] \in DOMAIN propval[x[1]] /\ ~propval[x[1]][x[2]].chown) <= MaxSet

MCInit == Init /\ slot = Named
MCNext == Next /\ slot' = Named' /\ Bounded'
MCSpec == MCInit /\ [][MCNext]_<<vars, slot>>

MCSymmetry == Permutations(Obj) \cup Permutations(Name)

\* Every object is its own owner; a property follows the owner of the object
\* (permission "c") or has an owner that was set.
MCCreator == {NOTHING}
MCInfo    == [owner : Player, chown : BOOLEAN]
MCNewInfo == [owner : Player, chown : {FALSE}]
=============================================================================
