-------------------------- MODULE PropertiesByName --------------------------
(***************************************************************************)
(* Properties as an implementation of PropertySpec.  The variable slot     *)
(* always has the value of Named, so that TLC computes it once in each     *)
(* state.                                                                  *)
(***************************************************************************)
EXTENDS Properties

VARIABLE slot

NamedSpec == Spec /\ [](slot = Named)

Abstract == INSTANCE PropertySpec WITH
  defines <- [o \in Valid |-> ToSet(propdefs[o])]

\* The arrays without names implement one value for each name: whatever the
\* functions of db_properties.c move around, the value, the owner and the
\* permissions of a property stay with the property.
RefinesSpec == Abstract!Spec
=============================================================================
