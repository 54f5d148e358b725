---------------------------- MODULE Inheritance ----------------------------
(***************************************************************************)
(* The inheritance hierarchy of the database: every valid object has a     *)
(* parent or NOTHING, and inherits the properties of all its ancestors.    *)
(* The definitions take the function from objects to parents, because the  *)
(* functions of db_objects.c change it in the middle of what they do.      *)
(***************************************************************************)
EXTENDS Integers, Sequences, SequencesExt

NOTHING == -1

\* The objects that o inherits from, nearest first, o itself included: the
\* loop "for (o = ...; o; o = dbpriv_find_object(o->parent))".
Ancestors(parent, o) ==
  LET chain[x \in DOMAIN parent \cup {NOTHING}] ==
        IF x = NOTHING THEN <<>> ELSE <<x>> \o chain[parent[x]]
  IN chain[o]

\* The objects that are reached from o by child and sibling, o included.
AtOrBelow(parent, o) ==
  {d \in DOMAIN parent : o \in ToSet(Ancestors(parent, d))}

Children(parent, o) == {c \in DOMAIN parent : parent[c] = o}

\* The table f with the entry e under k, such as a new object's.
With(f, k, e) == [x \in DOMAIN f \cup {k} |-> IF x = k THEN e ELSE f[x]]

\* A parent makes sense for o: no object becomes its own ancestor.
NoLoop(parent, o, new_parent) == o \notin ToSet(Ancestors(parent, new_parent))
=============================================================================
