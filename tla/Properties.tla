----------------------------- MODULE Properties -----------------------------
(***************************************************************************)
(* The properties of objects as db_properties.c keeps them.  An object has *)
(* the names of the properties it defines (propdefs) and one array of      *)
(* values (propval) without names: first the values of its own properties, *)
(* then those of its parent's, and so on up to the root.  Whatever changes *)
(* the definitions of an object or its ancestors has to move the values in *)
(* the arrays of all its descendants.                                      *)
(*                                                                         *)
(* The functions are operators from a state of the database to the next,   *)
(* since recycle() calls db_change_parent() many times.                    *)
(***************************************************************************)
EXTENDS Inheritance, FiniteSets

CONSTANTS
  Obj,        \* object numbers
  Player,     \* the owners, whose own properties are of no interest
  Name,       \* names of properties
  Value,      \* values of properties
  Creator,    \* who owns new objects; NOTHING for an object that owns itself
  Info,       \* the owners and permissions of new properties
  NewInfo,    \* those that set_property_info() sets
  Clear       \* TYPE_CLEAR: the parent's value is meant

ASSUME PropertiesAssumption ==
  /\ Clear \notin Value
  /\ NOTHING \notin Obj
  /\ Creator \subseteq Player \cup {NOTHING}
  /\ Info \cup NewInfo \subseteq [owner : Player, chown : BOOLEAN]

VARIABLES
  parent,     \* of each valid object
  owner,      \* of each valid object
  propdefs,   \* the names of the properties defined on each valid object
  propval     \* the array of values of each valid object

vars == <<parent, owner, propdefs, propval>>

Pval == [var : Value \cup {Clear}, owner : Player \cup Obj, chown : BOOLEAN]

Valid == DOMAIN parent

TypeOK ==
  /\ Valid \subseteq Obj
  /\ parent \in [Valid -> Valid \cup {NOTHING}]
  /\ owner \in [Valid -> Player \cup Obj]
  /\ propdefs \in [Valid -> Seq(Name)]
  /\ propval \in [Valid -> Seq(Pval)]

DB == [parent |-> parent, propdefs |-> propdefs, propval |-> propval]
Becomes(S) ==
  parent' = S.parent /\ propdefs' = S.propdefs /\ propval' = S.propval

\* bf_create(): an object that nobody owns owns itself.
NewOwner(o, who) == IF who = NOTHING THEN o ELSE who

Init ==
  \E root \in Obj, who \in Creator :
    /\ parent = [o \in {root} |-> NOTHING]
    /\ owner = [o \in {root} |-> NewOwner(root, who)]
    /\ propdefs = [o \in {root} |-> <<>>]
    /\ propval = [o \in {root} |-> <<>>]

-----------------------------------------------------------------------------
(* Finding properties                                                      *)

\* The names that belong to the values of o's array.
Layout(S, o) ==
  LET names[x \in DOMAIN S.parent \cup {NOTHING}] ==
        IF x = NOTHING THEN <<>> ELSE S.propdefs[x] \o names[S.parent[x]]
  IN names[o]

dbpriv_count_properties(S, o) == Len(Layout(S, o))

property_defined_at_or_below(S, name, o) ==
  \E d \in AtOrBelow(S.parent, o) : name \in ToSet(S.propdefs[d])

\* db_find_property(): the place of the value in o's array, or 0 ...
PlaceIn(names, name) ==
  IF \E i \in DOMAIN names : names[i] = name
  THEN CHOOSE i \in DOMAIN names :
         names[i] = name /\ \A j \in 1..i - 1 : names[j] # name
  ELSE 0

Place(S, o, name) == PlaceIn(Layout(S, o), name)

\* ... and the object whose value it is, going up while it is clear.  The code
\* would read through a null pointer where this gives NOTHING.
ValueOf(S, o, name) ==
  LET up[x \in DOMAIN S.parent \cup {NOTHING}] ==
        [i \in Int |->
           IF x = NOTHING THEN NOTHING
           ELSE IF i \notin DOMAIN S.propval[x] \/ S.propval[x][i].var # Clear THEN x
           ELSE up[S.parent[x]][i - Len(S.propdefs[x])]]
  IN up[o][Place(S, o, name)]

-----------------------------------------------------------------------------
(* Changing definitions                                                    *)

\* What an object that inherits pval gets.
Inherited(pval, d) ==
  [var |-> Clear, chown |-> pval.chown,
   owner |-> IF pval.chown THEN owner[d] ELSE pval.owner]

\* Where a property that is at pos in root's array is in d's array, for d at
\* or below root.
Position(S, root, pos, d) ==
  LET at[x \in AtOrBelow(S.parent, root)] ==
        IF x = root THEN pos ELSE Len(S.propdefs[x]) + at[S.parent[x]]
  IN at[d]

insert_prop_recursively(S, root, pos, pval) ==
  LET Below == AtOrBelow(S.parent, root)
  IN [S EXCEPT !.propval = [d \in DOMAIN S.parent |->
        IF d \notin Below THEN S.propval[d]
        ELSE InsertAt(S.propval[d], Position(S, root, pos, d),
                      [Inherited(pval, d) EXCEPT
                         !.var = IF d = root THEN pval.var ELSE Clear])]]

\* Mutant: the arrays of the descendants are left as they are.
remove_prop_there(S, root, pos) ==
  [S EXCEPT !.propval[root] = RemoveAt(@, pos)]

remove_prop_recursively(S, root, pos) ==
  LET Below == AtOrBelow(S.parent, root)
  IN [S EXCEPT !.propval = [d \in DOMAIN S.parent |->
        IF d \notin Below THEN S.propval[d]
        ELSE RemoveAt(S.propval[d], Position(S, root, pos, d))]]

\* Mutant: descendants are not looked at.
MayBeNamedAbove(S, o, name) == Place(S, o, name) = 0

\* The condition on a new name for a property of o.
MayBeNamed(S, o, name) ==
  Place(S, o, name) = 0 /\ ~property_defined_at_or_below(S, name, o)

db_add_propdef(S, o, name, pval) ==
  LET T == [S EXCEPT !.propdefs[o] = Append(@, name)]
  IN insert_prop_recursively(T, o, Len(T.propdefs[o]), pval)

db_delete_propdef(S, o, i) ==
  remove_prop_recursively([S EXCEPT !.propdefs[o] = RemoveAt(@, i)], o, i)

\* The place of name among the properties that o defines, or 0.
DefinedAt(S, o, name) == PlaceIn(S.propdefs[o], name)

-----------------------------------------------------------------------------
(* Changing the hierarchy                                                  *)

dbpriv_check_properties_for_chparent(S, o, new_parent) ==
  \A name \in ToSet(Layout(S, new_parent)) :
    ~property_defined_at_or_below(S, name, o)

\* fix_props(): in the array of o and of each object below it, the values of
\* the local properties and of the common ancestors' are kept, and the new
\* ones are inherited from the parent's array, which has been fixed before.
fix_props(S, o, old, new, common) ==
  LET Below == AtOrBelow(S.parent, o)
      local(d) == Position(S, o, Len(S.propdefs[o]), d)
      fixed[d \in Below] ==
        LET parent_local  == local(d) - Len(S.propdefs[d])
            parents_array == IF d # o THEN fixed[S.parent[d]]
                             ELSE IF S.parent[o] = NOTHING THEN <<>>
                             ELSE S.propval[S.parent[o]]
        IN SubSeq(S.propval[d], 1, local(d))
           \o [i \in 1..new |-> Inherited(parents_array[parent_local + i], d)]
           \o SubSeq(S.propval[d], local(d) + old + 1, local(d) + old + common)
  IN [S EXCEPT !.propval = [d \in DOMAIN S.parent |->
        IF d \in Below THEN fixed[d] ELSE S.propval[d]]]

\* The properties of the nearest ancestor that the old and the new parent share.
CommonProps(S, old_parent, new_parent) ==
  LET olds == ToSet(Ancestors(S.parent, old_parent))
      news == Ancestors(S.parent, new_parent)
      i    == SelectInSeq(news, LAMBDA a : a \in olds)
  IN IF i = 0 THEN 0 ELSE dbpriv_count_properties(S, news[i])

\* Mutant: the common ancestor is looked for from the old parent's parent.
fix_properties_farther(S, o, old_parent) ==
  LET common == CommonProps(S, IF old_parent = NOTHING THEN NOTHING
                               ELSE S.parent[old_parent], S.parent[o])
  IN fix_props(S, o, dbpriv_count_properties(S, old_parent) - common,
                     dbpriv_count_properties(S, S.parent[o]) - common, common)

dbpriv_fix_properties_after_chparent(S, o, old_parent) ==
  LET common == CommonProps(S, old_parent, S.parent[o])
  IN fix_props(S, o, dbpriv_count_properties(S, old_parent) - common,
                     dbpriv_count_properties(S, S.parent[o]) - common, common)

db_change_parent(S, o, new_parent) ==
  IF ~dbpriv_check_properties_for_chparent(S, o, new_parent) THEN S
  ELSE dbpriv_fix_properties_after_chparent(
         [S EXCEPT !.parent[o] = new_parent], o, S.parent[o])

\* db_destroy_object(), of an object without parent or children.
db_destroy_object(S, o) ==
  LET rest == DOMAIN S.parent \ {o}
  IN [parent   |-> [d \in rest |-> S.parent[d]],
      propdefs |-> [d \in rest |-> S.propdefs[d]],
      propval  |-> [d \in rest |-> S.propval[d]]]

-----------------------------------------------------------------------------
(* The built-in functions                                                  *)

\* Inherited() needs the owner of the new object, which is set before its
\* parent.
create(o, p, who) ==
  /\ o \in Obj \ Valid
  /\ p \in Valid \cup {NOTHING}
  /\ owner' = With(owner, o, NewOwner(o, who))
  /\ parent' = With(parent, o, p)
  /\ propdefs' = With(propdefs, o, <<>>)
  /\ propval' = With(propval, o,
       IF p = NOTHING THEN <<>>
       ELSE [i \in DOMAIN propval[p] |->
               [var |-> Clear, chown |-> propval[p][i].chown,
                owner |-> IF propval[p][i].chown THEN owner'[o]
                          ELSE propval[p][i].owner]])

chparent(o, p) ==
  /\ o \in Valid /\ p \in Valid \cup {NOTHING}
  /\ NoLoop(parent, o, p)
  /\ dbpriv_check_properties_for_chparent(DB, o, p)
  /\ Becomes(db_change_parent(DB, o, p))
  /\ UNCHANGED owner

\* bf_recycle() once the object has no contents and no location: it goes on
\* changing the parent of the first child until there is none.
RecycleKids(S, o) ==
  FoldLeft(LAMBDA T, c : db_change_parent(T, c, S.parent[o]), S,
           SetToSeq(Children(S.parent, o)))

recycle(o) ==
  LET S == RecycleKids(DB, o)
  IN /\ o \in Valid
     /\ Children(S.parent, o) = {}
     /\ Becomes(db_destroy_object(db_change_parent(S, o, NOTHING), o))
     /\ owner' = [d \in Valid \ {o} |-> owner[d]]

add_property(o, name, pval) ==
  /\ o \in Valid
  /\ MayBeNamed(DB, o, name)
  /\ Becomes(db_add_propdef(DB, o, name, pval))
  /\ UNCHANGED owner

delete_property(o, name) ==
  /\ o \in Valid
  /\ DefinedAt(DB, o, name) # 0
  /\ Becomes(db_delete_propdef(DB, o, DefinedAt(DB, o, name)))
  /\ UNCHANGED owner

\* db_set_property_owner() and db_set_property_flags()
SetInfo(S, o, name, info) ==
  [S EXCEPT !.propval[o][Place(S, o, name)] =
     [@ EXCEPT !.owner = info.owner, !.chown = info.chown]]

set_prop_info(o, name, info) ==
  /\ o \in Valid
  /\ Place(DB, o, name) # 0
  /\ Becomes(SetInfo(DB, o, name, info))
  /\ UNCHANGED owner

\* set_prop_info() with a name that is new, on the object that defines the
\* property.
rename_prop(o, name, new, info) ==
  LET i == DefinedAt(DB, o, name)
  IN /\ o \in Valid
     /\ i # 0
     /\ MayBeNamed(DB, o, new)
     /\ Becomes(SetInfo([DB EXCEPT !.propdefs[o][i] = new], o, new, info))
     /\ UNCHANGED owner

\* OP_PUT_PROP
put_prop(o, name, value) ==
  /\ o \in Valid
  /\ Place(DB, o, name) # 0
  /\ propval' = [propval EXCEPT ![o][Place(DB, o, name)].var = value]
  /\ UNCHANGED <<parent, owner, propdefs>>

\* Mutant: also where the property is defined.
clear_propertyAnywhere(o, name) ==
  /\ o \in Valid
  /\ Place(DB, o, name) # 0
  /\ propval' = [propval EXCEPT ![o][Place(DB, o, name)].var = Clear]
  /\ UNCHANGED <<parent, owner, propdefs>>

clear_property(o, name) ==
  /\ o \in Valid
  /\ Place(DB, o, name) # 0
  /\ DefinedAt(DB, o, name) = 0
  /\ propval' = [propval EXCEPT ![o][Place(DB, o, name)].var = Clear]
  /\ UNCHANGED <<parent, owner, propdefs>>

Next ==
  \/ \E o \in Obj, p \in Obj \cup {NOTHING} :
       chparent(o, p) \/ \E who \in Creator : create(o, p, who)
  \/ \E o \in Obj : recycle(o)
  \/ \E o \in Obj, n \in Name :
       \/ \E v \in Value, info \in Info :
            add_property(o, n, [var |-> v, owner |-> info.owner, chown |-> info.chown])
       \/ delete_property(o, n)
       \/ \E info \in NewInfo :
            \/ set_prop_info(o, n, info)
            \/ \E new \in Name : rename_prop(o, n, new, info)
       \/ \E v \in Value : put_prop(o, n, v)
       \/ clear_property(o, n)

Spec == Init /\ [][Next]_vars

-----------------------------------------------------------------------------
(* Properties                                                              *)

\* What the arrays mean: the value of each property by its name.
Named ==
  [o \in Valid |-> LET names == Layout(DB, o)
                   IN [n \in ToSet(names) |-> propval[o][PlaceIn(names, n)]]]

\* Every array has one value for each property that the object defines or
\* inherits: the places that db_find_property() computes from the definitions
\* alone are in the array, and none of the functions that move values reads or
\* writes beyond its end.
ArraysFit == \A o \in Valid : Len(propval[o]) = dbpriv_count_properties(DB, o)

\* bf_recycle() goes on with "while" until no child is left, but
\* db_change_parent() may refuse to move a child: it never does here, because
\* an object's parent defines no property that the object or a descendant of
\* it defines.
RecycleEnds ==
  \A o \in Valid : \A c \in Children(parent, o) :
    dbpriv_check_properties_for_chparent(DB, c, parent[o])

\* The search of db_find_property() for a value that is not clear ends at the
\* latest at the object that defines the property; the code looks no farther
\* than the end of the hierarchy only because of this.
ValueFound ==
  \A o \in Valid : \A n \in ToSet(Layout(DB, o)) :
    LET x == ValueOf(DB, o, n)
    IN x # NOTHING /\ n \in ToSet(Layout(DB, x))
=============================================================================
