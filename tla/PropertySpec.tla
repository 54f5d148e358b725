---------------------------- MODULE PropertySpec ----------------------------
(***************************************************************************)
(* What the property functions of db.h promise: an object has a value, an  *)
(* owner and permissions for each property that it or one of its ancestors *)
(* defines, kept under the property's name.  How the values are laid out   *)
(* in memory is the business of Properties.                                *)
(***************************************************************************)
EXTENDS Inheritance, FiniteSets

CONSTANTS Obj, Player, Name, Value, Clear

VARIABLES
  parent,     \* of each valid object
  owner,      \* of each valid object
  defines,    \* the names of the properties defined on each valid object
  slot        \* for each valid object, the Pval of each of its properties

vars == <<parent, owner, defines, slot>>

Pval == [var : Value \cup {Clear}, owner : Player \cup Obj, chown : BOOLEAN]

Valid == DOMAIN parent

\* Who defines the property that o knows by the name n.
Names(par, def, o)      == UNION {def[a] : a \in ToSet(Ancestors(par, o))}
Definer(par, def, o, n) == CHOOSE a \in ToSet(Ancestors(par, o)) : n \in def[a]

\* The slot of an object that inherits pval: clear, and with permission "c"
\* its own owner's.
Inherited(pval, d) ==
  [var |-> Clear, chown |-> pval.chown,
   owner |-> IF pval.chown THEN owner[d] ELSE pval.owner]

\* An object without properties.
NoSlots == [n \in {} |-> Clear]

Init ==
  /\ \E root \in Obj, o \in Player \cup Obj :
       /\ o \in Player \cup {root}
       /\ parent = [d \in {root} |-> NOTHING]
       /\ owner = [d \in {root} |-> o]
       /\ defines = [d \in {root} |-> {}]
       /\ slot = [d \in {root} |-> NoSlots]

\* A new object has a clear slot for each property of its parent.
create(o, p, who) ==
  /\ o \in Obj \ Valid
  /\ p \in Valid \cup {NOTHING}
  /\ parent' = With(parent, o, p)
  /\ owner' = With(owner, o, who)
  /\ defines' = With(defines, o, {})
  /\ slot' = With(slot, o,
       IF p = NOTHING THEN NoSlots
       ELSE [n \in DOMAIN slot[p] |->
               [var |-> Clear, chown |-> slot[p][n].chown,
                owner |-> IF slot[p][n].chown THEN who ELSE slot[p][n].owner]])

\* The properties of the objects below o when its parent becomes p: those
\* that are inherited from the same definer as before are kept.
Reparented(o, p, d) ==
  LET par == [parent EXCEPT ![o] = p]
  IN [n \in Names(par, defines, d) |->
        IF /\ n \in DOMAIN slot[d]
           /\ Definer(par, defines, d, n) = Definer(parent, defines, d, n)
        THEN slot[d][n] ELSE Inherited(slot[p][n], d)]

\* No name is defined both above and below.
Compatible(o, p) ==
  Names(parent, defines, p)
    \cap UNION {defines[d] : d \in AtOrBelow(parent, o)} = {}

chparent(o, p) ==
  /\ o \in Valid /\ p \in Valid \cup {NOTHING}
  /\ parent' = [parent EXCEPT ![o] = p]
  /\ NoLoop(parent, o, p)
  /\ Compatible(o, p)
  /\ slot' = [d \in Valid |->
                IF d \in AtOrBelow(parent, o) THEN Reparented(o, p, d) ELSE slot[d]]
  /\ UNCHANGED <<owner, defines>>

\* The descendants of a recycled object lose what it defines; its children
\* are now its parent's.
recycle(o) ==
  LET rest == Valid \ {o}
  IN /\ o \in Valid
     /\ parent' = [d \in rest |-> IF parent[d] = o THEN parent[o] ELSE parent[d]]
     /\ owner' = [d \in rest |-> owner[d]]
     /\ defines' = [d \in rest |-> defines[d]]
     /\ slot' = [d \in rest |->
          IF d \in AtOrBelow(parent, o)
          THEN [n \in DOMAIN slot[d] \ defines[o] |-> slot[d][n]]
          ELSE slot[d]]

\* A value for o, the new property's definer, and clear slots below it.
add_property(o, n) ==
  /\ o \in Valid
  /\ defines' = [defines EXCEPT ![o] = @ \cup {n}]
  /\ \A d \in AtOrBelow(parent, o) : n \notin DOMAIN slot[d]
  /\ LET pval == slot'[o][n]
     IN /\ pval \in Pval /\ pval.var # Clear
        /\ slot' = [d \in Valid |->
             IF d \notin AtOrBelow(parent, o) THEN slot[d]
             ELSE With(slot[d], n, [Inherited(pval, d) EXCEPT
                                      !.var = IF d = o THEN pval.var ELSE Clear])]
  /\ UNCHANGED <<parent, owner>>

delete_property(o, n) ==
  /\ o \in Valid
  /\ n \in defines[o]
  /\ defines' = [defines EXCEPT ![o] = @ \ {n}]
  /\ slot' = [d \in Valid |->
       IF d \in AtOrBelow(parent, o)
       THEN [m \in DOMAIN slot[d] \ {n} |-> slot[d][m]] ELSE slot[d]]
  /\ UNCHANGED <<parent, owner>>

\* set_property_info() with a new name for the property, which is the name
\* everywhere; owner and permissions are changed on o only.
rename(o, n, new) ==
  /\ o \in Valid
  /\ n \in defines[o]
  /\ defines' = [defines EXCEPT ![o] = (@ \ {n}) \cup {new}]
  /\ new = n \/ \A d \in AtOrBelow(parent, o) : new \notin DOMAIN slot[d]
  /\ LET pval == slot'[o][new]
     IN /\ pval \in Pval /\ pval.var = slot[o][n].var
        /\ slot' = [d \in Valid |->
             IF d \notin AtOrBelow(parent, o) THEN slot[d]
             ELSE [m \in (DOMAIN slot[d] \ {n}) \cup {new} |->
                     IF m # new THEN slot[d][m]
                     ELSE IF d = o THEN pval ELSE slot[d][n]]]
  /\ UNCHANGED <<parent, owner>>

\* Anything else about one property of one object; only the definer's value
\* cannot be cleared.
assign ==
  /\ UNCHANGED <<parent, owner, defines>>
  /\ \E o \in Valid : \E n \in DOMAIN slot[o] :
       /\ slot' = [slot EXCEPT ![o][n] = slot'[o][n]]
       /\ slot'[o][n] \in Pval
       /\ n \in defines[o] => slot'[o][n].var # Clear

\* A function that fails changes nothing.
fail == UNCHANGED vars

Next ==
  \/ fail
  \/ assign
  \/ /\ defines' # defines
     /\ \E o \in Valid, n \in Name :
          \/ add_property(o, n) \/ delete_property(o, n)
          \/ \E new \in Name : rename(o, n, new)
  \/ /\ parent' # parent
     /\ \/ \E o \in Valid : recycle(o)
        \/ \E o \in Valid, p \in Valid \cup {NOTHING} : chparent(o, p)
        \/ \E o \in Obj \ Valid, p \in Valid \cup {NOTHING} :
             \E who \in Player \cup {o} : create(o, p, who)

Spec == Init /\ [][Next]_vars
=============================================================================
