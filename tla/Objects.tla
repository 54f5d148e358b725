------------------------------ MODULE Objects ------------------------------
(***************************************************************************)
(* The object table of db_objects.c: which numbers are valid, the two      *)
(* hierarchies of objects (parents and locations), each kept a second time *)
(* as linked lists through the objects, and the list of players.           *)
(*                                                                         *)
(* move() and recycle() of objects.c call verbs of the database in the     *)
(* middle of their work.  Such a verb may suspend or call any built-in     *)
(* function, so between two steps of a call anything may happen to the     *)
(* objects whose numbers it keeps.  A call that waits for a verb is an     *)
(* element of call; calls go on in any order, or never, if their task is   *)
(* killed.  Refusals for lack of permission are calls that end at once.    *)
(*                                                                         *)
(* What only the owner or the verbs of an object depend on is left out;    *)
(* Properties has the values of properties.                                *)
(***************************************************************************)
EXTENDS Integers, Sequences, FiniteSets, SequencesExt

CONSTANTS
  MaxObjects,   \* bound on num_objects
  Caller,       \* bound on the calls that wait at a time
  Fertile,      \* the numbers that objects are made children of
  Place,        \* the numbers that objects are moved to
  Person        \* the numbers that are made players

ASSUME ObjectsAssumption ==
  /\ MaxObjects \in Nat \ {0}
  /\ Fertile \cup Place \subseteq -1..MaxObjects - 1
  /\ Person \subseteq 0..MaxObjects - 1

VARIABLES
  objects,      \* the objects that are not recycled, by their numbers
  num_objects,  \* the next new number
  all_users,    \* what players() returns, without its order
  call,         \* what each caller waits with
  panicked      \* panic() has been called

vars == <<objects, num_objects, all_users, call, panicked>>

NOTHING == -1
Number  == 0..MaxObjects - 1
Link    == Number \cup {NOTHING}
NoCall  == [fn |-> "none"]

Object == [parent : Link, child : Link, sibling : Link,
           location : Link, contents : Link, next : Link, user : BOOLEAN]

TypeOK ==
  /\ DOMAIN objects \subseteq 0..num_objects - 1
  /\ \A o \in DOMAIN objects : objects[o] \in Object
  /\ num_objects \in 0..MaxObjects
  /\ all_users \subseteq Number
  /\ call \in [Caller -> {NoCall} \cup [fn : {"recycle"}, oid : Number]
                           \cup [fn : {"move"}, what : Number, where : Number]]
  /\ panicked \in BOOLEAN

NewObject == [parent |-> NOTHING, child |-> NOTHING, sibling |-> NOTHING,
              location |-> NOTHING, contents |-> NOTHING, next |-> NOTHING,
              user |-> FALSE]

\* The system object.
Init ==
  /\ objects = [o \in {0} |-> NewObject]
  /\ num_objects = 1
  /\ all_users = {}
  /\ call = [c \in Caller |-> NoCall]
  /\ panicked = FALSE

valid(O, o) == o \in DOMAIN O

-----------------------------------------------------------------------------
(* Lists through objects                                                   *)

\* The list that starts at first: from[<<x, fuel>>] is x and what follows it,
\* up to as many objects as there is fuel.  A list has at most as many elements
\* as there are objects unless something is wrong.
ListFrom(O, first, nextname) ==
  LET from[p \in Link \X (0..MaxObjects)] ==
        IF p[2] = 0 \/ p[1] \notin DOMAIN O THEN <<>>
        ELSE <<p[1]>> \o from[<<O[p[1]][nextname], p[2] - 1>>]
  IN from[<<first, MaxObjects>>]

\* Mutant: the list is cut off where what was.
LL_REMOVE_Rest(O, where, listname, what, nextname) ==
  IF O[where][listname] = what
  THEN [O EXCEPT ![where][listname] = O[what][nextname], ![what][nextname] = NOTHING]
  ELSE [lid \in DOMAIN O |->
          IF O[lid][nextname] = what
          THEN [O[lid] EXCEPT ![nextname] = NOTHING] ELSE O[lid]]

\* Only one element of a list has what as its next one.
LL_REMOVE(O, where, listname, what, nextname) ==
  LET list   == ListFrom(O, O[where][listname], nextname)
      before == SelectInSeq(list, LAMBDA lid : O[lid][nextname] = what)
      cut    == CASE O[where][listname] = what ->
                       [O EXCEPT ![where][listname] = O[what][nextname]]
                  [] O[where][listname] # what /\ before # 0 ->
                       [O EXCEPT ![list[before]][nextname] = O[what][nextname]]
                  [] OTHER -> O
  IN [cut EXCEPT ![what][nextname] = NOTHING]

LL_APPEND(O, where, listname, what, nextname) ==
  LET list   == ListFrom(O, O[where][listname], nextname)
      linked == IF list = <<>> THEN [O EXCEPT ![where][listname] = what]
                ELSE [O EXCEPT ![Last(list)][nextname] = what]
  IN [linked EXCEPT ![what][nextname] = NOTHING]

db_change_parent(O, oid, parent) ==
  LET old == O[oid].parent
      P   == IF old = NOTHING THEN O ELSE LL_REMOVE(O, old, "child", oid, "sibling")
      Q   == IF parent = NOTHING THEN P
             ELSE LL_APPEND(P, parent, "child", oid, "sibling")
  IN [Q EXCEPT ![oid].parent = parent]

db_change_location(O, oid, location) ==
  LET old == O[oid].location
      P   == IF valid(O, old) THEN LL_REMOVE(O, old, "contents", oid, "next") ELSE O
      Q   == IF valid(O, location)
             THEN LL_APPEND(P, location, "contents", oid, "next") ELSE P
  IN [Q EXCEPT ![oid].location = location]

\* Is what where, or around it?
Around(O, what, where, up) ==
  what \in ToSet(ListFrom(O, where, up))

-----------------------------------------------------------------------------
(* Built-in functions that do not wait                                     *)

\* db_create_object() and db_change_parent()
create(parent) ==
  /\ ~panicked
  /\ num_objects < MaxObjects
  /\ valid(objects, parent) \/ parent = NOTHING
  /\ LET O == [o \in DOMAIN objects \cup {num_objects} |->
                 IF o = num_objects THEN NewObject ELSE objects[o]]
     IN objects' = db_change_parent(O, num_objects, parent)
  /\ num_objects' = num_objects + 1
  /\ UNCHANGED <<all_users, call, panicked>>

chparent(what, parent) ==
  /\ ~panicked
  /\ valid(objects, what)
  /\ valid(objects, parent) \/ parent = NOTHING
  /\ ~Around(objects, what, parent, "parent")
  /\ objects' = db_change_parent(objects, what, parent)
  /\ UNCHANGED <<num_objects, all_users, call, panicked>>

\* db_set_object_flag() and db_clear_object_flag(), with setadd(), setremove().
set_player_flag(o, yes) ==
  /\ ~panicked
  /\ valid(objects, o)
  /\ objects' = [objects EXCEPT ![o].user = yes]
  /\ all_users' = IF yes THEN all_users \cup {o} ELSE all_users \ {o}
  /\ UNCHANGED <<num_objects, call, panicked>>

\* Mutant: the last object that is left is itself counted out.
reset_max_objectLow ==
  /\ ~panicked
  /\ DOMAIN objects # {}
  /\ num_objects' = CHOOSE o \in DOMAIN objects : \A p \in DOMAIN objects : p <= o
  /\ UNCHANGED <<objects, all_users, call, panicked>>

\* The loop of db_reset_last_used_objid() stops at the last object that is
\* left; there is one, the wizard who calls it.
reset_max_object ==
  /\ ~panicked
  /\ DOMAIN objects # {}
  /\ num_objects' = 1 + CHOOSE o \in DOMAIN objects : \A p \in DOMAIN objects : p <= o
  /\ UNCHANGED <<objects, all_users, call, panicked>>

\* The pointers to old in one hierarchy of db_renumber_object(): the one in
\* the list that old is in, found by walking it, and the up-links of what is
\* in its own list.
Relink(O, old, new, up, listname, nextname) ==
  LET mine == ToSet(ListFrom(O, O[new][listname], nextname))
  IN [o \in DOMAIN O |->
        [O[o] EXCEPT
           ![listname] = IF @ = old THEN new ELSE @,
           ![nextname] = IF @ = old THEN new ELSE @,
           ![up]       = IF o \in mine THEN new ELSE @]]

\* panic("Object not in ... list")
Lost(O, old, new, up, listname, nextname) ==
  /\ O[new][up] # NOTHING
  /\ old \notin {O[O[new][up]][listname]}
                  \cup {O[o][nextname] : o \in ToSet(ListFrom(O, O[O[new][up]][listname], nextname))}

\* Mutant: the list of players keeps the old number.
RenumberUsersNot(old, new) == all_users

RenumberUsers(old, new) ==
  IF ~objects[old].user THEN all_users
  ELSE {IF u = old THEN new ELSE u : u \in all_users}

renumber(old, new) ==
  LET O == [o \in (DOMAIN objects \ {old}) \cup {new} |->
              objects[IF o = new THEN old ELSE o]]
      P == Relink(O, old, new, "parent", "child", "sibling")
  IN /\ ~panicked
     /\ valid(objects, old)
     /\ new \in 0..old - 1
     /\ ~valid(objects, new) /\ \A n \in 0..new - 1 : valid(objects, n)
     /\ IF \/ Lost(O, old, new, "parent", "child", "sibling")
           \/ Lost(P, old, new, "location", "contents", "next")
        THEN panicked' = TRUE /\ UNCHANGED <<objects, all_users>>
        ELSE /\ objects' = Relink(P, old, new, "location", "contents", "next")
             /\ all_users' = RenumberUsers(old, new)
             /\ UNCHANGED panicked
     /\ UNCHANGED <<num_objects, call>>

-----------------------------------------------------------------------------
(* move()                                                                  *)

\* Mutant: nothing is checked again after where:accept().
MoveAcceptedUnchecked(what, where) ==
  /\ valid(objects, what)
  /\ where = NOTHING \/ valid(objects, where)
  /\ objects' = db_change_location(objects, what, where)

\* accepts_decided: the object is moved unless the verb has changed too much.
\* The verbs :exitfunc and :enterfunc, which are next, find the work done.
MoveAccepted(what, where) ==
  objects' =
    IF \/ ~valid(objects, what) \/ (where # NOTHING /\ ~valid(objects, where))
       \/ objects[what].location = where
       \/ Around(objects, what, where, "location")
    THEN objects ELSE db_change_location(objects, what, where)

\* where:accept() is called, or there is none and the programmer is a wizard.
move(c, what, where) ==
  /\ ~panicked
  /\ valid(objects, what)
  /\ valid(objects, where) \/ where = NOTHING
  /\ \/ /\ call[c] = NoCall
        /\ where # NOTHING
        /\ call' = [call EXCEPT ![c] = [fn |-> "move", what |-> what, where |-> where]]
        /\ UNCHANGED objects
     \/ MoveAccepted(what, where) /\ UNCHANGED call
  /\ UNCHANGED <<num_objects, all_users, panicked>>

\* The verb has returned something true, or the programmer is a wizard.
MoveGoesOn(c) ==
  /\ ~panicked
  /\ call[c].fn = "move"
  /\ MoveAccepted(call[c].what, call[c].where)
  /\ call' = [call EXCEPT ![c] = NoCall]
  /\ UNCHANGED <<num_objects, all_users, panicked>>

-----------------------------------------------------------------------------
(* recycle()                                                               *)

\* move_to_nothing() of everything in oid, one by one.
EmptyOut(O, oid) ==
  FoldLeft(LAMBDA P, c : db_change_location(P, c, NOTHING), O,
           ListFrom(O, O[oid].contents, "next"))

Emptied(O, oid) == db_change_location(EmptyOut(O, oid), oid, NOTHING)

\* The children are adopted by their grandparent.
Orphaned(O, oid) ==
  db_change_parent(
    FoldLeft(LAMBDA P, c : db_change_parent(P, c, O[oid].parent), O,
             ListFrom(O, O[oid].child, "sibling")),
    oid, NOTHING)

\* db_destroy_object() panics unless the object is a barren orphan.
Demolish(O, oid) ==
  LET P == Orphaned(O, oid)
  IN IF \/ P[oid].location # NOTHING \/ P[oid].contents # NOTHING
        \/ P[oid].parent # NOTHING \/ P[oid].child # NOTHING
     THEN panicked' = TRUE /\ UNCHANGED <<objects, all_users>>
     ELSE /\ objects' = [o \in DOMAIN P \ {oid} |-> P[o]]
          /\ all_users' = IF P[oid].user THEN all_users \ {oid} ELSE all_users
          /\ UNCHANGED panicked

\* The call waits for a verb, or it is over.
Waits(c, oid) == call' = [call EXCEPT ![c] = [fn |-> "recycle", oid |-> oid]]
Returns(c)    == call' = [call EXCEPT ![c] = NoCall]

\* Mutant: after its own :exitfunc the object is destroyed without a look at
\* what the verb has done.
MovingContentsOnce(c, oid) ==
  IF ~valid(objects, oid) THEN Returns(c) /\ UNCHANGED <<objects, all_users, panicked>>
  ELSE IF objects[oid].location = NOTHING
  THEN Demolish(objects, oid) /\ Returns(c)
  ELSE /\ objects' = db_change_location(EmptyOut(objects, oid), oid, NOTHING)
       /\ Waits(c, oid)
       /\ UNCHANGED <<all_users, panicked>>

\* moving_contents: one object after the other, oid last, is moved to #-1, and
\* whenever this finds an :exitfunc verb the rest is for later.
MovingContents(c, oid) ==
  IF ~valid(objects, oid) THEN Returns(c) /\ UNCHANGED <<objects, all_users, panicked>>
  ELSE LET first == objects[oid].contents
           O     == EmptyOut(objects, oid)
       IN \/ /\ first # NOTHING
             /\ objects' = db_change_location(objects, first, NOTHING)
             /\ Waits(c, oid)
             /\ UNCHANGED <<all_users, panicked>>
          \/ /\ O[oid].location # NOTHING
             /\ objects' = db_change_location(O, oid, NOTHING)
             /\ Waits(c, oid)
             /\ UNCHANGED <<all_users, panicked>>
          \/ Demolish(Emptied(objects, oid), oid) /\ Returns(c)

\* oid:recycle() is called, or there is none; there may be no verb to call at
\* all, so that the call ends at once.
recycle(c, oid) ==
  /\ ~panicked
  /\ valid(objects, oid)
  /\ \/ /\ call[c] = NoCall
        /\ Waits(c, oid) /\ UNCHANGED <<objects, all_users, panicked>>
     \/ call[c] = NoCall /\ MovingContents(c, oid)
     \/ Demolish(Emptied(objects, oid), oid) /\ UNCHANGED call
  /\ UNCHANGED num_objects

RecycleGoesOn(c) ==
  /\ ~panicked
  /\ call[c].fn = "recycle"
  /\ MovingContents(c, call[c].oid)
  /\ UNCHANGED num_objects

\* The task is killed, or the verb fails.
Abandon(c) ==
  /\ ~panicked
  /\ call[c] # NoCall
  /\ Returns(c)
  /\ UNCHANGED <<objects, num_objects, all_users, panicked>>

-----------------------------------------------------------------------------

Next ==
  \/ \E p \in Fertile : create(p)
  \/ \E o \in Number, p \in Fertile : chparent(o, p)
  \/ \E o \in Person, yes \in BOOLEAN : set_player_flag(o, yes)
  \/ reset_max_object
  \/ \E old, new \in Number : renumber(old, new)
  \/ \E c \in Caller :
       \/ \E what \in Number, where \in Place : move(c, what, where)
       \/ \E oid \in Number : recycle(c, oid)
       \/ MoveGoesOn(c) \/ RecycleGoesOn(c) \/ Abandon(c)

Spec == Init /\ [][Next]_vars

-----------------------------------------------------------------------------
(* Properties                                                              *)

Agree(up, listname, nextname) ==
  \A o \in DOMAIN objects :
    LET list == ListFrom(objects, objects[o][listname], nextname)
    IN /\ ToSet(list) = {p \in DOMAIN objects : objects[p][up] = o}
       /\ Len(list) = Cardinality(ToSet(list))
       /\ objects[o][up] # NOTHING => valid(objects, objects[o][up])

\* The two records of each hierarchy agree: the contents list of an object
\* has exactly the objects whose location it is, and so have the children.
\* The loops of LL_REMOVE, db_for_all_contents() and fix_props() rely on it.
ListsAgree ==
  /\ Agree("parent", "child", "sibling")
  /\ Agree("location", "contents", "next")

\* No object is inside itself or its own ancestor, although move() looks for
\* that only after a verb that may have moved everything else; the search
\* itself would not end if it were so.
Acyclic ==
  \A o \in DOMAIN objects :
    /\ ~Around(objects, o, objects[o].location, "location")
    /\ ~Around(objects, o, objects[o].parent, "parent")

\* "We can now be confident that OID has no contents and no location":
\* db_destroy_object() and db_renumber_object() find what they expect.
NeverPanics == ~panicked

\* players() returns exactly the valid objects with the player flag, through
\* recycling and renumbering.
UsersListed == all_users = {o \in DOMAIN objects : objects[o].user}
=============================================================================
