------------------------------- MODULE Verbs -------------------------------
(***************************************************************************)
(* Verbs, the cache of verb lookups (db_verbs.c), and the life of the      *)
(* programs that verbs share with the activations that run them            *)
(* (program.c, execute.c).                                                 *)
(*                                                                         *)
(* A verb call looks for the first verb with a matching name and the x bit *)
(* on the object or an ancestor.  The cache remembers the answer, "none"   *)
(* included, under the name and the first object on the way up that has    *)
(* any verbs: so a call on one object may be answered by an entry that a   *)
(* call on another has made, and every change that could alter an answer   *)
(* must empty the cache.  Two changes do not: db_create_object(), and      *)
(* db_change_parent() of an object without verbs and without children.     *)
(*                                                                         *)
(* A program is counted once for the verb it is the program of and once    *)
(* for every activation and every forked task that needs it, because code  *)
(* that runs may reprogram or delete its own verb.                         *)
(*                                                                         *)
(* A call that fails one of its checks of permission or arguments changes  *)
(* nothing here and is left out.  The names a verb answers to (with its    *)
(* aliases and "*") are a set; its owner and its argument specifiers do    *)
(* not take part in these lookups.                                         *)
(***************************************************************************)
EXTENDS Inheritance, FiniteSets, FiniteSetsExt, Functions

CONSTANTS
  Obj,         \* object numbers
  Name,        \* names that verbs are called by
  Names,       \* the sets of names that verbs answer to
  Verbdef,     \* addresses for Verbdefs
  Program,     \* addresses for Programs
  null_program,\* the program of verbs that have none
  Task,        \* tasks
  NULL,        \* the null pointer
  MaxFrames    \* the most activations in one task (the limit of MAXREC)

ASSUME VerbsAssumption ==
  /\ Obj \subseteq Nat /\ Obj # {}
  /\ Names \subseteq SUBSET Name \ {{}}
  /\ null_program \notin Program
  /\ MaxFrames \in Nat \ {0}

VARIABLES
  parent,    \* the parent of each valid object
  verbdefs,  \* the list of verbs of each valid object
  verb,      \* the Verbdefs in use: the names, the x bit, the program
  vc_table,  \* the cache: NULL, or a handle for some pairs <<oid_key, verbname>>
  ref_count, \* the reference count of each Program, 0 for a free one
  stack,     \* the activations of each task, the running one last
  forked,    \* the forked task each task comes from
  stream     \* what the player of each task is programming with ".program"

vars == <<parent, verbdefs, verb, vc_table, ref_count, stack, forked, stream>>
-----------------------------------------------------------------------------
valid(o) == o \in DOMAIN parent

Programs == Program \cup {null_program}
Handle   == [definer : Obj, verbdef : Verbdef]
Activ    == [vloc : Obj \cup {NOTHING}, prog : Programs]
Forked   == [a : Activ, started : BOOLEAN]

ASSUME NullAssumption == NULL \notin Forked

\* find_verbdef_by_name() and the loop around it: the first verb of o and its
\* ancestors that answers to the name and has the x bit, NULL if none has.
SearchUp(o, name) ==
  LET Callable(v) == name \in verb[v].names /\ verb[v].exec
      up     == Ancestors(parent, o)
      Has(x) == \E i \in DOMAIN verbdefs[x] : Callable(verbdefs[x][i])
      at     == SelectInSeq(up, Has)
  IN IF at = 0 THEN NULL
     ELSE [definer |-> up[at],
           verbdef |-> verbdefs[up[at]][SelectInSeq(verbdefs[up[at]], Callable)]]

first_parent_with_verbs(o) ==
  LET up == Ancestors(parent, o)
      at == SelectInSeq(up, LAMBDA x : verbdefs[x] # <<>>)
  IN IF at = 0 THEN NOTHING ELSE up[at]

\* What db_find_callable_verb() answers, and the cache it leaves.
Answer(o, name) ==
  LET key == <<first_parent_with_verbs(o), name>> IN
  IF vc_table # NULL /\ key \in DOMAIN vc_table THEN vc_table[key]
  ELSE SearchUp(key[1], name)

CacheAfter(o, name) ==
  With(IF vc_table = NULL THEN <<>> ELSE vc_table,
       <<first_parent_with_verbs(o), name>>, Answer(o, name))

affected_callable_verb_lookup ==
  vc_table' = IF vc_table = NULL THEN NULL ELSE <<>>

\* How often a program is among the programs that a function gives.
Count(s, p) == Quantify(DOMAIN s, LAMBDA i : s[i] = p)

\* free_program() for each holder that goes away and program_ref() for each
\* new one.
Refs(gone, new) ==
  ref_count' = [p \in Programs |-> ref_count[p] - Count(gone, p) + Count(new, p)]

\* The programs of some Verbdefs.  A Verbdef that was never programmed holds
\* none, and runs the null program.
ProgramsOf(vs) ==
  [i \in {j \in DOMAIN vs : verb[vs[j]].program # null_program} |-> verb[vs[i]].program]
-----------------------------------------------------------------------------
Init ==
  /\ parent = [o \in {Min(Obj)} |-> NOTHING]
  /\ verbdefs = [o \in {Min(Obj)} |-> <<>>]
  /\ verb = <<>>
  /\ vc_table = NULL
  /\ ref_count = [p \in Programs |-> IF p = null_program THEN 1 ELSE 0]
  /\ stack = [t \in Task |-> <<>>]
  /\ forked = [t \in Task |-> NULL]
  /\ stream = NULL

(* The objects: db_objects.c ***********************************************)

\* create(): the new object has the next number, above all that are valid
\* (reset_max_object() lets the numbers of recycled objects be used again), no
\* verbs and no children, and db_change_parent() does not empty the cache.
db_create_object(o, p) ==
  /\ \A x \in DOMAIN parent : x < o
  /\ p = NOTHING \/ valid(p)
  /\ parent' = With(parent, o, p)
  /\ verbdefs' = With(verbdefs, o, <<>>)
  /\ UNCHANGED <<verb, vc_table, ref_count, stack, forked, stream>>

\* Mutant: the rule about children is forgotten.
db_change_parent_no_kids_rule(o, p) ==
  /\ valid(o) /\ (p = NOTHING \/ (valid(p) /\ NoLoop(parent, o, p)))
  /\ parent' = [parent EXCEPT ![o] = p]
  /\ IF verbdefs[o] = <<>> THEN UNCHANGED vc_table ELSE affected_callable_verb_lookup
  /\ UNCHANGED <<verbdefs, verb, ref_count, stack, forked, stream>>

db_change_parent(o, p) ==
  /\ valid(o) /\ (p = NOTHING \/ (valid(p) /\ NoLoop(parent, o, p)))
  /\ parent' = [parent EXCEPT ![o] = p]
  /\ IF Children(parent, o) = {} /\ verbdefs[o] = <<>>
     THEN UNCHANGED vc_table
     ELSE affected_callable_verb_lookup
  /\ UNCHANGED <<verbdefs, verb, ref_count, stack, forked, stream>>

\* recycle(): the children go to the parent, and the object, by then a
\* barren orphan, is destroyed with its verbs.
db_destroy_object(o) ==
  /\ valid(o)
  /\ parent' = [x \in DOMAIN parent \ {o} |->
                  IF parent[x] = o THEN parent[o] ELSE parent[x]]
  /\ verbdefs' = Restrict(verbdefs, DOMAIN verbdefs \ {o})
  /\ verb' = Restrict(verb, DOMAIN verb \ ToSet(verbdefs[o]))
  /\ Refs(ProgramsOf(verbdefs[o]), <<>>)
  /\ affected_callable_verb_lookup
  /\ UNCHANGED <<stack, forked, stream>>

\* renumber(): the object takes the first free number below its own, if there
\* is one.  Activations and ".program" keep the number they have noted.
db_renumber_object(old) ==
  /\ valid(old)
  /\ LET free == {n \in Obj : n < old /\ ~valid(n)}
         new  == IF free = {} THEN old ELSE Min(free)
         Num(x) == IF x = old THEN new ELSE x
         was(x) == IF x = new THEN old ELSE x
         now  == {Num(x) : x \in DOMAIN parent}
     IN /\ parent' = [x \in now |-> Num(parent[was(x)])]
        /\ verbdefs' = [x \in now |-> verbdefs[was(x)]]
  /\ affected_callable_verb_lookup
  /\ UNCHANGED <<verb, ref_count, stack, forked, stream>>

(* The verbs: db_verbs.c and verbs.c ***************************************)

db_add_verb(o, names, exec) ==
  \E v \in Verbdef \ DOMAIN verb :
    /\ valid(o)
    /\ affected_callable_verb_lookup
    /\ verb' = With(verb, v, [names |-> names, exec |-> exec, program |-> null_program])
    /\ verbdefs' = [verbdefs EXCEPT ![o] = Append(@, v)]
    /\ UNCHANGED <<parent, ref_count, stack, forked, stream>>

db_delete_verb(o, i) ==
  /\ valid(o) /\ i \in DOMAIN verbdefs[o]
  /\ affected_callable_verb_lookup
  /\ verbdefs' = [verbdefs EXCEPT ![o] = RemoveAt(@, i)]
  /\ verb' = Restrict(verb, DOMAIN verb \ {verbdefs[o][i]})
  /\ Refs(ProgramsOf(<<verbdefs[o][i]>>), <<>>)
  /\ UNCHANGED <<parent, stack, forked, stream>>

\* set_verb_info() sets the owner, the flags and the names.
bf_set_verb_info(o, i, names, exec) ==
  /\ valid(o) /\ i \in DOMAIN verbdefs[o]
  /\ affected_callable_verb_lookup
  /\ verb' = [verb EXCEPT ![verbdefs[o][i]].names = names,
                          ![verbdefs[o][i]].exec = exec]
  /\ UNCHANGED <<parent, verbdefs, ref_count, stack, forked, stream>>

\* set_verb_args(): the argument specifiers are not in the model.
bf_set_verb_args(o, i) ==
  /\ valid(o) /\ i \in DOMAIN verbdefs[o]
  /\ affected_callable_verb_lookup
  /\ UNCHANGED <<parent, verbdefs, verb, ref_count, stack, forked, stream>>

\* A program that has just been parsed has one reference, and becomes the
\* program of the verb in place of the one it had; the cache is kept.
db_set_verb_program(v) ==
  \E p \in Program :
    /\ ref_count[p] = 0
    /\ Refs(ProgramsOf(<<v>>), <<p>>)
    /\ verb' = [verb EXCEPT ![v].program = p]
    /\ UNCHANGED <<parent, verbdefs, vc_table, stack, forked>>

bf_set_verb_code(o, i) ==
  /\ valid(o) /\ i \in DOMAIN verbdefs[o]
  /\ db_set_verb_program(verbdefs[o][i])
  /\ UNCHANGED stream

\* find_described_verb() with a name: the x bit does not matter.
find_described_verb(o, name) ==
  SelectInSeq(verbdefs[o], LAMBDA v : name \in verb[v].names)

start_programming(o, name) ==
  /\ stream = NULL
  /\ valid(o) /\ find_described_verb(o, name) # 0
  /\ stream' = [object |-> o, verb |-> name]
  /\ UNCHANGED <<parent, verbdefs, verb, vc_table, ref_count, stack, forked>>

\* The object and the verb are looked for again: both may be gone, or others.
\* Code that does not parse changes nothing.
end_programming ==
  /\ stream # NULL
  /\ stream' = NULL
  /\ \/ UNCHANGED <<parent, verbdefs, verb, vc_table, ref_count, stack, forked>>
     \/ /\ valid(stream.object)
        /\ find_described_verb(stream.object, stream.verb) # 0
        /\ db_set_verb_program(
             verbdefs[stream.object][find_described_verb(stream.object, stream.verb)])

(* The activations: execute.c and tasks.c **********************************)

\* call_verb2() and do_task(): look up the verb, and on success push an
\* activation that holds the program.
Call(t, where, name) ==
  /\ vc_table' = CacheAfter(where, name)
  /\ LET h == Answer(where, name) IN
     IF h = NULL \/ Len(stack[t]) = MaxFrames
     THEN UNCHANGED <<ref_count, stack>>
     ELSE LET p == verb[h.verbdef].program IN
          /\ Refs(<<>>, <<p>>)
          /\ stack' = [stack EXCEPT ![t] =
                         Append(@, [vloc |-> h.definer, prog |-> p])]
  /\ UNCHANGED <<parent, verbdefs, verb, forked, stream>>

call_verb2(t, o, name) == stack[t] # <<>> /\ valid(o) /\ Call(t, o, name)

\* pass(): the search starts at the parent of the object that defines the
\* verb that is running.
bf_pass(t, name) ==
  /\ stack[t] # <<>>
  /\ LET vloc == Last(stack[t]).vloc IN
     valid(vloc) /\ valid(parent[vloc]) /\ Call(t, parent[vloc], name)

run_server_task(t, o, name) ==
  stack[t] = <<>> /\ forked[t] = NULL /\ valid(o) /\ Call(t, o, name)

\* eval(): the activation owns the program that was parsed for it.
bf_eval(t) ==
  \E p \in Program :
    /\ ref_count[p] = 0
    /\ stack[t] # <<>> /\ Len(stack[t]) < MaxFrames
    /\ Refs(<<>>, <<p>>)
    /\ stack' = [stack EXCEPT ![t] = Append(@, [vloc |-> NOTHING, prog |-> p])]
    /\ UNCHANGED <<parent, verbdefs, verb, vc_table, forked, stream>>

free_activation(t) ==
  /\ stack[t] # <<>>
  /\ Refs(<<Last(stack[t]).prog>>, <<>>)
  /\ stack' = [stack EXCEPT ![t] = Front(@)]
  /\ UNCHANGED <<parent, verbdefs, verb, vc_table, forked, stream>>

\* A fork statement: the new task holds the program of the activation.
enqueue_forked_task2(t, u) ==
  /\ stack[t] # <<>> /\ stack[u] = <<>> /\ forked[u] = NULL
  /\ forked' = [forked EXCEPT ![u] = [a |-> Last(stack[t]), started |-> FALSE]]
  /\ Refs(<<>>, <<Last(stack[t]).prog>>)
  /\ UNCHANGED <<parent, verbdefs, verb, vc_table, stack, stream>>

\* Mutant: the activation takes over the reference of the forked task.
do_forked_task_unreferenced(t) ==
  /\ forked[t] # NULL /\ ~forked[t].started
  /\ stack' = [stack EXCEPT ![t] = <<forked[t].a>>]
  /\ forked' = [forked EXCEPT ![t].started = TRUE]
  /\ UNCHANGED <<parent, verbdefs, verb, vc_table, ref_count, stream>>

do_forked_task(t) ==
  /\ forked[t] # NULL /\ ~forked[t].started
  /\ stack' = [stack EXCEPT ![t] = <<forked[t].a>>]
  /\ forked' = [forked EXCEPT ![t].started = TRUE]
  /\ Refs(<<>>, <<forked[t].a.prog>>)
  /\ UNCHANGED <<parent, verbdefs, verb, vc_table, stream>>

\* free_task() of a forked task: after it has run until it ended or was
\* suspended, or when it is killed before.
free_task(t) ==
  /\ forked[t] # NULL
  /\ forked' = [forked EXCEPT ![t] = NULL]
  /\ Refs(<<forked[t].a.prog>>, <<>>)
  /\ UNCHANGED <<parent, verbdefs, verb, vc_table, stack, stream>>

\* free_vm() of a suspended task that is killed.
free_vm(t) ==
  /\ stack[t] # <<>> /\ forked[t] = NULL
  /\ Refs([i \in DOMAIN stack[t] |-> stack[t][i].prog], <<>>)
  /\ stack' = [stack EXCEPT ![t] = <<>>]
  /\ UNCHANGED <<parent, verbdefs, verb, vc_table, forked, stream>>

Next ==
  \/ \E o \in Obj, p \in Obj \cup {NOTHING} :
       db_create_object(o, p) \/ db_change_parent(o, p)
  \/ \E o \in Obj : db_destroy_object(o) \/ db_renumber_object(o)
  \/ \E o \in Obj, names \in Names, x \in BOOLEAN :
       \/ db_add_verb(o, names, x)
       \/ \E i \in 1..Cardinality(Verbdef) : bf_set_verb_info(o, i, names, x)
  \/ \E o \in Obj, i \in 1..Cardinality(Verbdef) :
       db_delete_verb(o, i) \/ bf_set_verb_args(o, i) \/ bf_set_verb_code(o, i)
  \/ \E o \in Obj, name \in Name : start_programming(o, name)
  \/ end_programming
  \/ \E t \in Task, o \in Obj, name \in Name :
       call_verb2(t, o, name) \/ run_server_task(t, o, name)
  \/ \E t \in Task, name \in Name : bf_pass(t, name)
  \/ \E t \in Task : \/ bf_eval(t) \/ free_activation(t)
                     \/ do_forked_task(t) \/ free_task(t) \/ free_vm(t)
  \/ \E t, u \in Task : enqueue_forked_task2(t, u)

Spec == Init /\ [][Next]_vars
-----------------------------------------------------------------------------
TypeOK ==
  /\ DOMAIN parent \subseteq Obj /\ DOMAIN verbdefs = DOMAIN parent
  /\ \A o \in DOMAIN parent : /\ parent[o] \in DOMAIN parent \cup {NOTHING}
                              /\ verbdefs[o] \in Seq(DOMAIN verb)
  /\ verb \in [DOMAIN verb -> [names : Names, exec : BOOLEAN, program : Programs]]
  /\ ref_count \in [Programs -> Nat]
  /\ stack \in [Task -> Seq(Activ)]
  /\ forked \in [Task -> Forked \cup {NULL}]

\* A verb call answers what a search without a cache would answer, for every
\* object and name, whatever has happened to objects and verbs since the
\* entry was made: no entry is stale, and no entry answers for an object that
\* inherits something else (db_find_callable_verb() and all the callers of
\* db_priv_affected_callable_verb_lookup()).
CacheIsTransparent ==
  \A o \in DOMAIN parent, name \in Name : Answer(o, name) = SearchUp(o, name)

\* A program's reference count is the number of verbs, activations and forked
\* tasks that hold it, and the null program's own: so a program is freed when
\* the last of them lets go, not before it and not never (program_ref() and
\* free_program()).
ProgramsAreHeld ==
  \A p \in Programs :
    ref_count[p] =
        Quantify(DOMAIN verb, LAMBDA v : p # null_program /\ verb[v].program = p)
      + Quantify(Task \X (1..MaxFrames), LAMBDA x :
          x[2] \in DOMAIN stack[x[1]] /\ stack[x[1]][x[2]].prog = p)
      + Quantify(Task, LAMBDA t : forked[t] # NULL /\ forked[t].a.prog = p)
      + (IF p = null_program THEN 1 ELSE 0)
=============================================================================
