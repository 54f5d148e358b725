---------------------------- MODULE InputQueue ----------------------------
(***************************************************************************)
(* The input queue of a connection as tasks.c builds it: tasks linked by   *)
(* `next', and a second list, the itail queue, of the tasks that end a run *)
(* of out-of-band or of other tasks, linked by `next_itail', so that       *)
(* dequeue_input_task() finds the first task of either sort at once.       *)
(*                                                                         *)
(* A pointer to a task is a number, 0 for null.  A pointer to a pointer to *)
(* a task is a number too: slot 0 is the field of the tqueue,              *)
(* first_input or first_itail, and slot n the field of task n.  So next[0] *)
(* is tq->first_input, and next[last_input] is what last_input points to.  *)
(***************************************************************************)
EXTENDS InputLine, FiniteSets

CONSTANTS
  MaxTasks,      \* bound on the tasks in the queue
  Kind,          \* the kinds of lines that come in
  Length,        \* and their lengths
  INPUT_HIWAT    \* MAX_QUEUED_INPUT of options.h

ASSUME InputQueueAssumption ==
  /\ MaxTasks \in Nat
  /\ Kind \subseteq LineKind
  /\ Length \subseteq Nat /\ Length # {}
  /\ INPUT_HIWAT \in Nat /\ INPUT_HIWAT >= 2

INPUT_LOWAT == INPUT_HIWAT \div 2

VARIABLES
  allocated,            \* the tasks that mymalloc() has returned
  kind, length,         \* t->kind, t->t.input.length
  next,                 \* t->next, and tq->first_input
  next_itail,           \* t->t.input.next_itail, and tq->first_itail
  last_input,           \* a slot of next
  last_itail,           \* a slot of next_itail
  total_input_length,
  input_suspended,
  connected,
  disable_oob,
  flushing,             \* flush_input() is in its loop
  dequeued              \* what the last dequeue_input_task() returned

links   == <<allocated, kind, length, next, next_itail, last_input, last_itail>>
options == <<connected, disable_oob>>
vars    == <<links, total_input_length, input_suspended, options, flushing, dequeued>>

Node == 1..MaxTasks
Slot == 0..MaxTasks
Null == 0

first_input == next[0]
first_itail == next_itail[0]

\* What the fields of a task hold before it is allocated does not matter.
AnyLength == CHOOSE l \in Length : TRUE

Line    == [kind : Kind, length : Length]
Nothing == [kind |-> "none"]

TypeOK ==
  /\ allocated \subseteq Node
  /\ kind \in [Node -> LineKind]
  /\ length \in [Node -> Length]
  /\ next \in [Slot -> Slot]
  /\ next_itail \in [Slot -> Slot]
  /\ last_input \in Slot
  /\ last_itail \in Slot
  /\ total_input_length \in Nat
  /\ input_suspended \in BOOLEAN
  /\ connected \in BOOLEAN
  /\ disable_oob \in BOOLEAN
  /\ flushing \in BOOLEAN
  /\ dequeued \in [kind : LineKind, length : Length] \cup {Nothing}

\* find_tqueue(), new_task_queue()
Init ==
  /\ allocated = {}
  /\ kind = [n \in Node |-> "TASK_INBAND"]
  /\ length = [n \in Node |-> AnyLength]
  /\ next = [s \in Slot |-> Null]
  /\ next_itail = [s \in Slot |-> Null]
  /\ last_input = 0
  /\ last_itail = 0
  /\ total_input_length = 0
  /\ input_suspended = FALSE
  /\ connected = TRUE
  /\ disable_oob = FALSE
  /\ flushing = FALSE
  /\ dequeued = Nothing

-----------------------------------------------------------------------------
(* enqueue_input_task()                                                    *)

\* Mutant: the slot of the last itail stays behind.
LinkFrontKeepsLast(t, line) ==
  LET ends_run == IsOob(kind[first_input]) # IsOob(line.kind) IN
  /\ next' = [next EXCEPT ![t] = first_input, ![0] = t]
  /\ next_itail' = IF ends_run
                   THEN [next_itail EXCEPT ![t] = first_itail, ![0] = t]
                   ELSE [next_itail EXCEPT ![t] = Null]
  /\ UNCHANGED <<last_input, last_itail>>

\* The task goes in front of the others, and ends a run of its own unless it
\* is of the sort of the first one.
LinkFront(t, line) ==
  LET ends_run == IsOob(kind[first_input]) # IsOob(line.kind) IN
  /\ next' = [next EXCEPT ![t] = first_input, ![0] = t]
  /\ next_itail' = IF ends_run
                   THEN [next_itail EXCEPT ![t] = first_itail, ![0] = t]
                   ELSE [next_itail EXCEPT ![t] = Null]
  /\ last_itail' = IF ends_run /\ last_itail = 0 THEN t ELSE last_itail
  /\ UNCHANGED last_input

\* The task goes behind the others, and ends the last run or one of its own.
LinkRear(t, line) ==
  LET last     == next_itail[last_itail]
      new_run  == first_input # Null /\ IsOob(kind[last]) # IsOob(line.kind)
      slot     == IF new_run THEN last ELSE last_itail
  IN
  /\ last_itail' = slot
  /\ next_itail' = [next_itail EXCEPT ![t] = Null, ![slot] = t]
  /\ next' = [next EXCEPT ![last_input] = t, ![t] = Null]
  /\ last_input' = t

\* A task from mymalloc(), linked in.
NewTask(line, at_front) ==
  /\ allocated # Node
  /\ LET t == CHOOSE n \in Node \ allocated : TRUE IN
       /\ allocated' = allocated \cup {t}
       /\ kind' = [kind EXCEPT ![t] = line.kind]
       /\ length' = [length EXCEPT ![t] = line.length]
       /\ IF at_front /\ first_input # Null
            THEN LinkFront(t, line)
            ELSE LinkRear(t, line)

\* Mutant: a line pushed to the front is not counted.
enqueue_input_taskUncounted(line, at_front) ==
  /\ ~flushing
  /\ NewTask(line, at_front)
  /\ total_input_length' = total_input_length + IF at_front THEN 0 ELSE line.length
  /\ input_suspended' = (input_suspended
                           \/ (connected /\ total_input_length' > INPUT_HIWAT))
  /\ dequeued' = Nothing
  /\ UNCHANGED <<options, flushing>>

enqueue_input_task(line, at_front) ==
  /\ ~flushing
  /\ NewTask(line, at_front)
  /\ total_input_length' = total_input_length + line.length
  /\ input_suspended' = (input_suspended
                           \/ (connected /\ total_input_length' > INPUT_HIWAT))
  /\ dequeued' = Nothing
  /\ UNCHANGED <<options, flushing>>

-----------------------------------------------------------------------------
(* dequeue_input_task()                                                    *)

\* `how', once disable-oob has been looked at.
Effective(how) == IF disable_oob THEN "DQ_FIRST" ELSE how

\* Is the first run of tasks to be passed over?
SkipsRun(how) ==
  IF IsOob(kind[first_input]) THEN Effective(how) = "DQ_INBAND"
                              ELSE Effective(how) = "DQ_OOB"

\* The slots pt and pitail, of the one list and of the other.
pt(how) == IF SkipsRun(how) THEN first_itail ELSE 0

Refuses(how) == \/ disable_oob /\ how = "DQ_OOB"
                \/ first_input = Null
                \/ next[pt(how)] = Null

\* Mutant: the runs on the two sides are not joined.
UnlinkTailNotJoined(slot, t) ==
  IF t = next_itail[slot]
  THEN LET cut == [next_itail EXCEPT ![slot] = next_itail[t], ![t] = Null]
       IN /\ next_itail' = cut
          /\ last_itail' = IF cut[last_itail] = Null THEN 0 ELSE last_itail
  ELSE UNCHANGED <<next_itail, last_itail>>

\* Take task t, the first of its run, out of the itail queue.  If t is all of
\* the run that follows the first one, the runs on its two sides are one now.
UnlinkTail(slot, t) ==
  IF t = next_itail[slot]
  THEN LET cut    == [next_itail EXCEPT ![slot] = Null]
           joined == IF cut[t] # Null
                     THEN [cut EXCEPT ![0] = cut[t], ![t] = Null] ELSE cut
       IN /\ next_itail' = joined
          /\ last_itail' = IF joined[last_itail] = Null THEN 0 ELSE last_itail
  ELSE UNCHANGED <<next_itail, last_itail>>

\* Mutant: the length before this task was taken is compared with the mark.
UnlinkComparesLate(how) ==
  LET slot == pt(how)
      t    == next[slot]
  IN
  /\ next' = [next EXCEPT ![slot] = next[t], ![t] = Null]
  /\ last_input' = IF next[t] = Null THEN slot ELSE last_input
  /\ UnlinkTail(slot, t)
  /\ total_input_length' = total_input_length - length[t]
  /\ input_suspended' = (input_suspended
                           /\ ~(connected /\ total_input_length < INPUT_LOWAT))
  /\ dequeued' = [kind   |-> DequeuedKind(kind[t], disable_oob),
                  length |-> length[t]]
  /\ allocated' = allocated \ {t}
  /\ kind' = [kind EXCEPT ![t] = "TASK_INBAND"]
  /\ length' = [length EXCEPT ![t] = AnyLength]

Unlink(how) ==
  LET slot == pt(how)
      t    == next[slot]
  IN
  /\ next' = [next EXCEPT ![slot] = next[t], ![t] = Null]
  /\ last_input' = IF next[t] = Null THEN slot ELSE last_input
  /\ UnlinkTail(slot, t)
  /\ total_input_length' = total_input_length - length[t]
  /\ input_suspended' = (input_suspended
                           /\ ~(connected /\ total_input_length' < INPUT_LOWAT))
  /\ dequeued' = [kind   |-> DequeuedKind(kind[t], disable_oob),
                  length |-> length[t]]
  /\ allocated' = allocated \ {t}
  /\ kind' = [kind EXCEPT ![t] = "TASK_INBAND"]
  /\ length' = [length EXCEPT ![t] = AnyLength]

dequeue_input_task(how) ==
  IF Refuses(how)
  THEN /\ dequeued' = Nothing
       /\ UNCHANGED <<links, total_input_length, input_suspended>>
  ELSE Unlink(how)

-----------------------------------------------------------------------------
(* The callers                                                             *)

\* read_input_now(), run_ready_tasks(), do_login_task()
Take(how) ==
  /\ ~flushing
  /\ dequeue_input_task(how)
  /\ UNCHANGED <<options, flushing>>

\* new_input_task() with the flush command, or bf_flush_input(): dequeue until
\* nothing is left.
StartFlush ==
  /\ ~flushing /\ first_input # Null
  /\ flushing' = TRUE
  /\ UNCHANGED <<links, total_input_length, input_suspended, options, dequeued>>

flush_input ==
  /\ flushing
  /\ dequeue_input_task("DQ_FIRST")
  /\ flushing' = (dequeued' # Nothing)
  /\ UNCHANGED options

\* tasks_set_connection_option(), disable-oob
set_disable_oob(value) ==
  /\ ~flushing /\ value # disable_oob
  /\ disable_oob' = value
  /\ dequeued' = Nothing
  /\ UNCHANGED <<links, total_input_length, input_suspended, connected, flushing>>

\* Called by server_new_connection() with the one line it has queued.
task_suspend_input ==
  /\ ~flushing /\ connected /\ ~input_suspended
  /\ first_input # Null
  /\ input_suspended' = TRUE
  /\ dequeued' = Nothing
  /\ UNCHANGED <<links, total_input_length, options, flushing>>

free_task_queue ==
  /\ ~flushing /\ connected
  /\ connected' = FALSE
  /\ dequeued' = Nothing
  /\ UNCHANGED <<links, total_input_length, input_suspended, disable_oob, flushing>>

Next ==
  \/ \E line \in Line, at_front \in BOOLEAN : enqueue_input_task(line, at_front)
  \/ \E how \in DequeueHow : Take(how)
  \/ StartFlush \/ flush_input
  \/ \E value \in BOOLEAN : set_disable_oob(value)
  \/ task_suspend_input
  \/ free_task_queue

Spec == Init /\ [][Next]_vars

-----------------------------------------------------------------------------
(* Properties                                                              *)

\* The list that starts in slot 0 of a field: from[<<slot, fuel>>] is what
\* follows slot, up to as many tasks as there is fuel.  A cycle shows as a list
\* of MaxTasks + 1, which is too long.
Chain(field) ==
  LET from[p \in Slot \X (0..(MaxTasks + 1))] ==
        IF p[2] = 0 \/ field[p[1]] = Null THEN <<>>
        ELSE <<field[p[1]]>> \o from[<<field[p[1]], p[2] - 1>>]
  IN from[<<0, MaxTasks + 1>>]

Tasks  == Chain(next)
Itails == Chain(next_itail)

\* The comment on first_itail in struct tqueue: the itail queue holds the last
\* task of every run, in order; last_input is the final slot and last_itail
\* the last but one; and no task is reached twice or after it was freed.
ItailQueue ==
  LET tasks  == Tasks
      itails == Itails
      EndsRun(i) == \/ i = Len(tasks)
                    \/ IsOob(kind[tasks[i]]) # IsOob(kind[tasks[i + 1]])
  IN
  /\ ToSet(tasks) = allocated /\ Len(tasks) = Cardinality(allocated)
  /\ ToSet(itails) = {tasks[i] : i \in {j \in DOMAIN tasks : EndsRun(j)}}
  /\ \A i, j \in DOMAIN itails : i < j =>
       \E k, l \in DOMAIN tasks : k < l /\ tasks[k] = itails[i] /\ tasks[l] = itails[j]
  /\ next[last_input] = Null
  /\ last_input = (IF tasks = <<>> THEN 0 ELSE Last(tasks))
  /\ last_itail = (IF Len(itails) <= 1 THEN 0 ELSE itails[Len(itails) - 1])

\* A connection that has been told not to send is told to go on by the time
\* its lines have been taken: it never waits for an empty queue.
SuspendedHasInput ==
  input_suspended /\ connected => first_input # Null

\* The lists behave as a plain sequence of lines.
Lines ==
  LET tasks == Tasks
  IN [i \in DOMAIN tasks |-> [kind |-> kind[tasks[i]], length |-> length[tasks[i]]]]

Abstract == INSTANCE InputQueueSpec WITH input <- Lines

RefinesSpec == Abstract!Spec
=============================================================================
