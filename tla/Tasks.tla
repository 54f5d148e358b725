------------------------------- MODULE Tasks -------------------------------
(***************************************************************************)
(* The task scheduler of tasks.c: a queue (struct tqueue) for every object *)
(* number that has lines of input to be handled or background tasks, the   *)
(* list of the active queues in the order of their usage, and the list of  *)
(* waiting tasks.                                                          *)
(*                                                                         *)
(* Each function of tasks.c that changes the queues is an operator from a  *)
(* state of the scheduler to the next; module Server, which knows when     *)
(* they are called, makes actions of them.                                 *)
(*                                                                         *)
(* Times are relative: a waiting task has the number of seconds that are   *)
(* left, and usage is what a queue has used beyond the first active one.   *)
(***************************************************************************)
EXTENDS InputLine, FiniteSets

CONSTANTS
  Player,             \* object numbers of players
  Conn,               \* negative object numbers, given to connections
  TaskId,
  MaxQueues,          \* bound on the task queues that exist at a time
  MaxInput,           \* bound on the lines in a queue
  MaxUsage,           \* bound on the differences of usage
  Delay,              \* the arguments of suspend() and of fork
  Line,               \* the lines of input
  queued_task_limit   \* $server_options.queued_task_limit

\* A line with no words on it, which is no command.
Blank == "blank"

ASSUME TasksAssumption ==
  /\ MaxQueues \in Nat /\ MaxInput \in Nat /\ MaxUsage \in Nat
  /\ Delay \subseteq Nat
  /\ Line \subseteq LineKind \cup {Blank}
  /\ queued_task_limit \in Nat

VARIABLES
  queue,      \* the tqueue in each slot of memory
  active,     \* active_tqueues; the others that are in use are idle_tqueues
  waiting,    \* waiting_tasks
  task,       \* what is known of each task
  current     \* the task whose code the interpreter runs, or None

taskVars == <<queue, active, waiting, task, current>>

None      == "none"
NOTHING   == "#-1"
Owner     == Player \cup Conn
Slot      == 1..MaxQueues
NoQueue   == 0
NO_USAGE  == -1

\* Players and connections have numbers of their own; None is no number.
ASSUME NumbersAssumption ==
  /\ Player \cap Conn = {}
  /\ None \notin Owner \cup TaskId
  /\ NOTHING \notin Owner

FreeSlot == [player |-> None, connected |-> FALSE, input |-> <<>>,
             hold_input |-> FALSE, disable_oob |-> FALSE, reading |-> None,
             bg |-> <<>>, num_bg_tasks |-> 0, usage |-> NO_USAGE]

NewQueue(player) == [FreeSlot EXCEPT !.player = player]

NoTask == [kind |-> None, progr |-> None, delay |-> 0]

\* The part of the state that the functions on queues work on.
Sched == [queue |-> queue, active |-> active]
Becomes(S) == queue' = S.queue /\ active' = S.active

InUse(S)  == {q \in Slot : S.queue[q].player # None}
IdleIn(S) == InUse(S) \ ToSet(S.active)

\* Every field of a queue and of a task is of its kind; no queue counts fewer
\* tasks than none.
TypeOK ==
  /\ queue \in [Slot -> [player : Owner \cup {NOTHING, None},
                         connected : BOOLEAN,
                         input : Seq(Line \cup {Blank}),
                         hold_input : BOOLEAN,
                         disable_oob : BOOLEAN,
                         reading : TaskId \cup {None},
                         bg : Seq(TaskId),
                         num_bg_tasks : Nat,
                         usage : Nat \cup {NO_USAGE}]]
  /\ active \in Seq(Slot)
  /\ waiting \in Seq(TaskId)
  /\ task \in [TaskId -> [kind : {"TASK_FORKED", "TASK_SUSPENDED", None},
                          progr : Owner \cup {None},
                          delay : Nat]]
  /\ current \in TaskId \cup {None}

-----------------------------------------------------------------------------
(* Queues                                                                  *)

\* Mutant: before those that have used as much.
activate_tqueueBefore(S, q) ==
  LET behind == Cardinality({i \in DOMAIN S.active :
                  S.queue[S.active[i]].usage < S.queue[q].usage})
  IN [S EXCEPT !.active = InsertAt(@, behind + 1, q)]

\* activate_tqueue(): behind all that have used as much or less.
activate_tqueue(S, q) ==
  LET behind == Cardinality({i \in DOMAIN S.active :
                  S.queue[S.active[i]].usage <= S.queue[q].usage})
  IN [S EXCEPT !.active = InsertAt(@, behind + 1, q)]

\* A queue that becomes active has used as much as the first one.
ensure_usage(S, q) ==
  IF S.queue[q].usage # NO_USAGE THEN S
  ELSE activate_tqueue(
         [S EXCEPT !.queue[q].usage =
            IF S.active = <<>> THEN 0 ELSE S.queue[Head(S.active)].usage], q)

\* deactivate_tqueue() of the first active queue.
deactivate_first(S) ==
  [queue  |-> [S.queue EXCEPT ![Head(S.active)].usage = NO_USAGE],
   active |-> Tail(S.active)]

\* find_tqueue(player, 0)
find_tqueue(S, player) ==
  IF \E q \in Slot : S.queue[q].player = player
  THEN CHOOSE q \in Slot : S.queue[q].player = player
  ELSE NoQueue

\* find_tqueue(player, 1): the state with a queue for player.
HasRoomFor(S, player) ==
  find_tqueue(S, player) # NoQueue \/ InUse(S) # Slot

create_tqueue(S, player) ==
  IF find_tqueue(S, player) # NoQueue THEN S
  ELSE LET q == CHOOSE free \in Slot \ InUse(S) : TRUE
       IN [S EXCEPT !.queue[q] = NewQueue(player)]

\* free_tqueue(), for each idle queue at the end of run_ready_tasks().
FreeUnused(S) ==
  [S EXCEPT !.queue = [q \in Slot |->
     IF /\ q \in IdleIn(S)
        /\ ~S.queue[q].connected
        /\ S.queue[q].input = <<>>
        /\ S.queue[q].num_bg_tasks = 0
     THEN FreeSlot ELSE S.queue[q]]]

\* Only differences of usage matter: count it from the first active queue.
Rebased(S) ==
  IF S.active = <<>> THEN S
  ELSE LET least == S.queue[Head(S.active)].usage
       IN [S EXCEPT !.queue = [q \in Slot |->
             IF S.queue[q].usage = NO_USAGE THEN S.queue[q]
             ELSE [S.queue[q] EXCEPT !.usage = @ - least]]]

-----------------------------------------------------------------------------
(* Background tasks                                                        *)

enqueue_bg_task(S, q, t) == [S EXCEPT !.queue[q].bg = Append(@, t)]

\* dequeue_bg_task(): the first task is Head(bg).
dequeue_bg_task(S, q) ==
  [S EXCEPT !.queue[q].bg = Tail(@), !.queue[q].num_bg_tasks = @ - 1]

\* Mutant: at the end, whenever it starts.
PlaceLast(t, delay) == Append(waiting, t)

\* enqueue_waiting(): behind the tasks that start no later, and counted in
\* the queue of its programmer.
PlaceInWaiting(t, delay) ==
  InsertAt(waiting,
           1 + Cardinality({i \in DOMAIN waiting : task[waiting[i]].delay <= delay}),
           t)

CountWaiting(S, progr) ==
  LET T == create_tqueue(S, progr)
  IN [T EXCEPT !.queue[find_tqueue(T, progr)].num_bg_tasks = @ + 1]

\* Mutant: one more is allowed.
check_user_task_limitLate(progr) ==
  LET q == find_tqueue(Sched, progr)
  IN (IF q = NoQueue THEN 0 ELSE queue[q].num_bg_tasks) <= queued_task_limit

check_user_task_limit(progr) ==
  LET q == find_tqueue(Sched, progr)
  IN (IF q = NoQueue THEN 0 ELSE queue[q].num_bg_tasks) < queued_task_limit

\* What run_ready_tasks() and do_resume() do with a task that is due.
MakeReady(S, t) ==
  LET T == create_tqueue(S, task[t].progr)
      q == find_tqueue(T, task[t].progr)
  IN enqueue_bg_task(ensure_usage(T, q), q, t)

\* How many tasks at the front of waiting_tasks are due, and the queues when
\* those have been made ready, one by one.
Due == Cardinality({i \in DOMAIN waiting :
                      \A j \in 1..i : task[waiting[j]].delay = 0})

Woken ==
  LET woken[n \in 0..Due] ==
        IF n = 0 THEN Sched ELSE MakeReady(woken[n - 1], waiting[n])
  IN woken[Due]

-----------------------------------------------------------------------------
(* Lines of input                                                          *)

is_out_of_input(S, q) == ~S.queue[q].connected /\ S.queue[q].input = <<>>

LineAt(S, q, how) == DequeueAt(S.queue[q].input, how, S.queue[q].disable_oob)

\* dequeue_input_task(), when LineAt is not 0; the kind of the line it returns.
dequeue_input_task(S, q, how) ==
  [S EXCEPT !.queue[q].input = RemoveAt(@, LineAt(S, q, how))]

DequeuedLine(S, q, how) ==
  DequeuedKind(S.queue[q].input[LineAt(S, q, how)], S.queue[q].disable_oob)

\* enqueue_input_task(): the queue is made active if there is anything to do
\* with the line.
enqueue_input_task(S, q, line, at_front) ==
  LET T == [S EXCEPT !.queue[q].input =
              IF at_front THEN <<line>> \o @ ELSE Append(@, line)]
  IN IF \/ ~S.queue[q].hold_input
        \/ S.queue[q].reading # None
        \/ ~S.queue[q].disable_oob /\ IsOob(line)
     THEN ensure_usage(T, q) ELSE T

flush_input(S, q) == [S EXCEPT !.queue[q].input = <<>>]

\* How run_ready_tasks() asks for a line.
RunHow(S, q) ==
  IF S.queue[q].hold_input /\ S.queue[q].reading = None THEN "DQ_OOB" ELSE "DQ_FIRST"

-----------------------------------------------------------------------------
(* Connections                                                             *)

\* new_task_queue()
new_task_queue(S, player) ==
  LET T == create_tqueue(S, player)
  IN [T EXCEPT !.queue[find_tqueue(T, player)].connected = TRUE]

\* Mutant: nothing wakes the task that is reading.
free_task_queueAsleep(S, q) == [S EXCEPT !.queue[q].connected = FALSE]

\* free_task_queue(): a task that is reading is to be resumed.
free_task_queue(S, q) ==
  LET T == [S EXCEPT !.queue[q].connected = FALSE]
  IN IF T.queue[q].reading # None THEN ensure_usage(T, q) ELSE T

\* tasks_set_connection_option()
set_hold_input(S, q, value) ==
  LET T == [S EXCEPT !.queue[q].hold_input = value]
  IN IF ~value /\ T.queue[q].input # <<>> THEN ensure_usage(T, q) ELSE T

\* Mutant: only the first line is looked at.
set_disable_oobFirst(S, q, value) ==
  LET T == [S EXCEPT !.queue[q].disable_oob = value]
  IN IF ~value /\ T.queue[q].input # <<>> /\ IsOob(Head(T.queue[q].input))
     THEN ensure_usage(T, q) ELSE T

set_disable_oob(S, q, value) ==
  LET T == [S EXCEPT !.queue[q].disable_oob = value]
  IN IF ~value /\ \E i \in DOMAIN T.queue[q].input : IsOob(T.queue[q].input[i])
     THEN ensure_usage(T, q) ELSE T

\* do_login_task(), once #0:do_login_command() has returned a player for the
\* connection of queue q.  The background tasks of the connection get a queue
\* of their own; those of the player, in queue dead, move to q.
MoveConnectionTasks(S, q, old_player) ==
  IF S.queue[q].num_bg_tasks = 0 THEN S
  ELSE LET T   == create_tqueue(S, old_player)
           old == find_tqueue(T, old_player)
       IN [T EXCEPT !.queue[old].num_bg_tasks = S.queue[q].num_bg_tasks,
                    !.queue[old].bg = @ \o S.queue[q].bg,
                    !.queue[q].num_bg_tasks = 0,
                    !.queue[q].bg = <<>>]

\* Mutants: the dead queue keeps its player; its tasks are lost.
TakeOverKeepsPlayer(S, q, dead) ==
  IF dead = NoQueue THEN S
  ELSE [S EXCEPT !.queue[q].num_bg_tasks = S.queue[dead].num_bg_tasks,
                 !.queue[q].bg = @ \o S.queue[dead].bg,
                 !.queue[dead].input = <<>>,
                 !.queue[dead].bg = <<>>,
                 !.queue[dead].num_bg_tasks = 0]

TakeOverLoses(S, q, dead) ==
  IF dead = NoQueue THEN S
  ELSE [S EXCEPT !.queue[q].num_bg_tasks =
                   S.queue[dead].num_bg_tasks - Len(S.queue[dead].bg),
                 !.queue[dead].input = <<>>,
                 !.queue[dead].bg = <<>>,
                 !.queue[dead].num_bg_tasks = 0,
                 !.queue[dead].player = NOTHING]

TakeOverTasks(S, q, dead) ==
  IF dead = NoQueue THEN S
  ELSE [S EXCEPT !.queue[q].num_bg_tasks = S.queue[dead].num_bg_tasks,
                 !.queue[q].bg = @ \o S.queue[dead].bg,
                 !.queue[dead].input = <<>>,
                 !.queue[dead].bg = <<>>,
                 !.queue[dead].num_bg_tasks = 0,
                 !.queue[dead].player = NOTHING]

LoginQueue(S, q, new_player) ==
  LET old_player == S.queue[q].player
      dead       == find_tqueue(S, new_player)
      renamed    == [S EXCEPT !.queue[q].player = new_player]
  IN TakeOverTasks(MoveConnectionTasks(renamed, q, old_player), q, dead)
=============================================================================
