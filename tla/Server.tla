------------------------------- MODULE Server -------------------------------
(***************************************************************************)
(* The main loop of server.c with its connections (struct shandle), the    *)
(* task scheduler of tasks.c, and the MOO code they run.  One iteration of *)
(* main_loop() takes what the network brings ("io"), runs one ready task   *)
(* ("run") and gets rid of connections ("cleanup").                        *)
(*                                                                         *)
(* In each phase the server may run MOO code: a command, a login, a task,  *)
(* or one of the user_...() verbs.  While it does, current is the task and *)
(* pc.at says what the server will do when the code is done or suspends.   *)
(* What code does to the server it does by built-in functions, and each of *)
(* those is an action.                                                     *)
(***************************************************************************)
EXTENDS Tasks

CONSTANTS
  Wizard,           \* the players who are wizards
  Builtin,          \* the built-in functions that MOO code calls
  PermsTarget,      \* what set_task_perms() is called with
  SameListener      \* do all connections come from listeners of one object?

\* set_task_perms(#-1) is left out.  #-1 is also the number of the queues that
\* a login has emptied, so that find_tqueue() would find now one, now another
\* queue for the task, which would be counted in one and taken from another.
ASSUME ServerAssumption ==
  /\ Wizard \subseteq Player
  /\ PermsTarget \subseteq Player \cup Conn
  /\ SameListener \subseteq BOOLEAN /\ SameListener # {}

VARIABLES
  shandle,    \* the connection that was given each number
  pc,         \* what the server is doing
  users       \* the players that are valid

vars == <<queue, active, waiting, task, current, shandle, pc, users>>

Unused == [state |-> "unused", player |-> None, tasks |-> NoQueue,
           logged_in |-> FALSE, disconnect_me |-> FALSE, outbound |-> FALSE,
           booted |-> FALSE]
Gone   == [Unused EXCEPT !.state = "gone"]

\* In pc, todo are the connections that cleanup has still to look at, and
\* conn the one that the code is run for.
At(place, conn, todo) == [at |-> place, conn |-> conn, todo |-> todo]
Loop(place)           == At(place, None, {})

\* The places where a task of the queue at the head of active is run.
RunningPlace == {"task", "command", "login", "redirecting"}
Place        == {"io", "closing", "run", "cleanup", "leaving"} \cup RunningPlace

\* The queues and tasks, the connections, the place of the server in its main
\* loop and the valid players: num_bg_tasks, in particular, is never below 0,
\* whichever queue a task is taken from.
ServerTypeOK ==
  /\ TypeOK
  /\ shandle \in [Conn -> [state : {"unused", "open", "gone"},
                           player : Owner \cup {None},
                           tasks : Slot \cup {NoQueue},
                           logged_in : BOOLEAN,       \* connection_time # 0
                           disconnect_me : BOOLEAN,
                           outbound : BOOLEAN,
                           booted : BOOLEAN]]         \* history
  /\ pc \in [at : Place, conn : Conn \cup {None}, todo : SUBSET Conn]
  /\ users \subseteq Player

Open == {c \in Conn : shandle[c].state = "open"}

find_shandle(player) ==
  IF \E c \in Open : shandle[c].player = player
  THEN CHOOSE c \in Open : shandle[c].player = player
  ELSE None

Init ==
  /\ queue = [q \in Slot |-> FreeSlot]
  /\ active = <<>>
  /\ waiting = <<>>
  /\ task = [t \in TaskId |-> NoTask]
  /\ current = None
  /\ shandle = [c \in Conn |-> Unused]
  /\ pc = Loop("io")
  /\ users = Player

-----------------------------------------------------------------------------
(* Running code                                                            *)

Fresh == {t \in TaskId : task[t].kind = None}
Vm(p) == [kind |-> "TASK_SUSPENDED", progr |-> p, delay |-> 0]

\* run_server_task(): a new task runs a verb of some owner.
StartCode(place) ==
  \E t \in Fresh, p \in Player :
    /\ task' = [task EXCEPT ![t] = Vm(p)]
    /\ current' = t
    /\ pc' = place

\* resume_from_previous_vm() and do_forked_task()
ResumeCode(t) ==
  /\ task' = [task EXCEPT ![t] = Vm(task[t].progr)]
  /\ current' = t
  /\ pc' = Loop("task")

\* The code returns, is aborted, or kills itself.
EndCode ==
  /\ current # None
  /\ task' = [task EXCEPT ![current] = NoTask]
  /\ current' = None
  /\ UNCHANGED <<queue, active, waiting, shandle, pc, users>>

\* The server goes on when a task suspends; neither #0:do_login_command nor
\* #0:do_command has then returned anything.
Suspended ==
  /\ current' = None
  /\ pc' = IF pc.at \in {"login", "command"} THEN Loop("task") ELSE pc

Idle(place) == current = None /\ pc.at = place

-----------------------------------------------------------------------------
(* Connections                                                             *)

NewShandle(c, outbound, greeted) ==
  LET S == new_task_queue(Sched, c)
      q == find_tqueue(S, c)
  IN /\ shandle[c] = Unused
     /\ HasRoomFor(Sched, c)
     /\ Becomes(IF greeted THEN enqueue_input_task(S, q, Blank, FALSE) ELSE S)
     /\ shandle' = [shandle EXCEPT ![c] =
                      [Unused EXCEPT !.state = "open", !.player = c,
                                     !.tasks = q, !.outbound = outbound]]

server_new_connection(c) ==
  /\ Idle("io")
  /\ NewShandle(c, FALSE, TRUE)
  /\ UNCHANGED <<waiting, task, current, pc, users>>

\* The line is the flush command of the connection, or one to queue.
server_receive_line(c) ==
  /\ Idle("io")
  /\ c \in Open
  /\ LET q == shandle[c].tasks
     IN \/ Becomes(flush_input(Sched, q))
        \/ /\ Len(queue[q].input) < MaxInput
           /\ \E line \in Line : Becomes(enqueue_input_task(Sched, q, line, FALSE))
  /\ UNCHANGED <<waiting, task, current, shandle, pc, users>>

free_shandle(c) ==
  /\ Becomes(free_task_queue(Sched, shandle[c].tasks))
  /\ shandle' = [shandle EXCEPT ![c] = Gone]

\* The client has closed the connection.
server_close(c) ==
  /\ Idle("io")
  /\ c \in Open
  /\ shandle' = [shandle EXCEPT ![c].disconnect_me = TRUE]
  /\ StartCode(At("closing", c, {}))
  /\ UNCHANGED <<queue, active, waiting, users>>

\* #0:user_client_disconnected() is done.
server_closed ==
  /\ Idle("closing")
  /\ free_shandle(pc.conn)
  /\ pc' = Loop("io")
  /\ UNCHANGED <<waiting, task, current, users>>

-----------------------------------------------------------------------------
(* run_ready_tasks()                                                       *)

\* Seconds may pass at any time.
Tick ==
  /\ \E i \in DOMAIN waiting : task[waiting[i]].delay > 0
  /\ task' = [t \in TaskId |->
       IF task[t].delay > 0 THEN [task[t] EXCEPT !.delay = @ - 1] ELSE task[t]]
  /\ UNCHANGED <<queue, active, waiting, current, shandle, pc, users>>

WakeTasks ==
  /\ Idle("io")
  /\ Becomes(Woken)
  /\ waiting' = SubSeq(waiting, Due + 1, Len(waiting))
  /\ pc' = Loop("run")
  /\ UNCHANGED <<task, current, shandle, users>>

First == Head(active)

\* A task that is reading from a closed connection gets E_INVARG.
ReadFails ==
  /\ queue[First].reading # None
  /\ is_out_of_input(Sched, First)
  /\ queue' = [queue EXCEPT ![First].reading = None]
  /\ ResumeCode(queue[First].reading)
  /\ UNCHANGED active

\* A line is run by #0:do_out_of_band_command(), by the task that reads, by
\* #0:do_login_command(), or as a command; a line without a word is no
\* command, and an intrinsic command runs no code.
RunLine ==
  LET how  == RunHow(Sched, First)
      line == DequeuedLine(Sched, First, how)
      S    == dequeue_input_task(Sched, First, how)
  IN /\ LineAt(Sched, First, how) # 0
     /\ IF line # "TASK_OOB" /\ queue[First].reading # None
        THEN /\ Becomes([S EXCEPT !.queue[First].reading = None])
             /\ ResumeCode(queue[First].reading)
        ELSE /\ Becomes(S)
             /\ CASE line = "TASK_OOB" -> StartCode(Loop("task"))
                  [] line # "TASK_OOB" /\ queue[First].player \notin Player ->
                       StartCode(Loop("login"))
                  [] line = Blank /\ queue[First].player \in Player ->
                       UNCHANGED <<task, current, pc>>
                  [] OTHER -> \/ StartCode(Loop("command"))
                              \/ pc' = Loop("task") /\ UNCHANGED <<task, current>>

RunBackground ==
  /\ LineAt(Sched, First, RunHow(Sched, First)) = 0
  /\ queue[First].bg # <<>>
  /\ Becomes(dequeue_bg_task(Sched, First))
  /\ ResumeCode(Head(queue[First].bg))

NothingToRun ==
  /\ LineAt(Sched, First, RunHow(Sched, First)) = 0
  /\ queue[First].bg = <<>>
  /\ Becomes(Rebased(deactivate_first(Sched)))
  /\ UNCHANGED <<task, current, pc>>

RunFirst ==
  /\ Idle("run")
  /\ active # <<>>
  /\ \/ ReadFails
     \/ /\ ~(queue[First].reading # None /\ is_out_of_input(Sched, First))
        /\ RunLine \/ RunBackground \/ NothingToRun
  /\ UNCHANGED <<waiting, shandle, users>>

NoneActive ==
  /\ Idle("run")
  /\ active = <<>>
  /\ Becomes(FreeUnused(Sched))
  /\ pc' = At("cleanup", None, Open)
  /\ UNCHANGED <<waiting, task, current, shandle, users>>

\* Mutant: the seconds are not counted and the queue stays the first one.
TaskDoneInPlace(seconds) ==
  /\ Idle("task")
  /\ Becomes(FreeUnused(Sched))
  /\ pc' = At("cleanup", None, Open)
  /\ UNCHANGED <<waiting, task, current, shandle, users>>

\* The task has taken some seconds, which its queue has used.
TaskDone(seconds) ==
  /\ Idle("task")
  /\ LET S == [queue  |-> [queue EXCEPT ![First].usage = @ + seconds],
               active |-> Tail(active)]
     IN Becomes(FreeUnused(Rebased(activate_tqueue(S, First))))
  /\ pc' = At("cleanup", None, Open)
  /\ UNCHANGED <<waiting, task, current, shandle, users>>

\* do_command_task(): unless #0:do_command() has done it all, the command's
\* verb runs next.
CommandVerb ==
  /\ Idle("command")
  /\ \/ StartCode(Loop("task"))
     \/ pc' = Loop("task") /\ UNCHANGED <<task, current>>
  /\ UNCHANGED <<queue, active, waiting, shandle, users>>

\* do_login_task(), when #0:do_login_command() has returned: no player ...
NoLogin ==
  /\ Idle("login")
  /\ pc' = Loop("task")
  /\ UNCHANGED <<queue, active, waiting, task, current, shandle, users>>

\* Mutant: the other connection is kept.
ConnectedBoth(h, existing_h, new_id, redirect) ==
  [shandle EXCEPT ![h].player = new_id, ![h].logged_in = TRUE,
                  ![h].disconnect_me = @ \/ redirect]

\* ... or new_id, who may have another connection: player_connected().
ConnectedShandle(h, existing_h, new_id, redirect) ==
  [c \in Conn |->
     CASE c = existing_h -> Gone
       [] c = h -> [shandle[h] EXCEPT !.player = new_id, !.logged_in = TRUE,
                                      !.disconnect_me = @ \/ redirect]
       [] OTHER -> shandle[c]]

Login(new_id) ==
  LET existing_h == find_shandle(new_id)
      new_h      == find_shandle(queue[First].player)
      S          == LoginQueue(Sched, First, new_id)
  IN /\ Idle("login")
     /\ queue[First].connected
     /\ new_id \in users
     /\ queue[First].num_bg_tasks > 0 => InUse(Sched) # Slot
     /\ Becomes(IF existing_h = None THEN S
                ELSE free_task_queue(S, shandle[existing_h].tasks))
     /\ \E same \in SameListener :
          LET redirect == existing_h # None /\ ~same
          IN /\ shandle' = ConnectedShandle(new_h, existing_h, new_id, redirect)
             /\ StartCode(IF redirect THEN At("redirecting", new_h, {})
                          ELSE Loop("task"))
     /\ UNCHANGED <<waiting, users>>

\* #0:user_client_disconnected() is done for a connection that was handled by
\* another listener; the next is #0:user_connected().
Redirected ==
  /\ Idle("redirecting")
  /\ shandle' = [shandle EXCEPT ![pc.conn].disconnect_me = FALSE]
  /\ StartCode(Loop("task"))
  /\ UNCHANGED <<queue, active, waiting, users>>

-----------------------------------------------------------------------------
(* Getting rid of connections                                              *)

\* An un-logged-in connection may have been silent for too long.
MayTimeOut(c) == ~shandle[c].outbound /\ ~shandle[c].logged_in
Recycled(c)   == shandle[c].logged_in /\ shandle[c].player \notin users

\* Mutant: a connection has to be logged in to be closed by boot_player().
BootedLoggedIn(c) ==
  ~Recycled(c) /\ shandle[c].logged_in /\ shandle[c].disconnect_me

Booted(c) == ~Recycled(c) /\ shandle[c].disconnect_me

Cleanup(c) ==
  /\ Idle("cleanup")
  /\ c \in pc.todo
  /\ \/ /\ MayTimeOut(c) \/ Booted(c)
        /\ StartCode(At("leaving", c, pc.todo \ {c}))
        /\ UNCHANGED <<queue, active, shandle>>
     \/ /\ Recycled(c)
        /\ free_shandle(c)
        /\ pc' = At("cleanup", None, pc.todo \ {c})
        /\ UNCHANGED <<task, current>>
     \/ /\ ~Recycled(c) /\ ~Booted(c)
        /\ pc' = At("cleanup", None, pc.todo \ {c})
        /\ UNCHANGED <<queue, active, task, current, shandle>>
  /\ UNCHANGED <<waiting, users>>

\* #0:user_disconnected() is done.
Left ==
  /\ Idle("leaving")
  /\ free_shandle(pc.conn)
  /\ pc' = At("cleanup", None, pc.todo)
  /\ UNCHANGED <<waiting, task, current, users>>

NextIteration ==
  /\ Idle("cleanup")
  /\ pc.todo = {}
  /\ pc' = Loop("io")
  /\ UNCHANGED <<queue, active, waiting, task, current, shandle, users>>

-----------------------------------------------------------------------------
(* Built-in functions                                                      *)

Calls(name) == current # None /\ name \in Builtin

progr        == task[current].progr
is_wizard    == progr \in Wizard \cap users
Controls(o)  == is_wizard \/ progr = o

\* Code goes on in a verb of another owner, by a call or a return.
CallVerb(p) ==
  /\ Calls("call")
  /\ task' = [task EXCEPT ![current].progr = p]
  /\ UNCHANGED <<queue, active, waiting, current, shandle, pc, users>>

set_task_perms(o) ==
  /\ Calls("set_task_perms")
  /\ Controls(o)
  /\ task' = [task EXCEPT ![current].progr = o]
  /\ UNCHANGED <<queue, active, waiting, current, shandle, pc, users>>

\* The fork statement: enqueue_forked_task2().
Fork(delay) ==
  /\ Calls("fork")
  /\ check_user_task_limit(progr)
  /\ HasRoomFor(Sched, progr)
  /\ \E t \in Fresh :
       /\ task' = [task EXCEPT ![t] =
                     [kind |-> "TASK_FORKED", progr |-> progr, delay |-> delay]]
       /\ waiting' = PlaceInWaiting(t, delay)
  /\ Becomes(CountWaiting(Sched, progr))
  /\ UNCHANGED <<current, shandle, pc, users>>

\* enqueue_suspended_task(); a task is left for the server to go on with.
suspend(delay) ==
  /\ Calls("suspend")
  /\ Fresh # {}
  /\ check_user_task_limit(progr)
  /\ HasRoomFor(Sched, progr)
  /\ task' = [task EXCEPT ![current].delay = delay]
  /\ waiting' = PlaceInWaiting(current, delay)
  /\ Becomes(CountWaiting(Sched, progr))
  /\ Suspended
  /\ UNCHANGED <<shandle, users>>

MayRead(o) == is_wizard \/ (o \in users /\ progr = o)

\* make_reading_task()
read(o) ==
  LET q == find_tqueue(Sched, o)
      S == [Sched EXCEPT !.queue[q].reading = current]
  IN /\ Calls("read")
     /\ Fresh # {}
     /\ MayRead(o)
     /\ q # NoQueue
     /\ queue[q].reading = None /\ ~is_out_of_input(Sched, q)
     /\ Becomes(IF queue[q].input # <<>> THEN ensure_usage(S, q) ELSE S)
     /\ Suspended
     /\ UNCHANGED <<waiting, task, shandle, users>>

\* read(o, 1)
read_input_now(o) ==
  LET q == find_tqueue(Sched, o)
  IN /\ Calls("read_input_now")
     /\ MayRead(o)
     /\ q # NoQueue
     /\ LineAt(Sched, q, "DQ_INBAND") # 0
     /\ Becomes(dequeue_input_task(Sched, q, "DQ_INBAND"))
     /\ UNCHANGED <<waiting, task, current, shandle, pc, users>>

TakeFromWaiting(t) ==
  \E i \in DOMAIN waiting :
    waiting[i] = t /\ waiting' = RemoveAt(waiting, i)

\* Mutant: the task is still counted.
KillWaitingUncounted(t) ==
  /\ TakeFromWaiting(t)
  /\ Controls(task[t].progr)
  /\ UNCHANGED queue

\* kill_task() of another task, which waits, reads, or is ready.
KillWaiting(t) ==
  /\ TakeFromWaiting(t)
  /\ Controls(task[t].progr)
  /\ LET q == find_tqueue(Sched, task[t].progr)
     IN queue' = IF q = NoQueue THEN queue
                 ELSE [queue EXCEPT ![q].num_bg_tasks = @ - 1]

KillReading(t) ==
  \E q \in Slot :
    /\ queue[q].reading = t
    /\ Controls(queue[q].player)
    /\ queue' = [queue EXCEPT ![q].reading = None]
    /\ UNCHANGED waiting

KillReady(t) ==
  \E q \in ToSet(active) : \E i \in DOMAIN queue[q].bg :
    /\ queue[q].bg[i] = t
    /\ Controls(queue[q].player)
    /\ queue' = [queue EXCEPT ![q].bg = RemoveAt(@, i),
                              ![q].num_bg_tasks = @ - 1]
    /\ UNCHANGED waiting

kill_task(t) ==
  /\ Calls("kill_task")
  /\ t # current
  /\ KillWaiting(t) \/ KillReading(t) \/ KillReady(t)
  /\ task' = [task EXCEPT ![t] = NoTask]
  /\ UNCHANGED <<active, current, shandle, pc, users>>

\* do_resume()
resume(t) ==
  /\ Calls("resume")
  /\ TakeFromWaiting(t)
  /\ task[t].kind = "TASK_SUSPENDED"
  /\ Controls(task[t].progr)
  /\ task' = [task EXCEPT ![t].delay = 0]
  /\ Becomes(MakeReady(Sched, t))
  /\ UNCHANGED <<current, shandle, pc, users>>

force_input(o, line, at_front) ==
  LET S == create_tqueue(Sched, o)
      q == find_tqueue(S, o)
  IN /\ Calls("force_input")
     /\ Controls(o)
     /\ HasRoomFor(Sched, o)
     /\ Len(S.queue[q].input) < MaxInput
     /\ Becomes(enqueue_input_task(S, q, line, at_front))
     /\ UNCHANGED <<waiting, task, current, shandle, pc, users>>

bf_flush_input(o) ==
  LET S == create_tqueue(Sched, o)
  IN /\ Calls("flush_input")
     /\ Controls(o)
     /\ HasRoomFor(Sched, o)
     /\ Becomes(flush_input(S, find_tqueue(S, o)))
     /\ UNCHANGED <<waiting, task, current, shandle, pc, users>>

set_connection_option(c, value) ==
  LET q == shandle[c].tasks
  IN /\ current # None
     /\ c \in Open /\ ~shandle[c].disconnect_me
     /\ Controls(shandle[c].player)
     /\ \/ Calls("hold-input") /\ Becomes(set_hold_input(Sched, q, value))
        \/ Calls("disable-oob") /\ Becomes(set_disable_oob(Sched, q, value))
     /\ UNCHANGED <<waiting, task, current, shandle, pc, users>>

boot_player(c) ==
  /\ Calls("boot_player")
  /\ c \in Open
  /\ Controls(shandle[c].player)
  /\ shandle' = [shandle EXCEPT ![c].disconnect_me = TRUE, ![c].booted = TRUE]
  /\ UNCHANGED <<queue, active, waiting, task, current, pc, users>>

\* open_network_connection(); a listener may greet the connection.
open_network_connection(c) ==
  /\ Calls("open_network_connection")
  /\ is_wizard
  /\ \E greeted \in BOOLEAN : NewShandle(c, TRUE, greeted)
  /\ UNCHANGED <<waiting, task, current, pc, users>>

recycle(p) ==
  /\ Calls("recycle")
  /\ p \in users
  /\ Controls(p)
  /\ users' = users \ {p}
  /\ UNCHANGED <<queue, active, waiting, task, current, shandle, pc>>

-----------------------------------------------------------------------------

MainLoop ==
  \/ server_closed \/ WakeTasks \/ RunFirst \/ NoneActive
  \/ \E seconds \in 0..MaxUsage : TaskDone(seconds)
  \/ CommandVerb \/ NoLogin \/ Redirected
  \/ \E p \in Player : Login(p)
  \/ \E c \in Conn : Cleanup(c)
  \/ Left \/ NextIteration

Network ==
  \E c \in Conn :
    server_new_connection(c) \/ server_receive_line(c) \/ server_close(c)

Code ==
  \/ EndCode
  \/ \E p \in Player : CallVerb(p) \/ recycle(p)
  \/ \E o \in PermsTarget : set_task_perms(o)
  \/ \E d \in Delay : Fork(d) \/ suspend(d)
  \/ \E o \in Owner : read(o) \/ read_input_now(o) \/ bf_flush_input(o)
  \/ \E o \in Owner, line \in Line, at_front \in BOOLEAN :
       force_input(o, line, at_front)
  \/ \E t \in TaskId : kill_task(t) \/ resume(t)
  \/ \E c \in Conn : boot_player(c) \/ open_network_connection(c)
  \/ \E c \in Conn, value \in BOOLEAN : set_connection_option(c, value)

Next == MainLoop \/ Network \/ Code \/ Tick

Spec == Init /\ [][Next]_vars

\* The server goes on with its loop, and code ends because it has a limited
\* number of ticks and seconds.  A queue whose tasks run again and again is
\* sometimes running one when the second changes.
Fairness ==
  /\ WF_vars(MainLoop)
  /\ WF_vars(EndCode)
  /\ \A q \in Slot : SF_vars(active # <<>> /\ First = q /\ TaskDone(MaxUsage))

LiveSpec == Spec /\ Fairness

-----------------------------------------------------------------------------
(* Properties                                                              *)

WaitingFor(o) == {i \in DOMAIN waiting : task[waiting[i]].progr = o}

\* num_bg_tasks, which enqueue_waiting(), dequeue_bg_task(), kill_task() and
\* do_login_task() keep up to date each in its way, is the number of tasks
\* that are waiting or ready for the queue's player; and every such task is
\* counted in some queue, which is therefore not freed.  The ready tasks in a
\* queue are those of its player, although logins hand queues over from
\* connections to players; so kill_task() and do_resume() may check permission
\* against tq->player.
BgAccounting ==
  /\ \A q \in InUse(Sched) :
       queue[q].num_bg_tasks
         = Len(queue[q].bg) + Cardinality(WaitingFor(queue[q].player))
  /\ \A i \in DOMAIN waiting :
       find_tqueue(Sched, task[waiting[i]].progr) # NoQueue
  /\ \A q \in Slot : \A i \in DOMAIN queue[q].bg :
       task[queue[q].bg[i]].progr = queue[q].player

\* Nobody has more background tasks than $server_options.queued_task_limit.
QuotaHolds ==
  \A o \in Owner :
    Cardinality({t \in TaskId :
      /\ task[t].progr = o
      /\ t \in ToSet(waiting) \/ \E q \in Slot : t \in ToSet(queue[q].bg)})
    <= queued_task_limit

\* A queue with something to run is active: a background task, a line that
\* run_ready_tasks() would take, or a reader whose connection is out of
\* input.  run_ready_tasks() looks at no other queue.
RunnableIsActive ==
  \A q \in InUse(Sched) :
    \/ queue[q].bg # <<>>
    \/ LineAt(Sched, q, RunHow(Sched, q)) # 0
    \/ queue[q].reading # None /\ is_out_of_input(Sched, q)
    => q \in ToSet(active)

\* Every connection has a task queue of its own, which is connected and has
\* the same player, and every connected queue has such a connection.
\* server_resume_input() and player_connected() rely on it: they find the
\* shandle of a queue by its player, and crash if there is none.
HandleQueue ==
  /\ \A c \in Open :
       LET q == shandle[c].tasks
       IN q # NoQueue /\ queue[q].connected /\ queue[q].player = shandle[c].player
  /\ \A q \in Slot : queue[q].connected =>
       Cardinality({c \in Open : shandle[c].tasks = q}) = 1

\* No object has two queues, so that find_tqueue() finds the one with all its
\* tasks; only the queues that a login has emptied share the number #-1.
OneQueueEach ==
  \A q, r \in InUse(Sched) :
    q # r /\ queue[q].player = queue[r].player => queue[q].player = NOTHING

\* The tasks of each queue, and in row 0 those of no queue.
Row(q) == IF q = NoQueue THEN <<current>> \o waiting
          ELSE <<queue[q].reading>> \o queue[q].bg

Places(t) ==
  UNION {{q} \X {i \in DOMAIN Row(q) : Row(q)[i] = t} : q \in Slot \cup {NoQueue}}

\* A task that has not ended is in exactly one place: running, waiting, ready
\* in a queue, or reading.  A login, the end of a connection and the freeing
\* of queues neither lose a task nor double it.
TaskOnce ==
  \A t \in TaskId :
    Cardinality(Places(t)) = IF task[t].kind = None THEN 0 ELSE 1

\* The active queues are in the order of their usage, and the tasks in the
\* order of their time: run_ready_tasks() looks at the heads of both lists only.
InOrder ==
  /\ \A i, j \in DOMAIN active : i < j =>
       active[i] # active[j] /\ queue[active[i]].usage <= queue[active[j]].usage
  /\ \A i, j \in DOMAIN waiting : i < j =>
       task[waiting[i]].delay <= task[waiting[j]].delay
  /\ \A q \in Slot : queue[q].usage # NO_USAGE <=> q \in ToSet(active)

\* Whatever code does, the queue whose task it is stays at the head of the
\* active queues; run_ready_tasks() drops the head when the task is done.
HeadStays ==
  [][pc.at \in RunningPlace /\ pc'.at \in RunningPlace
       => active # <<>> /\ active' # <<>> /\ Head(active') = Head(active)]_vars

\* Every active queue gets its turn in run_ready_tasks(), however many lines
\* the others have.
TurnComes ==
  \A q \in Slot :
    q \in ToSet(active) ~> (q \in ToSet(active) => First = q /\ Idle("run"))

\* A task that reads from a connection that is closed is resumed, unless it is
\* killed before; it neither hangs nor goes away with the queue, which
\* run_ready_tasks() frees when it is idle.
ReaderAnswered ==
  \A t \in TaskId :
    (\E q \in Slot : queue[q].reading = t /\ ~queue[q].connected)
      ~> \/ current = t
         \/ task[t].kind = None
         \/ \E q \in Slot : queue[q].reading = t /\ queue[q].connected

\* A connection on which boot_player() has been called is closed, when all
\* listeners are of one object.  With two, player_connected() resets
\* disconnect_me after #0:user_client_disconnected() of a login that takes the
\* player over from a connection of the other, and a boot_player() before that
\* has no effect.
BootedIsClosed ==
  \A c \in Conn : shandle[c].booted ~> shandle[c].state = "gone"
=============================================================================
