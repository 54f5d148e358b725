# TLA+ models of the LambdaMOO server

This directory holds a formal model of the parts of the LambdaMOO server
(WAIF/Unicode variant) that keep state over time: TLA+ modules translated from
the C source, TLC configurations that check them on small instances, and proofs
that TLAPS checks for every value of the constants.  File names such as
`tasks.c` are those of the repository's root.

- [The system](#the-system) — its parts, their state, how they interact
- [Modules](#modules) — which module models what, and how it corresponds to code
- [Runs](#runs) — what TLC checks, the bounds and the fairness
- [Proofs](#proofs) — what is proved, and along which argument
- [Where code and documents differ](#where-code-and-documents-differ)
- [Not modelled](#not-modelled)
- [Plan](#plan)

To check an instance: `tlc -config ServerTasks.cfg MCServer`; to check the
proofs of a component: `tlapm CheckpointProofs.tla`, and likewise the other modules
whose names end in `Proofs`, `Theorems` or `Links`.  `PROJECT.json` lists the runs, the
theorems, the source lines of every definition, the hazards that the properties
are aimed at, and for every property a change of the code's model (a *mutant*)
that the property notices.

## The system

The server is one process with one thread.  `main_loop()` in `server.c` repeats:
start a checkpoint if one is requested, report the end of a checkpoint, let the
network bring connections and lines of input (for at most a second), run *one*
ready task, and get rid of connections that are to be closed.  What makes it hard
is not threads but the following.

- **MOO code runs inside everything.**  Logging in, closing a connection,
  checkpointing and recycling call verbs of the database, and a verb may call any
  built-in function, or suspend and leave the server to go on without it.  C code
  that reads a variable before such a call and uses it after it is exposed to all
  of them.
- **Signals and processes.**  Checkpoints are written by forked children that
  overlap each other and the shutdown dump; `SIGCHLD`, the timer and `USR1`/`USR2`
  interrupt the server anywhere.
- **Non-local control.**  Errors, returns, breaks and kills unwind a stack of
  activations through handlers, `finally` blocks and built-in functions that had
  called a verb and are continued; each may fail, suspend or return in its turn.
- **Clients in pieces.**  Reads and writes end anywhere, and the output to a slow
  client is thrown away at a limit.
- **Linked structures without names.**  Queues of input with a second list
  through them, values of properties in arrays whose layout depends on every
  ancestor, lists of children and contents through the objects.

| Component | State | Operations | Interacts with | What makes it right |
|---|---|---|---|---|
| Checkpointing (`server.c`, `db_file.c`) | `dump_generation`, `checkpoint_requested`, `checkpoint_finished`, the timer; files on disk; child processes | start a dump, write, remove and rename it; signal handlers; `dump_database()`, `shutdown()`; panic | timers, signals, MOO verbs `#0:checkpoint_started` and `#0:checkpoint_finished` | the dump's name never means a partial file; what was saved stays saved; each request and each child comes to an end and is reported |
| Input queue (`tasks.c`) | the list of lines of a `tqueue`, the itail list through it, total length, `input_suspended` | enqueue at either end, dequeue first / out-of-band / in-band, flush | network flow control | the two lists together are one sequence; a suspended connection is resumed |
| Task scheduler (`tasks.c`) | `active_tqueues`, `idle_tqueues`, `waiting_tasks`, per queue: ready tasks, reader, counts, usage | fork, suspend, read, resume, kill; wake, run one, log in | server main loop, interpreter | no task is lost or doubled; counts and quota; order; every active queue has its turn |
| Main loop and connections (`server.c`) | list of `shandle`s: player, queue, `disconnect_me`, times | new connection, line, close, login and take-over, boot, time-out | task scheduler, network, MOO hooks | connection and queue name each other; a booted connection closes |
| Properties (`db_properties.c`, `property.c`, `objects.c`) | per object: parent, owner, names defined here, unnamed array of values | create, recycle, chparent, add, delete, rename, set, clear | the object hierarchy, the interpreter | a value stays with its property whatever moves; arrays fit; searches end; recycle ends |
| Object table, containment (`db_objects.c`, `objects.c`) | object table, location / contents lists, `max_object` | create, move, recycle with its verbs, renumber | MOO verbs `:accept`, `:exitfunc`, `:recycle` | acyclic containment, lists agree with locations, nothing destroyed that is still in use |
| Verbs (`db_verbs.c`, `verbs.c`, `program.c`) | verb definitions per object, lookup cache, reference counts of Programs | add, delete, set code, look up, call, fork | hierarchy, interpreter | the cache answers what an uncached search would; no Program is freed under a task |
| Interpreter (`execute.c`, `eval_env.c`, `eval_vm.c`) | activation stack, run-time stack, ticks, seconds | opcodes, raise and unwind, call, suspend | everything | errors unwind to the right handler; limits hold |
| Network (`net_multi.c`, `net_*.c`) | per connection: output queue, input buffer | accept, read, write, flush, close | server | bytes in order, output bounded, flushed lines counted |
| Name lookup, timers (`name_lookup.c`, `timers.c`) | two child processes, list of timers | look up, restart, set, cancel | signals | a lookup never blocks for ever; timers go off in order |
| Values (`list.c`, `numbers.c`, `utf.c`, `pattern.c`, `waif.c`, `ref_count.c`, `str_intern.c`) | reference counts, interned strings, waif tables | pure functions, and sharing | everything | counts agree with references |
| Code generator (`code_gen.c`) | none between calls | expressions, statements, fixups and labels | interpreter | the code does what the text means, within the stack it asks for |
| Parser, decompiler (`parser.y`, `decompile.c`, `unparse.c`, `disassemble.c`) | none between calls | parse, decompile | verbs, database files | decompiling gives the program back |
| Database files (`db_io.c`, `db_file.c`) | none between calls | read and write | checkpointing | reading gives back what was written |

## Modules

| Module | Models | Extends / instantiates |
|---|---|---|
| `Checkpoint` | dumps, signals, the checkpoint part of the main loop | — |
| `CheckpointProofs` | theorems about it | `Checkpoint` |
| `Sums` | the sum of the values of a function, as a recursive function | — |
| `SumTheorems` | induction over the naturals, least elements, facts about sums | `Sums` |
| `InputLine` | kinds of lines, and which line each way of dequeuing takes | — |
| `InputQueueSpec` | what an input queue promises: a sequence of lines | `InputLine` |
| `InputQueue` | the linked lists of `tasks.c` | `InputLine`, `Sums`; instantiates `InputQueueSpec` |
| `InputQueueProofs` | lemmas on linked lists and on runs of lines; theorems about the input queue, the refinement included | `InputQueue`, `SumTheorems` |
| `Tasks` | the task queues as operators on a state of the scheduler | `InputLine` |
| `Server` | main loop, connections, built-in functions, composed with `Tasks` | `Tasks` |
| `ServerProofs` | theorems about queues, connections and tasks | `Server`, `SumTheorems` |
| `Inheritance` | the object hierarchy | — |
| `PropertySpec` | what the property functions promise: a value for each name | `Inheritance` |
| `Properties` | the value arrays of `db_properties.c` | `Inheritance` |
| `PropertiesByName` | the arrays read by name, the refinement mapping | `Properties`; instantiates `PropertySpec` |
| `PropertiesProofs` | the arrays fit, searches for values and `recycle()` end, and the refinement | `PropertiesByName`, `SumTheorems` |
| `Objects` | the object table, its linked lists, `move()`, `recycle()`, `renumber()` | — |
| `ObjectsProofs` | the lists, the hierarchies and the players stay right | `Objects`, `SumTheorems` |
| `Verbs` | verbs, the lookup cache, Programs and who holds them | `Inheritance` |
| `VerbProofs` | the cache never shows; reference counts of Programs are right | `Verbs`, `SumTheorems` |
| `Network` | one connection of `net_multi.c` and its client | `Sums` |
| `NetworkProofs` | theorems about its output | `Network`, `SumTheorems` |
| `Values` | MOO values and the operations on them | — |
| `Language` | what a MOO program means: the reference for the next two | `Values` |
| `CodeGen` | `code_gen.c`: from the syntax tree to vectors of bytes | `Values` |
| `Interpreter` | `run()`, `unwind_stack()` and the life of a task in `execute.c` | `Language`, `CodeGen` |
| `MC...` | instances for TLC | |

**Checkpoint.**  A generation number names a dump, its temporary file and the
contents of that file.  Directory entries (`temp_db`, `dump_db`) are separate from
contents (`complete`), because a child goes on writing a file whose name another
process has removed.  The steps of `dump_database()` — open, write and flush,
`remove()`, `rename()` — are actions, taken by a child or, for the shutdown dump
and with `UNFORKED_CHECKPOINTS`, by the server.  `server` is the place in
`main_loop()`; the two calls of hooks are places of their own, so that signals and
built-in functions interleave with them.  The `SIGCHLD` handler is three actions
and its uninitialised `status` a nondeterministic result.  `UNFORKED_CHECKPOINTS`
is a variable that no step changes, so that one instance covers the builds of the
constant `Builds`; the constant `FlushMayFail` says whether the unchecked `fflush()`, `fsync()` or
`fclose()` may fail.

**InputQueue.**  A pointer to a pointer (`last_input`, `last_itail`, `pt`) is the
number of the task whose field it points to, 0 for the field in the `tqueue`.  The
abstract `InputQueueSpec` has one sequence and nothing else; the refinement
mapping follows the `next` pointers (`Chain`, a recursive function with fuel, so that it
is defined for links that go round in a circle too).

**Tasks and Server.**  Each function of `tasks.c` on queues is an operator from a
state `[queue, active]` to the next, because the handlers call several in a row;
the actions of `Server` are whole handlers.  `pc` is what `main_loop()` is doing
and, while MOO code runs, where the server goes on when the code ends or
suspends.  MOO code is nondeterministic: it may call any built-in of the constant
`Builtin`, in any order, and end.  Times are relative: a waiting task has the
seconds that are left, and the usage of a queue is what it has used beyond the
first active queue, which is all that `activate_tqueue()` compares.  Lines are
represented by their kind only; the links of the input queue are the business of
`InputQueue`.

**Properties.**  A state of the database is a record of parents, defined names and
value arrays, and each function of `db_properties.c` an operator on it, because
`recycle()` calls `db_change_parent()` once for every child.  Recursion down the
hierarchy is written as a function on the objects at or below the first.  A value
is a member of `Value` or `Clear` (`TYPE_CLEAR`), permissions are reduced to
`PF_CHOWN`, the only one that changes what is stored.  `PropertySpec` says the same
by name: which slot each object has for which property, and what each built-in
may do to it.  `PropertiesByName` adds a variable `slot` that always has the value of
`Named`, a function of the arrays and the names, and maps it to the slots of `PropertySpec`.

**Objects.**  An object is a record of the links that the code keeps in it; both
hierarchies are there twice, as links upwards and as lists through the objects, and
`LL_REMOVE` and `LL_APPEND` are operators on the table.  `move()` and `recycle()` call
verbs in the middle of their work, and a verb may do or suspend anything: a call that
waits keeps only the numbers that the code keeps (`call`), every other built-in may
happen before it goes on, and it may never go on.  `panicked` is set where
`db_destroy_object()` or `db_renumber_object()` would call `panic()`.  The module has
its own hierarchy instead of that of `Inheritance`, because there the lists of
children are what is trusted and here they are what is checked.

**Verbs.**  A `Verbdef` is an identity with names, the x bit and a Program, and the
cache a partial function from the first ancestor with verbs and a name to a handle
or to "no such verb".  Every function that empties the cache, or does not, is an
action.  `ref_count` is moved by the actions as the code moves it, and compared
with the holders: verbs, activations, and forked tasks until `free_task()`.  Tasks
call, pass, eval, fork, return and are killed in any order; what their code does
is left open.

**Network.**  A function of `net_multi.c` is a step, but each `write()` inside
`push_output()` is one of its own: the client takes all, a part or nothing, or is
gone.  `pc` says which of its three callers `push_output()` returns to.  Bytes are
members of a small set with one character of two bytes, so that `get_utf()` and
`clearance_utf()` are modelled by what they do; backspaces are applied (as
`INPUT_APPLY_BACKSPACE` does).

**Values, Language, CodeGen, Interpreter.**  `CodeGen` follows `code_gen.c` function
by function on a record that is the generator's state; `Base` takes the place of
256, so that programs of a few lines have operands of two bytes.  `Interpreter`
executes the bytes, one action for each instruction or group of like ones, with the
run-time stack holding markers (`CATCH`, `FINALLY`) as the code's does.
`unwind_stack()` is one step for each activation.  The built-in function `ext` stands
for those that return, fail, suspend or kill the task, and `apply` for those that call
a verb, are continued when it ends, and may then do any of these or call once more.  A
`fork` asks the scheduler and may be refused (`E_QUOTA`).  Answers of a built-in that is
continued are the constant `Continuations`: a suspension that is refused there sends
`unwind_stack()` to a wild address (`execute.c:317-321`); it is an arm of `unwind_bi_func`, and is left out
of the instance because no built-in of the server suspends when it is continued.  `Language` says over the syntax tree what the program
means, with neither stack nor labels: the calls it makes, given the answers, and how
each task ends.  It is written from the rules of the language as the code generator's
input, not from the instructions, and is what the other two are compared with.

## Runs

| Run | Instance | Shows |
|---|---|---|
| `checkpoint` | 3 generations, 1 change, both builds | no partial dump, the newest dump keeps its file, the timer is never lost; requests are served, dumps end, children are reaped and their results come to the main loop; in-line checkpoints: what was saved stays on disk, and a successful shutdown leaves the final database |
| `input_queue` | 4 tasks, lengths 0 and 2, mark 3 | both lists behave as one sequence; a suspended connection has input that will resume it |
| `server_tasks` | 2 connections, 3 tasks, 3 queues, limit 1 | tasks and counts through logins, take-overs, kills and permission changes |
| `server_input` | 1 connection, 3 tasks, 2 lines of two kinds | whatever options, readers and forced input do, a queue with something to run is active |
| `server_progress` | 2 connections, 2 tasks, usage 0–1 | connection and queue name each other; turns, readers and booted connections come to their end |
| `properties` | 4 objects, 2 names | every array fits the names; the arrays implement values by name; searches end; recycling ends |
| `objects` | 4 numbers, 1 waiting call, 2 places | lists match links, nothing is inside itself, no panic, players are listed, whatever verbs do in the middle of `move()` and `recycle()` |
| `verb_cache` | 3 objects, 2 names, 2 verbs, 2 programs, 2 tasks | the cache is transparent, Programs are held by all who use them |
| `network` | limit of 3 bytes, 5 blocks of 0 to 4 bytes, 5 typed bytes | output stays bounded, losses are reported exactly, input does not depend on how it is cut |
| `interpreter` | 538 programs, 4 calls of built-ins, 30 ticks, 3 activations | code and interpreter do what the text means; the stack fits; every task ends, or is in a loop that tests no ticks |
| `checkpoint_shutdown_lost` | 3 generations, 1 change | statements that the code does not keep, see [below](#where-code-and-documents-differ) |
| `interpreter_report` | a call in a `try` with a call in its `finally` | |

**Why the bounds are enough.**

- *Checkpoint*: three generations are two overlapping children and the shutdown
  dump (the last generation is kept for it).  One change of the database tells a
  stale dump from a current one.  Without children they are two checkpoints and the
  shutdown dump, or a checkpoint, a shutdown dump that fails and its retry.
- *Input queue*: four tasks are the longest pattern of runs in which a removal
  joins two runs and leaves a third behind it.  Length 0 is the line that
  `server_new_connection()` queues; length 2 with the marks 3 and 1 crosses both.
  The three in-band kinds are linked alike, so one stands for them.
- *Server*: two connections and one player are what a take-over needs; three
  queues are those of the two connections and of the number that a login moves
  background tasks to; three tasks are one that runs, one that waits and one that
  reads.  The player is a wizard, so that permission checks refuse nothing that
  they might have allowed; `Controls` and `MayRead` are still modelled and refuse
  after `recycle()` and `set_task_perms()`.  A queued-task limit of 1 is reached.
  The bounds `MaxQueues`, `MaxInput`, `MaxUsage` and the finite `TaskId` are in the
  guards; the code has no such limits.  Built-ins that have nothing to do with what
  a run asks are left out of its `Builtin`; every one is in some run.
- *Properties*: four objects are a common ancestor, the old parent, the new parent
  and the object that moves, or a chain with a child; two names tell a shifted
  array from a right one.  `MaxSet` bounds how many values have an owner that does
  not follow the object's.
- *Objects*: four numbers are the least with a list that has an element in its
  middle, and two places the least that can be moved into each other.  `Fertile` and
  `Person` name one number each, but `renumber()` gives those objects other numbers,
  which makes grandparents and several players.  One call waits at a time; calls that
  find no verb happen meanwhile, `recycle()` of the same object included.

- *Verbs*: three objects are a hierarchy with an object without verbs in the
  middle, which is where the key of the cache moves.  Verbs, Programs, cache entries,
  activations and forked tasks share the bound `MaxItems`, so that each can be many
  while the others are few.
- *Network*: a limit of 3 with blocks of 1 and 2 is crossed with two or three blocks
  in the queue and a part of the first one written, and a block of 4 is longer than
  the limit; empty blocks, which `notify()` sends to a connection in binary mode, count
  as blocks and take no room.  Five blocks are enough to lose some, fail to say so, and lose more.  A client either types or is sent
  output, but for one byte with one block, because the directions meet only in the closing of the handle.
- *Interpreter*: every statement around every statement around eight leaves (calls,
  returns, breaks and continues with and without a name), and programs for each kind of
  expression, with and without the d bit.  Four calls of built-ins reach an error
  inside a handler inside a handler; with `Base` 16 labels, variables and literals have
  two bytes in some programs and one in others.  A task is killed by the timer at any
  tick, and by its 30 ticks in an endless loop.  Below 0 ticks all counts are alike to
  the code, so the counter stops there.

Connections, task numbers, objects and names are interchangeable and declared
symmetric in the runs without liveness.

`RunnableIsActive` is checked with `PermsTarget = {}`: once a task has the
permissions of an un-logged-in connection, a login breaks it.  `server_progress` is
checked with one listener, because `BootedIsClosed` fails with two; `server_tasks` takes over connections from another listener.
`InputAsTyped` does not speak of input in which a read ended within a character.
`CheckpointEnds` does not speak of a result that comes in while
`#0:checkpoint_finished()` runs for another one, and `RunsAsWritten` and `TasksEnd` name
the three cases in which `execute.c` does otherwise: `*result` after `EOP_CONTINUE`, the
report of an error whose `finally` block has suspended the task, and the named loop
without a tested instruction.  Each of these exceptions is described
[below](#where-code-and-documents-differ).

Deadlock is checked except in the checkpoint runs, where the server really exits, in
`objects` and `verb_cache`, where the numbers may be used up, in `network`, where a
handle is closed for good, and in `interpreter`, where all tasks end.

**Fairness.**  `Checkpoint`: weak fairness of every process and of the delivery of
a pending signal, which the operating system gives; MOO hooks end because the
interpreter limits ticks and seconds, which a database can defeat only by the loop
named under the known defects.  Nothing is assumed of the checkpoint timer
or of who asks for checkpoints.  `Server`: weak fairness of the main loop as a
whole and of the end of running code (again the tick limit), none of the network
or of built-in functions.  The strong fairness in `Server` is about the clock:
`run_ready_tasks()` charges a task the whole seconds that `time()` has advanced
while it ran, so a queue whose tasks run again and again is charged now and then.
So `TurnComes` says nothing of tasks that cost no time: if none ever spans a change of the second, it still holds among queues of
equal usage, which take turns, but a queue that has used a second more waits.
`Interpreter`: weak fairness of the next step, because `run()` does not stop by
itself and suspended and forked tasks are run by the scheduler.

## Proofs

Every theorem holds for every value of the constants that the module's assumptions
allow; the bounds of the runs are not assumed.

| Module | Theorem | Assumes | States |
|---|---|---|---|
| `CheckpointProofs` | `TypeCorrect` | — | `Spec => []TypeOK` |
| | `DumpComplete` | `~FlushMayFail` | `Spec => []DumpIsComplete`: in either build the dump's name never means a partial database |
| | `NewestIsKept` | — | `Spec => []NewestKeepsItsFile` |
| | `CheckpointStaysScheduled` | — | `Spec => []CheckpointScheduled` |
| | `SavedIsDurable` | `~FlushMayFail` | `Spec => []DurableDump`, a statement on the build with `UNFORKED_CHECKPOINTS` |
| | `ShutdownIsSaved` | `~FlushMayFail` | `Spec => []UnforkedShutdownSaves` |
| `InputQueueProofs` | `TypeCorrect` | — | `Spec => []TypeOK`: no pointer leaves the tasks, no length becomes negative |
| | `ItailsStayInOrder` | — | `Spec => []ItailQueue` |
| | `SuspendedIsServed` | — | `Spec => []SuspendedHasInput` |
| | `Refinement` | — | `Spec => RefinesSpec`: the two linked lists implement one sequence |
| `NetworkProofs` | `OutputStaysBounded` | — | `Spec => []OutputIsBounded` |
| | `LossStaysReported` | — | `Spec => []LossIsReported` |
| `VerbProofs` | `CacheStaysTransparent` | — | `Spec => []CacheIsTransparent` |
| | `ProgramsStayHeld` | — | `Spec => []ProgramsAreHeld` |
| `PropertiesProofs` | `ArraysStayFit` | — | `Spec => [](TypeOK /\ ArraysFit)` |
| | `RecyclingEnds` | — | `Spec => []RecycleEnds` |
| | `ValuesFound` | — | `Spec => []ValueFound` |
| | `Refinement` | — | `NamedSpec => RefinesSpec`: the arrays, read by name, implement `PropertySpec` |
| `ObjectsProofs` | `TableTyped` | — | `Spec => []TypeOK` |
| | `ListsStayRight` | — | `Spec => []ListsAgree` |
| | `NoLoops` | — | `Spec => []Acyclic` |
| | `TableNeverPanics` | — | `Spec => []NeverPanics` |
| | `PlayersListed` | — | `Spec => []UsersListed` |
| `ServerProofs` | `Consistent` | — | `Spec => []IInv`, from which the next ones follow |
| | `TypesHold` | — | `Spec => []ServerTypeOK`: `num_bg_tasks` is never below 0 |
| | `OneQueuePerPlayer` | — | `Spec => []OneQueueEach` |
| | `HandlesHaveQueues` | — | `Spec => []HandleQueue` |
| | `TasksAreCounted` | — | `Spec => []BgAccounting` |
| | `QuotaStaysHeld` | — | `Spec => []QuotaHolds` |
| | `NoTaskIsLost` | — | `Spec => []TaskOnce` |
| | `ListsStayInOrder` | — | `Spec => []InOrder` |
| | `HeadIsKept` | — | `Spec => HeadStays`, an action property |
| | `RunnableAreActive` | `PermsTarget \subseteq Player` | `Spec => []RunnableIsActive` |

Assumptions on constants are in the modules that declare them, and TLC evaluates them:
bounds and lengths are naturals, marks are positive, the object table has room for at
least one object, no object has the number `#-1`, `TYPE_CLEAR` is no value of its own, new
objects and properties have an owner, no Program is the null program, the null pointer is no
task, and players and connections have different numbers, none of them `#-1`, which
`set_task_perms()` is not given either (see the defect at `tasks.c:771`).  Sets of tasks,
connections and Programs need not be finite; where something is counted, finiteness of what is counted
is part of the invariant.

*DumpComplete.*  The invariant alone is not inductive: a `rename()` makes any
temporary file the dump.  `CompleteInv` adds that a dump past its write step has
complete contents (`WrittenBeforeRenamed`).  Contents never become incomplete
again, because no two dumps share a generation.

*NewestIsKept, CheckpointStaysScheduled.*  Both are inductive together with `TypeOK`.
The first rests on a dump removing the temporary file of its predecessor and of no other,
and on generations that only grow.

*SavedIsDurable, ShutdownIsSaved.*  Without children at most one dump works at a
time, it is the newest generation, and it still has its temporary file
(`OneDumpAtATime`).  `UnforkedInv` also says that snapshots grow with generations
(`SnapshotsInOrder`), that the dump is no older than any saved database except between
`remove()` and `rename()`, when the newest temporary file is (`LastSuccessOnDisk`), and
that nothing changes the database once the shutdown dump has begun
(`FinalSnapshot`).  Neither in-line checkpoints
nor the assumption can be left out: TLC finds a counterexample without either (with children it is finding
`checkpoint_shutdown_lost`; with `FlushMayFail = TRUE`, `DumpIsComplete` fails
because the results of `fflush()`, `fsync()` and `fclose()` at `db_file.c:621` are
not looked at).

*Input queue.*  `ItailQueue` speaks of what is found by following pointers, and says
nothing that a step could use.  `QueueInv` turns it round: there *are* a sequence `s` of
`n` tasks and a sequence `e` of the places where the `m` runs end, such that `next`
links the tasks in the order of `s` (`Queue`), `next_itail` links those at the places
`e`, and a place is in `e` exactly if the kind changes behind it (`Runs`); the total
length is the sum over `s`.  Every operation is shown to lead from such sequences to
others: a task more at one end, which may lengthen a run or begin one, or a task less
at a place, where two runs may become one.  That the pointers then give `s` and the ends
of its runs is a lemma on `Chain`, by induction on the length.  The refinement comes from
the same facts: `s` is the abstract sequence, and each action of `InputQueue` is the
action of `InputQueueSpec` of the same name or leaves the sequence alone.

*Network.*  `OutputIsBounded` is inductive with the types of the queue (`OutputInv`); the
work is in `flush_output()`, which frees blocks from the front until there is room: what
is left is a tail of the queue and its length the difference of two sums.  A queue above the
limit has one block that is as long as all together, so the others are empty, and it stays that
way while the client takes that block in parts.
`LossIsReported` speaks of what the client has got.  `LossInv` adds where the other blocks
are: the queue holds the last ones in order, and each earlier block is on the wire, or
counted in a notice on the wire, or counted in `output_lines_flushed`.  Block after
notice is the order in which `push_output()` writes, so when a block arrives the last
count is zero.

*The verb cache.*  `Inv` has three parts.  `HierarchyInv`: the objects have heights
that fall from child to parent, which is how a loop is excluded, and what every induction
along a search runs over.  `VerbsInv`: no Verbdef is in two lists, so that deleting one
leaves the other lists alone.  `CacheInv`: an entry is under an object that has verbs, or
under none at all, and is what a search from its own key would find.  The last is stronger than
`CacheIsTransparent`, which says nothing of entries that no object leads to *now* but
may lead to after `chparent()`.  A search from an object and from its first ancestor with
verbs agree, so `CacheInv` implies transparency.  Most changes empty the cache and have
to show only the first two parts.  Three do not: `create()` and `chparent()` of an object
without verbs and children, where no search from a key passes through the object, and
`set_verb_code()`, which changes nothing that a search looks at.

*Programs.*  `ProgramsAreHeld` is inductive once the three sets of holders are finite
(`Held`), stacks are no deeper than `MaxFrames`, and a forked task that has not started has
no activations (`TasksInv`); otherwise `do_forked_task()` would drop some without
`free_program()`.  Nearly every step changes one set at one point.  `recycle()` takes as many
holders away as it frees references because, by `VerbsInv`, a Verbdef is in its list once.

*Properties.*  `RecycleEnds` is about names, `ValueFound` about values, and both about
the places in arrays that other operations have shifted.  The inductive invariant `Inv` has two
parts.  `Hierarchy`: there are heights as above, and no name is defined twice on the way up from an
object (`Apart`) or on the object itself.  `Arrays`: each array is as long as the object's
names, and an object's own values, which come first, are not clear.  The names of an object at or below
another one end with the other's (`LaySuffix`); so when the parent changes, the names of everything below are
`s \o X \o Z` before and `s \o Y \o Z` after, where `Z` belongs to the nearest common
ancestor, and `fix_props()`, which recurses over arrays that it has just fixed, gives each array
the values that go with that (`FixedIs`, `FixAfterChparent`).  A new, deleted or renamed property changes
one place of `s \o` the names of its object (`RedefineLay`, `LevelIs`).  `recycle()` folds
`db_change_parent()` over the children; by induction the children moved so far are their grandparent's
and the rest can still be moved (`KidsKeepValues`), because a name that `RecycleEnds` would stumble on would be
there twice on the way up from the descendant that defines it (`GrandparentFits`).

The refinement reads the same facts by name.  `Spread` is an array as a function of the
names that go with it; since no object knows a name twice (`LayOnce`), which follows from `Apart`,
a place and a name say the same.  Each operator has one lemma that says what it does by name:
`SlotsMoved` for a change of parent (what has the same definer stays, the rest is inherited anew),
`SlotsWithout` for `recycle()`, `SlotsMore`, `SlotsLess`, `SlotsRenamed` and `SlotsSet` for a new,
deleted, renamed or assigned property.  `recycle()` is the long one: the abstract step is
one, the code's is a change of parent per child and one for the object itself, and by
induction each of them only takes away what the object defines (`Loses`).  The lemmas `...Shown` turn these into
steps of `PropertySpec`, with `Inv` before the step; `chparent()` to the same parent,
and every built-in that is refused, is a step that changes nothing there.

*The object table.*  `ListsAgree` and `Acyclic` speak of what is found by following links.
The inductive invariant `Inv` says instead what the links are.  `Hier`: each object *has* a
sequence without repetition, its list, of exactly the objects whose up link it is, and
the list and next links follow that sequence (`Chain`).  `Ranked`: there is a height
that falls from every object to its parent, and one for locations.  With `UsersListed` and "no panic" these
are kept by every action.  `LL_REMOVE` and `LL_APPEND` are proved once for a list (`RemoveKeeps`,
`AppendKeeps`) and give `db_change_parent()` and `db_change_location()`.  The loops that empty an
object out and orphan it are inductions on how many members have been moved (`Moves`).  A height for the
changed hierarchy exists because the new parent or place is not at or below the object, which is what
the search `Around` decides when the hierarchy is ranked (`AroundIs`); without loops to begin
with, the search ends.  `renumber()` renames one number in all links at once
(`RelinkIs`), so sequences and heights are renamed too (`RenamedHier`).  A `move()` or
`recycle()` that a verb interrupts rests on nothing from before the verb: the part of the action
behind the verb looks at the table again, and the invariant holds there whatever the verb has done.

*Server.*  The invariants of the server need each other, so there is one inductive
invariant, `IInv`, in five parts.  `QInv`: active queues are sorted by usage and are those
that have one, a number has one queue, a free slot is empty, and a queue with a reader and
something for it to read is active.  `HInv`: open connections and connected queues are
paired and have the same player, who is the connection itself until the login.  `PInv`:
the connections that the main loop has still to visit are open, while MOO code runs some
queue is active, and a login is of the first of them.  `TInv`: there *is* a function
that says where each task is, and the task is there and nowhere else.  `BInv`: each queue
counts its ready tasks and the waiting ones of its player, each waiting task has a queue,
ready tasks are their queue's player's, and no count is above the limit.

How they lean on each other: `run_ready_tasks()` wakes a task into the queue that
`find_tqueue()` gives, which is the one that counts it because a number has one queue
(`QInv`) and every waiting task has one (`BInv`); without the second, a new queue would
get a task that it has not counted.  `free_tqueue()` may not free a queue that a waiting
task is counted in, and does not, because its count is then not zero.  A login hands the
tasks of a connection to a new queue and takes over those of the player's old queue; that
it loses none is `TInv`, that the old queue's connection goes with it is `HInv`, and that
the login is still for the queue that was dequeued is `PInv`.

Operators on the scheduler (`ensure_usage()`, `create_tqueue()`, `enqueue_input_task()`
and so on) have a lemma each that says which fields of which queue they change; steps are
proved from these.  `Woken` is by induction on how many tasks are due: after each,
the invariant holds with the rest still waiting.  `BgAccounting`, `QuotaHolds` and `TaskOnce`
then count what `IInv` only locates.  `InOrder` also needs that waiting tasks are in the
order of their delays, which is inductive with `IInv`: time takes a second from all that
have one left.  `HeadStays` holds because `activate_tqueue()` puts a queue behind those
with the same usage, and `ensure_usage()` gives one that
becomes active the usage of the head.

`RunnableIsActive` is inductive with `IInv` and with "no task has the permissions of a
connection" (`Owners`).  Each operator has a lemma `...Rouses`: active queues stay active,
and a queue that now has something to run had it before or is active.  Only
`run_ready_tasks()` takes a queue off the list, when it has neither a ready task nor a line
to take.  A login is where `Owners` is needed: with it the connection's queue counts no
task, so none moves to a queue that is not activated.  The theorem assumes of the constants
what the code needs for the property to be true; the
[defects](#where-code-and-documents-differ) say what happens otherwise.

*Method.*  The provers cannot instantiate the library's induction theorems.
`SumTheorems` proves `NatInd`, induction in the form "a set of naturals that has 0 and
successors has all", from the library's least-element principle, and every induction in
the proofs is about such a set.  Each strengthened invariant was an invariant of a TLC
run before it was proved.

**Model-checked only.**  All liveness properties (they need fairness and `ENABLED`).
`InputAsTyped` of `Network`, which compares with folds over the bytes of the whole input,
and every statement on `Interpreter`, which compares with recursive operators over syntax
trees (`Language`, `CodeGen`), which the prover cannot read.

## Where code and documents differ

Each of these is a run in which TLC finds the statement of a document violated:

- `checkpoint_shutdown_lost`: `db.h` says that `db_shutdown()` returns when all
  changes have been flushed to disk, but a checkpoint child that is still at work afterwards removes
  or replaces it with its older one.
- `interpreter_report`: `ChangeLog.txt` promises `#0:handle_uncaught_error()` for every
  error that is not caught.  `run_interpreter()` clears `handler_verb_name` when it resumes
  a task, so an error whose `finally` block suspends the task is not reported.

The quotations are in `PROJECT.json`.

**Known defects** that no run checks, seen while modelling (each was a
counterexample of TLC before the property was narrowed, unless marked *read*):

- `server.c:467`: `main_loop()` clears `checkpoint_finished` *after* it has called
  `#0:checkpoint_finished()`, and with it the result of a child that ended meanwhile.
  `ChangeLog.txt:665-668` promises the call "whenever the dump finishes".
- `server.c:1081`: `player_connected()` uses `disconnect_me` for itself while
  `#0:user_client_disconnected()` runs for the listener of the old connection, and then
  resets it; a `boot_player()` before that has no effect.  `ChangeLog.txt:638-640` says that
  the player is disconnected after the task that called it.
- `execute.c:2044`: the comment at line 725 says that `*result` is the value returned
  when the outcome is `OUTCOME_DONE`.  `EOP_CONTINUE` passes a return on without setting
  it, so a first activation that returns through a `finally` block leaves the caller's
  variable as it was.  `RunsAsWritten` says so.
- `execute.c:1830`: `options.h:73-75` says that ticks limit the operations of any task.
  `while x (1) endwhile` consists of instructions that do not test them, nor the
  time-out, and never ends; the server is then stuck.  `TasksEnd` allows this loop (`FreeRound`)
  and the instance has it.
- `tasks.c:756`: `do_login_task()` puts the ready tasks of an un-logged-in
  connection on an idle queue and activates nothing; they stop until the queue becomes
  active for another reason, and `queued_tasks()` does not list them while
  `queue_info()` counts them (`ChangeLog.txt:1030` says that the numbers agree).
- `tasks.c:771`: a queue that a login has taken the tasks from gets the player `#-1`, and
  wizards may call `set_task_perms(#-1)` (`execute.c:2825`).  Tasks with these permissions are
  counted in whichever of the dead queues `find_tqueue()` meets first, which is not the same
  one later, so that `num_bg_tasks` (`tasks.c:147`) no longer says what its comment says
  and can fall below 0, when the queue is never freed (*read*; the assumption on
  `PermsTarget` leaves it out, because every invariant of the queues presupposes that a number has one queue).
- `execute.c:318`: a built-in function that asks to suspend when it is continued, while
  the task quota is used up, makes `unwind_stack()` take the bare error for the address of
  a list (no built-in does so now).
- `execute.c:491`: `handler_verb_name` is set when an uncaught error starts to unwind and is
  not cleared when a `finally` block gets rid of the error by `break` or `return`; if the
  task is killed later, `#0:handle_uncaught_error()` is called for that error (*read*).
- `db_file.c:621`: the results of `fflush()`, `fsync()` and `fclose()` are not looked at,
  so with a full disk an incomplete file may become the dump.
- `net_multi.c:282`: bytes carried over from the last read are put in front of the
  buffer, but the loop stops after as many bytes as the new read gave: the last ones
  are lost, or treated as the incomplete character.
- `net_multi.c:237`: a notice of lost lines of which a part was written is written
  again in whole.
- `code_gen.c:1209`: the size of a vector does not count the growth of stack operands,
  which matters once a verb needs a stack of more than 256 values (*read*); and
  `ref_size(256)` is 1 where operands up to 256 would need 2 (*read*).
- A shutdown dump whose temporary file cannot be *opened* is not retried, unlike one
  that cannot be written, and the server exits with nothing saved; a closed connection
  with hold-input set keeps its queue for ever.

## Not modelled

- *Checkpoint*: failures of `remove()`, other failures of `rename()`, the contents
  of the file, restarts from a dump, the children of `name_lookup.c`.
- *Server*: listeners other than whether two connections share one, connection
  options other than hold-input and disable-oob, `.program` and intrinsic commands
  (only that they run no MOO code), emergency mode, the reading of suspended tasks
  from a database file.
- *Properties*: built-in properties (changing `.owner` included), permission checks,
  quota, contents and location, verbs, the verbs that `create()` and `recycle()`
  call, the table of waif properties that the functions invalidate, `renumber()`.
- *Objects*: owners (renumbered and set to `#-1` there), permissions, quota, verbs,
  flags other than the player's, `boot_player()` in `set_player_flag()`.
- *Verbs*: argument specifiers and `db_find_command_verb()`, owners and permissions,
  the hash buckets of the cache, command tasks.
- *Network*: the protocol modules, listeners, outbound connections, registered
  descriptors, `select()` and `poll()`; which of several connections is served first.
- *Interpreter and code generator*: floats, strings as sequences, arithmetic other than
  addition, bit operators, waifs, permissions, tracebacks; `BYTECODE_REDUCE_REF`, which
  the build leaves off.  The built-in properties are in none of the modules.
- *Left out*: parser, decompiler and unparser, pure functions on strings, numbers and
  patterns, database files, name lookup and timers, reference counts of values, waifs,
  memory allocation, logging, `ext-xml.c`, and the vendored `expat/`, `pcre/` and
  `ucd/`, which are most of the repository's lines.

## Plan

Done, in this order: checkpointing with its proofs; the input queue and its
refinement; scheduler, main loop and connections; properties and their refinement;
the object table with containment and recycling; verbs, cache and Programs; the
network connection; code generator and interpreter against the meaning of programs.

Proved: what the [table](#proofs) lists, which leaves what the prover cannot reach.

To model next: timers and name lookup (a lookup that is late for its request);
reference counts and interned strings; waifs; the decompiler as the inverse of
`CodeGen`.
