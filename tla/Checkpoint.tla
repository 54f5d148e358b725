---------------------------- MODULE Checkpoint ----------------------------
(***************************************************************************)
(* How the server writes its in-memory database to disk: dump_database()   *)
(* in db_file.c, and the part of server.c around it, which is the          *)
(* checkpoint timer, the signal handlers, the checkpoint section of        *)
(* main_loop(), db_shutdown() and panic().                                 *)
(*                                                                         *)
(* Every dump that is not a panic dump has a generation number of its own  *)
(* and writes a temporary file of its own, so the generation also names    *)
(* the file's contents (the inode).  A directory entry and the contents    *)
(* behind it are kept apart, because a process that has a file open goes   *)
(* on writing it after another process has removed its name.               *)
(*                                                                         *)
(* In the normal build a checkpoint is written by a forked child, so that  *)
(* several dumps may be under way at once, and a child outlives its        *)
(* parent.  Defining UNFORKED_CHECKPOINTS (options.h) makes the server     *)
(* write it in line.                                                       *)
(*                                                                         *)
(* Not modelled: failures of remove(), and of rename() other than for a    *)
(* name that is gone; the SIGCHLDs of the name-lookup processes; restarts. *)
(***************************************************************************)
EXTENDS Naturals, FiniteSets

CONSTANTS
  MaxGeneration,         \* bound on dump_generation
  MaxVersion,            \* bound on the changes made to the database
  Builds,                \* the values of UNFORKED_CHECKPOINTS to look at
  FlushMayFail           \* may fflush(), fsync() or fclose() fail?

ASSUME CheckpointAssumption ==
  /\ MaxGeneration \in Nat
  /\ MaxVersion \in Nat
  /\ Builds \subseteq BOOLEAN
  /\ FlushMayFail \in BOOLEAN

VARIABLES
  UNFORKED_CHECKPOINTS,  \* the build option of options.h, which no step changes
  database,              \* the version of the database in memory
  shutdown_message,      \* has shutdown been asked for?
  checkpoint_requested,  \* checkpoint_requested != CHKPT_OFF
  checkpoint_finished,   \* 0, or 1 = failure, 2 = success
  timer,                 \* is the checkpoint timer set?
  server,                \* where the server process is
  dump_generation,
  stage,                 \* where the dump of each generation is
  snapshot,              \* the version each dump writes
  complete,              \* are the contents of each temporary file complete?
  succeeded,             \* the value of `success' of each finished dump
  temp_db,               \* does the name DUMP.#g# exist?
  dump_db,               \* the contents that DUMP names, or None
  panic_db,              \* DUMP.PANIC: does it hold a complete database?
  zombies,               \* children that have exited and are not waited for
  sigchld,               \* is a SIGCHLD pending?
  status                 \* that variable of child_completed_signal()

disk   == <<temp_db, dump_db, panic_db, complete>>
dumps  == <<dump_generation, stage, snapshot, succeeded>>
flags  == <<shutdown_message, checkpoint_requested, timer>>
sigs   == <<zombies, sigchld, status>>
vars   == <<UNFORKED_CHECKPOINTS, database, checkpoint_finished, server,
            disk, dumps, flags, sigs>>

Generation == 1..MaxGeneration
None       == 0

\* Dumps that have a process working on them.
Stages  == {"unborn", "open", "write", "remove", "rename", "done"}
Working == {"open", "write", "remove", "rename"}

\* "loop": top of the while loop; "checkpoint": #0:checkpoint_started() runs,
\* the dump is next; "dumping": in-line checkpoint; "report":
\* #0:checkpoint_finished() runs for a dump that has returned its result;
\* "dumped": the timer is to be set; "reap": the test of checkpoint_finished; "notify":
\* #0:checkpoint_finished() runs; "tasks": network I/O and MOO tasks;
\* "shutdown": db_shutdown() is next; "saving": the shutdown dump runs;
\* "sleeping": it failed, 60 seconds to go; "panic": the panic dump runs;
\* "exited", "aborted": the process is gone.
Looping  == {"loop", "checkpoint", "dumping", "report", "dumped",
             "reap", "notify", "tasks"}
Stopping == {"shutdown", "saving", "sleeping", "panic"}
Gone     == {"exited", "aborted"}

\* Values of `status': the handler is not running, runs and has waited for
\* nobody yet, or holds the exit code of the last child it waited for.
Idle   == "idle"
Uninit == "uninitialized"

TypeOK ==
  /\ database \in 0..MaxVersion
  /\ shutdown_message \in BOOLEAN
  /\ checkpoint_requested \in BOOLEAN
  /\ checkpoint_finished \in 0..2
  /\ timer \in BOOLEAN
  /\ server \in Looping \cup Stopping \cup Gone
  /\ dump_generation \in 0..MaxGeneration
  /\ stage \in [Generation -> Stages]
  /\ snapshot \in [Generation -> 0..MaxVersion]
  /\ complete \in [Generation -> BOOLEAN]
  /\ succeeded \in [Generation -> BOOLEAN]
  /\ temp_db \in [Generation -> BOOLEAN]
  /\ dump_db \in Generation \cup {None}
  /\ panic_db \in BOOLEAN
  /\ zombies \subseteq Generation
  /\ sigchld \in BOOLEAN
  /\ status \in {Idle, Uninit, "success", "failure"}

\* main() has loaded the database and main_loop() has set the first timer.
Init ==
  /\ UNFORKED_CHECKPOINTS \in Builds
  /\ database = 0
  /\ shutdown_message = FALSE
  /\ checkpoint_requested = FALSE
  /\ checkpoint_finished = 0
  /\ timer = TRUE
  /\ server = "loop"
  /\ dump_generation = 0
  /\ stage = [g \in Generation |-> "unborn"]
  /\ snapshot = [g \in Generation |-> 0]
  /\ complete = [g \in Generation |-> FALSE]
  /\ succeeded = [g \in Generation |-> FALSE]
  /\ temp_db = [g \in Generation |-> FALSE]
  /\ dump_db = None
  /\ panic_db = FALSE
  /\ zombies = {}
  /\ sigchld = FALSE
  /\ status = Idle

-----------------------------------------------------------------------------
(* dump_database()                                                         *)

\* The server runs no code of its own while a signal handler runs.
ServerRuns(pc) == server = pc /\ status = Idle

\* The dump that the server process itself is making.
InLine(g) == g = dump_generation /\ server \in {"dumping", "saving"}

\* remove() of the previous checkpoint's temporary file, in whichever
\* process has it open.
RemovePreviousCheckpoint ==
  IF dump_generation = 0 THEN temp_db
  ELSE [temp_db EXCEPT ![dump_generation] = FALSE]

\* Mutant: the previous dump is removed before the new one is written.
StartDumpRemovesDump ==
  /\ dump_generation < MaxGeneration
  /\ dump_generation' = dump_generation + 1
  /\ temp_db' = RemovePreviousCheckpoint
  /\ dump_db' = None
  /\ stage' = [stage EXCEPT ![dump_generation'] = "open"]
  /\ snapshot' = [snapshot EXCEPT ![dump_generation'] = database]
  /\ UNCHANGED <<complete, succeeded, panic_db>>

\* dump_database(), as far as the fork or the fopen(), for a dump other than
\* a panic dump.
StartDump ==
  /\ dump_generation < MaxGeneration
  /\ dump_generation' = dump_generation + 1
  /\ temp_db' = RemovePreviousCheckpoint
  /\ stage' = [stage EXCEPT ![dump_generation'] = "open"]
  /\ snapshot' = [snapshot EXCEPT ![dump_generation'] = database]
  /\ UNCHANGED <<complete, succeeded, dump_db, panic_db>>

\* Nothing more of the dump to do: a child exits, and the server goes on.
Finish(g, success) ==
  /\ stage' = [stage EXCEPT ![g] = "done"]
  /\ succeeded' = [succeeded EXCEPT ![g] = success]
  /\ server' = CASE InLine(g) /\ server = "dumping" -> "report"
                 [] InLine(g) /\ server = "saving"  -> "exited"
                 [] OTHER -> server
  /\ zombies' = IF InLine(g) THEN zombies ELSE zombies \cup {g}
  /\ sigchld' = (sigchld \/ ~InLine(g))
  /\ UNCHANGED <<dump_generation, snapshot, status>>

\* A child is a process of its own; the server steps only when it may.
MayStep(g) == InLine(g) => status = Idle

OpenTemp(g) ==
  /\ stage[g] = "open" /\ MayStep(g)
  /\ \/ /\ temp_db' = [temp_db EXCEPT ![g] = TRUE]
        /\ stage' = [stage EXCEPT ![g] = "write"]
        /\ UNCHANGED <<server, sigs, dump_generation, snapshot,
                       succeeded>>
     \/ /\ Finish(g, FALSE)      \* "Opening temporary dump file"
        /\ UNCHANGED temp_db
  /\ UNCHANGED <<database, checkpoint_finished, dump_db, panic_db, complete, flags>>

\* Mutant: the file is not flushed to disk before it is renamed.
WriteTempUnsynced(g) ==
  /\ stage[g] = "write" /\ MayStep(g)
  /\ stage' = [stage EXCEPT ![g] = "remove"]
  /\ UNCHANGED <<database, checkpoint_finished, server, disk,
                 dump_generation, snapshot, succeeded, flags, sigs>>

\* write_db_file() has succeeded: every write it made went well, into the
\* file or into the stream's buffer.  The results of the fflush(), fsync()
\* and fclose() that follow are not looked at.
WriteTemp(g) ==
  /\ stage[g] = "write" /\ MayStep(g)
  /\ \E flushed \in IF FlushMayFail THEN BOOLEAN ELSE {TRUE} :
       complete' = [complete EXCEPT ![g] = flushed]
  /\ stage' = [stage EXCEPT ![g] = "remove"]
  /\ UNCHANGED <<database, checkpoint_finished, server, temp_db,
                 dump_db, panic_db, dump_generation, snapshot, succeeded,
                 flags, sigs>>

\* Mutant: the failure to write is not noticed in the result.
WriteFailsUnnoticed(g) ==
  /\ stage[g] = "write" /\ MayStep(g)
  /\ temp_db' = [temp_db EXCEPT ![g] = FALSE]
  /\ Finish(g, TRUE)
  /\ UNCHANGED <<database, checkpoint_finished, dump_db, panic_db, complete, flags>>

\* Mutant: the name removed is made from the server's generation number.
WriteFailsRemovesNewest(g) ==
  /\ stage[g] = "write" /\ MayStep(g) /\ ~InLine(g)
  /\ temp_db' = [temp_db EXCEPT ![dump_generation] = FALSE]
  /\ Finish(g, FALSE)
  /\ UNCHANGED <<database, checkpoint_finished, dump_db, panic_db, complete, flags>>

\* write_db_file() has failed.  A checkpoint is abandoned; a shutdown dump is
\* retried from the beginning after 60 seconds.
WriteFails(g) ==
  /\ stage[g] = "write" /\ MayStep(g)
  /\ temp_db' = [temp_db EXCEPT ![g] = FALSE]
  /\ IF InLine(g) /\ server = "saving"
       THEN /\ dump_generation < MaxGeneration
            /\ stage' = [stage EXCEPT ![g] = "done"]
            /\ server' = "sleeping"
            /\ UNCHANGED <<sigs, dump_generation, snapshot,
                           succeeded>>
       ELSE Finish(g, FALSE)
  /\ UNCHANGED <<database, checkpoint_finished, dump_db, panic_db, complete, flags>>

RemoveDump(g) ==
  /\ stage[g] = "remove" /\ MayStep(g)
  /\ dump_db' = None
  /\ stage' = [stage EXCEPT ![g] = "rename"]
  /\ UNCHANGED <<database, checkpoint_finished, server, temp_db,
                 panic_db, complete, dump_generation, snapshot, succeeded,
                 flags, sigs>>

\* rename(temp_name, dump_db_name) fails when another dump has removed the
\* temporary file's name.
RenameTemp(g) ==
  /\ stage[g] = "rename" /\ MayStep(g)
  /\ IF temp_db[g]
       THEN /\ dump_db' = g
            /\ temp_db' = [temp_db EXCEPT ![g] = FALSE]
       ELSE UNCHANGED <<dump_db, temp_db>>
  /\ Finish(g, temp_db[g])
  /\ UNCHANGED <<database, checkpoint_finished, panic_db, complete, flags>>

\* panic() in the child: shut the parent down with USR1, then _exit(1).
ChildPanics(g) ==
  /\ stage[g] \in Working /\ ~InLine(g)
  /\ shutdown_message' = (shutdown_message \/ server \notin Gone)
  /\ Finish(g, FALSE)
  /\ UNCHANGED <<database, checkpoint_finished, disk, checkpoint_requested,
                 timer>>

-----------------------------------------------------------------------------
(* Signals, which interrupt the server anywhere                            *)

Alive == server \notin Gone \cup {"panic"}

CheckpointSignal ==
  /\ Alive
  /\ checkpoint_requested' = TRUE
  /\ UNCHANGED <<database, checkpoint_finished, server, disk, dumps,
                 shutdown_message, timer, sigs>>

ShutdownSignal ==
  /\ Alive
  /\ shutdown_message' = TRUE
  /\ UNCHANGED <<database, checkpoint_finished, server, disk, dumps,
                 checkpoint_requested, timer, sigs>>

CheckpointTimer ==
  /\ Alive /\ timer
  /\ timer' = FALSE
  /\ checkpoint_requested' = TRUE
  /\ UNCHANGED <<database, checkpoint_finished, server, disk, dumps,
                 shutdown_message, sigs>>

\* child_completed_signal(), entered; it waits for every zombie; it returns.
\* SIGCHLD is blocked while it runs: a child that exits meanwhile makes the
\* signal pending again even when the loop waits for it, and the next call,
\* which finds nobody to wait for, leaves `status' uninitialized.
SigchldEnter ==
  /\ Alive /\ sigchld /\ status = Idle
  /\ sigchld' = FALSE
  /\ status' = Uninit
  /\ UNCHANGED <<database, checkpoint_finished, server, disk, dumps,
                 flags, zombies>>

SigchldWait(g) ==
  /\ Alive /\ status # Idle
  /\ g \in zombies
  /\ zombies' = zombies \ {g}
  /\ status' = IF succeeded[g] THEN "success" ELSE "failure"
  /\ UNCHANGED <<database, checkpoint_finished, server, disk, dumps,
                 flags, sigchld>>

\* Mutant: wait() for one child only, as before version 1.4.1.
SigchldReturnEarly ==
  /\ Alive /\ status \notin {Idle, Uninit}
  /\ checkpoint_finished' = IF status = "success" THEN 2 ELSE 1
  /\ status' = Idle
  /\ UNCHANGED <<database, server, disk, dumps, flags, zombies,
                 sigchld>>

SigchldReturn ==
  /\ Alive /\ status # Idle
  /\ zombies = {}
  /\ checkpoint_finished' \in CASE status = "success" -> {2}
                                [] status = "failure" -> {1}
                                [] status = Uninit    -> {1, 2}
  /\ status' = Idle
  /\ UNCHANGED <<database, server, disk, dumps, flags, zombies,
                 sigchld>>

-----------------------------------------------------------------------------
(* MOO tasks, and main_loop()                                              *)

\* The MOO code that runs from the hooks and from run_ready_tasks().
RunsTasks == server \in {"checkpoint", "report", "notify", "tasks"} /\ status = Idle

ChangeDatabase ==
  /\ RunsTasks /\ database < MaxVersion
  /\ database' = database + 1
  /\ UNCHANGED <<checkpoint_finished, server, disk, dumps, flags, sigs>>

bf_dump_database ==
  /\ RunsTasks
  /\ checkpoint_requested' = TRUE
  /\ UNCHANGED <<database, checkpoint_finished, server, disk, dumps,
                 shutdown_message, timer, sigs>>

bf_shutdown ==
  /\ RunsTasks
  /\ shutdown_message' = TRUE
  /\ UNCHANGED <<database, checkpoint_finished, server, disk, dumps,
                 checkpoint_requested, timer, sigs>>

\* The bound on generations keeps the last one for the shutdown dump.
Room == dump_generation + 1 < MaxGeneration

LoopTop ==
  /\ ServerRuns("loop")
  /\ \/ /\ shutdown_message
        /\ server' = "shutdown"
        /\ UNCHANGED checkpoint_requested
     \/ /\ ~shutdown_message /\ checkpoint_requested /\ Room
        /\ server' = "checkpoint"
        /\ checkpoint_requested' = FALSE
     \/ /\ ~shutdown_message /\ ~(checkpoint_requested /\ Room)
        /\ server' = "reap"
        /\ UNCHANGED checkpoint_requested
  /\ UNCHANGED <<database, checkpoint_finished, disk, dumps,
                 shutdown_message, timer, sigs>>

\* db_flush(FLUSH_ALL_NOW).  The forked build's parent is done at once.
FlushAllNow ==
  /\ ServerRuns("checkpoint")
  /\ StartDump
  /\ server' = IF UNFORKED_CHECKPOINTS THEN "dumping" ELSE "dumped"
  /\ UNCHANGED <<database, checkpoint_finished, flags, sigs>>

\* fork() fails, and #0:checkpoint_finished(0) is called at once.
ForkFails ==
  /\ ServerRuns("checkpoint") /\ ~UNFORKED_CHECKPOINTS
  /\ dump_generation < MaxGeneration
  /\ dump_generation' = dump_generation + 1
  /\ temp_db' = RemovePreviousCheckpoint
  /\ stage' = [stage EXCEPT ![dump_generation'] = "done"]
  /\ server' = "report"
  /\ UNCHANGED <<database, checkpoint_finished, snapshot, succeeded,
                 dump_db, panic_db, complete, flags, sigs>>

\* call_checkpoint_notifier() with the result of db_flush().
ReportDump ==
  /\ ServerRuns("report")
  /\ server' = "dumped"
  /\ UNCHANGED <<database, checkpoint_finished, disk, dumps, flags,
                 sigs>>

\* Mutant: the timer that has run out is not set again.
SetCheckpointTimerOnce ==
  /\ ServerRuns("dumped")
  /\ server' = "reap"
  /\ UNCHANGED <<database, checkpoint_finished, disk, dumps, flags,
                 sigs>>

\* Mutant: the request is cleared after the checkpoint, not before.
SetCheckpointTimerClears ==
  /\ ServerRuns("dumped")
  /\ timer' = TRUE
  /\ checkpoint_requested' = FALSE
  /\ server' = "reap"
  /\ UNCHANGED <<database, checkpoint_finished, disk, dumps,
                 shutdown_message, sigs>>

\* set_checkpoint_timer(0)
SetCheckpointTimer ==
  /\ ServerRuns("dumped")
  /\ timer' = TRUE
  /\ server' = "reap"
  /\ UNCHANGED <<database, checkpoint_finished, disk, dumps,
                 shutdown_message, checkpoint_requested, sigs>>

TestFinished ==
  /\ ServerRuns("reap")
  /\ server' = IF checkpoint_finished # 0 /\ ~UNFORKED_CHECKPOINTS
               THEN "notify" ELSE "tasks"
  /\ UNCHANGED <<database, checkpoint_finished, disk, dumps, flags, sigs>>

\* The hook has returned; only now is checkpoint_finished reset.
ResetFinished ==
  /\ ServerRuns("notify")
  /\ checkpoint_finished' = 0
  /\ server' = "tasks"
  /\ UNCHANGED <<database, disk, dumps, flags, sigs>>

LoopBottom ==
  /\ ServerRuns("tasks")
  /\ server' = "loop"
  /\ UNCHANGED <<database, checkpoint_finished, disk, dumps, flags,
                 sigs>>

\* db_shutdown(), and the retry of a shutdown dump.
DumpAndExit ==
  /\ ServerRuns("shutdown") \/ ServerRuns("sleeping")
  /\ StartDump
  /\ server' = "saving"
  /\ UNCHANGED <<database, checkpoint_finished, flags, sigs>>

\* A fatal signal: panic(), as far as opening DUMP.PANIC.  What the server
\* was doing, its own dump included, is never resumed.
Panic ==
  /\ Alive
  /\ server' = "panic"
  /\ temp_db' = RemovePreviousCheckpoint
  /\ stage' = IF InLine(dump_generation)
              THEN [stage EXCEPT ![dump_generation] = "done"] ELSE stage
  /\ UNCHANGED <<database, checkpoint_finished, dump_db, panic_db,
                 complete, dump_generation, snapshot, succeeded, flags, sigs>>

\* The panic dump succeeds, or cannot open its file.  (A failure to write it
\* is retried: a stutter.)
PanicDumped ==
  /\ server = "panic"
  /\ panic_db' \in BOOLEAN
  /\ server' = "aborted"
  /\ UNCHANGED <<database, checkpoint_finished, temp_db, dump_db,
                 complete, dumps, flags, sigs>>

-----------------------------------------------------------------------------
DumpStep(g) ==
  OpenTemp(g) \/ WriteTemp(g) \/ WriteFails(g) \/ RemoveDump(g) \/ RenameTemp(g)

MainLoop ==
  \/ LoopTop \/ FlushAllNow \/ ForkFails \/ ReportDump \/ SetCheckpointTimer
  \/ TestFinished \/ ResetFinished \/ LoopBottom \/ DumpAndExit

Sigchld == SigchldEnter \/ (\E g \in Generation : SigchldWait(g)) \/ SigchldReturn

SameBuild == UNCHANGED UNFORKED_CHECKPOINTS

Next ==
  /\ \/ \E g \in Generation : DumpStep(g) \/ ChildPanics(g)
     \/ MainLoop
     \/ Sigchld
     \/ CheckpointSignal \/ ShutdownSignal \/ CheckpointTimer
     \/ ChangeDatabase \/ bf_dump_database \/ bf_shutdown
     \/ Panic \/ PanicDumped
  /\ SameBuild

Spec == Init /\ [][Next]_vars

\* The operating system runs every process, and delivers a pending signal; no
\* MOO task runs for ever, because of its tick limit.  Nothing is assumed of
\* the timer or of the senders of signals: a request must be served by itself.
Fairness ==
  /\ \A g \in Generation : WF_vars(DumpStep(g) /\ SameBuild)
  /\ WF_vars(MainLoop /\ SameBuild)
  /\ WF_vars(Sigchld /\ SameBuild)

FairSpec == Spec /\ Fairness

-----------------------------------------------------------------------------
(* Properties                                                              *)

OnDisk(g) == complete[g] /\ (dump_db = g \/ temp_db[g])

Saved(g) == stage[g] = "done" /\ succeeded[g]

\* CHECKPOINT-DB-FILE never names a partly written database, at whatever
\* point the machine stops and whatever dumps overlap: dump_database() writes
\* a temporary file, and renames it once fsync() has returned.
DumpIsComplete == dump_db # None => complete[dump_db]

\* No other dump takes the newest dump's temporary file away, so its rename()
\* does not fail; only panic() removes it.
NewestKeepsItsFile ==
  \A g \in Generation :
    /\ g = dump_generation
    /\ stage[g] \in {"write", "remove", "rename"}
    /\ server \notin {"panic", "aborted"}
    => temp_db[g]

\* main_loop() never loses its periodic checkpoint: the timer is set, or has
\* run out and left a request, or the checkpoint is being made.
CheckpointScheduled ==
  server \in Looping =>
    \/ timer
    \/ checkpoint_requested
    \/ server \in {"checkpoint", "dumping", "report", "dumped"}

\* With UNFORKED_CHECKPOINTS a database that was saved successfully stays on
\* disk, under the dump's name or a temporary one, until a version at least as
\* recent replaces it.
DurableDump ==
  UNFORKED_CHECKPOINTS /\ server \notin {"panic", "aborted"} =>
    \A g \in Generation :
      Saved(g) => \E h \in Generation : OnDisk(h) /\ snapshot[h] >= snapshot[g]

\* "Shut down the database module, flushing all pending database changes to
\* disk" (db.h): once db_shutdown() has succeeded, the dump is the final database.
ShutdownSaves ==
  (server = "exited" /\ succeeded[dump_generation])
    => dump_db = dump_generation /\ snapshot[dump_db] = database

\* It is so with UNFORKED_CHECKPOINTS, however often a dump has failed before;
\* without, a checkpoint process may still be at work.
UnforkedShutdownSaves == UNFORKED_CHECKPOINTS => ShutdownSaves

\* A requested checkpoint is started, unless the server stops first.
RequestIsServed ==
  (checkpoint_requested /\ Room) ~> (server \notin Looping \/ server = "checkpoint")

\* main_loop() is about to test checkpoint_finished and finds it set.
ResultSeen == server = "reap" /\ checkpoint_finished # 0

\* A checkpoint process ends and is waited for, and the handler's result
\* reaches main_loop(), unless the server stops first; but a result that the
\* handler leaves while #0:checkpoint_finished() runs for an earlier one
\* (server = "notify") is cleared with that by ResetFinished.
CheckpointEnds ==
  /\ \A g \in Generation :
       (stage[g] \in Working) ~> (stage[g] = "done" /\ (g \notin zombies \/ ~Alive))
  /\ (status # Idle /\ server # "notify") ~> (server \notin Looping \/ ResultSeen)
=============================================================================
