------------------------- MODULE CheckpointProofs -------------------------
(***************************************************************************)
(* Theorems about Checkpoint, for every bound on generations and versions. *)
(*                                                                         *)
(* In every build the type invariant holds, and, as long as a flush does   *)
(* not fail, the dump is never a partial database.  With                   *)
(* UNFORKED_CHECKPOINTS a saved database is never lost.                    *)
(***************************************************************************)
EXTENDS Checkpoint, TLAPS

-----------------------------------------------------------------------------
(* Type correctness                                                        *)

USE CheckpointAssumption

\* What the three fragments that several actions share do to the types.
LEMMA StartDumpType ==
  ASSUME TypeOK, StartDump
  PROVE  /\ dump_generation' \in 0..MaxGeneration
         /\ dump_generation' \in Generation
         /\ stage' \in [Generation -> Stages]
         /\ snapshot' \in [Generation -> 0..MaxVersion]
         /\ temp_db' \in [Generation -> BOOLEAN]
BY DEF TypeOK, StartDump, RemovePreviousCheckpoint, Generation, Stages

LEMMA FinishType ==
  ASSUME TypeOK, NEW g \in Generation, NEW success \in BOOLEAN,
         Finish(g, success)
  PROVE  /\ stage' \in [Generation -> Stages]
         /\ succeeded' \in [Generation -> BOOLEAN]
         /\ server' \in Looping \cup Stopping \cup Gone
         /\ zombies' \subseteq Generation
         /\ sigchld' \in BOOLEAN
         /\ UNCHANGED <<dump_generation, snapshot, status>>
BY DEF TypeOK, Finish, InLine, Stages, Looping, Stopping, Gone

LEMMA DumpStepType ==
  ASSUME TypeOK, NEW g \in Generation, DumpStep(g) \/ ChildPanics(g)
  PROVE  TypeOK'
<1>1. CASE OpenTemp(g)
  <2>1. CASE Finish(g, FALSE) /\ UNCHANGED temp_db
    BY <1>1, <2>1, FinishType DEF TypeOK, OpenTemp, flags
  <2>2. CASE ~(Finish(g, FALSE) /\ UNCHANGED temp_db)
    BY <1>1, <2>2 DEF TypeOK, OpenTemp, Stages, flags, sigs
  <2>. QED BY <2>1, <2>2
<1>2. CASE WriteTemp(g)
  BY <1>2, ZenonT(40) DEF TypeOK, WriteTemp, Stages, flags, sigs
<1>3. CASE WriteFails(g)
  <2>1. CASE InLine(g) /\ server = "saving"
    BY <1>3, <2>1 DEF TypeOK, WriteFails, Stages, Stopping, flags, sigs
  <2>2. CASE ~(InLine(g) /\ server = "saving")
    <3>1. Finish(g, FALSE) BY <1>3, <2>2 DEF WriteFails
    <3>. QED BY <1>3, <3>1, FinishType DEF TypeOK, WriteFails, flags
  <2>. QED BY <2>1, <2>2
<1>4. CASE RemoveDump(g)
  BY <1>4 DEF TypeOK, RemoveDump, Stages, flags, sigs
<1>5. CASE RenameTemp(g)
  <2>1. temp_db[g] \in BOOLEAN BY DEF TypeOK
  <2>2. Finish(g, temp_db[g]) BY <1>5 DEF RenameTemp
  <2>. QED BY <1>5, <2>1, <2>2, FinishType DEF TypeOK, RenameTemp, flags
<1>6. CASE ChildPanics(g)
  <2>1. Finish(g, FALSE) BY <1>6 DEF ChildPanics
  <2>. QED BY <1>6, <2>1, FinishType DEF TypeOK, ChildPanics, disk
<1>. QED BY <1>1, <1>2, <1>3, <1>4, <1>5, <1>6 DEF DumpStep

LEMMA MainLoopType ==
  ASSUME TypeOK, MainLoop
  PROVE  TypeOK'
<1>. USE DEF TypeOK, disk, dumps, flags, sigs, Looping, Stopping, Gone
<1>1. CASE LoopTop
  BY <1>1 DEF LoopTop, ServerRuns
<1>2. CASE FlushAllNow
  <2>1. StartDump BY <1>2 DEF FlushAllNow
  <2>. QED BY <1>2, <2>1, StartDumpType DEF FlushAllNow, StartDump
<1>3. CASE ForkFails
  BY <1>3 DEF ForkFails, RemovePreviousCheckpoint, Generation, Stages
<1>4. CASE ReportDump
  BY <1>4 DEF ReportDump
<1>5. CASE SetCheckpointTimer
  BY <1>5 DEF SetCheckpointTimer
<1>6. CASE TestFinished
  BY <1>6 DEF TestFinished
<1>7. CASE ResetFinished
  BY <1>7 DEF ResetFinished
<1>8. CASE LoopBottom
  BY <1>8 DEF LoopBottom
<1>9. CASE DumpAndExit
  <2>1. StartDump BY <1>9 DEF DumpAndExit
  <2>. QED BY <1>9, <2>1, StartDumpType DEF DumpAndExit, StartDump
<1>. QED BY <1>1, <1>2, <1>3, <1>4, <1>5, <1>6, <1>7, <1>8, <1>9 DEF MainLoop

LEMMA OtherStepType ==
  ASSUME TypeOK,
         \/ Sigchld \/ CheckpointSignal \/ ShutdownSignal \/ CheckpointTimer
         \/ ChangeDatabase \/ bf_dump_database \/ bf_shutdown
         \/ Panic \/ PanicDumped \/ UNCHANGED vars
  PROVE  TypeOK'
<1>. USE DEF TypeOK, disk, dumps, flags, sigs
<1>1. CASE SigchldEnter
  BY <1>1 DEF SigchldEnter
<1>2. ASSUME NEW g \in Generation, SigchldWait(g) PROVE TypeOK'
  BY <1>2 DEF SigchldWait
<1>3. CASE SigchldReturn
  BY <1>3 DEF SigchldReturn, Idle, Uninit
<1>4. CASE CheckpointSignal \/ ShutdownSignal \/ CheckpointTimer
  BY <1>4 DEF CheckpointSignal, ShutdownSignal, CheckpointTimer
<1>5. CASE ChangeDatabase
  BY <1>5 DEF ChangeDatabase
<1>6. CASE bf_dump_database \/ bf_shutdown
  BY <1>6 DEF bf_dump_database, bf_shutdown
<1>7. CASE Panic
  BY <1>7 DEF Panic, RemovePreviousCheckpoint, InLine, Generation, Stages,
              Stopping
<1>8. CASE PanicDumped
  BY <1>8 DEF PanicDumped, Gone
<1>9. CASE UNCHANGED vars
  BY <1>9 DEF vars
<1>. QED
  BY <1>1, <1>2, <1>3, <1>4, <1>5, <1>6, <1>7, <1>8, <1>9 DEF Sigchld

LEMMA TypeInit == Init => TypeOK
<1>. SUFFICES ASSUME Init PROVE TypeOK
  OBVIOUS
<1>1. 0 \in 0..MaxVersion /\ 0 \in 0..MaxGeneration /\ 0 \in 0..2
  BY SMT
<1>2. /\ stage \in [Generation -> Stages]
      /\ snapshot \in [Generation -> 0..MaxVersion]
  BY <1>1 DEF Init, Stages
<1>3. /\ complete \in [Generation -> BOOLEAN]
      /\ succeeded \in [Generation -> BOOLEAN]
      /\ temp_db \in [Generation -> BOOLEAN]
  BY DEF Init
<1>4. server \in Looping \cup Stopping \cup Gone
  BY DEF Init, Looping
<1>. QED BY <1>1, <1>2, <1>3, <1>4, Zenon DEF Init, TypeOK

LEMMA TypeStep == TypeOK /\ [Next]_vars => TypeOK'
BY DumpStepType, MainLoopType, OtherStepType DEF Next

\* The variables of server.c and db_file.c keep their types: in particular
\* checkpoint_finished is 0, 1 or 2 when main_loop() subtracts 1 from it.
THEOREM TypeCorrect == Spec => []TypeOK
BY TypeInit, TypeStep, PTL DEF Spec

-----------------------------------------------------------------------------
(* The dump file is complete                                               *)

\* A dump has its contents on disk before it touches the dump file's name.
WrittenBeforeRenamed ==
  \A g \in Generation : stage[g] \in {"remove", "rename"} => complete[g]

CompleteInv == TypeOK /\ WrittenBeforeRenamed /\ DumpIsComplete

LEMMA CompleteInit == Init => CompleteInv
BY TypeInit DEF Init, CompleteInv, WrittenBeforeRenamed, DumpIsComplete

LEMMA CompleteStep ==
  ASSUME CompleteInv, TypeOK', [Next]_vars, ~FlushMayFail
  PROVE  WrittenBeforeRenamed' /\ DumpIsComplete'
<1>. USE DEF CompleteInv, WrittenBeforeRenamed, DumpIsComplete, TypeOK
<1>1. ASSUME NEW g \in Generation, DumpStep(g) \/ ChildPanics(g)
      PROVE  WrittenBeforeRenamed' /\ DumpIsComplete'
  <2>1. CASE OpenTemp(g)
    BY <1>1, <2>1 DEF OpenTemp, Finish
  <2>2. CASE WriteTemp(g)
    <3>1. complete' = [complete EXCEPT ![g] = TRUE]
      BY <2>2 DEF WriteTemp
    <3>2. stage' = [stage EXCEPT ![g] = "remove"] /\ dump_db' = dump_db
      BY <2>2 DEF WriteTemp
    <3>. QED BY <3>1, <3>2
  <2>3. CASE WriteFails(g)
    BY <1>1, <2>3 DEF WriteFails, Finish
  <2>4. CASE RemoveDump(g)
    BY <1>1, <2>4 DEF RemoveDump
  <2>5. CASE RenameTemp(g)
    BY <1>1, <2>5 DEF RenameTemp, Finish
  <2>6. CASE ChildPanics(g)
    BY <1>1, <2>6 DEF ChildPanics, Finish, disk
  <2>. QED BY <1>1, <2>1, <2>2, <2>3, <2>4, <2>5, <2>6 DEF DumpStep
<1>2. CASE FlushAllNow \/ DumpAndExit
  <2>1. StartDump BY <1>2 DEF FlushAllNow, DumpAndExit
  <2>. QED BY <2>1, StartDumpType DEF StartDump
<1>3. CASE ForkFails
  BY <1>3 DEF ForkFails, Generation
<1>4. CASE Panic
  BY <1>4 DEF Panic
<1>5. ASSUME UNCHANGED <<stage, complete, dump_db>>
      PROVE  WrittenBeforeRenamed' /\ DumpIsComplete'
  BY <1>5
<1>6. CASE LoopTop \/ ReportDump \/ SetCheckpointTimer \/ TestFinished
            \/ ResetFinished \/ LoopBottom
  BY <1>5, <1>6 DEF LoopTop, ReportDump, SetCheckpointTimer, TestFinished,
                    ResetFinished, LoopBottom, disk, dumps
<1>7. CASE Sigchld
  BY <1>5, <1>7 DEF Sigchld, SigchldEnter, SigchldWait, SigchldReturn, disk, dumps
<1>8. CASE \/ CheckpointSignal \/ ShutdownSignal \/ CheckpointTimer
           \/ ChangeDatabase \/ bf_dump_database \/ bf_shutdown
           \/ PanicDumped \/ UNCHANGED vars
  BY <1>5, <1>8 DEF CheckpointSignal, ShutdownSignal, CheckpointTimer,
                    ChangeDatabase, bf_dump_database, bf_shutdown,
                    PanicDumped, disk, dumps, vars
<1>. QED BY <1>1, <1>2, <1>3, <1>4, <1>6, <1>7, <1>8 DEF Next, MainLoop

\* In either build, whatever dumps overlap, whichever fail and wherever the
\* server or a checkpoint process dies: the name of the dump file leads to a
\* complete database or to nothing, provided that flushing does not fail.
THEOREM DumpComplete ==
  ASSUME ~FlushMayFail
  PROVE  Spec => []DumpIsComplete
<1>1. Init => CompleteInv
  BY CompleteInit
<1>2. CompleteInv /\ [Next]_vars => CompleteInv'
  BY TypeStep, CompleteStep DEF CompleteInv
<1>3. CompleteInv => DumpIsComplete
  BY DEF CompleteInv
<1>. QED BY <1>1, <1>2, <1>3, PTL DEF Spec

-----------------------------------------------------------------------------
(* The newest dump and the timer, in either build                          *)

\* A dump takes a temporary name from no other dump than the one before it.
LEMMA NewestStep ==
  ASSUME TypeOK, TypeOK', NewestKeepsItsFile, [Next]_vars
  PROVE  NewestKeepsItsFile'
<1>. USE DEF NewestKeepsItsFile, TypeOK
<1>1. ASSUME NEW g \in Generation, DumpStep(g) \/ ChildPanics(g)
      PROVE  NewestKeepsItsFile'
  <2>1. UNCHANGED dump_generation /\ (server \in {"panic", "aborted"} => server' = server)
    BY <1>1 DEF DumpStep, OpenTemp, WriteTemp, WriteFails, RemoveDump, RenameTemp,
                ChildPanics, Finish, InLine
  <2>2. \A h \in Generation : h # g => stage'[h] = stage[h] /\ temp_db'[h] = temp_db[h]
    BY <1>1, ZenonT(40) DEF DumpStep, OpenTemp, WriteTemp, WriteFails, RemoveDump, RenameTemp,
                ChildPanics, Finish, disk
  <2>3. stage'[g] \in {"write", "remove", "rename"} =>
          \/ temp_db'[g]
          \/ stage[g] \in {"write", "remove", "rename"} /\ temp_db'[g] = temp_db[g]
    BY <1>1 DEF DumpStep, OpenTemp, WriteTemp, WriteFails, RemoveDump, RenameTemp,
                ChildPanics, Finish
  <2>. QED BY <2>1, <2>2, <2>3
<1>2. CASE FlushAllNow \/ DumpAndExit
  <2>1. StartDump BY <1>2 DEF FlushAllNow, DumpAndExit
  <2>. QED BY <2>1, StartDumpType DEF StartDump
<1>3. CASE ForkFails
  BY <1>3 DEF ForkFails, Generation
<1>4. CASE Panic
  BY <1>4 DEF Panic
<1>5. CASE LoopTop \/ ReportDump \/ SetCheckpointTimer \/ TestFinished
            \/ ResetFinished \/ LoopBottom
  BY <1>5 DEF LoopTop, ReportDump, SetCheckpointTimer, TestFinished,
              ResetFinished, LoopBottom, ServerRuns, disk, dumps
<1>6. CASE \/ Sigchld \/ CheckpointSignal \/ ShutdownSignal \/ CheckpointTimer
           \/ ChangeDatabase \/ bf_dump_database \/ bf_shutdown
           \/ PanicDumped \/ UNCHANGED vars
  BY <1>6 DEF Sigchld, SigchldEnter, SigchldWait, SigchldReturn,
              CheckpointSignal, ShutdownSignal, CheckpointTimer, ChangeDatabase,
              bf_dump_database, bf_shutdown, PanicDumped, disk, dumps, vars
<1>. QED BY <1>1, <1>2, <1>3, <1>4, <1>5, <1>6 DEF Next, MainLoop

\* In either build, with any number of dumps under way: no other dump removes
\* the temporary file of the newest one, so that its rename() succeeds unless
\* panic() has removed the name.
THEOREM NewestIsKept == Spec => []NewestKeepsItsFile
<1>1. Init => TypeOK /\ NewestKeepsItsFile
  BY TypeInit DEF Init, NewestKeepsItsFile
<1>2. TypeOK /\ NewestKeepsItsFile /\ [Next]_vars => (TypeOK /\ NewestKeepsItsFile)'
  BY TypeStep, NewestStep
<1>. QED BY <1>1, <1>2, PTL DEF Spec

LEMMA ScheduledStep ==
  ASSUME TypeOK, CheckpointScheduled, [Next]_vars
  PROVE  CheckpointScheduled'
<1>. USE DEF CheckpointScheduled, TypeOK
<1>1. ASSUME NEW g \in Generation, DumpStep(g) \/ ChildPanics(g)
      PROVE  CheckpointScheduled'
  <2>1. UNCHANGED <<timer, checkpoint_requested>>
    BY <1>1 DEF DumpStep, OpenTemp, WriteTemp, WriteFails, RemoveDump, RenameTemp,
                ChildPanics, flags
  <2>2. server' = server \/ server' \in {"report", "exited", "sleeping"}
    BY <1>1 DEF DumpStep, OpenTemp, WriteTemp, WriteFails, RemoveDump, RenameTemp,
                ChildPanics, Finish, InLine
  <2>. QED BY <2>1, <2>2 DEF Looping
<1>2. CASE LoopTop \/ FlushAllNow \/ ForkFails \/ DumpAndExit
  BY <1>2 DEF LoopTop, FlushAllNow, ForkFails, DumpAndExit, ServerRuns, Looping, flags
<1>3. CASE ReportDump \/ SetCheckpointTimer \/ TestFinished \/ ResetFinished \/ LoopBottom
  BY <1>3 DEF ReportDump, SetCheckpointTimer, TestFinished, ResetFinished,
              LoopBottom, ServerRuns, Looping, flags
<1>4. CASE \/ Sigchld \/ CheckpointSignal \/ ShutdownSignal \/ CheckpointTimer
           \/ ChangeDatabase \/ bf_dump_database \/ bf_shutdown
  BY <1>4 DEF Sigchld, SigchldEnter, SigchldWait, SigchldReturn,
              CheckpointSignal, ShutdownSignal, CheckpointTimer, ChangeDatabase,
              bf_dump_database, bf_shutdown, flags
<1>5. CASE Panic \/ PanicDumped \/ UNCHANGED vars
  BY <1>5 DEF Panic, PanicDumped, vars, flags, Looping
<1>. QED BY <1>1, <1>2, <1>3, <1>4, <1>5 DEF Next, MainLoop

\* In either build main_loop() never loses its periodic checkpoint: whatever
\* signals come and whatever dumps or forks fail, the timer is set, a request
\* is pending, or the checkpoint is being made.
THEOREM CheckpointStaysScheduled == Spec => []CheckpointScheduled
<1>1. Init => TypeOK /\ CheckpointScheduled
  BY TypeInit DEF Init, CheckpointScheduled
<1>2. TypeOK /\ CheckpointScheduled /\ [Next]_vars => (TypeOK /\ CheckpointScheduled)'
  BY TypeStep, ScheduledStep
<1>. QED BY <1>1, <1>2, PTL DEF Spec

-----------------------------------------------------------------------------
(* With UNFORKED_CHECKPOINTS, saved databases are not lost                 *)

\* Only the server process dumps, and it has not lost its temporary file.
OneDumpAtATime ==
  \A g \in Generation :
    /\ stage[g] \in Working => InLine(g)
    /\ stage[g] \in {"write", "remove", "rename"} => temp_db[g]
    /\ succeeded[g] => stage[g] = "done" /\ g <= dump_generation

\* A later generation holds a version at least as recent.
SnapshotsInOrder ==
  /\ dump_db <= dump_generation
  /\ \A h \in Generation : h <= dump_generation =>
       /\ snapshot[h] <= database
       /\ \A g \in Generation : g <= h => snapshot[g] <= snapshot[h]

\* Between remove() and rename() the newest temporary file holds what the
\* dump file held; at any other time the dump file holds the last success.
LastSuccessOnDisk ==
  server \notin {"panic", "aborted"} =>
    \A g \in Generation : succeeded[g] =>
      \/ g <= dump_db
      \/ \E h \in Generation : h = dump_generation /\ stage[h] = "rename"

\* Nothing changes the database once the shutdown dump has begun.
FinalSnapshot ==
  /\ server \in {"saving", "exited"} =>
       dump_generation \in Generation /\ snapshot[dump_generation] = database
  /\ server = "exited" /\ succeeded[dump_generation] => dump_db = dump_generation

UnforkedInv == CompleteInv /\ OneDumpAtATime /\ SnapshotsInOrder
               /\ LastSuccessOnDisk /\ FinalSnapshot

LEMMA UnforkedImplies ==
  (UNFORKED_CHECKPOINTS => UnforkedInv) => DurableDump /\ UnforkedShutdownSaves
<1>. SUFFICES ASSUME UNFORKED_CHECKPOINTS, UnforkedInv
              PROVE  DurableDump /\ UnforkedShutdownSaves
  BY DEF DurableDump, UnforkedShutdownSaves
<1>. USE DEF UnforkedInv, CompleteInv, TypeOK, Generation
<1>1. DurableDump
  <2>. SUFFICES ASSUME server \notin {"panic", "aborted"},
                       NEW g \in Generation, Saved(g)
                PROVE  \E h \in Generation :
                         OnDisk(h) /\ snapshot[h] >= snapshot[g]
    BY DEF DurableDump
  <2>1. succeeded[g] /\ g <= dump_generation
    BY DEF Saved, OneDumpAtATime
  <2>2. CASE g <= dump_db
    <3>1. dump_db \in Generation /\ dump_db # None
      BY <2>2 DEF None
    <3>2. OnDisk(dump_db)
      BY <3>1 DEF OnDisk, DumpIsComplete
    <3>3. snapshot[g] <= snapshot[dump_db]
      BY <2>2, <3>1 DEF SnapshotsInOrder
    <3>. QED BY <3>1, <3>2, <3>3
  <2>3. CASE \E h \in Generation : h = dump_generation /\ stage[h] = "rename"
    <3>1. PICK h \in Generation : h = dump_generation /\ stage[h] = "rename"
      BY <2>3
    <3>2. OnDisk(h)
      BY <3>1 DEF OnDisk, WrittenBeforeRenamed, OneDumpAtATime
    <3>3. snapshot[g] <= snapshot[h]
      BY <2>1, <3>1 DEF SnapshotsInOrder
    <3>. QED BY <3>2, <3>3
  <2>. QED BY <2>1, <2>2, <2>3 DEF LastSuccessOnDisk
<1>2. UnforkedShutdownSaves
  BY DEF UnforkedShutdownSaves, ShutdownSaves, FinalSnapshot
<1>. QED BY <1>1, <1>2

\* The steps that touch neither a dump nor its files: they leave the server
\* and the database alone, or find the server without a dump of its own.
Quiet ==
  /\ UNCHANGED <<dump_generation, stage, snapshot, succeeded, temp_db, dump_db,
                 complete>>
  /\ \/ UNCHANGED <<server, database>>
     \/ /\ server \notin {"dumping", "saving", "exited"}
        /\ server' \notin {"dumping", "saving", "exited"}
        /\ server \in {"panic", "aborted"} => server' \in {"panic", "aborted"}
        /\ database' >= database

Ordered == OneDumpAtATime /\ SnapshotsInOrder /\ LastSuccessOnDisk /\ FinalSnapshot

LEMMA QuietKeeps ==
  ASSUME UnforkedInv, TypeOK', Quiet
  PROVE  Ordered'
<1>. USE DEF UnforkedInv, CompleteInv, TypeOK, Quiet, Generation
<1>1. OneDumpAtATime'
  BY DEF OneDumpAtATime, InLine, Working
<1>2. SnapshotsInOrder'
  BY DEF SnapshotsInOrder
<1>3. LastSuccessOnDisk'
  BY DEF LastSuccessOnDisk
<1>4. FinalSnapshot'
  BY DEF FinalSnapshot
<1>. QED BY <1>1, <1>2, <1>3, <1>4 DEF Ordered

\* A dump is started only while no other is under way.
LEMMA StartKeeps ==
  ASSUME UnforkedInv, TypeOK', StartDump, UNCHANGED database,
         \/ server = "checkpoint" /\ server' = "dumping"
         \/ server \in {"shutdown", "sleeping"} /\ server' = "saving"
  PROVE  Ordered'
<1>. USE DEF UnforkedInv, CompleteInv, TypeOK, StartDump, Generation
<1>1. \A g \in Generation : stage[g] \notin Working
  BY DEF OneDumpAtATime, InLine
<1>2. OneDumpAtATime'
  <2>. SUFFICES ASSUME NEW g \in Generation
                PROVE  /\ stage'[g] \in Working => InLine(g)'
                       /\ stage'[g] \in {"write", "remove", "rename"} => temp_db'[g]
                       /\ succeeded'[g] => stage'[g] = "done" /\ g <= dump_generation'
    BY DEF OneDumpAtATime
  <2>1. CASE g = dump_generation'
    BY <2>1 DEF OneDumpAtATime, InLine
  <2>2. CASE g # dump_generation'
    BY <1>1, <2>2 DEF OneDumpAtATime, Working
  <2>. QED BY <2>1, <2>2
<1>3. SnapshotsInOrder'
  BY DEF SnapshotsInOrder
<1>4. LastSuccessOnDisk'
  BY <1>1 DEF LastSuccessOnDisk, Working
<1>5. FinalSnapshot'
  BY DEF FinalSnapshot
<1>. QED BY <1>2, <1>3, <1>4, <1>5 DEF Ordered

\* The dump under way is the newest one, and the server's own.
LEMMA DumpStepKeeps ==
  ASSUME UnforkedInv, TypeOK', NEW g \in Generation, DumpStep(g)
  PROVE  Ordered'
<1>. USE DEF UnforkedInv, CompleteInv, TypeOK, Generation
<1>1. /\ stage[g] \in Working
      /\ InLine(g)
      /\ g = dump_generation /\ server \in {"dumping", "saving"}
  BY DEF DumpStep, OpenTemp, WriteTemp, WriteFails, RemoveDump, RenameTemp,
         Working, OneDumpAtATime, InLine
<1>2. \A h \in Generation : h # g => stage[h] \notin Working
  BY <1>1 DEF OneDumpAtATime, InLine
<1>3. CASE OpenTemp(g)
  <2>1. CASE Finish(g, FALSE) /\ UNCHANGED temp_db
    BY <1>1, <1>2, <1>3, <2>1
       DEF OpenTemp, Finish, Ordered, OneDumpAtATime, SnapshotsInOrder,
           LastSuccessOnDisk, FinalSnapshot, InLine, Working
  <2>2. CASE ~(Finish(g, FALSE) /\ UNCHANGED temp_db)
    <3>1. /\ temp_db' = [temp_db EXCEPT ![g] = TRUE]
          /\ stage' = [stage EXCEPT ![g] = "write"]
          /\ UNCHANGED <<server, dump_generation, snapshot, succeeded, database,
                         dump_db>>
      BY <1>3, <2>2 DEF OpenTemp
    <3>2. OneDumpAtATime'
      BY <1>1, <3>1 DEF OneDumpAtATime, InLine, Working
    <3>. QED
      BY <1>1, <1>3, <3>1, <3>2
         DEF OpenTemp, Ordered, SnapshotsInOrder, LastSuccessOnDisk, FinalSnapshot
  <2>. QED BY <2>1, <2>2
<1>4. CASE WriteTemp(g)
  BY <1>1, <1>2, <1>4
     DEF WriteTemp, Ordered, OneDumpAtATime, SnapshotsInOrder,
         LastSuccessOnDisk, FinalSnapshot, InLine, Working
<1>5. CASE WriteFails(g)
  <2>1. OneDumpAtATime'
    BY <1>1, <1>2, <1>5 DEF WriteFails, Finish, OneDumpAtATime, InLine, Working
  <2>2. SnapshotsInOrder'
    BY <1>1, <1>2, <1>5 DEF WriteFails, Finish, SnapshotsInOrder, InLine
  <2>3. LastSuccessOnDisk'
    BY <1>1, <1>2, <1>5
       DEF WriteFails, Finish, OneDumpAtATime, LastSuccessOnDisk, InLine
  <2>4. FinalSnapshot'
    BY <1>1, <1>2, <1>5
       DEF WriteFails, Finish, OneDumpAtATime, FinalSnapshot, InLine
  <2>. QED BY <2>1, <2>2, <2>3, <2>4 DEF Ordered
<1>6. CASE RemoveDump(g)
  BY <1>1, <1>2, <1>6
     DEF RemoveDump, Ordered, OneDumpAtATime, SnapshotsInOrder,
         LastSuccessOnDisk, FinalSnapshot, InLine, Working, None
<1>7. CASE RenameTemp(g)
  <2>1. /\ dump_db' = g
        /\ stage' = [stage EXCEPT ![g] = "done"]
        /\ succeeded' = [succeeded EXCEPT ![g] = TRUE]
        /\ \A h \in Generation : h # g => temp_db'[h] = temp_db[h]
        /\ UNCHANGED <<snapshot, dump_generation, database>>
    BY <1>7 DEF RenameTemp, Finish, OneDumpAtATime
  <2>2. OneDumpAtATime'
    BY <1>1, <1>2, <2>1 DEF OneDumpAtATime, Working
  <2>3. SnapshotsInOrder'
    BY <1>1, <2>1 DEF SnapshotsInOrder
  <2>4. LastSuccessOnDisk'
    BY <1>1, <2>1, <2>2 DEF LastSuccessOnDisk, OneDumpAtATime
  <2>5. FinalSnapshot'
    BY <1>1, <1>7, <2>1 DEF FinalSnapshot, RenameTemp, Finish, InLine
  <2>. QED BY <2>2, <2>3, <2>4, <2>5 DEF Ordered
<1>. QED BY <1>3, <1>4, <1>5, <1>6, <1>7 DEF DumpStep

LEMMA PanicKeeps ==
  ASSUME UnforkedInv, TypeOK', Panic
  PROVE  Ordered'
<1>. USE DEF UnforkedInv, CompleteInv, TypeOK, Generation, Panic
<1>1. \A g \in Generation : stage'[g] \notin Working
  BY DEF OneDumpAtATime, InLine, Working
<1>2. OneDumpAtATime'
  BY <1>1 DEF OneDumpAtATime, Working, InLine
<1>. QED
  BY <1>2 DEF Ordered, SnapshotsInOrder, LastSuccessOnDisk, FinalSnapshot

LEMMA UnforkedStep ==
  ASSUME UNFORKED_CHECKPOINTS, UnforkedInv, TypeOK', [Next]_vars
  PROVE  Ordered'
<1>1. ASSUME NEW g \in Generation, DumpStep(g) PROVE Ordered'
  BY <1>1, DumpStepKeeps
<1>2. ASSUME NEW g \in Generation, ChildPanics(g) PROVE Ordered'
  BY <1>2 DEF ChildPanics, UnforkedInv, OneDumpAtATime
<1>3. CASE FlushAllNow \/ DumpAndExit
  BY <1>3, StartKeeps DEF FlushAllNow, DumpAndExit, ServerRuns
<1>4. CASE Panic
  BY <1>4, PanicKeeps
<1>5. CASE ForkFails
  BY <1>5 DEF ForkFails
<1>6. CASE \/ LoopTop \/ ReportDump \/ SetCheckpointTimer \/ TestFinished
           \/ ResetFinished \/ LoopBottom
  <2>1. Quiet
    BY <1>6 DEF Quiet, UnforkedInv, CompleteInv, TypeOK, LoopTop, ReportDump,
                SetCheckpointTimer, TestFinished, ResetFinished, LoopBottom,
                ServerRuns, disk, dumps
  <2>. QED BY <2>1, QuietKeeps
<1>7. CASE Sigchld \/ CheckpointSignal \/ ShutdownSignal \/ CheckpointTimer
  <2>1. Quiet
    BY <1>7 DEF Quiet, Sigchld, SigchldEnter, SigchldWait, SigchldReturn,
                CheckpointSignal, ShutdownSignal, CheckpointTimer, disk, dumps
  <2>. QED BY <2>1, QuietKeeps
<1>8. CASE ChangeDatabase \/ bf_dump_database \/ bf_shutdown
  <2>1. Quiet
    BY <1>8 DEF Quiet, UnforkedInv, CompleteInv, TypeOK, RunsTasks,
                ChangeDatabase, bf_dump_database, bf_shutdown, disk, dumps
  <2>. QED BY <2>1, QuietKeeps
<1>9. CASE PanicDumped \/ UNCHANGED vars
  <2>1. CASE PanicDumped
    <3>1. /\ server = "panic" /\ server' = "aborted"
          /\ UNCHANGED <<database, dump_generation, stage, snapshot, succeeded,
                         temp_db, dump_db, complete>>
      BY <2>1 DEF PanicDumped, dumps
    <3>2. database \in Nat
      BY DEF UnforkedInv, CompleteInv, TypeOK
    <3>3. Quiet
      BY <3>1, <3>2 DEF Quiet
    <3>. QED BY <3>3, QuietKeeps
  <2>2. CASE UNCHANGED vars
    <3>1. Quiet
      BY <2>2 DEF Quiet, vars, disk, dumps
    <3>. QED BY <3>1, QuietKeeps
  <2>. QED BY <1>9, <2>1, <2>2
<1>. QED
  BY <1>1, <1>2, <1>3, <1>4, <1>5, <1>6, <1>7, <1>8, <1>9 DEF Next, MainLoop

LEMMA UnforkedInvariant ==
  ASSUME ~FlushMayFail
  PROVE  Spec => [](UNFORKED_CHECKPOINTS => UnforkedInv)
<1>1. Init => UnforkedInv
  <2>1. Init => CompleteInv BY CompleteInit
  <2>. QED
    BY <2>1 DEF Init, UnforkedInv, OneDumpAtATime, SnapshotsInOrder,
                LastSuccessOnDisk, FinalSnapshot, Working, None, Generation
<1>2. UNFORKED_CHECKPOINTS /\ UnforkedInv /\ [Next]_vars => UnforkedInv'
  BY TypeStep, CompleteStep, UnforkedStep DEF UnforkedInv, CompleteInv, Ordered
<1>3. [Next]_vars => UNCHANGED UNFORKED_CHECKPOINTS
  BY DEF Next, SameBuild, vars
<1>4. (UNFORKED_CHECKPOINTS => UnforkedInv) /\ [Next]_vars
        => (UNFORKED_CHECKPOINTS => UnforkedInv)'
  BY <1>2, <1>3
<1>. QED BY <1>1, <1>4, PTL DEF Spec

\* With checkpoints made by the server itself, a database that dump_database()
\* has reported as saved remains on disk, under one of its names, until a
\* version at least as recent takes its place.
THEOREM SavedIsDurable ==
  ASSUME ~FlushMayFail
  PROVE  Spec => []DurableDump
BY UnforkedInvariant, UnforkedImplies, PTL

\* With checkpoints made by the server itself, db_shutdown() leaves the final
\* database in the dump file whenever its dump has succeeded.
THEOREM ShutdownIsSaved ==
  ASSUME ~FlushMayFail
  PROVE  Spec => []UnforkedShutdownSaves
BY UnforkedInvariant, UnforkedImplies, PTL
=============================================================================
