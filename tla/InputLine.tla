---------------------------- MODULE InputLine ----------------------------
(***************************************************************************)
(* Lines of input as tasks.c queues them: what the order of a queue of     *)
(* lines means to the three ways of taking one from it.                    *)
(***************************************************************************)
EXTENDS Naturals, Sequences, SequencesExt

\* enum task_kind, the kinds of lines.
LineKind == {"TASK_BINARY", "TASK_INBAND", "TASK_QUOTED", "TASK_OOB"}

\* enum dequeue_how
DequeueHow == {"DQ_FIRST", "DQ_OOB", "DQ_INBAND"}

IsOob(kind) == kind = "TASK_OOB"

\* The kind that a line has once it has been dequeued: the out-of-band prefix
\* means nothing while the disable-oob option is set, and a quoted line loses
\* its quote when it does.
DequeuedKind(kind, disable_oob) ==
  CASE kind = "TASK_OOB" /\ disable_oob -> "TASK_INBAND"
    [] kind = "TASK_QUOTED" -> "TASK_INBAND"
    [] OTHER -> kind

\* The lines that may be taken: DQ_OOB and DQ_INBAND choose among them unless
\* disable-oob makes every line an in-band one.
Wanted(kind, how, disable_oob) ==
  CASE how = "DQ_FIRST"  -> TRUE
    [] how = "DQ_OOB"    -> IsOob(kind) /\ ~disable_oob
    [] how = "DQ_INBAND" -> ~IsOob(kind) \/ disable_oob

\* The place in a queue of the line to take, or 0: the first that is wanted.
DequeueAt(kinds, how, disable_oob) ==
  SelectInSeq(kinds, LAMBDA k : Wanted(k, how, disable_oob))
=============================================================================
