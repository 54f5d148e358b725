--------------------------- MODULE MCInputQueue ---------------------------
(* The instance of InputQueue for TLC.                                     *)
EXTENDS InputQueue

\* One kind for each of the two lists, and the in-band kind that changes when
\* the line is dequeued.  The code links all in-band kinds alike.
MCKinds == {"TASK_QUOTED", "TASK_OOB"}

\* The empty line of server_new_connection(), and one that crosses a mark.
MCLengths == {0, 2}
=============================================================================
