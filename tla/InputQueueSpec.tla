-------------------------- MODULE InputQueueSpec --------------------------
(***************************************************************************)
(* What the input queue of a connection promises: a sequence of lines, of  *)
(* which the first, the first out-of-band one or the first in-band one can *)
(* be taken, and a connection that is told to stop sending while the lines *)
(* in the sequence are too long in total.                                  *)
(***************************************************************************)
EXTENDS InputLine, Sums

CONSTANTS Kind, Length, INPUT_HIWAT

INPUT_LOWAT == INPUT_HIWAT \div 2

VARIABLES
  input,             \* the lines, first one first
  disable_oob,       \* the connection option
  connected,
  input_suspended,   \* the connection has been told not to send
  dequeued           \* what the last dequeue_input_task() returned

specVars == <<input, disable_oob, connected, input_suspended, dequeued>>

Line    == [kind : Kind, length : Length]
Kinds   == [i \in DOMAIN input |-> input[i].kind]
Total(s) == SumTo([i \in DOMAIN s |-> s[i].length], Len(s))
Nothing == [kind |-> "none"]

Init ==
  /\ input = <<>>
  /\ disable_oob = FALSE
  /\ connected = TRUE
  /\ input_suspended = FALSE
  /\ dequeued = Nothing

Enqueue(line, at_front) ==
  /\ dequeued' = Nothing
  /\ UNCHANGED <<disable_oob, connected>>
  /\ input' = IF at_front THEN <<line>> \o input ELSE Append(input, line)
  /\ input_suspended' = (input_suspended
                           \/ (connected /\ Total(input') > INPUT_HIWAT))

Dequeue(how) ==
  LET i == DequeueAt(Kinds, how, disable_oob) IN
  /\ UNCHANGED <<disable_oob, connected>>
  /\ \/ /\ i = 0
        /\ dequeued' = Nothing
        /\ UNCHANGED <<input, input_suspended>>
     \/ /\ i # 0
        /\ dequeued' = [input[i] EXCEPT !.kind = DequeuedKind(@, disable_oob)]
        /\ input' = RemoveAt(input, i)
        /\ input_suspended' = (input_suspended
                                 /\ ~(connected /\ Total(input') < INPUT_LOWAT))

\* The options and the connection change, the lines stay.
Configure ==
  /\ dequeued' = Nothing
  /\ \/ disable_oob' \in BOOLEAN /\ UNCHANGED <<connected, input_suspended>>
     \/ input_suspended' = TRUE /\ connected /\ UNCHANGED <<disable_oob, connected>>
     \/ connected' = FALSE /\ UNCHANGED <<disable_oob, input_suspended>>
  /\ UNCHANGED input

Next ==
  \/ \E line \in Line, at_front \in BOOLEAN : Enqueue(line, at_front)
  \/ \E how \in DequeueHow : Dequeue(how)
  \/ Configure

Spec == Init /\ [][Next]_specVars
=============================================================================
