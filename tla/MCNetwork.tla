----------------------------- MODULE MCNetwork -----------------------------
(* The instance of Network for TLC: either the client types or it is sent  *)
(* output, but for one block together with one byte, because the two       *)
(* directions meet only when the handle is closed.                         *)
EXTENDS Network

MCNext == Next /\ accepted' * (Len(taken') + Len(unread')) <= 1
MCSpec == Init /\ [][MCNext]_vars
=============================================================================
