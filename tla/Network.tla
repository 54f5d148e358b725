------------------------------ MODULE Network ------------------------------
(***************************************************************************)
(* One network connection of the server: net_multi.c, with a client that   *)
(* takes what it is sent in pieces, types bytes that the server reads in   *)
(* pieces, and may go away at any moment.                                  *)
(*                                                                         *)
(* Output is a queue of blocks, written without blocking.  When a block    *)
(* would make the queue too long, the server first writes what it can and  *)
(* then throws away the oldest blocks; the next thing it writes is a       *)
(* notice with the number of blocks that are lost.  A write may take a     *)
(* part of a block, or nothing, or fail.                                   *)
(*                                                                         *)
(* Input is bytes that are made into characters and lines.  A line ends at *)
(* CR, at LF, or at the two together, and a read may end anywhere: between *)
(* CR and LF, or in the middle of a character of several bytes.            *)
(*                                                                         *)
(* A function of the server is one step, except that each write() of       *)
(* push_output() is a step of its own, because the client decides what it  *)
(* takes.                                                                  *)
(***************************************************************************)
EXTENDS Integers, Sequences, FiniteSets, SequencesExt, FiniteSetsExt, Sums

CONSTANTS
  MAX_QUEUED_OUTPUT, \* the most bytes of output the server keeps
  Length,            \* the lengths that blocks of output have: 0 for an empty
                     \* one, sent to a connection in binary mode
  MaxBlocks,         \* bound: how many blocks are sent
  MaxBytes           \* bound: how many bytes the client types

ASSUME NetworkAssumption ==
  /\ MAX_QUEUED_OUTPUT \in Nat
  /\ Length \subseteq Nat
  /\ MaxBlocks \in Nat /\ MaxBytes \in Nat

VARIABLES
  nhandle,       \* "none", "open", "closing" (inside server_close()), "closed"
  \* The output side of struct nhandle.
  output,        \* the queue of text_blocks: number and bytes left to write
  output_length,
  output_lines_flushed,
  \* The call that is going on.
  pc,            \* "idle", or push_output() called from "io", "enqueue", "close"
  line,          \* the block that enqueue_output() is to add
  \* The input side of struct nhandle.
  input,         \* the characters of the line that is not complete
  last_input_was_CR,
  excess_utf,    \* the bytes of the character that is not complete
  input_suspended,
  binary,
  \* The client and the network.
  gone,          \* the client has closed its end
  unread,        \* the bytes it has typed that the server has not read
  \* What has happened, for the properties.
  accepted,      \* how many blocks enqueue_output() has accepted
  wire,          \* the blocks and notices that have arrived in full
  taken,         \* the bytes the server has read
  received,      \* the lines the server has got
  plain          \* no character was split and the mode was never changed

outvars == <<output, output_length, output_lines_flushed, pc, line, accepted, wire>>
invars  == <<input, last_input_was_CR, excess_utf, taken, received, unread>>
vars == <<nhandle, outvars, invars, input_suspended, binary, gone, plain>>
-----------------------------------------------------------------------------
(* Characters.  A plain character is one byte, "u" is a character of two   *)
(* bytes, and "BS" a backspace.                                            *)

Char == {"x", "u", "CR", "LF", "BS"}
Bytes(c) == IF c = "u" THEN <<"u1", "u2">> ELSE <<c>>
my_is_printable(c) == c \in {"x", "u"}

\* clearance_utf(): the length of the character that starts with a byte.
clearance_utf(b) == IF b = "u1" THEN 2 ELSE 1

\* get_utf(): the character at position i of some bytes, and its length.  A
\* byte that starts no character is an invalid one by itself.
get_utf(s, i) ==
  IF s[i] = "u1" /\ i < Len(s) /\ s[i + 1] = "u2" THEN <<"u", 2>>
  ELSE IF s[i] \in {"u1", "u2"} THEN <<"invalid", 1>>
  ELSE <<s[i], 1>>
-----------------------------------------------------------------------------
(* Input.                                                                  *)

\* The characters that the loop of pull_input() takes from some bytes, and the
\* position of the first byte it leaves because its character is not complete.
Decode(s) ==
  LET from[i \in 1..Len(s) + 1] ==
        IF i > Len(s) \/ i + clearance_utf(s[i]) > Len(s) + 1
        THEN [chars |-> <<>>, rest |-> i]
        ELSE LET g == get_utf(s, i) IN
             [from[i + g[2]] EXCEPT !.chars = <<g[1]>> \o @]
  IN from[1]

\* What one character does to the input state.
EndsLine(c, cr) == c = "CR" \/ (c = "LF" /\ ~cr)
Take(h, c) ==
  [s   |-> IF my_is_printable(c) THEN Append(h.s, c)
           ELSE IF c = "BS" THEN (IF h.s = <<>> THEN <<>> ELSE Front(h.s))
           ELSE IF EndsLine(c, h.cr) THEN <<>> ELSE h.s,
   cr  |-> c = "CR",
   got |-> IF EndsLine(c, h.cr) THEN Append(h.got, h.s) ELSE h.got]

\* Mutant: whether the last character was CR is not kept from read to read.
pull_input_CR_forgotten(count) ==
  LET buffer == SubSeq(excess_utf \o SubSeq(unread, 1, count), 1, count)
      d == Decode(buffer)
      h == FoldLeft(Take, [s |-> input, cr |-> FALSE, got |-> received], d.chars)
  IN /\ nhandle = "open" /\ pc = "idle" /\ ~input_suspended
     /\ count \in 1..Len(unread)
     /\ unread' = SubSeq(unread, count + 1, Len(unread))
     /\ taken' = taken \o SubSeq(unread, 1, count)
     /\ plain' = (plain /\ excess_utf = <<>>)
     /\ received' = h.got /\ input' = h.s /\ last_input_was_CR' = h.cr
     /\ excess_utf' = SubSeq(buffer, d.rest, Len(buffer))
     /\ UNCHANGED <<nhandle, outvars, input_suspended, binary, gone>>

\* pull_input() when read() gives count bytes.  They are put behind the bytes
\* left over from the last read, but only the first count bytes of the whole
\* are looked at.
pull_input(count) ==
  LET buffer == SubSeq(excess_utf \o SubSeq(unread, 1, count), 1, count)
      d == Decode(buffer)
      h == FoldLeft(Take, [s |-> input, cr |-> last_input_was_CR, got |-> received],
                    d.chars)
  IN /\ nhandle = "open" /\ pc = "idle" /\ ~input_suspended
     /\ count \in 1..Len(unread)
     /\ unread' = SubSeq(unread, count + 1, Len(unread))
     /\ taken' = taken \o SubSeq(unread, 1, count)
     /\ plain' = (plain /\ excess_utf = <<>>)
     /\ IF binary
        THEN /\ received' = Append(received, input \o buffer)
             /\ input' = <<>> /\ last_input_was_CR' = FALSE /\ excess_utf' = <<>>
        ELSE /\ received' = h.got /\ input' = h.s /\ last_input_was_CR' = h.cr
             /\ excess_utf' = SubSeq(buffer, d.rest, Len(buffer))
     /\ UNCHANGED <<nhandle, outvars, input_suspended, binary, gone>>

\* The end of the input, or an error: network_process_io() calls
\* server_close() and then close_nhandle().
pull_input_fails ==
  /\ nhandle = "open" /\ pc = "idle" /\ ~input_suspended
  /\ gone /\ unread = <<>>
  /\ nhandle' = "closing"
  /\ UNCHANGED <<outvars, invars, input_suspended, binary, gone, plain>>

\* Called by tasks.c when too much input waits, and when it was used up.
network_suspend_input ==
  /\ nhandle = "open" /\ pc = "idle" /\ ~input_suspended /\ input_suspended' = TRUE
  /\ UNCHANGED <<nhandle, outvars, invars, binary, gone, plain>>
network_resume_input ==
  /\ nhandle = "open" /\ pc = "idle" /\ input_suspended /\ input_suspended' = FALSE
  /\ UNCHANGED <<nhandle, outvars, invars, binary, gone, plain>>

network_set_connection_binary ==
  /\ nhandle = "open" /\ pc = "idle" /\ binary' = ~binary
  /\ plain' = (plain /\ taken = <<>>)
  /\ UNCHANGED <<nhandle, outvars, invars, input_suspended, gone>>
-----------------------------------------------------------------------------
(* Output.                                                                 *)

Total(blocks) == SumTo([i \in DOMAIN blocks |-> blocks[i].length], Len(blocks))

\* The queue with a new block at the end.
Enqueued(blocks, len) == Append(blocks, [number |-> accepted + 1, length |-> len])

\* enqueue_output() up to the call of push_output(), and all of it when there
\* is room.  notify(), set_connection_option() for the echo of the client and
\* the messages of the server come here; the connection may be about to close.
enqueue_output(len, flush_ok) ==
  /\ nhandle \in {"open", "closing"} /\ pc = "idle" /\ accepted < MaxBlocks
  /\ IF output_length # 0 /\ output_length + len > MAX_QUEUED_OUTPUT
     THEN /\ pc' = "enqueue" /\ line' = [length |-> len, flush_ok |-> flush_ok]
          /\ UNCHANGED <<output, output_length, accepted>>
     ELSE /\ output' = Enqueued(output, len)
          /\ output_length' = output_length + len
          /\ accepted' = accepted + 1
          /\ UNCHANGED <<pc, line>>
  /\ UNCHANGED <<nhandle, output_lines_flushed, wire, invars, input_suspended,
                 binary, gone, plain>>

\* What is left of the queue after the oldest blocks are thrown away until
\* to_flush bytes are free.
Flushed(blocks, to_flush) ==
  LET enough == {k \in 0..Len(blocks) : Total(SubSeq(blocks, 1, k)) >= to_flush}
      k == IF enough = {} THEN Len(blocks) ELSE Min(enough)
  IN SubSeq(blocks, k + 1, Len(blocks))

\* Mutant: the size of the blocks thrown away is still counted.
flush_output_keeps_length ==
  LET to_flush == output_length + line.length - MAX_QUEUED_OUTPUT
      kept == Flushed(output, to_flush)
  IN IF to_flush > 0 /\ ~line.flush_ok
     THEN UNCHANGED <<output, output_length, output_lines_flushed, accepted>>
     ELSE /\ output' = Enqueued(kept, line.length)
          /\ output_length' = output_length + line.length
          /\ output_lines_flushed' = output_lines_flushed + Len(output) - Len(kept)
          /\ accepted' = accepted + 1

\* The rest of enqueue_output(), after push_output() has returned.
flush_output ==
  LET to_flush == output_length + line.length - MAX_QUEUED_OUTPUT
      kept == Flushed(output, to_flush)
  IN IF to_flush > 0 /\ ~line.flush_ok
     THEN UNCHANGED <<output, output_length, output_lines_flushed, accepted>>
     ELSE /\ output' = Enqueued(kept, line.length)
          /\ output_length' = Total(kept) + line.length
          /\ output_lines_flushed' = output_lines_flushed + Len(output) - Len(kept)
          /\ accepted' = accepted + 1

\* push_output() is called by network_process_io() when there is output.
push_output ==
  /\ nhandle = "open" /\ pc = "idle" /\ output # <<>>
  /\ pc' = "io"
  /\ UNCHANGED <<nhandle, output, output_length, output_lines_flushed, line,
                 accepted, wire, invars, input_suspended, binary, gone, plain>>

\* push_output() returns: to network_process_io(), which closes the connection
\* if it failed; to enqueue_output(); or to close_nhandle(), which frees
\* everything.
Return(ok) ==
  /\ pc' = "idle"
  /\ CASE pc = "io" ->
            /\ nhandle' = (IF ok THEN "open" ELSE "closing")
            /\ UNCHANGED <<output, output_length, output_lines_flushed, accepted>>
       [] pc = "enqueue" -> flush_output /\ UNCHANGED nhandle
       [] pc = "close" ->
            /\ nhandle' = "closed"
            /\ output' = <<>> /\ output_length' = 0
            /\ UNCHANGED <<output_lines_flushed, accepted>>
  /\ UNCHANGED <<line, wire>>

\* Mutant: a notice of which only a part is taken is not sent again.
write_notice_once ==
  /\ pc # "idle" /\ output_lines_flushed > 0
  /\ \/ /\ output_lines_flushed' = 0
        /\ \/ wire' = Append(wire, [notice |-> output_lines_flushed, number |-> 0])
           \/ UNCHANGED wire
        /\ UNCHANGED <<nhandle, output, output_length, pc, line, accepted>>
     \/ Return(TRUE)
     \/ gone /\ Return(FALSE)
  /\ UNCHANGED <<invars, input_suspended, binary, gone, plain>>

\* write() of the notice: only if the whole of it is taken is the count reset;
\* otherwise push_output() is over, and fails if nothing was taken and that
\* was not because the client is slow.
write_notice ==
  /\ pc # "idle" /\ output_lines_flushed > 0
  /\ \/ /\ output_lines_flushed' = 0
        /\ wire' = Append(wire, [notice |-> output_lines_flushed, number |-> 0])
        /\ UNCHANGED <<nhandle, output, output_length, pc, line, accepted>>
     \/ Return(TRUE)
     \/ gone /\ Return(FALSE)
  /\ UNCHANGED <<invars, input_suspended, binary, gone, plain>>

\* write() of the first block takes count bytes of it, or would block, or
\* fails; with no block left push_output() is over.  Only of an empty block are
\* no bytes taken.
write_block(count) ==
  /\ pc # "idle" /\ output_lines_flushed = 0 /\ output # <<>>
  /\ count \in 0..Head(output).length /\ (count = 0 <=> Head(output).length = 0)
  /\ output_length' = output_length - count
  /\ IF count = Head(output).length
     THEN /\ output' = Tail(output)
          /\ wire' = Append(wire, [notice |-> 0, number |-> Head(output).number])
     ELSE output' = [output EXCEPT ![1].length = @ - count] /\ UNCHANGED wire
  /\ UNCHANGED <<nhandle, output_lines_flushed, pc, line, accepted, invars,
                 input_suspended, binary, gone, plain>>

write_ends ==
  /\ pc # "idle" /\ output_lines_flushed = 0
  /\ \/ Return(TRUE)
     \/ gone /\ output # <<>> /\ Return(FALSE)
  /\ UNCHANGED <<invars, input_suspended, binary, gone, plain>>
-----------------------------------------------------------------------------
(* The connection and the client.                                          *)

Init ==
  /\ nhandle = "none"
  /\ output = <<>> /\ output_length = 0 /\ output_lines_flushed = 0
  /\ pc = "idle" /\ line = [length |-> 0, flush_ok |-> TRUE]
  /\ input = <<>> /\ last_input_was_CR = FALSE /\ excess_utf = <<>>
  /\ input_suspended = FALSE /\ binary = FALSE
  /\ gone = FALSE /\ unread = <<>>
  /\ accepted = 0 /\ wire = <<>> /\ taken = <<>> /\ received = <<>> /\ plain = TRUE

\* accept_new_connection(): make_new_connection(), with input suspended until
\* the first task of the connection has run; or, when no descriptor is left,
\* a handle that is closed after server_refuse_connection().
accept_new_connection ==
  /\ nhandle = "none"
  /\ \/ nhandle' = "open" /\ input_suspended' = TRUE
     \/ nhandle' = "closing" /\ UNCHANGED input_suspended
  /\ UNCHANGED <<outvars, invars, binary, gone, plain>>

\* network_close(), or close_nhandle() after server_close(): one more
\* push_output(), and the handle is freed.
close_nhandle ==
  /\ nhandle \in {"open", "closing"} /\ pc = "idle"
  /\ pc' = "close"
  /\ UNCHANGED <<nhandle, output, output_length, output_lines_flushed, line,
                 accepted, wire, invars, input_suspended, binary, gone, plain>>

Type(c) ==
  /\ nhandle \in {"open", "closing"} /\ ~gone
  /\ Len(taken) + Len(unread) + Len(Bytes(c)) <= MaxBytes
  /\ unread' = unread \o Bytes(c)
  /\ UNCHANGED <<nhandle, outvars, input, last_input_was_CR, excess_utf, taken,
                 received, input_suspended, binary, gone, plain>>

Disconnect ==
  /\ ~gone /\ gone' = TRUE
  /\ UNCHANGED <<nhandle, outvars, invars, input_suspended, binary, plain>>

Next ==
  \/ accept_new_connection \/ close_nhandle
  \/ \E count \in 1..MaxBytes : pull_input(count)
  \/ pull_input_fails
  \/ network_suspend_input \/ network_resume_input
  \/ network_set_connection_binary
  \/ \E len \in Length, flush_ok \in BOOLEAN : enqueue_output(len, flush_ok)
  \/ push_output
  \/ write_notice \/ write_ends
  \/ \E count \in 0..Max(Length) : write_block(count)
  \/ \E c \in Char : Type(c)
  \/ Disconnect

Spec == Init /\ [][Next]_vars
-----------------------------------------------------------------------------
\* The length of the queue is what it is said to be, and within the limit
\* unless a single block is longer than that and any others are empty
\* (enqueue_output() against the partial writes of push_output()).
OutputIsBounded ==
  /\ output_length = Total(output)
  /\ \/ output_length <= MAX_QUEUED_OUTPUT
     \/ \E i \in DOMAIN output : output_length = output[i].length

\* The client knows what it has missed: when a block has arrived in full, the
\* notices that have arrived before it count exactly the earlier blocks that
\* have not, however the blocks and notices were cut in pieces and whatever
\* was thrown away between two attempts to send a notice.  In particular
\* blocks arrive in the order in which they were sent, and none twice.
LossIsReported ==
  \A k \in DOMAIN wire :
    wire[k].number # 0 =>
      LET before == 1..(k - 1) IN
      /\ Cardinality({i \in 1..(wire[k].number - 1) :
                        \A j \in before : wire[j].number # i})
           = SumTo([j \in before |-> wire[j].notice], k - 1)
      /\ \A j \in before : wire[j].number # wire[k].number

\* The reference for the input: the lines of a text are what stands between
\* the ends of lines, and a character is in its line unless a backspace takes
\* it away.
LineEnds(text) ==
  {i \in DOMAIN text : text[i] = "CR" \/ (text[i] = "LF" /\ (i = 1 \/ text[i-1] # "CR"))}
Edited(text) ==
  LET Stays(j) ==
        /\ my_is_printable(text[j])
        /\ \A k \in j..Len(text) :
             Quantify((j + 1)..k, LAMBDA i : text[i] = "BS")
               <= Quantify((j + 1)..k, LAMBDA i : my_is_printable(text[i]))
  IN [n \in 1..Quantify(DOMAIN text, Stays) |->
        text[CHOOSE j \in DOMAIN text :
               Stays(j) /\ Quantify(1..j, Stays) = n]]
LinesOf(text) ==
  LET ends == LineEnds(text)
      line_at(e) == LET earlier == {x \in ends : x < e}
                        start == IF earlier = {} THEN 1 ELSE Max(earlier) + 1
                    IN Edited(SubSeq(text, start, e - 1))
  IN [n \in 1..Cardinality(ends) |->
        line_at(CHOOSE e \in ends : Cardinality({x \in ends : x <= e}) = n)]

\* The lines the server gets do not depend on how the bytes came in pieces:
\* they are the lines of the text, or in binary mode all the bytes, as long as
\* no read has ended within a character and the mode was set before the first
\* byte (pull_input()).
InputAsTyped ==
  plain => IF binary THEN FlattenSeq(received) = taken
           ELSE received = LinesOf(Decode(taken).chars)
=============================================================================
