--------------------------- MODULE NetworkProofs ---------------------------
(***************************************************************************)
(* Theorems about the output of a connection, for every MAX_QUEUED_OUTPUT, *)
(* all lengths of blocks and any number of them: the queue keeps within    *)
(* its limit, and the client is told what it has missed.                   *)
(***************************************************************************)
EXTENDS Network, SumTheorems, FiniteSetTheorems, SequenceTheorems

Block == [number : Nat, length : Nat]

-----------------------------------------------------------------------------
(* The length of a queue                                                   *)

\* Total adds up the lengths of the blocks.
LEMMA TotalIs ==
  ASSUME NEW b \in Seq(Block), NEW f, \A i \in 1..Len(b) : f[i] = b[i].length
  PROVE  Total(b) = SumTo(f, Len(b))
<1>. DEFINE g == [i \in DOMAIN b |-> b[i].length]
<1>1. Len(b) \in Nat /\ \A i \in 1..Len(b) : g[i] = f[i]
  OBVIOUS
<1>2. Total(b) = SumTo(g, Len(b))
  BY DEF Total
<1>. HIDE DEF g
<1>. QED BY <1>1, <1>2, SumSame

\* The lengths as a function, for citing the facts about sums.
LEMMA Lengths ==
  ASSUME NEW b \in Seq(Block)
  PROVE  \E f : /\ \A i \in 1..Len(b) : f[i] = b[i].length /\ f[i] \in Nat
                /\ Total(b) = SumTo(f, Len(b))
<1>. DEFINE f == [i \in 1..Len(b) |-> b[i].length]
<1>1. \A i \in 1..Len(b) : b[i] \in Block
  OBVIOUS
<1>2. \A x \in Block : x.length \in Nat
  BY DEF Block
<1>3. \A i \in 1..Len(b) : f[i] = b[i].length /\ f[i] \in Nat
  BY <1>1, <1>2
<1>. HIDE DEF f
<1>. QED BY <1>3, TotalIs

LEMMA TotalNat ==
  ASSUME NEW b \in Seq(Block)
  PROVE  Total(b) \in Nat
<1>1. PICK f : /\ \A i \in 1..Len(b) : f[i] = b[i].length /\ f[i] \in Nat
               /\ Total(b) = SumTo(f, Len(b))
  BY Lengths
<1>2. Len(b) \in Nat
  OBVIOUS
<1>. QED BY <1>1, <1>2, SumNat

LEMMA TotalEmpty == Total(<<>>) = 0
BY SumEmpty DEF Total

\* No block is longer than the queue.
LEMMA TotalAtLeast ==
  ASSUME NEW b \in Seq(Block), NEW i \in 1..Len(b)
  PROVE  b[i].length <= Total(b)
<1>1. PICK f : /\ \A j \in 1..Len(b) : f[j] = b[j].length /\ f[j] \in Nat
               /\ Total(b) = SumTo(f, Len(b))
  BY Lengths
<1>. DEFINE g == [j \in 1..(Len(b) - 1) |-> IF j <= i - 1 THEN f[j] ELSE f[j + 1]]
<1>2. PICK n \in Nat, p \in Nat : n = Len(b) /\ p = i - 1 /\ p < n /\ i = p + 1
  OBVIOUS
<1>3. \A j \in 1..(n - 1) : g[j] = (IF j <= p THEN f[j] ELSE f[j + 1]) /\ g[j] \in Nat
  BY <1>1, <1>2
<1>. HIDE DEF g
<1>4. \A j \in 1..n : f[j] \in Nat
  BY <1>1, <1>2
<1>5. SumTo(f, n) = SumTo(g, n - 1) + f[p + 1]
  <2>1. \A j \in 1..(n - 1) : g[j] = IF j <= p THEN f[j] ELSE f[j + 1]
    BY <1>3
  <2>. QED BY ONLY <1>2, <1>4, <2>1, SumRemove, ZenonT(40)
<1>6. SumTo(g, n - 1) \in Nat
  BY <1>2, <1>3, SumNat
<1>. QED BY <1>1, <1>2, <1>5, <1>6

\* A queue is its first k blocks and the others.
LEMMA TotalSplit ==
  ASSUME NEW b \in Seq(Block), NEW first \in Seq(Block), NEW rest \in Seq(Block),
         Len(b) = Len(first) + Len(rest),
         \A i \in 1..Len(first) : first[i] = b[i],
         \A i \in 1..Len(rest) : rest[i] = b[Len(first) + i]
  PROVE  Total(b) = Total(first) + Total(rest)
<1>1. PICK f : /\ \A i \in 1..Len(b) : f[i] = b[i].length /\ f[i] \in Nat
               /\ Total(b) = SumTo(f, Len(b))
  BY Lengths
<1>2. PICK h : /\ \A i \in 1..Len(rest) : h[i] = rest[i].length /\ h[i] \in Nat
               /\ Total(rest) = SumTo(h, Len(rest))
  BY Lengths
<1>. DEFINE k == Len(first)
            n == Len(rest)
<1>3. k \in Nat /\ n \in Nat /\ Len(b) = k + n
  OBVIOUS
<1>4. Total(first) = SumTo(f, k)
  BY <1>1, <1>3, TotalIs
<1>5. \A i \in 1..n : h[i] = f[k + i]
  <2>. TAKE i \in 1..n
  <2>1. h[i] = b[k + i].length
    BY <1>2
  <2>2. k + i \in 1..Len(b)
    BY <1>3
  <2>. QED BY <1>1, <2>1, <2>2
<1>6. Total(b) = SumTo(f, k + n) /\ Total(rest) = SumTo(h, n)
  BY <1>1, <1>2, <1>3
<1>7. \A i \in 1..(k + n) : f[i] \in Nat
  BY <1>1, <1>3
<1>. HIDE DEF k, n
<1>8. SumTo(f, k + n) = SumTo(f, k) + SumTo(h, n)
  BY <1>3, <1>5, <1>7, SumSplit, ZenonT(40)
<1>. QED BY <1>4, <1>6, <1>8

\* A block more at the end.
LEMMA TotalAppend ==
  ASSUME NEW b \in Seq(Block), NEW x \in Block
  PROVE  Total(Append(b, x)) = Total(b) + x.length
<1>. DEFINE a == Append(b, x)
            n == Len(b)
<1>1. a \in Seq(Block) /\ n \in Nat /\ Len(a) = n + 1
  OBVIOUS
<1>2. a[n + 1] = x /\ \A i \in 1..n : a[i] = b[i]
  OBVIOUS
<1>. HIDE DEF a
<1>3. PICK f : /\ \A i \in 1..Len(a) : f[i] = a[i].length /\ f[i] \in Nat
               /\ Total(a) = SumTo(f, Len(a))
  BY <1>1, Lengths
<1>4. Total(b) = SumTo(f, n)
  BY <1>1, <1>2, <1>3, TotalIs
<1>5. SumTo(f, n + 1) = SumTo(f, n) + f[n + 1]
  BY <1>1, SumNext
<1>. QED BY <1>1, <1>2, <1>3, <1>4, <1>5 DEF a

\* The first block and the others.
LEMMA TotalFirst ==
  ASSUME NEW b \in Seq(Block), NEW rest \in Seq(Block), Len(b) = Len(rest) + 1,
         \A i \in 1..Len(rest) : rest[i] = b[i + 1]
  PROVE  Total(b) = b[1].length + Total(rest)
<1>1. PICK f : /\ \A i \in 1..Len(b) : f[i] = b[i].length /\ f[i] \in Nat
               /\ Total(b) = SumTo(f, Len(b))
  BY Lengths
<1>2. PICK h : /\ \A i \in 1..Len(rest) : h[i] = rest[i].length /\ h[i] \in Nat
               /\ Total(rest) = SumTo(h, Len(rest))
  BY Lengths
<1>3. Len(rest) \in Nat
  OBVIOUS
<1>4. \A i \in 1..Len(rest) : h[i] = f[i + 1]
  BY <1>1, <1>2, <1>3
<1>5. SumTo(f, Len(rest) + 1) = f[1] + SumTo(h, Len(rest))
  BY <1>1, <1>3, <1>4, SumFirst, ZenonT(40)
<1>. QED BY <1>1, <1>2, <1>3, <1>5

\* The first block is written, or a part of it.
LEMMA TotalWritten ==
  ASSUME NEW b \in Seq(Block), b # <<>>, NEW count \in 0..Head(b).length
  PROVE  /\ Tail(b) \in Seq(Block) /\ Len(Tail(b)) = Len(b) - 1
         /\ count = Head(b).length => Total(Tail(b)) = Total(b) - count
         /\ count # Head(b).length =>
              LET c == [b EXCEPT ![1].length = @ - count]
              IN /\ c \in Seq(Block) /\ Len(c) = Len(b)
                 /\ Total(c) = Total(b) - count
                 /\ c[1].length = b[1].length - count
                 /\ \A i \in 1..Len(b) : c[i].number = b[i].number
<1>. DEFINE rest == Tail(b)
<1>1. /\ rest \in Seq(Block) /\ Len(b) = Len(rest) + 1 /\ Len(rest) \in Nat
      /\ Len(b) \in Nat \ {0} /\ Head(b) = b[1] /\ b[1] \in Block
      /\ \A i \in 1..Len(rest) : rest[i] = b[i + 1]
  OBVIOUS
<1>. HIDE DEF rest
<1>2. Total(b) = b[1].length + Total(rest) /\ Total(rest) \in Nat
  BY <1>1, TotalFirst, TotalNat
<1>3. b[1].length \in Nat
  BY <1>1 DEF Block
<1>4. ASSUME count # Head(b).length
      PROVE  LET c == [b EXCEPT ![1].length = @ - count]
             IN /\ c \in Seq(Block) /\ Len(c) = Len(b)
                /\ Total(c) = Total(b) - count
                /\ c[1].length = b[1].length - count
                /\ \A i \in 1..Len(b) : c[i].number = b[i].number
  <2>. DEFINE x == [b[1] EXCEPT !.length = @ - count]
              c == [b EXCEPT ![1] = x]
  <2>1. x \in Block /\ x.length = b[1].length - count /\ x.number = b[1].number
    <3>1. b[1].length - count \in Nat
      BY <1>1, <1>3, <1>4
    <3>. QED BY <1>1, <3>1 DEF Block
  <2>. HIDE DEF x
  <2>2. /\ c \in Seq(Block) /\ Len(c) = Len(b) /\ c[1] = x
        /\ \A i \in 1..Len(b) : i # 1 => c[i] = b[i]
    BY <1>1, <2>1, ExceptSeq
  <2>. HIDE DEF c
  <2>3. \A i \in 1..Len(rest) : rest[i] = c[i + 1]
    BY <1>1, <2>2
  <2>4. Total(c) = c[1].length + Total(rest)
    BY <1>1, <2>2, <2>3, TotalFirst
  <2>5. Total(c) = Total(b) - count
    BY <1>2, <1>3, <2>1, <2>2, <2>4
  <2>6. [b EXCEPT ![1].length = @ - count] = c
    BY DEF c, x
  <2>. QED BY <1>1, <2>1, <2>2, <2>5, <2>6
<1>. QED BY <1>1, <1>2, <1>3, <1>4 DEF rest

\* What flush_output() keeps is the end of the queue, short enough to free
\* to_flush bytes if anything is kept at all.
LEMMA FlushedIs ==
  ASSUME NEW b \in Seq(Block), NEW to_flush \in Int, NEW kept, kept = Flushed(b, to_flush)
  PROVE  /\ kept \in Seq(Block) /\ Len(kept) <= Len(b)
         /\ \A i \in 1..Len(kept) : kept[i] = b[Len(b) - Len(kept) + i]
         /\ Total(kept) <= Total(b) - to_flush \/ Len(kept) = 0
<1>. DEFINE enough == {k \in 0..Len(b) : Total(SubSeq(b, 1, k)) >= to_flush}
            k == IF enough = {} THEN Len(b) ELSE Min(enough)
            first == SubSeq(b, 1, k)
<1>0. Len(b) \in Nat
  OBVIOUS
<1>1. enough # {} => k \in enough
  <2>1. enough \subseteq Nat
    BY <1>0
  <2>. HIDE DEF enough
  <2>. QED BY <2>1, LeastElement DEF Min
<1>2. k \in 0..Len(b) /\ (Total(first) >= to_flush \/ k = Len(b))
  BY <1>0, <1>1
<1>3. kept = SubSeq(b, k + 1, Len(b))
  BY DEF Flushed
<1>. HIDE DEF k, enough
<1>4. /\ first \in Seq(Block) /\ Len(first) = k
      /\ \A i \in 1..k : first[i] = b[i]
  BY <1>0, <1>2
<1>5. /\ kept \in Seq(Block) /\ Len(kept) = Len(b) - k
      /\ \A i \in 1..Len(kept) : kept[i] = b[k + i]
  BY <1>0, <1>2, <1>3
<1>. HIDE DEF first
<1>6. Total(b) = Total(first) + Total(kept)
  <2>1. Len(b) = Len(first) + Len(kept)
    BY <1>0, <1>2, <1>4, <1>5
  <2>2. \A i \in 1..Len(kept) : kept[i] = b[Len(first) + i]
    BY <1>4, <1>5
  <2>. QED BY <1>4, <1>5, <2>1, <2>2, TotalSplit
<1>7. Total(b) \in Nat /\ Total(first) \in Nat /\ Total(kept) \in Nat
  BY <1>4, <1>5, TotalNat
<1>. QED BY <1>0, <1>2, <1>5, <1>6, <1>7

-----------------------------------------------------------------------------
(* The queue keeps within its limit                                        *)

Item == [notice : Nat, number : Nat]

OutputType ==
  /\ nhandle \in {"none", "open", "closing", "closed"}
  /\ pc \in {"idle", "io", "enqueue", "close"}
  /\ output \in Seq(Block)
  /\ output_lines_flushed \in Nat
  /\ accepted \in Nat
  /\ line \in [length : Nat, flush_ok : BOOLEAN]
  /\ wire \in Seq(Item)

OutputInv == OutputType /\ OutputIsBounded

\* A block more is within the limit, or all there is.
LEMMA EnqueuedKeeps ==
  ASSUME OutputType, NEW b \in Seq(Block), NEW len \in Nat,
         Total(b) + len <= MAX_QUEUED_OUTPUT \/ Total(b) = 0,
         output' = Enqueued(b, len), output_length' = Total(b) + len
  PROVE  output' \in Seq(Block) /\ OutputIsBounded'
<1>. DEFINE x == [number |-> accepted + 1, length |-> len]
<1>1. x \in Block /\ x.length = len
  BY DEF Block, OutputType
<1>. HIDE DEF x
<1>2. output' = Append(b, x)
  BY DEF Enqueued, x
<1>3. output' \in Seq(Block) /\ Len(output') = Len(b) + 1
  BY <1>1, <1>2
<1>4. Total(output') = Total(b) + len
  BY <1>1, <1>2, TotalAppend
<1>5. ASSUME Total(b) = 0
      PROVE  \E i \in DOMAIN output' : output_length' = output'[i].length
  <2>1. Len(b) + 1 \in DOMAIN output' /\ output'[Len(b) + 1].length = len
    BY <1>1, <1>2, <1>3
  <2>. QED BY <1>5, <2>1
<1>. QED BY <1>3, <1>4, <1>5 DEF OutputIsBounded

\* The rest of enqueue_output(), after push_output() has returned.
LEMMA FlushOutputKeeps ==
  ASSUME OutputInv, pc = "enqueue", flush_output
  PROVE  /\ output' \in Seq(Block)
         /\ OutputIsBounded'
         /\ output_lines_flushed' \in Nat
         /\ accepted' \in Nat
<1>. USE DEF OutputInv, OutputType
<1>. DEFINE to_flush == output_length + line.length - MAX_QUEUED_OUTPUT
            kept == Flushed(output, to_flush)
<1>1. /\ output_length \in Nat /\ output_length = Total(output)
      /\ line.length \in Nat /\ MAX_QUEUED_OUTPUT \in Nat /\ to_flush \in Int
  BY TotalNat, NetworkAssumption DEF OutputIsBounded
<1>2. CASE to_flush > 0 /\ ~line.flush_ok
  BY <1>2 DEF flush_output, OutputIsBounded
<1>3. CASE ~(to_flush > 0 /\ ~line.flush_ok)
  <2>1. /\ output' = Enqueued(kept, line.length)
        /\ output_length' = Total(kept) + line.length
        /\ output_lines_flushed' = output_lines_flushed + Len(output) - Len(kept)
        /\ accepted' = accepted + 1
    BY <1>3 DEF flush_output
  <2>2. /\ kept \in Seq(Block) /\ Len(kept) <= Len(output)
        /\ Total(kept) <= output_length - to_flush \/ Len(kept) = 0
    BY <1>1, FlushedIs
  <2>3. Total(kept) + line.length <= MAX_QUEUED_OUTPUT \/ Total(kept) = 0
    <3>. HIDE DEF kept
    <3>1. Total(kept) \in Nat
      BY <2>2, TotalNat
    <3>2. Len(kept) = 0 => Total(kept) = 0
      BY <2>2, TotalEmpty
    <3>. QED BY <1>1, <2>2, <3>1, <3>2
  <2>. HIDE DEF kept
  <2>4. output' \in Seq(Block) /\ OutputIsBounded'
    BY <1>1, <2>1, <2>2, <2>3, EnqueuedKeeps
  <2>5. Len(output) \in Nat /\ Len(kept) \in Nat
    BY <2>2
  <2>. QED BY <2>1, <2>2, <2>4, <2>5
<1>. QED BY <1>2, <1>3

LEMMA ReturnKeeps ==
  ASSUME OutputInv, pc # "idle", NEW ok, Return(ok)
  PROVE  OutputInv'
<1>. USE DEF OutputInv, OutputType
<1>1. pc' = "idle" /\ UNCHANGED <<line, wire>>
  BY DEF Return
<1>2. CASE pc = "io"
  BY <1>1, <1>2 DEF Return, OutputIsBounded
<1>3. CASE pc = "enqueue"
  <2>1. flush_output /\ UNCHANGED nhandle
    BY <1>3 DEF Return
  <2>. QED BY <1>1, <1>3, <2>1, FlushOutputKeeps
<1>4. CASE pc = "close"
  <2>1. /\ nhandle' = "closed" /\ output' = <<>> /\ output_length' = 0
        /\ UNCHANGED <<output_lines_flushed, accepted>>
    BY <1>4 DEF Return
  <2>2. OutputIsBounded'
    BY <2>1, TotalEmpty, NetworkAssumption DEF OutputIsBounded
  <2>3. output' \in Seq(Block)
    BY <2>1
  <2>. QED BY <1>1, <2>1, <2>2, <2>3
<1>. QED BY <1>2, <1>3, <1>4

LEMMA OutputInit == Init => OutputInv
<1>. SUFFICES ASSUME Init PROVE OutputInv
  OBVIOUS
<1>1. OutputIsBounded
  BY TotalEmpty, NetworkAssumption DEF Init, OutputIsBounded
<1>. QED BY <1>1 DEF Init, OutputInv, OutputType

LEMMA OutputStep == OutputInv /\ [Next]_vars => OutputInv'
<1>. SUFFICES ASSUME OutputInv, [Next]_vars PROVE OutputInv'
  OBVIOUS
<1>1. ASSUME UNCHANGED outvars, nhandle' \in {"none", "open", "closing", "closed"}
      PROVE  OutputInv'
  BY <1>1 DEF OutputInv, OutputType, OutputIsBounded, outvars
<1>2. CASE accept_new_connection
  BY <1>1, <1>2 DEF accept_new_connection, OutputInv, OutputType
<1>3. CASE close_nhandle
  BY <1>3 DEF close_nhandle, OutputInv, OutputType, OutputIsBounded
<1>4. ASSUME NEW count \in 1..MaxBytes, pull_input(count) PROVE OutputInv'
  BY <1>1, <1>4 DEF pull_input, OutputInv, OutputType
<1>5. CASE \/ pull_input_fails \/ network_suspend_input \/ network_resume_input
           \/ network_set_connection_binary \/ Disconnect
  BY <1>1, <1>5 DEF pull_input_fails, network_suspend_input, network_resume_input,
                    network_set_connection_binary, Disconnect, OutputInv, OutputType
<1>6. ASSUME NEW c \in Char, Type(c) PROVE OutputInv'
  BY <1>1, <1>6 DEF Type, OutputInv, OutputType
<1>7. ASSUME NEW len \in Length, NEW flush_ok \in BOOLEAN, enqueue_output(len, flush_ok)
      PROVE  OutputInv'
  <2>0. len \in Nat
    BY NetworkAssumption
  <2>. USE DEF OutputInv, OutputType
  <2>1. CASE output_length # 0 /\ output_length + len > MAX_QUEUED_OUTPUT
    BY <1>7, <2>0, <2>1 DEF enqueue_output, OutputIsBounded
  <2>2. CASE ~(output_length # 0 /\ output_length + len > MAX_QUEUED_OUTPUT)
    <3>1. /\ output' = Enqueued(output, len) /\ output_length' = Total(output) + len
          /\ accepted' = accepted + 1
          /\ UNCHANGED <<nhandle, pc, line, output_lines_flushed, wire>>
      BY <1>7, <2>2 DEF enqueue_output, OutputIsBounded
    <3>2. Total(output) + len <= MAX_QUEUED_OUTPUT \/ Total(output) = 0
      BY <2>0, <2>2, TotalNat, NetworkAssumption DEF OutputIsBounded
    <3>3. output' \in Seq(Block) /\ OutputIsBounded'
      BY <2>0, <3>1, <3>2, EnqueuedKeeps
    <3>. QED BY <3>1, <3>3
  <2>. QED BY <2>1, <2>2
<1>8. CASE push_output
  BY <1>8 DEF push_output, OutputInv, OutputType, OutputIsBounded
<1>9. CASE write_notice
  <2>1. CASE \E ok : Return(ok)
    BY <1>9, <2>1, ReturnKeeps DEF write_notice
  <2>2. CASE ~\E ok : Return(ok)
    <3>1. /\ output_lines_flushed' = 0
          /\ wire' = Append(wire, [notice |-> output_lines_flushed, number |-> 0])
          /\ UNCHANGED <<nhandle, output, output_length, pc, line, accepted>>
      BY <1>9, <2>2 DEF write_notice
    <3>2. [notice |-> output_lines_flushed, number |-> 0] \in Item
      BY DEF OutputInv, OutputType, Item
    <3>3. wire' \in Seq(Item)
      BY <3>1, <3>2 DEF OutputInv, OutputType
    <3>. QED BY <3>1, <3>3 DEF OutputInv, OutputType, OutputIsBounded
  <2>. QED BY <2>1, <2>2
<1>10. CASE write_ends
  BY <1>10, ReturnKeeps DEF write_ends
<1>11. ASSUME NEW count \in 0..Max(Length), write_block(count) PROVE OutputInv'
  <2>. USE DEF OutputInv, OutputType
  <2>1. /\ output # <<>>
        /\ count \in 0..Head(output).length /\ (count = 0 <=> Head(output).length = 0)
        /\ output_length' = output_length - count
        /\ UNCHANGED <<nhandle, output_lines_flushed, pc, line, accepted>>
    BY <1>11 DEF write_block
  <2>2. Head(output) \in Block /\ Len(output) \in Nat /\ Len(output) # 0
    BY <2>1
  <2>3. Head(output).length \in Nat /\ Head(output).number \in Nat
    BY <2>2 DEF Block
  <2>4. Total(output) \in Nat /\ output_length = Total(output)
    BY TotalNat DEF OutputIsBounded
  <2>7. count \in 0..Head(output).length
    BY <2>1
  <2>5. CASE count = Head(output).length
    <3>1. /\ output' = Tail(output)
          /\ wire' = Append(wire, [notice |-> 0, number |-> Head(output).number])
      BY <1>11, <2>5 DEF write_block
    <3>2. wire' \in Seq(Item)
      BY <2>3, <3>1 DEF Item
    <3>3. /\ output' \in Seq(Block) /\ Len(output') = Len(output) - 1
          /\ Total(output') = Total(output) - count
      BY <2>1, <2>5, <2>7, <3>1, TotalWritten
    <3>4. ASSUME NEW i \in DOMAIN output, output_length = output[i].length
          PROVE  OutputIsBounded'
      <4>1. CASE i = 1
        BY <2>1, <2>2, <2>3, <2>4, <2>5, <3>3, <3>4, <4>1, NetworkAssumption
        DEF OutputIsBounded
      <4>2. CASE i # 1
        <5>1. PICK k \in DOMAIN output' : output'[k] = output[i]
          <6>1. i - 1 \in DOMAIN output' /\ output'[i - 1] = output[i]
            BY <2>2, <3>1, <3>3, <3>4, <4>2
          <6>. QED BY <6>1
        <5>2. output[i].length <= Total(output') /\ output[i].length \in Nat
          <6>1. k \in 1..Len(output') /\ output'[k] \in Block
            BY <3>3, <5>1
          <6>. QED BY <3>3, <5>1, <6>1, TotalAtLeast DEF Block
        <5>3. count = 0
          BY <2>3, <2>4, <2>5, <3>3, <3>4, <5>2
        <5>. QED BY <2>1, <2>4, <3>3, <3>4, <5>1, <5>3 DEF OutputIsBounded
      <4>. QED BY <4>1, <4>2
    <3>5. OutputIsBounded'
      BY <2>1, <2>2, <2>3, <2>4, <2>7, <3>3, <3>4, NetworkAssumption DEF OutputIsBounded
    <3>. QED BY <2>1, <3>2, <3>3, <3>5
  <2>6. CASE count # Head(output).length
    <3>1. output' = [output EXCEPT ![1].length = @ - count] /\ UNCHANGED wire
      BY <1>11, <2>6 DEF write_block
    <3>2. /\ output' \in Seq(Block) /\ Len(output') = Len(output)
          /\ Total(output') = Total(output) - count
          /\ output'[1].length = output[1].length - count
      BY <2>1, <2>6, <2>7, <3>1, TotalWritten
    <3>3. OutputIsBounded'
      <4>1. ASSUME NEW i \in DOMAIN output, output_length = output[i].length
            PROVE  OutputIsBounded'
        <5>1. i = 1
          <6>. SUFFICES ASSUME i # 1 PROVE FALSE
            OBVIOUS
          <6>1. /\ Tail(output) \in Seq(Block) /\ Len(output) = Len(Tail(output)) + 1
                /\ \A k \in 1..Len(Tail(output)) : Tail(output)[k] = output[k + 1]
            BY <2>2
          <6>2. Total(output) = output[1].length + Total(Tail(output))
            BY <6>1, TotalFirst
          <6>3. PICK k \in 1..Len(Tail(output)) : Tail(output)[k] = output[i]
            <7>1. i - 1 \in 1..Len(Tail(output)) /\ Tail(output)[i - 1] = output[i]
              BY <2>2, <4>1, <6>1
            <7>. QED BY <7>1
          <6>4. output[i].length <= Total(Tail(output)) /\ Total(Tail(output)) \in Nat
            BY <6>1, <6>3, TotalAtLeast, TotalNat
          <6>5. output[1].length \in Nat /\ output[1].length # 0
            <7>1. Head(output) = output[1]
              BY <2>2
            <7>. QED BY <2>1, <2>3, <2>6, <7>1
          <6>6. PICK first, one, rest, all :
                  /\ first = output[1].length /\ one = output[i].length
                  /\ rest = Total(Tail(output)) /\ all = Total(output)
            OBVIOUS
          <6>7. /\ first \in Nat /\ first # 0 /\ rest \in Nat
                /\ one <= rest /\ all = one /\ all = first + rest
            BY <2>4, <4>1, <6>2, <6>4, <6>5, <6>6
          <6>. QED BY ONLY <6>7
        <5>2. 1 \in DOMAIN output' /\ output_length' = output'[1].length
          BY <2>1, <2>2, <3>2, <4>1, <5>1
        <5>. QED BY <2>1, <2>4, <3>2, <5>2 DEF OutputIsBounded
      <4>. QED BY <2>1, <2>3, <2>4, <2>7, <3>2, <4>1, NetworkAssumption DEF OutputIsBounded
    <3>. QED BY <2>1, <3>1, <3>2, <3>3
  <2>. QED BY <2>5, <2>6
<1>12. CASE UNCHANGED vars
  BY <1>1, <1>12 DEF vars, OutputInv, OutputType
<1>. QED BY <1>2, <1>3, <1>4, <1>5, <1>6, <1>7, <1>8, <1>9, <1>10, <1>11, <1>12 DEF Next

\* For every limit and all lengths of blocks: output_length is what the queue
\* holds, after any sequence of partial writes and flushes, and the queue is
\* within MAX_QUEUED_OUTPUT unless a single block makes up all of it.
THEOREM OutputStaysBounded == Spec => []OutputIsBounded
<1>1. OutputInv => OutputIsBounded
  BY DEF OutputInv
<1>. QED BY OutputInit, OutputStep, <1>1, PTL DEF Spec

-----------------------------------------------------------------------------
(* The client is told what it has missed                                   *)

\* The blocks up to number n that are not on the wire, and the losses that
\* its first n items report.
Missing(w, n) == {i \in 1..n : \A j \in 1..Len(w) : w[j].number # i}
Notices(w, n) == SumTo([j \in 1..n |-> w[j].notice], n)

\* LossIsReported for one item.
ReportedAt(w, k) ==
  w[k].number # 0 =>
    /\ Cardinality({i \in 1..(w[k].number - 1) : \A j \in 1..(k - 1) : w[j].number # i})
         = Notices(w, k - 1)
    /\ \A j \in 1..(k - 1) : w[j].number # w[k].number

\* The blocks in the queue are the last ones; each of the others is on the
\* wire, or reported there, or counted in output_lines_flushed.
LossInv ==
  /\ LossIsReported
  /\ nhandle = "closed" => pc = "idle"
  /\ nhandle # "closed" =>
       /\ Len(output) <= accepted
       /\ \A i \in 1..Len(output) : output[i].number = accepted - Len(output) + i
       /\ \A j \in 1..Len(wire) : wire[j].number <= accepted - Len(output)
       /\ Cardinality(Missing(wire, accepted - Len(output)))
            = Notices(wire, Len(wire)) + output_lines_flushed

LEMMA MissingFinite ==
  ASSUME NEW w, NEW n \in Nat
  PROVE  IsFiniteSet(Missing(w, n)) /\ Cardinality(Missing(w, n)) \in Nat
<1>1. IsFiniteSet(1..n)
  BY FS_Interval
<1>2. Missing(w, n) \in SUBSET (1..n)
  BY DEF Missing
<1>. QED BY <1>1, <1>2, FS_Subset, FS_CardinalityType

LEMMA NoticesNat ==
  ASSUME NEW w \in Seq(Item)
  PROVE  Notices(w, Len(w)) \in Nat
<1>. DEFINE f == [j \in 1..Len(w) |-> w[j].notice]
<1>1. Len(w) \in Nat /\ \A i \in 1..Len(w) : w[i] \in Item
  OBVIOUS
<1>2. \A i \in 1..Len(w) : f[i] \in Nat
  BY <1>1 DEF Item
<1>. HIDE DEF f
<1>3. SumTo(f, Len(w)) \in Nat
  BY <1>1, <1>2, SumNat
<1>. QED BY <1>3 DEF Notices, f

\* One item more on the wire.
LEMMA NoticesAppend ==
  ASSUME NEW w \in Seq(Item), NEW x \in Item, NEW v, v = Append(w, x)
  PROVE  /\ \A n \in 0..Len(w) : Notices(v, n) = Notices(w, n)
         /\ Notices(v, Len(w) + 1) = Notices(w, Len(w)) + x.notice
<1>1. Len(w) \in Nat /\ v[Len(w) + 1] = x /\ \A i \in 1..Len(w) : v[i] = w[i]
  OBVIOUS
<1>2. ASSUME NEW n \in 0..Len(w)
      PROVE  Notices(v, n) = Notices(w, n)
  <2>. DEFINE f == [j \in 1..n |-> v[j].notice]
              g == [j \in 1..n |-> w[j].notice]
  <2>1. n \in Nat /\ \A i \in 1..n : f[i] = g[i]
    BY <1>1
  <2>. HIDE DEF f, g
  <2>2. SumTo(f, n) = SumTo(g, n)
    BY <2>1, SumSame
  <2>. QED BY <2>2 DEF Notices, f, g
<1>3. Notices(v, Len(w) + 1) = Notices(w, Len(w)) + x.notice
  <2>. DEFINE f == [j \in 1..(Len(w) + 1) |-> v[j].notice]
              g == [j \in 1..Len(w) |-> w[j].notice]
  <2>1. f[Len(w) + 1] = x.notice /\ \A i \in 1..Len(w) : f[i] = g[i]
    BY <1>1
  <2>. HIDE DEF f, g
  <2>2. SumTo(f, Len(w) + 1) = SumTo(f, Len(w)) + f[Len(w) + 1]
    BY <1>1, SumNext
  <2>3. SumTo(f, Len(w)) = SumTo(g, Len(w))
    BY <1>1, <2>1, SumSame
  <2>. QED BY <2>1, <2>2, <2>3 DEF Notices, f, g
<1>. QED BY <1>2, <1>3

\* LossIsReported, item by item; a new item leaves the others as they were.
LEMMA ReportedIs ==
  ASSUME wire \in Seq(Item)
  PROVE  LossIsReported <=> \A k \in 1..Len(wire) : ReportedAt(wire, k)
<1>1. DOMAIN wire = 1..Len(wire)
  OBVIOUS
<1>. QED BY <1>1, Zenon DEF LossIsReported, ReportedAt, Notices

LEMMA ReportedAppend ==
  ASSUME wire \in Seq(Item), NEW x \in Item, wire' = Append(wire, x),
         LossIsReported, ReportedAt(wire', Len(wire) + 1)
  PROVE  LossIsReported'
<1>1. /\ wire' \in Seq(Item) /\ Len(wire) \in Nat /\ Len(wire') = Len(wire) + 1
      /\ \A i \in 1..Len(wire) : wire'[i] = wire[i]
  OBVIOUS
<1>2. ASSUME NEW k \in 1..Len(wire) PROVE ReportedAt(wire', k)
  <2>1. ReportedAt(wire, k)
    BY ReportedIs
  <2>2. k - 1 \in 0..Len(wire) /\ \A j \in 1..(k - 1) : wire'[j] = wire[j]
    BY <1>1
  <2>3. Notices(wire', k - 1) = Notices(wire, k - 1)
    BY <2>2, NoticesAppend
  <2>4. wire'[k] = wire[k]
    BY <1>1
  <2>5. {i \in 1..(wire'[k].number - 1) : \A j \in 1..(k - 1) : wire'[j].number # i}
         = {i \in 1..(wire[k].number - 1) : \A j \in 1..(k - 1) : wire[j].number # i}
    BY <2>2, <2>4
  <2>. QED BY <2>1, <2>2, <2>3, <2>4, <2>5 DEF ReportedAt
<1>3. \A k \in 1..Len(wire') : ReportedAt(wire', k)
  BY <1>1, <1>2
<1>4. DOMAIN (wire') = 1..Len(wire')
  BY <1>1
<1>. QED BY <1>3, <1>4, Zenon DEF LossIsReported, ReportedAt, Notices

\* d more blocks are gone and none of them is on the wire.
LEMMA MissingMore ==
  ASSUME NEW w, NEW n \in Nat, NEW d \in Nat,
         \A j \in 1..Len(w) : w[j].number \in Nat /\ w[j].number <= n
  PROVE  Cardinality(Missing(w, n + d)) = Cardinality(Missing(w, n)) + d
<1>. DEFINE more == (n + 1)..(n + d)
<1>1. Missing(w, n + d) = Missing(w, n) \cup more
  BY DEF Missing
<1>2. Missing(w, n) \cap more = {}
  BY DEF Missing
<1>3. IsFiniteSet(more) /\ Cardinality(more) = d
  <2>1. n + 1 \in Int /\ n + d \in Int
    OBVIOUS
  <2>2. /\ IsFiniteSet((n + 1)..(n + d))
        /\ Cardinality((n + 1)..(n + d))
             = IF n + 1 > n + d THEN 0 ELSE (n + d) - (n + 1) + 1
    BY <2>1, FS_Interval
  <2>. QED BY <2>2
<1>. HIDE DEF more
<1>4. Cardinality(Missing(w, n) \cup more)
        = Cardinality(Missing(w, n)) + Cardinality(more) - Cardinality({})
  BY <1>2, <1>3, MissingFinite, FS_Union
<1>5. Cardinality({}) = 0 /\ Cardinality(Missing(w, n)) \in Nat
  BY MissingFinite, FS_EmptySet
<1>6. Cardinality(Missing(w, n) \cup more) = Cardinality(Missing(w, n)) + d
  BY <1>3, <1>4, <1>5
<1>. QED BY <1>1, <1>6

\* What the numbers of blocks are, while the handle is not closed.
Numbered ==
  /\ Len(output) <= accepted
  /\ \A i \in 1..Len(output) : output[i].number = accepted - Len(output) + i
  /\ \A j \in 1..Len(wire) : wire[j].number <= accepted - Len(output)
  /\ Cardinality(Missing(wire, accepted - Len(output)))
       = Notices(wire, Len(wire)) + output_lines_flushed

LEMMA LossInvIs ==
  LossInv <=> /\ LossIsReported
              /\ nhandle = "closed" => pc = "idle"
              /\ nhandle # "closed" => Numbered
BY Zenon DEF LossInv, Numbered

\* A block is added behind the d-th block and the later ones of the queue.
LEMMA EnqueuedNumbered ==
  ASSUME OutputType, Numbered, NEW b \in Seq(Block), NEW len, NEW d \in Nat,
         Len(output) = Len(b) + d,
         \A i \in 1..Len(b) : b[i].number = output[d + i].number,
         len \in Nat,
         output' = Enqueued(b, len), accepted' = accepted + 1, UNCHANGED wire,
         output_lines_flushed' = output_lines_flushed + d
  PROVE  Numbered'
<1>. DEFINE x == [number |-> accepted + 1, length |-> len]
            n == accepted - Len(output)
<1>0. accepted \in Nat /\ output_lines_flushed \in Nat /\ Len(output) \in Nat /\ Len(b) \in Nat
  BY DEF OutputType
<1>1. x \in Block /\ x.number = accepted + 1
  BY <1>0 DEF Block
<1>. HIDE DEF x
<1>2. output' = Append(b, x)
  BY DEF Enqueued, x
<1>3. /\ Len(output') = Len(b) + 1
      /\ output'[Len(b) + 1] = x /\ \A i \in 1..Len(b) : output'[i] = b[i]
  BY <1>1, <1>2
<1>4. n \in Nat /\ accepted' - Len(output') = n + d
  BY <1>0, <1>3 DEF Numbered
<1>5. \A i \in 1..Len(output') : output'[i].number = n + d + i
  <2>1. \A i \in 1..Len(b) : output'[i].number = n + d + i
    BY <1>0, <1>3 DEF Numbered
  <2>2. output'[Len(b) + 1].number = n + d + (Len(b) + 1)
    BY <1>0, <1>1, <1>3
  <2>3. \A i \in 1..Len(output') : i \in 1..Len(b) \/ i = Len(b) + 1
    BY <1>0, <1>3
  <2>. HIDE DEF n
  <2>. QED BY <2>1, <2>2, <2>3
<1>6. \A j \in 1..Len(wire) : wire[j].number \in Nat /\ wire[j].number <= n
  <2>1. \A j \in 1..Len(wire) : wire[j] \in Item
    BY DEF OutputType
  <2>. QED BY <2>1 DEF Numbered, Item
<1>7. Cardinality(Missing(wire, n)) = Notices(wire, Len(wire)) + output_lines_flushed
  BY DEF Numbered
<1>8. Notices(wire, Len(wire)) \in Nat
  BY NoticesNat DEF OutputType
<1>. HIDE DEF n
<1>9. Cardinality(Missing(wire, n + d)) = Cardinality(Missing(wire, n)) + d
  BY <1>4, <1>6, MissingMore
<1>10. Cardinality(Missing(wire, n + d)) = Notices(wire, Len(wire)) + output_lines_flushed'
  BY <1>0, <1>7, <1>8, <1>9
<1>11. /\ Len(output') <= accepted'
       /\ \A j \in 1..Len(wire) : wire[j].number <= n + d
  BY <1>0, <1>3, <1>4, <1>6
<1>. QED BY <1>4, <1>5, <1>10, <1>11 DEF Numbered

LEMMA ReturnReports ==
  ASSUME OutputInv, LossInv, pc # "idle", NEW ok, Return(ok)
  PROVE  LossInv'
<1>. USE LossInvIs DEF OutputInv
<1>1. pc' = "idle" /\ UNCHANGED <<line, wire>>
  BY DEF Return
<1>2. LossIsReported'
  BY <1>1 DEF LossIsReported
<1>3. Numbered /\ nhandle # "closed"
  OBVIOUS
<1>4. CASE pc = "io"
  BY <1>1, <1>2, <1>3, <1>4 DEF Return, LossInv, Numbered
<1>5. CASE pc = "close"
  BY <1>1, <1>2, <1>5 DEF Return, LossInv
<1>6. CASE pc = "enqueue"
  <2>1. flush_output /\ UNCHANGED nhandle
    BY <1>6 DEF Return
  <2>. DEFINE to_flush == output_length + line.length - MAX_QUEUED_OUTPUT
              kept == Flushed(output, to_flush)
  <2>2. CASE to_flush > 0 /\ ~line.flush_ok
    BY <1>1, <1>2, <1>3, <2>1, <2>2 DEF flush_output, LossInv, Numbered
  <2>3. CASE ~(to_flush > 0 /\ ~line.flush_ok)
    <3>1. /\ output' = Enqueued(kept, line.length)
          /\ output_lines_flushed' = output_lines_flushed + Len(output) - Len(kept)
          /\ accepted' = accepted + 1
      BY <2>1, <2>3 DEF flush_output
    <3>2. output \in Seq(Block) /\ line.length \in Nat /\ to_flush \in Int
      BY <1>6, TotalNat, NetworkAssumption DEF OutputType, OutputIsBounded
    <3>3. /\ kept \in Seq(Block) /\ Len(kept) <= Len(output)
          /\ \A i \in 1..Len(kept) : kept[i] = output[Len(output) - Len(kept) + i]
      BY <3>2, FlushedIs
    <3>. HIDE DEF kept
    <3>. DEFINE d == Len(output) - Len(kept)
    <3>4. d \in Nat /\ Len(output) = Len(kept) + d
      BY <3>2, <3>3
    <3>5. output_lines_flushed' = output_lines_flushed + d
      BY <3>1, <3>2, <3>3 DEF OutputType
    <3>6. \A i \in 1..Len(kept) : kept[i].number = output[d + i].number
      BY <3>3
    <3>. HIDE DEF d
    <3>7. Numbered'
      BY <1>1, <1>3, <3>1, <3>2, <3>3, <3>4, <3>5, <3>6, EnqueuedNumbered
    <3>. QED BY <1>1, <1>2, <1>3, <2>1, <3>7 DEF LossInv, Numbered
  <2>. QED BY <2>2, <2>3
<1>. QED BY <1>4, <1>5, <1>6 DEF OutputType

\* The notice arrives: what was counted is reported.
LEMMA NoticeReports ==
  ASSUME OutputInv, LossInv, nhandle # "closed", output_lines_flushed' = 0,
         wire' = Append(wire, [notice |-> output_lines_flushed, number |-> 0]),
         UNCHANGED <<nhandle, output, pc, accepted>>
  PROVE  LossInv'
<1>. DEFINE x == [notice |-> output_lines_flushed, number |-> 0]
            n == accepted - Len(output)
<1>0. /\ wire \in Seq(Item) /\ Len(wire) \in Nat /\ accepted \in Nat
      /\ output_lines_flushed \in Nat /\ Len(output) \in Nat
  BY DEF OutputInv, OutputType
<1>1. x \in Item /\ x.number = 0 /\ x.notice = output_lines_flushed
  BY <1>0 DEF Item
<1>2. Numbered /\ LossIsReported /\ n \in Nat
  BY <1>0, LossInvIs DEF Numbered
<1>. HIDE DEF x
<1>3. /\ wire' = Append(wire, x) /\ Len(wire') = Len(wire) + 1
      /\ wire'[Len(wire) + 1] = x /\ \A i \in 1..Len(wire) : wire'[i] = wire[i]
  BY <1>0, <1>1 DEF x
<1>4. LossIsReported'
  <2>1. ReportedAt(wire', Len(wire) + 1)
    BY <1>1, <1>3 DEF ReportedAt
  <2>. QED BY <1>0, <1>1, <1>2, <1>3, <2>1, ReportedAppend
<1>5. Missing(wire', n) = Missing(wire, n)
  <2>1. ASSUME NEW i \in 1..n
        PROVE  (\A j \in 1..Len(wire') : wire'[j].number # i)
                 <=> (\A j \in 1..Len(wire) : wire[j].number # i)
    BY <1>0, <1>1, <1>2, <1>3
  <2>. QED BY <2>1 DEF Missing
<1>6. Notices(wire', Len(wire')) = Notices(wire, Len(wire)) + output_lines_flushed
  <2>1. Notices(wire', Len(wire) + 1) = Notices(wire, Len(wire)) + x.notice
    BY <1>0, <1>1, <1>3, NoticesAppend
  <2>. QED BY <1>1, <1>3, <2>1
<1>7. Notices(wire', Len(wire')) \in Nat
  BY <1>0, <1>6, NoticesNat
<1>8. \A j \in 1..Len(wire') : wire'[j].number <= n
  BY <1>0, <1>1, <1>2, <1>3 DEF Numbered
<1>9. Cardinality(Missing(wire', n)) = Notices(wire', Len(wire')) + 0
  BY <1>2, <1>5, <1>6, <1>7 DEF Numbered
<1>. QED BY <1>2, <1>4, <1>8, <1>9, LossInvIs DEF LossInv, Numbered

\* A block arrives in full, which happens only when no loss is to be reported.
LEMMA BlockReports ==
  ASSUME OutputInv, LossInv, nhandle # "closed", output_lines_flushed = 0,
         output # <<>>, output' = Tail(output),
         wire' = Append(wire, [notice |-> 0, number |-> Head(output).number]),
         UNCHANGED <<nhandle, output_lines_flushed, pc, accepted>>
  PROVE  LossInv'
<1>. DEFINE x == [notice |-> 0, number |-> Head(output).number]
            n == accepted - Len(output)
<1>0. /\ wire \in Seq(Item) /\ Len(wire) \in Nat /\ accepted \in Nat
      /\ output \in Seq(Block) /\ Len(output) \in Nat \ {0}
  BY DEF OutputInv, OutputType
<1>1. Numbered /\ LossIsReported /\ n \in Nat
  BY <1>0, LossInvIs DEF Numbered
<1>2. /\ Len(output') = Len(output) - 1 /\ Head(output) = output[1]
      /\ \A i \in 1..Len(output') : output'[i] = output[i + 1]
  BY <1>0
<1>3. Head(output).number = n + 1
  BY <1>0, <1>1, <1>2 DEF Numbered
<1>4. x \in Item /\ x.number = n + 1 /\ x.notice = 0
  BY <1>1, <1>3 DEF Item
<1>. HIDE DEF x
<1>5. /\ wire' = Append(wire, x) /\ Len(wire') = Len(wire) + 1
      /\ wire'[Len(wire) + 1] = x /\ \A i \in 1..Len(wire) : wire'[i] = wire[i]
  BY <1>0, <1>4 DEF x
<1>6. \A j \in 1..Len(wire) : wire[j].number \in Nat /\ wire[j].number <= n
  <2>1. \A j \in 1..Len(wire) : wire[j] \in Item
    BY <1>0
  <2>. QED BY <1>1, <2>1 DEF Numbered, Item
<1>7. Notices(wire, Len(wire)) \in Nat
  BY <1>0, NoticesNat
<1>8. Cardinality(Missing(wire, n)) = Notices(wire, Len(wire))
  BY <1>1, <1>7 DEF Numbered
<1>9. Notices(wire', Len(wire)) = Notices(wire, Len(wire))
  <2>1. \A i \in 0..Len(wire) : Notices(wire', i) = Notices(wire, i)
    BY <1>0, <1>4, <1>5, NoticesAppend, ZenonT(40)
  <2>. QED BY <1>0, <2>1
<1>10. Notices(wire', Len(wire')) = Notices(wire, Len(wire))
  <2>1. Notices(wire', Len(wire) + 1) = Notices(wire, Len(wire)) + 0
    BY <1>0, <1>4, <1>5, NoticesAppend
  <2>. QED BY <1>5, <1>7, <2>1
<1>11. LossIsReported'
  <2>. DEFINE k == Len(wire) + 1
              unseen == {i \in 1..(wire'[k].number - 1) :
                           \A j \in 1..(k - 1) : wire'[j].number # i}
  <2>1. k - 1 = Len(wire) /\ wire'[k].number = n + 1
    BY <1>0, <1>4, <1>5
  <2>2. unseen = Missing(wire, n)
    <3>1. (n + 1) - 1 = n
      BY <1>1
    <3>. HIDE DEF k, n
    <3>. QED BY <1>5, <2>1, <3>1 DEF Missing
  <2>3. \A j \in 1..(k - 1) : wire'[j].number # n + 1
    BY <1>0, <1>1, <1>5, <1>6
  <2>4. Cardinality(unseen) = Notices(wire', k - 1)
    BY <1>8, <1>9, <2>1, <2>2
  <2>5. ReportedAt(wire', k)
    BY <2>1, <2>3, <2>4 DEF ReportedAt
  <2>. QED BY <1>0, <1>1, <1>4, <1>5, <2>5, ReportedAppend
<1>12. Missing(wire', n + 1) = Missing(wire, n)
  <2>1. ASSUME NEW i \in 1..n
        PROVE  (\A j \in 1..Len(wire') : wire'[j].number # i)
                 <=> (\A j \in 1..Len(wire) : wire[j].number # i)
    BY <1>0, <1>1, <1>4, <1>5
  <2>2. \E j \in 1..Len(wire') : wire'[j].number = n + 1
    BY <1>0, <1>4, <1>5
  <2>3. \A i \in 1..(n + 1) : i \in 1..n \/ i = n + 1
    BY <1>1
  <2>4. 1..n \subseteq 1..(n + 1)
    BY <1>1
  <2>. HIDE DEF n
  <2>. QED BY <2>1, <2>2, <2>3, <2>4 DEF Missing
<1>13. accepted - Len(output') = n + 1
  BY <1>0, <1>2
<1>14. \A j \in 1..Len(wire') : wire'[j].number <= n + 1
  BY <1>0, <1>1, <1>4, <1>5, <1>6
<1>15. /\ Len(output') <= accepted
       /\ \A i \in 1..Len(output') : output'[i].number = n + 1 + i
  BY <1>0, <1>1, <1>2 DEF Numbered
<1>. HIDE DEF n
<1>16. Cardinality(Missing(wire', n + 1)) = Notices(wire', Len(wire')) + output_lines_flushed'
  BY <1>7, <1>8, <1>10, <1>12
<1>17. Numbered'
  BY <1>13, <1>14, <1>15, <1>16 DEF Numbered
<1>. QED BY <1>11, <1>17 DEF LossInv, Numbered

\* A part of the first block arrives: the numbers stay.
LEMMA PartReports ==
  ASSUME OutputInv, LossInv, output # <<>>, NEW count,
         output' = [output EXCEPT ![1].length = @ - count],
         UNCHANGED <<nhandle, output_lines_flushed, pc, accepted, wire>>
  PROVE  LossInv'
<1>1. output \in Seq(Block) /\ Len(output) \in Nat \ {0}
  BY DEF OutputInv, OutputType
<1>2. Len(output') = Len(output)
  BY <1>1
<1>3. \A i \in 1..Len(output) : output'[i].number = output[i].number
  <2>1. \A i \in 1..Len(output) : output[i] \in Block
    BY <1>1
  <2>. QED BY <1>1, <2>1 DEF Block
<1>4. LossIsReported'
  BY DEF LossInv, LossIsReported
<1>. QED BY <1>2, <1>3, <1>4 DEF LossInv

LEMMA LossInit == Init => LossInv
<1>. SUFFICES ASSUME Init PROVE LossInv
  OBVIOUS
<1>1. /\ accepted = 0 /\ Len(output) = 0 /\ Len(wire) = 0 /\ output_lines_flushed = 0
      /\ pc = "idle" /\ wire = <<>> /\ accepted - Len(output) = 0
  <2>1. /\ accepted = 0 /\ output = <<>> /\ wire = <<>> /\ output_lines_flushed = 0
        /\ pc = "idle"
    BY DEF Init
  <2>2. Len(<<>>) = 0 /\ 0 - 0 = 0
    OBVIOUS
  <2>3. Len(output) = 0 /\ Len(wire) = 0
    BY <2>1, <2>2
  <2>. QED BY <2>1, <2>2, <2>3, Zenon
<1>2. LossIsReported
  <2>1. DOMAIN wire = {}
    BY <1>1
  <2>. QED BY <2>1 DEF LossIsReported
<1>3. Missing(wire, 0) = {} /\ Cardinality({}) = 0
  BY FS_EmptySet DEF Missing
<1>4. Notices(wire, 0) = 0
  BY SumEmpty DEF Notices
<1>5. Numbered
  BY <1>1, <1>3, <1>4 DEF Numbered
<1>. QED BY <1>1, <1>2, <1>5, LossInvIs

LEMMA LossStep == OutputInv /\ LossInv /\ [Next]_vars => LossInv'
<1>. SUFFICES ASSUME OutputInv, LossInv, [Next]_vars PROVE LossInv'
  OBVIOUS
<1>1. ASSUME UNCHANGED <<output, output_lines_flushed, wire, accepted>>,
             nhandle' = "closed" <=> nhandle = "closed",
             nhandle = "closed" => pc' = "idle"
      PROVE  LossInv'
  <2>1. LossIsReported'
    BY <1>1 DEF LossInv, LossIsReported
  <2>. QED BY <1>1, <2>1 DEF LossInv
<1>2. CASE accept_new_connection
  BY <1>1, <1>2 DEF accept_new_connection, outvars, LossInv
<1>3. CASE close_nhandle
  BY <1>1, <1>3 DEF close_nhandle
<1>4. ASSUME NEW count \in 1..MaxBytes, pull_input(count) PROVE LossInv'
  BY <1>1, <1>4 DEF pull_input, outvars
<1>5. CASE \/ pull_input_fails \/ network_suspend_input \/ network_resume_input
           \/ network_set_connection_binary \/ Disconnect
  BY <1>1, <1>5 DEF pull_input_fails, network_suspend_input, network_resume_input,
                    network_set_connection_binary, Disconnect, outvars, LossInv
<1>6. ASSUME NEW c \in Char, Type(c) PROVE LossInv'
  BY <1>1, <1>6 DEF Type, outvars
<1>7. ASSUME NEW len \in Length, NEW flush_ok \in BOOLEAN, enqueue_output(len, flush_ok)
      PROVE  LossInv'
  <2>1. nhandle # "closed" /\ UNCHANGED <<nhandle, wire, output_lines_flushed>>
    BY <1>7 DEF enqueue_output
  <2>2. CASE output_length # 0 /\ output_length + len > MAX_QUEUED_OUTPUT
    BY <1>1, <1>7, <2>1, <2>2 DEF enqueue_output
  <2>3. CASE ~(output_length # 0 /\ output_length + len > MAX_QUEUED_OUTPUT)
    <3>1. output' = Enqueued(output, len) /\ accepted' = accepted + 1
      BY <1>7, <2>3 DEF enqueue_output
    <3>2. /\ output \in Seq(Block) /\ Len(output) \in Nat /\ len \in Nat
          /\ output_lines_flushed \in Nat
      BY NetworkAssumption DEF OutputInv, OutputType
    <3>3. Numbered /\ OutputType
      BY <2>1, LossInvIs DEF OutputInv
    <3>4. Numbered'
      <4>1. /\ 0 \in Nat /\ Len(output) = Len(output) + 0
            /\ \A i \in 1..Len(output) : output[i].number = output[0 + i].number
            /\ output_lines_flushed' = output_lines_flushed + 0
        BY <2>1, <3>2
      <4>. QED BY <2>1, <3>1, <3>2, <3>3, <4>1, EnqueuedNumbered
    <3>5. LossIsReported'
      BY <2>1 DEF LossInv, LossIsReported
    <3>. QED BY <2>1, <3>4, <3>5 DEF LossInv, Numbered
  <2>. QED BY <2>2, <2>3
<1>8. CASE push_output
  BY <1>1, <1>8 DEF push_output
<1>9. CASE write_notice
  <2>1. CASE \E ok : Return(ok)
    BY <1>9, <2>1, ReturnReports DEF write_notice
  <2>2. CASE ~\E ok : Return(ok)
    <3>1. /\ output_lines_flushed' = 0
          /\ wire' = Append(wire, [notice |-> output_lines_flushed, number |-> 0])
          /\ UNCHANGED <<nhandle, output, pc, accepted>> /\ pc # "idle"
      BY <1>9, <2>2 DEF write_notice
    <3>2. nhandle # "closed"
      BY <3>1 DEF LossInv
    <3>. QED BY <3>1, <3>2, NoticeReports
  <2>. QED BY <2>1, <2>2
<1>10. CASE write_ends
  BY <1>10, ReturnReports DEF write_ends
<1>11. ASSUME NEW count \in 0..Max(Length), write_block(count) PROVE LossInv'
  <2>1. /\ output # <<>> /\ output_lines_flushed = 0 /\ pc # "idle"
        /\ UNCHANGED <<nhandle, output_lines_flushed, pc, accepted>>
    BY <1>11 DEF write_block
  <2>2. nhandle # "closed"
    BY <2>1 DEF LossInv
  <2>3. CASE count = Head(output).length
    <3>1. /\ output' = Tail(output)
          /\ wire' = Append(wire, [notice |-> 0, number |-> Head(output).number])
      BY <1>11, <2>3 DEF write_block
    <3>. QED BY <2>1, <2>2, <3>1, BlockReports
  <2>4. CASE count # Head(output).length
    <3>1. output' = [output EXCEPT ![1].length = @ - count] /\ UNCHANGED wire
      BY <1>11, <2>4 DEF write_block
    <3>. QED BY <2>1, <3>1, PartReports
  <2>. QED BY <2>3, <2>4
<1>12. CASE UNCHANGED vars
  BY <1>1, <1>12 DEF vars, outvars, LossInv
<1>. QED BY <1>2, <1>3, <1>4, <1>5, <1>6, <1>7, <1>8, <1>9, <1>10, <1>11, <1>12 DEF Next

\* For every limit, all lengths of blocks and any number of them: a client
\* that has got a block has been told of every earlier block it did not get,
\* by notices that came before it and count nothing twice.
THEOREM LossStaysReported == Spec => []LossIsReported
<1>1. Init => OutputInv /\ LossInv
  BY OutputInit, LossInit
<1>2. OutputInv /\ LossInv /\ [Next]_vars => OutputInv' /\ LossInv'
  BY OutputStep, LossStep
<1>3. LossInv => LossIsReported
  BY LossInvIs
<1>. QED BY <1>1, <1>2, <1>3, PTL DEF Spec
=============================================================================
