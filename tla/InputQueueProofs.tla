-------------------------- MODULE InputQueueProofs --------------------------
(***************************************************************************)
(* For any number of tasks, kinds, lengths and any mark: the two lists of  *)
(* the input queue are what struct tqueue says they are, they behave as a  *)
(* plain sequence of lines (InputQueueSpec), and a connection that is told *)
(* to stop never waits for an empty queue.                                 *)
(*                                                                         *)
(* The first part has the lemmas on the pointers: what every enqueue and   *)
(* every dequeue does to the two lists.  The proofs name what the pointers *)
(* lead through: s[1], ..., s[n] are the tasks in order and s[0] is slot 0 *)
(* of the tqueue; e[1], ..., e[m] are the places in s where a run ends,    *)
(* and e[0] is 0.  With slot 0 included the fields of the tqueue need no   *)
(* cases of their own.                                                     *)
(***************************************************************************)
EXTENDS InputQueue, SumTheorems, FiniteSetTheorems, SequenceTheorems, TLAPS

\* The slots that the links of a field lead through, from slot 0 to Null.
Links(field, n, s) ==
  /\ n \in Nat
  /\ s \in [0..n -> Slot] /\ s[0] = 0
  /\ \A i, j \in 0..n : s[i] = s[j] => i = j
  /\ \A i \in 0..(n - 1) : field[s[i]] = s[i + 1]
  /\ field[s[n]] = Null

\* The tasks of the queue.
Queue(n, s) ==
  /\ Links(next, n, s)
  /\ \A i \in 1..n : s[i] \in allocated
  /\ \A t \in allocated : \E i \in 1..n : s[i] = t
  /\ last_input = s[n]

\* Do the i-th task and the next one belong to different runs?
Differ(s, i) == IsOob(kind[s[i]]) # IsOob(kind[s[i + 1]])

\* The ends of the runs.
Runs(n, s, m, e) ==
  /\ m \in Nat /\ e \in [0..m -> 0..n] /\ e[0] = 0 /\ e[m] = n
  /\ \A i, j \in 0..m : i < j => e[i] < e[j]
  /\ \A i \in 0..(m - 1) : next_itail[s[e[i]]] = s[e[i + 1]]
  /\ next_itail[s[n]] = Null
  /\ last_itail = IF m = 0 THEN 0 ELSE s[e[m - 1]]
  /\ \A p \in 1..(n - 1) : Differ(s, p) <=> \E k \in 1..m : e[k] = p

-----------------------------------------------------------------------------
(* What Chain computes                                                     *)

\* from is a function that the definition of Chain asks for, up to some fuel.
Follows(from, field, fuel) ==
  from = [p \in Slot \X (0..fuel) |->
            IF p[2] = 0 \/ field[p[1]] = Null THEN <<>>
            ELSE <<field[p[1]]>> \o from[<<field[p[1]], p[2] - 1>>]]

\* The same, without pairs.
LEMMA FollowsAt ==
  ASSUME NEW from, NEW field, NEW fuel \in Nat, Follows(from, field, fuel)
  PROVE  \A slot \in Slot, k \in 0..fuel :
           from[<<slot, k>>] = IF k = 0 \/ field[slot] = Null THEN <<>>
                               ELSE <<field[slot]>> \o from[<<field[slot], k - 1>>]
<1>. TAKE slot \in Slot, k \in 0..fuel
<1>1. <<slot, k>> \in Slot \X (0..fuel)
  OBVIOUS
<1>. QED BY <1>1 DEF Follows

\* There is one, by induction on the fuel.
LEMMA FollowsExists ==
  ASSUME NEW field \in [Slot -> Slot], NEW fuel \in Nat
  PROVE  \E from : Follows(from, field, fuel)
<1>. DEFINE S == {k \in Nat : \E from : Follows(from, field, k)}
<1>1. 0 \in S
  <2>. DEFINE g == [p \in Slot \X (0..0) |-> <<>>]
  <2>1. g = [p \in Slot \X (0..0) |->
               IF p[2] = 0 \/ field[p[1]] = Null THEN <<>>
               ELSE <<field[p[1]]>> \o g[<<field[p[1]], p[2] - 1>>]]
    OBVIOUS
  <2>2. Follows(g, field, 0)
    BY <2>1 DEF Follows
  <2>. HIDE DEF g
  <2>. QED BY <2>2
<1>2. ASSUME NEW k \in Nat, k \in S PROVE k + 1 \in S
  <2>1. PICK f : Follows(f, field, k)
    BY <1>2
  <2>. DEFINE g == [p \in Slot \X (0..(k + 1)) |->
                      IF p[2] = 0 \/ field[p[1]] = Null THEN <<>>
                      ELSE <<field[p[1]]>> \o f[<<field[p[1]], p[2] - 1>>]]
  <2>2. \A x \in Slot, i \in 0..k : g[<<x, i>>] = f[<<x, i>>]
    <3>. TAKE x \in Slot, i \in 0..k
    <3>1. <<x, i>> \in Slot \X (0..(k + 1))
      OBVIOUS
    <3>2. g[<<x, i>>] = IF i = 0 \/ field[x] = Null THEN <<>>
                        ELSE <<field[x]>> \o f[<<field[x], i - 1>>]
      BY <3>1
    <3>. HIDE DEF g
    <3>. QED BY <2>1, <3>2, FollowsAt
  <2>3. ASSUME NEW p \in Slot \X (0..(k + 1))
        PROVE  p[2] = 0 \/ field[p[1]] = Null
                 \/ g[<<field[p[1]], p[2] - 1>>] = f[<<field[p[1]], p[2] - 1>>]
    <3>1. p[1] \in Slot /\ p[2] \in 0..(k + 1)
      OBVIOUS
    <3>2. field[p[1]] \in Slot /\ (p[2] # 0 => p[2] - 1 \in 0..k)
      BY <3>1
    <3>. HIDE DEF g
    <3>. QED BY <2>2, <3>2
  <2>4. g = [p \in Slot \X (0..(k + 1)) |->
               IF p[2] = 0 \/ field[p[1]] = Null THEN <<>>
               ELSE <<field[p[1]]>> \o g[<<field[p[1]], p[2] - 1>>]]
    <3>. DEFINE h == [p \in Slot \X (0..(k + 1)) |->
                        IF p[2] = 0 \/ field[p[1]] = Null THEN <<>>
                        ELSE <<field[p[1]]>> \o g[<<field[p[1]], p[2] - 1>>]]
    <3>1. \A p \in Slot \X (0..(k + 1)) : g[p] = h[p]
      BY <2>3
    <3>. QED BY <3>1, ZenonT(40)
  <2>5. Follows(g, field, k + 1)
    BY <2>4, Zenon DEF Follows
  <2>. HIDE DEF g
  <2>. QED BY <2>5
<1>. HIDE DEF S
<1>3. fuel \in S
  BY <1>1, <1>2, NatInd
<1>. QED BY <1>3 DEF S

\* So Chain(field) is a value of one.
LEMMA ChainFollows ==
  ASSUME NEW field \in [Slot -> Slot], MaxTasks \in Nat
  PROVE  \E from :
           /\ Chain(field) = from[<<0, MaxTasks + 1>>]
           /\ \A slot \in Slot, k \in 0..(MaxTasks + 1) :
                from[<<slot, k>>] = IF k = 0 \/ field[slot] = Null THEN <<>>
                                    ELSE <<field[slot]>> \o from[<<field[slot], k - 1>>]
<1>1. PICK fuel \in Nat : fuel = MaxTasks + 1
  OBVIOUS
<1>. DEFINE f == CHOOSE g : Follows(g, field, fuel)
<1>2. Follows(f, field, fuel)
  BY FollowsExists
<1>3. Chain(field) = f[<<0, fuel>>]
  BY <1>1, Zenon DEF Chain, Follows
<1>4. PICK from : Follows(from, field, fuel) /\ Chain(field) = from[<<0, fuel>>]
  BY <1>2, <1>3
<1>. HIDE DEF f
<1>5. \A slot \in Slot, k \in 0..fuel :
        from[<<slot, k>>] = IF k = 0 \/ field[slot] = Null THEN <<>>
                            ELSE <<field[slot]>> \o from[<<field[slot], k - 1>>]
  <2>. TAKE slot \in Slot, k \in 0..fuel
  <2>1. <<slot, k>> \in Slot \X (0..fuel)
    OBVIOUS
  <2>. QED BY <1>4, <2>1 DEF Follows
<1>. QED BY <1>1, <1>4, <1>5

LEMMA ConsIs ==
  ASSUME NEW T, NEW x \in T, NEW y \in Seq(T), NEW z \in Seq(T),
         Len(z) = Len(y) + 1, z[1] = x, \A i \in 1..Len(y) : z[i + 1] = y[i]
  PROVE  <<x>> \o y = z
<1>1. <<x>> \in Seq(T) /\ Len(<<x>>) = 1 /\ Len(y) \in Nat /\ <<x>>[1] = x
  OBVIOUS
<1>2. <<x>> \o y \in Seq(T) /\ Len(<<x>> \o y) = Len(z)
  BY <1>1
<1>3. ASSUME NEW i \in 1..Len(z) PROVE (<<x>> \o y)[i] = z[i]
  <2>1. i \in 1..(Len(<<x>>) + Len(y))
    BY <1>1
  <2>2. (<<x>> \o y)[i] = IF i <= Len(<<x>>) THEN <<x>>[i] ELSE y[i - Len(<<x>>)]
    BY <1>1, <2>1, ConcatProperties
  <2>3. CASE i = 1
    BY <1>1, <2>2, <2>3
  <2>4. CASE i # 1
    <3>1. (<<x>> \o y)[i] = y[i - 1] /\ i - 1 \in 1..Len(y) /\ (i - 1) + 1 = i
      BY <1>1, <2>1, <2>2, <2>4
    <3>. QED BY <3>1
  <2>. QED BY <2>3, <2>4
<1>. QED BY <1>2, <1>3, SeqEqual

\* A list that is not too long is what Chain finds, by induction from its end.
LEMMA ChainIs ==
  ASSUME NEW field \in [Slot -> Slot], NEW n, NEW s, Links(field, n, s), n <= MaxTasks
  PROVE  Chain(field) = [i \in 1..n |-> s[i]]
<1>0. MaxTasks \in Nat /\ n \in Nat
  BY InputQueueAssumption DEF Links
<1>1. PICK from :
        /\ Chain(field) = from[<<0, MaxTasks + 1>>]
        /\ \A slot \in Slot, k \in 0..(MaxTasks + 1) :
             from[<<slot, k>>] = IF k = 0 \/ field[slot] = Null THEN <<>>
                                 ELSE <<field[slot]>> \o from[<<field[slot], k - 1>>]
  BY <1>0, ChainFollows
<1>. DEFINE rest(j) == [i \in 1..(n - j) |-> s[j + i]]
            S == {k \in Nat : k <= n =>
                    from[<<s[n - k], MaxTasks + 1 - (n - k)>>] = rest(n - k)}
<1>2. 0 \in S
  <2>1. rest(n) = <<>>
    BY <1>0
  <2>2. s[n] \in Slot /\ field[s[n]] = Null /\ MaxTasks + 1 - n \in 0..(MaxTasks + 1)
    BY <1>0 DEF Links
  <2>3. from[<<s[n], MaxTasks + 1 - n>>] = <<>>
    BY <1>1, <2>2
  <2>4. n - 0 = n
    BY <1>0
  <2>. QED BY <2>1, <2>3, <2>4
<1>3. ASSUME NEW k \in Nat, k \in S PROVE k + 1 \in S
  <2>. SUFFICES ASSUME k + 1 <= n
       PROVE from[<<s[n - (k + 1)], MaxTasks + 1 - (n - (k + 1))>>] = rest(n - (k + 1))
    OBVIOUS
  <2>0. k <= n /\ n - (k + 1) \in Nat /\ MaxTasks + 1 - (n - (k + 1)) \in Nat
    BY <1>0
  <2>1. PICK j \in Nat, left \in Nat : j = n - (k + 1) /\ left = MaxTasks + 1 - j
    BY <2>0
  <2>2. /\ j \in 0..(n - 1) /\ n - k = j + 1 /\ j + 1 \in 0..n
        /\ left \in 0..(MaxTasks + 1) /\ left # 0
        /\ left - 1 = MaxTasks + 1 - (n - k)
    BY <1>0, <2>1
  <2>3. /\ s[j] \in Slot /\ s[j + 1] \in Slot /\ field[s[j]] = s[j + 1]
        /\ s[j + 1] # Null
    BY <1>0, <2>2 DEF Links, Null
  <2>4. from[<<s[n - k], MaxTasks + 1 - (n - k)>>] = rest(n - k)
    BY <1>3, <2>0
  <2>5. from[<<s[j + 1], left - 1>>] = rest(j + 1)
    <3>. HIDE DEF rest
    <3>. QED BY <2>2, <2>4
  <2>6. from[<<s[j], left>>] = <<s[j + 1]>> \o from[<<s[j + 1], left - 1>>]
    BY <1>1, <2>2, <2>3
  <2>7. <<s[j + 1]>> \o rest(j + 1) = rest(j)
    <3>1. \A i \in 1..n : s[i] \in Slot
      BY <1>0 DEF Links
    <3>2. /\ rest(j + 1) \in Seq(Slot) /\ Len(rest(j + 1)) = n - (j + 1)
          /\ \A i \in 1..(n - (j + 1)) : rest(j + 1)[i] = s[j + 1 + i]
      <4>1. n - (j + 1) \in Nat /\ \A i \in 1..(n - (j + 1)) : s[j + 1 + i] \in Slot
        BY <1>0, <2>2, <3>1
      <4>. QED BY <4>1
    <3>3. /\ rest(j) \in Seq(Slot) /\ Len(rest(j)) = n - j
          /\ \A i \in 1..(n - j) : rest(j)[i] = s[j + i]
      <4>1. n - j \in Nat /\ \A i \in 1..(n - j) : s[j + i] \in Slot
        BY <1>0, <2>2, <3>1
      <4>. QED BY <4>1
    <3>. HIDE DEF rest
    <3>4. /\ Len(rest(j)) = Len(rest(j + 1)) + 1 /\ rest(j)[1] = s[j + 1]
          /\ \A i \in 1..Len(rest(j + 1)) : rest(j)[i + 1] = rest(j + 1)[i]
      BY <1>0, <2>2, <3>2, <3>3
    <3>. QED BY <2>3, <3>2, <3>3, <3>4, ConsIs
  <2>. HIDE DEF rest
  <2>. QED BY <2>1, <2>5, <2>6, <2>7
<1>. HIDE DEF S
<1>4. n \in S
  BY <1>0, <1>2, <1>3, NatInd
<1>5. from[<<s[0], MaxTasks + 1>>] = rest(0)
  <2>1. n - n = 0 /\ MaxTasks + 1 - 0 = MaxTasks + 1 /\ n <= n
    BY <1>0
  <2>2. from[<<s[n - n], MaxTasks + 1 - (n - n)>>] = rest(n - n)
    BY <1>4, <2>1 DEF S
  <2>. HIDE DEF rest
  <2>. QED BY <2>1, <2>2
<1>6. rest(0) = [i \in 1..n |-> s[i]]
  <2>1. n - 0 = n /\ \A i \in 1..n : 0 + i = i
    BY <1>0
  <2>. QED BY <2>1
<1>. QED BY <1>1, <1>5, <1>6 DEF Links
-----------------------------------------------------------------------------
(* A line comes in                                                         *)

\* A task that has just been allocated is not in the list.
LEMMA Fresh ==
  ASSUME TypeOK, NEW n, NEW s, Queue(n, s), NEW t \in Node \ allocated
  PROVE  /\ t \in Slot /\ t # 0 /\ MaxTasks \in Nat /\ n \in Nat
         /\ \A i \in 0..n : s[i] \in Slot /\ s[i] # t
<1>1. MaxTasks \in Nat /\ n \in Nat
  BY InputQueueAssumption DEF Queue, Links
<1>2. t \in Slot /\ t # 0
  BY <1>1 DEF Node, Slot
<1>3. \A i \in 0..n : s[i] \in Slot /\ (i = 0 \/ i \in 1..n)
  BY <1>1 DEF Queue, Links
<1>. QED BY <1>1, <1>2, <1>3 DEF Queue, Links

LEMMA RearQueue ==
  ASSUME TypeOK, NEW n, NEW s, Queue(n, s), NEW t \in Node \ allocated,
         NEW s1, s1 = [i \in 0..(n + 1) |-> IF i = n + 1 THEN t ELSE s[i]],
         allocated' = allocated \cup {t},
         next' = [next EXCEPT ![last_input] = t, ![t] = Null], last_input' = t
  PROVE  Queue(n + 1, s1)'
<1>1. /\ t \in Slot /\ t # 0 /\ MaxTasks \in Nat /\ n \in Nat
      /\ \A i \in 0..n : s[i] \in Slot /\ s[i] # t
  BY Fresh
<1>2. /\ s1 \in [0..(n + 1) -> Slot] /\ s1[n + 1] = t
      /\ \A i \in 0..n : s1[i] = s[i]
  BY <1>1
<1>3. n + 1 \in Nat /\ s1[0] = 0
  BY <1>1, <1>2 DEF Queue, Links
<1>4. \A i, j \in 0..(n + 1) : s1[i] = s1[j] => i = j
  BY <1>1, <1>2 DEF Queue, Links
<1>5. /\ next'[t] = Null /\ next'[s[n]] = t
      /\ \A x \in Slot : x # t /\ x # s[n] => next'[x] = next[x]
  BY <1>1, InputQueueAssumption DEF TypeOK, Queue
<1>6. ASSUME NEW i \in 0..((n + 1) - 1) PROVE next'[s1[i]] = s1[i + 1]
  <2>1. CASE i = n
    BY <1>1, <1>2, <1>5, <2>1
  <2>2. CASE i # n
    <3>1. i \in 0..(n - 1) /\ i + 1 \in 0..n /\ i \in 0..n
      BY <1>1, <2>2
    <3>2. s[i] # s[n] /\ next[s[i]] = s[i + 1]
      BY <1>1, <2>2, <3>1 DEF Queue, Links
    <3>. QED BY <1>1, <1>2, <1>5, <3>1, <3>2
  <2>. QED BY <2>1, <2>2
<1>7. \A i \in 1..(n + 1) : s1[i] \in allocated'
  BY <1>1, <1>2 DEF Queue
<1>8. \A u \in allocated' : \E i \in 1..(n + 1) : s1[i] = u
  BY <1>1, <1>2 DEF Queue
<1>. QED BY <1>2, <1>3, <1>4, <1>5, <1>6, <1>7, <1>8 DEF Queue, Links

\* The end of the last run.
LEMMA LastRun ==
  ASSUME NEW n, NEW s, NEW m, NEW e, Queue(n, s), Runs(n, s, m, e)
  PROVE  /\ n = 0 <=> m = 0
         /\ next_itail[last_itail] = s[n]
         /\ first_input # Null <=> n # 0
         /\ n # 0 => first_input = s[1] /\ first_itail = s[e[1]] /\ e[1] \in 1..n
<1>1. n \in Nat /\ m \in Nat
  BY DEF Queue, Links, Runs
<1>2. n = 0 <=> m = 0
  BY <1>1 DEF Runs
<1>3. CASE n = 0
  BY <1>2, <1>3 DEF Queue, Links, Runs, first_input, Null
<1>4. CASE n # 0
  <2>1. n \in 1..n /\ m - 1 \in 0..(m - 1) /\ (m - 1) + 1 = m /\ 0 \in 0..(m - 1) /\ 0 \in 0..(n - 1)
    BY <1>1, <1>2, <1>4
  <2>2. next_itail[s[e[m - 1]]] = s[e[m]]
    BY <2>1 DEF Runs
  <2>3. first_input = s[1] /\ s[1] # 0
    BY <1>1, <1>4, <2>1 DEF Queue, Links, first_input
  <2>4. first_itail = s[e[1]]
    BY <2>1 DEF Runs, first_itail, Queue, Links
  <2>5. e[1] \in 1..n
    BY <1>1, <1>2, <1>4 DEF Runs
  <2>. QED BY <1>2, <1>4, <2>2, <2>3, <2>4, <2>5 DEF Runs, Null
<1>. QED BY <1>3, <1>4

\* At the rear a line ends the last run, in place of the task before it, or a
\* run of its own.
LEMMA RearRuns ==
  ASSUME TypeOK, NEW n, NEW s, NEW m, NEW e, Queue(n, s), Runs(n, s, m, e),
         NEW t \in Node \ allocated, NEW line,
         NEW s1, s1 = [i \in 0..(n + 1) |-> IF i = n + 1 THEN t ELSE s[i]],
         kind' = [kind EXCEPT ![t] = line.kind], LinkRear(t, line)
  PROVE  \E m1, e1 : Runs(n + 1, s1, m1, e1)'
<1>1. /\ t \in Slot /\ t # 0 /\ MaxTasks \in Nat /\ n \in Nat
      /\ \A i \in 0..n : s[i] \in Slot /\ s[i] # t
  BY Fresh
<1>2. s1[n + 1] = t /\ \A i \in 0..n : s1[i] = s[i]
  BY <1>1
<1>3. /\ n = 0 <=> m = 0
      /\ next_itail[last_itail] = s[n]
      /\ first_input # Null <=> n # 0
  BY LastRun
<1>4. m \in Nat /\ \A i \in 0..m : e[i] \in 0..n
  BY DEF Runs
<1>. DEFINE new_run == n # 0 /\ IsOob(kind[s[n]]) # IsOob(line.kind)
            slot == IF new_run THEN s[n] ELSE last_itail
<1>m. PICK m1 : m1 = IF new_run \/ n = 0 THEN m + 1 ELSE m
  OBVIOUS
<1>e. PICK e1 : e1 = [i \in 0..m1 |-> IF i = m1 THEN n + 1 ELSE e[i]]
  OBVIOUS
<1>5. /\ last_itail' = slot
      /\ next_itail' = [next_itail EXCEPT ![t] = Null, ![slot] = t]
  <2>1. (first_input # Null /\ IsOob(kind[next_itail[last_itail]]) # IsOob(line.kind))
          <=> new_run
    BY <1>3, Zenon
  <2>. DEFINE last == next_itail[last_itail]
              is_new == first_input # Null /\ IsOob(kind[last]) # IsOob(line.kind)
              to == IF is_new THEN last ELSE last_itail
  <2>2. last_itail' = to /\ next_itail' = [next_itail EXCEPT ![t] = Null, ![to] = t]
    BY Zenon DEF LinkRear
  <2>. HIDE DEF new_run, is_new
  <2>3. to = slot
    BY <1>3, <2>1 DEF is_new
  <2>. HIDE DEF to, slot
  <2>. QED BY <2>2, <2>3
<1>6. m1 \in Nat \ {0} /\ m1 - 1 \in 0..m /\ m1 \in {m, m + 1}
  BY <1>3, <1>4, <1>m
<1>7. slot = s[e[m1 - 1]]
  <2>1. CASE new_run
    <3>1. m1 - 1 = m /\ e[m] = n
      BY <1>4, <1>m, <2>1 DEF Runs
    <3>. QED BY <2>1, <3>1
  <2>2. CASE ~new_run /\ n = 0
    <3>1. m1 - 1 = 0 /\ m = 0 /\ e[0] = 0 /\ s[0] = 0
      BY <1>3, <1>m, <2>2 DEF Runs, Queue, Links
    <3>. QED BY <2>2, <3>1 DEF Runs
  <2>3. CASE ~new_run /\ n # 0
    BY <1>3, <1>m, <2>3 DEF Runs
  <2>. QED BY <2>1, <2>2, <2>3
<1>8. /\ e1 \in [0..m1 -> 0..(n + 1)] /\ e1[m1] = n + 1
      /\ \A i \in 0..(m1 - 1) : e1[i] = e[i] /\ i \in 0..m
  BY <1>1, <1>4, <1>6, <1>e
<1>9. \A p \in 1..(n - 1) : Differ(s1, p)' <=> Differ(s, p)
  <2>. TAKE p \in 1..(n - 1)
  <2>1. p \in 0..n /\ p + 1 \in 0..n
    BY <1>1
  <2>2. s[p] \in Node /\ s[p + 1] \in Node /\ s[p] # t /\ s[p + 1] # t
    BY <1>1, <2>1 DEF Slot, Node, Queue, Links
  <2>. QED BY <1>2, <2>1, <2>2 DEF Differ, TypeOK
<1>10. n # 0 => (Differ(s1, n)' <=> new_run)
  <2>. HAVE n # 0
  <2>1. s1[n] = s[n] /\ s1[n + 1] = t /\ s[n] # t
    BY <1>1, <1>2
  <2>2. s[n] \in Node
    BY <1>1 DEF Slot, Node, Queue, Links
  <2>3. kind'[s[n]] = kind[s[n]] /\ kind'[t] = line.kind
    BY <2>1, <2>2 DEF TypeOK
  <2>. QED BY <2>1, <2>3 DEF Differ
<1>. HIDE DEF new_run
<1>11. \A i, j \in 0..m1 : i < j => e1[i] < e1[j]
  <2>. TAKE i, j \in 0..m1
  <2>. HAVE i < j
  <2>1. i \in 0..(m1 - 1) /\ e[i] \in 0..n /\ e1[i] = e[i]
    BY <1>4, <1>6, <1>8
  <2>2. CASE j = m1
    BY <1>1, <1>8, <2>1, <2>2
  <2>3. CASE j # m1
    <3>1. j \in 0..(m1 - 1) /\ e1[j] = e[j] /\ j \in 0..m /\ i \in 0..m
      BY <1>6, <1>8, <2>1, <2>3
    <3>. QED BY <2>1, <3>1 DEF Runs
  <2>. QED BY <2>2, <2>3
<1>12. e1[0] = 0
  BY <1>6, <1>8 DEF Runs
<1>13. ASSUME NEW i \in 0..(m1 - 1) PROVE next_itail'[s1[e1[i]]] = s1[e1[i + 1]]
  <2>0. e1[i] = e[i] /\ e[i] \in 0..n /\ s1[e[i]] = s[e[i]] /\ s[e[i]] # t /\ s[e[i]] \in Slot
    BY <1>1, <1>2, <1>4, <1>8
  <2>1. CASE i = m1 - 1
    <3>1. i + 1 = m1
      BY <1>6, <2>1
    <3>2. next_itail'[slot] = t
      <4>1. slot \in Slot
        BY <1>7, <2>0, <2>1
      <4>. QED BY <1>5, <4>1 DEF TypeOK
    <3>. QED BY <1>2, <1>7, <1>8, <2>0, <2>1, <3>1, <3>2
  <2>2. CASE i # m1 - 1
    <3>1. i + 1 \in 0..(m1 - 1) /\ i \in 0..(m - 1) /\ i + 1 \in 0..m /\ m1 - 1 \in 0..m /\ i \in 0..m
      BY <1>4, <1>6, <2>2
    <3>2. e1[i + 1] = e[i + 1] /\ e[i + 1] \in 0..n /\ s1[e[i + 1]] = s[e[i + 1]]
      BY <1>2, <1>4, <1>8, <3>1
    <3>3. e[i] < e[m1 - 1] /\ e[m1 - 1] \in 0..n
      BY <1>4, <1>6, <3>1, <2>2 DEF Runs
    <3>4. s[e[i]] # slot
      BY <1>7, <2>0, <3>3 DEF Queue, Links
    <3>5. next_itail'[s[e[i]]] = next_itail[s[e[i]]]
      BY <1>5, <2>0, <3>4 DEF TypeOK
    <3>. QED BY <2>0, <3>1, <3>2, <3>5 DEF Runs
  <2>. QED BY <2>1, <2>2
<1>14. next_itail'[s1[n + 1]] = Null
  <2>1. e[m1 - 1] \in 0..n
    BY <1>4, <1>6
  <2>2. slot # t
    BY <1>1, <1>7, <2>1
  <2>. QED BY <1>1, <1>2, <1>5, <2>2 DEF TypeOK
<1>15. last_itail' = IF m1 = 0 THEN 0 ELSE s1[e1[m1 - 1]]
  <2>1. m1 - 1 \in 0..(m1 - 1) /\ e1[m1 - 1] = e[m1 - 1] /\ e[m1 - 1] \in 0..n
    BY <1>4, <1>6, <1>8
  <2>. QED BY <1>2, <1>5, <1>6, <1>7, <2>1
<1>16. ASSUME NEW p \in 1..((n + 1) - 1)
       PROVE  Differ(s1, p)' <=> \E k \in 1..m1 : e1[k] = p
  <2>1. CASE p = n
    <3>1. new_run => e1[m] = n /\ m \in 1..m1
      BY <1>1, <1>3, <1>4, <1>8, <1>m, <2>1 DEF new_run, Runs
    <3>2. ASSUME ~new_run, NEW k \in 1..m1 PROVE e1[k] # n
      <4>1. m1 = m /\ n # 0
        BY <1>1, <1>m, <2>1, <3>2
      <4>2. CASE k = m
        BY <1>1, <1>8, <4>1, <4>2
      <4>3. CASE k # m
        <5>1. k \in 0..(m1 - 1) /\ k \in 0..m /\ k < m /\ m \in 0..m
          BY <1>4, <4>1, <4>3
        <5>. QED BY <1>4, <1>8, <5>1 DEF Runs
      <4>. QED BY <4>2, <4>3
    <3>3. n # 0
      BY <1>1, <2>1
    <3>. QED BY <1>10, <2>1, <3>1, <3>2, <3>3
  <2>2. CASE p # n
    <3>1. p \in 1..(n - 1) /\ n # 0 /\ p # n + 1
      BY <1>1, <2>2
    <3>2. (\E k \in 1..m1 : e1[k] = p) <=> (\E k \in 1..m : e[k] = p)
      <4>1. ASSUME NEW k \in 1..m1, e1[k] = p PROVE \E l \in 1..m : e[l] = p
        BY <1>4, <1>6, <1>8, <3>1, <4>1, SMTT(30)
      <4>2. ASSUME NEW k \in 1..m, e[k] = p PROVE \E l \in 1..m1 : e1[l] = p
        <5>1. k # m
          BY <3>1, <4>2 DEF Runs
        <5>2. k \in 0..(m1 - 1) /\ k \in 1..m1
          BY <1>4, <1>6, <5>1
        <5>. QED BY <1>8, <4>2, <5>2
      <4>. QED BY <4>1, <4>2
    <3>. QED BY <1>9, <3>1, <3>2 DEF Runs
  <2>. QED BY <2>1, <2>2
<1>17. Runs(n + 1, s1, m1, e1)'
  <2>. QED BY <1>6, <1>8, <1>11, <1>12, <1>13, <1>14, <1>15, <1>16 DEF Runs
<1>. QED BY <1>17

LEMMA FrontQueue ==
  ASSUME TypeOK, NEW n, NEW s, Queue(n, s), n # 0, NEW t \in Node \ allocated,
         NEW s1, s1 = [i \in 0..(n + 1) |-> IF i = 0 THEN 0 ELSE IF i = 1 THEN t ELSE s[i - 1]],
         allocated' = allocated \cup {t},
         next' = [next EXCEPT ![t] = first_input, ![0] = t], last_input' = last_input
  PROVE  Queue(n + 1, s1)'
<1>1. /\ t \in Slot /\ t # 0 /\ MaxTasks \in Nat /\ n \in Nat
      /\ \A i \in 0..n : s[i] \in Slot /\ s[i] # t
  BY Fresh
<1>2. /\ s1 \in [0..(n + 1) -> Slot] /\ s1[0] = 0 /\ s1[1] = t
      /\ \A i \in 1..n : s1[i + 1] = s[i]
  BY <1>1 DEF Slot
<1>3. \A i \in 0..(n + 1) : i = 0 \/ i = 1 \/ (i - 1 \in 1..n /\ i - 1 \in 0..n /\ (i - 1) + 1 = i)
  BY <1>1
<1>4. \A i \in 1..n : s[i] # 0
  BY <1>1 DEF Queue, Links
<1>5. \A i, j \in 0..(n + 1) : s1[i] = s1[j] => i = j
  <2>. TAKE i, j \in 0..(n + 1)
  <2>1. i = 0 \/ i = 1 \/ (s1[i] = s[i - 1] /\ i - 1 \in 1..n)
    BY <1>2, <1>3
  <2>2. j = 0 \/ j = 1 \/ (s1[j] = s[j - 1] /\ j - 1 \in 1..n)
    BY <1>2, <1>3
  <2>3. \A k, l \in 1..n : s[k] = s[l] => k = l
    BY <1>1 DEF Queue, Links
  <2>4. \A k \in 1..n : s[k] # t
    BY <1>1
  <2>. QED BY <1>1, <1>2, <1>4, <2>1, <2>2, <2>3, <2>4
<1>6. /\ next'[0] = t /\ next'[t] = next[0] /\ next[0] = s[1]
      /\ \A x \in Slot : x # t /\ x # 0 => next'[x] = next[x]
  BY <1>1 DEF TypeOK, Queue, Links, first_input, Slot
<1>7. ASSUME NEW i \in 0..((n + 1) - 1) PROVE next'[s1[i]] = s1[i + 1]
  <2>1. CASE i = 0
    BY <1>2, <1>6, <2>1
  <2>2. CASE i = 1
    <3>1. s1[2] = s[1]
      BY <1>1, <1>2
    <3>. QED BY <1>2, <1>6, <2>2, <3>1
  <2>3. CASE i # 0 /\ i # 1
    <3>1. /\ i - 1 \in 1..n /\ i - 1 \in 0..(n - 1) /\ i \in 1..n
          /\ (i - 1) + 1 = i /\ i - 1 \in 0..n
      BY <1>1, <2>3
    <3>2. s1[i] = s[i - 1] /\ s1[i + 1] = s[i] /\ s[i - 1] # 0 /\ s[i - 1] # t /\ s[i - 1] \in Slot
      BY <1>1, <1>2, <1>4, <3>1
    <3>3. next[s[i - 1]] = s[i]
      BY <3>1 DEF Queue, Links
    <3>. QED BY <1>6, <3>2, <3>3
  <2>. QED BY <2>1, <2>2, <2>3
<1>8. next'[s1[n + 1]] = Null /\ last_input' = s1[n + 1]
  <2>1. s1[n + 1] = s[n] /\ s[n] # 0 /\ s[n] # t /\ s[n] \in Slot
    BY <1>1, <1>2, <1>4
  <2>. QED BY <1>6, <2>1 DEF Queue, Links
<1>9. \A i \in 1..(n + 1) : s1[i] \in allocated'
  <2>. TAKE i \in 1..(n + 1)
  <2>1. i = 1 \/ (s1[i] = s[i - 1] /\ i - 1 \in 1..n)
    BY <1>1, <1>2, <1>3
  <2>. QED BY <1>2, <2>1 DEF Queue
<1>10. \A u \in allocated' : \E i \in 1..(n + 1) : s1[i] = u
  <2>. TAKE u \in allocated'
  <2>1. CASE u = t
    <3>1. 1 \in 1..(n + 1)
      BY <1>1
    <3>. QED BY <1>2, <2>1, <3>1
  <2>2. CASE u # t
    <3>0. u \in allocated
      BY <2>2
    <3>1. PICK i \in 1..n : s[i] = u
      BY <3>0 DEF Queue
    <3>2. i + 1 \in 1..(n + 1) /\ s1[i + 1] = u
      BY <1>1, <1>2, <3>1
    <3>. QED BY <3>2
  <2>. QED BY <2>1, <2>2
<1>11. n + 1 \in Nat
  BY <1>1
<1>. QED BY <1>2, <1>5, <1>7, <1>8, <1>9, <1>10, <1>11 DEF Queue, Links

\* In front of the others a line joins the first run or is a run of its own.
LEMMA FrontRuns ==
  ASSUME TypeOK, NEW n, NEW s, NEW m, NEW e, Queue(n, s), Runs(n, s, m, e), n # 0,
         NEW t \in Node \ allocated, NEW line,
         NEW s1, s1 = [i \in 0..(n + 1) |-> IF i = 0 THEN 0 ELSE IF i = 1 THEN t ELSE s[i - 1]],
         kind' = [kind EXCEPT ![t] = line.kind], LinkFront(t, line)
  PROVE  \E m1, e1 : Runs(n + 1, s1, m1, e1)'
<1>1. /\ t \in Slot /\ t # 0 /\ MaxTasks \in Nat /\ n \in Nat
      /\ \A i \in 0..n : s[i] \in Slot /\ s[i] # t
  BY Fresh
<1>2. s1[0] = 0 /\ s1[1] = t /\ \A i \in 1..n : s1[i + 1] = s[i]
  BY <1>1
<1>3. m \in Nat \ {0} /\ first_input = s[1] /\ first_itail = s[e[1]] /\ e[1] \in 1..n
  <2>1. /\ n = 0 <=> m = 0
        /\ n # 0 => first_input = s[1] /\ first_itail = s[e[1]] /\ e[1] \in 1..n
    BY LastRun
  <2>2. m \in Nat
    BY DEF Runs
  <2>. QED BY <2>1, <2>2
<1>4. \A i \in 1..m : e[i] \in 1..n
  BY <1>1, <1>3 DEF Runs
<1>5. \A i \in 1..n : s[i] # 0 /\ s[i] # t /\ s[i] \in Slot
  BY <1>1 DEF Queue, Links
<1>. DEFINE ends_run == IsOob(kind[s[1]]) # IsOob(line.kind)
<1>m. PICK d : d = IF ends_run THEN 1 ELSE 0
  OBVIOUS
<1>e. PICK e1 : e1 = [i \in 0..(m + d) |-> IF i = 0 THEN 0 ELSE IF i = d THEN 1 ELSE e[i - d] + 1]
  OBVIOUS
<1>6. /\ d \in {0, 1} /\ m + d \in Nat \ {0} /\ (d = 1 <=> ends_run)
  BY <1>3, <1>m
<1>7. /\ next_itail' = IF d = 1 THEN [next_itail EXCEPT ![t] = first_itail, ![0] = t]
                                ELSE [next_itail EXCEPT ![t] = Null]
      /\ last_itail' = IF d = 1 /\ last_itail = 0 THEN t ELSE last_itail
  BY <1>3, <1>6 DEF LinkFront
<1>. HIDE DEF ends_run
<1>8. /\ e1[0] = 0 /\ (d = 1 => e1[1] = 1)
      /\ \A i \in 1..m : e1[i + d] = e[i] + 1
      /\ \A i \in 1..(m + d) : i = d \/ (i - d \in 1..m /\ (i - d) + d = i)
  BY <1>3, <1>6, <1>e
<1>9. e1 \in [0..(m + d) -> 0..(n + 1)] /\ e1[m + d] = n + 1
  <2>1. \A i \in 0..(m + d) : e1[i] \in 0..(n + 1)
    <3>. TAKE i \in 0..(m + d)
    <3>1. CASE i = 0
      BY <1>1, <1>8, <3>1
    <3>2. CASE i # 0 /\ i = d
      BY <1>1, <1>6, <1>8, <3>2
    <3>3. CASE i # 0 /\ i # d
      <4>1. i - d \in 1..m /\ (i - d) + d = i
        BY <1>3, <1>6, <1>8, <3>3
      <4>2. e1[i] = e[i - d] + 1 /\ e[i - d] \in 1..n
        BY <1>4, <1>8, <4>1
      <4>. QED BY <1>1, <4>2
    <3>. QED BY <3>1, <3>2, <3>3
  <2>2. e1[m + d] = n + 1
    <3>1. m \in 1..m /\ e[m] = n
      BY <1>3 DEF Runs
    <3>. QED BY <1>8, <3>1
  <2>. QED BY <1>e, <2>1, <2>2
<1>10. \A i, j \in 0..(m + d) : i < j => e1[i] < e1[j]
  <2>. TAKE i, j \in 0..(m + d)
  <2>. HAVE i < j
  <2>1. \A k, l \in 1..m : k < l => e[k] < e[l]
    BY <1>3 DEF Runs
  <2>2. i = 0 \/ (i = 1 /\ d = 1) \/ (i - d \in 1..m /\ e1[i] = e[i - d] + 1)
    BY <1>3, <1>6, <1>8
  <2>3. (j = 1 /\ d = 1) \/ (j - d \in 1..m /\ e1[j] = e[j - d] + 1)
    BY <1>3, <1>6, <1>8
  <2>4. CASE i = 0
    BY <1>3, <1>4, <1>8, <2>3, <2>4
  <2>5. CASE i = 1 /\ d = 1
    <3>1. j - d \in 1..m /\ e1[j] = e[j - d] + 1
      BY <2>3, <2>5
    <3>2. e1[i] = 1 /\ e[j - d] \in 1..n
      BY <1>4, <1>8, <2>5, <3>1
    <3>. QED BY <1>1, <3>1, <3>2
  <2>6. CASE i - d \in 1..m /\ e1[i] = e[i - d] + 1
    <3>1. j - d \in 1..m /\ e1[j] = e[j - d] + 1
      BY <1>3, <1>6, <2>3, <2>6
    <3>2. i - d < j - d
      BY <1>3, <1>6
    <3>3. e[i - d] < e[j - d] /\ e[i - d] \in 1..n /\ e[j - d] \in 1..n
      BY <1>4, <2>1, <2>6, <3>1, <3>2
    <3>. QED BY <1>1, <2>6, <3>1, <3>3
  <2>. QED BY <2>2, <2>4, <2>5, <2>6
<1>11. /\ next_itail'[0] = (IF d = 1 THEN t ELSE s[e[1]])
       /\ next_itail'[t] = (IF d = 1 THEN s[e[1]] ELSE Null)
       /\ \A x \in Slot : x # 0 /\ x # t => next_itail'[x] = next_itail[x]
  <2>1. next_itail \in [Slot -> Slot] /\ 0 \in Slot /\ next_itail[0] = s[e[1]]
    <3>1. 0 \in Slot
      BY <1>1 DEF Slot
    <3>. QED BY <1>3, <3>1 DEF TypeOK, first_itail
  <2>2. CASE d = 1
    <3>1. next_itail' = [next_itail EXCEPT ![t] = first_itail, ![0] = t]
      BY <1>7, <2>2
    <3>. QED BY <1>1, <1>3, <2>1, <2>2, <3>1
  <2>3. CASE d = 0
    <3>1. next_itail' = [next_itail EXCEPT ![t] = Null]
      BY <1>7, <2>3
    <3>. QED BY <1>1, <2>1, <2>3, <3>1
  <2>. QED BY <1>6, <2>2, <2>3
<1>12. ASSUME NEW i \in 0..((m + d) - 1) PROVE next_itail'[s1[e1[i]]] = s1[e1[i + 1]]
  <2>1. CASE i = 0
    <3>1. CASE d = 1
      BY <1>2, <1>8, <1>11, <2>1, <3>1
    <3>2. CASE d = 0
      <4>1. e1[1] = e[1] + 1 /\ s1[e[1] + 1] = s[e[1]]
        BY <1>2, <1>3, <1>8, <3>2
      <4>. QED BY <1>2, <1>8, <1>11, <2>1, <3>2, <4>1
    <3>. QED BY <1>6, <3>1, <3>2
  <2>2. CASE i = 1 /\ d = 1
    <3>1. e1[2] = e[1] + 1 /\ s1[e[1] + 1] = s[e[1]]
      BY <1>2, <1>3, <1>8, <2>2
    <3>. QED BY <1>2, <1>8, <1>11, <2>2, <3>1
  <2>3. CASE i # 0 /\ ~(i = 1 /\ d = 1)
    <3>1. PICK k \in Int : k = i - d
      BY <1>6
    <3>2. k \in 1..(m - 1) /\ k \in 1..m /\ k + 1 \in 1..m /\ i = k + d /\ i + 1 = (k + 1) + d
      BY <1>3, <1>6, <2>3, <3>1
    <3>3. e1[i] = e[k] + 1 /\ e1[i + 1] = e[k + 1] + 1
      BY <1>8, <3>2
    <3>4. s1[e1[i]] = s[e[k]] /\ s1[e1[i + 1]] = s[e[k + 1]]
      BY <1>2, <1>4, <3>2, <3>3
    <3>5. next_itail'[s[e[k]]] = next_itail[s[e[k]]]
      BY <1>4, <1>5, <1>11, <3>2
    <3>6. next_itail[s[e[k]]] = s[e[k + 1]]
      BY <1>3, <3>2 DEF Runs
    <3>. QED BY <3>4, <3>5, <3>6
  <2>. QED BY <2>1, <2>2, <2>3
<1>13. next_itail'[s1[n + 1]] = Null
  <2>1. n \in 1..n /\ s1[n + 1] = s[n]
    BY <1>1, <1>2
  <2>. QED BY <1>5, <1>11, <2>1 DEF Runs
<1>14. last_itail' = IF m + d = 0 THEN 0 ELSE s1[e1[(m + d) - 1]]
  <2>1. last_itail = s[e[m - 1]] /\ m - 1 \in 0..m
    BY <1>3 DEF Runs
  <2>2. CASE m = 1
    <3>1. last_itail = 0
      BY <2>1, <2>2 DEF Runs, Queue, Links
    <3>2. (m + d) - 1 = d /\ e1[d] = d /\ s1[d] = (IF d = 1 THEN t ELSE 0)
      BY <1>2, <1>6, <1>8, <2>2
    <3>. QED BY <1>6, <1>7, <3>1, <3>2
  <2>3. CASE m # 1
    <3>1. m - 1 \in 1..m /\ (m + d) - 1 = (m - 1) + d
      BY <1>3, <1>6, <2>3
    <3>2. e1[(m + d) - 1] = e[m - 1] + 1 /\ e[m - 1] \in 1..n
      BY <1>4, <1>8, <3>1
    <3>3. s1[e1[(m + d) - 1]] = s[e[m - 1]] /\ s[e[m - 1]] # 0
      BY <1>2, <1>5, <3>2
    <3>. QED BY <1>6, <1>7, <2>1, <3>3
  <2>. QED BY <2>2, <2>3
<1>15. ASSUME NEW p \in 1..((n + 1) - 1)
       PROVE  Differ(s1, p)' <=> \E k \in 1..(m + d) : e1[k] = p
  <2>0. \A q \in 1..n : kind'[s1[q + 1]] = kind[s[q]]
    <3>. TAKE q \in 1..n
    <3>1. s[q] \in Node /\ s[q] # t
      BY <1>1, <1>5 DEF Slot, Node
    <3>. QED BY <1>2, <3>1 DEF TypeOK
  <2>1. CASE p = 1
    <3>1. kind'[s1[1]] = line.kind /\ kind'[s1[1 + 1]] = kind[s[1]]
      BY <1>1, <1>2, <2>0 DEF TypeOK
    <3>2. Differ(s1, 1)' <=> d = 1
      BY <1>6, <3>1 DEF Differ, ends_run
    <3>3. ASSUME d = 0, NEW k \in 1..(m + d) PROVE e1[k] # 1
      <4>1. k \in 1..m /\ k + d = k
        BY <1>3, <3>3
      <4>. QED BY <1>4, <1>8, <4>1
    <3>4. d = 1 => 1 \in 1..(m + d) /\ e1[1] = 1
      BY <1>3, <1>8
    <3>. QED BY <1>6, <2>1, <3>2, <3>3, <3>4
  <2>2. CASE p # 1
    <3>1. PICK q \in Int : q = p - 1
      OBVIOUS
    <3>2. q \in 1..(n - 1) /\ q \in 1..n /\ q + 1 \in 1..n /\ p = q + 1
      BY <1>1, <2>2, <3>1
    <3>3. Differ(s1, p)' <=> Differ(s, q)
      <4>1. kind'[s1[p]] = kind[s[q]] /\ kind'[s1[p + 1]] = kind[s[q + 1]]
        BY <2>0, <3>2
      <4>. QED BY <4>1 DEF Differ
    <3>4. (\E k \in 1..(m + d) : e1[k] = p) <=> (\E k \in 1..m : e[k] = q)
      <4>1. ASSUME NEW k \in 1..(m + d), e1[k] = p PROVE \E l \in 1..m : e[l] = q
        <5>1. k # d
          BY <1>6, <1>8, <2>2, <4>1
        <5>2. k - d \in 1..m /\ e1[(k - d) + d] = e[k - d] + 1 /\ (k - d) + d = k
          BY <1>8, <5>1
        <5>3. e[k - d] = q
          BY <1>4, <3>2, <4>1, <5>2
        <5>. QED BY <5>2, <5>3
      <4>2. ASSUME NEW k \in 1..m, e[k] = q PROVE \E l \in 1..(m + d) : e1[l] = p
        <5>1. k + d \in 1..(m + d) /\ e1[k + d] = p
          BY <1>3, <1>6, <1>8, <3>2, <4>2
        <5>. QED BY <5>1
      <4>. QED BY <4>1, <4>2
    <3>. QED BY <3>2, <3>3, <3>4 DEF Runs
  <2>. QED BY <2>1, <2>2
<1>16. Runs(n + 1, s1, m + d, e1)'
  BY <1>6, <1>8, <1>9, <1>10, <1>12, <1>13, <1>14, <1>15 DEF Runs
<1>. QED BY <1>16
-----------------------------------------------------------------------------
(* A line is taken                                                         *)

\* The tasks that are left when the one after s[p] has gone.
Without(n, s, p) == [i \in 0..(n - 1) |-> IF i <= p THEN s[i] ELSE s[i + 1]]

LEMMA RemoveQueue ==
  ASSUME TypeOK, NEW n, NEW s, Queue(n, s), NEW p \in 0..(n - 1),
         NEW s1, s1 = Without(n, s, p),
         NEW slot, NEW t, slot = s[p], t = s[p + 1],
         next' = [next EXCEPT ![slot] = next[t], ![t] = Null],
         last_input' = IF next[t] = Null THEN slot ELSE last_input,
         allocated' = allocated \ {t}
  PROVE  Queue(n - 1, s1)'
<1>1. n \in Nat /\ n - 1 \in Nat /\ p \in 0..n /\ p + 1 \in 1..n /\ p + 1 \in 0..n
  BY DEF Queue, Links
<1>2. /\ \A i \in 0..n : s[i] \in Slot
      /\ \A i, j \in 0..n : s[i] = s[j] => i = j
      /\ s[0] = 0
      /\ \A i \in 0..(n - 1) : next[s[i]] = s[i + 1]
      /\ next[s[n]] = Null
  BY DEF Queue, Links
<1>3. /\ \A i \in 0..p : s1[i] = s[i] /\ i \in 0..(n - 1) /\ i \in 0..n
      /\ \A i \in (p + 1)..(n - 1) : s1[i] = s[i + 1] /\ i + 1 \in 0..n /\ i + 1 # p + 1
      /\ \A i \in 0..(n - 1) : i \in 0..p \/ i \in (p + 1)..(n - 1)
  BY <1>1 DEF Without
<1>4. s1 \in [0..(n - 1) -> Slot] /\ s1[0] = 0
  <2>1. \A i \in 0..(n - 1) : s1[i] \in Slot
    BY <1>2, <1>3
  <2>. QED BY <1>2, <1>3, <2>1 DEF Without
<1>5. \A i, j \in 0..(n - 1) : s1[i] = s1[j] => i = j
  <2>. TAKE i, j \in 0..(n - 1)
  <2>. HAVE s1[i] = s1[j]
  <2>1. CASE i \in 0..p /\ j \in 0..p
    <3>1. s[i] = s[j] /\ i \in 0..n /\ j \in 0..n
      BY <1>3, <2>1
    <3>. QED BY <1>2, <3>1
  <2>2. CASE i \in 0..p /\ j \in (p + 1)..(n - 1)
    <3>1. s[i] = s[j + 1] /\ i \in 0..n /\ j + 1 \in 0..n
      BY <1>3, <2>2
    <3>. QED BY <1>2, <2>2, <3>1
  <2>3. CASE j \in 0..p /\ i \in (p + 1)..(n - 1)
    <3>1. s[i + 1] = s[j] /\ i + 1 \in 0..n /\ j \in 0..n
      BY <1>3, <2>3
    <3>. QED BY <1>2, <2>3, <3>1
  <2>4. CASE i \in (p + 1)..(n - 1) /\ j \in (p + 1)..(n - 1)
    <3>1. s[i + 1] = s[j + 1] /\ i + 1 \in 0..n /\ j + 1 \in 0..n
      BY <1>3, <2>4
    <3>2. i + 1 = j + 1
      BY <1>2, <3>1
    <3>. QED BY <2>4, <3>2
  <2>. QED BY <1>3, <2>1, <2>2, <2>3, <2>4
<1>6. /\ next'[s[p]] = next[s[p + 1]]
      /\ \A i \in 0..n : i # p /\ i # p + 1 => next'[s[i]] = next[s[i]]
  <2>1. s[p] # s[p + 1] /\ s[p] \in Slot /\ s[p + 1] \in Slot
    BY <1>1, <1>2
  <2>2. \A x \in Slot : x # s[p] /\ x # s[p + 1] => next'[x] = next[x]
    BY DEF TypeOK
  <2>3. \A i \in 0..n : i # p /\ i # p + 1 => s[i] # s[p] /\ s[i] # s[p + 1] /\ s[i] \in Slot
    BY <1>1, <1>2
  <2>. QED BY <2>1, <2>2, <2>3 DEF TypeOK
<1>7. ASSUME NEW i \in 0..((n - 1) - 1) PROVE next'[s1[i]] = s1[i + 1]
  <2>1. CASE i < p
    <3>1. /\ i \in 0..p /\ i + 1 \in 0..p /\ i \in 0..n /\ i \in 0..(n - 1)
          /\ i # p /\ i # p + 1
      BY <1>1, <2>1
    <3>2. s1[i] = s[i] /\ s1[i + 1] = s[i + 1]
      BY <1>3, <3>1
    <3>3. next'[s[i]] = next[s[i]] /\ next[s[i]] = s[i + 1]
      BY <1>2, <1>6, <3>1
    <3>. QED BY <3>2, <3>3
  <2>2. CASE i = p
    <3>1. /\ p \in 0..p /\ p + 1 \in (p + 1)..(n - 1) /\ p + 1 \in 0..(n - 1)
      BY <1>1, <2>2
    <3>. QED BY <1>2, <1>3, <1>6, <2>2, <3>1
  <2>3. CASE i > p
    <3>1. /\ i \in (p + 1)..(n - 1) /\ i + 1 \in (p + 1)..(n - 1)
          /\ i + 1 \in 0..n /\ i + 1 \in 0..(n - 1) /\ i + 1 # p /\ i + 1 # p + 1
      BY <1>1, <2>3
    <3>2. s1[i] = s[i + 1] /\ s1[i + 1] = s[(i + 1) + 1]
      BY <1>3, <3>1
    <3>3. next'[s[i + 1]] = next[s[i + 1]] /\ next[s[i + 1]] = s[(i + 1) + 1]
      BY <1>2, <1>6, <3>1
    <3>. QED BY <3>2, <3>3
  <2>. QED BY <1>1, <2>1, <2>2, <2>3
<1>8. next'[s1[n - 1]] = Null /\ last_input' = s1[n - 1]
  <2>1. CASE p = n - 1
    <3>1. p + 1 = n /\ n - 1 \in 0..p
      BY <1>1, <2>1
    <3>. QED BY <1>2, <1>3, <1>6, <2>1, <3>1
  <2>2. CASE p # n - 1
    <3>1. /\ n - 1 \in (p + 1)..(n - 1) /\ (n - 1) + 1 = n /\ n \in 0..n /\ n # p /\ n # p + 1
          /\ p + 1 \in 0..(n - 1) /\ (p + 1) + 1 \in 0..n /\ (p + 1) + 1 # 0 /\ 0 \in 0..n
      BY <1>1, <2>2
    <3>2. next[s[p + 1]] = s[(p + 1) + 1] /\ s[(p + 1) + 1] # 0
      BY <1>2, <3>1
    <3>3. last_input' = s[n]
      BY <3>2 DEF Null, Queue
    <3>4. s1[n - 1] = s[n]
      BY <1>3, <3>1
    <3>5. next'[s[n]] = Null
      BY <1>2, <1>6, <3>1
    <3>. QED BY <3>3, <3>4, <3>5
  <2>. QED BY <2>1, <2>2
<1>9. \A i \in 1..(n - 1) : s1[i] \in allocated'
  <2>. TAKE i \in 1..(n - 1)
  <2>1. PICK j \in 1..n : j # p + 1 /\ s1[i] = s[j]
    <3>1. i \in 0..p => i \in 1..n /\ i # p + 1
      BY <1>1
    <3>2. i \in (p + 1)..(n - 1) => i + 1 \in 1..n /\ i + 1 # p + 1
      BY <1>1
    <3>3. i \in 0..(n - 1)
      BY <1>1
    <3>. QED BY <1>3, <3>1, <3>2, <3>3
  <2>2. j \in 0..n
    BY <1>1
  <2>3. s[j] # s[p + 1]
    BY <1>1, <1>2, <2>1, <2>2
  <2>. QED BY <2>1, <2>3 DEF Queue
<1>10. \A u \in allocated' : \E i \in 1..(n - 1) : s1[i] = u
  <2>. TAKE u \in allocated'
  <2>1. PICK j \in 1..n : s[j] = u /\ j # p + 1
    BY DEF Queue
  <2>2. CASE j <= p
    <3>1. j \in 0..p /\ j \in 1..(n - 1)
      BY <1>1, <2>2
    <3>2. s1[j] = u
      BY <1>3, <2>1, <3>1
    <3>. QED BY <3>1, <3>2
  <2>3. CASE j > p
    <3>1. j - 1 \in (p + 1)..(n - 1) /\ j - 1 \in 1..(n - 1) /\ (j - 1) + 1 = j
      BY <1>1, <2>1, <2>3
    <3>2. s1[j - 1] = u
      BY <1>3, <2>1, <3>1
    <3>. QED BY <3>1, <3>2
  <2>4. j <= p \/ j > p
    BY <1>1
  <2>. QED BY <2>2, <2>3, <2>4, Zenon
<1>. QED BY <1>1, <1>4, <1>5, <1>7, <1>8, <1>9, <1>10 DEF Queue, Links

\* The ends k + 1, ..., k + d go, because they are at s[p] or at the task that
\* goes, and the ends behind them move up by one place.
Drops(n, m, e, p, k, d) ==
  /\ p <= n - 1 /\ k + d <= m
  /\ \A i \in 0..k : e[i] <= p
  /\ \A i \in (k + 1)..(k + d) : e[i] \in {p, p + 1}
  /\ \A i \in (k + d + 1)..m : e[i] > p + 1
  /\ k + d = m => e[k] = n - 1
  /\ p \in 1..(n - 2) => \E i \in 1..m : e[i] = p
  /\ p \in 1..(n - 2) => (e[k] = p <=> \A i \in 1..m : e[i] # p + 1)

DropsLinks(s, m, e, k, d) ==
  /\ \A i \in 0..m : i < k \/ i > k + d => next_itail'[s[e[i]]] = next_itail[s[e[i]]]
  /\ next_itail'[s[e[k]]] = (IF k + d = m THEN Null ELSE s[e[k + d + 1]])
  /\ last_itail' = IF m = d THEN 0
                   ELSE IF k + d >= m - 1 THEN s[e[m - d - 1]] ELSE last_itail

\* The ends that are left.
Kept(m, e, k, d) == [i \in 0..(m - d) |-> IF i <= k THEN e[i] ELSE e[i + d] - 1]

LEMMA DropRuns ==
  ASSUME NEW n, NEW s, NEW m, NEW e, Queue(n, s), Runs(n, s, m, e),
         NEW p \in Nat, NEW k \in Nat, NEW d \in Nat,
         Drops(n, m, e, p, k, d), DropsLinks(s, m, e, k, d),
         \A i \in 1..n : i # p + 1 => kind'[s[i]] = kind[s[i]],
         NEW s1, s1 = Without(n, s, p), NEW e1, e1 = Kept(m, e, k, d)
  PROVE  Runs(n - 1, s1, m - d, e1)'
<1>1. /\ n \in Nat /\ n - 1 \in Nat /\ m \in Nat /\ m - d \in Nat
      /\ p <= n - 1 /\ k + d <= m /\ k <= m - d
  BY DEF Queue, Links, Runs, Drops
<1>2. /\ \A i \in 0..m : e[i] \in 0..n
      /\ e[0] = 0 /\ e[m] = n
      /\ \A i, j \in 0..m : i < j => e[i] < e[j]
      /\ \A i \in 0..(m - 1) : next_itail[s[e[i]]] = s[e[i + 1]]
      /\ next_itail[s[n]] = Null
      /\ last_itail = IF m = 0 THEN 0 ELSE s[e[m - 1]]
  BY DEF Runs
<1>3. /\ \A i \in 0..p : s1[i] = s[i]
      /\ \A i \in (p + 2)..n : s1[i - 1] = s[i]
  <2>1. \A i \in (p + 2)..n : i - 1 \in 0..(n - 1) /\ ~(i - 1 <= p) /\ (i - 1) + 1 = i
    BY <1>1
  <2>. QED BY <1>1, <2>1 DEF Without
<1>4. ASSUME NEW i \in 0..k
      PROVE  i \in 0..m /\ i \in 0..(m - d) /\ e1[i] = e[i] /\ e[i] \in 0..p /\ s1[e1[i]] = s[e[i]]
  <2>1. i \in 0..m /\ i \in 0..(m - d)
    BY <1>1
  <2>2. e1[i] = e[i] /\ e[i] \in 0..p
    <3>1. e1[i] = e[i] 
      BY <2>1 DEF Kept
    <3>2. e[i] <= p /\ e[i] \in 0..n
      BY <1>2, <2>1 DEF Drops
    <3>. QED BY <1>1, <3>1, <3>2
  <2>. QED BY <1>3, <2>1, <2>2
<1>5. ASSUME NEW i \in (k + 1)..(m - d)
      PROVE  /\ i + d \in (k + d + 1)..m /\ i + d \in 0..m /\ i \in 0..(m - d)
             /\ e1[i] = e[i + d] - 1 /\ e[i + d] \in (p + 2)..n /\ s1[e1[i]] = s[e[i + d]]
  <2>1. i + d \in (k + d + 1)..m /\ i + d \in 0..m /\ i \in 0..(m - d) /\ ~(i <= k)
    BY <1>1
  <2>2. e1[i] = e[i + d] - 1
    BY <2>1 DEF Kept
  <2>3. e[i + d] > p + 1 /\ e[i + d] \in 0..n
    BY <1>2, <2>1 DEF Drops
  <2>4. e[i + d] \in (p + 2)..n
    BY <1>1, <2>3
  <2>. QED BY <1>3, <2>1, <2>2, <2>4
<1>6. \A i \in 0..(m - d) : i \in 0..k \/ i \in (k + 1)..(m - d)
  BY <1>1
<1>7. e1 \in [0..(m - d) -> 0..(n - 1)] /\ e1[0] = 0
  <2>1. ASSUME NEW i \in 0..(m - d) PROVE e1[i] \in 0..(n - 1)
    <3>1. CASE i \in 0..k
      <4>1. e1[i] \in 0..p
        BY <1>4, <3>1
      <4>2. \A x \in 0..p : x \in 0..(n - 1)
        BY <1>1
      <4>. QED BY <4>1, <4>2
    <3>2. CASE i \in (k + 1)..(m - d)
      <4>1. e1[i] = e[i + d] - 1 /\ e[i + d] \in (p + 2)..n
        BY <1>5, <3>2
      <4>2. \A x \in (p + 2)..n : x - 1 \in 0..(n - 1)
        BY <1>1
      <4>. QED BY <4>1, <4>2
    <3>. QED BY <1>6, <3>1, <3>2
  <2>2. 0 \in 0..k
    OBVIOUS
  <2>3. e1[0] = 0
    BY <1>2, <1>4, <2>2
  <2>. QED BY <2>1, <2>3 DEF Kept
<1>8. /\ e1[m - d] = n - 1
      /\ k + d # m => s1[n - 1] = s[n]
      /\ k + d = m => s1[n - 1] = s[e[k]] /\ m - d = k
  <2>1. CASE k + d = m
    <3>1. m - d = k /\ k \in 0..k /\ e[k] = n - 1
      BY <1>1, <2>1 DEF Drops
    <3>2. e1[k] = e[k] /\ s1[e1[k]] = s[e[k]]
      BY <1>4, <3>1
    <3>. QED BY <2>1, <3>1, <3>2
  <2>2. CASE k + d # m
    <3>1. m - d \in (k + 1)..(m - d) /\ (m - d) + d = m
      BY <1>1, <2>2
    <3>2. e1[m - d] = e[m] - 1 /\ s1[e1[m - d]] = s[e[m]]
      BY <1>5, <3>1
    <3>. QED BY <1>2, <2>2, <3>2
  <2>. QED BY <2>1, <2>2
<1>9. \A i, j \in 0..(m - d) : i < j => e1[i] < e1[j]
  <2>. TAKE i, j \in 0..(m - d)
  <2>. HAVE i < j
  <2>1. CASE i \in 0..k /\ j \in 0..k
    BY <1>2, <1>4, <2>1
  <2>2. CASE i \in 0..k /\ j \in (k + 1)..(m - d)
    <3>1. e1[i] \in 0..p
      BY <1>4, <2>2
    <3>2. e1[j] = e[j + d] - 1 /\ e[j + d] \in (p + 2)..n
      BY <1>5, <2>2
    <3>. QED BY <1>1, <3>1, <3>2
  <2>3. CASE i \in (k + 1)..(m - d) /\ j \in (k + 1)..(m - d)
    <3>1. /\ i + d \in 0..m /\ e1[i] = e[i + d] - 1 /\ e[i + d] \in (p + 2)..n
          /\ j + d \in 0..m /\ e1[j] = e[j + d] - 1 /\ e[j + d] \in (p + 2)..n
      BY <1>5, <2>3
    <3>2. i + d < j + d
      BY <1>1
    <3>3. e[i + d] < e[j + d]
      BY <1>2, <3>1, <3>2
    <3>. QED BY <1>1, <3>1, <3>3
  <2>. QED BY <1>1, <1>6, <2>1, <2>2, <2>3
<1>10. ASSUME NEW i \in 0..((m - d) - 1) PROVE next_itail'[s1[e1[i]]] = s1[e1[i + 1]]
  <2>1. CASE i < k
    <3>1. i \in 0..k /\ i + 1 \in 0..k /\ i \in 0..m /\ i \in 0..(m - 1)
      BY <1>1, <2>1
    <3>2. s1[e1[i]] = s[e[i]] /\ s1[e1[i + 1]] = s[e[i + 1]]
      BY <1>4, <3>1
    <3>3. next_itail'[s[e[i]]] = next_itail[s[e[i]]] /\ next_itail[s[e[i]]] = s[e[i + 1]]
      BY <1>2, <2>1, <3>1 DEF DropsLinks
    <3>. QED BY <3>2, <3>3
  <2>2. CASE i = k
    <3>1. k \in 0..k /\ k + 1 \in (k + 1)..(m - d) /\ k + d # m /\ (k + 1) + d = k + d + 1
      BY <1>1, <2>2
    <3>2. s1[e1[k]] = s[e[k]] /\ s1[e1[k + 1]] = s[e[(k + 1) + d]]
      BY <1>4, <1>5, <3>1
    <3>3. next_itail'[s[e[k]]] = s[e[k + d + 1]]
      BY <3>1 DEF DropsLinks
    <3>. QED BY <2>2, <3>1, <3>2, <3>3
  <2>3. CASE i > k
    <3>1. /\ i \in (k + 1)..(m - d) /\ i + 1 \in (k + 1)..(m - d) /\ (i + 1) + d = (i + d) + 1
          /\ i + d > k + d /\ i + d \in 0..m /\ i + d \in 0..(m - 1)
      BY <1>1, <2>3
    <3>2. s1[e1[i]] = s[e[i + d]] /\ s1[e1[i + 1]] = s[e[(i + 1) + d]]
      BY <1>5, <3>1
    <3>3. /\ next_itail'[s[e[i + d]]] = next_itail[s[e[i + d]]]
          /\ next_itail[s[e[i + d]]] = s[e[(i + d) + 1]]
      BY <1>2, <3>1 DEF DropsLinks
    <3>. QED BY <3>1, <3>2, <3>3
  <2>. QED BY <1>1, <2>1, <2>2, <2>3
<1>11. next_itail'[s1[n - 1]] = Null
  <2>1. CASE k + d = m
    BY <1>8, <2>1 DEF DropsLinks
  <2>2. CASE k + d # m
    <3>1. m > k + d /\ m \in 0..m
      BY <1>1, <2>2
    <3>. QED BY <1>2, <1>8, <2>2, <3>1 DEF DropsLinks
  <2>. QED BY <2>1, <2>2
<1>12. last_itail' = IF m - d = 0 THEN 0 ELSE s1[e1[(m - d) - 1]]
  <2>1. CASE m = d
    BY <1>1, <2>1 DEF DropsLinks
  <2>2. CASE m # d /\ k + d >= m - 1
    <3>1. (m - d) - 1 \in 0..k /\ m - d # 0 /\ m - d - 1 = (m - d) - 1
      BY <1>1, <2>2
    <3>2. s1[e1[(m - d) - 1]] = s[e[(m - d) - 1]]
      BY <1>4, <3>1
    <3>. QED BY <2>2, <3>1, <3>2 DEF DropsLinks
  <2>3. CASE m # d /\ ~(k + d >= m - 1)
    <3>1. (m - d) - 1 \in (k + 1)..(m - d) /\ ((m - d) - 1) + d = m - 1 /\ m # 0 /\ m - d # 0
      BY <1>1, <2>3
    <3>2. s1[e1[(m - d) - 1]] = s[e[m - 1]]
      BY <1>5, <3>1
    <3>. QED BY <1>2, <2>3, <3>1, <3>2 DEF DropsLinks
  <2>. QED BY <2>1, <2>2, <2>3
<1>13. ASSUME NEW q \in 1..((n - 1) - 1)
       PROVE  Differ(s1, q)' <=> \E i \in 1..(m - d) : e1[i] = q
  <2>0. \A i \in 1..(n - 1) : Differ(s, i) <=> \E j \in 1..m : e[j] = i
    BY DEF Runs
  <2>1. CASE q < p
    <3>1. /\ q \in 0..p /\ q + 1 \in 0..p /\ q \in 1..n /\ q + 1 \in 1..n
          /\ q # p + 1 /\ q + 1 # p + 1 /\ q \in 1..(n - 1)
      BY <1>1, <2>1
    <3>2. kind'[s1[q]] = kind[s[q]] /\ kind'[s1[q + 1]] = kind[s[q + 1]]
      BY <1>3, <3>1
    <3>3. Differ(s1, q)' <=> Differ(s, q)
      BY <3>2 DEF Differ
    <3>4. ASSUME NEW j \in 1..m, e[j] = q PROVE \E i \in 1..(m - d) : e1[i] = q
      <4>1. j <= k
        <5>1. j \in (k + 1)..(k + d) => e[j] >= p
          BY <1>1 DEF Drops
        <5>2. j \in (k + d + 1)..m => e[j] > p + 1
          BY DEF Drops
        <5>3. j <= k \/ j \in (k + 1)..(k + d) \/ j \in (k + d + 1)..m
          BY <1>1
        <5>. QED BY <1>1, <2>1, <3>4, <5>1, <5>2, <5>3
      <4>2. j \in 0..k /\ j \in 1..(m - d)
        BY <1>1, <4>1
      <4>. QED BY <1>4, <3>4, <4>2
    <3>5. ASSUME NEW i \in 1..(m - d), e1[i] = q PROVE \E j \in 1..m : e[j] = q
      <4>1. ~(i \in (k + 1)..(m - d))
        <5>. SUFFICES ASSUME i \in (k + 1)..(m - d) PROVE FALSE
          OBVIOUS
        <5>1. e1[i] = e[i + d] - 1 /\ e[i + d] \in (p + 2)..n
          BY <1>5
        <5>. QED BY <1>1, <2>1, <3>5, <5>1
      <4>2. i \in 0..k /\ i \in 1..m
        BY <1>1, <4>1
      <4>. QED BY <1>4, <3>5, <4>2
    <3>. QED BY <2>0, <3>1, <3>3, <3>4, <3>5
  <2>2. CASE q > p
    <3>1. /\ q + 1 \in (p + 2)..n /\ q + 2 \in (p + 2)..n /\ (q + 1) - 1 = q /\ (q + 2) - 1 = q + 1
          /\ q + 1 \in 1..n /\ q + 2 \in 1..n /\ (q + 1) + 1 = q + 2
          /\ q + 1 # p + 1 /\ q + 2 # p + 1 /\ q + 1 \in 1..(n - 1)
      BY <1>1, <2>2
    <3>2. s1[q] = s[q + 1] /\ s1[q + 1] = s[q + 2]
      BY <1>3, <3>1
    <3>3. Differ(s1, q)' <=> Differ(s, q + 1)
      <4>1. kind'[s1[q]] = kind[s[q + 1]] /\ kind'[s1[q + 1]] = kind[s[(q + 1) + 1]]
        BY <3>1, <3>2
      <4>. QED BY <4>1 DEF Differ
    <3>4. ASSUME NEW j \in 1..m, e[j] = q + 1 PROVE \E i \in 1..(m - d) : e1[i] = q
      <4>1. ~(j <= k) /\ ~(j \in (k + 1)..(k + d))
        <5>1. j \in (k + 1)..(k + d) => e[j] <= p + 1
          BY <1>1 DEF Drops
        <5>2. j <= k => j \in 0..k
          BY <1>1
        <5>3. j \in 0..k => e[j] <= p
          BY DEF Drops
        <5>. QED BY <1>1, <2>2, <3>4, <5>1, <5>2, <5>3
      <4>2. j - d \in (k + 1)..(m - d) /\ j - d \in 1..(m - d) /\ (j - d) + d = j
        BY <1>1, <4>1
      <4>3. e1[j - d] = e[j] - 1
        BY <1>5, <4>2
      <4>. QED BY <3>1, <3>4, <4>2, <4>3
    <3>5. ASSUME NEW i \in 1..(m - d), e1[i] = q PROVE \E j \in 1..m : e[j] = q + 1
      <4>1. ~(i \in 0..k)
        <5>. SUFFICES ASSUME i \in 0..k PROVE FALSE
          OBVIOUS
        <5>1. e1[i] = e[i] /\ e[i] \in 0..p
          BY <1>4
        <5>. QED BY <1>1, <2>2, <3>5, <5>1
      <4>2. i \in (k + 1)..(m - d) /\ i + d \in 1..m
        BY <1>1, <4>1
      <4>3. q = e[i + d] - 1 /\ e[i + d] \in (p + 2)..n
        BY <1>5, <3>5, <4>2
      <4>4. e[i + d] = q + 1
        <5>1. e[i + d] \in Int
          BY <1>1, <4>3
        <5>. QED BY <4>3, <5>1
      <4>. QED BY <4>2, <4>4
    <3>. QED BY <2>0, <3>1, <3>3, <3>4, <3>5
  <2>3. CASE q = p
    <3>1. /\ p \in 1..(n - 2) /\ p \in 0..p /\ p \in 1..n /\ p # p + 1 /\ p \in 1..(n - 1)
          /\ p + 2 \in (p + 2)..n /\ p + 2 \in 1..n /\ p + 2 # p + 1 /\ (p + 2) - 1 = p + 1
          /\ p + 1 \in 1..(n - 1) /\ (p + 1) + 1 = p + 2
      BY <1>1, <2>3
    <3>2. s1[p] = s[p] /\ s1[p + 1] = s[p + 2]
      BY <1>3, <3>1
    <3>3. kind'[s1[p]] = kind[s[p]] /\ kind'[s1[p + 1]] = kind[s[p + 2]]
      BY <3>1, <3>2
    <3>4. Differ(s, p)
      BY <2>0, <3>1 DEF Drops
    <3>5. Differ(s, p + 1) <=> ~(e[k] = p)
      BY <2>0, <3>1 DEF Drops
    <3>6. Differ(s1, p)' <=> ~Differ(s, p + 1)
      <4>1. IsOob(kind[s[p]]) # IsOob(kind[s[p + 1]])
        BY <3>4 DEF Differ
      <4>2. Differ(s, p + 1) <=> IsOob(kind[s[p + 1]]) # IsOob(kind[s[p + 2]])
        BY <3>1, Zenon DEF Differ
      <4>3. Differ(s1, p)' <=> IsOob(kind[s[p]]) # IsOob(kind[s[p + 2]])
        BY <3>3, Zenon DEF Differ
      <4>. QED BY <4>1, <4>2, <4>3 DEF IsOob
    <3>7. e[k] = p <=> \E i \in 1..(m - d) : e1[i] = p
      <4>1. ASSUME e[k] = p PROVE \E i \in 1..(m - d) : e1[i] = p
        <5>1. k # 0
          BY <1>2, <3>1, <4>1
        <5>2. k \in 0..k /\ k \in 1..(m - d)
          BY <1>1, <5>1
        <5>. QED BY <1>4, <4>1, <5>2
      <4>2. ASSUME NEW i \in 1..(m - d), e1[i] = p PROVE e[k] = p
        <5>1. ~(i \in (k + 1)..(m - d))
          <6>. SUFFICES ASSUME i \in (k + 1)..(m - d) PROVE FALSE
            OBVIOUS
          <6>1. e1[i] = e[i + d] - 1 /\ e[i + d] \in (p + 2)..n
            BY <1>5
          <6>. QED BY <1>1, <4>2, <6>1
        <5>2. i \in 0..k /\ k \in 0..k /\ k \in 0..m /\ i \in 0..m
          BY <1>1, <5>1
        <5>3. e[i] = p /\ e[k] \in 0..p
          BY <1>4, <4>2, <5>2
        <5>4. i = k \/ e[i] < e[k]
          BY <1>1, <1>2, <5>2
        <5>. QED BY <5>3, <5>4
      <4>. QED BY <4>1, <4>2
    <3>. QED BY <2>3, <3>5, <3>6, <3>7
  <2>. QED BY <1>1, <2>1, <2>2, <2>3
<1>. QED BY <1>1, <1>7, <1>8, <1>9, <1>10, <1>11, <1>12, <1>13 DEF Runs

\* The task that goes is the first one (c = 0) or follows the first run (c = 1).
LEMMA RemoveRuns ==
  ASSUME TypeOK, NEW n, NEW s, NEW m, NEW e, Queue(n, s), Runs(n, s, m, e),
         NEW c \in {0, 1}, c < m, NEW p, p = e[c],
         NEW slot, NEW t, slot = s[p], t = s[p + 1],
         NEW s1, s1 = Without(n, s, p),
         \A i \in 1..n : i # p + 1 => kind'[s[i]] = kind[s[i]],
         UnlinkTail(slot, t)
  PROVE  \E m1, e1 : Runs(n - 1, s1, m1, e1)'
<1>1. n \in Nat /\ m \in Nat \ {0} /\ c \in Nat /\ c \in 0..(m - 1) /\ c \in 0..m /\ c + 1 \in 1..m
  BY DEF Queue, Links, Runs
<1>2. /\ \A i \in 0..m : e[i] \in 0..n
      /\ e[0] = 0 /\ e[m] = n
      /\ \A i, j \in 0..m : i < j => e[i] < e[j]
      /\ \A i \in 0..(m - 1) : next_itail[s[e[i]]] = s[e[i + 1]]
      /\ next_itail[s[n]] = Null
      /\ last_itail = s[e[m - 1]]
  BY <1>1 DEF Runs
<1>3. p \in Nat /\ p <= n - 1 /\ p + 1 \in 0..n /\ p \in 0..n
  <2>1. p \in 0..n /\ p < n
    BY <1>1, <1>2
  <2>. QED BY <1>1, <2>1
<1>4. /\ \A i \in 0..c : e[i] <= p
      /\ e[c + 1] \in 0..n /\ e[c + 1] >= p + 1
      /\ \A i \in (c + 2)..m : e[i] > p + 1 /\ e[i] > e[c + 1]
  <2>1. ASSUME NEW i \in 0..c PROVE e[i] <= p
    <3>1. i = c \/ (i < c /\ i \in 0..m)
      BY <1>1
    <3>. QED BY <1>1, <1>2, <1>3, <3>1
  <2>2. e[c + 1] \in 0..n /\ e[c + 1] > e[c]
    BY <1>1, <1>2
  <2>3. ASSUME NEW i \in (c + 2)..m PROVE e[i] > e[c + 1] /\ e[i] \in 0..n
    <3>1. i \in 0..m /\ c + 1 \in 0..m /\ c + 1 < i
      BY <1>1
    <3>. QED BY <1>2, <3>1
  <2>4. e[c + 1] >= p + 1
    BY <1>1, <1>3, <2>2
  <2>5. ASSUME NEW i \in (c + 2)..m PROVE e[i] > p + 1 /\ e[i] > e[c + 1]
    BY <1>1, <1>3, <2>2, <2>3, <2>4
  <2>. QED BY <2>1, <2>2, <2>4, <2>5
<1>5. p \in 1..(n - 2) => c = 1 /\ e[1] = p /\ 1 \in 1..m
  BY <1>1, <1>2
<1>6. /\ \A i, j \in 0..n : s[i] = s[j] => i = j
      /\ \A i \in 0..n : s[i] \in Slot
      /\ s[0] = 0
  BY DEF Queue, Links
<1>7. next_itail[slot] = s[e[c + 1]]
  BY <1>1, <1>2
<1>8. CASE e[c + 1] # p + 1
  <2>1. t # next_itail[slot]
    BY <1>3, <1>4, <1>6, <1>7, <1>8
  <2>2. next_itail' = next_itail /\ last_itail' = last_itail
    BY <2>1 DEF UnlinkTail
  <2>3. Drops(n, m, e, p, c, 0)
    <3>1. \A i \in (c + 1)..m : e[i] > p + 1
      <4>. TAKE i \in (c + 1)..m
      <4>1. i = c + 1 \/ i \in (c + 2)..m
        BY <1>1
      <4>. QED BY <1>1, <1>3, <1>4, <1>8, <4>1
    <3>2. ASSUME NEW i \in 1..m PROVE e[i] # p + 1
      <4>1. i \in 0..c \/ i \in (c + 1)..m
        BY <1>1
      <4>. QED BY <1>3, <1>4, <3>1, <4>1
    <3>3. c + 0 = c /\ c + 0 + 1 = c + 1 /\ c # m /\ c <= m /\ (c + 1)..c = {}
      BY <1>1
    <3>. QED BY <1>3, <1>4, <1>5, <3>1, <3>2, <3>3 DEF Drops
  <2>4. next_itail'[s[e[c]]] = (IF c + 0 = m THEN Null ELSE s[e[c + 0 + 1]])
    <3>1. c + 0 # m /\ c + 0 + 1 = c + 1
      BY <1>1
    <3>. QED BY <1>7, <2>2, <3>1
  <2>5. last_itail' = IF m = 0 THEN 0
                      ELSE IF c + 0 >= m - 1 THEN s[e[m - 0 - 1]] ELSE last_itail
    <3>1. m # 0 /\ m - 0 - 1 = m - 1
      BY <1>1
    <3>. QED BY <1>2, <2>2, <3>1
  <2>6. \A i \in 0..m : i < c \/ i > c + 0 => next_itail'[s[e[i]]] = next_itail[s[e[i]]]
    BY <2>2
  <2>7. DropsLinks(s, m, e, c, 0)
    BY <2>4, <2>5, <2>6 DEF DropsLinks
  <2>. QED BY <1>1, <1>3, <2>3, <2>7, DropRuns
<1>9. CASE e[c + 1] = p + 1
  <2>1. t = next_itail[slot] /\ t # slot /\ t \in Slot /\ slot \in Slot /\ t # 0 /\ 0 \in Slot
    <3>1. p # p + 1 /\ p + 1 # 0 /\ 0 \in 0..n
      BY <1>1, <1>3
    <3>. QED BY <1>3, <1>6, <1>7, <1>9, <3>1
  <2>c. PICK cut : cut = [next_itail EXCEPT ![slot] = Null]
    OBVIOUS
  <2>j. PICK joined : joined = IF cut[t] # Null
                               THEN [cut EXCEPT ![0] = cut[t], ![t] = Null] ELSE cut
    OBVIOUS
  <2>2. /\ cut = [next_itail EXCEPT ![slot] = Null]
        /\ joined = IF cut[t] # Null
                    THEN [cut EXCEPT ![0] = cut[t], ![t] = Null] ELSE cut
        /\ next_itail' = joined
        /\ last_itail' = IF joined[last_itail] = Null THEN 0 ELSE last_itail
    BY <2>1, <2>c, <2>j, Zenon DEF UnlinkTail
  <2>3. next_itail \in [Slot -> Slot]
    BY DEF TypeOK
  <2>4. cut \in [Slot -> Slot] /\ cut[t] = next_itail[t] /\ cut[slot] = Null
    BY <2>1, <2>2, <2>3 DEF Null
  <2>5. CASE c + 1 = m
    <3>1. n = p + 1 /\ m - 1 = c /\ last_itail = slot
      BY <1>1, <1>2, <1>9, <2>5
    <3>2. cut[t] = Null
      BY <1>2, <2>4, <3>1
    <3>3. next_itail' = cut /\ last_itail' = 0
      BY <2>2, <2>4, <3>1, <3>2
    <3>4. Drops(n, m, e, p, c, 1)
      <4>1. /\ ~(p \in 1..(n - 2)) /\ (c + 1 + 1)..m = {} /\ c + 1 <= m
            /\ \A i \in (c + 1)..(c + 1) : i = c + 1
        BY <1>1, <1>3, <2>5, <3>1
      <4>2. e[c] = n - 1
        BY <1>3, <3>1
      <4>. QED BY <1>3, <1>4, <1>9, <4>1, <4>2 DEF Drops
    <3>5. \A i \in 0..m : i < c \/ i > c + 1 => next_itail'[s[e[i]]] = next_itail[s[e[i]]]
      <4>. TAKE i \in 0..m
      <4>. HAVE i < c \/ i > c + 1
      <4>1. i < c
        BY <1>1, <2>5
      <4>2. e[i] \in 0..n /\ e[i] # p
        BY <1>1, <1>2, <1>3, <4>1
      <4>3. s[e[i]] # slot /\ s[e[i]] \in Slot
        BY <1>3, <1>6, <4>2
      <4>. QED BY <2>2, <2>3, <3>3, <4>3
    <3>6. next_itail'[s[e[c]]] = (IF c + 1 = m THEN Null ELSE s[e[c + 1 + 1]])
      BY <2>4, <2>5, <3>3
    <3>7. last_itail' = IF m = 1 THEN 0
                        ELSE IF c + 1 >= m - 1 THEN s[e[m - 1 - 1]] ELSE last_itail
      <4>1. m # 1 => c = 1 /\ m - 1 - 1 = 0
        BY <1>1, <2>5
      <4>2. c + 1 >= m - 1
        BY <1>1, <2>5
      <4>. QED BY <1>2, <1>6, <3>3, <4>1, <4>2
    <3>8. DropsLinks(s, m, e, c, 1)
      BY <3>5, <3>6, <3>7 DEF DropsLinks
    <3>. QED BY <1>1, <1>3, <3>4, <3>8, DropRuns
  <2>6. CASE c + 1 # m
    <3>1. c + 1 \in 0..(m - 1) /\ c + 2 \in (c + 2)..m /\ c + 2 \in 0..m /\ (c + 1) + 1 = c + 2
      BY <1>1, <2>6
    <3>2. next_itail[t] = s[e[c + 2]] /\ s[e[c + 2]] # 0 /\ s[e[c + 2]] \in Slot
      <4>1. next_itail[t] = s[e[c + 2]]
        BY <1>2, <1>9, <3>1
      <4>2. e[c + 2] \in 0..n /\ e[c + 2] # 0 /\ 0 \in 0..n
        <5>1. e[c + 2] \in 0..n /\ e[c + 2] > p + 1
          BY <1>2, <1>4, <3>1
        <5>. QED BY <1>1, <1>3, <5>1
      <4>. QED BY <1>6, <4>1, <4>2
    <3>3. next_itail' = [cut EXCEPT ![0] = s[e[c + 2]], ![t] = Null]
      BY <2>2, <2>4, <3>2 DEF Null
    <3>4. /\ next_itail'[0] = s[e[c + 2]] /\ next_itail'[t] = Null
          /\ \A x \in Slot : x # 0 /\ x # t /\ x # slot => next_itail'[x] = next_itail[x]
      BY <2>1, <2>2, <2>3, <2>4, <3>3
    <3>5. Drops(n, m, e, p, 0, c + 1)
      <4>1. /\ 0 + (c + 1) <= m /\ 0 + (c + 1) # m /\ 0 + (c + 1) + 1 = c + 2
            /\ 0 + 1 = 1 /\ 0 + (c + 1) = c + 1
        BY <1>1, <2>6
      <4>2. \A i \in 0..0 : e[i] <= p
        BY <1>2, <1>3
      <4>3. ASSUME NEW i \in 1..(c + 1) PROVE e[i] \in {p, p + 1}
        <5>1. i = c + 1 \/ i = c
          BY <1>1
        <5>. QED BY <1>9, <5>1
      <4>4. p \in 1..(n - 2) => e[0] # p /\ ~(\A i \in 1..m : e[i] # p + 1)
        BY <1>1, <1>2, <1>9
      <4>. QED BY <1>3, <1>4, <1>5, <4>1, <4>2, <4>3, <4>4 DEF Drops
    <3>6. ASSUME NEW i \in 0..m, i > c + 1
          PROVE  next_itail'[s[e[i]]] = next_itail[s[e[i]]]
      <4>0. i \in (c + 2)..m
        BY <1>1, <3>6
      <4>1. e[i] \in 0..n /\ e[i] > p + 1
        BY <1>2, <1>4, <4>0
      <4>2. e[i] # 0 /\ e[i] # p /\ e[i] # p + 1 /\ 0 \in 0..n
        BY <1>1, <1>3, <4>1
      <4>3. s[e[i]] # 0 /\ s[e[i]] # slot /\ s[e[i]] # t /\ s[e[i]] \in Slot
        BY <1>3, <1>6, <4>1, <4>2
      <4>. QED BY <3>4, <4>3
    <3>7. \A i \in 0..m : i < 0 \/ i > 0 + (c + 1) => next_itail'[s[e[i]]] = next_itail[s[e[i]]]
      BY <1>1, <3>6
    <3>8. next_itail'[s[e[0]]] = (IF 0 + (c + 1) = m THEN Null ELSE s[e[0 + (c + 1) + 1]])
      <4>1. 0 + (c + 1) # m /\ 0 + (c + 1) + 1 = c + 2
        BY <1>1, <2>6
      <4>. QED BY <1>2, <1>6, <3>4, <4>1
    <3>9. last_itail' = IF m = c + 1 THEN 0
                        ELSE IF 0 + (c + 1) >= m - 1 THEN s[e[m - (c + 1) - 1]] ELSE last_itail
      <4>1. CASE m = c + 2
        <5>1. m - 1 = c + 1 /\ m # c + 1 /\ 0 + (c + 1) >= m - 1 /\ m - (c + 1) - 1 = 0
          BY <1>1, <4>1
        <5>2. last_itail = t
          BY <1>2, <1>9, <5>1
        <5>3. last_itail' = 0
          BY <2>2, <3>4, <5>2
        <5>. QED BY <1>2, <1>6, <5>1, <5>3
      <4>2. CASE m # c + 2
        <5>1. /\ m - 1 \in 0..m /\ m - 1 > c + 1 /\ m # c + 1 /\ ~(0 + (c + 1) >= m - 1)
              /\ m - 1 \in 0..(m - 1) /\ (m - 1) + 1 = m
          BY <1>1, <2>6, <4>2
        <5>2. next_itail'[last_itail] = s[n]
          BY <1>2, <3>6, <5>1
        <5>3. s[n] # 0
          <6>1. n # 0 /\ n \in 0..n /\ 0 \in 0..n
            BY <1>1, <1>3
          <6>. QED BY <1>6, <6>1
        <5>4. last_itail' = last_itail
          BY <2>2, <5>2, <5>3 DEF Null
        <5>. QED BY <5>1, <5>4
      <4>. QED BY <4>1, <4>2
    <3>10. c + 1 \in Nat
      BY <1>1
    <3>11. DropsLinks(s, m, e, 0, c + 1)
      BY <3>7, <3>8, <3>9 DEF DropsLinks
    <3>. QED BY <1>1, <1>3, <3>5, <3>10, <3>11, DropRuns
  <2>. QED BY <2>5, <2>6
<1>. QED BY <1>8, <1>9

-----------------------------------------------------------------------------
(* The inductive invariant                                                 *)

\* What total_input_length adds up.
Lengths(n, s) == [i \in 1..n |-> length[s[i]]]

\* The pointers lead through s, the runs end at e, and the lines are counted.
QueueIs(n, s, m, e) ==
  /\ Queue(n, s)
  /\ Runs(n, s, m, e)
  /\ total_input_length = SumTo(Lengths(n, s), n)

QueueInv == \E n, s, m, e : QueueIs(n, s, m, e)

\* The inductive invariant.
Inv == TypeOK /\ QueueInv /\ SuspendedHasInput

-----------------------------------------------------------------------------

LEMMA Lowat == INPUT_LOWAT \in Nat /\ INPUT_LOWAT >= 1
BY InputQueueAssumption DEF INPUT_LOWAT

LEMMA InitInv == Init => Inv
<1>. SUFFICES ASSUME Init PROVE Inv
  OBVIOUS
<1>1. MaxTasks \in Nat /\ 0 \in Slot
  BY InputQueueAssumption DEF Slot
<1>2. AnyLength \in Length
  BY InputQueueAssumption DEF AnyLength
<1>3. TypeOK
  BY <1>1, <1>2 DEF Init, TypeOK, LineKind, Null, Node, Nothing
<1>4. PICK z : z = [i \in 0..0 |-> 0]
  OBVIOUS
<1>5. z \in [0..0 -> Slot] /\ z \in [0..0 -> 0..0] /\ z[0] = 0
  BY <1>1, <1>4
<1>6. next[0] = 0 /\ next_itail[0] = 0
  BY <1>1 DEF Init, Null
<1>7. Queue(0, z)
  <2>1. \A i, j \in 0..0 : i = j
    OBVIOUS
  <2>2. 0..(0 - 1) = {}
    OBVIOUS
  <2>. QED BY <1>5, <1>6, <2>1, <2>2 DEF Queue, Links, Init, Null
<1>8. Runs(0, z, 0, z)
  <2>1. 0..(0 - 1) = {} /\ 1..(0 - 1) = {} /\ \A i, j \in 0..0 : ~(i < j)
    OBVIOUS
  <2>. QED BY <1>5, <1>6, <2>1 DEF Runs, Init, Null
<1>9. QueueIs(0, z, 0, z)
  BY <1>7, <1>8, SumEmpty DEF QueueIs, Init
<1>. QED BY <1>3, <1>9 DEF Inv, QueueInv, Init, SuspendedHasInput

\* The lengths in the list add up to a number.
LEMMA LengthsNat ==
  ASSUME TypeOK, NEW n, NEW s, Queue(n, s)
  PROVE  /\ n \in Nat
         /\ \A i \in 1..n : s[i] \in Node /\ s[i] \in allocated /\ Lengths(n, s)[i] \in Nat
         /\ SumTo(Lengths(n, s), n) \in Nat
<1>1. n \in Nat
  BY DEF Queue, Links
<1>2. ASSUME NEW i \in 1..n
      PROVE  s[i] \in Node /\ s[i] \in allocated /\ Lengths(n, s)[i] \in Nat
  <2>1. s[i] \in allocated /\ s[i] \in Node
    BY DEF Queue, TypeOK
  <2>2. Lengths(n, s)[i] = length[s[i]]
    BY DEF Lengths
  <2>. QED BY <2>1, <2>2, InputQueueAssumption DEF TypeOK
<1>. QED BY <1>1, <1>2, SumNat

-----------------------------------------------------------------------------
(* A line comes in                                                         *)

AtRear(n, s, t)  == [i \in 0..(n + 1) |-> IF i = n + 1 THEN t ELSE s[i]]
AtFront(n, s, t) == [i \in 0..(n + 1) |-> IF i = 0 THEN 0 ELSE IF i = 1 THEN t ELSE s[i - 1]]

\* What the queue s1 of the next state holds: the line at place q, and behind
\* or before it the lines of s.
Holds(n, s, s1, q, line) ==
  /\ kind'[s1[q]] = line.kind /\ length'[s1[q]] = line.length
  /\ \A i \in 1..n : LET j == IF i < q THEN i ELSE i + 1
                     IN kind'[s1[j]] = kind[s[i]] /\ length'[s1[j]] = length[s[i]]

LEMMA EnqueueStep ==
  ASSUME TypeOK, NEW n, NEW s, NEW m, NEW e, QueueIs(n, s, m, e),
         NEW line \in Line, NEW at_front \in BOOLEAN, enqueue_input_task(line, at_front)
  PROVE  \E s1, m1, e1 : /\ QueueIs(n + 1, s1, m1, e1)'
                         /\ Holds(n, s, s1, IF at_front THEN 1 ELSE n + 1, line)
<1>1. Queue(n, s) /\ Runs(n, s, m, e) /\ total_input_length = SumTo(Lengths(n, s), n)
  BY DEF QueueIs
<1>2. /\ n \in Nat
      /\ \A i \in 1..n : s[i] \in Node /\ s[i] \in allocated /\ Lengths(n, s)[i] \in Nat
      /\ SumTo(Lengths(n, s), n) \in Nat
  BY <1>1, LengthsNat
<1>3. PICK t \in Node \ allocated :
        /\ allocated' = allocated \cup {t}
        /\ kind' = [kind EXCEPT ![t] = line.kind]
        /\ length' = [length EXCEPT ![t] = line.length]
        /\ IF at_front /\ first_input # Null THEN LinkFront(t, line) ELSE LinkRear(t, line)
  <2>1. Node \ allocated # {}
    BY DEF enqueue_input_task, NewTask, TypeOK
  <2>2. PICK t : t = CHOOSE x \in Node \ allocated : TRUE
    OBVIOUS
  <2>3. t \in Node \ allocated
    BY <2>1, <2>2
  <2>4. /\ allocated' = allocated \cup {t}
        /\ kind' = [kind EXCEPT ![t] = line.kind]
        /\ length' = [length EXCEPT ![t] = line.length]
        /\ IF at_front /\ first_input # Null THEN LinkFront(t, line) ELSE LinkRear(t, line)
    BY <2>2, Zenon DEF enqueue_input_task, NewTask
  <2>. QED BY <2>3, <2>4
<1>4. /\ first_input # Null <=> n # 0
  BY <1>1, LastRun
<1>5. /\ kind'[t] = line.kind /\ length'[t] = line.length
      /\ \A i \in 1..n : kind'[s[i]] = kind[s[i]] /\ length'[s[i]] = length[s[i]]
  BY <1>2, <1>3 DEF TypeOK
<1>6. line.length \in Nat
  BY InputQueueAssumption DEF Line
<1>7. total_input_length' = total_input_length + line.length
  BY DEF enqueue_input_task
<1>8. CASE at_front /\ n # 0
  <2>1. PICK s1 : s1 = AtFront(n, s, t)
    OBVIOUS
  <2>2. LinkFront(t, line)
    BY <1>3, <1>4, <1>8
  <2>3. Queue(n + 1, s1)'
    BY <1>1, <1>3, <1>8, <2>1, <2>2, FrontQueue DEF LinkFront, AtFront
  <2>4. PICK m1, e1 : Runs(n + 1, s1, m1, e1)'
    BY <1>1, <1>3, <1>8, <2>1, <2>2, FrontRuns DEF AtFront
  <2>5. s1[1] = t /\ \A i \in 1..n : s1[i + 1] = s[i]
    BY <1>2, <2>1 DEF AtFront
  <2>6. Holds(n, s, s1, 1, line)
    <3>1. \A i \in 1..n : ~(i < 1)
      BY <1>2
    <3>. QED BY <1>5, <2>5, <3>1 DEF Holds
  <2>7. SumTo(Lengths(n + 1, s1)', n + 1) = line.length + SumTo(Lengths(n, s), n)
    <3>1. PICK f : f = Lengths(n + 1, s1)'
      OBVIOUS
    <3>2. f[1] = line.length /\ \A i \in 1..n : Lengths(n, s)[i] = f[i + 1]
      <4>1. f = [i \in 1..(n + 1) |-> length'[s1[i]]]
        BY <3>1 DEF Lengths
      <4>2. 1 \in 1..(n + 1) /\ \A i \in 1..n : i + 1 \in 1..(n + 1)
        BY <1>2
      <4>3. f[1] = line.length
        BY <1>5, <2>5, <4>1, <4>2
      <4>4. \A i \in 1..n : f[i + 1] = length[s[i]]
        BY <1>5, <2>5, <4>1, <4>2
      <4>. QED BY <4>3, <4>4 DEF Lengths
    <3>3. \A i \in 1..(n + 1) : f[i] \in Nat
      <4>. TAKE i \in 1..(n + 1)
      <4>1. i = 1 \/ (i - 1 \in 1..n /\ (i - 1) + 1 = i)
        BY <1>2
      <4>. QED BY <1>2, <1>6, <3>2, <4>1
    <3>4. SumTo(f, n + 1) = f[1] + SumTo(Lengths(n, s), n)
      BY <1>2, <3>2, <3>3, SumFirst
    <3>. QED BY <3>1, <3>2, <3>4
  <2>8. QueueIs(n + 1, s1, m1, e1)'
    BY <1>1, <1>2, <1>6, <1>7, <2>3, <2>4, <2>7 DEF QueueIs
  <2>. QED BY <1>8, <2>6, <2>8
<1>9. CASE ~(at_front /\ n # 0)
  <2>1. PICK s1 : s1 = AtRear(n, s, t)
    OBVIOUS
  <2>2. LinkRear(t, line)
    BY <1>3, <1>4, <1>9
  <2>3. Queue(n + 1, s1)'
    BY <1>1, <1>3, <2>1, <2>2, RearQueue DEF LinkRear, AtRear
  <2>4. PICK m1, e1 : Runs(n + 1, s1, m1, e1)'
    BY <1>1, <1>3, <2>1, <2>2, RearRuns DEF AtRear
  <2>5. s1[n + 1] = t /\ \A i \in 1..n : s1[i] = s[i]
    BY <1>2, <2>1 DEF AtRear
  <2>6. Holds(n, s, s1, n + 1, line)
    <3>1. \A i \in 1..n : i < n + 1
      BY <1>2
    <3>. QED BY <1>5, <2>5, <3>1 DEF Holds
  <2>7. SumTo(Lengths(n + 1, s1)', n + 1) = SumTo(Lengths(n, s), n) + line.length
    <3>1. PICK f : f = Lengths(n + 1, s1)'
      OBVIOUS
    <3>2. f[n + 1] = line.length /\ \A i \in 1..n : f[i] = Lengths(n, s)[i]
      <4>1. f = [i \in 1..(n + 1) |-> length'[s1[i]]]
        BY <3>1 DEF Lengths
      <4>2. n + 1 \in 1..(n + 1) /\ \A i \in 1..n : i \in 1..(n + 1)
        BY <1>2
      <4>3. f[n + 1] = line.length
        BY <1>5, <2>5, <4>1, <4>2
      <4>4. \A i \in 1..n : f[i] = length[s[i]]
        BY <1>5, <2>5, <4>1, <4>2
      <4>. QED BY <4>3, <4>4 DEF Lengths
    <3>3. SumTo(f, n + 1) = SumTo(f, n) + f[n + 1]
      BY <1>2, SumNext
    <3>4. SumTo(f, n) = SumTo(Lengths(n, s), n)
      BY <1>2, <3>2, SumSame
    <3>. QED BY <3>1, <3>2, <3>3, <3>4
  <2>8. QueueIs(n + 1, s1, m1, e1)'
    BY <1>1, <1>2, <1>6, <1>7, <2>3, <2>4, <2>7 DEF QueueIs
  <2>9. (IF at_front THEN 1 ELSE n + 1) = n + 1
    BY <1>2, <1>9
  <2>. QED BY <2>6, <2>8, <2>9
<1>. QED BY <1>8, <1>9

-----------------------------------------------------------------------------
(* A line is taken                                                         *)

\* dequeue_input_task() looks for a task behind slot s[e[c]]: c is 0, or 1 if
\* the first run is passed over.
LEMMA Position ==
  ASSUME NEW n, NEW s, NEW m, NEW e, Queue(n, s), Runs(n, s, m, e), n # 0, NEW how
  PROVE  \E c \in {0, 1} :
           /\ c = 1 <=> SkipsRun(how)
           /\ pt(how) = s[e[c]]
           /\ next[pt(how)] = Null <=> c = m
           /\ c <= m /\ e[c] \in 0..n
           /\ c < m => e[c] < n /\ next[pt(how)] = s[e[c] + 1]
<1>1. n \in Nat /\ m \in Nat \ {0}
  BY DEF Queue, Links, Runs
<1>2. first_itail = s[e[1]]
  BY LastRun
<1>3. PICK c \in {0, 1} : c = 1 <=> SkipsRun(how)
  <2>1. SkipsRun(how) \/ ~SkipsRun(how)
    OBVIOUS
  <2>. QED BY <2>1
<1>4. s[e[0]] = 0
  BY DEF Queue, Links, Runs
<1>5. pt(how) = s[e[c]]
  <2>1. CASE c = 1
    BY <1>2, <1>3, <2>1 DEF pt
  <2>2. CASE c = 0
    BY <1>3, <1>4, <2>2 DEF pt
  <2>. QED BY <2>1, <2>2
<1>6. c \in 0..m /\ c <= m /\ m \in 0..m
  BY <1>1
<1>7. e[c] \in 0..n /\ e[m] = n
  BY <1>6 DEF Runs
<1>8. c < m => e[c] < n
  BY <1>6, <1>7 DEF Runs
<1>9. CASE c = m
  <2>1. next[pt(how)] = Null
    BY <1>5, <1>7, <1>9 DEF Queue, Links
  <2>. QED BY <1>3, <1>5, <1>6, <1>7, <1>8, <1>9, <2>1
<1>10. CASE c < m
  <2>1. e[c] \in 0..(n - 1) /\ e[c] + 1 \in 0..n /\ e[c] + 1 # 0 /\ 0 \in 0..n
    BY <1>1, <1>7, <1>8, <1>10
  <2>2. next[s[e[c]]] = s[e[c] + 1] /\ s[e[c] + 1] # 0
    BY <2>1 DEF Queue, Links
  <2>. QED BY <1>3, <1>5, <1>6, <1>7, <1>8, <1>10, <2>2 DEF Null
<1>. QED BY <1>1, <1>6, <1>9, <1>10

\* The input task behind the end of run c, the first run or, at c = 0, the
\* start of the queue, is taken out, and m1 and e1 are the runs of what is left.
TakesOut(how, n, s, m, e, c, m1, e1) ==
  /\ c \in {0, 1}
  /\ c = 1 <=> SkipsRun(how)
  /\ n # 0 /\ c < m /\ e[c] \in 0..(n - 1) /\ total_input_length' \in Nat
  /\ QueueIs(n - 1, Without(n, s, e[c]), m1, e1)'
  /\ dequeued' = [kind   |-> DequeuedKind(kind[s[e[c] + 1]], disable_oob),
                  length |-> length[s[e[c] + 1]]]
  /\ \A i \in 1..n : i # e[c] + 1 =>
       kind'[s[i]] = kind[s[i]] /\ length'[s[i]] = length[s[i]]

\* Nothing is refused unless the queue is empty, the first run is the last and
\* is passed over, or there are no out-of-band lines to speak of.
LEMMA UnlinkStep ==
  ASSUME TypeOK, NEW n, NEW s, NEW m, NEW e, QueueIs(n, s, m, e),
         NEW how, ~Refuses(how), Unlink(how)
  PROVE  \E c, m1, e1 : TakesOut(how, n, s, m, e, c, m1, e1)
<1>1. Queue(n, s) /\ Runs(n, s, m, e) /\ total_input_length = SumTo(Lengths(n, s), n)
  BY DEF QueueIs
<1>2. /\ n \in Nat
      /\ \A i \in 1..n : s[i] \in Node /\ s[i] \in allocated /\ Lengths(n, s)[i] \in Nat
      /\ SumTo(Lengths(n, s), n) \in Nat
  BY <1>1, LengthsNat
<1>3. n # 0
  <2>1. first_input # Null
    BY DEF Refuses
  <2>. QED BY <1>1, <2>1, LastRun
<1>4. PICK c \in {0, 1} :
        /\ c = 1 <=> SkipsRun(how)
        /\ pt(how) = s[e[c]]
        /\ next[pt(how)] = Null <=> c = m
        /\ c <= m /\ e[c] \in 0..n
        /\ c < m => e[c] < n /\ next[pt(how)] = s[e[c] + 1]
  BY <1>1, <1>3, Position
<1>5. c < m
  <2>1. m \in Nat /\ c \in Nat
    BY <1>1 DEF Runs
  <2>2. next[pt(how)] # Null
    BY DEF Refuses
  <2>. QED BY <1>4, <2>1, <2>2
<1>6. PICK p : p = e[c]
  OBVIOUS
<1>7. PICK slot, t : slot = s[p] /\ t = s[p + 1] /\ slot = pt(how) /\ t = next[pt(how)]
  BY <1>4, <1>5, <1>6
<1>8. p \in 0..(n - 1) /\ p \in Nat /\ p < n /\ p + 1 \in 1..n
  BY <1>2, <1>4, <1>5, <1>6
<1>9. /\ next' = [next EXCEPT ![slot] = next[t], ![t] = Null]
      /\ last_input' = IF next[t] = Null THEN slot ELSE last_input
      /\ UnlinkTail(slot, t)
      /\ total_input_length' = total_input_length - length[t]
      /\ dequeued' = [kind   |-> DequeuedKind(kind[t], disable_oob),
                      length |-> length[t]]
      /\ allocated' = allocated \ {t}
      /\ kind' = [kind EXCEPT ![t] = "TASK_INBAND"]
      /\ length' = [length EXCEPT ![t] = AnyLength]
  BY <1>7, Zenon DEF Unlink
<1>10. PICK s1 : s1 = Without(n, s, p)
  OBVIOUS
<1>11. Queue(n - 1, s1)'
  BY <1>1, <1>7, <1>8, <1>9, <1>10, RemoveQueue
<1>12. ASSUME NEW i \in 1..n, i # p + 1
       PROVE  kind'[s[i]] = kind[s[i]] /\ length'[s[i]] = length[s[i]]
  <2>1. s[i] # t
    <3>1. i \in 0..n /\ p + 1 \in 0..n
      BY <1>2, <1>8
    <3>. QED BY <1>1, <1>7, <1>12, <3>1 DEF Queue, Links
  <2>. QED BY <1>2, <1>9, <2>1 DEF TypeOK
<1>13. PICK m1, e1 : Runs(n - 1, s1, m1, e1)'
  <2>1. \A i \in 1..n : i # p + 1 => kind'[s[i]] = kind[s[i]]
    BY <1>12
  <2>2. slot = s[p] /\ t = s[p + 1] /\ UnlinkTail(slot, t)
    BY <1>7, <1>9
  <2>. QED BY <1>1, <1>5, <1>6, <1>10, <2>1, <2>2, RemoveRuns
<1>14. SumTo(Lengths(n, s), n) = SumTo(Lengths(n - 1, s1)', n - 1) + length[t]
  <2>1. PICK g : g = Lengths(n - 1, s1)'
    OBVIOUS
  <2>2. PICK f : f = Lengths(n, s)
    OBVIOUS
  <2>3. \A i \in 1..n : f[i] = length[s[i]] /\ f[i] \in Nat
    BY <1>2, <2>2 DEF Lengths
  <2>4. ASSUME NEW i \in 1..(n - 1) PROVE g[i] = IF i <= p THEN f[i] ELSE f[i + 1]
    <3>1. g[i] = length'[s1[i]]
      BY <2>1 DEF Lengths
    <3>2. i \in 0..(n - 1) /\ i \in 1..n /\ i + 1 \in 1..n
      BY <1>2
    <3>3. s1[i] = IF i <= p THEN s[i] ELSE s[i + 1]
      BY <1>10, <3>2 DEF Without
    <3>4. CASE i <= p
      <4>1. i # p + 1
        BY <1>8, <3>4
      <4>. QED BY <1>12, <2>3, <3>1, <3>2, <3>3, <3>4, <4>1
    <3>5. CASE ~(i <= p)
      <4>1. i + 1 # p + 1
        BY <1>8, <3>5
      <4>. QED BY <1>12, <2>3, <3>1, <3>2, <3>3, <3>5, <4>1
    <3>. QED BY <3>4, <3>5
  <2>5. SumTo(f, n) = SumTo(g, n - 1) + f[p + 1]
    BY <1>2, <1>8, <2>3, <2>4, SumRemove
  <2>. QED BY <1>7, <1>8, <2>1, <2>2, <2>3, <2>5
<1>15. total_input_length' = SumTo(Lengths(n - 1, s1)', n - 1) /\ total_input_length' \in Nat
  <2>1. SumTo(Lengths(n - 1, s1)', n - 1) \in Nat
    <3>1. PICK g : g = Lengths(n - 1, s1)'
      OBVIOUS
    <3>2. \A i \in 1..(n - 1) : g[i] \in Nat
      <4>. TAKE i \in 1..(n - 1)
      <4>1. g[i] = length'[s1[i]]
        BY <3>1 DEF Lengths
      <4>2. s1[i] \in allocated' /\ s1[i] \in Node
        BY <1>9, <1>11 DEF Queue, TypeOK
      <4>3. length' \in [Node -> Nat]
        <5>1. AnyLength \in Nat
          BY InputQueueAssumption DEF AnyLength
        <5>2. length \in [Node -> Nat]
          BY InputQueueAssumption DEF TypeOK
        <5>. QED BY <1>9, <5>1, <5>2
      <4>. QED BY <4>1, <4>2, <4>3
    <3>3. n - 1 \in Nat
      BY <1>2, <1>3
    <3>. QED BY <3>1, <3>2, <3>3, SumNat
  <2>2. length[t] \in Nat
    <3>1. t \in Node
      BY <1>2, <1>7, <1>8
    <3>. QED BY <3>1, InputQueueAssumption DEF TypeOK
  <2>. QED BY <1>1, <1>9, <1>14, <2>1, <2>2
<1>16. QueueIs(n - 1, s1, m1, e1)'
  BY <1>11, <1>13, <1>15 DEF QueueIs
<1>17. dequeued' = [kind   |-> DequeuedKind(kind[s[p + 1]], disable_oob),
                    length |-> length[s[p + 1]]]
  BY <1>7, <1>9
<1>18. QueueIs(n - 1, Without(n, s, p), m1, e1)'
  BY <1>10, <1>16
<1>19. TakesOut(how, n, s, m, e, c, m1, e1)
  BY <1>3, <1>4, <1>5, <1>6, <1>8, <1>12, <1>15, <1>17, <1>18 DEF TakesOut
<1>. QED BY <1>19

-----------------------------------------------------------------------------
(* The invariant                                                           *)

LEMMA DequeuedType ==
  ASSUME NEW k \in LineKind, NEW b \in BOOLEAN
  PROVE  DequeuedKind(k, b) \in LineKind
BY DEF DequeuedKind, LineKind

LEMMA EnqueueType ==
  ASSUME TypeOK, NEW line \in Line, NEW at_front \in BOOLEAN,
         enqueue_input_task(line, at_front)
  PROVE  TypeOK'
<1>1. PICK t \in Node :
        /\ allocated' = allocated \cup {t}
        /\ kind' = [kind EXCEPT ![t] = line.kind]
        /\ length' = [length EXCEPT ![t] = line.length]
        /\ LinkFront(t, line) \/ LinkRear(t, line)
  <2>1. Node \ allocated # {}
    BY DEF enqueue_input_task, NewTask, TypeOK
  <2>2. PICK t : t = CHOOSE x \in Node \ allocated : TRUE
    OBVIOUS
  <2>3. t \in Node
    BY <2>1, <2>2
  <2>4. /\ allocated' = allocated \cup {t}
        /\ kind' = [kind EXCEPT ![t] = line.kind]
        /\ length' = [length EXCEPT ![t] = line.length]
        /\ LinkFront(t, line) \/ LinkRear(t, line)
    BY <2>2, Zenon DEF enqueue_input_task, NewTask
  <2>. QED BY <2>3, <2>4
<1>2. t \in Slot /\ 0 \in Slot /\ Null \in Slot
  BY InputQueueAssumption DEF Node, Slot, Null
<1>3. line.kind \in LineKind /\ line.length \in Length /\ line.length \in Nat
  BY InputQueueAssumption DEF Line
<1>4. /\ next' \in [Slot -> Slot] /\ next_itail' \in [Slot -> Slot]
      /\ last_input' \in Slot /\ last_itail' \in Slot
  <2>1. CASE LinkFront(t, line)
    <3>1. first_input \in Slot /\ first_itail \in Slot
      BY <1>2 DEF TypeOK, first_input, first_itail
    <3>2. PICK b \in BOOLEAN : 
            /\ next' = [next EXCEPT ![t] = first_input, ![0] = t]
            /\ next_itail' = IF b
                   THEN [next_itail EXCEPT ![t] = first_itail, ![0] = t]
                   ELSE [next_itail EXCEPT ![t] = Null]
            /\ last_itail' = IF b /\ last_itail = 0 THEN t ELSE last_itail
            /\ last_input' = last_input
      <4>1. PICK b \in BOOLEAN : b <=> IsOob(kind[first_input]) # IsOob(line.kind)
        OBVIOUS
      <4>. QED BY <2>1, <4>1 DEF LinkFront
    <3>3. CASE b
      BY <1>2, <3>1, <3>2, <3>3 DEF TypeOK
    <3>4. CASE ~b
      BY <1>2, <3>1, <3>2, <3>4 DEF TypeOK
    <3>. QED BY <3>3, <3>4
  <2>2. CASE LinkRear(t, line)
    <3>1. next_itail[last_itail] \in Slot
      BY DEF TypeOK
    <3>2. PICK slot \in Slot : last_itail' = slot /\ next_itail' = [next_itail EXCEPT ![t] = Null, ![slot] = t]
      <4>1. PICK b \in BOOLEAN :
              b <=> first_input # Null /\ IsOob(kind[next_itail[last_itail]]) # IsOob(line.kind)
        OBVIOUS
      <4>2. PICK slot : slot = IF b THEN next_itail[last_itail] ELSE last_itail
        OBVIOUS
      <4>3. slot \in Slot
        BY <3>1, <4>2 DEF TypeOK
      <4>4. last_itail' = slot /\ next_itail' = [next_itail EXCEPT ![t] = Null, ![slot] = t]
        BY <2>2, <4>1, <4>2 DEF LinkRear
      <4>. QED BY <4>3, <4>4
    <3>3. next' = [next EXCEPT ![last_input] = t, ![t] = Null] /\ last_input' = t
      BY <2>2 DEF LinkRear
    <3>. QED BY <1>2, <3>2, <3>3 DEF TypeOK
  <2>. QED BY <1>1, <2>1, <2>2
<1>5. allocated' \subseteq Node /\ kind' \in [Node -> LineKind] /\ length' \in [Node -> Length]
  BY <1>1, <1>3 DEF TypeOK
<1>6. total_input_length' \in Nat
  BY <1>3 DEF TypeOK, enqueue_input_task
<1>7. /\ input_suspended' \in BOOLEAN /\ connected' \in BOOLEAN /\ disable_oob' \in BOOLEAN
      /\ flushing' \in BOOLEAN
  BY Zenon DEF TypeOK, enqueue_input_task, options
<1>8. dequeued' = Nothing
  BY DEF enqueue_input_task
<1>. QED BY <1>4, <1>5, <1>6, <1>7, <1>8 DEF TypeOK

LEMMA UnlinkType ==
  ASSUME TypeOK, NEW how, ~Refuses(how), Unlink(how), total_input_length' \in Nat,
         connected' = connected, disable_oob' = disable_oob, flushing' \in BOOLEAN
  PROVE  TypeOK'
<1>1. 0 \in Slot /\ Null \in Slot
  BY InputQueueAssumption DEF Slot, Null
<1>2. PICK slot, t : slot = pt(how) /\ t = next[pt(how)]
  OBVIOUS
<1>3. slot \in Slot
  BY <1>1, <1>2 DEF pt, TypeOK, first_itail
<1>4. t \in Slot /\ t \in Node
  <2>1. t \in Slot
    BY <1>2, <1>3 DEF TypeOK
  <2>2. t # 0
    BY <1>2 DEF Refuses, Null
  <2>. QED BY <2>1, <2>2, InputQueueAssumption DEF Slot, Node
<1>5. /\ next' = [next EXCEPT ![slot] = next[t], ![t] = Null]
      /\ last_input' = IF next[t] = Null THEN slot ELSE last_input
      /\ UnlinkTail(slot, t)
      /\ input_suspended' = (input_suspended
                               /\ ~(connected /\ total_input_length' < INPUT_LOWAT))
      /\ dequeued' = [kind   |-> DequeuedKind(kind[t], disable_oob),
                      length |-> length[t]]
      /\ allocated' = allocated \ {t}
      /\ kind' = [kind EXCEPT ![t] = "TASK_INBAND"]
      /\ length' = [length EXCEPT ![t] = AnyLength]
  BY <1>2, Zenon DEF Unlink
<1>6. next' \in [Slot -> Slot] /\ last_input' \in Slot
  BY <1>1, <1>3, <1>4, <1>5 DEF TypeOK
<1>7. next_itail' \in [Slot -> Slot] /\ last_itail' \in Slot
  <2>1. CASE t = next_itail[slot]
    <3>c. PICK cut : cut = [next_itail EXCEPT ![slot] = Null]
      OBVIOUS
    <3>j. PICK joined : joined = IF cut[t] # Null
                                 THEN [cut EXCEPT ![0] = cut[t], ![t] = Null] ELSE cut
      OBVIOUS
    <3>1. /\ next_itail' = joined
          /\ last_itail' = IF joined[last_itail] = Null THEN 0 ELSE last_itail
      BY <1>5, <2>1, <3>c, <3>j, Zenon DEF UnlinkTail
    <3>2. cut \in [Slot -> Slot]
      BY <1>1, <3>c DEF TypeOK
    <3>3. joined \in [Slot -> Slot]
      BY <1>1, <1>4, <3>2, <3>j
    <3>. QED BY <1>1, <3>1, <3>3 DEF TypeOK
  <2>2. CASE t # next_itail[slot]
    BY <1>5, <2>2 DEF UnlinkTail, TypeOK
  <2>. QED BY <2>1, <2>2
<1>8. allocated' \subseteq Node /\ kind' \in [Node -> LineKind] /\ length' \in [Node -> Length]
  <2>1. AnyLength \in Length
    BY InputQueueAssumption DEF AnyLength
  <2>. QED BY <1>4, <1>5, <2>1 DEF TypeOK, LineKind
<1>9. dequeued' \in [kind : LineKind, length : Length]
  <2>1. kind[t] \in LineKind /\ length[t] \in Length /\ disable_oob \in BOOLEAN
    BY <1>4 DEF TypeOK
  <2>2. DequeuedKind(kind[t], disable_oob) \in LineKind
    BY <2>1, DequeuedType
  <2>. QED BY <1>5, <2>1, <2>2
<1>10. input_suspended' \in BOOLEAN
  BY <1>5, Zenon
<1>. QED BY <1>6, <1>7, <1>8, <1>9, <1>10 DEF TypeOK

\* dequeue_input_task(), with what the callers leave alone.
LEMMA DequeueInv ==
  ASSUME Inv, NEW how, dequeue_input_task(how),
         connected' = connected, disable_oob' = disable_oob, flushing' \in BOOLEAN
  PROVE  Inv'
<1>1. PICK n, s, m, e : QueueIs(n, s, m, e)
  BY DEF Inv, QueueInv
<1>2. CASE Refuses(how)
  <2>1. /\ dequeued' = Nothing
        /\ UNCHANGED <<links, total_input_length, input_suspended>>
    BY <1>2, Zenon DEF dequeue_input_task
  <2>2. QueueIs(n, s, m, e)'
    BY <1>1, <2>1 DEF QueueIs, Queue, Runs, Links, links, Differ, Lengths
  <2>3. TypeOK'
    BY <2>1 DEF Inv, TypeOK, links
  <2>4. SuspendedHasInput'
    BY <2>1 DEF Inv, SuspendedHasInput, links, first_input
  <2>. QED BY <2>2, <2>3, <2>4 DEF Inv, QueueInv
<1>3. CASE ~Refuses(how)
  <2>1. TypeOK /\ Unlink(how)
    BY <1>3, Zenon DEF dequeue_input_task, Inv
  <2>0. PICK c, m1, e1 : TakesOut(how, n, s, m, e, c, m1, e1)
    BY <1>1, <1>3, <2>1, UnlinkStep
  <2>2. /\ c \in {0, 1}
        /\ n # 0 /\ c < m /\ e[c] \in 0..(n - 1) /\ total_input_length' \in Nat
        /\ QueueIs(n - 1, Without(n, s, e[c]), m1, e1)'
    BY <2>0 DEF TakesOut
  <2>3. PICK s1 : s1 = Without(n, s, e[c])
    OBVIOUS
  <2>4. QueueIs(n - 1, s1, m1, e1)'
    BY <2>2, <2>3
  <2>5. TypeOK'
    BY <1>3, <2>1, <2>2, UnlinkType
  <2>6. SuspendedHasInput'
    <3>1. input_suspended' /\ connected' => total_input_length' >= 1
      <4>1. input_suspended' = (input_suspended
                                  /\ ~(connected /\ total_input_length' < INPUT_LOWAT))
        BY <2>1, Zenon DEF Unlink
      <4>2. input_suspended' /\ connected => ~(total_input_length' < INPUT_LOWAT)
        BY <4>1, Zenon
      <4>. QED BY <2>2, <4>2, Lowat
    <3>2. n - 1 = 0 => total_input_length' = 0
      BY <2>4, SumEmpty DEF QueueIs
    <3>3. first_input' # Null <=> n - 1 # 0
      <4>1. Queue(n - 1, s1)' /\ n - 1 \in Nat
        BY <2>4 DEF QueueIs, Queue, Links
      <4>n. n \in Nat
        BY <1>1 DEF QueueIs, Queue, Links
      <4>2. CASE n - 1 = 0
        BY <4>1, <4>2 DEF Queue, Links, first_input
      <4>3. CASE n - 1 # 0
        <5>1. 0 \in 0..((n - 1) - 1) /\ 1 \in 0..(n - 1) /\ 0 \in 0..(n - 1)
          BY <4>1, <4>3, <4>n
        <5>2. next'[0] = s1[1] /\ s1[1] # 0
          BY <4>1, <5>1 DEF Queue, Links
        <5>. QED BY <4>3, <5>2 DEF first_input, Null
      <4>. QED BY <4>2, <4>3
    <3>. QED BY <3>1, <3>2, <3>3 DEF SuspendedHasInput
  <2>. QED BY <2>4, <2>5, <2>6 DEF Inv, QueueInv
<1>. QED BY <1>2, <1>3

LEMMA StepInv == Inv /\ [Next]_vars => Inv'
<1>. SUFFICES ASSUME Inv, [Next]_vars PROVE Inv'
  OBVIOUS
<1>1. PICK n, s, m, e : QueueIs(n, s, m, e)
  BY DEF Inv, QueueInv
<1>2. ASSUME NEW line \in Line, NEW at_front \in BOOLEAN, enqueue_input_task(line, at_front)
      PROVE  Inv'
  <2>1. TypeOK'
    BY <1>2, EnqueueType DEF Inv
  <2>2. PICK s1, m1, e1 : QueueIs(n + 1, s1, m1, e1)'
    BY <1>1, <1>2, EnqueueStep DEF Inv
  <2>3. first_input' # Null
    <3>1. Queue(n + 1, s1)' /\ n + 1 \in Nat /\ n \in Nat
      BY <1>1, <2>2 DEF QueueIs, Queue, Links
    <3>2. 0 \in 0..((n + 1) - 1) /\ 1 \in 0..(n + 1) /\ 0 \in 0..(n + 1)
      BY <3>1
    <3>3. next'[0] = s1[1] /\ s1[1] # 0
      BY <3>1, <3>2 DEF Queue, Links
    <3>. QED BY <3>3 DEF first_input, Null
  <2>. QED BY <2>1, <2>2, <2>3 DEF Inv, QueueInv, SuspendedHasInput
<1>3. ASSUME NEW how \in DequeueHow, Take(how) PROVE Inv'
  <2>1. dequeue_input_task(how) /\ connected' = connected /\ disable_oob' = disable_oob
    BY <1>3 DEF Take, options
  <2>2. flushing' \in BOOLEAN
    BY <1>3 DEF Take, Inv, TypeOK
  <2>. QED BY <2>1, <2>2, DequeueInv
<1>4. CASE flush_input
  <2>1. dequeue_input_task("DQ_FIRST") /\ connected' = connected /\ disable_oob' = disable_oob
    BY <1>4 DEF flush_input, options
  <2>2. flushing' \in BOOLEAN
    BY <1>4, Zenon DEF flush_input
  <2>. QED BY <2>1, <2>2, DequeueInv
<1>5. ASSUME UNCHANGED <<links, total_input_length>> PROVE QueueInv' /\ first_input' = first_input
  <2>1. QueueIs(n, s, m, e)'
    BY <1>1, <1>5 DEF QueueIs, Queue, Runs, Links, links, Differ, Lengths
  <2>. QED BY <1>5, <2>1 DEF QueueInv, first_input, links
<1>6. CASE StartFlush
  BY <1>5, <1>6 DEF StartFlush, Inv, TypeOK, SuspendedHasInput, links, options
<1>7. ASSUME NEW value \in BOOLEAN, set_disable_oob(value) PROVE Inv'
  BY <1>5, <1>7 DEF set_disable_oob, Inv, TypeOK, SuspendedHasInput, links, options
<1>8. CASE task_suspend_input
  BY <1>5, <1>8 DEF task_suspend_input, Inv, TypeOK, SuspendedHasInput, links, options
<1>9. CASE free_task_queue
  BY <1>5, <1>9 DEF free_task_queue, Inv, TypeOK, SuspendedHasInput, links, options
<1>10. CASE UNCHANGED vars
  BY <1>5, <1>10 DEF vars, Inv, TypeOK, SuspendedHasInput, links, options
<1>. QED BY <1>2, <1>3, <1>4, <1>6, <1>7, <1>8, <1>9, <1>10 DEF Next

LEMMA SpecInv == Spec => []Inv
<1>. QED BY InitInv, StepInv, PTL DEF Spec

\* TypeOK holds of every queue: the length that is counted never falls below
\* zero, whatever is pushed, taken and flushed.
THEOREM TypeCorrect == Spec => []TypeOK
<1>. QED BY SpecInv, PTL DEF Inv

\* enqueue_input_task() stops a connection and dequeue_input_task() lets it go
\* on: it is never stopped while nothing is left that could be dequeued.
THEOREM SuspendedIsServed == Spec => []SuspendedHasInput
<1>. QED BY SpecInv, PTL DEF Inv

-----------------------------------------------------------------------------
(* What Tasks and Itails are                                               *)

LEMMA QueueLength ==
  ASSUME TypeOK, NEW n, NEW s, Queue(n, s)
  PROVE  n \in Nat /\ n = Cardinality(allocated) /\ n <= MaxTasks
<1>1. n \in Nat /\ MaxTasks \in Nat
  BY InputQueueAssumption DEF Queue, Links
<1>2. PICK f : f = [i \in 1..n |-> s[i]]
  OBVIOUS
<1>3. f \in Bijection(1..n, allocated)
  <2>1. \A i \in 1..n : f[i] \in allocated
    BY <1>2 DEF Queue
  <2>2. \A i, j \in 1..n : f[i] = f[j] => i = j
    <3>1. \A i \in 1..n : i \in 0..n /\ f[i] = s[i]
      BY <1>1, <1>2
    <3>. QED BY <3>1 DEF Queue, Links
  <2>3. \A u \in allocated : \E i \in 1..n : f[i] = u
    BY <1>2 DEF Queue
  <2>4. f \in [1..n -> allocated] /\ DOMAIN f = 1..n
    BY <1>2, <2>1
  <2>. QED BY <2>2, <2>3, <2>4 DEF Bijection, Injection, Surjection, IsInjective
<1>4. IsFiniteSet(1..n) /\ Cardinality(1..n) = n
  BY <1>1, FS_Interval
<1>5. Cardinality(allocated) = n
  BY <1>3, <1>4, FS_Bijection DEF ExistsBijection
<1>6. IsFiniteSet(Node) /\ Cardinality(Node) = MaxTasks
  BY <1>1, FS_Interval DEF Node
<1>7. Cardinality(allocated) <= Cardinality(Node)
  BY <1>6, FS_Subset DEF TypeOK
<1>. QED BY <1>1, <1>5, <1>6, <1>7

LEMMA TasksAre ==
  ASSUME TypeOK, NEW n, NEW s, Queue(n, s)
  PROVE  Tasks = [i \in 1..n |-> s[i]]
<1>1. n <= MaxTasks
  BY QueueLength
<1>2. Links(next, n, s) /\ next \in [Slot -> Slot]
  BY DEF Queue, TypeOK
<1>. QED BY <1>1, <1>2, ChainIs DEF Tasks

LEMMA ItailsAre ==
  ASSUME TypeOK, NEW n, NEW s, NEW m, NEW e, Queue(n, s), Runs(n, s, m, e)
  PROVE  m \in Nat /\ m <= n /\ Itails = [i \in 1..m |-> s[e[i]]]
<1>1. n \in Nat /\ n <= MaxTasks
  BY QueueLength
<1>2. m \in Nat /\ \A i \in 0..m : e[i] \in 0..n
  BY DEF Runs
<1>3. m <= n
  <2>. DEFINE S == {k \in Nat : k <= m => k <= e[k]}
  <2>1. 0 \in S
    BY <1>1, <1>2 DEF Runs
  <2>2. ASSUME NEW k \in Nat, k \in S PROVE k + 1 \in S
    <3>. SUFFICES ASSUME k + 1 <= m PROVE k + 1 <= e[k + 1]
      OBVIOUS
    <3>1. k \in 0..m /\ k + 1 \in 0..m /\ k < k + 1 /\ k <= m
      BY <1>2
    <3>2. e[k] < e[k + 1] /\ e[k] \in 0..n /\ e[k + 1] \in 0..n
      BY <1>2, <3>1 DEF Runs
    <3>. QED BY <1>1, <2>2, <3>1, <3>2
  <2>. HIDE DEF S
  <2>3. m \in S
    BY <1>2, <2>1, <2>2, NatInd
  <2>. QED BY <1>2, <2>3 DEF S, Runs
<1>4. PICK r : r = [i \in 0..m |-> s[e[i]]]
  OBVIOUS
<1>5. \A i \in 0..m : r[i] = s[e[i]] /\ r[i] \in Slot
  BY <1>2, <1>4 DEF Queue, Links
<1>6. Links(next_itail, m, r)
  <2>1. r \in [0..m -> Slot]
    BY <1>4, <1>5
  <2>2. 0 \in 0..m /\ m \in 0..m
    BY <1>2
  <2>3. r[0] = 0
    BY <1>5, <2>2 DEF Runs, Queue, Links
  <2>4. ASSUME NEW i \in 0..m, NEW j \in 0..m, r[i] = r[j] PROVE i = j
    <3>1. e[i] = e[j] /\ e[i] \in 0..n
      BY <1>2, <1>5, <2>4 DEF Queue, Links
    <3>2. ~(i < j) /\ ~(j < i)
      BY <1>1, <3>1 DEF Runs
    <3>. QED BY <3>2
  <2>5. ASSUME NEW i \in 0..(m - 1) PROVE next_itail[r[i]] = r[i + 1]
    <3>1. i \in 0..m /\ i + 1 \in 0..m
      BY <1>2
    <3>. QED BY <1>5, <3>1 DEF Runs
  <2>6. next_itail[r[m]] = Null
    BY <1>5, <2>2 DEF Runs
  <2>. QED BY <1>2, <2>1, <2>3, <2>4, <2>5, <2>6 DEF Links
<1>7. Itails = [i \in 1..m |-> r[i]]
  <2>1. m <= MaxTasks
    BY <1>1, <1>2, <1>3, InputQueueAssumption
  <2>. QED BY <1>6, <2>1, ChainIs DEF Itails, TypeOK
<1>8. [i \in 1..m |-> r[i]] = [i \in 1..m |-> s[e[i]]]
  <2>1. \A i \in 1..m : i \in 0..m
    BY <1>2
  <2>. QED BY <1>5, <2>1
<1>. QED BY <1>2, <1>3, <1>7, <1>8

LEMMA InvItailQueue == Inv => ItailQueue
<1>. SUFFICES ASSUME Inv PROVE ItailQueue
  OBVIOUS
<1>1. PICK n, s, m, e : TypeOK /\ Queue(n, s) /\ Runs(n, s, m, e)
  BY DEF Inv, QueueInv, QueueIs
<1>2. n \in Nat /\ n = Cardinality(allocated)
  BY <1>1, QueueLength
<1>3. PICK tasks, itails : tasks = Tasks /\ itails = Itails
  OBVIOUS
<1>4. tasks = [i \in 1..n |-> s[i]]
  BY <1>1, <1>3, TasksAre
<1>5. m \in Nat /\ itails = [i \in 1..m |-> s[e[i]]]
  BY <1>1, <1>3, ItailsAre
<1>6. /\ \A i \in 0..n : s[i] \in Slot
      /\ \A i, j \in 0..n : s[i] = s[j] => i = j
      /\ s[0] = 0
  BY <1>1 DEF Queue, Links
<1>7. /\ \A i \in 0..m : e[i] \in 0..n
      /\ e[0] = 0 /\ e[m] = n
      /\ \A i, j \in 0..m : i < j => e[i] < e[j]
      /\ last_itail = IF m = 0 THEN 0 ELSE s[e[m - 1]]
      /\ \A p \in 1..(n - 1) : Differ(s, p) <=> \E k \in 1..m : e[k] = p
  BY <1>1 DEF Runs
<1>8. DOMAIN tasks = 1..n /\ \A i \in 1..n : tasks[i] = s[i]
  BY <1>4
<1>9. DOMAIN itails = 1..m /\ \A i \in 1..m : itails[i] = s[e[i]]
  BY <1>5
<1>10. Len(tasks) = n /\ Len(itails) = m
  BY <1>2, <1>5, <1>8, <1>9
<1>11. \A i \in 1..m : i \in 0..m /\ e[i] \in 1..n
  <2>. TAKE i \in 1..m
  <2>1. i \in 0..m /\ 0 \in 0..m /\ 0 < i
    BY <1>5
  <2>2. e[0] < e[i] /\ e[i] \in 0..n
    BY <1>7, <2>1
  <2>. QED BY <1>2, <1>7, <2>1, <2>2
<1>. DEFINE Ends(i) == \/ i = Len(tasks)
                       \/ IsOob(kind[tasks[i]]) # IsOob(kind[tasks[i + 1]])
<1>12. ASSUME NEW p \in 1..n PROVE Ends(p) <=> \E k \in 1..m : e[k] = p
  <2>1. CASE p = n
    <3>1. m \in 1..m
      BY <1>2, <1>5, <1>7, <2>1
    <3>. QED BY <1>7, <1>10, <2>1, <3>1
  <2>2. CASE p # n
    <3>1. p \in 1..(n - 1) /\ p + 1 \in 1..n
      BY <1>2, <2>2
    <3>2. Ends(p) <=> Differ(s, p)
      BY <1>8, <1>10, <2>2, <3>1 DEF Differ
    <3>. QED BY <1>7, <3>1, <3>2
  <2>. QED BY <2>1, <2>2
<1>. HIDE DEF Ends
<1>13. ToSet(tasks) = allocated
  <2>1. \A u \in ToSet(tasks) : u \in allocated
    BY <1>1, <1>8 DEF ToSet, Queue
  <2>2. \A u \in allocated : u \in ToSet(tasks)
    BY <1>1, <1>8 DEF ToSet, Queue
  <2>. QED BY <2>1, <2>2
<1>14. ToSet(itails) = {tasks[i] : i \in {j \in DOMAIN tasks : Ends(j)}}
  <2>1. ASSUME NEW u \in ToSet(itails) PROVE u \in {tasks[i] : i \in {j \in DOMAIN tasks : Ends(j)}}
    <3>1. PICK k \in 1..m : u = itails[k]
      BY <1>9 DEF ToSet
    <3>2. e[k] \in 1..n /\ u = s[e[k]]
      BY <1>9, <1>11, <3>1
    <3>3. Ends(e[k])
      BY <1>12, <3>2
    <3>. QED BY <1>8, <3>2, <3>3
  <2>2. ASSUME NEW j \in DOMAIN tasks, Ends(j) PROVE tasks[j] \in ToSet(itails)
    <3>1. PICK k \in 1..m : e[k] = j
      BY <1>8, <1>12, <2>2
    <3>. QED BY <1>8, <1>9, <3>1 DEF ToSet
  <2>. QED BY <2>1, <2>2
<1>15. \A i, j \in DOMAIN itails : i < j =>
         \E k, l \in DOMAIN tasks : k < l /\ tasks[k] = itails[i] /\ tasks[l] = itails[j]
  <2>. TAKE i, j \in DOMAIN itails
  <2>. HAVE i < j
  <2>1. i \in 1..m /\ j \in 1..m
    BY <1>9
  <2>2. e[i] \in 1..n /\ e[j] \in 1..n /\ e[i] < e[j]
    BY <1>7, <1>11, <2>1
  <2>3. tasks[e[i]] = itails[i] /\ tasks[e[j]] = itails[j]
    BY <1>8, <1>9, <2>1, <2>2
  <2>. QED BY <1>8, <2>2, <2>3
<1>16. next[last_input] = Null
  BY <1>1 DEF Queue, Links
<1>17. last_input = (IF tasks = <<>> THEN 0 ELSE Last(tasks))
  <2>1. last_input = s[n]
    BY <1>1 DEF Queue
  <2>2. CASE n = 0
    <3>1. tasks = <<>>
      BY <1>4, <2>2
    <3>. QED BY <1>6, <2>1, <2>2, <3>1
  <2>3. CASE n # 0
    <3>1. n \in 1..n
      BY <1>2, <2>3
    <3>2. tasks # <<>>
      <4>1. Len(<<>>) = 0
        OBVIOUS
      <4>. QED BY <1>10, <2>3, <4>1
    <3>. QED BY <1>8, <1>10, <2>1, <3>1, <3>2 DEF Last
  <2>. QED BY <2>2, <2>3
<1>18. last_itail = (IF Len(itails) <= 1 THEN 0 ELSE itails[Len(itails) - 1])
  <2>1. CASE m = 0
    BY <1>7, <1>10, <2>1
  <2>2. CASE m = 1
    BY <1>6, <1>7, <1>10, <2>2
  <2>3. CASE m # 0 /\ m # 1
    <3>1. m - 1 \in 1..m /\ ~(m <= 1)
      BY <1>5, <2>3
    <3>. QED BY <1>7, <1>9, <1>10, <2>3, <3>1
  <2>. QED BY <2>1, <2>2, <2>3
<1>. QED BY <1>2, <1>3, <1>10, <1>13, <1>14, <1>15, <1>16, <1>17, <1>18 DEF ItailQueue, Ends

\* The comment on first_itail in struct tqueue holds after every
\* enqueue_input_task() and dequeue_input_task(), for a queue of any length.
THEOREM ItailsStayInOrder == Spec => []ItailQueue
<1>. QED BY SpecInv, InvItailQueue, PTL

-----------------------------------------------------------------------------
(* The lists behave as a sequence: operators of InputQueueSpec             *)

\* What Lines is.
View(n, s) == [i \in 1..n |-> [kind |-> kind[s[i]], length |-> length[s[i]]]]

AnyLine == [kind : LineKind, length : Length]

LinesViewed ==
  \A n, s, m, e : TypeOK /\ QueueIs(n, s, m, e) =>
    n \in Nat /\ Lines = View(n, s) /\ View(n, s) \in Seq(AnyLine) /\ Len(View(n, s)) = n

LEMMA LinesAre == LinesViewed
<1>. SUFFICES \A n, s, m, e : TypeOK /\ QueueIs(n, s, m, e) =>
       n \in Nat /\ Lines = View(n, s) /\ View(n, s) \in Seq(AnyLine) /\ Len(View(n, s)) = n
  BY DEF LinesViewed
<1>. TAKE n, s, m, e
<1>. HAVE TypeOK /\ QueueIs(n, s, m, e)
<1>1. Queue(n, s) /\ n \in Nat
  BY DEF QueueIs, Queue, Links
<1>2. Tasks = [i \in 1..n |-> s[i]]
  BY <1>1, TasksAre
<1>3. Lines = View(n, s)
  <2>1. PICK tasks : tasks = Tasks
    OBVIOUS
  <2>2. DOMAIN tasks = 1..n /\ \A i \in 1..n : tasks[i] = s[i]
    BY <1>2, <2>1
  <2>3. Lines = [i \in DOMAIN tasks |-> [kind |-> kind[tasks[i]], length |-> length[tasks[i]]]]
    BY <2>1, Zenon DEF Lines
  <2>. QED BY <2>2, <2>3 DEF View
<1>4. ASSUME NEW i \in 1..n PROVE [kind |-> kind[s[i]], length |-> length[s[i]]] \in AnyLine
  <2>1. s[i] \in Node
    BY <1>1, LengthsNat
  <2>. QED BY <2>1 DEF TypeOK, AnyLine
<1>5. View(n, s) \in Seq(AnyLine) /\ Len(View(n, s)) = n
  BY <1>1, <1>4 DEF View
<1>. QED BY <1>1, <1>3, <1>5

LEMMA TotalIs ==
  ASSUME NEW v \in Seq(AnyLine), NEW f, \A i \in 1..Len(v) : f[i] = v[i].length
  PROVE  Abstract!Total(v) = SumTo(f, Len(v))
<1>1. PICK g : g = [i \in DOMAIN v |-> v[i].length]
  OBVIOUS
<1>2. Abstract!Total(v) = Abstract!SumTo(g, Len(v))
  BY <1>1 DEF Abstract!Total
<1>3. Abstract!SumTo(g, Len(v)) = SumTo(g, Len(v))
  BY Zenon DEF Abstract!SumTo, SumTo
<1>4. Len(v) \in Nat /\ \A i \in 1..Len(v) : g[i] = f[i]
  BY <1>1
<1>5. SumTo(g, Len(v)) = SumTo(f, Len(v))
  BY <1>4, SumSame
<1>. QED BY <1>2, <1>3, <1>5

LEMMA AppendIs ==
  ASSUME NEW T, NEW v \in Seq(T), NEW x \in T, NEW w \in Seq(T),
         Len(w) = Len(v) + 1, w[Len(v) + 1] = x, \A i \in 1..Len(v) : w[i] = v[i]
  PROVE  Append(v, x) = w
<1>1. /\ Append(v, x) \in Seq(T) /\ Len(Append(v, x)) = Len(w)
      /\ \A i \in 1..Len(v) : Append(v, x)[i] = v[i]
      /\ Append(v, x)[Len(v) + 1] = x
      /\ Len(v) \in Nat
  BY AppendProperties
<1>2. ASSUME NEW i \in 1..Len(w) PROVE Append(v, x)[i] = w[i]
  <2>1. i = Len(v) + 1 \/ i \in 1..Len(v)
    BY <1>1
  <2>. QED BY <1>1, <2>1
<1>. QED BY <1>1, <1>2, SeqEqual

LEMMA RemoveAtIs ==
  ASSUME NEW T, NEW v \in Seq(T), NEW q \in 1..Len(v), NEW w \in Seq(T),
         Len(w) = Len(v) - 1,
         \A i \in 1..Len(w) : w[i] = IF i < q THEN v[i] ELSE v[i + 1]
  PROVE  Abstract!RemoveAt(v, q) = w
<1>1. PICK x, y : x = SubSeq(v, 1, q - 1) /\ y = SubSeq(v, q + 1, Len(v))
  OBVIOUS
<1>2. Abstract!RemoveAt(v, q) = x \o y
  BY <1>1 DEF Abstract!RemoveAt
<1>3. Len(v) \in Nat /\ q - 1 \in Int /\ q + 1 \in Int /\ Len(v) \in Int /\ 1 \in Int
  OBVIOUS
<1>4. x \in Seq(T) /\ Len(x) = q - 1 /\ \A i \in 1..(q - 1) : x[i] = v[i]
  <2>1. \A i \in 1..(q - 1) : v[i] \in T
    BY <1>3
  <2>2. /\ x \in Seq(T) /\ Len(x) = IF 1 <= q - 1 THEN (q - 1) - 1 + 1 ELSE 0
        /\ \A i \in 1..((q - 1) - 1 + 1) : x[i] = v[1 + i - 1]
    BY <1>1, <1>3, <2>1, SubSeqProperties
  <2>3. \A i \in 1..(q - 1) : i \in 1..((q - 1) - 1 + 1) /\ 1 + i - 1 = i
    BY <1>3
  <2>. QED BY <1>3, <2>2, <2>3
<1>5. /\ y \in Seq(T) /\ Len(y) = Len(v) - q
      /\ \A i \in 1..(Len(v) - q) : y[i] = v[q + i]
  <2>1. \A i \in (q + 1)..Len(v) : v[i] \in T
    BY <1>3
  <2>2. /\ y \in Seq(T) /\ Len(y) = IF q + 1 <= Len(v) THEN Len(v) - (q + 1) + 1 ELSE 0
        /\ \A i \in 1..(Len(v) - (q + 1) + 1) : y[i] = v[(q + 1) + i - 1]
    BY <1>1, <1>3, <2>1, SubSeqProperties
  <2>3. \A i \in 1..(Len(v) - q) : i \in 1..(Len(v) - (q + 1) + 1) /\ (q + 1) + i - 1 = q + i
    BY <1>3
  <2>. QED BY <1>3, <2>2, <2>3
<1>6. /\ x \o y \in Seq(T) /\ Len(x \o y) = Len(x) + Len(y)
      /\ \A i \in 1..(Len(x) + Len(y)) :
           (x \o y)[i] = IF i <= Len(x) THEN x[i] ELSE y[i - Len(x)]
  BY <1>4, <1>5, ConcatProperties
<1>7. Len(x \o y) = Len(w)
  BY <1>3, <1>4, <1>5, <1>6
<1>8. ASSUME NEW i \in 1..Len(w) PROVE (x \o y)[i] = w[i]
  <2>1. (x \o y)[i] = IF i <= Len(x) THEN x[i] ELSE y[i - Len(x)]
    BY <1>6, <1>7
  <2>2. CASE i < q
    <3>1. i <= Len(x) /\ i \in 1..(q - 1)
      BY <1>3, <1>4, <2>2
    <3>. QED BY <1>4, <2>1, <2>2, <3>1
  <2>3. CASE ~(i < q)
    <3>1. ~(i <= Len(x)) /\ i - Len(x) = i - (q - 1) /\ i - (q - 1) \in 1..(Len(v) - q)
          /\ q + (i - (q - 1)) = i + 1
      BY <1>3, <1>4, <2>3
    <3>. QED BY <1>5, <2>1, <2>3, <3>1
  <2>. QED BY <2>2, <2>3
<1>. QED BY <1>2, <1>6, <1>7, <1>8, SeqEqual

\* The first kind that is wanted.
LEMMA DequeueAtIs ==
  ASSUME NEW T, NEW kinds \in Seq(T), NEW how, NEW b
  PROVE  /\ (\A i \in 1..Len(kinds) : ~Abstract!Wanted(kinds[i], how, b)) =>
              Abstract!DequeueAt(kinds, how, b) = 0
         /\ \A q \in 1..Len(kinds) :
              /\ Abstract!Wanted(kinds[q], how, b)
              /\ \A i \in 1..(q - 1) : ~Abstract!Wanted(kinds[i], how, b)
              => Abstract!DequeueAt(kinds, how, b) = q
<1>. DEFINE I == {i \in 1..Len(kinds) : Abstract!Wanted(kinds[i], how, b)}
<1>1. Abstract!DequeueAt(kinds, how, b) = IF I # {} THEN Abstract!Min(I) ELSE 0
  BY DEF Abstract!DequeueAt, Abstract!SelectInSeq
<1>2. ASSUME NEW q \in 1..Len(kinds), Abstract!Wanted(kinds[q], how, b),
             \A i \in 1..(q - 1) : ~Abstract!Wanted(kinds[i], how, b)
      PROVE  Abstract!DequeueAt(kinds, how, b) = q
  <2>1. q \in I /\ \A j \in I : q <= j
    BY <1>2
  <2>2. I \subseteq Int
    OBVIOUS
  <2>. HIDE DEF I
  <2>3. Abstract!Min(I) = CHOOSE x \in I : \A y \in I : x <= y
    BY DEF Abstract!Min
  <2>4. Abstract!Min(I) \in I /\ \A y \in I : Abstract!Min(I) <= y
    BY <2>1, <2>3
  <2>5. Abstract!Min(I) = q
    <3>1. PICK x : x = Abstract!Min(I)
      OBVIOUS
    <3>2. x \in Int /\ q \in Int /\ x <= q /\ q <= x
      BY <2>1, <2>2, <2>4, <3>1
    <3>. QED BY <3>1, <3>2
  <2>. QED BY <1>1, <2>1, <2>5
<1>3. (\A i \in 1..Len(kinds) : ~Abstract!Wanted(kinds[i], how, b)) => I = {}
  OBVIOUS
<1>. HIDE DEF I
<1>. QED BY <1>1, <1>2, <1>3

-----------------------------------------------------------------------------
(* The lists behave as a sequence: every step                              *)

\* The tasks of the first run are of one sort, and the one behind it is not.
LEMMA FirstRun ==
  ASSUME NEW n, NEW s, NEW m, NEW e, Queue(n, s), Runs(n, s, m, e), n # 0
  PROVE  /\ \A i \in 1..e[1] : IsOob(kind[s[i]]) = IsOob(kind[s[1]])
         /\ m # 1 => IsOob(kind[s[e[1] + 1]]) # IsOob(kind[s[1]])
<1>1. n \in Nat /\ m \in Nat \ {0} /\ e[1] \in 1..n
  BY LastRun DEF Queue, Links, Runs
<1>2. \A p \in 1..(n - 1) : Differ(s, p) <=> \E k \in 1..m : e[k] = p
  BY DEF Runs
<1>3. \A k \in 1..m : e[1] <= e[k]
  <2>. TAKE k \in 1..m
  <2>1. k = 1 \/ e[1] < e[k]
    BY <1>1 DEF Runs
  <2>2. e[k] \in 0..n
    BY <1>1 DEF Runs
  <2>. QED BY <1>1, <2>1, <2>2
<1>. DEFINE S == {k \in Nat : k + 1 <= e[1] => IsOob(kind[s[k + 1]]) = IsOob(kind[s[1]])}
<1>4. 0 \in S
  OBVIOUS
<1>5. ASSUME NEW k \in Nat, k \in S PROVE k + 1 \in S
  <2>. SUFFICES ASSUME (k + 1) + 1 <= e[1]
       PROVE IsOob(kind[s[(k + 1) + 1]]) = IsOob(kind[s[1]])
    OBVIOUS
  <2>1. k + 1 \in 1..(n - 1) /\ k + 1 <= e[1] /\ k + 1 < e[1]
    BY <1>1
  <2>2. ~Differ(s, k + 1)
    <3>1. ASSUME NEW j \in 1..m PROVE e[j] # k + 1
      BY <1>1, <1>3, <2>1
    <3>. QED BY <1>2, <2>1, <3>1
  <2>. QED BY <1>5, <2>1, <2>2 DEF Differ
<1>. HIDE DEF S
<1>6. \A k \in Nat : k \in S
  BY <1>4, <1>5, NatInd
<1>7. ASSUME NEW i \in 1..e[1] PROVE IsOob(kind[s[i]]) = IsOob(kind[s[1]])
  <2>1. i - 1 \in S /\ (i - 1) + 1 = i /\ i <= e[1]
    BY <1>1, <1>6
  <2>. QED BY <2>1 DEF S
<1>8. ASSUME m # 1 PROVE IsOob(kind[s[e[1] + 1]]) # IsOob(kind[s[1]])
  <2>1. e[1] \in 1..(n - 1) /\ 1 \in 1..m
    BY <1>1, <1>8 DEF Runs
  <2>2. Differ(s, e[1])
    BY <1>2, <2>1
  <2>3. e[1] \in 1..e[1]
    BY <1>1
  <2>4. IsOob(kind[s[e[1]]]) = IsOob(kind[s[1]])
    BY <1>7, <2>3
  <2>. QED BY <2>2, <2>4, Zenon DEF Differ
<1>. QED BY <1>7, <1>8

\* The first run is passed over when its lines are not wanted.
LEMMA SkipsUnwanted ==
  ASSUME NEW how \in DequeueHow, disable_oob \in BOOLEAN, ~(disable_oob /\ how = "DQ_OOB")
  PROVE  /\ SkipsRun(how) <=> ~Abstract!Wanted(kind[first_input], how, disable_oob)
         /\ \A k : IsOob(k) = IsOob(kind[first_input]) =>
              (Abstract!Wanted(k, how, disable_oob)
                 <=> Abstract!Wanted(kind[first_input], how, disable_oob))
         /\ SkipsRun(how) =>
              \A k : IsOob(k) # IsOob(kind[first_input]) => Abstract!Wanted(k, how, disable_oob)
BY DEF SkipsRun, Effective, Abstract!Wanted, IsOob, Abstract!IsOob, DequeueHow

\* dequeue_input_task() takes the line that InputQueueSpec says.
LEMMA TakesFirstWanted ==
  ASSUME TypeOK, NEW n, NEW s, NEW m, NEW e, QueueIs(n, s, m, e), NEW how \in DequeueHow
  PROVE  /\ Refuses(how) => Abstract!DequeueAt(Abstract!Kinds, how, disable_oob) = 0
         /\ ~Refuses(how) => \A c \in {0, 1} : (c = 1 <=> SkipsRun(how)) =>
              Abstract!DequeueAt(Abstract!Kinds, how, disable_oob) = e[c] + 1
<1>1. Queue(n, s) /\ Runs(n, s, m, e) /\ disable_oob \in BOOLEAN
  BY DEF QueueIs, TypeOK
<1>2. n \in Nat /\ Lines = View(n, s) /\ View(n, s) \in Seq(AnyLine) /\ Len(View(n, s)) = n
  BY LinesAre DEF LinesViewed
<1>3. PICK kinds : kinds = Abstract!Kinds
  OBVIOUS
<1>4. kinds = [i \in 1..n |-> kind[s[i]]]
  <2>1. kinds = [i \in DOMAIN Lines |-> Lines[i].kind]
    BY <1>3 DEF Abstract!Kinds
  <2>2. DOMAIN Lines = 1..n /\ \A i \in 1..n : Lines[i].kind = kind[s[i]]
    BY <1>2 DEF View
  <2>. QED BY <2>1, <2>2
<1>5. /\ kinds \in Seq(LineKind) /\ Len(kinds) = n
      /\ \A i \in 1..n : kinds[i] = kind[s[i]]
  <2>1. \A i \in 1..n : kind[s[i]] \in LineKind
    BY <1>1, LengthsNat DEF TypeOK
  <2>. QED BY <1>2, <1>4, <2>1
<1>. DEFINE W(i) == Abstract!Wanted(kind[s[i]], how, disable_oob)
            at == Abstract!DequeueAt(kinds, how, disable_oob)
<1>6. /\ (\A i \in 1..n : ~W(i)) => at = 0
      /\ \A q \in 1..n : W(q) /\ (\A i \in 1..(q - 1) : ~W(i)) => at = q
  <2>1. /\ (\A i \in 1..Len(kinds) : ~Abstract!Wanted(kinds[i], how, disable_oob)) => at = 0
        /\ \A q \in 1..Len(kinds) :
             /\ Abstract!Wanted(kinds[q], how, disable_oob)
             /\ \A i \in 1..(q - 1) : ~Abstract!Wanted(kinds[i], how, disable_oob)
             => at = q
    BY <1>5, DequeueAtIs
  <2>2. \A q \in 1..n : \A i \in 1..(q - 1) : i \in 1..n
    BY <1>2
  <2>. HIDE DEF at
  <2>. QED BY <1>5, <2>1, <2>2
<1>. HIDE DEF W, at
<1>7. CASE disable_oob /\ how = "DQ_OOB"
  <2>1. Refuses(how)
    BY <1>7 DEF Refuses
  <2>2. \A i \in 1..n : ~W(i)
    BY <1>7 DEF W, Abstract!Wanted
  <2>. QED BY <1>3, <1>6, <2>1, <2>2 DEF at
<1>8. CASE n = 0
  <2>1. Refuses(how)
    BY <1>1, <1>8, LastRun DEF Refuses
  <2>2. 1..n = {}
    BY <1>8
  <2>. QED BY <1>3, <1>6, <2>1, <2>2 DEF at
<1>9. CASE n # 0 /\ ~(disable_oob /\ how = "DQ_OOB")
  <2>1. first_input = s[1] /\ first_input # Null /\ e[1] \in 1..n
    BY <1>1, <1>9, LastRun
  <2>2. PICK c \in {0, 1} :
           /\ c = 1 <=> SkipsRun(how)
           /\ next[pt(how)] = Null <=> c = m
           /\ c <= m
    BY <1>1, <1>9, Position
  <2>3. Refuses(how) <=> c = m
    BY <1>9, <2>1, <2>2 DEF Refuses
  <2>4. /\ SkipsRun(how) <=> ~W(1)
        /\ \A i \in 1..n : IsOob(kind[s[i]]) = IsOob(kind[s[1]]) => (W(i) <=> W(1))
        /\ SkipsRun(how) => \A i \in 1..n : IsOob(kind[s[i]]) # IsOob(kind[s[1]]) => W(i)
    <3>1. /\ SkipsRun(how) <=> ~Abstract!Wanted(kind[first_input], how, disable_oob)
          /\ \A k : IsOob(k) = IsOob(kind[first_input]) =>
               (Abstract!Wanted(k, how, disable_oob)
                  <=> Abstract!Wanted(kind[first_input], how, disable_oob))
          /\ SkipsRun(how) =>
               \A k : IsOob(k) # IsOob(kind[first_input]) => Abstract!Wanted(k, how, disable_oob)
      BY <1>1, <1>9, SkipsUnwanted
    <3>. QED BY <2>1, <3>1, Zenon DEF W
  <2>5. /\ \A i \in 1..e[1] : IsOob(kind[s[i]]) = IsOob(kind[s[1]])
        /\ m # 1 => IsOob(kind[s[e[1] + 1]]) # IsOob(kind[s[1]])
    BY <1>1, <1>9, FirstRun
  <2>6. m \in Nat \ {0} /\ e[0] = 0 /\ e[m] = n /\ (m # 1 => e[1] + 1 \in 1..n)
    <3>1. m \in Nat \ {0} /\ e[0] = 0 /\ e[m] = n
      BY <1>1, <1>2, <1>9 DEF Runs
    <3>2. m # 1 => e[1] < e[m]
      BY <1>1, <3>1 DEF Runs
    <3>. QED BY <1>2, <2>1, <3>1, <3>2
  <2>7. CASE c = 0
    <3>1. W(1)
      BY <2>2, <2>4, <2>7
    <3>2. at = 1
      <4>1. 1 \in 1..n /\ 1..(1 - 1) = {}
        BY <1>2, <1>9
      <4>. QED BY <1>6, <3>1, <4>1
    <3>3. ~Refuses(how) /\ e[0] + 1 = 1
      BY <2>3, <2>6, <2>7
    <3>. QED BY <1>3, <2>2, <2>7, <3>2, <3>3 DEF at
  <2>8. CASE c = 1
    <3>1. \A i \in 1..e[1] : i \in 1..n
      BY <1>2, <2>1
    <3>2. \A i \in 1..e[1] : ~W(i)
      BY <2>2, <2>4, <2>5, <2>8, <3>1
    <3>3. CASE m = 1
      <4>1. at = 0
        BY <1>6, <2>6, <3>2, <3>3
      <4>. QED BY <1>3, <2>3, <2>8, <3>3, <4>1 DEF at
    <3>4. CASE m # 1
      <4>1. W(e[1] + 1)
        BY <2>2, <2>4, <2>5, <2>6, <2>8, <3>4
      <4>2. (e[1] + 1) - 1 = e[1]
        BY <1>2, <2>1
      <4>3. at = e[1] + 1
        BY <1>6, <2>6, <3>2, <3>4, <4>1, <4>2
      <4>4. ~Refuses(how)
        BY <2>3, <2>8, <3>4
      <4>. QED BY <1>3, <2>2, <2>8, <4>3, <4>4 DEF at
    <3>. QED BY <3>3, <3>4
  <2>. QED BY <2>7, <2>8
<1>. QED BY <1>7, <1>8, <1>9

LEMMA LinesNow ==
  ASSUME TypeOK, NEW n, NEW s, NEW m, NEW e, QueueIs(n, s, m, e)
  PROVE  \E v \in Seq(AnyLine) :
           /\ v = Lines /\ Len(v) = n /\ n \in Nat
           /\ \A i \in 1..n : v[i] = [kind |-> kind[s[i]], length |-> length[s[i]]]
<1>1. PICK v : v = Lines
  OBVIOUS
<1>2. n \in Nat /\ v = View(n, s) /\ v \in Seq(AnyLine) /\ Len(v) = n
  BY <1>1, LinesAre DEF LinesViewed
<1>3. \A i \in 1..n : v[i] = [kind |-> kind[s[i]], length |-> length[s[i]]]
  BY <1>2 DEF View
<1>. QED BY <1>1, <1>2, <1>3

\* What the next state looks like.
LEMMA NextLines ==
  ASSUME TypeOK', NEW n, NEW s, NEW m, NEW e, QueueIs(n, s, m, e)'
  PROVE  \E w \in Seq(AnyLine) :
           /\ w = Lines' /\ Len(w) = n /\ n \in Nat
           /\ \A i \in 1..n : w[i] = [kind |-> kind'[s[i]], length |-> length'[s[i]]]
           /\ Abstract!Total(w) = total_input_length'
<1>1. LinesViewed'
  BY LinesAre, PTL
<1>2. PICK w : w = Lines'
  OBVIOUS
<1>3. n \in Nat /\ w = View(n, s)' /\ w \in Seq(AnyLine) /\ Len(w) = n
  BY <1>1, <1>2 DEF LinesViewed
<1>4. \A i \in 1..n : w[i] = [kind |-> kind'[s[i]], length |-> length'[s[i]]]
  BY <1>3 DEF View
<1>5. PICK f : f = Lengths(n, s)'
  OBVIOUS
<1>6. \A i \in 1..n : f[i] = w[i].length
  <2>. TAKE i \in 1..n
  <2>1. f[i] = length'[s[i]]
    BY <1>5 DEF Lengths
  <2>2. PICK k, l : k = kind'[s[i]] /\ l = length'[s[i]]
    OBVIOUS
  <2>3. w[i] = [kind |-> k, length |-> l]
    BY <1>4, <2>2
  <2>4. w[i].length = l
    BY <2>3
  <2>. QED BY <2>1, <2>2, <2>4
<1>7. Abstract!Total(w) = SumTo(f, n)
  BY <1>3, <1>6, TotalIs
<1>8. total_input_length' = SumTo(f, n)
  BY <1>5 DEF QueueIs
<1>. QED BY <1>2, <1>3, <1>4, <1>7, <1>8

LEMMA SimulatesEnqueue ==
  ASSUME Inv, Inv', NEW line \in Line, NEW at_front \in BOOLEAN,
         enqueue_input_task(line, at_front)
  PROVE  Abstract!Enqueue(line, at_front)
<1>1. PICK n, s, m, e : QueueIs(n, s, m, e)
  BY DEF Inv, QueueInv
<1>2. PICK s1, m1, e1 : /\ QueueIs(n + 1, s1, m1, e1)'
                        /\ Holds(n, s, s1, IF at_front THEN 1 ELSE n + 1, line)
  BY <1>1, EnqueueStep DEF Inv
<1>3. PICK v \in Seq(AnyLine) :
        /\ v = Lines /\ Len(v) = n /\ n \in Nat
        /\ \A i \in 1..n : v[i] = [kind |-> kind[s[i]], length |-> length[s[i]]]
  BY <1>1, LinesNow DEF Inv
<1>4. PICK w \in Seq(AnyLine) :
        /\ w = Lines' /\ Len(w) = n + 1
        /\ \A i \in 1..(n + 1) : w[i] = [kind |-> kind'[s1[i]], length |-> length'[s1[i]]]
        /\ Abstract!Total(w) = total_input_length'
  BY <1>2, NextLines DEF Inv
<1>5. line \in AnyLine /\ line = [kind |-> line.kind, length |-> line.length]
  BY InputQueueAssumption DEF Line, AnyLine
<1>6. w = IF at_front THEN <<line>> \o v ELSE Append(v, line)
  <2>1. CASE at_front
    <3>1. Holds(n, s, s1, 1, line)
      BY <1>2, <2>1
    <3>2. 1 \in 1..(n + 1) /\ \A i \in 1..n : ~(i < 1) /\ i + 1 \in 1..(n + 1)
      BY <1>3
    <3>3. w[1] = line
      BY <1>4, <1>5, <3>1, <3>2 DEF Holds
    <3>4. \A i \in 1..n : w[i + 1] = v[i]
      BY <1>3, <1>4, <3>1, <3>2 DEF Holds
    <3>5. <<line>> \o v = w
      <4>1. Len(w) = Len(v) + 1 /\ \A i \in 1..Len(v) : w[i + 1] = v[i]
        BY <1>3, <1>4, <3>4
      <4>. QED BY <1>5, <3>3, <4>1, ConsIs
    <3>. QED BY <2>1, <3>5
  <2>2. CASE ~at_front
    <3>1. Holds(n, s, s1, n + 1, line)
      BY <1>2, <2>2
    <3>2. n + 1 \in 1..(n + 1) /\ \A i \in 1..n : i < n + 1 /\ i \in 1..(n + 1)
      BY <1>3
    <3>3. w[n + 1] = line
      BY <1>4, <1>5, <3>1, <3>2 DEF Holds
    <3>4. \A i \in 1..n : w[i] = v[i]
      BY <1>3, <1>4, <3>1, <3>2 DEF Holds
    <3>5. Append(v, line) = w
      BY <1>3, <1>4, <1>5, <3>3, <3>4, AppendIs
    <3>. QED BY <2>2, <3>5
  <2>. QED BY <2>1, <2>2
<1>7. /\ dequeued' = Nothing /\ disable_oob' = disable_oob /\ connected' = connected
      /\ input_suspended' = (input_suspended
                               \/ (connected /\ total_input_length' > INPUT_HIWAT))
  BY DEF enqueue_input_task, options
<1>8. Lines' = IF at_front THEN <<line>> \o Lines ELSE Append(Lines, line)
  BY <1>3, <1>4, <1>6
<1>9. Abstract!Total(Lines') = total_input_length'
  BY <1>4
<1>10. Abstract!Nothing = Nothing
  BY DEF Nothing, Abstract!Nothing
<1>. QED BY <1>7, <1>8, <1>9, <1>10 DEF Abstract!Enqueue

LEMMA SimulatesDequeue ==
  ASSUME Inv, Inv', NEW how \in DequeueHow, dequeue_input_task(how),
         connected' = connected, disable_oob' = disable_oob
  PROVE  Abstract!Dequeue(how)
<1>1. PICK n, s, m, e : QueueIs(n, s, m, e)
  BY DEF Inv, QueueInv
<1>2. PICK v \in Seq(AnyLine) :
        /\ v = Lines /\ Len(v) = n /\ n \in Nat
        /\ \A i \in 1..n : v[i] = [kind |-> kind[s[i]], length |-> length[s[i]]]
  BY <1>1, LinesNow DEF Inv
<1>3. PICK at : at = Abstract!DequeueAt(Abstract!Kinds, how, disable_oob)
  OBVIOUS
<1>4. CASE Refuses(how)
  <2>1. at = 0
    BY <1>1, <1>3, <1>4, TakesFirstWanted DEF Inv
  <2>2. dequeued' = Nothing /\ UNCHANGED <<links, total_input_length, input_suspended>>
    BY <1>4, Zenon DEF dequeue_input_task
  <2>3. QueueIs(n, s, m, e)'
    BY <1>1, <2>2 DEF QueueIs, Queue, Runs, Links, links, Differ, Lengths
  <2>4. Lines' = Lines
    <3>1. PICK w \in Seq(AnyLine) :
            /\ w = Lines' /\ Len(w) = n
            /\ \A i \in 1..n : w[i] = [kind |-> kind'[s[i]], length |-> length'[s[i]]]
      BY <2>3, NextLines DEF Inv
    <3>2. \A i \in 1..Len(w) : w[i] = v[i]
      BY <1>2, <2>2, <3>1 DEF links
    <3>3. w = v
      BY <1>2, <3>1, <3>2, SeqEqual
    <3>. QED BY <1>2, <3>1, <3>3
  <2>5. Abstract!Nothing = Nothing
    BY DEF Nothing, Abstract!Nothing
  <2>. QED BY <1>3, <2>1, <2>2, <2>4, <2>5 DEF Abstract!Dequeue
<1>5. CASE ~Refuses(how)
  <2>1. TypeOK /\ TypeOK' /\ Unlink(how)
    BY <1>5, Zenon DEF dequeue_input_task, Inv
  <2>0. PICK c, m1, e1 : TakesOut(how, n, s, m, e, c, m1, e1)
    BY <1>1, <1>5, <2>1, UnlinkStep
  <2>2. /\ c \in {0, 1}
        /\ c = 1 <=> SkipsRun(how)
        /\ n # 0 /\ c < m /\ e[c] \in 0..(n - 1) /\ total_input_length' \in Nat
        /\ QueueIs(n - 1, Without(n, s, e[c]), m1, e1)'
        /\ dequeued' = [kind   |-> DequeuedKind(kind[s[e[c] + 1]], disable_oob),
                        length |-> length[s[e[c] + 1]]]
        /\ \A i \in 1..n : i # e[c] + 1 =>
             kind'[s[i]] = kind[s[i]] /\ length'[s[i]] = length[s[i]]
    BY <2>0 DEF TakesOut
  <2>3. PICK p \in 0..(n - 1) : p = e[c]
    BY <2>2
  <2>4. PICK s1 : s1 = Without(n, s, p)
    OBVIOUS
  <2>5. at = p + 1 /\ at # 0 /\ at \in 1..n
    <3>1. at = e[c] + 1
      BY <1>1, <1>3, <1>5, <2>1, <2>2, TakesFirstWanted
    <3>. QED BY <1>2, <2>3, <3>1
  <2>6. PICK w \in Seq(AnyLine) :
          /\ w = Lines' /\ Len(w) = n - 1
          /\ \A i \in 1..(n - 1) : w[i] = [kind |-> kind'[s1[i]], length |-> length'[s1[i]]]
          /\ Abstract!Total(w) = total_input_length'
    <3>1. QueueIs(n - 1, s1, m1, e1)'
      BY <2>2, <2>3, <2>4
    <3>. QED BY <2>1, <3>1, NextLines
  <2>7. Abstract!RemoveAt(v, at) = w
    <3>1. ASSUME NEW i \in 1..Len(w) PROVE w[i] = IF i < at THEN v[i] ELSE v[i + 1]
      <4>1. i \in 1..(n - 1) /\ i \in 0..(n - 1) /\ i \in 1..n /\ i + 1 \in 1..n
        BY <1>2, <2>6
      <4>2. s1[i] = IF i <= p THEN s[i] ELSE s[i + 1]
        BY <2>4, <4>1 DEF Without
      <4>3. CASE i <= p
        <5>1. i < at /\ i # e[c] + 1
          BY <2>3, <2>5, <4>3
        <5>2. kind'[s[i]] = kind[s[i]] /\ length'[s[i]] = length[s[i]]
          BY <2>2, <4>1, <5>1
        <5>3. w[i] = [kind |-> kind'[s[i]], length |-> length'[s[i]]]
          BY <2>6, <4>1, <4>2, <4>3
        <5>4. v[i] = [kind |-> kind[s[i]], length |-> length[s[i]]]
          BY <1>2, <4>1
        <5>. QED BY <5>1, <5>2, <5>3, <5>4
      <4>4. CASE ~(i <= p)
        <5>1. ~(i < at) /\ i + 1 # e[c] + 1
          BY <2>3, <2>5, <4>4
        <5>2. kind'[s[i + 1]] = kind[s[i + 1]] /\ length'[s[i + 1]] = length[s[i + 1]]
          BY <2>2, <4>1, <5>1
        <5>3. w[i] = [kind |-> kind'[s[i + 1]], length |-> length'[s[i + 1]]]
          BY <2>6, <4>1, <4>2, <4>4
        <5>4. v[i + 1] = [kind |-> kind[s[i + 1]], length |-> length[s[i + 1]]]
          BY <1>2, <4>1
        <5>. QED BY <5>1, <5>2, <5>3, <5>4
      <4>. QED BY <4>3, <4>4
    <3>. QED BY <1>2, <2>5, <2>6, <3>1, RemoveAtIs
  <2>8. dequeued' = [v[at] EXCEPT !.kind = Abstract!DequeuedKind(v[at].kind, disable_oob)]
    <3>1. v[at] = [kind |-> kind[s[at]], length |-> length[s[at]]]
      BY <1>2, <2>5
    <3>2. \A k, b : Abstract!DequeuedKind(k, b) = DequeuedKind(k, b)
      BY Zenon DEF DequeuedKind, Abstract!DequeuedKind
    <3>3. dequeued' = [kind |-> DequeuedKind(kind[s[at]], disable_oob), length |-> length[s[at]]]
      BY <2>2, <2>3, <2>5
    <3>. QED BY <3>1, <3>2, <3>3
  <2>9. input_suspended' = (input_suspended
                              /\ ~(connected /\ total_input_length' < INPUT_LOWAT))
    BY <2>1, Zenon DEF Unlink
  <2>10. Abstract!INPUT_LOWAT = INPUT_LOWAT
    BY DEF INPUT_LOWAT, Abstract!INPUT_LOWAT
  <2>. QED BY <1>2, <1>3, <2>5, <2>6, <2>7, <2>8, <2>9, <2>10 DEF Abstract!Dequeue
<1>. QED BY <1>4, <1>5

LEMMA Simulates == Inv /\ Inv' /\ [Next]_vars => [Abstract!Next]_(Abstract!specVars)
<1>. SUFFICES ASSUME Inv, Inv', [Next]_vars PROVE [Abstract!Next]_(Abstract!specVars)
  OBVIOUS
<1>1. ASSUME NEW line \in Line, NEW at_front \in BOOLEAN, enqueue_input_task(line, at_front)
      PROVE  Abstract!Next
  <2>1. Abstract!Enqueue(line, at_front)
    BY <1>1, SimulatesEnqueue
  <2>2. line \in Abstract!Line
    BY DEF Line, Abstract!Line
  <2>. QED BY <2>1, <2>2 DEF Abstract!Next
<1>2. ASSUME NEW how \in DequeueHow, dequeue_input_task(how),
             connected' = connected, disable_oob' = disable_oob
      PROVE  Abstract!Next
  <2>1. Abstract!Dequeue(how)
    BY <1>2, SimulatesDequeue
  <2>2. how \in Abstract!DequeueHow
    BY DEF DequeueHow, Abstract!DequeueHow
  <2>. QED BY <2>1, <2>2 DEF Abstract!Next
<1>3. ASSUME NEW how \in DequeueHow, Take(how) PROVE Abstract!Next
  BY <1>2, <1>3 DEF Take, options
<1>4. CASE flush_input
  <2>1. "DQ_FIRST" \in DequeueHow
    BY DEF DequeueHow
  <2>. QED BY <1>2, <1>4, <2>1 DEF flush_input, options
<1>5. ASSUME UNCHANGED links, UNCHANGED total_input_length PROVE Lines' = Lines
  <2>1. PICK n, s, m, e : QueueIs(n, s, m, e)
    BY DEF Inv, QueueInv
  <2>2. PICK v \in Seq(AnyLine) :
          /\ v = Lines /\ Len(v) = n /\ n \in Nat
          /\ \A i \in 1..n : v[i] = [kind |-> kind[s[i]], length |-> length[s[i]]]
    BY <2>1, LinesNow DEF Inv
  <2>3. QueueIs(n, s, m, e)'
    BY <1>5, <2>1 DEF QueueIs, Queue, Runs, Links, links, Differ, Lengths
  <2>4. PICK w \in Seq(AnyLine) :
          /\ w = Lines' /\ Len(w) = n
          /\ \A i \in 1..n : w[i] = [kind |-> kind'[s[i]], length |-> length'[s[i]]]
    BY <2>3, NextLines DEF Inv
  <2>5. \A i \in 1..Len(w) : w[i] = v[i]
    BY <1>5, <2>2, <2>4 DEF links
  <2>6. w = v
    BY <2>2, <2>4, <2>5, SeqEqual
  <2>. QED BY <2>2, <2>4, <2>6
<1>6. Abstract!Nothing = Nothing
  BY DEF Nothing, Abstract!Nothing
<1>7. CASE StartFlush
  <2>1. Lines' = Lines
    BY <1>5, <1>7 DEF StartFlush
  <2>. QED BY <1>7, <2>1 DEF StartFlush, options, Abstract!specVars
<1>8. ASSUME NEW value \in BOOLEAN, set_disable_oob(value) PROVE Abstract!Next
  <2>1. Lines' = Lines
    BY <1>5, <1>8 DEF set_disable_oob
  <2>2. Abstract!Configure
    BY <1>6, <1>8, <2>1 DEF set_disable_oob, Abstract!Configure
  <2>. QED BY <2>2 DEF Abstract!Next
<1>9. CASE task_suspend_input
  <2>1. Lines' = Lines
    BY <1>5, <1>9 DEF task_suspend_input
  <2>2. Abstract!Configure
    BY <1>6, <1>9, <2>1 DEF task_suspend_input, options, Abstract!Configure
  <2>. QED BY <2>2 DEF Abstract!Next
<1>10. CASE free_task_queue
  <2>1. Lines' = Lines
    BY <1>5, <1>10 DEF free_task_queue
  <2>2. Abstract!Configure
    BY <1>6, <1>10, <2>1 DEF free_task_queue, Abstract!Configure
  <2>. QED BY <2>2 DEF Abstract!Next
<1>11. CASE UNCHANGED vars
  <2>1. UNCHANGED links /\ UNCHANGED total_input_length
    BY <1>11 DEF vars
  <2>2. Lines' = Lines
    BY <1>5, <2>1
  <2>. QED BY <1>11, <2>2 DEF vars, options, Abstract!specVars
<1>. QED BY <1>1, <1>3, <1>4, <1>7, <1>8, <1>9, <1>10, <1>11 DEF Next

LEMMA InitSimulates == Init => Abstract!Init
<1>. SUFFICES ASSUME Init PROVE Abstract!Init
  OBVIOUS
<1>1. PICK n, s, m, e : TypeOK /\ QueueIs(n, s, m, e)
  BY InitInv DEF Inv, QueueInv
<1>2. n \in Nat /\ Lines = View(n, s)
  BY <1>1, LinesAre DEF LinesViewed
<1>3. n = 0
  <2>1. allocated = {}
    BY DEF Init
  <2>2. 1..n = {}
    BY <1>1, <2>1 DEF QueueIs, Queue
  <2>. QED BY <1>2, <2>2
<1>4. Lines = <<>>
  BY <1>2, <1>3 DEF View
<1>. QED BY <1>4 DEF Init, Abstract!Init, Nothing, Abstract!Nothing

\* The two lists, with their slots and their runs, behave as a sequence of
\* lines from which the first wanted one is taken: the pointer code in
\* enqueue_input_task() and dequeue_input_task() implements InputQueueSpec.
THEOREM Refinement == Spec => RefinesSpec
<1>. QED BY SpecInv, Simulates, InitSimulates, PTL DEF Spec, RefinesSpec, Abstract!Spec
=============================================================================
