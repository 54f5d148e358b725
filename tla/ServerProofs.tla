---------------------------- MODULE ServerProofs ----------------------------
(***************************************************************************)
(* Proofs about the server: its queues, its connections and its tasks.     *)
(***************************************************************************)
EXTENDS Server, SumTheorems, FiniteSetTheorems, TLAPS

-----------------------------------------------------------------------------
(* Sequences                                                               *)

\* Two sequences, one after the other.
LEMMA ConcatIs ==
  ASSUME NEW X, NEW a \in Seq(X), NEW b \in Seq(X)
  PROVE  /\ a \o b \in Seq(X) /\ Len(a \o b) = Len(a) + Len(b)
         /\ \A j \in 1..Len(a) : (a \o b)[j] = a[j]
         /\ \A j \in 1..Len(b) : (a \o b)[j + Len(a)] = b[j]
OBVIOUS

\* What InsertAt and RemoveAt of the community modules return, element by
\* element.
InsertedAt(n, s, i, e) ==
  /\ Len(n) = Len(s) + 1
  /\ \A j \in 1..(Len(s) + 1) :
       n[j] = IF j < i THEN s[j] ELSE IF j = i THEN e ELSE s[j - 1]

LEMMA InsertAtIs ==
  ASSUME NEW X, NEW s \in Seq(X), NEW e \in X, NEW i \in 1..(Len(s) + 1)
  PROVE  /\ InsertAt(s, i, e) \in Seq(X)
         /\ Len(InsertAt(s, i, e)) = Len(s) + 1
         /\ \A j \in 1..(Len(s) + 1) : InsertAt(s, i, e)[j] =
              IF j < i THEN s[j] ELSE IF j = i THEN e ELSE s[j - 1]
<1>1. PICK a : a = SubSeq(s, 1, i - 1)
  OBVIOUS
<1>2. PICK b : b = SubSeq(s, i, Len(s))
  OBVIOUS
<1>3. /\ a \in Seq(X) /\ Len(a) = i - 1 /\ \A j \in 1..(i - 1) : a[j] = s[j]
      /\ b \in Seq(X) /\ Len(b) = Len(s) - i + 1
      /\ \A j \in 1..(Len(s) - i + 1) : b[j] = s[j + i - 1]
  BY <1>1, <1>2
<1>4. PICK c : c = a \o <<e>>
  OBVIOUS
<1>5. c \in Seq(X) /\ Len(c) = i /\ \A j \in 1..i : c[j] = IF j < i THEN s[j] ELSE e
  BY <1>3, <1>4
<1>6. PICK n : n = c \o b
  OBVIOUS
<1>7. InsertAt(s, i, e) = n
  BY <1>1, <1>2, <1>4, <1>6 DEF InsertAt
<1>8. n \in Seq(X) /\ Len(n) = Len(s) + 1
  BY <1>3, <1>5, <1>6
<1>9. ASSUME NEW j \in 1..(Len(s) + 1)
      PROVE  n[j] = IF j < i THEN s[j] ELSE IF j = i THEN e ELSE s[j - 1]
  <2>1. CASE j <= i
    BY <1>3, <1>5, <1>6, <2>1
  <2>2. CASE j > i
    <3>1. j - i \in 1..(Len(s) - i + 1) /\ (j - i) + i - 1 = j - 1 /\ (j - i) + i = j
      BY <2>2
    <3>2. n[j] = b[j - i]
      <4>1. c \in Seq(X) /\ Len(c) = i /\ b \in Seq(X) /\ Len(b) = Len(s) - i + 1
        BY <1>3, <1>5
      <4>2. \A k \in 1..Len(b) : n[k + Len(c)] = b[k]
        BY <1>6, <4>1, ConcatIs
      <4>. QED  BY <3>1, <4>1, <4>2
    <3>. QED  BY <1>3, <2>2, <3>1, <3>2
  <2>. QED  BY <2>1, <2>2
<1>. QED
  BY <1>7, <1>8, <1>9

LEMMA InsertAtHas ==
  ASSUME NEW X, NEW s \in Seq(X), NEW e \in X, NEW i \in 1..(Len(s) + 1)
  PROVE  InsertAt(s, i, e) \in Seq(X) /\ InsertedAt(InsertAt(s, i, e), s, i, e)
BY InsertAtIs DEF InsertedAt

\* What RemoveAt returns.
LEMMA RemoveAtIs ==
  ASSUME NEW X, NEW s \in Seq(X), NEW i \in 1..Len(s)
  PROVE  /\ RemoveAt(s, i) \in Seq(X)
         /\ Len(RemoveAt(s, i)) = Len(s) - 1
         /\ \A j \in 1..(Len(s) - 1) : RemoveAt(s, i)[j] = IF j < i THEN s[j] ELSE s[j + 1]
<1>1. PICK a : a = SubSeq(s, 1, i - 1)
  OBVIOUS
<1>2. PICK b : b = SubSeq(s, i + 1, Len(s))
  OBVIOUS
<1>3. a \in Seq(X) /\ Len(a) = i - 1 /\ \A j \in 1..(i - 1) : a[j] = s[j]
  BY <1>1
<1>4. b \in Seq(X) /\ Len(b) = Len(s) - i
  BY <1>2
<1>5. \A j \in 1..(Len(s) - i) : b[j] = s[j + i]
  BY <1>2
<1>6. PICK n : n = a \o b
  OBVIOUS
<1>7. RemoveAt(s, i) = n
  BY <1>1, <1>2, <1>6 DEF RemoveAt
<1>8. n \in Seq(X) /\ Len(n) = Len(s) - 1
  <2>1. n \in Seq(X) /\ Len(n) = Len(a) + Len(b)
    BY <1>3, <1>4, <1>6, ConcatIs
  <2>2. Len(s) \in Nat /\ i \in Nat
    OBVIOUS
  <2>. QED  BY <1>3, <1>4, <2>1, <2>2
<1>9. ASSUME NEW j \in 1..(Len(s) - 1)
      PROVE  n[j] = IF j < i THEN s[j] ELSE s[j + 1]
  <2>1. CASE j < i
    BY <1>3, <1>4, <1>6, <2>1
  <2>2. CASE j >= i
    <3>1. n[j] = b[j - (i - 1)]
      BY <1>3, <1>4, <1>6, <2>2
    <3>2. j - (i - 1) \in 1..(Len(s) - i) /\ (j - (i - 1)) + i = j + 1
      BY <2>2
    <3>. QED  BY <1>5, <2>2, <3>1, <3>2
  <2>. QED  BY <2>1, <2>2
<1>. QED
  BY <1>7, <1>8, <1>9

\* A sequence in which nothing is twice, as the lists of tasks are.
Inj(s) == \A i, j \in DOMAIN s : s[i] = s[j] => i = j

\* Insertion of something new keeps it so.
LEMMA InsertAtInj ==
  ASSUME NEW X, NEW s \in Seq(X), NEW e \in X, NEW i \in 1..(Len(s) + 1),
         NEW n, n = InsertAt(s, i, e)
  PROVE  /\ n \in Seq(X)
         /\ ToSet(n) = ToSet(s) \cup {e}
         /\ Inj(s) /\ e \notin ToSet(s) => Inj(n)
<1>0. /\ n \in Seq(X) /\ Len(n) = Len(s) + 1
      /\ \A j \in 1..(Len(s) + 1) : n[j] =
              IF j < i THEN s[j] ELSE IF j = i THEN e ELSE s[j - 1]
  <2>1. InsertAt(s, i, e) \in Seq(X) /\ InsertedAt(InsertAt(s, i, e), s, i, e)
    BY InsertAtHas
  <2>2. n \in Seq(X) /\ InsertedAt(n, s, i, e)
    BY <2>1
  <2>. QED  BY <2>2 DEF InsertedAt
<1>1. /\ n \in Seq(X) /\ Len(n) = Len(s) + 1 /\ DOMAIN n = 1..(Len(s) + 1)
      /\ \A j \in 1..(Len(s) + 1) : n[j] =
              IF j < i THEN s[j] ELSE IF j = i THEN e ELSE s[j - 1]
  BY <1>0
<1>2. DOMAIN s = 1..Len(s) /\ Len(s) \in Nat
  OBVIOUS
<1>3. n[i] = e /\ i \in DOMAIN n
  BY <1>1, <1>2
<1>4. ASSUME NEW j \in DOMAIN s PROVE \E k \in DOMAIN n : n[k] = s[j]
  <2>1. CASE j < i
    BY <1>1, <1>2, <2>1
  <2>2. CASE ~(j < i)
    <3>1. j + 1 \in DOMAIN n /\ n[j + 1] = s[j]
      BY <1>1, <1>2, <2>2
    <3>. QED  BY <3>1
  <2>. QED  BY <2>1, <2>2
<1>5. ASSUME NEW k \in DOMAIN n PROVE n[k] = e \/ \E j \in DOMAIN s : n[k] = s[j]
  <2>1. CASE k <= i
    BY <1>1, <1>2, <2>1
  <2>2. CASE k > i
    <3>1. k - 1 \in DOMAIN s /\ n[k] = s[k - 1]
      BY <1>1, <1>2, <2>2
    <3>. QED  BY <3>1
  <2>. QED  BY <1>1, <2>1, <2>2
<1>6. ToSet(n) = ToSet(s) \cup {e}
  BY <1>3, <1>4, <1>5 DEF ToSet
<1>7. ASSUME Inj(s), e \notin ToSet(s) PROVE Inj(n)
  <2>1. \A j \in DOMAIN s : s[j] # e
    BY <1>7 DEF ToSet
  <2>2. \A j \in DOMAIN n : n[j] = e => j = i
    <3>. SUFFICES ASSUME NEW j \in DOMAIN n, j # i PROVE n[j] # e
      OBVIOUS
    <3>1. CASE j < i
      BY <1>1, <1>2, <2>1, <3>1
    <3>2. CASE j > i
      <4>1. n[j] = s[j - 1] /\ j - 1 \in DOMAIN s
        BY <1>1, <1>2, <3>2
      <4>. QED  BY <2>1, <4>1
    <3>. QED  BY <1>1, <3>1, <3>2
  <2>3. PICK at : at = [j \in DOMAIN n |-> IF j < i THEN j ELSE j - 1]
    OBVIOUS
  <2>4. \A j \in DOMAIN n : j # i => at[j] \in DOMAIN s /\ n[j] = s[at[j]]
    BY <1>1, <1>2, <2>3
  <2>5. \A j, k \in DOMAIN n : j # i /\ k # i /\ at[j] = at[k] => j = k
    BY <1>1, <1>2, <2>3
  <2>. QED
    BY <1>3, <1>7, <2>2, <2>4, <2>5 DEF Inj
<1>. QED
  BY <1>1, <1>6, <1>7

\* Removal.
LEMMA RemoveAtInj ==
  ASSUME NEW X, NEW s \in Seq(X), NEW i \in DOMAIN s, Inj(s), NEW n, n = RemoveAt(s, i)
  PROVE  n \in Seq(X) /\ Inj(n) /\ ToSet(n) = ToSet(s) \ {s[i]} /\ Len(n) = Len(s) - 1
<1>1. DOMAIN s = 1..Len(s) /\ Len(s) \in Nat /\ i \in 1..Len(s)
  OBVIOUS
<1>0. /\ n \in Seq(X) /\ Len(n) = Len(s) - 1
      /\ \A j \in 1..(Len(s) - 1) : n[j] = IF j < i THEN s[j] ELSE s[j + 1]
  BY <1>1, RemoveAtIs
<1>2. /\ n \in Seq(X) /\ Len(n) = Len(s) - 1 /\ DOMAIN n = 1..(Len(s) - 1)
      /\ \A j \in 1..(Len(s) - 1) : n[j] = IF j < i THEN s[j] ELSE s[j + 1]
  BY <1>0
<1>3. Inj(n)
  <2>1. PICK at : at = [j \in DOMAIN n |-> IF j < i THEN j ELSE j + 1]
    OBVIOUS
  <2>2. \A j \in DOMAIN n : at[j] \in DOMAIN s /\ n[j] = s[at[j]]
    BY <1>1, <1>2, <2>1
  <2>3. \A j, k \in DOMAIN n : at[j] = at[k] => j = k
    BY <1>1, <1>2, <2>1
  <2>. QED  BY <2>2, <2>3 DEF Inj
<1>4. ASSUME NEW j \in DOMAIN s, j # i PROVE \E k \in DOMAIN n : n[k] = s[j]
  <2>1. CASE j < i
    BY <1>1, <1>2, <2>1
  <2>2. CASE j > i
    <3>1. j - 1 \in DOMAIN n /\ n[j - 1] = s[j]
      BY <1>1, <1>2, <2>2
    <3>. QED  BY <3>1
  <2>. QED  BY <1>1, <1>4, <2>1, <2>2
<1>5. ASSUME NEW k \in DOMAIN n PROVE \E j \in DOMAIN s : j # i /\ n[k] = s[j]
  BY <1>1, <1>2
<1>6. \A j \in DOMAIN s : s[j] = s[i] => j = i
  BY DEF Inj
<1>7. ToSet(n) = ToSet(s) \ {s[i]}
  BY <1>4, <1>5, <1>6 DEF ToSet
<1>. QED
  BY <1>2, <1>3, <1>7

\* Taking the first off.
LEMMA TailInj ==
  ASSUME NEW X, NEW s \in Seq(X), s # <<>>, Inj(s)
  PROVE  /\ Tail(s) \in Seq(X) /\ Inj(Tail(s)) /\ ToSet(Tail(s)) = ToSet(s) \ {Head(s)}
         /\ Head(s) \in ToSet(s) /\ Len(Tail(s)) = Len(s) - 1
<1>1. PICK n : n = Tail(s)
  OBVIOUS
<1>2. /\ n \in Seq(X) /\ Len(n) = Len(s) - 1 /\ DOMAIN n = 1..(Len(s) - 1)
      /\ \A j \in 1..(Len(s) - 1) : n[j] = s[j + 1]
      /\ DOMAIN s = 1..Len(s) /\ Len(s) \in Nat /\ Len(s) > 0 /\ Head(s) = s[1]
  BY <1>1
<1>3. Inj(n)
  BY <1>2 DEF Inj
<1>4. ASSUME NEW j \in DOMAIN s, j # 1 PROVE \E k \in DOMAIN n : n[k] = s[j]
  <2>1. j - 1 \in DOMAIN n /\ n[j - 1] = s[j]
    BY <1>2, <1>4
  <2>. QED  BY <2>1
<1>5. ASSUME NEW k \in DOMAIN n PROVE \E j \in DOMAIN s : j # 1 /\ n[k] = s[j]
  BY <1>2
<1>6. 1 \in DOMAIN s /\ \A j \in DOMAIN s : s[j] = s[1] => j = 1
  BY <1>2 DEF Inj
<1>7. ToSet(n) = ToSet(s) \ {s[1]} /\ s[1] \in ToSet(s)
  BY <1>4, <1>5, <1>6 DEF ToSet
<1>. QED
  BY <1>1, <1>2, <1>3, <1>7

\* One more at the end.
LEMMA AppendInj ==
  ASSUME NEW X, NEW s \in Seq(X), Inj(s), NEW e \in X, e \notin ToSet(s)
  PROVE  /\ Append(s, e) \in Seq(X) /\ Inj(Append(s, e))
         /\ ToSet(Append(s, e)) = ToSet(s) \cup {e} /\ Len(Append(s, e)) = Len(s) + 1
<1>1. PICK n : n = Append(s, e)
  OBVIOUS
<1>2. /\ n \in Seq(X) /\ Len(n) = Len(s) + 1 /\ DOMAIN n = 1..(Len(s) + 1)
      /\ \A j \in 1..Len(s) : n[j] = s[j]
      /\ n[Len(s) + 1] = e
      /\ DOMAIN s = 1..Len(s) /\ Len(s) \in Nat
  BY <1>1
<1>3. \A j \in DOMAIN s : s[j] # e
  BY DEF ToSet
<1>4. Inj(n)
  BY <1>2, <1>3 DEF Inj
<1>5. ASSUME NEW j \in DOMAIN s PROVE \E k \in DOMAIN n : n[k] = s[j]
  BY <1>2
<1>6. ASSUME NEW k \in DOMAIN n PROVE n[k] = e \/ \E j \in DOMAIN s : n[k] = s[j]
  BY <1>2
<1>7. ToSet(n) = ToSet(s) \cup {e}
  <2>1. \E k \in DOMAIN n : n[k] = e
    BY <1>2
  <2>. QED  BY <1>5, <1>6, <2>1 DEF ToSet
<1>. QED
  BY <1>1, <1>2, <1>4, <1>7

-----------------------------------------------------------------------------
(* Queues                                                                  *)

Queue == [player : Owner \cup {NOTHING, None}, connected : BOOLEAN,
          input : Seq(Line \cup {Blank}), hold_input : BOOLEAN,
          disable_oob : BOOLEAN, reading : TaskId \cup {None},
          bg : Seq(TaskId), num_bg_tasks : Int, usage : Int]

Scheds == [queue : [Slot -> Queue], active : Seq(Slot)]

\* Queue q is the same in S and T but for its usage and its options.
Same(S, T, q) ==
  /\ T.queue[q].player = S.queue[q].player
  /\ T.queue[q].connected = S.queue[q].connected
  /\ T.queue[q].input = S.queue[q].input
  /\ T.queue[q].reading = S.queue[q].reading
  /\ T.queue[q].bg = S.queue[q].bg
  /\ T.queue[q].num_bg_tasks = S.queue[q].num_bg_tasks

\* Queue q may have become active in T, and the first has stayed the first.
Joined(S, T, q) ==
  /\ T.active = S.active \/ ToSet(T.active) = ToSet(S.active) \cup {q}
  /\ S.active # <<>> => T.active # <<>> /\ Head(T.active) = Head(S.active)

\* The active queues are in the order of their usage, none is twice among
\* them, and they are the ones that have a usage.
Sorted(S) ==
  /\ Inj(S.active)
  /\ \A i, j \in DOMAIN S.active :
       i < j => S.queue[S.active[i]].usage <= S.queue[S.active[j]].usage

Counted(S) ==
  \A q \in Slot :
    /\ S.queue[q].usage >= NO_USAGE
    /\ S.queue[q].usage # NO_USAGE <=> q \in ToSet(S.active)

\* The place that activate_tqueue() and enqueue_waiting() find in a list.
UpTo(n, f, u) == {i \in 1..n : f[i] <= u}

IsFront(B, n, f, u) ==
  /\ Cardinality(B) \in 0..n
  /\ n # 0 /\ f[1] <= u => Cardinality(B) >= 1
  /\ (\A i, j \in 1..n : i < j => f[i] <= f[j]) => B = 1..Cardinality(B)

LEMMA Behind ==
  ASSUME NEW n \in Nat, NEW f \in [1..n -> Int], NEW u \in Int
  PROVE  IsFront(UpTo(n, f, u), n, f, u)
<1>0. PICK B : B = {i \in 1..n : f[i] <= u} /\ B = UpTo(n, f, u)
  BY DEF UpTo
<1>1. IsFiniteSet(1..n) /\ Cardinality(1..n) = n
  BY FS_Interval
<1>2. B \in SUBSET (1..n)
  BY <1>0
<1>3. IsFiniteSet(B) /\ Cardinality(B) <= n /\ Cardinality(B) \in Nat
  <2>1. IsFiniteSet(B) /\ Cardinality(B) <= Cardinality(1..n)
    BY <1>1, <1>2, FS_Subset
  <2>2. Cardinality(B) \in Nat
    BY <2>1, FS_CardinalityType
  <2>. QED  BY <1>1, <2>1, <2>2
<1>4. ASSUME n # 0, f[1] <= u PROVE Cardinality(B) >= 1
  <2>1. 1 \in B
    BY <1>0, <1>4
  <2>2. Cardinality(B) # 0
    BY <1>3, <2>1, FS_EmptySet
  <2>. QED  BY <1>3, <2>2
<1>5. ASSUME \A i, j \in 1..n : i < j => f[i] <= f[j] PROVE B = 1..Cardinality(B)
  <2>1. PICK A : A = {i \in 1..n : f[i] > u}
    OBVIOUS
  <2>2. CASE A = {}
    <3>1. B = 1..n
      BY <1>0, <2>1, <2>2
    <3>. QED  BY <1>1, <3>1
  <2>3. CASE A # {}
    <3>1. A \subseteq Nat
      BY <2>1
    <3>2. PICK m \in A : \A y \in A : m <= y
      BY <2>3, <3>1, LeastElement
    <3>3. m \in 1..n /\ f[m] > u
      BY <2>1
    <3>4. \A i \in 1..n : i < m <=> f[i] <= u
      BY <1>5, <2>1, <3>2, <3>3
    <3>5. B = 1..(m - 1)
      BY <1>0, <3>3, <3>4
    <3>6. Cardinality(1..(m - 1)) = m - 1
      BY <3>3, FS_Interval
    <3>. QED  BY <3>5, <3>6
  <2>. QED  BY <2>2, <2>3
<1>6. IsFront(B, n, f, u)
  <2>1. Cardinality(B) \in 0..n
    BY <1>3
  <2>. QED  BY <1>4, <1>5, <2>1 DEF IsFront
<1>. QED
  BY <1>0, <1>6

Ascends(s, key) == \A i, j \in DOMAIN s : i < j => key[s[i]] <= key[s[j]]

\* Insertion behind all that have the same key or a smaller one.
LEMMA InsertBehind ==
  ASSUME NEW X, NEW s \in Seq(X), NEW e \in X, NEW key \in [X -> Int],
         NEW n, n = Cardinality({i \in DOMAIN s : key[s[i]] <= key[e]}),
         NEW a, a = InsertAt(s, n + 1, e)
  PROVE  /\ n + 1 \in 1..(Len(s) + 1)
         /\ s # <<>> /\ key[Head(s)] <= key[e] => a # <<>> /\ Head(a) = Head(s)
         /\ Ascends(s, key) => Ascends(a, key)
<1>1. DOMAIN s = 1..Len(s) /\ Len(s) \in Nat /\ \A i \in 1..Len(s) : s[i] \in X
  OBVIOUS
<1>2. PICK f : f = [i \in 1..Len(s) |-> key[s[i]]]
  OBVIOUS
<1>3. \A i \in 1..Len(s) : f[i] = key[s[i]] /\ f[i] \in Int
  BY <1>1, <1>2
<1>4. PICK u, m : u = key[e] /\ m = Len(s)
  OBVIOUS
<1>5. u \in Int /\ m \in Nat
  BY <1>1, <1>4
<1>6. PICK B : B = {i \in 1..m : f[i] <= u} /\ B = UpTo(m, f, u)
  BY DEF UpTo
<1>7. n = Cardinality(B)
  <2>1. B = {i \in DOMAIN s : key[s[i]] <= key[e]}
    BY <1>1, <1>3, <1>4, <1>6
  <2>. QED  BY <2>1
<1>8. /\ n \in 0..m
      /\ m # 0 /\ f[1] <= u => n >= 1
      /\ (\A i, j \in 1..m : i < j => f[i] <= f[j]) => B = 1..n
  <2>1. f \in [1..m -> Int]
    BY <1>2, <1>3, <1>4
  <2>2. IsFront(UpTo(m, f, u), m, f, u)
    BY <1>5, <2>1, Behind
  <2>3. IsFront(B, m, f, u)
    BY <1>6, <2>2
  <2>. QED  BY <1>7, <2>3 DEF IsFront
<1>9. PICK k : k = n + 1
  OBVIOUS
<1>10. k \in 1..(Len(s) + 1)
  BY <1>4, <1>5, <1>8, <1>9
<1>11. /\ a \in Seq(X) /\ Len(a) = Len(s) + 1
       /\ \A j \in 1..(Len(s) + 1) : a[j] =
            IF j < k THEN s[j] ELSE IF j = k THEN e ELSE s[j - 1]
  <2>1. a = InsertAt(s, k, e)
    BY <1>9
  <2>2. InsertAt(s, k, e) \in Seq(X) /\ InsertedAt(InsertAt(s, k, e), s, k, e)
    BY <1>10, InsertAtHas
  <2>. QED  BY <2>1, <2>2 DEF InsertedAt
<1>12. ASSUME s # <<>>, key[Head(s)] <= key[e] PROVE a # <<>> /\ Head(a) = Head(s)
  <2>1. m # 0 /\ f[1] <= u
    BY <1>1, <1>3, <1>4, <1>12
  <2>2. k > 1
    BY <1>8, <1>9, <2>1
  <2>3. 1 \in 1..(Len(s) + 1) /\ 1 < k
    BY <1>1, <2>2
  <2>4. a[1] = s[1]
    BY <1>11, <2>3, Zenon
  <2>. QED  BY <1>1, <1>11, <1>12, <2>4
<1>13. ASSUME Ascends(s, key) PROVE Ascends(a, key)
  <2>1. \A i, j \in 1..m : i < j => f[i] <= f[j]
    BY <1>1, <1>3, <1>4, <1>13 DEF Ascends
  <2>2. \A i \in 1..m : i < k <=> f[i] <= u
    <3>1. B = 1..n
      BY <1>8, <2>1
    <3>2. \A i \in 1..m : i \in B <=> f[i] <= u
      BY <1>6
    <3>3. \A i \in 1..m : i \in 1..n <=> i < k
      BY <1>5, <1>8, <1>9
    <3>. QED  BY <3>1, <3>2, <3>3, Zenon
  <2>3. DOMAIN a = 1..(m + 1)
    BY <1>4, <1>11
  <2>4. PICK g : g = [i \in 1..(m + 1) |-> key[a[i]]]
    OBVIOUS
  <2>5. ASSUME NEW j \in 1..(m + 1)
        PROVE  g[j] = IF j < k THEN f[j] ELSE IF j = k THEN u ELSE f[j - 1]
    <3>1. CASE j < k
      <4>1. j \in 1..Len(s) /\ j \in 1..(Len(s) + 1)
        BY <1>4, <1>10, <3>1
      <4>2. a[j] = s[j]
        BY <1>11, <3>1, <4>1, Zenon
      <4>. QED  BY <1>3, <2>4, <3>1, <4>1, <4>2
    <3>2. CASE j = k
      <4>1. a[j] = e
        BY <1>4, <1>10, <1>11, <3>2
      <4>. QED  BY <1>4, <2>4, <3>2, <4>1
    <3>3. CASE j > k
      <4>1. j - 1 \in 1..Len(s) /\ ~(j < k) /\ j # k /\ j \in 1..(Len(s) + 1)
        BY <1>4, <1>10, <3>3
      <4>2. a[j] = s[j - 1]
        BY <1>11, <4>1, Zenon
      <4>3. g[j] = key[a[j]] /\ f[j - 1] = key[s[j - 1]]
        BY <1>3, <2>4, <4>1, Zenon
      <4>. QED  BY <4>1, <4>2, <4>3, Zenon
    <3>. QED  BY <1>8, <1>9, <3>1, <3>2, <3>3
  <2>6. ASSUME NEW i \in 1..(m + 1), NEW j \in 1..(m + 1), i < j PROVE g[i] <= g[j]
    <3>0. k \in 1..(m + 1) /\ m \in Nat /\ \A l \in 1..m : f[l] \in Int
      BY <1>3, <1>4, <1>5, <1>10
    <3>1. CASE j < k
      BY <2>1, <2>5, <2>6, <3>0, <3>1
    <3>2. CASE j = k
      BY <2>2, <2>5, <2>6, <3>0, <3>2
    <3>3. CASE j > k
      <4>1. j - 1 \in 1..m /\ ~(j - 1 < k) /\ g[j] = f[j - 1]
        BY <2>5, <3>0, <3>3
      <4>2. CASE i < k
        BY <2>1, <2>5, <2>6, <3>0, <4>1, <4>2
      <4>3. CASE i = k
        BY <1>5, <2>2, <2>5, <3>0, <4>1, <4>3
      <4>4. CASE i > k
        <5>1. i - 1 \in 1..m /\ i - 1 < j - 1 /\ g[i] = f[i - 1]
          BY <2>5, <2>6, <3>0, <4>4
        <5>. QED  BY <2>1, <4>1, <5>1
      <4>. QED  BY <3>0, <4>2, <4>3, <4>4
    <3>. QED  BY <3>0, <3>1, <3>2, <3>3
  <2>. QED  BY <2>3, <2>4, <2>6 DEF Ascends
<1>. QED
  BY <1>9, <1>10, <1>12, <1>13

\* activate_tqueue() only moves the queue to the list of active queues.
LEMMA Activate ==
  ASSUME NEW S \in Scheds, NEW q \in Slot, NEW T, T = activate_tqueue(S, q)
  PROVE  /\ T \in Scheds /\ T.queue = S.queue
         /\ ToSet(T.active) = ToSet(S.active) \cup {q}
         /\ S.active # <<>> /\ S.queue[q].usage = S.queue[Head(S.active)].usage
              => T.active # <<>> /\ Head(T.active) = Head(S.active)
         /\ Sorted(S) /\ q \notin ToSet(S.active) => Sorted(T)
<1>1. S.queue \in [Slot -> Queue] /\ S.active \in Seq(Slot)
  BY DEF Scheds
<1>2. PICK key, s : key = [r \in Slot |-> S.queue[r].usage] /\ s = S.active
  OBVIOUS
<1>3. key \in [Slot -> Int] /\ s \in Seq(Slot) /\ \A r \in Slot : key[r] = S.queue[r].usage
  BY <1>1, <1>2 DEF Queue
<1>4. \A i \in DOMAIN s : s[i] \in Slot
  BY <1>3
<1>5. PICK n : n = Cardinality({i \in DOMAIN s : key[s[i]] <= key[q]})
  OBVIOUS
<1>6. PICK a : a = InsertAt(s, n + 1, q)
  OBVIOUS
<1>7. T = [S EXCEPT !.active = a]
  <2>1. {i \in DOMAIN s : key[s[i]] <= key[q]}
          = {i \in DOMAIN S.active : S.queue[S.active[i]].usage <= S.queue[q].usage}
    BY <1>2, <1>3, <1>4
  <2>. QED  BY <1>2, <1>5, <1>6, <2>1 DEF activate_tqueue
<1>8. /\ n + 1 \in 1..(Len(s) + 1)
      /\ s # <<>> /\ key[Head(s)] <= key[q] => a # <<>> /\ Head(a) = Head(s)
      /\ Ascends(s, key) => Ascends(a, key)
  BY <1>3, <1>5, <1>6, InsertBehind
<1>9. /\ a \in Seq(Slot) /\ ToSet(a) = ToSet(s) \cup {q}
      /\ Inj(s) /\ q \notin ToSet(s) => Inj(a)
  BY <1>3, <1>6, <1>8, InsertAtInj
<1>10. T \in Scheds /\ T.queue = S.queue /\ T.active = a
  BY <1>1, <1>7, <1>9 DEF Scheds
<1>11. s # <<>> => Head(s) \in Slot
  BY <1>3
<1>12. ASSUME S.active # <<>>, S.queue[q].usage = S.queue[Head(S.active)].usage
       PROVE  T.active # <<>> /\ Head(T.active) = Head(S.active)
  <2>1. key[Head(s)] <= key[q]
    BY <1>2, <1>3, <1>11, <1>12
  <2>. QED  BY <1>2, <1>8, <1>10, <1>12, <2>1
<1>13. ASSUME Sorted(S), q \notin ToSet(S.active) PROVE Sorted(T)
  <2>1. Ascends(s, key) /\ Inj(s)
    BY <1>2, <1>3, <1>4, <1>13 DEF Sorted, Ascends
  <2>2. Ascends(a, key) /\ Inj(a)
    BY <1>2, <1>8, <1>9, <1>13, <2>1
  <2>3. \A i \in DOMAIN a : a[i] \in Slot
    BY <1>9
  <2>. QED  BY <1>3, <1>10, <2>2, <2>3 DEF Sorted, Ascends
<1>. QED
  BY <1>2, <1>9, <1>10, <1>12, <1>13

\* ensure_usage() may change the usage of the queue, and make it active.
LEMMA Ensure ==
  ASSUME NEW S \in Scheds, NEW q \in Slot, NEW T, T = ensure_usage(S, q)
  PROVE  /\ T \in Scheds /\ Joined(S, T, q) /\ \A r \in Slot : Same(S, T, r)
         /\ \A r \in Slot : r # q => T.queue[r] = S.queue[r]
         /\ Sorted(S) /\ Counted(S) => Sorted(T) /\ Counted(T) /\ q \in ToSet(T.active)
<1>1. CASE S.queue[q].usage # NO_USAGE
  <2>1. T = S
    BY <1>1 DEF ensure_usage
  <2>. QED  BY <1>1, <2>1 DEF Joined, Same, Counted
<1>2. CASE S.queue[q].usage = NO_USAGE
  <2>1. PICK u : u = IF S.active = <<>> THEN 0 ELSE S.queue[Head(S.active)].usage
    OBVIOUS
  <2>2. S.queue \in [Slot -> Queue] /\ S.active \in Seq(Slot) /\ S.queue[q] \in Queue
    BY DEF Scheds
  <2>3. u \in Int
    <3>1. S.active # <<>> => S.queue[Head(S.active)] \in Queue
      BY <2>2
    <3>. QED  BY <2>1, <3>1 DEF Queue
  <2>4. PICK U : U = [S EXCEPT !.queue[q].usage = u]
    OBVIOUS
  <2>5. U \in Scheds /\ U.active = S.active /\ U.queue = [S.queue EXCEPT ![q].usage = u]
    BY <2>2, <2>3, <2>4 DEF Scheds, Queue
  <2>6. T = activate_tqueue(U, q)
    BY <1>2, <2>1, <2>4 DEF ensure_usage
  <2>7. U.queue[q].usage = u
    BY <2>2, <2>5 DEF Queue
  <2>8. S.active # <<>> => U.queue[Head(U.active)].usage = u
    <3>. SUFFICES ASSUME S.active # <<>> PROVE U.queue[Head(S.active)].usage = u
      BY <2>5
    <3>1. PICK h \in Slot : h = Head(S.active)
      BY <2>2
    <3>2. S.queue[h].usage = u
      BY <2>1, <3>1
    <3>3. CASE h = q
      BY <2>7, <3>1, <3>3
    <3>4. CASE h # q
      BY <2>2, <2>5, <3>1, <3>2, <3>4
    <3>. QED  BY <3>3, <3>4
  <2>12. U \in Scheds /\ U.active = S.active
    BY <2>5
  <2>13. /\ T \in Scheds /\ T.queue = U.queue
         /\ ToSet(T.active) = ToSet(U.active) \cup {q}
         /\ U.active # <<>> /\ U.queue[q].usage = U.queue[Head(U.active)].usage
              => T.active # <<>> /\ Head(T.active) = Head(U.active)
         /\ Sorted(U) /\ q \notin ToSet(U.active) => Sorted(T)
    BY <2>6, <2>12, Activate, Zenon
  <2>9. T \in Scheds /\ T.queue = U.queue /\ ToSet(T.active) = ToSet(S.active) \cup {q}
    BY <2>12, <2>13
  <2>10. S.active # <<>> => T.active # <<>> /\ Head(T.active) = Head(S.active)
    BY <2>7, <2>8, <2>12, <2>13
  <2>11. ASSUME NEW r \in Slot PROVE Same(S, T, r)
    BY <2>2, <2>5, <2>9 DEF Queue, Same
  <2>14. ASSUME Sorted(S), Counted(S)
         PROVE  Sorted(T) /\ Counted(T) /\ q \in ToSet(T.active)
    <3>1. q \notin ToSet(U.active) /\ q \in ToSet(T.active)
      BY <1>2, <2>9, <2>12, <2>14 DEF Counted
    <3>2. \A i \in DOMAIN S.active : S.active[i] \in Slot /\ S.active[i] # q
      BY <2>2, <2>12, <3>1 DEF ToSet
    <3>3. \A r \in Slot : r # q => U.queue[r] = S.queue[r]
      BY <2>2, <2>5
    <3>4. Sorted(U)
      BY <2>12, <2>14, <3>2, <3>3 DEF Sorted
    <3>5. u >= 0
      <4>1. CASE S.active = <<>>
        BY <2>1, <4>1
      <4>2. CASE S.active # <<>>
        <5>1. Head(S.active) \in Slot /\ Head(S.active) \in ToSet(S.active)
          BY <2>2, <4>2 DEF ToSet
        <5>2. u >= NO_USAGE /\ u # NO_USAGE
          BY <2>1, <2>14, <4>2, <5>1 DEF Counted
        <5>. QED  BY <2>3, <5>2 DEF NO_USAGE
      <4>. QED  BY <4>1, <4>2
    <3>6. Counted(T)
      <4>. SUFFICES ASSUME NEW r \in Slot
                    PROVE  /\ T.queue[r].usage >= NO_USAGE
                           /\ T.queue[r].usage # NO_USAGE <=> r \in ToSet(T.active)
        BY DEF Counted
      <4>1. CASE r = q
        BY <2>7, <2>13, <3>1, <3>5, <4>1, <2>3 DEF NO_USAGE
      <4>2. CASE r # q
        BY <2>9, <2>14, <3>3, <4>2 DEF Counted
      <4>. QED  BY <4>1, <4>2
    <3>. QED  BY <2>13, <3>1, <3>4, <3>6
  <2>15. \A r \in Slot : r # q => T.queue[r] = S.queue[r]
    BY <2>2, <2>5, <2>9
  <2>. QED  BY <2>9, <2>10, <2>11, <2>14, <2>15 DEF Joined
<1>. QED  BY <1>1, <1>2

-----------------------------------------------------------------------------
(* The inductive invariant                                                 *)

\* No number has two queues; a queue that is not in use is empty.
OneEach(S) ==
  \A q, r \in Slot : S.queue[q].player = S.queue[r].player
                     /\ S.queue[q].player \in Owner => q = r

FreeIsEmpty(S) == \A q \in Slot : S.queue[q].player = None => S.queue[q] = FreeSlot

\* A task that reads from a queue that has lines, or whose connection is
\* closed, will be resumed, since the queue is active.
ReadersActive(S) ==
  \A q \in Slot :
    S.queue[q].reading # None /\ (~S.queue[q].connected \/ S.queue[q].input # <<>>)
      => q \in ToSet(S.active)

QInv(S) ==
  /\ S \in Scheds /\ Sorted(S) /\ Counted(S)
  /\ OneEach(S) /\ FreeIsEmpty(S) /\ ReadersActive(S)

Handle == [state : {"unused", "open", "gone"}, player : Owner \cup {None},
           tasks : Slot \cup {NoQueue}, logged_in : BOOLEAN,
           disconnect_me : BOOLEAN, outbound : BOOLEAN, booted : BOOLEAN]

IsOpen(h, c) == c \in Conn /\ h[c].state = "open"

\* Open connections and connected queues are paired, and have the same player,
\* who is the connection itself until it has logged in.
HInv(S, h) ==
  /\ h \in [Conn -> Handle]
  /\ \A c \in Conn : IsOpen(h, c) =>
       /\ h[c].tasks \in Slot
       /\ S.queue[h[c].tasks].connected
       /\ S.queue[h[c].tasks].player = h[c].player
       /\ h[c].player \in Player \cup {c}
  /\ \A c, d \in Conn : IsOpen(h, c) /\ IsOpen(h, d) /\ h[c].tasks = h[d].tasks => c = d
  /\ \A q \in Slot : S.queue[q].connected => \E c \in Conn : IsOpen(h, c) /\ h[c].tasks = q

\* The server still has the connections it is to go on with, and a login is of
\* the queue at the head of the active ones, which is not a player's yet.
PInv(S, h, p) ==
  /\ p \in [at : Place, conn : Conn \cup {None}, todo : SUBSET Conn]
  /\ p.at \in {"closing", "leaving", "redirecting"} => IsOpen(h, p.conn)
  /\ \A c \in p.todo : IsOpen(h, c)
  /\ p.at = "leaving" => p.conn \notin p.todo
  /\ p.at \in RunningPlace => S.active # <<>>
  /\ p.at = "login" => S.queue[Head(S.active)].player \notin Player

TaskRecord == [kind : {"TASK_FORKED", "TASK_SUSPENDED", None},
               progr : Owner \cup {None}, delay : Nat]

\* The places a task can be in.
Gone0    == <<"gone", 0>>
Running  == <<"running", 0>>
Waiting  == <<"waiting", 0>>
Reads(q) == <<"reading", q>>
Ready(q) == <<"ready", q>>

\* Function at tells where each task is, and there is no task elsewhere.
Where(at, S, w, tk, cur) ==
  /\ \A t \in TaskId :
       /\ at[t] = Gone0 <=> tk[t].kind = None
       /\ at[t] = Running <=> cur = t
       /\ at[t] = Waiting <=> t \in ToSet(w)
  /\ \A t \in TaskId, q \in Slot :
       /\ at[t] = Reads(q) <=> S.queue[q].reading = t
       /\ at[t] = Ready(q) <=> t \in ToSet(S.queue[q].bg)
  /\ \A t \in TaskId : at[t] \in {Gone0, Running, Waiting}
                       \/ \E q \in Slot : at[t] = Reads(q) \/ at[t] = Ready(q)

TInv(S, w, tk, cur) ==
  /\ tk \in [TaskId -> TaskRecord] /\ cur \in TaskId \cup {None}
  /\ w \in Seq(TaskId) /\ Inj(w)
  /\ \A q \in Slot : Inj(S.queue[q].bg)
  /\ \A t \in TaskId : tk[t].kind # None => tk[t].progr \in Owner
  /\ \E at : Where(at, S, w, tk, cur)

Waits(w, tk, o) == {t \in ToSet(w) : tk[t].progr = o}

\* The tasks of a queue are counted and are its player's, every waiting task
\* is counted in some queue, and no more are counted than are allowed.
BInv(S, w, tk) ==
  /\ \A q \in Slot : S.queue[q].player # None =>
       S.queue[q].num_bg_tasks
         = Len(S.queue[q].bg) + Cardinality(Waits(w, tk, S.queue[q].player))
  /\ \A t \in ToSet(w) : \E q \in Slot : S.queue[q].player = tk[t].progr
  /\ \A q \in Slot : \A t \in ToSet(S.queue[q].bg) : tk[t].progr = S.queue[q].player
  /\ \A q \in Slot : S.queue[q].num_bg_tasks <= queued_task_limit

All(S, h, p, w, tk, cur) ==
  QInv(S) /\ HInv(S, h) /\ PInv(S, h, p) /\ TInv(S, w, tk, cur) /\ BInv(S, w, tk)

IInv == All(Sched, shandle, pc, waiting, task, current) /\ users \subseteq Player

-----------------------------------------------------------------------------
(* What the steps on queues keep                                           *)

\* The queues after a step are the ones that Becomes() gives.
LEMMA SchedIs ==
  ASSUME NEW T \in Scheds, Becomes(T)
  PROVE  Sched' = T
BY DEF Becomes, Sched, Scheds

LEMMA SchedSame ==
  ASSUME UNCHANGED <<queue, active>>
  PROVE  Sched' = Sched
BY DEF Sched

\* The types of what the invariant speaks of.
LEMMA SchedTypes ==
  ASSUME NEW S \in Scheds
  PROVE  /\ S.queue \in [Slot -> Queue] /\ S.active \in Seq(Slot)
         /\ S = [queue |-> S.queue, active |-> S.active]
         /\ \A q \in Slot :
              /\ S.queue[q] \in Queue
              /\ S.queue[q].player \in Owner \cup {NOTHING, None}
              /\ S.queue[q].connected \in BOOLEAN
              /\ S.queue[q].input \in Seq(Line \cup {Blank})
              /\ S.queue[q].reading \in TaskId \cup {None}
              /\ S.queue[q].bg \in Seq(TaskId)
              /\ S.queue[q].num_bg_tasks \in Int
              /\ S.queue[q].usage \in Int
BY DEF Scheds, Queue

\* The active queues are in use.
LEMMA ActiveInUse ==
  ASSUME NEW S, QInv(S)
  PROVE  /\ \A q \in ToSet(S.active) : q \in Slot /\ S.queue[q].player # None
         /\ S.active # <<>> => Head(S.active) \in ToSet(S.active)
<1>1. S \in Scheds /\ S.active \in Seq(Slot)
  BY SchedTypes DEF QInv
<1>2. ASSUME NEW q \in ToSet(S.active) PROVE q \in Slot /\ S.queue[q].player # None
  <2>1. q \in Slot
    BY <1>1 DEF ToSet
  <2>2. S.queue[q].usage # NO_USAGE
    BY <2>1 DEF QInv, Counted
  <2>. QED  BY <2>1, <2>2 DEF QInv, FreeIsEmpty, FreeSlot
<1>3. S.active # <<>> => Head(S.active) \in ToSet(S.active)
  BY <1>1 DEF ToSet
<1>. QED
  BY <1>2, <1>3

\* find_tqueue() finds the queue of a player, if there is one.
LEMMA Find ==
  ASSUME NEW S, NEW p
  PROVE  \/ find_tqueue(S, p) = NoQueue /\ \A q \in Slot : S.queue[q].player # p
         \/ find_tqueue(S, p) \in Slot /\ S.queue[find_tqueue(S, p)].player = p
BY DEF find_tqueue

LEMMA FindIs ==
  ASSUME NEW S, OneEach(S), NEW q \in Slot, S.queue[q].player \in Owner
  PROVE  find_tqueue(S, S.queue[q].player) = q
<1>1. PICK r : r = find_tqueue(S, S.queue[q].player)
  OBVIOUS
<1>2. r \in Slot /\ S.queue[r].player = S.queue[q].player
  BY <1>1, Find
<1>. QED  BY <1>1, <1>2 DEF OneEach

\* What find_tqueue(player, 1) may do: open queue q for player p.
Opened(S, T, p, q) ==
  /\ T \in Scheds /\ T.active = S.active /\ q \in Slot /\ T.queue[q].player = p
  /\ \/ T = S
     \/ /\ \A r \in Slot : S.queue[r].player # p
        /\ S.queue[q].player = None
        /\ T.queue = [S.queue EXCEPT ![q] = NewQueue(p)]

LEMMA FreeSlotIs ==
  /\ FreeSlot \in Queue
  /\ FreeSlot.player = None /\ FreeSlot.connected = FALSE /\ FreeSlot.input = <<>>
  /\ FreeSlot.reading = None /\ FreeSlot.bg = <<>> /\ FreeSlot.num_bg_tasks = 0
  /\ FreeSlot.usage = NO_USAGE
BY DEF FreeSlot, Queue, NO_USAGE

LEMMA NewQueueIs ==
  ASSUME NEW p \in Owner
  PROVE  /\ NewQueue(p) \in Queue
         /\ NewQueue(p).player = p /\ NewQueue(p).connected = FALSE
         /\ NewQueue(p).input = <<>> /\ NewQueue(p).reading = None
         /\ NewQueue(p).bg = <<>> /\ NewQueue(p).num_bg_tasks = 0
         /\ NewQueue(p).usage = NO_USAGE
BY FreeSlotIs DEF NewQueue, Queue

LEMMA Create ==
  ASSUME NEW S \in Scheds, NEW p \in Owner, HasRoomFor(S, p),
         NEW T, T = create_tqueue(S, p)
  PROVE  Opened(S, T, p, find_tqueue(T, p))
<1>1. CASE find_tqueue(S, p) # NoQueue
  <2>1. T = S
    BY <1>1 DEF create_tqueue
  <2>. QED  BY <1>1, <2>1, Find DEF Opened
<1>2. CASE find_tqueue(S, p) = NoQueue
  <2>1. PICK q : q = CHOOSE free \in Slot \ InUse(S) : TRUE
    OBVIOUS
  <2>2. \E free \in Slot : free \notin InUse(S)
    BY <1>2 DEF HasRoomFor, InUse
  <2>3. q \in Slot /\ S.queue[q].player = None
    BY <2>1, <2>2 DEF InUse
  <2>4. T = [S EXCEPT !.queue[q] = NewQueue(p)]
    BY <1>2, <2>1 DEF create_tqueue
  <2>5. \A r \in Slot : S.queue[r].player # p
    BY <1>2, Find DEF NoQueue, Slot
  <2>6. NewQueue(p) \in Queue /\ NewQueue(p).player = p
    BY NewQueueIs
  <2>7. T \in Scheds /\ T.active = S.active /\ T.queue = [S.queue EXCEPT ![q] = NewQueue(p)]
    BY <2>3, <2>4, <2>6 DEF Scheds
  <2>8. T.queue[q].player = p /\ \A r \in Slot : r # q => T.queue[r].player # p
    BY <2>3, <2>5, <2>6, <2>7, SchedTypes
  <2>9. find_tqueue(T, p) = q
    BY <2>3, <2>8, Find DEF NoQueue, Slot
  <2>. QED  BY <2>3, <2>5, <2>7, <2>8, <2>9 DEF Opened
<1>. QED  BY <1>1, <1>2

\* A step that changes only lines, options and usage of queues, and may make
\* queues active behind the first one.
Quiet(S, T) ==
  /\ T \in Scheds /\ Sorted(T) /\ Counted(T) /\ FreeIsEmpty(T) /\ ReadersActive(T)
  /\ S.active # <<>> => T.active # <<>> /\ Head(T.active) = Head(S.active)
  /\ \A r \in Slot :
       /\ T.queue[r].player = S.queue[r].player
       /\ T.queue[r].connected = S.queue[r].connected
       /\ T.queue[r].reading = S.queue[r].reading
       /\ T.queue[r].bg = S.queue[r].bg
       /\ T.queue[r].num_bg_tasks = S.queue[r].num_bg_tasks

LEMMA TSame ==
  ASSUME NEW S, NEW T, NEW w, NEW tk, NEW cur, TInv(S, w, tk, cur),
         \A r \in Slot : T.queue[r].reading = S.queue[r].reading
                         /\ T.queue[r].bg = S.queue[r].bg
  PROVE  TInv(T, w, tk, cur)
<1>1. PICK at : Where(at, S, w, tk, cur)
  BY DEF TInv
<1>2. Where(at, T, w, tk, cur)
  BY <1>1 DEF Where
<1>3. \A q \in Slot : Inj(T.queue[q].bg)
  BY DEF TInv
<1>. QED  BY <1>2, <1>3 DEF TInv

LEMMA BSame ==
  ASSUME NEW S, NEW T, NEW w, NEW tk, BInv(S, w, tk),
         \A r \in Slot : /\ T.queue[r].player = S.queue[r].player
                         /\ T.queue[r].bg = S.queue[r].bg
                         /\ T.queue[r].num_bg_tasks = S.queue[r].num_bg_tasks
  PROVE  BInv(T, w, tk)
BY DEF BInv

LEMMA HSame ==
  ASSUME NEW S, NEW T, NEW h, HInv(S, h),
         \A r \in Slot : /\ T.queue[r].player = S.queue[r].player
                         /\ T.queue[r].connected = S.queue[r].connected
  PROVE  HInv(T, h)
BY DEF HInv

LEMMA PSame ==
  ASSUME NEW S, NEW T, NEW h, NEW p, PInv(S, h, p),
         S.active # <<>> => /\ T.active # <<>> /\ Head(T.active) = Head(S.active)
                            /\ T.queue[Head(S.active)].player = S.queue[Head(S.active)].player
  PROVE  PInv(T, h, p)
BY DEF PInv, RunningPlace

LEMMA QuietKeeps ==
  ASSUME NEW S, NEW T, NEW h, NEW p, NEW w, NEW tk, NEW cur,
         All(S, h, p, w, tk, cur), Quiet(S, T)
  PROVE  All(T, h, p, w, tk, cur)
<1>1. QInv(T)
  BY DEF All, QInv, Quiet, OneEach
<1>2. TInv(T, w, tk, cur)
  BY TSame DEF All, Quiet
<1>3. BInv(T, w, tk)
  BY BSame DEF All, Quiet
<1>4. HInv(T, h)
  BY HSame DEF All, Quiet
<1>5. S.active # <<>> => Head(S.active) \in Slot
  BY ActiveInUse DEF All
<1>6. PInv(T, h, p)
  BY <1>5, PSame DEF All, Quiet
<1>. QED  BY <1>1, <1>2, <1>3, <1>4, <1>6 DEF All

\* A new queue is nobody's yet and disturbs nothing.
LEMMA OpenedKeeps ==
  ASSUME NEW S, NEW T, NEW h, NEW p, NEW w, NEW tk, NEW cur,
         All(S, h, p, w, tk, cur), NEW o \in Owner, NEW q, Opened(S, T, o, q)
  PROVE  All(T, h, p, w, tk, cur)
<1>1. CASE T = S
  BY <1>1
<1>2. CASE T # S
  <2>0. QInv(S) /\ HInv(S, h) /\ PInv(S, h, p) /\ TInv(S, w, tk, cur) /\ BInv(S, w, tk)
    BY DEF All
  <2>1. /\ S \in Scheds /\ T \in Scheds /\ T.active = S.active /\ q \in Slot
        /\ \A r \in Slot : S.queue[r].player # o
        /\ S.queue[q].player = None
        /\ T.queue = [S.queue EXCEPT ![q] = NewQueue(o)]
    BY <1>2, <2>0 DEF Opened, QInv
  <2>2. T.queue[q] = NewQueue(o) /\ \A r \in Slot : r # q => T.queue[r] = S.queue[r]
    BY <2>1, SchedTypes
  <2>3. S.queue[q] = FreeSlot
    BY <2>0, <2>1 DEF QInv, FreeIsEmpty
  <2>4. /\ T.queue[q].player = o /\ T.queue[q].connected = FALSE
        /\ T.queue[q].reading = None /\ T.queue[q].bg = <<>>
        /\ T.queue[q].num_bg_tasks = 0 /\ T.queue[q].usage = NO_USAGE
    BY <2>2, NewQueueIs
  <2>5. /\ S.queue[q].connected = FALSE
        /\ S.queue[q].reading = None /\ S.queue[q].bg = <<>>
        /\ S.queue[q].num_bg_tasks = 0 /\ S.queue[q].usage = NO_USAGE
    BY <2>3, FreeSlotIs
  <2>6. o # None /\ None \notin Owner
    BY NumbersAssumption
  <2>7. \A i \in DOMAIN S.active : S.active[i] \in Slot /\ S.active[i] # q
    BY <2>0, <2>1, ActiveInUse DEF ToSet
  <2>8. QInv(T)
    <3>1. Sorted(T)
      BY <2>0, <2>1, <2>2, <2>7 DEF QInv, Sorted
    <3>2. Counted(T)
      BY <2>0, <2>1, <2>2, <2>4, <2>5 DEF QInv, Counted
    <3>3. OneEach(T)
      BY <2>0, <2>1, <2>2, <2>4 DEF QInv, OneEach
    <3>4. FreeIsEmpty(T)
      BY <2>0, <2>2, <2>4, <2>6 DEF QInv, FreeIsEmpty
    <3>5. ReadersActive(T)
      BY <2>0, <2>1, <2>2, <2>4 DEF QInv, ReadersActive
    <3>. QED  BY <2>1, <3>1, <3>2, <3>3, <3>4, <3>5 DEF QInv
  <2>9. TInv(T, w, tk, cur)
    BY <2>0, <2>2, <2>4, <2>5, TSame
  <2>10. HInv(T, h)
    <3>1. \A c \in Conn : IsOpen(h, c) => h[c].tasks # q
      BY <2>0, <2>5 DEF HInv
    <3>. QED  BY <2>0, <2>2, <2>4, <3>1 DEF HInv
  <2>11. PInv(T, h, p)
    <3>1. S.active # <<>> => Head(S.active) \in Slot /\ Head(S.active) # q
      BY <2>0, <2>1, ActiveInUse
    <3>. QED  BY <2>0, <2>1, <2>2, <3>1, PSame
  <2>12. BInv(T, w, tk)
    <3>1. Waits(w, tk, o) = {}
      BY <2>0, <2>1 DEF BInv, Waits
    <3>2. Cardinality(Waits(w, tk, o)) = 0 /\ Len(<<>>) = 0
      BY <3>1, FS_EmptySet
    <3>3. \A r \in Slot : T.queue[r].player # None =>
            T.queue[r].num_bg_tasks
              = Len(T.queue[r].bg) + Cardinality(Waits(w, tk, T.queue[r].player))
      <4>. SUFFICES ASSUME NEW r \in Slot, T.queue[r].player # None
                    PROVE  T.queue[r].num_bg_tasks
                             = Len(T.queue[r].bg) + Cardinality(Waits(w, tk, T.queue[r].player))
        OBVIOUS
      <4>1. CASE r = q
        BY <2>4, <3>2, <4>1
      <4>2. CASE r # q
        BY <2>0, <2>2, <4>2 DEF BInv
      <4>. QED  BY <4>1, <4>2
    <3>4. \A t \in ToSet(w) : \E r \in Slot : T.queue[r].player = tk[t].progr
      <4>. SUFFICES ASSUME NEW t \in ToSet(w)
                    PROVE  \E r \in Slot : T.queue[r].player = tk[t].progr
        OBVIOUS
      <4>1. PICK r \in Slot : S.queue[r].player = tk[t].progr
        BY <2>0 DEF BInv
      <4>2. CASE r # q
        BY <2>2, <4>1, <4>2
      <4>3. CASE r = q
        <5>1. tk[t].progr = None
          BY <2>1, <4>1, <4>3
        <5>2. tk[t].progr \in Owner
          <6>1. PICK at : Where(at, S, w, tk, cur)
            BY <2>0 DEF TInv
          <6>2. t \in TaskId /\ at[t] = Waiting
            BY <2>0, <6>1 DEF TInv, ToSet, Where
          <6>3. tk[t].kind # None
            BY <6>1, <6>2 DEF Where, Waiting, Gone0
          <6>. QED  BY <2>0, <6>2, <6>3 DEF TInv
        <5>. QED  BY <2>6, <5>1, <5>2
      <4>. QED  BY <4>2, <4>3
    <3>5. \A r \in Slot : \A t \in ToSet(T.queue[r].bg) : tk[t].progr = T.queue[r].player
      <4>1. ToSet(<<>>) = {}
        BY DEF ToSet
      <4>. QED  BY <2>0, <2>2, <2>4, <4>1 DEF BInv
    <3>6. \A r \in Slot : T.queue[r].num_bg_tasks <= queued_task_limit
      BY <2>0, <2>2, <2>4, TasksAssumption DEF BInv
    <3>. QED  BY <3>3, <3>4, <3>5, <3>6 DEF BInv
  <2>. QED  BY <2>8, <2>9, <2>10, <2>11, <2>12 DEF All
<1>. QED  BY <1>1, <1>2

\* Only queue q differs, in its lines or its options.
Edited(S, U, q) ==
  /\ U \in Scheds /\ U.active = S.active
  /\ \A r \in Slot : r # q => U.queue[r] = S.queue[r]
  /\ U.queue[q].player = S.queue[q].player
  /\ U.queue[q].connected = S.queue[q].connected
  /\ U.queue[q].reading = S.queue[q].reading
  /\ U.queue[q].bg = S.queue[q].bg
  /\ U.queue[q].num_bg_tasks = S.queue[q].num_bg_tasks
  /\ U.queue[q].usage = S.queue[q].usage

\* A reader of q is looked after, as ReadersActive says.
ReaderActive(S, q) ==
  S.queue[q].reading # None /\ (~S.queue[q].connected \/ S.queue[q].input # <<>>)
    => q \in ToSet(S.active)

\* ensure_usage() of a queue in use.
LEMMA EnsureKeeps ==
  ASSUME NEW U \in Scheds, Sorted(U), Counted(U), FreeIsEmpty(U),
         NEW q \in Slot, U.queue[q].player # None,
         \A r \in Slot : r # q => ReaderActive(U, r),
         NEW T, T = ensure_usage(U, q)
  PROVE  Quiet(U, T) /\ q \in ToSet(T.active) /\ T.queue[q].input = U.queue[q].input
<1>1. /\ T \in Scheds /\ Joined(U, T, q) /\ (\A r \in Slot : Same(U, T, r))
      /\ \A r \in Slot : r # q => T.queue[r] = U.queue[r]
      /\ Sorted(T) /\ Counted(T) /\ q \in ToSet(T.active)
  BY Ensure
<1>2. FreeIsEmpty(T)
  BY <1>1 DEF FreeIsEmpty, Same
<1>3. ToSet(U.active) \subseteq ToSet(T.active)
  BY <1>1 DEF Joined
<1>4. ReadersActive(T)
  <2>. SUFFICES ASSUME NEW r \in Slot PROVE ReaderActive(T, r)
    BY DEF ReadersActive, ReaderActive
  <2>1. CASE r = q
    BY <1>1, <2>1 DEF ReaderActive
  <2>2. CASE r # q
    BY <1>1, <1>3, <2>2 DEF ReaderActive
  <2>. QED  BY <2>1, <2>2
<1>. QED
  BY <1>1, <1>2, <1>4 DEF Quiet, Same, Joined

LEMMA EditedKeeps ==
  ASSUME NEW S, QInv(S), NEW q \in Slot, S.queue[q].player # None, NEW U, Edited(S, U, q)
  PROVE  /\ ReaderActive(U, q) => Quiet(S, U)
         /\ Quiet(S, ensure_usage(U, q))
<1>1. /\ S \in Scheds /\ Sorted(S) /\ Counted(S) /\ FreeIsEmpty(S) /\ ReadersActive(S)
      /\ S.active \in Seq(Slot)
  BY SchedTypes DEF QInv
<1>2. /\ U \in Scheds /\ U.active = S.active
      /\ \A r \in Slot : U.queue[r].usage = S.queue[r].usage
      /\ \A r \in Slot : U.queue[r].player = S.queue[r].player
      /\ \A r \in Slot : r # q => U.queue[r] = S.queue[r]
  BY DEF Edited
<1>3. \A i \in DOMAIN S.active : S.active[i] \in Slot
  BY <1>1
<1>4. Sorted(U)
  BY <1>1, <1>2, <1>3 DEF Sorted
<1>5. Counted(U)
  BY <1>1, <1>2 DEF Counted
<1>6. FreeIsEmpty(U)
  BY <1>1, <1>2 DEF FreeIsEmpty
<1>7. \A r \in Slot : r # q => ReaderActive(U, r)
  BY <1>1, <1>2 DEF ReadersActive, ReaderActive
<1>8. ASSUME ReaderActive(U, q) PROVE Quiet(S, U)
  <2>1. ReadersActive(U)
    BY <1>7, <1>8 DEF ReadersActive, ReaderActive
  <2>. QED  BY <1>2, <1>4, <1>5, <1>6, <2>1 DEF Quiet, Edited
<1>9. Quiet(U, ensure_usage(U, q))
  BY <1>2, <1>4, <1>5, <1>6, <1>7, EnsureKeeps
<1>10. Quiet(S, ensure_usage(U, q))
  BY <1>2, <1>9 DEF Quiet, Edited
<1>. QED
  BY <1>8, <1>10

\* The lines of a queue change.
WithInput(S, q, v) == [S EXCEPT !.queue[q].input = v]

LEMMA InputEdited ==
  ASSUME NEW S \in Scheds, NEW q \in Slot, NEW v \in Seq(Line \cup {Blank}),
         NEW U, U = WithInput(S, q, v)
  PROVE  Edited(S, U, q) /\ U.queue[q].input = v
<1>0. /\ S.queue \in [Slot -> Queue] /\ S.active \in Seq(Slot)
      /\ S = [queue |-> S.queue, active |-> S.active]
  BY SchedTypes
<1>1. PICK x \in Queue : x = S.queue[q]
  BY <1>0
<1>2. PICK r : r = [x EXCEPT !.input = v]
  OBVIOUS
<1>3. /\ r \in Queue /\ r.input = v /\ r.player = x.player /\ r.connected = x.connected
      /\ r.reading = x.reading /\ r.bg = x.bg /\ r.num_bg_tasks = x.num_bg_tasks
      /\ r.usage = x.usage
  BY <1>2 DEF Queue
<1>4. U = [queue |-> [S.queue EXCEPT ![q] = r], active |-> S.active]
  BY <1>0, <1>1, <1>2 DEF WithInput
<1>5. /\ U \in Scheds /\ U.active = S.active /\ U.queue[q] = r
      /\ \A p \in Slot : p # q => U.queue[p] = S.queue[p]
  BY <1>0, <1>3, <1>4 DEF Scheds
<1>. QED
  BY <1>1, <1>3, <1>5 DEF Edited

\* flush_input()
LEMMA FlushQuiet ==
  ASSUME NEW S, QInv(S), NEW q \in Slot, S.queue[q].player # None
  PROVE  Quiet(S, flush_input(S, q))
<1>0. PICK v : v = <<>>
  OBVIOUS
<1>1. PICK U : U = WithInput(S, q, v)
  OBVIOUS
<1>6. U = flush_input(S, q)
  BY <1>0, <1>1 DEF flush_input, WithInput
<1>2. v \in Seq(Line \cup {Blank}) /\ S \in Scheds
  BY <1>0 DEF QInv
<1>5. Edited(S, U, q) /\ U.queue[q].input = v
  BY <1>1, <1>2, InputEdited
<1>3. Edited(S, U, q) /\ U.queue[q].input = <<>>
  BY <1>0, <1>5
<1>4. ReaderActive(U, q)
  BY <1>3 DEF ReaderActive, Edited, QInv, ReadersActive
<1>. QED
  BY <1>3, <1>4, <1>6, EditedKeeps
\* enqueue_input_task(): if someone reads the queue is made active.
LEMMA EnqueueQuiet ==
  ASSUME NEW S, QInv(S), NEW q \in Slot, S.queue[q].player # None,
         NEW line \in Line \cup {Blank}, NEW at_front \in BOOLEAN
  PROVE  Quiet(S, enqueue_input_task(S, q, line, at_front))
<1>1. PICK v : v = IF at_front THEN <<line>> \o S.queue[q].input
                   ELSE Append(S.queue[q].input, line)
  OBVIOUS
<1>2. PICK U : U = WithInput(S, q, v)
  OBVIOUS
<1>3. S \in Scheds /\ S.queue[q].input \in Seq(Line \cup {Blank}) /\ S.queue \in [Slot -> Queue]
  BY SchedTypes DEF QInv
<1>4. v \in Seq(Line \cup {Blank})
  <2>1. PICK L, s : L = Line \cup {Blank} /\ s = S.queue[q].input
    OBVIOUS
  <2>2. s \in Seq(L) /\ line \in L
    BY <1>3, <2>1
  <2>3. Append(s, line) \in Seq(L) /\ <<line>> \in Seq(L)
    BY <2>2
  <2>4. <<line>> \o s \in Seq(L)
    BY <2>2, <2>3
  <2>. QED  BY <1>1, <2>1, <2>3, <2>4
<1>5. Edited(S, U, q)
  BY <1>2, <1>3, <1>4, InputEdited
<1>6. \/ enqueue_input_task(S, q, line, at_front) = ensure_usage(U, q)
      \/ /\ enqueue_input_task(S, q, line, at_front) = U
         /\ S.queue[q].reading = None
  <2>1. [S EXCEPT !.queue[q].input = IF at_front THEN <<line>> \o @ ELSE Append(@, line)] = U
    BY <1>1, <1>2, <1>3 DEF Scheds, WithInput
  <2>. QED  BY <2>1 DEF enqueue_input_task
<1>. QED
  BY <1>5, <1>6, EditedKeeps DEF ReaderActive, Edited

\* dequeue_input_task() takes one of the lines; DQ_FIRST finds one if there is
\* any.
LEMMA LineAtIs ==
  ASSUME NEW S \in Scheds, NEW q \in Slot, NEW how
  PROVE  /\ LineAt(S, q, how) # 0 => LineAt(S, q, how) \in 1..Len(S.queue[q].input)
         /\ LineAt(S, q, "DQ_FIRST") = 0 => S.queue[q].input = <<>>
<1>1. PICK s, d : s = S.queue[q].input /\ d = S.queue[q].disable_oob
  OBVIOUS
<1>2. s \in Seq(Line \cup {Blank})
  BY <1>1, SchedTypes
<1>3. ASSUME NEW any
      PROVE  LineAt(S, q, any) = IF {i \in 1..Len(s) : Wanted(s[i], any, d)} # {}
                                 THEN Min({i \in 1..Len(s) : Wanted(s[i], any, d)}) ELSE 0
  BY <1>1 DEF LineAt, DequeueAt, SelectInSeq
<1>4. ASSUME NEW any, NEW I, I = {i \in 1..Len(s) : Wanted(s[i], any, d)}, I # {}
      PROVE  Min(I) \in I
  <2>1. I \subseteq Nat
    BY <1>2, <1>4
  <2>2. \E x \in I : \A y \in I : x <= y
    BY <1>4, <2>1, LeastElement
  <2>. QED  BY <2>2 DEF Min
<1>5. LineAt(S, q, how) # 0 => LineAt(S, q, how) \in 1..Len(s)
  BY <1>3, <1>4
<1>6. LineAt(S, q, "DQ_FIRST") = 0 => s = <<>>
  <2>. SUFFICES ASSUME s # <<>> PROVE LineAt(S, q, "DQ_FIRST") # 0
    OBVIOUS
  <2>1. PICK I : I = {i \in 1..Len(s) : Wanted(s[i], "DQ_FIRST", d)}
    OBVIOUS
  <2>2. 1 \in I
    BY <1>2, <2>1 DEF Wanted
  <2>3. Min(I) \in I
    BY <1>4, <2>1, <2>2
  <2>4. LineAt(S, q, "DQ_FIRST") = Min(I)
    BY <1>3, <2>1, <2>2
  <2>5. I \subseteq 1..Len(s)
    BY <2>1
  <2>. QED  BY <2>3, <2>4, <2>5
<1>. QED
  BY <1>1, <1>5, <1>6

\* dequeue_input_task()
LEMMA DequeueQuiet ==
  ASSUME NEW S, QInv(S), NEW q \in Slot, S.queue[q].player # None, NEW how,
         LineAt(S, q, how) # 0
  PROVE  Quiet(S, dequeue_input_task(S, q, how))
<1>1. PICK s, i : s = S.queue[q].input /\ i = LineAt(S, q, how)
  OBVIOUS
<1>2. S \in Scheds /\ s \in Seq(Line \cup {Blank}) /\ S.queue \in [Slot -> Queue]
  BY <1>1, SchedTypes DEF QInv
<1>3. i \in 1..Len(s)
  BY <1>1, <1>2, LineAtIs
<1>4. PICK v : v = RemoveAt(s, i)
  OBVIOUS
<1>5. v \in Seq(Line \cup {Blank})
  BY <1>2, <1>3, <1>4, RemoveAtIs
<1>6. PICK U : U = WithInput(S, q, v)
  OBVIOUS
<1>7. dequeue_input_task(S, q, how) = U
  BY <1>1, <1>2, <1>4, <1>6 DEF dequeue_input_task, WithInput, Scheds
<1>8. Edited(S, U, q)
  BY <1>2, <1>5, <1>6, InputEdited
<1>9. s # <<>>
  BY <1>2, <1>3
<1>10. ReaderActive(U, q)
  BY <1>1, <1>8, <1>9 DEF ReaderActive, Edited, QInv, ReadersActive
<1>. QED
  BY <1>7, <1>8, <1>10, EditedKeeps

\* set_connection_option()
LEMMA OptionQuiet ==
  ASSUME NEW S, QInv(S), NEW q \in Slot, S.queue[q].player # None, NEW value \in BOOLEAN
  PROVE  Quiet(S, set_hold_input(S, q, value)) /\ Quiet(S, set_disable_oob(S, q, value))
<1>1. PICK U : U = [S EXCEPT !.queue[q].hold_input = value]
  OBVIOUS
<1>2. PICK V : V = [S EXCEPT !.queue[q].disable_oob = value]
  OBVIOUS
<1>3. /\ S.queue \in [Slot -> Queue] /\ S.active \in Seq(Slot)
      /\ S = [queue |-> S.queue, active |-> S.active] /\ S \in Scheds
  BY SchedTypes DEF QInv
<1>4. Edited(S, U, q) /\ U.queue[q].input = S.queue[q].input
  <2>1. PICK x \in Queue : x = S.queue[q]
    BY <1>3
  <2>2. PICK r : r = [x EXCEPT !.hold_input = value]
    OBVIOUS
  <2>3. /\ r \in Queue /\ r.input = x.input /\ r.player = x.player /\ r.connected = x.connected
        /\ r.reading = x.reading /\ r.bg = x.bg /\ r.num_bg_tasks = x.num_bg_tasks
        /\ r.usage = x.usage
    BY <2>2 DEF Queue
  <2>4. U = [queue |-> [S.queue EXCEPT ![q] = r], active |-> S.active]
    BY <1>1, <1>3, <2>1, <2>2
  <2>5. /\ U \in Scheds /\ U.active = S.active /\ U.queue[q] = r
        /\ \A p \in Slot : p # q => U.queue[p] = S.queue[p]
    BY <1>3, <2>3, <2>4 DEF Scheds
  <2>. QED  BY <2>1, <2>3, <2>5 DEF Edited
<1>5. Edited(S, V, q) /\ V.queue[q].input = S.queue[q].input
  <2>1. PICK x \in Queue : x = S.queue[q]
    BY <1>3
  <2>2. PICK r : r = [x EXCEPT !.disable_oob = value]
    OBVIOUS
  <2>3. /\ r \in Queue /\ r.input = x.input /\ r.player = x.player /\ r.connected = x.connected
        /\ r.reading = x.reading /\ r.bg = x.bg /\ r.num_bg_tasks = x.num_bg_tasks
        /\ r.usage = x.usage
    BY <2>2 DEF Queue
  <2>4. V = [queue |-> [S.queue EXCEPT ![q] = r], active |-> S.active]
    BY <1>2, <1>3, <2>1, <2>2
  <2>5. /\ V \in Scheds /\ V.active = S.active /\ V.queue[q] = r
        /\ \A p \in Slot : p # q => V.queue[p] = S.queue[p]
    BY <1>3, <2>3, <2>4 DEF Scheds
  <2>. QED  BY <2>1, <2>3, <2>5 DEF Edited
<1>6. ReaderActive(U, q) /\ ReaderActive(V, q)
  BY <1>4, <1>5 DEF ReaderActive, Edited, QInv, ReadersActive
<1>7. set_hold_input(S, q, value) \in {U, ensure_usage(U, q)}
  BY <1>1 DEF set_hold_input
<1>8. set_disable_oob(S, q, value) \in {V, ensure_usage(V, q)}
  BY <1>2 DEF set_disable_oob
<1>9. Quiet(S, U) /\ Quiet(S, ensure_usage(U, q))
  BY <1>4, <1>6, EditedKeeps
<1>10. Quiet(S, V) /\ Quiet(S, ensure_usage(V, q))
  BY <1>5, <1>6, EditedKeeps
<1>. QED
  BY <1>7, <1>8, <1>9, <1>10

-----------------------------------------------------------------------------
(* The steps: lines of input                                               *)

\* The first active queue stays the first.
Leads(S, T) == S.active # <<>> => T.active # <<>> /\ Head(T.active) = Head(S.active)
HeadKept    == active # <<>> => Head(active') = Head(active)

LEMMA LeadsIs ==
  ASSUME NEW T, Becomes(T), Leads(Sched, T)
  PROVE  HeadKept
BY DEF Becomes, Sched, Leads, HeadKept

LEMMA StepTo ==
  ASSUME NEW T, Becomes(T), users' \subseteq Player,
         All(T, shandle', pc', waiting', task', current')
  PROVE  IInv'
<1>1. T \in Scheds
  BY DEF All, QInv
<1>2. Sched' = T
  BY <1>1, SchedIs
<1>. QED
  BY <1>2 DEF IInv

LEMMA StepSame ==
  ASSUME UNCHANGED <<queue, active>>, users' \subseteq Player,
         All(Sched, shandle', pc', waiting', task', current')
  PROVE  IInv'
<1>1. Sched' = Sched
  BY SchedSame
<1>. QED
  BY <1>1 DEF IInv

LEMMA QuietStep ==
  ASSUME IInv, NEW T, Quiet(Sched, T), Becomes(T),
         UNCHANGED <<shandle, pc, waiting, task, current, users>>
  PROVE  IInv'
<1>1. All(T, shandle, pc, waiting, task, current)
  BY QuietKeeps DEF IInv
<1>. QED
  BY <1>1, StepTo DEF IInv

\* The queue of an open connection is in use.
LEMMA OpenInUse ==
  ASSUME IInv, NEW c \in Open
  PROVE  /\ c \in Conn /\ IsOpen(shandle, c)
         /\ shandle[c].tasks \in Slot
         /\ Sched.queue[shandle[c].tasks].player # None
         /\ Sched.queue[shandle[c].tasks].connected
         /\ Sched.queue[shandle[c].tasks].player = shandle[c].player
         /\ shandle[c].player \in Player \cup {c}
BY NumbersAssumption DEF IInv, All, HInv, Open, IsOpen, Owner

LEMMA ReceiveStep ==
  ASSUME IInv, NEW c, server_receive_line(c)
  PROVE  IInv'
<1>1. PICK q : q = shandle[c].tasks
  OBVIOUS
<1>2. c \in Open /\ UNCHANGED <<shandle, pc, waiting, task, current, users>>
  BY DEF server_receive_line
<1>3. q \in Slot /\ Sched.queue[q].player # None /\ QInv(Sched)
  BY <1>1, <1>2, OpenInUse DEF IInv, All
<1>4. CASE Becomes(flush_input(Sched, q))
  BY <1>2, <1>3, <1>4, FlushQuiet, QuietStep
<1>5. CASE \E line \in Line : Becomes(enqueue_input_task(Sched, q, line, FALSE))
  BY <1>2, <1>3, <1>5, EnqueueQuiet, QuietStep
<1>. QED
  BY <1>1, <1>4, <1>5 DEF server_receive_line

LEMMA ReadNowStep ==
  ASSUME IInv, NEW o \in Owner, read_input_now(o)
  PROVE  IInv'
<1>1. PICK q : q = find_tqueue(Sched, o)
  OBVIOUS
<1>2. /\ q # NoQueue /\ LineAt(Sched, q, "DQ_INBAND") # 0
      /\ Becomes(dequeue_input_task(Sched, q, "DQ_INBAND"))
      /\ UNCHANGED <<shandle, pc, waiting, task, current, users>>
  BY <1>1 DEF read_input_now
<1>3. q \in Slot /\ Sched.queue[q].player # None /\ QInv(Sched)
  BY <1>1, <1>2, Find, NumbersAssumption DEF IInv, All
<1>. QED
  BY <1>2, <1>3, DequeueQuiet, QuietStep

LEMMA OptionStep ==
  ASSUME IInv, NEW c \in Conn, NEW value \in BOOLEAN, set_connection_option(c, value)
  PROVE  IInv'
<1>1. PICK q : q = shandle[c].tasks
  OBVIOUS
<1>2. /\ c \in Open /\ UNCHANGED <<shandle, pc, waiting, task, current, users>>
      /\ \/ Becomes(set_hold_input(Sched, q, value))
         \/ Becomes(set_disable_oob(Sched, q, value))
  BY <1>1 DEF set_connection_option
<1>3. q \in Slot /\ Sched.queue[q].player # None /\ QInv(Sched)
  BY <1>1, <1>2, OpenInUse DEF IInv, All
<1>. QED
  BY <1>2, <1>3, OptionQuiet, QuietStep

\* find_tqueue(o, 1) in force_input() and flush_input().
LEMMA CreateAll ==
  ASSUME IInv, NEW o \in Owner, HasRoomFor(Sched, o), NEW S, S = create_tqueue(Sched, o),
         NEW q, q = find_tqueue(S, o)
  PROVE  /\ All(S, shandle, pc, waiting, task, current)
         /\ q \in Slot /\ S.queue[q].player = o /\ o # None
<1>1. Sched \in Scheds
  BY DEF IInv, All, QInv
<1>2. Opened(Sched, S, o, q)
  BY <1>1, Create
<1>3. All(S, shandle, pc, waiting, task, current)
  BY <1>2, OpenedKeeps DEF IInv
<1>. QED
  BY <1>2, <1>3, NumbersAssumption DEF Opened

LEMMA ForceStep ==
  ASSUME IInv, NEW o \in Owner, NEW line \in Line, NEW at_front \in BOOLEAN,
         force_input(o, line, at_front)
  PROVE  IInv'
<1>1. PICK S : S = create_tqueue(Sched, o)
  OBVIOUS
<1>2. PICK q : q = find_tqueue(S, o)
  OBVIOUS
<1>3. /\ HasRoomFor(Sched, o) /\ Becomes(enqueue_input_task(S, q, line, at_front))
      /\ UNCHANGED <<shandle, pc, waiting, task, current, users>>
  BY <1>1, <1>2 DEF force_input
<1>4. All(S, shandle, pc, waiting, task, current) /\ q \in Slot /\ S.queue[q].player # None
  BY <1>1, <1>2, <1>3, CreateAll
<1>5. Quiet(S, enqueue_input_task(S, q, line, at_front))
  BY <1>4, EnqueueQuiet DEF All
<1>6. All(enqueue_input_task(S, q, line, at_front), shandle, pc, waiting, task, current)
  BY <1>4, <1>5, QuietKeeps
<1>. QED
  BY <1>3, <1>6, StepTo DEF IInv

LEMMA FlushStep ==
  ASSUME IInv, NEW o \in Owner, bf_flush_input(o)
  PROVE  IInv'
<1>1. PICK S : S = create_tqueue(Sched, o)
  OBVIOUS
<1>2. PICK q : q = find_tqueue(S, o)
  OBVIOUS
<1>3. /\ HasRoomFor(Sched, o) /\ Becomes(flush_input(S, q))
      /\ UNCHANGED <<shandle, pc, waiting, task, current, users>>
  BY <1>1, <1>2 DEF bf_flush_input
<1>4. All(S, shandle, pc, waiting, task, current) /\ q \in Slot /\ S.queue[q].player # None
  BY <1>1, <1>2, <1>3, CreateAll
<1>5. Quiet(S, flush_input(S, q))
  BY <1>4, FlushQuiet DEF All
<1>6. All(flush_input(S, q), shandle, pc, waiting, task, current)
  BY <1>4, <1>5, QuietKeeps
<1>. QED
  BY <1>3, <1>6, StepTo DEF IInv

-----------------------------------------------------------------------------
(* The steps: code that starts, goes on and ends                           *)

\* What is known of the tasks that wait or are ready stays the same.
LEMMA BTask ==
  ASSUME NEW S, NEW w, NEW tk, NEW tk2, BInv(S, w, tk),
         \A t \in ToSet(w) : tk2[t].progr = tk[t].progr,
         \A q \in Slot : \A t \in ToSet(S.queue[q].bg) : tk2[t].progr = tk[t].progr
  PROVE  BInv(S, w, tk2)
<1>1. ASSUME NEW o PROVE Waits(w, tk2, o) = Waits(w, tk, o)
  BY DEF Waits
<1>2. \A q \in Slot : S.queue[q].player # None =>
        S.queue[q].num_bg_tasks
          = Len(S.queue[q].bg) + Cardinality(Waits(w, tk2, S.queue[q].player))
  BY <1>1 DEF BInv
<1>. QED
  BY <1>2 DEF BInv

\* A task that is not running, not waiting, not reading and not ready.
LEMMA StartKeeps ==
  ASSUME NEW S \in Scheds, NEW w, NEW tk, TInv(S, w, tk, None), BInv(S, w, tk),
         NEW t \in TaskId, tk[t].kind = None, NEW p \in Owner,
         NEW tk2, tk2 = [tk EXCEPT ![t] = Vm(p)]
  PROVE  TInv(S, w, tk2, t) /\ BInv(S, w, tk2)
<1>1. PICK at : Where(at, S, w, tk, None)
  BY DEF TInv
<1>2. tk \in [TaskId -> TaskRecord] /\ w \in Seq(TaskId)
  BY DEF TInv
<1>3. Vm(p) \in TaskRecord /\ Vm(p).kind # None /\ Vm(p).progr = p
  BY DEF Vm, TaskRecord, None
<1>4. tk2 \in [TaskId -> TaskRecord] /\ tk2[t] = Vm(p) /\ \A u \in TaskId : u # t => tk2[u] = tk[u]
  BY <1>2, <1>3
<1>5. at[t] = Gone0
  BY <1>1 DEF Where
<1>6. PICK at2 : at2 = [u \in TaskId |-> IF u = t THEN Running ELSE at[u]]
  OBVIOUS
<1>7. at2[t] = Running /\ \A u \in TaskId : u # t => at2[u] = at[u]
  BY <1>6
<1>8. \A u \in TaskId : at[u] # Running
  BY <1>1, NumbersAssumption DEF Where
<1>9. Where(at2, S, w, tk2, t)
  BY <1>1, <1>3, <1>4, <1>5, <1>7, <1>8
    DEF Where, Gone0, Running, Waiting, Reads, Ready
<1>10. \A u \in TaskId : tk2[u].kind # None => tk2[u].progr \in Owner
  BY <1>3, <1>4 DEF TInv
<1>11. TInv(S, w, tk2, t)
  BY <1>4, <1>9, <1>10 DEF TInv
<1>12. t \notin ToSet(w) /\ \A q \in Slot : t \notin ToSet(S.queue[q].bg)
  BY <1>1, <1>5 DEF Where, Gone0, Waiting, Ready
<1>13. ToSet(w) \subseteq TaskId /\ \A q \in Slot : ToSet(S.queue[q].bg) \subseteq TaskId
  BY <1>2, SchedTypes DEF ToSet
<1>14. /\ \A u \in ToSet(w) : tk2[u].progr = tk[u].progr
       /\ \A q \in Slot : \A u \in ToSet(S.queue[q].bg) : tk2[u].progr = tk[u].progr
  BY <1>4, <1>12, <1>13
<1>15. BInv(S, w, tk2)
  BY <1>14, BTask
<1>. QED
  BY <1>11, <1>15

\* What is known of the running task changes; it goes on, or stops.
LEMMA CurrentKeeps ==
  ASSUME NEW S \in Scheds, NEW w, NEW tk, NEW t \in TaskId, TInv(S, w, tk, t), BInv(S, w, tk),
         NEW r \in TaskRecord, NEW tk2, tk2 = [tk EXCEPT ![t] = r]
  PROVE  /\ BInv(S, w, tk2)
         /\ r.kind # None /\ r.progr \in Owner => TInv(S, w, tk2, t)
         /\ r.kind = None => TInv(S, w, tk2, None)
<1>1. PICK at : Where(at, S, w, tk, t)
  BY DEF TInv
<1>2. tk \in [TaskId -> TaskRecord] /\ w \in Seq(TaskId)
  BY DEF TInv
<1>3. tk2 \in [TaskId -> TaskRecord] /\ tk2[t] = r /\ \A u \in TaskId : u # t => tk2[u] = tk[u]
  BY <1>2
<1>4. at[t] = Running
  BY <1>1 DEF Where
<1>5. t \notin ToSet(w) /\ \A q \in Slot : t \notin ToSet(S.queue[q].bg)
  BY <1>1, <1>4 DEF Where, Running, Waiting, Ready
<1>6. ToSet(w) \subseteq TaskId /\ \A q \in Slot : ToSet(S.queue[q].bg) \subseteq TaskId
  BY <1>2, SchedTypes DEF ToSet
<1>7. /\ \A u \in ToSet(w) : tk2[u].progr = tk[u].progr
      /\ \A q \in Slot : \A u \in ToSet(S.queue[q].bg) : tk2[u].progr = tk[u].progr
  BY <1>3, <1>5, <1>6
<1>8. BInv(S, w, tk2)
  BY <1>7, BTask
<1>9. ASSUME r.kind # None, r.progr \in Owner PROVE TInv(S, w, tk2, t)
  <2>1. Where(at, S, w, tk2, t)
    BY <1>1, <1>3, <1>4, <1>9 DEF Where, Gone0, Running
  <2>2. \A u \in TaskId : tk2[u].kind # None => tk2[u].progr \in Owner
    BY <1>3, <1>9 DEF TInv
  <2>. QED  BY <1>3, <2>1, <2>2 DEF TInv
<1>10. ASSUME r.kind = None PROVE TInv(S, w, tk2, None)
  <2>1. PICK at2 : at2 = [u \in TaskId |-> IF u = t THEN Gone0 ELSE at[u]]
    OBVIOUS
  <2>2. at2[t] = Gone0 /\ \A u \in TaskId : u # t => at2[u] = at[u]
    BY <2>1
  <2>3. Where(at2, S, w, tk2, None)
    BY <1>1, <1>3, <1>4, <1>10, <2>2, NumbersAssumption
      DEF Where, Gone0, Running, Waiting, Reads, Ready
  <2>4. \A u \in TaskId : tk2[u].kind # None => tk2[u].progr \in Owner
    BY <1>3, <1>10 DEF TInv
  <2>. QED  BY <1>3, <2>3, <2>4 DEF TInv
<1>. QED
  BY <1>8, <1>9, <1>10

\* What the main loop goes on with.
LEMMA PlaceIs ==
  ASSUME NEW place, NEW conn, NEW todo
  PROVE  /\ At(place, conn, todo).at = place
         /\ At(place, conn, todo).conn = conn
         /\ At(place, conn, todo).todo = todo
         /\ Loop(place) = At(place, None, {})
BY DEF At, Loop

LEMMA LoopKeeps ==
  ASSUME NEW S, NEW h, NEW place \in Place \ {"closing", "leaving", "redirecting"},
         place \in RunningPlace => S.active # <<>>,
         place = "login" => S.queue[Head(S.active)].player \notin Player
  PROVE  PInv(S, h, Loop(place))
BY DEF PInv, At, Loop, Place, RunningPlace

LEMMA AtKeeps ==
  ASSUME NEW S, NEW h, NEW place \in {"closing", "leaving", "redirecting", "cleanup"},
         NEW c \in Conn \cup {None}, NEW todo \in SUBSET Conn,
         place # "cleanup" => IsOpen(h, c),
         place = "leaving" => c \notin todo,
         place = "redirecting" => S.active # <<>>,
         \A d \in todo : IsOpen(h, d)
  PROVE  PInv(S, h, At(place, c, todo))
BY DEF PInv, At, Place, RunningPlace

\* The flags of a connection change.
LEMMA FlagsKeep ==
  ASSUME NEW S, NEW h, NEW p, HInv(S, h), PInv(S, h, p), NEW g \in [Conn -> Handle],
         \A c \in Conn : /\ g[c].state = h[c].state
                         /\ g[c].player = h[c].player
                         /\ g[c].tasks = h[c].tasks
  PROVE  HInv(S, g) /\ PInv(S, g, p) /\ \A c : IsOpen(g, c) <=> IsOpen(h, c)
<1>1. \A c : IsOpen(g, c) <=> IsOpen(h, c)
  BY DEF IsOpen
<1>2. HInv(S, g)
  BY <1>1 DEF HInv
<1>3. PInv(S, g, p)
  BY <1>1 DEF PInv
<1>. QED
  BY <1>1, <1>2, <1>3

\* StartCode(), with the queues as they are.
LEMMA StartStep ==
  ASSUME NEW S \in Scheds, TInv(S, waiting, task, current), BInv(S, waiting, task),
         current = None, NEW place, StartCode(place)
  PROVE  /\ TInv(S, waiting, task', current') /\ BInv(S, waiting, task')
         /\ pc' = place
<1>1. PICK t \in Fresh, p \in Player :
        task' = [task EXCEPT ![t] = Vm(p)] /\ current' = t /\ pc' = place
  BY DEF StartCode
<1>2. t \in TaskId /\ task[t].kind = None /\ p \in Owner
  BY DEF Fresh, Owner
<1>3. TInv(S, waiting, task', t) /\ BInv(S, waiting, task')
  BY <1>1, <1>2, StartKeeps
<1>. QED
  BY <1>1, <1>3

\* What the parts of the invariant say of the state.
LEMMA Parts ==
  ASSUME IInv
  PROVE  /\ Sched \in Scheds /\ QInv(Sched) /\ HInv(Sched, shandle)
         /\ PInv(Sched, shandle, pc) /\ TInv(Sched, waiting, task, current)
         /\ BInv(Sched, waiting, task) /\ users \subseteq Player
         /\ task \in [TaskId -> TaskRecord] /\ current \in TaskId \cup {None}
         /\ waiting \in Seq(TaskId) /\ shandle \in [Conn -> Handle]
BY DEF IInv, All, QInv, TInv, HInv

LEMMA CurrentIs ==
  ASSUME IInv, current # None
  PROVE  current \in TaskId /\ task[current].kind # None /\ progr \in Owner
<1>1. current \in TaskId /\ TInv(Sched, waiting, task, current)
  BY Parts
<1>2. PICK at : Where(at, Sched, waiting, task, current)
  BY <1>1 DEF TInv
<1>3. at[current] = Running
  BY <1>1, <1>2 DEF Where
<1>4. task[current].kind # None
  BY <1>1, <1>2, <1>3 DEF Where, Running, Gone0
<1>. QED
  BY <1>1, <1>4 DEF TInv, progr

LEMMA EndStep ==
  ASSUME IInv, EndCode
  PROVE  IInv'
<1>1. /\ current # None /\ task' = [task EXCEPT ![current] = NoTask] /\ current' = None
      /\ UNCHANGED <<queue, active, waiting, shandle, pc, users>>
  BY DEF EndCode
<1>2. NoTask \in TaskRecord /\ NoTask.kind = None
  BY DEF NoTask, TaskRecord
<1>3. TInv(Sched, waiting, task', None) /\ BInv(Sched, waiting, task')
  BY <1>1, <1>2, Parts, CurrentIs, CurrentKeeps
<1>. QED
  BY <1>1, <1>3, Parts, StepSame DEF All

\* Code of another owner.
LEMMA ProgrStep ==
  ASSUME IInv, current # None, NEW o \in Owner, task' = [task EXCEPT ![current].progr = o],
         UNCHANGED <<queue, active, waiting, current, shandle, pc, users>>
  PROVE  IInv'
<1>1. current \in TaskId /\ task[current].kind # None /\ task \in [TaskId -> TaskRecord]
  BY CurrentIs, Parts
<1>2. PICK r : r = [task[current] EXCEPT !.progr = o]
  OBVIOUS
<1>3. task[current] \in TaskRecord
  BY <1>1
<1>4. r \in TaskRecord /\ r.kind # None /\ r.progr = o
  BY <1>1, <1>2, <1>3 DEF TaskRecord
<1>5. task' = [task EXCEPT ![current] = r]
  BY <1>1, <1>2
<1>6. TInv(Sched, waiting, task', current) /\ BInv(Sched, waiting, task')
  BY <1>1, <1>4, <1>5, Parts, CurrentKeeps
<1>. QED
  BY <1>6, Parts, StepSame DEF All

LEMMA CallStep ==
  ASSUME IInv, NEW p \in Player, CallVerb(p)
  PROVE  IInv'
BY ProgrStep DEF CallVerb, Calls, Owner

LEMMA PermsStep ==
  ASSUME IInv, NEW o \in PermsTarget, set_task_perms(o)
  PROVE  IInv'
BY ProgrStep, ServerAssumption DEF set_task_perms, Calls, Owner

LEMMA RecycleStep ==
  ASSUME IInv, NEW p, recycle(p)
  PROVE  IInv'
BY StepSame, Parts DEF recycle, All

\* The main loop starts code and goes on.
LEMMA StartIn ==
  ASSUME IInv, current = None, NEW place, StartCode(place),
         UNCHANGED <<queue, active, waiting, users>>,
         HInv(Sched, shandle'), PInv(Sched, shandle', place)
  PROVE  IInv'
<1>1. /\ TInv(Sched, waiting, task', current') /\ BInv(Sched, waiting, task')
      /\ pc' = place
  BY Parts, StartStep
<1>. QED
  BY <1>1, Parts, StepSame DEF All

LEMMA RunningActive ==
  ASSUME IInv, pc.at \in RunningPlace
  PROVE  Sched.active # <<>> /\ active # <<>>
BY Parts DEF PInv, Sched

LEMMA TaskLoop ==
  ASSUME IInv, pc.at \in RunningPlace
  PROVE  PInv(Sched, shandle, Loop("task"))
BY RunningActive, LoopKeeps DEF Place, RunningPlace

LEMMA CommandStep ==
  ASSUME IInv, CommandVerb
  PROVE  IInv'
<1>1. /\ current = None /\ pc.at = "command" /\ UNCHANGED <<queue, active, waiting, shandle, users>>
      /\ \/ StartCode(Loop("task"))
         \/ pc' = Loop("task") /\ UNCHANGED <<task, current>>
  BY DEF CommandVerb, Idle
<1>2. PInv(Sched, shandle, Loop("task"))
  BY <1>1, TaskLoop DEF RunningPlace
<1>3. CASE StartCode(Loop("task"))
  BY <1>1, <1>2, <1>3, Parts, StartIn
<1>4. CASE pc' = Loop("task") /\ UNCHANGED <<task, current>>
  BY <1>1, <1>2, <1>4, Parts, StepSame DEF All
<1>. QED  BY <1>1, <1>3, <1>4

LEMMA NoLoginStep ==
  ASSUME IInv, NoLogin
  PROVE  IInv'
<1>1. PInv(Sched, shandle, Loop("task"))
  BY TaskLoop DEF NoLogin, Idle, RunningPlace
<1>. QED
  BY <1>1, Parts, StepSame DEF All, NoLogin

LEMMA NextIterationStep ==
  ASSUME IInv, NextIteration
  PROVE  IInv'
<1>1. PInv(Sched, shandle, Loop("io"))
  BY LoopKeeps DEF Place, RunningPlace
<1>. QED
  BY <1>1, Parts, StepSame DEF All, NextIteration

LEMMA CloseStep ==
  ASSUME IInv, NEW c \in Conn, server_close(c)
  PROVE  IInv'
<1>1. /\ current = None /\ c \in Open /\ UNCHANGED <<queue, active, waiting, users>>
      /\ shandle' = [shandle EXCEPT ![c].disconnect_me = TRUE]
      /\ StartCode(At("closing", c, {}))
  BY DEF server_close, Idle
<1>2. shandle' \in [Conn -> Handle]
      /\ \A d \in Conn : /\ shandle'[d].state = shandle[d].state
                         /\ shandle'[d].player = shandle[d].player
                         /\ shandle'[d].tasks = shandle[d].tasks
  BY <1>1, Parts DEF Handle
<1>3. HInv(Sched, shandle') /\ \A d : IsOpen(shandle', d) <=> IsOpen(shandle, d)
  BY <1>2, Parts, FlagsKeep
<1>4. IsOpen(shandle', c)
  BY <1>1, <1>3, OpenInUse
<1>5. PInv(Sched, shandle', At("closing", c, {}))
  BY <1>4, AtKeeps
<1>. QED
  BY <1>1, <1>3, <1>5, StartIn

LEMMA BootStep ==
  ASSUME IInv, NEW c \in Conn, boot_player(c)
  PROVE  IInv'
<1>1. /\ UNCHANGED <<queue, active, waiting, task, current, pc, users>>
      /\ shandle' = [shandle EXCEPT ![c].disconnect_me = TRUE, ![c].booted = TRUE]
  BY DEF boot_player
<1>2. shandle' \in [Conn -> Handle]
      /\ \A d \in Conn : /\ shandle'[d].state = shandle[d].state
                         /\ shandle'[d].player = shandle[d].player
                         /\ shandle'[d].tasks = shandle[d].tasks
  <2>1. shandle \in [Conn -> Handle]
    BY Parts
  <2>2. PICK x \in Handle : x = shandle[c]
    BY <2>1
  <2>3. PICK y : y = [x EXCEPT !.disconnect_me = TRUE, !.booted = TRUE]
    OBVIOUS
  <2>4. y \in Handle /\ y.state = x.state /\ y.player = x.player /\ y.tasks = x.tasks
    BY <2>3 DEF Handle
  <2>5. shandle' = [shandle EXCEPT ![c] = y]
    BY <1>1, <2>1, <2>2, <2>3
  <2>. QED  BY <2>1, <2>2, <2>4, <2>5
<1>3. HInv(Sched, shandle') /\ PInv(Sched, shandle', pc)
  BY <1>2, Parts, FlagsKeep
<1>. QED
  BY <1>1, <1>3, Parts, StepSame DEF All

LEMMA RedirectedStep ==
  ASSUME IInv, Redirected
  PROVE  IInv'
<1>1. /\ current = None /\ pc.at = "redirecting" /\ UNCHANGED <<queue, active, waiting, users>>
      /\ shandle' = [shandle EXCEPT ![pc.conn].disconnect_me = FALSE]
      /\ StartCode(Loop("task"))
  BY DEF Redirected, Idle
<1>2. PICK c \in Conn : c = pc.conn
  BY <1>1, Parts DEF PInv, IsOpen
<1>6. shandle \in [Conn -> Handle] /\ shandle' = [shandle EXCEPT ![c].disconnect_me = FALSE]
  BY <1>1, <1>2, Parts
<1>3. shandle' \in [Conn -> Handle]
      /\ \A d \in Conn : /\ shandle'[d].state = shandle[d].state
                         /\ shandle'[d].player = shandle[d].player
                         /\ shandle'[d].tasks = shandle[d].tasks
  BY <1>6 DEF Handle
<1>4. HInv(Sched, shandle')
  BY <1>3, Parts, FlagsKeep
<1>5. PInv(Sched, shandle', Loop("task"))
  BY <1>1, RunningActive, LoopKeeps DEF Place, RunningPlace
<1>. QED
  BY <1>1, <1>4, <1>5, StartIn

\* Seconds pass.
LEMMA TickStep ==
  ASSUME IInv, Tick
  PROVE  IInv'
<1>1. /\ task' = [t \in TaskId |->
           IF task[t].delay > 0 THEN [task[t] EXCEPT !.delay = @ - 1] ELSE task[t]]
      /\ UNCHANGED <<queue, active, waiting, current, shandle, pc, users>>
  BY DEF Tick
<1>2. ASSUME NEW t \in TaskId
      PROVE  /\ task'[t] \in TaskRecord
             /\ task'[t].kind = task[t].kind /\ task'[t].progr = task[t].progr
  <2>1. task[t] \in TaskRecord
    BY Parts
  <2>2. task'[t] = IF task[t].delay > 0 THEN [task[t] EXCEPT !.delay = @ - 1] ELSE task[t]
    BY <1>1
  <2>. QED  BY <2>1, <2>2 DEF TaskRecord
<1>3. task' \in [TaskId -> TaskRecord]
  BY <1>1, <1>2
<1>4. PICK at : Where(at, Sched, waiting, task, current)
  BY Parts DEF TInv
<1>5. Where(at, Sched, waiting, task', current)
  BY <1>2, <1>4 DEF Where
<1>6. \A t \in TaskId : task'[t].kind # None => task'[t].progr \in Owner
  BY <1>2, Parts DEF TInv
<1>7. TInv(Sched, waiting, task', current)
  BY <1>3, <1>5, <1>6, Parts DEF TInv
<1>8. ToSet(waiting) \subseteq TaskId /\ \A q \in Slot : ToSet(Sched.queue[q].bg) \subseteq TaskId
  BY Parts, SchedTypes DEF ToSet
<1>9. BInv(Sched, waiting, task')
  BY <1>2, <1>8, Parts, BTask
<1>. QED
  BY <1>1, <1>7, <1>9, Parts, StepSame DEF All

-----------------------------------------------------------------------------
(* The steps: connections                                                  *)

\* The connection of queue q comes or goes; a reader is looked after.
SetConnected(S, q, value) == [S EXCEPT !.queue[q].connected = value]

LEMMA SetConnectedIs ==
  ASSUME NEW S \in Scheds, NEW q \in Slot, NEW value \in BOOLEAN,
         NEW U, U = SetConnected(S, q, value)
  PROVE  /\ U \in Scheds /\ U.active = S.active
         /\ \A r \in Slot : r # q => U.queue[r] = S.queue[r]
         /\ U.queue[q].connected = value
         /\ U.queue[q].player = S.queue[q].player
         /\ U.queue[q].input = S.queue[q].input
         /\ U.queue[q].reading = S.queue[q].reading
         /\ U.queue[q].bg = S.queue[q].bg
         /\ U.queue[q].num_bg_tasks = S.queue[q].num_bg_tasks
         /\ U.queue[q].usage = S.queue[q].usage
<1>0. /\ S.queue \in [Slot -> Queue] /\ S.active \in Seq(Slot)
      /\ S = [queue |-> S.queue, active |-> S.active]
  BY SchedTypes
<1>1. PICK x \in Queue : x = S.queue[q]
  BY <1>0
<1>2. PICK r : r = [x EXCEPT !.connected = value]
  OBVIOUS
<1>3. /\ r \in Queue /\ r.connected = value /\ r.player = x.player /\ r.input = x.input
      /\ r.reading = x.reading /\ r.bg = x.bg /\ r.num_bg_tasks = x.num_bg_tasks
      /\ r.usage = x.usage
  BY <1>2 DEF Queue
<1>4. U = [queue |-> [S.queue EXCEPT ![q] = r], active |-> S.active]
  BY <1>0, <1>1, <1>2 DEF SetConnected
<1>5. /\ U \in Scheds /\ U.active = S.active /\ U.queue[q] = r
      /\ \A p \in Slot : p # q => U.queue[p] = S.queue[p]
  BY <1>0, <1>3, <1>4 DEF Scheds
<1>. QED
  BY <1>1, <1>3, <1>5

\* Only whether queue q is connected differs between S and T.
Switched(S, T, q, value) ==
  /\ QInv(T)
  /\ S.active # <<>> => T.active # <<>> /\ Head(T.active) = Head(S.active)
  /\ \A r \in Slot : /\ T.queue[r].player = S.queue[r].player
                     /\ T.queue[r].reading = S.queue[r].reading
                     /\ T.queue[r].bg = S.queue[r].bg
                     /\ T.queue[r].num_bg_tasks = S.queue[r].num_bg_tasks
  /\ \A r \in Slot : r # q => T.queue[r].connected = S.queue[r].connected
  /\ T.queue[q].connected = value

LEMMA Switch ==
  ASSUME NEW S, QInv(S), NEW q \in Slot, S.queue[q].player # None, NEW value \in BOOLEAN,
         NEW U, U = SetConnected(S, q, value)
  PROVE  /\ value \/ S.queue[q].reading = None => Switched(S, U, q, value)
         /\ Switched(S, ensure_usage(U, q), q, value)
<1>1. /\ S \in Scheds /\ Sorted(S) /\ Counted(S) /\ FreeIsEmpty(S) /\ ReadersActive(S)
      /\ OneEach(S) /\ S.active \in Seq(Slot)
  BY SchedTypes DEF QInv
<1>2. /\ U \in Scheds /\ U.active = S.active
      /\ \A r \in Slot : r # q => U.queue[r] = S.queue[r]
      /\ U.queue[q].connected = value
      /\ U.queue[q].player = S.queue[q].player
      /\ U.queue[q].input = S.queue[q].input
      /\ U.queue[q].reading = S.queue[q].reading
      /\ U.queue[q].bg = S.queue[q].bg
      /\ U.queue[q].num_bg_tasks = S.queue[q].num_bg_tasks
      /\ U.queue[q].usage = S.queue[q].usage
  BY <1>1, SetConnectedIs
<1>3. \A i \in DOMAIN S.active : S.active[i] \in Slot
  BY <1>1
<1>4. Sorted(U)
  <2>1. \A r \in Slot : U.queue[r].usage = S.queue[r].usage
    BY <1>2
  <2>. QED  BY <1>1, <1>2, <1>3, <2>1 DEF Sorted
<1>5. Counted(U)
  BY <1>1, <1>2 DEF Counted
<1>6. FreeIsEmpty(U)
  BY <1>1, <1>2 DEF FreeIsEmpty
<1>7. OneEach(U)
  <2>1. \A r \in Slot : U.queue[r].player = S.queue[r].player
    BY <1>2
  <2>. QED  BY <1>1, <2>1 DEF OneEach
<1>8. \A r \in Slot : r # q => ReaderActive(U, r)
  BY <1>1, <1>2 DEF ReadersActive, ReaderActive
<1>9. ASSUME value \/ S.queue[q].reading = None PROVE Switched(S, U, q, value)
  <2>1. ReaderActive(U, q)
    BY <1>1, <1>2, <1>9 DEF ReadersActive, ReaderActive
  <2>2. ReadersActive(U)
    BY <1>8, <2>1 DEF ReadersActive, ReaderActive
  <2>. QED  BY <1>2, <1>4, <1>5, <1>6, <1>7, <2>2 DEF Switched, QInv
<1>10. Switched(S, ensure_usage(U, q), q, value)
  <2>1. PICK T : T = ensure_usage(U, q)
    OBVIOUS
  <2>2. Quiet(U, T)
    BY <1>2, <1>4, <1>5, <1>6, <1>8, <2>1, EnsureKeeps
  <2>3. OneEach(T)
    BY <1>7, <2>2 DEF OneEach, Quiet
  <2>4. Switched(S, T, q, value)
    BY <1>2, <2>2, <2>3 DEF Switched, Quiet, QInv
  <2>. QED  BY <2>1, <2>4
<1>. QED
  BY <1>9, <1>10

\* free_shandle()
LEMMA Disconnect ==
  ASSUME NEW S, NEW h, NEW p, NEW w, NEW tk, NEW cur, All(S, h, p, w, tk, cur),
         NEW c, IsOpen(h, c), NEW T, T = free_task_queue(S, h[c].tasks),
         NEW g, g = [h EXCEPT ![c] = Gone], NEW p2, PInv(T, g, p2)
  PROVE  All(T, g, p2, w, tk, cur)
<1>1. /\ QInv(S) /\ HInv(S, h) /\ TInv(S, w, tk, cur) /\ BInv(S, w, tk)
      /\ c \in Conn /\ h[c].state = "open" /\ h \in [Conn -> Handle]
  BY DEF All, IsOpen, HInv
<1>2. PICK q \in Slot : q = h[c].tasks
  BY <1>1 DEF HInv
<1>3. S.queue[q].player # None /\ S.queue[q].connected
  BY <1>1, <1>2, NumbersAssumption DEF HInv, Owner
<1>12. PICK v \in BOOLEAN : v = FALSE
  OBVIOUS
<1>4. PICK U : U = SetConnected(S, q, v)
  OBVIOUS
<1>13. S \in Scheds
  BY <1>1 DEF QInv
<1>5. U.queue[q].reading = S.queue[q].reading
  BY <1>4, <1>13, SetConnectedIs
<1>6. T = IF U.queue[q].reading # None THEN ensure_usage(U, q) ELSE U
  BY <1>2, <1>4, <1>12 DEF free_task_queue, SetConnected
<1>14. Switched(S, T, q, v)
  BY <1>1, <1>3, <1>4, <1>5, <1>6, Switch
<1>7. Switched(S, T, q, FALSE)
  BY <1>12, <1>14
<1>8. TInv(T, w, tk, cur)
  BY <1>1, <1>7, TSame DEF Switched
<1>9. BInv(T, w, tk)
  BY <1>1, <1>7, BSame DEF Switched
<1>10. /\ g \in [Conn -> Handle]
       /\ \A d : IsOpen(g, d) <=> d # c /\ IsOpen(h, d)
       /\ \A d \in Conn : d # c => g[d] = h[d]
  <2>1. Gone \in Handle /\ Gone.state = "gone"
    <3>1. Unused \in Handle
      BY DEF Unused, Handle, NoQueue
    <3>. QED  BY <3>1 DEF Gone, Handle
  <2>. QED  BY <1>1, <2>1 DEF IsOpen
<1>11. HInv(T, g)
  <2>1. \A d \in Conn : IsOpen(g, d) => h[d].tasks # q /\ h[d].tasks \in Slot
    BY <1>1, <1>2, <1>10 DEF HInv
  <2>2. ASSUME NEW d \in Conn, IsOpen(g, d)
        PROVE  /\ g[d].tasks \in Slot
               /\ T.queue[g[d].tasks].connected
               /\ T.queue[g[d].tasks].player = g[d].player
               /\ g[d].player \in Player \cup {d}
    <3>1. PICK r \in Slot : r = h[d].tasks /\ r # q /\ g[d] = h[d]
      BY <1>10, <2>1, <2>2
    <3>2. S.queue[r].connected /\ S.queue[r].player = h[d].player /\ h[d].player \in Player \cup {d}
      BY <1>1, <1>10, <2>2, <3>1 DEF HInv
    <3>3. T.queue[r].connected /\ T.queue[r].player = S.queue[r].player
      BY <1>7, <3>1, <3>2 DEF Switched
    <3>. QED  BY <3>1, <3>2, <3>3
  <2>3. \A d, e \in Conn : IsOpen(g, d) /\ IsOpen(g, e) /\ g[d].tasks = g[e].tasks => d = e
    BY <1>1, <1>10 DEF HInv
  <2>4. ASSUME NEW r \in Slot, T.queue[r].connected
        PROVE  \E d \in Conn : IsOpen(g, d) /\ g[d].tasks = r
    <3>1. r # q /\ S.queue[r].connected
      BY <1>7, <2>4 DEF Switched
    <3>2. PICK d \in Conn : IsOpen(h, d) /\ h[d].tasks = r
      BY <1>1, <3>1 DEF HInv
    <3>3. d # c
      BY <1>2, <3>1, <3>2
    <3>. QED  BY <1>10, <3>2, <3>3
  <2>. QED  BY <1>10, <2>2, <2>3, <2>4 DEF HInv
<1>. QED
  BY <1>7, <1>8, <1>9, <1>11 DEF All, Switched

LEMMA FreeStep ==
  ASSUME IInv, NEW c, IsOpen(shandle, c), free_shandle(c), UNCHANGED <<waiting, task, current, users>>,
         \/ pc' = Loop("io")
         \/ \E todo : /\ pc' = At("cleanup", None, todo) /\ c \notin todo /\ todo \subseteq Conn
                      /\ \A d \in todo : IsOpen(shandle, d)
  PROVE  IInv'
<1>1. PICK T : T = free_task_queue(Sched, shandle[c].tasks)
  OBVIOUS
<1>2. Becomes(T) /\ shandle' = [shandle EXCEPT ![c] = Gone]
  BY <1>1 DEF free_shandle
<1>3. \A d : IsOpen(shandle, d) /\ d # c => IsOpen(shandle', d)
  BY <1>2, Parts DEF IsOpen
<1>4. PInv(T, shandle', pc')
  <2>1. CASE pc' = Loop("io")
    BY <2>1, LoopKeeps DEF Place, RunningPlace
  <2>2. CASE pc' # Loop("io")
    <3>1. PICK todo : /\ pc' = At("cleanup", None, todo) /\ c \notin todo /\ todo \subseteq Conn
                      /\ \A d \in todo : IsOpen(shandle, d)
      BY <2>2
    <3>2. \A d \in todo : IsOpen(shandle', d)
      BY <1>3, <3>1
    <3>. QED  BY <3>1, <3>2, AtKeeps
  <2>. QED  BY <2>1, <2>2
<1>5. All(T, shandle', pc', waiting, task, current)
  <2>1. All(Sched, shandle, pc, waiting, task, current)
    BY DEF IInv
  <2>2. PICK g, p2 : g = shandle' /\ p2 = pc'
    OBVIOUS
  <2>3. g = [shandle EXCEPT ![c] = Gone] /\ PInv(T, g, p2)
    BY <1>2, <1>4, <2>2
  <2>4. All(T, g, p2, waiting, task, current)
    BY <1>1, <2>1, <2>3, Disconnect
  <2>. QED  BY <2>2, <2>4
<1>. QED
  BY <1>2, <1>5, Parts, StepTo

LEMMA ClosedStep ==
  ASSUME IInv, server_closed
  PROVE  IInv'
<1>1. /\ pc.at = "closing" /\ free_shandle(pc.conn) /\ pc' = Loop("io")
      /\ UNCHANGED <<waiting, task, current, users>>
  BY DEF server_closed, Idle
<1>2. IsOpen(shandle, pc.conn)
  BY <1>1, Parts DEF PInv
<1>. QED
  BY <1>1, <1>2, FreeStep

LEMMA LeftStep ==
  ASSUME IInv, Left
  PROVE  IInv'
<1>1. /\ pc.at = "leaving" /\ free_shandle(pc.conn) /\ pc' = At("cleanup", None, pc.todo)
      /\ UNCHANGED <<waiting, task, current, users>>
  BY DEF Left, Idle
<1>2. /\ IsOpen(shandle, pc.conn) /\ pc.conn \notin pc.todo
      /\ pc.todo \subseteq Conn /\ \A d \in pc.todo : IsOpen(shandle, d)
  BY <1>1, Parts DEF PInv
<1>. QED
  BY <1>1, <1>2, FreeStep

LEMMA CleanupStep ==
  ASSUME IInv, NEW c \in Conn, Cleanup(c)
  PROVE  IInv'
<1>1. /\ current = None /\ c \in pc.todo /\ UNCHANGED <<waiting, users>>
      /\ \/ /\ StartCode(At("leaving", c, pc.todo \ {c}))
            /\ UNCHANGED <<queue, active, shandle>>
         \/ /\ free_shandle(c) /\ pc' = At("cleanup", None, pc.todo \ {c})
            /\ UNCHANGED <<task, current>>
         \/ /\ pc' = At("cleanup", None, pc.todo \ {c})
            /\ UNCHANGED <<queue, active, task, current, shandle>>
  BY DEF Cleanup, Idle
<1>2. PICK todo : todo = pc.todo \ {c}
  OBVIOUS
<1>3. /\ todo \in SUBSET Conn /\ IsOpen(shandle, c) /\ c \notin todo
      /\ \A d \in todo : IsOpen(shandle, d)
  BY <1>1, <1>2, Parts DEF PInv
<1>4. CASE StartCode(At("leaving", c, todo)) /\ UNCHANGED <<queue, active, shandle>>
  <2>1. PInv(Sched, shandle', At("leaving", c, todo))
    BY <1>3, <1>4, AtKeeps
  <2>. QED  BY <1>1, <1>4, <2>1, Parts, StartIn
<1>5. CASE free_shandle(c) /\ pc' = At("cleanup", None, todo) /\ UNCHANGED <<task, current>>
  BY <1>1, <1>3, <1>5, FreeStep
<1>6. CASE pc' = At("cleanup", None, todo) /\ UNCHANGED <<queue, active, task, current, shandle>>
  <2>1. PInv(Sched, shandle', pc')
    BY <1>3, <1>6, AtKeeps
  <2>. QED  BY <1>1, <1>6, <2>1, Parts, StepSame DEF All
<1>. QED
  BY <1>1, <1>2, <1>4, <1>5, <1>6

\* A number that no connection has had yet.
LEMMA NewShandleKeeps ==
  ASSUME IInv, NEW c \in Conn, NEW outbound \in BOOLEAN, NEW greeted \in BOOLEAN,
         NewShandle(c, outbound, greeted), UNCHANGED <<waiting, task, current, pc, users>>
  PROVE  IInv' /\ HeadKept
<1>1. PICK S : S = create_tqueue(Sched, c)
  OBVIOUS
<1>2. PICK q : q = find_tqueue(S, c)
  OBVIOUS
<1>3. /\ shandle[c] = Unused /\ HasRoomFor(Sched, c)
  BY DEF NewShandle
<1>4. c \in Owner /\ c \notin Player
  BY NumbersAssumption DEF Owner
<1>5. /\ All(S, shandle, pc, waiting, task, current)
      /\ q \in Slot /\ S.queue[q].player = c /\ c # None
  BY <1>1, <1>2, <1>3, <1>4, CreateAll
<1>6. /\ QInv(S) /\ HInv(S, shandle) /\ PInv(S, shandle, pc) /\ S \in Scheds
      /\ TInv(S, waiting, task, current) /\ BInv(S, waiting, task)
  BY <1>5 DEF All, QInv
<1>7. PICK v \in BOOLEAN : v = TRUE
  OBVIOUS
<1>8. PICK U : U = SetConnected(S, q, v)
  OBVIOUS
<1>9. U = new_task_queue(Sched, c)
  BY <1>1, <1>2, <1>7, <1>8 DEF new_task_queue, SetConnected
<1>10. Switched(S, U, q, v)
  BY <1>5, <1>6, <1>7, <1>8, Switch
<1>11. QInv(U) /\ U.queue[q].player = c /\ U.queue[q].connected
  BY <1>5, <1>7, <1>10 DEF Switched
<1>12. find_tqueue(U, c) = q
  BY <1>4, <1>5, <1>11, FindIs DEF QInv
<1>13. PICK T : T = IF greeted THEN enqueue_input_task(U, q, Blank, FALSE) ELSE U
  OBVIOUS
<1>14. PICK h : h = [Unused EXCEPT !.state = "open", !.player = c,
                                   !.tasks = q, !.outbound = outbound]
  OBVIOUS
<1>15. Becomes(T) /\ shandle' = [shandle EXCEPT ![c] = h]
  BY <1>9, <1>12, <1>13, <1>14 DEF NewShandle
<1>16. h \in Handle /\ h.state = "open" /\ h.player = c /\ h.tasks = q
  <2>1. Unused \in Handle
    BY DEF Unused, Handle, NoQueue
  <2>. QED  BY <1>4, <1>5, <1>14, <2>1 DEF Handle
<1>17. /\ shandle' \in [Conn -> Handle] /\ shandle'[c] = h
       /\ \A d \in Conn : d # c => shandle'[d] = shandle[d]
  BY <1>15, <1>16, Parts
<1>18. ~IsOpen(shandle, c) /\ \A d : IsOpen(shandle', d) <=> d = c \/ IsOpen(shandle, d)
  BY <1>3, <1>16, <1>17 DEF IsOpen, Unused
<1>19. \A d \in Conn : IsOpen(shandle, d) => shandle[d].tasks # q
  <2>. SUFFICES ASSUME NEW d \in Conn, IsOpen(shandle, d), shandle[d].tasks = q PROVE FALSE
    OBVIOUS
  <2>1. shandle[d].player = c /\ shandle[d].player \in Player \cup {d}
    BY <1>5, <1>6 DEF HInv
  <2>. QED  BY <1>4, <1>18, <2>1
<1>20. HInv(U, shandle')
  <2>1. ASSUME NEW d \in Conn, IsOpen(shandle', d)
        PROVE  /\ shandle'[d].tasks \in Slot
               /\ U.queue[shandle'[d].tasks].connected
               /\ U.queue[shandle'[d].tasks].player = shandle'[d].player
               /\ shandle'[d].player \in Player \cup {d}
    <3>1. CASE d = c
      BY <1>5, <1>11, <1>16, <1>17, <3>1
    <3>2. CASE d # c
      <4>1. PICK r : r = shandle[d].tasks /\ shandle'[d] = shandle[d] /\ IsOpen(shandle, d)
        BY <1>17, <1>18, <2>1, <3>2
      <4>2. r \in Slot /\ r # q /\ S.queue[r].connected /\ S.queue[r].player = shandle[d].player
            /\ shandle[d].player \in Player \cup {d}
        BY <1>6, <1>19, <4>1 DEF HInv
      <4>3. U.queue[r].connected /\ U.queue[r].player = S.queue[r].player
        BY <1>10, <4>2 DEF Switched
      <4>. QED  BY <4>1, <4>2, <4>3
    <3>. QED  BY <3>1, <3>2
  <2>2. \A d, e \in Conn :
          IsOpen(shandle', d) /\ IsOpen(shandle', e) /\ shandle'[d].tasks = shandle'[e].tasks => d = e
    BY <1>6, <1>16, <1>17, <1>18, <1>19 DEF HInv
  <2>3. ASSUME NEW r \in Slot, U.queue[r].connected
        PROVE  \E d \in Conn : IsOpen(shandle', d) /\ shandle'[d].tasks = r
    <3>1. CASE r = q
      BY <1>16, <1>17, <1>18, <3>1
    <3>2. CASE r # q
      <4>1. S.queue[r].connected
        BY <1>10, <2>3, <3>2 DEF Switched
      <4>2. PICK d \in Conn : IsOpen(shandle, d) /\ shandle[d].tasks = r
        BY <1>6, <4>1 DEF HInv
      <4>. QED  BY <1>17, <1>18, <4>2
    <3>. QED  BY <3>1, <3>2
  <2>. QED  BY <1>17, <2>1, <2>2, <2>3 DEF HInv
<1>21. PInv(U, shandle', pc)
  <2>1. PInv(S, shandle', pc)
    BY <1>6, <1>18 DEF PInv
  <2>2. S.active # <<>> => Head(S.active) \in Slot
    BY <1>6, ActiveInUse
  <2>. QED  BY <1>10, <2>1, <2>2, PSame DEF Switched
<1>22. TInv(U, waiting, task, current)
  BY <1>6, <1>10, TSame DEF Switched
<1>23. BInv(U, waiting, task)
  BY <1>6, <1>10, BSame DEF Switched
<1>24. All(U, shandle', pc, waiting, task, current)
  BY <1>11, <1>20, <1>21, <1>22, <1>23 DEF All
<1>25. PICK f \in BOOLEAN : f = FALSE
  OBVIOUS
<1>26. Quiet(U, enqueue_input_task(U, q, Blank, FALSE))
  <2>1. Blank \in Line \cup {Blank} /\ U.queue[q].player # None
    BY <1>5, <1>11
  <2>2. Quiet(U, enqueue_input_task(U, q, Blank, f))
    BY <1>5, <1>11, <2>1, EnqueueQuiet
  <2>. QED  BY <1>25, <2>2
<1>27. All(T, shandle', pc, waiting, task, current)
  BY <1>13, <1>24, <1>26, QuietKeeps
<1>28. HeadKept
  <2>1. S.active = Sched.active
    <3>1. Sched \in Scheds
      BY Parts
    <3>2. Opened(Sched, S, c, q)
      BY <1>1, <1>2, <1>3, <1>4, <3>1, Create
    <3>. QED  BY <3>2 DEF Opened
  <2>2. Leads(S, U)
    BY <1>10 DEF Switched, Leads
  <2>3. Leads(U, T)
    BY <1>13, <1>26 DEF Quiet, Leads
  <2>4. Leads(Sched, T)
    BY <2>1, <2>2, <2>3 DEF Leads
  <2>. QED  BY <1>15, <2>4, LeadsIs
<1>. QED
  BY <1>15, <1>27, <1>28, Parts, StepTo

LEMMA NewConnectionStep ==
  ASSUME IInv, NEW c \in Conn, server_new_connection(c)
  PROVE  IInv'
<1>1. PICK t \in BOOLEAN, f \in BOOLEAN : t = TRUE /\ f = FALSE
  OBVIOUS
<1>2. NewShandle(c, f, t) /\ UNCHANGED <<waiting, task, current, pc, users>>
  BY <1>1 DEF server_new_connection
<1>. QED  BY <1>2, NewShandleKeeps

LEMMA OutboundStep ==
  ASSUME IInv, NEW c \in Conn, open_network_connection(c)
  PROVE  IInv'
<1>1. PICK t \in BOOLEAN : t = TRUE
  OBVIOUS
<1>2. PICK greeted \in BOOLEAN : NewShandle(c, t, greeted)
  BY <1>1 DEF open_network_connection
<1>3. UNCHANGED <<waiting, task, current, pc, users>>
  BY DEF open_network_connection
<1>. QED  BY <1>2, <1>3, NewShandleKeeps

-----------------------------------------------------------------------------
(* The steps: background tasks                                             *)

\* Value v tells where task t is.
IsAt(v, t, S, w, tk, cur) ==
  /\ v = Gone0 <=> tk[t].kind = None
  /\ v = Running <=> cur = t
  /\ v = Waiting <=> t \in ToSet(w)
  /\ \A q \in Slot : /\ v = Reads(q) <=> S.queue[q].reading = t
                     /\ v = Ready(q) <=> t \in ToSet(S.queue[q].bg)
  /\ v \in {Gone0, Running, Waiting} \/ \E q \in Slot : v = Reads(q) \/ v = Ready(q)

LEMMA WhereIs ==
  ASSUME NEW at, NEW S, NEW w, NEW tk, NEW cur
  PROVE  Where(at, S, w, tk, cur) <=> \A t \in TaskId : IsAt(at[t], t, S, w, tk, cur)
BY DEF Where, IsAt

\* All tasks but t are where they were.
Others(t, S, w, tk, cur, T, w2, tk2, cur2) ==
  \A u \in TaskId : u # t =>
    /\ tk2[u] = tk[u]
    /\ cur2 = u <=> cur = u
    /\ u \in ToSet(w2) <=> u \in ToSet(w)
    /\ \A q \in Slot : /\ T.queue[q].reading = u <=> S.queue[q].reading = u
                       /\ u \in ToSet(T.queue[q].bg) <=> u \in ToSet(S.queue[q].bg)

\* Task t moves from one place to another.
LEMMA MoveTask ==
  ASSUME NEW S, NEW w, NEW tk, NEW cur, TInv(S, w, tk, cur),
         NEW t \in TaskId, NEW T, NEW w2, NEW tk2, NEW cur2,
         Others(t, S, w, tk, cur, T, w2, tk2, cur2),
         NEW v, IsAt(v, t, T, w2, tk2, cur2),
         tk2 \in [TaskId -> TaskRecord], tk2[t].kind # None => tk2[t].progr \in Owner,
         cur2 \in TaskId \cup {None}, w2 \in Seq(TaskId), Inj(w2),
         \A q \in Slot : Inj(T.queue[q].bg)
  PROVE  TInv(T, w2, tk2, cur2)
<1>1. PICK at : Where(at, S, w, tk, cur)
  BY DEF TInv
<1>2. PICK at2 : at2 = [u \in TaskId |-> IF u = t THEN v ELSE at[u]]
  OBVIOUS
<1>3. ASSUME NEW u \in TaskId PROVE IsAt(at2[u], u, T, w2, tk2, cur2)
  <2>1. CASE u = t
    BY <1>2, <2>1
  <2>2. CASE u # t
    <3>1. IsAt(at[u], u, S, w, tk, cur) /\ at2[u] = at[u]
      BY <1>1, <1>2, <2>2, WhereIs
    <3>. QED  BY <2>2, <3>1 DEF IsAt, Others
  <2>. QED  BY <2>1, <2>2
<1>4. Where(at2, T, w2, tk2, cur2)
  BY <1>3, WhereIs
<1>5. \A u \in TaskId : tk2[u].kind # None => tk2[u].progr \in Owner
  BY DEF TInv, Others
<1>. QED
  BY <1>4, <1>5 DEF TInv

\* What is known of the place of a task.
LEMMA TaskAt ==
  ASSUME NEW S, NEW w, NEW tk, NEW cur, TInv(S, w, tk, cur), NEW t \in TaskId
  PROVE  \E v : IsAt(v, t, S, w, tk, cur)
BY WhereIs DEF TInv

\* The tasks of queue q change.
Retasked(S, T, q) ==
  /\ T \in Scheds /\ T.active = S.active
  /\ \A r \in Slot : r # q => T.queue[r] = S.queue[r]
  /\ T.queue[q].player = S.queue[q].player
  /\ T.queue[q].connected = S.queue[q].connected
  /\ T.queue[q].input = S.queue[q].input
  /\ T.queue[q].usage = S.queue[q].usage

LEMMA RetaskedKeeps ==
  ASSUME NEW S, NEW h, NEW p, QInv(S), HInv(S, h), PInv(S, h, p),
         NEW q \in Slot, S.queue[q].player # None, NEW T, Retasked(S, T, q),
         ReaderActive(T, q)
  PROVE  QInv(T) /\ HInv(T, h) /\ PInv(T, h, p)
<1>1. /\ S \in Scheds /\ Sorted(S) /\ Counted(S) /\ FreeIsEmpty(S) /\ ReadersActive(S)
      /\ OneEach(S) /\ S.active \in Seq(Slot)
  BY SchedTypes DEF QInv
<1>2. \A r \in Slot : /\ T.queue[r].player = S.queue[r].player
                      /\ T.queue[r].connected = S.queue[r].connected
                      /\ T.queue[r].usage = S.queue[r].usage
  BY DEF Retasked
<1>3. \A i \in DOMAIN S.active : S.active[i] \in Slot
  BY <1>1
<1>4. Sorted(T)
  BY <1>1, <1>2, <1>3 DEF Sorted, Retasked
<1>5. Counted(T)
  BY <1>1, <1>2 DEF Counted, Retasked
<1>6. OneEach(T)
  BY <1>1, <1>2 DEF OneEach
<1>7. FreeIsEmpty(T)
  BY <1>1, <1>2 DEF FreeIsEmpty, Retasked
<1>8. ReadersActive(T)
  <2>. SUFFICES ASSUME NEW r \in Slot PROVE ReaderActive(T, r)
    BY DEF ReadersActive, ReaderActive
  <2>1. CASE r # q
    BY <1>1, <2>1 DEF ReadersActive, ReaderActive, Retasked
  <2>. QED  BY <2>1
<1>9. S.active # <<>> => Head(S.active) \in Slot
  BY ActiveInUse
<1>10. PInv(T, h, p)
  BY <1>2, <1>9, PSame DEF Retasked
<1>11. HInv(T, h)
  BY <1>2, HSame
<1>. QED
  BY <1>4, <1>5, <1>6, <1>7, <1>8, <1>10, <1>11 DEF QInv, Retasked

\* The tasks of queue q, or the waiting tasks of its player, change by t, and
\* so does their number.
In(t, w) == IF t \in ToSet(w) THEN 1 ELSE 0

LEMMA ListIsFinite ==
  ASSUME NEW X, NEW s \in Seq(X)
  PROVE  IsFiniteSet(ToSet(s))
<1>1. PICK n \in Nat : n = Len(s) /\ DOMAIN s = 1..n
  OBVIOUS
<1>2. PICK f : f = [i \in 1..n |-> s[i]]
  OBVIOUS
<1>3. ToSet(s) = {s[i] : i \in 1..n}
  BY <1>1 DEF ToSet
<1>4. f \in Surjection(1..n, ToSet(s))
  BY <1>2, <1>3 DEF Surjection
<1>5. IsFiniteSet(1..n)
  BY FS_Interval
<1>. QED
  BY <1>4, <1>5, FS_Surjection

ButFor(t, w, tk, w2, tk2, o) ==
  /\ ToSet(w2) \ {t} = ToSet(w) \ {t}
  /\ \A u \in TaskId : u # t => tk2[u].progr = tk[u].progr
  /\ t \in ToSet(w) => tk[t].progr = o
  /\ t \in ToSet(w2) => tk2[t].progr = o

Follows(t, w, tk, w2, tk2, o) ==
  /\ Cardinality(Waits(w2, tk2, o)) - In(t, w2) = Cardinality(Waits(w, tk, o)) - In(t, w)
  /\ Cardinality(Waits(w, tk, o)) \in Nat
  /\ Cardinality(Waits(w2, tk2, o)) \in Nat
  /\ \A other : other # o => Waits(w2, tk2, other) = Waits(w, tk, other)

LEMMA Recount ==
  ASSUME NEW w \in Seq(TaskId), NEW w2 \in Seq(TaskId), NEW tk, NEW tk2, NEW o,
         NEW t \in TaskId, ButFor(t, w, tk, w2, tk2, o)
  PROVE  Follows(t, w, tk, w2, tk2, o)
<1>1. PICK A, B : A = Waits(w, tk, o) /\ B = Waits(w2, tk2, o)
  OBVIOUS
<1>2. ToSet(w) \subseteq TaskId /\ ToSet(w2) \subseteq TaskId
  BY DEF ToSet
<1>3. A \ {t} = B \ {t} /\ (t \in A <=> t \in ToSet(w)) /\ (t \in B <=> t \in ToSet(w2))
  BY <1>1, <1>2 DEF Waits, ButFor
<1>4. IsFiniteSet(ToSet(w)) /\ IsFiniteSet(ToSet(w2))
  BY ListIsFinite
<1>5. IsFiniteSet(A) /\ IsFiniteSet(B)
  <2>1. A \subseteq ToSet(w) /\ B \subseteq ToSet(w2)
    BY <1>1 DEF Waits
  <2>. QED  BY <1>4, <2>1, FS_Subset
<1>6. PICK C : C = A \ {t}
  OBVIOUS
<1>7. /\ Cardinality(C) = Cardinality(A) - In(t, w)
      /\ Cardinality(C) = Cardinality(B) - In(t, w2)
  <2>1. Cardinality(A) \in Nat /\ Cardinality(B) \in Nat
    BY <1>5, FS_CardinalityType
  <2>2. Cardinality(A \ {t}) = IF t \in A THEN Cardinality(A) - 1 ELSE Cardinality(A)
    BY <1>5, FS_RemoveElement
  <2>3. Cardinality(B \ {t}) = IF t \in B THEN Cardinality(B) - 1 ELSE Cardinality(B)
    BY <1>5, FS_RemoveElement
  <2>4. PICK a \in Nat, b \in Nat : a = Cardinality(A) /\ b = Cardinality(B)
    BY <2>1
  <2>5. Cardinality(C) = IF t \in A THEN a - 1 ELSE a
    BY <1>6, <2>2, <2>4
  <2>6. Cardinality(C) = IF t \in B THEN b - 1 ELSE b
    BY <1>3, <1>6, <2>3, <2>4
  <2>7. Cardinality(C) = a - In(t, w)
    BY <1>3, <2>5 DEF In
  <2>8. Cardinality(C) = b - In(t, w2)
    BY <1>3, <2>6 DEF In
  <2>. QED  BY <2>4, <2>7, <2>8
<1>8. \A other : other # o => Waits(w2, tk2, other) = Waits(w, tk, other)
  BY <1>2 DEF Waits, ButFor
<1>9. Cardinality(A) \in Nat /\ Cardinality(B) \in Nat
  BY <1>5, FS_CardinalityType
<1>. QED
  BY <1>1, <1>7, <1>8, <1>9 DEF Follows

LEMMA Recounted ==
  ASSUME NEW S \in Scheds, OneEach(S), NEW w \in Seq(TaskId), NEW tk, BInv(S, w, tk),
         NEW q \in Slot, S.queue[q].player \in Owner, NEW T, Retasked(S, T, q),
         NEW w2 \in Seq(TaskId), NEW tk2, NEW t \in TaskId,
         ButFor(t, w, tk, w2, tk2, S.queue[q].player),
         t \in ToSet(T.queue[q].bg) => tk2[t].progr = S.queue[q].player,
         \A r \in Slot : r # q => t \notin ToSet(S.queue[r].bg),
         ToSet(T.queue[q].bg) \ {t} = ToSet(S.queue[q].bg) \ {t},
         T.queue[q].num_bg_tasks = S.queue[q].num_bg_tasks
           + (Len(T.queue[q].bg) - Len(S.queue[q].bg)) + (In(t, w2) - In(t, w)),
         T.queue[q].num_bg_tasks <= queued_task_limit
  PROVE  BInv(T, w2, tk2)
<1>1. PICK o : o = S.queue[q].player /\ o \in Owner
  OBVIOUS
<1>2. /\ Cardinality(Waits(w2, tk2, o)) - In(t, w2) = Cardinality(Waits(w, tk, o)) - In(t, w)
      /\ Cardinality(Waits(w, tk, o)) \in Nat
      /\ Cardinality(Waits(w2, tk2, o)) \in Nat
      /\ \A other : other # o => Waits(w2, tk2, other) = Waits(w, tk, other)
  BY <1>1, Recount DEF Follows
<1>3. /\ \A r \in Slot : r # q => T.queue[r] = S.queue[r] /\ S.queue[r].player # o
      /\ T.queue[q].player = o /\ T \in Scheds /\ o # None
  BY <1>1, NumbersAssumption DEF Retasked, OneEach
<1>4. /\ ToSet(w) \subseteq TaskId /\ ToSet(w2) \subseteq TaskId
      /\ \A r \in Slot : ToSet(S.queue[r].bg) \subseteq TaskId
      /\ \A r \in Slot : ToSet(T.queue[r].bg) \subseteq TaskId
  BY <1>3, SchedTypes DEF ToSet
<1>5. T.queue[q].num_bg_tasks = Len(T.queue[q].bg) + Cardinality(Waits(w2, tk2, o))
  <2>1. PICK a \in Nat, b \in Nat, i \in Int, j \in Int, m \in Int, n \in Int, k \in Int, l \in Int :
          /\ a = Cardinality(Waits(w, tk, o)) /\ b = Cardinality(Waits(w2, tk2, o))
          /\ i = In(t, w) /\ j = In(t, w2)
          /\ m = S.queue[q].num_bg_tasks /\ n = T.queue[q].num_bg_tasks
          /\ k = Len(S.queue[q].bg) /\ l = Len(T.queue[q].bg)
    <3>1. Len(S.queue[q].bg) \in Int /\ Len(T.queue[q].bg) \in Int
      <4>1. S.queue[q].bg \in Seq(TaskId) /\ T.queue[q].bg \in Seq(TaskId)
        BY <1>3, SchedTypes
      <4>. QED  BY <4>1
    <3>2. S.queue[q].num_bg_tasks \in Int /\ T.queue[q].num_bg_tasks \in Int
      BY <1>3, SchedTypes
    <3>3. In(t, w) \in Int /\ In(t, w2) \in Int
      BY DEF In
    <3>. QED  BY <1>2, <3>1, <3>2, <3>3
  <2>2. b - j = a - i /\ m = k + a /\ n = m + (l - k) + (j - i)
    BY <1>1, <1>2, <1>3, <2>1 DEF BInv
  <2>3. n = l + b
    <3>1. /\ a \in Nat /\ b \in Nat /\ i \in Int /\ j \in Int
          /\ m \in Int /\ n \in Int /\ k \in Int /\ l \in Int
      BY <2>1
    <3>2. b = a - i + j /\ n = k + a + (l - k) + (j - i)
      BY <2>2, <3>1
    <3>. QED  BY <3>1, <3>2
  <2>. QED  BY <2>1, <2>3
<1>6. \A r \in Slot : T.queue[r].player # None =>
        T.queue[r].num_bg_tasks
          = Len(T.queue[r].bg) + Cardinality(Waits(w2, tk2, T.queue[r].player))
  <2>. SUFFICES ASSUME NEW r \in Slot, T.queue[r].player # None
                PROVE  T.queue[r].num_bg_tasks
                         = Len(T.queue[r].bg) + Cardinality(Waits(w2, tk2, T.queue[r].player))
    OBVIOUS
  <2>1. CASE r = q
    BY <1>3, <1>5, <2>1
  <2>2. CASE r # q
    <3>1. T.queue[r] = S.queue[r] /\ S.queue[r].player # o
      BY <1>3, <2>2
    <3>2. Waits(w2, tk2, S.queue[r].player) = Waits(w, tk, S.queue[r].player)
      BY <1>2, <3>1
    <3>. QED  BY <3>1, <3>2 DEF BInv
  <2>. QED  BY <2>1, <2>2
<1>7. \A u \in ToSet(w2) : \E r \in Slot : T.queue[r].player = tk2[u].progr
  <2>. SUFFICES ASSUME NEW u \in ToSet(w2)
                PROVE  \E r \in Slot : T.queue[r].player = tk2[u].progr
    OBVIOUS
  <2>1. CASE u = t
    BY <1>1, <1>3, <2>1 DEF ButFor
  <2>2. CASE u # t
    <3>1. u \in ToSet(w) /\ tk2[u].progr = tk[u].progr
      BY <1>4, <2>2 DEF ButFor
    <3>2. PICK r \in Slot : S.queue[r].player = tk[u].progr
      BY <3>1 DEF BInv
    <3>. QED  BY <1>1, <1>3, <3>1, <3>2
  <2>. QED  BY <2>1, <2>2
<1>8. \A r \in Slot : \A u \in ToSet(T.queue[r].bg) : tk2[u].progr = T.queue[r].player
  <2>. SUFFICES ASSUME NEW r \in Slot, NEW u \in ToSet(T.queue[r].bg)
                PROVE  tk2[u].progr = T.queue[r].player
    OBVIOUS
  <2>1. CASE r # q
    <3>1. T.queue[r] = S.queue[r] /\ u # t /\ u \in TaskId
      BY <1>3, <1>4, <2>1
    <3>. QED  BY <3>1 DEF BInv, ButFor
  <2>2. CASE r = q /\ u = t
    BY <1>1, <1>3, <2>2
  <2>3. CASE r = q /\ u # t
    <3>1. u \in ToSet(S.queue[q].bg) /\ u \in TaskId
      BY <1>4, <2>3
    <3>2. tk[u].progr = o
      BY <1>1, <3>1 DEF BInv
    <3>. QED  BY <1>3, <2>3, <3>1, <3>2 DEF ButFor
  <2>. QED  BY <2>1, <2>2, <2>3
<1>9. \A r \in Slot : T.queue[r].num_bg_tasks <= queued_task_limit
  BY <1>3 DEF BInv
<1>. QED
  BY <1>6, <1>7, <1>8, <1>9 DEF BInv

\* enqueue_waiting() puts the task somewhere in the list, behind those that
\* start no later.
InOrderOf(w, tk) == \A i, j \in DOMAIN w : i < j => tk[w[i]].delay <= tk[w[j]].delay

LEMMA Placed ==
  ASSUME IInv, NEW t \in TaskId, t \notin ToSet(waiting), NEW delay \in Nat,
         NEW tk2 \in [TaskId -> TaskRecord], tk2[t].delay = delay,
         \A u \in TaskId : u # t => tk2[u] = task[u],
         NEW w2, w2 = PlaceInWaiting(t, delay)
  PROVE  /\ w2 \in Seq(TaskId) /\ Inj(w2) /\ ToSet(w2) = ToSet(waiting) \cup {t}
         /\ InOrderOf(waiting, task) => InOrderOf(w2, tk2)
<1>1. /\ waiting \in Seq(TaskId) /\ task \in [TaskId -> TaskRecord] /\ Inj(waiting)
      /\ \A i \in DOMAIN waiting : waiting[i] \in TaskId /\ waiting[i] # t
  BY Parts DEF TInv, ToSet
<1>2. PICK key : key = [u \in TaskId |-> tk2[u].delay]
  OBVIOUS
<1>3. key \in [TaskId -> Int] /\ key[t] = delay /\ \A u \in TaskId : key[u] = tk2[u].delay
  BY <1>2 DEF TaskRecord
<1>4. PICK n : n = Cardinality({i \in DOMAIN waiting : key[waiting[i]] <= key[t]})
  OBVIOUS
<1>5. {i \in DOMAIN waiting : task[waiting[i]].delay <= delay}
        = {i \in DOMAIN waiting : key[waiting[i]] <= key[t]}
  BY <1>1, <1>3
<1>6. w2 = InsertAt(waiting, n + 1, t) /\ n + 1 \in 1..(Len(waiting) + 1)
      /\ (Ascends(waiting, key) => Ascends(w2, key))
  <2>1. PICK s : s = InsertAt(waiting, n + 1, t)
    OBVIOUS
  <2>2. /\ n + 1 \in 1..(Len(waiting) + 1)
        /\ Ascends(waiting, key) => Ascends(s, key)
    BY <1>1, <1>3, <1>4, <2>1, InsertBehind
  <2>5. n \in Nat
    <3>1. PICK D : D = {i \in DOMAIN waiting : key[waiting[i]] <= key[t]}
      OBVIOUS
    <3>2. D \subseteq 1..Len(waiting) /\ Len(waiting) \in Nat
      BY <1>1, <3>1
    <3>3. IsFiniteSet(1..Len(waiting))
      BY <3>2, FS_Interval
    <3>4. IsFiniteSet(D)
      BY <3>2, <3>3, FS_Subset
    <3>. QED  BY <1>4, <3>1, <3>4, FS_CardinalityType
  <2>3. 1 + n = n + 1
    BY <2>5
  <2>4. w2 = InsertAt(waiting, 1 + n, t)
    BY <1>4, <1>5 DEF PlaceInWaiting
  <2>. QED  BY <2>1, <2>2, <2>3, <2>4
<1>7. w2 \in Seq(TaskId) /\ Inj(w2) /\ ToSet(w2) = ToSet(waiting) \cup {t}
  BY <1>1, <1>6, InsertAtInj
<1>8. ASSUME InOrderOf(waiting, task) PROVE InOrderOf(w2, tk2)
  <2>1. Ascends(waiting, key)
    BY <1>1, <1>3, <1>8 DEF Ascends, InOrderOf
  <2>2. Ascends(w2, key) /\ \A i \in DOMAIN w2 : w2[i] \in TaskId
    BY <1>6, <1>7, <2>1
  <2>. QED  BY <1>3, <2>2 DEF Ascends, InOrderOf
<1>. QED
  BY <1>7, <1>8

\* What a queue counts.
WithCount(S, q, n) == [S EXCEPT !.queue[q].num_bg_tasks = n]

LEMMA CountIs ==
  ASSUME NEW S \in Scheds, NEW q \in Slot, NEW n \in Int, NEW T, T = WithCount(S, q, n)
  PROVE  /\ Retasked(S, T, q)
         /\ T.queue[q].reading = S.queue[q].reading
         /\ T.queue[q].bg = S.queue[q].bg
         /\ T.queue[q].num_bg_tasks = n
<1>0. /\ S.queue \in [Slot -> Queue] /\ S.active \in Seq(Slot)
      /\ S = [queue |-> S.queue, active |-> S.active]
  BY SchedTypes
<1>1. PICK x \in Queue : x = S.queue[q]
  BY <1>0
<1>2. PICK r : r = [x EXCEPT !.num_bg_tasks = n]
  OBVIOUS
<1>3. /\ r \in Queue /\ r.num_bg_tasks = n /\ r.player = x.player /\ r.connected = x.connected
      /\ r.reading = x.reading /\ r.bg = x.bg /\ r.input = x.input /\ r.usage = x.usage
  BY <1>2 DEF Queue
<1>4. T = [queue |-> [S.queue EXCEPT ![q] = r], active |-> S.active]
  BY <1>0, <1>1, <1>2 DEF WithCount
<1>5. /\ T \in Scheds /\ T.active = S.active /\ T.queue[q] = r
      /\ \A p \in Slot : p # q => T.queue[p] = S.queue[p]
  BY <1>0, <1>3, <1>4 DEF Scheds
<1>. QED
  BY <1>1, <1>3, <1>5 DEF Retasked

\* fork and suspend(): task t, which is new or runs, waits.
LEMMA CountKeeps ==
  ASSUME IInv, NEW o \in Owner, HasRoomFor(Sched, o), check_user_task_limit(o),
         NEW t \in TaskId, NEW delay \in Nat, NEW w2, w2 = PlaceInWaiting(t, delay),
         NEW tk2 \in [TaskId -> TaskRecord], tk2[t].delay = delay,
         tk2[t].progr = o, tk2[t].kind # None,
         \A u \in TaskId : u # t => tk2[u] = task[u], NEW cur2,
         (task[t].kind = None /\ cur2 = current) \/ (current = t /\ cur2 = None),
         NEW T, T = CountWaiting(Sched, o)
  PROVE  All(T, shandle, pc, w2, tk2, cur2)
<1>1. PICK S : S = create_tqueue(Sched, o)
  OBVIOUS
<1>2. PICK q : q = find_tqueue(S, o)
  OBVIOUS
<1>3. /\ QInv(S) /\ HInv(S, shandle) /\ PInv(S, shandle, pc) /\ S \in Scheds
      /\ TInv(S, waiting, task, current) /\ BInv(S, waiting, task)
      /\ q \in Slot /\ S.queue[q].player = o /\ o # None
  BY <1>1, <1>2, CreateAll DEF All, QInv
<1>4. S.queue[q].num_bg_tasks < queued_task_limit
  <2>1. CASE find_tqueue(Sched, o) # NoQueue
    <3>1. S = Sched
      BY <1>1, <2>1 DEF create_tqueue
    <3>. QED  BY <1>2, <2>1, <3>1 DEF check_user_task_limit, Sched
  <2>2. CASE find_tqueue(Sched, o) = NoQueue
    <3>1. Opened(Sched, S, o, q)
      BY <1>1, <1>2, Parts, Create
    <3>2. \A r \in Slot : Sched.queue[r].player # o
      BY <2>2, Find DEF NoQueue, Slot
    <3>3. S.queue = [Sched.queue EXCEPT ![q] = NewQueue(o)] /\ Sched.queue \in [Slot -> Queue]
      BY <1>3, <3>1, <3>2, Parts, SchedTypes DEF Opened
    <3>4. S.queue[q].num_bg_tasks = 0
      <4>1. NewQueue(o).num_bg_tasks = 0
        BY NewQueueIs
      <4>. QED  BY <1>3, <3>3, <4>1
    <3>5. 0 < queued_task_limit
      BY <2>2 DEF check_user_task_limit
    <3>. QED  BY <3>4, <3>5
  <2>. QED  BY <2>1, <2>2
<1>17. S.queue[q].num_bg_tasks \in Int
  BY <1>3, SchedTypes
<1>18. PICK m \in Int : m = S.queue[q].num_bg_tasks
  BY <1>17
<1>19. PICK n \in Int : n = m + 1
  OBVIOUS
<1>5. n = S.queue[q].num_bg_tasks + 1 /\ S.queue[q].num_bg_tasks \in Int
  BY <1>18, <1>19
<1>6. T = WithCount(S, q, n)
  BY <1>1, <1>2, <1>3, <1>5 DEF CountWaiting, WithCount, Scheds
<1>7. /\ Retasked(S, T, q)
      /\ T.queue[q].reading = S.queue[q].reading
      /\ T.queue[q].bg = S.queue[q].bg
      /\ T.queue[q].num_bg_tasks = n
  BY <1>3, <1>5, <1>6, CountIs
<1>8. ReaderActive(T, q)
  BY <1>3, <1>7 DEF QInv, ReadersActive, ReaderActive, Retasked
<1>9. QInv(T) /\ HInv(T, shandle) /\ PInv(T, shandle, pc)
  BY <1>3, <1>7, <1>8, RetaskedKeeps
<1>10. PICK v : IsAt(v, t, S, waiting, task, current)
  BY <1>3, TaskAt
<1>11. v \in {Gone0, Running} /\ t # None
  BY <1>10, NumbersAssumption DEF IsAt
<1>12. /\ t \notin ToSet(waiting)
       /\ \A r \in Slot : S.queue[r].reading # t /\ t \notin ToSet(S.queue[r].bg)
  BY <1>10, <1>11 DEF IsAt, Gone0, Running, Waiting, Reads, Ready
<1>13. w2 \in Seq(TaskId) /\ Inj(w2) /\ ToSet(w2) = ToSet(waiting) \cup {t}
  BY <1>12, Placed
<1>14. \A r \in Slot : T.queue[r].reading = S.queue[r].reading /\ T.queue[r].bg = S.queue[r].bg
  BY <1>7 DEF Retasked
<1>15. TInv(T, w2, tk2, cur2)
  <2>1. cur2 \in TaskId \cup {None} /\ cur2 # t
    BY <1>3, <1>10, <1>11 DEF TInv, IsAt, Gone0, Running
  <2>2. Others(t, S, waiting, task, current, T, w2, tk2, cur2)
    <3>1. \A u \in TaskId : u # t => (cur2 = u <=> current = u)
      BY NumbersAssumption
    <3>. QED  BY <1>13, <1>14, <3>1 DEF Others
  <2>3. IsAt(Waiting, t, T, w2, tk2, cur2)
    BY <1>12, <1>13, <1>14, <2>1 DEF IsAt, Gone0, Running, Waiting, Reads, Ready
  <2>4. \A r \in Slot : Inj(T.queue[r].bg)
    BY <1>3, <1>14 DEF TInv
  <2>. QED  BY <1>3, <1>13, <2>1, <2>2, <2>3, <2>4, MoveTask
<1>16. BInv(T, w2, tk2)
  <2>1. ButFor(t, waiting, task, w2, tk2, S.queue[q].player)
    BY <1>3, <1>12, <1>13 DEF ButFor
  <2>2. In(t, w2) = 1 /\ In(t, waiting) = 0
    BY <1>12, <1>13 DEF In
  <2>3. T.queue[q].num_bg_tasks <= queued_task_limit
    BY <1>4, <1>5, <1>7, TasksAssumption
  <2>4. T.queue[q].num_bg_tasks = S.queue[q].num_bg_tasks
          + (Len(T.queue[q].bg) - Len(S.queue[q].bg)) + (In(t, w2) - In(t, waiting))
    <3>1. PICK k \in Nat : k = Len(S.queue[q].bg) /\ k = Len(T.queue[q].bg)
      <4>1. S.queue[q].bg \in Seq(TaskId)
        BY <1>3, SchedTypes
      <4>. QED  BY <1>7, <4>1
    <3>. QED  BY <1>5, <1>7, <2>2, <3>1
  <2>5. t \notin ToSet(T.queue[q].bg) /\ ToSet(T.queue[q].bg) = ToSet(S.queue[q].bg)
    BY <1>3, <1>7, <1>12
  <2>6. OneEach(S) /\ waiting \in Seq(TaskId)
    BY <1>3, Parts DEF QInv
  <2>. QED  BY <1>3, <1>7, <1>12, <1>13, <2>1, <2>3, <2>4, <2>5, <2>6, Recounted
<1>. QED
  BY <1>9, <1>15, <1>16 DEF All

LEMMA ForkStep ==
  ASSUME IInv, NEW delay \in Delay, Fork(delay)
  PROVE  IInv'
<1>1. PICK o, T : o = progr /\ T = CountWaiting(Sched, progr)
  OBVIOUS
<1>2. /\ current # None /\ check_user_task_limit(o) /\ HasRoomFor(Sched, o)
      /\ Becomes(T) /\ UNCHANGED <<current, shandle, pc, users>>
  BY <1>1 DEF Fork, Calls
<1>3. PICK t \in Fresh :
        /\ task' = [task EXCEPT ![t] =
                      [kind |-> "TASK_FORKED", progr |-> o, delay |-> delay]]
        /\ waiting' = PlaceInWaiting(t, delay)
  BY <1>1 DEF Fork
<1>4. o \in Owner /\ delay \in Nat /\ t \in TaskId /\ task[t].kind = None
  BY <1>1, <1>2, CurrentIs, TasksAssumption DEF Fresh
<1>5. PICK r : r = [kind |-> "TASK_FORKED", progr |-> o, delay |-> delay]
  OBVIOUS
<1>6. r \in TaskRecord /\ r.kind # None /\ r.progr = o /\ r.delay = delay
  BY <1>4, <1>5 DEF TaskRecord, None
<1>7. /\ task' \in [TaskId -> TaskRecord] /\ task'[t] = r
      /\ \A u \in TaskId : u # t => task'[u] = task[u]
  BY <1>3, <1>4, <1>5, <1>6, Parts
<1>9. PICK w2, tk2, cur2 : w2 = waiting' /\ tk2 = task' /\ cur2 = current
  OBVIOUS
<1>10. /\ w2 = PlaceInWaiting(t, delay) /\ tk2 \in [TaskId -> TaskRecord]
       /\ tk2[t].delay = delay /\ tk2[t].progr = o /\ tk2[t].kind # None
       /\ \A u \in TaskId : u # t => tk2[u] = task[u]
       /\ task[t].kind = None /\ cur2 = current
  BY <1>3, <1>4, <1>6, <1>7, <1>9
<1>11. All(T, shandle, pc, w2, tk2, cur2)
  BY <1>1, <1>2, <1>4, <1>10, CountKeeps
<1>8. All(T, shandle, pc, waiting', task', current)
  BY <1>9, <1>11
<1>. QED
  BY <1>2, <1>8, Parts, StepTo

\* Suspended(): the main loop goes on with the running task's queue.
LEMMA SuspendedKeeps ==
  ASSUME NEW S, PInv(S, shandle, pc), Suspended
  PROVE  PInv(S, shandle, pc') /\ current' = None
<1>1. CASE pc.at \in {"login", "command"}
  <2>1. pc' = Loop("task") /\ S.active # <<>>
    BY <1>1 DEF Suspended, PInv, RunningPlace
  <2>2. PInv(S, shandle, Loop("task"))
    BY <2>1, LoopKeeps DEF Place, RunningPlace
  <2>. QED  BY <2>1, <2>2 DEF Suspended
<1>2. CASE pc.at \notin {"login", "command"}
  BY <1>2 DEF Suspended
<1>. QED  BY <1>1, <1>2

LEMMA SuspendStep ==
  ASSUME IInv, NEW delay \in Delay, suspend(delay)
  PROVE  IInv'
<1>1. PICK o, T, t : o = progr /\ T = CountWaiting(Sched, progr) /\ t = current
  OBVIOUS
<1>2. /\ t # None /\ check_user_task_limit(o) /\ HasRoomFor(Sched, o)
      /\ task' = [task EXCEPT ![t].delay = delay]
      /\ waiting' = PlaceInWaiting(t, delay)
      /\ Becomes(T) /\ Suspended /\ UNCHANGED <<shandle, users>>
  BY <1>1 DEF suspend, Calls
<1>3. /\ o \in Owner /\ delay \in Nat /\ t \in TaskId /\ task[t].kind # None
      /\ task[t] \in TaskRecord /\ task[t].progr = o /\ task \in [TaskId -> TaskRecord]
  BY <1>1, <1>2, CurrentIs, TasksAssumption, Parts DEF progr
<1>4. PICK r : r = [task[t] EXCEPT !.delay = delay]
  OBVIOUS
<1>5. r \in TaskRecord /\ r.kind # None /\ r.progr = o /\ r.delay = delay
  BY <1>3, <1>4 DEF TaskRecord
<1>6. /\ task' \in [TaskId -> TaskRecord] /\ task'[t] = r
      /\ \A u \in TaskId : u # t => task'[u] = task[u]
  BY <1>2, <1>3, <1>4, <1>5
<1>7. All(T, shandle, pc, waiting', task', None)
  <2>1. PICK w2, tk2, cur2 : w2 = waiting' /\ tk2 = task' /\ cur2 = None
    OBVIOUS
  <2>2. /\ w2 = PlaceInWaiting(t, delay) /\ tk2 \in [TaskId -> TaskRecord]
        /\ tk2[t].delay = delay /\ tk2[t].progr = o /\ tk2[t].kind # None
        /\ \A u \in TaskId : u # t => tk2[u] = task[u]
    BY <1>2, <1>5, <1>6, <2>1
  <2>3. current = t /\ cur2 = None /\ T = CountWaiting(Sched, o)
    BY <1>1, <2>1
  <2>4. All(T, shandle, pc, w2, tk2, cur2)
    BY <1>2, <1>3, <2>2, <2>3, CountKeeps
  <2>. QED  BY <2>1, <2>4
<1>8. PInv(T, shandle, pc') /\ current' = None
  BY <1>2, <1>7, SuspendedKeeps DEF All
<1>9. All(T, shandle, pc', waiting', task', current')
  BY <1>7, <1>8 DEF All
<1>. QED
  BY <1>2, <1>9, Parts, StepTo

\* Task t of queue q, which waits, is ready or reads, ends or is run.
Taken(t, q, S, w, tk, cur, T, w2, tk2, cur2) ==
  /\ w2 \in Seq(TaskId) /\ Inj(w2) /\ ToSet(w2) = ToSet(w) \ {t}
  /\ Inj(T.queue[q].bg) /\ ToSet(T.queue[q].bg) = ToSet(S.queue[q].bg) \ {t}
  /\ T.queue[q].reading = IF S.queue[q].reading = t THEN None ELSE S.queue[q].reading
  /\ T.queue[q].num_bg_tasks <= S.queue[q].num_bg_tasks
  /\ T.queue[q].num_bg_tasks = S.queue[q].num_bg_tasks
       + (Len(T.queue[q].bg) - Len(S.queue[q].bg)) + (In(t, w2) - In(t, w))
  /\ \/ t \in ToSet(w) /\ tk[t].progr = S.queue[q].player
     \/ t \in ToSet(S.queue[q].bg)
     \/ S.queue[q].reading = t
  /\ tk2 \in [TaskId -> TaskRecord] /\ \A u \in TaskId : u # t => tk2[u] = tk[u]
  /\ \/ tk2[t].kind = None /\ cur2 = cur
     \/ tk2[t].kind # None /\ tk2[t].progr = tk[t].progr /\ cur = None /\ cur2 = t

LEMMA TakeKeeps ==
  ASSUME NEW S, NEW h, NEW p, NEW w, NEW tk, NEW cur, All(S, h, p, w, tk, cur),
         NEW t \in TaskId, NEW q \in Slot, S.queue[q].player # None,
         NEW T, Retasked(S, T, q), NEW w2, NEW tk2, NEW cur2,
         Taken(t, q, S, w, tk, cur, T, w2, tk2, cur2)
  PROVE  All(T, h, p, w2, tk2, cur2)
<1>1. /\ QInv(S) /\ HInv(S, h) /\ PInv(S, h, p) /\ S \in Scheds
      /\ TInv(S, w, tk, cur) /\ BInv(S, w, tk) /\ w \in Seq(TaskId)
      /\ tk \in [TaskId -> TaskRecord] /\ OneEach(S) /\ T \in Scheds
      /\ cur \in TaskId \cup {None} /\ t # None
  BY NumbersAssumption DEF All, QInv, TInv, Retasked
<1>2. ReaderActive(T, q)
  BY <1>1 DEF QInv, ReadersActive, ReaderActive, Retasked, Taken
<1>3. QInv(T) /\ HInv(T, h) /\ PInv(T, h, p)
  BY <1>1, <1>2, RetaskedKeeps
<1>4. PICK v : IsAt(v, t, S, w, tk, cur)
  BY <1>1, TaskAt
<1>5. v \in {Waiting, Ready(q), Reads(q)}
  BY <1>4 DEF IsAt, Taken
<1>6. tk[t].kind # None /\ tk[t].progr \in Owner /\ cur # t
  BY <1>1, <1>4, <1>5 DEF IsAt, Gone0, Running, Waiting, Reads, Ready, TInv
<1>7. \A r \in Slot : r # q => S.queue[r].reading # t /\ t \notin ToSet(S.queue[r].bg)
  BY <1>4, <1>5 DEF IsAt, Waiting, Reads, Ready
<1>8. \A r \in Slot : r # q => T.queue[r] = S.queue[r]
  BY DEF Retasked
<1>9. TInv(T, w2, tk2, cur2)
  <2>1. Others(t, S, w, tk, cur, T, w2, tk2, cur2)
    <3>. SUFFICES ASSUME NEW u \in TaskId, u # t
                  PROVE  /\ tk2[u] = tk[u]
                         /\ cur2 = u <=> cur = u
                         /\ u \in ToSet(w2) <=> u \in ToSet(w)
                         /\ \A r \in Slot :
                              /\ T.queue[r].reading = u <=> S.queue[r].reading = u
                              /\ u \in ToSet(T.queue[r].bg) <=> u \in ToSet(S.queue[r].bg)
      BY DEF Others
    <3>1. tk2[u] = tk[u] /\ (u \in ToSet(w2) <=> u \in ToSet(w))
      BY DEF Taken
    <3>2. u # None
      BY NumbersAssumption
    <3>3. cur2 = u <=> cur = u
      BY <3>2 DEF Taken
    <3>4. ASSUME NEW r \in Slot
          PROVE  /\ T.queue[r].reading = u <=> S.queue[r].reading = u
                 /\ u \in ToSet(T.queue[r].bg) <=> u \in ToSet(S.queue[r].bg)
      <4>1. CASE r = q
        BY <3>2, <4>1 DEF Taken
      <4>2. CASE r # q
        BY <1>8, <4>2
      <4>. QED  BY <4>1, <4>2
    <3>. QED  BY <3>1, <3>3, <3>4
  <2>2. /\ t \notin ToSet(w2)
        /\ \A r \in Slot : T.queue[r].reading # t /\ t \notin ToSet(T.queue[r].bg)
    <3>1. t \notin ToSet(w2) /\ T.queue[q].reading # t /\ t \notin ToSet(T.queue[q].bg)
      BY <1>1 DEF Taken
    <3>. QED  BY <1>7, <1>8, <3>1
  <2>3. \A r \in Slot : Inj(T.queue[r].bg)
    BY <1>1, <1>8 DEF TInv, Taken
  <2>4. \E v2 : IsAt(v2, t, T, w2, tk2, cur2)
    <3>1. CASE tk2[t].kind = None /\ cur2 = cur
      <4>1. IsAt(Gone0, t, T, w2, tk2, cur2)
        BY <1>6, <2>2, <3>1 DEF IsAt, Gone0, Running, Waiting, Reads, Ready
      <4>. QED  BY <4>1
    <3>2. CASE tk2[t].kind # None /\ cur2 = t
      <4>1. IsAt(Running, t, T, w2, tk2, cur2)
        BY <2>2, <3>2 DEF IsAt, Gone0, Running, Waiting, Reads, Ready
      <4>. QED  BY <4>1
    <3>. QED  BY <3>1, <3>2 DEF Taken
  <2>5. PICK v2 : IsAt(v2, t, T, w2, tk2, cur2)
    BY <2>4
  <2>6. /\ tk2 \in [TaskId -> TaskRecord] /\ (tk2[t].kind # None => tk2[t].progr \in Owner)
        /\ cur2 \in TaskId \cup {None} /\ w2 \in Seq(TaskId) /\ Inj(w2)
    BY <1>1, <1>6 DEF Taken
  <2>. QED  BY <1>1, <2>1, <2>3, <2>5, <2>6, MoveTask
<1>10. BInv(T, w2, tk2)
  <2>1. CASE t \in ToSet(w) \/ t \in ToSet(S.queue[q].bg)
    <3>1. tk[t].progr = S.queue[q].player
      <4>1. CASE t \in ToSet(w)
        <5>1. v = Waiting
          BY <1>4, <4>1 DEF IsAt
        <5>2. t \notin ToSet(S.queue[q].bg) /\ S.queue[q].reading # t
          BY <1>4, <5>1 DEF IsAt, Waiting, Ready, Reads
        <5>. QED  BY <5>2 DEF Taken
      <4>2. CASE t \in ToSet(S.queue[q].bg)
        BY <1>1, <4>2 DEF BInv
      <4>. QED  BY <2>1, <4>1, <4>2
    <3>2. ButFor(t, w, tk, w2, tk2, S.queue[q].player)
      BY <3>1 DEF ButFor, Taken
    <3>3. T.queue[q].num_bg_tasks <= queued_task_limit
      <4>1. PICK m \in Int, n \in Int : m = S.queue[q].num_bg_tasks /\ n = T.queue[q].num_bg_tasks
        BY <1>1, SchedTypes
      <4>2. n <= m /\ m <= queued_task_limit /\ queued_task_limit \in Nat
        BY <1>1, <4>1, TasksAssumption DEF Taken, BInv
      <4>. QED  BY <4>1, <4>2
    <3>4. /\ w2 \in Seq(TaskId) /\ t \notin ToSet(T.queue[q].bg)
          /\ ToSet(T.queue[q].bg) \ {t} = ToSet(S.queue[q].bg) \ {t}
          /\ T.queue[q].num_bg_tasks = S.queue[q].num_bg_tasks
               + (Len(T.queue[q].bg) - Len(S.queue[q].bg)) + (In(t, w2) - In(t, w))
      BY DEF Taken
    <3>5. \A r \in Slot : r # q => t \notin ToSet(S.queue[r].bg)
      BY <1>7
    <3>6. S.queue[q].player \in Owner
      BY <1>6, <3>1
    <3>. QED  BY <1>1, <3>2, <3>3, <3>4, <3>5, <3>6, Recounted
  <2>2. CASE t \notin ToSet(w) /\ t \notin ToSet(S.queue[q].bg)
    <3>1. /\ ToSet(w2) = ToSet(w) /\ ToSet(T.queue[q].bg) = ToSet(S.queue[q].bg)
          /\ ToSet(w) \subseteq TaskId /\ \A r \in Slot : ToSet(S.queue[r].bg) \subseteq TaskId
          /\ \A r \in Slot : ToSet(T.queue[r].bg) = ToSet(S.queue[r].bg)
          /\ \A r \in Slot : T.queue[r].player = S.queue[r].player
      <4>1. ToSet(w) \subseteq TaskId /\ \A r \in Slot : ToSet(S.queue[r].bg) \subseteq TaskId
        BY <1>1, SchedTypes DEF ToSet
      <4>2. ToSet(w2) = ToSet(w) /\ ToSet(T.queue[q].bg) = ToSet(S.queue[q].bg)
        BY <2>2 DEF Taken
      <4>3. \A r \in Slot : T.queue[r].player = S.queue[r].player
        BY DEF Retasked
      <4>4. \A r \in Slot : ToSet(T.queue[r].bg) = ToSet(S.queue[r].bg)
        BY <1>8, <4>2
      <4>. QED  BY <4>1, <4>2, <4>3, <4>4
    <3>2. \A u \in TaskId : u # t => tk2[u].progr = tk[u].progr
      BY DEF Taken
    <3>3. ASSUME NEW o PROVE Waits(w2, tk2, o) = Waits(w, tk, o)
      BY <2>2, <3>1, <3>2 DEF Waits
    <3>4. \A u \in ToSet(w2) : \E r \in Slot : T.queue[r].player = tk2[u].progr
      BY <1>1, <2>2, <3>1, <3>2 DEF BInv
    <3>5. \A r \in Slot : \A u \in ToSet(T.queue[r].bg) : tk2[u].progr = T.queue[r].player
      BY <1>1, <1>7, <2>2, <3>1, <3>2 DEF BInv
    <3>6. PICK a \in Int, b \in Int, k \in Int, l \in Int :
            /\ a = S.queue[q].num_bg_tasks /\ b = T.queue[q].num_bg_tasks
            /\ k = Len(S.queue[q].bg) /\ l = Len(T.queue[q].bg)
      <4>1. S.queue[q].bg \in Seq(TaskId) /\ T.queue[q].bg \in Seq(TaskId)
        BY <1>1, SchedTypes
      <4>2. S.queue[q].num_bg_tasks \in Int /\ T.queue[q].num_bg_tasks \in Int
        BY <1>1, SchedTypes
      <4>3. Len(S.queue[q].bg) \in Int /\ Len(T.queue[q].bg) \in Int
        BY <4>1
      <4>. QED  BY <4>2, <4>3
    <3>7. PICK c \in Int : c = Cardinality(Waits(w, tk, S.queue[q].player))
      <4>1. PICK W : W = Waits(w, tk, S.queue[q].player)
        OBVIOUS
      <4>2. IsFiniteSet(ToSet(w)) /\ W \subseteq ToSet(w)
        BY <1>1, <4>1, ListIsFinite DEF Waits
      <4>3. IsFiniteSet(W)
        BY <4>2, FS_Subset
      <4>. QED  BY <4>1, <4>3, FS_CardinalityType
    <3>8. In(t, w) = 0 /\ In(t, w2) = 0
      BY <2>2, <3>1 DEF In
    <3>9. a = k + c /\ b = a + (l - k) + (0 - 0) /\ b <= a
      BY <1>1, <3>6, <3>7, <3>8 DEF BInv, Taken
    <3>10. b = l + c
      <4>1. a \in Int /\ b \in Int /\ k \in Int /\ l \in Int /\ c \in Int
        BY <3>6, <3>7
      <4>. QED  BY <3>9, <4>1
    <3>11. \A r \in Slot : T.queue[r].player # None =>
             T.queue[r].num_bg_tasks
               = Len(T.queue[r].bg) + Cardinality(Waits(w2, tk2, T.queue[r].player))
      <4>. SUFFICES ASSUME NEW r \in Slot, T.queue[r].player # None
                    PROVE  T.queue[r].num_bg_tasks
                             = Len(T.queue[r].bg) + Cardinality(Waits(w2, tk2, T.queue[r].player))
        OBVIOUS
      <4>1. CASE r = q
        BY <3>1, <3>3, <3>6, <3>7, <3>10, <4>1
      <4>2. CASE r # q
        BY <1>1, <1>8, <3>3, <4>2 DEF BInv
      <4>. QED  BY <4>1, <4>2
    <3>12. \A r \in Slot : T.queue[r].num_bg_tasks <= queued_task_limit
      <4>. SUFFICES ASSUME NEW r \in Slot PROVE T.queue[r].num_bg_tasks <= queued_task_limit
        OBVIOUS
      <4>1. CASE r = q
        <5>1. a <= queued_task_limit /\ queued_task_limit \in Nat
          BY <1>1, <3>6, TasksAssumption DEF BInv
        <5>2. a \in Int /\ b \in Int
          BY <3>6
        <5>3. b <= queued_task_limit
          BY <3>9, <5>1, <5>2
        <5>. QED  BY <3>6, <4>1, <5>3
      <4>2. CASE r # q
        BY <1>1, <1>8, <4>2 DEF BInv
      <4>. QED  BY <4>1, <4>2
    <3>. QED  BY <3>4, <3>5, <3>11, <3>12 DEF BInv
  <2>. QED  BY <2>1, <2>2
<1>. QED
  BY <1>3, <1>9, <1>10 DEF All

\* The reader of a queue, and its ready tasks, change.
WithReading(S, q, t) == [S EXCEPT !.queue[q].reading = t]
ReadingSet(Q, q, t)  == [Q EXCEPT ![q].reading = t]
WithBg(S, q, b, n)   == [S EXCEPT !.queue[q].bg = b, !.queue[q].num_bg_tasks = n]
BgSet(Q, q, b, n)    == [Q EXCEPT ![q].bg = b, ![q].num_bg_tasks = n]

LEMMA ReadingIs ==
  ASSUME NEW S \in Scheds, NEW q \in Slot, NEW t \in TaskId \cup {None},
         NEW T, T = WithReading(S, q, t)
  PROVE  /\ Retasked(S, T, q)
         /\ T.queue = ReadingSet(S.queue, q, t)
         /\ T.queue[q].reading = t
         /\ T.queue[q].bg = S.queue[q].bg
         /\ T.queue[q].num_bg_tasks = S.queue[q].num_bg_tasks
<1>1. S.queue \in [Slot -> Queue] /\ S.queue[q] \in Queue /\ S.active \in Seq(Slot)
  BY SchedTypes
<1>2. PICK r : r = [S.queue[q] EXCEPT !.reading = t]
  OBVIOUS
<1>3. /\ r \in Queue /\ r.reading = t /\ r.player = S.queue[q].player
      /\ r.connected = S.queue[q].connected /\ r.input = S.queue[q].input
      /\ r.usage = S.queue[q].usage /\ r.bg = S.queue[q].bg
      /\ r.num_bg_tasks = S.queue[q].num_bg_tasks
  BY <1>1, <1>2 DEF Queue
<1>4. /\ T.queue = [S.queue EXCEPT ![q] = r] /\ T.active = S.active
      /\ T = [queue |-> T.queue, active |-> T.active]
  BY <1>1, <1>2 DEF Scheds, WithReading
<1>5. T.queue[q] = r /\ T \in Scheds /\ \A u \in Slot : u # q => T.queue[u] = S.queue[u]
  BY <1>1, <1>3, <1>4 DEF Scheds
<1>. QED
  BY <1>2, <1>3, <1>4, <1>5 DEF Retasked, ReadingSet
LEMMA BgIs ==
  ASSUME NEW S \in Scheds, NEW q \in Slot, NEW b \in Seq(TaskId), NEW n \in Int,
         NEW T, T = WithBg(S, q, b, n)
  PROVE  /\ Retasked(S, T, q)
         /\ T.queue = BgSet(S.queue, q, b, n)
         /\ T.queue[q].reading = S.queue[q].reading
         /\ T.queue[q].bg = b
         /\ T.queue[q].num_bg_tasks = n
<1>1. S.queue \in [Slot -> Queue] /\ S.queue[q] \in Queue /\ S.active \in Seq(Slot)
  BY SchedTypes
<1>2. PICK r : r = [S.queue[q] EXCEPT !.bg = b, !.num_bg_tasks = n]
  OBVIOUS
<1>3. /\ r \in Queue /\ r.reading = S.queue[q].reading /\ r.player = S.queue[q].player
      /\ r.connected = S.queue[q].connected /\ r.input = S.queue[q].input
      /\ r.usage = S.queue[q].usage /\ r.bg = b
      /\ r.num_bg_tasks = n
  BY <1>1, <1>2 DEF Queue
<1>4. /\ T.queue = [S.queue EXCEPT ![q] = r] /\ T.active = S.active
      /\ T = [queue |-> T.queue, active |-> T.active]
  BY <1>1, <1>2 DEF Scheds, WithBg
<1>5. T.queue[q] = r /\ T \in Scheds /\ \A u \in Slot : u # q => T.queue[u] = S.queue[u]
  BY <1>1, <1>3, <1>4 DEF Scheds
<1>6. [S.queue EXCEPT ![q].bg = b, ![q].num_bg_tasks = n] = [S.queue EXCEPT ![q] = r]
  BY <1>1, <1>2
<1>. QED
  BY <1>3, <1>4, <1>5, <1>6 DEF Retasked, BgSet
\* A waiting task is taken off the list, and is counted in the queue of its
\* programmer.
LEMMA WaitingIs ==
  ASSUME NEW S, NEW w, NEW tk, NEW cur, QInv(S), TInv(S, w, tk, cur), BInv(S, w, tk),
         NEW t \in ToSet(w)
  PROVE  /\ t \in TaskId /\ tk[t].kind # None /\ tk[t].progr \in Owner
         /\ find_tqueue(S, tk[t].progr) \in Slot
         /\ S.queue[find_tqueue(S, tk[t].progr)].player = tk[t].progr
         /\ S.queue[find_tqueue(S, tk[t].progr)].reading # t
         /\ \A q \in Slot : t \notin ToSet(S.queue[q].bg)
<1>1. t \in TaskId
  BY DEF TInv, ToSet
<1>2. PICK v : IsAt(v, t, S, w, tk, cur)
  BY <1>1, TaskAt
<1>3. v = Waiting
  BY <1>2 DEF IsAt
<1>4. tk[t].kind # None /\ tk[t].progr \in Owner
  BY <1>1, <1>2, <1>3 DEF IsAt, Waiting, Gone0, TInv
<1>5. \E q \in Slot : S.queue[q].player = tk[t].progr
  BY DEF BInv
<1>6. find_tqueue(S, tk[t].progr) \in Slot
      /\ S.queue[find_tqueue(S, tk[t].progr)].player = tk[t].progr
  BY <1>5, Find
<1>7. \A q \in Slot : t \notin ToSet(S.queue[q].bg) /\ S.queue[q].reading # t
  BY <1>2, <1>3 DEF IsAt, Waiting, Ready, Reads
<1>. QED
  BY <1>1, <1>4, <1>6, <1>7

LEMMA TakeFromIs ==
  ASSUME IInv, NEW t, TakeFromWaiting(t)
  PROVE  /\ t \in ToSet(waiting) /\ waiting' \in Seq(TaskId) /\ Inj(waiting')
         /\ ToSet(waiting') = ToSet(waiting) \ {t}
         /\ In(t, waiting') = 0 /\ In(t, waiting) = 1
<1>1. PICK i \in DOMAIN waiting : waiting[i] = t /\ waiting' = RemoveAt(waiting, i)
  BY DEF TakeFromWaiting
<1>2. waiting \in Seq(TaskId) /\ Inj(waiting)
  BY Parts DEF TInv
<1>3. PICK w2 : w2 = waiting'
  OBVIOUS
<1>4. w2 \in Seq(TaskId) /\ Inj(w2) /\ ToSet(w2) = ToSet(waiting) \ {waiting[i]}
  BY <1>1, <1>2, <1>3, RemoveAtInj
<1>5. t \in ToSet(waiting)
  BY <1>1 DEF ToSet
<1>. QED
  BY <1>1, <1>3, <1>4, <1>5 DEF In

LEMMA KillStep ==
  ASSUME IInv, NEW t \in TaskId, kill_task(t)
  PROVE  IInv'
<1>1. /\ KillWaiting(t) \/ KillReading(t) \/ KillReady(t)
      /\ task' = [task EXCEPT ![t] = NoTask]
      /\ UNCHANGED <<active, current, shandle, pc, users>>
  BY DEF kill_task
<1>2. PICK tk2, w2 : tk2 = task' /\ w2 = waiting'
  OBVIOUS
<1>3. NoTask \in TaskRecord /\ NoTask.kind = None
  BY DEF NoTask, TaskRecord
<1>4. /\ tk2 \in [TaskId -> TaskRecord] /\ tk2[t].kind = None
      /\ \A u \in TaskId : u # t => tk2[u] = task[u]
  BY <1>1, <1>2, <1>3, Parts
<1>5. /\ Sched \in Scheds /\ QInv(Sched) /\ TInv(Sched, waiting, task, current)
      /\ BInv(Sched, waiting, task) /\ queue = Sched.queue /\ active = Sched.active
      /\ t # None /\ waiting \in Seq(TaskId) /\ Inj(waiting)
      /\ \A r \in Slot : Inj(Sched.queue[r].bg)
  BY Parts, NumbersAssumption DEF Sched, TInv
<1>6. PICK v : IsAt(v, t, Sched, waiting, task, current)
  BY <1>5, TaskAt
<1>7. ASSUME NEW q \in Slot, NEW T, Sched.queue[q].player # None, Retasked(Sched, T, q),
             Taken(t, q, Sched, waiting, task, current, T, w2, tk2, current),
             queue' = T.queue
      PROVE  IInv'
  <2>1. All(T, shandle, pc, w2, tk2, current)
    BY <1>7, TakeKeeps DEF IInv
  <2>2. Becomes(T)
    BY <1>1, <1>5, <1>7 DEF Becomes, Retasked
  <2>. QED  BY <1>1, <1>2, <2>1, <2>2, Parts, StepTo
<1>8. CASE KillWaiting(t)
  <2>1. PICK q : q = find_tqueue(Sched, task[t].progr)
    OBVIOUS
  <2>2. /\ TakeFromWaiting(t)
        /\ queue' = IF q = NoQueue THEN queue ELSE [queue EXCEPT ![q].num_bg_tasks = @ - 1]
    BY <1>8, <2>1 DEF KillWaiting
  <2>3. /\ t \in ToSet(waiting) /\ w2 \in Seq(TaskId) /\ Inj(w2)
        /\ ToSet(w2) = ToSet(waiting) \ {t}
        /\ In(t, w2) = 0 /\ In(t, waiting) = 1
    BY <1>2, <2>2, TakeFromIs
  <2>4. /\ task[t].progr \in Owner /\ q \in Slot /\ Sched.queue[q].player = task[t].progr
        /\ Sched.queue[q].reading # t /\ t \notin ToSet(Sched.queue[q].bg)
    BY <1>5, <2>1, <2>3, WaitingIs
  <2>5. Sched.queue[q].num_bg_tasks \in Int /\ Sched.queue \in [Slot -> Queue]
        /\ Sched.queue[q].bg \in Seq(TaskId)
    BY <1>5, <2>4, SchedTypes
  <2>6. PICK m \in Int : m = Sched.queue[q].num_bg_tasks
    BY <2>5
  <2>7. PICK n \in Int : n = m - 1
    OBVIOUS
  <2>8. PICK T : T = WithCount(Sched, q, n)
    OBVIOUS
  <2>9. /\ Retasked(Sched, T, q)
        /\ T.queue[q].reading = Sched.queue[q].reading
        /\ T.queue[q].bg = Sched.queue[q].bg
        /\ T.queue[q].num_bg_tasks = n
    BY <1>5, <2>4, <2>8, CountIs
  <2>10. queue' = T.queue
    BY <1>5, <2>2, <2>4, <2>6, <2>7, <2>8 DEF WithCount, NoQueue, Slot, Sched
  <2>11. Taken(t, q, Sched, waiting, task, current, T, w2, tk2, current)
    <3>1. PICK k \in Nat : k = Len(Sched.queue[q].bg) /\ k = Len(T.queue[q].bg)
      BY <2>5, <2>9
    <3>2. /\ T.queue[q].num_bg_tasks <= Sched.queue[q].num_bg_tasks
          /\ T.queue[q].num_bg_tasks = Sched.queue[q].num_bg_tasks
               + (Len(T.queue[q].bg) - Len(Sched.queue[q].bg)) + (In(t, w2) - In(t, waiting))
      BY <2>3, <2>6, <2>7, <2>9, <3>1
    <3>3. Inj(T.queue[q].bg) /\ ToSet(T.queue[q].bg) = ToSet(Sched.queue[q].bg) \ {t}
      BY <1>5, <2>4, <2>9
    <3>. QED  BY <1>4, <2>3, <2>4, <2>9, <3>2, <3>3 DEF Taken
  <2>. QED  BY <1>7, <2>4, <2>9, <2>10, <2>11, NumbersAssumption
<1>9. CASE KillReading(t)
  <2>1. PICK q \in Slot : /\ queue[q].reading = t
                          /\ queue' = [queue EXCEPT ![q].reading = None]
                          /\ UNCHANGED waiting
    BY <1>9 DEF KillReading
  <2>8. PICK none \in TaskId \cup {None} : none = None
    OBVIOUS
  <2>2. PICK T : T = WithReading(Sched, q, none)
    OBVIOUS
  <2>3. /\ Retasked(Sched, T, q)
        /\ T.queue = ReadingSet(Sched.queue, q, none)
        /\ T.queue[q].reading = none
        /\ T.queue[q].bg = Sched.queue[q].bg
        /\ T.queue[q].num_bg_tasks = Sched.queue[q].num_bg_tasks
    BY <1>5, <2>2, ReadingIs
  <2>4. v = Reads(q) /\ Sched.queue[q].reading = t
    BY <1>5, <1>6, <2>1 DEF IsAt
  <2>5. t \notin ToSet(waiting) /\ t \notin ToSet(Sched.queue[q].bg)
    BY <1>6, <2>4 DEF IsAt, Waiting, Reads, Ready
  <2>6. Sched.queue[q].player # None
    BY <1>5, <2>4, FreeSlotIs DEF QInv, FreeIsEmpty
  <2>7. Taken(t, q, Sched, waiting, task, current, T, w2, tk2, current)
    <3>1. PICK k \in Nat, m \in Int : k = Len(Sched.queue[q].bg) /\ m = Sched.queue[q].num_bg_tasks
      <4>1. Sched.queue[q].num_bg_tasks \in Int /\ Sched.queue[q].bg \in Seq(TaskId)
        BY <1>5, SchedTypes
      <4>2. Len(Sched.queue[q].bg) \in Nat
        BY <4>1
      <4>. QED  BY <4>1, <4>2
    <3>2. In(t, w2) = 0 /\ In(t, waiting) = 0 /\ w2 = waiting
      BY <1>2, <2>1, <2>5 DEF In
    <3>3. /\ T.queue[q].num_bg_tasks <= Sched.queue[q].num_bg_tasks
          /\ T.queue[q].num_bg_tasks = Sched.queue[q].num_bg_tasks
               + (Len(T.queue[q].bg) - Len(Sched.queue[q].bg)) + (In(t, w2) - In(t, waiting))
      <4>1. k \in Nat /\ m \in Int
        BY <3>1
      <4>2. m <= m /\ m = m + (k - k) + (0 - 0)
        BY <4>1
      <4>. QED  BY <2>3, <3>1, <3>2, <4>2
    <3>4. Inj(T.queue[q].bg) /\ ToSet(T.queue[q].bg) = ToSet(Sched.queue[q].bg) \ {t}
      BY <1>5, <2>3, <2>5
    <3>. QED  BY <1>4, <1>5, <2>3, <2>4, <2>5, <2>8, <3>2, <3>3, <3>4 DEF Taken
  <2>9. queue' = T.queue
    BY <1>5, <2>1, <2>3, <2>8 DEF ReadingSet
  <2>. QED  BY <1>7, <2>3, <2>6, <2>7, <2>9
<1>10. CASE KillReady(t)
  <2>15. PICK q \in ToSet(active) : \E i \in DOMAIN queue[q].bg :
          /\ queue[q].bg[i] = t
          /\ queue' = [queue EXCEPT ![q].bg = RemoveAt(@, i), ![q].num_bg_tasks = @ - 1]
          /\ UNCHANGED waiting
    BY <1>10 DEF KillReady
  <2>1. PICK i \in DOMAIN queue[q].bg :
          /\ queue[q].bg[i] = t
          /\ queue' = [queue EXCEPT ![q].bg = RemoveAt(@, i), ![q].num_bg_tasks = @ - 1]
          /\ UNCHANGED waiting
    BY <2>15
  <2>2. q \in Slot /\ Sched.queue[q].player # None
    BY <1>5, ActiveInUse
  <2>3. Sched.queue[q].num_bg_tasks \in Int /\ Sched.queue \in [Slot -> Queue]
        /\ Sched.queue[q].bg \in Seq(TaskId)
    BY <1>5, <2>2, SchedTypes
  <2>4. PICK s, b : s = Sched.queue[q].bg /\ b = RemoveAt(s, i)
    OBVIOUS
  <2>5. s \in Seq(TaskId) /\ Inj(s) /\ i \in DOMAIN s /\ s[i] = t /\ t \in ToSet(s)
    BY <1>5, <2>1, <2>2, <2>3, <2>4 DEF ToSet
  <2>6. b \in Seq(TaskId) /\ Inj(b) /\ ToSet(b) = ToSet(s) \ {t} /\ Len(b) = Len(s) - 1
    BY <2>4, <2>5, RemoveAtInj
  <2>7. PICK m \in Int : m = Sched.queue[q].num_bg_tasks
    BY <2>3
  <2>8. PICK n \in Int : n = m - 1
    OBVIOUS
  <2>9. PICK T : T = WithBg(Sched, q, b, n)
    OBVIOUS
  <2>10. /\ Retasked(Sched, T, q)
         /\ T.queue = BgSet(Sched.queue, q, b, n)
         /\ T.queue[q].reading = Sched.queue[q].reading
         /\ T.queue[q].bg = b
         /\ T.queue[q].num_bg_tasks = n
    BY <1>5, <2>2, <2>6, <2>9, BgIs
  <2>11. queue' = T.queue
    BY <1>5, <2>1, <2>2, <2>3, <2>4, <2>7, <2>8, <2>10 DEF BgSet
  <2>12. v = Ready(q)
    BY <1>6, <2>2, <2>4, <2>5 DEF IsAt
  <2>13. t \notin ToSet(waiting) /\ Sched.queue[q].reading # t
    BY <1>6, <2>2, <2>12 DEF IsAt, Waiting, Reads, Ready
  <2>14. Taken(t, q, Sched, waiting, task, current, T, w2, tk2, current)
    <3>1. In(t, w2) = 0 /\ In(t, waiting) = 0 /\ w2 = waiting
      BY <1>2, <2>1, <2>13 DEF In
    <3>2. PICK k \in Nat : k = Len(s)
      BY <2>5
    <3>3. n <= m /\ n = m + ((k - 1) - k) + (0 - 0)
      BY <2>8, <3>2
    <3>4. /\ T.queue[q].num_bg_tasks <= Sched.queue[q].num_bg_tasks
          /\ T.queue[q].num_bg_tasks = Sched.queue[q].num_bg_tasks
               + (Len(T.queue[q].bg) - Len(Sched.queue[q].bg)) + (In(t, w2) - In(t, waiting))
      BY <2>4, <2>6, <2>7, <2>10, <3>1, <3>2, <3>3
    <3>5. Inj(T.queue[q].bg) /\ ToSet(T.queue[q].bg) = ToSet(Sched.queue[q].bg) \ {t}
      BY <2>4, <2>6, <2>10
    <3>. QED  BY <1>4, <1>5, <2>4, <2>5, <2>10, <2>13, <3>1, <3>4, <3>5 DEF Taken
  <2>. QED  BY <1>7, <2>2, <2>10, <2>11, <2>14
<1>. QED
  BY <1>1, <1>8, <1>9, <1>10

\* The tasks of queue q change, and then it is made active.
LEMMA RetaskedEnsure ==
  ASSUME NEW S, NEW h, NEW p, QInv(S), HInv(S, h), PInv(S, h, p),
         NEW q \in Slot, S.queue[q].player # None, NEW U, Retasked(S, U, q),
         NEW T, T = ensure_usage(U, q)
  PROVE  /\ QInv(T) /\ HInv(T, h) /\ PInv(T, h, p)
         /\ \A r \in Slot : /\ T.queue[r].player = U.queue[r].player
                            /\ T.queue[r].reading = U.queue[r].reading
                            /\ T.queue[r].bg = U.queue[r].bg
                            /\ T.queue[r].num_bg_tasks = U.queue[r].num_bg_tasks
<1>1. /\ S \in Scheds /\ Sorted(S) /\ Counted(S) /\ FreeIsEmpty(S) /\ ReadersActive(S)
      /\ OneEach(S) /\ S.active \in Seq(Slot)
  BY SchedTypes DEF QInv
<1>2. \A r \in Slot : /\ U.queue[r].player = S.queue[r].player
                      /\ U.queue[r].connected = S.queue[r].connected
                      /\ U.queue[r].usage = S.queue[r].usage
  BY DEF Retasked
<1>3. U \in Scheds /\ U.active = S.active /\ \A i \in DOMAIN S.active : S.active[i] \in Slot
  BY <1>1 DEF Retasked
<1>4. Sorted(U)
  BY <1>1, <1>2, <1>3 DEF Sorted
<1>5. Counted(U)
  BY <1>1, <1>2, <1>3 DEF Counted
<1>6. FreeIsEmpty(U)
  BY <1>1, <1>2 DEF FreeIsEmpty, Retasked
<1>7. ASSUME NEW r \in Slot, r # q PROVE ReaderActive(U, r)
  BY <1>1, <1>7 DEF ReadersActive, ReaderActive, Retasked
<1>8. Quiet(U, T)
  BY <1>2, <1>3, <1>4, <1>5, <1>6, <1>7, EnsureKeeps
<1>9. OneEach(T)
  BY <1>1, <1>2, <1>8 DEF OneEach, Quiet
<1>10. QInv(T)
  BY <1>8, <1>9 DEF QInv, Quiet
<1>11. HInv(T, h)
  BY <1>2, <1>8, HSame DEF Quiet
<1>12. S.active # <<>> => Head(S.active) \in Slot
  BY ActiveInUse
<1>13. PInv(T, h, p)
  BY <1>2, <1>3, <1>8, <1>12, PSame DEF Quiet
<1>. QED
  BY <1>8, <1>10, <1>11, <1>13 DEF Quiet

\* The running task t reads from queue q.
LEMMA ReadKeeps ==
  ASSUME NEW S \in Scheds, NEW w, NEW tk, NEW t \in TaskId, TInv(S, w, tk, t),
         NEW q \in Slot, S.queue[q].reading = None, NEW T,
         T.queue[q].reading = t, \A r \in Slot : r # q => T.queue[r].reading = S.queue[r].reading,
         \A r \in Slot : T.queue[r].bg = S.queue[r].bg
  PROVE  TInv(T, w, tk, None)
<1>1. PICK v : IsAt(v, t, S, w, tk, t)
  BY TaskAt
<1>2. v = Running /\ t # None
  BY <1>1, NumbersAssumption DEF IsAt
<1>3. /\ tk[t].kind # None /\ t \notin ToSet(w)
      /\ \A r \in Slot : S.queue[r].reading # t /\ t \notin ToSet(S.queue[r].bg)
  BY <1>1, <1>2 DEF IsAt, Gone0, Running, Waiting, Reads, Ready
<1>4. Others(t, S, w, tk, t, T, w, tk, None)
  <2>1. \A u \in TaskId : u # None
    BY NumbersAssumption
  <2>. QED  BY <1>3, <2>1 DEF Others
<1>5. IsAt(Reads(q), t, T, w, tk, None)
  BY <1>2, <1>3 DEF IsAt, Gone0, Running, Waiting, Reads, Ready
<1>6. /\ tk \in [TaskId -> TaskRecord] /\ (tk[t].kind # None => tk[t].progr \in Owner)
      /\ w \in Seq(TaskId) /\ Inj(w) /\ \A r \in Slot : Inj(T.queue[r].bg)
  BY DEF TInv
<1>7. PICK none \in TaskId \cup {None} : none = None
  OBVIOUS
<1>8. Others(t, S, w, tk, t, T, w, tk, none) /\ IsAt(Reads(q), t, T, w, tk, none)
  BY <1>4, <1>5, <1>7
<1>9. TInv(T, w, tk, none)
  BY <1>6, <1>8, MoveTask
<1>. QED
  BY <1>7, <1>9

LEMMA ReadStep ==
  ASSUME IInv, NEW o \in Owner, read(o)
  PROVE  IInv'
<1>1. PICK q, t : q = find_tqueue(Sched, o) /\ t = current
  OBVIOUS
<1>2. PICK S : S = WithReading(Sched, q, t)
  OBVIOUS
<1>3. PICK T : T = IF queue[q].input # <<>> THEN ensure_usage(S, q) ELSE S
  OBVIOUS
<1>4. /\ t # None /\ q # NoQueue /\ queue[q].reading = None /\ ~is_out_of_input(Sched, q)
      /\ Becomes(T) /\ Suspended /\ UNCHANGED <<waiting, task, shandle, users>>
  BY <1>1, <1>2, <1>3 DEF read, Calls, WithReading
<1>5. /\ q \in Slot /\ Sched.queue[q].player # None /\ t \in TaskId
      /\ Sched.queue[q].reading = None /\ Sched.queue = queue
      /\ TInv(Sched, waiting, task, t)
  BY <1>1, <1>4, Find, NumbersAssumption, CurrentIs, Parts DEF Sched
<1>6. /\ Retasked(Sched, S, q) /\ S.queue[q].reading = t
      /\ S.queue[q].bg = Sched.queue[q].bg
      /\ S.queue[q].num_bg_tasks = Sched.queue[q].num_bg_tasks
  <2>1. Sched \in Scheds /\ t \in TaskId \cup {None}
    BY <1>5, Parts
  <2>. QED  BY <1>2, <1>5, <2>1, ReadingIs
<1>7. /\ QInv(T) /\ HInv(T, shandle) /\ PInv(T, shandle, pc)
      /\ \A r \in Slot : /\ T.queue[r].player = S.queue[r].player
                         /\ T.queue[r].reading = S.queue[r].reading
                         /\ T.queue[r].bg = S.queue[r].bg
                         /\ T.queue[r].num_bg_tasks = S.queue[r].num_bg_tasks
  <2>1. CASE queue[q].input # <<>>
    <3>1. T = ensure_usage(S, q)
      BY <1>3, <2>1
    <3>. QED  BY <1>5, <1>6, <3>1, Parts, RetaskedEnsure
  <2>2. CASE queue[q].input = <<>>
    <3>1. T = S
      BY <1>3, <2>2
    <3>2. ReaderActive(S, q)
      BY <1>4, <1>5, <1>6, <2>2 DEF ReaderActive, Retasked, is_out_of_input
    <3>3. QInv(S) /\ HInv(S, shandle) /\ PInv(S, shandle, pc)
      BY <1>5, <1>6, <3>2, Parts, RetaskedKeeps
    <3>. QED  BY <3>1, <3>3
  <2>. QED  BY <2>1, <2>2
<1>8. \A r \in Slot : /\ T.queue[r].player = Sched.queue[r].player
                      /\ T.queue[r].bg = Sched.queue[r].bg
                      /\ T.queue[r].num_bg_tasks = Sched.queue[r].num_bg_tasks
                      /\ r # q => T.queue[r].reading = Sched.queue[r].reading
  BY <1>6, <1>7 DEF Retasked
<1>9. TInv(T, waiting, task, None)
  BY <1>5, <1>6, <1>7, <1>8, Parts, ReadKeeps
<1>10. BInv(T, waiting, task)
  BY <1>8, Parts, BSame
<1>11. PInv(T, shandle, pc') /\ current' = None
  BY <1>4, <1>7, SuspendedKeeps
<1>12. All(T, shandle, pc', waiting, task, current')
  BY <1>7, <1>9, <1>10, <1>11 DEF All
<1>. QED
  BY <1>4, <1>12, Parts, StepTo

\* MakeReady(): waiting task t goes to the queue of its programmer.
LEMMA ReadyKeeps ==
  ASSUME NEW S, NEW h, NEW p, NEW w, NEW cur, All(S, h, p, w, task, cur),
         NEW t \in ToSet(w), NEW w2 \in Seq(TaskId), Inj(w2), ToSet(w2) = ToSet(w) \ {t},
         NEW T, T = MakeReady(S, t)
  PROVE  All(T, h, p, w2, task, cur)
<1>1. /\ QInv(S) /\ HInv(S, h) /\ PInv(S, h, p) /\ S \in Scheds
      /\ TInv(S, w, task, cur) /\ BInv(S, w, task)
  BY DEF All, QInv
<1>2. PICK o, q : o = task[t].progr /\ q = find_tqueue(S, task[t].progr)
  OBVIOUS
<1>3. /\ t \in TaskId /\ task[t].kind # None /\ o \in Owner /\ q \in Slot
      /\ S.queue[q].player = o /\ o # None
  BY <1>1, <1>2, WaitingIs, NumbersAssumption
<1>4. PICK E : E = ensure_usage(S, q)
  OBVIOUS
<1>5. T = enqueue_bg_task(E, q, t)
  <2>1. create_tqueue(S, o) = S
    BY <1>2, <1>3 DEF create_tqueue, NoQueue, Slot
  <2>. QED  BY <1>2, <1>4, <2>1 DEF MakeReady
<1>6. Quiet(S, E)
  <2>1. Edited(S, S, q)
    BY <1>1 DEF Edited
  <2>. QED  BY <1>1, <1>3, <1>4, <2>1, EditedKeeps
<1>7. All(E, h, p, w, task, cur)
  BY <1>6, QuietKeeps
<1>8. /\ QInv(E) /\ HInv(E, h) /\ PInv(E, h, p) /\ E \in Scheds /\ OneEach(E)
      /\ TInv(E, w, task, cur) /\ BInv(E, w, task) /\ E.queue[q].player = o
      /\ w \in Seq(TaskId) /\ task \in [TaskId -> TaskRecord] /\ cur \in TaskId \cup {None}
  BY <1>3, <1>6, <1>7 DEF All, QInv, Quiet, TInv
<1>9. PICK b, s : b = Append(s, t) /\ s = E.queue[q].bg
  OBVIOUS
<1>10. /\ E.queue[q].num_bg_tasks \in Int /\ E.queue \in [Slot -> Queue] /\ E.queue[q] \in Queue
       /\ s \in Seq(TaskId)
  BY <1>3, <1>8, <1>9, SchedTypes
<1>11. PICK n \in Int : n = E.queue[q].num_bg_tasks
  BY <1>10
<1>12. PICK v : IsAt(v, t, E, w, task, cur)
  BY <1>3, <1>8, TaskAt
<1>13. v = Waiting
  BY <1>12 DEF IsAt
<1>14. /\ cur # t
       /\ \A r \in Slot : E.queue[r].reading # t /\ t \notin ToSet(E.queue[r].bg)
  BY <1>12, <1>13 DEF IsAt, Running, Waiting, Reads, Ready
<1>15. Inj(s) /\ t \notin ToSet(s)
  BY <1>3, <1>8, <1>9, <1>14 DEF TInv
<1>16. b \in Seq(TaskId) /\ Inj(b) /\ ToSet(b) = ToSet(s) \cup {t} /\ Len(b) = Len(s) + 1
  BY <1>3, <1>9, <1>10, <1>15, AppendInj
<1>17. T = WithBg(E, q, b, n)
  <2>1. T = [E EXCEPT !.queue[q].bg = b]
    BY <1>5, <1>8, <1>9 DEF enqueue_bg_task, Scheds
  <2>2. PICK f, g : f = [E.queue[q] EXCEPT !.bg = b] /\ g = [E.queue[q] EXCEPT !.bg = b, !.num_bg_tasks = n]
    OBVIOUS
  <2>3. f = g
    BY <1>10, <1>11, <2>2 DEF Queue
  <2>4. T = [E EXCEPT !.queue[q] = f]
    BY <1>3, <1>8, <1>10, <2>1, <2>2 DEF Scheds
  <2>5. WithBg(E, q, b, n) = [E EXCEPT !.queue[q] = g]
    BY <1>3, <1>8, <1>10, <2>2 DEF Scheds, WithBg
  <2>. QED  BY <2>3, <2>4, <2>5
<1>18. /\ Retasked(E, T, q)
       /\ T.queue[q].reading = E.queue[q].reading
       /\ T.queue[q].bg = b
       /\ T.queue[q].num_bg_tasks = n
  BY <1>3, <1>8, <1>16, <1>17, BgIs
<1>19. ReaderActive(T, q)
  BY <1>3, <1>8, <1>18 DEF QInv, ReadersActive, ReaderActive, Retasked
<1>20. QInv(T) /\ HInv(T, h) /\ PInv(T, h, p)
  BY <1>3, <1>8, <1>18, <1>19, RetaskedKeeps
<1>21. \A r \in Slot : /\ T.queue[r].reading = E.queue[r].reading
                       /\ r # q => T.queue[r].bg = E.queue[r].bg
  BY <1>18 DEF Retasked
<1>22. TInv(T, w2, task, cur)
  <2>1. Others(t, E, w, task, cur, T, w2, task, cur)
    BY <1>9, <1>16, <1>18, <1>21 DEF Others
  <2>2. IsAt(Ready(q), t, T, w2, task, cur)
    BY <1>3, <1>14, <1>16, <1>18, <1>21 DEF IsAt, Gone0, Running, Waiting, Reads, Ready
  <2>3. \A r \in Slot : Inj(T.queue[r].bg)
    BY <1>8, <1>16, <1>18, <1>21 DEF TInv
  <2>4. task[t].progr \in Owner
    BY <1>2, <1>3
  <2>. QED  BY <1>3, <1>8, <2>1, <2>2, <2>3, <2>4, MoveTask
<1>23. BInv(T, w2, task)
  <2>1. ButFor(t, w, task, w2, task, E.queue[q].player)
    BY <1>2, <1>8 DEF ButFor
  <2>2. In(t, w2) = 0 /\ In(t, w) = 1
    BY DEF In
  <2>3. T.queue[q].num_bg_tasks <= queued_task_limit
    BY <1>3, <1>8, <1>11, <1>18 DEF BInv
  <2>4. T.queue[q].num_bg_tasks = E.queue[q].num_bg_tasks
          + (Len(T.queue[q].bg) - Len(E.queue[q].bg)) + (In(t, w2) - In(t, w))
    <3>1. PICK k \in Nat : k = Len(s)
      BY <1>10
    <3>2. n = n + ((k + 1) - k) + (0 - 1)
      BY <1>11, <3>1
    <3>. QED  BY <1>9, <1>11, <1>16, <1>18, <2>2, <3>1, <3>2
  <2>5. /\ ToSet(T.queue[q].bg) \ {t} = ToSet(E.queue[q].bg) \ {t}
        /\ task[t].progr = E.queue[q].player /\ E.queue[q].player \in Owner
        /\ \A r \in Slot : r # q => t \notin ToSet(E.queue[r].bg)
    BY <1>2, <1>3, <1>8, <1>9, <1>14, <1>16, <1>18
  <2>. QED  BY <1>3, <1>8, <1>18, <2>1, <2>3, <2>4, <2>5, Recounted
<1>. QED
  BY <1>20, <1>22, <1>23 DEF All

\* Only delays differ in what is known of the tasks.
LEMMA DelayKeeps ==
  ASSUME NEW S \in Scheds, NEW w, NEW tk, NEW cur, TInv(S, w, tk, cur), BInv(S, w, tk),
         NEW tk2 \in [TaskId -> TaskRecord],
         \A t \in TaskId : tk2[t].kind = tk[t].kind /\ tk2[t].progr = tk[t].progr
  PROVE  TInv(S, w, tk2, cur) /\ BInv(S, w, tk2)
<1>1. PICK at : Where(at, S, w, tk, cur)
  BY DEF TInv
<1>2. Where(at, S, w, tk2, cur)
  BY <1>1 DEF Where
<1>3. \A t \in TaskId : tk2[t].kind # None => tk2[t].progr \in Owner
  BY DEF TInv
<1>4. TInv(S, w, tk2, cur)
  BY <1>2, <1>3 DEF TInv
<1>5. ToSet(w) \subseteq TaskId /\ \A q \in Slot : ToSet(S.queue[q].bg) \subseteq TaskId
  BY SchedTypes DEF ToSet, TInv
<1>6. BInv(S, w, tk2)
  BY <1>5, BTask
<1>. QED
  BY <1>4, <1>6

LEMMA ResumeStep ==
  ASSUME IInv, NEW t \in TaskId, resume(t)
  PROVE  IInv'
<1>1. PICK T, w2 : T = MakeReady(Sched, t) /\ w2 = waiting'
  OBVIOUS
<1>2. /\ TakeFromWaiting(t) /\ task' = [task EXCEPT ![t].delay = 0]
      /\ Becomes(T) /\ UNCHANGED <<current, shandle, pc, users>>
  BY <1>1 DEF resume
<1>3. /\ t \in ToSet(waiting) /\ w2 \in Seq(TaskId) /\ Inj(w2)
      /\ ToSet(w2) = ToSet(waiting) \ {t}
  BY <1>1, <1>2, TakeFromIs
<1>4. All(T, shandle, pc, w2, task, current)
  BY <1>1, <1>3, ReadyKeeps DEF IInv
<1>5. /\ task' \in [TaskId -> TaskRecord]
      /\ \A u \in TaskId : task'[u].kind = task[u].kind /\ task'[u].progr = task[u].progr
  BY <1>2, Parts DEF TaskRecord
<1>6. T \in Scheds /\ TInv(T, w2, task, current) /\ BInv(T, w2, task)
  BY <1>4 DEF All, QInv
<1>7. TInv(T, w2, task', current) /\ BInv(T, w2, task')
  BY <1>5, <1>6, DelayKeeps
<1>8. All(T, shandle, pc, w2, task', current)
  BY <1>4, <1>7 DEF All
<1>. QED
  BY <1>1, <1>2, <1>8, Parts, StepTo

-----------------------------------------------------------------------------
(* Queues with something to run                                            *)

\* Queue x has a task that run_ready_tasks() would start, or a line that it
\* would take.
HasLine(x) ==
  IF x.hold_input /\ x.reading = None
  THEN ~x.disable_oob /\ \E i \in DOMAIN x.input : IsOob(x.input[i])
  ELSE x.input # <<>>
Runs(x) == x.bg # <<>> \/ HasLine(x)

Awake == \A q \in Slot : Runs(queue[q]) => q \in ToSet(active)

\* The active queues stay active, and so are those with something new to run.
Roused(S, T) ==
  /\ ToSet(S.active) \subseteq ToSet(T.active)
  /\ \A r \in Slot : Runs(T.queue[r]) => Runs(S.queue[r]) \/ r \in ToSet(T.active)

LEMMA RousedStep ==
  ASSUME Awake, NEW T, Becomes(T), Roused(Sched, T)
  PROVE  Awake'
BY DEF Awake, Becomes, Roused, Sched

LEMMA RousedTwice ==
  ASSUME NEW S, NEW U, NEW T, Roused(S, U), Roused(U, T)
  PROVE  Roused(S, T)
BY DEF Roused

\* Only queue q changes, and gets nothing to run.
LEMMA EditRouses ==
  ASSUME NEW S, NEW T, T.active = S.active, NEW q,
         \A r \in Slot : r # q => T.queue[r] = S.queue[r],
         Runs(T.queue[q]) => Runs(S.queue[q]) \/ q \in ToSet(S.active)
  PROVE  Roused(S, T)
BY DEF Roused

LEMMA SameOrder ==
  ASSUME NEW S, QInv(S), NEW U, U.active = S.active, NEW q \in Slot,
         \A r \in Slot : r # q => U.queue[r] = S.queue[r],
         U.queue[q].usage = S.queue[q].usage
  PROVE  Sorted(U) /\ Counted(U)
<1>1. Sorted(S) /\ Counted(S) /\ S.active \in Seq(Slot)
  BY SchedTypes DEF QInv
<1>2. \A r \in Slot : U.queue[r].usage = S.queue[r].usage
  OBVIOUS
<1>3. \A i \in DOMAIN S.active : S.active[i] \in Slot
  BY <1>1
<1>. QED
  BY <1>1, <1>2, <1>3 DEF Sorted, Counted

\* Queue q changes, whatever it gets, and is made active.
LEMMA EnsureRouses ==
  ASSUME NEW S, QInv(S), NEW U \in Scheds, U.active = S.active, NEW q \in Slot,
         \A r \in Slot : r # q => U.queue[r] = S.queue[r],
         U.queue[q].usage = S.queue[q].usage, NEW T, T = ensure_usage(U, q)
  PROVE  Roused(S, T) /\ q \in ToSet(T.active)
<1>1. Sorted(U) /\ Counted(U)
  BY SameOrder
<1>2. /\ Joined(U, T, q) /\ \A r \in Slot : r # q => T.queue[r] = U.queue[r]
      /\ q \in ToSet(T.active)
  BY <1>1, Ensure
<1>. QED
  BY <1>2 DEF Joined, Roused

LEMMA EmptyRests ==
  ASSUME NEW x, x.input = <<>>, x.bg = <<>>
  PROVE  ~Runs(x)
BY DEF Runs, HasLine

LEMMA NewRests == ASSUME NEW o \in Owner PROVE ~Runs(NewQueue(o))
<1>1. NewQueue(o).input = <<>> /\ NewQueue(o).bg = <<>>
  BY NewQueueIs
<1>. QED
  BY <1>1, EmptyRests

LEMMA FreeRests == ~Runs(FreeSlot)
BY FreeSlotIs, EmptyRests

LEMMA CreateRouses ==
  ASSUME NEW S \in Scheds, NEW o \in Owner, HasRoomFor(S, o), NEW T, T = create_tqueue(S, o)
  PROVE  Roused(S, T)
<1>1. PICK q : q = find_tqueue(T, o)
  OBVIOUS
<1>2. Opened(S, T, o, q)
  BY <1>1, Create
<1>3. CASE T = S
  BY <1>3 DEF Roused
<1>4. CASE T.queue = [S.queue EXCEPT ![q] = NewQueue(o)]
  <2>1. S.queue \in [Slot -> Queue] /\ q \in Slot /\ T.active = S.active
    BY <1>2, SchedTypes DEF Opened
  <2>2. PICK n : n = NewQueue(o)
    OBVIOUS
  <2>3. T.queue[q] = n /\ (\A r \in Slot : r # q => T.queue[r] = S.queue[r]) /\ ~Runs(n)
    BY <1>4, <2>1, <2>2, NewRests
  <2>. QED  BY <2>1, <2>3, EditRouses
<1>. QED
  BY <1>2, <1>3, <1>4 DEF Opened

\* The lines of a queue change.
LEMMA InputOptions ==
  ASSUME NEW S \in Scheds, NEW q \in Slot, NEW v \in Seq(Line \cup {Blank}),
         NEW U, U = WithInput(S, q, v)
  PROVE  /\ Edited(S, U, q) /\ U.queue[q].input = v
         /\ U.queue[q].hold_input = S.queue[q].hold_input
         /\ U.queue[q].disable_oob = S.queue[q].disable_oob
<1>1. PICK f \in [Slot -> Queue] : f = S.queue
  BY SchedTypes
<1>2. PICK x \in Queue : x = f[q]
  OBVIOUS
<1>3. PICK r : r = [x EXCEPT !.input = v]
  OBVIOUS
<1>4. r.hold_input = x.hold_input /\ r.disable_oob = x.disable_oob
  BY <1>3 DEF Queue
<1>5. U.queue = [f EXCEPT ![q] = r]
  BY <1>1, <1>2, <1>3, SchedTypes DEF WithInput
<1>6. U.queue[q] = r
  BY <1>5
<1>. QED
  BY <1>1, <1>2, <1>4, <1>6, InputEdited

\* flush_input()
LEMMA FlushRouses ==
  ASSUME NEW S \in Scheds, NEW q \in Slot, NEW T, T = flush_input(S, q)
  PROVE  Roused(S, T)
<1>1. PICK v : v = <<>>
  OBVIOUS
<1>2. v \in Seq(Line \cup {Blank})
  BY <1>1
<1>3. T = WithInput(S, q, v)
  BY <1>1 DEF flush_input, WithInput
<1>4. Edited(S, T, q) /\ T.queue[q].input = v
  BY <1>2, <1>3, InputEdited
<1>5. Runs(T.queue[q]) => Runs(S.queue[q])
  BY <1>1, <1>4 DEF Runs, HasLine, Edited
<1>. QED
  BY <1>4, <1>5, EditRouses DEF Edited

\* dequeue_input_task(): fewer lines give no more to do.
LEMMA DequeueRouses ==
  ASSUME NEW S \in Scheds, NEW q \in Slot, NEW how, LineAt(S, q, how) # 0,
         NEW T, T = dequeue_input_task(S, q, how)
  PROVE  Roused(S, T) /\ T.active = S.active
<1>1. PICK s, i : s = S.queue[q].input /\ i = LineAt(S, q, how)
  OBVIOUS
<1>2. s \in Seq(Line \cup {Blank}) /\ i \in 1..Len(s)
  BY <1>1, SchedTypes, LineAtIs
<1>3. PICK v : v = RemoveAt(s, i)
  OBVIOUS
<1>4. /\ v \in Seq(Line \cup {Blank})
      /\ Len(v) = Len(s) - 1 /\ \A j \in 1..(Len(s) - 1) : v[j] = IF j < i THEN s[j] ELSE s[j + 1]
  BY <1>2, <1>3, RemoveAtIs
<1>5. s # <<>> /\ \A j \in DOMAIN v : \E k \in DOMAIN s : v[j] = s[k]
  <2>1. DOMAIN v = 1..(Len(s) - 1) /\ DOMAIN s = 1..Len(s) /\ Len(s) \in Nat
    BY <1>2, <1>4
  <2>2. ASSUME NEW j \in DOMAIN v PROVE \E k \in DOMAIN s : v[j] = s[k]
    <3>1. v[j] \in {s[j], s[j + 1]} /\ j \in DOMAIN s /\ j + 1 \in DOMAIN s
      BY <1>4, <2>1, <2>2
    <3>. QED  BY <3>1
  <2>. QED  BY <1>2, <2>2
<1>6. T = WithInput(S, q, v)
  <2>1. S.queue \in [Slot -> Queue]
    BY SchedTypes
  <2>. QED  BY <1>1, <1>3, <2>1 DEF dequeue_input_task, WithInput, Scheds
<1>7. /\ Edited(S, T, q) /\ T.queue[q].input = v
      /\ T.queue[q].hold_input = S.queue[q].hold_input
      /\ T.queue[q].disable_oob = S.queue[q].disable_oob
  BY <1>4, <1>6, InputOptions
<1>8. HasLine(T.queue[q]) => HasLine(S.queue[q])
  BY <1>1, <1>5, <1>7 DEF HasLine, Edited
<1>. QED
  BY <1>7, <1>8, EditRouses DEF Edited, Runs

\* enqueue_input_task() makes the queue active if the line may be taken.
LEMMA EnqueueRouses ==
  ASSUME NEW S, QInv(S), NEW q \in Slot, NEW line \in Line \cup {Blank},
         NEW at_front \in BOOLEAN, NEW T, T = enqueue_input_task(S, q, line, at_front)
  PROVE  Roused(S, T)
<1>1. PICK v, s : /\ v = IF at_front THEN <<line>> \o S.queue[q].input
                        ELSE Append(S.queue[q].input, line)
                  /\ s = S.queue[q].input
  OBVIOUS
<1>2. PICK U : U = WithInput(S, q, v)
  OBVIOUS
<1>3. S \in Scheds /\ s \in Seq(Line \cup {Blank}) /\ S.queue \in [Slot -> Queue]
  BY <1>1, SchedTypes DEF QInv
<1>4. v \in Seq(Line \cup {Blank}) /\ \A j \in DOMAIN v : v[j] = line \/ \E k \in DOMAIN s : v[j] = s[k]
  <2>1. PICK L : L = Line \cup {Blank}
    OBVIOUS
  <2>2. s \in Seq(L) /\ line \in L
    BY <1>3, <2>1
  <2>3. PICK a, b : a = Append(s, line) /\ b = <<line>> \o s
    OBVIOUS
  <2>4. a \in Seq(L) /\ \A j \in DOMAIN a : a[j] = line \/ \E k \in DOMAIN s : a[j] = s[k]
    <3>1. a \in Seq(L) /\ Len(a) = Len(s) + 1 /\ Len(s) \in Nat /\ DOMAIN s = 1..Len(s)
          /\ DOMAIN a = 1..(Len(s) + 1)
      BY <2>2, <2>3
    <3>2. a[Len(s) + 1] = line /\ \A j \in 1..Len(s) : a[j] = s[j]
      BY <2>2, <2>3
    <3>. QED  BY <3>1, <3>2
  <2>5. b \in Seq(L) /\ \A j \in DOMAIN b : b[j] = line \/ \E k \in DOMAIN s : b[j] = s[k]
    <3>1. <<line>> \in Seq(L) /\ Len(<<line>>) = 1
      BY <2>2
    <3>2. b \in Seq(L) /\ Len(b) = 1 + Len(s) /\ Len(s) \in Nat /\ DOMAIN s = 1..Len(s)
          /\ DOMAIN b = 1..(1 + Len(s))
      BY <2>2, <2>3, <3>1
    <3>3. b[1] = line /\ \A j \in 2..(1 + Len(s)) : b[j] = s[j - 1]
      BY <2>2, <2>3, <3>1
    <3>4. \A j \in DOMAIN b : j = 1 \/ (j \in 2..(1 + Len(s)) /\ j - 1 \in DOMAIN s)
      BY <3>2
    <3>. QED  BY <3>2, <3>3, <3>4
  <2>6. v \in {a, b}
    BY <1>1, <2>3
  <2>. QED  BY <2>1, <2>4, <2>5, <2>6
<1>5. /\ Edited(S, U, q) /\ U.queue[q].input = v
      /\ U.queue[q].hold_input = S.queue[q].hold_input
      /\ U.queue[q].disable_oob = S.queue[q].disable_oob
  BY <1>2, <1>3, <1>4, InputOptions
<1>6. \/ T = ensure_usage(U, q)
      \/ /\ T = U /\ S.queue[q].hold_input /\ S.queue[q].reading = None
         /\ S.queue[q].disable_oob \/ ~IsOob(line)
  <2>1. [S EXCEPT !.queue[q].input = IF at_front THEN <<line>> \o @ ELSE Append(@, line)] = U
    BY <1>1, <1>2, <1>3 DEF Scheds, WithInput
  <2>. QED  BY <2>1 DEF enqueue_input_task
<1>7. CASE T = ensure_usage(U, q)
  BY <1>5, <1>7, EnsureRouses DEF Edited
<1>8. CASE /\ T = U /\ S.queue[q].hold_input /\ S.queue[q].reading = None
           /\ S.queue[q].disable_oob \/ ~IsOob(line)
  <2>1. HasLine(T.queue[q]) => HasLine(S.queue[q])
    <3>1. PICK x, y : x = S.queue[q] /\ y = T.queue[q]
      OBVIOUS
    <3>2. /\ x.input = s /\ y.input = v /\ x.hold_input /\ y.hold_input
          /\ x.reading = None /\ y.reading = None
          /\ y.disable_oob = x.disable_oob /\ (x.disable_oob \/ ~IsOob(line))
      BY <1>1, <1>5, <1>8, <3>1 DEF Edited
    <3>3. HasLine(y) => ~x.disable_oob /\ \E j \in DOMAIN v : IsOob(v[j])
      BY <3>2 DEF HasLine
    <3>4. (~x.disable_oob /\ \E k \in DOMAIN s : IsOob(s[k])) => HasLine(x)
      BY <3>2 DEF HasLine
    <3>5. ~IsOob(line) /\ (\E j \in DOMAIN v : IsOob(v[j])) => \E k \in DOMAIN s : IsOob(s[k])
      BY <1>4
    <3>. QED  BY <3>1, <3>2, <3>3, <3>4, <3>5
  <2>. QED  BY <1>5, <1>8, <2>1, EditRouses DEF Edited, Runs
<1>. QED
  BY <1>6, <1>7, <1>8

\* set_connection_option() makes the queue active when lines can be taken again.
LEMMA HoldRouses ==
  ASSUME NEW S, QInv(S), NEW q \in Slot, NEW value \in BOOLEAN,
         NEW T, T = set_hold_input(S, q, value)
  PROVE  Roused(S, T)
<1>1. PICK f \in [Slot -> Queue], a \in Seq(Slot) :
        f = S.queue /\ a = S.active /\ S = [queue |-> f, active |-> a]
  BY SchedTypes DEF QInv
<1>2. PICK x \in Queue : x = f[q]
  OBVIOUS
<1>3. PICK y : y = [x EXCEPT !.hold_input = value]
  OBVIOUS
<1>4. /\ y \in Queue /\ y.hold_input = value /\ y.disable_oob = x.disable_oob /\ y.usage = x.usage
      /\ y.input = x.input /\ y.reading = x.reading /\ y.bg = x.bg
  BY <1>3 DEF Queue
<1>5. PICK U : U = [S EXCEPT !.queue[q].hold_input = value]
  OBVIOUS
<1>6. U = [queue |-> [f EXCEPT ![q] = y], active |-> a]
  BY <1>1, <1>2, <1>3, <1>5
<1>7. /\ U \in Scheds /\ U.active = S.active /\ U.queue[q] = y
      /\ \A r \in Slot : r # q => U.queue[r] = S.queue[r]
  BY <1>1, <1>4, <1>6 DEF Scheds
<1>8. \/ T = ensure_usage(U, q)
      \/ T = U /\ (value \/ y.input = <<>>)
  BY <1>5, <1>7 DEF set_hold_input
<1>9. CASE T = ensure_usage(U, q)
  BY <1>1, <1>2, <1>4, <1>7, <1>9, EnsureRouses
<1>10. CASE T = U /\ (value \/ y.input = <<>>)
  <2>1. y.input # <<>> => x.input # <<>> /\ value
    BY <1>4, <1>10
  <2>2. x.input = <<>> => ~\E i \in DOMAIN x.input : IsOob(x.input[i])
    OBVIOUS
  <2>3. HasLine(y) => HasLine(x)
    BY <1>4, <2>1, <2>2 DEF HasLine
  <2>. QED  BY <1>1, <1>2, <1>4, <1>7, <1>10, <2>3, EditRouses DEF Runs
<1>. QED
  BY <1>8, <1>9, <1>10

LEMMA OobRouses ==
  ASSUME NEW S, QInv(S), NEW q \in Slot, NEW value \in BOOLEAN,
         NEW T, T = set_disable_oob(S, q, value)
  PROVE  Roused(S, T)
<1>1. PICK f \in [Slot -> Queue], a \in Seq(Slot) :
        f = S.queue /\ a = S.active /\ S = [queue |-> f, active |-> a]
  BY SchedTypes DEF QInv
<1>2. PICK x \in Queue : x = f[q]
  OBVIOUS
<1>3. PICK y : y = [x EXCEPT !.disable_oob = value]
  OBVIOUS
<1>4. /\ y \in Queue /\ y.disable_oob = value /\ y.hold_input = x.hold_input /\ y.usage = x.usage
      /\ y.input = x.input /\ y.reading = x.reading /\ y.bg = x.bg
  BY <1>3 DEF Queue
<1>5. PICK U : U = [S EXCEPT !.queue[q].disable_oob = value]
  OBVIOUS
<1>6. U = [queue |-> [f EXCEPT ![q] = y], active |-> a]
  BY <1>1, <1>2, <1>3, <1>5
<1>7. /\ U \in Scheds /\ U.active = S.active /\ U.queue[q] = y
      /\ \A r \in Slot : r # q => U.queue[r] = S.queue[r]
  BY <1>1, <1>4, <1>6 DEF Scheds
<1>8. \/ T = ensure_usage(U, q)
      \/ T = U /\ (value \/ ~\E i \in DOMAIN y.input : IsOob(y.input[i]))
  BY <1>5, <1>7 DEF set_disable_oob
<1>9. CASE T = ensure_usage(U, q)
  BY <1>1, <1>2, <1>4, <1>7, <1>9, EnsureRouses
<1>10. CASE T = U /\ (value \/ ~\E i \in DOMAIN y.input : IsOob(y.input[i]))
  <2>1. HasLine(y) => HasLine(x)
    BY <1>4, <1>10 DEF HasLine
  <2>. QED  BY <1>1, <1>2, <1>4, <1>7, <1>10, <2>1, EditRouses DEF Runs
<1>. QED
  BY <1>8, <1>9, <1>10

\* free_task_queue() and new_task_queue(): only the connection changes.
LEMMA ConnectedRouses ==
  ASSUME NEW S \in Scheds, NEW q \in Slot, NEW value \in BOOLEAN,
         NEW U, U = SetConnected(S, q, value)
  PROVE  Roused(S, U)
<1>1. PICK f \in [Slot -> Queue], a \in Seq(Slot) :
        f = S.queue /\ a = S.active /\ S = [queue |-> f, active |-> a]
  BY SchedTypes
<1>2. PICK x \in Queue : x = f[q]
  OBVIOUS
<1>3. PICK y : y = [x EXCEPT !.connected = value]
  OBVIOUS
<1>4. /\ y.disable_oob = x.disable_oob /\ y.hold_input = x.hold_input
      /\ y.input = x.input /\ y.reading = x.reading /\ y.bg = x.bg
  BY <1>3 DEF Queue
<1>5. U = [queue |-> [f EXCEPT ![q] = y], active |-> a]
  BY <1>1, <1>2, <1>3 DEF SetConnected
<1>6. U.active = S.active /\ U.queue[q] = y /\ \A r \in Slot : r # q => U.queue[r] = S.queue[r]
  BY <1>1, <1>5
<1>7. Runs(y) <=> Runs(x)
  BY <1>4 DEF Runs, HasLine
<1>. QED
  BY <1>1, <1>2, <1>6, <1>7, EditRouses

LEMMA DisconnectRouses ==
  ASSUME NEW S, QInv(S), NEW q \in Slot, NEW T, T = free_task_queue(S, q)
  PROVE  Roused(S, T)
<1>1. PICK v \in BOOLEAN : v = FALSE
  OBVIOUS
<1>2. PICK U : U = SetConnected(S, q, v)
  OBVIOUS
<1>3. T \in {U, ensure_usage(U, q)}
  BY <1>1, <1>2 DEF free_task_queue, SetConnected
<1>4. S \in Scheds
  BY DEF QInv
<1>5. /\ U \in Scheds /\ U.active = S.active /\ \A r \in Slot : r # q => U.queue[r] = S.queue[r]
      /\ U.queue[q].usage = S.queue[q].usage
  BY <1>2, <1>4, SetConnectedIs
<1>6. CASE T = U
  BY <1>2, <1>4, <1>6, ConnectedRouses
<1>7. CASE T = ensure_usage(U, q)
  BY <1>5, <1>7, EnsureRouses
<1>. QED
  BY <1>3, <1>6, <1>7

\* Only queue q changes, to x.
LEMMA SwapRouses ==
  ASSUME NEW S \in Scheds, NEW q \in Slot, NEW x, NEW T, T.active = S.active,
         T.queue = [S.queue EXCEPT ![q] = x],
         Runs(x) => Runs(S.queue[q]) \/ q \in ToSet(S.active)
  PROVE  Roused(S, T)
<1>1. S.queue \in [Slot -> Queue]
  BY SchedTypes
<1>2. T.queue[q] = x /\ \A r \in Slot : r # q => T.queue[r] = S.queue[r]
  BY <1>1
<1>3. Runs(T.queue[q]) => Runs(S.queue[q]) \/ q \in ToSet(S.active)
  BY <1>2
<1>. QED
  BY <1>2, <1>3 DEF Roused

\* fork and suspend(): only the count of a queue changes.
LEMMA CountRouses ==
  ASSUME NEW S \in Scheds, NEW q \in Slot, NEW n \in Int, NEW T, T = WithCount(S, q, n)
  PROVE  Roused(S, T)
<1>1. PICK f \in [Slot -> Queue], a \in Seq(Slot) :
        f = S.queue /\ a = S.active /\ S = [queue |-> f, active |-> a]
  BY SchedTypes
<1>2. PICK x \in Queue : x = f[q]
  OBVIOUS
<1>3. PICK y : y = [x EXCEPT !.num_bg_tasks = n]
  OBVIOUS
<1>4. /\ y.disable_oob = x.disable_oob /\ y.hold_input = x.hold_input
      /\ y.input = x.input /\ y.reading = x.reading /\ y.bg = x.bg
  BY <1>3 DEF Queue
<1>5. T = [queue |-> [f EXCEPT ![q] = y], active |-> a]
  BY <1>1, <1>2, <1>3 DEF WithCount
<1>6. Runs(y) <=> Runs(x)
  BY <1>4 DEF Runs, HasLine
<1>. QED
  BY <1>1, <1>2, <1>5, <1>6, SwapRouses

LEMMA CountWaitingRouses ==
  ASSUME NEW S \in Scheds, NEW o \in Owner, HasRoomFor(S, o), NEW T, T = CountWaiting(S, o)
  PROVE  Roused(S, T)
<1>1. PICK U, q : U = create_tqueue(S, o) /\ q = find_tqueue(U, o)
  OBVIOUS
<1>2. U \in Scheds /\ q \in Slot
  BY <1>1, Create DEF Opened
<1>3. PICK m \in Int : m = U.queue[q].num_bg_tasks
  BY <1>2, SchedTypes
<1>4. PICK n \in Int : n = m + 1
  OBVIOUS
<1>5. T = WithCount(U, q, n)
  BY <1>1, <1>2, <1>3, <1>4, SchedTypes DEF CountWaiting, WithCount, Scheds
<1>6. Roused(S, U) /\ Roused(U, T)
  BY <1>1, <1>2, <1>5, CountRouses, CreateRouses
<1>. QED
  BY <1>6, RousedTwice

\* A task becomes ready in a queue that is made active.
LEMMA ReadyRouses ==
  ASSUME NEW S, QInv(S), NEW t, NEW q \in Slot, q = find_tqueue(S, task[t].progr),
         NEW T, T = MakeReady(S, t)
  PROVE  Roused(S, T)
<1>1. PICK E : E = ensure_usage(S, q)
  OBVIOUS
<1>2. create_tqueue(S, task[t].progr) = S
  BY DEF create_tqueue, NoQueue, Slot
<1>3. T = enqueue_bg_task(E, q, t)
  BY <1>1, <1>2 DEF MakeReady
<1>4. S \in Scheds
  BY DEF QInv
<1>5. E \in Scheds /\ Roused(S, E) /\ q \in ToSet(E.active)
  BY <1>1, <1>4, Ensure, EnsureRouses
<1>6. PICK x : T.queue = [E.queue EXCEPT ![q] = x] /\ T.active = E.active
  BY <1>3, <1>5 DEF enqueue_bg_task, Scheds
<1>7. Roused(E, T)
  BY <1>5, <1>6, SwapRouses
<1>. QED
  BY <1>5, <1>7, RousedTwice

\* A queue may take fewer lines when no task reads from it.
LEMMA UnreadRests ==
  ASSUME NEW x \in Queue
  PROVE  Runs([x EXCEPT !.reading = None]) => Runs(x)
<1>1. PICK y : y = [x EXCEPT !.reading = None]
  OBVIOUS
<1>2. /\ y.disable_oob = x.disable_oob /\ y.hold_input = x.hold_input
      /\ y.input = x.input /\ y.bg = x.bg /\ y.reading = None
  BY <1>1 DEF Queue
<1>3. x.input = <<>> => ~\E i \in DOMAIN x.input : IsOob(x.input[i])
  OBVIOUS
<1>. QED
  BY <1>1, <1>2, <1>3 DEF Runs, HasLine

LEMMA ReadRouses ==
  ASSUME NEW S, QInv(S), NEW q \in Slot, NEW t \in TaskId, NEW U, U = WithReading(S, q, t),
         NEW T, T = IF S.queue[q].input # <<>> THEN ensure_usage(U, q) ELSE U
  PROVE  Roused(S, T)
<1>1. PICK f \in [Slot -> Queue], a \in Seq(Slot) :
        f = S.queue /\ a = S.active /\ S = [queue |-> f, active |-> a] /\ S \in Scheds
  BY SchedTypes DEF QInv
<1>2. PICK x \in Queue : x = f[q]
  OBVIOUS
<1>3. PICK y : y = [x EXCEPT !.reading = t]
  OBVIOUS
<1>4. y \in Queue /\ y.usage = x.usage /\ y.input = x.input /\ y.bg = x.bg
  BY <1>3 DEF Queue
<1>5. U = [queue |-> [f EXCEPT ![q] = y], active |-> a]
  BY <1>1, <1>2, <1>3 DEF WithReading
<1>6. U \in Scheds /\ U.active = S.active /\ U.queue = [S.queue EXCEPT ![q] = y]
  BY <1>1, <1>4, <1>5 DEF Scheds
<1>7. CASE x.input # <<>>
  <2>1. T = ensure_usage(U, q)
    BY <1>1, <1>2, <1>7
  <2>2. U.queue[q].usage = S.queue[q].usage /\ \A r \in Slot : r # q => U.queue[r] = S.queue[r]
    BY <1>1, <1>2, <1>4, <1>6
  <2>. QED  BY <1>6, <2>1, <2>2, EnsureRouses
<1>8. CASE x.input = <<>>
  <2>1. T = U
    BY <1>1, <1>2, <1>8
  <2>2. Runs(y) => Runs(S.queue[q])
    BY <1>1, <1>2, <1>4, <1>8 DEF Runs, HasLine
  <2>. QED  BY <1>1, <1>6, <2>1, <2>2, SwapRouses
<1>. QED
  BY <1>7, <1>8

AwakeKept == Awake => Awake'

LEMMA RousedKeeps ==
  ASSUME NEW T, Becomes(T), Roused(Sched, T)
  PROVE  AwakeKept
BY RousedStep DEF AwakeKept

LEMMA StillAwake == ASSUME UNCHANGED <<queue, active>> PROVE AwakeKept
BY DEF AwakeKept, Awake


-----------------------------------------------------------------------------
(* The steps: tasks whose time has come                                    *)

\* The queues as the first tasks of the list are made ready one by one.
Wakes(f, n) == f = [i \in 0..n |-> IF i = 0 THEN Sched ELSE MakeReady(f[i - 1], waiting[i])]

LEMMA WakesExists ==
  ASSUME NEW n \in Nat
  PROVE  \E f : Wakes(f, n)
<1>. DEFINE N == {k \in Nat : \E f : Wakes(f, k)}
<1>1. 0 \in N
  <2>. DEFINE zero == [i \in 0..0 |-> Sched]
  <2>1. zero = [i \in 0..0 |-> IF i = 0 THEN Sched ELSE MakeReady(zero[i - 1], waiting[i])]
    OBVIOUS
  <2>. QED BY <2>1 DEF Wakes
<1>2. ASSUME NEW k \in Nat, k \in N PROVE k + 1 \in N
  <2>1. PICK s : Wakes(s, k)
    BY <1>2
  <2>. DEFINE t == [i \in 0..(k + 1) |->
                      IF i = k + 1 THEN MakeReady(s[k], waiting[k + 1]) ELSE s[i]]
  <2>2. \A i \in 0..(k + 1) : t[i] = IF i = 0 THEN Sched ELSE MakeReady(t[i - 1], waiting[i])
    BY <2>1 DEF Wakes
  <2>3. t = [i \in 0..(k + 1) |-> t[i]]
    OBVIOUS
  <2>. HIDE DEF t
  <2>4. Wakes(t, k + 1)
    BY <2>2, <2>3 DEF Wakes
  <2>. QED BY <2>4
<1>. HIDE DEF N
<1>3. n \in N
  BY <1>1, <1>2, NatInd
<1>. QED BY <1>3 DEF N

\* The tasks behind the first k.
Values(f, J)       == {f[j] : j \in J}
Covers(f, J, g, I) == \A i \in I : \E j \in J : f[j] = g[i]

LEMMA SameValues ==
  ASSUME NEW f, NEW g, NEW I, NEW J, Covers(f, J, g, I), Covers(g, I, f, J)
  PROVE  Values(f, J) = Values(g, I)
<1>1. PICK A, B : A = {f[j] : j \in J} /\ B = {g[i] : i \in I}
  OBVIOUS
<1>2. \A x : x \in A <=> \E j \in J : x = f[j]
  BY <1>1
<1>3. \A x : x \in B <=> \E i \in I : x = g[i]
  BY <1>1
<1>4. \A x : x \in A <=> x \in B
  BY <1>2, <1>3 DEF Covers
<1>. QED  BY <1>1, <1>4 DEF Values

LEMMA RestIs ==
  ASSUME NEW X, NEW s \in Seq(X), Inj(s), NEW k \in 0..Len(s), NEW n, n = SubSeq(s, k + 1, Len(s))
  PROVE  n \in Seq(X) /\ Inj(n) /\ ToSet(n) = {s[i] : i \in (k + 1)..Len(s)}
<1>1. PICK l \in Nat : l = Len(s) /\ DOMAIN s = 1..l
  OBVIOUS
<1>2. PICK m \in Nat : m = k + 1
  BY <1>1
<1>3. k \in Nat /\ k <= l /\ l - k \in Nat
  BY <1>1
<1>4. n = SubSeq(s, m, l)
  BY <1>1, <1>2
<1>5. n \in Seq(X)
  BY <1>1, <1>2, <1>4
<1>6. Len(n) = l - k
  <2>1. CASE m <= l
    BY <1>1, <1>2, <1>3, <1>4, <2>1
  <2>2. CASE m > l
    BY <1>1, <1>2, <1>3, <1>4, <2>2
  <2>. QED  BY <1>1, <1>2, <2>1, <2>2
<1>7. \A j \in 1..(l - k) : n[j] = s[j + k]
  BY <1>1, <1>2, <1>3, <1>4
<1>8. DOMAIN n = 1..(l - k)
  BY <1>5, <1>6
<1>9. Inj(n)
  <2>1. \A j \in 1..(l - k) : j + k \in DOMAIN s
    BY <1>1, <1>3
  <2>2. \A i, j \in 1..(l - k) : i + k = j + k => i = j
    BY <1>1, <1>3
  <2>. QED  BY <1>7, <1>8, <2>1, <2>2 DEF Inj
<1>10. ASSUME NEW i \in m..l PROVE \E j \in DOMAIN n : n[j] = s[i]
  <2>1. i - k \in 1..(l - k) /\ (i - k) + k = i
    BY <1>1, <1>2, <1>3
  <2>. QED  BY <1>7, <1>8, <2>1
<1>11. ASSUME NEW j \in DOMAIN n PROVE \E i \in m..l : n[j] = s[i]
  <2>1. j \in 1..(l - k)
    BY <1>8
  <2>2. j + k \in m..l
    BY <1>1, <1>2, <1>3, <2>1
  <2>. QED  BY <1>7, <2>1, <2>2
<1>12. {n[j] : j \in DOMAIN n} = {s[i] : i \in m..l}
  <2>1. \A i \in m..l : \E j \in DOMAIN n : n[j] = s[i]
    BY <1>10
  <2>2. \A j \in DOMAIN n : \E i \in m..l : n[j] = s[i]
    BY <1>11
  <2>3. PICK I, J : I = m..l /\ J = DOMAIN n
    OBVIOUS
  <2>5. Covers(n, J, s, I) /\ Covers(s, I, n, J)
    BY <2>1, <2>2, <2>3 DEF Covers
  <2>4. Values(n, J) = Values(s, I)
    BY <2>5, SameValues
  <2>. QED  BY <2>3, <2>4 DEF Values
<1>. QED
  BY <1>1, <1>2, <1>5, <1>9, <1>12 DEF ToSet

LEMMA DueIs == ASSUME IInv PROVE Due \in 0..Len(waiting)
<1>1. waiting \in Seq(TaskId) /\ DOMAIN waiting = 1..Len(waiting) /\ Len(waiting) \in Nat
  <2>1. waiting \in Seq(TaskId)
    BY Parts
  <2>. QED  BY <2>1
<1>2. PICK D : D = {i \in DOMAIN waiting : \A j \in 1..i : task[waiting[j]].delay = 0}
  OBVIOUS
<1>3. D \subseteq 1..Len(waiting) /\ Due = Cardinality(D)
  BY <1>1, <1>2 DEF Due
<1>4. IsFiniteSet(1..Len(waiting)) /\ Cardinality(1..Len(waiting)) = Len(waiting)
  BY <1>1, FS_Interval
<1>5. IsFiniteSet(D) /\ Cardinality(D) <= Cardinality(1..Len(waiting))
  BY <1>3, <1>4, FS_Subset
<1>6. Cardinality(D) \in Nat
  BY <1>5, FS_CardinalityType
<1>. QED
  BY <1>1, <1>3, <1>4, <1>5, <1>6

Rest(k) == SubSeq(waiting, k + 1, Len(waiting))

LEMMA WakeStep ==
  ASSUME IInv, WakeTasks
  PROVE  IInv' /\ AwakeKept
<1>1. PICK d : d = Due /\ d \in Nat /\ d \in 0..Len(waiting)
  BY DueIs, Parts
<1>2. PICK f : Wakes(f, d) /\ Woken = f[d]
  <2>. DEFINE g == CHOOSE h : Wakes(h, d)
  <2>1. Wakes(g, d)
    BY <1>1, WakesExists
  <2>2. Woken = g[d]
    BY <1>1 DEF Woken, Wakes
  <2>. QED  BY <2>1, <2>2
<1>3. f[0] = Sched /\ \A i \in 1..d : f[i] = MakeReady(f[i - 1], waiting[i])
  BY <1>1, <1>2 DEF Wakes
<1>4. waiting \in Seq(TaskId) /\ Inj(waiting) /\ Len(waiting) \in Nat /\ DOMAIN waiting = 1..Len(waiting)
  <2>1. waiting \in Seq(TaskId) /\ Inj(waiting)
    BY Parts DEF TInv
  <2>. QED  BY <2>1
<1>5. ASSUME NEW k \in 0..Len(waiting)
      PROVE  /\ Rest(k) \in Seq(TaskId) /\ Inj(Rest(k))
             /\ ToSet(Rest(k)) = {waiting[i] : i \in (k + 1)..Len(waiting)}
  BY <1>4, RestIs DEF Rest
<1>. DEFINE N == {k \in Nat : k <= d => /\ All(f[k], shandle, pc, Rest(k), task, current)
                                       /\ Roused(Sched, f[k])}
<1>6. 0 \in N
  <2>1. Rest(0) = waiting
    BY <1>4 DEF Rest
  <2>2. Roused(Sched, Sched)
    BY DEF Roused
  <2>. QED  BY <1>3, <2>1, <2>2 DEF IInv
<1>7. ASSUME NEW k \in Nat, k \in N PROVE k + 1 \in N
  <2>. SUFFICES ASSUME k + 1 <= d
                PROVE  /\ All(f[k + 1], shandle, pc, Rest(k + 1), task, current)
                       /\ Roused(Sched, f[k + 1])
    OBVIOUS
  <2>1. /\ k <= d /\ k + 1 \in 1..d /\ (k + 1) - 1 = k
        /\ k \in 0..Len(waiting) /\ k + 1 \in 0..Len(waiting) /\ k + 1 \in DOMAIN waiting
    BY <1>1, <1>4
  <2>2. All(f[k], shandle, pc, Rest(k), task, current) /\ Roused(Sched, f[k])
    BY <1>7, <2>1
  <2>3. PICK S, T, t, w, w2 : /\ S = f[k] /\ T = f[k + 1] /\ t = waiting[k + 1]
                              /\ w = Rest(k) /\ w2 = Rest(k + 1)
    OBVIOUS
  <2>4. T = MakeReady(S, t)
    BY <1>3, <2>1, <2>3
  <2>5. t \in ToSet(w) /\ ToSet(w2) = ToSet(w) \ {t} /\ w2 \in Seq(TaskId) /\ Inj(w2)
    <3>1. ToSet(w) = {waiting[i] : i \in (k + 1)..Len(waiting)}
      BY <1>5, <2>1, <2>3
    <3>2. ToSet(w2) = {waiting[i] : i \in ((k + 1) + 1)..Len(waiting)} /\ w2 \in Seq(TaskId) /\ Inj(w2)
      BY <1>5, <2>1, <2>3
    <3>3. \A i \in (k + 1)..Len(waiting) : i \in DOMAIN waiting /\ (i # k + 1 <=> i \in ((k + 1) + 1)..Len(waiting))
      BY <1>4, <2>1
    <3>4. k + 1 \in (k + 1)..Len(waiting)
          /\ \A i \in ((k + 1) + 1)..Len(waiting) : i \in (k + 1)..Len(waiting) /\ i # k + 1
      BY <1>4, <2>1
    <3>5. \A i \in (k + 1)..Len(waiting) : i # k + 1 => waiting[i] # t
      BY <1>4, <2>1, <2>3, <3>3 DEF Inj
    <3>. QED  BY <2>3, <3>1, <3>2, <3>3, <3>4, <3>5
  <2>6. All(T, shandle, pc, w2, task, current)
    BY <2>2, <2>3, <2>4, <2>5, ReadyKeeps
  <2>7. Roused(S, T)
    <3>1. PICK q : q = find_tqueue(S, task[t].progr)
      OBVIOUS
    <3>2. QInv(S) /\ q \in Slot
      BY <2>2, <2>3, <2>5, <3>1, WaitingIs DEF All
    <3>. QED  BY <2>4, <3>1, <3>2, ReadyRouses
  <2>8. Roused(Sched, T)
    BY <2>2, <2>3, <2>7, RousedTwice
  <2>. QED  BY <2>3, <2>6, <2>8
<1>. HIDE DEF N
<1>8. d \in N
  BY <1>1, <1>6, <1>7, NatInd
<1>9. All(f[d], shandle, pc, Rest(d), task, current) /\ Roused(Sched, f[d])
  BY <1>1, <1>8 DEF N
<1>10. /\ Becomes(f[d]) /\ waiting' = Rest(d) /\ pc' = Loop("run")
       /\ UNCHANGED <<task, current, shandle, users>>
  BY <1>1, <1>2 DEF WakeTasks, Rest
<1>11. PInv(f[d], shandle, Loop("run"))
  BY LoopKeeps DEF Place, RunningPlace
<1>12. All(f[d], shandle, pc', waiting', task, current)
  BY <1>9, <1>10, <1>11 DEF All
<1>13. AwakeKept
  BY <1>9, <1>10, RousedKeeps
<1>. QED
  BY <1>10, <1>12, <1>13, Parts, StepTo

-----------------------------------------------------------------------------
(* The steps: run_ready_tasks()                                            *)

\* The task that reads from queue q is resumed.
LEMMA ReaderRuns ==
  ASSUME NEW S, NEW p, All(S, shandle, p, waiting, task, None), S.active # <<>>,
         NEW q \in Slot, NEW t, t = S.queue[q].reading, t # None, ResumeCode(t),
         NEW T, T = WithReading(S, q, None)
  PROVE  All(T, shandle, pc', waiting, task', current')
<1>1. /\ QInv(S) /\ S \in Scheds /\ TInv(S, waiting, task, None) /\ BInv(S, waiting, task)
      /\ task \in [TaskId -> TaskRecord] /\ waiting \in Seq(TaskId) /\ Inj(waiting)
      /\ \A r \in Slot : Inj(S.queue[r].bg)
  BY DEF All, QInv, TInv
<1>2. t \in TaskId
  BY <1>1, SchedTypes
<1>3. PICK none \in TaskId \cup {None} : none = None
  OBVIOUS
<1>4. T = WithReading(S, q, none)
  BY <1>3
<1>5. /\ Retasked(S, T, q) /\ T.queue[q].reading = none
      /\ T.queue[q].bg = S.queue[q].bg
      /\ T.queue[q].num_bg_tasks = S.queue[q].num_bg_tasks
  BY <1>1, <1>4, ReadingIs
<1>6. PICK v : IsAt(v, t, S, waiting, task, None)
  BY <1>1, <1>2, TaskAt
<1>7. v = Reads(q)
  BY <1>6 DEF IsAt
<1>8. /\ t \notin ToSet(waiting) /\ t \notin ToSet(S.queue[q].bg) /\ task[t].kind # None
  BY <1>6, <1>7 DEF IsAt, Gone0, Waiting, Reads, Ready
<1>9. S.queue[q].player # None
  BY <1>1, FreeSlotIs DEF QInv, FreeIsEmpty
<1>10. PICK tk2, r, o : tk2 = task' /\ r = Vm(task[t].progr) /\ o = task[t].progr
  OBVIOUS
<1>11. tk2 = [task EXCEPT ![t] = r] /\ current' = t /\ pc' = Loop("task")
  BY <1>10 DEF ResumeCode
<1>12. o \in Owner
  BY <1>1, <1>2, <1>8, <1>10 DEF TInv
<1>13. r \in TaskRecord /\ r.kind # None /\ r.progr = o
  BY <1>10, <1>12 DEF Vm, TaskRecord, None
<1>14. /\ tk2 \in [TaskId -> TaskRecord] /\ tk2[t] = r
       /\ \A u \in TaskId : u # t => tk2[u] = task[u]
  BY <1>1, <1>2, <1>11, <1>13
<1>15. Taken(t, q, S, waiting, task, None, T, waiting, tk2, t)
  <2>1. PICK k \in Nat, m \in Int : k = Len(S.queue[q].bg) /\ m = S.queue[q].num_bg_tasks
    <3>1. S.queue[q].num_bg_tasks \in Int /\ S.queue[q].bg \in Seq(TaskId)
      BY <1>1, SchedTypes
    <3>2. Len(S.queue[q].bg) \in Nat
      BY <3>1
    <3>. QED  BY <3>1, <3>2
  <2>2. In(t, waiting) = 0
    BY <1>8 DEF In
  <2>3. k \in Nat /\ m \in Int
    BY <2>1
  <2>4. m <= m /\ m = m + (k - k) + (0 - 0)
    BY <2>3
  <2>5. /\ T.queue[q].num_bg_tasks <= S.queue[q].num_bg_tasks
        /\ T.queue[q].num_bg_tasks = S.queue[q].num_bg_tasks
             + (Len(T.queue[q].bg) - Len(S.queue[q].bg)) + (In(t, waiting) - In(t, waiting))
    BY <1>5, <2>1, <2>2, <2>4
  <2>6. Inj(T.queue[q].bg) /\ ToSet(T.queue[q].bg) = ToSet(S.queue[q].bg) \ {t}
    BY <1>1, <1>5, <1>8
  <2>. QED  BY <1>1, <1>3, <1>5, <1>8, <1>10, <1>13, <1>14, <2>5, <2>6 DEF Taken
<1>16. All(T, shandle, p, waiting, tk2, t)
  BY <1>2, <1>5, <1>9, <1>15, TakeKeeps
<1>17. T.active # <<>>
  BY <1>5 DEF Retasked
<1>18. PInv(T, shandle, pc')
  BY <1>11, <1>17, LoopKeeps DEF Place, RunningPlace
<1>. QED
  BY <1>10, <1>11, <1>16, <1>18 DEF All

LEMMA RunBackgroundKeeps ==
  ASSUME NEW S, NEW p, All(S, shandle, p, waiting, task, None), S.active # <<>>,
         NEW q \in Slot, S.queue[q].player # None, S.queue[q].bg # <<>>,
         ResumeCode(Head(S.queue[q].bg)), NEW T, T = dequeue_bg_task(S, q)
  PROVE  All(T, shandle, pc', waiting, task', current')
<1>1. /\ QInv(S) /\ S \in Scheds /\ TInv(S, waiting, task, None) /\ BInv(S, waiting, task)
      /\ task \in [TaskId -> TaskRecord] /\ waiting \in Seq(TaskId) /\ Inj(waiting)
      /\ \A r \in Slot : Inj(S.queue[r].bg)
  BY DEF All, QInv, TInv
<1>2. PICK s, b, t : s = S.queue[q].bg /\ b = Tail(s) /\ t = Head(s)
  OBVIOUS
<1>3. /\ S.queue[q].num_bg_tasks \in Int /\ S.queue \in [Slot -> Queue] /\ S.queue[q] \in Queue
      /\ s \in Seq(TaskId)
  BY <1>1, <1>2, SchedTypes
<1>4. /\ b \in Seq(TaskId) /\ Inj(b) /\ ToSet(b) = ToSet(s) \ {t}
      /\ t \in ToSet(s) /\ Len(b) = Len(s) - 1
  BY <1>1, <1>2, <1>3, TailInj
<1>5. PICK m \in Int : m = S.queue[q].num_bg_tasks
  BY <1>3
<1>6. PICK n \in Int : n = m - 1
  OBVIOUS
<1>7. T = WithBg(S, q, b, n)
  BY <1>1, <1>2, <1>3, <1>5, <1>6 DEF dequeue_bg_task, WithBg, Scheds
<1>8. /\ Retasked(S, T, q)
      /\ T.queue[q].reading = S.queue[q].reading
      /\ T.queue[q].bg = b
      /\ T.queue[q].num_bg_tasks = n
  BY <1>1, <1>4, <1>7, BgIs
<1>9. t \in TaskId
  BY <1>3, <1>4 DEF ToSet
<1>10. PICK v : IsAt(v, t, S, waiting, task, None)
  BY <1>1, <1>9, TaskAt
<1>11. v = Ready(q)
  BY <1>2, <1>4, <1>10 DEF IsAt
<1>12. /\ t \notin ToSet(waiting) /\ S.queue[q].reading # t /\ task[t].kind # None
  BY <1>10, <1>11 DEF IsAt, Gone0, Waiting, Reads, Ready
<1>13. PICK tk2, r, o : tk2 = task' /\ r = Vm(task[t].progr) /\ o = task[t].progr
  OBVIOUS
<1>14. tk2 = [task EXCEPT ![t] = r] /\ current' = t /\ pc' = Loop("task")
  BY <1>2, <1>13 DEF ResumeCode
<1>15. o \in Owner
  BY <1>1, <1>9, <1>12, <1>13 DEF TInv
<1>16. r \in TaskRecord /\ r.kind # None /\ r.progr = o
  BY <1>13, <1>15 DEF Vm, TaskRecord, None
<1>17. /\ tk2 \in [TaskId -> TaskRecord] /\ tk2[t] = r
       /\ \A u \in TaskId : u # t => tk2[u] = task[u]
  BY <1>1, <1>9, <1>14, <1>16
<1>18. Taken(t, q, S, waiting, task, None, T, waiting, tk2, t)
  <2>1. PICK k \in Nat : k = Len(s)
    BY <1>3
  <2>2. In(t, waiting) = 0
    BY <1>12 DEF In
  <2>3. n <= m /\ n = m + ((k - 1) - k) + (0 - 0)
    BY <1>6, <2>1
  <2>4. /\ T.queue[q].num_bg_tasks <= S.queue[q].num_bg_tasks
        /\ T.queue[q].num_bg_tasks = S.queue[q].num_bg_tasks
             + (Len(T.queue[q].bg) - Len(S.queue[q].bg)) + (In(t, waiting) - In(t, waiting))
    BY <1>2, <1>4, <1>5, <1>8, <2>1, <2>2, <2>3
  <2>5. Inj(T.queue[q].bg) /\ ToSet(T.queue[q].bg) = ToSet(S.queue[q].bg) \ {t}
    BY <1>2, <1>4, <1>8
  <2>. QED  BY <1>1, <1>2, <1>4, <1>8, <1>12, <1>13, <1>16, <1>17, <2>4, <2>5 DEF Taken
<1>19. All(T, shandle, p, waiting, tk2, t)
  BY <1>8, <1>9, <1>18, TakeKeeps
<1>20. T.active # <<>>
  BY <1>8 DEF Retasked
<1>21. PInv(T, shandle, pc')
  BY <1>14, <1>20, LoopKeeps DEF Place, RunningPlace
<1>. QED
  BY <1>13, <1>14, <1>19, <1>21 DEF All

\* What the steps on the list of active queues keep: only usage changes.
Orderly(S) ==
  S \in Scheds /\ Sorted(S) /\ Counted(S) /\ FreeIsEmpty(S) /\ ReadersActive(S)

AllSame(S, T) == \A r \in Slot : Same(S, T, r)

LEMMA SameKeeps ==
  ASSUME NEW S, NEW h, NEW p, NEW w, NEW tk, NEW cur, All(S, h, p, w, tk, cur),
         NEW T, Orderly(T), AllSame(S, T), NEW p2, PInv(T, h, p2)
  PROVE  All(T, h, p2, w, tk, cur)
<1>1. QInv(S) /\ HInv(S, h) /\ TInv(S, w, tk, cur) /\ BInv(S, w, tk)
  BY DEF All
<1>2. \A r \in Slot : /\ T.queue[r].player = S.queue[r].player
                      /\ T.queue[r].connected = S.queue[r].connected
                      /\ T.queue[r].reading = S.queue[r].reading
                      /\ T.queue[r].bg = S.queue[r].bg
                      /\ T.queue[r].num_bg_tasks = S.queue[r].num_bg_tasks
  BY DEF AllSame, Same
<1>3. QInv(T)
  BY <1>1, <1>2 DEF QInv, OneEach, Orderly
<1>4. HInv(T, h)
  BY <1>1, <1>2, HSame
<1>5. TInv(T, w, tk, cur)
  BY <1>1, <1>2, TSame
<1>6. BInv(T, w, tk)
  BY <1>1, <1>2, BSame
<1>. QED
  BY <1>3, <1>4, <1>5, <1>6 DEF All

\* Only the usage of queue q differs.
WithUsage(Q, q, u) == [Q EXCEPT ![q].usage = u]

LEMMA UsageIs ==
  ASSUME NEW Q \in [Slot -> Queue], NEW q \in Slot, NEW u \in Int, NEW R, R = WithUsage(Q, q, u)
  PROVE  /\ R \in [Slot -> Queue] /\ R[q].usage = u
         /\ \A r \in Slot : r # q => R[r] = Q[r]
         /\ \A r \in Slot :
              /\ R[r].player = Q[r].player /\ R[r].connected = Q[r].connected
              /\ R[r].input = Q[r].input /\ R[r].reading = Q[r].reading
              /\ R[r].bg = Q[r].bg /\ R[r].num_bg_tasks = Q[r].num_bg_tasks
<1>1. PICK x \in Queue : x = Q[q]
  OBVIOUS
<1>2. PICK y : y = [x EXCEPT !.usage = u]
  OBVIOUS
<1>3. /\ y \in Queue /\ y.usage = u /\ y.player = x.player /\ y.connected = x.connected
      /\ y.input = x.input /\ y.reading = x.reading /\ y.bg = x.bg
      /\ y.num_bg_tasks = x.num_bg_tasks
  BY <1>2 DEF Queue
<1>4. R = [Q EXCEPT ![q] = y]
  BY <1>1, <1>2 DEF WithUsage
<1>5. R \in [Slot -> Queue] /\ R[q] = y /\ \A r \in Slot : r # q => R[r] = Q[r]
  BY <1>3, <1>4
<1>. QED
  BY <1>1, <1>3, <1>5

\* The first queue is taken off the list; its usage is u.
Dropped(S, q, u) == [queue |-> WithUsage(S.queue, q, u), active |-> Tail(S.active)]

OffList(S, T, f, u) ==
  /\ T \in Scheds /\ Sorted(T) /\ AllSame(S, T) /\ T.queue[f].usage = u
  /\ f \in Slot /\ f \in ToSet(S.active) /\ S.queue[f].player # None
  /\ \A r \in Slot : r # f => T.queue[r] = S.queue[r]
  /\ ToSet(T.active) = ToSet(S.active) \ {f}

LEMMA PairIs ==
  ASSUME NEW X, NEW Y, NEW x \in X, NEW y \in Y, NEW T, T = [queue |-> x, active |-> y]
  PROVE  T \in [queue : X, active : Y] /\ T.queue = x /\ T.active = y
OBVIOUS

LEMMA DropFirst ==
  ASSUME NEW S, QInv(S), S.active # <<>>, NEW f, f = Head(S.active), NEW u \in Int,
         NEW T, T = Dropped(S, f, u)
  PROVE  OffList(S, T, f, u)
<1>1. S \in Scheds /\ S.queue \in [Slot -> Queue] /\ S.active \in Seq(Slot) /\ Sorted(S)
  BY SchedTypes DEF QInv
<1>2. PICK s, a : s = S.active /\ a = Tail(s)
  OBVIOUS
<1>3. /\ a \in Seq(Slot) /\ Inj(a) /\ ToSet(a) = ToSet(s) \ {f} /\ f \in ToSet(s)
      /\ Len(a) = Len(s) - 1
  BY <1>1, <1>2, TailInj DEF Sorted
<1>4. f \in Slot /\ S.queue[f].player # None
  BY <1>2, <1>3, ActiveInUse
<1>5. PICK R : R = WithUsage(S.queue, f, u)
  OBVIOUS
<1>6. T = [queue |-> R, active |-> a]
  BY <1>2, <1>5 DEF Dropped
<1>7. T.queue = R /\ T.active = a
  BY <1>6
<1>8. /\ R \in [Slot -> Queue] /\ R[f].usage = u
      /\ \A r \in Slot : r # f => R[r] = S.queue[r]
      /\ \A r \in Slot :
           /\ R[r].player = S.queue[r].player /\ R[r].connected = S.queue[r].connected
           /\ R[r].input = S.queue[r].input /\ R[r].reading = S.queue[r].reading
           /\ R[r].bg = S.queue[r].bg /\ R[r].num_bg_tasks = S.queue[r].num_bg_tasks
  BY <1>1, <1>4, <1>5, UsageIs
<1>9. T \in Scheds
  <2>1. R \in [Slot -> Queue] /\ a \in Seq(Slot)
    BY <1>3, <1>8
  <2>. QED  BY <1>6, <2>1, PairIs DEF Scheds
<1>10. AllSame(S, T)
  BY <1>7, <1>8 DEF AllSame, Same
<1>11. Sorted(T)
  <2>1. \A i \in DOMAIN a : i + 1 \in DOMAIN s /\ a[i] = s[i + 1] /\ a[i] \in Slot /\ a[i] # f
    <3>1. \A i \in DOMAIN a : i + 1 \in DOMAIN s /\ a[i] = s[i + 1] /\ a[i] \in Slot
      BY <1>1, <1>2, <1>3
    <3>2. \A i \in DOMAIN a : a[i] \in ToSet(a)
      BY DEF ToSet
    <3>. QED  BY <1>3, <3>1, <3>2
  <2>2. \A i, j \in DOMAIN s : i < j => S.queue[s[i]].usage <= S.queue[s[j]].usage
    BY <1>1, <1>2 DEF Sorted
  <2>3. ASSUME NEW i \in DOMAIN a, NEW j \in DOMAIN a, i < j
        PROVE  R[a[i]].usage <= R[a[j]].usage
    <3>1. i \in Int /\ j \in Int
      BY <1>3
    <3>2. i + 1 < j + 1
      BY <2>3, <3>1
    <3>3. S.queue[s[i + 1]].usage <= S.queue[s[j + 1]].usage
      BY <2>1, <2>2, <3>2
    <3>. QED  BY <1>8, <2>1, <3>3
  <2>. QED  BY <1>3, <1>7, <2>3 DEF Sorted
<1>. QED
  BY <1>2, <1>3, <1>4, <1>7, <1>8, <1>9, <1>10, <1>11 DEF OffList

\* deactivate_tqueue(): if a task reads from the queue, its connection is open
\* and has no line for it.
LEMMA DeactivateIs ==
  ASSUME NEW S, QInv(S), S.active # <<>>, NEW f, f = Head(S.active),
         S.queue[f].reading # None => S.queue[f].connected /\ S.queue[f].input = <<>>,
         NEW T, T = deactivate_first(S)
  PROVE  Orderly(T) /\ AllSame(S, T)
<1>1. PICK u \in Int : u = NO_USAGE
  BY DEF NO_USAGE
<1>2. T = Dropped(S, f, u)
  BY <1>1 DEF deactivate_first, WithUsage, Dropped
<1>3. /\ T \in Scheds /\ Sorted(T) /\ AllSame(S, T) /\ T.queue[f].usage = u
      /\ f \in Slot /\ f \in ToSet(S.active) /\ S.queue[f].player # None
      /\ \A r \in Slot : r # f => T.queue[r] = S.queue[r]
      /\ ToSet(T.active) = ToSet(S.active) \ {f}
  <2>1. OffList(S, T, f, u)
    BY <1>1, <1>2, DropFirst
  <2>. QED  BY <2>1 DEF OffList
<1>4. Counted(T)
  <2>1. T.queue[f].usage >= NO_USAGE /\ T.queue[f].usage = NO_USAGE /\ f \notin ToSet(T.active)
    BY <1>1, <1>3
  <2>2. \A r \in Slot : r # f =>
          /\ T.queue[r].usage >= NO_USAGE
          /\ T.queue[r].usage # NO_USAGE <=> r \in ToSet(T.active)
    BY <1>3 DEF QInv, Counted
  <2>. QED  BY <2>1, <2>2 DEF Counted
<1>5. FreeIsEmpty(T)
  BY <1>3 DEF QInv, FreeIsEmpty, AllSame, Same
<1>6. ReadersActive(T)
  <2>. SUFFICES ASSUME NEW r \in Slot, T.queue[r].reading # None,
                       ~T.queue[r].connected \/ T.queue[r].input # <<>>
                PROVE  r \in ToSet(T.active)
    BY DEF ReadersActive
  <2>1. /\ S.queue[r].reading # None /\ (~S.queue[r].connected \/ S.queue[r].input # <<>>)
    BY <1>3 DEF AllSame, Same
  <2>2. r # f
    BY <2>1
  <2>3. r \in ToSet(S.active)
    BY <2>1 DEF QInv, ReadersActive
  <2>. QED  BY <1>3, <2>2, <2>3
<1>. QED
  BY <1>3, <1>4, <1>5, <1>6 DEF Orderly

\* Counting usage from the first active queue changes no order.
LEMMA RebasedIs ==
  ASSUME NEW S, Orderly(S), NEW T, T = Rebased(S)
  PROVE  Orderly(T) /\ AllSame(S, T) /\ T.active = S.active
<1>1. CASE S.active = <<>>
  <2>1. T = S
    BY <1>1 DEF Rebased
  <2>. QED  BY <2>1 DEF AllSame, Same
<1>2. CASE S.active # <<>>
  <2>1. /\ S \in Scheds /\ Sorted(S) /\ Counted(S) /\ FreeIsEmpty(S) /\ ReadersActive(S)
        /\ S.queue \in [Slot -> Queue] /\ S.active \in Seq(Slot)
    BY SchedTypes DEF Orderly
  <2>2. PICK s, f : s = S.active /\ f = Head(S.active)
    OBVIOUS
  <2>3. /\ f \in Slot /\ 1 \in DOMAIN s /\ s[1] = f /\ f \in ToSet(s)
        /\ \A i \in DOMAIN s : s[i] \in Slot /\ s[i] \in ToSet(s) /\ i \in Int /\ i >= 1
    BY <1>2, <2>1, <2>2 DEF ToSet
  <2>4. PICK least \in Int : least = S.queue[f].usage
    BY <2>1, <2>3, SchedTypes
  <2>5. PICK R : R = [q \in Slot |-> IF S.queue[q].usage = NO_USAGE THEN S.queue[q]
                                     ELSE [S.queue[q] EXCEPT !.usage = @ - least]]
    OBVIOUS
  <2>6. T = [S EXCEPT !.queue = R]
    BY <1>2, <2>2, <2>4, <2>5 DEF Rebased
  <2>7. \A q \in Slot : S.queue[q] \in Queue /\ S.queue[q].usage \in Int
    BY <2>1, SchedTypes
  <2>8. ASSUME NEW q \in Slot
        PROVE  /\ R[q] \in Queue
               /\ R[q].player = S.queue[q].player /\ R[q].connected = S.queue[q].connected
               /\ R[q].input = S.queue[q].input /\ R[q].reading = S.queue[q].reading
               /\ R[q].bg = S.queue[q].bg /\ R[q].num_bg_tasks = S.queue[q].num_bg_tasks
               /\ S.queue[q].usage = NO_USAGE => R[q] = S.queue[q]
               /\ S.queue[q].usage # NO_USAGE => R[q].usage = S.queue[q].usage - least
    <3>1. PICK r, u : r = S.queue[q] /\ u = S.queue[q].usage - least
      OBVIOUS
    <3>2. r \in Queue /\ u \in Int
      BY <2>7, <3>1
    <3>3. R[q] = IF r.usage = NO_USAGE THEN r ELSE [r EXCEPT !.usage = u]
      BY <2>5, <3>1
    <3>. QED  BY <3>1, <3>2, <3>3 DEF Queue
  <2>9. R \in [Slot -> Queue]
    BY <2>5, <2>8
  <2>10. T \in Scheds /\ T.queue = R /\ T.active = s
    <3>1. S = [queue |-> S.queue, active |-> S.active]
      BY <2>1, SchedTypes
    <3>. QED  BY <2>1, <2>2, <2>6, <2>9, <3>1 DEF Scheds
  <2>11. AllSame(S, T)
    BY <2>8, <2>10 DEF AllSame, Same
  <2>12. \A q \in Slot : q \in ToSet(s) =>
           /\ S.queue[q].usage # NO_USAGE /\ S.queue[q].usage \in Int
           /\ least <= S.queue[q].usage
    <3>1. \A q \in Slot : q \in ToSet(s) => S.queue[q].usage # NO_USAGE /\ S.queue[q].usage \in Int
      BY <2>1, <2>2, <2>7 DEF Counted
    <3>2. ASSUME NEW q \in Slot, q \in ToSet(s) PROVE least <= S.queue[q].usage
      <4>1. PICK i \in DOMAIN s : s[i] = q
        BY <3>2 DEF ToSet
      <4>2. CASE i = 1
        BY <2>3, <2>4, <4>1, <4>2
      <4>3. CASE i # 1
        <5>1. 1 < i
          BY <2>3, <4>3
        <5>. QED  BY <2>1, <2>2, <2>3, <2>4, <4>1, <5>1 DEF Sorted
      <4>. QED  BY <4>2, <4>3
    <3>. QED  BY <3>1, <3>2
  <2>13. Sorted(T)
    <3>1. ASSUME NEW i \in DOMAIN s, NEW j \in DOMAIN s, i < j
          PROVE  R[s[i]].usage <= R[s[j]].usage
      <4>1. S.queue[s[i]].usage <= S.queue[s[j]].usage
        BY <2>1, <2>2, <3>1 DEF Sorted
      <4>2. /\ R[s[i]].usage = S.queue[s[i]].usage - least
            /\ R[s[j]].usage = S.queue[s[j]].usage - least
            /\ S.queue[s[i]].usage \in Int /\ S.queue[s[j]].usage \in Int
        BY <2>3, <2>8, <2>12
      <4>. QED  BY <2>4, <4>1, <4>2
    <3>. QED  BY <2>1, <2>2, <2>10, <3>1 DEF Sorted
  <2>14. Counted(T)
    <3>. SUFFICES ASSUME NEW q \in Slot
                  PROVE  /\ R[q].usage >= NO_USAGE
                         /\ R[q].usage # NO_USAGE <=> q \in ToSet(s)
      BY <2>10 DEF Counted
    <3>1. CASE q \in ToSet(s)
      <4>1. PICK u \in Int : u = S.queue[q].usage
        BY <2>7
      <4>2. least <= u /\ R[q].usage = u - least
        BY <2>8, <2>12, <3>1, <4>1
      <4>. QED  BY <2>4, <3>1, <4>2 DEF NO_USAGE
    <3>2. CASE q \notin ToSet(s)
      <4>1. S.queue[q].usage = NO_USAGE
        BY <2>1, <2>2, <3>2 DEF Counted
      <4>2. R[q].usage = NO_USAGE
        BY <2>8, <4>1
      <4>. QED  BY <3>2, <4>2 DEF NO_USAGE
    <3>. QED  BY <3>1, <3>2
  <2>15. FreeIsEmpty(T)
    <3>. SUFFICES ASSUME NEW q \in Slot, R[q].player = None PROVE R[q] = FreeSlot
      BY <2>10 DEF FreeIsEmpty
    <3>1. S.queue[q] = FreeSlot
      BY <2>1, <2>8 DEF FreeIsEmpty
    <3>. QED  BY <2>8, <3>1, FreeSlotIs
  <2>16. ReadersActive(T)
    BY <2>1, <2>2, <2>10, <2>11 DEF ReadersActive, AllSame, Same
  <2>. QED  BY <2>2, <2>10, <2>11, <2>13, <2>14, <2>15, <2>16 DEF Orderly
<1>. QED
  BY <1>1, <1>2

\* The first active queue, and what holds when no code runs.
LEMMA FirstIs ==
  ASSUME IInv, active # <<>>
  PROVE  /\ First \in Slot /\ Sched.queue[First].player # None
         /\ Sched.queue = queue /\ Sched.active = active /\ Sched.active # <<>>
         /\ Head(Sched.active) = First
<1>1. Sched.queue = queue /\ Sched.active = active
  BY DEF Sched
<1>. QED
  BY <1>1, Parts, ActiveInUse DEF First

LEMMA NoCode ==
  ASSUME IInv, current = None
  PROVE  All(Sched, shandle, pc, waiting, task, None)
BY DEF IInv

LEMMA ReadFailsStep ==
  ASSUME IInv, current = None, active # <<>>, ReadFails, UNCHANGED <<waiting, shandle, users>>
  PROVE  IInv'
<1>1. /\ First \in Slot /\ Sched.queue = queue /\ Sched.active = active /\ Sched.active # <<>>
      /\ Sched \in Scheds /\ users \subseteq Player
  BY FirstIs, Parts
<1>2. PICK t, none : t = queue[First].reading /\ none = None
  OBVIOUS
<1>3. t # None /\ ResumeCode(t) /\ queue' = ReadingSet(queue, First, none) /\ active' = active
  BY <1>2 DEF ReadFails, ReadingSet
<1>4. PICK T : T = WithReading(Sched, First, none)
  OBVIOUS
<1>5. none \in TaskId \cup {None}
  BY <1>2
<1>6. T.queue = ReadingSet(Sched.queue, First, none) /\ T.active = Sched.active
  BY <1>1, <1>4, <1>5, ReadingIs DEF Retasked
<1>7. Becomes(T)
  BY <1>1, <1>3, <1>6 DEF Becomes
<1>8. All(Sched, shandle, pc, waiting, task, None)
  BY NoCode
<1>9. All(T, shandle, pc', waiting, task', current')
  BY <1>1, <1>2, <1>3, <1>4, <1>8, ReaderRuns
<1>. QED
  BY <1>1, <1>7, <1>9, StepTo

\* A line is taken from the first queue.
LEMMA RunLineStep ==
  ASSUME IInv, current = None, active # <<>>, RunLine, UNCHANGED <<waiting, shandle, users>>
  PROVE  IInv'
<1>1. /\ First \in Slot /\ Sched.queue[First].player # None
      /\ Sched.queue = queue /\ Sched.active = active /\ Sched.active # <<>>
      /\ Head(Sched.active) = First
      /\ Sched \in Scheds /\ users \subseteq Player /\ QInv(Sched) /\ HInv(Sched, shandle)
  BY FirstIs, Parts
<1>2. PICK how, line : how = RunHow(Sched, First) /\ line = DequeuedLine(Sched, First, how)
  OBVIOUS
<1>3. PICK S : S = dequeue_input_task(Sched, First, how)
  OBVIOUS
<1>4. LineAt(Sched, First, how) # 0
  BY <1>2 DEF RunLine
<1>5. Quiet(Sched, S)
  BY <1>1, <1>3, <1>4, DequeueQuiet
<1>6. All(S, shandle, pc, waiting, task, None)
  BY <1>5, NoCode, QuietKeeps
<1>7. /\ S.active # <<>> /\ Head(S.active) = First
      /\ S.queue[First].reading = queue[First].reading
      /\ S.queue[First].player = queue[First].player
  BY <1>1, <1>5 DEF Quiet
<1>8. S \in Scheds /\ TInv(S, waiting, task, current) /\ BInv(S, waiting, task)
  BY <1>6 DEF All, QInv
<1>9. CASE line # "TASK_OOB" /\ queue[First].reading # None
  <2>1. PICK t : t = queue[First].reading
    OBVIOUS
  <2>2. PICK T : T = WithReading(S, First, None)
    OBVIOUS
  <2>3. Becomes(T) /\ ResumeCode(t)
    BY <1>2, <1>3, <1>9, <2>1, <2>2 DEF RunLine, WithReading
  <2>4. All(T, shandle, pc', waiting, task', current')
    BY <1>1, <1>6, <1>7, <1>9, <2>1, <2>2, <2>3, ReaderRuns
  <2>. QED  BY <1>1, <2>3, <2>4, StepTo
<1>10. CASE ~(line # "TASK_OOB" /\ queue[First].reading # None)
  <2>1. Becomes(S)
    BY <1>2, <1>3, <1>10 DEF RunLine
  <2>2. PInv(S, shandle, Loop("task")) /\ PInv(S, shandle, Loop("command"))
    BY <1>7, LoopKeeps DEF Place, RunningPlace
  <2>3. queue[First].player \notin Player => PInv(S, shandle, Loop("login"))
    BY <1>7, LoopKeeps DEF Place, RunningPlace
  <2>4. \/ \E place : StartCode(place) /\ PInv(S, shandle, place)
        \/ UNCHANGED <<task, current, pc>>
        \/ pc' = Loop("task") /\ UNCHANGED <<task, current>>
    <3>1. CASE line = "TASK_OOB"
      BY <1>2, <1>3, <1>10, <2>2, <3>1 DEF RunLine
    <3>2. CASE line # "TASK_OOB" /\ queue[First].player \notin Player
      BY <1>2, <1>3, <1>10, <2>3, <3>2 DEF RunLine
    <3>3. CASE line # "TASK_OOB" /\ queue[First].player \in Player /\ line = Blank
      BY <1>2, <1>3, <1>10, <3>3 DEF RunLine
    <3>4. CASE line # "TASK_OOB" /\ queue[First].player \in Player /\ line # Blank
      BY <1>2, <1>3, <1>10, <2>2, <3>4 DEF RunLine
    <3>. QED  BY <3>1, <3>2, <3>3, <3>4
  <2>5. ASSUME NEW place, StartCode(place), PInv(S, shandle, place)
        PROVE  All(S, shandle, pc', waiting, task', current')
    <3>1. TInv(S, waiting, task', current') /\ BInv(S, waiting, task') /\ pc' = place
      BY <1>8, <2>5, StartStep
    <3>. QED  BY <1>6, <2>5, <3>1 DEF All
  <2>6. ASSUME UNCHANGED <<task, current, pc>> \/ (pc' = Loop("task") /\ UNCHANGED <<task, current>>)
        PROVE  All(S, shandle, pc', waiting, task', current')
    BY <1>6, <2>2, <2>6 DEF All
  <2>7. All(S, shandle, pc', waiting, task', current')
    BY <2>4, <2>5, <2>6
  <2>. QED  BY <1>1, <2>1, <2>7, StepTo
<1>. QED
  BY <1>9, <1>10

LEMMA NothingStep ==
  ASSUME IInv, current = None, pc.at = "run", active # <<>>, NothingToRun,
         ~(queue[First].reading # None /\ is_out_of_input(Sched, First)),
         UNCHANGED <<waiting, shandle, users>>
  PROVE  IInv'
<1>1. /\ First \in Slot /\ Sched.queue = queue /\ Sched.active = active /\ Sched.active # <<>>
      /\ Head(Sched.active) = First
      /\ Sched \in Scheds /\ users \subseteq Player /\ QInv(Sched)
  BY FirstIs, Parts
<1>2. Sched.queue[First].reading # None =>
        Sched.queue[First].connected /\ Sched.queue[First].input = <<>>
  <2>. SUFFICES ASSUME queue[First].reading # None
                PROVE  queue[First].connected /\ queue[First].input = <<>>
    BY <1>1
  <2>1. RunHow(Sched, First) = "DQ_FIRST"
    BY <1>1 DEF RunHow
  <2>2. LineAt(Sched, First, "DQ_FIRST") = 0
    BY <2>1 DEF NothingToRun
  <2>3. queue[First].input = <<>>
    BY <1>1, <2>2, LineAtIs
  <2>. QED  BY <1>1, <2>3 DEF is_out_of_input
<1>3. PICK S : S = deactivate_first(Sched)
  OBVIOUS
<1>4. Orderly(S) /\ AllSame(Sched, S)
  BY <1>1, <1>2, <1>3, DeactivateIs
<1>5. PICK T : T = Rebased(S)
  OBVIOUS
<1>6. Orderly(T) /\ AllSame(S, T)
  BY <1>4, <1>5, RebasedIs
<1>7. AllSame(Sched, T)
  BY <1>4, <1>6 DEF AllSame, Same
<1>8. Becomes(T) /\ UNCHANGED <<task, current, pc>>
  BY <1>3, <1>5 DEF NothingToRun
<1>9. PInv(T, shandle, pc)
  BY Parts DEF PInv, RunningPlace
<1>10. All(T, shandle, pc, waiting, task, current)
  BY <1>6, <1>7, <1>9, SameKeeps DEF IInv
<1>. QED
  BY <1>1, <1>8, <1>10, StepTo

LEMMA RunStep ==
  ASSUME IInv, RunFirst
  PROVE  IInv'
<1>1. /\ current = None /\ pc.at = "run" /\ active # <<>>
      /\ UNCHANGED <<waiting, shandle, users>>
  BY DEF RunFirst, Idle
<1>2. CASE ReadFails
  BY <1>1, <1>2, ReadFailsStep
<1>3. CASE RunLine
  BY <1>1, <1>3, RunLineStep
<1>4. CASE RunBackground
  <2>1. /\ First \in Slot /\ Sched.queue = queue /\ Sched.active # <<>> /\ users \subseteq Player
        /\ Sched.queue[First].player # None
    BY <1>1, FirstIs, Parts
  <2>2. PICK T : T = dequeue_bg_task(Sched, First)
    OBVIOUS
  <2>3. /\ Becomes(T) /\ Sched.queue[First].bg # <<>>
        /\ ResumeCode(Head(Sched.queue[First].bg))
    BY <1>4, <2>1, <2>2 DEF RunBackground
  <2>4. All(T, shandle, pc', waiting, task', current')
    BY <1>1, <2>1, <2>2, <2>3, NoCode, RunBackgroundKeeps
  <2>. QED  BY <1>1, <2>1, <2>3, <2>4, StepTo
<1>5. CASE NothingToRun /\ ~ReadFails
  <2>1. CASE queue[First].reading # None /\ is_out_of_input(Sched, First)
    BY <1>2, <2>1 DEF RunFirst
  <2>2. CASE ~(queue[First].reading # None /\ is_out_of_input(Sched, First))
    BY <1>1, <1>5, <2>2, NothingStep
  <2>. QED  BY <2>1, <2>2
<1>. QED
  BY <1>2, <1>3, <1>4, <1>5 DEF RunFirst

\* free_tqueue() of the queues that have nothing: no connection, hence no
\* reader, and no tasks that are ready or wait.
Unneeded(S, q) ==
  /\ q \in IdleIn(S)
  /\ ~S.queue[q].connected
  /\ S.queue[q].input = <<>>
  /\ S.queue[q].num_bg_tasks = 0

LEMMA UnneededIs ==
  ASSUME NEW S, NEW w, NEW tk, NEW cur, QInv(S), TInv(S, w, tk, cur), BInv(S, w, tk),
         NEW q \in Slot, Unneeded(S, q)
  PROVE  /\ S.queue[q].player # None /\ ~S.queue[q].connected
         /\ S.queue[q].input = <<>> /\ S.queue[q].reading = None /\ S.queue[q].bg = <<>>
         /\ S.queue[q].num_bg_tasks = 0 /\ S.queue[q].usage = NO_USAGE
         /\ \A t \in ToSet(w) : tk[t].progr # S.queue[q].player
<1>1. /\ S.queue[q].player # None /\ q \notin ToSet(S.active) /\ ~S.queue[q].connected
      /\ S.queue[q].input = <<>> /\ S.queue[q].num_bg_tasks = 0
  BY DEF Unneeded, IdleIn, InUse
<1>2. S.queue[q].reading = None
  BY <1>1 DEF QInv, ReadersActive
<1>3. S.queue[q].usage = NO_USAGE
  BY <1>1 DEF QInv, Counted
<1>4. PICK b, ws : b = S.queue[q].bg /\ ws = Waits(w, tk, S.queue[q].player)
  OBVIOUS
<1>5. b \in Seq(TaskId) /\ w \in Seq(TaskId)
  BY <1>4, SchedTypes DEF QInv, TInv
<1>6. IsFiniteSet(ws)
  <2>1. IsFiniteSet(ToSet(w))
    BY <1>5, ListIsFinite
  <2>2. ws \subseteq ToSet(w)
    BY <1>4 DEF Waits
  <2>. QED  BY <2>1, <2>2, FS_Subset
<1>7. Cardinality(ws) \in Nat /\ (Cardinality(ws) = 0 <=> ws = {})
  <2>1. Cardinality(ws) \in Nat
    BY <1>6, FS_CardinalityType
  <2>2. Cardinality(ws) = 0 <=> ws = {}
    BY <1>6, FS_EmptySet
  <2>. QED  BY <2>1, <2>2
<1>8. 0 = Len(b) + Cardinality(ws)
  BY <1>1, <1>4 DEF BInv
<1>9. Len(b) = 0 /\ Cardinality(ws) = 0
  <2>1. PICK k \in Nat, c \in Nat : k = Len(b) /\ c = Cardinality(ws)
    BY <1>5, <1>7
  <2>2. k = 0 /\ c = 0
    BY <1>8, <2>1
  <2>. QED  BY <2>1, <2>2
<1>10. b = <<>>
  BY <1>5, <1>9
<1>11. \A t \in ToSet(w) : tk[t].progr # S.queue[q].player
  BY <1>4, <1>7, <1>9 DEF Waits
<1>. QED
  BY <1>1, <1>2, <1>3, <1>4, <1>10, <1>11

LEMMA FreeUnusedKeeps ==
  ASSUME NEW S, NEW h, NEW p, NEW w, NEW tk, NEW cur, All(S, h, p, w, tk, cur),
         NEW T, T = FreeUnused(S), NEW p2, PInv(T, h, p2)
  PROVE  All(T, h, p2, w, tk, cur)
<1>1. /\ QInv(S) /\ S \in Scheds /\ Sorted(S) /\ Counted(S) /\ OneEach(S) /\ FreeIsEmpty(S)
      /\ ReadersActive(S) /\ HInv(S, h) /\ TInv(S, w, tk, cur) /\ BInv(S, w, tk)
      /\ S.queue \in [Slot -> Queue] /\ S.active \in Seq(Slot)
  BY SchedTypes DEF All, QInv
<1>2. PICK R : R = [q \in Slot |-> IF Unneeded(S, q) THEN FreeSlot ELSE S.queue[q]]
  OBVIOUS
<1>3. T = [queue |-> R, active |-> S.active]
  <2>1. S = [queue |-> S.queue, active |-> S.active]
    BY <1>1, SchedTypes
  <2>2. T = [S EXCEPT !.queue = R]
    BY <1>2 DEF FreeUnused, Unneeded
  <2>. QED  BY <2>1, <2>2
<1>4. R \in [Slot -> Queue]
  BY <1>1, <1>2, FreeSlotIs
<1>5. T \in Scheds /\ T.queue = R /\ T.active = S.active
  BY <1>1, <1>3, <1>4, PairIs DEF Scheds
<1>6. ASSUME NEW q \in Slot
      PROVE  /\ R[q].connected = S.queue[q].connected /\ R[q].input = S.queue[q].input
             /\ R[q].reading = S.queue[q].reading /\ R[q].bg = S.queue[q].bg
             /\ R[q].num_bg_tasks = S.queue[q].num_bg_tasks /\ R[q].usage = S.queue[q].usage
             /\ R[q] = S.queue[q] \/ (R[q] = FreeSlot /\ Unneeded(S, q))
  <2>1. CASE Unneeded(S, q)
    <3>1. R[q] = FreeSlot
      BY <1>2, <2>1
    <3>2. /\ ~S.queue[q].connected
          /\ S.queue[q].input = <<>> /\ S.queue[q].reading = None /\ S.queue[q].bg = <<>>
          /\ S.queue[q].num_bg_tasks = 0 /\ S.queue[q].usage = NO_USAGE
      BY <1>1, <2>1, UnneededIs
    <3>3. S.queue[q].connected = FALSE
      BY <1>1, <3>2, SchedTypes
    <3>. QED  BY <2>1, <3>1, <3>2, <3>3, FreeSlotIs
  <2>2. CASE ~Unneeded(S, q)
    BY <1>2, <2>2
  <2>. QED  BY <2>1, <2>2
<1>7. \A i \in DOMAIN S.active : S.active[i] \in Slot
  BY <1>1
<1>8. Sorted(T)
  BY <1>1, <1>5, <1>6, <1>7 DEF Sorted
<1>9. Counted(T)
  BY <1>1, <1>5, <1>6 DEF Counted
<1>10. FreeIsEmpty(T)
  BY <1>1, <1>5, <1>6 DEF FreeIsEmpty
<1>11. ReadersActive(T)
  BY <1>1, <1>5, <1>6 DEF ReadersActive
<1>12. None \notin Owner
  BY NumbersAssumption
<1>13. \A q \in Slot : R[q].player # None => R[q] = S.queue[q]
  BY <1>6, FreeSlotIs
<1>14. OneEach(T)
  BY <1>1, <1>5, <1>12, <1>13 DEF OneEach
<1>15. QInv(T)
  BY <1>5, <1>8, <1>9, <1>10, <1>11, <1>14 DEF QInv
<1>16. \A q \in Slot : S.queue[q].connected => R[q] = S.queue[q]
  BY <1>6 DEF Unneeded
<1>17. HInv(T, h)
  BY <1>1, <1>5, <1>6, <1>16 DEF HInv
<1>18. TInv(T, w, tk, cur)
  BY <1>1, <1>5, <1>6, TSame
<1>19. BInv(T, w, tk)
  <2>1. \A q \in Slot : R[q].player # None =>
          R[q].num_bg_tasks = Len(R[q].bg) + Cardinality(Waits(w, tk, R[q].player))
    BY <1>1, <1>13 DEF BInv
  <2>2. ASSUME NEW t \in ToSet(w) PROVE \E q \in Slot : R[q].player = tk[t].progr
    <3>1. PICK q \in Slot : S.queue[q].player = tk[t].progr
      BY <1>1 DEF BInv
    <3>2. ~Unneeded(S, q)
      BY <1>1, <3>1, UnneededIs
    <3>. QED  BY <1>6, <3>1, <3>2
  <2>3. ASSUME NEW q \in Slot, NEW t \in ToSet(R[q].bg) PROVE tk[t].progr = R[q].player
    <3>1. CASE R[q] = S.queue[q]
      BY <1>1, <3>1 DEF BInv
    <3>2. CASE R[q] = FreeSlot
      BY <3>2, FreeSlotIs DEF ToSet
    <3>. QED  BY <1>6, <3>1, <3>2
  <2>4. \A q \in Slot : R[q].num_bg_tasks <= queued_task_limit
    BY <1>1, <1>6 DEF BInv
  <2>. QED  BY <1>5, <2>1, <2>2, <2>3, <2>4 DEF BInv
<1>. QED
  BY <1>15, <1>17, <1>18, <1>19 DEF All

\* Cleanup starts with all open connections.
LEMMA CleanupStarts ==
  ASSUME NEW S, NEW p, p = At("cleanup", None, Open)
  PROVE  PInv(S, shandle, p)
<1>1. PICK place, conn, todo : place = "cleanup" /\ conn = None /\ todo = Open
  OBVIOUS
<1>2. todo \in SUBSET Conn /\ \A d \in todo : IsOpen(shandle, d)
  BY <1>1 DEF Open, IsOpen
<1>3. PInv(S, shandle, At(place, conn, todo))
  BY <1>1, <1>2, AtKeeps
<1>. QED
  BY <1>1, <1>3

LEMMA NoneActiveStep ==
  ASSUME IInv, NoneActive
  PROVE  IInv'
<1>1. PICK T : T = FreeUnused(Sched)
  OBVIOUS
<1>2. PInv(T, shandle, pc')
  BY CleanupStarts DEF NoneActive
<1>3. All(T, shandle, pc', waiting, task, current)
  BY <1>1, <1>2, FreeUnusedKeeps DEF IInv
<1>4. Becomes(T) /\ UNCHANGED <<waiting, task, current, shandle, users>>
  BY <1>1 DEF NoneActive
<1>. QED
  BY <1>3, <1>4, Parts, StepTo

LEMMA TaskDoneStep ==
  ASSUME IInv, NEW seconds \in 0..MaxUsage, TaskDone(seconds)
  PROVE  IInv'
<1>0. current = None /\ pc.at \in RunningPlace
  BY DEF TaskDone, Idle, RunningPlace
<1>1. /\ First \in Slot /\ Sched.queue = queue /\ Sched.active = active /\ Sched.active # <<>>
      /\ Head(Sched.active) = First
      /\ Sched \in Scheds /\ users \subseteq Player /\ QInv(Sched)
  BY <1>0, RunningActive, FirstIs, Parts
<1>2. PICK used \in Int : used = queue[First].usage
  BY <1>1, SchedTypes
<1>3. seconds \in Nat /\ used >= 0
  <2>1. First \in ToSet(Sched.active)
    BY <1>1, ActiveInUse
  <2>2. used >= NO_USAGE /\ used # NO_USAGE
    BY <1>1, <1>2, <2>1 DEF QInv, Counted
  <2>. QED  BY <1>2, <2>2, TasksAssumption DEF NO_USAGE
<1>4. PICK u \in Int : u = used + seconds
  BY <1>2, <1>3
<1>5. u >= 0
  BY <1>2, <1>3, <1>4
<1>6. PICK S : S = Dropped(Sched, First, u)
  OBVIOUS
<1>7. OffList(Sched, S, First, u)
  BY <1>1, <1>4, <1>6, DropFirst
<1>8. PICK A : A = activate_tqueue(S, First)
  OBVIOUS
<1>9. S = [queue  |-> [queue EXCEPT ![First].usage = @ + seconds], active |-> Tail(active)]
  <2>1. queue \in [Slot -> Queue]
    BY <1>1, SchedTypes
  <2>2. S = [queue |-> [queue EXCEPT ![First].usage = u], active |-> Tail(active)]
    BY <1>1, <1>6 DEF Dropped, WithUsage
  <2>3. [queue EXCEPT ![First].usage = u] = [queue EXCEPT ![First].usage = @ + seconds]
    BY <1>1, <1>2, <1>4, <2>1
  <2>. QED  BY <2>2, <2>3
<1>10. /\ A \in Scheds /\ A.queue = S.queue /\ Sorted(A)
       /\ ToSet(A.active) = ToSet(S.active) \cup {First}
  <2>1. S \in Scheds /\ Sorted(S) /\ First \notin ToSet(S.active)
    BY <1>7 DEF OffList
  <2>. QED  BY <1>1, <1>8, <2>1, Activate
<1>11. AllSame(Sched, A)
  BY <1>7, <1>10 DEF OffList, AllSame, Same
<1>12. ToSet(A.active) = ToSet(Sched.active)
  BY <1>7, <1>10 DEF OffList
<1>13. Counted(A)
  <2>1. A.queue[First].usage = u /\ \A r \in Slot : r # First => A.queue[r] = Sched.queue[r]
    BY <1>7, <1>10 DEF OffList
  <2>2. First \in ToSet(A.active)
    BY <1>10
  <2>3. A.queue[First].usage >= NO_USAGE /\ A.queue[First].usage # NO_USAGE
    BY <1>4, <1>5, <2>1 DEF NO_USAGE
  <2>. QED  BY <1>1, <1>12, <2>1, <2>2, <2>3 DEF Counted, QInv
<1>14. FreeIsEmpty(A)
  <2>1. \A r \in Slot : r # First => A.queue[r] = Sched.queue[r]
    BY <1>7, <1>10 DEF OffList
  <2>2. A.queue[First].player # None
    BY <1>7, <1>10 DEF OffList, AllSame, Same
  <2>. QED  BY <1>1, <2>1, <2>2 DEF FreeIsEmpty, QInv
<1>15. ReadersActive(A)
  BY <1>1, <1>11, <1>12 DEF ReadersActive, QInv, AllSame, Same
<1>16. Orderly(A)
  BY <1>10, <1>13, <1>14, <1>15 DEF Orderly
<1>17. PICK B : B = Rebased(A)
  OBVIOUS
<1>18. Orderly(B) /\ AllSame(A, B)
  BY <1>16, <1>17, RebasedIs
<1>19. AllSame(Sched, B)
  BY <1>11, <1>18 DEF AllSame, Same
<1>20. PICK T : T = FreeUnused(B)
  OBVIOUS
<1>21. Becomes(T) /\ UNCHANGED <<waiting, task, current, shandle, users>>
  BY <1>8, <1>9, <1>17, <1>20 DEF TaskDone
<1>22. PInv(B, shandle, pc') /\ PInv(T, shandle, pc')
  BY CleanupStarts DEF TaskDone
<1>23. All(B, shandle, pc', waiting, task, current)
  BY <1>18, <1>19, <1>22, SameKeeps DEF IInv
<1>24. All(T, shandle, pc', waiting, task, current)
  BY <1>20, <1>22, <1>23, FreeUnusedKeeps
<1>. QED
  BY <1>1, <1>21, <1>24, StepTo

-----------------------------------------------------------------------------
(* The steps: a login                                                      *)

\* The fields of queue q that a login leaves alone.
Kept(S, T, q) ==
  /\ T.queue[q].connected = S.queue[q].connected
  /\ T.queue[q].reading = S.queue[q].reading
  /\ T.queue[q].usage = S.queue[q].usage

\* The queue at slot q has player p, tasks b, which are counted as n.
Holds(T, q, p, b, n) ==
  T.queue[q].player = p /\ T.queue[q].bg = b /\ T.queue[q].num_bg_tasks = n

WithPlayer(S, q, p) == [S EXCEPT !.queue[q].player = p]

LEMMA PlayerIs ==
  ASSUME NEW S \in Scheds, NEW q \in Slot, NEW p \in Owner, NEW T, T = WithPlayer(S, q, p)
  PROVE  /\ T \in Scheds /\ T.active = S.active /\ Kept(S, T, q)
         /\ Holds(T, q, p, S.queue[q].bg, S.queue[q].num_bg_tasks)
         /\ T.queue[q].input = S.queue[q].input
         /\ \A r \in Slot : r # q => T.queue[r] = S.queue[r]
<1>1. S.queue \in [Slot -> Queue] /\ S.queue[q] \in Queue /\ S.active \in Seq(Slot)
  BY SchedTypes
<1>2. PICK r : r = [S.queue[q] EXCEPT !.player = p]
  OBVIOUS
<1>3. /\ r \in Queue /\ r.player = p /\ r.reading = S.queue[q].reading
      /\ r.connected = S.queue[q].connected /\ r.input = S.queue[q].input
      /\ r.usage = S.queue[q].usage /\ r.bg = S.queue[q].bg
      /\ r.num_bg_tasks = S.queue[q].num_bg_tasks
  BY <1>1, <1>2 DEF Queue
<1>4. /\ T.queue = [S.queue EXCEPT ![q] = r] /\ T.active = S.active
      /\ T = [queue |-> T.queue, active |-> T.active]
  BY <1>1, <1>2 DEF Scheds, WithPlayer
<1>5. T.queue[q] = r /\ T \in Scheds /\ \A u \in Slot : u # q => T.queue[u] = S.queue[u]
  BY <1>1, <1>3, <1>4 DEF Scheds
<1>. QED
  BY <1>3, <1>4, <1>5 DEF Kept, Holds

\* The tasks of queue q move to queue o.
BgTo(S, q, o, b, n) ==
  [S EXCEPT !.queue[o].num_bg_tasks = n, !.queue[o].bg = b,
            !.queue[q].num_bg_tasks = 0, !.queue[q].bg = <<>>]

MovedTo(S, T, q, o, b, n) ==
  /\ T \in Scheds /\ T.active = S.active
  /\ Kept(S, T, q) /\ Kept(S, T, o)
  /\ Holds(T, o, S.queue[o].player, b, n)
  /\ Holds(T, q, S.queue[q].player, <<>>, 0)
  /\ T.queue[q].input = S.queue[q].input
  /\ T.queue[o].input = S.queue[o].input
  /\ \A r \in Slot : r # q /\ r # o => T.queue[r] = S.queue[r]

LEMMA BgToIs ==
  ASSUME NEW S \in Scheds, NEW q \in Slot, NEW o \in Slot, q # o,
         NEW b \in Seq(TaskId), NEW n \in Int, NEW T, T = BgTo(S, q, o, b, n)
  PROVE  MovedTo(S, T, q, o, b, n)
<1>1. /\ S.queue \in [Slot -> Queue] /\ S.queue[q] \in Queue /\ S.queue[o] \in Queue
      /\ S.active \in Seq(Slot)
  BY SchedTypes
<1>0. PICK e, z : e = <<>> /\ z = 0
  OBVIOUS
<1>2. PICK x, y : /\ x = [S.queue[q] EXCEPT !.num_bg_tasks = z, !.bg = e]
                  /\ y = [S.queue[o] EXCEPT !.num_bg_tasks = n, !.bg = b]
  OBVIOUS
<1>3. /\ x \in Queue /\ x.player = S.queue[q].player /\ x.reading = S.queue[q].reading
      /\ x.connected = S.queue[q].connected /\ x.input = S.queue[q].input
      /\ x.usage = S.queue[q].usage /\ x.bg = <<>> /\ x.num_bg_tasks = 0
  <2>1. e \in Seq(TaskId) /\ z \in Int
    BY <1>0
  <2>2. /\ x \in Queue /\ x.player = S.queue[q].player /\ x.reading = S.queue[q].reading
        /\ x.connected = S.queue[q].connected /\ x.input = S.queue[q].input
        /\ x.usage = S.queue[q].usage /\ x.bg = e /\ x.num_bg_tasks = z
    BY <1>1, <1>2, <2>1 DEF Queue
  <2>. QED  BY <1>0, <2>2
<1>4. /\ y \in Queue /\ y.player = S.queue[o].player /\ y.reading = S.queue[o].reading
      /\ y.connected = S.queue[o].connected /\ y.input = S.queue[o].input
      /\ y.usage = S.queue[o].usage /\ y.bg = b /\ y.num_bg_tasks = n
  BY <1>1, <1>2 DEF Queue
<1>5. /\ T.queue = [S.queue EXCEPT ![o] = y, ![q] = x] /\ T.active = S.active
      /\ T = [queue |-> T.queue, active |-> T.active]
  BY <1>0, <1>1, <1>2 DEF Scheds, BgTo
<1>6. /\ T.queue[q] = x /\ T.queue[o] = y
      /\ \A u \in Slot : u # q /\ u # o => T.queue[u] = S.queue[u]
  BY <1>1, <1>5
<1>7. T.queue \in [Slot -> Queue]
  BY <1>1, <1>3, <1>4, <1>5
<1>8. T \in Scheds
  BY <1>1, <1>5, <1>7 DEF Scheds
<1>. QED
  BY <1>3, <1>4, <1>5, <1>6, <1>8 DEF Kept, Holds, MovedTo

\* The queue of the player is dead: its tasks move to queue q.
BgFrom(S, q, dead, b, n) ==
  [S EXCEPT !.queue[q].num_bg_tasks = n, !.queue[q].bg = b,
            !.queue[dead].input = <<>>, !.queue[dead].bg = <<>>,
            !.queue[dead].num_bg_tasks = 0, !.queue[dead].player = NOTHING]

MovedFrom(S, T, q, dead, b, n) ==
  /\ T \in Scheds /\ T.active = S.active
  /\ Kept(S, T, q) /\ Kept(S, T, dead)
  /\ Holds(T, q, S.queue[q].player, b, n)
  /\ Holds(T, dead, NOTHING, <<>>, 0)
  /\ T.queue[q].input = S.queue[q].input
  /\ T.queue[dead].input = <<>>
  /\ \A r \in Slot : r # q /\ r # dead => T.queue[r] = S.queue[r]

LEMMA BgFromIs ==
  ASSUME NEW S \in Scheds, NEW q \in Slot, NEW dead \in Slot, q # dead,
         NEW b \in Seq(TaskId), NEW n \in Int, NEW T, T = BgFrom(S, q, dead, b, n)
  PROVE  MovedFrom(S, T, q, dead, b, n)
<1>1. /\ S.queue \in [Slot -> Queue] /\ S.queue[q] \in Queue /\ S.queue[dead] \in Queue
      /\ S.active \in Seq(Slot)
  BY SchedTypes
<1>0. PICK e, z, nobody : e = <<>> /\ z = 0 /\ nobody = NOTHING
  OBVIOUS
<1>2. PICK x, y : /\ x = [S.queue[dead] EXCEPT !.input = e, !.bg = e,
                                               !.num_bg_tasks = z, !.player = nobody]
                  /\ y = [S.queue[q] EXCEPT !.num_bg_tasks = n, !.bg = b]
  OBVIOUS
<1>3. /\ x \in Queue /\ x.player = NOTHING /\ x.reading = S.queue[dead].reading
      /\ x.connected = S.queue[dead].connected /\ x.input = <<>>
      /\ x.usage = S.queue[dead].usage /\ x.bg = <<>> /\ x.num_bg_tasks = 0
  <2>1. /\ nobody \in Owner \cup {NOTHING, None} /\ e \in Seq(TaskId)
        /\ e \in Seq(Line \cup {Blank}) /\ z \in Int
    BY <1>0
  <2>2. /\ x \in Queue /\ x.player = nobody /\ x.reading = S.queue[dead].reading
        /\ x.connected = S.queue[dead].connected /\ x.input = e
        /\ x.usage = S.queue[dead].usage /\ x.bg = e /\ x.num_bg_tasks = z
    BY <1>1, <1>2, <2>1 DEF Queue
  <2>. QED  BY <1>0, <2>2
<1>4. /\ y \in Queue /\ y.player = S.queue[q].player /\ y.reading = S.queue[q].reading
      /\ y.connected = S.queue[q].connected /\ y.input = S.queue[q].input
      /\ y.usage = S.queue[q].usage /\ y.bg = b /\ y.num_bg_tasks = n
  BY <1>1, <1>2 DEF Queue
<1>5. /\ T.queue = [S.queue EXCEPT ![q] = y, ![dead] = x] /\ T.active = S.active
      /\ T = [queue |-> T.queue, active |-> T.active]
  BY <1>0, <1>1, <1>2 DEF Scheds, BgFrom
<1>6. /\ T.queue[dead] = x /\ T.queue[q] = y
      /\ \A u \in Slot : u # q /\ u # dead => T.queue[u] = S.queue[u]
  BY <1>1, <1>5
<1>7. T.queue \in [Slot -> Queue]
  BY <1>1, <1>3, <1>4, <1>5
<1>8. T \in Scheds
  BY <1>1, <1>5, <1>7 DEF Scheds
<1>. QED
  BY <1>3, <1>4, <1>5, <1>6, <1>8 DEF Kept, Holds, MovedFrom

\* What MoveConnectionTasks() does once queue q is the player's: the tasks of
\* the connection, if it has any, are in a new queue o.
OpensFor(S, T, q, o, old) ==
  \/ o = NoQueue /\ S.queue[q].bg = <<>> /\ S.queue[q].num_bg_tasks = 0
  \/ /\ o \in Slot /\ o # q /\ S.queue[o].player = None
     /\ Kept(S, T, o) /\ T.queue[o].input = S.queue[o].input
     /\ Holds(T, o, old, S.queue[q].bg, S.queue[q].num_bg_tasks)

MovedTasks(S, T, q, o, old, new) ==
  /\ T \in Scheds /\ T.active = S.active
  /\ Kept(S, T, q) /\ T.queue[q].input = S.queue[q].input /\ Holds(T, q, new, <<>>, 0)
  /\ OpensFor(S, T, q, o, old)
  /\ \A r \in Slot : r # q /\ r # o => T.queue[r] = S.queue[r]

LEMMA MoveTasksIs ==
  ASSUME NEW S, QInv(S), NEW q \in Slot, NEW old \in Owner, old = S.queue[q].player,
         NEW new \in Owner, new # old,
         S.queue[q].num_bg_tasks # 0 => InUse(S) # Slot,
         S.queue[q].num_bg_tasks = 0 => S.queue[q].bg = <<>>,
         NEW R, R = WithPlayer(S, q, new),
         NEW T, T = MoveConnectionTasks(R, q, old)
  PROVE  \E o : MovedTasks(S, T, q, o, old, new)
<1>1. S \in Scheds /\ OneEach(S) /\ FreeIsEmpty(S) /\ None \notin Owner
  BY NumbersAssumption DEF QInv
<1>2. /\ R \in Scheds /\ R.active = S.active /\ Kept(S, R, q)
      /\ Holds(R, q, new, S.queue[q].bg, S.queue[q].num_bg_tasks)
      /\ R.queue[q].input = S.queue[q].input
      /\ \A r \in Slot : r # q => R.queue[r] = S.queue[r]
  BY <1>1, PlayerIs
<1>3. CASE R.queue[q].num_bg_tasks = 0
  <2>1. T = R
    BY <1>3 DEF MoveConnectionTasks
  <2>2. S.queue[q].bg = <<>> /\ S.queue[q].num_bg_tasks = 0
    BY <1>2, <1>3 DEF Holds
  <2>3. Holds(T, q, new, <<>>, 0)
    BY <1>2, <2>1, <2>2
  <2>4. PICK o : o = NoQueue
    OBVIOUS
  <2>5. MovedTasks(S, T, q, o, old, new)
    BY <1>2, <2>1, <2>2, <2>3, <2>4 DEF MovedTasks, OpensFor
  <2>. QED  BY <2>5
<1>4. CASE R.queue[q].num_bg_tasks # 0
  <2>1. PICK b, n : b = S.queue[q].bg /\ n = S.queue[q].num_bg_tasks
    OBVIOUS
  <2>2. b \in Seq(TaskId) /\ n \in Int /\ R.queue[q].bg = b /\ R.queue[q].num_bg_tasks = n
        /\ R.queue[q].player = new
    BY <1>1, <1>2, <2>1, SchedTypes DEF Holds
  <2>3. \A r \in Slot : (R.queue[r].player = None <=> S.queue[r].player = None)
    BY <1>1, <1>2, <2>2
  <2>4. InUse(R) # Slot
    BY <1>4, <2>1, <2>2, <2>3 DEF InUse
  <2>5. PICK C : C = create_tqueue(R, old)
    OBVIOUS
  <2>6. PICK o : o = find_tqueue(C, old)
    OBVIOUS
  <2>7. Opened(R, C, old, o)
    BY <1>2, <2>4, <2>5, <2>6, Create DEF HasRoomFor
  <2>8. \A r \in Slot : R.queue[r].player # old
    BY <1>1, <1>2, <2>2 DEF OneEach
  <2>9. /\ C \in Scheds /\ C.active = R.active /\ o \in Slot /\ R.queue[o].player = None
        /\ C.queue = [R.queue EXCEPT ![o] = NewQueue(old)]
    BY <2>7, <2>8 DEF Opened
  <2>10. o # q /\ S.queue[o].player = None /\ S.queue[o] = FreeSlot
    BY <1>1, <2>2, <2>3, <2>9 DEF FreeIsEmpty
  <2>11. /\ C.queue[o] = NewQueue(old)
         /\ \A r \in Slot : r # o => C.queue[r] = R.queue[r]
    <3>1. R.queue \in [Slot -> Queue]
      BY <1>2, SchedTypes
    <3>. QED  BY <2>9, <3>1
  <2>12. T = BgTo(C, q, o, b, n)
    <3>1. C.queue[o].bg \o R.queue[q].bg = b
      <4>1. C.queue[o].bg = <<>>
        BY <2>11, NewQueueIs
      <4>. QED  BY <2>2, <4>1
    <3>2. T = BgTo(C, q, o, C.queue[o].bg \o R.queue[q].bg, R.queue[q].num_bg_tasks)
      BY <1>4, <2>5, <2>6 DEF MoveConnectionTasks, BgTo
    <3>. QED  BY <2>2, <3>1, <3>2
  <2>13. /\ T \in Scheds /\ T.active = C.active
         /\ Kept(C, T, q) /\ Kept(C, T, o)
         /\ Holds(T, o, C.queue[o].player, b, n)
         /\ Holds(T, q, C.queue[q].player, <<>>, 0)
         /\ T.queue[q].input = C.queue[q].input
         /\ T.queue[o].input = C.queue[o].input
         /\ \A r \in Slot : r # q /\ r # o => T.queue[r] = C.queue[r]
    <3>1. MovedTo(C, T, q, o, b, n)
      BY <2>2, <2>9, <2>10, <2>12, BgToIs
    <3>. QED  BY <3>1 DEF MovedTo
  <2>14. C.queue[q] = R.queue[q] /\ C.queue[o].player = old
    <3>1. NewQueue(old).player = old
      BY NewQueueIs
    <3>. QED  BY <2>10, <2>11, <3>1
  <2>15. Kept(S, T, q) /\ T.queue[q].input = S.queue[q].input /\ Holds(T, q, new, <<>>, 0)
    BY <1>2, <2>2, <2>13, <2>14 DEF Kept
  <2>16. Kept(S, T, o) /\ T.queue[o].input = S.queue[o].input /\ Holds(T, o, old, b, n)
    <3>1. Kept(S, C, o) /\ C.queue[o].input = S.queue[o].input
      BY <2>10, <2>11, NewQueueIs, FreeSlotIs DEF Kept
    <3>2. Kept(S, T, o)
      BY <2>13, <3>1 DEF Kept
    <3>. QED  BY <2>13, <2>14, <3>1, <3>2
  <2>17. \A r \in Slot : r # q /\ r # o => T.queue[r] = S.queue[r]
    BY <1>2, <2>11, <2>13
  <2>18. MovedTasks(S, T, q, o, old, new)
    BY <1>2, <2>1, <2>9, <2>10, <2>13, <2>15, <2>16, <2>17 DEF MovedTasks, OpensFor
  <2>. QED  BY <2>18
<1>. QED
  BY <1>3, <1>4

\* What TakeOverTasks() does then.
TakesOver(S, T, q, dead, new) ==
  \/ dead = NoQueue /\ Holds(T, q, new, <<>>, 0)
  \/ /\ dead \in Slot /\ dead # q
     /\ Kept(S, T, dead) /\ T.queue[dead].input = <<>>
     /\ Holds(T, dead, NOTHING, <<>>, 0)
     /\ Holds(T, q, new, S.queue[dead].bg, S.queue[dead].num_bg_tasks)

LoggedIn(S, T, q, o, dead, old, new) ==
  /\ T \in Scheds /\ T.active = S.active
  /\ Kept(S, T, q) /\ T.queue[q].input = S.queue[q].input
  /\ OpensFor(S, T, q, o, old)
  /\ TakesOver(S, T, q, dead, new)
  /\ \A r \in Slot : r # q /\ r # o /\ r # dead => T.queue[r] = S.queue[r]

LEMMA TakeOverIs ==
  ASSUME NEW S, NEW M, NEW q \in Slot, NEW o, NEW old, NEW new, S \in Scheds,
         MovedTasks(S, M, q, o, old, new),
         NEW dead \in Slot \cup {NoQueue}, dead # q, dead # NoQueue => o # dead,
         NEW T, T = TakeOverTasks(M, q, dead)
  PROVE  LoggedIn(S, T, q, o, dead, old, new)
<1>1. /\ M \in Scheds /\ M.active = S.active
      /\ Kept(S, M, q) /\ M.queue[q].input = S.queue[q].input /\ Holds(M, q, new, <<>>, 0)
      /\ OpensFor(S, M, q, o, old)
      /\ \A r \in Slot : r # q /\ r # o => M.queue[r] = S.queue[r]
  BY DEF MovedTasks
<1>2. CASE dead = NoQueue
  <2>1. T = M
    BY <1>2 DEF TakeOverTasks
  <2>. QED  BY <1>1, <1>2, <2>1 DEF LoggedIn, TakesOver
<1>3. CASE dead # NoQueue
  <2>1. dead \in Slot /\ M.queue[dead] = S.queue[dead]
    BY <1>1, <1>3
  <2>2. PICK b, n : b = S.queue[dead].bg /\ n = S.queue[dead].num_bg_tasks
    OBVIOUS
  <2>3. b \in Seq(TaskId) /\ n \in Int
    BY <2>1, <2>2, SchedTypes
  <2>4. T = BgFrom(M, q, dead, b, n)
    <3>1. M.queue[q].bg \o M.queue[dead].bg = b /\ M.queue[dead].num_bg_tasks = n
      BY <1>1, <2>1, <2>2, <2>3 DEF Holds
    <3>2. T = BgFrom(M, q, dead, M.queue[q].bg \o M.queue[dead].bg, M.queue[dead].num_bg_tasks)
      BY <1>3 DEF TakeOverTasks, BgFrom
    <3>. QED  BY <3>1, <3>2
  <2>5. /\ T \in Scheds /\ T.active = M.active
        /\ Kept(M, T, q) /\ Kept(M, T, dead)
        /\ Holds(T, q, M.queue[q].player, b, n)
        /\ Holds(T, dead, NOTHING, <<>>, 0)
        /\ T.queue[q].input = M.queue[q].input
        /\ T.queue[dead].input = <<>>
        /\ \A r \in Slot : r # q /\ r # dead => T.queue[r] = M.queue[r]
    <3>1. MovedFrom(M, T, q, dead, b, n)
      BY <1>1, <2>1, <2>3, <2>4, BgFromIs
    <3>. QED  BY <3>1 DEF MovedFrom
  <2>6. OpensFor(S, T, q, o, old)
    <3>1. CASE o = NoQueue
      BY <1>1, <3>1 DEF OpensFor, NoQueue, Slot
    <3>2. CASE o # NoQueue
      <4>1. o \in Slot /\ o # q
        BY <1>1, <3>2 DEF OpensFor
      <4>2. T.queue[o] = M.queue[o]
        BY <1>3, <2>5, <4>1
      <4>. QED  BY <1>1, <3>2, <4>2 DEF OpensFor, Kept, Holds
    <3>. QED  BY <3>1, <3>2
  <2>7. TakesOver(S, T, q, dead, new)
    BY <1>1, <2>1, <2>2, <2>5 DEF TakesOver, Kept, Holds
  <2>8. Kept(S, T, q)
    BY <1>1, <2>5 DEF Kept
  <2>. QED  BY <1>1, <2>5, <2>6, <2>7, <2>8 DEF LoggedIn
<1>. QED
  BY <1>2, <1>3

\* The ready tasks of queue a are in queue b instead.
LEMMA MoveReady ==
  ASSUME NEW S, NEW w, NEW tk, NEW cur, TInv(S, w, tk, cur), NEW T,
         NEW a \in Slot, NEW b \in Slot, a # b, S.queue[b].bg = <<>>,
         T.queue[b].bg = S.queue[a].bg, T.queue[a].bg = <<>>,
         \A r \in Slot : r # a /\ r # b => T.queue[r].bg = S.queue[r].bg,
         \A r \in Slot : T.queue[r].reading = S.queue[r].reading
  PROVE  TInv(T, w, tk, cur)
<1>1. PICK at : Where(at, S, w, tk, cur)
  BY DEF TInv
<1>2. PICK to : to = [t \in TaskId |-> IF at[t] = Ready(a) THEN Ready(b) ELSE at[t]]
  OBVIOUS
<1>3. ToSet(S.queue[b].bg) = {} /\ ToSet(T.queue[a].bg) = {}
  BY DEF ToSet
<1>4. ASSUME NEW t \in TaskId PROVE IsAt(to[t], t, T, w, tk, cur)
  <2>1. IsAt(at[t], t, S, w, tk, cur)
    BY <1>1, WhereIs
  <2>2. at[t] # Ready(b)
    BY <1>3, <2>1 DEF IsAt
  <2>3. CASE at[t] = Ready(a)
    <3>1. to[t] = Ready(b)
      BY <1>2, <2>3
    <3>2. /\ tk[t].kind # None /\ cur # t /\ t \notin ToSet(w)
          /\ t \in ToSet(S.queue[a].bg)
          /\ \A r \in Slot : S.queue[r].reading # t
          /\ \A r \in Slot : r # a => t \notin ToSet(S.queue[r].bg)
      BY <2>1, <2>3 DEF IsAt, Gone0, Running, Waiting, Reads, Ready
    <3>3. /\ t \in ToSet(T.queue[b].bg)
          /\ \A r \in Slot : T.queue[r].reading # t
          /\ \A r \in Slot : r # b => t \notin ToSet(T.queue[r].bg)
      BY <1>3, <3>2
    <3>. QED  BY <3>1, <3>2, <3>3 DEF IsAt, Gone0, Running, Waiting, Reads, Ready
  <2>4. CASE at[t] # Ready(a)
    <3>1. to[t] = at[t]
      BY <1>2, <2>4
    <3>2. t \notin ToSet(S.queue[a].bg) /\ t \notin ToSet(S.queue[b].bg)
      BY <2>1, <2>2, <2>4 DEF IsAt
    <3>3. \A r \in Slot : t \in ToSet(T.queue[r].bg) <=> t \in ToSet(S.queue[r].bg)
      BY <1>3, <3>2
    <3>. QED  BY <2>1, <3>1, <3>3 DEF IsAt
  <2>. QED  BY <2>3, <2>4
<1>5. Where(to, T, w, tk, cur)
  BY <1>4, WhereIs
<1>6. \A r \in Slot : Inj(T.queue[r].bg)
  <2>1. Inj(T.queue[a].bg)
    BY DEF Inj
  <2>. QED  BY <2>1 DEF TInv
<1>. QED
  BY <1>5, <1>6 DEF TInv

\* The parts of the invariant after a login.  Queue dead is the one that
\* find_tqueue() finds for the player.
Found(S, dead, p) ==
  \/ dead = NoQueue /\ \A r \in Slot : S.queue[r].player # p
  \/ dead \in Slot /\ S.queue[dead].player = p

InSlots(S, T, q, o, dead, old, new) ==
  /\ T.queue[q].player = new
  /\ o # q /\ dead # q /\ (o \in Slot => o # dead)
  /\ o \in Slot \cup {NoQueue} /\ dead \in Slot \cup {NoQueue}
  /\ o \in Slot => T.queue[o].player = old
  /\ dead \in Slot => T.queue[dead].player = NOTHING
  /\ \A r \in Slot : r # q /\ r # o /\ r # dead => T.queue[r] = S.queue[r]
  /\ \A r \in Slot : Kept(S, T, r) /\ T.queue[r].input \in {S.queue[r].input, <<>>}

LEMMA LoginSlots ==
  ASSUME NEW S, NEW T, NEW q \in Slot, NEW o, NEW dead, NEW old \in Owner, NEW new \in Owner,
         old # new, S.queue[q].player = old, Found(S, dead, new),
         LoggedIn(S, T, q, o, dead, old, new)
  PROVE  InSlots(S, T, q, o, dead, old, new)
<1>1. NoQueue \notin Slot /\ None \notin Owner
  BY NumbersAssumption DEF NoQueue, Slot
<1>2. T.queue[q].player = new /\ Kept(S, T, q) /\ T.queue[q].input = S.queue[q].input
  BY DEF LoggedIn, TakesOver, Holds
<1>3. o \in Slot \cup {NoQueue} /\ dead \in Slot \cup {NoQueue} /\ o # q
  BY <1>1 DEF LoggedIn, OpensFor, Found
<1>4. dead # q
  BY <1>1 DEF Found
<1>5. o \in Slot => /\ o # dead /\ T.queue[o].player = old /\ Kept(S, T, o)
                    /\ T.queue[o].input = S.queue[o].input
  <2>. SUFFICES ASSUME o \in Slot
                PROVE  /\ o # dead /\ T.queue[o].player = old /\ Kept(S, T, o)
                       /\ T.queue[o].input = S.queue[o].input
    OBVIOUS
  <2>1. /\ S.queue[o].player = None /\ Kept(S, T, o) /\ T.queue[o].input = S.queue[o].input
        /\ T.queue[o].player = old
    BY <1>1 DEF LoggedIn, OpensFor, Holds
  <2>. QED  BY <1>1, <2>1 DEF Found
<1>6. dead \in Slot => /\ T.queue[dead].player = NOTHING /\ Kept(S, T, dead)
                       /\ T.queue[dead].input = <<>>
  BY <1>1 DEF LoggedIn, TakesOver, Holds
<1>7. \A r \in Slot : r # q /\ r # o /\ r # dead => T.queue[r] = S.queue[r]
  BY DEF LoggedIn
<1>8. ASSUME NEW r \in Slot PROVE Kept(S, T, r) /\ T.queue[r].input \in {S.queue[r].input, <<>>}
  <2>1. CASE r = q
    BY <1>2, <2>1
  <2>2. CASE r = o
    BY <1>5, <2>2
  <2>3. CASE r = dead
    BY <1>6, <2>3
  <2>4. CASE r # q /\ r # o /\ r # dead
    BY <1>7, <2>4 DEF Kept
  <2>. QED  BY <2>1, <2>2, <2>3, <2>4
<1>. QED
  BY <1>2, <1>3, <1>4, <1>5, <1>6, <1>7, <1>8 DEF InSlots

LEMMA LoginQueues ==
  ASSUME NEW S, QInv(S), NEW T, NEW q \in Slot, NEW o, NEW dead, NEW old \in Owner,
         NEW new \in Owner, old # new, S.queue[q].player = old, Found(S, dead, new),
         LoggedIn(S, T, q, o, dead, old, new)
  PROVE  QInv(T)
<1>1. /\ S \in Scheds /\ Sorted(S) /\ Counted(S) /\ OneEach(S) /\ FreeIsEmpty(S)
      /\ ReadersActive(S) /\ S.active \in Seq(Slot)
  BY SchedTypes DEF QInv
<1>2. /\ T.queue[q].player = new
      /\ o # q /\ dead # q /\ (o \in Slot => o # dead)
      /\ o \in Slot \cup {NoQueue} /\ dead \in Slot \cup {NoQueue}
      /\ o \in Slot => T.queue[o].player = old
      /\ dead \in Slot => T.queue[dead].player = NOTHING
      /\ \A r \in Slot : r # q /\ r # o /\ r # dead => T.queue[r] = S.queue[r]
      /\ \A r \in Slot : Kept(S, T, r) /\ T.queue[r].input \in {S.queue[r].input, <<>>}
  <2>1. InSlots(S, T, q, o, dead, old, new)
    BY LoginSlots
  <2>. QED  BY <2>1 DEF InSlots
<1>3. /\ None \notin Owner /\ NOTHING \notin Owner /\ NOTHING # None
  BY NumbersAssumption DEF NOTHING, None
<1>4. T \in Scheds /\ T.active = S.active
  BY DEF LoggedIn
<1>5. \A i \in DOMAIN S.active : S.active[i] \in Slot
  BY <1>1
<1>6. Sorted(T)
  BY <1>1, <1>2, <1>4, <1>5 DEF Sorted, Kept
<1>7. Counted(T)
  BY <1>1, <1>2, <1>4 DEF Counted, Kept
<1>8. FreeIsEmpty(T)
  <2>. SUFFICES ASSUME NEW r \in Slot, T.queue[r].player = None PROVE T.queue[r] = FreeSlot
    BY DEF FreeIsEmpty
  <2>1. r # q /\ r # o /\ r # dead
    BY <1>2, <1>3
  <2>. QED  BY <1>1, <1>2, <2>1 DEF FreeIsEmpty
<1>9. ReadersActive(T)
  <2>. SUFFICES ASSUME NEW r \in Slot, T.queue[r].reading # None,
                       ~T.queue[r].connected \/ T.queue[r].input # <<>>
                PROVE  r \in ToSet(T.active)
    BY DEF ReadersActive
  <2>1. /\ S.queue[r].reading # None
        /\ ~S.queue[r].connected \/ S.queue[r].input # <<>>
    BY <1>2 DEF Kept
  <2>. QED  BY <1>1, <1>4, <2>1 DEF ReadersActive
<1>10. ASSUME NEW r \in Slot, r # q, r # o, r # dead
       PROVE  S.queue[r].player # new /\ S.queue[r].player # old
  <2>1. S.queue[r].player # old
    BY <1>1, <1>10 DEF OneEach
  <2>2. S.queue[r].player # new
    BY <1>1, <1>10 DEF OneEach, Found
  <2>. QED  BY <2>1, <2>2
<1>11. OneEach(T)
  <2>. SUFFICES ASSUME NEW r \in Slot, NEW s \in Slot, T.queue[r].player = T.queue[s].player,
                       T.queue[r].player \in Owner
                PROVE  r = s
    BY DEF OneEach
  <2>1. r # dead /\ s # dead
    BY <1>2, <1>3
  <2>2. CASE r = q
    BY <1>2, <1>10, <2>1, <2>2
  <2>3. CASE r = o
    BY <1>2, <1>10, <2>1, <2>3
  <2>4. CASE r # q /\ r # o
    <3>1. T.queue[r] = S.queue[r] /\ S.queue[r].player # new /\ S.queue[r].player # old
      BY <1>2, <1>10, <2>1, <2>4
    <3>2. s # q /\ s # o
      BY <1>2, <3>1
    <3>3. T.queue[s] = S.queue[s]
      BY <1>2, <2>1, <3>2
    <3>. QED  BY <1>1, <3>1, <3>3 DEF OneEach
  <2>. QED  BY <2>2, <2>3, <2>4
<1>. QED
  BY <1>4, <1>6, <1>7, <1>8, <1>9, <1>11 DEF QInv

\* The tasks of the connection are in its new queue, and the player's in q.
LEMMA LoginTasks ==
  ASSUME NEW S, QInv(S), NEW w, NEW tk, NEW cur, TInv(S, w, tk, cur),
         NEW T, NEW q \in Slot, NEW o, NEW dead, NEW old \in Owner,
         NEW new \in Owner, old # new, S.queue[q].player = old, Found(S, dead, new),
         NEW M, MovedTasks(S, M, q, o, old, new),
         LoggedIn(S, T, q, o, dead, old, new)
  PROVE  TInv(T, w, tk, cur)
<1>1. /\ o # q /\ dead # q /\ (o \in Slot => o # dead)
      /\ o \in Slot \cup {NoQueue} /\ dead \in Slot \cup {NoQueue}
      /\ \A r \in Slot : r # q /\ r # o /\ r # dead => T.queue[r] = S.queue[r]
      /\ \A r \in Slot : Kept(S, T, r)
  <2>1. InSlots(S, T, q, o, dead, old, new)
    BY LoginSlots
  <2>. QED  BY <2>1 DEF InSlots
<1>2. NoQueue \notin Slot
  BY DEF NoQueue, Slot
<1>3. \A r \in Slot : r # q /\ r # o => M.queue[r] = S.queue[r]
  BY DEF MovedTasks
<1>4. M.queue[q].bg = <<>>
  BY DEF MovedTasks, Holds
<1>5. \A r \in Slot : M.queue[r].reading = S.queue[r].reading
  <2>1. M.queue[q].reading = S.queue[q].reading
    BY DEF MovedTasks, Kept
  <2>2. o \in Slot => M.queue[o].reading = S.queue[o].reading
    BY <1>2 DEF MovedTasks, OpensFor, Kept
  <2>. QED  BY <1>3, <2>1, <2>2
<1>6. TInv(M, w, tk, cur)
  <2>1. CASE o = NoQueue
    <3>1. S.queue[q].bg = <<>>
      BY <1>2, <2>1 DEF MovedTasks, OpensFor
    <3>2. \A r \in Slot : M.queue[r].bg = S.queue[r].bg
      BY <1>2, <1>3, <1>4, <2>1, <3>1
    <3>. QED  BY <1>5, <3>2, TSame
  <2>2. CASE o \in Slot
    <3>1. M.queue[o].bg = S.queue[q].bg /\ S.queue[o].player = None
      BY <1>2, <2>2 DEF MovedTasks, OpensFor, Holds
    <3>2. S.queue[o].bg = <<>>
      BY <2>2, <3>1, FreeSlotIs DEF QInv, FreeIsEmpty
    <3>3. \A r \in Slot : r # q /\ r # o => M.queue[r].bg = S.queue[r].bg
      BY <1>3
    <3>. QED  BY <1>1, <1>4, <1>5, <2>2, <3>1, <3>2, <3>3, MoveReady
  <2>. QED  BY <1>1, <2>1, <2>2
<1>7. \A r \in Slot : T.queue[r].reading = M.queue[r].reading
  BY <1>1, <1>5 DEF Kept
<1>8. o \in Slot => T.queue[o].bg = M.queue[o].bg
  BY <1>2 DEF MovedTasks, LoggedIn, OpensFor, Holds
<1>9. CASE dead = NoQueue
  <2>1. T.queue[q].bg = <<>>
    BY <1>2, <1>9 DEF LoggedIn, TakesOver, Holds
  <2>2. \A r \in Slot : T.queue[r].bg = M.queue[r].bg
    BY <1>1, <1>2, <1>3, <1>4, <1>8, <1>9, <2>1
  <2>. QED  BY <1>6, <1>7, <2>2, TSame
<1>10. CASE dead \in Slot
  <2>1. T.queue[q].bg = S.queue[dead].bg /\ T.queue[dead].bg = <<>>
    BY <1>2, <1>10 DEF LoggedIn, TakesOver, Holds
  <2>2. M.queue[dead] = S.queue[dead]
    BY <1>1, <1>3, <1>10
  <2>3. \A r \in Slot : r # dead /\ r # q => T.queue[r].bg = M.queue[r].bg
    BY <1>1, <1>3, <1>8
  <2>4. T.queue[q].bg = M.queue[dead].bg
    BY <2>1, <2>2
  <2>. QED  BY <1>1, <1>4, <1>6, <1>7, <1>10, <2>1, <2>3, <2>4, MoveReady
<1>. QED
  BY <1>1, <1>9, <1>10

\* The tasks are counted where they are.
LEMMA NoneWait ==
  ASSUME NEW S, QInv(S), NEW w, NEW tk, NEW cur, TInv(S, w, tk, cur), BInv(S, w, tk), NEW o,
         \A r \in Slot : S.queue[r].player # o
  PROVE  Cardinality(Waits(w, tk, o)) = 0
<1>1. Waits(w, tk, o) = {}
  BY DEF Waits, BInv
<1>2. Cardinality({}) = 0
  BY FS_EmptySet
<1>. QED
  BY <1>1, <1>2

LEMMA NothingWaits ==
  ASSUME NEW S, QInv(S), NEW w, NEW tk, NEW cur, TInv(S, w, tk, cur), BInv(S, w, tk)
  PROVE  Cardinality(Waits(w, tk, NOTHING)) = 0
<1>1. Waits(w, tk, NOTHING) = {}
  BY WaitingIs, NumbersAssumption DEF Waits
<1>2. Cardinality({}) = 0
  BY FS_EmptySet
<1>. QED
  BY <1>1, <1>2

LEMMA LoginCounts ==
  ASSUME NEW S, QInv(S), NEW w, NEW tk, NEW cur, TInv(S, w, tk, cur), BInv(S, w, tk),
         NEW T, NEW q \in Slot, NEW o, NEW dead, NEW old \in Owner,
         NEW new \in Owner, old # new, S.queue[q].player = old, Found(S, dead, new),
         LoggedIn(S, T, q, o, dead, old, new)
  PROVE  BInv(T, w, tk)
<1>1. /\ T.queue[q].player = new
      /\ o # q /\ dead # q /\ (o \in Slot => o # dead)
      /\ o \in Slot \cup {NoQueue} /\ dead \in Slot \cup {NoQueue}
      /\ o \in Slot => T.queue[o].player = old
      /\ dead \in Slot => T.queue[dead].player = NOTHING
      /\ \A r \in Slot : r # q /\ r # o /\ r # dead => T.queue[r] = S.queue[r]
  <2>1. InSlots(S, T, q, o, dead, old, new)
    BY LoginSlots
  <2>. QED  BY <2>1 DEF InSlots
<1>2. NoQueue \notin Slot /\ None \notin Owner
  BY NumbersAssumption DEF NoQueue, Slot
<1>3. PICK zero : zero = 0
  OBVIOUS
<1>4. zero <= queued_task_limit /\ zero = Len(<<>>) + 0 /\ Len(<<>>) = 0
  BY <1>3, TasksAssumption
<1>5. /\ \A r \in Slot : S.queue[r].player # None =>
           S.queue[r].num_bg_tasks
             = Len(S.queue[r].bg) + Cardinality(Waits(w, tk, S.queue[r].player))
      /\ \A t \in ToSet(w) : \E r \in Slot : S.queue[r].player = tk[t].progr
      /\ \A r \in Slot : \A t \in ToSet(S.queue[r].bg) : tk[t].progr = S.queue[r].player
      /\ \A r \in Slot : S.queue[r].num_bg_tasks <= queued_task_limit
  BY DEF BInv
<1>6. ToSet(<<>>) = {}
  BY DEF ToSet
<1>7. /\ T.queue[q].num_bg_tasks = Len(T.queue[q].bg) + Cardinality(Waits(w, tk, new))
      /\ \A t \in ToSet(T.queue[q].bg) : tk[t].progr = new
      /\ T.queue[q].num_bg_tasks <= queued_task_limit
  <2>1. CASE dead = NoQueue
    <3>1. T.queue[q].bg = <<>> /\ T.queue[q].num_bg_tasks = 0
      BY <1>2, <2>1 DEF LoggedIn, TakesOver, Holds
    <3>2. Cardinality(Waits(w, tk, new)) = 0
      BY <1>2, <2>1, NoneWait DEF Found
    <3>. QED  BY <1>3, <1>4, <1>6, <3>1, <3>2
  <2>2. CASE dead \in Slot
    <3>1. T.queue[q].bg = S.queue[dead].bg /\ T.queue[q].num_bg_tasks = S.queue[dead].num_bg_tasks
      BY <1>2, <2>2 DEF LoggedIn, TakesOver, Holds
    <3>2. S.queue[dead].player = new /\ new # None
      BY <1>2, <2>2 DEF Found
    <3>. QED  BY <1>5, <2>2, <3>1, <3>2
  <2>. QED  BY <1>1, <2>1, <2>2
<1>8. ASSUME dead \in Slot
      PROVE  /\ T.queue[dead].bg = <<>>
             /\ T.queue[dead].num_bg_tasks
                  = Len(T.queue[dead].bg) + Cardinality(Waits(w, tk, NOTHING))
             /\ T.queue[dead].num_bg_tasks <= queued_task_limit
  <2>1. T.queue[dead].bg = <<>> /\ T.queue[dead].num_bg_tasks = 0
    BY <1>2, <1>8 DEF LoggedIn, TakesOver, Holds
  <2>2. Cardinality(Waits(w, tk, NOTHING)) = 0
    BY NothingWaits
  <2>. QED  BY <1>3, <1>4, <2>1, <2>2
<1>9. ASSUME o \in Slot
      PROVE  /\ T.queue[o].num_bg_tasks = Len(T.queue[o].bg) + Cardinality(Waits(w, tk, old))
             /\ \A t \in ToSet(T.queue[o].bg) : tk[t].progr = old
             /\ T.queue[o].num_bg_tasks <= queued_task_limit
  <2>1. T.queue[o].bg = S.queue[q].bg /\ T.queue[o].num_bg_tasks = S.queue[q].num_bg_tasks
    BY <1>2, <1>9 DEF LoggedIn, OpensFor, Holds
  <2>. QED  BY <1>2, <1>5, <2>1
<1>10. ASSUME NEW r \in Slot, T.queue[r].player # None
       PROVE  T.queue[r].num_bg_tasks
                = Len(T.queue[r].bg) + Cardinality(Waits(w, tk, T.queue[r].player))
  <2>1. CASE r = q
    BY <1>1, <1>7, <2>1
  <2>2. CASE r = o
    BY <1>1, <1>9, <2>2
  <2>3. CASE r = dead
    BY <1>1, <1>8, <2>3
  <2>4. CASE r # q /\ r # o /\ r # dead
    BY <1>1, <1>5, <1>10, <2>4
  <2>. QED  BY <2>1, <2>2, <2>3, <2>4
<1>11. ASSUME NEW r \in Slot
       PROVE  /\ \A t \in ToSet(T.queue[r].bg) : tk[t].progr = T.queue[r].player
              /\ T.queue[r].num_bg_tasks <= queued_task_limit
  <2>1. CASE r = q
    BY <1>1, <1>7, <2>1
  <2>2. CASE r = o
    BY <1>1, <1>9, <2>2
  <2>3. CASE r = dead
    BY <1>6, <1>8, <2>3
  <2>4. CASE r # q /\ r # o /\ r # dead
    BY <1>1, <1>5, <2>4
  <2>. QED  BY <2>1, <2>2, <2>3, <2>4
<1>12. ASSUME NEW t \in ToSet(w) PROVE \E r \in Slot : T.queue[r].player = tk[t].progr
  <2>1. PICK r \in Slot : S.queue[r].player = tk[t].progr
    BY <1>5
  <2>2. CASE r = q
    <3>1. o # NoQueue
      <4>. SUFFICES ASSUME o = NoQueue PROVE FALSE
        OBVIOUS
      <4>1. S.queue[q].bg = <<>> /\ S.queue[q].num_bg_tasks = 0
        BY <1>2 DEF LoggedIn, OpensFor
      <4>2. PICK ws : ws = Waits(w, tk, old)
        OBVIOUS
      <4>3. IsFiniteSet(ws)
        <5>1. w \in Seq(TaskId)
          BY DEF TInv
        <5>2. IsFiniteSet(ToSet(w))
          BY <5>1, ListIsFinite
        <5>3. ws \subseteq ToSet(w)
          BY <4>2 DEF Waits
        <5>. QED  BY <5>2, <5>3, FS_Subset
      <4>4. Cardinality(ws) \in Nat
        BY <4>3, FS_CardinalityType
      <4>5. 0 = 0 + Cardinality(ws)
        BY <1>2, <1>4, <1>5, <4>1, <4>2
      <4>6. Cardinality(ws) = 0
        BY <4>4, <4>5
      <4>7. ws = {}
        BY <4>3, <4>6, FS_EmptySet
      <4>. QED  BY <2>1, <2>2, <4>2, <4>7 DEF Waits
    <3>. QED  BY <1>1, <2>1, <2>2, <3>1
  <2>3. CASE r = dead
    <3>1. tk[t].progr = new
      BY <1>2, <2>1, <2>3 DEF Found
    <3>. QED  BY <1>1, <3>1
  <2>4. CASE r = o
    <3>1. S.queue[r].player = None
      BY <1>2, <2>4 DEF LoggedIn, OpensFor
    <3>2. tk[t].progr \in Owner
      BY WaitingIs
    <3>. QED  BY <1>2, <2>1, <3>1, <3>2
  <2>5. CASE r # q /\ r # o /\ r # dead
    BY <1>1, <2>1, <2>5
  <2>. QED  BY <2>2, <2>3, <2>4, <2>5
<1>. QED
  BY <1>10, <1>11, <1>12 DEF BInv

\* A queue in use counts a number of tasks, and none only if none is ready.
LEMMA CountsTasks ==
  ASSUME NEW S, QInv(S), NEW w, NEW tk, NEW cur, TInv(S, w, tk, cur), BInv(S, w, tk),
         NEW q \in Slot, S.queue[q].player # None
  PROVE  S.queue[q].num_bg_tasks \in Nat /\ (S.queue[q].num_bg_tasks = 0 => S.queue[q].bg = <<>>)
<1>1. PICK b, ws : b = S.queue[q].bg /\ ws = Waits(w, tk, S.queue[q].player)
  OBVIOUS
<1>2. b \in Seq(TaskId) /\ w \in Seq(TaskId)
  BY <1>1, SchedTypes DEF QInv, TInv
<1>3. IsFiniteSet(ws)
  <2>1. IsFiniteSet(ToSet(w))
    BY <1>2, ListIsFinite
  <2>2. ws \subseteq ToSet(w)
    BY <1>1 DEF Waits
  <2>. QED  BY <2>1, <2>2, FS_Subset
<1>4. Cardinality(ws) \in Nat
  BY <1>3, FS_CardinalityType
<1>5. S.queue[q].num_bg_tasks = Len(b) + Cardinality(ws)
  BY <1>1 DEF BInv
<1>6. PICK k \in Nat, c \in Nat : k = Len(b) /\ c = Cardinality(ws)
  BY <1>2, <1>4
<1>7. k + c \in Nat /\ (k + c = 0 => k = 0)
  BY <1>6
<1>8. Len(b) = 0 => b = <<>>
  BY <1>2
<1>. QED
  BY <1>1, <1>5, <1>6, <1>7, <1>8

\* find_shandle()
LEMMA FindShandle ==
  ASSUME NEW p, NEW c, c = find_shandle(p)
  PROVE  \/ c = None /\ \A d \in Open : shandle[d].player # p
         \/ c \in Open /\ shandle[c].player = p
BY DEF find_shandle

\* The queues and the connections, when the player's other connection, if
\* there is one, has been closed.  Queue q is that of connection c.
OtherClosed(S, T, dead) ==
  /\ \A r \in Slot : T.queue[r].player = S.queue[r].player
  /\ \A r \in Slot : r # dead => T.queue[r].connected = S.queue[r].connected
  /\ dead \in Slot => ~T.queue[dead].connected

LEMMA LoginHandles ==
  ASSUME IInv, NEW q \in Slot, NEW c \in Conn, IsOpen(shandle, c), shandle[c].tasks = q,
         NEW new \in Player, NEW e, e = find_shandle(new), shandle[c].player = c,
         NEW o, NEW dead, Found(Sched, dead, new), NEW S, LoggedIn(Sched, S, q, o, dead, c, new),
         NEW T, OtherClosed(S, T, dead),
         NEW redirect \in BOOLEAN, NEW g, g = ConnectedShandle(c, e, new, redirect)
  PROVE  HInv(T, g) /\ IsOpen(g, c)
<1>1. /\ HInv(Sched, shandle) /\ shandle \in [Conn -> Handle] /\ QInv(Sched) /\ OneEach(Sched)
  BY Parts DEF QInv
<1>2. /\ None \notin Conn /\ c \notin Player /\ c \in Owner /\ new \in Owner /\ c # new
      /\ None \notin Owner
  BY NumbersAssumption DEF Owner
<1>3. Sched.queue[q].player = c
  BY <1>1 DEF HInv
<1>4. InSlots(Sched, S, q, o, dead, c, new)
  BY <1>2, <1>3, LoginSlots
<1>5. /\ S.queue[q].player = new
      /\ o # q /\ dead # q /\ (o \in Slot => o # dead)
      /\ \A r \in Slot : r # q /\ r # o /\ r # dead => S.queue[r] = Sched.queue[r]
      /\ \A r \in Slot : S.queue[r].connected = Sched.queue[r].connected
  BY <1>4 DEF InSlots, Kept
<1>6. o \in Slot => ~Sched.queue[o].connected
  <2>1. o \in Slot => Sched.queue[o].player = None
    BY DEF LoggedIn, OpensFor, NoQueue, Slot
  <2>. QED  BY <1>1, <2>1, FreeSlotIs DEF QInv, FreeIsEmpty
<1>7. \A d : IsOpen(shandle, d) <=> d \in Open
  BY DEF IsOpen, Open
<1>8. /\ e # c
      /\ e \in Open => shandle[e].player = new /\ e \in Conn
      /\ e \notin Open => \A d \in Open : shandle[d].player # new
  BY <1>2, <1>7, FindShandle DEF Open
<1>9. \A d \in Conn : IsOpen(shandle, d) /\ shandle[d].tasks = dead => d = e
  <2>. SUFFICES ASSUME NEW d \in Conn, IsOpen(shandle, d), shandle[d].tasks = dead
                PROVE  d = e
    OBVIOUS
  <2>1. dead \in Slot /\ Sched.queue[dead].player = shandle[d].player
    BY <1>1 DEF HInv
  <2>2. shandle[d].player = new
    BY <2>1 DEF Found, NoQueue, Slot
  <2>3. e \in Open /\ shandle[e].player = new /\ e \in Conn /\ IsOpen(shandle, e)
    BY <1>7, <1>8, <2>2
  <2>4. PICK r \in Slot : r = shandle[e].tasks /\ Sched.queue[r].player = new
    BY <1>1, <2>3 DEF HInv
  <2>5. r = dead
    BY <1>1, <1>2, <2>1, <2>2, <2>4 DEF OneEach
  <2>6. \A x, y \in Conn : IsOpen(shandle, x) /\ IsOpen(shandle, y)
                           /\ shandle[x].tasks = shandle[y].tasks => x = y
    BY <1>1 DEF HInv
  <2>. QED  BY <2>3, <2>4, <2>5, <2>6
<1>10. e \in Open => shandle[e].tasks = dead
  <2>. SUFFICES ASSUME e \in Open PROVE shandle[e].tasks = dead
    OBVIOUS
  <2>1. IsOpen(shandle, e) /\ shandle[e].player = new /\ e \in Conn
    BY <1>7, <1>8
  <2>2. PICK r \in Slot : r = shandle[e].tasks /\ Sched.queue[r].player = new
    BY <1>1, <2>1 DEF HInv
  <2>3. dead \in Slot /\ Sched.queue[dead].player = new
    BY <2>2 DEF Found
  <2>. QED  BY <1>1, <1>2, <2>2, <2>3 DEF OneEach
<1>11. PICK flag \in BOOLEAN : flag = (shandle[c].disconnect_me \/ redirect)
  OBVIOUS
<1>12. PICK x : x = [shandle[c] EXCEPT !.player = new, !.logged_in = TRUE, !.disconnect_me = flag]
  OBVIOUS
<1>13. x \in Handle /\ x.state = "open" /\ x.player = new /\ x.tasks = q
  <2>1. shandle[c] \in Handle /\ shandle[c].state = "open" /\ flag \in BOOLEAN
    BY <1>1, <1>11 DEF IsOpen
  <2>. QED  BY <1>2, <1>12, <2>1 DEF Handle
<1>14. /\ g = [d \in Conn |-> CASE d = e -> Gone [] d = c -> x [] OTHER -> shandle[d]]
  BY <1>11, <1>12 DEF ConnectedShandle
<1>15. /\ g[c] = x
       /\ \A d \in Conn : d = e => g[d] = Gone
       /\ \A d \in Conn : d # e /\ d # c => g[d] = shandle[d]
  BY <1>8, <1>14
<1>16. Gone \in Handle /\ Gone.state = "gone"
  <2>1. Unused \in Handle
    BY DEF Unused, Handle, NoQueue
  <2>. QED  BY <2>1 DEF Gone, Handle
<1>17. g \in [Conn -> Handle]
  BY <1>1, <1>13, <1>14, <1>16
<1>18. /\ IsOpen(g, c) /\ g[c].player = new /\ g[c].tasks = q
       /\ \A d \in Conn : IsOpen(g, d) =>
            /\ d # e /\ IsOpen(shandle, d) /\ g[d].tasks = shandle[d].tasks
            /\ d # c => g[d] = shandle[d]
       /\ \A d \in Conn : d # e /\ IsOpen(shandle, d) =>
            IsOpen(g, d) /\ g[d].tasks = shandle[d].tasks
  BY <1>13, <1>15, <1>16 DEF IsOpen
<1>19. Sched.queue[q].connected
  BY <1>1 DEF HInv
<1>20. T.queue[q].connected /\ T.queue[q].player = new
  BY <1>5, <1>19 DEF OtherClosed
<1>21. ASSUME NEW d \in Conn, IsOpen(g, d)
       PROVE  /\ g[d].tasks \in Slot
              /\ T.queue[g[d].tasks].connected
              /\ T.queue[g[d].tasks].player = g[d].player
              /\ g[d].player \in Player \cup {d}
  <2>1. CASE d = c
    BY <1>18, <1>20, <2>1
  <2>2. CASE d # c
    <3>1. d # e /\ IsOpen(shandle, d) /\ g[d] = shandle[d]
      BY <1>18, <1>21, <2>2
    <3>2. PICK r \in Slot : r = shandle[d].tasks
      BY <1>1, <3>1 DEF HInv
    <3>3. /\ Sched.queue[r].connected /\ Sched.queue[r].player = shandle[d].player
          /\ shandle[d].player \in Player \cup {d}
      BY <1>1, <3>1, <3>2 DEF HInv
    <3>4. r # q
      BY <1>1, <2>2, <3>1, <3>2 DEF HInv
    <3>5. r # dead /\ r # o
      BY <1>6, <1>9, <3>1, <3>2, <3>3
    <3>6. S.queue[r] = Sched.queue[r]
      BY <1>5, <3>4, <3>5
    <3>7. T.queue[r].connected /\ T.queue[r].player = shandle[d].player
      BY <3>3, <3>5, <3>6 DEF OtherClosed
    <3>. QED  BY <3>1, <3>2, <3>3, <3>7
  <2>. QED  BY <2>1, <2>2
<1>22. \A d, f \in Conn : IsOpen(g, d) /\ IsOpen(g, f) /\ g[d].tasks = g[f].tasks => d = f
  BY <1>1, <1>18 DEF HInv
<1>23. ASSUME NEW r \in Slot, T.queue[r].connected
       PROVE  \E d \in Conn : IsOpen(g, d) /\ g[d].tasks = r
  <2>1. r # dead
    BY <1>23 DEF OtherClosed
  <2>2. Sched.queue[r].connected
    BY <1>5, <1>23, <2>1 DEF OtherClosed
  <2>3. PICK d \in Conn : IsOpen(shandle, d) /\ shandle[d].tasks = r
    BY <1>1, <2>2 DEF HInv
  <2>4. d # e
    BY <1>7, <1>10, <2>1, <2>3
  <2>. QED  BY <1>18, <2>3, <2>4
<1>24. HInv(T, g)
  BY <1>17, <1>21, <1>22, <1>23 DEF HInv
<1>. QED
  BY <1>18, <1>24

\* A login gives no queue but the first one anything to run, if the connection
\* has no background task.
LEMMA LoginRouses ==
  ASSUME NEW S, QInv(S), NEW q \in Slot, q \in ToSet(S.active), S.queue[q].bg = <<>>,
         NEW T, NEW o, NEW dead, NEW old, NEW new, LoggedIn(S, T, q, o, dead, old, new)
  PROVE  Roused(S, T)
<1>1. T.active = S.active /\ OpensFor(S, T, q, o, old) /\ TakesOver(S, T, q, dead, new)
  BY DEF LoggedIn
<1>2. ASSUME o \in Slot PROVE ~Runs(T.queue[o])
  <2>1. NoQueue \notin Slot
    BY DEF NoQueue, Slot
  <2>2. /\ S.queue[o].player = None /\ T.queue[o].input = S.queue[o].input
        /\ T.queue[o].bg = S.queue[q].bg
    BY <1>1, <1>2, <2>1 DEF OpensFor, Holds
  <2>3. S.queue[o].input = <<>>
    BY <1>2, <2>2, FreeSlotIs DEF QInv, FreeIsEmpty
  <2>. QED  BY <2>2, <2>3, EmptyRests
<1>3. ASSUME dead \in Slot PROVE ~Runs(T.queue[dead])
  <2>1. NoQueue \notin Slot
    BY DEF NoQueue, Slot
  <2>2. T.queue[dead].input = <<>> /\ T.queue[dead].bg = <<>>
    BY <1>1, <1>3, <2>1 DEF TakesOver, Holds
  <2>. QED  BY <2>2, EmptyRests
<1>4. \A r \in Slot : r # q /\ r # o /\ r # dead => T.queue[r] = S.queue[r]
  BY DEF LoggedIn
<1>. QED
  BY <1>1, <1>2, <1>3, <1>4 DEF Roused

LEMMA LoginStep ==
  ASSUME IInv, NEW new_id \in Player, Login(new_id)
  PROVE  IInv' /\ HeadKept /\ (queue[First].num_bg_tasks = 0 => AwakeKept)
<1>1. /\ current = None /\ pc.at = "login" /\ queue[First].connected /\ new_id \in users
      /\ queue[First].num_bg_tasks > 0 => InUse(Sched) # Slot
      /\ UNCHANGED <<waiting, users>>
  BY DEF Login, Idle
<1>2. active # <<>>
  BY <1>1, RunningActive DEF RunningPlace
<1>3. /\ First \in Slot /\ Sched.queue[First].player # None
      /\ Sched.queue = queue /\ Sched.active = active /\ Sched.active # <<>>
      /\ Head(Sched.active) = First
      /\ Sched \in Scheds /\ users \subseteq Player /\ QInv(Sched) /\ HInv(Sched, shandle)
      /\ TInv(Sched, waiting, task, current) /\ BInv(Sched, waiting, task)
      /\ PInv(Sched, shandle, pc)
  BY <1>2, FirstIs, Parts
<1>4. PICK q \in Slot : q = First
  BY <1>3
<1>5. Sched.queue[q].player \notin Player /\ Sched.queue[q].connected
  BY <1>1, <1>3, <1>4 DEF PInv
<1>6. PICK c \in Conn : IsOpen(shandle, c) /\ shandle[c].tasks = q
  BY <1>3, <1>5 DEF HInv
<1>7. Sched.queue[q].player = c /\ shandle[c].player = c
  BY <1>3, <1>5, <1>6 DEF HInv
<1>8. /\ c \in Owner /\ new_id \in Owner /\ c # new_id /\ None \notin Owner
  BY NumbersAssumption DEF Owner
<1>9. find_shandle(c) = c
  <2>1. PICK d : d = find_shandle(c)
    OBVIOUS
  <2>2. c \in Open
    BY <1>6 DEF Open, IsOpen
  <2>3. d \in Open /\ shandle[d].player = c
    BY <1>7, <2>1, <2>2, FindShandle
  <2>4. shandle[d].player \in Player \cup {d}
    BY <2>3, OpenInUse
  <2>. QED  BY <1>5, <1>7, <2>1, <2>3, <2>4
<1>10. PICK e, dead : e = find_shandle(new_id) /\ dead = find_tqueue(Sched, new_id)
  OBVIOUS
<1>11. Found(Sched, dead, new_id)
  BY <1>10, Find DEF Found
<1>12. PICK R, M, S : /\ R = WithPlayer(Sched, q, new_id)
                      /\ M = MoveConnectionTasks(R, q, c)
                      /\ S = TakeOverTasks(M, q, dead)
  OBVIOUS
<1>13. S = LoginQueue(Sched, First, new_id)
  BY <1>4, <1>7, <1>10, <1>12 DEF LoginQueue, WithPlayer
<1>14. PICK n : n = Sched.queue[q].num_bg_tasks
  OBVIOUS
<1>15. n \in Nat /\ (n = 0 => Sched.queue[q].bg = <<>>)
  BY <1>3, <1>4, <1>14, CountsTasks
<1>16. n # 0 => InUse(Sched) # Slot
  <2>1. n # 0 => n > 0
    BY <1>15
  <2>. QED  BY <1>1, <1>3, <1>4, <1>14, <2>1
<1>17. PICK o : MovedTasks(Sched, M, q, o, c, new_id)
  BY <1>3, <1>7, <1>8, <1>12, <1>14, <1>15, <1>16, MoveTasksIs
<1>18. LoggedIn(Sched, S, q, o, dead, c, new_id)
  <2>1. dead \in Slot \cup {NoQueue} /\ dead # q
    BY <1>7, <1>8, <1>11 DEF Found, NoQueue, Slot
  <2>2. dead # NoQueue => o # dead
    <3>1. dead # NoQueue => Sched.queue[dead].player = new_id
      BY <1>11 DEF Found
    <3>2. o # NoQueue => Sched.queue[o].player = None
      BY <1>17 DEF MovedTasks, OpensFor
    <3>. QED  BY <1>8, <3>1, <3>2
  <2>. QED  BY <1>3, <1>12, <1>17, <2>1, <2>2, TakeOverIs
<1>19. QInv(S)
  BY <1>3, <1>7, <1>8, <1>11, <1>18, LoginQueues
<1>20. TInv(S, waiting, task, current)
  BY <1>3, <1>7, <1>8, <1>11, <1>17, <1>18, LoginTasks
<1>21. BInv(S, waiting, task)
  BY <1>3, <1>7, <1>8, <1>11, <1>18, LoginCounts
<1>22. S.active = Sched.active
  BY <1>18 DEF LoggedIn
<1>23. PICK T : T = IF e = None THEN S ELSE free_task_queue(S, shandle[e].tasks)
  OBVIOUS
<1>24. Becomes(T)
  BY <1>10, <1>13, <1>23 DEF Login
<1>25. /\ QInv(T) /\ T.active # <<>> /\ Leads(Sched, T)
       /\ \A r \in Slot : /\ T.queue[r].player = S.queue[r].player
                          /\ T.queue[r].reading = S.queue[r].reading
                          /\ T.queue[r].bg = S.queue[r].bg
                          /\ T.queue[r].num_bg_tasks = S.queue[r].num_bg_tasks
       /\ \A r \in Slot : r # dead => T.queue[r].connected = S.queue[r].connected
       /\ dead \in Slot => ~T.queue[dead].connected
  <2>0. InSlots(Sched, S, q, o, dead, c, new_id)
    BY <1>7, <1>8, <1>11, <1>18, LoginSlots
  <2>1. CASE e = None
    <3>1. T = S
      BY <1>23, <2>1
    <3>2. \A d \in Open : shandle[d].player # new_id
      BY <1>8, <1>10, <2>1, FindShandle DEF Open, Owner
    <3>3. dead \in Slot => ~Sched.queue[dead].connected
      <4>. SUFFICES ASSUME dead \in Slot, Sched.queue[dead].connected PROVE FALSE
        OBVIOUS
      <4>1. PICK d \in Conn : IsOpen(shandle, d) /\ shandle[d].tasks = dead
        BY <1>3 DEF HInv
      <4>2. shandle[d].player = new_id
        BY <1>3, <1>11, <4>1 DEF HInv, Found, NoQueue, Slot
      <4>. QED  BY <3>2, <4>1, <4>2 DEF Open, IsOpen
    <3>4. dead \in Slot => ~S.queue[dead].connected
      BY <2>0, <3>3 DEF InSlots, Kept
    <3>. QED  BY <1>3, <1>19, <1>22, <3>1, <3>4 DEF Leads
  <2>2. CASE e # None
    <3>1. e \in Open /\ shandle[e].player = new_id
      BY <1>10, <2>2, FindShandle
    <3>2. /\ shandle[e].tasks \in Slot
          /\ Sched.queue[shandle[e].tasks].player = shandle[e].player
      BY <3>1, OpenInUse
    <3>3. dead \in Slot /\ Sched.queue[dead].player = new_id
      BY <1>11, <3>1, <3>2 DEF Found
    <3>4. shandle[e].tasks = dead
      BY <1>3, <1>8, <3>1, <3>2, <3>3 DEF QInv, OneEach
    <3>5. S.queue[dead].player # None
      BY <2>0, <3>3 DEF InSlots, NOTHING, None
    <3>6. PICK v \in BOOLEAN : v = FALSE
      OBVIOUS
    <3>7. PICK U : U = SetConnected(S, dead, v)
      OBVIOUS
    <3>8. S \in Scheds
      BY <1>19 DEF QInv
    <3>9. U.queue[dead].reading = S.queue[dead].reading
      BY <3>3, <3>6, <3>7, <3>8, SetConnectedIs
    <3>10. T = IF U.queue[dead].reading # None THEN ensure_usage(U, dead) ELSE U
      BY <1>23, <2>2, <3>4, <3>6, <3>7 DEF free_task_queue, SetConnected
    <3>11. Switched(S, T, dead, v)
      BY <1>19, <3>3, <3>5, <3>6, <3>7, <3>9, <3>10, Switch
    <3>. QED  BY <1>3, <1>22, <3>6, <3>11 DEF Switched, Leads
  <2>. QED  BY <2>1, <2>2
<1>26. TInv(T, waiting, task, current)
  BY <1>20, <1>25, TSame
<1>27. BInv(T, waiting, task)
  BY <1>21, <1>25, BSame
<1>28. PICK redirect, g, place :
         /\ redirect \in BOOLEAN /\ shandle' = g /\ g = ConnectedShandle(c, e, new_id, redirect)
         /\ StartCode(place)
         /\ place \in {At("redirecting", c, {}), Loop("task")}
  <2>1. PICK same \in SameListener :
          LET redirect == e # None /\ ~same
          IN /\ shandle' = ConnectedShandle(c, e, new_id, redirect)
             /\ StartCode(IF redirect THEN At("redirecting", c, {}) ELSE Loop("task"))
    BY <1>3, <1>4, <1>7, <1>9, <1>10 DEF Login
  <2>2. PICK redirect \in BOOLEAN : redirect = (e # None /\ ~same)
    OBVIOUS
  <2>3. PICK g, place : /\ g = ConnectedShandle(c, e, new_id, redirect)
                        /\ place = IF redirect THEN At("redirecting", c, {}) ELSE Loop("task")
    OBVIOUS
  <2>4. shandle' = g /\ StartCode(place)
    BY <2>1, <2>2, <2>3
  <2>. QED  BY <2>2, <2>3, <2>4
<1>29. HInv(T, g) /\ IsOpen(g, c)
  <2>1. OtherClosed(S, T, dead)
    BY <1>25 DEF OtherClosed
  <2>2. e = find_shandle(new_id) /\ g = ConnectedShandle(c, e, new_id, redirect)
    BY <1>10, <1>28
  <2>. QED  BY <1>6, <1>7, <1>11, <1>18, <1>28, <2>1, <2>2, LoginHandles
<1>30. PInv(T, g, place)
  <2>1. CASE place = Loop("task")
    BY <1>25, <2>1, LoopKeeps DEF Place, RunningPlace
  <2>2. CASE place = At("redirecting", c, {})
    <3>1. PICK none : none = {}
      OBVIOUS
    <3>2. none \in SUBSET Conn /\ \A d \in none : IsOpen(g, d)
      BY <3>1
    <3>3. PICK at : at = "redirecting"
      OBVIOUS
    <3>4. PInv(T, g, At(at, c, none))
      BY <1>25, <1>29, <3>2, <3>3, AtKeeps
    <3>. QED  BY <2>2, <3>1, <3>3, <3>4
  <2>. QED  BY <1>28, <2>1, <2>2
<1>31. TInv(T, waiting, task', current') /\ BInv(T, waiting, task') /\ pc' = place
  <2>1. T \in Scheds
    BY <1>25 DEF QInv
  <2>. QED  BY <1>1, <1>26, <1>27, <1>28, <2>1, StartStep
<1>32. All(T, shandle', pc', waiting', task', current')
  BY <1>1, <1>25, <1>28, <1>29, <1>30, <1>31 DEF All
<1>33. HeadKept
  BY <1>24, <1>25, LeadsIs
<1>34. ASSUME queue[First].num_bg_tasks = 0 PROVE AwakeKept
  <2>1. q \in ToSet(Sched.active) /\ Sched.queue[q].bg = <<>>
    BY <1>3, <1>4, <1>14, <1>15, <1>34, ActiveInUse
  <2>2. Roused(Sched, S)
    BY <1>3, <1>18, <2>1, LoginRouses
  <2>3. e # None => shandle[e].tasks \in Slot
    BY <1>10, FindShandle, OpenInUse
  <2>4. Roused(S, T)
    <3>1. CASE e = None
      BY <1>23, <3>1 DEF Roused
    <3>2. CASE e # None
      BY <1>19, <1>23, <2>3, <3>2, DisconnectRouses
    <3>. QED  BY <3>1, <3>2
  <2>5. Roused(Sched, T)
    BY <2>2, <2>4, RousedTwice
  <2>. QED  BY <1>24, <2>5, RousedKeeps
<1>. QED
  BY <1>1, <1>3, <1>24, <1>32, <1>33, <1>34, StepTo

-----------------------------------------------------------------------------
(* The invariant holds                                                     *)

LEMMA InitIs ==
  ASSUME Init
  PROVE  IInv
<1>1. PICK S, R : S = Sched /\ R = [q \in Slot |-> FreeSlot]
  OBVIOUS
<1>2. S.queue = R /\ S.active = <<>> /\ S = [queue |-> R, active |-> <<>>]
  BY <1>1 DEF Init, Sched
<1>3. R \in [Slot -> Queue] /\ \A q \in Slot : R[q] = FreeSlot
  BY <1>1, FreeSlotIs
<1>4. S \in Scheds
  <2>1. <<>> \in Seq(Slot)
    OBVIOUS
  <2>. QED  BY <1>2, <1>3, <2>1, PairIs DEF Scheds
<1>5. ToSet(<<>>) = {} /\ Inj(<<>>) /\ DOMAIN <<>> = {}
  BY DEF ToSet, Inj
<1>6. None \notin Owner /\ None \notin TaskId
  BY NumbersAssumption
<1>7. QInv(S)
  <2>1. Sorted(S)
    BY <1>2, <1>5 DEF Sorted
  <2>2. Counted(S)
    BY <1>2, <1>3, <1>5, FreeSlotIs DEF Counted, NO_USAGE
  <2>3. OneEach(S) /\ FreeIsEmpty(S) /\ ReadersActive(S)
    BY <1>2, <1>3, <1>6, FreeSlotIs DEF OneEach, FreeIsEmpty, ReadersActive
  <2>. QED  BY <1>4, <2>1, <2>2, <2>3 DEF QInv
<1>8. HInv(S, shandle)
  <2>1. Unused \in Handle /\ Unused.state = "unused"
    BY DEF Unused, Handle, NoQueue
  <2>2. shandle \in [Conn -> Handle] /\ \A c \in Conn : shandle[c] = Unused
    BY <2>1 DEF Init
  <2>3. \A c : ~IsOpen(shandle, c)
    BY <2>1, <2>2 DEF IsOpen
  <2>4. \A q \in Slot : ~S.queue[q].connected
    BY <1>2, <1>3, FreeSlotIs
  <2>. QED  BY <2>2, <2>3, <2>4 DEF HInv
<1>9. PInv(S, shandle, pc)
  <2>1. pc = Loop("io")
    BY DEF Init
  <2>. QED  BY <2>1, LoopKeeps DEF Place, RunningPlace
<1>10. TInv(S, waiting, task, current)
  <2>1. waiting = <<>> /\ current = None /\ task = [t \in TaskId |-> NoTask]
    BY DEF Init
  <2>2. NoTask \in TaskRecord /\ NoTask.kind = None
    BY DEF NoTask, TaskRecord
  <2>3. task \in [TaskId -> TaskRecord] /\ \A t \in TaskId : task[t].kind = None
    BY <2>1, <2>2
  <2>4. waiting \in Seq(TaskId) /\ Inj(waiting) /\ ToSet(waiting) = {}
    BY <1>5, <2>1
  <2>5. \A q \in Slot : /\ S.queue[q].bg = <<>> /\ S.queue[q].reading = None
                        /\ ToSet(S.queue[q].bg) = {} /\ Inj(S.queue[q].bg)
    BY <1>2, <1>3, <1>5, FreeSlotIs
  <2>6. PICK at : at = [t \in TaskId |-> Gone0]
    OBVIOUS
  <2>7. ASSUME NEW t \in TaskId PROVE IsAt(at[t], t, S, waiting, task, current)
    <3>1. at[t] = Gone0
      BY <2>6
    <3>. QED  BY <1>6, <2>1, <2>3, <2>4, <2>5, <3>1
           DEF IsAt, Gone0, Running, Waiting, Reads, Ready
  <2>8. Where(at, S, waiting, task, current)
    BY <2>7, WhereIs
  <2>. QED  BY <2>1, <2>3, <2>4, <2>5, <2>8 DEF TInv
<1>11. BInv(S, waiting, task)
  <2>1. ToSet(waiting) = {}
    BY <1>5 DEF Init
  <2>2. \A q \in Slot : /\ S.queue[q].player = None /\ ToSet(S.queue[q].bg) = {}
                        /\ S.queue[q].num_bg_tasks = 0
    BY <1>2, <1>3, <1>5, FreeSlotIs
  <2>3. 0 <= queued_task_limit
    BY TasksAssumption
  <2>. QED  BY <2>1, <2>2, <2>3 DEF BInv
<1>. QED
  BY <1>1, <1>7, <1>8, <1>9, <1>10, <1>11 DEF IInv, All, Init

LEMMA StutterStep ==
  ASSUME IInv, UNCHANGED vars
  PROVE  IInv'
<1>1. UNCHANGED <<queue, active, waiting, task, current, shandle, pc, users>>
  BY DEF vars
<1>2. All(Sched, shandle', pc', waiting', task', current') /\ users' \subseteq Player
  BY <1>1 DEF IInv
<1>. QED
  BY <1>1, <1>2, StepSame

LEMMA NextStep ==
  ASSUME IInv, [Next]_vars
  PROVE  IInv'
<1>1. CASE MainLoop
  BY <1>1, ClosedStep, WakeStep, RunStep, NoneActiveStep, TaskDoneStep, CommandStep, NoLoginStep,
     RedirectedStep, LoginStep, CleanupStep, LeftStep, NextIterationStep DEF MainLoop
<1>2. CASE Network
  BY <1>2, NewConnectionStep, ReceiveStep, CloseStep DEF Network
<1>3. CASE Code
  BY <1>3, EndStep, CallStep, RecycleStep, PermsStep, ForkStep, SuspendStep, ReadStep, ReadNowStep,
     FlushStep, ForceStep, KillStep, ResumeStep, BootStep, OutboundStep, OptionStep DEF Code
<1>4. CASE Tick
  BY <1>4, TickStep
<1>5. CASE UNCHANGED vars
  BY <1>5, StutterStep
<1>. QED
  BY <1>1, <1>2, <1>3, <1>4, <1>5 DEF Next

\* The queues, the connections, the place in the main loop, the tasks and
\* their number agree with each other, at all times.
THEOREM Consistent == Spec => []IInv
<1>1. Init => IInv
  BY InitIs
<1>2. IInv /\ [Next]_vars => IInv'
  BY NextStep
<1>. QED
  BY <1>1, <1>2, PTL DEF Spec

-----------------------------------------------------------------------------
(* What the invariant says                                                 *)

LEMMA TypesAre == ASSUME IInv PROVE ServerTypeOK
<1>1. /\ Sched.queue = queue /\ Sched.active = active /\ Sched \in Scheds /\ QInv(Sched)
      /\ TInv(Sched, waiting, task, current) /\ BInv(Sched, waiting, task)
  BY Parts DEF Sched
<1>2. queue \in [Slot -> Queue] /\ active \in Seq(Slot)
  BY <1>1, SchedTypes
<1>3. ASSUME NEW q \in Slot PROVE queue[q].num_bg_tasks \in Nat
  <2>1. CASE queue[q].player = None
    BY <1>1, <2>1 DEF QInv, FreeIsEmpty, FreeSlot
  <2>2. CASE queue[q].player # None
    BY <1>1, <2>2, CountsTasks
  <2>. QED  BY <2>1, <2>2
<1>4. ASSUME NEW q \in Slot PROVE queue[q].usage \in Nat \cup {NO_USAGE}
  <2>1. queue[q].usage \in Int /\ queue[q].usage >= NO_USAGE
    BY <1>1, SchedTypes DEF QInv, Counted
  <2>. QED  BY <2>1 DEF NO_USAGE
<1>5. PICK Typed : Typed = [player : Owner \cup {NOTHING, None}, connected : BOOLEAN,
                            input : Seq(Line \cup {Blank}), hold_input : BOOLEAN,
                            disable_oob : BOOLEAN, reading : TaskId \cup {None},
                            bg : Seq(TaskId), num_bg_tasks : Nat,
                            usage : Nat \cup {NO_USAGE}]
  OBVIOUS
<1>6. ASSUME NEW q \in Slot PROVE queue[q] \in Typed
  <2>1. PICK r \in Queue : r = queue[q]
    BY <1>2
  <2>2. r.num_bg_tasks \in Nat /\ r.usage \in Nat \cup {NO_USAGE}
    BY <1>3, <1>4, <2>1
  <2>3. r \in Typed
    BY <1>5, <2>2 DEF Queue
  <2>. QED  BY <2>1, <2>3
<1>7. queue \in [Slot -> Typed]
  BY <1>2, <1>6
<1>8. TypeOK
  BY <1>2, <1>5, <1>7, Parts DEF TypeOK, TaskRecord
<1>. QED
  BY <1>8, Parts DEF ServerTypeOK, Handle, PInv

\* Queues, tasks, connections and the place in the main loop keep their types;
\* num_bg_tasks, which do_login_task() moves and the takers of tasks lower
\* (tasks.c), is never below 0.
THEOREM TypesHold == Spec => []ServerTypeOK
<1>1. IInv => ServerTypeOK
  BY TypesAre
<1>. QED
  BY <1>1, Consistent, PTL

LEMMA OneEachIs == ASSUME IInv PROVE OneQueueEach
<1>1. Sched \in Scheds /\ OneEach(Sched) /\ Sched.queue = queue
  BY Parts DEF QInv, Sched
<1>2. \A q \in Slot : Sched.queue[q].player \in Owner \cup {NOTHING, None}
  BY <1>1, SchedTypes
<1>. QED
  BY <1>1, <1>2 DEF OneQueueEach, OneEach, InUse

\* find_tqueue() finds the one queue of a player (tasks.c): no number has two,
\* whatever logins, disconnections and built-in functions have done.
THEOREM OneQueuePerPlayer == Spec => []OneQueueEach
<1>1. IInv => OneQueueEach
  BY OneEachIs
<1>. QED
  BY <1>1, Consistent, PTL

LEMMA HandleIs == ASSUME IInv PROVE HandleQueue
<1>1. Sched.queue = queue /\ HInv(Sched, shandle)
  BY Parts DEF Sched
<1>2. \A c : IsOpen(shandle, c) <=> c \in Open
  BY DEF IsOpen, Open
<1>3. ASSUME NEW c \in Open
      PROVE  /\ shandle[c].tasks # NoQueue /\ queue[shandle[c].tasks].connected
             /\ queue[shandle[c].tasks].player = shandle[c].player
  BY <1>1, OpenInUse DEF NoQueue, Slot
<1>4. ASSUME NEW q \in Slot, queue[q].connected
      PROVE  Cardinality({c \in Open : shandle[c].tasks = q}) = 1
  <2>1. PICK c \in Conn : IsOpen(shandle, c) /\ shandle[c].tasks = q
    BY <1>1, <1>4 DEF HInv
  <2>2. \A d, e \in Conn : IsOpen(shandle, d) /\ IsOpen(shandle, e)
                           /\ shandle[d].tasks = shandle[e].tasks => d = e
    BY <1>1 DEF HInv
  <2>3. \A d \in Open : d \in Conn
    BY DEF Open
  <2>4. {d \in Open : shandle[d].tasks = q} = {c}
    BY <1>2, <2>1, <2>2, <2>3
  <2>. QED  BY <2>4, FS_Singleton
<1>. QED
  BY <1>3, <1>4 DEF HandleQueue

\* Connections and connected queues are paired and have the same player
\* (server.c finds one from the other, and dereferences what it finds).
THEOREM HandlesHaveQueues == Spec => []HandleQueue
<1>1. IInv => HandleQueue
  BY HandleIs
<1>. QED
  BY <1>1, Consistent, PTL

\* The number of places in a list of tasks is the number of tasks in it.
LEMMA CountOnce ==
  ASSUME NEW X, NEW s \in Seq(X), Inj(s), NEW I, I \subseteq DOMAIN s, NEW V, V = {s[i] : i \in I}
  PROVE  /\ IsFiniteSet(I) /\ IsFiniteSet(V) /\ Cardinality(I) = Cardinality(V)
<1>1. PICK n \in Nat : n = Len(s) /\ DOMAIN s = 1..n
  OBVIOUS
<1>2. IsFiniteSet(1..n)
  BY <1>1, FS_Interval
<1>3. IsFiniteSet(I)
  BY <1>1, <1>2, FS_Subset
<1>4. PICK f : f = [i \in I |-> s[i]]
  OBVIOUS
<1>5. f \in [I -> V] /\ (\A i, j \in I : f[i] = f[j] => i = j) /\ \A v \in V : \E i \in I : f[i] = v
  BY <1>4 DEF Inj
<1>6. f \in Surjection(I, V)
  BY <1>5 DEF Surjection
<1>7. f \in Injection(I, V)
  <2>1. DOMAIN f = I
    BY <1>4
  <2>. QED  BY <1>5, <2>1 DEF Injection, IsInjective
<1>8. IsFiniteSet(V) /\ (Cardinality(V) = Cardinality(I) <=> f \in Injection(I, V))
  BY <1>3, <1>6, FS_Surjection
<1>. QED
  BY <1>3, <1>7, <1>8

LEMMA AccountingIs == ASSUME IInv PROVE BgAccounting
<1>1. /\ Sched.queue = queue /\ Sched \in Scheds /\ QInv(Sched)
      /\ TInv(Sched, waiting, task, current) /\ BInv(Sched, waiting, task)
      /\ waiting \in Seq(TaskId) /\ Inj(waiting)
  BY Parts DEF Sched, TInv
<1>2. ASSUME NEW o PROVE Cardinality(WaitingFor(o)) = Cardinality(Waits(waiting, task, o))
  <2>1. WaitingFor(o) \subseteq DOMAIN waiting
    BY DEF WaitingFor
  <2>2. Waits(waiting, task, o) = {waiting[i] : i \in WaitingFor(o)}
    BY DEF Waits, WaitingFor, ToSet
  <2>3. PICK I, V : I = WaitingFor(o) /\ V = Waits(waiting, task, o)
    OBVIOUS
  <2>4. I \subseteq DOMAIN waiting /\ V = {waiting[i] : i \in I}
    BY <2>1, <2>2, <2>3
  <2>5. Cardinality(I) = Cardinality(V)
    BY <1>1, <2>4, CountOnce
  <2>. QED  BY <2>3, <2>5
<1>3. ASSUME NEW q \in InUse(Sched)
      PROVE  queue[q].num_bg_tasks
               = Len(queue[q].bg) + Cardinality(WaitingFor(queue[q].player))
  <2>1. q \in Slot /\ queue[q].player # None
    BY <1>1 DEF InUse
  <2>2. Cardinality(WaitingFor(queue[q].player))
          = Cardinality(Waits(waiting, task, queue[q].player))
    BY <1>2
  <2>. QED  BY <1>1, <2>1, <2>2 DEF BInv
<1>4. ASSUME NEW i \in DOMAIN waiting
      PROVE  find_tqueue(Sched, task[waiting[i]].progr) # NoQueue
  <2>1. waiting[i] \in ToSet(waiting)
    BY DEF ToSet
  <2>2. find_tqueue(Sched, task[waiting[i]].progr) \in Slot
    BY <1>1, <2>1, WaitingIs
  <2>. QED  BY <2>2 DEF NoQueue, Slot
<1>5. ASSUME NEW q \in Slot, NEW i \in DOMAIN queue[q].bg
      PROVE  task[queue[q].bg[i]].progr = queue[q].player
  <2>1. queue[q].bg[i] \in ToSet(queue[q].bg)
    BY DEF ToSet
  <2>. QED  BY <1>1, <2>1 DEF BInv
<1>. QED
  BY <1>3, <1>4, <1>5 DEF BgAccounting

\* num_bg_tasks is the number of tasks that wait or are ready for the queue's
\* player, and the ready tasks are the player's own, through all logins
\* (do_login_task() in tasks.c) that hand queues over.
THEOREM TasksAreCounted == Spec => []BgAccounting
<1>1. IInv => BgAccounting
  BY AccountingIs
<1>. QED
  BY <1>1, Consistent, PTL

LEMMA QuotaIs == ASSUME IInv PROVE QuotaHolds
<1>1. /\ Sched.queue = queue /\ Sched \in Scheds /\ QInv(Sched)
      /\ TInv(Sched, waiting, task, current) /\ BInv(Sched, waiting, task)
      /\ waiting \in Seq(TaskId) /\ Inj(waiting) /\ OneEach(Sched)
      /\ \A q \in Slot : queue[q].bg \in Seq(TaskId) /\ Inj(queue[q].bg)
  BY Parts, SchedTypes DEF Sched, TInv, QInv
<1>2. ASSUME NEW o \in Owner
      PROVE  Cardinality({t \in TaskId :
               /\ task[t].progr = o
               /\ t \in ToSet(waiting) \/ \E q \in Slot : t \in ToSet(queue[q].bg)})
             <= queued_task_limit
  <2>1. PICK mine : mine = {t \in TaskId :
               /\ task[t].progr = o
               /\ t \in ToSet(waiting) \/ \E q \in Slot : t \in ToSet(queue[q].bg)}
    OBVIOUS
  <2>2. \A q \in Slot : \A t \in ToSet(queue[q].bg) : task[t].progr = queue[q].player
    BY <1>1 DEF BInv
  <2>3. CASE \A q \in Slot : queue[q].player # o
    <3>1. \A t \in ToSet(waiting) : task[t].progr # o
      BY <1>1, <2>3 DEF BInv
    <3>2. mine = {}
      BY <2>1, <2>2, <2>3, <3>1
    <3>3. Cardinality(mine) = 0
      BY <3>2, FS_EmptySet
    <3>. QED  BY <2>1, <3>3, TasksAssumption
  <2>4. CASE \E q \in Slot : queue[q].player = o
    <3>1. PICK q \in Slot : queue[q].player = o
      BY <2>4
    <3>2. PICK b, ws : b = queue[q].bg /\ ws = Waits(waiting, task, o)
      OBVIOUS
    <3>3. b \in Seq(TaskId) /\ Inj(b)
      BY <1>1, <3>2
    <3>4. mine \subseteq ws \cup ToSet(b)
      <4>. SUFFICES ASSUME NEW t \in mine PROVE t \in ws \cup ToSet(b)
        OBVIOUS
      <4>1. CASE t \in ToSet(waiting)
        BY <2>1, <3>2, <4>1 DEF Waits
      <4>2. CASE \E r \in Slot : t \in ToSet(queue[r].bg)
        <5>1. PICK r \in Slot : t \in ToSet(queue[r].bg)
          BY <4>2
        <5>2. queue[r].player = o
          BY <2>1, <2>2, <5>1
        <5>3. r = q
          BY <1>1, <3>1, <5>2 DEF OneEach
        <5>. QED  BY <3>2, <5>1, <5>3
      <4>. QED  BY <2>1, <4>1, <4>2
    <3>5. IsFiniteSet(ws)
      <4>1. IsFiniteSet(ToSet(waiting))
        BY <1>1, ListIsFinite
      <4>2. ws \subseteq ToSet(waiting)
        BY <3>2 DEF Waits
      <4>. QED  BY <4>1, <4>2, FS_Subset
    <3>6. IsFiniteSet(ToSet(b)) /\ Cardinality(ToSet(b)) = Len(b)
      <4>1. PICK k \in Nat : k = Len(b) /\ DOMAIN b = 1..k
        BY <3>3
      <4>2. PICK I, V : I = DOMAIN b /\ V = ToSet(b)
        OBVIOUS
      <4>3. I \subseteq DOMAIN b /\ V = {b[i] : i \in I}
        BY <4>2 DEF ToSet
      <4>4. IsFiniteSet(V) /\ Cardinality(I) = Cardinality(V)
        BY <3>3, <4>3, CountOnce
      <4>5. PICK one \in Int, z \in Int : one = 1 /\ z = k
        BY <4>1
      <4>6. Cardinality(one..z) = IF one > z THEN 0 ELSE z - one + 1
        BY <4>5, FS_Interval
      <4>7. Cardinality(1..k) = k
        BY <4>1, <4>5, <4>6
      <4>. QED  BY <4>1, <4>2, <4>4, <4>7
    <3>7. /\ IsFiniteSet(ws \cup ToSet(b))
          /\ Cardinality(ws \cup ToSet(b))
               = Cardinality(ws) + Cardinality(ToSet(b)) - Cardinality(ws \cap ToSet(b))
      BY <3>5, <3>6, FS_Union
    <3>8. IsFiniteSet(ws \cap ToSet(b))
      <4>1. ws \cap ToSet(b) \subseteq ws
        OBVIOUS
      <4>. QED  BY <3>5, <4>1, FS_Subset
    <3>9. /\ Cardinality(ws) \in Nat /\ Cardinality(ws \cap ToSet(b)) \in Nat
          /\ Cardinality(ToSet(b)) \in Nat
      BY <3>5, <3>6, <3>8, FS_CardinalityType
    <3>10. IsFiniteSet(mine) /\ Cardinality(mine) <= Cardinality(ws \cup ToSet(b))
      BY <3>4, <3>7, FS_Subset
    <3>11. Cardinality(mine) \in Nat
      BY <3>10, FS_CardinalityType
    <3>12. /\ Len(b) + Cardinality(ws) <= queued_task_limit
      <4>1. o # None
        BY NumbersAssumption
      <4>2. queue[q].num_bg_tasks = Len(b) + Cardinality(ws)
        BY <1>1, <3>1, <3>2, <4>1 DEF BInv
      <4>3. queue[q].num_bg_tasks <= queued_task_limit
        BY <1>1 DEF BInv
      <4>. QED  BY <4>2, <4>3
    <3>13. PICK a \in Nat, c \in Nat, d \in Nat, m \in Nat :
             /\ a = Cardinality(ws) /\ c = Cardinality(ToSet(b)) /\ m = Cardinality(mine)
             /\ d = Cardinality(ws \cap ToSet(b))
      BY <3>9, <3>11
    <3>14. m <= a + c - d /\ c + a <= queued_task_limit /\ queued_task_limit \in Nat
      BY <3>6, <3>7, <3>10, <3>12, <3>13, TasksAssumption
    <3>15. m <= queued_task_limit
      BY <3>13, <3>14
    <3>. QED  BY <2>1, <3>13, <3>15
  <2>. QED  BY <2>3, <2>4
<1>. QED
  BY <1>2 DEF QuotaHolds

\* check_user_task_limit() looks at one queue's count, and still nobody has
\* more tasks than queued_task_limit allows.
THEOREM QuotaStaysHeld == Spec => []QuotaHolds
<1>1. IInv => QuotaHolds
  BY QuotaIs
<1>. QED
  BY <1>1, Consistent, PTL

\* A list with one more in front.
LEMMA InFront ==
  ASSUME NEW X, NEW x \in X, NEW s \in Seq(X), NEW n, n = <<x>> \o s, NEW e, NEW i
  PROVE  (i \in DOMAIN n /\ n[i] = e)
           <=> (i = 1 /\ x = e) \/ \E j \in DOMAIN s : i = j + 1 /\ s[j] = e
<1>1. PICK a : a = <<x>>
  OBVIOUS
<1>2. a \in Seq(X) /\ Len(a) = 1 /\ a[1] = x
  BY <1>1
<1>3. PICK k \in Nat : k = Len(s) /\ DOMAIN s = 1..k
  OBVIOUS
<1>4. /\ n \in Seq(X) /\ Len(n) = Len(a) + Len(s)
      /\ \A j \in 1..Len(a) : n[j] = a[j]
      /\ \A j \in 1..Len(s) : n[j + Len(a)] = s[j]
  BY <1>1, <1>2, ConcatIs
<1>5. DOMAIN n = 1..(k + 1) /\ n[1] = x /\ \A j \in 1..k : n[j + 1] = s[j]
  BY <1>2, <1>3, <1>4
<1>6. ASSUME i \in DOMAIN n, n[i] = e
      PROVE  (i = 1 /\ x = e) \/ \E j \in DOMAIN s : i = j + 1 /\ s[j] = e
  <2>1. CASE i = 1
    BY <1>5, <1>6, <2>1
  <2>2. CASE i # 1
    <3>1. i - 1 \in 1..k /\ i = (i - 1) + 1
      BY <1>3, <1>5, <1>6, <2>2
    <3>2. PICK j \in 1..k : i = j + 1
      BY <3>1
    <3>. QED  BY <1>3, <1>5, <1>6, <3>2
  <2>. QED  BY <2>1, <2>2
<1>7. ASSUME i = 1, x = e PROVE i \in DOMAIN n /\ n[i] = e
  BY <1>3, <1>5, <1>7
<1>8. ASSUME NEW j \in DOMAIN s, i = j + 1, s[j] = e PROVE i \in DOMAIN n /\ n[i] = e
  BY <1>3, <1>5, <1>8
<1>. QED
  BY <1>6, <1>7, <1>8

\* Place i of row q has task t.
HasPlace(q, i, t) == i \in DOMAIN Row(q) /\ Row(q)[i] = t

LEMMA PlacesIs ==
  ASSUME NEW t
  PROVE  \A p : p \in Places(t) <=>
           \E q \in Slot \cup {NoQueue} : \E i \in DOMAIN Row(q) :
             p = <<q, i>> /\ HasPlace(q, i, t)
BY DEF Places, HasPlace

\* Where a task is, as a row and a place in it.
PlacedAt(v, t, i) ==
  /\ HasPlace(NoQueue, i, t)
       <=> \/ i = 1 /\ v = Running
           \/ v = Waiting /\ \E j \in DOMAIN waiting : i = j + 1 /\ waiting[j] = t
  /\ \A q \in Slot : HasPlace(q, i, t)
       <=> \/ i = 1 /\ v = Reads(q)
           \/ v = Ready(q) /\ \E j \in DOMAIN queue[q].bg : i = j + 1 /\ queue[q].bg[j] = t

LEMMA RowOf ==
  ASSUME IInv, NEW t \in TaskId, NEW v, IsAt(v, t, Sched, waiting, task, current), NEW i
  PROVE  PlacedAt(v, t, i)
<1>1. /\ Sched.queue = queue /\ Sched \in Scheds /\ current \in TaskId \cup {None}
      /\ waiting \in Seq(TaskId)
  BY Parts DEF Sched
<1>2. PICK X : X = TaskId \cup {None}
  OBVIOUS
<1>3. waiting \in Seq(X) /\ current \in X
  BY <1>1, <1>2
<1>4. HasPlace(NoQueue, i, t)
        <=> \/ i = 1 /\ current = t
            \/ \E j \in DOMAIN waiting : i = j + 1 /\ waiting[j] = t
  <2>1. PICK n : n = <<current>> \o waiting
    OBVIOUS
  <2>2. (i \in DOMAIN n /\ n[i] = t)
          <=> (i = 1 /\ current = t) \/ \E j \in DOMAIN waiting : i = j + 1 /\ waiting[j] = t
    BY <1>3, <2>1, InFront
  <2>3. Row(NoQueue) = n
    BY <2>1 DEF Row
  <2>. QED  BY <2>2, <2>3 DEF HasPlace
<1>5. (\E j \in DOMAIN waiting : waiting[j] = t) <=> t \in ToSet(waiting)
  BY DEF ToSet
<1>6. current = t <=> v = Running
  BY DEF IsAt
<1>7. t \in ToSet(waiting) <=> v = Waiting
  BY DEF IsAt
<1>8. ASSUME NEW q \in Slot
      PROVE  HasPlace(q, i, t)
               <=> \/ i = 1 /\ v = Reads(q)
                   \/ v = Ready(q) /\ \E j \in DOMAIN queue[q].bg : i = j + 1 /\ queue[q].bg[j] = t
  <2>1. queue[q].reading \in TaskId \cup {None} /\ queue[q].bg \in Seq(TaskId)
    BY <1>1, SchedTypes
  <2>2. PICK r, b : r = queue[q].reading /\ b = queue[q].bg
    OBVIOUS
  <2>3. r \in X /\ b \in Seq(X)
    BY <1>2, <2>1, <2>2
  <2>4. PICK n : n = <<r>> \o b
    OBVIOUS
  <2>5. (i \in DOMAIN n /\ n[i] = t)
          <=> (i = 1 /\ r = t) \/ \E j \in DOMAIN b : i = j + 1 /\ b[j] = t
    BY <2>3, <2>4, InFront
  <2>6. Row(q) = n
    BY <2>2, <2>4 DEF Row, NoQueue, Slot
  <2>7. (\E j \in DOMAIN b : b[j] = t) <=> t \in ToSet(b)
    BY DEF ToSet
  <2>8. (r = t <=> v = Reads(q)) /\ (t \in ToSet(b) <=> v = Ready(q))
    BY <1>1, <2>2 DEF IsAt
  <2>. QED  BY <2>2, <2>5, <2>6, <2>7, <2>8 DEF HasPlace
<1>. QED
  BY <1>4, <1>5, <1>6, <1>7, <1>8 DEF PlacedAt

LEMMA OnceIs == ASSUME IInv PROVE TaskOnce
<1>1. /\ Sched.queue = queue /\ Sched \in Scheds
      /\ TInv(Sched, waiting, task, current) /\ Inj(waiting) /\ waiting \in Seq(TaskId)
      /\ \A q \in Slot : Inj(queue[q].bg)
  BY Parts DEF Sched, TInv
<1>. SUFFICES ASSUME NEW t \in TaskId
              PROVE  Cardinality(Places(t)) = IF task[t].kind = None THEN 0 ELSE 1
  BY DEF TaskOnce
<1>2. PICK v : IsAt(v, t, Sched, waiting, task, current)
  BY <1>1, TaskAt
<1>3. ASSUME NEW i
      PROVE  HasPlace(NoQueue, i, t)
               <=> \/ i = 1 /\ v = Running
                   \/ v = Waiting /\ \E j \in DOMAIN waiting : i = j + 1 /\ waiting[j] = t
  <2>1. PlacedAt(v, t, i)
    BY <1>2, RowOf
  <2>. QED  BY <2>1 DEF PlacedAt
<1>4. ASSUME NEW q \in Slot, NEW i
      PROVE  HasPlace(q, i, t)
               <=> \/ i = 1 /\ v = Reads(q)
                   \/ v = Ready(q) /\ \E j \in DOMAIN queue[q].bg : i = j + 1 /\ queue[q].bg[j] = t
  <2>1. PlacedAt(v, t, i)
    BY <1>2, RowOf
  <2>. QED  BY <2>1 DEF PlacedAt
<1>5. ASSUME NEW r \in Slot \cup {NoQueue}, NEW k, HasPlace(r, k, t),
             \A q \in Slot \cup {NoQueue} : \A i : HasPlace(q, i, t) => q = r /\ i = k
      PROVE  Cardinality(Places(t)) = 1
  <2>1. k \in DOMAIN Row(r)
    BY <1>5 DEF HasPlace
  <2>2. \A p : p \in Places(t) <=> p = <<r, k>>
    BY <1>5, <2>1, PlacesIs
  <2>3. Places(t) = {<<r, k>>}
    BY <2>2
  <2>. QED  BY <2>3, FS_Singleton
<1>6. task[t].kind = None <=> v = Gone0
  BY <1>2 DEF IsAt
<1>7. NoQueue \notin Slot
  BY DEF NoQueue, Slot
<1>8. CASE v = Gone0
  <2>1. v # Running /\ v # Waiting /\ \A q : v # Reads(q) /\ v # Ready(q)
    BY <1>8 DEF Gone0, Running, Waiting, Reads, Ready
  <2>2. \A q \in Slot \cup {NoQueue} : \A i : ~HasPlace(q, i, t)
    BY <1>3, <1>4, <2>1
  <2>3. Places(t) = {}
    BY <2>2, PlacesIs
  <2>. QED  BY <1>6, <1>8, <2>3, FS_EmptySet
<1>9. CASE v = Running
  <2>1. v # Gone0 /\ v # Waiting /\ \A q : v # Reads(q) /\ v # Ready(q)
    BY <1>9 DEF Gone0, Running, Waiting, Reads, Ready
  <2>2. HasPlace(NoQueue, 1, t) /\ \A q \in Slot \cup {NoQueue} : \A i :
          HasPlace(q, i, t) => q = NoQueue /\ i = 1
    BY <1>3, <1>4, <1>9, <2>1
  <2>. QED  BY <1>5, <1>6, <2>1, <2>2
<1>10. CASE v = Waiting
  <2>1. v # Gone0 /\ v # Running /\ \A q : v # Reads(q) /\ v # Ready(q)
    BY <1>10 DEF Gone0, Running, Waiting, Reads, Ready
  <2>2. PICK j \in DOMAIN waiting : waiting[j] = t
    BY <1>2, <1>10 DEF IsAt, ToSet
  <2>3. PICK k : k = j + 1
    OBVIOUS
  <2>4. HasPlace(NoQueue, k, t)
    BY <1>3, <1>10, <2>2, <2>3
  <2>5. \A i \in DOMAIN waiting : waiting[i] = t => i = j
    BY <1>1, <2>2 DEF Inj
  <2>6. \A q \in Slot \cup {NoQueue} : \A i : HasPlace(q, i, t) => q = NoQueue /\ i = k
    BY <1>3, <1>4, <2>1, <2>3, <2>5
  <2>. QED  BY <1>5, <1>6, <2>1, <2>4, <2>6
<1>11. ASSUME NEW r \in Slot, v = Reads(r)
       PROVE  Cardinality(Places(t)) = IF task[t].kind = None THEN 0 ELSE 1
  <2>1. /\ v # Gone0 /\ v # Running /\ v # Waiting
        /\ \A q : v # Ready(q) /\ (v = Reads(q) => q = r)
    BY <1>11 DEF Gone0, Running, Waiting, Reads, Ready
  <2>2. HasPlace(r, 1, t) /\ \A q \in Slot \cup {NoQueue} : \A i :
          HasPlace(q, i, t) => q = r /\ i = 1
    BY <1>3, <1>4, <1>11, <2>1
  <2>. QED  BY <1>5, <1>6, <2>1, <2>2
<1>12. ASSUME NEW r \in Slot, v = Ready(r)
       PROVE  Cardinality(Places(t)) = IF task[t].kind = None THEN 0 ELSE 1
  <2>1. /\ v # Gone0 /\ v # Running /\ v # Waiting
        /\ \A q : v # Reads(q) /\ (v = Ready(q) => q = r)
    BY <1>12 DEF Gone0, Running, Waiting, Reads, Ready
  <2>2. PICK j \in DOMAIN queue[r].bg : queue[r].bg[j] = t
    BY <1>1, <1>2, <1>12 DEF IsAt, ToSet
  <2>3. PICK k : k = j + 1
    OBVIOUS
  <2>4. HasPlace(r, k, t)
    BY <1>4, <1>12, <2>2, <2>3
  <2>5. \A i \in DOMAIN queue[r].bg : queue[r].bg[i] = t => i = j
    BY <1>1, <2>2 DEF Inj
  <2>6. \A q \in Slot \cup {NoQueue} : \A i : HasPlace(q, i, t) => q = r /\ i = k
    BY <1>3, <1>4, <2>1, <2>3, <2>5
  <2>. QED  BY <1>5, <1>6, <2>1, <2>4, <2>6
<1>. QED
  BY <1>2, <1>8, <1>9, <1>10, <1>11, <1>12 DEF IsAt

\* No task is lost and none is in two lists, whatever moves tasks between the
\* lists of tasks.c: fork, suspend(), read(), kill_task(), resume(), logins,
\* and the freeing of queues.
THEOREM NoTaskIsLost == Spec => []TaskOnce
<1>1. IInv => TaskOnce
  BY OnceIs
<1>. QED
  BY <1>1, Consistent, PTL

-----------------------------------------------------------------------------
(* The order of the waiting tasks                                          *)

\* The list is left alone, and no task changes but one that is not on it.
Steady ==
  /\ waiting' = waiting
  /\ \E t : t \notin ToSet(waiting) /\ \A u \in TaskId : u # t => task'[u] = task[u]

LEMMA SteadyKeeps ==
  ASSUME waiting \in Seq(TaskId), Steady, InOrderOf(waiting, task)
  PROVE  InOrderOf(waiting', task')
<1>1. \A i \in DOMAIN waiting : waiting[i] \in TaskId /\ task'[waiting[i]] = task[waiting[i]]
  BY DEF Steady, ToSet
<1>. QED
  BY <1>1 DEF Steady, InOrderOf

\* A task that has ended, runs, reads or is ready is not on the list.
LEMMA NotOnList ==
  ASSUME IInv, NEW t \in TaskId,
         \/ task[t].kind = None
         \/ current = t
         \/ \E q \in Slot : queue[q].reading = t \/ t \in ToSet(queue[q].bg)
  PROVE  t \notin ToSet(waiting)
<1>1. TInv(Sched, waiting, task, current) /\ Sched.queue = queue
  BY Parts DEF Sched
<1>2. PICK v : IsAt(v, t, Sched, waiting, task, current)
  BY <1>1, TaskAt
<1>. QED
  BY <1>1, <1>2 DEF IsAt, Gone0, Running, Waiting, Reads, Ready

LEMMA OneTaskSteady ==
  ASSUME IInv, NEW t, t \notin ToSet(waiting), NEW r, task' = [task EXCEPT ![t] = r],
         UNCHANGED waiting
  PROVE  Steady
<1>1. \A u \in TaskId : u # t => task'[u] = task[u]
  BY Parts
<1>. QED
  BY <1>1 DEF Steady

LEMMA SameSteady ==
  ASSUME IInv, UNCHANGED <<waiting, task>>
  PROVE  Steady
<1>1. None \notin ToSet(waiting)
  BY Parts, NumbersAssumption DEF ToSet
<1>. QED
  BY <1>1 DEF Steady

LEMMA StartSteady ==
  ASSUME IInv, NEW place, StartCode(place), UNCHANGED waiting
  PROVE  Steady
<1>1. PICK t \in Fresh, p \in Player : task' = [task EXCEPT ![t] = Vm(p)]
  BY DEF StartCode
<1>2. t \notin ToSet(waiting)
  BY NotOnList DEF Fresh
<1>. QED
  BY <1>1, <1>2, OneTaskSteady

LEMMA ResumeSteady ==
  ASSUME IInv, NEW t \in TaskId, ResumeCode(t), UNCHANGED waiting,
         \E q \in Slot : queue[q].reading = t \/ t \in ToSet(queue[q].bg)
  PROVE  Steady
<1>1. t \notin ToSet(waiting)
  BY NotOnList
<1>. QED
  BY <1>1, OneTaskSteady DEF ResumeCode

LEMMA RunSteady ==
  ASSUME IInv, RunFirst
  PROVE  Steady
<1>1. active # <<>> /\ UNCHANGED waiting
  BY DEF RunFirst
<1>2. PICK q \in Slot : q = First
  <2>1. QInv(Sched) /\ Sched.active = active
    BY Parts DEF Sched
  <2>. QED  BY <1>1, <2>1, ActiveInUse DEF First
<1>3. queue[q].reading \in TaskId \cup {None} /\ queue[q].bg \in Seq(TaskId)
  <2>1. Sched \in Scheds /\ Sched.queue = queue
    BY Parts DEF Sched
  <2>. QED  BY <2>1, SchedTypes
<1>4. ASSUME queue[First].reading # None, ResumeCode(queue[First].reading)
      PROVE  Steady
  <2>1. PICK t : t = queue[q].reading
    OBVIOUS
  <2>2. t \in TaskId /\ ResumeCode(t)
    BY <1>2, <1>3, <1>4, <2>1
  <2>. QED  BY <1>1, <2>1, <2>2, ResumeSteady
<1>5. CASE ReadFails
  BY <1>4, <1>5 DEF ReadFails
<1>6. CASE RunLine
  <2>1. \/ queue[First].reading # None /\ ResumeCode(queue[First].reading)
        \/ \E place : StartCode(place)
        \/ UNCHANGED task
    BY <1>6 DEF RunLine
  <2>. QED  BY <1>1, <1>4, <2>1, StartSteady, SameSteady
<1>7. CASE RunBackground
  <2>1. PICK b, t : b = queue[q].bg /\ t = Head(queue[q].bg)
    OBVIOUS
  <2>2. b # <<>> /\ ResumeCode(t) /\ b \in Seq(TaskId)
    BY <1>2, <1>3, <1>7, <2>1 DEF RunBackground
  <2>3. t \in TaskId /\ t \in ToSet(b)
    BY <2>1, <2>2 DEF ToSet
  <2>. QED  BY <1>1, <2>1, <2>2, <2>3, ResumeSteady
<1>8. CASE NothingToRun
  BY <1>1, <1>8, SameSteady DEF NothingToRun
<1>. QED
  BY <1>5, <1>6, <1>7, <1>8 DEF RunFirst

LEMMA MainLoopOrder ==
  ASSUME IInv, MainLoop, ~WakeTasks
  PROVE  Steady
<1>1. CASE server_closed \/ NoneActive \/ NoLogin \/ Left \/ NextIteration
  BY <1>1, SameSteady DEF server_closed, NoneActive, NoLogin, Left, NextIteration
<1>2. CASE \E seconds \in 0..MaxUsage : TaskDone(seconds)
  BY <1>2, SameSteady DEF TaskDone
<1>3. CASE CommandVerb
  BY <1>3, StartSteady, SameSteady DEF CommandVerb
<1>4. CASE Redirected
  BY <1>4, StartSteady DEF Redirected
<1>5. ASSUME NEW p \in Player, Login(p) PROVE Steady
  <2>1. UNCHANGED waiting /\ \E place : StartCode(place)
    BY <1>5 DEF Login
  <2>. QED  BY <2>1, StartSteady
<1>6. ASSUME NEW c \in Conn, Cleanup(c) PROVE Steady
  <2>1. UNCHANGED waiting /\ ((\E place : StartCode(place)) \/ UNCHANGED task)
    BY <1>6 DEF Cleanup
  <2>. QED  BY <2>1, StartSteady, SameSteady
<1>. QED
  BY <1>1, <1>2, <1>3, <1>4, <1>5, <1>6, RunSteady DEF MainLoop

LEMMA NetworkSteady ==
  ASSUME IInv, Network
  PROVE  Steady
<1>1. ASSUME NEW c \in Conn, server_new_connection(c) PROVE Steady
  BY <1>1, SameSteady DEF server_new_connection
<1>2. ASSUME NEW c \in Conn, server_receive_line(c) PROVE Steady
  BY <1>2, SameSteady DEF server_receive_line
<1>3. ASSUME NEW c \in Conn, server_close(c) PROVE Steady
  BY <1>3, StartSteady DEF server_close
<1>. QED
  BY <1>1, <1>2, <1>3 DEF Network

\* The front of the list is taken off.
LEMMA WakeOrder ==
  ASSUME IInv, InOrderOf(waiting, task), WakeTasks
  PROVE  InOrderOf(waiting', task')
<1>1. PICK d \in Nat : d = Due /\ d <= Len(waiting)
  BY DueIs, Parts
<1>2. PICK s, n : s = waiting /\ n = waiting'
  OBVIOUS
<1>3. PICK l \in Nat : l = Len(s) /\ DOMAIN s = 1..l /\ d <= l /\ s \in Seq(TaskId)
  <2>1. s \in Seq(TaskId)
    BY <1>2, Parts
  <2>. QED  BY <1>1, <1>2, <2>1
<1>4. PICK m \in Nat : m = d + 1
  OBVIOUS
<1>5. n = SubSeq(s, m, l) /\ UNCHANGED task
  BY <1>1, <1>2, <1>3, <1>4 DEF WakeTasks
<1>6. n \in Seq(TaskId) /\ Len(n) = l - d /\ \A j \in 1..(l - d) : n[j] = s[j + d]
  <2>1. CASE m <= l
    BY <1>3, <1>4, <1>5, <2>1
  <2>2. CASE m > l
    BY <1>3, <1>4, <1>5, <2>2
  <2>. QED  BY <2>1, <2>2
<1>7. ASSUME NEW i \in DOMAIN n, NEW j \in DOMAIN n, i < j
      PROVE  task[n[i]].delay <= task[n[j]].delay
  <2>1. i \in 1..(l - d) /\ j \in 1..(l - d)
    BY <1>6
  <2>2. i + d \in 1..l /\ j + d \in 1..l /\ i + d < j + d
    BY <1>7, <2>1
  <2>3. task[s[i + d]].delay <= task[s[j + d]].delay
    BY <1>2, <1>3, <2>2 DEF InOrderOf
  <2>. QED  BY <1>6, <2>1, <2>3
<1>. QED
  BY <1>2, <1>5, <1>7 DEF InOrderOf

\* One task is taken off.
LEMMA TakeOrder ==
  ASSUME IInv, InOrderOf(waiting, task), NEW t \in TaskId, TakeFromWaiting(t),
         \A u \in TaskId : u # t => task'[u] = task[u]
  PROVE  InOrderOf(waiting', task')
<1>1. PICK i \in DOMAIN waiting : waiting[i] = t /\ waiting' = RemoveAt(waiting, i)
  BY DEF TakeFromWaiting
<1>2. PICK s, n : s = waiting /\ n = waiting'
  OBVIOUS
<1>3. s \in Seq(TaskId) /\ Inj(s)
  BY <1>2, Parts DEF TInv
<1>4. PICK l \in Nat : l = Len(s) /\ DOMAIN s = 1..l
  BY <1>3
<1>5. i \in 1..l /\ n = RemoveAt(s, i)
  BY <1>1, <1>2, <1>4
<1>6. n \in Seq(TaskId) /\ Len(n) = l - 1
      /\ \A j \in 1..(l - 1) : n[j] = IF j < i THEN s[j] ELSE s[j + 1]
  BY <1>3, <1>4, <1>5, RemoveAtIs
<1>7. PICK at : at = [j \in 1..(l - 1) |-> IF j < i THEN j ELSE j + 1]
  OBVIOUS
<1>8. /\ \A j \in 1..(l - 1) : at[j] \in 1..l /\ at[j] # i /\ n[j] = s[at[j]]
      /\ \A j, k \in 1..(l - 1) : j < k => at[j] < at[k]
  BY <1>5, <1>6, <1>7
<1>9. DOMAIN n = 1..(l - 1)
  BY <1>5, <1>6
<1>10. \A j \in 1..l : j # i => s[j] \in TaskId /\ task'[s[j]] = task[s[j]]
  BY <1>1, <1>2, <1>3, <1>4 DEF Inj
<1>11. \A j, k \in 1..l : j < k => task[s[j]].delay <= task[s[k]].delay
  BY <1>2, <1>4 DEF InOrderOf
<1>12. ASSUME NEW j \in DOMAIN n, NEW k \in DOMAIN n, j < k
       PROVE  task'[n[j]].delay <= task'[n[k]].delay
  <2>1. at[j] \in 1..l /\ at[k] \in 1..l /\ at[j] < at[k] /\ at[j] # i /\ at[k] # i
    BY <1>8, <1>9, <1>12
  <2>2. task[s[at[j]]].delay <= task[s[at[k]]].delay
    BY <1>11, <2>1
  <2>. QED  BY <1>8, <1>9, <1>10, <2>1, <2>2
<1>. QED
  BY <1>2, <1>12 DEF InOrderOf

LEMMA KillOrder ==
  ASSUME IInv, InOrderOf(waiting, task), NEW t \in TaskId, kill_task(t)
  PROVE  InOrderOf(waiting', task')
<1>1. task' = [task EXCEPT ![t] = NoTask] /\ \A u \in TaskId : u # t => task'[u] = task[u]
  BY Parts DEF kill_task
<1>2. CASE KillWaiting(t)
  BY <1>1, <1>2, TakeOrder DEF KillWaiting
<1>3. CASE KillReading(t) \/ KillReady(t)
  <2>1. UNCHANGED waiting
    BY <1>3 DEF KillReading, KillReady
  <2>2. \E q \in Slot : queue[q].reading = t \/ t \in ToSet(queue[q].bg)
    <3>1. CASE KillReading(t)
      BY <3>1 DEF KillReading
    <3>2. CASE KillReady(t)
      <4>1. PICK q \in ToSet(active) : \E i \in DOMAIN queue[q].bg : queue[q].bg[i] = t
        BY <3>2 DEF KillReady
      <4>2. q \in Slot
        <5>1. QInv(Sched) /\ Sched.active = active
          BY Parts DEF Sched
        <5>. QED  BY <4>1, <5>1, ActiveInUse
      <4>. QED  BY <4>1, <4>2 DEF ToSet
    <3>. QED  BY <1>3, <3>1, <3>2
  <2>3. Steady
    BY <1>1, <2>1, <2>2, NotOnList, OneTaskSteady
  <2>. QED  BY <2>3, Parts, SteadyKeeps
<1>. QED
  BY <1>2, <1>3 DEF kill_task

LEMMA ResumeOrder ==
  ASSUME IInv, InOrderOf(waiting, task), NEW t \in TaskId, resume(t)
  PROVE  InOrderOf(waiting', task')
<1>1. TakeFromWaiting(t) /\ task' = [task EXCEPT ![t].delay = 0]
  BY DEF resume
<1>2. \A u \in TaskId : u # t => task'[u] = task[u]
  BY <1>1, Parts
<1>. QED
  BY <1>1, <1>2, TakeOrder

LEMMA ForkOrder ==
  ASSUME IInv, InOrderOf(waiting, task), NEW delay \in Delay, Fork(delay)
  PROVE  InOrderOf(waiting', task')
<1>1. PICK o : o = progr
  OBVIOUS
<1>2. PICK t \in Fresh :
        /\ task' = [task EXCEPT ![t] =
                      [kind |-> "TASK_FORKED", progr |-> o, delay |-> delay]]
        /\ waiting' = PlaceInWaiting(t, delay)
  BY <1>1 DEF Fork
<1>3. t \in TaskId /\ delay \in Nat /\ o \in Owner /\ t \notin ToSet(waiting)
  BY <1>1, CurrentIs, NotOnList, TasksAssumption DEF Fork, Calls, Fresh
<1>4. PICK r : r = [kind |-> "TASK_FORKED", progr |-> o, delay |-> delay]
  OBVIOUS
<1>5. r \in TaskRecord /\ r.delay = delay
  BY <1>3, <1>4 DEF TaskRecord, None
<1>6. PICK w2, tk2 : w2 = waiting' /\ tk2 = task'
  OBVIOUS
<1>7. /\ tk2 \in [TaskId -> TaskRecord] /\ tk2[t].delay = delay
      /\ \A u \in TaskId : u # t => tk2[u] = task[u]
      /\ w2 = PlaceInWaiting(t, delay)
  BY <1>2, <1>3, <1>4, <1>5, <1>6, Parts
<1>8. InOrderOf(w2, tk2)
  BY <1>3, <1>7, Placed
<1>. QED
  BY <1>6, <1>8

LEMMA SuspendOrder ==
  ASSUME IInv, InOrderOf(waiting, task), NEW delay \in Delay, suspend(delay)
  PROVE  InOrderOf(waiting', task')
<1>1. PICK t : t = current
  OBVIOUS
<1>2. /\ t # None /\ task' = [task EXCEPT ![t].delay = delay]
      /\ waiting' = PlaceInWaiting(t, delay)
  BY <1>1 DEF suspend, Calls
<1>3. t \in TaskId /\ delay \in Nat /\ task[t] \in TaskRecord /\ task \in [TaskId -> TaskRecord]
  BY <1>1, <1>2, CurrentIs, TasksAssumption, Parts
<1>9. t \notin ToSet(waiting)
  BY <1>1, <1>3, NotOnList
<1>4. PICK r : r = [task[t] EXCEPT !.delay = delay]
  OBVIOUS
<1>5. r \in TaskRecord /\ r.delay = delay
  BY <1>3, <1>4 DEF TaskRecord
<1>6. PICK w2, tk2 : w2 = waiting' /\ tk2 = task'
  OBVIOUS
<1>7. /\ tk2 \in [TaskId -> TaskRecord] /\ tk2[t].delay = delay
      /\ \A u \in TaskId : u # t => tk2[u] = task[u]
      /\ w2 = PlaceInWaiting(t, delay)
  BY <1>2, <1>3, <1>4, <1>5, <1>6
<1>8. InOrderOf(w2, tk2)
  BY <1>3, <1>7, <1>9, Placed
<1>. QED
  BY <1>6, <1>8

\* All that wait have a second less to wait, or none.
LEMMA TickOrder ==
  ASSUME IInv, InOrderOf(waiting, task), Tick
  PROVE  InOrderOf(waiting', task')
<1>1. /\ task' = [t \in TaskId |->
           IF task[t].delay > 0 THEN [task[t] EXCEPT !.delay = @ - 1] ELSE task[t]]
      /\ waiting' = waiting
  BY DEF Tick
<1>2. ASSUME NEW t \in TaskId
      PROVE  /\ task[t].delay \in Nat
             /\ task'[t].delay = IF task[t].delay > 0 THEN task[t].delay - 1 ELSE task[t].delay
  <2>1. task[t] \in TaskRecord
    BY Parts
  <2>2. task'[t] = IF task[t].delay > 0 THEN [task[t] EXCEPT !.delay = @ - 1] ELSE task[t]
    BY <1>1
  <2>. QED  BY <2>1, <2>2 DEF TaskRecord
<1>3. \A i \in DOMAIN waiting : waiting[i] \in TaskId
  BY Parts
<1>4. ASSUME NEW i \in DOMAIN waiting, NEW j \in DOMAIN waiting, i < j
      PROVE  task'[waiting[i]].delay <= task'[waiting[j]].delay
  <2>1. PICK t \in TaskId, u \in TaskId : t = waiting[i] /\ u = waiting[j]
    BY <1>3
  <2>2. task[t].delay <= task[u].delay
    BY <1>4, <2>1 DEF InOrderOf
  <2>. QED  BY <1>2, <2>1, <2>2
<1>. QED
  BY <1>1, <1>4 DEF InOrderOf

LEMMA CodeOrder ==
  ASSUME IInv, InOrderOf(waiting, task), Code
  PROVE  InOrderOf(waiting', task')
<1>1. ASSUME Steady PROVE InOrderOf(waiting', task')
  BY <1>1, Parts, SteadyKeeps
<1>2. ASSUME current # None, NEW r, task' = [task EXCEPT ![current] = r], UNCHANGED waiting
      PROVE  Steady
  <2>1. current \notin ToSet(waiting)
    BY <1>2, CurrentIs, NotOnList
  <2>. QED  BY <1>2, <2>1, OneTaskSteady
<1>3. CASE EndCode
  BY <1>1, <1>2, <1>3 DEF EndCode
<1>4. ASSUME current # None, NEW o, task' = [task EXCEPT ![current].progr = o], UNCHANGED waiting
      PROVE  Steady
  <2>1. task' = [task EXCEPT ![current] = [task[current] EXCEPT !.progr = o]]
    BY <1>4, Parts
  <2>. QED  BY <1>2, <1>4, <2>1
<1>5. ASSUME NEW p \in Player, CallVerb(p) \/ recycle(p) PROVE InOrderOf(waiting', task')
  BY <1>1, <1>4, <1>5, SameSteady DEF CallVerb, recycle, Calls
<1>6. ASSUME NEW o \in PermsTarget, set_task_perms(o) PROVE InOrderOf(waiting', task')
  BY <1>1, <1>4, <1>6 DEF set_task_perms, Calls
<1>7. ASSUME NEW o \in Owner, read(o) \/ read_input_now(o) \/ bf_flush_input(o)
      PROVE  InOrderOf(waiting', task')
  BY <1>1, <1>7, SameSteady DEF read, read_input_now, bf_flush_input
<1>8. ASSUME NEW o \in Owner, NEW line \in Line, NEW at_front \in BOOLEAN,
             force_input(o, line, at_front)
      PROVE  InOrderOf(waiting', task')
  BY <1>1, <1>8, SameSteady DEF force_input
<1>9. ASSUME NEW c \in Conn, boot_player(c) \/ open_network_connection(c)
      PROVE  InOrderOf(waiting', task')
  BY <1>1, <1>9, SameSteady DEF boot_player, open_network_connection
<1>10. ASSUME NEW c \in Conn, NEW value \in BOOLEAN, set_connection_option(c, value)
       PROVE  InOrderOf(waiting', task')
  BY <1>1, <1>10, SameSteady DEF set_connection_option
<1>. QED
  BY <1>3, <1>5, <1>6, <1>7, <1>8, <1>9, <1>10, ForkOrder, SuspendOrder, KillOrder, ResumeOrder
     DEF Code

LEMMA OrderStep ==
  ASSUME IInv, InOrderOf(waiting, task), [Next]_vars
  PROVE  InOrderOf(waiting', task')
<1>1. ASSUME Steady PROVE InOrderOf(waiting', task')
  BY <1>1, Parts, SteadyKeeps
<1>2. CASE MainLoop
  BY <1>1, <1>2, MainLoopOrder, WakeOrder
<1>3. CASE Network
  BY <1>1, <1>3, NetworkSteady
<1>4. CASE UNCHANGED vars
  BY <1>1, <1>4, SameSteady DEF vars
<1>. QED
  BY <1>2, <1>3, <1>4, CodeOrder, TickOrder DEF Next

LEMMA InOrderIs ==
  ASSUME IInv, InOrderOf(waiting, task)
  PROVE  InOrder
<1>1. Sched.active = active /\ Sched.queue = queue /\ Sorted(Sched) /\ Counted(Sched)
  BY Parts DEF QInv, Sched
<1>2. ASSUME NEW i \in DOMAIN active, NEW j \in DOMAIN active, i < j
      PROVE  active[i] # active[j] /\ queue[active[i]].usage <= queue[active[j]].usage
  <2>1. i # j
    <3>1. active \in Seq(Slot)
      BY <1>1, Parts, SchedTypes
    <3>. QED  BY <1>2, <3>1
  <2>. QED  BY <1>1, <1>2, <2>1 DEF Sorted, Inj
<1>. QED
  BY <1>1, <1>2 DEF InOrder, InOrderOf, Counted

\* run_ready_tasks() may look at the heads of the two lists only, since
\* activate_tqueue() and enqueue_waiting() keep them in order, through logins,
\* kills, resumptions and the passing of time.
THEOREM ListsStayInOrder == Spec => []InOrder
<1>1. Init => InOrderOf(waiting, task)
  BY DEF Init, InOrderOf
<1>2. IInv /\ InOrderOf(waiting, task) /\ [Next]_vars => InOrderOf(waiting, task)'
  <2>. SUFFICES ASSUME IInv, InOrderOf(waiting, task), [Next]_vars
                PROVE  InOrderOf(waiting', task')
    BY DEF InOrderOf
  <2>. QED  BY OrderStep
<1>3. IInv /\ InOrderOf(waiting, task) => InOrder
  BY InOrderIs
<1>. QED
  BY <1>1, <1>2, <1>3, Consistent, PTL DEF Spec

-----------------------------------------------------------------------------
(* The queue of the running task                                           *)

LEMMA QuietHead ==
  ASSUME NEW S, S.active = Sched.active, NEW T, Quiet(S, T), Becomes(T)
  PROVE  HeadKept
<1>1. Leads(Sched, T)
  BY DEF Quiet, Leads
<1>. QED
  BY <1>1, LeadsIs

LEMMA CreateHead ==
  ASSUME IInv, NEW o \in Owner, HasRoomFor(Sched, o), NEW S, S = create_tqueue(Sched, o)
  PROVE  S.active = Sched.active /\ S \in Scheds
<1>1. Sched \in Scheds
  BY Parts
<1>2. PICK q : q = find_tqueue(S, o)
  OBVIOUS
<1>3. Opened(Sched, S, o, q)
  BY <1>1, <1>2, Create
<1>. QED
  BY <1>3 DEF Opened

LEMMA InputHead ==
  ASSUME IInv, NEW o \in Owner, read_input_now(o) \/ bf_flush_input(o)
  PROVE  HeadKept
<1>1. CASE read_input_now(o)
  <2>1. PICK q : q = find_tqueue(Sched, o)
    OBVIOUS
  <2>2. /\ q # NoQueue /\ LineAt(Sched, q, "DQ_INBAND") # 0
        /\ Becomes(dequeue_input_task(Sched, q, "DQ_INBAND"))
    BY <1>1, <2>1 DEF read_input_now
  <2>3. q \in Slot /\ Sched.queue[q].player # None /\ QInv(Sched)
    BY <2>1, <2>2, Find, NumbersAssumption, Parts
  <2>. QED  BY <2>2, <2>3, DequeueQuiet, QuietHead
<1>2. CASE bf_flush_input(o)
  <2>1. PICK S : S = create_tqueue(Sched, o)
    OBVIOUS
  <2>2. PICK q : q = find_tqueue(S, o)
    OBVIOUS
  <2>3. HasRoomFor(Sched, o) /\ Becomes(flush_input(S, q))
    BY <1>2, <2>1, <2>2 DEF bf_flush_input
  <2>4. QInv(S) /\ q \in Slot /\ S.queue[q].player # None
    BY <2>1, <2>2, <2>3, CreateAll DEF All
  <2>5. Quiet(S, flush_input(S, q))
    BY <2>4, FlushQuiet
  <2>. QED  BY <2>1, <2>3, <2>5, CreateHead, QuietHead
<1>. QED
  BY <1>1, <1>2

LEMMA ForceHead ==
  ASSUME IInv, NEW o \in Owner, NEW line \in Line, NEW at_front \in BOOLEAN,
         force_input(o, line, at_front)
  PROVE  HeadKept
<1>1. PICK S : S = create_tqueue(Sched, o)
  OBVIOUS
<1>2. PICK q : q = find_tqueue(S, o)
  OBVIOUS
<1>3. HasRoomFor(Sched, o) /\ Becomes(enqueue_input_task(S, q, line, at_front))
  BY <1>1, <1>2 DEF force_input
<1>4. QInv(S) /\ q \in Slot /\ S.queue[q].player # None
  BY <1>1, <1>2, <1>3, CreateAll DEF All
<1>5. Quiet(S, enqueue_input_task(S, q, line, at_front))
  BY <1>4, EnqueueQuiet
<1>. QED
  BY <1>1, <1>3, <1>5, CreateHead, QuietHead

LEMMA OptionHead ==
  ASSUME IInv, NEW c \in Conn, NEW value \in BOOLEAN, set_connection_option(c, value)
  PROVE  HeadKept
<1>1. PICK q : q = shandle[c].tasks
  OBVIOUS
<1>2. /\ c \in Open
      /\ \/ Becomes(set_hold_input(Sched, q, value))
         \/ Becomes(set_disable_oob(Sched, q, value))
  BY <1>1 DEF set_connection_option
<1>3. q \in Slot /\ Sched.queue[q].player # None /\ QInv(Sched)
  BY <1>1, <1>2, OpenInUse, Parts
<1>. QED
  BY <1>2, <1>3, OptionQuiet, QuietHead

\* fork and suspend()
LEMMA CountHead ==
  ASSUME IInv, NEW o \in Owner, HasRoomFor(Sched, o), Becomes(CountWaiting(Sched, o))
  PROVE  HeadKept
<1>1. PICK S, T : S = create_tqueue(Sched, o) /\ T = CountWaiting(Sched, o)
  OBVIOUS
<1>2. S.active = Sched.active /\ S \in Scheds
  BY <1>1, CreateHead
<1>3. T.active = S.active
  BY <1>1, <1>2 DEF CountWaiting, Scheds
<1>4. Leads(Sched, T)
  BY <1>2, <1>3 DEF Leads
<1>. QED
  BY <1>1, <1>4, LeadsIs

LEMMA ReadHead ==
  ASSUME IInv, NEW o \in Owner, read(o)
  PROVE  HeadKept
<1>1. PICK q, t : q = find_tqueue(Sched, o) /\ t = current
  OBVIOUS
<1>2. PICK S : S = WithReading(Sched, q, t)
  OBVIOUS
<1>3. PICK T : T = IF queue[q].input # <<>> THEN ensure_usage(S, q) ELSE S
  OBVIOUS
<1>4. t # None /\ q # NoQueue /\ Becomes(T)
  BY <1>1, <1>2, <1>3 DEF read, Calls, WithReading
<1>5. q \in Slot /\ t \in TaskId \cup {None} /\ Sched \in Scheds
  BY <1>1, <1>4, Find, CurrentIs, Parts
<1>6. S \in Scheds /\ S.active = Sched.active
  BY <1>2, <1>5, ReadingIs DEF Retasked
<1>7. T \in {S, ensure_usage(S, q)}
  BY <1>3
<1>8. Leads(S, T)
  BY <1>5, <1>6, <1>7, Ensure DEF Joined, Leads
<1>9. Leads(Sched, T)
  BY <1>6, <1>8 DEF Leads
<1>. QED
  BY <1>4, <1>9, LeadsIs

LEMMA ResumeHead ==
  ASSUME IInv, NEW t \in TaskId, resume(t)
  PROVE  HeadKept
<1>1. PICK T : T = MakeReady(Sched, t)
  OBVIOUS
<1>2. Becomes(T) /\ t \in ToSet(waiting)
  BY <1>1, TakeFromIs DEF resume
<1>3. PICK o, q : o = task[t].progr /\ q = find_tqueue(Sched, task[t].progr)
  OBVIOUS
<1>4. Sched \in Scheds /\ o \in Owner /\ q \in Slot
  BY <1>2, <1>3, Parts, WaitingIs
<1>5. PICK E : E = ensure_usage(Sched, q)
  OBVIOUS
<1>6. create_tqueue(Sched, o) = Sched
  BY <1>3, <1>4 DEF create_tqueue, NoQueue, Slot
<1>7. T = enqueue_bg_task(E, q, t)
  BY <1>1, <1>3, <1>5, <1>6 DEF MakeReady
<1>8. E \in Scheds /\ Leads(Sched, E)
  BY <1>4, <1>5, Ensure DEF Joined, Leads
<1>9. T.active = E.active
  BY <1>7, <1>8 DEF enqueue_bg_task, Scheds
<1>10. Leads(Sched, T)
  BY <1>8, <1>9 DEF Leads
<1>. QED
  BY <1>1, <1>2, <1>10, LeadsIs

LEMMA CodeHead ==
  ASSUME IInv, Code
  PROVE  HeadKept
<1>1. ASSUME UNCHANGED active PROVE HeadKept
  BY <1>1 DEF HeadKept
<1>2. CASE EndCode
  BY <1>1, <1>2 DEF EndCode
<1>3. ASSUME NEW p \in Player, CallVerb(p) \/ recycle(p) PROVE HeadKept
  BY <1>1, <1>3 DEF CallVerb, recycle
<1>4. ASSUME NEW o \in PermsTarget, set_task_perms(o) PROVE HeadKept
  BY <1>1, <1>4 DEF set_task_perms
<1>5. ASSUME NEW d \in Delay, Fork(d) \/ suspend(d) PROVE HeadKept
  <2>1. PICK o : o = progr
    OBVIOUS
  <2>2. current # None /\ HasRoomFor(Sched, o) /\ Becomes(CountWaiting(Sched, o))
    BY <1>5, <2>1 DEF Fork, suspend, Calls
  <2>3. o \in Owner
    BY <2>1, <2>2, CurrentIs
  <2>. QED  BY <2>2, <2>3, CountHead
<1>6. ASSUME NEW t \in TaskId, kill_task(t) PROVE HeadKept
  BY <1>1, <1>6 DEF kill_task
<1>7. ASSUME NEW c \in Conn, boot_player(c) PROVE HeadKept
  BY <1>1, <1>7 DEF boot_player
<1>8. ASSUME NEW c \in Conn, open_network_connection(c) PROVE HeadKept
  <2>1. PICK t \in BOOLEAN : t = TRUE
    OBVIOUS
  <2>2. PICK greeted \in BOOLEAN : NewShandle(c, t, greeted)
    BY <1>8, <2>1 DEF open_network_connection
  <2>3. UNCHANGED <<waiting, task, current, pc, users>>
    BY <1>8 DEF open_network_connection
  <2>. QED  BY <2>2, <2>3, NewShandleKeeps
<1>. QED
  BY <1>2, <1>3, <1>4, <1>5, <1>6, <1>7, <1>8, ReadHead, InputHead, ForceHead, ResumeHead,
     OptionHead DEF Code

\* The other steps either do not move the list or are not taken while a task
\* of its head is run.
LEMMA HeadStep ==
  ASSUME IInv, [Next]_vars, pc.at \in RunningPlace, pc'.at \in RunningPlace
  PROVE  HeadKept
<1>1. ASSUME UNCHANGED active PROVE HeadKept
  BY <1>1 DEF HeadKept
<1>2. pc.at \notin {"io", "closing", "run", "cleanup", "leaving"} /\ pc'.at # "cleanup"
  BY DEF RunningPlace
<1>3. CASE MainLoop
  <2>1. ~server_closed /\ ~WakeTasks /\ ~RunFirst /\ ~NoneActive /\ ~Left /\ ~NextIteration
    BY <1>2 DEF server_closed, WakeTasks, RunFirst, NoneActive, Left, NextIteration, Idle
  <2>2. ~\E c \in Conn : Cleanup(c)
    BY <1>2 DEF Cleanup, Idle
  <2>3. ~\E seconds \in 0..MaxUsage : TaskDone(seconds)
    <3>. SUFFICES ASSUME NEW seconds, TaskDone(seconds) PROVE FALSE
      OBVIOUS
    <3>1. pc' = At("cleanup", None, Open)
      BY DEF TaskDone
    <3>. QED  BY <1>2, <3>1 DEF At
  <2>4. CASE CommandVerb \/ NoLogin \/ Redirected
    BY <1>1, <2>4 DEF CommandVerb, NoLogin, Redirected
  <2>5. CASE \E p \in Player : Login(p)
    BY <2>5, LoginStep
  <2>. QED  BY <1>3, <2>1, <2>2, <2>3, <2>4, <2>5 DEF MainLoop
<1>4. CASE Network
  BY <1>2, <1>4 DEF Network, server_new_connection, server_receive_line, server_close, Idle
<1>5. CASE Tick \/ UNCHANGED vars
  BY <1>1, <1>5 DEF Tick, vars
<1>. QED
  BY <1>3, <1>4, <1>5, CodeHead DEF Next

\* The queue whose task runs is the first active one until the task is done,
\* although the code activates queues by read(), resume(), force_input(),
\* set_connection_option() and open_network_connection(), and a login takes
\* queues apart: run_ready_tasks() then drops and re-activates the right one.
THEOREM HeadIsKept == Spec => HeadStays
<1>. DEFINE Served == pc.at \in RunningPlace => active # <<>>
<1>1. IInv => Served
  BY RunningActive
<1>2. IInv /\ [Next]_vars => [pc.at \in RunningPlace /\ pc'.at \in RunningPlace => HeadKept]_vars
  BY HeadStep
<1>3. Served /\ Served' /\ [pc.at \in RunningPlace /\ pc'.at \in RunningPlace => HeadKept]_vars
        => [pc.at \in RunningPlace /\ pc'.at \in RunningPlace
              => active # <<>> /\ active' # <<>> /\ Head(active') = Head(active)]_vars
  BY DEF HeadKept
<1>. QED
  BY <1>1, <1>2, <1>3, Consistent, PTL DEF Spec, HeadStays

-----------------------------------------------------------------------------
(* Queues with something to run are active                                 *)

\* The end of a connection.
LEMMA FreeAwake ==
  ASSUME IInv, NEW c \in Conn, IsOpen(shandle, c), free_shandle(c)
  PROVE  AwakeKept
<1>1. PICK q : q = shandle[c].tasks
  OBVIOUS
<1>2. q \in Slot /\ QInv(Sched)
  BY <1>1, Parts DEF HInv
<1>3. Becomes(free_task_queue(Sched, q))
  BY <1>1 DEF free_shandle
<1>. QED
  BY <1>2, <1>3, DisconnectRouses, RousedKeeps

LEMMA ReceiveAwake ==
  ASSUME IInv, NEW c \in Conn, server_receive_line(c)
  PROVE  AwakeKept
<1>1. PICK q : q = shandle[c].tasks
  OBVIOUS
<1>2. q \in Slot /\ QInv(Sched) /\ Sched \in Scheds
  BY <1>1, OpenInUse, Parts DEF server_receive_line
<1>3. PICK f \in BOOLEAN : f = FALSE
  OBVIOUS
<1>4. \/ Becomes(flush_input(Sched, q))
      \/ \E line \in Line : Becomes(enqueue_input_task(Sched, q, line, f))
  BY <1>1, <1>3 DEF server_receive_line
<1>5. CASE Becomes(flush_input(Sched, q))
  BY <1>2, <1>5, FlushRouses, RousedKeeps
<1>6. ASSUME NEW line \in Line, Becomes(enqueue_input_task(Sched, q, line, f)) PROVE AwakeKept
  BY <1>2, <1>6, EnqueueRouses, RousedKeeps
<1>. QED
  BY <1>4, <1>5, <1>6

LEMMA CreateAwake ==
  ASSUME IInv, NEW o \in Owner, HasRoomFor(Sched, o), NEW S, S = create_tqueue(Sched, o),
         NEW q, q = find_tqueue(S, o)
  PROVE  QInv(S) /\ S \in Scheds /\ q \in Slot /\ Roused(Sched, S)
<1>1. QInv(S) /\ S \in Scheds /\ q \in Slot
  BY CreateAll DEF All, QInv
<1>2. Roused(Sched, S)
  BY CreateRouses, Parts
<1>. QED
  BY <1>1, <1>2

LEMMA InputAwake ==
  ASSUME IInv, NEW o \in Owner, read_input_now(o) \/ bf_flush_input(o)
  PROVE  AwakeKept
<1>1. CASE read_input_now(o)
  <2>1. PICK q : q = find_tqueue(Sched, o)
    OBVIOUS
  <2>2. /\ q # NoQueue /\ LineAt(Sched, q, "DQ_INBAND") # 0
        /\ Becomes(dequeue_input_task(Sched, q, "DQ_INBAND"))
    BY <1>1, <2>1 DEF read_input_now
  <2>3. q \in Slot /\ Sched \in Scheds
    BY <2>1, <2>2, Find, Parts
  <2>. QED  BY <2>2, <2>3, DequeueRouses, RousedKeeps
<1>2. CASE bf_flush_input(o)
  <2>1. PICK S : S = create_tqueue(Sched, o)
    OBVIOUS
  <2>2. PICK q : q = find_tqueue(S, o)
    OBVIOUS
  <2>3. PICK T : T = flush_input(S, q)
    OBVIOUS
  <2>4. HasRoomFor(Sched, o) /\ Becomes(T)
    BY <1>2, <2>1, <2>2, <2>3 DEF bf_flush_input
  <2>5. S \in Scheds /\ q \in Slot /\ Roused(Sched, S)
    BY <2>1, <2>2, <2>4, CreateAwake
  <2>6. Roused(Sched, T)
    BY <2>3, <2>5, FlushRouses, RousedTwice
  <2>. QED  BY <2>4, <2>6, RousedKeeps
<1>. QED
  BY <1>1, <1>2

LEMMA ForceAwake ==
  ASSUME IInv, NEW o \in Owner, NEW line \in Line, NEW at_front \in BOOLEAN,
         force_input(o, line, at_front)
  PROVE  AwakeKept
<1>1. PICK S : S = create_tqueue(Sched, o)
  OBVIOUS
<1>2. PICK q : q = find_tqueue(S, o)
  OBVIOUS
<1>3. PICK T : T = enqueue_input_task(S, q, line, at_front)
  OBVIOUS
<1>4. HasRoomFor(Sched, o) /\ Becomes(T)
  BY <1>1, <1>2, <1>3 DEF force_input
<1>5. QInv(S) /\ q \in Slot /\ Roused(Sched, S)
  BY <1>1, <1>2, <1>4, CreateAwake
<1>6. Roused(S, T)
  BY <1>3, <1>5, EnqueueRouses
<1>. QED
  BY <1>4, <1>5, <1>6, RousedTwice, RousedKeeps

LEMMA OptionAwake ==
  ASSUME IInv, NEW c \in Conn, NEW value \in BOOLEAN, set_connection_option(c, value)
  PROVE  AwakeKept
<1>1. PICK q : q = shandle[c].tasks
  OBVIOUS
<1>2. /\ c \in Open
      /\ \/ Becomes(set_hold_input(Sched, q, value))
         \/ Becomes(set_disable_oob(Sched, q, value))
  BY <1>1 DEF set_connection_option
<1>3. q \in Slot /\ QInv(Sched)
  BY <1>1, <1>2, OpenInUse, Parts
<1>. QED
  BY <1>2, <1>3, HoldRouses, OobRouses, RousedKeeps

LEMMA ReadAwake ==
  ASSUME IInv, NEW o \in Owner, read(o)
  PROVE  AwakeKept
<1>1. PICK q, t : q = find_tqueue(Sched, o) /\ t = current
  OBVIOUS
<1>2. PICK S : S = WithReading(Sched, q, t)
  OBVIOUS
<1>3. PICK T : T = IF Sched.queue[q].input # <<>> THEN ensure_usage(S, q) ELSE S
  OBVIOUS
<1>4. Sched.queue = queue
  BY DEF Sched
<1>5. t # None /\ q # NoQueue /\ Becomes(T)
  BY <1>1, <1>2, <1>3, <1>4 DEF read, Calls, WithReading
<1>6. q \in Slot /\ t \in TaskId /\ QInv(Sched)
  BY <1>1, <1>5, Find, CurrentIs, Parts
<1>. QED
  BY <1>2, <1>3, <1>5, <1>6, ReadRouses, RousedKeeps

LEMMA ResumeAwake ==
  ASSUME IInv, NEW t \in TaskId, resume(t)
  PROVE  AwakeKept
<1>1. Becomes(MakeReady(Sched, t)) /\ t \in ToSet(waiting)
  BY TakeFromIs DEF resume
<1>2. PICK q : q = find_tqueue(Sched, task[t].progr)
  OBVIOUS
<1>3. QInv(Sched) /\ q \in Slot
  BY <1>1, <1>2, Parts, WaitingIs
<1>. QED
  BY <1>1, <1>2, <1>3, ReadyRouses, RousedKeeps

\* kill_task() makes no queue active, and gives none anything to run.
LEMMA KillAwake ==
  ASSUME IInv, NEW t \in TaskId, kill_task(t)
  PROVE  AwakeKept
<1>1. /\ Sched \in Scheds /\ Sched.queue = queue /\ Sched.active = active
      /\ queue \in [Slot -> Queue] /\ UNCHANGED active
  BY Parts, SchedTypes DEF kill_task, Sched
<1>2. PICK T : T = [queue |-> queue', active |-> active]
  OBVIOUS
<1>3. T.queue = queue' /\ T.active = active /\ Becomes(T)
  BY <1>1, <1>2 DEF Becomes
<1>4. ASSUME NEW q \in Slot, NEW x, queue' = [queue EXCEPT ![q] = x],
             Runs(x) => Runs(queue[q]) \/ q \in ToSet(active)
      PROVE  AwakeKept
  <2>1. T.queue = [Sched.queue EXCEPT ![q] = x] /\ T.active = Sched.active
    BY <1>1, <1>3, <1>4
  <2>2. Runs(x) => Runs(Sched.queue[q]) \/ q \in ToSet(Sched.active)
    BY <1>1, <1>4
  <2>3. Roused(Sched, T)
    BY <1>1, <2>1, <2>2, SwapRouses
  <2>. QED  BY <1>3, <2>3, RousedKeeps
<1>5. CASE KillWaiting(t)
  <2>1. t \in ToSet(waiting)
    BY <1>5, TakeFromIs DEF KillWaiting
  <2>2. PICK q : q = find_tqueue(Sched, task[t].progr)
    OBVIOUS
  <2>3. q \in Slot
    BY <2>1, <2>2, Parts, WaitingIs
  <2>4. queue' = [queue EXCEPT ![q].num_bg_tasks = @ - 1]
    BY <1>5, <2>2, <2>3 DEF KillWaiting, NoQueue, Slot
  <2>5. PICK m : m = queue[q].num_bg_tasks - 1
    OBVIOUS
  <2>6. PICK x \in Queue : x = queue[q]
    BY <1>1, <2>3
  <2>7. PICK y : y = [x EXCEPT !.num_bg_tasks = m]
    OBVIOUS
  <2>8. queue' = [queue EXCEPT ![q] = y]
    BY <1>1, <2>3, <2>4, <2>5, <2>6, <2>7
  <2>9. /\ y.disable_oob = x.disable_oob /\ y.hold_input = x.hold_input
        /\ y.input = x.input /\ y.reading = x.reading /\ y.bg = x.bg
    BY <2>7 DEF Queue
  <2>10. Runs(y) => Runs(queue[q])
    BY <2>6, <2>9 DEF Runs, HasLine
  <2>. QED  BY <1>4, <2>3, <2>8, <2>10
<1>6. CASE KillReading(t)
  <2>1. PICK q \in Slot : queue' = [queue EXCEPT ![q].reading = None]
    BY <1>6 DEF KillReading
  <2>2. PICK x \in Queue : x = queue[q]
    BY <1>1
  <2>3. PICK y : y = [x EXCEPT !.reading = None]
    OBVIOUS
  <2>4. queue' = [queue EXCEPT ![q] = y]
    BY <1>1, <2>1, <2>2, <2>3
  <2>5. Runs(y) => Runs(queue[q])
    BY <2>2, <2>3, UnreadRests
  <2>. QED  BY <1>4, <2>4, <2>5
<1>7. CASE KillReady(t)
  <2>1. PICK q \in ToSet(active) : \E i \in DOMAIN queue[q].bg :
          queue' = [queue EXCEPT ![q].bg = RemoveAt(@, i), ![q].num_bg_tasks = @ - 1]
    BY <1>7 DEF KillReady
  <2>2. q \in Slot
    BY <1>1, ActiveInUse, Parts
  <2>3. PICK i : queue' = [queue EXCEPT ![q].bg = RemoveAt(@, i), ![q].num_bg_tasks = @ - 1]
    BY <2>1
  <2>4. PICK x : queue' = [queue EXCEPT ![q] = x]
    BY <1>1, <2>2, <2>3
  <2>. QED  BY <1>4, <2>1, <2>2, <2>4
<1>. QED
  BY <1>5, <1>6, <1>7 DEF kill_task

\* A line that run_ready_tasks() would take is one that it finds.
LEMMA HasLineIs ==
  ASSUME NEW S \in Scheds, NEW q \in Slot
  PROVE  LineAt(S, q, RunHow(S, q)) # 0 <=> HasLine(S.queue[q])
<1>1. PICK x \in Queue : x = S.queue[q]
  BY SchedTypes
<1>2. PICK s, d, how : s = x.input /\ d = x.disable_oob /\ how = RunHow(S, q)
  OBVIOUS
<1>3. s \in Seq(Line \cup {Blank}) /\ d \in BOOLEAN
  BY <1>2 DEF Queue
<1>4. PICK I : I = {i \in 1..Len(s) : Wanted(s[i], how, d)}
  OBVIOUS
<1>5. LineAt(S, q, how) = IF I # {} THEN Min(I) ELSE 0
  BY <1>1, <1>2, <1>4 DEF LineAt, DequeueAt, SelectInSeq
<1>6. I # {} => Min(I) # 0
  <2>. SUFFICES ASSUME I # {} PROVE Min(I) # 0
    OBVIOUS
  <2>1. I \subseteq Nat /\ 0 \notin I
    BY <1>3, <1>4
  <2>2. \E i \in I : \A j \in I : i <= j
    BY <2>1, LeastElement
  <2>. QED  BY <2>1, <2>2 DEF Min
<1>7. CASE x.hold_input /\ x.reading = None
  <2>1. how = "DQ_OOB"
    BY <1>1, <1>2, <1>7 DEF RunHow
  <2>2. I # {} <=> ~d /\ \E i \in DOMAIN s : IsOob(s[i])
    BY <1>3, <1>4, <2>1 DEF Wanted, IsOob
  <2>. QED  BY <1>1, <1>2, <1>5, <1>6, <1>7, <2>2 DEF HasLine
<1>8. CASE ~(x.hold_input /\ x.reading = None)
  <2>1. how = "DQ_FIRST"
    BY <1>1, <1>2, <1>8 DEF RunHow
  <2>2. I # {} <=> s # <<>>
    BY <1>3, <1>4, <2>1 DEF Wanted
  <2>. QED  BY <1>1, <1>2, <1>5, <1>6, <1>8, <2>2 DEF HasLine
<1>. QED
  BY <1>7, <1>8

\* What a step does to the queue at the head of the list does no harm.
LEMMA FirstAwake ==
  ASSUME IInv, active # <<>>, NEW T, Becomes(T), T.active = Sched.active,
         \A r \in Slot : r # First => T.queue[r] = Sched.queue[r]
  PROVE  AwakeKept
<1>1. First \in ToSet(Sched.active)
  BY FirstIs, Parts, ActiveInUse
<1>2. Roused(Sched, T)
  BY <1>1, EditRouses
<1>. QED
  BY <1>2, RousedKeeps

\* The usage of queues is no reason to run them.
LEMMA UsageRuns ==
  ASSUME NEW x \in Queue, NEW u \in Int
  PROVE  Runs([x EXCEPT !.usage = u]) <=> Runs(x)
<1>1. PICK y : y = [x EXCEPT !.usage = u]
  OBVIOUS
<1>2. /\ y.disable_oob = x.disable_oob /\ y.hold_input = x.hold_input
      /\ y.input = x.input /\ y.reading = x.reading /\ y.bg = x.bg
  BY <1>1 DEF Queue
<1>. QED
  BY <1>1, <1>2 DEF Runs, HasLine

LEMMA DroppedRuns ==
  ASSUME NEW S \in Scheds, NEW q \in Slot, NEW u \in Int, NEW T, T = Dropped(S, q, u)
  PROVE  \A r \in Slot : Runs(T.queue[r]) <=> Runs(S.queue[r])
<1>1. PICK f \in [Slot -> Queue] : f = S.queue
  BY SchedTypes
<1>2. PICK x \in Queue : x = f[q]
  OBVIOUS
<1>3. PICK y : y = [x EXCEPT !.usage = u]
  OBVIOUS
<1>4. T.queue = [f EXCEPT ![q] = y]
  BY <1>1, <1>2, <1>3 DEF Dropped, WithUsage
<1>5. T.queue[q] = y /\ \A r \in Slot : r # q => T.queue[r] = f[r]
  BY <1>4
<1>6. Runs(y) <=> Runs(x)
  BY <1>3, UsageRuns
<1>. QED
  BY <1>1, <1>2, <1>5, <1>6

LEMMA RebasedRuns ==
  ASSUME NEW S \in Scheds, NEW T, T = Rebased(S)
  PROVE  /\ T \in Scheds /\ T.active = S.active
         /\ \A r \in Slot : Runs(T.queue[r]) <=> Runs(S.queue[r])
<1>1. CASE S.active = <<>>
  BY <1>1 DEF Rebased
<1>2. CASE S.active # <<>>
  <2>1. S.queue \in [Slot -> Queue] /\ Head(S.active) \in Slot
    BY <1>2, SchedTypes
  <2>2. PICK least \in Int : least = S.queue[Head(S.active)].usage
    BY <2>1 DEF Queue
  <2>3. PICK R : R = [q \in Slot |-> IF S.queue[q].usage = NO_USAGE THEN S.queue[q]
                                     ELSE [S.queue[q] EXCEPT !.usage = @ - least]]
    OBVIOUS
  <2>4. T = [S EXCEPT !.queue = R]
    BY <1>2, <2>2, <2>3 DEF Rebased
  <2>5. T.queue = R /\ T.active = S.active /\ (R \in [Slot -> Queue] => T \in Scheds)
    BY <2>4 DEF Scheds
  <2>6. ASSUME NEW r \in Slot PROVE R[r] \in Queue /\ (Runs(R[r]) <=> Runs(S.queue[r]))
    <3>1. PICK x \in Queue : x = S.queue[r]
      BY <2>1
    <3>2. PICK u \in Int : u = x.usage - least
      BY DEF Queue
    <3>3. R[r] \in {x, [x EXCEPT !.usage = u]}
      BY <2>3, <3>1, <3>2
    <3>4. [x EXCEPT !.usage = u] \in Queue
      BY DEF Queue
    <3>. QED  BY <3>1, <3>3, <3>4, UsageRuns
  <2>7. R \in [Slot -> Queue]
    BY <2>3, <2>6
  <2>. QED  BY <2>5, <2>6, <2>7
<1>. QED
  BY <1>1, <1>2

LEMMA FreeUnusedRuns ==
  ASSUME NEW S \in Scheds, NEW T, T = FreeUnused(S)
  PROVE  T.active = S.active /\ \A r \in Slot : Runs(T.queue[r]) => Runs(S.queue[r])
<1>1. PICK R : R = [q \in Slot |-> IF Unneeded(S, q) THEN FreeSlot ELSE S.queue[q]]
  OBVIOUS
<1>2. T = [S EXCEPT !.queue = R]
  BY <1>1 DEF FreeUnused, Unneeded
<1>3. T.queue = R /\ T.active = S.active
  BY <1>2 DEF Scheds
<1>4. \A r \in Slot : R[r] \in {FreeSlot, S.queue[r]}
  BY <1>1
<1>. QED
  BY <1>3, <1>4, FreeRests

LEMMA NoneActiveAwake == ASSUME IInv, NoneActive PROVE AwakeKept
<1>1. PICK T : T = FreeUnused(Sched)
  OBVIOUS
<1>2. Becomes(T)
  BY <1>1 DEF NoneActive
<1>3. Roused(Sched, T)
  BY <1>1, FreeUnusedRuns, Parts DEF Roused
<1>. QED
  BY <1>2, <1>3, RousedKeeps

\* The queue whose task is done is on the list again.
LEMMA TaskDoneAwake ==
  ASSUME IInv, NEW seconds \in 0..MaxUsage, TaskDone(seconds)
  PROVE  AwakeKept
<1>1. pc.at \in RunningPlace
  BY DEF TaskDone, Idle, RunningPlace
<1>2. /\ First \in Slot /\ Sched.queue = queue /\ Sched.active = active /\ Sched.active # <<>>
      /\ Head(Sched.active) = First /\ Sched \in Scheds /\ QInv(Sched)
  BY <1>1, RunningActive, FirstIs, Parts
<1>3. PICK used \in Int : used = queue[First].usage
  BY <1>2, SchedTypes
<1>4. PICK u \in Int : u = used + seconds
  BY <1>3, TasksAssumption
<1>5. PICK S : S = Dropped(Sched, First, u)
  OBVIOUS
<1>6. S = [queue  |-> [queue EXCEPT ![First].usage = @ + seconds], active |-> Tail(active)]
  <2>1. queue \in [Slot -> Queue]
    BY <1>2, SchedTypes
  <2>2. S = [queue |-> [queue EXCEPT ![First].usage = u], active |-> Tail(active)]
    BY <1>2, <1>5 DEF Dropped, WithUsage
  <2>3. [queue EXCEPT ![First].usage = u] = [queue EXCEPT ![First].usage = @ + seconds]
    BY <1>2, <1>3, <1>4, <2>1
  <2>. QED  BY <2>2, <2>3
<1>7. OffList(Sched, S, First, u)
  BY <1>2, <1>4, <1>5, DropFirst
<1>8. S \in Scheds /\ ToSet(S.active) = ToSet(Sched.active) \ {First}
  BY <1>7 DEF OffList
<1>9. PICK A, B, T : A = activate_tqueue(S, First) /\ B = Rebased(A) /\ T = FreeUnused(B)
  OBVIOUS
<1>10. A \in Scheds /\ A.queue = S.queue /\ ToSet(A.active) = ToSet(S.active) \cup {First}
  BY <1>2, <1>8, <1>9, Activate
<1>11. B \in Scheds /\ B.active = A.active /\ T.active = B.active
  BY <1>9, <1>10, RebasedRuns, FreeUnusedRuns
<1>12. ASSUME NEW r \in Slot PROVE Runs(T.queue[r]) => Runs(Sched.queue[r])
  <2>1. Runs(T.queue[r]) => Runs(B.queue[r])
    BY <1>9, <1>11, FreeUnusedRuns
  <2>2. Runs(B.queue[r]) <=> Runs(A.queue[r])
    BY <1>9, <1>10, RebasedRuns
  <2>3. Runs(S.queue[r]) <=> Runs(Sched.queue[r])
    BY <1>2, <1>4, <1>5, DroppedRuns
  <2>. QED  BY <1>10, <2>1, <2>2, <2>3
<1>13. Becomes(T)
  BY <1>6, <1>9 DEF TaskDone
<1>14. Roused(Sched, T)
  BY <1>8, <1>10, <1>11, <1>12 DEF Roused
<1>. QED
  BY <1>13, <1>14, RousedKeeps

\* A queue that is taken off the list has nothing to run.
LEMMA NothingAwake ==
  ASSUME IInv, active # <<>>, NothingToRun
  PROVE  AwakeKept
<1>1. /\ First \in Slot /\ Sched.queue = queue /\ Sched.active = active /\ Sched.active # <<>>
      /\ Head(Sched.active) = First /\ Sched \in Scheds /\ QInv(Sched)
  BY FirstIs, Parts
<1>2. PICK u \in Int : u = NO_USAGE
  BY DEF NO_USAGE
<1>3. PICK S, T : S = Dropped(Sched, First, u) /\ T = Rebased(S)
  OBVIOUS
<1>4. S = deactivate_first(Sched)
  BY <1>1, <1>2, <1>3 DEF deactivate_first, WithUsage, Dropped
<1>5. Becomes(T)
  BY <1>3, <1>4 DEF NothingToRun
<1>6. OffList(Sched, S, First, u)
  BY <1>1, <1>3, DropFirst
<1>7. S \in Scheds /\ ToSet(S.active) = ToSet(Sched.active) \ {First}
  BY <1>6 DEF OffList
<1>8. T.active = S.active /\ \A r \in Slot : Runs(T.queue[r]) <=> Runs(S.queue[r])
  BY <1>3, <1>7, RebasedRuns
<1>9. \A r \in Slot : Runs(S.queue[r]) <=> Runs(Sched.queue[r])
  BY <1>1, <1>3, DroppedRuns
<1>10. ~Runs(queue[First])
  BY <1>1, HasLineIs DEF NothingToRun, Runs
<1>11. queue' = T.queue /\ active' = T.active
  BY <1>5 DEF Becomes
<1>. QED
  BY <1>1, <1>7, <1>8, <1>9, <1>10, <1>11 DEF AwakeKept, Awake

LEMMA RunAwake ==
  ASSUME IInv, RunFirst
  PROVE  AwakeKept
<1>1. active # <<>>
  BY DEF RunFirst
<1>2. /\ First \in Slot /\ Sched.queue = queue /\ Sched.active = active
      /\ Sched \in Scheds /\ queue \in [Slot -> Queue]
  BY <1>1, FirstIs, Parts, SchedTypes
<1>3. CASE ReadFails
  <2>1. PICK T : T = [queue |-> queue', active |-> active']
    OBVIOUS
  <2>2. queue' = [queue EXCEPT ![First].reading = None] /\ active' = active
    BY <1>3 DEF ReadFails
  <2>3. T.active = Sched.active /\ \A r \in Slot : r # First => T.queue[r] = Sched.queue[r]
    BY <1>2, <2>1, <2>2
  <2>. QED  BY <1>1, <2>1, <2>3, FirstAwake DEF Becomes
<1>4. CASE RunLine
  <2>1. PICK how : how = RunHow(Sched, First)
    OBVIOUS
  <2>2. PICK S : S = dequeue_input_task(Sched, First, how)
    OBVIOUS
  <2>3. PICK T : T \in {S, [S EXCEPT !.queue[First].reading = None]} /\ Becomes(T)
    BY <1>4, <2>1, <2>2 DEF RunLine
  <2>4. PICK i : i = LineAt(Sched, First, how)
    OBVIOUS
  <2>5. S = [Sched EXCEPT !.queue[First].input = RemoveAt(@, i)]
    BY <2>2, <2>4 DEF dequeue_input_task
  <2>6. PICK x : S = [queue |-> [queue EXCEPT ![First] = x], active |-> active]
    BY <1>2, <2>5 DEF Scheds
  <2>7. PICK y : T = [queue |-> [queue EXCEPT ![First] = y], active |-> active]
    <3>1. CASE T = S
      BY <2>6, <3>1
    <3>2. CASE T = [S EXCEPT !.queue[First].reading = None]
      <4>1. T.queue = [S.queue EXCEPT ![First].reading = None] /\ T.active = S.active
            /\ T = [queue |-> T.queue, active |-> T.active]
        BY <2>6, <3>2
      <4>2. T.queue = [queue EXCEPT ![First] = [x EXCEPT !.reading = None]]
        BY <1>2, <2>6, <4>1
      <4>. QED  BY <2>6, <4>1, <4>2
    <3>. QED  BY <2>3, <3>1, <3>2
  <2>8. T.active = Sched.active /\ \A r \in Slot : r # First => T.queue[r] = Sched.queue[r]
    BY <1>2, <2>7
  <2>. QED  BY <1>1, <2>3, <2>8, FirstAwake
<1>5. CASE RunBackground
  <2>1. PICK T : T = dequeue_bg_task(Sched, First)
    OBVIOUS
  <2>2. Becomes(T)
    BY <1>5, <2>1 DEF RunBackground
  <2>3. T.active = Sched.active /\ \A r \in Slot : r # First => T.queue[r] = Sched.queue[r]
    BY <1>2, <2>1 DEF dequeue_bg_task, Scheds
  <2>. QED  BY <1>1, <2>2, <2>3, FirstAwake
<1>6. CASE NothingToRun
  BY <1>1, <1>6, NothingAwake
<1>. QED
  BY <1>3, <1>4, <1>5, <1>6 DEF RunFirst

LEMMA NewAwake ==
  ASSUME IInv, NEW c \in Conn, NEW outbound, NEW greeted \in BOOLEAN,
         NewShandle(c, outbound, greeted)
  PROVE  AwakeKept
<1>1. PICK S : S = create_tqueue(Sched, c)
  OBVIOUS
<1>2. PICK q : q = find_tqueue(S, c)
  OBVIOUS
<1>3. HasRoomFor(Sched, c) /\ c \in Owner
  BY DEF NewShandle, Owner
<1>4. QInv(S) /\ S \in Scheds /\ q \in Slot /\ Roused(Sched, S)
  BY <1>1, <1>2, <1>3, CreateAwake
<1>5. S.queue[q].player = c /\ c # None
  BY <1>1, <1>2, <1>3, CreateAll
<1>6. PICK v \in BOOLEAN, f \in BOOLEAN : v = TRUE /\ f = FALSE
  OBVIOUS
<1>7. PICK U : U = SetConnected(S, q, v)
  OBVIOUS
<1>8. U = new_task_queue(Sched, c)
  BY <1>1, <1>2, <1>6, <1>7 DEF new_task_queue, SetConnected
<1>9. QInv(U) /\ U.queue[q].player = c
  <2>1. Switched(S, U, q, v)
    BY <1>4, <1>5, <1>6, <1>7, Switch
  <2>. QED  BY <1>4, <1>5, <2>1 DEF Switched
<1>10. find_tqueue(U, c) = q
  BY <1>3, <1>4, <1>9, FindIs DEF QInv
<1>11. PICK line \in Line \cup {Blank} : line = Blank
  OBVIOUS
<1>12. PICK T : T = IF greeted THEN enqueue_input_task(U, q, line, f) ELSE U
  OBVIOUS
<1>13. Becomes(T)
  BY <1>6, <1>8, <1>10, <1>11, <1>12 DEF NewShandle
<1>14. Roused(Sched, U)
  BY <1>4, <1>7, ConnectedRouses, RousedTwice
<1>15. Roused(U, enqueue_input_task(U, q, line, f))
  BY <1>4, <1>9, EnqueueRouses
<1>16. Roused(Sched, T)
  BY <1>12, <1>14, <1>15, RousedTwice
<1>. QED
  BY <1>13, <1>16, RousedKeeps

-----------------------------------------------------------------------------
(* Whose tasks there are                                                   *)

\* Code runs with the permissions of players, unless set_task_perms() has
\* given it those of a connection.
Owners == \A t \in TaskId : task[t].progr \in Player \cup {None}

LEMMA OneOwner ==
  ASSUME IInv, Owners, NEW t, NEW x, x.progr \in Player \cup {None},
         task' = [task EXCEPT ![t] = x]
  PROVE  Owners'
<1>1. PICK f \in [TaskId -> TaskRecord] : f = task
  BY Parts
<1>. QED
  BY <1>1 DEF Owners

LEMMA SameOwners == ASSUME Owners, UNCHANGED task PROVE Owners'
BY DEF Owners

LEMMA VmOwner ==
  ASSUME NEW p
  PROVE  Vm(p).progr = p /\ NoTask.progr = None
BY DEF Vm, NoTask

LEMMA StartOwner == ASSUME IInv, Owners, NEW place, StartCode(place) PROVE Owners'
BY OneOwner, VmOwner DEF StartCode

\* The task keeps its owner.
LEMMA DelayOwner ==
  ASSUME IInv, Owners, NEW t, NEW d, task' = [task EXCEPT ![t].delay = d]
  PROVE  Owners'
<1>1. PICK f \in [TaskId -> TaskRecord] : f = task
  BY Parts
<1>2. ASSUME NEW u \in TaskId PROVE task'[u].progr = f[u].progr
  <2>1. PICK x \in TaskRecord : x = f[u]
    OBVIOUS
  <2>2. task'[u] \in {x, [x EXCEPT !.delay = d]}
    BY <1>1, <2>1
  <2>3. [x EXCEPT !.delay = d].progr = x.progr
    BY DEF TaskRecord
  <2>. QED  BY <2>1, <2>2, <2>3
<1>. QED
  BY <1>1, <1>2 DEF Owners

LEMMA ProgrOwner ==
  ASSUME IInv, Owners, NEW t, NEW p \in Player, task' = [task EXCEPT ![t].progr = p]
  PROVE  Owners'
<1>1. PICK f \in [TaskId -> TaskRecord] : f = task
  BY Parts
<1>2. ASSUME NEW u \in TaskId PROVE task'[u].progr \in {p, f[u].progr}
  <2>1. PICK x \in TaskRecord : x = f[u]
    OBVIOUS
  <2>2. task'[u] \in {x, [x EXCEPT !.progr = p]}
    BY <1>1, <2>1
  <2>3. [x EXCEPT !.progr = p].progr = p
    BY DEF TaskRecord
  <2>. QED  BY <2>1, <2>2, <2>3
<1>. QED
  BY <1>1, <1>2 DEF Owners

LEMMA RunOwner == ASSUME IInv, Owners, RunFirst PROVE Owners'
<1>1. ASSUME NEW t \in TaskId, ResumeCode(t) PROVE Owners'
  <2>1. task' = [task EXCEPT ![t] = Vm(task[t].progr)] /\ task[t].progr \in Player \cup {None}
    BY <1>1 DEF ResumeCode, Owners
  <2>. QED  BY <2>1, OneOwner, VmOwner
<1>2. active # <<>>
  BY DEF RunFirst
<1>3. First \in Slot /\ queue \in [Slot -> Queue]
  BY <1>2, FirstIs, Parts, SchedTypes
<1>4. PICK x \in Queue : x = queue[First]
  BY <1>3
<1>5. x.reading \in TaskId \cup {None} /\ x.bg \in Seq(TaskId)
  BY DEF Queue
<1>6. CASE ReadFails
  BY <1>1, <1>4, <1>5, <1>6 DEF ReadFails
<1>7. CASE RunLine
  <2>1. CASE x.reading # None /\ ResumeCode(x.reading)
    BY <1>1, <1>5, <2>1
  <2>2. CASE \E place : StartCode(place)
    BY <2>2, StartOwner
  <2>3. CASE UNCHANGED task
    BY <2>3, SameOwners
  <2>. QED  BY <1>4, <1>7, <2>1, <2>2, <2>3 DEF RunLine
<1>8. CASE RunBackground
  <2>1. x.bg # <<>> /\ ResumeCode(Head(x.bg))
    BY <1>4, <1>8 DEF RunBackground
  <2>2. Head(x.bg) \in TaskId
    BY <1>5, <2>1
  <2>. QED  BY <1>1, <2>1, <2>2
<1>9. CASE NothingToRun
  BY <1>9, SameOwners DEF NothingToRun
<1>. QED
  BY <1>6, <1>7, <1>8, <1>9 DEF RunFirst

LEMMA LoopOwner == ASSUME IInv, Owners, MainLoop PROVE Owners'
<1>1. CASE server_closed \/ WakeTasks \/ NoneActive \/ NoLogin \/ Left \/ NextIteration
  BY <1>1, SameOwners DEF server_closed, WakeTasks, NoneActive, NoLogin, Left, NextIteration
<1>2. ASSUME NEW seconds, TaskDone(seconds) PROVE Owners'
  <2>1. UNCHANGED task
    BY <1>2 DEF TaskDone
  <2>. QED  BY <2>1, SameOwners
<1>3. CASE CommandVerb \/ Redirected
  BY <1>3, SameOwners, StartOwner DEF CommandVerb, Redirected
<1>4. ASSUME NEW p \in Player, Login(p) PROVE Owners'
  <2>1. PICK place : StartCode(place)
    BY <1>4 DEF Login
  <2>. QED  BY <2>1, StartOwner
<1>5. ASSUME NEW c \in Conn, Cleanup(c) PROVE Owners'
  BY <1>5, SameOwners, StartOwner DEF Cleanup
<1>. QED
  BY <1>1, <1>2, <1>3, <1>4, <1>5, RunOwner DEF MainLoop

LEMMA CodeOwner ==
  ASSUME PermsTarget \subseteq Player, IInv, Owners, Code
  PROVE  Owners'
<1>1. CASE EndCode
  BY <1>1, OneOwner, VmOwner DEF EndCode
<1>2. ASSUME NEW p \in Player, CallVerb(p) \/ recycle(p) PROVE Owners'
  BY <1>2, ProgrOwner, SameOwners DEF CallVerb, recycle
<1>3. ASSUME NEW o \in PermsTarget, set_task_perms(o) PROVE Owners'
  BY <1>3, ProgrOwner DEF set_task_perms
<1>4. ASSUME NEW d \in Delay, Fork(d) PROVE Owners'
  <2>1. PICK x : x = [kind |-> "TASK_FORKED", progr |-> progr, delay |-> d]
    OBVIOUS
  <2>2. current \in TaskId /\ \E t \in Fresh : task' = [task EXCEPT ![t] = x]
    BY <1>4, <2>1, CurrentIs DEF Fork, Calls
  <2>3. x.progr \in Player \cup {None}
    BY <2>1, <2>2 DEF Owners, progr
  <2>. QED  BY <2>2, <2>3, OneOwner
<1>5. ASSUME NEW d \in Delay, suspend(d) PROVE Owners'
  BY <1>5, DelayOwner DEF suspend
<1>6. ASSUME NEW o \in Owner, read(o) \/ read_input_now(o) \/ bf_flush_input(o) PROVE Owners'
  BY <1>6, SameOwners DEF read, read_input_now, bf_flush_input
<1>7. ASSUME NEW o \in Owner, NEW line \in Line, NEW at_front \in BOOLEAN,
             force_input(o, line, at_front)
      PROVE  Owners'
  BY <1>7, SameOwners DEF force_input
<1>8. ASSUME NEW t \in TaskId, kill_task(t) PROVE Owners'
  BY <1>8, OneOwner, VmOwner DEF kill_task
<1>9. ASSUME NEW t \in TaskId, resume(t) PROVE Owners'
  <2>1. PICK z : z = 0 /\ task' = [task EXCEPT ![t].delay = z]
    BY <1>9 DEF resume
  <2>. QED  BY <2>1, DelayOwner
<1>10. ASSUME NEW c \in Conn, boot_player(c) \/ open_network_connection(c) PROVE Owners'
  BY <1>10, SameOwners DEF boot_player, open_network_connection
<1>11. ASSUME NEW c \in Conn, NEW value \in BOOLEAN, set_connection_option(c, value)
       PROVE  Owners'
  BY <1>11, SameOwners DEF set_connection_option
<1>. QED
  BY <1>1, <1>2, <1>3, <1>4, <1>5, <1>6, <1>7, <1>8, <1>9, <1>10, <1>11 DEF Code

LEMMA OwnersStep ==
  ASSUME PermsTarget \subseteq Player, IInv, Owners, [Next]_vars
  PROVE  Owners'
<1>1. CASE Network
  BY <1>1, SameOwners, StartOwner
     DEF Network, server_new_connection, server_receive_line, server_close
<1>2. CASE Tick
  <2>1. PICK f \in [TaskId -> TaskRecord] : f = task
    BY Parts
  <2>2. ASSUME NEW u \in TaskId PROVE task'[u].progr = f[u].progr
    <3>1. PICK x, d : x = f[u] /\ d = f[u].delay - 1
      OBVIOUS
    <3>2. task'[u] \in {x, [x EXCEPT !.delay = d]}
      BY <1>2, <2>1, <3>1 DEF Tick
    <3>3. [x EXCEPT !.delay = d].progr = x.progr
      BY <3>1 DEF TaskRecord
    <3>. QED  BY <3>1, <3>2, <3>3
  <2>. QED  BY <2>1, <2>2 DEF Owners
<1>3. CASE UNCHANGED vars
  BY <1>3, SameOwners DEF vars
<1>. QED
  BY <1>1, <1>2, <1>3, LoopOwner, CodeOwner DEF Next

\* The queue of a connection then has no background task.
LEMMA NoneForConnection ==
  ASSUME IInv, Owners, NEW q \in Slot, queue[q].player \in Conn
  PROVE  queue[q].num_bg_tasks = 0
<1>1. /\ Sched \in Scheds /\ Sched.queue = queue /\ TInv(Sched, waiting, task, current)
      /\ BInv(Sched, waiting, task)
  BY Parts DEF Sched
<1>2. PICK b, ws, c : /\ b = queue[q].bg /\ c = queue[q].player
                      /\ ws = Waits(waiting, task, queue[q].player)
  OBVIOUS
<1>3. b \in Seq(TaskId) /\ waiting \in Seq(TaskId)
  BY <1>1, <1>2, SchedTypes DEF TInv
<1>4. c \notin Player \cup {None}
  BY <1>2, NumbersAssumption DEF Owner
<1>5. \A t \in TaskId : task[t].progr # c
  BY <1>4 DEF Owners
<1>6. ws = {}
  BY <1>2, <1>3, <1>5 DEF Waits, ToSet
<1>7. b = <<>>
  <2>. SUFFICES ASSUME b # <<>> PROVE FALSE
    OBVIOUS
  <2>1. 1 \in DOMAIN b /\ b[1] \in TaskId /\ b[1] \in ToSet(b)
    BY <1>3 DEF ToSet
  <2>2. task[b[1]].progr = c
    BY <1>1, <1>2, <2>1 DEF BInv
  <2>. QED  BY <1>5, <2>1, <2>2
<1>8. queue[q].num_bg_tasks = Len(b) + Cardinality(ws)
  BY <1>1, <1>2, <1>4 DEF BInv
<1>9. Len(b) = 0 /\ Cardinality(ws) = 0
  BY <1>6, <1>7, FS_EmptySet
<1>. QED
  BY <1>8, <1>9

-----------------------------------------------------------------------------

LEMMA LoopAwake ==
  ASSUME IInv, Owners, MainLoop
  PROVE  AwakeKept
<1>1. CASE server_closed \/ Left
  <2>1. IsOpen(shandle, pc.conn) /\ free_shandle(pc.conn)
    BY <1>1, Parts DEF server_closed, Left, Idle, PInv
  <2>. QED  BY <2>1, FreeAwake DEF IsOpen
<1>2. CASE NoLogin \/ NextIteration \/ CommandVerb \/ Redirected
  BY <1>2, StillAwake DEF NoLogin, NextIteration, CommandVerb, Redirected
<1>3. ASSUME NEW c \in Conn, Cleanup(c) PROVE AwakeKept
  <2>1. IsOpen(shandle, c)
    BY <1>3, Parts DEF Cleanup, PInv
  <2>. QED  BY <1>3, <2>1, FreeAwake, StillAwake DEF Cleanup
<1>4. ASSUME NEW p \in Player, Login(p) PROVE AwakeKept
  <2>1. pc.at = "login" /\ queue[First].connected
    BY <1>4 DEF Login, Idle
  <2>2. active # <<>>
    BY <2>1, RunningActive DEF RunningPlace
  <2>3. First \in Slot /\ Sched.queue = queue /\ Sched.active = active /\ HInv(Sched, shandle)
    BY <2>2, FirstIs, Parts
  <2>4. PICK c \in Conn : IsOpen(shandle, c) /\ shandle[c].tasks = First
    BY <2>1, <2>3 DEF HInv
  <2>5. queue[First].player \in Player \cup {c}
    BY <2>3, <2>4 DEF HInv
  <2>6. queue[First].player \notin Player
    BY <2>1, <2>3, Parts DEF PInv, First
  <2>7. queue[First].num_bg_tasks = 0
    BY <2>3, <2>5, <2>6, NoneForConnection
  <2>. QED  BY <1>4, <2>7, LoginStep
<1>. QED
  BY <1>1, <1>2, <1>3, <1>4, WakeStep, RunAwake, NoneActiveAwake, TaskDoneAwake DEF MainLoop

LEMMA CodeAwake ==
  ASSUME IInv, Code
  PROVE  AwakeKept
<1>1. CASE EndCode
  BY <1>1, StillAwake DEF EndCode
<1>2. ASSUME NEW p \in Player, CallVerb(p) \/ recycle(p) PROVE AwakeKept
  BY <1>2, StillAwake DEF CallVerb, recycle
<1>3. ASSUME NEW o \in PermsTarget, set_task_perms(o) PROVE AwakeKept
  BY <1>3, StillAwake DEF set_task_perms
<1>4. ASSUME NEW d \in Delay, Fork(d) \/ suspend(d) PROVE AwakeKept
  <2>1. PICK o : o = progr
    OBVIOUS
  <2>2. PICK T : T = CountWaiting(Sched, o)
    OBVIOUS
  <2>3. current # None /\ HasRoomFor(Sched, o) /\ Becomes(T)
    BY <1>4, <2>1, <2>2 DEF Fork, suspend, Calls
  <2>4. o \in Owner /\ Sched \in Scheds
    BY <2>1, <2>3, CurrentIs, Parts
  <2>. QED  BY <2>2, <2>3, <2>4, CountWaitingRouses, RousedKeeps
<1>5. ASSUME NEW c \in Conn, boot_player(c) PROVE AwakeKept
  BY <1>5, StillAwake DEF boot_player
<1>6. ASSUME NEW c \in Conn, open_network_connection(c) PROVE AwakeKept
  BY <1>6, NewAwake DEF open_network_connection
<1>. QED
  BY <1>1, <1>2, <1>3, <1>4, <1>5, <1>6, ReadAwake, InputAwake, ForceAwake, KillAwake,
     ResumeAwake, OptionAwake DEF Code

LEMMA AwakeStep ==
  ASSUME IInv, Owners, [Next]_vars
  PROVE  AwakeKept
<1>1. CASE Network
  <2>. PICK c \in Conn : server_new_connection(c) \/ server_receive_line(c) \/ server_close(c)
    BY <1>1 DEF Network
  <2>1. CASE server_new_connection(c)
    <3>1. PICK v \in BOOLEAN, f \in BOOLEAN : v = TRUE /\ f = FALSE
      OBVIOUS
    <3>2. NewShandle(c, f, v)
      BY <2>1, <3>1 DEF server_new_connection
    <3>. QED  BY <3>2, NewAwake
  <2>2. CASE server_close(c)
    BY <2>2, StillAwake DEF server_close
  <2>. QED  BY <2>1, <2>2, ReceiveAwake
<1>2. CASE Tick \/ UNCHANGED vars
  BY <1>2, StillAwake DEF Tick, vars
<1>. QED
  BY <1>1, <1>2, LoopAwake, CodeAwake DEF Next

LEMMA ActiveIs == ASSUME IInv, Awake PROVE RunnableIsActive
<1>1. Sched \in Scheds /\ Sched.queue = queue /\ Sched.active = active /\ ReadersActive(Sched)
  BY Parts DEF Sched, QInv
<1>. SUFFICES ASSUME NEW q \in Slot,
                     \/ queue[q].bg # <<>>
                     \/ LineAt(Sched, q, RunHow(Sched, q)) # 0
                     \/ queue[q].reading # None /\ is_out_of_input(Sched, q)
              PROVE  q \in ToSet(active)
  BY DEF RunnableIsActive, InUse
<1>2. CASE queue[q].bg # <<>> \/ LineAt(Sched, q, RunHow(Sched, q)) # 0
  BY <1>1, <1>2, HasLineIs DEF Awake, Runs
<1>3. CASE queue[q].reading # None /\ is_out_of_input(Sched, q)
  BY <1>1, <1>3 DEF ReadersActive, is_out_of_input
<1>. QED
  BY <1>2, <1>3

\* run_ready_tasks() looks at active queues only, and every queue with a ready
\* task, a line it would take, or a reader at the end of its input is one of
\* them: no step that changes lines, options, readers or owners of a queue
\* forgets to activate it, and none that takes a queue off the list is too
\* early.  It holds as long as set_task_perms() is not called with the number
\* of a connection: do_login_task() does not activate the queue to which it
\* moves the background tasks of one.
THEOREM RunnableAreActive ==
  ASSUME PermsTarget \subseteq Player
  PROVE  Spec => []RunnableIsActive
<1>1. Init => Owners /\ Awake
  <2>1. NoTask.progr = None
    BY DEF NoTask
  <2>. QED  BY <2>1, FreeRests DEF Init, Owners, Awake
<1>2. IInv /\ Owners /\ Awake /\ [Next]_vars => Owners' /\ Awake'
  BY OwnersStep, AwakeStep DEF AwakeKept
<1>3. IInv /\ Awake => RunnableIsActive
  BY ActiveIs
<1>. QED
  BY <1>1, <1>2, <1>3, Consistent, PTL DEF Spec
=============================================================================
