--------------------------- MODULE ObjectsProofs ---------------------------
(***************************************************************************)
(* For any table size, any number of callers and any core objects: the     *)
(* linked lists that db_objects.c keeps agree with the parent and location *)
(* of every object, neither hierarchy has a loop, no panic() is reached,   *)
(* and all_users lists the players and nobody else, through every create,  *)
(* chparent, move, recycle, renumber and reset_max_object and whatever the *)
(* MOO verbs do that move() and recycle() call.                            *)
(*                                                                         *)
(* The inductive invariant names what the links lead through: each object  *)
(* has a sequence without repetition of exactly the objects whose up link  *)
(* it is (Hier), and a height falls along every up link (Ranked).  Every   *)
(* way the code changes links (LL_REMOVE, LL_APPEND, the loops that empty  *)
(* an object out and orphan it, the relinking of renumber) keeps both.     *)
(***************************************************************************)
EXTENDS Objects, SumTheorems, FiniteSetTheorems, SequenceTheorems, TLAPS

UpField   == {"parent", "location"}
LinkField == {"parent", "child", "sibling", "location", "contents", "next"}
Field     == LinkField \cup {"user"}

\* A table of objects: what objects is, and every table on the way to the next.
IsTable(O) ==
  /\ O = [o \in DOMAIN O |-> O[o]]
  /\ DOMAIN O \subseteq Number
  /\ \A o \in DOMAIN O : O[o] \in Object

\* The fields of an object.
LEMMA ObjectIs ==
  ASSUME NEW r
  PROVE  r \in Object <=> /\ r = [f \in Field |-> r[f]]
                          /\ \A f \in LinkField : r[f] \in Link
                          /\ r["user"] \in BOOLEAN
BY DEF Object, Field, LinkField

\* A link is set.
Put(O, w, f, v) == [O EXCEPT ![w][f] = v]

IsPut(O, P, w, f, v) ==
  /\ IsTable(P)
  /\ DOMAIN P = DOMAIN O
  /\ \A x \in DOMAIN O : \A g \in Field :
       P[x][g] = IF x = w /\ g = f THEN v ELSE O[x][g]

\* Setting one link of one object changes that link only.
LEMMA SetLink ==
  ASSUME NEW O, IsTable(O), NEW w \in DOMAIN O, NEW f \in LinkField, NEW v \in Link
  PROVE  IsPut(O, Put(O, w, f, v), w, f, v)
<1>1. PICK r : r = [O[w] EXCEPT ![f] = v]
  OBVIOUS
<1>2. /\ r \in Object
      /\ \A g \in Field : r[g] = IF g = f THEN v ELSE O[w][g]
  <2>1. O[w] \in Object
    BY DEF IsTable
  <2>2. PICK q : q = O[w]
    OBVIOUS
  <2>3. /\ q = [g \in Field |-> q[g]]
        /\ \A g \in LinkField : q[g] \in Link
        /\ q["user"] \in BOOLEAN
    BY <2>1, <2>2, ObjectIs
  <2>4. f \in Field /\ f # "user"
    BY DEF Field, LinkField
  <2>5. r = [g \in Field |-> IF g = f THEN v ELSE q[g]]
    BY <1>1, <2>2, <2>3, <2>4
  <2>6. /\ r = [g \in Field |-> r[g]]
        /\ \A g \in LinkField : r[g] \in Link
        /\ r["user"] \in BOOLEAN
    BY <2>3, <2>4, <2>5 DEF Field
  <2>. QED BY <2>2, <2>5, <2>6, ObjectIs
<1>3. PICK P : P = Put(O, w, f, v)
  OBVIOUS
<1>4. P = [O EXCEPT ![w] = r]
  BY <1>1, <1>3 DEF Put
<1>5. P = [x \in DOMAIN O |-> IF x = w THEN r ELSE O[x]]
  BY <1>4 DEF IsTable
<1>. QED BY <1>2, <1>3, <1>5 DEF IsTable, IsPut

-----------------------------------------------------------------------------
(* What ListFrom computes                                                  *)

\* The links of the field next lead from first through s to what is no object.
ChainTo(O, s, first, next, end) ==
  /\ s \in Seq(DOMAIN O)
  /\ end \in Link \ DOMAIN O
  /\ first = IF Len(s) = 0 THEN end ELSE s[1]
  /\ \A i \in 1..Len(s) : O[s[i]][next] = IF i = Len(s) THEN end ELSE s[i + 1]
  /\ \A i, j \in 1..Len(s) : s[i] = s[j] => i = j

\* The i-th element of a list, NOTHING after the last.
At(s, i) == IF i \in 1..Len(s) THEN s[i] ELSE NOTHING

\* The links of the field next lead from first through s and end.
Chain(O, s, first, next) ==
  /\ s \in Seq(DOMAIN O)
  /\ first = At(s, 1)
  /\ \A i \in 1..Len(s) : O[s[i]][next] = At(s, i + 1)
  /\ \A i, j \in 1..Len(s) : s[i] = s[j] => i = j

\* from is a function that the definition of ListFrom asks for, up to some fuel.
Follows(from, O, next, fuel) ==
  from = [p \in Link \X (0..fuel) |->
            IF p[2] = 0 \/ p[1] \notin DOMAIN O THEN <<>>
            ELSE <<p[1]>> \o from[<<O[p[1]][next], p[2] - 1>>]]

\* The same, without pairs.
LEMMA FollowsAt ==
  ASSUME NEW from, NEW O, NEW next, NEW fuel \in Nat, Follows(from, O, next, fuel)
  PROVE  \A x \in Link, k \in 0..fuel :
           from[<<x, k>>] = IF k = 0 \/ x \notin DOMAIN O THEN <<>>
                            ELSE <<x>> \o from[<<O[x][next], k - 1>>]
<1>. TAKE x \in Link, k \in 0..fuel
<1>1. <<x, k>> \in Link \X (0..fuel)
  OBVIOUS
<1>. QED BY <1>1 DEF Follows

\* There is one, by induction on the fuel.
LEMMA FollowsExists ==
  ASSUME NEW O, NEW next, \A x \in DOMAIN O : O[x][next] \in Link, NEW fuel \in Nat
  PROVE  \E from : Follows(from, O, next, fuel)
<1>. DEFINE S == {k \in Nat : \E from : Follows(from, O, next, k)}
<1>1. 0 \in S
  <2>. DEFINE g == [p \in Link \X (0..0) |-> <<>>]
  <2>1. g = [p \in Link \X (0..0) |->
               IF p[2] = 0 \/ p[1] \notin DOMAIN O THEN <<>>
               ELSE <<p[1]>> \o g[<<O[p[1]][next], p[2] - 1>>]]
    OBVIOUS
  <2>2. Follows(g, O, next, 0)
    BY <2>1 DEF Follows
  <2>. HIDE DEF g
  <2>. QED BY <2>2
<1>2. ASSUME NEW k \in Nat, k \in S PROVE k + 1 \in S
  <2>1. PICK f : Follows(f, O, next, k)
    BY <1>2
  <2>. DEFINE g == [p \in Link \X (0..(k + 1)) |->
                      IF p[2] = 0 \/ p[1] \notin DOMAIN O THEN <<>>
                      ELSE <<p[1]>> \o f[<<O[p[1]][next], p[2] - 1>>]]
  <2>2. \A x \in Link, i \in 0..k : g[<<x, i>>] = f[<<x, i>>]
    <3>. TAKE x \in Link, i \in 0..k
    <3>1. <<x, i>> \in Link \X (0..(k + 1))
      OBVIOUS
    <3>2. g[<<x, i>>] = IF i = 0 \/ x \notin DOMAIN O THEN <<>>
                        ELSE <<x>> \o f[<<O[x][next], i - 1>>]
      BY <3>1
    <3>. HIDE DEF g
    <3>. QED BY <2>1, <3>2, FollowsAt
  <2>3. ASSUME NEW p \in Link \X (0..(k + 1))
        PROVE  p[2] = 0 \/ p[1] \notin DOMAIN O
                 \/ g[<<O[p[1]][next], p[2] - 1>>] = f[<<O[p[1]][next], p[2] - 1>>]
    <3>1. p[1] \in Link /\ p[2] \in 0..(k + 1)
      OBVIOUS
    <3>2. (p[1] \in DOMAIN O => O[p[1]][next] \in Link) /\ (p[2] # 0 => p[2] - 1 \in 0..k)
      BY <3>1
    <3>. HIDE DEF g
    <3>. QED BY <2>2, <3>2
  <2>4. g = [p \in Link \X (0..(k + 1)) |->
               IF p[2] = 0 \/ p[1] \notin DOMAIN O THEN <<>>
               ELSE <<p[1]>> \o g[<<O[p[1]][next], p[2] - 1>>]]
    <3>. DEFINE h == [p \in Link \X (0..(k + 1)) |->
                        IF p[2] = 0 \/ p[1] \notin DOMAIN O THEN <<>>
                        ELSE <<p[1]>> \o g[<<O[p[1]][next], p[2] - 1>>]]
    <3>1. \A p \in Link \X (0..(k + 1)) : g[p] = h[p]
      BY <2>3
    <3>. QED BY <3>1, ZenonT(40)
  <2>5. Follows(g, O, next, k + 1)
    BY <2>4, Zenon DEF Follows
  <2>. HIDE DEF g
  <2>. QED BY <2>5
<1>. HIDE DEF S
<1>3. fuel \in S
  BY <1>1, <1>2, NatInd
<1>. QED BY <1>3 DEF S

\* So ListFrom is a value of one.
LEMMA ListFollows ==
  ASSUME NEW O, NEW first, NEW next, \A x \in DOMAIN O : O[x][next] \in Link
  PROVE  \E from :
           /\ ListFrom(O, first, next) = from[<<first, MaxObjects>>]
           /\ \A x \in Link, k \in 0..MaxObjects :
                from[<<x, k>>] = IF k = 0 \/ x \notin DOMAIN O THEN <<>>
                                 ELSE <<x>> \o from[<<O[x][next], k - 1>>]
<1>0. MaxObjects \in Nat
  BY ObjectsAssumption
<1>. DEFINE f == CHOOSE g : Follows(g, O, next, MaxObjects)
<1>1. Follows(f, O, next, MaxObjects)
  BY <1>0, FollowsExists
<1>2. ListFrom(O, first, next) = f[<<first, MaxObjects>>]
  BY Zenon DEF ListFrom, Follows
<1>3. PICK from : Follows(from, O, next, MaxObjects) /\ ListFrom(O, first, next) = from[<<first, MaxObjects>>]
  BY <1>1, <1>2
<1>. HIDE DEF f
<1>. QED BY <1>0, <1>3, FollowsAt

\* A sequence in front of which one element is put.
LEMMA ConsIs ==
  ASSUME NEW T, NEW x \in T, NEW y \in Seq(T), NEW z \in Seq(T),
         Len(z) = Len(y) + 1, z[1] = x, \A i \in 1..Len(y) : z[i + 1] = y[i]
  PROVE  <<x>> \o y = z
<1>1. <<x>> \in Seq(T) /\ Len(<<x>>) = 1 /\ Len(y) \in Nat /\ <<x>>[1] = x
  OBVIOUS
<1>2. <<x>> \o y \in Seq(T) /\ Len(<<x>> \o y) = Len(z)
  BY <1>1
<1>3. ASSUME NEW i \in 1..Len(z) PROVE (<<x>> \o y)[i] = z[i]
  <2>1. i \in 1..(Len(<<x>>) + Len(y))
    BY <1>1
  <2>2. (<<x>> \o y)[i] = IF i <= Len(<<x>>) THEN <<x>>[i] ELSE y[i - Len(<<x>>)]
    BY <1>1, <2>1, ConcatProperties
  <2>3. CASE i = 1
    BY <1>1, <2>2, <2>3
  <2>4. CASE i # 1
    <3>1. (<<x>> \o y)[i] = y[i - 1] /\ i - 1 \in 1..Len(y) /\ (i - 1) + 1 = i
      BY <1>1, <2>1, <2>2, <2>4
    <3>. QED BY <3>1
  <2>. QED BY <2>3, <2>4
<1>. QED BY <1>2, <1>3, SeqEqual

\* A list of distinct objects is not longer than the table may be.
LEMMA ShortList ==
  ASSUME NEW s, s \in Seq(Number), \A i, j \in 1..Len(s) : s[i] = s[j] => i = j
  PROVE  Len(s) <= MaxObjects
<1>0. MaxObjects \in Nat /\ Len(s) \in Nat
  BY ObjectsAssumption
<1>1. IsFiniteSet(Number) /\ Cardinality(Number) = MaxObjects
  <2>1. 0 \in Int /\ MaxObjects - 1 \in Int /\ Number = 0..(MaxObjects - 1)
    BY <1>0 DEF Number
  <2>2. IsFiniteSet(Number) /\ Cardinality(Number) = IF 0 > MaxObjects - 1 THEN 0 ELSE (MaxObjects - 1) - 0 + 1
    BY <2>1, FS_Interval
  <2>. QED BY <1>0, <2>2
<1>2. IsFiniteSet(1..Len(s)) /\ Cardinality(1..Len(s)) = Len(s)
  <2>1. 1 \in Int /\ Len(s) \in Int
    BY <1>0
  <2>2. IsFiniteSet(1..Len(s)) /\ Cardinality(1..Len(s)) = IF 1 > Len(s) THEN 0 ELSE Len(s) - 1 + 1
    BY <2>1, FS_Interval
  <2>. QED BY <1>0, <2>2
<1>3. s \in Injection(1..Len(s), Number)
  BY DEF Injection, IsInjective
<1>. QED BY <1>1, <1>2, <1>3, FS_Injection

\* A list is what ListFrom finds, by induction from its end.
LEMMA ListToIs ==
  ASSUME NEW O, IsTable(O), NEW next \in LinkField, NEW first, NEW end, NEW s,
         ChainTo(O, s, first, next, end)
  PROVE  ListFrom(O, first, next) = s
<1>0. /\ MaxObjects \in Nat /\ Len(s) \in Nat /\ end \in Link /\ end \notin DOMAIN O
      /\ s \in Seq(DOMAIN O) /\ s \in Seq(Number) /\ DOMAIN O \subseteq Number
      /\ \A x \in DOMAIN O : O[x][next] \in Link
  <2>1. MaxObjects \in Nat
    BY ObjectsAssumption
  <2>2. s \in Seq(DOMAIN O) /\ DOMAIN O \subseteq Number /\ end \in Link /\ end \notin DOMAIN O
    BY DEF ChainTo, IsTable
  <2>3. \A x \in DOMAIN O : O[x][next] \in Link
    BY ObjectIs DEF IsTable
  <2>. QED BY <2>1, <2>2, <2>3
<1>1. Len(s) <= MaxObjects
  BY <1>0, ShortList DEF ChainTo
<1>2. PICK from :
        /\ ListFrom(O, first, next) = from[<<first, MaxObjects>>]
        /\ \A x \in Link, k \in 0..MaxObjects :
             from[<<x, k>>] = IF k = 0 \/ x \notin DOMAIN O THEN <<>>
                              ELSE <<x>> \o from[<<O[x][next], k - 1>>]
  BY <1>0, ListFollows
<1>3. PICK n \in Nat : n = Len(s)
  BY <1>0
<1>. DEFINE at(i) == IF i \in 1..n THEN s[i] ELSE end
<1>. DEFINE rest(j) == [i \in 1..(n - j) |-> s[j + i]]
            S == {k \in Nat : k <= n =>
                    \A f \in k..MaxObjects : from[<<at(n - k + 1), f>>] = rest(n - k)}
<1>4. 0 \in S
  <2>. SUFFICES ASSUME NEW f \in 0..MaxObjects PROVE from[<<at(n + 1), f>>] = rest(n)
    <3>1. n - 0 = n
      OBVIOUS
    <3>. QED BY <3>1
  <2>1. rest(n) = <<>>
    OBVIOUS
  <2>2. at(n + 1) = end
    OBVIOUS
  <2>3. from[<<end, f>>] = <<>>
    BY <1>0, <1>2
  <2>. QED BY <2>1, <2>2, <2>3
<1>5. ASSUME NEW k \in Nat, k \in S PROVE k + 1 \in S
  <2>. HIDE DEF rest
  <2>. SUFFICES ASSUME k + 1 <= n, NEW f \in (k + 1)..MaxObjects
       PROVE from[<<at(n - (k + 1) + 1), f>>] = rest(n - (k + 1))
    OBVIOUS
  <2>. USE DEF rest
  <2>1. PICK j \in Nat : j = n - (k + 1)
    OBVIOUS
  <2>2. /\ j + 1 \in 1..n /\ n - k = j + 1 /\ f - 1 \in k..MaxObjects /\ f # 0 /\ f \in 0..MaxObjects
        /\ n - (k + 1) + 1 = j + 1 /\ k <= n
    BY <1>0, <2>1
  <2>3. at(j + 1) = s[j + 1] /\ s[j + 1] \in DOMAIN O /\ s[j + 1] \in Link
    BY <1>0, <1>3, <2>2 DEF Link
  <2>4. O[s[j + 1]][next] = at(j + 1 + 1)
    BY <1>0, <1>3, <2>2 DEF ChainTo
  <2>5. from[<<at(j + 1 + 1), f - 1>>] = rest(j + 1)
    <3>1. from[<<at(n - k + 1), f - 1>>] = rest(n - k)
      BY <1>5, <2>2
    <3>. HIDE DEF rest
    <3>. QED BY <2>2, <3>1
  <2>6. from[<<s[j + 1], f>>] = <<s[j + 1]>> \o rest(j + 1)
    <3>1. from[<<s[j + 1], f>>] = <<s[j + 1]>> \o from[<<O[s[j + 1]][next], f - 1>>]
      BY <1>2, <2>2, <2>3
    <3>. HIDE DEF rest
    <3>. QED BY <2>4, <2>5, <3>1
  <2>7. <<s[j + 1]>> \o rest(j + 1) = rest(j)
    <3>1. \A i \in 1..n : s[i] \in DOMAIN O
      BY <1>0, <1>3
    <3>2. /\ rest(j + 1) \in Seq(DOMAIN O) /\ Len(rest(j + 1)) = n - (j + 1)
          /\ \A i \in 1..(n - (j + 1)) : rest(j + 1)[i] = s[j + 1 + i]
      <4>1. n - (j + 1) \in Nat /\ \A i \in 1..(n - (j + 1)) : s[j + 1 + i] \in DOMAIN O
        BY <2>2, <3>1
      <4>. QED BY <4>1
    <3>3. /\ rest(j) \in Seq(DOMAIN O) /\ Len(rest(j)) = n - j
          /\ \A i \in 1..(n - j) : rest(j)[i] = s[j + i]
      <4>1. n - j \in Nat /\ \A i \in 1..(n - j) : s[j + i] \in DOMAIN O
        BY <2>2, <3>1
      <4>. QED BY <4>1
    <3>. HIDE DEF rest
    <3>4. /\ Len(rest(j)) = Len(rest(j + 1)) + 1 /\ rest(j)[1] = s[j + 1]
          /\ \A i \in 1..Len(rest(j + 1)) : rest(j)[i + 1] = rest(j + 1)[i]
      BY <2>2, <3>2, <3>3
    <3>. QED BY <2>3, <3>2, <3>3, <3>4, ConsIs
  <2>. HIDE DEF rest
  <2>. QED BY <2>1, <2>2, <2>3, <2>6, <2>7
<1>. HIDE DEF S
<1>6. n \in S
  BY <1>4, <1>5, NatInd
<1>7. from[<<at(1), MaxObjects>>] = rest(0)
  <2>1. n - n = 0 /\ n <= n /\ MaxObjects \in n..MaxObjects /\ n - n + 1 = 1
    BY <1>0, <1>1, <1>3
  <2>2. from[<<at(n - n + 1), MaxObjects>>] = rest(n - n)
    BY <1>6, <2>1 DEF S
  <2>. HIDE DEF rest
  <2>. QED BY <2>1, <2>2
<1>8. rest(0) = s
  <2>1. n - 0 = n /\ \A i \in 1..n : 0 + i = i
    OBVIOUS
  <2>2. s = [i \in 1..n |-> s[i]]
    BY <1>0, <1>3
  <2>. QED BY <2>1, <2>2
<1>. HIDE DEF rest
<1>9. first = at(1)
  BY <1>0, <1>3 DEF ChainTo
<1>. HIDE DEF at
<1>. QED BY <1>2, <1>7, <1>8, <1>9

\* Following the links of a chain gives the chain.
LEMMA ListFromIs ==
  ASSUME NEW O, IsTable(O), NEW next \in LinkField, NEW first, NEW s, Chain(O, s, first, next)
  PROVE  ListFrom(O, first, next) = s
<1>1. NOTHING \in Link \ DOMAIN O
  BY ObjectsAssumption DEF Number, NOTHING, Link, IsTable
<1>2. s \in Seq(DOMAIN O) /\ Len(s) \in Nat
  BY DEF Chain
<1>3. first = IF Len(s) = 0 THEN NOTHING ELSE s[1]
  BY <1>2 DEF Chain, At
<1>4. \A i \in 1..Len(s) : O[s[i]][next] = IF i = Len(s) THEN NOTHING ELSE s[i + 1]
  BY <1>2 DEF Chain, At
<1>5. ChainTo(O, s, first, next, NOTHING)
  BY <1>1, <1>2, <1>3, <1>4 DEF ChainTo, Chain
<1>. QED BY <1>5, ListToIs

-----------------------------------------------------------------------------
(* Lists of objects, and how LL_REMOVE and LL_APPEND change them           *)

\* U is the up-link of every object.
Ups(O, U) == U \in [DOMAIN O -> DOMAIN O \cup {NOTHING}]

\* s has exactly the objects whose up-link is o.
Has(O, U, s, o) ==
  \A p \in DOMAIN O : U[p] = o <=> \E i \in 1..Len(s) : s[i] = p

\* Every object has a list of exactly the objects whose up-link it is.
Lists(O, U, list, next) ==
  \A o \in DOMAIN O : \E s : Chain(O, s, O[o][list], next) /\ Has(O, U, s, o)

\* A list stays when its links do.
LEMMA ChainKept ==
  ASSUME NEW O, NEW P, NEW s, NEW first, NEW next, Chain(O, s, first, next),
         DOMAIN P = DOMAIN O, \A i \in 1..Len(s) : P[s[i]][next] = O[s[i]][next]
  PROVE  Chain(P, s, first, next)
BY DEF Chain

\* NOTHING is no object.
LEMMA NothingIs ==
  ASSUME NEW O, IsTable(O)
  PROVE  /\ NOTHING \notin DOMAIN O /\ NOTHING \in Link
         /\ DOMAIN O \subseteq Link
         /\ \A x \in DOMAIN O : \A f \in LinkField : O[x][f] \in Link
<1>1. MaxObjects \in Nat /\ NOTHING \notin Number /\ NOTHING \in Link /\ Number \subseteq Link
  BY ObjectsAssumption DEF Number, NOTHING, Link
<1>2. \A x \in DOMAIN O : \A f \in LinkField : O[x][f] \in Link
  BY ObjectIs DEF IsTable
<1>. QED BY <1>1, <1>2 DEF IsTable

\* A table with the same lists: what LL_REMOVE and LL_APPEND leave alone.
Beside(O, P, list, next) ==
  /\ IsTable(P)
  /\ DOMAIN P = DOMAIN O
  /\ \A x \in DOMAIN O : \A f \in Field \ {list, next} : P[x][f] = O[x][f]

\* Setting two links, of which the second may overwrite the first.
LEMMA SetTwo ==
  ASSUME NEW O, IsTable(O), NEW list \in LinkField, NEW next \in LinkField, 
         NEW w \in DOMAIN O, NEW f \in {list, next}, NEW v \in Link,
         NEW what \in DOMAIN O, NEW P, P = Put(Put(O, w, f, v), what, next, NOTHING)
  PROVE  /\ Beside(O, P, list, next)
         /\ \A x \in DOMAIN O : \A g \in Field :
              P[x][g] = IF x = what /\ g = next THEN NOTHING
                        ELSE IF x = w /\ g = f THEN v ELSE O[x][g]
<1>0. NOTHING \in Link /\ f \in LinkField
  BY NothingIs
<1>1. PICK Q : Q = Put(O, w, f, v)
  OBVIOUS
<1>2. IsPut(O, Q, w, f, v)
  BY <1>0, <1>1, SetLink
<1>3. P = Put(Q, what, next, NOTHING)
  BY <1>1
<1>4. IsPut(Q, P, what, next, NOTHING)
  <2>1. IsTable(Q) /\ what \in DOMAIN Q
    BY <1>2 DEF IsPut
  <2>. QED BY <1>0, <1>3, <2>1, SetLink
<1>5. \A x \in DOMAIN O : \A g \in Field :
         P[x][g] = IF x = what /\ g = next THEN NOTHING
                   ELSE IF x = w /\ g = f THEN v ELSE O[x][g]
  BY <1>2, <1>4 DEF IsPut
<1>6. Beside(O, P, list, next)
  BY <1>2, <1>4, <1>5 DEF Beside, IsPut
<1>. QED BY <1>1, <1>3, <1>5, <1>6

\* An object is taken out of the list it is in.
LEMMA RemoveKeeps ==
  ASSUME NEW O, IsTable(O), NEW U, Ups(O, U),
         NEW list \in LinkField, NEW next \in LinkField, list # next,
         Lists(O, U, list, next),
         NEW where \in DOMAIN O, NEW what \in DOMAIN O, U[what] = where
  PROVE  LET P == LL_REMOVE(O, where, list, what, next)
         IN  /\ Beside(O, P, list, next)
             /\ Lists(P, [U EXCEPT ![what] = NOTHING], list, next)
<1>0. /\ NOTHING \notin DOMAIN O /\ NOTHING \in Link /\ DOMAIN O \subseteq Link
      /\ list \in Field /\ next \in Field
      /\ \A x \in DOMAIN O : O[x][next] \in Link
  BY NothingIs DEF Field
<1>1. PICK s : Chain(O, s, O[where][list], next) /\ Has(O, U, s, where)
  BY DEF Lists
<1>2. PICK k \in 1..Len(s) : s[k] = what
  BY <1>1 DEF Has
<1>3. ListFrom(O, O[where][list], next) = s
  BY <1>1, ListFromIs
<1>4. /\ s \in Seq(DOMAIN O) /\ Len(s) \in Nat /\ \A i \in 1..Len(s) : s[i] \in DOMAIN O
      /\ O[where][list] = At(s, 1)
      /\ \A i \in 1..Len(s) : O[s[i]][next] = At(s, i + 1)
      /\ \A i, j \in 1..Len(s) : s[i] = s[j] => i = j
      /\ \A i \in Int : At(s, i) \in Link
  <2>1. s \in Seq(DOMAIN O)
    BY <1>1 DEF Chain
  <2>2. \A i \in Int : At(s, i) \in Link
    BY <1>0, <2>1 DEF At
  <2>. QED BY <1>1, <2>1, <2>2 DEF Chain
<1>5. PICK P : P = LL_REMOVE(O, where, list, what, next)
  OBVIOUS
<1>6. PICK w, f :
        /\ w \in DOMAIN O /\ f \in {list, next}
        /\ k = 1 => w = where /\ f = list
        /\ k > 1 => w = s[k - 1] /\ f = next
        /\ P = Put(Put(O, w, f, At(s, k + 1)), what, next, NOTHING)
  <2>1. O[what][next] = At(s, k + 1)
    BY <1>2, <1>4
  <2>2. CASE k = 1
    <3>1. O[where][list] = what
      BY <1>2, <1>4, <2>2 DEF At
    <3>2. P = Put(Put(O, where, list, O[what][next]), what, next, NOTHING)
      BY <1>5, <3>1 DEF LL_REMOVE, Put
    <3>. QED BY <2>1, <2>2, <3>2
  <2>3. CASE k > 1
    <3>1. O[where][list] # what
      BY <1>2, <1>4, <2>3 DEF At
    <3>. DEFINE I == {i \in 1..Len(s) : O[s[i]][next] = what}
    <3>2. I = {k - 1}
      <4>1. k - 1 \in 1..Len(s) /\ O[s[k - 1]][next] = s[k]
        BY <1>2, <1>4, <2>3 DEF At
      <4>2. ASSUME NEW i \in 1..Len(s), O[s[i]][next] = what PROVE i = k - 1
        <5>1. i + 1 \in 1..Len(s) /\ s[i + 1] = s[k]
          BY <1>0, <1>2, <1>4, <4>2 DEF At
        <5>. QED BY <1>2, <1>4, <5>1
      <4>. QED BY <1>2, <4>1, <4>2
    <3>3. SelectInSeq(s, LAMBDA lid : O[lid][next] = what) = k - 1
      <4>1. SelectInSeq(s, LAMBDA lid : O[lid][next] = what) = IF I # {} THEN Min(I) ELSE 0
        BY DEF SelectInSeq
      <4>2. Min({k - 1}) = k - 1
        BY DEF Min
      <4>. HIDE DEF I
      <4>. QED BY <3>2, <4>1, <4>2
    <3>4. k - 1 # 0 /\ s[k - 1] \in DOMAIN O
      BY <1>4, <2>3
    <3>5. P = Put(Put(O, s[k - 1], next, O[what][next]), what, next, NOTHING)
      BY <1>3, <1>5, <3>1, <3>3, <3>4 DEF LL_REMOVE, Put
    <3>. QED BY <2>1, <2>3, <3>4, <3>5
  <2>. QED BY <2>2, <2>3
<1>7. At(s, k + 1) \in Link
  BY <1>4
<1>8. /\ Beside(O, P, list, next)
      /\ \A x \in DOMAIN O : \A g \in Field :
           P[x][g] = IF x = what /\ g = next THEN NOTHING
                     ELSE IF x = w /\ g = f THEN At(s, k + 1) ELSE O[x][g]
  BY <1>6, <1>7, SetTwo
<1>9. PICK V : V = [U EXCEPT ![what] = NOTHING]
  OBVIOUS
<1>10. \A x \in DOMAIN O : V[x] = IF x = what THEN NOTHING ELSE U[x]
  BY <1>9 DEF Ups
<1>11. DOMAIN P = DOMAIN O
  BY <1>8 DEF Beside
<1>12. ASSUME NEW o \in DOMAIN O, o # where
       PROVE  \E t : Chain(P, t, P[o][list], next) /\ Has(P, V, t, o)
  <2>1. PICK t : Chain(O, t, O[o][list], next) /\ Has(O, U, t, o)
    BY DEF Lists
  <2>2. \A i \in 1..Len(t) : t[i] \in DOMAIN O /\ U[t[i]] = o
    BY <2>1 DEF Has, Chain
  <2>3. \A i \in 1..Len(s) : U[s[i]] = where
    BY <1>1, <1>4 DEF Has
  <2>4. \A i \in 1..Len(t) : P[t[i]][next] = O[t[i]][next]
    <3>1. ~(f = next /\ U[w] # where)
      <4>1. k = 1 => f = list
        BY <1>6
      <4>2. k > 1 => U[w] = where
        BY <1>2, <1>6, <2>3
      <4>. QED BY <1>2, <4>1, <4>2
    <3>2. ASSUME NEW x \in DOMAIN O, U[x] = o PROVE P[x][next] = O[x][next]
      <4>1. x # what /\ ~(x = w /\ next = f)
        BY <1>12, <3>1, <3>2
      <4>. QED BY <1>0, <1>8, <4>1
    <3>. QED BY <2>2, <3>2
  <2>5. P[o][list] = O[o][list]
    BY <1>0, <1>6, <1>8, <1>12
  <2>6. Chain(P, t, P[o][list], next)
    BY <1>11, <2>1, <2>4, <2>5, ChainKept
  <2>7. Has(P, V, t, o)
    BY <1>0, <1>10, <1>11, <1>12, <2>1 DEF Has
  <2>. QED BY <2>6, <2>7
<1>13. \E t : Chain(P, t, P[where][list], next) /\ Has(P, V, t, where)
  <2>1. PICK n \in Nat : n = Len(s)
    BY <1>4
  <2>2. PICK t : t = [i \in 1..(n - 1) |-> IF i < k THEN s[i] ELSE s[i + 1]]
    OBVIOUS
  <2>3. /\ t \in Seq(DOMAIN O) /\ Len(t) = n - 1
        /\ \A i \in 1..(n - 1) : t[i] = IF i < k THEN s[i] ELSE s[i + 1]
    <3>1. n - 1 \in Nat
      BY <1>2, <2>1
    <3>2. \A i \in 1..(n - 1) : (IF i < k THEN s[i] ELSE s[i + 1]) \in DOMAIN O
      BY <1>4, <2>1
    <3>. QED BY <2>2, <3>1, <3>2
  <2>4. P[where][list] = At(t, 1)
    <3>1. CASE k = 1
      BY <1>0, <1>4, <1>6, <1>8, <2>1, <2>3, <3>1 DEF At
    <3>2. CASE k > 1
      <4>1. P[where][list] = O[where][list]
        BY <1>0, <1>6, <1>8, <3>2
      <4>. QED BY <1>2, <1>4, <2>1, <2>3, <3>2, <4>1 DEF At
    <3>. QED BY <3>1, <3>2
  <2>5. ASSUME NEW i \in 1..Len(t) PROVE P[t[i]][next] = At(t, i + 1)
    <3>0. i \in 1..(n - 1) /\ i \in 1..n /\ i + 1 \in 1..n /\ i + 1 + 1 \in Int
      BY <2>3
    <3>1. CASE i < k - 1
      <4>1. t[i] = s[i] /\ s[i] \in DOMAIN O
        BY <1>4, <2>1, <2>3, <3>0, <3>1
      <4>2. s[i] # what /\ (k > 1 => s[i] # s[k - 1])
        BY <1>2, <1>4, <2>1, <3>0, <3>1
      <4>3. P[s[i]][next] = At(s, i + 1)
        BY <1>0, <1>4, <1>6, <1>8, <2>1, <3>0, <4>1, <4>2
      <4>. QED BY <2>1, <2>3, <3>0, <3>1, <4>1, <4>3 DEF At
    <3>2. CASE i = k - 1
      <4>1. t[i] = s[k - 1] /\ s[k - 1] \in DOMAIN O /\ k > 1
        BY <1>4, <2>1, <2>3, <3>0, <3>2
      <4>2. s[k - 1] # what
        BY <1>2, <1>4, <2>1, <3>0, <3>2
      <4>3. P[s[k - 1]][next] = At(s, k + 1)
        BY <1>0, <1>6, <1>8, <4>1, <4>2
      <4>. QED BY <2>1, <2>3, <3>0, <3>2, <4>1, <4>3 DEF At
    <3>3. CASE i >= k
      <4>1. t[i] = s[i + 1] /\ s[i + 1] \in DOMAIN O
        BY <1>4, <2>1, <2>3, <3>0, <3>3
      <4>2. s[i + 1] # what /\ (k > 1 => s[i + 1] # s[k - 1])
        BY <1>2, <1>4, <2>1, <3>0, <3>3
      <4>3. P[s[i + 1]][next] = At(s, i + 1 + 1)
        BY <1>0, <1>4, <1>6, <1>8, <2>1, <3>0, <4>1, <4>2
      <4>. QED BY <2>1, <2>3, <3>0, <3>3, <4>1, <4>3 DEF At
    <3>. QED BY <3>0, <3>1, <3>2, <3>3, <1>2
  <2>6. ASSUME NEW i \in 1..Len(t), NEW j \in 1..Len(t), t[i] = t[j] PROVE i = j
    <3>1. i \in 1..(n - 1) /\ j \in 1..(n - 1) /\ i + 1 \in 1..n /\ j + 1 \in 1..n
      BY <2>3
    <3>2. PICK a \in 1..n : t[i] = s[a] /\ a = IF i < k THEN i ELSE i + 1
      BY <2>3, <3>1
    <3>3. PICK b \in 1..n : t[j] = s[b] /\ b = IF j < k THEN j ELSE j + 1
      BY <2>3, <3>1
    <3>4. a = b
      BY <1>4, <2>1, <2>6, <3>2, <3>3
    <3>. QED BY <3>1, <3>2, <3>3, <3>4
  <2>7. Chain(P, t, P[where][list], next)
    BY <1>11, <2>3, <2>4, <2>5, <2>6 DEF Chain
  <2>8. ASSUME NEW p \in DOMAIN O PROVE V[p] = where <=> \E i \in 1..Len(t) : t[i] = p
    <3>1. CASE p = what
      <4>1. V[p] # where
        BY <1>0, <1>10, <3>1
      <4>2. ASSUME NEW i \in 1..Len(t) PROVE t[i] # what
        BY <1>2, <1>4, <2>1, <2>3
      <4>. QED BY <3>1, <4>1, <4>2
    <3>2. CASE p # what
      <4>1. V[p] = where <=> \E i \in 1..Len(s) : s[i] = p
        BY <1>1, <1>10, <3>2 DEF Has
      <4>2. ASSUME NEW i \in 1..Len(s), s[i] = p PROVE \E j \in 1..Len(t) : t[j] = p
        <5>1. i < k \/ i > k
          BY <1>2, <3>2, <4>2
        <5>2. CASE i < k
          <6>1. i \in 1..Len(t) /\ t[i] = p
            BY <1>2, <2>1, <2>3, <4>2, <5>2
          <6>. QED BY <6>1
        <5>3. CASE i > k
          <6>1. i - 1 \in 1..Len(t) /\ t[i - 1] = p
            BY <1>2, <2>1, <2>3, <4>2, <5>3
          <6>. QED BY <6>1
        <5>. QED BY <5>1, <5>2, <5>3
      <4>3. ASSUME NEW i \in 1..Len(t), t[i] = p PROVE \E j \in 1..Len(s) : s[j] = p
        <5>1. i \in 1..Len(s) /\ i + 1 \in 1..Len(s)
          BY <2>1, <2>3
        <5>. QED BY <2>3, <4>3, <5>1
      <4>. QED BY <4>1, <4>2, <4>3
    <3>. QED BY <3>1, <3>2
  <2>9. Has(P, V, t, where)
    BY <1>11, <2>8 DEF Has
  <2>. QED BY <2>7, <2>9
<1>14. Lists(P, V, list, next)
  BY <1>11, <1>12, <1>13 DEF Lists
<1>. QED BY <1>5, <1>8, <1>9, <1>14

\* An object that is in no list is put at the end of one.
LEMMA AppendKeeps ==
  ASSUME NEW O, IsTable(O), NEW U, Ups(O, U),
         NEW list \in LinkField, NEW next \in LinkField, list # next,
         Lists(O, U, list, next),
         NEW where \in DOMAIN O, NEW what \in DOMAIN O, U[what] = NOTHING
  PROVE  LET P == LL_APPEND(O, where, list, what, next)
         IN  /\ Beside(O, P, list, next)
             /\ Lists(P, [U EXCEPT ![what] = where], list, next)
<1>0. /\ NOTHING \notin DOMAIN O /\ NOTHING \in Link /\ DOMAIN O \subseteq Link
      /\ list \in Field /\ next \in Field
      /\ \A x \in DOMAIN O : O[x][next] \in Link
  BY NothingIs DEF Field
<1>1. PICK s : Chain(O, s, O[where][list], next) /\ Has(O, U, s, where)
  BY DEF Lists
<1>3. ListFrom(O, O[where][list], next) = s
  BY <1>1, ListFromIs
<1>4. /\ s \in Seq(DOMAIN O) /\ Len(s) \in Nat /\ \A i \in 1..Len(s) : s[i] \in DOMAIN O
      /\ O[where][list] = At(s, 1)
      /\ \A i \in 1..Len(s) : O[s[i]][next] = At(s, i + 1)
      /\ \A i, j \in 1..Len(s) : s[i] = s[j] => i = j
      /\ \A i \in 1..Len(s) : U[s[i]] = where /\ s[i] # what
  <2>1. s \in Seq(DOMAIN O)
    BY <1>1 DEF Chain
  <2>2. \A i \in 1..Len(s) : U[s[i]] = where /\ s[i] # what
    BY <1>0, <1>1, <2>1 DEF Has
  <2>. QED BY <1>1, <2>1, <2>2 DEF Chain
<1>5. PICK P : P = LL_APPEND(O, where, list, what, next)
  OBVIOUS
<1>6. PICK w, f :
        /\ w \in DOMAIN O /\ f \in {list, next}
        /\ Len(s) = 0 => w = where /\ f = list
        /\ Len(s) > 0 => w = s[Len(s)] /\ f = next
        /\ P = Put(Put(O, w, f, what), what, next, NOTHING)
  <2>1. CASE Len(s) = 0
    <3>1. s = <<>>
      BY <1>4, <2>1
    <3>2. P = Put(Put(O, where, list, what), what, next, NOTHING)
      BY <1>3, <1>5, <3>1 DEF LL_APPEND, Put
    <3>. QED BY <2>1, <3>2
  <2>2. CASE Len(s) > 0
    <3>1. s # <<>> /\ Last(s) = s[Len(s)] /\ s[Len(s)] \in DOMAIN O
      BY <1>4, <2>2 DEF Last
    <3>2. P = Put(Put(O, s[Len(s)], next, what), what, next, NOTHING)
      BY <1>3, <1>5, <3>1 DEF LL_APPEND, Put
    <3>. QED BY <2>2, <3>1, <3>2
  <2>. QED BY <1>4, <2>1, <2>2
<1>8. /\ Beside(O, P, list, next)
      /\ \A x \in DOMAIN O : \A g \in Field :
           P[x][g] = IF x = what /\ g = next THEN NOTHING
                     ELSE IF x = w /\ g = f THEN what ELSE O[x][g]
  <2>1. PICK v \in Link : v = what
    BY <1>0
  <2>2. P = Put(Put(O, w, f, v), what, next, NOTHING)
    BY <1>6, <2>1
  <2>3. /\ Beside(O, P, list, next)
        /\ \A x \in DOMAIN O : \A g \in Field :
             P[x][g] = IF x = what /\ g = next THEN NOTHING
                       ELSE IF x = w /\ g = f THEN v ELSE O[x][g]
    BY <1>6, <2>2, SetTwo
  <2>. QED BY <2>1, <2>3
<1>9. PICK V : V = [U EXCEPT ![what] = where]
  OBVIOUS
<1>10. \A x \in DOMAIN O : V[x] = IF x = what THEN where ELSE U[x]
  BY <1>9 DEF Ups
<1>11. DOMAIN P = DOMAIN O
  BY <1>8 DEF Beside
<1>12. ASSUME NEW o \in DOMAIN O, o # where
       PROVE  \E t : Chain(P, t, P[o][list], next) /\ Has(P, V, t, o)
  <2>1. PICK t : Chain(O, t, O[o][list], next) /\ Has(O, U, t, o)
    BY DEF Lists
  <2>2. \A i \in 1..Len(t) : t[i] \in DOMAIN O /\ U[t[i]] = o
    BY <2>1 DEF Has, Chain
  <2>3. \A i \in 1..Len(t) : t[i] # what /\ (f = next => t[i] # w)
    <3>1. f = next => U[w] = where
      BY <1>4, <1>6
    <3>. QED BY <1>0, <1>12, <2>2, <3>1
  <2>4. \A i \in 1..Len(t) : P[t[i]][next] = O[t[i]][next]
    BY <1>0, <1>6, <1>8, <2>2, <2>3
  <2>5. P[o][list] = O[o][list]
    BY <1>0, <1>4, <1>6, <1>8, <1>12
  <2>6. Chain(P, t, P[o][list], next)
    BY <1>11, <2>1, <2>4, <2>5, ChainKept
  <2>7. Has(P, V, t, o)
    BY <1>0, <1>10, <1>11, <1>12, <2>1, <2>3 DEF Has
  <2>. QED BY <2>6, <2>7
<1>13. \E t : Chain(P, t, P[where][list], next) /\ Has(P, V, t, where)
  <2>1. PICK n \in Nat : n = Len(s)
    BY <1>4
  <2>2. PICK t : t = [i \in 1..(n + 1) |-> IF i <= n THEN s[i] ELSE what]
    OBVIOUS
  <2>3. /\ t \in Seq(DOMAIN O) /\ Len(t) = n + 1
        /\ \A i \in 1..(n + 1) : t[i] = IF i <= n THEN s[i] ELSE what
    <3>1. n + 1 \in Nat
      OBVIOUS
    <3>2. \A i \in 1..(n + 1) : (IF i <= n THEN s[i] ELSE what) \in DOMAIN O
      BY <1>4, <2>1
    <3>. QED BY <2>2, <3>1, <3>2
  <2>4. P[where][list] = At(t, 1)
    <3>1. CASE n = 0
      BY <1>0, <1>6, <1>8, <2>1, <2>3, <3>1 DEF At
    <3>2. CASE n > 0
      <4>1. P[where][list] = O[where][list]
        BY <1>0, <1>6, <1>8, <2>1, <3>2
      <4>. QED BY <1>4, <2>1, <2>3, <3>2, <4>1 DEF At
    <3>. QED BY <3>1, <3>2
  <2>5. ASSUME NEW i \in 1..Len(t) PROVE P[t[i]][next] = At(t, i + 1)
    <3>1. CASE i < n
      <4>1. t[i] = s[i] /\ s[i] \in DOMAIN O /\ i \in 1..Len(s)
        BY <1>4, <2>1, <2>3, <3>1
      <4>2. s[i] # what /\ s[i] # s[n]
        BY <1>4, <2>1, <3>1, <4>1
      <4>3. P[s[i]][next] = At(s, i + 1)
        BY <1>0, <1>4, <1>6, <1>8, <2>1, <3>1, <4>1, <4>2
      <4>. QED BY <2>1, <2>3, <3>1, <4>1, <4>3 DEF At
    <3>2. CASE i = n
      <4>1. t[i] = s[n] /\ s[n] \in DOMAIN O /\ n \in 1..Len(s) /\ s[n] # what
        BY <1>4, <2>1, <2>3, <3>2
      <4>3. P[s[n]][next] = what
        BY <1>0, <1>6, <1>8, <2>1, <4>1
      <4>. QED BY <2>1, <2>3, <3>2, <4>1, <4>3 DEF At
    <3>3. CASE i = n + 1
      <4>1. t[i] = what
        BY <2>3, <3>3
      <4>2. P[what][next] = NOTHING
        BY <1>0, <1>8
      <4>. QED BY <2>3, <3>3, <4>1, <4>2 DEF At
    <3>. QED BY <2>3, <3>1, <3>2, <3>3
  <2>6. ASSUME NEW i \in 1..Len(t), NEW j \in 1..Len(t), t[i] = t[j] PROVE i = j
    <3>1. i \in 1..(n + 1) /\ j \in 1..(n + 1)
      BY <2>3
    <3>2. CASE i <= n /\ j <= n
      BY <1>4, <2>1, <2>3, <2>6, <3>1, <3>2
    <3>3. CASE i = n + 1 /\ j <= n
      BY <1>4, <2>1, <2>3, <2>6, <3>1, <3>3
    <3>4. CASE i <= n /\ j = n + 1
      BY <1>4, <2>1, <2>3, <2>6, <3>1, <3>4
    <3>. QED BY <3>1, <3>2, <3>3, <3>4
  <2>7. Chain(P, t, P[where][list], next)
    BY <1>11, <2>3, <2>4, <2>5, <2>6 DEF Chain
  <2>8. ASSUME NEW p \in DOMAIN O PROVE V[p] = where <=> \E i \in 1..Len(t) : t[i] = p
    <3>1. CASE p = what
      <4>1. V[p] = where
        BY <1>10, <3>1
      <4>2. n + 1 \in 1..Len(t) /\ t[n + 1] = what
        BY <2>3
      <4>. QED BY <3>1, <4>1, <4>2
    <3>2. CASE p # what
      <4>1. V[p] = where <=> \E i \in 1..Len(s) : s[i] = p
        BY <1>1, <1>10, <3>2 DEF Has
      <4>2. ASSUME NEW i \in 1..Len(s), s[i] = p PROVE \E j \in 1..Len(t) : t[j] = p
        <5>1. i \in 1..Len(t) /\ t[i] = p
          BY <2>1, <2>3, <4>2
        <5>. QED BY <5>1
      <4>3. ASSUME NEW i \in 1..Len(t), t[i] = p PROVE \E j \in 1..Len(s) : s[j] = p
        <5>1. i \in 1..Len(s) /\ s[i] = p
          BY <2>1, <2>3, <3>2, <4>3
        <5>. QED BY <5>1
      <4>. QED BY <4>1, <4>2, <4>3
    <3>. QED BY <3>1, <3>2
  <2>9. Has(P, V, t, where)
    BY <1>11, <2>8 DEF Has
  <2>. QED BY <2>7, <2>9
<1>14. Lists(P, V, list, next)
  BY <1>11, <1>12, <1>13 DEF Lists
<1>. QED BY <1>5, <1>8, <1>9, <1>14

-----------------------------------------------------------------------------
(* A hierarchy of objects, and how db_change_parent() and                  *)
(* db_change_location() change it                                          *)

UpOf(O, up) == [o \in DOMAIN O |-> O[o][up]]

\* The two records of a hierarchy agree.
Hier(O, up, list, next) ==
  /\ Ups(O, UpOf(O, up))
  /\ Lists(O, UpOf(O, up), list, next)

\* up, list and next are three fields.
Three(up, list, next) ==
  /\ up \in LinkField /\ list \in LinkField /\ next \in LinkField
  /\ up # list /\ up # next /\ list # next

\* Everything but the two list fields stays, only the up-link of oid is v.
Changed(O, P, oid, v, up, list, next) ==
  /\ IsTable(P)
  /\ DOMAIN P = DOMAIN O
  /\ Hier(P, up, list, next)
  /\ \A x \in DOMAIN O : \A f \in Field \ {list, next} :
       P[x][f] = IF x = oid /\ f = up THEN v ELSE O[x][f]

\* A hierarchy stays when its fields do.
LEMMA HierKept ==
  ASSUME NEW O, NEW P, NEW up, NEW list, NEW next, Hier(O, up, list, next),
         DOMAIN P = DOMAIN O,
         \A x \in DOMAIN O : \A f \in {up, list, next} : P[x][f] = O[x][f]
  PROVE  Hier(P, up, list, next)
<1>1. UpOf(P, up) = UpOf(O, up)
  BY DEF UpOf
<1>2. ASSUME NEW o \in DOMAIN P
      PROVE  \E s : Chain(P, s, P[o][list], next) /\ Has(P, UpOf(P, up), s, o)
  <2>1. PICK s : Chain(O, s, O[o][list], next) /\ Has(O, UpOf(O, up), s, o)
    BY DEF Hier, Lists
  <2>2. \A i \in 1..Len(s) : s[i] \in DOMAIN O
    BY <2>1 DEF Chain
  <2>3. Chain(P, s, P[o][list], next)
    BY <2>1, <2>2, ChainKept
  <2>4. Has(P, UpOf(P, up), s, o)
    BY <1>1, <2>1 DEF Has
  <2>. QED BY <2>3, <2>4
<1>. QED BY <1>1, <1>2 DEF Hier, Ups, Lists

\* The two operators in their common form.
ToChange(O, oid, v, up, list, next) ==
  LET old == O[oid][up]
      P   == IF old = NOTHING THEN O ELSE LL_REMOVE(O, old, list, oid, next)
      Q   == IF v = NOTHING THEN P ELSE LL_APPEND(P, v, list, oid, next)
  IN Put(Q, oid, up, v)

\* The object leaves one list for another.
LEMMA ChangeKeeps ==
  ASSUME NEW O, IsTable(O), NEW up, NEW list, NEW next, Three(up, list, next),
         Hier(O, up, list, next), NEW oid \in DOMAIN O, NEW v \in DOMAIN O \cup {NOTHING}
  PROVE  Changed(O, ToChange(O, oid, v, up, list, next), oid, v, up, list, next)
<1>0. /\ NOTHING \notin DOMAIN O /\ NOTHING \in Link /\ DOMAIN O \subseteq Link
      /\ up \in Field /\ list \in Field /\ next \in Field
      /\ up \in LinkField /\ list \in LinkField /\ next \in LinkField /\ list # next
  BY NothingIs DEF Field, Three
<1>1. PICK U : U = UpOf(O, up)
  OBVIOUS
<1>2. /\ Ups(O, U) /\ Lists(O, U, list, next)
      /\ \A x \in DOMAIN O : U[x] = O[x][up]
      /\ U[oid] \in DOMAIN O \cup {NOTHING}
  BY <1>1 DEF Hier, UpOf, Ups
<1>3. PICK V : V = [U EXCEPT ![oid] = NOTHING]
  OBVIOUS
<1>4. Ups(O, V) /\ V[oid] = NOTHING /\ \A x \in DOMAIN O : V[x] = IF x = oid THEN NOTHING ELSE U[x]
  BY <1>2, <1>3 DEF Ups
<1>5. PICK W : W = [V EXCEPT ![oid] = v]
  OBVIOUS
<1>6. Ups(O, W) /\ \A x \in DOMAIN O : W[x] = IF x = oid THEN v ELSE U[x]
  BY <1>4, <1>5 DEF Ups
<1>7. PICK P : P = IF U[oid] = NOTHING THEN O ELSE LL_REMOVE(O, U[oid], list, oid, next)
  OBVIOUS
<1>8. Beside(O, P, list, next) /\ Lists(P, V, list, next)
  <2>1. CASE U[oid] = NOTHING
    <3>1. V = U
      BY <1>2, <1>3, <2>1 DEF Ups
    <3>. QED BY <1>2, <1>7, <2>1, <3>1 DEF Beside
  <2>2. CASE U[oid] # NOTHING
    <3>1. PICK where \in DOMAIN O : where = U[oid]
      BY <1>2, <2>2
    <3>2. P = LL_REMOVE(O, where, list, oid, next)
      BY <1>7, <2>2, <3>1
    <3>. QED BY <1>0, <1>2, <1>3, <3>1, <3>2, RemoveKeeps
  <2>. QED BY <2>1, <2>2
<1>9. IsTable(P) /\ DOMAIN P = DOMAIN O /\ Ups(P, V)
  BY <1>4, <1>8 DEF Beside, Ups
<1>10. PICK Q : Q = IF v = NOTHING THEN P ELSE LL_APPEND(P, v, list, oid, next)
  OBVIOUS
<1>11. Beside(P, Q, list, next) /\ Lists(Q, W, list, next)
  <2>1. CASE v = NOTHING
    <3>1. W = V
      BY <1>4, <1>5, <2>1 DEF Ups
    <3>. QED BY <1>8, <1>9, <1>10, <2>1, <3>1 DEF Beside
  <2>2. CASE v # NOTHING
    <3>1. v \in DOMAIN P /\ oid \in DOMAIN P
      BY <1>9, <2>2
    <3>2. Q = LL_APPEND(P, v, list, oid, next)
      BY <1>10, <2>2
    <3>. QED BY <1>0, <1>4, <1>5, <1>8, <1>9, <3>1, <3>2, AppendKeeps
  <2>. QED BY <2>1, <2>2
<1>12. IsTable(Q) /\ DOMAIN Q = DOMAIN O /\ \A x \in DOMAIN O : \A f \in Field \ {list, next} : Q[x][f] = O[x][f]
  BY <1>8, <1>9, <1>11 DEF Beside
<1>13. PICK R : R = Put(Q, oid, up, v)
  OBVIOUS
<1>14. IsPut(Q, R, oid, up, v)
  <2>1. v \in Link /\ oid \in DOMAIN Q
    BY <1>0, <1>12
  <2>. QED BY <1>0, <1>12, <1>13, <2>1, SetLink
<1>15. R = ToChange(O, oid, v, up, list, next)
  BY <1>2, <1>7, <1>10, <1>13 DEF ToChange
<1>16. \A x \in DOMAIN O : \A f \in Field \ {list, next} : R[x][f] = IF x = oid /\ f = up THEN v ELSE O[x][f]
  BY <1>12, <1>14 DEF IsPut
<1>17. IsTable(R) /\ DOMAIN R = DOMAIN O
  BY <1>12, <1>14 DEF IsPut
<1>18. UpOf(R, up) = W
  <2>1. \A x \in DOMAIN O : R[x][up] = W[x]
    BY <1>0, <1>2, <1>6, <1>16 DEF Three
  <2>. QED BY <1>6, <1>17, <2>1 DEF UpOf, Ups
<1>19. Lists(R, W, list, next)
  <2>. SUFFICES ASSUME NEW o \in DOMAIN O PROVE \E s : Chain(R, s, R[o][list], next) /\ Has(R, W, s, o)
    BY <1>17 DEF Lists
  <2>1. PICK s : Chain(Q, s, Q[o][list], next) /\ Has(Q, W, s, o)
    BY <1>11, <1>12 DEF Lists
  <2>2. \A i \in 1..Len(s) : s[i] \in DOMAIN Q
    BY <2>1 DEF Chain
  <2>3. \A i \in 1..Len(s) : R[s[i]][next] = Q[s[i]][next]
    BY <1>0, <1>14, <2>2 DEF IsPut, Three
  <2>4. R[o][list] = Q[o][list]
    BY <1>0, <1>12, <1>14 DEF IsPut, Three
  <2>5. Chain(R, s, R[o][list], next)
    BY <1>12, <1>17, <2>1, <2>3, <2>4, ChainKept
  <2>6. Has(R, W, s, o)
    BY <1>12, <1>17, <2>1 DEF Has
  <2>. QED BY <2>5, <2>6
<1>20. Hier(R, up, list, next)
  BY <1>6, <1>17, <1>18, <1>19 DEF Hier, Ups
<1>. QED BY <1>15, <1>16, <1>17, <1>20 DEF Changed

\* The table of objects as it should be.
Sound(O) ==
  /\ IsTable(O)
  /\ Hier(O, "parent", "child", "sibling")
  /\ Hier(O, "location", "contents", "next")

\* A sound table with another parent of oid, or another location.
NewParent(O, P, oid, v) ==
  /\ Sound(P) /\ DOMAIN P = DOMAIN O
  /\ \A x \in DOMAIN O : /\ P[x].parent = IF x = oid THEN v ELSE O[x].parent
                         /\ P[x].location = O[x].location
                         /\ P[x].user = O[x].user

NewLocation(O, P, oid, v) ==
  /\ Sound(P) /\ DOMAIN P = DOMAIN O
  /\ \A x \in DOMAIN O : /\ P[x].location = IF x = oid THEN v ELSE O[x].location
                         /\ P[x].parent = O[x].parent
                         /\ P[x].user = O[x].user

\* db_change_parent() takes an object from one list of children to another.
LEMMA ChangeParent ==
  ASSUME NEW O, Sound(O), NEW oid \in DOMAIN O, NEW v \in DOMAIN O \cup {NOTHING}
  PROVE  NewParent(O, db_change_parent(O, oid, v), oid, v)
<1>1. PICK up, list, next : up = "parent" /\ list = "child" /\ next = "sibling"
  OBVIOUS
<1>2. Three(up, list, next) /\ Hier(O, up, list, next) /\ IsTable(O)
  BY <1>1 DEF Three, LinkField, Sound
<1>3. PICK P : P = ToChange(O, oid, v, up, list, next)
  OBVIOUS
<1>4. Changed(O, P, oid, v, up, list, next)
  BY <1>2, <1>3, ChangeKeeps
<1>5. P = db_change_parent(O, oid, v)
  BY <1>1, <1>3 DEF ToChange, Put, db_change_parent
<1>6. \A x \in DOMAIN O : \A f \in {"location", "contents", "next"} : P[x][f] = O[x][f]
  BY <1>1, <1>4 DEF Changed, Field, LinkField
<1>7. Hier(P, "location", "contents", "next")
  BY <1>4, <1>6, HierKept DEF Changed, Sound
<1>8. Sound(P)
  BY <1>1, <1>4, <1>7 DEF Sound, Changed
<1>9. \A x \in DOMAIN O : /\ P[x].parent = IF x = oid THEN v ELSE O[x].parent
                          /\ P[x].location = O[x].location
                          /\ P[x].user = O[x].user
  BY <1>1, <1>4 DEF Changed, Field, LinkField
<1>. QED BY <1>4, <1>5, <1>8, <1>9 DEF NewParent, Changed

\* db_change_location() takes an object from one list of contents to another.
LEMMA ChangeLocation ==
  ASSUME NEW O, Sound(O), NEW oid \in DOMAIN O, NEW v \in DOMAIN O \cup {NOTHING}
  PROVE  NewLocation(O, db_change_location(O, oid, v), oid, v)
<1>1. PICK up, list, next : up = "location" /\ list = "contents" /\ next = "next"
  OBVIOUS
<1>2. Three(up, list, next) /\ Hier(O, up, list, next) /\ IsTable(O)
  BY <1>1 DEF Three, LinkField, Sound
<1>3. PICK P : P = ToChange(O, oid, v, up, list, next)
  OBVIOUS
<1>4. Changed(O, P, oid, v, up, list, next)
  BY <1>2, <1>3, ChangeKeeps
<1>5. P = db_change_location(O, oid, v)
  <2>1. valid(O, O[oid][up]) <=> O[oid][up] # NOTHING
    BY <1>2, NothingIs DEF valid, Hier, Ups, UpOf
  <2>2. valid(O, v) <=> v # NOTHING
    BY <1>2, NothingIs DEF valid
  <2>. QED BY <1>1, <1>3, <2>1, <2>2 DEF ToChange, Put, db_change_location
<1>6. \A x \in DOMAIN O : \A f \in {"parent", "child", "sibling"} : P[x][f] = O[x][f]
  BY <1>1, <1>4 DEF Changed, Field, LinkField
<1>7. Hier(P, "parent", "child", "sibling")
  BY <1>4, <1>6, HierKept DEF Changed, Sound
<1>8. Sound(P)
  BY <1>1, <1>4, <1>7 DEF Sound, Changed
<1>9. \A x \in DOMAIN O : /\ P[x].location = IF x = oid THEN v ELSE O[x].location
                          /\ P[x].parent = O[x].parent
                          /\ P[x].user = O[x].user
  BY <1>1, <1>4 DEF Changed, Field, LinkField
<1>. QED BY <1>4, <1>5, <1>8, <1>9 DEF NewLocation, Changed

-----------------------------------------------------------------------------
(* No loops                                                                *)

\* h shows that the up-links have no loop: it falls from an object to the
\* one above.
Height(O, up, h) ==
  /\ h \in [DOMAIN O -> Nat]
  /\ \A o \in DOMAIN O : O[o][up] # NOTHING => h[O[o][up]] < h[o]

Ranked(O, up) == \E h : Height(O, up, h)

\* The way up from an object is a list, by induction on the height.
LEMMA WayUp ==
  ASSUME NEW O, IsTable(O), NEW up, Ups(O, UpOf(O, up)), NEW h, Height(O, up, h)
  PROVE  \A o \in DOMAIN O : \E s : Chain(O, s, o, up)
<1>. DEFINE Good(o) == \E s : Chain(O, s, o, up) /\ \A i \in 1..Len(s) : h[s[i]] <= h[o]
            S == {n \in Nat : \A o \in DOMAIN O : h[o] < n => Good(o)}
<1>1. 0 \in S
  BY DEF Height
<1>2. ASSUME NEW n \in Nat, n \in S PROVE n + 1 \in S
  <2>. SUFFICES ASSUME NEW o \in DOMAIN O, h[o] < n + 1 PROVE Good(o)
    OBVIOUS
  <2>0. h[o] \in Nat /\ NOTHING \notin DOMAIN O
    BY NothingIs DEF Height
  <2>1. CASE O[o][up] = NOTHING
    <3>1. PICK s : s = <<o>>
      OBVIOUS
    <3>2. s \in Seq(DOMAIN O) /\ Len(s) = 1 /\ s[1] = o
      BY <3>1
    <3>3. \A i \in 1..Len(s) : i = 1
      BY <3>2
    <3>4. Chain(O, s, o, up)
      BY <2>1, <3>2, <3>3 DEF Chain, At
    <3>. QED BY <2>0, <3>2, <3>3, <3>4
  <2>2. CASE O[o][up] # NOTHING
    <3>1. PICK p \in DOMAIN O : p = O[o][up]
      BY <2>2 DEF Ups, UpOf
    <3>2. h[p] \in Nat /\ h[p] < h[o] /\ h[p] < n
      BY <2>0, <2>2, <3>1 DEF Height
    <3>3. PICK t : Chain(O, t, p, up) /\ \A i \in 1..Len(t) : h[t[i]] <= h[p]
      BY <1>2, <3>2
    <3>4. /\ t \in Seq(DOMAIN O) /\ Len(t) \in Nat /\ \A i \in 1..Len(t) : t[i] \in DOMAIN O
          /\ p = At(t, 1)
          /\ \A i \in 1..Len(t) : O[t[i]][up] = At(t, i + 1)
          /\ \A i, j \in 1..Len(t) : t[i] = t[j] => i = j
      BY <3>3 DEF Chain
    <3>5. \A i \in 1..Len(t) : h[t[i]] \in Nat /\ h[t[i]] < h[o] /\ t[i] # o
      BY <2>0, <3>2, <3>3, <3>4 DEF Height
    <3>6. PICK m \in Nat : m = Len(t)
      BY <3>4
    <3>7. PICK s : s = [i \in 1..(m + 1) |-> IF i = 1 THEN o ELSE t[i - 1]]
      OBVIOUS
    <3>8. /\ s \in Seq(DOMAIN O) /\ Len(s) = m + 1 /\ s[1] = o
          /\ \A i \in 1..(m + 1) : s[i] = IF i = 1 THEN o ELSE t[i - 1]
      <4>1. \A i \in 1..(m + 1) : (IF i = 1 THEN o ELSE t[i - 1]) \in DOMAIN O
        BY <3>4, <3>6
      <4>. QED BY <3>7, <4>1
    <3>9. o = At(s, 1)
      BY <3>8 DEF At
    <3>10. ASSUME NEW i \in 1..Len(s) PROVE O[s[i]][up] = At(s, i + 1)
      <4>1. i \in 1..(m + 1)
        BY <3>8
      <4>2. CASE i = 1
        <5>1. m # 0
          BY <3>1, <3>4, <3>6, <2>0 DEF At
        <5>2. At(s, 1 + 1) = t[1] /\ t[1] = p
          BY <3>4, <3>6, <3>8, <5>1 DEF At
        <5>. QED BY <3>1, <3>8, <4>2, <5>2
      <4>3. CASE i # 1
        <5>1. i - 1 \in 1..Len(t) /\ s[i] = t[i - 1] /\ i - 1 + 1 = i
          BY <3>6, <3>8, <4>1, <4>3
        <5>2. O[s[i]][up] = At(t, i)
          BY <3>4, <5>1
        <5>. QED BY <3>6, <3>8, <4>1, <4>3, <5>2 DEF At
      <4>. QED BY <4>2, <4>3
    <3>11. ASSUME NEW i \in 1..Len(s), NEW j \in 1..Len(s), s[i] = s[j] PROVE i = j
      <4>1. i \in 1..(m + 1) /\ j \in 1..(m + 1)
        BY <3>8
      <4>2. CASE i = 1 /\ j # 1
        BY <3>5, <3>6, <3>8, <3>11, <4>1, <4>2
      <4>3. CASE i # 1 /\ j = 1
        BY <3>5, <3>6, <3>8, <3>11, <4>1, <4>3
      <4>4. CASE i # 1 /\ j # 1
        <5>1. i - 1 \in 1..Len(t) /\ j - 1 \in 1..Len(t) /\ t[i - 1] = t[j - 1]
          BY <3>6, <3>8, <3>11, <4>1, <4>4
        <5>2. i - 1 = j - 1
          BY <3>4, <5>1
        <5>. QED BY <4>1, <5>2
      <4>. QED BY <4>2, <4>3, <4>4
    <3>12. Chain(O, s, o, up)
      BY <3>8, <3>9, <3>10, <3>11 DEF Chain
    <3>13. ASSUME NEW i \in 1..Len(s) PROVE h[s[i]] <= h[o]
      <4>1. CASE i = 1
        BY <2>0, <3>8, <4>1
      <4>2. CASE i # 1
        <5>1. i - 1 \in 1..Len(t) /\ s[i] = t[i - 1]
          BY <3>6, <3>8, <4>2
        <5>2. h[t[i - 1]] \in Nat /\ h[t[i - 1]] < h[o]
          BY <3>5, <5>1
        <5>. QED BY <2>0, <5>1, <5>2
      <4>. QED BY <4>1, <4>2
    <3>. QED BY <3>12, <3>13
  <2>. QED BY <2>1, <2>2
<1>3. \A n \in Nat : n \in S
  <2>. HIDE DEF S
  <2>. QED BY <1>1, <1>2, NatInd
<1>. SUFFICES ASSUME NEW o \in DOMAIN O PROVE \E s : Chain(O, s, o, up)
  OBVIOUS
<1>4. h[o] + 1 \in Nat /\ h[o] < h[o] + 1
  BY DEF Height
<1>. HIDE DEF Good
<1>5. Good(o)
  BY <1>3, <1>4
<1>. QED BY <1>5 DEF Good

\* What Around looks for: the object itself, and then whatever is above.
LEMMA AroundIs ==
  ASSUME NEW O, IsTable(O), NEW up \in LinkField, Ups(O, UpOf(O, up)), Ranked(O, up), NEW what
  PROVE  /\ ~Around(O, what, NOTHING, up)
         /\ \A o \in DOMAIN O : Around(O, what, o, up) <=> what = o \/ Around(O, what, O[o][up], up)
         /\ \A o \in DOMAIN O : ~Around(O, o, O[o][up], up)
<1>1. ~Around(O, what, NOTHING, up)
  <2>1. Chain(O, <<>>, NOTHING, up)
    BY DEF Chain, At
  <2>2. ListFrom(O, NOTHING, up) = <<>>
    <3>1. PICK s : s = <<>>
      OBVIOUS
    <3>. QED BY <2>1, <3>1, ListFromIs
  <2>. QED BY <2>2 DEF Around, ToSet
<1>2. ASSUME NEW o \in DOMAIN O
      PROVE  /\ Around(O, what, o, up) <=> what = o \/ Around(O, what, O[o][up], up)
             /\ ~Around(O, o, O[o][up], up)
  <2>1. PICK s : Chain(O, s, o, up)
    BY WayUp DEF Ranked
  <2>2. /\ s \in Seq(DOMAIN O) /\ Len(s) \in Nat /\ \A i \in 1..Len(s) : s[i] \in DOMAIN O
        /\ o = At(s, 1)
        /\ \A i \in 1..Len(s) : O[s[i]][up] = At(s, i + 1)
        /\ \A i, j \in 1..Len(s) : s[i] = s[j] => i = j
    BY <2>1 DEF Chain
  <2>3. PICK n \in Nat : n = Len(s)
    BY <2>2
  <2>4. n >= 1 /\ s[1] = o
    BY <2>2, <2>3, NothingIs DEF At
  <2>5. PICK t : t = [i \in 1..(n - 1) |-> s[i + 1]]
    OBVIOUS
  <2>6. /\ t \in Seq(DOMAIN O) /\ Len(t) = n - 1 /\ n - 1 \in Nat
        /\ \A i \in 1..(n - 1) : t[i] = s[i + 1]
    <3>1. n - 1 \in Nat /\ \A i \in 1..(n - 1) : s[i + 1] \in DOMAIN O
      BY <2>2, <2>3, <2>4
    <3>. QED BY <2>5, <3>1
  <2>7. O[o][up] = At(t, 1)
    <3>1. O[o][up] = At(s, 1 + 1)
      BY <2>2, <2>3, <2>4
    <3>. QED BY <2>3, <2>6, <3>1 DEF At
  <2>8. ASSUME NEW i \in 1..Len(t) PROVE O[t[i]][up] = At(t, i + 1)
    <3>1. i + 1 \in 1..Len(s) /\ t[i] = s[i + 1]
      BY <2>3, <2>6
    <3>2. O[t[i]][up] = At(s, i + 1 + 1)
      BY <2>2, <3>1
    <3>. QED BY <2>3, <2>6, <3>2 DEF At
  <2>9. ASSUME NEW i \in 1..Len(t), NEW j \in 1..Len(t), t[i] = t[j] PROVE i = j
    <3>1. i + 1 \in 1..Len(s) /\ j + 1 \in 1..Len(s) /\ s[i + 1] = s[j + 1]
      BY <2>3, <2>6, <2>9
    <3>2. i + 1 = j + 1
      BY <2>2, <3>1
    <3>. QED BY <3>2
  <2>10. Chain(O, t, O[o][up], up)
    BY <2>6, <2>7, <2>8, <2>9 DEF Chain
  <2>11. ListFrom(O, o, up) = s /\ ListFrom(O, O[o][up], up) = t
    BY <2>1, <2>10, ListFromIs
  <2>12. \A x : Around(O, x, o, up) <=> \E i \in 1..n : s[i] = x
    BY <2>2, <2>3, <2>11 DEF Around, ToSet
  <2>13. \A x : Around(O, x, O[o][up], up) <=> \E i \in 1..(n - 1) : t[i] = x
    BY <2>6, <2>11 DEF Around, ToSet
  <2>14. Around(O, what, o, up) => what = o \/ Around(O, what, O[o][up], up)
    <3>. SUFFICES ASSUME NEW i \in 1..n, s[i] = what, what # o PROVE \E j \in 1..(n - 1) : t[j] = what
      BY <2>12, <2>13
    <3>1. i - 1 \in 1..(n - 1) /\ t[i - 1] = what
      BY <2>4, <2>6
    <3>. QED BY <3>1
  <2>15. what = o \/ Around(O, what, O[o][up], up) => Around(O, what, o, up)
    <3>1. CASE what = o
      BY <2>4, <2>12, <3>1
    <3>2. CASE Around(O, what, O[o][up], up)
      <4>1. PICK i \in 1..(n - 1) : t[i] = what
        BY <2>13, <3>2
      <4>2. i + 1 \in 1..n /\ s[i + 1] = what
        BY <2>6, <4>1
      <4>. QED BY <2>12, <4>2
    <3>. QED BY <3>1, <3>2
  <2>16. ~Around(O, o, O[o][up], up)
    <3>. SUFFICES ASSUME NEW i \in 1..(n - 1), t[i] = o PROVE FALSE
      BY <2>13
    <3>1. i + 1 \in 1..Len(s) /\ 1 \in 1..Len(s) /\ s[i + 1] = s[1]
      BY <2>3, <2>4, <2>6
    <3>2. i + 1 = 1
      BY <2>2, <3>1
    <3>. QED BY <3>2
  <2>. QED BY <2>14, <2>15, <2>16
<1>. QED BY <1>1, <1>2

\* An object is moved to where it is not around: whatever it is around gets
\* higher than the new place.
LEMMA RankMoved ==
  ASSUME NEW O, IsTable(O), NEW up \in LinkField, Ups(O, UpOf(O, up)), Ranked(O, up),
         NEW what \in DOMAIN O, NEW v \in DOMAIN O \cup {NOTHING}, ~Around(O, what, v, up),
         NEW P, DOMAIN P = DOMAIN O,
         \A x \in DOMAIN O : P[x][up] = IF x = what THEN v ELSE O[x][up]
  PROVE  Ranked(P, up)
<1>1. PICK h : Height(O, up, h)
  BY DEF Ranked
<1>2. PICK lift \in Nat : v # NOTHING => lift = h[v] + 1
  BY <1>1 DEF Height
<1>3. PICK g : g = [o \in DOMAIN O |-> IF Around(O, what, o, up) THEN h[o] + lift ELSE h[o]]
  OBVIOUS
<1>4. g \in [DOMAIN P -> Nat]
  BY <1>1, <1>3 DEF Height
<1>5. ASSUME NEW o \in DOMAIN P, P[o][up] # NOTHING PROVE g[P[o][up]] < g[o]
  <2>0. \A x \in DOMAIN O : O[x][up] \in DOMAIN O \cup {NOTHING}
    BY DEF Ups, UpOf
  <2>1. CASE o = what
    <3>1. P[o][up] = v /\ v \in DOMAIN O /\ h[v] \in Nat /\ h[o] \in Nat
      BY <1>1, <1>5, <2>1 DEF Height
    <3>2. g[v] = h[v]
      BY <1>3, <3>1
    <3>3. Around(O, what, o, up)
      BY <2>1, AroundIs
    <3>4. g[o] = h[o] + lift
      BY <1>3, <3>3
    <3>. QED BY <1>2, <1>5, <3>1, <3>2, <3>4
  <2>2. CASE o # what
    <3>1. PICK p \in DOMAIN O : p = O[o][up] /\ p = P[o][up]
      BY <1>5, <2>0, <2>2
    <3>2. h[p] < h[o] /\ h[p] \in Nat /\ h[o] \in Nat
      BY <1>1, <1>5, <3>1 DEF Height
    <3>3. Around(O, what, o, up) <=> Around(O, what, p, up)
      BY <2>2, <3>1, AroundIs
    <3>. QED BY <1>3, <3>1, <3>2, <3>3
  <2>. QED BY <2>1, <2>2
<1>6. Height(P, up, g)
  BY <1>4, <1>5 DEF Height
<1>. QED BY <1>6 DEF Ranked

-----------------------------------------------------------------------------
(* Everything in a list is moved, one object after the other               *)

\* One of the two functions that move an object.
Step(P, c, v, up) ==
  IF up = "parent" THEN db_change_parent(P, c, v) ELSE db_change_location(P, c, v)

\* moved is a function that the definition of FoldLeft asks for: it says what
\* becomes of O when the objects at some places of the list are moved.
Moves(moved, O, list, v, up, n) ==
  moved = [s \in SUBSET (1..n) |->
             IF s = {} THEN O ELSE Step(moved[s \ {Max(s)}], list[Max(s)], v, up)]

\* The last place.
LEMMA MaxIs ==
  ASSUME NEW n \in Nat, NEW s \in SUBSET (1..n), s # {}
  PROVE  Max(s) \in s /\ \A i \in s : i <= Max(s)
<1>1. Max(s) \in s /\ \A i \in s : Max(s) >= i
  BY GreatestElement DEF Max
<1>. QED BY <1>1

\* There is one, by induction on the number of places.
LEMMA MovesExist ==
  ASSUME NEW O, NEW list, NEW v, NEW up, NEW n \in Nat
  PROVE  \E moved : Moves(moved, O, list, v, up, n)
<1>. DEFINE S == {k \in Nat : \E moved : Moves(moved, O, list, v, up, k)}
<1>1. 0 \in S
  <2>. DEFINE g == [s \in SUBSET (1..0) |-> O]
  <2>1. g = [s \in SUBSET (1..0) |->
               IF s = {} THEN O ELSE Step(g[s \ {Max(s)}], list[Max(s)], v, up)]
    <3>1. \A s \in SUBSET (1..0) : s = {}
      OBVIOUS
    <3>. QED BY <3>1
  <2>2. Moves(g, O, list, v, up, 0)
    BY <2>1 DEF Moves
  <2>. HIDE DEF g
  <2>. QED BY <2>2
<1>2. ASSUME NEW k \in Nat, k \in S PROVE k + 1 \in S
  <2>1. PICK f : Moves(f, O, list, v, up, k)
    BY <1>2
  <2>2. \A s \in SUBSET (1..k) : f[s] = IF s = {} THEN O ELSE Step(f[s \ {Max(s)}], list[Max(s)], v, up)
    BY <2>1 DEF Moves
  <2>. DEFINE g == [s \in SUBSET (1..(k + 1)) |->
                      IF s = {} THEN O ELSE Step(f[s \ {Max(s)}], list[Max(s)], v, up)]
  <2>3. \A s \in SUBSET (1..k) : g[s] = f[s]
    <3>1. \A s \in SUBSET (1..k) : s \in SUBSET (1..(k + 1))
      OBVIOUS
    <3>. QED BY <2>2, <3>1
  <2>4. ASSUME NEW s \in SUBSET (1..(k + 1)), s # {} PROVE g[s \ {Max(s)}] = f[s \ {Max(s)}]
    <3>1. Max(s) \in s /\ \A i \in s : i <= Max(s)
      <4>1. k + 1 \in Nat
        OBVIOUS
      <4>. QED BY <2>4, <4>1, MaxIs
    <3>2. s \ {Max(s)} \in SUBSET (1..k)
      <4>. SUFFICES ASSUME NEW i \in s, i # Max(s) PROVE i \in 1..k
        OBVIOUS
      <4>1. i <= Max(s) /\ i \in 1..(k + 1) /\ Max(s) \in 1..(k + 1)
        BY <3>1
      <4>. QED BY <4>1
    <3>. HIDE DEF g
    <3>. QED BY <2>3, <3>2
  <2>5. g = [s \in SUBSET (1..(k + 1)) |->
               IF s = {} THEN O ELSE Step(g[s \ {Max(s)}], list[Max(s)], v, up)]
    <3>. DEFINE h == [s \in SUBSET (1..(k + 1)) |->
                        IF s = {} THEN O ELSE Step(g[s \ {Max(s)}], list[Max(s)], v, up)]
    <3>1. ASSUME NEW s \in SUBSET (1..(k + 1)) PROVE g[s] = h[s]
      <4>1. g[s] = IF s = {} THEN O ELSE Step(f[s \ {Max(s)}], list[Max(s)], v, up)
        OBVIOUS
      <4>2. h[s] = IF s = {} THEN O ELSE Step(g[s \ {Max(s)}], list[Max(s)], v, up)
        OBVIOUS
      <4>3. s # {} => g[s \ {Max(s)}] = f[s \ {Max(s)}]
        BY <2>4
      <4>. HIDE DEF g, h
      <4>. QED BY <4>1, <4>2, <4>3
    <3>. QED BY <3>1, Zenon
  <2>6. Moves(g, O, list, v, up, k + 1)
    BY <2>5, Zenon DEF Moves
  <2>. HIDE DEF g
  <2>. QED BY <2>6
<1>. HIDE DEF S
<1>3. n \in S
  BY <1>1, <1>2, NatInd
<1>. QED BY <1>3 DEF S

\* So the table after the first k objects of the list are moved is got from
\* the one before.
LEMMA MovesOneByOne ==
  ASSUME NEW O, NEW list, NEW v, NEW up, NEW n \in Nat,
         NEW moved, Moves(moved, O, list, v, up, n)
  PROVE  /\ moved[1..0] = O
         /\ \A k \in 1..n : moved[1..k] = Step(moved[1..(k - 1)], list[k], v, up)
<1>1. moved[1..0] = O
  <2>1. 1..0 = {} /\ {} \in SUBSET (1..n)
    OBVIOUS
  <2>. QED BY <2>1 DEF Moves
<1>2. ASSUME NEW k \in 1..n PROVE moved[1..k] = Step(moved[1..(k - 1)], list[k], v, up)
  <2>1. PICK s : s = 1..k
    OBVIOUS
  <2>2. s \in SUBSET (1..n) /\ s # {} /\ k \in s
    BY <2>1
  <2>3. Max(s) \in s /\ \A i \in s : i <= Max(s)
    BY <2>2, MaxIs
  <2>4. Max(s) = k
    BY <2>1, <2>2, <2>3
  <2>5. s \ {k} = 1..(k - 1)
    BY <2>1
  <2>6. moved[s] = Step(moved[s \ {Max(s)}], list[Max(s)], v, up)
    BY <2>2 DEF Moves
  <2>. QED BY <2>1, <2>4, <2>5, <2>6
<1>. QED BY <1>1, <1>2

\* Emptying an object out is one change of location for each of its contents.
LEMMA EmptyOutIs ==
  ASSUME NEW O, NEW oid, NEW list, list = ListFrom(O, O[oid].contents, "next"),
         NEW n \in Nat, DOMAIN list = 1..n
  PROVE  \E moved : Moves(moved, O, list, NOTHING, "location", n) /\ EmptyOut(O, oid) = moved[1..n]
<1>. DEFINE moved == CHOOSE m : Moves(m, O, list, NOTHING, "location", n)
<1>1. Moves(moved, O, list, NOTHING, "location", n)
  BY MovesExist
<1>2. EmptyOut(O, oid) = moved[1..n]
  BY DEF EmptyOut, FoldLeft, MapThenFoldSet, Moves, Step
<1>. HIDE DEF moved
<1>. QED BY <1>1, <1>2

\* A sound table in which the objects of S have another parent, or location.
NewUps(O, P, S, v, up) ==
  /\ Sound(P) /\ DOMAIN P = DOMAIN O
  /\ \A x \in DOMAIN O :
       /\ P[x].parent = IF up = "parent" /\ x \in S THEN v ELSE O[x].parent
       /\ P[x].location = IF up = "location" /\ x \in S THEN v ELSE O[x].location
       /\ P[x].user = O[x].user

\* One step.
LEMMA StepKeeps ==
  ASSUME NEW O, Sound(O), NEW c \in DOMAIN O, NEW v \in DOMAIN O \cup {NOTHING},
         NEW up \in {"parent", "location"}
  PROVE  NewUps(O, Step(O, c, v, up), {c}, v, up)
<1>1. CASE up = "parent"
  <2>1. NewParent(O, Step(O, c, v, up), c, v)
    BY <1>1, ChangeParent DEF Step
  <2>. QED BY <1>1, <2>1 DEF NewParent, NewUps
<1>2. CASE up = "location"
  <2>1. NewLocation(O, Step(O, c, v, up), c, v)
    BY <1>2, ChangeLocation DEF Step
  <2>. QED BY <1>2, <2>1 DEF NewLocation, NewUps
<1>. QED BY <1>1, <1>2

\* The first k objects of a list.
Part(list, k) == {list[i] : i \in 1..k}

\* All steps.
LEMMA MovesKeep ==
  ASSUME NEW O, Sound(O), NEW list \in Seq(DOMAIN O), NEW v \in DOMAIN O \cup {NOTHING},
         NEW up \in {"parent", "location"}, NEW n \in Nat, n = Len(list),
         NEW moved, Moves(moved, O, list, v, up, n)
  PROVE  NewUps(O, moved[1..n], Part(list, n), v, up)
<1>. DEFINE S == {k \in Nat : k <= n => NewUps(O, moved[1..k], Part(list, k), v, up)}
<1>0. \A k \in 1..n : list[k] \in DOMAIN O
  OBVIOUS
<1>1. 0 \in S
  <2>1. moved[1..0] = O
    BY MovesOneByOne
  <2>2. Part(list, 0) = {}
    BY DEF Part
  <2>3. NewUps(O, O, {}, v, up)
    BY DEF NewUps
  <2>. QED BY <2>1, <2>2, <2>3
<1>2. ASSUME NEW k \in Nat, k \in S PROVE k + 1 \in S
  <2>. SUFFICES ASSUME k + 1 <= n PROVE NewUps(O, moved[1..(k + 1)], Part(list, k + 1), v, up)
    OBVIOUS
  <2>1. PICK P : P = moved[1..k]
    OBVIOUS
  <2>2. PICK A : A = Part(list, k)
    OBVIOUS
  <2>3. NewUps(O, P, A, v, up)
    BY <1>2, <2>1, <2>2
  <2>4. PICK c \in DOMAIN O : c = list[k + 1]
    BY <1>0
  <2>5. k + 1 \in 1..n /\ (k + 1) - 1 = k
    OBVIOUS
  <2>6. moved[1..(k + 1)] = Step(P, c, v, up)
    BY <2>1, <2>4, <2>5, MovesOneByOne
  <2>7. Sound(P) /\ DOMAIN P = DOMAIN O
    BY <2>3 DEF NewUps
  <2>8. PICK Q : Q = Step(P, c, v, up)
    OBVIOUS
  <2>9. NewUps(P, Q, {c}, v, up)
    BY <2>7, <2>8, StepKeeps
  <2>10. Part(list, k + 1) = A \cup {c}
    <3>1. 1..(k + 1) = (1..k) \cup {k + 1}
      OBVIOUS
    <3>. QED BY <2>2, <2>4, <3>1 DEF Part
  <2>11. NewUps(O, Q, A \cup {c}, v, up)
    BY <2>3, <2>9 DEF NewUps
  <2>. QED BY <2>6, <2>8, <2>10, <2>11
<1>. HIDE DEF S
<1>3. n \in S
  BY <1>1, <1>2, NatInd
<1>. QED BY <1>3 DEF S

\* What is in the list of an object.
LEMMA ListOf ==
  ASSUME NEW O, Sound(O), NEW oid \in DOMAIN O,
         NEW up, NEW list, NEW next, Hier(O, up, list, next), next \in LinkField
  PROVE  \E s : /\ ListFrom(O, O[oid][list], next) = s
                /\ s \in Seq(DOMAIN O) /\ Len(s) \in Nat /\ DOMAIN s = 1..Len(s)
                /\ Part(s, Len(s)) = {x \in DOMAIN O : O[x][up] = oid}
                /\ \A i, j \in 1..Len(s) : s[i] = s[j] => i = j
<1>1. PICK s : Chain(O, s, O[oid][list], next) /\ Has(O, UpOf(O, up), s, oid)
  BY DEF Hier, Lists
<1>2. ListFrom(O, O[oid][list], next) = s
  BY <1>1, ListFromIs DEF Sound
<1>3. s \in Seq(DOMAIN O) /\ Len(s) \in Nat /\ DOMAIN s = 1..Len(s)
  BY <1>1 DEF Chain
<1>4. Part(s, Len(s)) = {x \in DOMAIN O : O[x][up] = oid}
  <2>1. \A x \in DOMAIN O : UpOf(O, up)[x] = O[x][up]
    BY DEF UpOf
  <2>2. \A i \in 1..Len(s) : s[i] \in DOMAIN O
    BY <1>3
  <2>. QED BY <1>1, <2>1, <2>2 DEF Has, Part
<1>. QED BY <1>1, <1>2, <1>3, <1>4 DEF Chain

\* The contents of oid are moved out.
LEMMA EmptyOutKeeps ==
  ASSUME NEW O, Sound(O), NEW oid \in DOMAIN O
  PROVE  NewUps(O, EmptyOut(O, oid), {x \in DOMAIN O : O[x].location = oid}, NOTHING, "location")
<1>1. PICK s : /\ ListFrom(O, O[oid]["contents"], "next") = s
               /\ s \in Seq(DOMAIN O) /\ Len(s) \in Nat /\ DOMAIN s = 1..Len(s)
               /\ Part(s, Len(s)) = {x \in DOMAIN O : O[x]["location"] = oid}
  <2>1. PICK up, list, next : up = "location" /\ list = "contents" /\ next = "next"
    OBVIOUS
  <2>2. Hier(O, up, list, next) /\ next \in LinkField
    BY <2>1 DEF Sound, LinkField
  <2>3. \E s : /\ ListFrom(O, O[oid][list], next) = s
               /\ s \in Seq(DOMAIN O) /\ Len(s) \in Nat /\ DOMAIN s = 1..Len(s)
               /\ Part(s, Len(s)) = {x \in DOMAIN O : O[x][up] = oid}
    BY <2>2, ListOf
  <2>. QED BY <2>1, <2>3
<1>2. PICK n \in Nat : n = Len(s)
  BY <1>1
<1>3. PICK v, up : v = NOTHING /\ up = "location"
  OBVIOUS
<1>4. PICK moved : Moves(moved, O, s, v, up, n) /\ EmptyOut(O, oid) = moved[1..n]
  <2>1. s = ListFrom(O, O[oid].contents, "next") /\ DOMAIN s = 1..n
    BY <1>1, <1>2
  <2>2. \E moved : Moves(moved, O, s, NOTHING, "location", n) /\ EmptyOut(O, oid) = moved[1..n]
    BY <2>1, EmptyOutIs, Zenon
  <2>. QED BY <1>3, <2>2
<1>5. NewUps(O, moved[1..n], Part(s, n), v, up)
  <2>1. v \in DOMAIN O \cup {NOTHING} /\ up \in {"parent", "location"}
    BY <1>3
  <2>. QED BY <1>1, <1>2, <1>4, <2>1, MovesKeep
<1>. QED BY <1>1, <1>2, <1>3, <1>4, <1>5

\* An object with no object below has an empty list.
LEMMA Barren ==
  ASSUME NEW O, IsTable(O), NEW oid \in DOMAIN O, NEW up, NEW list, NEW next, Hier(O, up, list, next),
         \A x \in DOMAIN O : O[x][up] # oid
  PROVE  O[oid][list] = NOTHING
<1>1. PICK s : Chain(O, s, O[oid][list], next) /\ Has(O, UpOf(O, up), s, oid)
  BY DEF Hier, Lists
<1>2. s \in Seq(DOMAIN O) /\ O[oid][list] = At(s, 1)
  BY <1>1 DEF Chain
<1>3. \A i \in 1..Len(s) : UpOf(O, up)[s[i]] = oid
  BY <1>1, <1>2 DEF Has
<1>4. ASSUME 1 \in 1..Len(s) PROVE FALSE
  <2>1. s[1] \in DOMAIN O
    BY <1>2, <1>4
  <2>. QED BY <1>3, <1>4, <2>1 DEF UpOf
<1>. QED BY <1>2, <1>4 DEF At

\* Objects that are moved to #-1 make no loop.
LEMMA RankLess ==
  ASSUME NEW O, NEW P, NEW up, Ranked(O, up), DOMAIN P = DOMAIN O,
         \A x \in DOMAIN O : P[x][up] = NOTHING \/ P[x][up] = O[x][up]
  PROVE  Ranked(P, up)
BY DEF Ranked, Height

\* A table as it should be, without loops.
Forests(O) == Sound(O) /\ Ranked(O, "parent") /\ Ranked(O, "location")

\* What recycle() leaves of oid before it is orphaned.
LEMMA EmptiedKeeps ==
  ASSUME NEW O, Forests(O), NEW oid \in DOMAIN O
  PROVE  LET P == Emptied(O, oid)
         IN  /\ Forests(P) /\ DOMAIN P = DOMAIN O
             /\ P[oid].location = NOTHING
             /\ \A x \in DOMAIN O : P[x].location # oid /\ P[x].user = O[x].user
<1>0. /\ Sound(O) /\ NOTHING # oid
  BY NothingIs DEF Forests, Sound
<1>1. PICK E : E = EmptyOut(O, oid)
  OBVIOUS
<1>2. PICK S : S = {x \in DOMAIN O : O[x].location = oid}
  OBVIOUS
<1>3. NewUps(O, E, S, NOTHING, "location")
  BY <1>0, <1>1, <1>2, EmptyOutKeeps
<1>4. PICK P : P = Emptied(O, oid)
  OBVIOUS
<1>5. NewLocation(E, P, oid, NOTHING)
  <2>1. Sound(E) /\ oid \in DOMAIN E /\ NOTHING \in DOMAIN E \cup {NOTHING}
    BY <1>3 DEF NewUps
  <2>. QED BY <1>1, <1>4, <2>1, ChangeLocation DEF Emptied
<1>6. /\ DOMAIN P = DOMAIN O /\ Sound(P)
      /\ \A x \in DOMAIN O : /\ P[x].location = IF x = oid \/ x \in S THEN NOTHING ELSE O[x].location
                             /\ P[x].parent = O[x].parent
                             /\ P[x].user = O[x].user
  BY <1>3, <1>5 DEF NewUps, NewLocation
<1>7. Ranked(P, "location") /\ Ranked(P, "parent")
  BY <1>6, RankLess DEF Forests
<1>. QED BY <1>0, <1>2, <1>4, <1>6, <1>7 DEF Forests

\* The children of oid are adopted, and oid is left alone.
LEMMA OrphanedIs ==
  ASSUME NEW O, NEW oid, NEW list, list = ListFrom(O, O[oid].child, "sibling"),
         NEW n \in Nat, DOMAIN list = 1..n
  PROVE  \E moved : /\ Moves(moved, O, list, O[oid].parent, "parent", n)
                    /\ Orphaned(O, oid) = db_change_parent(moved[1..n], oid, NOTHING)
<1>. DEFINE moved == CHOOSE m : Moves(m, O, list, O[oid].parent, "parent", n)
<1>1. Moves(moved, O, list, O[oid].parent, "parent", n)
  BY MovesExist
<1>2. Orphaned(O, oid) = db_change_parent(moved[1..n], oid, NOTHING)
  BY DEF Orphaned, FoldLeft, MapThenFoldSet, Moves, Step
<1>. HIDE DEF moved
<1>. QED BY <1>1, <1>2

\* Once recycle() has dealt with its children an object has neither parent nor children.
LEMMA OrphanedKeeps ==
  ASSUME NEW O, Forests(O), NEW oid \in DOMAIN O
  PROVE  LET P == Orphaned(O, oid)
         IN  /\ Forests(P) /\ DOMAIN P = DOMAIN O
             /\ P[oid].parent = NOTHING
             /\ \A x \in DOMAIN O : /\ P[x].parent # oid
                                    /\ P[x].location = O[x].location
                                    /\ P[x].user = O[x].user
<1>0. /\ Sound(O) /\ NOTHING # oid
  BY NothingIs DEF Forests, Sound
<1>1. PICK s : /\ ListFrom(O, O[oid]["child"], "sibling") = s
               /\ s \in Seq(DOMAIN O) /\ Len(s) \in Nat /\ DOMAIN s = 1..Len(s)
               /\ Part(s, Len(s)) = {x \in DOMAIN O : O[x]["parent"] = oid}
  <2>1. PICK up, list, next : up = "parent" /\ list = "child" /\ next = "sibling"
    OBVIOUS
  <2>2. Hier(O, up, list, next) /\ next \in LinkField
    BY <1>0, <2>1 DEF Sound, LinkField
  <2>3. \E s : /\ ListFrom(O, O[oid][list], next) = s
               /\ s \in Seq(DOMAIN O) /\ Len(s) \in Nat /\ DOMAIN s = 1..Len(s)
               /\ Part(s, Len(s)) = {x \in DOMAIN O : O[x][up] = oid}
    BY <1>0, <2>2, ListOf
  <2>. QED BY <2>1, <2>3
<1>2. PICK n \in Nat : n = Len(s)
  BY <1>1
<1>3. PICK v, up : v = O[oid].parent /\ up = "parent"
  OBVIOUS
<1>4. PICK moved : /\ Moves(moved, O, s, v, up, n)
                   /\ Orphaned(O, oid) = db_change_parent(moved[1..n], oid, NOTHING)
  BY <1>1, <1>2, <1>3, OrphanedIs
<1>5. v \in DOMAIN O \cup {NOTHING} /\ up \in {"parent", "location"}
  BY <1>0, <1>3 DEF Sound, Hier, Ups, UpOf
<1>6. PICK Q : Q = moved[1..n]
  OBVIOUS
<1>7. NewUps(O, Q, Part(s, n), v, up)
  BY <1>0, <1>1, <1>2, <1>4, <1>5, <1>6, MovesKeep
<1>8. PICK P : P = Orphaned(O, oid)
  OBVIOUS
<1>9. NewParent(Q, P, oid, NOTHING)
  <2>1. Sound(Q) /\ oid \in DOMAIN Q /\ NOTHING \in DOMAIN Q \cup {NOTHING}
    BY <1>7 DEF NewUps
  <2>. QED BY <1>4, <1>6, <1>8, <2>1, ChangeParent
<1>10. /\ DOMAIN P = DOMAIN O /\ Sound(P)
       /\ \A x \in DOMAIN O : /\ P[x].parent = IF x = oid THEN NOTHING
                                               ELSE IF O[x].parent = oid THEN v ELSE O[x].parent
                              /\ P[x].location = O[x].location
                              /\ P[x].user = O[x].user
  BY <1>1, <1>2, <1>3, <1>7, <1>9 DEF NewUps, NewParent
<1>11. PICK h : Height(O, "parent", h)
  BY DEF Forests, Ranked
<1>12. /\ h \in [DOMAIN O -> Nat]
       /\ \A x \in DOMAIN O : O[x].parent # NOTHING => h[O[x].parent] < h[x]
       /\ v # NOTHING => h[v] < h[oid] /\ v # oid
  BY <1>3, <1>5, <1>11 DEF Height
<1>13. Ranked(P, "parent")
  <2>1. ASSUME NEW x \in DOMAIN O, P[x].parent # NOTHING PROVE h[P[x].parent] < h[x]
    <3>1. CASE O[x].parent = oid
      <4>1. P[x].parent = v /\ v \in DOMAIN O
        BY <1>5, <1>10, <2>1, <3>1
      <4>2. h[v] \in Nat /\ h[oid] \in Nat /\ h[x] \in Nat
        BY <1>12, <4>1
      <4>. QED BY <1>0, <1>12, <2>1, <3>1, <4>1, <4>2
    <3>2. CASE O[x].parent # oid
      BY <1>10, <1>12, <2>1, <3>2
    <3>. QED BY <3>1, <3>2
  <2>2. Height(P, "parent", h)
    BY <1>10, <1>12, <2>1 DEF Height
  <2>. QED BY <2>2 DEF Ranked
<1>14. Ranked(P, "location")
  BY <1>10, RankLess DEF Forests
<1>15. \A x \in DOMAIN O : P[x].parent # oid
  BY <1>0, <1>10, <1>12
<1>. QED BY <1>8, <1>10, <1>13, <1>14, <1>15 DEF Forests

\* An object that is in no list is dropped from one hierarchy.
LEMMA DropHier ==
  ASSUME NEW O, IsTable(O), NEW oid \in DOMAIN O, NEW up, NEW list, NEW next, Hier(O, up, list, next),
         O[oid][up] = NOTHING, \A x \in DOMAIN O : O[x][up] # oid,
         NEW P, P = [o \in DOMAIN O \ {oid} |-> O[o]]
  PROVE  Hier(P, up, list, next)
<1>0. /\ DOMAIN P = DOMAIN O \ {oid} /\ \A x \in DOMAIN P : P[x] = O[x]
      /\ NOTHING \notin DOMAIN O
  BY NothingIs
<1>1. Ups(P, UpOf(P, up))
  <2>1. \A x \in DOMAIN O : O[x][up] \in DOMAIN O \cup {NOTHING}
    BY DEF Hier, Ups, UpOf
  <2>. QED BY <1>0, <2>1 DEF Ups, UpOf
<1>2. ASSUME NEW o \in DOMAIN P
      PROVE  \E s : Chain(P, s, P[o][list], next) /\ Has(P, UpOf(P, up), s, o)
  <2>1. PICK s : Chain(O, s, O[o][list], next) /\ Has(O, UpOf(O, up), s, o)
    BY <1>0 DEF Hier, Lists
  <2>2. s \in Seq(DOMAIN O) /\ \A i \in 1..Len(s) : s[i] \in DOMAIN O
    BY <2>1 DEF Chain
  <2>3. \A i \in 1..Len(s) : O[s[i]][up] = o
    BY <1>0, <2>1, <2>2 DEF Has, UpOf
  <2>4. \A i \in 1..Len(s) : s[i] \in DOMAIN P
    BY <1>0, <2>2, <2>3
  <2>5. s \in Seq(DOMAIN P)
    BY <2>2, <2>4
  <2>6. Chain(P, s, P[o][list], next)
    BY <1>0, <2>1, <2>4, <2>5 DEF Chain
  <2>7. Has(P, UpOf(P, up), s, o)
    BY <1>0, <2>1 DEF Has, UpOf
  <2>. QED BY <2>6, <2>7
<1>. QED BY <1>1, <1>2 DEF Hier, Lists

\* An object that is in no list and has none can be removed from the table.
LEMMA DropKeeps ==
  ASSUME NEW O, Forests(O), NEW oid \in DOMAIN O, O[oid].parent = NOTHING, O[oid].location = NOTHING,
         \A x \in DOMAIN O : O[x].parent # oid /\ O[x].location # oid,
         NEW P, P = [o \in DOMAIN O \ {oid} |-> O[o]]
  PROVE  Forests(P)
<1>1. IsTable(P)
  BY DEF IsTable, Sound, Forests
<1>2. Hier(P, "parent", "child", "sibling")
  BY DropHier DEF Sound, Forests
<1>3. Hier(P, "location", "contents", "next")
  BY DropHier DEF Sound, Forests
<1>4. ASSUME NEW up \in {"parent", "location"} PROVE Ranked(P, up)
  <2>1. PICK h : Height(O, up, h)
    BY DEF Forests, Ranked
  <2>2. PICK g : g = [o \in DOMAIN P |-> h[o]]
    OBVIOUS
  <2>3. \A x \in DOMAIN O : O[x][up] \in DOMAIN O \cup {NOTHING}
    BY DEF Forests, Sound, Hier, Ups, UpOf
  <2>4. \A x \in DOMAIN O : O[x][up] # oid
    OBVIOUS
  <2>5. Height(P, up, g)
    BY <2>1, <2>2, <2>3, <2>4 DEF Height
  <2>. QED BY <2>5 DEF Ranked
<1>. QED BY <1>1, <1>2, <1>3, <1>4 DEF Forests, Sound

\* A new object is in no list.
LEMMA AddHier ==
  ASSUME NEW O, IsTable(O), NEW new \in Number \ DOMAIN O, NEW up \in LinkField, NEW list \in LinkField,
         NEW next, Hier(O, up, list, next),
         NEW P, P = [o \in DOMAIN O \cup {new} |-> IF o = new THEN NewObject ELSE O[o]]
  PROVE  Hier(P, up, list, next)
<1>0. /\ DOMAIN P = DOMAIN O \cup {new} /\ \A x \in DOMAIN O : P[x] = O[x]
      /\ P[new][up] = NOTHING /\ P[new][list] = NOTHING /\ NOTHING \notin DOMAIN P
  <2>1. NewObject[up] = NOTHING /\ NewObject[list] = NOTHING
    BY DEF NewObject, LinkField
  <2>2. NOTHING \notin Number
    BY ObjectsAssumption DEF NOTHING, Number
  <2>. QED BY <2>1, <2>2, NothingIs
<1>1. Ups(P, UpOf(P, up))
  <2>1. \A x \in DOMAIN O : O[x][up] \in DOMAIN O \cup {NOTHING}
    BY DEF Hier, Ups, UpOf
  <2>. QED BY <1>0, <2>1 DEF Ups, UpOf
<1>2. ASSUME NEW o \in DOMAIN O
      PROVE  \E s : Chain(P, s, P[o][list], next) /\ Has(P, UpOf(P, up), s, o)
  <2>1. PICK s : Chain(O, s, O[o][list], next) /\ Has(O, UpOf(O, up), s, o)
    BY DEF Hier, Lists
  <2>2. s \in Seq(DOMAIN O) /\ \A i \in 1..Len(s) : s[i] \in DOMAIN O
    BY <2>1 DEF Chain
  <2>3. s \in Seq(DOMAIN P)
    BY <1>0, <2>2
  <2>4. Chain(P, s, P[o][list], next)
    BY <1>0, <2>1, <2>2, <2>3 DEF Chain
  <2>5. \A i \in 1..Len(s) : s[i] # new
    BY <2>2
  <2>6. Has(P, UpOf(P, up), s, o)
    BY <1>0, <2>1, <2>5 DEF Has, UpOf
  <2>. QED BY <2>4, <2>6
<1>3. \E s : Chain(P, s, P[new][list], next) /\ Has(P, UpOf(P, up), s, new)
  <2>1. Chain(P, <<>>, NOTHING, next)
    BY DEF Chain, At
  <2>2. \A x \in DOMAIN P : UpOf(P, up)[x] # new
    <3>1. \A x \in DOMAIN O : O[x][up] \in DOMAIN O \cup {NOTHING}
      BY DEF Hier, Ups, UpOf
    <3>. QED BY <1>0, <3>1 DEF UpOf
  <2>3. Has(P, UpOf(P, up), <<>>, new)
    BY <2>2 DEF Has
  <2>4. PICK s : s = <<>>
    OBVIOUS
  <2>. QED BY <1>0, <2>1, <2>3, <2>4
<1>. QED BY <1>0, <1>1, <1>2, <1>3 DEF Hier, Lists

\* A new object, in no list and with none, can be added to the table.
LEMMA AddKeeps ==
  ASSUME NEW O, Forests(O), NEW new \in Number \ DOMAIN O,
         NEW P, P = [o \in DOMAIN O \cup {new} |-> IF o = new THEN NewObject ELSE O[o]]
  PROVE  /\ Forests(P)
         /\ P[new].parent = NOTHING
         /\ \A x \in DOMAIN O : P[x].parent # new
<1>0. DOMAIN P = DOMAIN O \cup {new} /\ P[new] = NewObject /\ \A x \in DOMAIN O : P[x] = O[x]
  OBVIOUS
<1>1. IsTable(P)
  <2>1. NewObject \in Object
    BY DEF NewObject, Object, NOTHING, Link
  <2>. QED BY <2>1 DEF IsTable, Sound, Forests
<1>2. Hier(P, "parent", "child", "sibling")
  <2>1. "parent" \in LinkField /\ "child" \in LinkField
    BY DEF LinkField
  <2>. QED BY <2>1, AddHier DEF Sound, Forests
<1>3. Hier(P, "location", "contents", "next")
  <2>1. "location" \in LinkField /\ "contents" \in LinkField
    BY DEF LinkField
  <2>. QED BY <2>1, AddHier DEF Sound, Forests
<1>4. ASSUME NEW up \in {"parent", "location"} PROVE Ranked(P, up)
  <2>1. PICK h : Height(O, up, h)
    BY DEF Forests, Ranked
  <2>2. PICK g : g = [o \in DOMAIN P |-> IF o = new THEN 0 ELSE h[o]]
    OBVIOUS
  <2>3. \A x \in DOMAIN O : O[x][up] \in DOMAIN O \cup {NOTHING}
    BY DEF Forests, Sound, Hier, Ups, UpOf
  <2>4. P[new][up] = NOTHING
    BY <1>0 DEF NewObject
  <2>5. Height(P, up, g)
    BY <1>0, <2>1, <2>2, <2>3, <2>4 DEF Height
  <2>. QED BY <2>5 DEF Ranked
<1>5. P[new].parent = NOTHING
  BY <1>0 DEF NewObject
<1>6. \A x \in DOMAIN O : P[x].parent # new
  <2>1. NOTHING \notin Number
    BY ObjectsAssumption DEF NOTHING, Number
  <2>2. \A x \in DOMAIN O : O[x].parent \in DOMAIN O \cup {NOTHING}
    BY DEF Forests, Sound, Hier, Ups, UpOf
  <2>. QED BY <1>0, <2>1, <2>2
<1>. QED BY <1>1, <1>2, <1>3, <1>4, <1>5, <1>6 DEF Forests, Sound

-----------------------------------------------------------------------------
(* renumber()                                                              *)

Ren(x, old, new) == IF x = old THEN new ELSE x

\* A has the objects of T in their new places, and the fields of a hierarchy
\* still have the old number.
Rehoused(T, A, old, new, up, list, next) ==
  /\ IsTable(A)
  /\ DOMAIN A = (DOMAIN T \ {old}) \cup {new}
  /\ \A x \in DOMAIN T : \A f \in {up, list, next} : A[Ren(x, old, new)][f] = T[x][f]

\* B has the objects of T in their new places, and the fields of a hierarchy
\* have the new number.
Renamed(T, B, old, new, up, list, next) ==
  /\ IsTable(B)
  /\ DOMAIN B = (DOMAIN T \ {old}) \cup {new}
  /\ \A x \in DOMAIN T : \A f \in {up, list, next} :
       B[Ren(x, old, new)][f] = Ren(T[x][f], old, new)

\* old is not its own up-link.
LEMMA NotAbove ==
  ASSUME NEW T, NEW up, Ranked(T, up), NEW old \in DOMAIN T
  PROVE  T[old][up] # old \/ old = NOTHING
BY DEF Ranked, Height

\* The list that old is in is cut off before old.
LEMMA NotLost ==
  ASSUME NEW T, IsTable(T), NEW up, NEW list, NEW next, Three(up, list, next),
         Hier(T, up, list, next), Ranked(T, up),
         NEW old \in DOMAIN T, NEW new \in Number \ DOMAIN T,
         NEW A, Rehoused(T, A, old, new, up, list, next)
  PROVE  ~Lost(A, old, new, up, list, next)
<1>0. /\ NOTHING \notin DOMAIN T /\ old \in Link /\ old \notin DOMAIN A /\ IsTable(A)
      /\ next \in LinkField /\ new # old
      /\ \A x \in DOMAIN T \ {old} : x \in DOMAIN A /\ \A f \in {up, list, next} : A[x][f] = T[x][f]
      /\ \A f \in {up, list, next} : A[new][f] = T[old][f]
  BY NothingIs DEF Rehoused, Ren, Three
<1>. SUFFICES ASSUME A[new][up] # NOTHING
              PROVE  old \in {A[A[new][up]][list]}
                       \cup {A[o][next] : o \in ToSet(ListFrom(A, A[A[new][up]][list], next))}
  BY DEF Lost
<1>1. PICK w \in DOMAIN T : w = A[new][up] /\ w = T[old][up] /\ w # old
  BY <1>0, NotAbove DEF Hier, Ups, UpOf
<1>2. PICK s : Chain(T, s, T[w][list], next) /\ Has(T, UpOf(T, up), s, w)
  BY DEF Hier, Lists
<1>3. PICK k \in 1..Len(s) : s[k] = old
  BY <1>1, <1>2 DEF Has, UpOf
<1>4. /\ s \in Seq(DOMAIN T) /\ Len(s) \in Nat /\ \A i \in 1..Len(s) : s[i] \in DOMAIN T
      /\ T[w][list] = At(s, 1)
      /\ \A i \in 1..Len(s) : T[s[i]][next] = At(s, i + 1)
      /\ \A i, j \in 1..Len(s) : s[i] = s[j] => i = j
  BY <1>2 DEF Chain
<1>5. A[w][list] = T[w][list]
  BY <1>0, <1>1
<1>6. CASE k = 1
  <2>1. A[w][list] = old
    BY <1>3, <1>4, <1>5, <1>6 DEF At
  <2>. QED BY <1>1, <2>1
<1>7. CASE k > 1
  <2>1. PICK t : t = [i \in 1..(k - 1) |-> s[i]]
    OBVIOUS
  <2>2. \A i \in 1..(k - 1) : i \in 1..Len(s) /\ s[i] \in DOMAIN T /\ s[i] # old /\ s[i] \in DOMAIN A
    BY <1>0, <1>3, <1>4
  <2>3. /\ t \in Seq(DOMAIN A) /\ Len(t) = k - 1 /\ k - 1 \in Nat
        /\ \A i \in 1..(k - 1) : t[i] = s[i]
    BY <1>7, <2>1, <2>2
  <2>4. A[w][list] = t[1]
    BY <1>4, <1>5, <1>7, <2>3 DEF At
  <2>5. ASSUME NEW i \in 1..(k - 1) PROVE A[t[i]][next] = IF i = k - 1 THEN old ELSE t[i + 1]
    <3>1. A[t[i]][next] = At(s, i + 1) /\ i + 1 \in 1..Len(s)
      <4>1. t[i] = s[i] /\ s[i] \in DOMAIN T \ {old} /\ i \in 1..Len(s)
        BY <2>2, <2>3
      <4>2. A[s[i]][next] = T[s[i]][next] /\ T[s[i]][next] = At(s, i + 1)
        BY <1>0, <1>4, <4>1
      <4>3. i + 1 \in 1..Len(s)
        BY <1>3, <1>4
      <4>. QED BY <4>1, <4>2, <4>3
    <3>. QED BY <1>3, <2>3, <3>1 DEF At
  <2>6. \A i, j \in 1..(k - 1) : t[i] = t[j] => i = j
    BY <1>4, <2>2, <2>3
  <2>7. ChainTo(A, t, A[w][list], next, old)
    BY <1>0, <1>7, <2>3, <2>4, <2>5, <2>6 DEF ChainTo
  <2>8. ListFrom(A, A[w][list], next) = t
    BY <1>0, <2>7, ListToIs
  <2>9. k - 1 \in DOMAIN t /\ A[t[k - 1]][next] = old
    BY <1>7, <2>3, <2>5
  <2>10. t[k - 1] \in ToSet(ListFrom(A, A[w][list], next))
    BY <2>8, <2>9 DEF ToSet
  <2>. QED BY <1>1, <2>9, <2>10
<1>. QED BY <1>6, <1>7

\* Relink changes every field with the old number.
LEMMA RelinkIs ==
  ASSUME NEW T, IsTable(T), NEW up, NEW list, NEW next, Three(up, list, next),
         Hier(T, up, list, next), Ranked(T, up),
         NEW old \in DOMAIN T, NEW new \in Number \ DOMAIN T,
         NEW A, Rehoused(T, A, old, new, up, list, next),
         NEW B, B = Relink(A, old, new, up, list, next)
  PROVE  /\ Renamed(T, B, old, new, up, list, next)
         /\ \A o \in DOMAIN A : \A f \in Field \ {up, list, next} : B[o][f] = A[o][f]
<1>0. /\ NOTHING \notin DOMAIN T /\ old \in Link /\ new \in Link /\ old \notin DOMAIN A /\ IsTable(A)
      /\ up \in LinkField /\ list \in LinkField /\ next \in LinkField /\ new # old
      /\ DOMAIN A = (DOMAIN T \ {old}) \cup {new} /\ new \notin DOMAIN T
      /\ \A x \in DOMAIN T \ {old} : x \in DOMAIN A /\ \A f \in {up, list, next} : A[x][f] = T[x][f]
      /\ \A f \in {up, list, next} : A[new][f] = T[old][f]
  BY NothingIs DEF Rehoused, Ren, Three, Link
<1>1. T[old][up] # old
  BY <1>0, NotAbove
<1>2. PICK mine : mine = ToSet(ListFrom(A, A[new][list], next))
  OBVIOUS
<1>3. mine = {x \in DOMAIN T : T[x][up] = old}
  <2>1. PICK s : Chain(T, s, T[old][list], next) /\ Has(T, UpOf(T, up), s, old)
    BY DEF Hier, Lists
  <2>2. /\ s \in Seq(DOMAIN T) /\ Len(s) \in Nat /\ \A i \in 1..Len(s) : s[i] \in DOMAIN T
        /\ \A i \in 1..Len(s) : T[s[i]][next] = At(s, i + 1)
    BY <2>1 DEF Chain
  <2>3. \A x \in DOMAIN T : T[x][up] = old <=> \E i \in 1..Len(s) : s[i] = x
    BY <2>1 DEF Has, UpOf
  <2>4. \A i \in 1..Len(s) : s[i] # old /\ s[i] \in DOMAIN A /\ A[s[i]][next] = T[s[i]][next]
    BY <1>0, <1>1, <2>2, <2>3
  <2>5. s \in Seq(DOMAIN A)
    BY <2>2, <2>4
  <2>6. Chain(A, s, A[new][list], next)
    BY <1>0, <2>1, <2>4, <2>5 DEF Chain
  <2>7. ListFrom(A, A[new][list], next) = s
    BY <1>0, <2>6, ListFromIs
  <2>8. mine = {s[i] : i \in 1..Len(s)}
    BY <1>2, <2>2, <2>7 DEF ToSet
  <2>. QED BY <2>2, <2>3, <2>8
<1>4. ASSUME NEW o \in DOMAIN A
      PROVE  /\ B[o] \in Object
             /\ B[o][list] = Ren(A[o][list], old, new)
             /\ B[o][next] = Ren(A[o][next], old, new)
             /\ B[o][up] = IF o \in mine THEN new ELSE A[o][up]
             /\ \A f \in Field \ {up, list, next} : B[o][f] = A[o][f]
  <2>1. PICK r : r = A[o]
    OBVIOUS
  <2>2. r = [f \in Field |-> r[f]] /\ (\A f \in LinkField : r[f] \in Link) /\ r["user"] \in BOOLEAN
    BY <1>0, <2>1, ObjectIs DEF IsTable
  <2>3. PICK q : q = [r EXCEPT ![list] = IF @ = old THEN new ELSE @,
                              ![next] = IF @ = old THEN new ELSE @,
                              ![up]   = IF o \in mine THEN new ELSE @]
    OBVIOUS
  <2>4. B[o] = q
    BY <1>2, <2>1, <2>3 DEF Relink
  <2>5. up \in Field /\ list \in Field /\ next \in Field /\ up # list /\ up # next /\ list # next
    BY DEF Field, Three
  <2>6. q = [f \in Field |-> IF f = list \/ f = next THEN Ren(r[f], old, new)
                             ELSE IF f = up THEN (IF o \in mine THEN new ELSE r[f]) ELSE r[f]]
    BY <2>2, <2>3, <2>5 DEF Ren
  <2>7. q \in Object
    <3>1. \A f \in LinkField : q[f] \in Link
      BY <1>0, <2>2, <2>6 DEF Field, Ren
    <3>2. "user" \notin LinkField /\ "user" \in Field
      BY DEF Field, LinkField
    <3>3. q["user"] \in BOOLEAN
      <4>1. q["user"] = r["user"]
        BY <1>0, <2>6, <3>2
      <4>. QED BY <2>2, <4>1
    <3>4. q = [f \in Field |-> q[f]]
      BY <2>6
    <3>. QED BY <3>1, <3>3, <3>4, ObjectIs
  <2>. QED BY <2>1, <2>4, <2>5, <2>6, <2>7
<1>5. DOMAIN B = DOMAIN A /\ B = [o \in DOMAIN B |-> B[o]]
  BY DEF Relink
<1>6. IsTable(B)
  BY <1>0, <1>4, <1>5 DEF IsTable
<1>7. ASSUME NEW x \in DOMAIN T, NEW f \in {up, list, next}
      PROVE  B[Ren(x, old, new)][f] = Ren(T[x][f], old, new)
  <2>1. PICK y \in DOMAIN A : y = Ren(x, old, new) /\ \A g \in {up, list, next} : A[y][g] = T[x][g]
    <3>1. CASE x = old
      BY <1>0, <3>1 DEF Ren
    <3>2. CASE x # old
      BY <1>0, <3>2 DEF Ren
    <3>. QED BY <3>1, <3>2
  <2>2. CASE f = list \/ f = next
    BY <1>4, <2>1, <2>2
  <2>3. CASE f = up
    <3>1. y \in mine <=> T[x][up] = old
      BY <1>0, <1>1, <1>3, <2>1 DEF Ren
    <3>. QED BY <1>4, <2>1, <2>3, <3>1 DEF Ren
  <2>. QED BY <2>2, <2>3
<1>8. Renamed(T, B, old, new, up, list, next)
  BY <1>0, <1>5, <1>6, <1>7 DEF Renamed
<1>. QED BY <1>4, <1>8

\* The hierarchy is the same under another number.
LEMMA RenamedHier ==
  ASSUME NEW T, IsTable(T), NEW up, NEW list, NEW next, Hier(T, up, list, next), Ranked(T, up),
         NEW old \in DOMAIN T, NEW new \in Number \ DOMAIN T,
         NEW B, Renamed(T, B, old, new, up, list, next)
  PROVE  Hier(B, up, list, next) /\ Ranked(B, up)
<1>0. /\ NOTHING \notin DOMAIN T /\ NOTHING \notin DOMAIN B /\ new # old /\ new # NOTHING /\ new \notin DOMAIN T
      /\ DOMAIN B = (DOMAIN T \ {old}) \cup {new}
      /\ Ren(NOTHING, old, new) = NOTHING
      /\ \A x \in DOMAIN T : Ren(x, old, new) \in DOMAIN B
      /\ \A x, y \in DOMAIN T : Ren(x, old, new) = Ren(y, old, new) => x = y
      /\ \A y \in DOMAIN B : \E x \in DOMAIN T : y = Ren(x, old, new)
  <2>1. NOTHING \notin Number
    BY ObjectsAssumption DEF NOTHING, Number
  <2>. QED BY <2>1, NothingIs DEF Renamed, Ren
<1>1. \A x \in DOMAIN T : T[x][up] \in DOMAIN T \cup {NOTHING}
  BY DEF Hier, Ups, UpOf
<1>2. \A x \in DOMAIN T : \A f \in {up, list, next} : B[Ren(x, old, new)][f] = Ren(T[x][f], old, new)
  BY DEF Renamed
<1>3. Ups(B, UpOf(B, up))
  <2>. SUFFICES ASSUME NEW y \in DOMAIN B PROVE B[y][up] \in DOMAIN B \cup {NOTHING}
    BY DEF Ups, UpOf
  <2>1. PICK x \in DOMAIN T : y = Ren(x, old, new)
    BY <1>0
  <2>. QED BY <1>0, <1>1, <1>2, <2>1
<1>4. ASSUME NEW y \in DOMAIN B
      PROVE  \E s : Chain(B, s, B[y][list], next) /\ Has(B, UpOf(B, up), s, y)
  <2>1. PICK o \in DOMAIN T : y = Ren(o, old, new)
    BY <1>0
  <2>2. PICK s : Chain(T, s, T[o][list], next) /\ Has(T, UpOf(T, up), s, o)
    BY DEF Hier, Lists
  <2>3. /\ s \in Seq(DOMAIN T) /\ Len(s) \in Nat /\ \A i \in 1..Len(s) : s[i] \in DOMAIN T
        /\ T[o][list] = At(s, 1)
        /\ \A i \in 1..Len(s) : T[s[i]][next] = At(s, i + 1)
        /\ \A i, j \in 1..Len(s) : s[i] = s[j] => i = j
    BY <2>2 DEF Chain
  <2>4. PICK n \in Nat : n = Len(s)
    BY <2>3
  <2>5. PICK t : t = [i \in 1..n |-> Ren(s[i], old, new)]
    OBVIOUS
  <2>6. t \in Seq(DOMAIN B) /\ Len(t) = n /\ \A i \in 1..n : t[i] = Ren(s[i], old, new)
    BY <1>0, <2>3, <2>4, <2>5
  <2>7. \A i \in Int : At(t, i) = Ren(At(s, i), old, new)
    BY <1>0, <2>4, <2>6 DEF At
  <2>8. B[y][list] = At(t, 1)
    BY <1>2, <2>1, <2>3, <2>7
  <2>9. \A i \in 1..Len(t) : B[t[i]][next] = At(t, i + 1)
    <3>. SUFFICES ASSUME NEW i \in 1..n PROVE B[t[i]][next] = At(t, i + 1)
      BY <2>6
    <3>1. s[i] \in DOMAIN T /\ T[s[i]][next] = At(s, i + 1) /\ t[i] = Ren(s[i], old, new)
      BY <2>3, <2>4, <2>6
    <3>2. B[t[i]][next] = Ren(At(s, i + 1), old, new)
      BY <1>2, <3>1
    <3>. QED BY <2>7, <3>2
  <2>10. \A i, j \in 1..Len(t) : t[i] = t[j] => i = j
    BY <1>0, <2>3, <2>4, <2>6
  <2>11. Chain(B, t, B[y][list], next)
    BY <2>6, <2>8, <2>9, <2>10 DEF Chain
  <2>12. ASSUME NEW z \in DOMAIN B PROVE UpOf(B, up)[z] = y <=> \E i \in 1..Len(t) : t[i] = z
    <3>1. PICK x \in DOMAIN T : z = Ren(x, old, new)
      BY <1>0
    <3>2. UpOf(B, up)[z] = Ren(T[x][up], old, new)
      BY <1>2, <3>1 DEF UpOf
    <3>3. UpOf(B, up)[z] = y <=> T[x][up] = o
      BY <1>0, <1>1, <2>1, <3>2
    <3>4. T[x][up] = o <=> \E i \in 1..n : s[i] = x
      BY <2>2, <2>4 DEF Has, UpOf
    <3>5. \A i \in 1..n : s[i] = x <=> t[i] = z
      BY <1>0, <2>3, <2>4, <2>6, <3>1
    <3>. QED BY <2>6, <3>3, <3>4, <3>5
  <2>13. Has(B, UpOf(B, up), t, y)
    BY <2>12 DEF Has
  <2>. QED BY <2>11, <2>13
<1>5. Ranked(B, up)
  <2>1. PICK h : Height(T, up, h)
    BY DEF Ranked
  <2>2. PICK g : g = [y \in DOMAIN B |-> h[IF y = new THEN old ELSE y]]
    OBVIOUS
  <2>3. g \in [DOMAIN B -> Nat] /\ \A x \in DOMAIN T : g[Ren(x, old, new)] = h[x]
    BY <1>0, <2>1, <2>2 DEF Height, Ren
  <2>4. ASSUME NEW y \in DOMAIN B, B[y][up] # NOTHING PROVE g[B[y][up]] < g[y]
    <3>1. PICK x \in DOMAIN T : y = Ren(x, old, new)
      BY <1>0
    <3>2. B[y][up] = Ren(T[x][up], old, new) /\ T[x][up] # NOTHING
      BY <1>0, <1>2, <2>4, <3>1
    <3>3. g[B[y][up]] = h[T[x][up]] /\ g[y] = h[x]
      BY <1>1, <2>3, <3>1, <3>2
    <3>. QED BY <2>1, <3>2, <3>3 DEF Height
  <2>5. Height(B, up, g)
    BY <2>3, <2>4 DEF Height
  <2>. QED BY <2>5 DEF Ranked
<1>. QED BY <1>3, <1>4, <1>5 DEF Hier, Lists

-----------------------------------------------------------------------------
(* The invariant                                                           *)

\* The inductive invariant: the types, the two forests, the players, and no panic.
Inv == TypeOK /\ Forests(objects) /\ UsersListed /\ panicked = FALSE

\* What an action does to the objects that it does not add.
Kept ==
  /\ Forests(objects') /\ DOMAIN objects' \subseteq DOMAIN objects
  /\ UsersListed' /\ panicked' = FALSE

\* The type of a caller's pending call, as in TypeOK.
CallType == {NoCall} \cup [fn : {"recycle"}, oid : Number]
              \cup [fn : {"move"}, what : Number, where : Number]

\* An action that keeps the objects keeps the invariant.
LEMMA KeptInv ==
  ASSUME Inv, Kept, UNCHANGED num_objects, call' \in [Caller -> CallType]
  PROVE  Inv'
<1>1. \A o \in DOMAIN objects' : objects'[o] \in Object
  BY DEF Kept, Forests, Sound, IsTable
<1>2. all_users' \subseteq Number
  BY DEF Kept, UsersListed, Forests, Sound, IsTable
<1>3. panicked' \in BOOLEAN
  BY DEF Kept
<1>. QED BY <1>1, <1>2, <1>3 DEF Inv, Kept, TypeOK, CallType

\* An action that leaves the table alone keeps the objects.
LEMMA SameKept ==
  ASSUME Inv, UNCHANGED <<objects, all_users, panicked>>
  PROVE  Kept
BY DEF Inv, Kept, UsersListed

\* One object has another parent, or another location.
LEMMA MovedKept ==
  ASSUME Inv, UNCHANGED <<all_users, panicked>>, Forests(objects'), DOMAIN objects' = DOMAIN objects,
         \A x \in DOMAIN objects : objects'[x].user = objects[x].user
  PROVE  Kept
BY DEF Inv, Kept, UsersListed

\* One object is destroyed.
LEMMA DemolishKept ==
  ASSUME Inv, NEW oid \in DOMAIN objects, Demolish(Emptied(objects, oid), oid)
  PROVE  Kept
<1>0. NOTHING # oid
  BY NothingIs DEF Inv, Forests, Sound
<1>1. PICK O : O = Emptied(objects, oid)
  OBVIOUS
<1>2. /\ Forests(O) /\ DOMAIN O = DOMAIN objects /\ O[oid].location = NOTHING
      /\ \A x \in DOMAIN objects : O[x].location # oid /\ O[x].user = objects[x].user
  BY <1>1, EmptiedKeeps DEF Inv
<1>3. PICK P : P = Orphaned(O, oid)
  OBVIOUS
<1>4. /\ Forests(P) /\ DOMAIN P = DOMAIN O /\ P[oid].parent = NOTHING
      /\ \A x \in DOMAIN O : /\ P[x].parent # oid
                             /\ P[x].location = O[x].location
                             /\ P[x].user = O[x].user
  BY <1>2, <1>3, OrphanedKeeps
<1>5. P[oid].contents = NOTHING
  <2>1. Hier(P, "location", "contents", "next") /\ IsTable(P) /\ oid \in DOMAIN P
    BY <1>2, <1>4 DEF Forests, Sound
  <2>2. \A x \in DOMAIN P : P[x]["location"] # oid
    BY <1>2, <1>4
  <2>3. P[oid]["contents"] = NOTHING
    BY <2>1, <2>2, Barren
  <2>. QED BY <2>3
<1>6. P[oid].child = NOTHING
  <2>1. Hier(P, "parent", "child", "sibling") /\ IsTable(P) /\ oid \in DOMAIN P
    BY <1>2, <1>4 DEF Forests, Sound
  <2>2. \A x \in DOMAIN P : P[x]["parent"] # oid
    BY <1>4
  <2>3. P[oid]["child"] = NOTHING
    BY <2>1, <2>2, Barren
  <2>. QED BY <2>3
<1>7. P[oid].location = NOTHING
  BY <1>2, <1>4
<1>8. /\ objects' = [o \in DOMAIN P \ {oid} |-> P[o]]
      /\ all_users' = IF P[oid].user THEN all_users \ {oid} ELSE all_users
      /\ UNCHANGED panicked
  BY <1>1, <1>3, <1>4, <1>5, <1>6, <1>7 DEF Demolish
<1>9. Forests(objects')
  <2>1. \A x \in DOMAIN P : P[x].parent # oid /\ P[x].location # oid
    BY <1>2, <1>4
  <2>2. oid \in DOMAIN P
    BY <1>2, <1>4
  <2>3. PICK Q : Q = [o \in DOMAIN P \ {oid} |-> P[o]]
    OBVIOUS
  <2>4. Forests(Q)
    BY <1>4, <1>7, <2>1, <2>2, <2>3, DropKeeps
  <2>. QED BY <1>8, <2>3, <2>4
<1>10. DOMAIN objects' = DOMAIN objects \ {oid} /\ \A x \in DOMAIN objects' : objects'[x].user = objects[x].user
  BY <1>2, <1>4, <1>8
<1>11. P[oid].user = objects[oid].user
  BY <1>2, <1>4
<1>12. UsersListed'
  BY <1>8, <1>10, <1>11 DEF UsersListed, Inv
<1>. QED BY <1>8, <1>9, <1>10, <1>12 DEF Kept, Inv

\* The first object of a list is one.
LEMMA FirstIs ==
  ASSUME NEW O, Sound(O), NEW oid \in DOMAIN O, O[oid].contents # NOTHING
  PROVE  O[oid].contents \in DOMAIN O
<1>1. PICK s : Chain(O, s, O[oid]["contents"], "next")
  BY DEF Sound, Hier, Lists
<1>. QED BY <1>1 DEF Chain, At

\* recycle() goes on after a verb.
LEMMA MovingContentsKept ==
  ASSUME Inv, NEW c \in Caller, NEW oid \in Number, MovingContents(c, oid)
  PROVE  Kept /\ call' \in [Caller -> CallType]
<1>1. call' \in [Caller -> CallType]
  <2>0. call \in [Caller -> CallType]
    BY DEF Inv, TypeOK, CallType
  <2>1. Waits(c, oid) \/ Returns(c)
    BY DEF MovingContents
  <2>2. ASSUME NEW r \in CallType, call' = [call EXCEPT ![c] = r] PROVE call' \in [Caller -> CallType]
    BY <2>0, <2>2
  <2>3. NoCall \in CallType /\ [fn |-> "recycle", oid |-> oid] \in CallType
    BY DEF CallType
  <2>. QED BY <2>1, <2>2, <2>3 DEF Waits, Returns
<1>2. CASE ~valid(objects, oid)
  BY <1>1, <1>2, SameKept DEF MovingContents
<1>3. CASE valid(objects, oid)
  <2>0. oid \in DOMAIN objects /\ Sound(objects)
    BY <1>3 DEF valid, Inv, Forests
  <2>1. CASE /\ objects[oid].contents # NOTHING
             /\ objects' = db_change_location(objects, objects[oid].contents, NOTHING)
             /\ UNCHANGED <<all_users, panicked>>
    <3>1. PICK first \in DOMAIN objects : first = objects[oid].contents
      BY <2>0, <2>1, FirstIs
    <3>2. NewLocation(objects, objects', first, NOTHING)
      BY <2>0, <2>1, <3>1, ChangeLocation
    <3>3. /\ Sound(objects') /\ DOMAIN objects' = DOMAIN objects
          /\ \A x \in DOMAIN objects : /\ objects'[x].location \in {NOTHING, objects[x].location}
                                       /\ objects'[x].parent = objects[x].parent
                                       /\ objects'[x].user = objects[x].user
      BY <3>2 DEF NewLocation
    <3>4. Ranked(objects', "location") /\ Ranked(objects', "parent")
      BY <3>3, RankLess DEF Inv, Forests
    <3>. QED BY <1>1, <2>1, <3>3, <3>4, MovedKept DEF Forests
  <2>2. CASE /\ objects' = db_change_location(EmptyOut(objects, oid), oid, NOTHING)
             /\ UNCHANGED <<all_users, panicked>>
    <3>1. objects' = Emptied(objects, oid)
      BY <2>2 DEF Emptied
    <3>2. /\ Forests(objects') /\ DOMAIN objects' = DOMAIN objects
          /\ \A x \in DOMAIN objects : objects'[x].user = objects[x].user
      BY <2>0, <3>1, EmptiedKeeps DEF Inv
    <3>. QED BY <1>1, <2>2, <3>2, MovedKept
  <2>3. CASE Demolish(Emptied(objects, oid), oid)
    BY <1>1, <2>0, <2>3, DemolishKept
  <2>. QED BY <1>3, <2>1, <2>2, <2>3 DEF MovingContents
<1>. QED BY <1>2, <1>3

\* An object is moved after where:accept().
LEMMA MoveAcceptedKept ==
  ASSUME Inv, NEW what, NEW where, where = NOTHING \/ where \in Number, MoveAccepted(what, where),
         UNCHANGED <<all_users, panicked>>
  PROVE  Kept
<1>1. CASE objects' = objects
  BY <1>1, SameKept
<1>2. CASE objects' # objects
  <2>1. /\ what \in DOMAIN objects /\ where \in DOMAIN objects \cup {NOTHING}
        /\ ~Around(objects, what, where, "location")
        /\ objects' = db_change_location(objects, what, where)
    BY <1>2 DEF MoveAccepted, valid
  <2>2. Sound(objects) /\ Ranked(objects, "location") /\ Ranked(objects, "parent")
    BY DEF Inv, Forests
  <2>3. NewLocation(objects, objects', what, where)
    BY <2>1, <2>2, ChangeLocation
  <2>4. Sound(objects') /\ DOMAIN objects' = DOMAIN objects
    BY <2>3 DEF NewLocation
  <2>5. Ranked(objects', "parent")
    BY <2>2, <2>3, <2>4, RankLess DEF NewLocation
  <2>6. Ranked(objects', "location")
    <3>1. PICK up \in LinkField : up = "location"
      BY DEF LinkField
    <3>2. /\ IsTable(objects) /\ Ups(objects, UpOf(objects, up)) /\ Ranked(objects, up)
          /\ ~Around(objects, what, where, up)
      BY <2>1, <2>2, <3>1 DEF Sound, Hier
    <3>3. \A x \in DOMAIN objects : objects'[x][up] = IF x = what THEN where ELSE objects[x][up]
      BY <2>3, <3>1 DEF NewLocation
    <3>4. Ranked(objects', up)
      BY <2>1, <2>4, <3>2, <3>3, RankMoved
    <3>. QED BY <3>1, <3>4
  <2>7. \A x \in DOMAIN objects : objects'[x].user = objects[x].user
    BY <2>3 DEF NewLocation
  <2>. QED BY <2>4, <2>5, <2>6, <2>7, MovedKept DEF Forests
<1>. QED BY <1>1, <1>2

\* chparent() moves an object in one hierarchy, and not below itself.
LEMMA ChparentKept ==
  ASSUME Inv, NEW what, NEW parent, chparent(what, parent)
  PROVE  Kept
<1>1. /\ what \in DOMAIN objects /\ parent \in DOMAIN objects \cup {NOTHING}
      /\ ~Around(objects, what, parent, "parent")
      /\ objects' = db_change_parent(objects, what, parent)
  BY DEF chparent, valid
<1>2. Sound(objects) /\ Ranked(objects, "location") /\ Ranked(objects, "parent")
  BY DEF Inv, Forests
<1>3. NewParent(objects, objects', what, parent)
  BY <1>1, <1>2, ChangeParent
<1>4. Sound(objects') /\ DOMAIN objects' = DOMAIN objects
  BY <1>3 DEF NewParent
<1>5. Ranked(objects', "location")
  BY <1>2, <1>3, <1>4, RankLess DEF NewParent
<1>6. Ranked(objects', "parent")
  <2>1. PICK up \in LinkField : up = "parent"
    BY DEF LinkField
  <2>2. /\ IsTable(objects) /\ Ups(objects, UpOf(objects, up)) /\ Ranked(objects, up)
        /\ ~Around(objects, what, parent, up)
    BY <1>1, <1>2, <2>1 DEF Sound, Hier
  <2>3. \A x \in DOMAIN objects : objects'[x][up] = IF x = what THEN parent ELSE objects[x][up]
    BY <1>3, <2>1 DEF NewParent
  <2>4. Ranked(objects', up)
    BY <1>1, <1>4, <2>2, <2>3, RankMoved
  <2>. QED BY <2>1, <2>4
<1>7. \A x \in DOMAIN objects : objects'[x].user = objects[x].user
  BY <1>3 DEF NewParent
<1>. QED BY <1>4, <1>5, <1>6, <1>7, MovedKept DEF Forests, chparent

\* renumber() gives an object another number in every list it is in.
LEMMA RenumberKept ==
  ASSUME Inv, NEW old, NEW new, renumber(old, new)
  PROVE  /\ Forests(objects') /\ DOMAIN objects' = (DOMAIN objects \ {old}) \cup {new}
         /\ UsersListed' /\ panicked' = FALSE
<1>0. /\ old \in DOMAIN objects /\ new \in Number \ DOMAIN objects /\ new # old
      /\ Sound(objects) /\ IsTable(objects)
      /\ Ranked(objects, "parent") /\ Ranked(objects, "location")
  <2>1. old \in DOMAIN objects /\ new \in 0..(old - 1) /\ new \notin DOMAIN objects
    BY DEF renumber, valid
  <2>2. Sound(objects) /\ IsTable(objects) /\ Ranked(objects, "parent") /\ Ranked(objects, "location")
    BY DEF Inv, Forests, Sound
  <2>3. MaxObjects \in Nat /\ old \in 0..(MaxObjects - 1)
    BY <2>1, <2>2, ObjectsAssumption DEF IsTable, Number
  <2>. QED BY <2>1, <2>2, <2>3 DEF Number
<1>1. PICK O : O = [o \in (DOMAIN objects \ {old}) \cup {new} |-> objects[IF o = new THEN old ELSE o]]
  OBVIOUS
<1>2. /\ IsTable(O) /\ DOMAIN O = (DOMAIN objects \ {old}) \cup {new}
      /\ \A x \in DOMAIN objects : O[Ren(x, old, new)] = objects[x]
  BY <1>0, <1>1 DEF IsTable, Ren
<1>3. PICK P : P = Relink(O, old, new, "parent", "child", "sibling")
  OBVIOUS
<1>4. PICK Q : Q = Relink(P, old, new, "location", "contents", "next")
  OBVIOUS
<1>5. /\ ~Lost(O, old, new, "parent", "child", "sibling")
      /\ Renamed(objects, P, old, new, "parent", "child", "sibling")
      /\ \A o \in DOMAIN O : \A f \in {"location", "contents", "next", "user"} : P[o][f] = O[o][f]
  <2>1. PICK up, list, next : up = "parent" /\ list = "child" /\ next = "sibling"
    OBVIOUS
  <2>2. Three(up, list, next) /\ Hier(objects, up, list, next) /\ Ranked(objects, up)
    BY <1>0, <2>1 DEF Three, LinkField, Sound
  <2>3. Rehoused(objects, O, old, new, up, list, next)
    BY <1>2 DEF Rehoused
  <2>4. ~Lost(O, old, new, up, list, next)
    BY <1>0, <2>2, <2>3, NotLost
  <2>5. P = Relink(O, old, new, up, list, next)
    BY <1>3, <2>1
  <2>6. /\ Renamed(objects, P, old, new, up, list, next)
        /\ \A o \in DOMAIN O : \A f \in Field \ {up, list, next} : P[o][f] = O[o][f]
    BY <1>0, <2>2, <2>3, <2>5, RelinkIs
  <2>7. {"location", "contents", "next", "user"} \subseteq Field \ {up, list, next}
    BY <2>1 DEF Field, LinkField
  <2>. QED BY <2>1, <2>4, <2>6, <2>7
<1>6. /\ ~Lost(P, old, new, "location", "contents", "next")
      /\ Renamed(objects, Q, old, new, "location", "contents", "next")
      /\ \A o \in DOMAIN P : \A f \in {"parent", "child", "sibling", "user"} : Q[o][f] = P[o][f]
  <2>1. PICK up, list, next : up = "location" /\ list = "contents" /\ next = "next"
    OBVIOUS
  <2>2. Three(up, list, next) /\ Hier(objects, up, list, next) /\ Ranked(objects, up)
    BY <1>0, <2>1 DEF Three, LinkField, Sound
  <2>3. Rehoused(objects, P, old, new, up, list, next)
    <3>1. IsTable(P) /\ DOMAIN P = DOMAIN O
      BY <1>2, <1>5 DEF Renamed
    <3>2. ASSUME NEW x \in DOMAIN objects, NEW f \in {up, list, next}
          PROVE  P[Ren(x, old, new)][f] = objects[x][f]
      <4>1. Ren(x, old, new) \in DOMAIN O
        BY <1>2 DEF Ren
      <4>2. f \in {"location", "contents", "next", "user"}
        BY <2>1
      <4>. QED BY <1>2, <1>5, <4>1, <4>2
    <3>. QED BY <1>2, <3>1, <3>2 DEF Rehoused
  <2>4. ~Lost(P, old, new, up, list, next)
    BY <1>0, <2>2, <2>3, NotLost
  <2>5. Q = Relink(P, old, new, up, list, next)
    BY <1>4, <2>1
  <2>6. /\ Renamed(objects, Q, old, new, up, list, next)
        /\ \A o \in DOMAIN P : \A f \in Field \ {up, list, next} : Q[o][f] = P[o][f]
    BY <1>0, <2>2, <2>3, <2>5, RelinkIs
  <2>7. {"parent", "child", "sibling", "user"} \subseteq Field \ {up, list, next}
    BY <2>1 DEF Field, LinkField
  <2>. QED BY <2>1, <2>4, <2>6, <2>7
<1>7. /\ DOMAIN Q = (DOMAIN objects \ {old}) \cup {new} /\ DOMAIN P = DOMAIN Q /\ DOMAIN O = DOMAIN Q
      /\ IsTable(Q)
  BY <1>2, <1>5, <1>6 DEF Renamed
<1>8. Renamed(objects, Q, old, new, "parent", "child", "sibling")
  <2>1. ASSUME NEW x \in DOMAIN objects, NEW f \in {"parent", "child", "sibling"}
        PROVE  Q[Ren(x, old, new)][f] = Ren(objects[x][f], old, new)
    <3>1. Ren(x, old, new) \in DOMAIN P
      BY <1>7 DEF Ren
    <3>2. Q[Ren(x, old, new)][f] = P[Ren(x, old, new)][f]
      BY <1>6, <3>1
    <3>3. P[Ren(x, old, new)][f] = Ren(objects[x][f], old, new)
      BY <1>5 DEF Renamed
    <3>. QED BY <3>2, <3>3
  <2>. QED BY <1>7, <2>1 DEF Renamed
<1>9. Hier(Q, "parent", "child", "sibling") /\ Ranked(Q, "parent")
  BY <1>0, <1>8, RenamedHier DEF Sound
<1>10. Hier(Q, "location", "contents", "next") /\ Ranked(Q, "location")
  BY <1>0, <1>6, RenamedHier DEF Sound
<1>11. Forests(Q)
  BY <1>7, <1>9, <1>10 DEF Forests, Sound
<1>12. objects' = Q /\ all_users' = RenumberUsers(old, new) /\ panicked' = panicked
  BY <1>1, <1>3, <1>4, <1>5, <1>6 DEF renumber
<1>13. \A x \in DOMAIN objects : Q[Ren(x, old, new)].user = objects[x].user
  <2>. SUFFICES ASSUME NEW x \in DOMAIN objects PROVE Q[Ren(x, old, new)]["user"] = objects[x]["user"]
    OBVIOUS
  <2>1. PICK y \in DOMAIN Q : y = Ren(x, old, new)
    BY <1>7 DEF Ren
  <2>2. O[y]["user"] = objects[x]["user"]
    BY <1>2, <2>1
  <2>3. P[y]["user"] = O[y]["user"]
    BY <1>5, <1>7
  <2>4. Q[y]["user"] = P[y]["user"]
    BY <1>6, <1>7
  <2>. QED BY <2>1, <2>2, <2>3, <2>4
<1>14. UsersListed'
  <2>1. all_users = {o \in DOMAIN objects : objects[o].user}
    BY DEF Inv, UsersListed
  <2>2. \A x \in DOMAIN objects \ {old} : Q[x].user = objects[x].user
    BY <1>13 DEF Ren
  <2>3. Q[new].user = objects[old].user
    BY <1>0, <1>13 DEF Ren
  <2>4. {o \in DOMAIN Q : Q[o].user} = RenumberUsers(old, new)
    <3>1. CASE ~objects[old].user
      BY <1>0, <1>7, <2>1, <2>2, <2>3, <3>1 DEF RenumberUsers
    <3>2. CASE objects[old].user
      <4>1. RenumberUsers(old, new) = {IF u = old THEN new ELSE u : u \in all_users}
        BY <3>2 DEF RenumberUsers
      <4>2. {IF u = old THEN new ELSE u : u \in all_users} = (all_users \ {old}) \cup {new}
        BY <1>0, <2>1, <3>2
      <4>3. {o \in DOMAIN Q : Q[o].user} = (all_users \ {old}) \cup {new}
        BY <1>0, <1>7, <2>1, <2>2, <2>3, <3>2
      <4>. QED BY <4>1, <4>2, <4>3
    <3>. QED BY <3>1, <3>2
  <2>. QED BY <1>12, <2>4 DEF UsersListed
<1>. QED BY <1>7, <1>11, <1>12, <1>14 DEF Inv

\* create() adds an object and gives it its parent.
LEMMA CreateKeeps ==
  ASSUME Inv, NEW parent, create(parent)
  PROVE  Inv'
<1>0. /\ num_objects \in Nat /\ MaxObjects \in Nat /\ num_objects < MaxObjects
      /\ Forests(objects) /\ DOMAIN objects \subseteq 0..(num_objects - 1)
  BY ObjectsAssumption DEF Inv, TypeOK, create
<1>1. PICK new \in Number \ DOMAIN objects : new = num_objects
  BY <1>0 DEF Number
<1>2. PICK O : O = [o \in DOMAIN objects \cup {new} |-> IF o = new THEN NewObject ELSE objects[o]]
  OBVIOUS
<1>3. /\ Forests(O) /\ O[new].parent = NOTHING /\ \A x \in DOMAIN objects : O[x].parent # new
  BY <1>0, <1>2, AddKeeps
<1>4. /\ DOMAIN O = DOMAIN objects \cup {new} /\ parent \in DOMAIN O \cup {NOTHING} /\ parent # new
      /\ O[new].user = FALSE /\ \A x \in DOMAIN objects : O[x].user = objects[x].user
  <2>1. parent \in DOMAIN objects \cup {NOTHING}
    BY DEF create, valid
  <2>2. NOTHING \notin Number
    BY ObjectsAssumption DEF NOTHING, Number
  <2>. QED BY <1>2, <2>1, <2>2 DEF NewObject
<1>5. objects' = db_change_parent(O, new, parent)
  BY <1>1, <1>2 DEF create
<1>6. NewParent(O, objects', new, parent)
  BY <1>3, <1>4, <1>5, ChangeParent DEF Forests
<1>7. Sound(objects') /\ DOMAIN objects' = DOMAIN O
  BY <1>6 DEF NewParent
<1>8. Ranked(objects', "location")
  BY <1>3, <1>6, <1>7, RankLess DEF NewParent, Forests
<1>9. Ranked(objects', "parent")
  <2>1. PICK h : Height(O, "parent", h)
    BY <1>3 DEF Forests, Ranked
  <2>2. h \in [DOMAIN O -> Nat] /\ \A x \in DOMAIN O : O[x].parent # NOTHING => h[O[x].parent] < h[x]
    BY <2>1 DEF Height
  <2>3. PICK top \in Nat : parent # NOTHING => top = h[parent] + 1
    BY <1>4, <2>2
  <2>4. PICK g : g = [o \in DOMAIN O |-> IF o = new THEN top ELSE h[o]]
    OBVIOUS
  <2>5. g \in [DOMAIN O -> Nat]
    BY <2>2, <2>4
  <2>6. ASSUME NEW x \in DOMAIN O, objects'[x].parent # NOTHING PROVE g[objects'[x].parent] < g[x]
    <3>1. CASE x = new
      <4>1. objects'[x].parent = parent /\ parent \in DOMAIN O /\ parent # new
        BY <1>4, <1>6, <2>6, <3>1 DEF NewParent
      <4>. QED BY <2>2, <2>3, <2>4, <2>6, <3>1, <4>1
    <3>2. CASE x # new
      <4>1. objects'[x].parent = O[x].parent /\ O[x].parent # new /\ x \in DOMAIN objects
        BY <1>3, <1>4, <1>6, <3>2 DEF NewParent
      <4>2. O[x].parent \in DOMAIN O \cup {NOTHING}
        BY <1>3 DEF Forests, Sound, Hier, Ups, UpOf
      <4>. QED BY <2>2, <2>4, <2>6, <3>2, <4>1, <4>2
    <3>. QED BY <3>1, <3>2
  <2>7. Height(objects', "parent", g)
    BY <1>7, <2>5, <2>6 DEF Height
  <2>. QED BY <2>7 DEF Ranked
<1>10. Forests(objects')
  BY <1>7, <1>8, <1>9 DEF Forests
<1>11. UsersListed'
  <2>1. all_users' = all_users
    BY DEF create
  <2>2. objects'[new].user = FALSE /\ \A x \in DOMAIN objects : objects'[x].user = objects[x].user
    BY <1>4, <1>6 DEF NewParent
  <2>. QED BY <1>4, <1>7, <2>1, <2>2 DEF UsersListed, Inv
<1>12. TypeOK'
  <2>1. num_objects' = num_objects + 1 /\ UNCHANGED <<all_users, call, panicked>>
    BY DEF create
  <2>2. DOMAIN objects' \subseteq 0..(num_objects' - 1)
    BY <1>0, <1>1, <1>4, <1>7, <2>1
  <2>3. num_objects' \in 0..MaxObjects
    BY <1>0, <2>1
  <2>4. \A o \in DOMAIN objects' : objects'[o] \in Object
    BY <1>7 DEF Sound, IsTable
  <2>. QED BY <2>1, <2>2, <2>3, <2>4 DEF TypeOK, Inv
<1>. QED BY <1>10, <1>11, <1>12 DEF Inv, create

\* set_player_flag() changes all_users and the flag together.
LEMMA FlagKept ==
  ASSUME Inv, NEW o, NEW yes \in BOOLEAN, set_player_flag(o, yes)
  PROVE  Kept
<1>0. o \in DOMAIN objects /\ Sound(objects) /\ IsTable(objects)
  BY DEF set_player_flag, valid, Inv, Forests, Sound
<1>1. PICK r : r = [objects[o] EXCEPT !.user = yes]
  OBVIOUS
<1>2. objects[o] \in Object
  BY <1>0 DEF IsTable
<1>3. r \in Object /\ r.user = yes /\ \A f \in LinkField : r[f] = objects[o][f]
  BY <1>1, <1>2 DEF Object, LinkField
<1>4. objects' = [x \in DOMAIN objects |-> IF x = o THEN r ELSE objects[x]]
  BY <1>0, <1>1 DEF set_player_flag, IsTable
<1>5. DOMAIN objects' = DOMAIN objects /\ \A x \in DOMAIN objects : \A f \in LinkField : objects'[x][f] = objects[x][f]
  BY <1>3, <1>4
<1>6. IsTable(objects')
  BY <1>0, <1>3, <1>4 DEF IsTable
<1>7. Hier(objects', "parent", "child", "sibling")
  BY <1>0, <1>5, HierKept DEF Sound, LinkField
<1>8. Hier(objects', "location", "contents", "next")
  BY <1>0, <1>5, HierKept DEF Sound, LinkField
<1>9. Ranked(objects', "parent") /\ Ranked(objects', "location")
  BY <1>5, RankLess DEF LinkField, Inv, Forests
<1>10. \A x \in DOMAIN objects : objects'[x].user = IF x = o THEN yes ELSE objects[x].user
  BY <1>3, <1>4
<1>11. all_users' = IF yes THEN all_users \cup {o} ELSE all_users \ {o}
  BY DEF set_player_flag
<1>12. UsersListed'
  <2>1. all_users = {x \in DOMAIN objects : objects[x].user}
    BY DEF Inv, UsersListed
  <2>2. CASE yes = TRUE
    BY <1>0, <1>5, <1>10, <1>11, <2>1, <2>2 DEF UsersListed
  <2>3. CASE yes = FALSE
    BY <1>0, <1>5, <1>10, <1>11, <2>1, <2>3 DEF UsersListed
  <2>. QED BY <2>2, <2>3
<1>13. panicked' = FALSE
  BY DEF set_player_flag, Inv
<1>. QED BY <1>5, <1>6, <1>7, <1>8, <1>9, <1>12, <1>13 DEF Kept, Forests, Sound

\* reset_max_object() makes the table shorter by unused numbers only.
LEMMA ResetKeeps ==
  ASSUME Inv, reset_max_object
  PROVE  Inv'
<1>0. /\ num_objects \in 0..MaxObjects /\ MaxObjects \in Nat /\ DOMAIN objects # {}
      /\ DOMAIN objects \subseteq 0..(num_objects - 1)
  BY ObjectsAssumption DEF Inv, TypeOK, reset_max_object
<1>1. PICK D : D = DOMAIN objects
  OBVIOUS
<1>2. PICK m \in D : \A p \in D : p <= m
  <2>. DEFINE T == {num_objects - i : i \in D}
  <2>1. T \subseteq Nat /\ T # {}
    <3>1. \A i \in D : num_objects - i \in Nat
      BY <1>0, <1>1
    <3>2. PICK i \in D : TRUE
      BY <1>0, <1>1
    <3>. QED BY <3>1, <3>2
  <2>2. PICK x \in T : \A y \in T : x <= y
    <3>. HIDE DEF T
    <3>. QED BY <2>1, LeastElement
  <2>3. PICK m \in D : x = num_objects - m
    OBVIOUS
  <2>4. ASSUME NEW p \in D PROVE p <= m
    <3>1. num_objects - m <= num_objects - p
      BY <2>2, <2>3
    <3>2. p \in Nat /\ m \in Nat /\ num_objects \in Nat
      BY <1>0, <1>1
    <3>. QED BY <3>1, <3>2
  <2>. QED BY <2>4
<1>3. PICK top : top = CHOOSE o \in D : \A p \in D : p <= o
  OBVIOUS
<1>4. top \in D /\ \A p \in D : p <= top
  BY <1>2, <1>3
<1>5. num_objects' = 1 + top /\ UNCHANGED <<objects, all_users, call, panicked>>
  BY <1>1, <1>3 DEF reset_max_object
<1>6. num_objects' \in 0..MaxObjects /\ DOMAIN objects \subseteq 0..(num_objects' - 1)
  <2>1. top \in 0..(num_objects - 1) /\ \A p \in DOMAIN objects : p \in 0..(num_objects - 1) /\ p <= top
    BY <1>0, <1>1, <1>4
  <2>. QED BY <1>0, <1>5, <2>1
<1>7. TypeOK'
  BY <1>5, <1>6 DEF TypeOK, Inv
<1>. QED BY <1>5, <1>7 DEF Inv, UsersListed

-----------------------------------------------------------------------------
(* The theorems                                                            *)

\* The system object alone.
LEMMA InvInit == Init => Inv
<1>. SUFFICES ASSUME Init PROVE Inv
  OBVIOUS
<1>1. MaxObjects \in Nat /\ MaxObjects >= 1 /\ 0 \in Number
  BY ObjectsAssumption DEF Number
<1>2. PICK E : E = [o \in {} |-> NewObject]
  OBVIOUS
<1>3. DOMAIN E = {}
  BY <1>2
<1>4. Forests(E)
  <2>1. IsTable(E)
    BY <1>2 DEF IsTable
  <2>2. \A up, list, next : Hier(E, up, list, next)
    BY <1>3 DEF Hier, Ups, UpOf, Lists
  <2>3. \A up : Height(E, up, E)
    BY <1>2, <1>3 DEF Height
  <2>4. \A up : Ranked(E, up)
    BY <2>3 DEF Ranked
  <2>. QED BY <2>1, <2>2, <2>4 DEF Forests, Sound
<1>5. PICK new \in Number \ DOMAIN E : new = 0
  BY <1>1, <1>3
<1>6. objects = [o \in DOMAIN E \cup {new} |-> IF o = new THEN NewObject ELSE E[o]]
  BY <1>3, <1>5 DEF Init
<1>7. Forests(objects)
  BY <1>4, <1>6, AddKeeps
<1>8. UsersListed
  BY DEF Init, UsersListed, NewObject
<1>9. TypeOK
  <2>1. \A o \in DOMAIN objects : objects[o] \in Object
    BY <1>7 DEF Forests, Sound, IsTable
  <2>2. DOMAIN objects = {0} /\ num_objects = 1
    BY DEF Init
  <2>3. call \in [Caller -> CallType]
    <3>1. NoCall \in CallType
      BY DEF CallType
    <3>. QED BY <3>1 DEF Init
  <2>4. DOMAIN objects \subseteq 0..(num_objects - 1) /\ num_objects \in 0..MaxObjects
    BY <1>1, <2>2
  <2>5. all_users \subseteq Number /\ panicked \in BOOLEAN
    BY DEF Init
  <2>. QED BY <2>1, <2>3, <2>4, <2>5 DEF TypeOK, CallType
<1>. QED BY <1>7, <1>8, <1>9 DEF Inv, Init

\* One case per action.
LEMMA InvNext == Inv /\ [Next]_vars => Inv'
<1>. SUFFICES ASSUME Inv, [Next]_vars PROVE Inv'
  OBVIOUS
<1>0. call \in [Caller -> CallType]
  BY DEF Inv, TypeOK, CallType
<1>1. CASE UNCHANGED vars
  BY <1>1 DEF vars, Inv, TypeOK, UsersListed
<1>2. ASSUME NEW p \in Fertile, create(p) PROVE Inv'
  BY <1>2, CreateKeeps
<1>3. ASSUME NEW o \in Number, NEW p \in Fertile, chparent(o, p) PROVE Inv'
  <2>1. Kept
    BY <1>3, ChparentKept
  <2>. QED BY <1>0, <1>3, <2>1, KeptInv DEF chparent
<1>4. ASSUME NEW o \in Person, NEW yes \in BOOLEAN, set_player_flag(o, yes) PROVE Inv'
  <2>1. Kept
    BY <1>4, FlagKept
  <2>. QED BY <1>0, <1>4, <2>1, KeptInv DEF set_player_flag
<1>5. CASE reset_max_object
  BY <1>5, ResetKeeps
<1>6. ASSUME NEW old \in Number, NEW new \in Number, renumber(old, new) PROVE Inv'
  <2>1. /\ Forests(objects') /\ DOMAIN objects' = (DOMAIN objects \ {old}) \cup {new}
        /\ UsersListed' /\ panicked' = FALSE
    BY <1>6, RenumberKept
  <2>2. UNCHANGED <<num_objects, call>> /\ old \in DOMAIN objects /\ new \in 0..(old - 1)
    BY <1>6 DEF renumber, valid
  <2>3. DOMAIN objects' \subseteq 0..(num_objects' - 1)
    <3>1. num_objects \in Nat /\ DOMAIN objects \subseteq 0..(num_objects - 1)
      BY ObjectsAssumption DEF Inv, TypeOK
    <3>. QED BY <2>1, <2>2, <3>1
  <2>4. \A o \in DOMAIN objects' : objects'[o] \in Object
    BY <2>1 DEF Forests, Sound, IsTable
  <2>5. all_users' \subseteq Number
    BY <2>1 DEF UsersListed, Forests, Sound, IsTable
  <2>. QED BY <2>1, <2>2, <2>3, <2>4, <2>5 DEF Inv, TypeOK
<1>7. ASSUME NEW c \in Caller, NEW what \in Number, NEW where \in Place, move(c, what, where) PROVE Inv'
  <2>1. where = NOTHING \/ where \in Number
    BY ObjectsAssumption DEF Number, NOTHING
  <2>2. UNCHANGED <<num_objects, all_users, panicked>>
    BY <1>7 DEF move
  <2>3. CASE /\ where # NOTHING
             /\ call' = [call EXCEPT ![c] = [fn |-> "move", what |-> what, where |-> where]]
             /\ UNCHANGED objects
    <3>1. PICK r : r = [fn |-> "move", what |-> what, where |-> where]
      OBVIOUS
    <3>2. r \in CallType
      BY <2>1, <2>3, <3>1 DEF CallType
    <3>3. call' \in [Caller -> CallType]
      BY <1>0, <2>3, <3>1, <3>2
    <3>4. Kept
      BY <2>2, <2>3, SameKept
    <3>. QED BY <2>2, <3>3, <3>4, KeptInv
  <2>4. CASE MoveAccepted(what, where) /\ UNCHANGED call
    <3>1. Kept
      BY <2>1, <2>2, <2>4, MoveAcceptedKept
    <3>. QED BY <1>0, <2>2, <2>4, <3>1, KeptInv
  <2>. QED BY <1>7, <2>3, <2>4 DEF move
<1>8. ASSUME NEW c \in Caller, NEW oid \in Number, recycle(c, oid) PROVE Inv'
  <2>1. oid \in DOMAIN objects /\ UNCHANGED num_objects
    BY <1>8 DEF recycle, valid
  <2>2. CASE Waits(c, oid) /\ UNCHANGED <<objects, all_users, panicked>>
    <3>1. PICK r : r = [fn |-> "recycle", oid |-> oid]
      OBVIOUS
    <3>2. r \in CallType
      BY <3>1 DEF CallType
    <3>3. call' \in [Caller -> CallType]
      BY <1>0, <2>2, <3>1, <3>2 DEF Waits
    <3>4. Kept
      BY <2>2, SameKept
    <3>. QED BY <2>1, <3>3, <3>4, KeptInv
  <2>3. CASE MovingContents(c, oid)
    <3>1. Kept /\ call' \in [Caller -> CallType]
      BY <2>3, MovingContentsKept
    <3>. QED BY <2>1, <3>1, KeptInv
  <2>4. CASE Demolish(Emptied(objects, oid), oid) /\ UNCHANGED call
    <3>1. Kept
      BY <2>1, <2>4, DemolishKept
    <3>. QED BY <1>0, <2>1, <2>4, <3>1, KeptInv
  <2>. QED BY <1>8, <2>2, <2>3, <2>4 DEF recycle
<1>9. ASSUME NEW c \in Caller, MoveGoesOn(c) PROVE Inv'
  <2>1. call[c] \in CallType /\ call[c].fn = "move"
    BY <1>0, <1>9 DEF MoveGoesOn
  <2>2. call[c].where \in Number
    BY <2>1 DEF CallType, NoCall
  <2>3. Kept
    BY <1>9, <2>2, MoveAcceptedKept DEF MoveGoesOn
  <2>4. call' \in [Caller -> CallType]
    <3>1. NoCall \in CallType
      BY DEF CallType
    <3>. QED BY <1>0, <1>9, <3>1 DEF MoveGoesOn
  <2>. QED BY <1>9, <2>3, <2>4, KeptInv DEF MoveGoesOn
<1>10. ASSUME NEW c \in Caller, RecycleGoesOn(c) PROVE Inv'
  <2>1. call[c] \in CallType /\ call[c].fn = "recycle"
    BY <1>0, <1>10 DEF RecycleGoesOn
  <2>2. call[c].oid \in Number
    BY <2>1 DEF CallType, NoCall
  <2>3. Kept /\ call' \in [Caller -> CallType]
    BY <1>10, <2>2, MovingContentsKept DEF RecycleGoesOn
  <2>. QED BY <1>10, <2>3, KeptInv DEF RecycleGoesOn
<1>11. ASSUME NEW c \in Caller, Abandon(c) PROVE Inv'
  <2>1. Kept
    BY <1>11, SameKept DEF Abandon
  <2>2. call' \in [Caller -> CallType]
    <3>1. NoCall \in CallType
      BY DEF CallType
    <3>. QED BY <1>0, <1>11, <3>1 DEF Abandon, Returns
  <2>. QED BY <1>11, <2>1, <2>2, KeptInv DEF Abandon
<1>. QED BY <1>1, <1>2, <1>3, <1>4, <1>5, <1>6, <1>7, <1>8, <1>9, <1>10, <1>11 DEF Next

\* A list without repetitions has as many elements as it is long.
LEMMA LenIsCardinality ==
  ASSUME NEW T, NEW s \in Seq(T), \A i, j \in 1..Len(s) : s[i] = s[j] => i = j
  PROVE  Len(s) = Cardinality(ToSet(s))
<1>1. Len(s) \in Nat /\ DOMAIN s = 1..Len(s)
  OBVIOUS
<1>2. IsFiniteSet(1..Len(s)) /\ Cardinality(1..Len(s)) = Len(s)
  <2>1. 1 \in Int /\ Len(s) \in Int
    BY <1>1
  <2>2. IsFiniteSet(1..Len(s)) /\ Cardinality(1..Len(s)) = IF 1 > Len(s) THEN 0 ELSE Len(s) - 1 + 1
    BY <2>1, FS_Interval
  <2>. QED BY <1>1, <2>2
<1>3. s \in Bijection(1..Len(s), ToSet(s))
  BY <1>1 DEF Bijection, Injection, Surjection, IsInjective, ToSet
<1>4. ExistsBijection(1..Len(s), ToSet(s))
  BY <1>3 DEF ExistsBijection
<1>. QED BY <1>2, <1>4, FS_Bijection

\* The hierarchies of the invariant are those of ListsAgree.
LEMMA HierAgrees ==
  ASSUME Sound(objects), NEW up, NEW list, NEW next, Hier(objects, up, list, next), next \in LinkField
  PROVE  Agree(up, list, next)
<1>. SUFFICES ASSUME NEW o \in DOMAIN objects,
                     NEW s, s = ListFrom(objects, objects[o][list], next)
              PROVE  /\ ToSet(s) = {p \in DOMAIN objects : objects[p][up] = o}
                     /\ Len(s) = Cardinality(ToSet(s))
                     /\ objects[o][up] # NOTHING => valid(objects, objects[o][up])
  BY DEF Agree
<1>1. /\ s \in Seq(DOMAIN objects) /\ Len(s) \in Nat /\ DOMAIN s = 1..Len(s)
      /\ Part(s, Len(s)) = {x \in DOMAIN objects : objects[x][up] = o}
      /\ \A i, j \in 1..Len(s) : s[i] = s[j] => i = j
  BY ListOf
<1>2. ToSet(s) = Part(s, Len(s))
  BY <1>1 DEF ToSet, Part
<1>3. Len(s) = Cardinality(ToSet(s))
  BY <1>1, LenIsCardinality
<1>4. objects[o][up] # NOTHING => valid(objects, objects[o][up])
  BY DEF Hier, Ups, UpOf, valid
<1>. QED BY <1>1, <1>2, <1>3, <1>4

\* What the invariant says about the properties.
LEMMA InvGives == Inv => ListsAgree /\ Acyclic /\ NeverPanics
<1>. SUFFICES ASSUME Inv PROVE ListsAgree /\ Acyclic /\ NeverPanics
  OBVIOUS
<1>1. /\ Sound(objects) /\ IsTable(objects)
      /\ Hier(objects, "parent", "child", "sibling") /\ Hier(objects, "location", "contents", "next")
      /\ Ranked(objects, "parent") /\ Ranked(objects, "location")
  BY DEF Inv, Forests, Sound
<1>2. ListsAgree
  <2>1. "sibling" \in LinkField /\ "next" \in LinkField
    BY DEF LinkField
  <2>2. Agree("parent", "child", "sibling")
    BY <1>1, <2>1, HierAgrees
  <2>3. Agree("location", "contents", "next")
    BY <1>1, <2>1, HierAgrees
  <2>. QED BY <2>2, <2>3 DEF ListsAgree
<1>3. ASSUME NEW up \in {"parent", "location"}
      PROVE  \A o \in DOMAIN objects : ~Around(objects, o, objects[o][up], up)
  <2>1. up \in LinkField /\ Ups(objects, UpOf(objects, up)) /\ Ranked(objects, up)
    BY <1>1 DEF LinkField, Hier
  <2>. QED BY <1>1, <2>1, AroundIs
<1>4. Acyclic
  <2>1. \A o \in DOMAIN objects : ~Around(objects, o, objects[o]["parent"], "parent")
    BY <1>3
  <2>2. \A o \in DOMAIN objects : ~Around(objects, o, objects[o]["location"], "location")
    BY <1>3
  <2>. QED BY <2>1, <2>2 DEF Acyclic
<1>5. NeverPanics
  BY DEF Inv, NeverPanics
<1>. QED BY <1>2, <1>4, <1>5

\* The invariant of this module holds in every reachable state.
LEMMA InvAlways == Spec => []Inv
BY InvInit, InvNext, PTL DEF Spec

\* The object table stays a table of objects with numbers below num_objects, and
\* all_users a set of numbers, whatever sequence of built-in functions runs.
THEOREM TableTyped == Spec => []TypeOK
<1>1. Inv => TypeOK
  BY DEF Inv
<1>. QED BY <1>1, InvAlways, PTL

\* The children list of an object holds exactly the objects whose parent it is,
\* each once, and its contents list those whose location it is: LL_APPEND and
\* LL_REMOVE in db_objects.c never lose, duplicate or misplace an object.
THEOREM ListsStayRight == Spec => []ListsAgree
BY InvAlways, InvGives, PTL

\* No object is its own ancestor and none is inside itself: the checks that
\* chparent() and move() make before they change a link are enough, even though
\* move() runs MOO verbs between them.
THEOREM NoLoops == Spec => []Acyclic
BY InvAlways, InvGives, PTL

\* The panics of db_destroy_object() and db_renumber_object() are out of reach: what
\* is destroyed is a barren orphan, and an object that gets another number is found
\* in the lists of its parent and its location.
THEOREM TableNeverPanics == Spec => []NeverPanics
BY InvAlways, InvGives, PTL

\* all_users holds the valid objects with the player flag, and no others, after
\* recycle() and renumber() too.
THEOREM PlayersListed == Spec => []UsersListed
<1>1. Inv => UsersListed
  BY DEF Inv
<1>. QED BY <1>1, InvAlways, PTL
=============================================================================
