---------------------------- MODULE SumTheorems ----------------------------
(***************************************************************************)
(* Induction for the provers that are at hand, and what SumTo computes.    *)
(*                                                                         *)
(* The induction theorems of the library take a predicate as a parameter,  *)
(* which first-order provers cannot give them.  NatInd takes a set: to     *)
(* prove P(n) for every n, let S be {n \in Nat : P(n)}.                    *)
(***************************************************************************)
EXTENDS Sums, WellFoundedInduction, TLAPS

\* A set with 0, and with n + 1 whenever it has n, has all natural numbers:
\* otherwise take the least that is missing.
LEMMA NatInd ==
  ASSUME NEW S, 0 \in S, \A n \in Nat : n \in S => n + 1 \in S
  PROVE  \A n \in Nat : n \in S
<1>. DEFINE Less == OpToRel(<, Nat)
<1>1. IsWellFoundedOn(Less, Nat)
  BY NatLessThanWellFounded
<1>. SUFFICES ASSUME Nat \ S # {} PROVE FALSE
  OBVIOUS
<1>2. PICK x \in Nat \ S : \A y \in Nat \ S : <<y, x>> \notin Less
  <2>. HIDE DEF Less
  <2>. QED BY <1>1, WFMin
<1>3. x - 1 \in Nat /\ x - 1 \notin S
  <2>1. x # 0
    OBVIOUS
  <2>. QED BY <2>1
<1>4. <<x - 1, x>> \in Less
  BY <1>3 DEF OpToRel
<1>. QED BY <1>2, <1>3, <1>4

\* A set of natural numbers that is not empty has a least element.
LEMMA LeastElement ==
  ASSUME NEW S, S \subseteq Nat, S # {}
  PROVE  \E x \in S : \A y \in S : x <= y
<1>. DEFINE Less == OpToRel(<, Nat)
<1>1. IsWellFoundedOn(Less, Nat)
  BY NatLessThanWellFounded
<1>2. PICK x \in S : \A y \in S : <<y, x>> \notin Less
  <2>. HIDE DEF Less
  <2>. QED BY <1>1, WFMin
<1>3. \A y \in S : ~(y < x)
  BY <1>2 DEF OpToRel
<1>. QED BY <1>3

\* A set of numbers up to n that is not empty has a greatest element.
LEMMA GreatestElement ==
  ASSUME NEW n \in Nat, NEW s \in SUBSET (1..n), s # {}
  PROVE  \E m \in s : \A i \in s : m >= i
<1>. DEFINE T == {n - i : i \in s}
<1>1. T \subseteq Nat /\ T # {}
  <2>1. \A i \in s : n - i \in Nat
    OBVIOUS
  <2>2. PICK i \in s : TRUE
    OBVIOUS
  <2>. QED BY <2>1, <2>2
<1>2. PICK x \in T : \A y \in T : x <= y
  <2>. HIDE DEF T
  <2>. QED BY <1>1, LeastElement
<1>3. PICK m \in s : x = n - m
  OBVIOUS
<1>4. \A i \in s : m >= i
  <2>. SUFFICES ASSUME NEW i \in s PROVE m >= i
    OBVIOUS
  <2>1. n - m <= n - i
    BY <1>2, <1>3
  <2>. QED BY <2>1
<1>. QED BY <1>4

-----------------------------------------------------------------------------
(* The function in the definition of SumTo                                 *)

\* sum is a function that the definition of SumTo(f, n) asks for.
Adds(sum, f, n) == sum = [i \in 0..n |-> IF i = 0 THEN 0 ELSE sum[i - 1] + f[i]]

\* There is one, by induction on n.
LEMMA AddsExists ==
  ASSUME NEW f, NEW n \in Nat
  PROVE  \E sum : Adds(sum, f, n)
<1>. DEFINE S == {k \in Nat : \E sum : Adds(sum, f, k)}
<1>1. 0 \in S
  <2>. DEFINE zero == [i \in 0..0 |-> 0]
  <2>1. zero = [i \in 0..0 |-> IF i = 0 THEN 0 ELSE zero[i - 1] + f[i]]
    OBVIOUS
  <2>. QED BY <2>1 DEF Adds
<1>2. ASSUME NEW k \in Nat, k \in S PROVE k + 1 \in S
  <2>1. PICK s : Adds(s, f, k)
    BY <1>2
  <2>. DEFINE t == [i \in 0..(k + 1) |-> IF i = k + 1 THEN s[k] + f[k + 1] ELSE s[i]]
  <2>2. \A i \in 0..(k + 1) : t[i] = IF i = 0 THEN 0 ELSE t[i - 1] + f[i]
    BY <2>1 DEF Adds
  <2>3. t = [i \in 0..(k + 1) |-> t[i]]
    OBVIOUS
  <2>. HIDE DEF t
  <2>4. Adds(t, f, k + 1)
    BY <2>2, <2>3 DEF Adds
  <2>. QED BY <2>4
<1>. HIDE DEF S
<1>3. n \in S
  BY <1>1, <1>2, NatInd
<1>. QED BY <1>3 DEF S

\* Two of them agree where both are defined.
LEMMA AddsUnique ==
  ASSUME NEW f, NEW n \in Nat, NEW m \in Nat, n <= m,
         NEW s, Adds(s, f, n), NEW t, Adds(t, f, m)
  PROVE  s[n] = t[n]
<1>. DEFINE S == {k \in Nat : k <= n => s[k] = t[k]}
<1>1. 0 \in S
  BY DEF Adds
<1>2. ASSUME NEW k \in Nat, k \in S PROVE k + 1 \in S
  <2>1. CASE k + 1 <= n
    <3>1. s[k + 1] = s[k] + f[k + 1] /\ t[k + 1] = t[k] + f[k + 1]
      BY <2>1 DEF Adds
    <3>. QED BY <1>2, <2>1, <3>1
  <2>. QED BY <2>1
<1>. HIDE DEF S
<1>3. n \in S
  BY <1>1, <1>2, NatInd
<1>. QED BY <1>3 DEF S

\* So SumTo(f, n) is the last value of one.
LEMMA SumIsAdds ==
  ASSUME NEW f, NEW n \in Nat
  PROVE  \E s : Adds(s, f, n) /\ SumTo(f, n) = s[n]
<1>. DEFINE s == CHOOSE sum : Adds(sum, f, n)
<1>1. Adds(s, f, n)
  BY AddsExists
<1>2. SumTo(f, n) = s[n]
  BY DEF SumTo, Adds
<1>. QED BY <1>1, <1>2

-----------------------------------------------------------------------------
(* What SumTo computes                                                     *)

\* The sum of nothing.
LEMMA SumEmpty == ASSUME NEW f PROVE SumTo(f, 0) = 0
BY SumIsAdds DEF Adds

\* One value more.
LEMMA SumNext ==
  ASSUME NEW f, NEW n \in Nat
  PROVE  SumTo(f, n + 1) = SumTo(f, n) + f[n + 1]
<1>1. PICK s : Adds(s, f, n) /\ SumTo(f, n) = s[n]
  BY SumIsAdds
<1>2. PICK t : Adds(t, f, n + 1) /\ SumTo(f, n + 1) = t[n + 1]
  BY SumIsAdds
<1>3. t[n] = s[n]
  BY <1>1, <1>2, AddsUnique
<1>4. t[n + 1] = t[n] + f[n + 1]
  BY <1>2 DEF Adds
<1>. QED BY <1>1, <1>2, <1>3, <1>4

\* A sum of natural numbers is one.
LEMMA SumNat ==
  ASSUME NEW f, NEW n \in Nat, \A i \in 1..n : f[i] \in Nat
  PROVE  SumTo(f, n) \in Nat
<1>. DEFINE S == {k \in Nat : k <= n => SumTo(f, k) \in Nat}
<1>1. 0 \in S
  BY SumEmpty
<1>2. ASSUME NEW k \in Nat, k \in S PROVE k + 1 \in S
  <2>1. SumTo(f, k + 1) = SumTo(f, k) + f[k + 1]
    BY SumNext
  <2>. QED BY <1>2, <2>1
<1>. HIDE DEF S
<1>3. n \in S
  BY <1>1, <1>2, NatInd
<1>. QED BY <1>3 DEF S

\* Only the values that are added matter.
LEMMA SumSame ==
  ASSUME NEW f, NEW g, NEW n \in Nat, \A i \in 1..n : f[i] = g[i]
  PROVE  SumTo(f, n) = SumTo(g, n)
<1>. DEFINE S == {k \in Nat : k <= n => SumTo(f, k) = SumTo(g, k)}
<1>1. 0 \in S
  BY SumEmpty
<1>2. ASSUME NEW k \in Nat, k \in S PROVE k + 1 \in S
  <2>1. /\ SumTo(f, k + 1) = SumTo(f, k) + f[k + 1]
        /\ SumTo(g, k + 1) = SumTo(g, k) + g[k + 1]
    BY SumNext
  <2>. QED BY <1>2, <2>1
<1>. HIDE DEF S
<1>3. n \in S
  BY <1>1, <1>2, NatInd
<1>. QED BY <1>3 DEF S

\* A sum is that of the first k values and that of the others.
LEMMA SumSplit ==
  ASSUME NEW f, NEW g, NEW k \in Nat, NEW n \in Nat,
         \A i \in 1..(k + n) : f[i] \in Nat,
         \A i \in 1..n : g[i] = f[k + i]
  PROVE  SumTo(f, k + n) = SumTo(f, k) + SumTo(g, n)
<1>. DEFINE S == {m \in Nat : m <= n => SumTo(f, k + m) = SumTo(f, k) + SumTo(g, m)}
<1>1. 0 \in S
  <2>1. SumTo(f, k) \in Nat
    BY SumNat
  <2>. QED BY <2>1, SumEmpty
<1>2. ASSUME NEW m \in Nat, m \in S PROVE m + 1 \in S
  <2>1. SumTo(f, k + m + 1) = SumTo(f, k + m) + f[k + m + 1]
    BY SumNext, k + m \in Nat
  <2>2. SumTo(g, m + 1) = SumTo(g, m) + g[m + 1]
    BY SumNext
  <2>3. CASE m + 1 <= n
    <3>1. /\ SumTo(f, k) \in Nat
          /\ SumTo(g, m) \in Nat
      BY <2>3, SumNat
    <3>2. g[m + 1] = f[k + m + 1] /\ g[m + 1] \in Nat
      BY <2>3
    <3>. QED BY <1>2, <2>1, <2>2, <2>3, <3>1, <3>2
  <2>. QED BY <2>3
<1>. HIDE DEF S
<1>3. n \in S
  BY <1>1, <1>2, NatInd
<1>. QED BY <1>3 DEF S

\* A sum is the first value and the sum of the others.
LEMMA SumFirst ==
  ASSUME NEW f, NEW g, NEW n \in Nat,
         \A i \in 1..(n + 1) : f[i] \in Nat,
         \A i \in 1..n : g[i] = f[i + 1]
  PROVE  SumTo(f, n + 1) = f[1] + SumTo(g, n)
<1>1. SumTo(f, 0 + 1) = SumTo(f, 0) + f[0 + 1]
  BY SumNext
<1>2. SumTo(f, 1) = f[1]
  BY <1>1, SumEmpty
<1>3. \A i \in 1..n : g[i] = f[1 + i]
  OBVIOUS
<1>4. SumTo(f, 1 + n) = SumTo(f, 1) + SumTo(g, n)
  BY <1>3, SumSplit
<1>. QED BY <1>2, <1>4

\* A sum of positive numbers is 0 only if there are none.
LEMMA SumPositive ==
  ASSUME NEW f, NEW n \in Nat, n # 0, \A i \in 1..n : f[i] \in Nat \ {0}
  PROVE  SumTo(f, n) > 0
<1>1. SumTo(f, n - 1) \in Nat
  BY SumNat
<1>2. SumTo(f, (n - 1) + 1) = SumTo(f, n - 1) + f[(n - 1) + 1]
  BY SumNext
<1>. QED BY <1>1, <1>2

\* A value is left out.
LEMMA SumRemove ==
  ASSUME NEW f, NEW g, NEW n \in Nat, NEW p \in Nat, p < n,
         \A i \in 1..n : f[i] \in Nat,
         \A i \in 1..(n - 1) : g[i] = IF i <= p THEN f[i] ELSE f[i + 1]
  PROVE  SumTo(f, n) = SumTo(g, n - 1) + f[p + 1]
<1>. DEFINE h == [i \in 1..(n - p) |-> f[p + i]]
            r == [i \in 1..(n - p - 1) |-> f[p + 1 + i]]
<1>1. PICK q \in Nat : q = n - p - 1 /\ n - p = q + 1 /\ p + (q + 1) = n /\ p + q = n - 1
  OBVIOUS
<1>2. /\ \A i \in 1..(q + 1) : h[i] = f[p + i] /\ h[i] \in Nat
      /\ \A i \in 1..q : r[i] = f[p + 1 + i] /\ r[i] = h[i + 1] /\ r[i] = g[p + i]
  <2>1. ASSUME NEW i \in 1..(q + 1) PROVE h[i] = f[p + i] /\ h[i] \in Nat
    BY <1>1
  <2>2. ASSUME NEW i \in 1..q PROVE r[i] = f[p + 1 + i] /\ r[i] = h[i + 1] /\ r[i] = g[p + i]
    <3>1. /\ i \in 1..(n - p - 1) /\ i + 1 \in 1..(n - p) /\ p + i \in 1..(n - 1)
          /\ ~(p + i <= p) /\ p + (i + 1) = p + 1 + i /\ (p + i) + 1 = p + 1 + i
      BY <1>1
    <3>. QED BY <3>1
  <2>. QED BY <2>1, <2>2
<1>. HIDE DEF h, r
<1>3. \A i \in 1..(n - 1) : g[i] \in Nat
  <2>. TAKE i \in 1..(n - 1)
  <2>1. i \in 1..n /\ i + 1 \in 1..n
    OBVIOUS
  <2>. QED BY <2>1
<1>4. SumTo(f, p + (q + 1)) = SumTo(f, p) + SumTo(h, q + 1)
  <2>1. \A i \in 1..(p + (q + 1)) : f[i] \in Nat
    BY <1>1
  <2>2. q + 1 \in Nat
    OBVIOUS
  <2>. QED BY <1>2, <2>1, <2>2, SumSplit
<1>5. SumTo(h, q + 1) = h[1] + SumTo(r, q)
  BY <1>2, SumFirst
<1>6. SumTo(g, p + q) = SumTo(g, p) + SumTo(r, q)
  <2>1. \A i \in 1..(p + q) : g[i] \in Nat
    BY <1>1, <1>3
  <2>. QED BY <1>2, <2>1, SumSplit
<1>7. SumTo(f, p) = SumTo(g, p) /\ SumTo(f, p) \in Nat
  <2>1. \A i \in 1..p : f[i] = g[i] /\ f[i] \in Nat
    <3>. TAKE i \in 1..p
    <3>1. i \in 1..(n - 1) /\ i <= p /\ i \in 1..n
      OBVIOUS
    <3>. QED BY <3>1
  <2>. QED BY <2>1, SumSame, SumNat
<1>8. SumTo(r, q) \in Nat
  <2>1. \A i \in 1..q : r[i] \in Nat
    BY <1>2
  <2>. QED BY <2>1, SumNat
<1>9. h[1] = f[p + 1] /\ h[1] \in Nat
  BY <1>2
<1>. QED BY <1>1, <1>4, <1>5, <1>6, <1>7, <1>8, <1>9
=============================================================================
