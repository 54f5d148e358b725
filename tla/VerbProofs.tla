----------------------------- MODULE VerbProofs -----------------------------
(***************************************************************************)
(* The cache of verb lookups never shows, for any number of objects, verbs *)
(* and names and a hierarchy of any depth; and the reference counts of     *)
(* programs are right, for any number of verbs, tasks and programs and any *)
(* depth of the stacks.                                                    *)
(*                                                                         *)
(* Searches go up from an object, so all about the cache is proved by      *)
(* induction on the height of an object, which exists because no object is *)
(* its own ancestor.  The holders of a program are three sets.  Most steps *)
(* change one of them at one point; recycle() and the end of a suspended   *)
(* task take several points away at once.                                  *)
(***************************************************************************)
EXTENDS Verbs, SumTheorems, SequenceTheorems, FiniteSetTheorems

-----------------------------------------------------------------------------
(* The ancestors of an object                                              *)

\* height shows that par has no loops: it falls from an object to its parent.
Ranked(par, height, top) ==
  /\ NOTHING \notin DOMAIN par
  /\ par \in [DOMAIN par -> DOMAIN par \cup {NOTHING}]
  /\ top \in Nat
  /\ height \in [DOMAIN par -> 0..top]
  /\ \A x \in DOMAIN par : par[x] # NOTHING => height[par[x]] < height[x]

\* chain is a function that the definition of Ancestors asks for.
IsChain(chain, par) ==
  chain = [x \in DOMAIN par \cup {NOTHING} |->
             IF x = NOTHING THEN <<>> ELSE <<x>> \o chain[par[x]]]

\* There is one, by induction on the height it reaches.
LEMMA ChainExists ==
  ASSUME NEW par, NEW height, NEW top, Ranked(par, height, top)
  PROVE  \E chain : IsChain(chain, par)
<1>. DEFINE D(n) == {x \in DOMAIN par : height[x] < n} \cup {NOTHING}
            Fits(c, n) == c = [x \in D(n) |-> IF x = NOTHING THEN <<>> ELSE <<x>> \o c[par[x]]]
            S == {n \in Nat : \E c : Fits(c, n)}
<1>1. 0 \in S
  <2>. DEFINE c == [x \in D(0) |-> <<>>]
  <2>1. D(0) = {NOTHING}
    BY DEF Ranked
  <2>2. Fits(c, 0)
    BY <2>1
  <2>. HIDE DEF Fits, c
  <2>. QED BY <2>2
<1>2. ASSUME NEW n \in Nat, n \in S PROVE n + 1 \in S
  <2>1. PICK c : Fits(c, n)
    BY <1>2
  <2>. DEFINE g == [x \in D(n + 1) |-> IF x = NOTHING THEN <<>> ELSE <<x>> \o c[par[x]]]
  <2>2. ASSUME NEW x \in D(n + 1), x # NOTHING PROVE par[x] \in D(n) /\ par[x] \in D(n + 1)
    BY <2>2 DEF Ranked
  <2>3. ASSUME NEW x \in D(n) PROVE g[x] = c[x]
    <3>1. x \in D(n + 1)
      BY DEF Ranked
    <3>2. c[x] = IF x = NOTHING THEN <<>> ELSE <<x>> \o c[par[x]]
      BY <2>1
    <3>3. g[x] = IF x = NOTHING THEN <<>> ELSE <<x>> \o c[par[x]]
      BY <3>1
    <3>. QED BY <3>2, <3>3
  <2>4. Fits(g, n + 1)
    <3>. DEFINE h == [x \in D(n + 1) |-> IF x = NOTHING THEN <<>> ELSE <<x>> \o g[par[x]]]
    <3>1. ASSUME NEW x \in D(n + 1) PROVE g[x] = h[x]
      <4>1. x # NOTHING => g[par[x]] = c[par[x]]
        BY <2>2, <2>3
      <4>2. g[x] = IF x = NOTHING THEN <<>> ELSE <<x>> \o c[par[x]]
        OBVIOUS
      <4>3. h[x] = IF x = NOTHING THEN <<>> ELSE <<x>> \o g[par[x]]
        OBVIOUS
      <4>. HIDE DEF g, h, D
      <4>. QED BY <4>1, <4>2, <4>3
    <3>. QED BY <3>1, Zenon
  <2>. HIDE DEF Fits, g
  <2>. QED BY <2>4
<1>3. PICK c : Fits(c, top + 1)
  <2>1. top + 1 \in Nat
    BY DEF Ranked
  <2>2. \A n \in Nat : n \in S
    <3>. HIDE DEF S
    <3>. QED BY <1>1, <1>2, NatInd
  <2>. QED BY <2>1, <2>2
<1>4. D(top + 1) = DOMAIN par \cup {NOTHING}
  <2>1. \A x \in DOMAIN par : height[x] < top + 1
    BY DEF Ranked
  <2>. QED BY <2>1
<1>5. IsChain(c, par)
  <2>. HIDE DEF D
  <2>. QED BY <1>3, <1>4 DEF IsChain
<1>. QED BY <1>5

\* What Ancestors computes.
LEMMA AncestorsAre ==
  ASSUME NEW par, NEW height, NEW top, Ranked(par, height, top)
  PROVE  /\ Ancestors(par, NOTHING) = <<>>
         /\ \A x \in DOMAIN par : Ancestors(par, x) = <<x>> \o Ancestors(par, par[x])
         /\ \A x \in DOMAIN par \cup {NOTHING} : Ancestors(par, x) \in Seq(DOMAIN par)
<1>. DEFINE chain == CHOOSE c : IsChain(c, par)
<1>1. IsChain(chain, par)
  BY ChainExists
<1>2. \A o : Ancestors(par, o) = chain[o]
  BY Zenon DEF Ancestors, IsChain
<1>. HIDE DEF chain
<1>3. Ancestors(par, NOTHING) = <<>>
  BY <1>1, <1>2 DEF IsChain
<1>4. ASSUME NEW x \in DOMAIN par PROVE Ancestors(par, x) = <<x>> \o Ancestors(par, par[x])
  <2>1. x # NOTHING
    BY DEF Ranked
  <2>2. chain[x] = <<x>> \o chain[par[x]]
    BY <1>1, <2>1 DEF IsChain
  <2>. QED BY <1>2, <2>2
<1>5. \A x \in DOMAIN par \cup {NOTHING} : Ancestors(par, x) \in Seq(DOMAIN par)
  <2>. DEFINE S == {n \in Nat : \A x \in DOMAIN par :
                      height[x] < n => Ancestors(par, x) \in Seq(DOMAIN par)}
  <2>1. 0 \in S
    BY DEF Ranked
  <2>2. ASSUME NEW n \in Nat, n \in S PROVE n + 1 \in S
    <3>. SUFFICES ASSUME NEW x \in DOMAIN par, height[x] < n + 1
                  PROVE  Ancestors(par, x) \in Seq(DOMAIN par)
      OBVIOUS
    <3>1. Ancestors(par, par[x]) \in Seq(DOMAIN par)
      <4>1. CASE par[x] = NOTHING
        BY <1>3, <4>1
      <4>2. CASE par[x] # NOTHING
        <5>1. par[x] \in DOMAIN par /\ height[par[x]] < n
          BY <4>2 DEF Ranked
        <5>. QED BY <2>2, <5>1
      <4>. QED BY <4>1, <4>2
    <3>2. Ancestors(par, x) = <<x>> \o Ancestors(par, par[x])
      BY <1>4
    <3>. QED BY <3>1, <3>2
  <2>3. \A n \in Nat : n \in S
    <3>. HIDE DEF S
    <3>. QED BY <2>1, <2>2, NatInd
  <2>4. \A x \in DOMAIN par : height[x] < top + 1
    BY DEF Ranked
  <2>5. top + 1 \in Nat
    BY DEF Ranked
  <2>6. \A x \in DOMAIN par : Ancestors(par, x) \in Seq(DOMAIN par)
    BY <2>3, <2>4, <2>5
  <2>7. Ancestors(par, NOTHING) \in Seq(DOMAIN par)
    BY <1>3
  <2>. QED BY <2>6, <2>7
<1>. QED BY <1>3, <1>4, <1>5

\* An ancestor is the object itself or an ancestor of its parent.
LEMMA AncestorSet ==
  ASSUME NEW par, NEW height, NEW top, Ranked(par, height, top)
  PROVE  /\ ToSet(Ancestors(par, NOTHING)) = {}
         /\ \A x \in DOMAIN par :
              ToSet(Ancestors(par, x)) = {x} \cup ToSet(Ancestors(par, par[x]))
<1>1. ToSet(Ancestors(par, NOTHING)) = {}
  BY AncestorsAre DEF ToSet
<1>2. ASSUME NEW x \in DOMAIN par
      PROVE  ToSet(Ancestors(par, x)) = {x} \cup ToSet(Ancestors(par, par[x]))
  <2>1. PICK rest \in Seq(DOMAIN par) : rest = Ancestors(par, par[x])
    <3>1. par[x] \in DOMAIN par \cup {NOTHING}
      BY DEF Ranked
    <3>. QED BY <3>1, AncestorsAre
  <2>2. PICK all \in Seq(DOMAIN par) : all = <<x>> \o rest /\ all = Ancestors(par, x)
    BY <2>1, AncestorsAre
  <2>3. Len(all) = Len(rest) + 1 /\ all[1] = x /\ Len(rest) \in Nat
    BY <2>2
  <2>4. \A i \in 1..Len(rest) : all[i + 1] = rest[i]
    BY <2>2
  <2>5. DOMAIN all = 1..Len(all) /\ DOMAIN rest = 1..Len(rest)
    OBVIOUS
  <2>6. ASSUME NEW i \in 1..Len(all) PROVE i = 1 \/ i - 1 \in 1..Len(rest)
    BY <2>3
  <2>7. ASSUME NEW i \in 1..Len(all) PROVE all[i] = x \/ \E j \in 1..Len(rest) : all[i] = rest[j]
    <3>1. CASE i = 1
      BY <2>3, <3>1
    <3>2. CASE i # 1
      <4>1. i - 1 \in 1..Len(rest) /\ (i - 1) + 1 = i
        BY <2>6, <3>2
      <4>. QED BY <2>4, <4>1
    <3>. QED BY <3>1, <3>2
  <2>8. \A j \in 1..Len(rest) : \E i \in 1..Len(all) : all[i] = rest[j]
    BY <2>3, <2>4
  <2>9. 1 \in 1..Len(all)
    BY <2>3
  <2>10. ToSet(all) = {x} \cup ToSet(rest)
    <3>1. \A y : y \in ToSet(all) <=> \E i \in 1..Len(all) : all[i] = y
      BY <2>5 DEF ToSet
    <3>2. \A y : y \in ToSet(rest) <=> \E i \in 1..Len(rest) : rest[i] = y
      BY <2>5 DEF ToSet
    <3>3. \A y \in ToSet(all) : y \in {x} \cup ToSet(rest)
      BY <2>7, <3>1, <3>2, Zenon
    <3>4. \A y \in {x} \cup ToSet(rest) : y \in ToSet(all)
      BY <2>3, <2>8, <2>9, <3>1, <3>2, Zenon
    <3>. QED BY <3>3, <3>4
  <2>. QED BY <2>1, <2>2, <2>10
<1>. QED BY <1>1, <1>2

-----------------------------------------------------------------------------
(* Searches                                                                *)

\* SelectInSeq, given the places where its test succeeds.
Least(I) == IF I # {} THEN Min(I) ELSE 0

LEMMA LeastIs ==
  ASSUME NEW n \in Nat, NEW I, I \subseteq 1..n
  PROVE  /\ I = {} => Least(I) = 0
         /\ \A i \in I : (\A j \in I : i <= j) => Least(I) = i
         /\ I # {} => Least(I) \in I /\ \A j \in I : Least(I) <= j
<1>1. I # {} => \E i \in I : \A j \in I : i <= j
  <2>1. I \subseteq Nat
    OBVIOUS
  <2>. QED BY <2>1, LeastElement
<1>2. I # {} => Least(I) \in I /\ \A j \in I : Least(I) <= j
  BY <1>1 DEF Least, Min
<1>3. ASSUME NEW i \in I, \A j \in I : i <= j PROVE Least(I) = i
  <2>1. PICK k : k = Least(I) /\ k \in I /\ \A j \in I : k <= j
    BY <1>2, <1>3
  <2>2. k \in Nat /\ i \in Nat /\ k <= i /\ i <= k
    BY <1>3, <2>1
  <2>. QED BY <2>1, <2>2
<1>4. I = {} => Least(I) = 0
  BY DEF Least
<1>. QED BY <1>2, <1>3, <1>4

\* The first place in a list with one element more in front.
LEMMA LeastCons ==
  ASSUME NEW n \in Nat, NEW I, I \subseteq 1..n, NEW J, J \subseteq 1..(n + 1),
         \A i \in 1..n : i + 1 \in J <=> i \in I
  PROVE  /\ 1 \in J => Least(J) = 1
         /\ 1 \notin J /\ Least(I) = 0 => Least(J) = 0
         /\ 1 \notin J /\ Least(I) # 0 => Least(I) \in 1..n /\ Least(J) = Least(I) + 1
<1>1. n + 1 \in Nat
  OBVIOUS
<1>2. ASSUME 1 \in J PROVE Least(J) = 1
  <2>1. \A j \in J : 1 <= j
    OBVIOUS
  <2>. QED BY <1>1, <1>2, <2>1, LeastIs
<1>3. ASSUME 1 \notin J, NEW j \in J PROVE j - 1 \in I /\ j - 1 \in 1..n /\ (j - 1) + 1 = j
  <2>1. j - 1 \in 1..n /\ (j - 1) + 1 = j
    BY <1>3
  <2>. QED BY <2>1
<1>4. ASSUME 1 \notin J, Least(I) = 0 PROVE Least(J) = 0
  <2>1. I = {}
    <3>1. I # {} => Least(I) \in I
      BY LeastIs
    <3>2. 0 \notin I
      OBVIOUS
    <3>. QED BY <1>4, <3>1, <3>2
  <2>2. J = {}
    BY <1>3, <1>4, <2>1
  <2>. QED BY <1>1, <2>2, LeastIs
<1>5. ASSUME 1 \notin J, Least(I) # 0 PROVE Least(I) \in 1..n /\ Least(J) = Least(I) + 1
  <2>1. PICK i : i = Least(I) /\ i \in I /\ \A j \in I : i <= j
    BY <1>5, LeastIs
  <2>2. i \in 1..n /\ i + 1 \in J
    BY <2>1
  <2>3. \A j \in J : i + 1 <= j
    <3>. TAKE j \in J
    <3>1. j - 1 \in 1..n /\ i <= j - 1 /\ j \in Int
      BY <1>3, <1>5, <2>1
    <3>. QED BY <2>2, <3>1
  <2>4. Least(J) = i + 1
    BY <1>1, <2>2, <2>3, LeastIs
  <2>. QED BY <2>1, <2>2, <2>4
<1>. QED BY <1>2, <1>4, <1>5

\* The object has a verb that can be called by the name, and which one.
Has(x, name) ==
  \E i \in DOMAIN verbdefs[x] :
    name \in verb[verbdefs[x][i]].names /\ verb[verbdefs[x][i]].exec

Found(x, name) ==
  [definer |-> x,
   verbdef |-> verbdefs[x][SelectInSeq(verbdefs[x],
                 LAMBDA v : name \in verb[v].names /\ verb[v].exec)]]

\* Where the searches end.
SearchAt(o, name) ==
  Least({i \in 1..Len(Ancestors(parent, o)) : Has(Ancestors(parent, o)[i], name)})

VerbsAt(o) ==
  Least({i \in 1..Len(Ancestors(parent, o)) : verbdefs[Ancestors(parent, o)[i]] # <<>>})

LEMMA SearchIs ==
  ASSUME NEW o, NEW name
  PROVE  SearchUp(o, name) = IF SearchAt(o, name) = 0 THEN NULL
                             ELSE Found(Ancestors(parent, o)[SearchAt(o, name)], name)
BY Zenon DEF SearchUp, SelectInSeq, Least, Has, Found, SearchAt

LEMMA FirstParentIs ==
  ASSUME NEW o
  PROVE  first_parent_with_verbs(o) = IF VerbsAt(o) = 0 THEN NOTHING
                                      ELSE Ancestors(parent, o)[VerbsAt(o)]
BY Zenon DEF first_parent_with_verbs, SelectInSeq, Least, VerbsAt

-----------------------------------------------------------------------------
(* One step up                                                             *)

Rooted == \E height, top : Ranked(parent, height, top)

\* Both searches look at the object and then go on from its parent.
SearchesUp ==
  /\ \A name : SearchUp(NOTHING, name) = NULL
  /\ \A name : \A x \in DOMAIN parent :
       SearchUp(x, name) = IF Has(x, name) THEN Found(x, name)
                           ELSE SearchUp(parent[x], name)

LooksUp ==
  /\ first_parent_with_verbs(NOTHING) = NOTHING
  /\ \A x \in DOMAIN parent :
       first_parent_with_verbs(x) = IF verbdefs[x] # <<>> THEN x
                                    ELSE first_parent_with_verbs(parent[x])

LEMMA OneUp ==
  ASSUME Rooted, NEW x \in DOMAIN parent
  PROVE  \E all, rest \in Seq(DOMAIN parent) :
           /\ all = Ancestors(parent, x) /\ rest = Ancestors(parent, parent[x])
           /\ Len(all) = Len(rest) + 1 /\ Len(rest) \in Nat /\ all[1] = x
           /\ \A i \in 1..Len(rest) : all[i + 1] = rest[i]
<1>1. PICK height, top : Ranked(parent, height, top)
  BY DEF Rooted
<1>2. parent[x] \in DOMAIN parent \cup {NOTHING}
  BY <1>1 DEF Ranked
<1>3. PICK all, rest \in Seq(DOMAIN parent) :
        all = Ancestors(parent, x) /\ rest = Ancestors(parent, parent[x]) /\ all = <<x>> \o rest
  BY <1>1, <1>2, AncestorsAre
<1>4. Len(all) = Len(rest) + 1 /\ Len(rest) \in Nat /\ all[1] = x
  BY <1>3
<1>5. \A i \in 1..Len(rest) : all[i + 1] = rest[i]
  BY <1>3
<1>. QED BY <1>3, <1>4, <1>5

LEMMA SearchStep == Rooted => SearchesUp
<1>. SUFFICES ASSUME Rooted PROVE SearchesUp
  OBVIOUS
<1>1. ASSUME NEW name PROVE SearchUp(NOTHING, name) = NULL
  <2>1. Ancestors(parent, NOTHING) = <<>>
    BY AncestorsAre DEF Rooted
  <2>2. {i \in 1..Len(Ancestors(parent, NOTHING)) : Has(Ancestors(parent, NOTHING)[i], name)} = {}
    BY <2>1
  <2>3. SearchAt(NOTHING, name) = 0
    BY <2>2 DEF SearchAt, Least
  <2>. QED BY <2>3, SearchIs
<1>2. ASSUME NEW x \in DOMAIN parent, NEW name
      PROVE  SearchUp(x, name) = IF Has(x, name) THEN Found(x, name)
                                 ELSE SearchUp(parent[x], name)
  <2>1. PICK all, rest \in Seq(DOMAIN parent) :
          /\ all = Ancestors(parent, x) /\ rest = Ancestors(parent, parent[x])
          /\ Len(all) = Len(rest) + 1 /\ Len(rest) \in Nat /\ all[1] = x
          /\ \A i \in 1..Len(rest) : all[i + 1] = rest[i]
    BY OneUp
  <2>2. PICK n : n = Len(rest)
    OBVIOUS
  <2>3. PICK I : I = {i \in 1..n : Has(rest[i], name)}
    OBVIOUS
  <2>4. PICK J : J = {i \in 1..(n + 1) : Has(all[i], name)}
    OBVIOUS
  <2>5. SearchAt(x, name) = Least(J) /\ SearchAt(parent[x], name) = Least(I)
    BY <2>1, <2>2, <2>3, <2>4 DEF SearchAt
  <2>6. /\ n \in Nat /\ I \subseteq 1..n /\ J \subseteq 1..(n + 1)
        /\ 1 \in J <=> Has(x, name)
    BY <2>1, <2>2, <2>3, <2>4
  <2>7. \A i \in 1..n : i + 1 \in J <=> i \in I
    <3>. TAKE i \in 1..n
    <3>1. i + 1 \in 1..(n + 1) /\ all[i + 1] = rest[i]
      BY <2>1, <2>2, <2>6
    <3>. QED BY <2>3, <2>4, <3>1
  <2>8. /\ Has(x, name) => Least(J) = 1
        /\ ~Has(x, name) /\ Least(I) = 0 => Least(J) = 0
        /\ ~Has(x, name) /\ Least(I) # 0 => Least(I) \in 1..n /\ Least(J) = Least(I) + 1
    BY <2>6, <2>7, LeastCons
  <2>9. CASE Has(x, name)
    BY <2>1, <2>5, <2>8, <2>9, SearchIs
  <2>10. CASE ~Has(x, name) /\ Least(I) = 0
    BY <2>5, <2>8, <2>10, SearchIs
  <2>11. CASE ~Has(x, name) /\ Least(I) # 0
    <3>1. PICK k \in 1..n : k = Least(I) /\ Least(J) = k + 1 /\ k # 0 /\ k + 1 # 0
      BY <2>8, <2>11
    <3>2. all[k + 1] = rest[k]
      BY <2>1, <2>2
    <3>. QED BY <2>1, <2>5, <2>11, <3>1, <3>2, SearchIs
  <2>. QED BY <2>9, <2>10, <2>11
<1>. QED BY <1>1, <1>2 DEF SearchesUp

LEMMA LookStep == Rooted => LooksUp
<1>. SUFFICES ASSUME Rooted PROVE LooksUp
  OBVIOUS
<1>1. first_parent_with_verbs(NOTHING) = NOTHING
  <2>1. Ancestors(parent, NOTHING) = <<>>
    BY AncestorsAre DEF Rooted
  <2>2. {i \in 1..Len(Ancestors(parent, NOTHING)) : verbdefs[Ancestors(parent, NOTHING)[i]] # <<>>} = {}
    BY <2>1
  <2>3. VerbsAt(NOTHING) = 0
    BY <2>2 DEF VerbsAt, Least
  <2>. QED BY <2>3, FirstParentIs
<1>2. ASSUME NEW x \in DOMAIN parent
      PROVE  first_parent_with_verbs(x) = IF verbdefs[x] # <<>> THEN x
                                          ELSE first_parent_with_verbs(parent[x])
  <2>1. PICK all, rest \in Seq(DOMAIN parent) :
          /\ all = Ancestors(parent, x) /\ rest = Ancestors(parent, parent[x])
          /\ Len(all) = Len(rest) + 1 /\ Len(rest) \in Nat /\ all[1] = x
          /\ \A i \in 1..Len(rest) : all[i + 1] = rest[i]
    BY OneUp
  <2>2. PICK n : n = Len(rest)
    OBVIOUS
  <2>3. PICK I : I = {i \in 1..n : verbdefs[rest[i]] # <<>>}
    OBVIOUS
  <2>4. PICK J : J = {i \in 1..(n + 1) : verbdefs[all[i]] # <<>>}
    OBVIOUS
  <2>5. VerbsAt(x) = Least(J) /\ VerbsAt(parent[x]) = Least(I)
    BY <2>1, <2>2, <2>3, <2>4 DEF VerbsAt
  <2>6. /\ n \in Nat /\ I \subseteq 1..n /\ J \subseteq 1..(n + 1)
        /\ 1 \in J <=> verbdefs[x] # <<>>
    BY <2>1, <2>2, <2>3, <2>4
  <2>7. \A i \in 1..n : i + 1 \in J <=> i \in I
    <3>. TAKE i \in 1..n
    <3>1. i + 1 \in 1..(n + 1) /\ all[i + 1] = rest[i]
      BY <2>1, <2>2, <2>6
    <3>. QED BY <2>3, <2>4, <3>1
  <2>8. /\ verbdefs[x] # <<>> => Least(J) = 1
        /\ verbdefs[x] = <<>> /\ Least(I) = 0 => Least(J) = 0
        /\ verbdefs[x] = <<>> /\ Least(I) # 0 => Least(I) \in 1..n /\ Least(J) = Least(I) + 1
    BY <2>6, <2>7, LeastCons
  <2>9. CASE verbdefs[x] # <<>>
    BY <2>1, <2>5, <2>8, <2>9, FirstParentIs
  <2>10. CASE verbdefs[x] = <<>> /\ Least(I) = 0
    BY <2>5, <2>8, <2>10, FirstParentIs
  <2>11. CASE verbdefs[x] = <<>> /\ Least(I) # 0
    <3>1. PICK k \in 1..n : k = Least(I) /\ Least(J) = k + 1 /\ k # 0 /\ k + 1 # 0
      BY <2>8, <2>11
    <3>2. all[k + 1] = rest[k]
      BY <2>1, <2>2
    <3>. QED BY <2>1, <2>5, <2>11, <3>1, <3>2, FirstParentIs
  <2>. QED BY <2>9, <2>10, <2>11
<1>. QED BY <1>1, <1>2 DEF LooksUp

-----------------------------------------------------------------------------
(* The invariant                                                           *)

\* Every object can go up to the root, and the two lists of objects agree.
HierarchyInv ==
  /\ Rooted
  /\ DOMAIN parent \subseteq Obj
  /\ DOMAIN verbdefs = DOMAIN parent

\* No Verbdef is in two places, so deleting one leaves the others alone.
VerbsInv ==
  /\ \A x \in DOMAIN parent : verbdefs[x] \in Seq(DOMAIN verb)
  /\ \A x, y \in DOMAIN parent :
       \A i \in DOMAIN verbdefs[x], j \in DOMAIN verbdefs[y] :
         verbdefs[x][i] = verbdefs[y][j] => x = y /\ i = j
  /\ verb \in [DOMAIN verb -> [names : Names, exec : BOOLEAN, program : Programs]]

\* An entry is what a search from its own key would find, and its key is an
\* object with verbs or stands for none.
Entry(key) == key[1] = NOTHING \/ (key[1] \in DOMAIN parent /\ verbdefs[key[1]] # <<>>)

CacheInv ==
  vc_table # NULL =>
    \A key \in DOMAIN vc_table : Entry(key) /\ vc_table[key] = SearchUp(key[1], key[2])

Inv == HierarchyInv /\ VerbsInv /\ CacheInv

\* The first object with verbs answers for all those that look to it.
LEMMA SameAnswer ==
  ASSUME Rooted, NEW x \in DOMAIN parent, NEW name
  PROVE  /\ \/ first_parent_with_verbs(x) = NOTHING
            \/ /\ first_parent_with_verbs(x) \in DOMAIN parent
               /\ verbdefs[first_parent_with_verbs(x)] # <<>>
         /\ SearchUp(first_parent_with_verbs(x), name) = SearchUp(x, name)
<1>1. PICK height, top : Ranked(parent, height, top)
  BY DEF Rooted
<1>2. SearchesUp /\ LooksUp
  BY SearchStep, LookStep
<1>. DEFINE P(y) == /\ \/ first_parent_with_verbs(y) = NOTHING
                       \/ /\ first_parent_with_verbs(y) \in DOMAIN parent
                          /\ verbdefs[first_parent_with_verbs(y)] # <<>>
                    /\ SearchUp(first_parent_with_verbs(y), name) = SearchUp(y, name)
            S == {n \in Nat : \A y \in DOMAIN parent : height[y] < n => P(y)}
<1>3. P(NOTHING)
  BY <1>2 DEF LooksUp
<1>4. 0 \in S
  BY <1>1 DEF Ranked
<1>5. ASSUME NEW n \in Nat, n \in S PROVE n + 1 \in S
  <2>. SUFFICES ASSUME NEW y \in DOMAIN parent, height[y] < n + 1 PROVE P(y)
    OBVIOUS
  <2>1. CASE verbdefs[y] # <<>>
    BY <1>2, <2>1 DEF LooksUp
  <2>2. CASE verbdefs[y] = <<>>
    <3>1. P(parent[y])
      <4>1. CASE parent[y] = NOTHING
        BY <1>3, <4>1
      <4>2. CASE parent[y] # NOTHING
        <5>1. parent[y] \in DOMAIN parent /\ height[parent[y]] < n
          BY <1>1, <4>2 DEF Ranked
        <5>. QED BY <1>5, <5>1
      <4>. QED BY <4>1, <4>2
    <3>2. ~Has(y, name)
      BY <2>2 DEF Has
    <3>3. SearchUp(y, name) = SearchUp(parent[y], name)
      BY <1>2, <3>2 DEF SearchesUp
    <3>4. first_parent_with_verbs(y) = first_parent_with_verbs(parent[y])
      BY <1>2, <2>2 DEF LooksUp
    <3>. QED BY <3>1, <3>3, <3>4
  <2>. QED BY <2>1, <2>2
<1>6. \A n \in Nat : n \in S
  <2>. HIDE DEF S
  <2>. QED BY <1>4, <1>5, NatInd
<1>7. height[x] < top + 1 /\ top + 1 \in Nat
  BY <1>1 DEF Ranked
<1>. QED BY <1>6, <1>7

\* So a cache whose entries are right does not show.
LEMMA InvTransparent ==
  Inv => CacheIsTransparent
<1>. SUFFICES ASSUME Inv, NEW o \in DOMAIN parent, NEW name \in Name
              PROVE  Answer(o, name) = SearchUp(o, name)
  BY DEF CacheIsTransparent
<1>1. PICK f : f = first_parent_with_verbs(o)
  OBVIOUS
<1>2. SearchUp(f, name) = SearchUp(o, name)
  BY <1>1, SameAnswer DEF Inv, HierarchyInv
<1>3. Answer(o, name) = IF vc_table # NULL /\ <<f, name>> \in DOMAIN vc_table
                        THEN vc_table[<<f, name>>] ELSE SearchUp(f, name)
  BY <1>1 DEF Answer
<1>4. vc_table # NULL /\ <<f, name>> \in DOMAIN vc_table =>
        vc_table[<<f, name>>] = SearchUp(f, name)
  BY DEF Inv, CacheInv
<1>. QED BY <1>2, <1>3, <1>4

-----------------------------------------------------------------------------
(* Changes that leave a search as it is                                    *)

\* The objects of T, which has the parents of its elements, keep their parents
\* and what they answer themselves.
Alike(T) ==
  /\ T \subseteq DOMAIN parent
  /\ T \subseteq DOMAIN parent'
  /\ \A x \in T : parent'[x] = parent[x] /\ parent[x] \in T \cup {NOTHING}
  /\ \A x \in T : \A name : /\ Has(x, name)' <=> Has(x, name)
                            /\ Found(x, name)' = Found(x, name)

LEMMA SearchKept ==
  ASSUME Rooted, Rooted', NEW T, Alike(T), NEW z \in T \cup {NOTHING}, NEW name
  PROVE  SearchUp(z, name)' = SearchUp(z, name)
<1>1. PICK height, top : Ranked(parent, height, top)
  BY DEF Rooted
<1>2. SearchesUp /\ SearchesUp'
  <2>1. SearchesUp
    BY SearchStep
  <2>2. SearchesUp'
    BY SearchStep, PTL
  <2>. QED BY <2>1, <2>2
<1>. DEFINE Q(y) == SearchUp(y, name)' = SearchUp(y, name)
            S == {n \in Nat : \A y \in T : height[y] < n => Q(y)}
<1>3. Q(NOTHING)
  BY <1>2 DEF SearchesUp
<1>4. 0 \in S
  BY <1>1 DEF Ranked, Alike
<1>5. ASSUME NEW n \in Nat, n \in S PROVE n + 1 \in S
  <2>. SUFFICES ASSUME NEW y \in T, height[y] < n + 1 PROVE Q(y)
    OBVIOUS
  <2>1. PICK u : y \in DOMAIN parent /\ y \in DOMAIN parent' /\ u = parent[y] /\ u = parent'[y]
    BY DEF Alike
  <2>2. Q(u)
    <3>1. CASE u = NOTHING
      BY <1>3, <3>1
    <3>2. CASE u # NOTHING
      <4>1. u \in T /\ height[u] < n
        BY <1>1, <2>1, <3>2 DEF Ranked, Alike
      <4>. QED BY <1>5, <4>1
    <3>. QED BY <3>1, <3>2
  <2>3. SearchUp(y, name) = IF Has(y, name) THEN Found(y, name) ELSE SearchUp(u, name)
    BY <1>2, <2>1 DEF SearchesUp
  <2>4. SearchUp(y, name)' = IF Has(y, name)' THEN Found(y, name)' ELSE SearchUp(u, name)'
    BY <1>2, <2>1 DEF SearchesUp
  <2>5. (Has(y, name)' <=> Has(y, name)) /\ Found(y, name)' = Found(y, name)
    BY DEF Alike
  <2>. QED BY <2>2, <2>3, <2>4, <2>5
<1>6. \A n \in Nat : n \in S
  <2>. HIDE DEF S
  <2>. QED BY <1>4, <1>5, NatInd
<1>7. z \in T => height[z] < top + 1 /\ top + 1 \in Nat
  BY <1>1 DEF Ranked, Alike
<1>. QED BY <1>3, <1>6, <1>7

\* The names and the x bit of the Verbdefs are as before.
SameVerbs ==
  /\ DOMAIN verb \subseteq DOMAIN verb'
  /\ \A v \in DOMAIN verb : /\ verb'[v].names = verb[v].names
                            /\ verb'[v].exec <=> verb[v].exec

\* The places of the verbs that answer to a name.
Matches(x, name) ==
  {i \in 1..Len(verbdefs[x]) :
     name \in verb[verbdefs[x][i]].names /\ verb[verbdefs[x][i]].exec}

LEMMA FoundIs ==
  \A x, name : Found(x, name) = [definer |-> x, verbdef |-> verbdefs[x][Least(Matches(x, name))]]
BY Zenon DEF Found, Matches, SelectInSeq, Least

\* With the same verbs an object answers the same.
LEMMA SameHits ==
  ASSUME SameVerbs, NEW x, verbdefs[x] \in Seq(DOMAIN verb), verbdefs'[x] = verbdefs[x],
         NEW name
  PROVE  (Has(x, name)' <=> Has(x, name)) /\ Found(x, name)' = Found(x, name)
<1>1. PICK vs \in Seq(DOMAIN verb) : vs = verbdefs[x] /\ vs = verbdefs'[x]
  OBVIOUS
<1>2. DOMAIN vs = 1..Len(vs)
  OBVIOUS
<1>3. \A i \in 1..Len(vs) : /\ verb'[vs[i]].names = verb[vs[i]].names
                            /\ verb'[vs[i]].exec <=> verb[vs[i]].exec
  <2>1. \A i \in 1..Len(vs) : vs[i] \in DOMAIN verb
    OBVIOUS
  <2>. QED BY <2>1 DEF SameVerbs
<1>4. Has(x, name)' <=> Has(x, name)
  BY <1>1, <1>2, <1>3 DEF Has
<1>5. PICK M : M = Matches(x, name) /\ M = Matches(x, name)'
  BY ZenonT(40), <1>1, <1>3 DEF Matches
<1>6. Found(x, name) = [definer |-> x, verbdef |-> vs[Least(M)]]
  BY <1>1, <1>5, FoundIs
<1>7. Found(x, name)' = [definer |-> x, verbdef |-> vs[Least(M)]]
  <2>1. Found(x, name)' = [definer |-> x, verbdef |-> verbdefs'[x][Least(Matches(x, name)')]]
    BY Zenon DEF Found, Matches, SelectInSeq, Least
  <2>. QED BY <1>1, <1>5, <2>1
<1>. QED BY <1>4, <1>6, <1>7

LEMMA CacheKept ==
  ASSUME Rooted, Rooted', CacheInv, vc_table' = vc_table, NEW T, Alike(T),
         \A x \in DOMAIN parent : verbdefs[x] # <<>> => x \in T /\ verbdefs'[x] # <<>>
  PROVE  CacheInv'
<1>. SUFFICES ASSUME vc_table # NULL, NEW key \in DOMAIN vc_table
              PROVE  Entry(key)' /\ vc_table[key] = SearchUp(key[1], key[2])'
  BY DEF CacheInv
<1>1. Entry(key) /\ vc_table[key] = SearchUp(key[1], key[2])
  BY DEF CacheInv
<1>2. key[1] \in T \cup {NOTHING}
  BY <1>1 DEF Entry
<1>3. Entry(key)'
  BY <1>1, <1>2 DEF Entry, Alike
<1>4. PICK z, name : z = key[1] /\ name = key[2]
  OBVIOUS
<1>5. SearchUp(z, name)' = SearchUp(z, name)
  BY <1>2, <1>4, SearchKept
<1>. QED BY <1>1, <1>3, <1>4, <1>5

LEMMA CacheEmptied ==
  ASSUME affected_callable_verb_lookup
  PROVE  CacheInv'
BY DEF affected_callable_verb_lookup, CacheInv

\* A lookup leaves the answer of a search.
LEMMA CallKeeps ==
  ASSUME Inv, NEW t, NEW where \in DOMAIN parent, NEW name, Call(t, where, name)
  PROVE  Inv'
<1>1. UNCHANGED <<parent, verbdefs, verb>> /\ vc_table' = CacheAfter(where, name)
  BY DEF Call
<1>2. PICK f : f = first_parent_with_verbs(where)
  OBVIOUS
<1>3. PICK key : key = <<f, name>>
  OBVIOUS
<1>4. PICK old : old = IF vc_table = NULL THEN <<>> ELSE vc_table
  OBVIOUS
<1>5. Answer(where, name) = IF vc_table # NULL /\ key \in DOMAIN vc_table
                            THEN vc_table[key] ELSE SearchUp(f, name)
  BY <1>2, <1>3 DEF Answer
<1>6. /\ DOMAIN vc_table' = {key} \cup DOMAIN old
      /\ vc_table'[key] = Answer(where, name)
      /\ \A k \in DOMAIN old : k # key => vc_table'[k] = old[k]
  <2>1. vc_table' = With(old, key, Answer(where, name))
    BY <1>1, <1>2, <1>3, <1>4, Zenon DEF CacheAfter
  <2>2. PICK a : a = Answer(where, name)
    OBVIOUS
  <2>3. vc_table' = [k \in DOMAIN old \cup {key} |-> IF k = key THEN a ELSE old[k]]
    BY <2>1, <2>2 DEF With
  <2>. QED BY <2>2, <2>3
<1>7. \A k \in DOMAIN old : Entry(k) /\ old[k] = SearchUp(k[1], k[2])
  BY <1>4 DEF Inv, CacheInv
<1>8. Entry(key)
  BY <1>2, <1>3, SameAnswer DEF Inv, HierarchyInv, Entry
<1>9. vc_table'[key] = SearchUp(f, name)
  <2>1. vc_table # NULL /\ key \in DOMAIN vc_table => vc_table[key] = SearchUp(f, name)
    BY <1>3 DEF Inv, CacheInv
  <2>. QED BY <1>5, <1>6, <2>1
<1>10. \A k \in DOMAIN vc_table' : Entry(k) /\ vc_table'[k] = SearchUp(k[1], k[2])
  BY <1>3, <1>6, <1>7, <1>8, <1>9
<1>11. CacheInv'
  <2>1. ASSUME NEW z, NEW n PROVE SearchUp(z, n)' = SearchUp(z, n)
    BY <1>1 DEF SearchUp, SelectInSeq
  <2>2. ASSUME NEW k PROVE Entry(k)' <=> Entry(k)
    BY <1>1 DEF Entry
  <2>. QED BY <1>10, <2>1, <2>2 DEF CacheInv
<1>12. HierarchyInv' /\ VerbsInv'
  BY <1>1 DEF Inv, HierarchyInv, VerbsInv, Rooted
<1>. QED BY <1>11, <1>12 DEF Inv

-----------------------------------------------------------------------------
(* The actions                                                             *)

\* A list without the element at q.
LEMMA RemoveAtIs ==
  ASSUME NEW T, NEW v \in Seq(T), NEW q \in 1..Len(v)
  PROVE  /\ RemoveAt(v, q) \in Seq(T) /\ Len(RemoveAt(v, q)) = Len(v) - 1
         /\ \A i \in 1..(Len(v) - 1) : RemoveAt(v, q)[i] = IF i < q THEN v[i] ELSE v[i + 1]
<1>1. PICK x, y : x = SubSeq(v, 1, q - 1) /\ y = SubSeq(v, q + 1, Len(v))
  OBVIOUS
<1>2. RemoveAt(v, q) = x \o y
  BY <1>1 DEF RemoveAt
<1>3. Len(v) \in Nat /\ q - 1 \in Int /\ q + 1 \in Int /\ Len(v) \in Int /\ 1 \in Int
  OBVIOUS
<1>4. x \in Seq(T) /\ Len(x) = q - 1 /\ \A i \in 1..(q - 1) : x[i] = v[i]
  <2>1. \A i \in 1..(q - 1) : v[i] \in T
    BY <1>3
  <2>2. /\ x \in Seq(T) /\ Len(x) = IF 1 <= q - 1 THEN (q - 1) - 1 + 1 ELSE 0
        /\ \A i \in 1..((q - 1) - 1 + 1) : x[i] = v[1 + i - 1]
    BY <1>1, <1>3, <2>1, SubSeqProperties
  <2>3. \A i \in 1..(q - 1) : i \in 1..((q - 1) - 1 + 1) /\ 1 + i - 1 = i
    BY <1>3
  <2>. QED BY <1>3, <2>2, <2>3
<1>5. /\ y \in Seq(T) /\ Len(y) = Len(v) - q
      /\ \A i \in 1..(Len(v) - q) : y[i] = v[q + i]
  <2>1. \A i \in (q + 1)..Len(v) : v[i] \in T
    BY <1>3
  <2>2. /\ y \in Seq(T) /\ Len(y) = IF q + 1 <= Len(v) THEN Len(v) - (q + 1) + 1 ELSE 0
        /\ \A i \in 1..(Len(v) - (q + 1) + 1) : y[i] = v[(q + 1) + i - 1]
    BY <1>1, <1>3, <2>1, SubSeqProperties
  <2>3. \A i \in 1..(Len(v) - q) : i \in 1..(Len(v) - (q + 1) + 1) /\ (q + 1) + i - 1 = q + i
    BY <1>3
  <2>. QED BY <1>3, <2>2, <2>3
<1>6. /\ x \o y \in Seq(T) /\ Len(x \o y) = Len(x) + Len(y)
      /\ \A i \in 1..(Len(x) + Len(y)) :
           (x \o y)[i] = IF i <= Len(x) THEN x[i] ELSE y[i - Len(x)]
  BY <1>4, <1>5, ConcatProperties
<1>7. Len(x \o y) = Len(v) - 1 /\ Len(x) + Len(y) = Len(v) - 1
  BY <1>3, <1>4, <1>5, <1>6
<1>8. ASSUME NEW i \in 1..(Len(v) - 1) PROVE (x \o y)[i] = IF i < q THEN v[i] ELSE v[i + 1]
  <2>1. (x \o y)[i] = IF i <= Len(x) THEN x[i] ELSE y[i - Len(x)]
    BY <1>6, <1>7
  <2>2. CASE i < q
    <3>1. i <= Len(x) /\ i \in 1..(q - 1)
      BY <1>3, <1>4, <2>2
    <3>. QED BY <1>4, <2>1, <2>2, <3>1
  <2>3. CASE ~(i < q)
    <3>1. ~(i <= Len(x)) /\ i - Len(x) = i - (q - 1) /\ i - (q - 1) \in 1..(Len(v) - q)
          /\ q + (i - (q - 1)) = i + 1
      BY <1>3, <1>4, <2>3
    <3>. QED BY <1>5, <2>1, <2>3, <3>1
  <2>. QED BY <2>2, <2>3
<1>. QED BY <1>2, <1>6, <1>7, <1>8

\* A Verbdef has one place.
LEMMA OnePlace ==
  ASSUME VerbsInv, NEW x \in DOMAIN parent, NEW y \in DOMAIN parent,
         NEW i \in DOMAIN verbdefs[x], NEW j \in DOMAIN verbdefs[y],
         verbdefs[x][i] = verbdefs[y][j]
  PROVE  x = y /\ i = j
BY Zenon DEF VerbsInv

\* A new object has no verbs, and no cached search passes it.
LEMMA CreateKeeps ==
  ASSUME Inv, NEW o \in Obj, NEW p, db_create_object(o, p)
  PROVE  Inv'
<1>1. /\ parent' = With(parent, o, p) /\ verbdefs' = With(verbdefs, o, <<>>)
      /\ UNCHANGED <<verb, vc_table>> /\ (p = NOTHING \/ p \in DOMAIN parent)
  BY DEF db_create_object, valid
<1>2. o \notin DOMAIN parent /\ o # NOTHING /\ DOMAIN parent \subseteq Obj
      /\ DOMAIN verbdefs = DOMAIN parent
  <2>1. \A x \in DOMAIN parent : x < o
    BY DEF db_create_object
  <2>2. Obj \subseteq Nat
    BY VerbsAssumption
  <2>. QED BY <2>1, <2>2 DEF Inv, HierarchyInv, NOTHING
<1>3. PICK D : D = DOMAIN parent
  OBVIOUS
<1>4. /\ DOMAIN parent' = D \cup {o} /\ parent'[o] = p
      /\ \A x \in D : parent'[x] = parent[x]
  BY <1>1, <1>2, <1>3 DEF With
<1>5. /\ DOMAIN verbdefs' = D \cup {o} /\ verbdefs'[o] = <<>>
      /\ \A x \in D : verbdefs'[x] = verbdefs[x]
  BY <1>1, <1>2, <1>3 DEF With
<1>6. Rooted'
  <2>1. PICK height, top : Ranked(parent, height, top)
    BY DEF Inv, HierarchyInv, Rooted
  <2>2. PICK h : h = [x \in D \cup {o} |-> IF x = o THEN top + 1 ELSE height[x]]
    OBVIOUS
  <2>3. /\ h[o] = top + 1 /\ top \in Nat /\ top + 1 \in Nat
        /\ \A x \in D : h[x] = height[x] /\ height[x] \in 0..top
    BY <1>2, <1>3, <2>1, <2>2 DEF Ranked
  <2>4. h \in [D \cup {o} -> 0..(top + 1)]
    BY <2>2, <2>3
  <2>5. parent' \in [D \cup {o} -> D \cup {o} \cup {NOTHING}]
    <3>1. parent' = [x \in D \cup {o} |-> parent'[x]]
      BY <1>1, <1>3 DEF With
    <3>2. \A x \in D \cup {o} : parent'[x] \in D \cup {o} \cup {NOTHING}
      BY <1>1, <1>3, <1>4, <2>1 DEF Ranked
    <3>. QED BY <3>1, <3>2
  <2>6. \A x \in D \cup {o} : parent'[x] # NOTHING => h[parent'[x]] < h[x]
    <3>. SUFFICES ASSUME NEW x \in D \cup {o}, parent'[x] # NOTHING
                  PROVE  h[parent'[x]] < h[x]
      OBVIOUS
    <3>1. CASE x = o
      BY <1>1, <1>3, <1>4, <2>3, <3>1
    <3>2. CASE x # o
      BY <1>3, <1>4, <2>1, <2>3, <3>2 DEF Ranked
    <3>. QED BY <3>1, <3>2
  <2>7. Ranked(parent', h, top + 1)
    BY <1>2, <1>3, <1>4, <2>1, <2>3, <2>4, <2>5, <2>6 DEF Ranked
  <2>. QED BY <2>7 DEF Rooted
<1>7. HierarchyInv'
  BY <1>2, <1>3, <1>4, <1>5, <1>6 DEF HierarchyInv
<1>8. VerbsInv'
  <2>1. \A x \in D \cup {o} : verbdefs'[x] \in Seq(DOMAIN verb)
    <3>1. \A x \in D : verbdefs'[x] \in Seq(DOMAIN verb)
      BY <1>3, <1>5 DEF Inv, VerbsInv
    <3>2. verbdefs'[o] \in Seq(DOMAIN verb)
      BY <1>5
    <3>. QED BY <3>1, <3>2
  <2>2. \A x \in D \cup {o} : \A i \in DOMAIN verbdefs'[x] : x \in D
    BY <1>5
  <2>. QED BY SMTT(30), <1>1, <1>3, <1>4, <1>5, <2>1, <2>2 DEF Inv, VerbsInv
<1>9. CacheInv'
  <2>1. SameVerbs
    BY <1>1 DEF SameVerbs
  <2>2. \A x \in D : \A name : /\ Has(x, name)' <=> Has(x, name)
                               /\ Found(x, name)' = Found(x, name)
    BY <1>3, <1>5, <2>1, SameHits DEF Inv, VerbsInv
  <2>3. Alike(D)
    <3>1. \A x \in D : parent[x] \in D \cup {NOTHING}
      BY <1>3 DEF Inv, HierarchyInv, Rooted, Ranked
    <3>. QED BY <1>3, <1>4, <2>2, <3>1 DEF Alike
  <2>. QED BY <1>1, <1>3, <1>5, <1>6, <2>3, CacheKept DEF Inv, HierarchyInv
<1>. QED BY <1>7, <1>8, <1>9 DEF Inv

\* An object gets another parent, which is not below it: all that is below it
\* is raised.  If it keeps the cache, no cached search passes it.
LEMMA ChangeParentKeeps ==
  ASSUME Inv, NEW o, NEW p, db_change_parent(o, p)
  PROVE  Inv'
<1>1. /\ o \in DOMAIN parent /\ parent' = [parent EXCEPT ![o] = p]
      /\ UNCHANGED <<verb, verbdefs>>
      /\ p = NOTHING \/ (p \in DOMAIN parent /\ o \notin ToSet(Ancestors(parent, p)))
  BY DEF db_change_parent, valid, NoLoop
<1>2. PICK height, top : Ranked(parent, height, top)
  BY DEF Inv, HierarchyInv, Rooted
<1>3. PICK D : D = DOMAIN parent
  OBVIOUS
<1>4. /\ DOMAIN parent' = D /\ parent'[o] = p
      /\ \A x \in D : x # o => parent'[x] = parent[x]
      /\ \A x \in D : parent[x] \in D \cup {NOTHING}
  BY <1>1, <1>2, <1>3 DEF Ranked
<1>5. Rooted'
  <2>1. PICK B : B = {x \in D : o \in ToSet(Ancestors(parent, x))}
    OBVIOUS
  <2>2. \A x \in D : x \in B <=> (x = o \/ parent[x] \in B)
    <3>. TAKE x \in D
    <3>1. ToSet(Ancestors(parent, x)) = {x} \cup ToSet(Ancestors(parent, parent[x]))
      BY <1>2, <1>3, AncestorSet
    <3>2. parent[x] = NOTHING => ToSet(Ancestors(parent, parent[x])) = {}
      BY <1>2, AncestorSet
    <3>3. NOTHING \notin D
      BY <1>2, <1>3 DEF Ranked
    <3>. QED BY <1>4, <2>1, <3>1, <3>2, <3>3
  <2>3. PICK h : h = [x \in D |-> IF x \in B THEN height[x] + top + 1 ELSE height[x]]
    OBVIOUS
  <2>4. top \in Nat /\ top + top + 1 \in Nat /\ \A x \in D : height[x] \in 0..top
    BY <1>2, <1>3 DEF Ranked
  <2>5. /\ h \in [D -> 0..(top + top + 1)]
        /\ \A x \in D : h[x] = IF x \in B THEN height[x] + top + 1 ELSE height[x]
    BY <2>3, <2>4
  <2>6. parent' \in [D -> D \cup {NOTHING}]
    BY <1>1, <1>2, <1>3 DEF Ranked
  <2>7. ASSUME NEW x \in D, parent'[x] # NOTHING PROVE h[parent'[x]] < h[x]
    <3>1. CASE x = o
      <4>1. p \in D /\ p \notin B /\ o \in D /\ o \in B
        BY <1>1, <1>3, <1>4, <2>1, <2>2, <2>7, <3>1
      <4>2. h[p] = height[p] /\ h[o] = height[o] + top + 1
        BY <2>5, <4>1
      <4>3. height[p] \in 0..top /\ height[o] \in 0..top
        BY <2>4, <4>1
      <4>4. h[p] < h[o]
        BY <2>4, <4>2, <4>3
      <4>. QED BY <1>4, <3>1, <4>4
    <3>2. CASE x # o
      <4>1. PICK u \in D : u = parent[x] /\ u = parent'[x] /\ height[u] < height[x]
        BY <1>2, <1>3, <1>4, <2>7, <3>2 DEF Ranked
      <4>2. x \in B <=> u \in B
        BY ZenonT(40), <2>2, <3>2, <4>1
      <4>3. height[u] \in 0..top /\ height[x] \in 0..top
        BY <2>4, <4>1
      <4>4. h[u] < h[x]
        BY <2>4, <2>5, <4>1, <4>2, <4>3
      <4>. QED BY <4>1, <4>4
    <3>. QED BY <3>1, <3>2
  <2>8. NOTHING \notin D
    BY <1>2, <1>3 DEF Ranked
  <2>9. Ranked(parent', h, top + top + 1)
    BY <1>4, <2>4, <2>5, <2>6, <2>7, <2>8 DEF Ranked
  <2>. QED BY <2>9 DEF Rooted
<1>6. HierarchyInv' /\ VerbsInv'
  BY <1>1, <1>3, <1>4, <1>5 DEF Inv, HierarchyInv, VerbsInv
<1>7. CacheInv'
  <2>1. CASE affected_callable_verb_lookup
    BY <2>1, CacheEmptied
  <2>2. CASE ~affected_callable_verb_lookup
    <3>1. Children(parent, o) = {} /\ verbdefs[o] = <<>> /\ vc_table' = vc_table
      BY <2>2 DEF db_change_parent
    <3>2. SameVerbs
      BY <1>1 DEF SameVerbs
    <3>3. PICK T : T = D \ {o}
      OBVIOUS
    <3>4. \A x \in T : \A name : /\ Has(x, name)' <=> Has(x, name)
                                 /\ Found(x, name)' = Found(x, name)
      BY <1>1, <1>3, <3>2, <3>3, SameHits DEF Inv, VerbsInv
    <3>5. \A x \in T : parent[x] \in T \cup {NOTHING}
      BY <1>3, <1>4, <3>1, <3>3 DEF Children
    <3>6. Alike(T)
      BY <1>3, <1>4, <3>3, <3>4, <3>5 DEF Alike
    <3>7. \A x \in DOMAIN parent : verbdefs[x] # <<>> => x \in T /\ verbdefs'[x] # <<>>
      BY <1>1, <1>3, <3>1, <3>3
    <3>. QED BY <1>5, <3>1, <3>6, <3>7, CacheKept DEF Inv, HierarchyInv
  <2>. QED BY <2>1, <2>2
<1>. QED BY <1>6, <1>7 DEF Inv

\* The children of the object move up, which leaves every height right.
LEMMA DestroyKeeps ==
  ASSUME Inv, NEW o, db_destroy_object(o)
  PROVE  Inv'
<1>1. /\ o \in DOMAIN parent /\ affected_callable_verb_lookup
      /\ parent' = [x \in DOMAIN parent \ {o} |->
                      IF parent[x] = o THEN parent[o] ELSE parent[x]]
      /\ verbdefs' = [x \in DOMAIN verbdefs \ {o} |-> verbdefs[x]]
      /\ verb' = [v \in DOMAIN verb \ ToSet(verbdefs[o]) |-> verb[v]]
  BY DEF db_destroy_object, valid, Restrict
<1>2. PICK height, top : Ranked(parent, height, top)
  BY DEF Inv, HierarchyInv, Rooted
<1>3. PICK D : D = DOMAIN parent /\ D = DOMAIN verbdefs
  BY DEF Inv, HierarchyInv
<1>4. Rooted'
  <2>1. PICK h : h = [x \in D \ {o} |-> height[x]]
    OBVIOUS
  <2>2. h \in [D \ {o} -> 0..top] /\ NOTHING \notin D /\ top \in Nat
    BY <1>2, <1>3, <2>1 DEF Ranked
  <2>3. ASSUME NEW x \in D \ {o}
        PROVE  /\ parent'[x] \in (D \ {o}) \cup {NOTHING}
               /\ parent'[x] # NOTHING => h[parent'[x]] < h[x]
    <3>1. PICK u \in D \cup {NOTHING} : u = parent[x] /\ (u # NOTHING => height[u] < height[x])
      BY <1>2, <1>3 DEF Ranked
    <3>2. PICK w \in D \cup {NOTHING} : w = parent[o] /\ (w # NOTHING => height[w] < height[o])
      BY <1>1, <1>2, <1>3 DEF Ranked
    <3>3. /\ height[o] \in 0..top /\ height[x] \in 0..top
          /\ (w # NOTHING => height[w] \in 0..top) /\ (u # NOTHING => height[u] \in 0..top)
      BY <1>1, <1>2, <1>3 DEF Ranked
    <3>4. w # o
      BY <2>2, <1>1, <1>3, <3>2, <3>3
    <3>5. parent'[x] = IF u = o THEN w ELSE u
      BY <1>1, <1>3, <3>1, <3>2
    <3>6. CASE u = o
      <4>1. parent'[x] = w /\ w \in (D \ {o}) \cup {NOTHING}
        BY <3>2, <3>4, <3>5, <3>6
      <4>2. w # NOTHING => height[w] < height[x]
        BY <1>1, <1>3, <2>2, <3>1, <3>2, <3>3, <3>6
      <4>3. w # NOTHING => h[w] = height[w] /\ h[x] = height[x]
        BY <2>1, <4>1
      <4>. QED BY <4>1, <4>2, <4>3
    <3>7. CASE u # o
      BY <2>1, <2>2, <3>1, <3>3, <3>5, <3>7
    <3>. QED BY <3>6, <3>7
  <2>4. DOMAIN parent' = D \ {o} /\ parent' = [x \in D \ {o} |-> parent'[x]]
    BY <1>1, <1>3
  <2>5. parent' \in [D \ {o} -> (D \ {o}) \cup {NOTHING}]
    BY <2>3, <2>4
  <2>6. Ranked(parent', h, top)
    BY <2>2, <2>3, <2>4, <2>5 DEF Ranked
  <2>. QED BY <2>6 DEF Rooted
<1>5. HierarchyInv'
  BY <1>1, <1>3, <1>4 DEF Inv, HierarchyInv
<1>6. VerbsInv'
  <2>1. DOMAIN parent' = D \ {o} /\ \A x \in D \ {o} : verbdefs'[x] = verbdefs[x]
    BY <1>1, <1>3
  <2>2. ASSUME NEW x \in D \ {o} PROVE verbdefs[x] \in Seq(DOMAIN verb')
    <3>1. PICK vs \in Seq(DOMAIN verb) : vs = verbdefs[x]
      BY <1>3 DEF Inv, VerbsInv
    <3>2. PICK gone \in Seq(DOMAIN verb) : gone = verbdefs[o]
      BY <1>1 DEF Inv, VerbsInv
    <3>3. \A i \in DOMAIN vs, j \in DOMAIN gone : vs[i] # gone[j]
      BY <1>1, <1>3, <3>1, <3>2 DEF Inv, VerbsInv
    <3>4. \A i \in DOMAIN vs : vs[i] \notin ToSet(gone)
      BY <3>3 DEF ToSet
    <3>5. DOMAIN vs = 1..Len(vs)
      OBVIOUS
    <3>6. \A i \in 1..Len(vs) : vs[i] \in DOMAIN verb'
      BY <1>1, <3>2, <3>4, <3>5
    <3>7. vs \in Seq(DOMAIN verb')
      BY <3>6
    <3>. QED BY <3>1, <3>7
  <2>3. verb' \in [DOMAIN verb' -> [names : Names, exec : BOOLEAN, program : Programs]]
    BY <1>1 DEF Inv, VerbsInv
  <2>4. \A x, y \in D \ {o} : \A i \in DOMAIN verbdefs[x], j \in DOMAIN verbdefs[y] :
          verbdefs[x][i] = verbdefs[y][j] => x = y /\ i = j
    BY <1>3 DEF Inv, VerbsInv
  <2>5. \A x \in DOMAIN parent' : verbdefs'[x] \in Seq(DOMAIN verb')
    BY <2>1, <2>2
  <2>6. \A x, y \in DOMAIN parent' : \A i \in DOMAIN verbdefs'[x], j \in DOMAIN verbdefs'[y] :
          verbdefs'[x][i] = verbdefs'[y][j] => x = y /\ i = j
    BY <2>1, <2>4
  <2>. QED BY <2>3, <2>5, <2>6, Zenon DEF VerbsInv
<1>7. CacheInv'
  BY <1>1, CacheEmptied
<1>. QED BY <1>5, <1>6, <1>7 DEF Inv

\* The object goes to a free number with its parent, children and verbs.
LEMMA RenumberKeeps ==
  ASSUME Inv, NEW old, db_renumber_object(old)
  PROVE  Inv'
<1>. DEFINE free == {n \in Obj : n < old /\ ~valid(n)}
<1>0. PICK new : new = IF free = {} THEN old ELSE Min(free)
  OBVIOUS
<1>. DEFINE Num(x) == IF x = old THEN new ELSE x
            was(x) == IF x = new THEN old ELSE x
            now    == {Num(x) : x \in DOMAIN parent}
<1>1. /\ old \in DOMAIN parent /\ affected_callable_verb_lookup
      /\ parent' = [x \in now |-> Num(parent[was(x)])]
      /\ verbdefs' = [x \in now |-> verbdefs[was(x)]]
      /\ verb' = verb
  BY <1>0, Zenon DEF db_renumber_object, valid
<1>2. PICK height, top : Ranked(parent, height, top)
  BY DEF Inv, HierarchyInv, Rooted
<1>3. PICK D : D = DOMAIN parent /\ D = DOMAIN verbdefs /\ D \subseteq Obj
  BY DEF Inv, HierarchyInv
<1>4. Obj \subseteq Nat
  BY VerbsAssumption
<1>5. new \in Obj /\ (new = old \/ new \notin D)
  <2>1. CASE free = {}
    BY <1>0, <1>1, <1>3, <2>1
  <2>2. CASE free # {}
    <3>1. free \subseteq Nat
      BY <1>4
    <3>2. \E x \in free : \A y \in free : x <= y
      <4>. HIDE DEF free
      <4>. QED BY <2>2, <3>1, LeastElement
    <3>3. new \in free
      <4>. HIDE DEF free
      <4>. QED BY <1>0, <2>2, <3>2 DEF Min
    <3>. QED BY <1>3, <3>3 DEF valid
  <2>. QED BY <2>1, <2>2
<1>. HIDE DEF free
<1>6. NOTHING \notin Obj
  BY <1>4 DEF NOTHING
<1>7. \A x \in D : Num(x) \in now /\ was(Num(x)) = x
  BY <1>3, <1>5
<1>8. \A x \in now : was(x) \in D /\ x \in Obj /\ Num(was(x)) = x
  BY <1>1, <1>3, <1>5
<1>9. DOMAIN parent' = now /\ DOMAIN verbdefs' = now
  BY <1>1
<1>10. ASSUME NEW x \in now
       PROVE  /\ parent'[x] = Num(parent[was(x)])
              /\ verbdefs'[x] = verbdefs[was(x)]
  BY <1>1
<1>11. Num(NOTHING) = NOTHING
  BY <1>1, <1>3, <1>6
<1>12. NOTHING \notin now
  BY <1>6, <1>8
<1>13. parent' = [x \in now |-> parent'[x]]
  BY <1>1
<1>. HIDE DEF Num, was, now
<1>14. Rooted'
  <2>1. PICK h : h = [x \in now |-> height[was(x)]]
    OBVIOUS
  <2>2. h \in [now -> 0..top] /\ top \in Nat
    BY <1>2, <1>3, <1>8, <2>1 DEF Ranked
  <2>3. ASSUME NEW x \in now
        PROVE  /\ parent'[x] \in now \cup {NOTHING}
               /\ parent'[x] # NOTHING => h[parent'[x]] < h[x]
    <3>1. PICK y \in D : y = was(x)
      BY <1>8
    <3>2. PICK u \in D \cup {NOTHING} : u = parent[y] /\ (u # NOTHING => height[u] < height[y])
      BY <1>2, <1>3 DEF Ranked
    <3>3. CASE u = NOTHING
      BY <1>10, <1>11, <3>1, <3>2, <3>3
    <3>4. CASE u # NOTHING
      <4>1. PICK w \in now : w = Num(u) /\ was(w) = u
        BY <1>7, <3>2, <3>4
      <4>2. parent'[x] = w
        BY <1>10, <3>1, <3>2, <4>1
      <4>3. h[w] = height[u] /\ h[x] = height[y]
        BY <2>1, <3>1, <4>1
      <4>. QED BY <3>2, <3>4, <4>2, <4>3
    <3>. QED BY <3>3, <3>4
  <2>4. parent' \in [now -> now \cup {NOTHING}]
    BY <1>13, <2>3
  <2>5. Ranked(parent', h, top)
    BY <1>9, <1>12, <2>2, <2>3, <2>4 DEF Ranked
  <2>. QED BY <2>5 DEF Rooted
<1>15. HierarchyInv'
  <2>1. now \subseteq Obj
    BY <1>8
  <2>. QED BY <1>9, <1>14, <2>1 DEF HierarchyInv
<1>16. VerbsInv'
  <2>1. \A x \in now : verbdefs'[x] \in Seq(DOMAIN verb)
    <3>. TAKE x \in now
    <3>1. PICK y \in D : y = was(x) /\ verbdefs'[x] = verbdefs[y]
      BY <1>8, <1>10
    <3>. QED BY <1>3, <3>1 DEF Inv, VerbsInv
  <2>2. ASSUME NEW x \in now, NEW y \in now,
               NEW i \in DOMAIN verbdefs'[x], NEW j \in DOMAIN verbdefs'[y],
               verbdefs'[x][i] = verbdefs'[y][j]
        PROVE  x = y /\ i = j
    <3>1. PICK a \in D, b \in D : /\ a = was(x) /\ b = was(y) /\ x = Num(a) /\ y = Num(b)
                                  /\ verbdefs'[x] = verbdefs[a] /\ verbdefs'[y] = verbdefs[b]
      BY <1>8, <1>10
    <3>2. a = b /\ i = j
      <4>1. i \in DOMAIN verbdefs[a] /\ j \in DOMAIN verbdefs[b] /\ verbdefs[a][i] = verbdefs[b][j]
        BY <2>2, <3>1
      <4>2. a \in DOMAIN parent /\ b \in DOMAIN parent
        BY <1>3
      <4>. QED BY <4>1, <4>2, OnePlace DEF Inv
    <3>. QED BY <3>1, <3>2
  <2>3. verb' \in [DOMAIN verb' -> [names : Names, exec : BOOLEAN, program : Programs]]
    BY <1>1 DEF Inv, VerbsInv
  <2>4. \A x \in DOMAIN parent' : verbdefs'[x] \in Seq(DOMAIN verb')
    BY <1>1, <1>9, <2>1
  <2>5. \A x, y \in DOMAIN parent' : \A i \in DOMAIN verbdefs'[x], j \in DOMAIN verbdefs'[y] :
          verbdefs'[x][i] = verbdefs'[y][j] => x = y /\ i = j
    BY <1>9, <2>2
  <2>. QED BY <2>3, <2>4, <2>5, Zenon DEF VerbsInv
<1>17. CacheInv'
  BY <1>1, CacheEmptied
<1>. QED BY <1>15, <1>16, <1>17 DEF Inv

\* A new Verbdef is in no other place.
LEMMA AddVerbKeeps ==
  ASSUME Inv, NEW o, NEW names \in Names, NEW exec \in BOOLEAN, db_add_verb(o, names, exec)
  PROVE  Inv'
<1>1. PICK v : /\ v \notin DOMAIN verb /\ o \in DOMAIN parent
               /\ affected_callable_verb_lookup
               /\ verb' = With(verb, v, [names |-> names, exec |-> exec,
                                         program |-> null_program])
               /\ verbdefs' = [verbdefs EXCEPT ![o] = Append(@, v)]
               /\ parent' = parent
  BY DEF db_add_verb, valid
<1>2. PICK D : D = DOMAIN parent /\ D = DOMAIN verbdefs /\ o \in D
  BY <1>1 DEF Inv, HierarchyInv
<1>3. /\ DOMAIN verbdefs' = D /\ verbdefs'[o] = Append(verbdefs[o], v)
      /\ \A x \in D : x # o => verbdefs'[x] = verbdefs[x]
  BY <1>1, <1>2
<1>4. HierarchyInv'
  BY <1>1, <1>2, <1>3 DEF Inv, HierarchyInv, Rooted
<1>5. DOMAIN verb' = DOMAIN verb \cup {v}
  BY <1>1 DEF With
<1>6. verb' \in [DOMAIN verb' -> [names : Names, exec : BOOLEAN, program : Programs]]
  BY <1>1 DEF Inv, VerbsInv, With, Programs
<1>7. PICK old \in Seq(DOMAIN verb) : old = verbdefs[o]
  BY <1>2 DEF Inv, VerbsInv
<1>8. PICK new \in Seq(DOMAIN verb \cup {v}) : new = Append(old, v) /\ new = verbdefs'[o]
  BY SMTT(30), <1>3, <1>7
<1>9. /\ DOMAIN old = 1..Len(old) /\ DOMAIN new = 1..(Len(old) + 1) /\ Len(old) \in Nat
      /\ new[Len(old) + 1] = v /\ \A i \in 1..Len(old) : new[i] = old[i]
  <2>1. DOMAIN old = 1..Len(old) /\ Len(old) \in Nat
    OBVIOUS
  <2>2. Len(Append(old, v)) = Len(old) + 1 /\ DOMAIN new = 1..Len(new)
    BY <1>7
  <2>3. Append(old, v)[Len(old) + 1] = v /\ \A i \in 1..Len(old) : Append(old, v)[i] = old[i]
    BY <1>7, AppendProperties
  <2>. QED BY <1>8, <2>1, <2>2, <2>3
<1>10. ASSUME NEW x \in D PROVE verbdefs'[x] \in Seq(DOMAIN verb')
  <2>1. CASE x = o
    BY <1>5, <1>8, <2>1
  <2>2. CASE x # o
    <3>1. PICK vs \in Seq(DOMAIN verb) : vs = verbdefs'[x]
      BY <1>2, <1>3, <2>2 DEF Inv, VerbsInv
    <3>. QED BY <1>5, <3>1
  <2>. QED BY <2>1, <2>2
<1>11. ASSUME NEW x \in D, NEW i \in DOMAIN verbdefs'[x]
       PROVE  \/ x = o /\ i = Len(old) + 1 /\ verbdefs'[x][i] = v
              \/ /\ i \in DOMAIN verbdefs[x] /\ verbdefs'[x][i] = verbdefs[x][i]
                 /\ verbdefs[x][i] # v
  <2>0. verbdefs[x] \in Seq(DOMAIN verb)
    BY <1>2 DEF Inv, VerbsInv
  <2>1. \A k \in DOMAIN verbdefs[x] : verbdefs[x][k] # v
    BY <1>1, <2>0
  <2>2. CASE x # o
    BY <1>3, <1>11, <2>1, <2>2
  <2>3. CASE x = o
    <3>1. i \in 1..(Len(old) + 1)
      BY <1>8, <1>9, <1>11, <2>3
    <3>2. CASE i = Len(old) + 1
      BY <1>8, <1>9, <2>3, <3>2
    <3>3. CASE i # Len(old) + 1
      <4>1. i \in 1..Len(old)
        BY <1>9, <3>1, <3>3
      <4>. QED BY <1>7, <1>8, <1>9, <2>1, <2>3, <4>1
    <3>. QED BY <3>2, <3>3
  <2>. QED BY <2>2, <2>3
<1>12. ASSUME NEW x \in D, NEW y \in D,
              NEW i \in DOMAIN verbdefs'[x], NEW j \in DOMAIN verbdefs'[y],
              verbdefs'[x][i] = verbdefs'[y][j]
       PROVE  x = y /\ i = j
  <2>1. CASE x = o /\ i = Len(old) + 1 /\ verbdefs'[x][i] = v
    BY <1>11, <1>12, <2>1
  <2>2. CASE /\ i \in DOMAIN verbdefs[x] /\ verbdefs'[x][i] = verbdefs[x][i]
             /\ verbdefs[x][i] # v
    <3>1. j \in DOMAIN verbdefs[y] /\ verbdefs'[y][j] = verbdefs[y][j]
      BY <1>11, <1>12, <2>2
    <3>2. verbdefs[x][i] = verbdefs[y][j] /\ x \in DOMAIN parent /\ y \in DOMAIN parent
      BY <1>2, <1>12, <2>2, <3>1
    <3>. QED BY <2>2, <3>1, <3>2, OnePlace DEF Inv
  <2>. QED BY <1>11, <2>1, <2>2
<1>13. VerbsInv'
  <2>1. \A x \in DOMAIN parent' : verbdefs'[x] \in Seq(DOMAIN verb')
    BY <1>1, <1>2, <1>10
  <2>2. \A x, y \in DOMAIN parent' : \A i \in DOMAIN verbdefs'[x], j \in DOMAIN verbdefs'[y] :
          verbdefs'[x][i] = verbdefs'[y][j] => x = y /\ i = j
    BY <1>1, <1>2, <1>12
  <2>. QED BY <1>6, <2>1, <2>2, Zenon DEF VerbsInv
<1>14. CacheInv'
  BY <1>1, CacheEmptied
<1>. QED BY <1>4, <1>13, <1>14 DEF Inv

\* A Verbdef is taken out of its list, and was in no other place.
LEMMA DeleteVerbKeeps ==
  ASSUME Inv, NEW o, NEW at, db_delete_verb(o, at)
  PROVE  Inv'
<1>1. /\ o \in DOMAIN parent /\ at \in DOMAIN verbdefs[o]
      /\ affected_callable_verb_lookup
      /\ verbdefs' = [verbdefs EXCEPT ![o] = RemoveAt(@, at)]
      /\ verb' = [v \in DOMAIN verb \ {verbdefs[o][at]} |-> verb[v]]
      /\ parent' = parent
  BY DEF db_delete_verb, valid, Restrict
<1>2. PICK D : D = DOMAIN parent /\ D = DOMAIN verbdefs /\ o \in D
  BY <1>1 DEF Inv, HierarchyInv
<1>3. /\ DOMAIN verbdefs' = D /\ verbdefs'[o] = RemoveAt(verbdefs[o], at)
      /\ \A x \in D : x # o => verbdefs'[x] = verbdefs[x]
  BY <1>1, <1>2
<1>4. HierarchyInv'
  BY <1>1, <1>2, <1>3 DEF Inv, HierarchyInv, Rooted
<1>5. verb' \in [DOMAIN verb' -> [names : Names, exec : BOOLEAN, program : Programs]]
  BY <1>1 DEF Inv, VerbsInv
<1>6. PICK old \in Seq(DOMAIN verb) : old = verbdefs[o]
  BY <1>2 DEF Inv, VerbsInv
<1>7. /\ DOMAIN old = 1..Len(old) /\ Len(old) \in Nat /\ at \in 1..Len(old)
  BY <1>1, <1>6
<1>8. PICK new \in Seq(DOMAIN verb) :
        /\ new = verbdefs'[o] /\ DOMAIN new = 1..(Len(old) - 1)
        /\ \A i \in 1..(Len(old) - 1) : new[i] = IF i < at THEN old[i] ELSE old[i + 1]
  <2>1. /\ RemoveAt(old, at) \in Seq(DOMAIN verb) /\ Len(RemoveAt(old, at)) = Len(old) - 1
        /\ \A i \in 1..(Len(old) - 1) :
             RemoveAt(old, at)[i] = IF i < at THEN old[i] ELSE old[i + 1]
    BY <1>7, RemoveAtIs
  <2>. QED BY SMTT(30), <1>3, <1>6, <2>1
\* Every place has the verb of an old place, not the one that is gone, and of
\* no other old place than this.
<1>. DEFINE Old(x, i) == IF x # o \/ i < at THEN i ELSE i + 1
<1>9. ASSUME NEW x \in D, NEW i \in DOMAIN verbdefs'[x]
      PROVE  /\ Old(x, i) \in DOMAIN verbdefs[x] /\ (x = o => Old(x, i) # at)
             /\ verbdefs'[x][i] = verbdefs[x][Old(x, i)]
             /\ x = o => i \in Nat
  <2>1. CASE x # o
    BY <1>3, <1>9, <2>1
  <2>2. CASE x = o
    <3>1. i \in 1..(Len(old) - 1)
      BY <1>8, <1>9, <2>2
    <3>2. Old(x, i) \in 1..Len(old) /\ Old(x, i) # at /\ i \in Nat
      BY <1>7, <2>2, <3>1
    <3>3. new[i] = old[Old(x, i)]
      BY <1>8, <2>2, <3>1
    <3>. QED BY <1>6, <1>7, <1>8, <2>2, <3>2, <3>3
  <2>. QED BY <2>1, <2>2
<1>10. ASSUME NEW x \in D PROVE verbdefs'[x] \in Seq(DOMAIN verb')
  <2>1. PICK vs \in Seq(DOMAIN verb) : vs = verbdefs'[x]
    <3>1. CASE x = o
      BY <1>8, <3>1
    <3>2. CASE x # o
      BY <1>2, <1>3, <3>2 DEF Inv, VerbsInv
    <3>. QED BY <3>1, <3>2
  <2>2. ASSUME NEW i \in DOMAIN vs PROVE vs[i] # verbdefs[o][at]
    <3>1. PICK k : /\ k = Old(x, i) /\ k \in DOMAIN verbdefs[x] /\ vs[i] = verbdefs[x][k]
                   /\ x = o => k # at
      BY <1>9, <2>1, <2>2
    <3>2. x \in DOMAIN parent
      BY <1>2
    <3>. QED BY <1>1, <3>1, <3>2, OnePlace DEF Inv
  <2>3. DOMAIN vs = 1..Len(vs) /\ \A i \in 1..Len(vs) : vs[i] \in DOMAIN verb
    OBVIOUS
  <2>4. \A i \in 1..Len(vs) : vs[i] \in DOMAIN verb'
    BY <1>1, <2>2, <2>3
  <2>5. vs \in Seq(DOMAIN verb')
    BY <2>4
  <2>. QED BY <2>1, <2>5
<1>11. ASSUME NEW x \in D, NEW y \in D,
              NEW i \in DOMAIN verbdefs'[x], NEW j \in DOMAIN verbdefs'[y],
              verbdefs'[x][i] = verbdefs'[y][j]
       PROVE  x = y /\ i = j
  <2>1. PICK k : /\ k = Old(x, i) /\ k \in DOMAIN verbdefs[x] /\ verbdefs'[x][i] = verbdefs[x][k]
                 /\ x = o => i \in Nat
    BY <1>9
  <2>2. PICK l : /\ l = Old(y, j) /\ l \in DOMAIN verbdefs[y] /\ verbdefs'[y][j] = verbdefs[y][l]
                 /\ y = o => j \in Nat
    BY <1>9
  <2>3. x = y /\ k = l
    <3>1. verbdefs[x][k] = verbdefs[y][l] /\ x \in DOMAIN parent /\ y \in DOMAIN parent
      BY <1>2, <1>11, <2>1, <2>2
    <3>. QED BY <2>1, <2>2, <3>1, OnePlace DEF Inv
  <2>4. CASE x # o
    BY <2>1, <2>2, <2>3, <2>4
  <2>5. CASE x = o
    <3>1. i \in Nat /\ j \in Nat /\ at \in Nat
      BY <1>7, <2>1, <2>2, <2>3, <2>5
    <3>. QED BY <2>1, <2>2, <2>3, <2>5, <3>1
  <2>. QED BY <2>4, <2>5
<1>12. VerbsInv'
  <2>1. \A x \in DOMAIN parent' : verbdefs'[x] \in Seq(DOMAIN verb')
    BY <1>1, <1>2, <1>10
  <2>2. \A x, y \in DOMAIN parent' : \A i \in DOMAIN verbdefs'[x], j \in DOMAIN verbdefs'[y] :
          verbdefs'[x][i] = verbdefs'[y][j] => x = y /\ i = j
    BY <1>1, <1>2, <1>11
  <2>. QED BY <1>5, <2>1, <2>2, Zenon DEF VerbsInv
<1>13. CacheInv'
  BY <1>1, CacheEmptied
<1>. QED BY <1>4, <1>12, <1>13 DEF Inv

\* Nothing of what a search looks at is changed.
LEMMA OthersKeep ==
  ASSUME Inv, UNCHANGED <<parent, verbdefs, verb, vc_table>>
  PROVE  Inv'
<1>1. HierarchyInv' /\ VerbsInv'
  BY DEF Inv, HierarchyInv, VerbsInv, Rooted
<1>2. ASSUME NEW z, NEW n PROVE SearchUp(z, n)' = SearchUp(z, n)
  BY DEF SearchUp, SelectInSeq
<1>3. ASSUME NEW k PROVE Entry(k)' <=> Entry(k)
  BY DEF Entry
<1>4. CacheInv'
  BY <1>2, <1>3 DEF Inv, CacheInv
<1>. QED BY <1>1, <1>4 DEF Inv

\* The names and the bits of a verb change, and the cache goes.
LEMMA SetInfoKeeps ==
  ASSUME Inv, NEW o, NEW at, NEW names \in Names, NEW exec \in BOOLEAN,
         bf_set_verb_info(o, at, names, exec)
  PROVE  Inv'
<1>1. PICK v : /\ UNCHANGED <<parent, verbdefs>> /\ affected_callable_verb_lookup
               /\ verb' = [verb EXCEPT ![v].names = names, ![v].exec = exec]
  BY DEF bf_set_verb_info
<1>2. DOMAIN verb' = DOMAIN verb
      /\ verb' \in [DOMAIN verb -> [names : Names, exec : BOOLEAN, program : Programs]]
  <2>1. verb \in [DOMAIN verb -> [names : Names, exec : BOOLEAN, program : Programs]]
    BY DEF Inv, VerbsInv
  <2>. QED BY <1>1, <2>1
<1>3. HierarchyInv' /\ VerbsInv'
  BY <1>1, <1>2 DEF Inv, HierarchyInv, VerbsInv, Rooted
<1>4. CacheInv'
  BY <1>1, CacheEmptied
<1>. QED BY <1>3, <1>4 DEF Inv

\* A verb gets another program under the eyes of the cache, which knows the
\* Verbdef and not the program.
LEMMA SetProgramKeeps ==
  ASSUME Inv, NEW v, db_set_verb_program(v)
  PROVE  Inv'
<1>1. PICK p \in Program : /\ verb' = [verb EXCEPT ![v].program = p]
                           /\ UNCHANGED <<parent, verbdefs, vc_table>>
  BY DEF db_set_verb_program
<1>2. PICK Fields : Fields = [names : Names, exec : BOOLEAN, program : Programs]
  OBVIOUS
<1>3. DOMAIN verb' = DOMAIN verb /\ verb' \in [DOMAIN verb -> Fields]
  BY <1>1, <1>2 DEF Inv, VerbsInv, Programs
<1>4. HierarchyInv' /\ VerbsInv'
  BY <1>1, <1>2, <1>3 DEF Inv, HierarchyInv, VerbsInv, Rooted
<1>5. SameVerbs
  <2>1. ASSUME NEW u \in DOMAIN verb
        PROVE  verb'[u].names = verb[u].names /\ (verb'[u].exec <=> verb[u].exec)
    <3>1. verb[u] \in [names : Names, exec : BOOLEAN, program : Programs]
      BY DEF Inv, VerbsInv
    <3>. QED BY <1>1, <3>1
  <2>. QED BY <1>3, <2>1 DEF SameVerbs
<1>6. PICK T : T = DOMAIN parent
  OBVIOUS
<1>7. \A x \in T : \A name : /\ Has(x, name)' <=> Has(x, name)
                             /\ Found(x, name)' = Found(x, name)
  BY <1>1, <1>5, <1>6, SameHits DEF Inv, VerbsInv
<1>8. Alike(T)
  <2>1. \A x \in T : parent[x] \in T \cup {NOTHING}
    BY <1>6 DEF Inv, HierarchyInv, Rooted, Ranked
  <2>. QED BY <1>1, <1>6, <1>7, <2>1 DEF Alike
<1>9. CacheInv'
  BY <1>1, <1>4, <1>6, <1>8, CacheKept DEF Inv, HierarchyInv
<1>. QED BY <1>4, <1>9 DEF Inv

LEMMA InvInit ==
  Init => Inv
<1>. SUFFICES ASSUME Init PROVE Inv
  OBVIOUS
<1>1. Obj \subseteq Nat /\ Obj # {}
  BY VerbsAssumption
<1>2. Min(Obj) \in Obj
  <2>1. \E x \in Obj : \A y \in Obj : x <= y
    BY <1>1, LeastElement
  <2>. QED BY <2>1 DEF Min
<1>3. PICK o \in Obj : o = Min(Obj)
  BY <1>2
<1>4. /\ parent = [x \in {o} |-> NOTHING] /\ verbdefs = [x \in {o} |-> <<>>]
      /\ verb = <<>> /\ vc_table = NULL
  BY <1>3 DEF Init
<1>5. Rooted
  <2>1. Ranked(parent, [x \in {o} |-> 0], 0)
    <3>1. o # NOTHING
      BY <1>1 DEF NOTHING
    <3>. QED BY <1>4, <3>1 DEF Ranked
  <2>. QED BY <2>1 DEF Rooted
<1>6. HierarchyInv
  BY <1>4, <1>5 DEF HierarchyInv
<1>7. VerbsInv
  <2>1. DOMAIN verb = {} /\ verb \in [{} -> [names : Names, exec : BOOLEAN, program : Programs]]
    BY <1>4
  <2>2. \A x \in DOMAIN parent : verbdefs[x] = <<>>
    BY <1>4
  <2>3. \A x \in DOMAIN parent : verbdefs[x] \in Seq(DOMAIN verb) /\ DOMAIN verbdefs[x] = {}
    <3>1. <<>> \in Seq(DOMAIN verb) /\ DOMAIN <<>> = {}
      OBVIOUS
    <3>. QED BY <2>2, <3>1, Zenon
  <2>. QED BY <2>1, <2>3 DEF VerbsInv
<1>8. CacheInv
  BY <1>4 DEF CacheInv
<1>. QED BY <1>6, <1>7, <1>8 DEF Inv

LEMMA InvNext ==
  Inv /\ [Next]_vars => Inv'
<1>. SUFFICES ASSUME Inv, [Next]_vars PROVE Inv'
  OBVIOUS
<1>1. ASSUME NEW o \in Obj, NEW p \in Obj \cup {NOTHING},
             db_create_object(o, p) \/ db_change_parent(o, p)
      PROVE  Inv'
  BY <1>1, CreateKeeps, ChangeParentKeeps
<1>2. ASSUME NEW o \in Obj, db_destroy_object(o) \/ db_renumber_object(o) PROVE Inv'
  BY <1>2, DestroyKeeps, RenumberKeeps
<1>3. ASSUME NEW o \in Obj, NEW names \in Names, NEW x \in BOOLEAN,
             \/ db_add_verb(o, names, x)
             \/ \E i \in 1..Cardinality(Verbdef) : bf_set_verb_info(o, i, names, x)
      PROVE  Inv'
  BY <1>3, AddVerbKeeps, SetInfoKeeps
<1>4. ASSUME NEW o \in Obj, NEW i \in 1..Cardinality(Verbdef),
             db_delete_verb(o, i) \/ bf_set_verb_args(o, i) \/ bf_set_verb_code(o, i)
      PROVE  Inv'
  <2>1. CASE db_delete_verb(o, i)
    BY <2>1, DeleteVerbKeeps
  <2>2. CASE bf_set_verb_args(o, i)
    <3>1. UNCHANGED <<parent, verbdefs, verb>> /\ affected_callable_verb_lookup
      BY <2>2 DEF bf_set_verb_args
    <3>2. HierarchyInv' /\ VerbsInv'
      BY <3>1 DEF Inv, HierarchyInv, VerbsInv, Rooted
    <3>. QED BY <3>1, <3>2, CacheEmptied DEF Inv
  <2>3. CASE bf_set_verb_code(o, i)
    BY <2>3, SetProgramKeeps DEF bf_set_verb_code
  <2>. QED BY <1>4, <2>1, <2>2, <2>3
<1>5. ASSUME NEW o \in Obj, NEW name \in Name, start_programming(o, name) PROVE Inv'
  BY <1>5, OthersKeep DEF start_programming
<1>6. ASSUME end_programming PROVE Inv'
  BY <1>6, OthersKeep, SetProgramKeeps DEF end_programming
<1>7. ASSUME NEW t \in Task, NEW o \in Obj, NEW name \in Name,
             call_verb2(t, o, name) \/ run_server_task(t, o, name)
      PROVE  Inv'
  BY <1>7, CallKeeps DEF call_verb2, run_server_task, valid
<1>8. ASSUME NEW t \in Task, NEW name \in Name, bf_pass(t, name) PROVE Inv'
  <2>1. PICK w : w \in DOMAIN parent /\ Call(t, w, name)
    BY <1>8 DEF bf_pass, valid
  <2>. QED BY <2>1, CallKeeps
<1>9. ASSUME NEW t \in Task,
             \/ bf_eval(t) \/ free_activation(t)
             \/ do_forked_task(t) \/ free_task(t) \/ free_vm(t)
      PROVE  Inv'
  BY <1>9, OthersKeep
     DEF bf_eval, free_activation, do_forked_task, free_task, free_vm
<1>10. ASSUME NEW t \in Task, NEW u \in Task, enqueue_forked_task2(t, u) PROVE Inv'
  BY <1>10, OthersKeep DEF enqueue_forked_task2
<1>11. CASE UNCHANGED vars
  BY <1>11, OthersKeep DEF vars
<1>. QED BY <1>1, <1>2, <1>3, <1>4, <1>5, <1>6, <1>7, <1>8, <1>9, <1>10, <1>11 DEF Next

\* db_find_callable_verb() answers what a search without the cache would: for
\* any hierarchy, verbs and names, and whatever create(), chparent(),
\* recycle(), renumber() and the changes to verbs do between two calls, no
\* entry of the cache is stale and none answers for the wrong object.
THEOREM CacheStaysTransparent ==
  Spec => []CacheIsTransparent
<1>1. Init => Inv
  BY InvInit
<1>2. Inv /\ [Next]_vars => Inv'
  BY InvNext
<1>3. Inv => CacheIsTransparent
  BY InvTransparent
<1>. QED BY <1>1, <1>2, <1>3, PTL DEF Spec

-----------------------------------------------------------------------------
(* Counting                                                                *)

One(b) == IF b THEN 1 ELSE 0

\* Two sets that differ at most in x.
LEMMA OneChange ==
  ASSUME NEW S, NEW T, NEW x, IsFiniteSet(S), S \ {x} = T \ {x}
  PROVE  /\ IsFiniteSet(T)
         /\ Cardinality(T) = Cardinality(S) - One(x \in S) + One(x \in T)
<1>1. PICK R : R = S \ {x} /\ R = T \ {x} /\ x \notin R
  OBVIOUS
<1>2. IsFiniteSet(R) /\ Cardinality(R) = IF x \in S THEN Cardinality(S) - 1 ELSE Cardinality(S)
  BY <1>1, FS_RemoveElement
<1>3. IsFiniteSet(R \cup {x}) /\ Cardinality(R \cup {x}) = Cardinality(R) + 1
  BY <1>1, <1>2, FS_AddElement
<1>4. Cardinality(S) \in Nat /\ Cardinality(R) \in Nat
  BY <1>2, FS_CardinalityType
<1>5. CASE x \in T
  <2>1. T = R \cup {x}
    BY <1>1, <1>5
  <2>. QED BY <1>2, <1>3, <1>4, <1>5, <2>1 DEF One
<1>6. CASE x \notin T
  <2>1. T = R
    BY <1>1, <1>6
  <2>. QED BY <1>2, <1>4, <1>6, <2>1 DEF One
<1>. QED BY <1>5, <1>6

\* T is S without as many elements as f has arguments.
Loses(S, T, D, f) ==
  /\ f \in [D -> S]
  /\ \A i, j \in D : f[i] = f[j] => i = j
  /\ \A u : u \in T <=> u \in S /\ \A i \in D : u # f[i]

LEMMA LoseImage ==
  ASSUME NEW S, NEW T, NEW D, NEW f, IsFiniteSet(S), Loses(S, T, D, f)
  PROVE  /\ IsFiniteSet(T) /\ IsFiniteSet(D)
         /\ Cardinality(T) = Cardinality(S) - Cardinality(D)
<1>0. {f[i] : i \in D} \subseteq S
  BY DEF Loses
<1>1. PICK R : R = {f[i] : i \in D} /\ R \subseteq S
  BY <1>0, Zenon
<1>2. IsFiniteSet(R)
  BY <1>1, FS_Subset
<1>3. f \in Bijection(D, R)
  BY <1>1 DEF Loses, Bijection, Injection, Surjection, IsInjective
<1>4. IsFiniteSet(D) /\ Cardinality(D) = Cardinality(R)
  <2>1. f \in Injection(D, R) /\ f \in Surjection(D, R)
    BY <1>3 DEF Bijection
  <2>. QED BY <1>2, <2>1, FS_Injection
<1>5. S \cap R = R
  BY <1>1
<1>6. IsFiniteSet(S \ R) /\ Cardinality(S \ R) = Cardinality(S) - Cardinality(S \cap R)
  BY <1>2, FS_Difference
<1>7. T = S \ R
  BY <1>1 DEF Loses
<1>. QED BY <1>4, <1>5, <1>6, <1>7

LEMMA CountNone ==
  ASSUME NEW p
  PROVE  Count(<<>>, p) = 0
<1>1. {i \in DOMAIN <<>> : <<>>[i] = p} = {}
  OBVIOUS
<1>. QED BY <1>1, FS_EmptySet DEF Count, Quantify

LEMMA CountOne ==
  ASSUME NEW q, NEW p
  PROVE  Count(<<q>>, p) = One(q = p)
<1>1. PICK S : S = {i \in DOMAIN <<q>> : <<q>>[i] = p}
  OBVIOUS
<1>2. S = IF q = p THEN {1} ELSE {}
  BY <1>1
<1>3. Cardinality(S) = One(q = p)
  BY <1>2, FS_EmptySet, FS_Singleton DEF One
<1>. QED BY <1>1, <1>3 DEF Count, Quantify

-----------------------------------------------------------------------------
(* The invariant                                                           *)

VerbHolders(p) == {v \in DOMAIN verb : p # null_program /\ verb[v].program = p}

FrameHolders(p) ==
  {x \in Task \X (1..MaxFrames) :
     x[2] \in DOMAIN stack[x[1]] /\ stack[x[1]][x[2]].prog = p}

ForkHolders(p) == {t \in Task : forked[t] # NULL /\ forked[t].a.prog = p}

\* The sets of holders are finite, and the count is right.
Held(p) ==
  /\ IsFiniteSet(VerbHolders(p)) /\ IsFiniteSet(FrameHolders(p))
  /\ IsFiniteSet(ForkHolders(p))
  /\ ref_count[p] = Cardinality(VerbHolders(p)) + Cardinality(FrameHolders(p))
                    + Cardinality(ForkHolders(p)) + One(p = null_program)

\* A forked task that has not started has no activations: else they would be
\* lost when it does.
TasksInv ==
  /\ stack \in [Task -> Seq(Activ)]
  /\ \A t \in Task : Len(stack[t]) <= MaxFrames
  /\ forked \in [Task -> Forked \cup {NULL}]
  /\ \A t \in Task : forked[t] # NULL /\ ~forked[t].started => stack[t] = <<>>

HeldInv == TasksInv /\ \A p \in Programs : Held(p)

LEMMA HeldProves ==
  HeldInv => ProgramsAreHeld
BY DEF HeldInv, Held, VerbHolders, FrameHolders, ForkHolders, ProgramsAreHeld, Quantify, One

\* What a step has to show of a program: the holders it loses and gets.
LEMMA HeldChange ==
  ASSUME NEW p, Held(p), NEW gone \in Int, NEW new \in Int,
         ref_count'[p] = ref_count[p] - gone + new,
         IsFiniteSet(VerbHolders(p))', IsFiniteSet(FrameHolders(p))',
         IsFiniteSet(ForkHolders(p))',
         Cardinality(VerbHolders(p))' + Cardinality(FrameHolders(p))'
           + Cardinality(ForkHolders(p))'
         = Cardinality(VerbHolders(p)) + Cardinality(FrameHolders(p))
           + Cardinality(ForkHolders(p)) - gone + new
  PROVE  Held(p)'
<1>1. /\ Cardinality(VerbHolders(p)) \in Nat /\ Cardinality(FrameHolders(p)) \in Nat
      /\ Cardinality(ForkHolders(p)) \in Nat
  BY FS_CardinalityType DEF Held
<1>2. /\ Cardinality(VerbHolders(p))' \in Nat /\ Cardinality(FrameHolders(p))' \in Nat
      /\ Cardinality(ForkHolders(p))' \in Nat
  BY FS_CardinalityType
<1>. QED BY <1>1, <1>2 DEF Held, One

LEMMA VerbsChange ==
  ASSUME NEW p, Held(p), NEW gone \in Int, NEW new \in Int,
         ref_count'[p] = ref_count[p] - gone + new, UNCHANGED <<stack, forked>>,
         IsFiniteSet(VerbHolders(p))',
         Cardinality(VerbHolders(p))' = Cardinality(VerbHolders(p)) - gone + new
  PROVE  Held(p)'
<1>1. FrameHolders(p)' = FrameHolders(p) /\ ForkHolders(p)' = ForkHolders(p)
  BY DEF FrameHolders, ForkHolders
<1>2. IsFiniteSet(FrameHolders(p)) /\ IsFiniteSet(ForkHolders(p)) /\ IsFiniteSet(VerbHolders(p))
  BY DEF Held
<1>3. /\ Cardinality(VerbHolders(p)) \in Nat /\ Cardinality(FrameHolders(p)) \in Nat
      /\ Cardinality(ForkHolders(p)) \in Nat
  BY <1>2, FS_CardinalityType
<1>4. Cardinality(VerbHolders(p))' + Cardinality(FrameHolders(p))'
        + Cardinality(ForkHolders(p))'
      = Cardinality(VerbHolders(p)) + Cardinality(FrameHolders(p))
        + Cardinality(ForkHolders(p)) - gone + new
  BY <1>1, <1>3
<1>5. IsFiniteSet(VerbHolders(p))' /\ IsFiniteSet(FrameHolders(p))' /\ IsFiniteSet(ForkHolders(p))'
  BY <1>1, <1>2
<1>. QED BY <1>4, <1>5, HeldChange

LEMMA FramesChange ==
  ASSUME NEW p, Held(p), NEW gone \in Int, NEW new \in Int,
         ref_count'[p] = ref_count[p] - gone + new, UNCHANGED verb,
         ForkHolders(p)' = ForkHolders(p),
         IsFiniteSet(FrameHolders(p))',
         Cardinality(FrameHolders(p))' = Cardinality(FrameHolders(p)) - gone + new
  PROVE  Held(p)'
<1>1. VerbHolders(p)' = VerbHolders(p)
  BY DEF VerbHolders
<1>2. IsFiniteSet(FrameHolders(p)) /\ IsFiniteSet(ForkHolders(p)) /\ IsFiniteSet(VerbHolders(p))
  BY DEF Held
<1>3. /\ Cardinality(VerbHolders(p)) \in Nat /\ Cardinality(FrameHolders(p)) \in Nat
      /\ Cardinality(ForkHolders(p)) \in Nat
  BY <1>2, FS_CardinalityType
<1>4. Cardinality(VerbHolders(p))' + Cardinality(FrameHolders(p))'
        + Cardinality(ForkHolders(p))'
      = Cardinality(VerbHolders(p)) + Cardinality(FrameHolders(p))
        + Cardinality(ForkHolders(p)) - gone + new
  BY <1>1, <1>3
<1>5. IsFiniteSet(VerbHolders(p))' /\ IsFiniteSet(FrameHolders(p))' /\ IsFiniteSet(ForkHolders(p))'
  BY <1>1, <1>2
<1>. QED BY <1>4, <1>5, HeldChange

LEMMA ForksChange ==
  ASSUME NEW p, Held(p), NEW gone \in Int, NEW new \in Int,
         ref_count'[p] = ref_count[p] - gone + new, UNCHANGED <<verb, stack>>,
         IsFiniteSet(ForkHolders(p))',
         Cardinality(ForkHolders(p))' = Cardinality(ForkHolders(p)) - gone + new
  PROVE  Held(p)'
<1>1. VerbHolders(p)' = VerbHolders(p) /\ FrameHolders(p)' = FrameHolders(p)
  BY DEF VerbHolders, FrameHolders
<1>2. IsFiniteSet(FrameHolders(p)) /\ IsFiniteSet(ForkHolders(p)) /\ IsFiniteSet(VerbHolders(p))
  BY DEF Held
<1>3. /\ Cardinality(VerbHolders(p)) \in Nat /\ Cardinality(FrameHolders(p)) \in Nat
      /\ Cardinality(ForkHolders(p)) \in Nat
  BY <1>2, FS_CardinalityType
<1>4. Cardinality(VerbHolders(p))' + Cardinality(FrameHolders(p))'
        + Cardinality(ForkHolders(p))'
      = Cardinality(VerbHolders(p)) + Cardinality(FrameHolders(p))
        + Cardinality(ForkHolders(p)) - gone + new
  BY <1>1, <1>3
<1>5. IsFiniteSet(VerbHolders(p))' /\ IsFiniteSet(FrameHolders(p))' /\ IsFiniteSet(ForkHolders(p))'
  BY <1>1, <1>2
<1>. QED BY <1>4, <1>5, HeldChange

-----------------------------------------------------------------------------
(* The verbs                                                               *)

LEMMA TasksSame ==
  ASSUME TasksInv, UNCHANGED <<stack, forked>>
  PROVE  TasksInv'
BY DEF TasksInv

\* Objects and verbs change, and no verb gets another program or goes with one.
LEMMA SameHolders ==
  ASSUME HeldInv, UNCHANGED <<ref_count, stack, forked>>,
         \A p \in Programs : VerbHolders(p)' = VerbHolders(p)
  PROVE  HeldInv'
<1>1. TasksInv'
  BY TasksSame DEF HeldInv
<1>2. ASSUME NEW p \in Programs PROVE Held(p)'
  <2>1. FrameHolders(p)' = FrameHolders(p) /\ ForkHolders(p)' = ForkHolders(p)
    BY DEF FrameHolders, ForkHolders
  <2>. QED BY <2>1 DEF HeldInv, Held
<1>. QED BY <1>1, <1>2 DEF HeldInv

LEMMA CountVerb ==
  ASSUME NEW v, NEW p
  PROVE  Count(ProgramsOf(<<v>>), p) = One(p # null_program /\ verb[v].program = p)
<1>1. PICK f : f = ProgramsOf(<<v>>)
  OBVIOUS
<1>2. DOMAIN f = {j \in {1} : verb[v].program # null_program}
  BY <1>1 DEF ProgramsOf
<1>3. \A i \in DOMAIN f : f[i] = verb[v].program
  BY <1>1 DEF ProgramsOf
<1>4. PICK S : S = {i \in DOMAIN f : f[i] = p}
  OBVIOUS
<1>5. S = IF p # null_program /\ verb[v].program = p THEN {1} ELSE {}
  BY <1>2, <1>3, <1>4
<1>6. Cardinality(S) = One(p # null_program /\ verb[v].program = p)
  BY <1>5, FS_EmptySet, FS_Singleton DEF One
<1>. QED BY <1>1, <1>4, <1>6 DEF Count, Quantify

LEMMA DeleteHolds ==
  ASSUME HeldInv, Inv, NEW o, NEW i, db_delete_verb(o, i)
  PROVE  HeldInv'
<1>1. PICK v : /\ v \in DOMAIN verb /\ verb' = [u \in DOMAIN verb \ {v} |-> verb[u]]
               /\ Refs(ProgramsOf(<<v>>), <<>>) /\ UNCHANGED <<stack, forked>>
  <2>1. verbdefs[o] \in Seq(DOMAIN verb) /\ i \in DOMAIN verbdefs[o]
    BY DEF db_delete_verb, valid, Inv, VerbsInv
  <2>2. verbdefs[o][i] \in DOMAIN verb
    BY <2>1
  <2>. QED BY <2>2 DEF db_delete_verb, Restrict
<1>2. ASSUME NEW p \in Programs PROVE Held(p)'
  <2>1. PICK gone : gone = One(p # null_program /\ verb[v].program = p) /\ gone \in Int
    BY DEF One
  <2>2. ref_count'[p] = ref_count[p] - gone + 0
    BY <1>1, <2>1, CountVerb, CountNone DEF Refs
  <2>3. Held(p) /\ IsFiniteSet(VerbHolders(p))
    BY DEF HeldInv, Held
  <2>4. VerbHolders(p)' = VerbHolders(p) \ {v}
    BY <1>1 DEF VerbHolders
  <2>5. v \in VerbHolders(p) <=> p # null_program /\ verb[v].program = p
    BY <1>1 DEF VerbHolders
  <2>6. /\ IsFiniteSet(VerbHolders(p))'
        /\ Cardinality(VerbHolders(p))' = Cardinality(VerbHolders(p)) - gone + 0
    <3>1. Cardinality(VerbHolders(p)) \in Nat
      BY <2>3, FS_CardinalityType
    <3>. QED BY <2>1, <2>3, <2>4, <2>5, <3>1, FS_RemoveElement DEF One
  <2>. QED BY <1>1, <2>1, <2>2, <2>3, <2>6, VerbsChange
<1>. QED BY <1>1, <1>2, TasksSame DEF HeldInv

LEMMA SetProgramHolds ==
  ASSUME HeldInv, NEW v \in DOMAIN verb, db_set_verb_program(v), Inv
  PROVE  HeldInv'
<1>1. PICK q \in Program : /\ verb' = [verb EXCEPT ![v].program = q]
                           /\ Refs(ProgramsOf(<<v>>), <<q>>) /\ UNCHANGED <<stack, forked>>
  BY DEF db_set_verb_program
<1>2. /\ DOMAIN verb' = DOMAIN verb /\ verb'[v].program = q /\ q # null_program
      /\ \A u \in DOMAIN verb : u # v => verb'[u] = verb[u]
  <2>1. verb[v] \in [names : Names, exec : BOOLEAN, program : Programs]
    BY DEF Inv, VerbsInv
  <2>2. q # null_program
    BY VerbsAssumption
  <2>. QED BY <1>1, <2>1, <2>2
<1>3. ASSUME NEW p \in Programs PROVE Held(p)'
  <2>1. PICK gone, new : /\ gone = One(p # null_program /\ verb[v].program = p) /\ gone \in Int
                         /\ new = One(q = p) /\ new \in Int
    BY DEF One
  <2>2. ref_count'[p] = ref_count[p] - gone + new
    BY <1>1, <2>1, CountVerb, CountOne DEF Refs
  <2>3. Held(p) /\ IsFiniteSet(VerbHolders(p))
    BY DEF HeldInv, Held
  <2>4. PICK S, T : S = VerbHolders(p) /\ T = VerbHolders(p)'
    OBVIOUS
  <2>5. S \ {v} = T \ {v}
    BY <1>2, <2>4 DEF VerbHolders
  <2>6. /\ v \in S <=> p # null_program /\ verb[v].program = p
        /\ v \in T <=> q = p
    BY <1>2, <2>4 DEF VerbHolders
  <2>7. gone = One(v \in S) /\ new = One(v \in T)
    BY <2>1, <2>6 DEF One
  <2>8. IsFiniteSet(T) /\ Cardinality(T) = Cardinality(S) - gone + new
    BY <2>3, <2>4, <2>5, <2>7, OneChange
  <2>. QED BY <1>1, <2>1, <2>2, <2>3, <2>4, <2>8, VerbsChange
<1>. QED BY <1>1, <1>3, TasksSame DEF HeldInv

\* recycle(): each Verbdef of the object is in its list once, so as many
\* references go as holders.
LEMMA DestroyHolds ==
  ASSUME HeldInv, Inv, NEW o, db_destroy_object(o)
  PROVE  HeldInv'
<1>1. PICK vs \in Seq(DOMAIN verb) :
        /\ vs = verbdefs[o] /\ o \in DOMAIN parent
        /\ verb' = [u \in DOMAIN verb \ {vs[i] : i \in DOMAIN vs} |-> verb[u]]
        /\ Refs(ProgramsOf(vs), <<>>) /\ UNCHANGED <<stack, forked>>
  BY DEF db_destroy_object, valid, Restrict, ToSet, Inv, VerbsInv
<1>2. \A i, j \in DOMAIN vs : vs[i] = vs[j] => i = j
  BY <1>1, OnePlace DEF Inv
<1>3. ASSUME NEW p \in Programs PROVE Held(p)'
  <2>1. PICK f : f = ProgramsOf(vs)
    OBVIOUS
  <2>2. PICK D : D = {i \in DOMAIN f : f[i] = p}
    OBVIOUS
  <2>3. D = {i \in DOMAIN vs : p # null_program /\ verb[vs[i]].program = p}
    <3>1. /\ DOMAIN f = {j \in DOMAIN vs : verb[vs[j]].program # null_program}
          /\ \A i \in DOMAIN f : f[i] = verb[vs[i]].program
      BY <2>1 DEF ProgramsOf
    <3>. QED BY <2>2, <3>1
  <2>4. PICK g : g = [i \in D |-> vs[i]]
    OBVIOUS
  <2>5. PICK S, T : S = VerbHolders(p) /\ T = VerbHolders(p)'
    OBVIOUS
  <2>6. \A i \in DOMAIN vs : vs[i] \in DOMAIN verb
    OBVIOUS
  <2>7. g \in [D -> S] /\ \A i, j \in D : g[i] = g[j] => i = j
    BY <1>2, <2>3, <2>4, <2>5, <2>6 DEF VerbHolders
  <2>8. \A u : u \in T <=> u \in S /\ \A i \in D : u # g[i]
    <3>1. DOMAIN verb' = DOMAIN verb \ {vs[i] : i \in DOMAIN vs}
          /\ \A u \in DOMAIN verb' : verb'[u] = verb[u]
      BY <1>1
    <3>2. T = {u \in S : u \notin {vs[i] : i \in DOMAIN vs}}
      BY <2>5, <3>1 DEF VerbHolders
    <3>3. \A u \in S : u \in {vs[i] : i \in DOMAIN vs} <=> \E i \in D : u = g[i]
      BY <2>3, <2>4, <2>5 DEF VerbHolders
    <3>. QED BY <3>2, <3>3
  <2>9. Held(p) /\ IsFiniteSet(S)
    BY <2>5 DEF HeldInv, Held
  <2>10. /\ IsFiniteSet(T) /\ IsFiniteSet(D)
         /\ Cardinality(T) = Cardinality(S) - Cardinality(D)
    <3>1. Loses(S, T, D, g)
      BY <2>7, <2>8, Zenon DEF Loses
    <3>. QED BY <2>9, <3>1, LoseImage
  <2>11. PICK gone \in Int : gone = Cardinality(D)
    BY <2>10, FS_CardinalityType
  <2>12. Cardinality(T) = Cardinality(S) - gone + 0
    BY <2>9, <2>10, <2>11, FS_CardinalityType
  <2>13. Count(f, p) = gone
    BY <2>2, <2>11 DEF Count, Quantify
  <2>14. ref_count'[p] = ref_count[p] - gone + 0
    BY <1>1, <2>1, <2>13, CountNone DEF Refs
  <2>15. /\ IsFiniteSet(VerbHolders(p))'
         /\ Cardinality(VerbHolders(p))' = Cardinality(VerbHolders(p)) - gone + 0
    BY <2>5, <2>10, <2>12
  <2>. QED BY <1>1, <2>9, <2>11, <2>14, <2>15, VerbsChange
<1>. QED BY <1>1, <1>3, TasksSame DEF HeldInv

-----------------------------------------------------------------------------
(* The tasks                                                               *)

\* One activation more.
LEMMA PushFrame ==
  ASSUME TasksInv, NEW t \in Task, NEW act \in Activ, Len(stack[t]) < MaxFrames,
         stack' = [stack EXCEPT ![t] = Append(@, act)]
  PROVE  /\ stack' \in [Task -> Seq(Activ)]
         /\ \A u \in Task : Len(stack'[u]) <= MaxFrames
         /\ \A u \in Task : u # t => stack'[u] = stack[u]
         /\ stack'[t] # <<>>
         /\ \A p : IsFiniteSet(FrameHolders(p)) =>
              /\ IsFiniteSet(FrameHolders(p)')
              /\ Cardinality(FrameHolders(p)') = Cardinality(FrameHolders(p)) - 0 + One(act.prog = p)
<1>1. PICK s \in Seq(Activ), n \in Nat : s = stack[t] /\ n = Len(s) /\ DOMAIN s = 1..n
  BY DEF TasksInv
<1>2. PICK r \in Seq(Activ) : r = Append(s, act)
  <2>1. Append(s, act) \in Seq(Activ)
    BY <1>1
  <2>. QED BY <2>1, Zenon
<1>3. /\ Len(r) = n + 1 /\ DOMAIN r = 1..(n + 1) /\ r[n + 1] = act
      /\ \A i \in 1..n : r[i] = s[i]
  BY <1>1, <1>2
<1>4. /\ stack' \in [Task -> Seq(Activ)] /\ stack'[t] = r
      /\ \A u \in Task : u # t => stack'[u] = stack[u]
  BY <1>1, <1>2 DEF TasksInv
<1>5. \A u \in Task : Len(stack'[u]) <= MaxFrames
  <2>1. Len(r) <= MaxFrames
    BY <1>1, <1>3, VerbsAssumption
  <2>. QED BY <1>4, <2>1 DEF TasksInv
<1>6. stack'[t] # <<>>
  BY <1>3, <1>4
<1>7. ASSUME NEW p, IsFiniteSet(FrameHolders(p))
      PROVE  /\ IsFiniteSet(FrameHolders(p)')
             /\ Cardinality(FrameHolders(p)') = Cardinality(FrameHolders(p)) - 0 + One(act.prog = p)
  <2>1. PICK S, T : S = FrameHolders(p) /\ T = FrameHolders(p)'
    OBVIOUS
  <2>2. PICK x : x = <<t, n + 1>> /\ x \in Task \X (1..MaxFrames)
    <3>1. n + 1 \in 1..MaxFrames
      BY <1>1, VerbsAssumption
    <3>2. <<t, n + 1>> \in Task \X (1..MaxFrames)
      BY <3>1
    <3>. QED BY <3>2, Zenon
  <2>3. x \notin S /\ (x \in T <=> act.prog = p)
    <3>1. n + 1 \notin DOMAIN s /\ n + 1 \in DOMAIN r
      BY <1>1, <1>3
    <3>. QED BY <1>1, <1>3, <1>4, <2>1, <2>2, <3>1 DEF FrameHolders
  <2>4. ASSUME NEW u \in Task, NEW i \in 1..MaxFrames, <<u, i>> # x
        PROVE  <<u, i>> \in S <=> <<u, i>> \in T
    <3>1. CASE u # t
      BY <1>4, <2>1, <3>1 DEF FrameHolders
    <3>2. CASE u = t
      <4>1. i # n + 1
        BY <2>2, <2>4, <3>2
      <4>2. i \in DOMAIN s <=> i \in DOMAIN r
        BY <1>1, <1>3, <4>1
      <4>3. i \in DOMAIN s => r[i] = s[i]
        BY <1>1, <1>3
      <4>. QED BY <1>1, <1>4, <2>1, <3>2, <4>2, <4>3 DEF FrameHolders
    <3>. QED BY <3>1, <3>2
  <2>5. S \ {x} = T \ {x}
    <3>1. S \subseteq Task \X (1..MaxFrames) /\ T \subseteq Task \X (1..MaxFrames)
      BY <2>1 DEF FrameHolders
    <3>. QED BY <2>4, <3>1
  <2>6. One(x \in S) = 0 /\ One(x \in T) = One(act.prog = p)
    BY <2>3 DEF One
  <2>. QED BY <1>7, <2>1, <2>5, <2>6, OneChange
<1>. QED BY <1>4, <1>5, <1>6, <1>7

\* A verb that is found is one of a valid object, and has a program.
LEMMA AnswerIs ==
  ASSUME Inv, NEW o \in DOMAIN parent, NEW name \in Name, Answer(o, name) # NULL
  PROVE  /\ Answer(o, name).definer \in Obj
         /\ verb[Answer(o, name).verbdef].program \in Programs
<1>1. PICK height, top : Ranked(parent, height, top)
  BY DEF Inv, HierarchyInv, Rooted
<1>2. PICK up \in Seq(DOMAIN parent) : up = Ancestors(parent, o)
  BY <1>1, AncestorsAre
<1>3. PICK I : I = {i \in 1..Len(up) : Has(up[i], name)}
  OBVIOUS
<1>4. SearchAt(o, name) = Least(I)
  BY <1>2, <1>3 DEF SearchAt
<1>5. Answer(o, name) = SearchUp(o, name)
  BY InvTransparent DEF CacheIsTransparent
<1>6. Least(I) # 0 /\ Answer(o, name) = Found(up[Least(I)], name)
  BY <1>2, <1>4, <1>5, SearchIs
<1>7. Least(I) \in I
  <2>1. Len(up) \in Nat /\ I \subseteq 1..Len(up)
    BY <1>3
  <2>. QED BY <1>6, <2>1, LeastIs
<1>8. PICK x \in DOMAIN parent : x = up[Least(I)] /\ Has(x, name)
  <2>1. Least(I) \in 1..Len(up) /\ Has(up[Least(I)], name)
    BY <1>3, <1>7
  <2>2. up[Least(I)] \in DOMAIN parent
    BY <2>1
  <2>. QED BY <2>1, <2>2, Zenon
<1>9. PICK vs \in Seq(DOMAIN verb) : vs = verbdefs[x]
  BY DEF Inv, VerbsInv
<1>10. PICK at \in 1..Len(vs) : at = Least(Matches(x, name))
  <2>1. Matches(x, name) \subseteq 1..Len(vs) /\ Len(vs) \in Nat /\ DOMAIN vs = 1..Len(vs)
    BY <1>9 DEF Matches
  <2>2. Matches(x, name) # {}
    BY <1>8, <1>9, <2>1 DEF Has, Matches
  <2>3. Least(Matches(x, name)) \in Matches(x, name)
    BY <2>1, <2>2, LeastIs
  <2>. QED BY <2>1, <2>3
<1>11. Answer(o, name) = [definer |-> x, verbdef |-> vs[at]]
  BY <1>6, <1>8, <1>9, <1>10, FoundIs
<1>12. vs[at] \in DOMAIN verb /\ x \in Obj
  BY DEF Inv, HierarchyInv
<1>13. verb[vs[at]] \in [names : Names, exec : BOOLEAN, program : Programs]
  BY <1>12 DEF Inv, VerbsInv
<1>. QED BY <1>11, <1>12, <1>13

\* A verb call, or eval().
LEMMA PushHolds ==
  ASSUME HeldInv, NEW t \in Task, NEW act \in Activ, Len(stack[t]) < MaxFrames,
         stack[t] # <<>> \/ forked[t] = NULL,
         stack' = [stack EXCEPT ![t] = Append(@, act)],
         Refs(<<>>, <<act.prog>>), UNCHANGED <<verb, forked>>
  PROVE  HeldInv'
<1>1. TasksInv
  BY DEF HeldInv
<1>2. TasksInv'
  <2>1. stack' \in [Task -> Seq(Activ)] /\ \A u \in Task : Len(stack'[u]) <= MaxFrames
    BY <1>1, PushFrame
  <2>2. \A u \in Task : u # t => stack'[u] = stack[u]
    BY <1>1, PushFrame
  <2>3. \A u \in Task : forked'[u] # NULL /\ ~forked'[u].started => stack'[u] = <<>>
    BY <1>1, <2>2 DEF TasksInv
  <2>. QED BY <1>1, <2>1, <2>3 DEF TasksInv
<1>3. ASSUME NEW p \in Programs PROVE Held(p)'
  <2>1. PICK new \in Int : new = One(act.prog = p)
    BY DEF One
  <2>2. Held(p) /\ IsFiniteSet(FrameHolders(p))
    BY DEF HeldInv, Held
  <2>3. /\ IsFiniteSet(FrameHolders(p)')
        /\ Cardinality(FrameHolders(p)') = Cardinality(FrameHolders(p)) - 0 + new
    BY <1>1, <2>1, <2>2, PushFrame, ZenonT(40)
  <2>4. ref_count'[p] = ref_count[p] - 0 + new
    BY <2>1, CountNone, CountOne DEF Refs
  <2>5. ForkHolders(p)' = ForkHolders(p)
    BY DEF ForkHolders
  <2>6. 0 \in Int
    OBVIOUS
  <2>. QED BY <2>1, <2>2, <2>3, <2>4, <2>5, <2>6, FramesChange, Zenon
<1>. QED BY <1>2, <1>3 DEF HeldInv

LEMMA CallHolds ==
  ASSUME HeldInv, Inv, NEW t \in Task, NEW where \in DOMAIN parent, NEW name \in Name,
         Call(t, where, name), stack[t] # <<>> \/ forked[t] = NULL
  PROVE  HeldInv'
<1>1. PICK h : h = Answer(where, name)
  OBVIOUS
<1>2. CASE h = NULL \/ Len(stack[t]) = MaxFrames
  <2>1. UNCHANGED <<ref_count, stack, forked, verb>>
    BY <1>1, <1>2 DEF Call
  <2>. QED BY <2>1, SameHolders DEF VerbHolders
<1>3. CASE ~(h = NULL \/ Len(stack[t]) = MaxFrames)
  <2>1. PICK q \in Programs : q = verb[h.verbdef].program
    BY <1>1, <1>3, AnswerIs
  <2>2. PICK act \in Activ : act = [vloc |-> h.definer, prog |-> q]
    <3>1. h.definer \in Obj
      BY <1>1, <1>3, AnswerIs
    <3>. QED BY <3>1 DEF Activ
  <2>3. /\ Refs(<<>>, <<q>>) /\ UNCHANGED <<verb, forked>>
        /\ stack' = [stack EXCEPT ![t] = Append(@, act)]
    BY <1>1, <1>3, <2>1, <2>2 DEF Call
  <2>4. act.prog = q
    BY <2>2
  <2>5. Len(stack[t]) < MaxFrames
    <3>1. Len(stack[t]) \in Nat /\ Len(stack[t]) <= MaxFrames
      BY DEF HeldInv, TasksInv
    <3>. QED BY <1>3, <3>1, VerbsAssumption
  <2>. QED BY <2>3, <2>4, <2>5, PushHolds
<1>. QED BY <1>2, <1>3

LEMMA EvalHolds ==
  ASSUME HeldInv, NEW t \in Task, bf_eval(t)
  PROVE  HeldInv'
<1>1. PICK q \in Program :
        /\ stack[t] # <<>> /\ Len(stack[t]) < MaxFrames
        /\ Refs(<<>>, <<q>>) /\ UNCHANGED <<verb, forked>>
        /\ stack' = [stack EXCEPT ![t] = Append(@, [vloc |-> NOTHING, prog |-> q])]
  BY DEF bf_eval
<1>2. PICK act \in Activ : act = [vloc |-> NOTHING, prog |-> q] /\ act.prog = q
  <2>1. [vloc |-> NOTHING, prog |-> q] \in Activ /\ [vloc |-> NOTHING, prog |-> q].prog = q
    BY DEF Activ, Programs
  <2>. QED BY <2>1, Zenon
<1>. QED BY <1>1, <1>2, PushHolds

\* The running activation returns.
LEMMA ReturnHolds ==
  ASSUME HeldInv, NEW t \in Task, free_activation(t)
  PROVE  HeldInv'
<1>1. PICK s \in Seq(Activ), n \in Nat : s = stack[t] /\ n = Len(s) /\ DOMAIN s = 1..n
  BY DEF HeldInv, TasksInv
<1>2. s # <<>> /\ stack' = [stack EXCEPT ![t] = Front(s)] /\ UNCHANGED <<verb, forked>>
      /\ Refs(<<Last(s).prog>>, <<>>)
  BY <1>1 DEF free_activation
<1>3. n \in Nat \ {0} /\ n <= MaxFrames
  BY <1>1, <1>2 DEF HeldInv, TasksInv
<1>4. PICK r \in Seq(Activ) : /\ r = Front(s) /\ Len(r) = n - 1 /\ DOMAIN r = 1..(n - 1)
                              /\ \A i \in 1..(n - 1) : r[i] = s[i]
  <2>1. Front(s) = [i \in 1..(n - 1) |-> s[i]]
    <3>1. Front(s) = SubSeq(s, 1, n - 1)
      BY <1>1 DEF Front
    <3>. QED BY <1>1, <1>3, <3>1
  <2>2. n - 1 \in Nat /\ \A i \in 1..(n - 1) : s[i] \in Activ
    BY <1>1, <1>3
  <2>3. Front(s) \in Seq(Activ) /\ Len(Front(s)) = n - 1
    BY <2>1, <2>2
  <2>. QED BY <2>1, <2>2, <2>3
<1>5. Last(s) = s[n]
  BY <1>1 DEF Last
<1>6. /\ stack' \in [Task -> Seq(Activ)] /\ stack'[t] = r
      /\ \A u \in Task : u # t => stack'[u] = stack[u]
  BY <1>2, <1>4 DEF HeldInv, TasksInv
<1>7. TasksInv'
  <2>1. Len(r) <= MaxFrames
    BY <1>3, <1>4, VerbsAssumption
  <2>2. \A u \in Task : Len(stack'[u]) <= MaxFrames
    BY <1>6, <2>1 DEF HeldInv, TasksInv
  <2>3. \A u \in Task : forked'[u] # NULL /\ ~forked'[u].started => stack'[u] = <<>>
    BY <1>1, <1>2, <1>6 DEF HeldInv, TasksInv
  <2>. QED BY <1>2, <1>6, <2>2, <2>3 DEF HeldInv, TasksInv
<1>8. ASSUME NEW p \in Programs PROVE Held(p)'
  <2>1. PICK gone \in Int : gone = One(s[n].prog = p)
    BY DEF One
  <2>2. Held(p) /\ IsFiniteSet(FrameHolders(p))
    BY DEF HeldInv, Held
  <2>3. PICK S, T : S = FrameHolders(p) /\ T = FrameHolders(p)'
    OBVIOUS
  <2>4. PICK x : x = <<t, n>> /\ x \in Task \X (1..MaxFrames)
    <3>1. n \in 1..MaxFrames
      BY <1>3, VerbsAssumption
    <3>2. <<t, n>> \in Task \X (1..MaxFrames)
      BY <3>1
    <3>. QED BY <3>2, Zenon
  <2>5. x \notin T /\ (x \in S <=> s[n].prog = p)
    <3>1. n \in DOMAIN s /\ n \notin DOMAIN r
      BY <1>1, <1>3, <1>4
    <3>. QED BY <1>1, <1>4, <1>6, <2>3, <2>4, <3>1 DEF FrameHolders
  <2>6. ASSUME NEW u \in Task, NEW i \in 1..MaxFrames, <<u, i>> # x
        PROVE  <<u, i>> \in S <=> <<u, i>> \in T
    <3>1. CASE u # t
      BY <1>6, <2>3, <3>1 DEF FrameHolders
    <3>2. CASE u = t
      <4>1. i # n
        BY <2>4, <2>6, <3>2
      <4>2. i \in DOMAIN s <=> i \in DOMAIN r
        BY <1>1, <1>3, <1>4, <4>1
      <4>3. i \in DOMAIN r => r[i] = s[i]
        BY <1>4
      <4>. QED BY <1>1, <1>6, <2>3, <3>2, <4>2, <4>3 DEF FrameHolders
    <3>. QED BY <3>1, <3>2
  <2>7. S \ {x} = T \ {x}
    <3>1. S \subseteq Task \X (1..MaxFrames) /\ T \subseteq Task \X (1..MaxFrames)
      BY <2>3 DEF FrameHolders
    <3>. QED BY <2>6, <3>1
  <2>8. One(x \in T) = 0 /\ One(x \in S) = gone
    BY <2>1, <2>5 DEF One
  <2>9. IsFiniteSet(T) /\ Cardinality(T) = Cardinality(S) - gone + 0
    BY <2>2, <2>3, <2>7, <2>8, OneChange
  <2>10. ref_count'[p] = ref_count[p] - gone + 0
    BY <1>2, <1>5, <2>1, CountNone, CountOne DEF Refs
  <2>11. ForkHolders(p)' = ForkHolders(p)
    BY <1>2 DEF ForkHolders
  <2>12. 0 \in Int /\ UNCHANGED verb
    BY <1>2
  <2>. QED BY <2>1, <2>2, <2>3, <2>9, <2>10, <2>11, <2>12, FramesChange, Zenon
<1>. QED BY <1>7, <1>8 DEF HeldInv

\* A suspended task is killed with all its activations.
LEMMA FreeVmHolds ==
  ASSUME HeldInv, NEW t \in Task, free_vm(t)
  PROVE  HeldInv'
<1>1. PICK s \in Seq(Activ), n \in Nat : s = stack[t] /\ n = Len(s) /\ DOMAIN s = 1..n
  BY DEF HeldInv, TasksInv
<1>2. /\ stack' = [stack EXCEPT ![t] = <<>>] /\ UNCHANGED <<verb, forked>>
      /\ Refs([i \in 1..n |-> s[i].prog], <<>>)
  BY <1>1 DEF free_vm
<1>3. n <= MaxFrames
  BY <1>1 DEF HeldInv, TasksInv
<1>4. /\ stack' \in [Task -> Seq(Activ)] /\ stack'[t] = <<>>
      /\ \A u \in Task : u # t => stack'[u] = stack[u]
  <2>1. <<>> \in Seq(Activ)
    OBVIOUS
  <2>. QED BY <1>2, <2>1 DEF HeldInv, TasksInv
<1>5. TasksInv'
  <2>1. \A u \in Task : Len(stack'[u]) <= MaxFrames
    <3>1. Len(<<>>) <= MaxFrames
      BY VerbsAssumption
    <3>. QED BY <1>4, <3>1 DEF HeldInv, TasksInv
  <2>2. \A u \in Task : forked'[u] # NULL /\ ~forked'[u].started => stack'[u] = <<>>
    BY <1>2, <1>4 DEF HeldInv, TasksInv
  <2>. QED BY <1>2, <1>4, <2>1, <2>2 DEF HeldInv, TasksInv
<1>6. ASSUME NEW p \in Programs PROVE Held(p)'
  <2>1. PICK f, D : /\ f = [i \in 1..n |-> s[i].prog] /\ D = {i \in DOMAIN f : f[i] = p}
    OBVIOUS
  <2>2. D = {i \in 1..n : s[i].prog = p}
    BY <2>1
  <2>3. Held(p) /\ IsFiniteSet(FrameHolders(p))
    BY DEF HeldInv, Held
  <2>4. PICK S, T : S = FrameHolders(p) /\ T = FrameHolders(p)'
    OBVIOUS
  <2>5. PICK g : g = [i \in D |-> <<t, i>>]
    OBVIOUS
  <2>6. \A i \in 1..n : i \in 1..MaxFrames
    BY <1>3, VerbsAssumption
  <2>7. g \in [D -> S] /\ \A i, j \in D : g[i] = g[j] => i = j
    <3>1. \A i \in D : <<t, i>> \in S
      BY <1>1, <2>2, <2>4, <2>6 DEF FrameHolders
    <3>. QED BY <2>5, <3>1
  <2>8. ASSUME NEW u \in Task, NEW i \in 1..MaxFrames
        PROVE  <<u, i>> \in T <=> <<u, i>> \in S /\ \A j \in D : <<u, i>> # g[j]
    <3>1. CASE u # t
      <4>1. <<u, i>> \in T <=> <<u, i>> \in S
        BY <1>4, <2>4, <3>1 DEF FrameHolders
      <4>2. \A j \in D : <<u, i>> # g[j]
        BY <2>5, <3>1
      <4>. QED BY <4>1, <4>2
    <3>2. CASE u = t
      <4>1. <<u, i>> \notin T
        BY <1>4, <2>4, <3>2 DEF FrameHolders
      <4>2. <<u, i>> \in S => i \in D
        BY <1>1, <2>2, <2>4, <3>2 DEF FrameHolders
      <4>. QED BY <2>5, <3>2, <4>1, <4>2
    <3>. QED BY <3>1, <3>2
  <2>9. \A x : x \in T <=> x \in S /\ \A j \in D : x # g[j]
    <3>1. S \subseteq Task \X (1..MaxFrames) /\ T \subseteq Task \X (1..MaxFrames)
      BY <2>4 DEF FrameHolders
    <3>2. ASSUME NEW x \in Task \X (1..MaxFrames)
          PROVE  x \in T <=> x \in S /\ \A j \in D : x # g[j]
      <4>1. PICK u \in Task, i \in 1..MaxFrames : x = <<u, i>>
        OBVIOUS
      <4>. QED BY <2>8, <4>1, Zenon
    <3>. QED BY <3>1, <3>2, Zenon
  <2>10. /\ IsFiniteSet(T) /\ IsFiniteSet(D)
         /\ Cardinality(T) = Cardinality(S) - Cardinality(D)
    <3>1. Loses(S, T, D, g)
      BY <2>7, <2>9, Zenon DEF Loses
    <3>. QED BY <2>3, <2>4, <3>1, LoseImage
  <2>11. PICK gone \in Int : gone = Cardinality(D)
    BY <2>10, FS_CardinalityType
  <2>12. Cardinality(T) = Cardinality(S) - gone + 0
    BY <2>3, <2>4, <2>10, <2>11, FS_CardinalityType
  <2>13. Count(f, p) = gone
    BY <2>1, <2>11 DEF Count, Quantify
  <2>14. ref_count'[p] = ref_count[p] - gone + 0
    BY <1>2, <2>1, <2>13, CountNone DEF Refs
  <2>15. 0 \in Int /\ UNCHANGED verb /\ ForkHolders(p)' = ForkHolders(p)
    BY <1>2 DEF ForkHolders
  <2>. QED BY <2>3, <2>4, <2>10, <2>11, <2>12, <2>14, <2>15, FramesChange, Zenon
<1>. QED BY <1>5, <1>6 DEF HeldInv

\* A task is forked, or a forked task is freed: one holder comes or goes.
ForkedTo(t, w) == forked' = [forked EXCEPT ![t] = w]

LEMMA ForkChange ==
  ASSUME TasksInv, NEW t \in Task, NEW w, ForkedTo(t, w), NEW p, IsFiniteSet(ForkHolders(p))
  PROVE  /\ IsFiniteSet(ForkHolders(p)')
         /\ Cardinality(ForkHolders(p)') =
              Cardinality(ForkHolders(p)) - One(forked[t] # NULL /\ forked[t].a.prog = p)
                                          + One(w # NULL /\ w.a.prog = p)
<1>1. PICK S, T : S = ForkHolders(p) /\ T = ForkHolders(p)'
  OBVIOUS
<1>2. forked'[t] = w /\ \A u \in Task : u # t => forked'[u] = forked[u]
  BY DEF TasksInv, ForkedTo
<1>3. /\ t \in S <=> forked[t] # NULL /\ forked[t].a.prog = p
      /\ t \in T <=> w # NULL /\ w.a.prog = p
  BY <1>1, <1>2 DEF ForkHolders
<1>4. S \ {t} = T \ {t}
  BY <1>1, <1>2 DEF ForkHolders
<1>5. /\ One(t \in S) = One(forked[t] # NULL /\ forked[t].a.prog = p)
      /\ One(t \in T) = One(w # NULL /\ w.a.prog = p)
  BY <1>3 DEF One
<1>. QED BY <1>1, <1>4, <1>5, OneChange

LEMMA ForkHolds ==
  ASSUME HeldInv, NEW t \in Task, NEW u \in Task, enqueue_forked_task2(t, u)
  PROVE  HeldInv'
<1>1. PICK act \in Activ : act = Last(stack[t])
  <2>1. stack[t] \in Seq(Activ) /\ stack[t] # <<>>
    BY DEF HeldInv, TasksInv, enqueue_forked_task2
  <2>2. Last(stack[t]) \in Activ
    BY <2>1 DEF Last
  <2>. QED BY <2>2
<1>2. PICK w \in Forked : w = [a |-> act, started |-> FALSE] /\ w # NULL /\ w.a.prog = act.prog
  <2>1. [a |-> act, started |-> FALSE] \in Forked
    BY DEF Forked
  <2>2. [a |-> act, started |-> FALSE] # NULL
    BY <2>1, NullAssumption
  <2>. QED BY <2>1, <2>2
<1>3. /\ stack[u] = <<>> /\ forked[u] = NULL /\ UNCHANGED <<verb, stack>>
      /\ forked' = [forked EXCEPT ![u] = w] /\ Refs(<<>>, <<act.prog>>)
  BY <1>1, <1>2 DEF enqueue_forked_task2
<1>4. TasksInv'
  BY <1>2, <1>3 DEF HeldInv, TasksInv
<1>5. ASSUME NEW p \in Programs PROVE Held(p)'
  <2>1. PICK new \in Int : new = One(act.prog = p)
    BY DEF One
  <2>2. Held(p) /\ IsFiniteSet(ForkHolders(p))
    BY DEF HeldInv, Held
  <2>3. One(forked[u] # NULL /\ forked[u].a.prog = p) = 0 /\ One(w # NULL /\ w.a.prog = p) = new
    BY <1>2, <1>3, <2>1 DEF One
  <2>4. /\ IsFiniteSet(ForkHolders(p)')
        /\ Cardinality(ForkHolders(p)') = Cardinality(ForkHolders(p)) - 0 + new
    <3>1. TasksInv /\ ForkedTo(u, w)
      BY <1>3 DEF HeldInv, ForkedTo
    <3>2. /\ IsFiniteSet(ForkHolders(p)')
          /\ Cardinality(ForkHolders(p)') =
               Cardinality(ForkHolders(p)) - One(forked[u] # NULL /\ forked[u].a.prog = p)
                                           + One(w # NULL /\ w.a.prog = p)
      BY <2>2, <3>1, ForkChange
    <3>. QED BY <2>3, <3>2
  <2>5. ref_count'[p] = ref_count[p] - 0 + new
    BY <1>3, <2>1, CountNone, CountOne DEF Refs
  <2>6. 0 \in Int
    OBVIOUS
  <2>. QED BY <1>3, <2>1, <2>2, <2>4, <2>5, <2>6, ForksChange, Zenon
<1>. QED BY <1>4, <1>5 DEF HeldInv

LEMMA FreeTaskHolds ==
  ASSUME HeldInv, NEW t \in Task, free_task(t)
  PROVE  HeldInv'
<1>1. /\ forked[t] # NULL /\ forked' = [forked EXCEPT ![t] = NULL]
      /\ Refs(<<forked[t].a.prog>>, <<>>) /\ UNCHANGED <<verb, stack>>
  BY DEF free_task
<1>2. TasksInv'
  BY <1>1 DEF HeldInv, TasksInv
<1>3. ASSUME NEW p \in Programs PROVE Held(p)'
  <2>1. PICK gone \in Int : gone = One(forked[t].a.prog = p)
    BY DEF One
  <2>2. Held(p) /\ IsFiniteSet(ForkHolders(p))
    BY DEF HeldInv, Held
  <2>3. PICK w : w = NULL
    OBVIOUS
  <2>4. One(forked[t] # NULL /\ forked[t].a.prog = p) = gone /\ One(w # NULL /\ w.a.prog = p) = 0
    BY <1>1, <2>1, <2>3 DEF One
  <2>5. /\ IsFiniteSet(ForkHolders(p)')
        /\ Cardinality(ForkHolders(p)') = Cardinality(ForkHolders(p)) - gone + 0
    <3>1. TasksInv /\ ForkedTo(t, w)
      BY <1>1, <2>3 DEF HeldInv, ForkedTo
    <3>2. /\ IsFiniteSet(ForkHolders(p)')
          /\ Cardinality(ForkHolders(p)') =
               Cardinality(ForkHolders(p)) - One(forked[t] # NULL /\ forked[t].a.prog = p)
                                           + One(w # NULL /\ w.a.prog = p)
      BY <2>2, <3>1, ForkChange
    <3>. QED BY <2>4, <3>2
  <2>6. ref_count'[p] = ref_count[p] - gone + 0
    BY <1>1, <2>1, CountNone, CountOne DEF Refs
  <2>7. 0 \in Int
    OBVIOUS
  <2>. QED BY <1>1, <2>1, <2>2, <2>5, <2>6, <2>7, ForksChange, Zenon
<1>. QED BY <1>2, <1>3 DEF HeldInv

\* A forked task starts: its activation is a holder of its own.
LEMMA StartHolds ==
  ASSUME HeldInv, NEW t \in Task, do_forked_task(t)
  PROVE  HeldInv'
<1>1. PICK w \in Forked : w = forked[t] /\ w # NULL /\ ~w.started
  BY DEF do_forked_task, HeldInv, TasksInv
<1>2. PICK act \in Activ : act = w.a
  BY DEF Forked
<1>3. PICK v \in Forked : v = [forked[t] EXCEPT !.started = TRUE] /\ v.a = act /\ v.started
  <2>1. [w EXCEPT !.started = TRUE] \in Forked /\ [w EXCEPT !.started = TRUE].a = act
        /\ [w EXCEPT !.started = TRUE].started = TRUE
    BY <1>2 DEF Forked
  <2>. QED BY <1>1, <2>1
<1>4. v # NULL
  BY NullAssumption
<1>5. /\ stack[t] = <<>> /\ stack' = [stack EXCEPT ![t] = <<act>>]
      /\ forked' = [forked EXCEPT ![t] = v]
      /\ Refs(<<>>, <<act.prog>>) /\ UNCHANGED verb
  <2>1. stack[t] = <<>>
    BY <1>1 DEF HeldInv, TasksInv
  <2>2. forked' = [forked EXCEPT ![t].started = TRUE]
    BY DEF do_forked_task
  <2>. QED BY <1>1, <1>2, <1>3, <2>1, <2>2 DEF do_forked_task
<1>6. stack' = [stack EXCEPT ![t] = Append(@, act)]
  <2>1. Append(<<>>, act) = <<act>>
    OBVIOUS
  <2>. QED BY <1>5, <2>1
<1>7. Len(stack[t]) < MaxFrames
  BY <1>5, VerbsAssumption
<1>8. TasksInv
  BY DEF HeldInv
<1>9. TasksInv'
  <2>1. stack' \in [Task -> Seq(Activ)] /\ \A u \in Task : Len(stack'[u]) <= MaxFrames
    BY <1>6, <1>7, <1>8, PushFrame
  <2>2. \A u \in Task : u # t => stack'[u] = stack[u]
    BY <1>6, <1>7, <1>8, PushFrame
  <2>3. /\ forked' \in [Task -> Forked \cup {NULL}] /\ forked'[t].started
        /\ \A u \in Task : u # t => forked'[u] = forked[u]
    BY <1>3, <1>5 DEF HeldInv, TasksInv
  <2>4. \A u \in Task : forked'[u] # NULL /\ ~forked'[u].started => stack'[u] = <<>>
    BY <1>8, <2>2, <2>3 DEF TasksInv
  <2>. QED BY <2>1, <2>3, <2>4 DEF TasksInv
<1>10. ASSUME NEW p \in Programs PROVE Held(p)'
  <2>1. PICK new \in Int : new = One(act.prog = p)
    BY DEF One
  <2>2. Held(p) /\ IsFiniteSet(FrameHolders(p))
    BY DEF HeldInv, Held
  <2>3. /\ IsFiniteSet(FrameHolders(p)')
        /\ Cardinality(FrameHolders(p)') = Cardinality(FrameHolders(p)) - 0 + new
    BY <1>6, <1>7, <1>8, <2>1, <2>2, PushFrame, ZenonT(40)
  <2>4. ref_count'[p] = ref_count[p] - 0 + new
    BY <1>5, <2>1, CountNone, CountOne DEF Refs
  <2>5. ForkHolders(p)' = ForkHolders(p)
    <3>1. /\ forked'[t] # NULL /\ forked'[t].a.prog = act.prog
          /\ \A u \in Task : u # t => forked'[u] = forked[u]
      BY <1>3, <1>4, <1>5 DEF HeldInv, TasksInv
    <3>2. forked[t] # NULL /\ forked[t].a.prog = act.prog
      BY <1>1, <1>2
    <3>. QED BY <3>1, <3>2 DEF ForkHolders
  <2>6. 0 \in Int
    OBVIOUS
  <2>. QED BY <1>5, <2>1, <2>2, <2>3, <2>4, <2>5, <2>6, FramesChange, Zenon
<1>. QED BY <1>9, <1>10 DEF HeldInv

-----------------------------------------------------------------------------
(* The theorem                                                             *)

LEMMA HeldInit ==
  Init => HeldInv
<1>. SUFFICES ASSUME Init PROVE HeldInv
  OBVIOUS
<1>1. /\ verb = <<>> /\ stack = [t \in Task |-> <<>>] /\ forked = [t \in Task |-> NULL]
      /\ ref_count = [p \in Programs |-> IF p = null_program THEN 1 ELSE 0]
  BY DEF Init
<1>2. TasksInv
  <2>1. <<>> \in Seq(Activ) /\ Len(<<>>) <= MaxFrames
    BY VerbsAssumption
  <2>. QED BY <1>1, <2>1 DEF TasksInv
<1>3. ASSUME NEW p \in Programs PROVE Held(p)
  <2>1. VerbHolders(p) = {}
    BY <1>1 DEF VerbHolders
  <2>2. FrameHolders(p) = {}
    <3>1. \A t \in Task : DOMAIN stack[t] = {}
      BY <1>1
    <3>. QED BY <3>1 DEF FrameHolders
  <2>3. ForkHolders(p) = {}
    BY <1>1 DEF ForkHolders
  <2>4. ref_count[p] = One(p = null_program)
    BY <1>1 DEF One
  <2>5. One(p = null_program) \in Nat
    BY DEF One
  <2>. QED BY <2>1, <2>2, <2>3, <2>4, <2>5, FS_EmptySet DEF Held
<1>. QED BY <1>2, <1>3 DEF HeldInv

LEMMA HeldNext ==
  HeldInv /\ Inv /\ [Next]_vars => HeldInv'
<1>. SUFFICES ASSUME HeldInv, Inv, [Next]_vars PROVE HeldInv'
  OBVIOUS
<1>1. ASSUME UNCHANGED <<ref_count, stack, forked, verb>> PROVE HeldInv'
  BY <1>1, SameHolders DEF VerbHolders
<1>2. ASSUME NEW o \in Obj, NEW p \in Obj \cup {NOTHING},
             db_create_object(o, p) \/ db_change_parent(o, p)
      PROVE  HeldInv'
  BY <1>1, <1>2 DEF db_create_object, db_change_parent
<1>3. ASSUME NEW o \in Obj, db_destroy_object(o) \/ db_renumber_object(o) PROVE HeldInv'
  BY <1>1, <1>3, DestroyHolds DEF db_renumber_object
<1>4. ASSUME NEW o, NEW names \in Names, NEW x \in BOOLEAN, db_add_verb(o, names, x)
      PROVE  HeldInv'
  <2>1. PICK v : /\ v \notin DOMAIN verb /\ UNCHANGED <<ref_count, stack, forked>>
                 /\ verb' = With(verb, v, [names |-> names, exec |-> x,
                                           program |-> null_program])
    BY <1>4 DEF db_add_verb
  <2>2. /\ DOMAIN verb' = DOMAIN verb \cup {v} /\ verb'[v].program = null_program
        /\ \A u \in DOMAIN verb : verb'[u] = verb[u]
    BY <2>1 DEF With
  <2>3. \A p \in Programs : VerbHolders(p)' = VerbHolders(p)
    BY <2>1, <2>2 DEF VerbHolders
  <2>. QED BY <2>1, <2>3, SameHolders
<1>5. ASSUME NEW o, NEW i, NEW names \in Names, NEW x \in BOOLEAN,
             bf_set_verb_info(o, i, names, x)
      PROVE  HeldInv'
  <2>1. PICK v : /\ UNCHANGED <<ref_count, stack, forked>>
                 /\ verb' = [verb EXCEPT ![v].names = names, ![v].exec = x]
    BY <1>5 DEF bf_set_verb_info
  <2>2. DOMAIN verb' = DOMAIN verb
    BY <2>1
  <2>3. ASSUME NEW u \in DOMAIN verb PROVE verb'[u].program = verb[u].program
    <3>1. verb[u] \in [names : Names, exec : BOOLEAN, program : Programs]
      BY DEF Inv, VerbsInv
    <3>. QED BY <2>1, <3>1
  <2>4. \A p \in Programs : VerbHolders(p)' = VerbHolders(p)
    BY <2>2, <2>3 DEF VerbHolders
  <2>. QED BY <2>1, <2>4, SameHolders
<1>6. ASSUME NEW o \in Obj, NEW i \in 1..Cardinality(Verbdef),
             db_delete_verb(o, i) \/ bf_set_verb_args(o, i) \/ bf_set_verb_code(o, i)
      PROVE  HeldInv'
  <2>1. CASE db_delete_verb(o, i)
    BY <2>1, DeleteHolds
  <2>2. CASE bf_set_verb_args(o, i)
    BY <1>1, <2>2 DEF bf_set_verb_args
  <2>3. CASE bf_set_verb_code(o, i)
    <3>1. verbdefs[o] \in Seq(DOMAIN verb) /\ i \in DOMAIN verbdefs[o]
      BY <2>3 DEF bf_set_verb_code, valid, Inv, VerbsInv
    <3>2. verbdefs[o][i] \in DOMAIN verb
      BY <3>1
    <3>. QED BY <2>3, <3>2, SetProgramHolds DEF bf_set_verb_code
  <2>. QED BY <1>6, <2>1, <2>2, <2>3
<1>7. ASSUME NEW o \in Obj, NEW name \in Name, start_programming(o, name) PROVE HeldInv'
  BY <1>1, <1>7 DEF start_programming
<1>8. ASSUME end_programming PROVE HeldInv'
  <2>1. CASE UNCHANGED <<parent, verbdefs, verb, vc_table, ref_count, stack, forked>>
    BY <1>1, <2>1
  <2>2. ASSUME NEW o, NEW name, o \in DOMAIN parent, find_described_verb(o, name) # 0,
               db_set_verb_program(verbdefs[o][find_described_verb(o, name)])
        PROVE  HeldInv'
    <3>1. PICK vs \in Seq(DOMAIN verb) : vs = verbdefs[o]
      BY <2>2 DEF Inv, VerbsInv
    <3>2. PICK I : I = {i \in 1..Len(vs) : name \in verb[vs[i]].names}
      OBVIOUS
    <3>3. find_described_verb(o, name) = Least(I)
      BY <3>1, <3>2, Zenon DEF find_described_verb, SelectInSeq, Least
    <3>4. Least(I) \in 1..Len(vs)
      <4>1. Len(vs) \in Nat /\ I \subseteq 1..Len(vs)
        BY <3>2
      <4>. QED BY <2>2, <3>3, <4>1, LeastIs
    <3>5. vs[Least(I)] \in DOMAIN verb
      BY <3>4
    <3>. QED BY <2>2, <3>1, <3>3, <3>5, SetProgramHolds
  <2>. QED BY <1>8, <2>1, <2>2 DEF end_programming, valid
<1>9. ASSUME NEW t \in Task, NEW o \in Obj, NEW name \in Name,
             call_verb2(t, o, name) \/ run_server_task(t, o, name)
      PROVE  HeldInv'
  BY <1>9, CallHolds DEF call_verb2, run_server_task, valid
<1>10. ASSUME NEW t \in Task, NEW name \in Name, bf_pass(t, name) PROVE HeldInv'
  <2>1. PICK w : w \in DOMAIN parent /\ Call(t, w, name) /\ stack[t] # <<>>
    BY <1>10 DEF bf_pass, valid
  <2>. QED BY <2>1, CallHolds
<1>11. ASSUME NEW t \in Task,
              \/ bf_eval(t) \/ free_activation(t)
              \/ do_forked_task(t) \/ free_task(t) \/ free_vm(t)
       PROVE  HeldInv'
  BY <1>11, EvalHolds, ReturnHolds, StartHolds, FreeTaskHolds, FreeVmHolds
<1>12. ASSUME NEW t \in Task, NEW u \in Task, enqueue_forked_task2(t, u) PROVE HeldInv'
  BY <1>12, ForkHolds
<1>13. CASE UNCHANGED vars
  BY <1>1, <1>13 DEF vars
<1>. QED
  BY <1>2, <1>3, <1>4, <1>5, <1>6, <1>7, <1>8, <1>9, <1>10, <1>11, <1>12, <1>13 DEF Next

\* The reference count of every program is the number of verbs, activations
\* and forked tasks that hold it, for any number of each: program_ref() and
\* free_program() are called in pairs, whatever code reprograms, deletes or
\* recycles while it runs, and wherever a task is killed.
THEOREM ProgramsStayHeld ==
  Spec => []ProgramsAreHeld
<1>1. Init => Inv /\ HeldInv
  BY InvInit, HeldInit
<1>2. (Inv /\ HeldInv) /\ [Next]_vars => (Inv /\ HeldInv)'
  BY InvNext, HeldNext
<1>3. Inv /\ HeldInv => ProgramsAreHeld
  BY HeldProves
<1>. QED BY <1>1, <1>2, <1>3, PTL DEF Spec
=============================================================================
