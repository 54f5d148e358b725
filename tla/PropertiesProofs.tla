-------------------------- MODULE PropertiesProofs --------------------------
(***************************************************************************)
(* Proofs about Properties: the arrays of values always fit the names, the *)
(* loop of bf_recycle() ends, the search for a value that is not clear     *)
(* finds one, and the values by their names behave as PropertySpec says.   *)
(*                                                                         *)
(* The functions of db_properties.c are operators from a state of the      *)
(* database to the next; State(par, def, val) is such a state, and Sound   *)
(* is what each of them keeps.  The facts about recursive functions are    *)
(* proved by induction along the hierarchy (UpInd), whose loops a height   *)
(* rules out.  The names of an object are always "what is below a given    *)
(* ancestor, then the ancestor's": a change of parent replaces the piece   *)
(* between the moved object and the common ancestor (Swapped), a new,      *)
(* deleted or renamed property changes one place of it (Redefined).  Each  *)
(* change is then read by name (Spread): no object knows a name twice      *)
(* (LayOnce), so a place and a name say the same.                          *)
(***************************************************************************)
EXTENDS PropertiesByName, SumTheorems, FiniteSetTheorems, SequenceTheorems, TLAPS

-----------------------------------------------------------------------------
(* Going up the hierarchy                                                  *)

\* height shows that par has no loops: it falls from an object to its parent.
Ranked(par, height, top) ==
  /\ NOTHING \notin DOMAIN par
  /\ par \in [DOMAIN par -> DOMAIN par \cup {NOTHING}]
  /\ top \in Nat
  /\ height \in [DOMAIN par -> 0..top]
  /\ \A x \in DOMAIN par : par[x] # NOTHING => height[par[x]] < height[x]

\* up puts the pieces of an object and of all its ancestors one after another.
Joins(up, par, piece) ==
  up = [x \in DOMAIN par \cup {NOTHING} |->
          IF x = NOTHING THEN <<>> ELSE piece[x] \o up[par[x]]]

\* There is such a function, by induction on the height it reaches.
LEMMA JoinsExists ==
  ASSUME NEW par, NEW height, NEW top, Ranked(par, height, top), NEW piece
  PROVE  \E up : Joins(up, par, piece)
<1>. DEFINE D(n) == {x \in DOMAIN par : height[x] < n} \cup {NOTHING}
            Fits(c, n) == c = [x \in D(n) |-> IF x = NOTHING THEN <<>> ELSE piece[x] \o c[par[x]]]
            S == {n \in Nat : \E c : Fits(c, n)}
<1>1. 0 \in S
  <2>. DEFINE c == [x \in D(0) |-> <<>>]
  <2>1. D(0) = {NOTHING}
    BY DEF Ranked
  <2>2. Fits(c, 0)
    BY <2>1
  <2>. HIDE DEF Fits, c
  <2>. QED BY <2>2
<1>2. ASSUME NEW n \in Nat, n \in S PROVE n + 1 \in S
  <2>1. PICK c : Fits(c, n)
    BY <1>2
  <2>. DEFINE g == [x \in D(n + 1) |-> IF x = NOTHING THEN <<>> ELSE piece[x] \o c[par[x]]]
  <2>2. ASSUME NEW x \in D(n + 1), x # NOTHING PROVE par[x] \in D(n) /\ par[x] \in D(n + 1)
    BY <2>2 DEF Ranked
  <2>3. ASSUME NEW x \in D(n) PROVE g[x] = c[x]
    <3>1. x \in D(n + 1)
      BY DEF Ranked
    <3>2. c[x] = IF x = NOTHING THEN <<>> ELSE piece[x] \o c[par[x]]
      BY <2>1
    <3>3. g[x] = IF x = NOTHING THEN <<>> ELSE piece[x] \o c[par[x]]
      BY <3>1
    <3>. QED BY <3>2, <3>3
  <2>4. Fits(g, n + 1)
    <3>. DEFINE h == [x \in D(n + 1) |-> IF x = NOTHING THEN <<>> ELSE piece[x] \o g[par[x]]]
    <3>1. ASSUME NEW x \in D(n + 1) PROVE g[x] = h[x]
      <4>1. x # NOTHING => g[par[x]] = c[par[x]]
        BY <2>2, <2>3
      <4>2. g[x] = IF x = NOTHING THEN <<>> ELSE piece[x] \o c[par[x]]
        OBVIOUS
      <4>3. h[x] = IF x = NOTHING THEN <<>> ELSE piece[x] \o g[par[x]]
        OBVIOUS
      <4>. HIDE DEF g, h, D
      <4>. QED BY <4>1, <4>2, <4>3
    <3>. QED BY <3>1, Zenon
  <2>. HIDE DEF Fits, g
  <2>. QED BY <2>4
<1>3. PICK c : Fits(c, top + 1)
  <2>1. top + 1 \in Nat
    BY DEF Ranked
  <2>2. \A n \in Nat : n \in S
    <3>. HIDE DEF S
    <3>. QED BY <1>1, <1>2, NatInd
  <2>. QED BY <2>1, <2>2
<1>4. D(top + 1) = DOMAIN par \cup {NOTHING}
  <2>1. \A x \in DOMAIN par : height[x] < top + 1
    BY DEF Ranked
  <2>. QED BY <2>1
<1>5. Joins(c, par, piece)
  <2>. HIDE DEF D
  <2>. QED BY <1>3, <1>4 DEF Joins
<1>. QED BY <1>5

\* The induction that all the facts below are proved by: a set that has an
\* object whenever it has the parent has all objects.
LEMMA UpInd ==
  ASSUME NEW par, NEW height, NEW top, Ranked(par, height, top), NEW Good,
         \A x \in DOMAIN par : (par[x] = NOTHING \/ par[x] \in Good) => x \in Good
  PROVE  DOMAIN par \subseteq Good
<1>. DEFINE S == {n \in Nat : \A x \in DOMAIN par : height[x] < n => x \in Good}
<1>1. 0 \in S
  BY DEF Ranked
<1>2. ASSUME NEW n \in Nat, n \in S PROVE n + 1 \in S
  <2>. SUFFICES ASSUME NEW x \in DOMAIN par, height[x] < n + 1 PROVE x \in Good
    OBVIOUS
  <2>1. CASE par[x] = NOTHING
    BY <2>1
  <2>2. CASE par[x] # NOTHING
    <3>1. par[x] \in DOMAIN par /\ height[par[x]] < n
      BY <2>2 DEF Ranked
    <3>. QED BY <1>2, <3>1
  <2>. QED BY <2>1, <2>2
<1>3. \A n \in Nat : n \in S
  <2>. HIDE DEF S
  <2>. QED BY <1>1, <1>2, NatInd
<1>4. top + 1 \in Nat /\ \A x \in DOMAIN par : height[x] < top + 1
  BY DEF Ranked
<1>. QED BY <1>3, <1>4

\* The pieces are sequences, and so is what they make.
LEMMA JoinsAre ==
  ASSUME NEW par, NEW height, NEW top, Ranked(par, height, top), NEW piece, NEW E,
         \A x \in DOMAIN par : piece[x] \in Seq(E), NEW up, Joins(up, par, piece)
  PROVE  /\ up[NOTHING] = <<>>
         /\ \A x \in DOMAIN par : up[x] = piece[x] \o up[par[x]]
         /\ \A x \in DOMAIN par \cup {NOTHING} : up[x] \in Seq(E)
<1>1. up[NOTHING] = <<>>
  BY DEF Joins
<1>2. \A x \in DOMAIN par : up[x] = piece[x] \o up[par[x]]
  BY DEF Joins, Ranked
<1>. DEFINE Good == {x \in DOMAIN par : up[x] \in Seq(E)}
<1>3. ASSUME NEW x \in DOMAIN par, par[x] = NOTHING \/ par[x] \in Good PROVE x \in Good
  <2>1. PICK p, r : p = piece[x] /\ r = up[par[x]]
    OBVIOUS
  <2>2. p \in Seq(E)
    BY <2>1
  <2>3. r \in Seq(E)
    <3>1. CASE par[x] = NOTHING
      <4>1. r = <<>>
        BY <1>1, <2>1, <3>1, Zenon
      <4>. QED BY <4>1
    <3>2. CASE par[x] \in Good
      BY <2>1, <3>2
    <3>. QED BY <1>3, <3>1, <3>2
  <2>4. p \o r \in Seq(E)
    BY <2>2, <2>3
  <2>5. up[x] = p \o r
    BY <1>2, <2>1
  <2>. QED BY <2>4, <2>5
<1>4. DOMAIN par \subseteq Good
  <2>. HIDE DEF Good
  <2>. QED BY <1>3, UpInd
<1>5. up[NOTHING] \in Seq(E)
  BY <1>1
<1>. QED BY <1>1, <1>2, <1>4, <1>5

\* What Ancestors computes.
LEMMA AncestorsAre ==
  ASSUME NEW par, NEW height, NEW top, Ranked(par, height, top)
  PROVE  /\ Ancestors(par, NOTHING) = <<>>
         /\ \A x \in DOMAIN par : Ancestors(par, x) = <<x>> \o Ancestors(par, par[x])
         /\ \A x \in DOMAIN par \cup {NOTHING} : Ancestors(par, x) \in Seq(DOMAIN par)
<1>1. PICK piece : piece = [x \in DOMAIN par |-> <<x>>]
  OBVIOUS
<1>2. ASSUME NEW up PROVE Joins(up, par, piece) <=> 
        up = [x \in DOMAIN par \cup {NOTHING} |-> IF x = NOTHING THEN <<>> ELSE <<x>> \o up[par[x]]]
  <2>1. \A x \in DOMAIN par : piece[x] = <<x>>
    BY <1>1
  <2>2. [x \in DOMAIN par \cup {NOTHING} |-> IF x = NOTHING THEN <<>> ELSE <<x>> \o up[par[x]]]
        = [x \in DOMAIN par \cup {NOTHING} |-> IF x = NOTHING THEN <<>> ELSE piece[x] \o up[par[x]]]
    BY <2>1
  <2>. QED BY <2>2 DEF Joins
<1>3. PICK chain : chain = CHOOSE up :
        up = [x \in DOMAIN par \cup {NOTHING} |-> IF x = NOTHING THEN <<>> ELSE <<x>> \o up[par[x]]]
  OBVIOUS
<1>4. Joins(chain, par, piece)
  <2>1. PICK u : Joins(u, par, piece)
    BY JoinsExists
  <2>2. u = [x \in DOMAIN par \cup {NOTHING} |-> IF x = NOTHING THEN <<>> ELSE <<x>> \o u[par[x]]]
    BY <1>2, <2>1
  <2>3. chain = [x \in DOMAIN par \cup {NOTHING} |-> IF x = NOTHING THEN <<>> ELSE <<x>> \o chain[par[x]]]
    BY <1>3, <2>2, Zenon
  <2>. QED BY <1>2, <2>3
<1>5. \A o : Ancestors(par, o) = chain[o]
  BY <1>3, Zenon DEF Ancestors
<1>6. \A x \in DOMAIN par : piece[x] \in Seq(DOMAIN par) /\ piece[x] = <<x>>
  BY <1>1
<1>7. /\ chain[NOTHING] = <<>>
      /\ \A x \in DOMAIN par : chain[x] = piece[x] \o chain[par[x]]
      /\ \A x \in DOMAIN par \cup {NOTHING} : chain[x] \in Seq(DOMAIN par)
  BY <1>4, <1>6, JoinsAre
<1>. QED BY <1>5, <1>6, <1>7

\* The names that belong to the array of an object.
Lay(par, def, o) == Layout([parent |-> par, propdefs |-> def], o)

\* Layout depends on the parents and the definitions alone.
LEMMA LayoutIs ==
  ASSUME NEW S, NEW par, NEW def, S.parent = par, S.propdefs = def, NEW o
  PROVE  Layout(S, o) = Lay(par, def, o)
BY Zenon DEF Layout, Lay

\* What Layout computes.
LEMMA LayIs ==
  ASSUME NEW par, NEW height, NEW top, Ranked(par, height, top),
         NEW def, \A x \in DOMAIN par : def[x] \in Seq(Name)
  PROVE  /\ Lay(par, def, NOTHING) = <<>>
         /\ \A x \in DOMAIN par : Lay(par, def, x) = def[x] \o Lay(par, def, par[x])
         /\ \A x \in DOMAIN par \cup {NOTHING} : Lay(par, def, x) \in Seq(Name)
<1>1. PICK chain : chain = CHOOSE up : Joins(up, par, def)
  OBVIOUS
<1>2. Joins(chain, par, def)
  BY <1>1, JoinsExists
<1>3. \A o : Lay(par, def, o) = chain[o]
  <2>1. PICK S : S = [parent |-> par, propdefs |-> def]
    OBVIOUS
  <2>2. S.parent = par /\ S.propdefs = def
    BY <2>1
  <2>3. \A o : Layout(S, o) = chain[o]
    BY <1>1, <2>2, Zenon DEF Layout, Joins
  <2>. QED BY <2>1, <2>3 DEF Lay
<1>4. /\ chain[NOTHING] = <<>>
      /\ \A x \in DOMAIN par : chain[x] = def[x] \o chain[par[x]]
      /\ \A x \in DOMAIN par \cup {NOTHING} : chain[x] \in Seq(Name)
  BY <1>2, JoinsAre
<1>. QED BY <1>3, <1>4

-----------------------------------------------------------------------------
(* Ancestors and names as sets                                             *)

\* The members of a sequence.
LEMMA ToSetIs ==
  ASSUME NEW E, NEW s \in Seq(E)
  PROVE  /\ \A y : y \in ToSet(s) <=> \E i \in 1..Len(s) : s[i] = y
         /\ ToSet(s) \subseteq E
<1>1. DOMAIN s = 1..Len(s)
  OBVIOUS
<1>2. \A y : y \in ToSet(s) <=> \E i \in 1..Len(s) : s[i] = y
  BY <1>1 DEF ToSet
<1>3. \A i \in 1..Len(s) : s[i] \in E
  OBVIOUS
<1>. QED BY <1>2, <1>3

\* The members of two sequences, one after the other.
LEMMA ToSetJoin ==
  ASSUME NEW E, NEW p \in Seq(E), NEW r \in Seq(E)
  PROVE  ToSet(p \o r) = ToSet(p) \cup ToSet(r)
<1>1. PICK all \in Seq(E) : all = p \o r
  <2>1. p \o r \in Seq(E)
    OBVIOUS
  <2>. QED BY <2>1
<1>2. Len(all) = Len(p) + Len(r) /\ Len(p) \in Nat /\ Len(r) \in Nat
  BY <1>1
<1>3. \A i \in 1..Len(p) : all[i] = p[i] /\ i \in 1..Len(all)
  BY <1>1, <1>2
<1>4. \A i \in 1..Len(r) : all[Len(p) + i] = r[i] /\ Len(p) + i \in 1..Len(all)
  BY <1>1, <1>2
<1>5. ASSUME NEW i \in 1..Len(all)
      PROVE  (\E j \in 1..Len(p) : all[i] = p[j]) \/ (\E j \in 1..Len(r) : all[i] = r[j])
  <2>1. CASE i <= Len(p)
    BY <1>2, <1>3, <2>1
  <2>2. CASE i > Len(p)
    <3>1. PICK j \in 1..Len(r) : i = Len(p) + j
      <4>1. i - Len(p) \in 1..Len(r) /\ i = Len(p) + (i - Len(p))
        BY <1>2, <2>2
      <4>. QED BY <4>1
    <3>. QED BY <1>4, <3>1
  <2>. QED BY <1>2, <2>1, <2>2
<1>6. /\ \A y : y \in ToSet(all) <=> \E i \in 1..Len(all) : all[i] = y
      /\ \A y : y \in ToSet(p) <=> \E i \in 1..Len(p) : p[i] = y
      /\ \A y : y \in ToSet(r) <=> \E i \in 1..Len(r) : r[i] = y
  BY ToSetIs
<1>7. \A y \in ToSet(all) : y \in ToSet(p) \cup ToSet(r)
  BY <1>5, <1>6, Zenon
<1>8. \A y \in ToSet(p) \cup ToSet(r) : y \in ToSet(all)
  BY <1>3, <1>4, <1>6, Zenon
<1>. QED BY <1>1, <1>7, <1>8

\* The ancestors of an object, the object itself included.
Anc(par, x) == ToSet(Ancestors(par, x))

\* An object's ancestors are itself and its parent's.
LEMMA AncSet ==
  ASSUME NEW par, NEW height, NEW top, Ranked(par, height, top)
  PROVE  /\ Anc(par, NOTHING) = {}
         /\ \A x \in DOMAIN par : Anc(par, x) = {x} \cup Anc(par, par[x])
         /\ \A x \in DOMAIN par \cup {NOTHING} : Anc(par, x) \subseteq DOMAIN par
<1>1. Anc(par, NOTHING) = {}
  BY AncestorsAre DEF Anc, ToSet
<1>2. ASSUME NEW x \in DOMAIN par PROVE Anc(par, x) = {x} \cup Anc(par, par[x])
  <2>1. PICK p \in Seq(DOMAIN par) : p = <<x>>
    <3>1. <<x>> \in Seq(DOMAIN par)
      OBVIOUS
    <3>. QED BY <3>1
  <2>2. PICK r \in Seq(DOMAIN par) : r = Ancestors(par, par[x])
    <3>1. par[x] \in DOMAIN par \cup {NOTHING}
      BY DEF Ranked
    <3>. QED BY <3>1, AncestorsAre
  <2>3. Ancestors(par, x) = p \o r
    BY <2>1, <2>2, AncestorsAre
  <2>4. ToSet(p) = {x}
    BY <2>1 DEF ToSet
  <2>5. ToSet(p \o r) = ToSet(p) \cup ToSet(r)
    BY ToSetJoin
  <2>. QED BY <2>2, <2>3, <2>4, <2>5 DEF Anc
<1>3. ASSUME NEW x \in DOMAIN par \cup {NOTHING} PROVE Anc(par, x) \subseteq DOMAIN par
  <2>1. PICK r \in Seq(DOMAIN par) : r = Ancestors(par, x)
    BY AncestorsAre
  <2>. QED BY <2>1, ToSetIs DEF Anc
<1>. QED BY <1>1, <1>2, <1>3

\* Ancestors are higher up, and those of an ancestor are ancestors.
LEMMA AncOrder ==
  ASSUME NEW par, NEW height, NEW top, Ranked(par, height, top)
  PROVE  /\ \A x \in DOMAIN par : \A a \in Anc(par, x) :
              a \in DOMAIN par /\ height[a] <= height[x] /\ (a # x => height[a] < height[x])
         /\ \A x \in DOMAIN par \cup {NOTHING} : \A b \in Anc(par, x) : Anc(par, b) \subseteq Anc(par, x)
<1>0. /\ Anc(par, NOTHING) = {}
      /\ \A x \in DOMAIN par : Anc(par, x) = {x} \cup Anc(par, par[x])
      /\ \A x \in DOMAIN par : Anc(par, x) \subseteq DOMAIN par
  BY AncSet
<1>. DEFINE Low == {x \in DOMAIN par : \A a \in Anc(par, x) :
                      height[a] <= height[x] /\ (a # x => height[a] < height[x])}
            All == {x \in DOMAIN par : \A b \in Anc(par, x) : Anc(par, b) \subseteq Anc(par, x)}
<1>1. ASSUME NEW x \in DOMAIN par, par[x] = NOTHING \/ par[x] \in Low PROVE x \in Low
  <2>1. ASSUME NEW a \in Anc(par, x)
        PROVE  height[a] <= height[x] /\ (a # x => height[a] < height[x])
    <3>1. CASE a = x
      BY <3>1 DEF Ranked
    <3>2. CASE a # x
      <4>1. a \in Anc(par, par[x]) /\ par[x] # NOTHING
        BY <1>0, <2>1, <3>2
      <4>2. height[a] <= height[par[x]] /\ height[par[x]] < height[x] /\ par[x] \in DOMAIN par /\ a \in DOMAIN par
        BY <1>0, <1>1, <4>1 DEF Ranked
      <4>3. height[a] \in Nat /\ height[x] \in Nat /\ height[par[x]] \in Nat
        BY <4>2 DEF Ranked
      <4>. QED BY <4>2, <4>3
    <3>. QED BY <3>1, <3>2
  <2>. QED BY <2>1
<1>2. DOMAIN par \subseteq Low
  <2>. HIDE DEF Low
  <2>. QED BY <1>1, UpInd
<1>3. ASSUME NEW x \in DOMAIN par, par[x] = NOTHING \/ par[x] \in All PROVE x \in All
  <2>1. ASSUME NEW b \in Anc(par, x) PROVE Anc(par, b) \subseteq Anc(par, x)
    <3>1. CASE b = x
      BY <3>1
    <3>2. CASE b # x
      <4>1. b \in Anc(par, par[x]) /\ par[x] # NOTHING
        BY <1>0, <2>1, <3>2
      <4>. QED BY <1>0, <1>3, <4>1
    <3>. QED BY <3>1, <3>2
  <2>. QED BY <2>1
<1>4. DOMAIN par \subseteq All
  <2>. HIDE DEF All
  <2>. QED BY <1>3, UpInd
<1>. QED BY <1>0, <1>2, <1>4

\* The names of an object are those that its ancestors define.
LEMMA LayNames ==
  ASSUME NEW par, NEW height, NEW top, Ranked(par, height, top),
         NEW def, \A x \in DOMAIN par : def[x] \in Seq(Name),
         NEW x \in DOMAIN par \cup {NOTHING}, NEW n
  PROVE  n \in ToSet(Lay(par, def, x)) <=> \E a \in Anc(par, x) : n \in ToSet(def[a])
<1>0. /\ Anc(par, NOTHING) = {}
      /\ \A y \in DOMAIN par : Anc(par, y) = {y} \cup Anc(par, par[y])
  BY AncSet
<1>1. n \notin ToSet(Lay(par, def, NOTHING))
  <2>1. Lay(par, def, NOTHING) = <<>>
    BY LayIs
  <2>. QED BY <2>1 DEF ToSet
<1>. DEFINE In(y) == \E a \in Anc(par, y) : n \in ToSet(def[a])
            Good == {y \in DOMAIN par : n \in ToSet(Lay(par, def, y)) <=> In(y)}
<1>2. ASSUME NEW y \in DOMAIN par, par[y] = NOTHING \/ par[y] \in Good PROVE y \in Good
  <2>1. PICK p \in Seq(Name), r \in Seq(Name) : p = def[y] /\ r = Lay(par, def, par[y])
    <3>1. par[y] \in DOMAIN par \cup {NOTHING}
      BY DEF Ranked
    <3>. QED BY <3>1, LayIs
  <2>2. Lay(par, def, y) = p \o r
    BY <2>1, LayIs
  <2>3. ToSet(p \o r) = ToSet(p) \cup ToSet(r)
    BY ToSetJoin
  <2>4. n \in ToSet(r) <=> In(par[y])
    BY <1>0, <1>1, <1>2, <2>1
  <2>5. In(y) <=> n \in ToSet(p) \/ In(par[y])
    BY <1>0, <2>1
  <2>. QED BY <2>2, <2>3, <2>4, <2>5
<1>3. DOMAIN par \subseteq Good
  <2>. HIDE DEF Good
  <2>. QED BY <1>2, UpInd
<1>4. ~In(NOTHING)
  BY <1>0
<1>. QED BY <1>1, <1>3, <1>4

-----------------------------------------------------------------------------
(* Another hierarchy                                                       *)

\* The definitions are sequences of names, on a hierarchy without loops.
Typed(par, def) == \A x \in DOMAIN par : def[x] \in Seq(Name)
Tree(par, def) == (\E height, top : Ranked(par, height, top)) /\ Typed(par, def)

\* An object whose ancestors are the same has the same ancestors and names.
LEMMA SameUp ==
  ASSUME NEW par, NEW height, NEW top, Ranked(par, height, top),
         NEW par2, NEW height2, NEW top2, Ranked(par2, height2, top2),
         NEW def, Typed(par, def), NEW def2, Typed(par2, def2),
         NEW x \in DOMAIN par \cup {NOTHING},
         \A a \in Anc(par, x) : a \in DOMAIN par2 /\ par2[a] = par[a] /\ def2[a] = def[a]
  PROVE  /\ Ancestors(par2, x) = Ancestors(par, x)
         /\ Lay(par2, def2, x) = Lay(par, def, x)
<1>0. /\ \A y \in DOMAIN par : Anc(par, y) = {y} \cup Anc(par, par[y])
      /\ \A y \in DOMAIN par : Ancestors(par, y) = <<y>> \o Ancestors(par, par[y])
      /\ \A y \in DOMAIN par : Lay(par, def, y) = def[y] \o Lay(par, def, par[y])
      /\ \A y \in DOMAIN par2 : Ancestors(par2, y) = <<y>> \o Ancestors(par2, par2[y])
      /\ \A y \in DOMAIN par2 : Lay(par2, def2, y) = def2[y] \o Lay(par2, def2, par2[y])
  BY AncSet, AncestorsAre, LayIs DEF Typed
<1>1. /\ Ancestors(par, NOTHING) = <<>> /\ Ancestors(par2, NOTHING) = <<>>
      /\ Lay(par, def, NOTHING) = <<>> /\ Lay(par2, def2, NOTHING) = <<>>
  BY AncestorsAre, LayIs DEF Typed
<1>. DEFINE Alike(y) == \A a \in Anc(par, y) : a \in DOMAIN par2 /\ par2[a] = par[a] /\ def2[a] = def[a]
            Same(y) == /\ Ancestors(par2, y) = Ancestors(par, y)
                       /\ Lay(par2, def2, y) = Lay(par, def, y)
            Good == {y \in DOMAIN par : Alike(y) => Same(y)}
<1>2. ASSUME NEW y \in DOMAIN par, par[y] = NOTHING \/ par[y] \in Good PROVE y \in Good
  <2>. SUFFICES ASSUME Alike(y) PROVE Same(y)
    BY Zenon
  <2>1. Alike(par[y]) /\ y \in DOMAIN par2 /\ par2[y] = par[y] /\ def2[y] = def[y]
    BY <1>0
  <2>2. Same(par[y])
    <3>1. CASE par[y] = NOTHING
      BY <1>1, <3>1
    <3>2. CASE par[y] \in Good
      <4>. HIDE DEF Alike, Same
      <4>. QED BY <2>1, <3>2
    <3>. QED BY <1>2, <3>1, <3>2
  <2>. HIDE DEF Alike
  <2>. QED BY <1>0, <2>1, <2>2
<1>3. DOMAIN par \subseteq Good
  <2>. HIDE DEF Good
  <2>. QED BY <1>2, UpInd
<1>4. Alike(x)
  OBVIOUS
<1>. HIDE DEF Alike
<1>5. CASE x = NOTHING
  BY <1>1, <1>5
<1>6. CASE x \in DOMAIN par
  BY <1>3, <1>4, <1>6
<1>. QED BY <1>5, <1>6

\* par with another parent for o, which does not have o among its ancestors.
Moved(par, o, p, par2) ==
  /\ o \in DOMAIN par /\ p \in DOMAIN par \cup {NOTHING}
  /\ o \notin Anc(par, p)
  /\ par2 = [par EXCEPT ![o] = p]

\* It is a hierarchy again: everything at or below o is lifted over the rest.
LEMMA MovedRanked ==
  ASSUME NEW par, NEW height, NEW top, Ranked(par, height, top),
         NEW o, NEW p, NEW par2, Moved(par, o, p, par2)
  PROVE  \E height2, top2 : Ranked(par2, height2, top2)
<1>0. \A x \in DOMAIN par : Anc(par, x) = {x} \cup Anc(par, par[x])
  BY AncSet
<1>1. PICK h : h = [x \in DOMAIN par |-> IF o \in Anc(par, x) THEN height[x] + top + 1 ELSE height[x]]
  OBVIOUS
<1>2. PICK t \in Nat : t = 2 * top + 1
  BY DEF Ranked
<1>3. h \in [DOMAIN par -> 0..t]
  BY <1>1, <1>2 DEF Ranked
<1>4. DOMAIN par2 = DOMAIN par /\ \A x \in DOMAIN par : par2[x] = IF x = o THEN p ELSE par[x]
  BY DEF Moved, Ranked
<1>5. par2 \in [DOMAIN par -> DOMAIN par \cup {NOTHING}]
  BY DEF Moved, Ranked
<1>6. ASSUME NEW x \in DOMAIN par, par2[x] # NOTHING PROVE h[par2[x]] < h[x]
  <2>1. CASE x = o
    <3>1. o \in Anc(par, x) /\ o \notin Anc(par, p) /\ par2[x] = p /\ p \in DOMAIN par
      BY <1>0, <1>4, <1>6, <2>1 DEF Moved
    <3>2. h[x] = height[x] + top + 1 /\ h[p] = height[p]
      BY <1>1, <3>1
    <3>3. height[x] \in 0..top /\ height[p] \in 0..top /\ top \in Nat
      BY <3>1 DEF Ranked
    <3>. QED BY <3>1, <3>2, <3>3
  <2>2. CASE x # o
    <3>1. par2[x] = par[x] /\ par[x] \in DOMAIN par /\ height[par[x]] < height[x]
      BY <1>4, <1>5, <1>6, <2>2 DEF Ranked
    <3>2. o \in Anc(par, x) <=> o \in Anc(par, par[x])
      BY <1>0, <2>2
    <3>3. height[x] \in 0..top /\ height[par[x]] \in 0..top /\ top \in Nat
      BY <3>1 DEF Ranked
    <3>. QED BY <1>1, <3>1, <3>2, <3>3
  <2>. QED BY <2>1, <2>2
<1>7. Ranked(par2, h, t)
  BY <1>2, <1>3, <1>4, <1>5, <1>6 DEF Ranked
<1>. QED BY <1>7

\* Who is not at or below o has the same ancestors.
LEMMA MovedOthers ==
  ASSUME NEW par, NEW height, NEW top, Ranked(par, height, top),
         NEW o, NEW p, NEW par2, Moved(par, o, p, par2), NEW def, Typed(par, def),
         NEW x \in DOMAIN par \cup {NOTHING}, o \notin Anc(par, x)
  PROVE  /\ Ancestors(par2, x) = Ancestors(par, x)
         /\ Lay(par2, def, x) = Lay(par, def, x)
<1>1. PICK height2, top2 : Ranked(par2, height2, top2)
  BY MovedRanked
<1>2. DOMAIN par2 = DOMAIN par /\ \A y \in DOMAIN par : par2[y] = IF y = o THEN p ELSE par[y]
  BY DEF Moved, Ranked
<1>3. \A a \in Anc(par, x) : a \in DOMAIN par2 /\ par2[a] = par[a]
  BY <1>2, AncSet
<1>4. Typed(par2, def)
  BY <1>2 DEF Typed
<1>. QED BY <1>1, <1>3, <1>4, SameUp

\* Those at or below o keep the ancestors up to o and get those of p.
LEMMA MovedBelow ==
  ASSUME NEW par, NEW height, NEW top, Ranked(par, height, top),
         NEW o, NEW p, NEW par2, Moved(par, o, p, par2)
  PROVE  \A x \in DOMAIN par : o \in Anc(par, x) =>
           Anc(par2, x) = {b \in Anc(par, x) : o \in Anc(par, b)} \cup Anc(par, p)
<1>1. PICK height2, top2 : Ranked(par2, height2, top2)
  BY MovedRanked
<1>2. DOMAIN par2 = DOMAIN par /\ \A y \in DOMAIN par : par2[y] = IF y = o THEN p ELSE par[y]
  BY DEF Moved, Ranked
<1>3. /\ \A y \in DOMAIN par : Anc(par, y) = {y} \cup Anc(par, par[y])
      /\ \A y \in DOMAIN par : Anc(par2, y) = {y} \cup Anc(par2, par2[y])
      /\ Anc(par, NOTHING) = {}
  BY <1>1, <1>2, AncSet
<1>4. Anc(par2, p) = Anc(par, p)
  <2>1. PICK def : def = [y \in DOMAIN par |-> <<>>]
    OBVIOUS
  <2>2. Typed(par, def)
    BY <2>1 DEF Typed
  <2>3. p \in DOMAIN par \cup {NOTHING} /\ o \notin Anc(par, p)
    BY DEF Moved
  <2>. QED BY <2>2, <2>3, MovedOthers DEF Anc
<1>. DEFINE Up(y) == {b \in Anc(par, y) : o \in Anc(par, b)}
            Good == {y \in DOMAIN par : o \in Anc(par, y) => Anc(par2, y) = Up(y) \cup Anc(par, p)}
<1>5. ASSUME NEW y \in DOMAIN par, par[y] = NOTHING \/ par[y] \in Good PROVE y \in Good
  <2>. SUFFICES ASSUME o \in Anc(par, y) PROVE Anc(par2, y) = Up(y) \cup Anc(par, p)
    BY Zenon
  <2>1. CASE y = o
    <3>1. Up(y) = {o}
      <4>1. \A b \in Anc(par, y) : b # o => o \notin Anc(par, b)
        <5>. SUFFICES ASSUME NEW b \in Anc(par, o), b # o, o \in Anc(par, b) PROVE FALSE
          BY <2>1
        <5>1. o \in DOMAIN par /\ b \in DOMAIN par
          BY AncSet DEF Moved
        <5>2. height[b] < height[o] /\ height[o] < height[b]
          BY <5>1, AncOrder
        <5>3. height[b] \in Nat /\ height[o] \in Nat
          BY <5>1 DEF Ranked
        <5>. QED BY <5>2, <5>3
      <4>. QED BY <2>1, <4>1
    <3>2. Anc(par2, y) = {o} \cup Anc(par, p)
      BY <1>2, <1>3, <1>4, <2>1
    <3>. QED BY <3>1, <3>2
  <2>2. CASE y # o
    <3>1. o \in Anc(par, par[y]) /\ par[y] # NOTHING
      BY <1>3, <2>2
    <3>2. Anc(par2, par[y]) = Up(par[y]) \cup Anc(par, p)
      BY <1>5, <3>1
    <3>3. Anc(par2, y) = {y} \cup Anc(par2, par[y])
      BY <1>2, <1>3, <2>2
    <3>4. Up(y) = {y} \cup Up(par[y])
      BY <1>3
    <3>. HIDE DEF Up
    <3>. QED BY <3>2, <3>3, <3>4
  <2>. QED BY <2>1, <2>2
<1>6. DOMAIN par \subseteq Good
  <2>. HIDE DEF Good
  <2>. QED BY <1>5, UpInd
<1>. QED BY <1>6

-----------------------------------------------------------------------------
(* No name is defined twice                                                *)

\* What an object defines is defined by none of its ancestors.
Apart(par, def) ==
  \A x \in DOMAIN par : \A a \in Anc(par, x) :
    a # x => ToSet(def[a]) \cap ToSet(def[x]) = {}

\* The check of chparent() is what the new hierarchy needs.
LEMMA MovedApart ==
  ASSUME NEW par, NEW height, NEW top, Ranked(par, height, top),
         NEW o, NEW p, NEW par2, Moved(par, o, p, par2),
         NEW def, Typed(par, def), Apart(par, def),
         \A n \in ToSet(Lay(par, def, p)) : \A d \in DOMAIN par :
           o \in Anc(par, d) => n \notin ToSet(def[d])
  PROVE  Apart(par2, def)
<1>1. DOMAIN par2 = DOMAIN par
  BY DEF Moved, Ranked
<1>2. ASSUME NEW x \in DOMAIN par, NEW a \in Anc(par2, x), a # x
      PROVE  ToSet(def[a]) \cap ToSet(def[x]) = {}
  <2>1. CASE a \in Anc(par, x)
    BY <1>2, <2>1 DEF Apart
  <2>2. CASE a \notin Anc(par, x)
    <3>1. o \in Anc(par, x)
      <4>1. o \notin Anc(par, x) => Anc(par2, x) = Anc(par, x)
        BY MovedOthers DEF Anc
      <4>. QED BY <1>2, <2>2, <4>1
    <3>2. a \in Anc(par, p)
      BY <1>2, <2>2, <3>1, MovedBelow
    <3>3. p \in DOMAIN par \cup {NOTHING}
      BY DEF Moved
    <3>4. \A n \in ToSet(def[a]) : n \in ToSet(Lay(par, def, p))
      BY <3>2, <3>3, LayNames DEF Typed
    <3>. QED BY <3>1, <3>4
  <2>. QED BY <2>1, <2>2
<1>. QED BY <1>1, <1>2 DEF Apart

\* A name that an object defines is not among those it inherits, and those
\* below it have none of them twice either.
LEMMA GrandparentFits ==
  ASSUME NEW par, NEW height, NEW top, Ranked(par, height, top),
         NEW def, Typed(par, def), Apart(par, def),
         NEW o \in DOMAIN par, NEW c \in DOMAIN par, par[c] = o,
         NEW n \in ToSet(Lay(par, def, par[o])), NEW d \in DOMAIN par, c \in Anc(par, d)
  PROVE  n \notin ToSet(def[d])
<1>1. par[o] \in DOMAIN par \cup {NOTHING}
  BY DEF Ranked
<1>2. PICK a \in Anc(par, par[o]) : n \in ToSet(def[a])
  BY <1>1, LayNames DEF Typed
<1>3. a \in Anc(par, o) /\ o \in Anc(par, c)
  BY <1>2, AncSet
<1>4. a \in Anc(par, c) /\ a \in Anc(par, d) /\ c \in DOMAIN par
  BY <1>3, AncOrder
<1>5. a # d
  <2>1. NOTHING \notin DOMAIN par /\ par[o] # NOTHING
    BY <1>2, AncSet DEF Ranked
  <2>2. /\ height[a] <= height[par[o]] /\ height[par[o]] < height[o] /\ height[o] < height[c]
        /\ height[c] <= height[d] /\ a \in DOMAIN par /\ par[o] \in DOMAIN par
    BY <1>1, <1>2, <2>1, AncOrder DEF Ranked
  <2>3. \A x \in DOMAIN par : height[x] \in Nat
    BY DEF Ranked
  <2>4. height[a] < height[d]
    BY <2>2, <2>3
  <2>. QED BY <2>2, <2>3, <2>4
<1>. QED BY <1>2, <1>4, <1>5 DEF Apart

-----------------------------------------------------------------------------
(* Places in the arrays                                                    *)

\* The names of an object end with those of each of its ancestors.
LEMMA LaySuffix ==
  ASSUME NEW par, NEW height, NEW top, Ranked(par, height, top),
         NEW def, Typed(par, def), NEW a \in DOMAIN par
  PROVE  \A x \in DOMAIN par : a \in Anc(par, x) =>
           \E s \in Seq(Name) : Lay(par, def, x) = s \o Lay(par, def, a)
<1>0. \A y \in DOMAIN par : Anc(par, y) = {y} \cup Anc(par, par[y])
  BY AncSet
<1>. DEFINE Ends(y) == \E s \in Seq(Name) : Lay(par, def, y) = s \o Lay(par, def, a)
            Good == {y \in DOMAIN par : a \in Anc(par, y) => Ends(y)}
<1>1. ASSUME NEW y \in DOMAIN par, par[y] = NOTHING \/ par[y] \in Good PROVE y \in Good
  <2>. SUFFICES ASSUME a \in Anc(par, y) PROVE Ends(y)
    BY Zenon
  <2>1. CASE y = a
    <3>1. Lay(par, def, a) \in Seq(Name) /\ <<>> \in Seq(Name)
      BY LayIs DEF Typed
    <3>2. Lay(par, def, a) = <<>> \o Lay(par, def, a)
      BY <3>1, ConcatEmptySeq
    <3>. QED BY <2>1, <3>1, <3>2
  <2>2. CASE y # a
    <3>1. a \in Anc(par, par[y]) /\ par[y] \in Good
      BY <1>0, <1>1, <2>2, AncSet
    <3>2. PICK s \in Seq(Name) : Lay(par, def, par[y]) = s \o Lay(par, def, a)
      BY <3>1
    <3>3. PICK q \in Seq(Name), r \in Seq(Name) : q = def[y] /\ r = Lay(par, def, a)
      BY LayIs DEF Typed
    <3>4. Lay(par, def, y) = q \o (s \o r)
      BY <3>2, <3>3, LayIs DEF Typed
    <3>5. (q \o s) \o r = q \o (s \o r) /\ q \o s \in Seq(Name)
      BY ConcatAssociative, ConcatProperties
    <3>. QED BY <3>3, <3>4, <3>5
  <2>. QED BY <2>1, <2>2
<1>2. DOMAIN par \subseteq Good
  <2>. HIDE DEF Good
  <2>. QED BY <1>1, UpInd
<1>. QED BY <1>2

\* When o moves, the names of an object at or below o up to those of o stay in
\* front, and the names of the new parent replace those of the old one.
Carried(par, def, o, p, par2, x) ==
  \E s \in Seq(Name) : /\ Lay(par, def, x) = s \o Lay(par, def, par[o])
                       /\ Lay(par2, def, x) = s \o Lay(par, def, p)

\* The names of every object at or below the one that was moved.
LEMMA MovedLay ==
  ASSUME NEW par, NEW def, Tree(par, def), NEW o, NEW p, NEW par2, Moved(par, o, p, par2)
  PROVE  \A x \in DOMAIN par : o \in Anc(par, x) => Carried(par, def, o, p, par2, x)
<1>. SUFFICES ASSUME NEW height, NEW top, Ranked(par, height, top), Typed(par, def)
              PROVE  \A x \in DOMAIN par : o \in Anc(par, x) =>
                       \E s \in Seq(Name) : /\ Lay(par, def, x) = s \o Lay(par, def, par[o])
                                            /\ Lay(par2, def, x) = s \o Lay(par, def, p)
  BY DEF Tree, Carried
<1>0. \A y \in DOMAIN par : Anc(par, y) = {y} \cup Anc(par, par[y])
  BY AncSet
<1>1. PICK height2, top2 : Ranked(par2, height2, top2)
  BY MovedRanked
<1>2. /\ o \in DOMAIN par /\ p \in DOMAIN par \cup {NOTHING} /\ o \notin Anc(par, p)
      /\ DOMAIN par2 = DOMAIN par /\ \A y \in DOMAIN par : par2[y] = IF y = o THEN p ELSE par[y]
      /\ par[o] \in DOMAIN par \cup {NOTHING}
  BY DEF Moved, Ranked
<1>3. Lay(par2, def, p) = Lay(par, def, p)
  BY <1>2, MovedOthers
<1>4. PICK r1 \in Seq(Name), r2 \in Seq(Name) : r1 = Lay(par, def, par[o]) /\ r2 = Lay(par, def, p)
  BY <1>2, LayIs DEF Typed
<1>. DEFINE Ends(y) == \E s \in Seq(Name) : Lay(par, def, y) = s \o r1 /\ Lay(par2, def, y) = s \o r2
            Good == {y \in DOMAIN par : o \in Anc(par, y) => Ends(y)}
<1>5. ASSUME NEW y \in DOMAIN par, par[y] = NOTHING \/ par[y] \in Good PROVE y \in Good
  <2>. SUFFICES ASSUME o \in Anc(par, y) PROVE Ends(y)
    BY Zenon
  <2>1. PICK q \in Seq(Name) : q = def[y]
    BY DEF Typed
  <2>2. Typed(par2, def)
    BY <1>2 DEF Typed
  <2>3. Lay(par, def, y) = q \o Lay(par, def, par[y]) /\ Lay(par2, def, y) = q \o Lay(par2, def, par2[y])
    BY <1>1, <1>2, <2>1, <2>2, LayIs DEF Typed
  <2>4. CASE y = o
    <3>1. Lay(par, def, y) = q \o r1 /\ Lay(par2, def, y) = q \o r2
      BY <1>2, <1>3, <1>4, <2>3, <2>4
    <3>. QED BY <3>1
  <2>5. CASE y # o
    <3>1. o \in Anc(par, par[y]) /\ par[y] \in Good /\ par2[y] = par[y]
      BY <1>0, <1>2, <1>5, <2>5, AncSet
    <3>2. PICK s \in Seq(Name) : Lay(par, def, par[y]) = s \o r1 /\ Lay(par2, def, par[y]) = s \o r2
      BY <3>1
    <3>3. Lay(par, def, y) = q \o (s \o r1) /\ Lay(par2, def, y) = q \o (s \o r2)
      BY <2>3, <3>1, <3>2
    <3>4. (q \o s) \o r1 = q \o (s \o r1)
      BY ConcatAssociative, SMTT(20)
    <3>5. (q \o s) \o r2 = q \o (s \o r2)
      BY ConcatAssociative, SMTT(20)
    <3>6. q \o s \in Seq(Name)
      OBVIOUS
    <3>. QED BY <3>3, <3>4, <3>5, <3>6
  <2>. QED BY <2>4, <2>5
<1>6. DOMAIN par \subseteq Good
  <2>. HIDE DEF Good
  <2>. QED BY <1>5, UpInd
<1>. QED BY <1>4, <1>6

\* How many names an object has.
Width(par, def, x) == Len(Lay(par, def, x))

\* The number of names, one object at a time.
LEMMA WidthIs ==
  ASSUME NEW par, NEW height, NEW top, Ranked(par, height, top),
         NEW def, Typed(par, def)
  PROVE  /\ Width(par, def, NOTHING) = 0
         /\ \A x \in DOMAIN par \cup {NOTHING} : Width(par, def, x) \in Nat
         /\ \A x \in DOMAIN par : /\ Width(par, def, x) = Len(def[x]) + Width(par, def, par[x])
                                  /\ Len(def[x]) \in Nat
<1>1. /\ Lay(par, def, NOTHING) = <<>>
      /\ \A x \in DOMAIN par : Lay(par, def, x) = def[x] \o Lay(par, def, par[x])
      /\ \A x \in DOMAIN par \cup {NOTHING} : Lay(par, def, x) \in Seq(Name)
  BY LayIs DEF Typed
<1>2. ASSUME NEW x \in DOMAIN par
      PROVE  Width(par, def, x) = Len(def[x]) + Width(par, def, par[x]) /\ Len(def[x]) \in Nat
  <2>1. PICK q \in Seq(Name), r \in Seq(Name) : q = def[x] /\ r = Lay(par, def, par[x])
    <3>1. par[x] \in DOMAIN par \cup {NOTHING}
      BY DEF Ranked
    <3>. QED BY <1>1, <3>1 DEF Typed
  <2>2. Len(q \o r) = Len(q) + Len(r) /\ Len(q) \in Nat
    OBVIOUS
  <2>. QED BY <1>1, <2>1, <2>2 DEF Width
<1>3. ASSUME NEW x \in DOMAIN par \cup {NOTHING} PROVE Width(par, def, x) \in Nat
  <2>1. PICK r \in Seq(Name) : r = Lay(par, def, x)
    BY <1>1
  <2>. QED BY <2>1 DEF Width
<1>4. Width(par, def, NOTHING) = 0
  BY <1>1 DEF Width
<1>. QED BY <1>2, <1>3, <1>4

\* at counts the names from an object up to root.
Counts(at, par, def, root, pos) ==
  at = [x \in AtOrBelow(par, root) |->
          IF x = root THEN pos ELSE Len(def[x]) + at[par[x]]]

\* The names are counted in a hierarchy.
Reaches(S, par, def, root, pos) ==
  /\ S.parent = par /\ S.propdefs = def
  /\ \E height, top : Ranked(par, height, top)
  /\ Typed(par, def)
  /\ root \in DOMAIN par /\ pos \in Nat

\* What Position computes.
LEMMA PositionIs ==
  ASSUME NEW S, NEW par, NEW def, NEW root, NEW pos, Reaches(S, par, def, root, pos)
  PROVE  \A d \in AtOrBelow(par, root) :
           Position(S, root, pos, d) = pos + Width(par, def, d) - Width(par, def, root)
<1>. PICK height, top : /\ Ranked(par, height, top)
                        /\ S.parent = par /\ S.propdefs = def /\ Typed(par, def)
                        /\ root \in DOMAIN par /\ pos \in Nat
  BY DEF Reaches
<1>0. /\ \A y \in DOMAIN par : Anc(par, y) = {y} \cup Anc(par, par[y])
      /\ Anc(par, NOTHING) = {}
      /\ \A x : x \in AtOrBelow(par, root) <=> x \in DOMAIN par /\ root \in Anc(par, x)
  BY AncSet DEF AtOrBelow, Anc
<1>1. ASSUME NEW x \in AtOrBelow(par, root), x # root
      PROVE  par[x] \in AtOrBelow(par, root) /\ par[x] \in DOMAIN par
  BY <1>0, <1>1 DEF Ranked
<1>2. PICK w : w = [x \in AtOrBelow(par, root) |-> pos + Width(par, def, x) - Width(par, def, root)]
  OBVIOUS
<1>3. Counts(w, par, def, root, pos)
  <2>1. ASSUME NEW x \in AtOrBelow(par, root)
        PROVE  w[x] = IF x = root THEN pos ELSE Len(def[x]) + w[par[x]]
    <3>1. x \in DOMAIN par
      BY <1>0
    <3>2. /\ Width(par, def, x) \in Nat /\ Width(par, def, root) \in Nat /\ Len(def[x]) \in Nat
          /\ Width(par, def, x) = Len(def[x]) + Width(par, def, par[x])
      BY <3>1, WidthIs
    <3>3. CASE x = root
      BY <1>2, <3>2, <3>3
    <3>4. CASE x # root
      <4>1. w[par[x]] = pos + Width(par, def, par[x]) - Width(par, def, root)
        BY <1>1, <1>2, <3>4
      <4>2. Width(par, def, par[x]) \in Nat
        BY <1>1, <3>4, WidthIs
      <4>3. w[x] = pos + Width(par, def, x) - Width(par, def, root)
        BY <1>2
      <4>. QED BY <3>2, <3>4, <4>1, <4>2, <4>3
    <3>. QED BY <3>3, <3>4
  <2>2. w = [x \in AtOrBelow(par, root) |-> w[x]]
    BY <1>2
  <2>. QED BY <2>1, <2>2, Zenon DEF Counts
<1>4. PICK at : at = CHOOSE f : Counts(f, par, def, root, pos)
  OBVIOUS
<1>5. Counts(at, par, def, root, pos)
  BY <1>3, <1>4, Zenon
<1>6. \A d : Position(S, root, pos, d) = at[d]
  BY <1>4, Zenon DEF Position, Counts
<1>. DEFINE Good == {x \in DOMAIN par : x \in AtOrBelow(par, root) => at[x] = w[x]}
<1>7. ASSUME NEW x \in DOMAIN par, par[x] = NOTHING \/ par[x] \in Good PROVE x \in Good
  <2>. SUFFICES ASSUME x \in AtOrBelow(par, root) PROVE at[x] = w[x]
    BY Zenon
  <2>1. /\ at[x] = IF x = root THEN pos ELSE Len(def[x]) + at[par[x]]
        /\ w[x] = IF x = root THEN pos ELSE Len(def[x]) + w[par[x]]
    BY <1>3, <1>5 DEF Counts
  <2>2. x # root => at[par[x]] = w[par[x]]
    BY <1>1, <1>7 DEF Ranked
  <2>. QED BY <2>1, <2>2
<1>8. DOMAIN par \subseteq Good
  <2>. HIDE DEF Good
  <2>. QED BY <1>7, UpInd
<1>9. ASSUME NEW d \in AtOrBelow(par, root)
      PROVE  Position(S, root, pos, d) = pos + Width(par, def, d) - Width(par, def, root)
  <2>1. at[d] = w[d]
    BY <1>0, <1>8
  <2>2. w[d] = pos + Width(par, def, d) - Width(par, def, root)
    BY <1>2
  <2>. QED BY <1>6, <2>1, <2>2
<1>. QED BY <1>9

-----------------------------------------------------------------------------
(* What fix_props() computes                                               *)

\* Three sequences one after another.
LEMMA ThreeParts ==
  ASSUME NEW E, NEW a \in Seq(E), NEW b \in Seq(E), NEW c \in Seq(E),
         NEW s, s = a \o b \o c
  PROVE  /\ s \in Seq(E) /\ Len(s) = Len(a) + Len(b) + Len(c)
         /\ \A i \in 1..Len(a) : s[i] = a[i]
         /\ \A i \in 1..Len(b) : s[Len(a) + i] = b[i]
         /\ \A i \in 1..Len(c) : s[Len(a) + Len(b) + i] = c[i]
<1>1. PICK ab \in Seq(E) : ab = a \o b
  <2>1. a \o b \in Seq(E)
    OBVIOUS
  <2>. QED BY <2>1
<1>2. /\ Len(ab) = Len(a) + Len(b) /\ Len(a) \in Nat /\ Len(b) \in Nat /\ Len(c) \in Nat
      /\ \A i \in 1..Len(a) : ab[i] = a[i]
      /\ \A i \in 1..Len(b) : ab[Len(a) + i] = b[i]
  BY <1>1
<1>3. s \in Seq(E) /\ s = ab \o c
  <2>1. ab \o c \in Seq(E)
    OBVIOUS
  <2>. QED BY <1>1, <2>1
<1>4. /\ Len(s) = Len(ab) + Len(c)
      /\ \A i \in 1..Len(ab) : s[i] = ab[i]
      /\ \A i \in 1..Len(c) : s[Len(ab) + i] = c[i]
  BY <1>3
<1>5. \A i \in 1..Len(a) : s[i] = a[i]
  BY <1>2, <1>4
<1>6. \A i \in 1..Len(b) : s[Len(a) + i] = b[i]
  BY <1>2, <1>4
<1>7. \A i \in 1..Len(c) : s[Len(a) + Len(b) + i] = c[i]
  BY <1>2, <1>4
<1>8. Len(s) = Len(a) + Len(b) + Len(c)
  BY <1>2, <1>4
<1>. QED BY <1>3, <1>5, <1>6, <1>7, <1>8

\* Who may own an object or a value.
Owner == Player \cup Obj

\* A value that is inherited is clear, and inheriting it once more makes no
\* difference.
LEMMA InheritedIs ==
  ASSUME NEW pval \in Pval, NEW d, owner[d] \in Owner
  PROVE  /\ Inherited(pval, d) \in Pval
         /\ Inherited(pval, d).var = Clear
         /\ \A e : Inherited(Inherited(pval, d), e) = Inherited(pval, e)
<1>1. pval.owner \in Player \cup Obj /\ pval.chown \in BOOLEAN
  BY DEF Pval
<1>2. PICK w : w = IF pval.chown THEN owner[d] ELSE pval.owner
  OBVIOUS
<1>3. w \in Player \cup Obj
  BY <1>1, <1>2 DEF Owner
<1>4. PICK q : q = Inherited(pval, d)
  OBVIOUS
<1>5. q = [var |-> Clear, chown |-> pval.chown, owner |-> w]
  BY <1>2, <1>4 DEF Inherited
<1>6. q \in Pval /\ q.var = Clear
  BY <1>1, <1>3, <1>5 DEF Pval
<1>7. q.chown = pval.chown /\ (~pval.chown => q.owner = pval.owner)
  BY <1>2, <1>5
<1>8. ASSUME NEW e PROVE Inherited(q, e) = Inherited(pval, e)
  <2>1. (IF q.chown THEN owner[e] ELSE q.owner) = (IF pval.chown THEN owner[e] ELSE pval.owner)
    BY <1>7
  <2>. QED BY <1>7, <2>1 DEF Inherited
<1>. QED BY <1>4, <1>6, <1>8

\* The new array of d: loc values of u, new ones from base, and common of u.
Refit(u, loc, old, new, common, base, d) ==
  SubSeq(u, 1, loc) \o [i \in 1..new |-> Inherited(base[i], d)]
    \o SubSeq(u, loc + old + 1, loc + old + common)

\* The parts are there ...
CanRefit(u, loc, old, new, common, base, d) ==
  /\ loc \in Nat /\ old \in Nat /\ new \in Nat /\ common \in Nat
  /\ u \in Seq(Pval) /\ Len(u) = loc + old + common
  /\ base \in Seq(Pval) /\ new <= Len(base)
  /\ owner[d] \in Owner

\* ... and v is made of them.
Refitted(v, u, loc, old, new, common, base, d) ==
  /\ v \in Seq(Pval) /\ Len(v) = loc + new + common
  /\ \A i \in 1..loc : v[i] = u[i]
  /\ \A i \in 1..new : v[loc + i] = Inherited(base[i], d)
  /\ \A i \in 1..common : v[loc + new + i] = u[loc + old + i]

\* What SubSeq and \o make of an array that is long enough.
LEMMA RefitIs ==
  ASSUME NEW u, NEW loc, NEW old, NEW new, NEW common, NEW base, NEW d,
         CanRefit(u, loc, old, new, common, base, d)
  PROVE  Refitted(Refit(u, loc, old, new, common, base, d), u, loc, old, new, common, base, d)
<1>0. /\ loc \in Nat /\ old \in Nat /\ new \in Nat /\ common \in Nat
      /\ u \in Seq(Pval) /\ Len(u) = loc + old + common
      /\ base \in Seq(Pval) /\ new <= Len(base)
      /\ owner[d] \in Owner
  BY DEF CanRefit
<1>. USE <1>0
<1>1. PICK a : a = SubSeq(u, 1, loc)
  OBVIOUS
<1>2. a \in Seq(Pval) /\ Len(a) = loc /\ \A i \in 1..loc : a[i] = u[i]
  <2>1. \A i \in 1..loc : u[i] \in Pval
    OBVIOUS
  <2>. QED BY <1>1, <2>1, SubSeqProperties
<1>3. PICK b : b = [i \in 1..new |-> Inherited(base[i], d)]
  OBVIOUS
<1>4. b \in Seq(Pval) /\ Len(b) = new /\ \A i \in 1..new : b[i] = Inherited(base[i], d)
  <2>1. \A i \in 1..new : base[i] \in Pval
    OBVIOUS
  <2>2. \A i \in 1..new : Inherited(base[i], d) \in Pval
    BY <2>1, InheritedIs
  <2>. QED BY <1>3, <2>2
<1>5. PICK c : c = SubSeq(u, loc + old + 1, loc + old + common)
  OBVIOUS
<1>6. c \in Seq(Pval) /\ Len(c) = common /\ \A i \in 1..common : c[i] = u[loc + old + i]
  <2>1. PICK m \in Nat, n \in Nat : m = loc + old + 1 /\ n = loc + old + common
    OBVIOUS
  <2>2. \A i \in m..n : u[i] \in Pval
    BY <2>1
  <2>3. /\ c \in Seq(Pval)
        /\ Len(c) = IF m <= n THEN n - m + 1 ELSE 0
        /\ \A i \in 1..(n - m + 1) : c[i] = u[m + i - 1]
    BY <1>5, <2>1, <2>2, SubSeqProperties
  <2>4. Len(c) = common /\ n - m + 1 = common
    BY <2>1, <2>3
  <2>5. \A i \in 1..common : m + i - 1 = loc + old + i
    BY <2>1
  <2>. QED BY <2>3, <2>4, <2>5
<1>7. PICK v : v = Refit(u, loc, old, new, common, base, d)
  OBVIOUS
<1>8. v = a \o b \o c
  BY <1>1, <1>3, <1>5, <1>7 DEF Refit
<1>9. /\ v \in Seq(Pval) /\ Len(v) = Len(a) + Len(b) + Len(c)
      /\ \A i \in 1..Len(a) : v[i] = a[i]
      /\ \A i \in 1..Len(b) : v[Len(a) + i] = b[i]
      /\ \A i \in 1..Len(c) : v[Len(a) + Len(b) + i] = c[i]
  <2>1. a \in Seq(Pval) /\ b \in Seq(Pval) /\ c \in Seq(Pval)
    BY <1>2, <1>4, <1>6
  <2>. QED BY ONLY <1>8, <2>1, ThreeParts
<1>10. Refitted(v, u, loc, old, new, common, base, d)
  <2>1. v \in Seq(Pval) /\ Len(v) = loc + new + common
    BY ONLY <1>2, <1>4, <1>6, <1>9
  <2>2. \A i \in 1..loc : v[i] = u[i]
    BY ONLY <1>2, <1>9
  <2>3. \A i \in 1..new : v[loc + i] = Inherited(base[i], d)
    BY ONLY <1>2, <1>4, <1>9
  <2>4. \A i \in 1..common : v[loc + new + i] = u[loc + old + i]
    BY ONLY <1>2, <1>4, <1>6, <1>9
  <2>. QED BY ONLY <2>1, <2>2, <2>3, <2>4 DEF Refitted
<1>. QED BY <1>7, <1>10

\* A state of the database.
State(par, def, val) == [parent |-> par, propdefs |-> def, propval |-> val]

\* Changing one part of it.
WithArrays(S, v)   == [S EXCEPT !.propval = v]

\* A state with other names for o.
WithNames(S, o, n) == [S EXCEPT !.propdefs[o] = n]

\* What WithArrays does to a state.
LEMMA NewArrays ==
  ASSUME NEW par, NEW def, NEW val, NEW v, NEW S, S = State(par, def, val)
  PROVE  WithArrays(S, v) = State(par, def, v)
BY DEF State, WithArrays

\* The new array of d, given its parent's.
Body(S, o, old, new, common, parents_array, d) ==
  SubSeq(S.propval[d], 1, Position(S, o, Len(S.propdefs[o]), d))
  \o [i \in 1..new |->
        Inherited(parents_array[Position(S, o, Len(S.propdefs[o]), d) - Len(S.propdefs[d]) + i], d)]
  \o SubSeq(S.propval[d], Position(S, o, Len(S.propdefs[o]), d) + old + 1,
                          Position(S, o, Len(S.propdefs[o]), d) + old + common)

\* fixed is a function that the definition of fix_props asks for.
Fixes(fixed, S, o, old, new, common) ==
  fixed = [d \in AtOrBelow(S.parent, o) |->
             Body(S, o, old, new, common,
                  IF d # o THEN fixed[S.parent[d]]
                  ELSE IF S.parent[o] = NOTHING THEN <<>>
                  ELSE S.propval[S.parent[o]], d)]

\* The one that fix_props takes.
Fixed(S, o, old, new, common) == CHOOSE f : Fixes(f, S, o, old, new, common)

\* fix_props() replaces the arrays at and below o by those of Fixed.
LEMMA FixPropsIs ==
  ASSUME NEW par, NEW def, NEW val, NEW S, S = State(par, def, val),
         NEW o, NEW old, NEW new, NEW common, NEW fixed, fixed = Fixed(S, o, old, new, common)
  PROVE  fix_props(S, o, old, new, common)
         = State(par, def, [d \in DOMAIN par |-> IF d \in AtOrBelow(par, o) THEN fixed[d] ELSE val[d]])
<1>1. fix_props(S, o, old, new, common)
      = [S EXCEPT !.propval = [d \in DOMAIN S.parent |->
           IF d \in AtOrBelow(S.parent, o)
           THEN Fixed(S, o, old, new, common)[d] ELSE S.propval[d]]]
  BY Zenon DEF fix_props, Fixes, Fixed, Body
<1>2. S.parent = par /\ S.propdefs = def /\ S.propval = val
  BY DEF State
<1>3. PICK v : v = [d \in DOMAIN S.parent |->
                      IF d \in AtOrBelow(S.parent, o)
                      THEN Fixed(S, o, old, new, common)[d] ELSE S.propval[d]]
  OBVIOUS
<1>4. fix_props(S, o, old, new, common) = [S EXCEPT !.propval = v]
  BY <1>1, <1>3
<1>5. [S EXCEPT !.propval = v] = State(par, def, v)
  BY DEF State
<1>6. v = [d \in DOMAIN par |-> IF d \in AtOrBelow(par, o) THEN fixed[d] ELSE val[d]]
  BY <1>2, <1>3
<1>. QED BY <1>4, <1>5, <1>6

\* How many names an object at or below o has up to those of o.
Local(par, def, o, d) == Len(def[o]) + Width(par, def, d) - Width(par, def, o)

\* The number of local properties, one object at a time.
LEMMA LocalIs ==
  ASSUME NEW par, NEW height, NEW top, Ranked(par, height, top), NEW def, Typed(par, def),
         NEW o \in DOMAIN par, NEW d \in AtOrBelow(par, o)
  PROVE  /\ d \in DOMAIN par /\ o \in Anc(par, d)
         /\ Local(par, def, o, d) \in Nat
         /\ Len(def[d]) \in Nat /\ Len(def[d]) <= Local(par, def, o, d)
         /\ d = o => Local(par, def, o, d) = Len(def[d])
         /\ d # o => /\ par[d] \in AtOrBelow(par, o) /\ par[d] \in DOMAIN par
                     /\ Local(par, def, o, d) = Len(def[d]) + Local(par, def, o, par[d])
<1>0. /\ \A y \in DOMAIN par : Anc(par, y) = {y} \cup Anc(par, par[y])
      /\ Anc(par, NOTHING) = {}
      /\ \A x : x \in AtOrBelow(par, o) <=> x \in DOMAIN par /\ o \in Anc(par, x)
  BY AncSet DEF AtOrBelow, Anc
<1>1. \A x \in DOMAIN par : /\ Width(par, def, x) \in Nat /\ Len(def[x]) \in Nat
                            /\ Width(par, def, x) = Len(def[x]) + Width(par, def, par[x])
  BY WidthIs
<1>2. ASSUME NEW x \in AtOrBelow(par, o) PROVE Width(par, def, x) >= Width(par, def, o)
  <2>1. x \in DOMAIN par /\ o \in Anc(par, x)
    BY <1>0
  <2>2. PICK s \in Seq(Name) : Lay(par, def, x) = s \o Lay(par, def, o)
    BY <2>1, LaySuffix
  <2>3. PICK r \in Seq(Name) : r = Lay(par, def, o)
    BY LayIs DEF Typed
  <2>4. Len(s \o r) = Len(s) + Len(r) /\ Len(s) \in Nat /\ Len(r) \in Nat
    OBVIOUS
  <2>. QED BY <2>2, <2>3, <2>4 DEF Width
<1>3. d \in DOMAIN par /\ o \in Anc(par, d)
  BY <1>0
<1>4. d = o => Local(par, def, o, d) = Len(def[d])
  BY <1>1, <1>3 DEF Local
<1>5. ASSUME d # o
      PROVE  /\ par[d] \in AtOrBelow(par, o) /\ par[d] \in DOMAIN par
             /\ Local(par, def, o, d) = Len(def[d]) + Local(par, def, o, par[d])
             /\ Local(par, def, o, par[d]) \in Nat
  <2>1. par[d] \in AtOrBelow(par, o) /\ par[d] \in DOMAIN par
    BY <1>0, <1>3, <1>5 DEF Ranked
  <2>2. /\ Width(par, def, par[d]) \in Nat /\ Width(par, def, o) \in Nat /\ Len(def[o]) \in Nat
        /\ Width(par, def, par[d]) >= Width(par, def, o)
    BY <1>1, <1>2, <2>1
  <2>3. /\ Width(par, def, d) = Len(def[d]) + Width(par, def, par[d])
        /\ Len(def[d]) \in Nat
    BY <1>1, <1>3
  <2>4. /\ Local(par, def, o, d) = Len(def[d]) + Local(par, def, o, par[d])
        /\ Local(par, def, o, par[d]) \in Nat
    BY ONLY <2>2, <2>3 DEF Local
  <2>. QED BY <2>1, <2>4
<1>6. Local(par, def, o, d) \in Nat /\ Len(def[d]) <= Local(par, def, o, d) /\ Len(def[d]) \in Nat
  <2>1. CASE d = o
    BY <1>1, <1>3, <1>4, <2>1
  <2>2. CASE d # o
    BY <1>1, <1>3, <1>5, <2>2
  <2>. QED BY <2>1, <2>2
<1>. QED BY <1>3, <1>4, <1>5, <1>6

\* What fix_props() computes: whatever the parent's array went through, d gets
\* what it would inherit from the new parent of o directly.
CanFix(par, def, val, o, old, new, common, base) ==
  /\ \E height, top : Ranked(par, height, top)
  /\ Typed(par, def)
  /\ o \in DOMAIN par
  /\ base \in Seq(Pval) /\ base = IF par[o] = NOTHING THEN <<>> ELSE val[par[o]]
  /\ old \in Nat /\ new \in Nat /\ common \in Nat /\ new <= Len(base)
  /\ \A d \in AtOrBelow(par, o) : /\ val[d] \in Seq(Pval) /\ owner[d] \in Owner
                                  /\ Len(val[d]) = Local(par, def, o, d) + old + common

\* The recursion of fix_props() gives the same as inheriting from the array of
\* o's parent at once, by induction from o down.
LEMMA FixedIs ==
  ASSUME NEW par, NEW def, NEW val, NEW S, S = State(par, def, val),
         NEW o, NEW old, NEW new, NEW common, NEW base,
         CanFix(par, def, val, o, old, new, common, base)
  PROVE  \A d \in AtOrBelow(par, o) :
           Fixed(S, o, old, new, common)[d]
             = Refit(val[d], Local(par, def, o, d), old, new, common, base, d)
<1>. SUFFICES ASSUME NEW height, NEW top, Ranked(par, height, top), Typed(par, def), o \in DOMAIN par,
                     base \in Seq(Pval), base = IF par[o] = NOTHING THEN <<>> ELSE val[par[o]],
                     old \in Nat, new \in Nat, common \in Nat, new <= Len(base),
                     \A d \in AtOrBelow(par, o) : /\ val[d] \in Seq(Pval) /\ owner[d] \in Owner
                                                  /\ Len(val[d]) = Local(par, def, o, d) + old + common
              PROVE  \A d \in AtOrBelow(par, o) :
                       Fixed(S, o, old, new, common)[d]
                         = Refit(val[d], Local(par, def, o, d), old, new, common, base, d)
  BY DEF CanFix
<1>0. S.parent = par /\ S.propdefs = def /\ S.propval = val
  BY DEF State
<1>1. PICK Below : Below = AtOrBelow(par, o)
  OBVIOUS
<1>2. PICK loc : loc = [d \in Below |-> Local(par, def, o, d)]
  OBVIOUS
<1>3. \A d \in Below : /\ d \in DOMAIN par /\ loc[d] \in Nat /\ Len(def[d]) \in Nat
                       /\ Len(def[d]) <= loc[d]
                       /\ d = o => loc[d] = Len(def[d])
                       /\ d # o => par[d] \in Below /\ loc[d] = Len(def[d]) + loc[par[d]]
  BY <1>1, <1>2, LocalIs
<1>4. \A d \in Below : Position(S, o, Len(S.propdefs[o]), d) = loc[d]
  <2>1. Len(def[o]) \in Nat
    BY WidthIs
  <2>2. PICK pos \in Nat : pos = Len(def[o])
    BY <2>1
  <2>3. \A d \in AtOrBelow(par, o) : Position(S, o, pos, d) = pos + Width(par, def, d) - Width(par, def, o)
    <3>1. Reaches(S, par, def, o, pos)
      BY <1>0 DEF Reaches
    <3>. QED BY <3>1, PositionIs
  <2>. QED BY <1>0, <1>1, <1>2, <2>2, <2>3 DEF Local
<1>5. PICK w : w = [d \in Below |-> Refit(val[d], loc[d], old, new, common, base, d)]
  OBVIOUS
<1>6. \A d \in Below : /\ Len(w[d]) = loc[d] + new + common
                       /\ \A i \in 1..new : w[d][loc[d] + i] = Inherited(base[i], d)
  <2>. SUFFICES ASSUME NEW d \in Below
                PROVE  /\ Len(w[d]) = loc[d] + new + common
                       /\ \A i \in 1..new : w[d][loc[d] + i] = Inherited(base[i], d)
    OBVIOUS
  <2>1. PICK u \in Seq(Pval), l \in Nat : u = val[d] /\ l = loc[d] /\ Len(u) = l + old + common
    BY <1>1, <1>2, <1>3
  <2>2. owner[d] \in Owner
    BY <1>1
  <2>3. PICK v : v = Refit(u, l, old, new, common, base, d)
    OBVIOUS
  <2>4. Len(v) = l + new + common /\ \A i \in 1..new : v[l + i] = Inherited(base[i], d)
    <3>1. CanRefit(u, l, old, new, common, base, d)
      BY <2>1, <2>2 DEF CanRefit
    <3>2. Refitted(v, u, l, old, new, common, base, d)
      BY <2>3, <3>1, RefitIs
    <3>. QED BY <3>2 DEF Refitted
  <2>5. w[d] = v
    BY <1>5, <2>1, <2>3
  <2>. QED BY <2>1, <2>4, <2>5
\* The array that d inherits from has the right values in the right places.
<1>7. ASSUME NEW d \in Below, NEW arr,
             d = o => arr = base, d # o => arr = w[par[d]]
      PROVE  Body(S, o, old, new, common, arr, d) = w[d]
  <2>1. PICK l \in Nat : l = loc[d]
    BY <1>3
  <2>2. ASSUME NEW i \in 1..new PROVE Inherited(arr[l - Len(def[d]) + i], d) = Inherited(base[i], d)
    <3>1. CASE d = o
      <4>1. l - Len(def[d]) + i = i
        BY <1>3, <2>1, <3>1
      <4>. QED BY <1>7, <3>1, <4>1
    <3>2. CASE d # o
      <4>1. l - Len(def[d]) + i = loc[par[d]] + i /\ par[d] \in Below
        BY <1>3, <2>1, <3>2
      <4>2. arr[l - Len(def[d]) + i] = Inherited(base[i], par[d])
        BY <1>6, <1>7, <3>2, <4>1
      <4>3. base[i] \in Pval
        OBVIOUS
      <4>4. owner[par[d]] \in Owner
        BY <1>1, <4>1
      <4>. QED BY <4>2, <4>3, <4>4, InheritedIs
    <3>. QED BY <3>1, <3>2
  <2>3. PICK f : f = [i \in 1..new |-> Inherited(arr[l - Len(def[d]) + i], d)]
    OBVIOUS
  <2>4. f = [i \in 1..new |-> Inherited(base[i], d)]
    BY <2>2, <2>3
  <2>5. Body(S, o, old, new, common, arr, d)
        = SubSeq(val[d], 1, l) \o f \o SubSeq(val[d], l + old + 1, l + old + common)
    BY <1>0, <1>4, <2>1, <2>3 DEF Body
  <2>6. w[d] = Refit(val[d], l, old, new, common, base, d)
    BY <1>5, <2>1
  <2>. QED BY <2>4, <2>5, <2>6 DEF Refit
<1>. DEFINE Arr(f, d) == IF d # o THEN f[S.parent[d]]
                         ELSE IF S.parent[o] = NOTHING THEN <<>> ELSE S.propval[S.parent[o]]
<1>8. Fixes(w, S, o, old, new, common)
  <2>1. \A d \in Below : w[d] = Body(S, o, old, new, common, Arr(w, d), d)
    <3>. TAKE d \in Below
    <3>1. PICK arr : arr = Arr(w, d)
      OBVIOUS
    <3>2. (d = o => arr = base) /\ (d # o => arr = w[par[d]])
      BY <1>0, <3>1
    <3>3. Body(S, o, old, new, common, arr, d) = w[d]
      BY <1>7, <3>2
    <3>. QED BY <3>1, <3>3
  <2>2. w = [d \in Below |-> w[d]]
    BY <1>5
  <2>3. w = [d \in Below |-> Body(S, o, old, new, common, Arr(w, d), d)]
    <3>. HIDE DEF Arr
    <3>. QED BY <2>1, <2>2, Zenon
  <2>4. Below = AtOrBelow(S.parent, o)
    BY <1>0, <1>1
  <2>. QED BY <2>3, <2>4, Zenon DEF Fixes
<1>9. PICK fixed : fixed = Fixed(S, o, old, new, common)
  OBVIOUS
<1>10. Fixes(fixed, S, o, old, new, common)
  BY <1>8, <1>9, Zenon DEF Fixed
<1>11. \A d \in Below : fixed[d] = Body(S, o, old, new, common, Arr(fixed, d), d)
  BY <1>0, <1>1, <1>10 DEF Fixes
<1>. DEFINE Good == {d \in DOMAIN par : d \in Below => fixed[d] = w[d]}
<1>12. ASSUME NEW d \in DOMAIN par, par[d] = NOTHING \/ par[d] \in Good PROVE d \in Good
  <2>. SUFFICES ASSUME d \in Below PROVE fixed[d] = w[d]
    BY Zenon
  <2>1. d # o => fixed[par[d]] = w[par[d]]
    <3>1. d # o => par[d] \in Below /\ par[d] # NOTHING
      BY <1>3 DEF Ranked
    <3>. QED BY <1>12, <3>1
  <2>2. PICK arr : arr = Arr(fixed, d)
    OBVIOUS
  <2>3. (d = o => arr = base) /\ (d # o => arr = w[par[d]])
    BY <1>0, <2>1, <2>2
  <2>4. Body(S, o, old, new, common, arr, d) = w[d]
    BY <1>7, <2>3
  <2>. HIDE DEF Arr
  <2>. QED BY <1>11, <2>2, <2>4
<1>13. DOMAIN par \subseteq Good
  <2>. HIDE DEF Good
  <2>. QED BY <1>12, UpInd
<1>14. ASSUME NEW d \in Below
       PROVE  fixed[d] = Refit(val[d], Local(par, def, o, d), old, new, common, base, d)
  <2>1. fixed[d] = w[d]
    BY <1>3, <1>13
  <2>. QED BY <1>2, <1>5, <2>1
<1>. QED BY <1>1, <1>9, <1>14

-----------------------------------------------------------------------------
(* The nearest common ancestor                                             *)

\* What follows an ancestor in the list are its own ancestors.
LEMMA AncestorsFrom ==
  ASSUME NEW par, NEW height, NEW top, Ranked(par, height, top)
  PROVE  \A x \in DOMAIN par : \A i \in 1..Len(Ancestors(par, x)) : \A b \in Anc(par, x) :
           b \in Anc(par, Ancestors(par, x)[i]) \/ \E j \in 1..(i - 1) : Ancestors(par, x)[j] = b
<1>0. /\ \A y \in DOMAIN par : Anc(par, y) = {y} \cup Anc(par, par[y])
      /\ Anc(par, NOTHING) = {}
  BY AncSet
<1>. DEFINE Splits(y) == \A i \in 1..Len(Ancestors(par, y)) : \A b \in Anc(par, y) :
              b \in Anc(par, Ancestors(par, y)[i]) \/ \E j \in 1..(i - 1) : Ancestors(par, y)[j] = b
            Good == {y \in DOMAIN par : Splits(y)}
<1>1. ASSUME NEW y \in DOMAIN par, par[y] = NOTHING \/ par[y] \in Good PROVE y \in Good
  <2>1. par[y] \in DOMAIN par \cup {NOTHING}
    BY DEF Ranked
  <2>2. PICK r \in Seq(DOMAIN par) : r = Ancestors(par, par[y])
    BY <2>1, AncestorsAre
  <2>3. PICK s \in Seq(DOMAIN par) : s = <<y>> \o r /\ s = Ancestors(par, y)
    BY <2>2, AncestorsAre
  <2>4. Len(s) = Len(r) + 1 /\ Len(r) \in Nat /\ s[1] = y /\ \A i \in 1..Len(r) : s[i + 1] = r[i]
    BY <2>3
  <2>5. ASSUME NEW i \in 1..Len(s), NEW b \in Anc(par, y)
        PROVE  b \in Anc(par, s[i]) \/ \E j \in 1..(i - 1) : s[j] = b
    <3>1. CASE i = 1
      BY <2>4, <3>1
    <3>2. CASE i # 1 /\ b = y
      <4>1. 1 \in 1..(i - 1)
        BY <2>4, <3>2
      <4>. QED BY <2>4, <3>2, <4>1
    <3>3. CASE i # 1 /\ b # y
      <4>1. b \in Anc(par, par[y]) /\ par[y] \in Good
        BY <1>0, <1>1, <3>3
      <4>2. PICK k \in 1..Len(r) : i = k + 1
        <5>1. i - 1 \in 1..Len(r) /\ i = (i - 1) + 1
          BY <2>4, <3>3
        <5>. QED BY <5>1
      <4>3. b \in Anc(par, r[k]) \/ \E j \in 1..(k - 1) : r[j] = b
        BY <2>2, <4>1
      <4>4. \A j \in 1..(k - 1) : j + 1 \in 1..(i - 1) /\ s[j + 1] = r[j]
        BY <2>4, <4>2
      <4>5. s[i] = r[k]
        BY <2>4, <4>2
      <4>. QED BY <4>3, <4>4, <4>5
    <3>. QED BY <3>1, <3>2, <3>3
  <2>6. Splits(y)
    BY <2>3, <2>5
  <2>. QED BY <2>6
<1>2. DOMAIN par \subseteq Good
  <2>. HIDE DEF Good
  <2>. QED BY <1>1, UpInd
<1>. QED BY <1>2

\* CommonProps counts the names of the object whose ancestors are those that
\* the two have in common, if there is one.
Meets(par, def, S, p, q) ==
  \E a \in DOMAIN par \cup {NOTHING} :
    /\ Anc(par, a) = Anc(par, p) \cap Anc(par, q)
    /\ CommonProps(S, q, p) = Width(par, def, a)

\* The loop over the ancestors of both parents finds the nearest common one.
LEMMA CommonPropsIs ==
  ASSUME NEW par, NEW def, Tree(par, def), NEW val, NEW S, S = State(par, def, val),
         NEW p \in DOMAIN par \cup {NOTHING}, NEW q \in DOMAIN par \cup {NOTHING}
  PROVE  Meets(par, def, S, p, q)
<1>. SUFFICES ASSUME NEW height, NEW top, Ranked(par, height, top), Typed(par, def)
              PROVE  \E a \in DOMAIN par \cup {NOTHING} :
                       /\ Anc(par, a) = Anc(par, p) \cap Anc(par, q)
                       /\ CommonProps(S, q, p) = Width(par, def, a)
  BY DEF Tree, Meets
<1>0. S.parent = par /\ S.propdefs = def
  BY DEF State
<1>1. PICK news \in Seq(DOMAIN par) : news = Ancestors(par, p)
  BY AncestorsAre
<1>2. PICK I : I = {i \in 1..Len(news) : news[i] \in Anc(par, q)}
  OBVIOUS
<1>3. CommonProps(S, q, p)
      = LET i == IF I # {} THEN Min(I) ELSE 0
        IN  IF i = 0 THEN 0 ELSE Len(Layout(S, news[i]))
  BY <1>0, <1>1, <1>2 DEF CommonProps, SelectInSeq, dbpriv_count_properties, Anc
<1>4. \A x : Layout(S, x) = Lay(par, def, x)
  BY <1>0, LayoutIs
<1>5. /\ \A y \in DOMAIN par : Anc(par, y) = {y} \cup Anc(par, par[y])
      /\ Anc(par, NOTHING) = {}
      /\ Anc(par, q) \subseteq DOMAIN par
  BY AncSet
<1>6. \A b : b \in Anc(par, p) <=> \E i \in 1..Len(news) : news[i] = b
  BY <1>1, ToSetIs DEF Anc
<1>7. CASE I = {}
  <2>1. CommonProps(S, q, p) = 0
    BY <1>3, <1>7
  <2>2. Anc(par, p) \cap Anc(par, q) = {}
    BY <1>2, <1>6, <1>7
  <2>3. Width(par, def, NOTHING) = 0
    BY WidthIs
  <2>. QED BY <1>5, <2>1, <2>2, <2>3
<1>8. CASE I # {}
  <2>1. PICK i \in I : i = Min(I) /\ \A j \in I : i <= j
    <3>1. I \subseteq Nat
      BY <1>2
    <3>2. \E i \in I : \A j \in I : i <= j
      BY <1>8, <3>1, LeastElement
    <3>. QED BY <3>2 DEF Min
  <2>2. i \in 1..Len(news) /\ i # 0
    BY <1>2, <2>1
  <2>3. PICK a \in DOMAIN par : a = news[i]
    BY <2>2
  <2>4. a \in Anc(par, p) /\ a \in Anc(par, q)
    BY <1>2, <1>6, <2>1, <2>2, <2>3
  <2>5. CommonProps(S, q, p) = Width(par, def, a)
    BY <1>3, <1>4, <1>8, <2>1, <2>2, <2>3 DEF Width
  <2>6. p \in DOMAIN par
    BY <1>5, <2>4
  <2>7. ASSUME NEW b \in Anc(par, p) \cap Anc(par, q) PROVE b \in Anc(par, a)
    <3>1. b \in Anc(par, a) \/ \E j \in 1..(i - 1) : news[j] = b
      BY <1>1, <2>2, <2>3, <2>6, AncestorsFrom
    <3>2. ASSUME NEW j \in 1..(i - 1), news[j] = b PROVE FALSE
      <4>1. j \in 1..Len(news) /\ ~(i <= j)
        BY <2>2
      <4>2. j \in I
        BY <1>2, <3>2, <4>1
      <4>. QED BY <2>1, <4>1, <4>2
    <3>. QED BY <3>1, <3>2
  <2>8. Anc(par, a) \subseteq Anc(par, p) /\ Anc(par, a) \subseteq Anc(par, q)
    BY <2>4, AncOrder
  <2>. QED BY <2>5, <2>7, <2>8
<1>. QED BY <1>7, <1>8

-----------------------------------------------------------------------------
(* Changing a parent                                                       *)

\* The hierarchy and the names.
Hierarchy(par, def) ==
  /\ \E height, top : Ranked(par, height, top)
  /\ DOMAIN par \subseteq Obj /\ IsFiniteSet(DOMAIN par)
  /\ def \in [DOMAIN par -> Seq(Name)]
  /\ Apart(par, def)
  /\ \A x \in DOMAIN par : \A i, j \in 1..Len(def[x]) : def[x][i] = def[x][j] => i = j

\* Each array has a value for each name, and the values of the object's own
\* properties, which come first, are not clear.
Arrays(par, def, val) ==
  /\ val \in [DOMAIN par -> Seq(Pval)]
  /\ \A x \in DOMAIN par : Len(val[x]) = Width(par, def, x)
  /\ \A x \in DOMAIN par : \A i \in 1..Len(def[x]) : val[x][i].var # Clear

\* The names in a form that most lemmas ask for.
LEMMA HierarchyTyped == ASSUME NEW par, NEW def, Hierarchy(par, def) PROVE Typed(par, def)
BY DEF Hierarchy, Typed

\* The array that the new parent of o passes on.
Base(val, p) == IF p = NOTHING THEN <<>> ELSE val[p]

\* The names and the array of an object at or below o, before and after.
Swap(names, names2, val, val2, len, X, Y, Z, base, d) ==
  \E s \in Seq(Name) :
    /\ names = s \o (X \o Z) /\ names2 = s \o (Y \o Z)
    /\ len <= Len(s)
    /\ Refitted(val2, val, Len(s), Len(X), Len(Y), Len(Z), base, d)

\* What a change of parent does to the arrays: X are the names that are lost,
\* Y those that are new, and Z those of the common ancestor a.
Swapped(par, def, val, o, p, par2, val2) ==
  /\ val2 \in [DOMAIN par -> Seq(Pval)]
  /\ \A d \in DOMAIN par : o \notin Anc(par, d) => val2[d] = val[d]
  /\ \E X, Y, Z \in Seq(Name), a \in DOMAIN par \cup {NOTHING} :
       /\ Lay(par, def, par[o]) = X \o Z /\ Lay(par, def, p) = Y \o Z
       /\ Z = Lay(par, def, a) /\ Anc(par, a) = Anc(par, p) \cap Anc(par, par[o])
       /\ \A d \in DOMAIN par : o \in Anc(par, d) =>
            Swap(Lay(par, def, d), Lay(par2, def, d), val[d], val2[d], Len(def[d]),
                 X, Y, Z, Base(val, p), d)

\* Every object has an owner.
Owned(par) == \A d \in DOMAIN par : owner[d] \in Owner

\* The names of an object are others followed by those of an ancestor or none.
LEMMA LayBefore ==
  ASSUME NEW par, NEW height, NEW top, Ranked(par, height, top), NEW def, Typed(par, def),
         NEW a \in DOMAIN par \cup {NOTHING}, NEW x \in DOMAIN par \cup {NOTHING},
         Anc(par, a) \subseteq Anc(par, x)
  PROVE  \E s \in Seq(Name) : Lay(par, def, x) = s \o Lay(par, def, a)
<1>1. CASE a = NOTHING
  <2>1. PICK s \in Seq(Name) : s = Lay(par, def, x)
    BY LayIs DEF Typed
  <2>2. s = s \o <<>>
    BY ConcatEmptySeq
  <2>3. Lay(par, def, a) = <<>>
    BY <1>1, LayIs DEF Typed
  <2>. QED BY <2>1, <2>2, <2>3
<1>2. CASE a \in DOMAIN par
  <2>1. a \in Anc(par, x) /\ x \in DOMAIN par
    BY <1>2, AncSet
  <2>. QED BY <1>2, <2>1, LaySuffix
<1>. QED BY <1>1, <1>2

\* dbpriv_fix_properties_after_chparent() does what Swapped says.
LEMMA FixAfterChparent ==
  ASSUME NEW par, NEW def, NEW val, Hierarchy(par, def), Arrays(par, def, val), Owned(par),
         NEW o, NEW p, NEW par2, Moved(par, o, p, par2), NEW S, S = State(par2, def, val)
  PROVE  \E val2 : /\ dbpriv_fix_properties_after_chparent(S, o, par[o]) = State(par2, def, val2)
                   /\ Swapped(par, def, val, o, p, par2, val2)
<1>1. PICK height, top : Ranked(par, height, top)
  BY DEF Hierarchy
<1>2. PICK height2, top2 : Ranked(par2, height2, top2)
  BY <1>1, MovedRanked
<1>3. /\ o \in DOMAIN par /\ p \in DOMAIN par \cup {NOTHING} /\ o \notin Anc(par, p)
      /\ DOMAIN par2 = DOMAIN par /\ \A y \in DOMAIN par : par2[y] = IF y = o THEN p ELSE par[y]
      /\ par[o] \in DOMAIN par \cup {NOTHING} /\ par2[o] = p
  BY <1>1 DEF Moved, Ranked
<1>4. Typed(par, def) /\ Typed(par2, def)
  BY <1>3, HierarchyTyped DEF Typed
<1>5. PICK q \in DOMAIN par \cup {NOTHING} : q = par[o]
  BY <1>3
<1>6. o \notin Anc(par, q)
  <2>. SUFFICES ASSUME o \in Anc(par, q) PROVE FALSE
    OBVIOUS
  <2>1. q \in DOMAIN par
    BY <1>1, AncSet
  <2>2. height[o] <= height[q] /\ height[q] < height[o]
    BY <1>1, <1>3, <1>5, <2>1, AncOrder DEF Ranked
  <2>3. height[o] \in Nat /\ height[q] \in Nat
    BY <1>1, <1>3, <2>1 DEF Ranked
  <2>. QED BY <2>2, <2>3
<1>7. /\ Ancestors(par2, q) = Ancestors(par, q) /\ Lay(par2, def, q) = Lay(par, def, q)
      /\ Ancestors(par2, p) = Ancestors(par, p) /\ Lay(par2, def, p) = Lay(par, def, p)
  BY <1>1, <1>3, <1>4, <1>6, MovedOthers
<1>8. PICK a \in DOMAIN par \cup {NOTHING} :
        /\ Anc(par2, a) = Anc(par2, p) \cap Anc(par2, q)
        /\ CommonProps(S, q, p) = Width(par2, def, a)
  <2>1. p \in DOMAIN par2 \cup {NOTHING} /\ q \in DOMAIN par2 \cup {NOTHING}
    BY <1>3
  <2>2. Tree(par2, def)
    BY <1>2, <1>4 DEF Tree
  <2>3. Meets(par2, def, S, p, q)
    BY <2>1, <2>2, CommonPropsIs
  <2>. QED BY <1>3, <2>3 DEF Meets
<1>9. /\ Anc(par, a) = Anc(par, p) \cap Anc(par, q)
      /\ Lay(par2, def, a) = Lay(par, def, a)
  <2>1. o \notin Anc(par, a)
    <3>. SUFFICES ASSUME o \in Anc(par, a) PROVE FALSE
      OBVIOUS
    <3>1. a \in DOMAIN par
      BY <1>1, AncSet
    <3>2. a \in Anc(par2, a)
      BY <1>2, <1>3, <3>1, AncSet
    <3>3. a \in Anc(par, q)
      BY <1>7, <1>8, <3>2 DEF Anc
    <3>4. o \in Anc(par, q)
      BY <1>1, <3>3, AncOrder
    <3>. QED BY <1>6, <3>4
  <2>2. Ancestors(par2, a) = Ancestors(par, a) /\ Lay(par2, def, a) = Lay(par, def, a)
    BY <1>1, <1>4, <2>1, MovedOthers
  <2>. QED BY <1>7, <1>8, <2>2 DEF Anc
<1>10. PICK Z \in Seq(Name) : Z = Lay(par, def, a)
  BY <1>1, <1>4, LayIs DEF Typed
<1>11. PICK X \in Seq(Name) : Lay(par, def, q) = X \o Z
  BY <1>1, <1>4, <1>9, <1>10, LayBefore
<1>12. PICK Y \in Seq(Name) : Lay(par, def, p) = Y \o Z
  <2>1. p \in DOMAIN par \cup {NOTHING} /\ Anc(par, a) \subseteq Anc(par, p) /\ Typed(par, def)
    BY <1>3, <1>4, <1>9
  <2>2. \E s \in Seq(Name) : Lay(par, def, p) = s \o Lay(par, def, a)
    BY <1>1, <2>1, LayBefore
  <2>. QED BY <1>10, <2>2
<1>13. /\ Len(X) \in Nat /\ Len(Y) \in Nat /\ Len(Z) \in Nat
       /\ Len(X \o Z) = Len(X) + Len(Z) /\ Len(Y \o Z) = Len(Y) + Len(Z)
       /\ X \o Z \in Seq(Name) /\ Y \o Z \in Seq(Name)
  OBVIOUS
<1>14. PICK fixed : fixed = Fixed(S, o, Len(X), Len(Y), Len(Z))
  OBVIOUS
<1>15. PICK val2 : val2 = [d \in DOMAIN par2 |-> IF d \in AtOrBelow(par2, o) THEN fixed[d] ELSE val[d]]
  OBVIOUS
<1>16. dbpriv_fix_properties_after_chparent(S, o, q) = State(par2, def, val2)
  <2>1. S.parent = par2 /\ S.propdefs = def
    BY DEF State
  <2>2. Layout(S, q) = X \o Z /\ Layout(S, p) = Y \o Z
    <3>1. Layout(S, q) = Lay(par2, def, q)
      BY ONLY <2>1, LayoutIs
    <3>2. Layout(S, p) = Lay(par2, def, p)
      BY ONLY <2>1, LayoutIs
    <3>3. Lay(par2, def, q) = X \o Z /\ Lay(par2, def, p) = Y \o Z
      BY ONLY <1>7, <1>11, <1>12
    <3>. QED BY <3>1, <3>2, <3>3
  <2>3. CommonProps(S, q, p) = Len(Z)
    BY <1>8, <1>9, <1>10 DEF Width
  <2>4. Len(X \o Z) - Len(Z) = Len(X) /\ Len(Y \o Z) - Len(Z) = Len(Y)
    BY <1>13
  <2>5. dbpriv_fix_properties_after_chparent(S, o, q) = fix_props(S, o, Len(X), Len(Y), Len(Z))
    BY <1>3, <2>1, <2>2, <2>3, <2>4 DEF dbpriv_fix_properties_after_chparent, dbpriv_count_properties
  <2>. QED BY <1>14, <1>15, <2>5, FixPropsIs
<1>17. \A d : d \in AtOrBelow(par2, o) <=> d \in DOMAIN par /\ o \in Anc(par, d)
  <2>1. ASSUME NEW d \in DOMAIN par PROVE o \in Anc(par2, d) <=> o \in Anc(par, d)
    <3>1. CASE o \in Anc(par, d)
      <4>1. o \in Anc(par, o)
        BY <1>1, <1>3, AncSet
      <4>. QED BY <1>1, <3>1, <4>1, MovedBelow
    <3>2. CASE o \notin Anc(par, d)
      <4>1. Anc(par2, d) = Anc(par, d)
        BY <1>1, <1>4, <3>2, MovedOthers DEF Anc
      <4>. QED BY <4>1
    <3>. QED BY <3>1, <3>2
  <2>. QED BY <1>3, <2>1 DEF AtOrBelow, Anc
<1>18. PICK base \in Seq(Pval) : base = Base(val, p) /\ Len(base) = Len(Y \o Z)
  <2>1. CASE p = NOTHING
    <3>1. Y \o Z = <<>> /\ Base(val, p) = <<>>
      BY <1>1, <1>4, <1>12, <2>1, LayIs DEF Typed, Base
    <3>2. <<>> \in Seq(Pval)
      OBVIOUS
    <3>. QED BY <3>1, <3>2
  <2>2. CASE p # NOTHING
    <3>1. p \in DOMAIN par /\ Base(val, p) = val[p]
      BY <1>3, <2>2 DEF Base
    <3>2. val[p] \in Seq(Pval) /\ Len(val[p]) = Len(Lay(par, def, p))
      BY <3>1 DEF Arrays, Width
    <3>. QED BY <1>12, <3>1, <3>2
  <2>. QED BY <2>1, <2>2
\* The names of an object at or below o.
<1>19. ASSUME NEW d \in DOMAIN par, o \in Anc(par, d)
       PROVE  \E s \in Seq(Name) :
                /\ Lay(par, def, d) = s \o (X \o Z) /\ Lay(par2, def, d) = s \o (Y \o Z)
                /\ Len(s) = Local(par2, def, o, d) /\ Len(def[d]) <= Len(s)
                /\ Len(val[d]) = Len(s) + Len(X) + Len(Z) /\ val[d] \in Seq(Pval)
  <2>1. PICK s \in Seq(Name) : Lay(par, def, d) = s \o (X \o Z) /\ Lay(par2, def, d) = s \o (Y \o Z)
    <3>1. Tree(par, def)
      BY <1>1, <1>4 DEF Tree
    <3>2. Carried(par, def, o, p, par2, d)
      BY <1>19, <3>1, MovedLay
    <3>3. PICK s \in Seq(Name) : /\ Lay(par, def, d) = s \o Lay(par, def, par[o])
                                 /\ Lay(par2, def, d) = s \o Lay(par, def, p)
      BY <3>2 DEF Carried
    <3>. QED BY <1>5, <1>11, <1>12, <3>3
  <2>2. /\ Len(s \o (X \o Z)) = Len(s) + (Len(X) + Len(Z))
        /\ Len(s \o (Y \o Z)) = Len(s) + (Len(Y) + Len(Z)) /\ Len(s) \in Nat
    BY <1>13
  <2>3. Width(par2, def, d) = Len(s) + (Len(Y) + Len(Z)) /\ Width(par, def, d) = Len(s) + (Len(X) + Len(Z))
    BY <2>1, <2>2 DEF Width
  <2>4. Width(par2, def, o) = Len(def[o]) + (Len(Y) + Len(Z)) /\ Len(def[o]) \in Nat
    <3>1. Width(par2, def, o) = Len(def[o]) + Width(par2, def, p) /\ Len(def[o]) \in Nat
      BY <1>2, <1>3, <1>4, WidthIs
    <3>2. Width(par2, def, p) = Len(Y) + Len(Z)
      BY <1>7, <1>12, <1>13 DEF Width
    <3>. QED BY <3>1, <3>2
  <2>5. Local(par2, def, o, d) = Len(s)
    BY <1>13, <2>2, <2>3, <2>4 DEF Local
  <2>6. Len(def[d]) <= Local(par2, def, o, d)
    <3>1. d \in AtOrBelow(par2, o) /\ o \in DOMAIN par2
      BY <1>3, <1>17, <1>19
    <3>. QED BY <1>2, <1>4, <3>1, LocalIs
  <2>7. val[d] \in Seq(Pval) /\ Len(val[d]) = Len(s) + Len(X) + Len(Z)
    BY <1>13, <2>2, <2>3 DEF Arrays
  <2>. QED BY <2>1, <2>5, <2>6, <2>7
<1>20. ASSUME NEW d \in AtOrBelow(par2, o)
       PROVE  fixed[d] = Refit(val[d], Local(par2, def, o, d), Len(X), Len(Y), Len(Z), base, d)
  <2>1. base = IF par2[o] = NOTHING THEN <<>> ELSE val[par2[o]]
    BY <1>3, <1>18 DEF Base
  <2>2. PICK old \in Nat, new \in Nat, common \in Nat : old = Len(X) /\ new = Len(Y) /\ common = Len(Z)
    BY <1>13
  <2>3. new <= Len(base)
    BY <1>13, <1>18, <2>2
  <2>4. \A e \in AtOrBelow(par2, o) : /\ val[e] \in Seq(Pval) /\ owner[e] \in Owner
                                      /\ Len(val[e]) = Local(par2, def, o, e) + old + common
    BY <1>17, <1>19, <2>2 DEF Owned
  <2>5. o \in DOMAIN par2
    BY <1>3
  <2>6. \A e \in AtOrBelow(par2, o) :
          Fixed(S, o, old, new, common)[e] = Refit(val[e], Local(par2, def, o, e), old, new, common, base, e)
    <3>1. CanFix(par2, def, val, o, old, new, common, base)
      BY <1>2, <1>4, <2>1, <2>2, <2>3, <2>4, <2>5 DEF CanFix
    <3>. QED BY <3>1, FixedIs
  <2>. QED BY <1>14, <2>2, <2>6
<1>21. ASSUME NEW d \in DOMAIN par, o \in Anc(par, d)
       PROVE  /\ Swap(Lay(par, def, d), Lay(par2, def, d), val[d], val2[d], Len(def[d]), X, Y, Z, base, d)
              /\ val2[d] \in Seq(Pval)
  <2>1. PICK s \in Seq(Name) :
           /\ Lay(par, def, d) = s \o (X \o Z) /\ Lay(par2, def, d) = s \o (Y \o Z)
           /\ Len(s) = Local(par2, def, o, d) /\ Len(def[d]) <= Len(s)
           /\ Len(val[d]) = Len(s) + Len(X) + Len(Z) /\ val[d] \in Seq(Pval)
    BY <1>19, <1>21
  <2>2. d \in AtOrBelow(par2, o)
    BY <1>17, <1>21
  <2>3. val2[d] = Refit(val[d], Len(s), Len(X), Len(Y), Len(Z), base, d)
    BY <1>3, <1>15, <1>20, <2>1, <2>2
  <2>4. CanRefit(val[d], Len(s), Len(X), Len(Y), Len(Z), base, d)
    <3>1. Len(s) \in Nat /\ owner[d] \in Owner /\ Len(Y) <= Len(base)
      BY <1>13, <1>18 DEF Owned
    <3>. QED BY <1>13, <2>1, <3>1 DEF CanRefit
  <2>5. Refitted(val2[d], val[d], Len(s), Len(X), Len(Y), Len(Z), base, d)
    BY <2>3, <2>4, RefitIs
  <2>. QED BY <2>1, <2>5 DEF Swap, Refitted
<1>22. \A d \in DOMAIN par : o \notin Anc(par, d) => val2[d] = val[d]
  BY <1>3, <1>15, <1>17
<1>23. val2 \in [DOMAIN par -> Seq(Pval)]
  <2>1. val2 = [d \in DOMAIN par |-> val2[d]]
    BY <1>3, <1>15
  <2>2. \A d \in DOMAIN par : val2[d] \in Seq(Pval)
    BY <1>21, <1>22 DEF Arrays
  <2>. QED BY <2>1, <2>2
<1>24. Swapped(par, def, val, o, p, par2, val2)
  BY <1>5, <1>9, <1>10, <1>11, <1>12, <1>18, <1>21, <1>22, <1>23 DEF Swapped
<1>. QED BY <1>5, <1>16, <1>24

\* Everything that is kept about the hierarchy, the names and the arrays.
Sound(par, def, val) == Hierarchy(par, def) /\ Arrays(par, def, val) /\ Owned(par)

\* What dbpriv_check_properties_for_chparent() looks for.
Fits(par, def, o, p) ==
  \A n \in ToSet(Lay(par, def, p)) : \A d \in DOMAIN par :
    o \in Anc(par, d) => n \notin ToSet(def[d])

\* The check of db_change_parent() as a condition on ancestors.
LEMMA CheckIs ==
  ASSUME NEW par, NEW def, NEW val, NEW S, S = State(par, def, val), NEW o, NEW p
  PROVE  dbpriv_check_properties_for_chparent(S, o, p) <=> Fits(par, def, o, p)
<1>1. S.parent = par /\ S.propdefs = def
  BY DEF State
<1>2. Layout(S, p) = Lay(par, def, p)
  BY <1>1, LayoutIs
<1>3. \A d : d \in AtOrBelow(par, o) <=> d \in DOMAIN par /\ o \in Anc(par, d)
  BY DEF AtOrBelow, Anc
<1>. QED BY <1>1, <1>2, <1>3 DEF dbpriv_check_properties_for_chparent, property_defined_at_or_below, Fits

\* An object that has the array it should after a change of parent.
LEMMA SwapFits ==
  ASSUME NEW names, NEW names2, NEW val, NEW val2, NEW len \in Nat,
         NEW X \in Seq(Name), NEW Y \in Seq(Name), NEW Z \in Seq(Name), NEW base, NEW d,
         Swap(names, names2, val, val2, len, X, Y, Z, base, d)
  PROVE  /\ Len(val2) = Len(names2)
         /\ \A i \in 1..len : val2[i] = val[i]
<1>1. PICK s \in Seq(Name) :
        /\ names2 = s \o (Y \o Z) /\ len <= Len(s)
        /\ Refitted(val2, val, Len(s), Len(X), Len(Y), Len(Z), base, d)
  BY DEF Swap
<1>2. Y \o Z \in Seq(Name) /\ Len(Y \o Z) = Len(Y) + Len(Z)
  OBVIOUS
<1>3. Len(names2) = Len(s) + (Len(Y) + Len(Z))
  BY <1>1, <1>2
<1>4. Len(s) \in Nat /\ Len(Y) \in Nat /\ Len(Z) \in Nat
  OBVIOUS
<1>5. Len(val2) = Len(s) + Len(Y) + Len(Z) /\ \A i \in 1..Len(s) : val2[i] = val[i]
  BY <1>1 DEF Refitted
<1>. QED BY <1>1, <1>3, <1>4, <1>5

\* A parent that passes the check leaves the names apart.
LEMMA MovedHierarchy ==
  ASSUME NEW par, NEW def, Hierarchy(par, def), NEW o, NEW p, NEW par2,
         Moved(par, o, p, par2), Fits(par, def, o, p)
  PROVE  Hierarchy(par2, def)
<1>1. PICK height, top : Ranked(par, height, top)
  BY DEF Hierarchy
<1>2. \E height2, top2 : Ranked(par2, height2, top2)
  BY <1>1, MovedRanked
<1>3. DOMAIN par2 = DOMAIN par
  BY DEF Moved
<1>4. Typed(par, def) /\ Apart(par, def)
  BY HierarchyTyped DEF Hierarchy
<1>5. Apart(par2, def)
  BY <1>1, <1>4, MovedApart DEF Fits
<1>. QED BY <1>2, <1>3, <1>5 DEF Hierarchy

\* The arrays fit the names again after a change of parent.
LEMMA SwappedArrays ==
  ASSUME NEW par, NEW def, NEW val, Sound(par, def, val), NEW o, NEW p, NEW par2, NEW val2,
         Moved(par, o, p, par2), Swapped(par, def, val, o, p, par2, val2)
  PROVE  Arrays(par2, def, val2)
<1>1. PICK height, top : Ranked(par, height, top)
  BY DEF Sound, Hierarchy
<1>2. DOMAIN par2 = DOMAIN par
  BY DEF Moved
<1>3. Typed(par, def) /\ Arrays(par, def, val)
  BY HierarchyTyped DEF Sound
<1>4. ASSUME NEW d \in DOMAIN par
      PROVE  /\ Len(val2[d]) = Width(par2, def, d)
             /\ \A i \in 1..Len(def[d]) : val2[d][i] = val[d][i]
  <2>1. CASE o \notin Anc(par, d)
    <3>1. Lay(par2, def, d) = Lay(par, def, d)
      BY <1>1, <1>3, <2>1, MovedOthers
    <3>2. val2[d] = val[d]
      BY <2>1 DEF Swapped
    <3>. QED BY <1>3, <3>1, <3>2 DEF Arrays, Width
  <2>2. CASE o \in Anc(par, d)
    <3>1. PICK X, Y, Z \in Seq(Name) :
            Swap(Lay(par, def, d), Lay(par2, def, d), val[d], val2[d], Len(def[d]),
                 X, Y, Z, Base(val, p), d)
      BY <2>2 DEF Swapped
    <3>2. PICK len \in Nat : len = Len(def[d])
      BY <1>3 DEF Typed
    <3>3. PICK names, names2, u, u2, base :
            /\ names = Lay(par, def, d) /\ names2 = Lay(par2, def, d)
            /\ u = val[d] /\ u2 = val2[d] /\ base = Base(val, p)
      OBVIOUS
    <3>4. Swap(names, names2, u, u2, len, X, Y, Z, base, d)
      BY <3>1, <3>2, <3>3
    <3>5. Len(u2) = Len(names2) /\ \A i \in 1..len : u2[i] = u[i]
      BY <3>4, SwapFits
    <3>. QED BY <3>2, <3>3, <3>5 DEF Width
  <2>. QED BY <2>1, <2>2
<1>5. val2 \in [DOMAIN par -> Seq(Pval)]
  BY DEF Swapped
<1>. QED BY <1>2, <1>3, <1>4, <1>5 DEF Arrays

\* db_change_parent() when the names allow it.
LEMMA ChangeParentKeeps ==
  ASSUME NEW par, NEW def, NEW val, Sound(par, def, val), NEW o, NEW p, NEW par2,
         Moved(par, o, p, par2), Fits(par, def, o, p), NEW S, S = State(par, def, val)
  PROVE  \E val2 : /\ db_change_parent(S, o, p) = State(par2, def, val2)
                   /\ Swapped(par, def, val, o, p, par2, val2)
                   /\ Sound(par2, def, val2)
<1>1. PICK T : T = State(par2, def, val)
  OBVIOUS
<1>2. [S EXCEPT !.parent[o] = p] = T
  BY <1>1 DEF State, Moved
<1>3. dbpriv_check_properties_for_chparent(S, o, p) /\ S.parent = par
  BY CheckIs DEF State
<1>4. db_change_parent(S, o, p) = dbpriv_fix_properties_after_chparent(T, o, par[o])
  BY <1>2, <1>3 DEF db_change_parent
<1>5. PICK val2 : /\ dbpriv_fix_properties_after_chparent(T, o, par[o]) = State(par2, def, val2)
                  /\ Swapped(par, def, val, o, p, par2, val2)
  BY <1>1, FixAfterChparent DEF Sound
<1>6. Hierarchy(par2, def) /\ Arrays(par2, def, val2)
  BY <1>5, MovedHierarchy, SwappedArrays DEF Sound
<1>7. Owned(par2)
  BY DEF Sound, Owned, Moved
<1>. QED BY <1>4, <1>5, <1>6, <1>7 DEF Sound

-----------------------------------------------------------------------------
(* Moving the children of an object                                        *)

\* moved is a function that the definition of FoldLeft asks for: it says what
\* the database becomes when the objects at some places of list get the
\* parent p.
Moves(moved, S, list, p, n) ==
  moved = [s \in SUBSET (1..n) |->
             IF s = {} THEN S ELSE db_change_parent(moved[s \ {Max(s)}], list[Max(s)], p)]

\* The last place.
LEMMA MaxIs ==
  ASSUME NEW n \in Nat, NEW s \in SUBSET (1..n), s # {}
  PROVE  Max(s) \in s /\ \A i \in s : i <= Max(s)
<1>1. Max(s) \in s /\ \A i \in s : Max(s) >= i
  BY GreatestElement DEF Max
<1>. QED BY <1>1

\* There is one, by induction on the number of places.
LEMMA MovesExist ==
  ASSUME NEW S, NEW list, NEW p, NEW n \in Nat
  PROVE  \E moved : Moves(moved, S, list, p, n)
<1>. DEFINE Has == {k \in Nat : \E moved : Moves(moved, S, list, p, k)}
<1>1. 0 \in Has
  <2>. DEFINE g == [s \in SUBSET (1..0) |-> S]
  <2>1. g = [s \in SUBSET (1..0) |->
               IF s = {} THEN S ELSE db_change_parent(g[s \ {Max(s)}], list[Max(s)], p)]
    <3>1. \A s \in SUBSET (1..0) : s = {}
      OBVIOUS
    <3>. QED BY <3>1
  <2>2. Moves(g, S, list, p, 0)
    BY <2>1 DEF Moves
  <2>. HIDE DEF g
  <2>. QED BY <2>2
<1>2. ASSUME NEW k \in Nat, k \in Has PROVE k + 1 \in Has
  <2>1. PICK f : Moves(f, S, list, p, k)
    BY <1>2
  <2>2. \A s \in SUBSET (1..k) : f[s] = IF s = {} THEN S ELSE db_change_parent(f[s \ {Max(s)}], list[Max(s)], p)
    BY <2>1 DEF Moves
  <2>. DEFINE g == [s \in SUBSET (1..(k + 1)) |->
                      IF s = {} THEN S ELSE db_change_parent(f[s \ {Max(s)}], list[Max(s)], p)]
  <2>3. \A s \in SUBSET (1..k) : g[s] = f[s]
    <3>1. \A s \in SUBSET (1..k) : s \in SUBSET (1..(k + 1))
      OBVIOUS
    <3>. QED BY <2>2, <3>1
  <2>4. ASSUME NEW s \in SUBSET (1..(k + 1)), s # {} PROVE g[s \ {Max(s)}] = f[s \ {Max(s)}]
    <3>1. Max(s) \in s /\ \A i \in s : i <= Max(s)
      <4>1. k + 1 \in Nat
        OBVIOUS
      <4>. QED BY <2>4, <4>1, MaxIs
    <3>2. s \ {Max(s)} \in SUBSET (1..k)
      <4>. SUFFICES ASSUME NEW i \in s, i # Max(s) PROVE i \in 1..k
        OBVIOUS
      <4>1. i <= Max(s) /\ i \in 1..(k + 1) /\ Max(s) \in 1..(k + 1)
        BY <3>1
      <4>. QED BY <4>1
    <3>. HIDE DEF g
    <3>. QED BY <2>3, <3>2
  <2>5. g = [s \in SUBSET (1..(k + 1)) |->
               IF s = {} THEN S ELSE db_change_parent(g[s \ {Max(s)}], list[Max(s)], p)]
    <3>. DEFINE h == [s \in SUBSET (1..(k + 1)) |->
                        IF s = {} THEN S ELSE db_change_parent(g[s \ {Max(s)}], list[Max(s)], p)]
    <3>1. ASSUME NEW s \in SUBSET (1..(k + 1)) PROVE g[s] = h[s]
      <4>1. g[s] = IF s = {} THEN S ELSE db_change_parent(f[s \ {Max(s)}], list[Max(s)], p)
        OBVIOUS
      <4>2. h[s] = IF s = {} THEN S ELSE db_change_parent(g[s \ {Max(s)}], list[Max(s)], p)
        OBVIOUS
      <4>3. s # {} => g[s \ {Max(s)}] = f[s \ {Max(s)}]
        BY <2>4
      <4>. HIDE DEF g, h
      <4>. QED BY <4>1, <4>2, <4>3
    <3>. QED BY <3>1, Zenon
  <2>6. Moves(g, S, list, p, k + 1)
    BY <2>5, Zenon DEF Moves
  <2>. HIDE DEF g
  <2>. QED BY <2>6
<1>. HIDE DEF Has
<1>3. n \in Has
  BY <1>1, <1>2, NatInd
<1>. QED BY <1>3 DEF Has

\* So the database after the first k objects of the list are moved is got from
\* the one before.
OneByOne(moved, S, list, p, n) ==
  /\ moved[1..0] = S
  /\ \A k \in 1..n : moved[1..k] = db_change_parent(moved[1..(k - 1)], list[k], p)

\* The fold over the list of children, one child at a time.
LEMMA MovesOneByOne ==
  ASSUME NEW S, NEW list, NEW p, NEW n \in Nat, NEW moved, Moves(moved, S, list, p, n)
  PROVE  OneByOne(moved, S, list, p, n)
<1>1. moved[1..0] = S
  <2>1. 1..0 = {} /\ {} \in SUBSET (1..n)
    OBVIOUS
  <2>. QED BY <2>1 DEF Moves
<1>2. ASSUME NEW k \in 1..n PROVE moved[1..k] = db_change_parent(moved[1..(k - 1)], list[k], p)
  <2>1. PICK s : s = 1..k
    OBVIOUS
  <2>2. s \in SUBSET (1..n) /\ s # {} /\ k \in s
    BY <2>1
  <2>3. Max(s) \in s /\ \A i \in s : i <= Max(s)
    BY <2>2, MaxIs
  <2>4. Max(s) = k
    BY <2>1, <2>2, <2>3
  <2>5. s \ {k} = 1..(k - 1)
    BY <2>1
  <2>6. moved[s] = db_change_parent(moved[s \ {Max(s)}], list[Max(s)], p)
    BY <2>2 DEF Moves
  <2>. QED BY <2>1, <2>4, <2>5, <2>6
<1>. QED BY <1>1, <1>2 DEF OneByOne

\* The children of o in some order, each once.
LEMMA KidsIs ==
  ASSUME NEW par, IsFiniteSet(DOMAIN par), NEW o, NEW list, list = SetToSeq(Children(par, o))
  PROVE  \E n \in Nat : /\ list \in [1..n -> Children(par, o)]
                        /\ \A i, j \in 1..n : list[i] = list[j] => i = j
<1>1. PICK Kids : Kids = Children(par, o)
  OBVIOUS
<1>2. IsFiniteSet(Kids)
  BY <1>1, FS_Subset DEF Children
<1>3. PICK n \in Nat : n = Cardinality(Kids) /\ ExistsBijection(1..n, Kids)
  BY <1>2, FS_CardinalityType
<1>4. PICK f \in [1..n -> Kids] : IsInjective(f)
  BY <1>3 DEF ExistsBijection, Bijection, Injection
<1>5. list = CHOOSE g \in [1..n -> Kids] : IsInjective(g)
  BY <1>1, <1>3 DEF SetToSeq
<1>6. list \in [1..n -> Kids] /\ IsInjective(list)
  BY <1>4, <1>5
<1>. QED BY <1>1, <1>6 DEF IsInjective

\* RecycleKids is the last of the states that Moves has.
LEMMA RecycleKidsIs ==
  ASSUME NEW S, NEW o, NEW list, list = SetToSeq(Children(S.parent, o)),
         NEW n \in Nat, DOMAIN list = 1..n
  PROVE  \E moved : Moves(moved, S, list, S.parent[o], n) /\ RecycleKids(S, o) = moved[1..n]
<1>. DEFINE moved == CHOOSE m : Moves(m, S, list, S.parent[o], n)
<1>1. Moves(moved, S, list, S.parent[o], n)
  BY MovesExist
<1>2. RecycleKids(S, o) = moved[1..n]
  BY DEF RecycleKids, FoldLeft, MapThenFoldSet, Moves
<1>. HIDE DEF moved
<1>. QED BY <1>1, <1>2

\* par2 is par after some children of o, those in A, got the parent of o.
Partly(par, o, A, par2) ==
  /\ A \subseteq Children(par, o)
  /\ DOMAIN par2 = DOMAIN par
  /\ \A x \in DOMAIN par : par2[x] = IF x \in A THEN par[o] ELSE par[x]

\* No object that o inherits from is a child of o.
LEMMA KidsBelow ==
  ASSUME NEW par, NEW height, NEW top, Ranked(par, height, top), NEW o \in DOMAIN par
  PROVE  \A a \in Anc(par, o) : a \notin Children(par, o)
<1>. SUFFICES ASSUME NEW a \in Anc(par, o), a \in Children(par, o) PROVE FALSE
  OBVIOUS
<1>1. a \in DOMAIN par /\ par[a] = o
  BY DEF Children
<1>2. height[a] <= height[o]
  BY AncOrder
<1>3. height[o] < height[a] /\ height[o] \in Nat /\ height[a] \in Nat
  BY <1>1 DEF Ranked
<1>. QED BY <1>2, <1>3

\* The next child can be moved.
LEMMA KidFits ==
  ASSUME NEW par, NEW def, Hierarchy(par, def), NEW o \in DOMAIN par,
         NEW A, NEW par2, Partly(par, o, A, par2), Hierarchy(par2, def),
         NEW c \in Children(par, o), c \notin A
  PROVE  /\ Moved(par2, c, par[o], [par2 EXCEPT ![c] = par[o]])
         /\ Fits(par2, def, c, par[o])
         /\ par2[o] = par[o] /\ par2[c] = o
<1>1. PICK height, top : Ranked(par, height, top)
  BY DEF Hierarchy
<1>2. PICK height2, top2 : Ranked(par2, height2, top2)
  BY DEF Hierarchy
<1>3. /\ c \in DOMAIN par /\ par[c] = o /\ DOMAIN par2 = DOMAIN par
      /\ \A x \in DOMAIN par : par2[x] = IF x \in A THEN par[o] ELSE par[x]
      /\ A \subseteq Children(par, o)
  BY DEF Partly, Children
<1>4. \A a \in Anc(par, o) : a \notin Children(par, o)
  BY <1>1, KidsBelow
<1>5. Anc(par, o) = {o} \cup Anc(par, par[o]) /\ Anc(par, o) \subseteq DOMAIN par
  BY <1>1, AncSet
<1>6. par[o] \in DOMAIN par \cup {NOTHING}
  BY <1>1 DEF Ranked
<1>7. par2[o] = par[o] /\ par2[c] = o
  BY <1>3, <1>4, <1>5
<1>8. Typed(par, def) /\ Typed(par2, def) /\ Apart(par2, def)
  BY HierarchyTyped DEF Hierarchy
<1>9. Ancestors(par2, par[o]) = Ancestors(par, par[o])
  <2>1. \A a \in Anc(par, par[o]) : a \in DOMAIN par2 /\ par2[a] = par[a] /\ def[a] = def[a]
    BY <1>3, <1>4, <1>5
  <2>2. PICK x \in DOMAIN par \cup {NOTHING} : x = par[o]
    BY <1>6
  <2>3. \A a \in Anc(par, x) : a \in DOMAIN par2 /\ par2[a] = par[a] /\ def[a] = def[a]
    BY <2>1, <2>2
  <2>4. Ancestors(par2, x) = Ancestors(par, x)
    BY <1>1, <1>2, <1>8, <2>3, SameUp
  <2>. QED BY <2>2, <2>4
<1>10. c \notin Anc(par2, par[o])
  BY <1>4, <1>5, <1>9 DEF Anc
<1>11. Moved(par2, c, par[o], [par2 EXCEPT ![c] = par[o]])
  BY <1>3, <1>6, <1>10 DEF Moved
<1>12. Fits(par2, def, c, par[o])
  <2>1. o \in DOMAIN par2 /\ c \in DOMAIN par2
    BY <1>3
  <2>2. \A n \in ToSet(Lay(par2, def, par2[o])) : \A d \in DOMAIN par2 :
          c \in Anc(par2, d) => n \notin ToSet(def[d])
    BY <1>2, <1>7, <1>8, <2>1, GrandparentFits
  <2>. QED BY <1>7, <2>2 DEF Fits
<1>. QED BY <1>7, <1>11, <1>12

\* The first k objects of a list.
Part(list, k) == {list[i] : i \in 1..k}

-----------------------------------------------------------------------------
(* Removing an object                                                      *)

\* x has the same ancestors in two hierarchies, with the same names.
SameAbove(par, def, par2, def2, x) ==
  /\ Tree(par, def) /\ Tree(par2, def2)
  /\ x \in DOMAIN par \cup {NOTHING}
  /\ \A a \in Anc(par, x) : a \in DOMAIN par2 /\ par2[a] = par[a] /\ def2[a] = def[a]

\* Objects with the same ancestors and definitions have the same names.
LEMMA SameAboveIs ==
  ASSUME NEW par, NEW def, NEW par2, NEW def2, NEW x, SameAbove(par, def, par2, def2, x)
  PROVE  Ancestors(par2, x) = Ancestors(par, x) /\ Lay(par2, def2, x) = Lay(par, def, x)
<1>1. PICK height, top : Ranked(par, height, top)
  BY DEF SameAbove, Tree
<1>2. PICK height2, top2 : Ranked(par2, height2, top2)
  BY DEF SameAbove, Tree
<1>3. /\ Typed(par, def) /\ Typed(par2, def2)
      /\ x \in DOMAIN par \cup {NOTHING}
      /\ \A a \in Anc(par, x) : a \in DOMAIN par2 /\ par2[a] = par[a] /\ def2[a] = def[a]
  BY DEF SameAbove, Tree
<1>. QED BY <1>1, <1>2, <1>3, SameUp

\* Nothing is below an object without children.
LEMMA NoKids ==
  ASSUME NEW par, NEW height, NEW top, Ranked(par, height, top), NEW o, Children(par, o) = {}
  PROVE  \A x \in DOMAIN par : o \in Anc(par, x) => x = o
<1>1. Anc(par, NOTHING) = {} /\ \A x \in DOMAIN par : Anc(par, x) = {x} \cup Anc(par, par[x])
  BY AncSet
<1>. DEFINE Good == {x \in DOMAIN par : o \in Anc(par, x) => x = o}
<1>2. ASSUME NEW x \in DOMAIN par, par[x] = NOTHING \/ par[x] \in Good PROVE x \in Good
  <2>1. par[x] # o
    BY DEF Children
  <2>2. o \notin Anc(par, par[x])
    BY <1>1, <1>2, <2>1
  <2>. QED BY <1>1, <2>2
<1>3. DOMAIN par \subseteq Good
  <2>. HIDE DEF Good
  <2>. QED BY <1>2, UpInd
<1>. QED BY <1>3

\* db_destroy_object()
LEMMA DestroyKeeps ==
  ASSUME NEW par, NEW def, NEW val, Sound(par, def, val), NEW o, Children(par, o) = {},
         NEW rest, rest = DOMAIN par \ {o},
         NEW par2, par2 = [d \in rest |-> par[d]],
         NEW def2, def2 = [d \in rest |-> def[d]],
         NEW val2, val2 = [d \in rest |-> val[d]]
  PROVE  Sound(par2, def2, val2)
<1>1. PICK height, top : Ranked(par, height, top)
  BY DEF Sound, Hierarchy
<1>2. /\ DOMAIN par2 = rest /\ rest \subseteq DOMAIN par
      /\ \A d \in rest : par2[d] = par[d] /\ def2[d] = def[d] /\ val2[d] = val[d]
  OBVIOUS
<1>3. \A x \in rest : o \notin Anc(par, x)
  BY <1>1, NoKids
<1>4. PICK height2 : height2 = [d \in rest |-> height[d]]
  OBVIOUS
<1>5. Ranked(par2, height2, top)
  <2>1. \A x \in rest : par[x] # o
    BY <1>2 DEF Children
  <2>2. \A x \in rest : par[x] \in rest \cup {NOTHING}
    BY <1>1, <1>2, <2>1 DEF Ranked
  <2>3. par2 \in [rest -> rest \cup {NOTHING}]
    BY <2>2
  <2>4. height2 \in [rest -> 0..top]
    BY <1>1, <1>2, <1>4 DEF Ranked
  <2>5. \A x \in rest : par2[x] # NOTHING => height2[par2[x]] < height2[x]
    BY <1>1, <1>2, <1>4, <2>2 DEF Ranked
  <2>. QED BY <1>1, <1>2, <2>3, <2>4, <2>5 DEF Ranked
<1>6. Typed(par, def) /\ Typed(par2, def2)
  BY <1>2, HierarchyTyped DEF Sound, Typed
<1>7. ASSUME NEW x \in rest
      PROVE  Ancestors(par2, x) = Ancestors(par, x) /\ Lay(par2, def2, x) = Lay(par, def, x)
  <2>1. \A a \in Anc(par, x) : a \in DOMAIN par2 /\ par2[a] = par[a] /\ def2[a] = def[a]
    <3>. SUFFICES ASSUME NEW a \in Anc(par, x) PROVE a \in rest
      BY <1>2
    <3>1. a \in DOMAIN par
      BY <1>1, <1>2, AncSet
    <3>2. a # o
      BY <1>3
    <3>. QED BY <3>1, <3>2
  <2>2. x \in DOMAIN par \cup {NOTHING}
    BY <1>2
  <2>3. SameAbove(par, def, par2, def2, x)
    BY <1>1, <1>5, <1>6, <2>1, <2>2 DEF SameAbove, Tree
  <2>. QED BY <2>3, SameAboveIs
<1>8. Hierarchy(par2, def2)
  <2>1. rest \subseteq Obj /\ IsFiniteSet(rest)
    BY <1>2, FS_Subset DEF Sound, Hierarchy
  <2>2. def2 \in [rest -> Seq(Name)]
    BY <1>2 DEF Sound, Hierarchy
  <2>3. Apart(par2, def2)
    <3>. SUFFICES ASSUME NEW x \in rest, NEW a \in Anc(par2, x), a # x
                  PROVE  ToSet(def2[a]) \cap ToSet(def2[x]) = {}
      BY <1>2 DEF Apart
    <3>1. a \in Anc(par, x) /\ a \in rest
      BY <1>2, <1>5, <1>7, AncSet DEF Anc
    <3>. QED BY <1>2, <3>1 DEF Sound, Hierarchy, Apart
  <2>4. \A x \in rest : \A i, j \in 1..Len(def2[x]) : def2[x][i] = def2[x][j] => i = j
    BY <1>2 DEF Sound, Hierarchy
  <2>5. \E height3, top3 : Ranked(par2, height3, top3)
    BY <1>5
  <2>. QED BY <1>2, <2>1, <2>2, <2>3, <2>4, <2>5 DEF Hierarchy
<1>9. Arrays(par2, def2, val2)
  <2>1. val2 \in [rest -> Seq(Pval)]
    BY <1>2 DEF Sound, Arrays
  <2>2. \A x \in rest : Len(val2[x]) = Width(par2, def2, x)
    BY <1>2, <1>7 DEF Sound, Arrays, Width
  <2>3. \A x \in rest : \A i \in 1..Len(def2[x]) : val2[x][i].var # Clear
    BY <1>2 DEF Sound, Arrays
  <2>. QED BY <1>2, <2>1, <2>2, <2>3 DEF Arrays
<1>10. Owned(par2)
  BY <1>2 DEF Sound, Owned
<1>. QED BY <1>8, <1>9, <1>10 DEF Sound

-----------------------------------------------------------------------------
(* A new object                                                            *)

\* par2, def2 and val2 have one more object, o, which defines no property.
Added(par, def, val, o, p, par2, def2, val2) ==
  /\ o \notin DOMAIN par /\ o \in Obj /\ p \in DOMAIN par \cup {NOTHING}
  /\ DOMAIN par2 = DOMAIN par \cup {o} /\ DOMAIN def2 = DOMAIN par2 /\ DOMAIN val2 = DOMAIN par2
  /\ par2 = [x \in DOMAIN par2 |-> par2[x]] /\ def2 = [x \in DOMAIN par2 |-> def2[x]]
  /\ val2 = [x \in DOMAIN par2 |-> val2[x]]
  /\ \A x \in DOMAIN par : par2[x] = par[x] /\ def2[x] = def[x] /\ val2[x] = val[x]
  /\ par2[o] = p /\ def2[o] = <<>>
  /\ val2[o] \in Seq(Pval) /\ Len(val2[o]) = IF p = NOTHING THEN 0 ELSE Len(val[p])

\* A new object that inherits all its values keeps the arrays right.
LEMMA AddedKeeps ==
  ASSUME NEW par, NEW def, NEW val, Hierarchy(par, def), Arrays(par, def, val),
         NEW o, NEW p, NEW par2, NEW def2, NEW val2, Added(par, def, val, o, p, par2, def2, val2)
  PROVE  /\ Hierarchy(par2, def2) /\ Arrays(par2, def2, val2)
         /\ \A x \in DOMAIN par : Lay(par2, def2, x) = Lay(par, def, x)
         /\ Lay(par2, def2, o) = Lay(par, def, p)
<1>1. PICK height, top : Ranked(par, height, top)
  BY DEF Hierarchy
<1>2. /\ o \notin DOMAIN par /\ o \in Obj /\ p \in DOMAIN par \cup {NOTHING}
      /\ DOMAIN par2 = DOMAIN par \cup {o} /\ par2[o] = p /\ def2[o] = <<>>
      /\ \A x \in DOMAIN par : par2[x] = par[x] /\ def2[x] = def[x] /\ val2[x] = val[x]
  BY DEF Added
<1>3. PICK height2 : height2 = [x \in DOMAIN par2 |-> IF x = o THEN top + 1 ELSE height[x]]
  OBVIOUS
<1>4. Ranked(par2, height2, top + 1)
  <2>1. NOTHING \notin DOMAIN par2
    BY <1>1, <1>2, PropertiesAssumption DEF Ranked
  <2>2. \A x \in DOMAIN par2 : par2[x] \in DOMAIN par \cup {NOTHING}
    BY <1>1, <1>2 DEF Ranked
  <2>3. par2 \in [DOMAIN par2 -> DOMAIN par2 \cup {NOTHING}]
    BY <1>2, <2>2 DEF Added
  <2>4. top \in Nat /\ top + 1 \in Nat /\ \A x \in DOMAIN par : height[x] \in 0..top
    BY <1>1 DEF Ranked
  <2>5. height2 \in [DOMAIN par2 -> 0..(top + 1)]
    BY <1>2, <1>3, <2>4
  <2>6. ASSUME NEW x \in DOMAIN par2, par2[x] # NOTHING PROVE height2[par2[x]] < height2[x]
    <3>1. par2[x] \in DOMAIN par /\ par2[x] # o
      BY <1>2, <2>2, <2>6
    <3>2. height2[par2[x]] = height[par2[x]]
      BY <1>2, <1>3, <3>1
    <3>3. CASE x = o
      BY <1>3, <2>4, <3>1, <3>2, <3>3
    <3>4. CASE x # o
      <4>1. x \in DOMAIN par /\ par2[x] = par[x] /\ height2[x] = height[x]
        BY <1>2, <1>3, <3>4
      <4>. QED BY <1>1, <2>6, <3>2, <4>1 DEF Ranked
    <3>. QED BY <3>3, <3>4
  <2>. QED BY <2>1, <2>3, <2>4, <2>5, <2>6 DEF Ranked
<1>5. <<>> \in Seq(Name) /\ Len(<<>>) = 0
  OBVIOUS
<1>6. Typed(par, def) /\ Typed(par2, def2)
  BY <1>2, <1>5, HierarchyTyped DEF Typed
<1>7. Tree(par, def) /\ Tree(par2, def2)
  BY <1>1, <1>4, <1>6 DEF Tree
<1>8. ASSUME NEW x \in DOMAIN par \cup {NOTHING}
      PROVE  Ancestors(par2, x) = Ancestors(par, x) /\ Lay(par2, def2, x) = Lay(par, def, x)
  <2>1. \A a \in Anc(par, x) : a \in DOMAIN par
    BY <1>1, AncSet
  <2>2. SameAbove(par, def, par2, def2, x)
    BY <1>2, <1>7, <2>1 DEF SameAbove
  <2>. QED BY <2>2, SameAboveIs
<1>9. ToSet(<<>>) = {}
  BY DEF ToSet
<1>10. Hierarchy(par2, def2)
  <2>1. DOMAIN par2 \subseteq Obj /\ IsFiniteSet(DOMAIN par2)
    <3>1. IsFiniteSet(DOMAIN par) /\ DOMAIN par \subseteq Obj
      BY DEF Hierarchy
    <3>. QED BY <1>2, <3>1, FS_AddElement
  <2>2. def2 \in [DOMAIN par2 -> Seq(Name)]
    BY <1>6 DEF Typed, Added
  <2>3. Apart(par2, def2)
    <3>. SUFFICES ASSUME NEW x \in DOMAIN par2, NEW a \in Anc(par2, x), a # x
                  PROVE  ToSet(def2[a]) \cap ToSet(def2[x]) = {}
      BY DEF Apart
    <3>1. CASE x = o
      BY <1>2, <1>9, <3>1
    <3>2. CASE x # o
      <4>1. x \in DOMAIN par /\ a \in Anc(par, x)
        BY <1>2, <1>8, <3>2 DEF Anc
      <4>2. a \in DOMAIN par
        BY <1>1, <4>1, AncSet
      <4>3. ToSet(def[a]) \cap ToSet(def[x]) = {}
        BY <4>1 DEF Hierarchy, Apart
      <4>. QED BY <1>2, <4>1, <4>2, <4>3
    <3>. QED BY <3>1, <3>2
  <2>4. \A x \in DOMAIN par2 : \A i, j \in 1..Len(def2[x]) : def2[x][i] = def2[x][j] => i = j
    BY <1>2, <1>5 DEF Hierarchy
  <2>5. \E height3, top3 : Ranked(par2, height3, top3)
    BY <1>4
  <2>. QED BY <2>1, <2>2, <2>3, <2>4, <2>5 DEF Hierarchy
<1>11. Arrays(par2, def2, val2)
  <2>1. \A x \in DOMAIN par : val[x] \in Seq(Pval) /\ Len(val[x]) = Width(par, def, x)
    BY DEF Arrays
  <2>2. val2 \in [DOMAIN par2 -> Seq(Pval)]
    <3>1. \A x \in DOMAIN par2 : val2[x] \in Seq(Pval)
      BY <1>2, <2>1 DEF Added
    <3>. QED BY <3>1 DEF Added
  <2>3. \A x \in DOMAIN par : Len(val2[x]) = Width(par2, def2, x)
    BY <1>2, <1>8, <2>1 DEF Width
  <2>4. Len(val2[o]) = Width(par2, def2, o)
    <3>1. Width(par2, def2, o) = Len(def2[o]) + Width(par2, def2, p) /\ Width(par2, def2, NOTHING) = 0
      BY <1>2, <1>4, <1>6, WidthIs
    <3>2. Width(par2, def2, p) = Width(par, def, p) /\ Width(par2, def2, p) \in Nat
      BY <1>2, <1>4, <1>6, <1>8, WidthIs DEF Width
    <3>3. Width(par2, def2, o) = Width(par, def, p)
      BY <1>2, <1>5, <3>1, <3>2
    <3>4. Len(val2[o]) = IF p = NOTHING THEN 0 ELSE Len(val[p])
      BY DEF Added
    <3>. QED BY <1>2, <2>1, <3>1, <3>2, <3>3, <3>4
  <2>5. \A x \in DOMAIN par2 : \A i \in 1..Len(def2[x]) : val2[x][i].var # Clear
    BY <1>2, <1>5 DEF Arrays
  <2>. QED BY <1>2, <2>2, <2>3, <2>4, <2>5 DEF Arrays
<1>12. Lay(par2, def2, o) = Lay(par, def, p)
  <2>1. PICK t \in Seq(Name) : t = Lay(par, def, p)
    BY <1>1, <1>2, <1>6, LayIs DEF Typed
  <2>2. Lay(par2, def2, o) = def2[o] \o Lay(par2, def2, par2[o])
    <3>1. o \in DOMAIN par2
      BY <1>2
    <3>. QED BY <1>4, <1>6, <3>1, LayIs DEF Typed
  <2>3. <<>> \o t = t
    BY ConcatEmptySeq
  <2>. QED BY <1>2, <1>8, <2>1, <2>2, <2>3
<1>13. \A x \in DOMAIN par : Lay(par2, def2, x) = Lay(par, def, x)
  BY <1>8
<1>. QED BY <1>10, <1>11, <1>12, <1>13

-----------------------------------------------------------------------------
(* Adding, removing and renaming properties                                *)

\* A part of a sequence.
LEMMA SubSeqIs ==
  ASSUME NEW E, NEW u \in Seq(E), NEW m \in 1..(Len(u) + 1), NEW n \in 0..Len(u), m <= n + 1
  PROVE  /\ SubSeq(u, m, n) \in Seq(E) /\ Len(SubSeq(u, m, n)) = n + 1 - m
         /\ \A i \in 1..(n + 1 - m) : SubSeq(u, m, n)[i] = u[m + i - 1]
<1>1. PICK c : c = SubSeq(u, m, n)
  OBVIOUS
<1>2. \A i \in m..n : u[i] \in E
  OBVIOUS
<1>3. /\ c \in Seq(E)
      /\ Len(c) = IF m <= n THEN n - m + 1 ELSE 0
      /\ \A i \in 1..(n - m + 1) : c[i] = u[m + i - 1]
  BY <1>1, <1>2, SubSeqProperties
<1>. QED BY <1>1, <1>3

\* What InsertAt does to an array.
LEMMA InsertIs ==
  ASSUME NEW E, NEW u \in Seq(E), NEW k \in 1..(Len(u) + 1), NEW e \in E,
         NEW v, v = InsertAt(u, k, e)
  PROVE  /\ v \in Seq(E) /\ Len(v) = Len(u) + 1
         /\ \A i \in 1..(k - 1) : v[i] = u[i]
         /\ v[k] = e
         /\ \A i \in k..Len(u) : v[i + 1] = u[i]
<1>1. PICK a, b, c : a = SubSeq(u, 1, k - 1) /\ b = <<e>> /\ c = SubSeq(u, k, Len(u))
  OBVIOUS
<1>2. Len(u) \in Nat /\ k - 1 \in 0..Len(u) /\ Len(u) \in 0..Len(u) /\ 1 \in 1..(Len(u) + 1)
  OBVIOUS
<1>3. /\ a \in Seq(E) /\ Len(a) = k - 1 /\ \A i \in 1..(k - 1) : a[i] = u[i]
  <2>1. 1 <= (k - 1) + 1 /\ (k - 1) + 1 - 1 = k - 1 /\ \A i \in 1..(k - 1) : 1 + i - 1 = i
    OBVIOUS
  <2>. QED BY <1>1, <1>2, <2>1, SubSeqIs
<1>4. /\ c \in Seq(E) /\ Len(c) = Len(u) + 1 - k
      /\ \A i \in 1..(Len(u) + 1 - k) : c[i] = u[k + i - 1]
  <2>1. k <= Len(u) + 1
    OBVIOUS
  <2>. QED BY <1>1, <1>2, <2>1, SubSeqIs
<1>5. b \in Seq(E) /\ Len(b) = 1 /\ b[1] = e
  BY <1>1
<1>6. v = a \o b \o c
  BY <1>1 DEF InsertAt
<1>7. /\ v \in Seq(E) /\ Len(v) = Len(a) + Len(b) + Len(c)
      /\ \A i \in 1..Len(a) : v[i] = a[i]
      /\ \A i \in 1..Len(b) : v[Len(a) + i] = b[i]
      /\ \A i \in 1..Len(c) : v[Len(a) + Len(b) + i] = c[i]
  <2>1. a \in Seq(E) /\ b \in Seq(E) /\ c \in Seq(E)
    BY <1>3, <1>4, <1>5
  <2>. QED BY <1>6, <2>1, ThreeParts
<1>8. v[k] = e
  <2>1. Len(a) + 1 = k /\ 1 \in 1..Len(b)
    BY <1>3, <1>5
  <2>2. v[Len(a) + 1] = b[1]
    BY <1>7, <2>1
  <2>. QED BY <1>5, <2>1, <2>2
<1>9. ASSUME NEW i \in k..Len(u) PROVE v[i + 1] = u[i]
  <2>1. PICK j \in 1..Len(c) : j = i - k + 1
    BY <1>4
  <2>2. Len(a) + Len(b) + j = i + 1 /\ k + j - 1 = i /\ j \in 1..(Len(u) + 1 - k)
    BY <1>3, <1>4, <1>5, <2>1
  <2>3. v[Len(a) + Len(b) + j] = c[j] /\ c[j] = u[k + j - 1]
    BY <1>4, <1>7, <2>2
  <2>. QED BY <2>2, <2>3
<1>. QED BY <1>3, <1>4, <1>5, <1>7, <1>8, <1>9

\* v is u without the element at k.
Without(E, v, u, k) ==
  /\ v \in Seq(E) /\ Len(v) = Len(u) - 1
  /\ \A i \in 1..(k - 1) : v[i] = u[i]
  /\ \A i \in k..(Len(u) - 1) : v[i] = u[i + 1]

\* What RemoveAt does to an array.
LEMMA RemoveIs ==
  ASSUME NEW E, NEW u \in Seq(E), NEW k \in 1..Len(u), NEW v, v = RemoveAt(u, k)
  PROVE  Without(E, v, u, k)
<1>1. PICK a, b, c : a = SubSeq(u, 1, k - 1) /\ b = <<>> /\ c = SubSeq(u, k + 1, Len(u))
  OBVIOUS
<1>2. /\ Len(u) \in Nat /\ k - 1 \in 0..Len(u) /\ Len(u) \in 0..Len(u) /\ 1 \in 1..(Len(u) + 1)
      /\ k + 1 \in 1..(Len(u) + 1)
  OBVIOUS
<1>3. /\ a \in Seq(E) /\ Len(a) = k - 1 /\ \A i \in 1..(k - 1) : a[i] = u[i]
  <2>1. 1 <= (k - 1) + 1 /\ (k - 1) + 1 - 1 = k - 1 /\ \A i \in 1..(k - 1) : 1 + i - 1 = i
    OBVIOUS
  <2>. QED BY <1>1, <1>2, <2>1, SubSeqIs
<1>4. /\ c \in Seq(E) /\ Len(c) = Len(u) - k
      /\ \A i \in 1..(Len(u) - k) : c[i] = u[k + i]
  <2>1. k + 1 <= Len(u) + 1 /\ Len(u) + 1 - (k + 1) = Len(u) - k /\ \A i \in 1..(Len(u) - k) : k + 1 + i - 1 = k + i
    OBVIOUS
  <2>. QED BY <1>1, <1>2, <2>1, SubSeqIs
<1>5. b \in Seq(E) /\ Len(b) = 0
  BY <1>1
<1>6. v = a \o b \o c
  <2>1. a \o b = a
    BY <1>1, <1>3, ConcatEmptySeq
  <2>. QED BY <1>1, <2>1 DEF RemoveAt
<1>7. /\ v \in Seq(E) /\ Len(v) = Len(a) + Len(b) + Len(c)
      /\ \A i \in 1..Len(a) : v[i] = a[i]
      /\ \A i \in 1..Len(c) : v[Len(a) + Len(b) + i] = c[i]
  <2>1. a \in Seq(E) /\ b \in Seq(E) /\ c \in Seq(E)
    BY <1>3, <1>4, <1>5
  <2>. QED BY ONLY <1>6, <2>1, ThreeParts, SMTT(20)
<1>8. ASSUME NEW i \in k..(Len(u) - 1) PROVE v[i] = u[i + 1]
  <2>1. PICK j \in 1..Len(c) : j = i - k + 1
    BY <1>4
  <2>2. Len(a) + Len(b) + j = i /\ k + j = i + 1 /\ j \in 1..(Len(u) - k)
    <3>1. k \in Nat /\ i \in Nat /\ j \in Nat /\ Len(u) \in Nat
      BY <1>2, <2>1
    <3>2. Len(a) + Len(b) = k - 1
      BY <1>3, <1>5, <3>1
    <3>3. (k - 1) + (i - k + 1) = i /\ k + (i - k + 1) = i + 1
      BY <3>1
    <3>. QED BY <1>4, <2>1, <3>2, <3>3
  <2>3. v[Len(a) + Len(b) + j] = c[j] /\ c[j] = u[k + j]
    BY <1>4, <1>7, <2>2
  <2>. QED BY <2>2, <2>3
<1>9. Len(v) = Len(u) - 1 /\ v \in Seq(E) /\ \A i \in 1..(k - 1) : v[i] = u[i]
  BY <1>3, <1>4, <1>5, <1>7
<1>. QED BY <1>8, <1>9 DEF Without

\* The first place of a name, or 0.
LEMMA PlaceInIs ==
  ASSUME NEW names \in Seq(Name), NEW n, NEW k, k = PlaceIn(names, n)
  PROVE  /\ k = 0 <=> n \notin ToSet(names)
         /\ k # 0 => k \in 1..Len(names) /\ names[k] = n /\ \A j \in 1..(k - 1) : names[j] # n
<1>1. \A y : y \in ToSet(names) <=> \E i \in 1..Len(names) : names[i] = y
  BY ToSetIs
<1>2. DOMAIN names = 1..Len(names) /\ Len(names) \in Nat
  OBVIOUS
<1>3. CASE n \notin ToSet(names)
  <2>1. k = 0
    BY <1>1, <1>2, <1>3 DEF PlaceIn
  <2>. QED BY <1>3, <2>1
<1>4. CASE n \in ToSet(names)
  <2>1. PICK I : I = {i \in 1..Len(names) : names[i] = n}
    OBVIOUS
  <2>2. I \subseteq Nat /\ I # {}
    BY <1>1, <1>2, <1>4, <2>1
  <2>3. PICK i \in I : \A j \in I : i <= j
    BY <2>2, LeastElement
  <2>4. i \in 1..Len(names) /\ names[i] = n /\ \A j \in 1..(i - 1) : names[j] # n
    BY <1>2, <2>1, <2>3
  <2>5. k = CHOOSE x \in 1..Len(names) : names[x] = n /\ \A j \in 1..x - 1 : names[j] # n
    BY <1>1, <1>2, <1>4 DEF PlaceIn
  <2>6. k \in 1..Len(names) /\ names[k] = n /\ \A j \in 1..(k - 1) : names[j] # n
    BY <2>4, <2>5
  <2>. QED BY <1>2, <1>4, <2>6
<1>. QED BY <1>3, <1>4

\* The names that o defines become those of new.
Redefines(par, def, o, new, def2) ==
  /\ Tree(par, def) /\ DOMAIN def = DOMAIN par
  /\ o \in DOMAIN par /\ new \in Seq(Name)
  /\ def2 = [def EXCEPT ![o] = new]

\* What WithNames does to a state.
LEMMA NewNames ==
  ASSUME NEW par, NEW def, NEW val, NEW o, NEW new, NEW def2, Redefines(par, def, o, new, def2),
         NEW S, S = State(par, def, val)
  PROVE  WithNames(S, o, new) = State(par, def2, val)
<1>1. WithNames(S, o, new) = State(par, [def EXCEPT ![o] = new], val)
  BY DEF State, WithNames
<1>2. [def EXCEPT ![o] = new] = def2
  BY DEF Redefines
<1>. QED BY <1>1, <1>2

\* What is in front of the names of o in those of x stays.
Prefixed(par, def, o, def2, x) ==
  \E s \in Seq(Name) : /\ Lay(par, def, x) = s \o Lay(par, def, o)
                       /\ Lay(par, def2, x) = s \o Lay(par, def2, o)
                       /\ x = o => s = <<>>
                       /\ x # o => Len(def[x]) <= Len(s)

\* What becomes of all the names.
Redefined(par, def, o, new, def2) ==
  /\ Tree(par, def2) /\ DOMAIN def2 = DOMAIN par
  /\ def2[o] = new /\ \A x \in DOMAIN par : x # o => def2[x] = def[x]
  /\ Lay(par, def, o) = def[o] \o Lay(par, def, par[o])
  /\ Lay(par, def2, o) = new \o Lay(par, def, par[o])
  /\ \A x \in DOMAIN par \cup {NOTHING} : o \notin Anc(par, x) => Lay(par, def2, x) = Lay(par, def, x)
  /\ \A x \in DOMAIN par : o \in Anc(par, x) => Prefixed(par, def, o, def2, x)

\* New names for o change the names of the objects below it in one place.
LEMMA RedefineLay ==
  ASSUME NEW par, NEW def, NEW o, NEW new, NEW def2, Redefines(par, def, o, new, def2)
  PROVE  Redefined(par, def, o, new, def2)
<1>1. PICK height, top : Ranked(par, height, top)
  BY DEF Redefines, Tree
<1>2. /\ Typed(par, def) /\ DOMAIN def = DOMAIN par /\ o \in DOMAIN par /\ new \in Seq(Name)
      /\ DOMAIN def2 = DOMAIN par /\ def2[o] = new /\ \A x \in DOMAIN par : x # o => def2[x] = def[x]
  BY DEF Redefines, Tree
<1>3. Typed(par, def2)
  BY <1>2 DEF Typed
<1>4. Tree(par, def) /\ Tree(par, def2)
  BY <1>1, <1>2, <1>3 DEF Tree
<1>5. ASSUME NEW x \in DOMAIN par \cup {NOTHING}, o \notin Anc(par, x)
      PROVE  Lay(par, def2, x) = Lay(par, def, x)
  <2>1. \A a \in Anc(par, x) : a \in DOMAIN par /\ a # o
    BY <1>1, <1>5, AncSet
  <2>2. SameAbove(par, def, par, def2, x)
    BY <1>2, <1>4, <2>1 DEF SameAbove
  <2>. QED BY <2>2, SameAboveIs
<1>6. /\ \A x \in DOMAIN par : Lay(par, def, x) = def[x] \o Lay(par, def, par[x])
      /\ \A x \in DOMAIN par : Lay(par, def2, x) = def2[x] \o Lay(par, def2, par[x])
      /\ \A x \in DOMAIN par \cup {NOTHING} : Lay(par, def, x) \in Seq(Name)
      /\ \A x \in DOMAIN par \cup {NOTHING} : Lay(par, def2, x) \in Seq(Name)
  BY <1>1, <1>2, <1>3, LayIs DEF Typed
<1>7. Lay(par, def2, par[o]) = Lay(par, def, par[o])
  <2>1. PICK q \in DOMAIN par \cup {NOTHING} : q = par[o]
    BY <1>1, <1>2 DEF Ranked
  <2>2. o \notin Anc(par, q)
    <3>. SUFFICES ASSUME o \in Anc(par, q) PROVE FALSE
      OBVIOUS
    <3>1. q \in DOMAIN par
      BY <1>1, AncSet
    <3>2. height[o] <= height[q] /\ height[q] < height[o]
      BY <1>1, <1>2, <2>1, <3>1, AncOrder DEF Ranked
    <3>3. height[o] \in Nat /\ height[q] \in Nat
      BY <1>1, <1>2, <3>1 DEF Ranked
    <3>. QED BY <3>2, <3>3
  <2>. QED BY <1>5, <2>1, <2>2
<1>8. \A x \in DOMAIN par : Anc(par, x) = {x} \cup Anc(par, par[x])
  BY <1>1, AncSet
<1>. DEFINE Good == {x \in DOMAIN par : o \in Anc(par, x) => Prefixed(par, def, o, def2, x)}
<1>9. ASSUME NEW x \in DOMAIN par, par[x] = NOTHING \/ par[x] \in Good PROVE x \in Good
  <2>. SUFFICES ASSUME o \in Anc(par, x) PROVE Prefixed(par, def, o, def2, x)
    OBVIOUS
  <2>1. CASE x = o
    <3>1. PICK u \in Seq(Name), w \in Seq(Name) : u = Lay(par, def, o) /\ w = Lay(par, def2, o)
      BY <1>2, <1>6
    <3>2. u = <<>> \o u /\ w = <<>> \o w /\ <<>> \in Seq(Name)
      BY ConcatEmptySeq
    <3>. QED BY <2>1, <3>1, <3>2 DEF Prefixed
  <2>2. CASE x # o
    <3>1. o \in Anc(par, par[x])
      BY <1>8, <2>2
    <3>2. par[x] \in Good
      BY <1>1, <1>9, <3>1, AncSet
    <3>3. Prefixed(par, def, o, def2, par[x])
      BY <3>1, <3>2
    <3>4. PICK s \in Seq(Name) : /\ Lay(par, def, par[x]) = s \o Lay(par, def, o)
                                 /\ Lay(par, def2, par[x]) = s \o Lay(par, def2, o)
      BY <3>3 DEF Prefixed
    <3>5. PICK u \in Seq(Name), w \in Seq(Name), g \in Seq(Name) :
             u = Lay(par, def, o) /\ w = Lay(par, def2, o) /\ g = def[x]
      BY <1>2, <1>6 DEF Typed
    <3>6. (g \o s) \o u = g \o (s \o u)
      BY ConcatAssociative
    <3>10. (g \o s) \o w = g \o (s \o w)
      BY ConcatAssociative
    <3>7. g \o s \in Seq(Name) /\ Len(g \o s) = Len(g) + Len(s) /\ Len(g) \in Nat /\ Len(s) \in Nat
      OBVIOUS
    <3>8. Lay(par, def, x) = (g \o s) \o u /\ Lay(par, def2, x) = (g \o s) \o w
      BY <1>2, <1>6, <2>2, <3>4, <3>5, <3>6, <3>10
    <3>9. Len(def[x]) <= Len(g \o s)
      BY <3>5, <3>7
    <3>. QED BY <2>2, <3>5, <3>7, <3>8, <3>9 DEF Prefixed
  <2>. QED BY <2>1, <2>2
<1>10. DOMAIN par \subseteq Good
  <2>. HIDE DEF Good
  <2>. QED BY <1>1, <1>9, UpInd
<1>11. \A x \in DOMAIN par : o \in Anc(par, x) => Prefixed(par, def, o, def2, x)
  BY <1>10
<1>12. Lay(par, def, o) = def[o] \o Lay(par, def, par[o]) /\ Lay(par, def2, o) = new \o Lay(par, def, par[o])
  BY <1>2, <1>6, <1>7
<1>. QED BY <1>2, <1>4, <1>5, <1>11, <1>12 DEF Redefined

\* A name that is new to o, its ancestors and its descendants.
FreeName(par, def, o, n) ==
  /\ n \notin ToSet(Lay(par, def, o))
  /\ \A d \in DOMAIN par : o \in Anc(par, d) => n \notin ToSet(def[d])

\* New names for o: each of them once, and either old or free.
NamesFit(par, def, o, new) ==
  /\ \A i, j \in 1..Len(new) : new[i] = new[j] => i = j
  /\ \A n \in ToSet(new) : n \notin ToSet(def[o]) => FreeName(par, def, o, n)

\* Names that fit are apart from all others again.
LEMMA RedefineHierarchy ==
  ASSUME NEW par, NEW def, Hierarchy(par, def), NEW o, NEW new, NEW def2,
         Redefines(par, def, o, new, def2), NamesFit(par, def, o, new)
  PROVE  Hierarchy(par, def2)
<1>1. PICK height, top : Ranked(par, height, top)
  BY DEF Hierarchy
<1>2. /\ Tree(par, def2) /\ DOMAIN def2 = DOMAIN par /\ o \in DOMAIN par
      /\ def2[o] = new /\ \A x \in DOMAIN par : x # o => def2[x] = def[x]
  BY RedefineLay DEF Redefines, Redefined
<1>3. def2 \in [DOMAIN par -> Seq(Name)]
  <2>1. def2 = [def EXCEPT ![o] = new] /\ new \in Seq(Name)
    BY DEF Redefines
  <2>2. def \in [DOMAIN par -> Seq(Name)]
    BY DEF Hierarchy
  <2>. QED BY <2>1, <2>2
<1>4. \A x \in DOMAIN par : \A i, j \in 1..Len(def2[x]) : def2[x][i] = def2[x][j] => i = j
  BY <1>2 DEF Hierarchy, NamesFit
<1>5. Apart(par, def2)
  <2>. SUFFICES ASSUME NEW x \in DOMAIN par, NEW a \in Anc(par, x), a # x,
                       NEW n \in ToSet(def2[a]) \cap ToSet(def2[x])
                PROVE  FALSE
    BY DEF Apart
  <2>1. a \in DOMAIN par
    BY <1>1, AncSet
  <2>2. ToSet(def[a]) \cap ToSet(def[x]) = {}
    BY DEF Hierarchy, Apart
  <2>3. CASE x = o
    <3>1. n \in ToSet(def[a]) /\ n \in ToSet(new)
      BY <1>2, <2>1, <2>3
    <3>2. n \notin ToSet(Lay(par, def, o))
      BY <2>2, <2>3, <3>1 DEF NamesFit, FreeName
    <3>3. o \in DOMAIN par \cup {NOTHING} /\ \A y \in DOMAIN par : def[y] \in Seq(Name)
      BY <1>2, HierarchyTyped DEF Typed
    <3>. QED BY <1>1, <2>3, <3>1, <3>2, <3>3, LayNames
  <2>4. CASE a = o
    <3>1. n \in ToSet(def[x]) /\ n \in ToSet(new)
      BY <1>2, <2>4
    <3>. QED BY <2>2, <2>4, <3>1 DEF NamesFit, FreeName
  <2>5. CASE x # o /\ a # o
    BY <1>2, <2>1, <2>2, <2>5
  <2>. QED BY <2>3, <2>4, <2>5
<1>. QED BY <1>3, <1>4, <1>5 DEF Hierarchy

\* The condition on a new name looks at all ancestors and all descendants.
LEMMA MayBeNamedIs ==
  ASSUME NEW par, NEW def, NEW val, Hierarchy(par, def), NEW S, S = State(par, def, val),
         NEW o \in DOMAIN par, NEW n, MayBeNamed(S, o, n)
  PROVE  FreeName(par, def, o, n)
<1>1. S.parent = par /\ S.propdefs = def
  BY DEF State
<1>2. PICK names \in Seq(Name) : names = Lay(par, def, o)
  BY LayIs, HierarchyTyped DEF Hierarchy, Typed
<1>3. Layout(S, o) = names
  BY <1>1, <1>2, LayoutIs
<1>4. PlaceIn(names, n) = 0
  BY <1>3 DEF MayBeNamed, Place
<1>5. n \notin ToSet(names)
  BY <1>4, PlaceInIs
<1>6. \A d : d \in AtOrBelow(par, o) <=> d \in DOMAIN par /\ o \in Anc(par, d)
  BY DEF AtOrBelow, Anc
<1>. QED BY <1>1, <1>2, <1>5, <1>6 DEF MayBeNamed, property_defined_at_or_below, FreeName

\* The lengths of the names of d, which is at or below o, before and after.
Level(par, def, o, new, def2, d, k, m) ==
  /\ k \in Nat /\ m \in Nat /\ Len(def[o]) \in Nat /\ Len(new) \in Nat
  /\ Width(par, def, o) = Len(def[o]) + m /\ Width(par, def2, o) = Len(new) + m
  /\ Width(par, def, d) = k + (Len(def[o]) + m) /\ Width(par, def2, d) = k + (Len(new) + m)
  /\ d = o => k = 0
  /\ d # o => Len(def[d]) <= k /\ Len(def[d]) \in Nat

\* Such lengths exist for each object at or below o.
LEMMA LevelIs ==
  ASSUME NEW par, NEW def, NEW o, NEW new, NEW def2, Redefines(par, def, o, new, def2),
         NEW d \in DOMAIN par, o \in Anc(par, d)
  PROVE  \E k, m : Level(par, def, o, new, def2, d, k, m)
<1>1. PICK height, top : Ranked(par, height, top)
  BY DEF Redefines, Tree
<1>2. Typed(par, def) /\ o \in DOMAIN par /\ new \in Seq(Name)
  BY DEF Redefines, Tree
<1>3. /\ Lay(par, def, o) = def[o] \o Lay(par, def, par[o])
      /\ Lay(par, def2, o) = new \o Lay(par, def, par[o])
      /\ \A x \in DOMAIN par : o \in Anc(par, x) => Prefixed(par, def, o, def2, x)
  <2>1. Redefined(par, def, o, new, def2)
    BY RedefineLay
  <2>. QED BY <2>1 DEF Redefined
<1>4. PICK s \in Seq(Name) : /\ Lay(par, def, d) = s \o Lay(par, def, o)
                             /\ Lay(par, def2, d) = s \o Lay(par, def2, o)
                             /\ d = o => s = <<>>
                             /\ d # o => Len(def[d]) <= Len(s)
  <2>1. Prefixed(par, def, o, def2, d)
    BY <1>3
  <2>. QED BY <2>1 DEF Prefixed
<1>5. PICK g \in Seq(Name), t \in Seq(Name) : g = def[o] /\ t = Lay(par, def, par[o])
  <2>1. par[o] \in DOMAIN par \cup {NOTHING}
    BY <1>1, <1>2 DEF Ranked
  <2>. QED BY <1>1, <1>2, <2>1, LayIs DEF Typed
<1>6. g \o t \in Seq(Name) /\ Len(g \o t) = Len(g) + Len(t) /\ new \o t \in Seq(Name) /\ Len(new \o t) = Len(new) + Len(t)
  BY <1>2
<1>7. Len(s \o (g \o t)) = Len(s) + (Len(g) + Len(t)) /\ Len(s \o (new \o t)) = Len(s) + (Len(new) + Len(t))
  BY <1>6
<1>8. Len(s) \in Nat /\ Len(g) \in Nat /\ Len(t) \in Nat /\ Len(new) \in Nat /\ Len(<<>>) = 0
  BY <1>2
<1>9. Len(def[d]) \in Nat
  BY <1>2 DEF Typed
<1>10. Level(par, def, o, new, def2, d, Len(s), Len(t))
  BY <1>3, <1>4, <1>5, <1>6, <1>7, <1>8, <1>9 DEF Level, Width
<1>. QED BY <1>10

\* What the object d gets when o defines a property with the value pval.
NewPval(pval, o, d) == [Inherited(pval, d) EXCEPT !.var = IF d = o THEN pval.var ELSE Clear]

\* The value that is inserted in the array of d.
LEMMA NewPvalIs ==
  ASSUME NEW pval \in Pval, NEW o, NEW d, owner[d] \in Owner
  PROVE  NewPval(pval, o, d) \in Pval /\ NewPval(pval, o, d).var = IF d = o THEN pval.var ELSE Clear
<1>1. PICK r \in Pval : r = Inherited(pval, d)
  BY InheritedIs
<1>2. PICK v \in Value \cup {Clear} : v = IF d = o THEN pval.var ELSE Clear
  BY DEF Pval
<1>3. [r EXCEPT !.var = v] \in Pval /\ [r EXCEPT !.var = v].var = v
  BY DEF Pval
<1>. QED BY <1>1, <1>2, <1>3 DEF NewPval

\* The arrays when a property is added at the end of those that o defines.
Inserted(par, def, val, o, pval, val2) ==
  val2 = [d \in DOMAIN par |->
            IF o \in Anc(par, d)
            THEN InsertAt(val[d], Len(def[o]) + 1 + (Width(par, def, d) - Width(par, def, o)),
                          NewPval(pval, o, d))
            ELSE val[d]]

\* db_add_propdef() extends the arrays.
LengthensTo(S, name, pval, par, def, val, o, def2) ==
  \E val2 : /\ db_add_propdef(S, o, name, pval) = State(par, def2, val2)
            /\ Inserted(par, def, val, o, pval, val2)

\* db_add_propdef() inserts one value in each array, at the right place.
LEMMA AddIs ==
  ASSUME NEW par, NEW def, NEW val, Hierarchy(par, def), NEW o \in DOMAIN par, NEW name \in Name,
         NEW S, S = State(par, def, val), NEW pval,
         NEW new, new = Append(def[o], name), NEW def2, Redefines(par, def, o, new, def2)
  PROVE  LengthensTo(S, name, pval, par, def, val, o, def2)
<1>1. Typed(par, def) /\ Tree(par, def) /\ DOMAIN def = DOMAIN par
  BY HierarchyTyped DEF Hierarchy, Tree
<1>2. PICK g \in Seq(Name) : g = def[o]
  BY <1>1 DEF Typed
<1>3. new \in Seq(Name) /\ Len(new) = Len(g) + 1 /\ Len(g) \in Nat
  BY <1>2
<1>5. PICK T : T = State(par, def2, val)
  OBVIOUS
<1>6. T = WithNames(S, o, Append(S.propdefs[o], name))
  <2>1. (S.propdefs)[o] = def[o]
    BY DEF State
  <2>2. WithNames(S, o, new) = T
    BY <1>5, NewNames
  <2>. QED BY <2>1, <2>2
<1>7. T.parent = par /\ T.propdefs = def2 /\ T.propval = val /\ T.propdefs[o] = new
  <2>1. Redefined(par, def, o, new, def2)
    BY RedefineLay
  <2>2. def2[o] = new
    BY <2>1 DEF Redefined
  <2>. QED BY <1>5, <2>2 DEF State
<1>8. PICK pos \in Nat : pos = Len(new)
  BY <1>3
<1>9. db_add_propdef(S, o, name, pval) = insert_prop_recursively(T, o, pos, pval)
  <2>1. db_add_propdef(S, o, name, pval) = insert_prop_recursively(T, o, Len(T.propdefs[o]), pval)
    BY <1>6, Zenon DEF db_add_propdef, WithNames
  <2>. QED BY <1>7, <1>8, <2>1
<1>10. \A d \in AtOrBelow(par, o) : Position(T, o, pos, d) = pos + Width(par, def2, d) - Width(par, def2, o)
  <2>1. Tree(par, def2)
    BY RedefineLay DEF Redefined
  <2>2. Reaches(T, par, def2, o, pos)
    BY <1>7, <2>1 DEF Reaches, Tree
  <2>. QED BY <2>2, PositionIs
<1>11. \A d : d \in AtOrBelow(par, o) <=> d \in DOMAIN par /\ o \in Anc(par, d)
  BY DEF AtOrBelow, Anc
<1>12. ASSUME NEW d \in DOMAIN par, o \in Anc(par, d)
       PROVE  Position(T, o, pos, d) = Len(def[o]) + 1 + (Width(par, def, d) - Width(par, def, o))
  <2>1. PICK k, m : Level(par, def, o, new, def2, d, k, m)
    BY <1>12, LevelIs
  <2>2. Position(T, o, pos, d) = pos + Width(par, def2, d) - Width(par, def2, o)
    BY <1>10, <1>11, <1>12
  <2>. QED BY <1>2, <1>3, <1>8, <2>1, <2>2 DEF Level
<1>13. PICK val2 : val2 = [d \in DOMAIN par |->
            IF o \in Anc(par, d)
            THEN InsertAt(val[d], Len(def[o]) + 1 + (Width(par, def, d) - Width(par, def, o)),
                          NewPval(pval, o, d))
            ELSE val[d]]
  OBVIOUS
<1>14. PICK val3 : val3 = [d \in DOMAIN T.parent |->
            IF d \notin AtOrBelow(T.parent, o) THEN T.propval[d]
            ELSE InsertAt(T.propval[d], Position(T, o, pos, d), NewPval(pval, o, d))]
  OBVIOUS
<1>15. insert_prop_recursively(T, o, pos, pval) = WithArrays(T, val3)
  BY <1>14, Zenon DEF insert_prop_recursively, NewPval, WithArrays
<1>16. val3 = val2
  <2>1. \A d \in DOMAIN par : val3[d] = val2[d]
    BY <1>7, <1>11, <1>12, <1>13, <1>14
  <2>2. val3 = [d \in DOMAIN par |-> val3[d]] /\ val2 = [d \in DOMAIN par |-> val2[d]]
    BY <1>7, <1>13, <1>14
  <2>. QED BY <2>1, <2>2
<1>17. WithArrays(T, val3) = State(par, def2, val3)
  BY <1>5, NewArrays
<1>18. Inserted(par, def, val, o, pval, val2)
  BY <1>13 DEF Inserted
<1>. QED BY <1>9, <1>15, <1>16, <1>17, <1>18 DEF LengthensTo

\* The arrays with one more value fit the longer names.
LEMMA InsertedArrays ==
  ASSUME NEW par, NEW def, NEW val, Arrays(par, def, val), Owned(par),
         NEW o, NEW new, NEW def2, Redefines(par, def, o, new, def2),
         Len(new) = Len(def[o]) + 1,
         NEW pval \in Pval, pval.var # Clear, NEW val2, Inserted(par, def, val, o, pval, val2)
  PROVE  Arrays(par, def2, val2)
<1>1. /\ Tree(par, def2) /\ DOMAIN def2 = DOMAIN par /\ o \in DOMAIN par
      /\ def2[o] = new /\ \A x \in DOMAIN par : x # o => def2[x] = def[x]
      /\ \A x \in DOMAIN par : o \notin Anc(par, x) => Lay(par, def2, x) = Lay(par, def, x)
  <2>1. Redefined(par, def, o, new, def2)
    BY RedefineLay
  <2>. QED BY <2>1 DEF Redefines, Redefined
<1>2. o \in Anc(par, o)
  BY <1>1, AncSet DEF Tree
<1>3. ASSUME NEW d \in DOMAIN par
      PROVE  /\ val2[d] \in Seq(Pval) /\ Len(val2[d]) = Width(par, def2, d)
             /\ \A i \in 1..Len(def2[d]) : val2[d][i].var # Clear
  <2>1. CASE o \notin Anc(par, d)
    <3>1. val2[d] = val[d] /\ def2[d] = def[d] /\ Width(par, def2, d) = Width(par, def, d)
      BY <1>1, <1>2, <2>1 DEF Inserted, Width
    <3>. QED BY <3>1 DEF Arrays
  <2>2. CASE o \in Anc(par, d)
    <3>1. PICK k, m : Level(par, def, o, new, def2, d, k, m)
      BY <2>2, LevelIs
    <3>2. PICK u \in Seq(Pval) : u = val[d] /\ Len(u) = Width(par, def, d)
      BY DEF Arrays
    <3>3. PICK e \in Pval : e = NewPval(pval, o, d) /\ e.var = IF d = o THEN pval.var ELSE Clear
      BY NewPvalIs DEF Owned
    <3>4. PICK j : j = Len(def[o]) + 1 + k
      OBVIOUS
    <3>5. j \in 1..(Len(u) + 1) /\ Len(u) = k + (Len(def[o]) + m)
      BY <3>1, <3>2, <3>4 DEF Level
    <3>6. Width(par, def, d) - Width(par, def, o) = k
      BY <3>1 DEF Level
    <3>7. val2[d] = InsertAt(u, j, e)
      BY <2>2, <3>2, <3>3, <3>4, <3>6 DEF Inserted
    <3>8. PICK v : v = InsertAt(u, j, e)
      OBVIOUS
    <3>9. /\ v \in Seq(Pval) /\ Len(v) = Len(u) + 1
          /\ \A i \in 1..(j - 1) : v[i] = u[i]
          /\ v[j] = e
      BY <3>5, <3>8, InsertIs
    <3>10. Len(v) = Width(par, def2, d)
      BY <3>1, <3>5, <3>9 DEF Level
    <3>11. ASSUME NEW i \in 1..Len(def2[d]) PROVE v[i].var # Clear
      <4>1. CASE d = o
        <5>1. k = 0 /\ j = Len(new) /\ Len(def[o]) \in Nat /\ def2[d] = new
          BY <1>1, <3>1, <3>4, <4>1 DEF Level
        <5>2. CASE i = j
          BY <3>3, <3>9, <4>1, <5>2
        <5>3. CASE i # j
          <6>1. i \in 1..(j - 1) /\ i \in 1..Len(def[o])
            BY <5>1, <5>3
          <6>2. v[i] = val[o][i]
            BY <3>2, <3>9, <4>1, <6>1
          <6>. QED BY <1>1, <6>1, <6>2 DEF Arrays
        <5>. QED BY <5>2, <5>3
      <4>2. CASE d # o
        <5>1. def2[d] = def[d] /\ Len(def[d]) <= k /\ Len(def[d]) \in Nat /\ k \in Nat /\ Len(def[o]) \in Nat
          BY <1>1, <3>1, <4>2 DEF Level
        <5>2. i \in 1..(j - 1) /\ i \in 1..Len(def[d])
          BY <3>4, <5>1
        <5>3. v[i] = val[d][i]
          BY <3>2, <3>9, <5>2
        <5>. QED BY <5>2, <5>3 DEF Arrays
      <4>. QED BY <4>1, <4>2
    <3>. QED BY <3>7, <3>8, <3>9, <3>10, <3>11
  <2>. QED BY <2>1, <2>2
<1>4. val2 \in [DOMAIN par -> Seq(Pval)]
  <2>1. val2 = [d \in DOMAIN par |-> val2[d]]
    BY DEF Inserted
  <2>. QED BY <1>3, <2>1
<1>. QED BY <1>3, <1>4 DEF Arrays

\* db_add_propdef()
LEMMA AddKeeps ==
  ASSUME NEW par, NEW def, NEW val, Sound(par, def, val), NEW o \in DOMAIN par, NEW name \in Name,
         FreeName(par, def, o, name), NEW pval \in Pval, pval.var # Clear,
         NEW S, S = State(par, def, val)
  PROVE  \E def2, val2 : /\ db_add_propdef(S, o, name, pval) = State(par, def2, val2)
                         /\ Redefines(par, def, o, Append(def[o], name), def2)
                         /\ Inserted(par, def, val, o, pval, val2)
                         /\ Sound(par, def2, val2)
<1>1. Hierarchy(par, def) /\ Arrays(par, def, val) /\ Owned(par)
  BY DEF Sound
<1>2. PICK g \in Seq(Name) : g = def[o]
  BY <1>1, HierarchyTyped DEF Typed
<1>3. PICK new : new = Append(g, name)
  OBVIOUS
<1>4. PICK def2 : def2 = [def EXCEPT ![o] = new]
  OBVIOUS
<1>5. Redefines(par, def, o, new, def2)
  <2>1. Tree(par, def) /\ DOMAIN def = DOMAIN par
    BY <1>1, HierarchyTyped DEF Hierarchy, Tree
  <2>2. new \in Seq(Name)
    BY <1>3
  <2>. QED BY <1>4, <2>1, <2>2 DEF Redefines
<1>6. PICK val2 : /\ db_add_propdef(S, o, name, pval) = State(par, def2, val2)
                  /\ Inserted(par, def, val, o, pval, val2)
  <2>1. new = Append(def[o], name)
    BY <1>2, <1>3
  <2>2. Hierarchy(par, def)
    BY <1>1
  <2>3. LengthensTo(S, name, pval, par, def, val, o, def2)
    BY <1>5, <2>1, <2>2, AddIs
  <2>. QED BY <2>3 DEF LengthensTo
<1>7. NamesFit(par, def, o, new)
  <2>1. /\ new \in Seq(Name) /\ Len(new) = Len(g) + 1 /\ Len(g) \in Nat
        /\ \A i \in 1..Len(g) : new[i] = g[i]
        /\ new[Len(g) + 1] = name
    BY <1>3
  <2>2. name \notin ToSet(g)
    <3>1. o \in Anc(par, o)
      BY <1>1, AncSet DEF Hierarchy
    <3>. QED BY <1>2, <3>1 DEF FreeName
  <2>3. \A i \in 1..Len(g) : g[i] \in ToSet(g)
    BY ToSetIs
  <2>4. \A i, j \in 1..Len(g) : g[i] = g[j] => i = j
    BY <1>1, <1>2 DEF Hierarchy
  <2>5. \A i \in 1..Len(new) : i = Len(g) + 1 \/ i \in 1..Len(g)
    BY <2>1
  <2>6. \A i, j \in 1..Len(new) : new[i] = new[j] => i = j
    BY <2>1, <2>2, <2>3, <2>4, <2>5
  <2>7. \A n \in ToSet(new) : n \in ToSet(g) \/ n = name
    <3>. SUFFICES ASSUME NEW n \in ToSet(new) PROVE n \in ToSet(g) \/ n = name
      OBVIOUS
    <3>1. PICK i \in 1..Len(new) : new[i] = n
      BY <2>1, ToSetIs
    <3>. QED BY <2>1, <2>3, <2>5, <3>1
  <2>. QED BY <1>2, <2>6, <2>7 DEF NamesFit
<1>8. Hierarchy(par, def2)
  BY <1>1, <1>5, <1>7, RedefineHierarchy
<1>9. Len(new) = Len(def[o]) + 1
  BY <1>2, <1>3
<1>10. Arrays(par, def2, val2)
  BY <1>1, <1>5, <1>6, <1>9, InsertedArrays
<1>. QED BY <1>1, <1>2, <1>3, <1>5, <1>6, <1>8, <1>10 DEF Sound

\* The arrays when the property at place i of o is removed.
Removed(par, def, val, o, i, val2) ==
  val2 = [d \in DOMAIN par |->
            IF o \in Anc(par, d)
            THEN RemoveAt(val[d], i + (Width(par, def, d) - Width(par, def, o)))
            ELSE val[d]]

\* db_delete_propdef() removes one value from each array, at the right place.
LEMMA DeleteIs ==
  ASSUME NEW par, NEW def, NEW val, Hierarchy(par, def), NEW o \in DOMAIN par,
         NEW i \in 1..Len(def[o]), NEW S, S = State(par, def, val),
         NEW new, new = RemoveAt(def[o], i), NEW def2, Redefines(par, def, o, new, def2)
  PROVE  \E val2 : /\ db_delete_propdef(S, o, i) = State(par, def2, val2)
                   /\ Removed(par, def, val, o, i, val2)
<1>1. Typed(par, def)
  BY HierarchyTyped
<1>2. PICK pos \in Nat : pos = i
  BY <1>1 DEF Typed
<1>3. PICK T : T = State(par, def2, val)
  OBVIOUS
<1>4. T = WithNames(S, o, RemoveAt(S.propdefs[o], i))
  <2>1. (S.propdefs)[o] = def[o]
    BY DEF State
  <2>2. WithNames(S, o, new) = T
    BY <1>3, NewNames
  <2>. QED BY <2>1, <2>2
<1>5. T.parent = par /\ T.propdefs = def2 /\ T.propval = val
  BY <1>3 DEF State
<1>6. db_delete_propdef(S, o, i) = remove_prop_recursively(T, o, pos)
  BY <1>2, <1>4, Zenon DEF db_delete_propdef, WithNames
<1>7. \A d \in AtOrBelow(par, o) : Position(T, o, pos, d) = pos + Width(par, def2, d) - Width(par, def2, o)
  <2>1. Tree(par, def2)
    BY RedefineLay DEF Redefined
  <2>2. Reaches(T, par, def2, o, pos)
    BY <1>5, <2>1 DEF Reaches, Tree
  <2>. QED BY <2>2, PositionIs
<1>8. \A d : d \in AtOrBelow(par, o) <=> d \in DOMAIN par /\ o \in Anc(par, d)
  BY DEF AtOrBelow, Anc
<1>9. ASSUME NEW d \in DOMAIN par, o \in Anc(par, d)
      PROVE  Position(T, o, pos, d) = i + (Width(par, def, d) - Width(par, def, o))
  <2>1. PICK k, m : Level(par, def, o, new, def2, d, k, m)
    BY <1>9, LevelIs
  <2>2. Position(T, o, pos, d) = pos + Width(par, def2, d) - Width(par, def2, o)
    BY <1>7, <1>8, <1>9
  <2>. QED BY <1>2, <2>1, <2>2 DEF Level
<1>10. PICK val2 : val2 = [d \in DOMAIN par |->
            IF o \in Anc(par, d)
            THEN RemoveAt(val[d], i + (Width(par, def, d) - Width(par, def, o)))
            ELSE val[d]]
  OBVIOUS
<1>11. PICK val3 : val3 = [d \in DOMAIN T.parent |->
            IF d \notin AtOrBelow(T.parent, o) THEN T.propval[d]
            ELSE RemoveAt(T.propval[d], Position(T, o, pos, d))]
  OBVIOUS
<1>12. remove_prop_recursively(T, o, pos) = WithArrays(T, val3)
  BY <1>11, Zenon DEF remove_prop_recursively, WithArrays
<1>13. val3 = val2
  <2>1. \A d \in DOMAIN par : val3[d] = val2[d]
    BY <1>5, <1>8, <1>9, <1>10, <1>11
  <2>2. val3 = [d \in DOMAIN par |-> val3[d]] /\ val2 = [d \in DOMAIN par |-> val2[d]]
    BY <1>5, <1>10, <1>11
  <2>. QED BY <2>1, <2>2
<1>14. WithArrays(T, val3) = State(par, def2, val3)
  BY <1>3, NewArrays
<1>15. Removed(par, def, val, o, i, val2)
  BY <1>10 DEF Removed
<1>. QED BY <1>6, <1>12, <1>13, <1>14, <1>15

\* The arrays with one value less fit the shorter names.
LEMMA RemovedArrays ==
  ASSUME NEW par, NEW def, NEW val, Arrays(par, def, val),
         NEW o, NEW new, NEW def2, Redefines(par, def, o, new, def2),
         Len(new) = Len(def[o]) - 1, NEW p \in 1..Len(def[o]),
         NEW val2, Removed(par, def, val, o, p, val2)
  PROVE  Arrays(par, def2, val2)
<1>1. /\ Tree(par, def2) /\ DOMAIN def2 = DOMAIN par /\ o \in DOMAIN par
      /\ def2[o] = new /\ \A x \in DOMAIN par : x # o => def2[x] = def[x]
      /\ \A x \in DOMAIN par : o \notin Anc(par, x) => Lay(par, def2, x) = Lay(par, def, x)
  <2>1. Redefined(par, def, o, new, def2)
    BY RedefineLay
  <2>. QED BY <2>1 DEF Redefines, Redefined
<1>2. o \in Anc(par, o)
  BY <1>1, AncSet DEF Tree
<1>3. ASSUME NEW d \in DOMAIN par
      PROVE  /\ val2[d] \in Seq(Pval) /\ Len(val2[d]) = Width(par, def2, d)
             /\ \A i \in 1..Len(def2[d]) : val2[d][i].var # Clear
  <2>1. CASE o \notin Anc(par, d)
    <3>1. val2[d] = val[d] /\ def2[d] = def[d] /\ Width(par, def2, d) = Width(par, def, d)
      BY <1>1, <1>2, <2>1 DEF Removed, Width
    <3>. QED BY <3>1 DEF Arrays
  <2>2. CASE o \in Anc(par, d)
    <3>1. PICK k, m : Level(par, def, o, new, def2, d, k, m)
      BY <2>2, LevelIs
    <3>2. PICK u \in Seq(Pval) : u = val[d] /\ Len(u) = Width(par, def, d)
      BY DEF Arrays
    <3>4. PICK j : j = p + k
      OBVIOUS
    <3>5. j \in 1..Len(u) /\ Len(u) = k + (Len(def[o]) + m)
      BY <3>1, <3>2, <3>4 DEF Level
    <3>6. Width(par, def, d) - Width(par, def, o) = k
      BY <3>1 DEF Level
    <3>7. val2[d] = RemoveAt(u, j)
      BY <2>2, <3>2, <3>4, <3>6 DEF Removed
    <3>8. PICK v : v = RemoveAt(u, j)
      OBVIOUS
    <3>9. /\ v \in Seq(Pval) /\ Len(v) = Len(u) - 1
          /\ \A i \in 1..(j - 1) : v[i] = u[i]
          /\ \A i \in j..(Len(u) - 1) : v[i] = u[i + 1]
      <4>1. Without(Pval, v, u, j)
        BY <3>5, <3>8, RemoveIs
      <4>. QED BY <4>1 DEF Without
    <3>10. Len(v) = Width(par, def2, d)
      BY <3>1, <3>5, <3>9 DEF Level
    <3>11. ASSUME NEW i \in 1..Len(def2[d]) PROVE v[i].var # Clear
      <4>1. CASE d = o
        <5>1. k = 0 /\ j = p /\ Len(def[o]) \in Nat /\ def2[d] = new /\ m \in Nat
          BY <1>1, <3>1, <3>4, <4>1 DEF Level
        <5>2. \A x \in 1..Len(def[o]) : u[x].var # Clear
          BY <1>1, <3>2, <4>1 DEF Arrays
        <5>3. CASE i < p
          <6>1. i \in 1..(j - 1) /\ i \in 1..Len(def[o])
            BY <5>1, <5>3
          <6>. QED BY <3>9, <5>2, <6>1
        <5>4. CASE i >= p
          <6>1. i \in j..(Len(u) - 1) /\ i + 1 \in 1..Len(def[o])
            BY <3>5, <5>1, <5>4
          <6>. QED BY <3>9, <5>2, <6>1
        <5>. QED BY <5>1, <5>3, <5>4
      <4>2. CASE d # o
        <5>1. def2[d] = def[d] /\ Len(def[d]) <= k /\ Len(def[d]) \in Nat /\ k \in Nat /\ Len(def[o]) \in Nat
          BY <1>1, <3>1, <4>2 DEF Level
        <5>2. i \in 1..(j - 1) /\ i \in 1..Len(def[d])
          BY <3>4, <5>1
        <5>3. v[i] = val[d][i]
          BY <3>2, <3>9, <5>2
        <5>. QED BY <5>2, <5>3 DEF Arrays
      <4>. QED BY <4>1, <4>2
    <3>. QED BY <3>7, <3>8, <3>9, <3>10, <3>11
  <2>. QED BY <2>1, <2>2
<1>4. val2 \in [DOMAIN par -> Seq(Pval)]
  <2>1. val2 = [d \in DOMAIN par |-> val2[d]]
    BY DEF Removed
  <2>. QED BY <1>3, <2>1
<1>. QED BY <1>3, <1>4 DEF Arrays

\* db_delete_propdef()
LEMMA DeleteKeeps ==
  ASSUME NEW par, NEW def, NEW val, Sound(par, def, val), NEW o \in DOMAIN par,
         NEW i \in 1..Len(def[o]), NEW S, S = State(par, def, val)
  PROVE  \E def2, val2 : /\ db_delete_propdef(S, o, i) = State(par, def2, val2)
                         /\ Redefines(par, def, o, RemoveAt(def[o], i), def2)
                         /\ Removed(par, def, val, o, i, val2)
                         /\ Sound(par, def2, val2)
<1>1. Hierarchy(par, def) /\ Arrays(par, def, val) /\ Owned(par)
  BY DEF Sound
<1>2. PICK g \in Seq(Name) : g = def[o]
  BY <1>1, HierarchyTyped DEF Typed
<1>3. PICK new : new = RemoveAt(g, i)
  OBVIOUS
<1>4. /\ new \in Seq(Name) /\ Len(new) = Len(g) - 1 /\ Len(g) \in Nat
      /\ \A j \in 1..(i - 1) : new[j] = g[j]
      /\ \A j \in i..(Len(g) - 1) : new[j] = g[j + 1]
  <2>1. i \in 1..Len(g)
    BY <1>2
  <2>2. Len(g) \in Nat
    OBVIOUS
  <2>3. Without(Name, new, g, i)
    BY <1>3, <2>1, RemoveIs
  <2>. QED BY <2>2, <2>3 DEF Without
<1>5. PICK def2 : def2 = [def EXCEPT ![o] = new]
  OBVIOUS
<1>6. Redefines(par, def, o, new, def2)
  <2>1. Tree(par, def) /\ DOMAIN def = DOMAIN par
    BY <1>1, HierarchyTyped DEF Hierarchy, Tree
  <2>. QED BY <1>4, <1>5, <2>1 DEF Redefines
<1>7. PICK val2 : /\ db_delete_propdef(S, o, i) = State(par, def2, val2)
                  /\ Removed(par, def, val, o, i, val2)
  <2>1. new = RemoveAt(def[o], i)
    BY <1>2, <1>3
  <2>. QED BY <1>1, <1>6, <2>1, DeleteIs
<1>8. NamesFit(par, def, o, new)
  <2>1. \A x, y \in 1..Len(g) : g[x] = g[y] => x = y
    BY <1>1, <1>2 DEF Hierarchy
  <2>2. i \in 1..Len(g)
    BY <1>2
  <2>3. \A x \in 1..Len(new) : \E y \in 1..Len(g) : new[x] = g[y] /\ y = IF x < i THEN x ELSE x + 1
    <3>. SUFFICES ASSUME NEW x \in 1..Len(new)
                  PROVE  \E y \in 1..Len(g) : new[x] = g[y] /\ y = IF x < i THEN x ELSE x + 1
      OBVIOUS
    <3>1. CASE x < i
      <4>1. x \in 1..(i - 1) /\ x \in 1..Len(g)
        BY <1>4, <2>2, <3>1
      <4>. QED BY <1>4, <3>1, <4>1
    <3>2. CASE ~(x < i)
      <4>1. x \in i..(Len(g) - 1) /\ x + 1 \in 1..Len(g)
        BY <1>4, <2>2, <3>2
      <4>. QED BY <1>4, <3>2, <4>1
    <3>. QED BY <3>1, <3>2
  <2>4. ASSUME NEW x \in 1..Len(new), NEW y \in 1..Len(new), new[x] = new[y] PROVE x = y
    <3>1. PICK a \in 1..Len(g) : new[x] = g[a] /\ a = IF x < i THEN x ELSE x + 1
      BY <2>3
    <3>2. PICK b \in 1..Len(g) : new[y] = g[b] /\ b = IF y < i THEN y ELSE y + 1
      BY <2>3
    <3>3. a = b
      BY <2>1, <2>4, <3>1, <3>2
    <3>. QED BY <2>2, <3>1, <3>2, <3>3
  <2>5. \A n \in ToSet(new) : n \in ToSet(g)
    <3>. SUFFICES ASSUME NEW n \in ToSet(new) PROVE n \in ToSet(g)
      OBVIOUS
    <3>1. PICK x \in 1..Len(new) : new[x] = n
      BY <1>4, ToSetIs
    <3>2. PICK y \in 1..Len(g) : new[x] = g[y]
      BY <2>3
    <3>. QED BY <3>1, <3>2, ToSetIs
  <2>. QED BY <1>2, <2>4, <2>5 DEF NamesFit
<1>9. Hierarchy(par, def2)
  BY <1>1, <1>6, <1>8, RedefineHierarchy
<1>10. Arrays(par, def2, val2)
  <2>1. Len(new) = Len(def[o]) - 1
    BY <1>2, <1>4
  <2>. QED BY <1>1, <1>6, <1>7, <2>1, RemovedArrays
<1>. QED BY <1>1, <1>2, <1>3, <1>6, <1>7, <1>9, <1>10 DEF Sound

-----------------------------------------------------------------------------
(* Changing one value                                                      *)

\* The array of o has e at the place k.
Set(val, o, k, e) == [val EXCEPT ![o] = [val[o] EXCEPT ![k] = e]]

\* An object's own properties are among all its properties.
LEMMA OwnFirst ==
  ASSUME NEW par, NEW def, Hierarchy(par, def), NEW x \in DOMAIN par
  PROVE  /\ Width(par, def, x) \in Nat /\ Len(def[x]) \in Nat /\ Len(def[x]) <= Width(par, def, x)
         /\ \A i \in 1..Len(def[x]) : i \in 1..Width(par, def, x) /\ Lay(par, def, x)[i] = def[x][i]
         /\ \A i \in 1..Width(par, def, x) : i \notin 1..Len(def[x]) =>
              /\ i - Len(def[x]) \in 1..Width(par, def, par[x])
              /\ Lay(par, def, x)[i] = Lay(par, def, par[x])[i - Len(def[x])]
         /\ par[x] = NOTHING => \A i \in 1..Width(par, def, x) : i \in 1..Len(def[x])
<1>1. PICK height, top : Ranked(par, height, top)
  BY DEF Hierarchy
<1>2. Typed(par, def)
  BY HierarchyTyped
<1>3. PICK g \in Seq(Name), t \in Seq(Name), w \in Seq(Name) : g = def[x] /\ t = Lay(par, def, par[x]) /\ w = Lay(par, def, x)
  <2>1. par[x] \in DOMAIN par \cup {NOTHING}
    BY <1>1 DEF Ranked
  <2>. QED BY <1>1, <1>2, <2>1, LayIs DEF Typed
<1>4. w = g \o t
  BY <1>1, <1>2, <1>3, LayIs DEF Typed
<1>5. /\ Len(w) = Len(g) + Len(t) /\ Len(g) \in Nat /\ Len(t) \in Nat
      /\ \A i \in 1..Len(g) : w[i] = g[i]
      /\ \A i \in 1..Len(w) : i \notin 1..Len(g) => i - Len(g) \in 1..Len(t) /\ w[i] = t[i - Len(g)]
  BY <1>4
<1>6. par[x] = NOTHING => t = <<>>
  BY <1>1, <1>2, <1>3, LayIs DEF Typed
<1>7. \A i \in 1..Len(g) : i \in 1..Len(w)
  BY <1>5
<1>8. par[x] = NOTHING => \A i \in 1..Len(w) : i \in 1..Len(g)
  BY <1>5, <1>6
<1>. QED BY <1>3, <1>5, <1>7, <1>8 DEF Width

\* No name is there twice.
Once(names) == \A i, j \in 1..Len(names) : names[i] = names[j] => i = j

\* An object has each name once, whoever defines it.
LEMMA LayOnce ==
  ASSUME NEW par, NEW def, Hierarchy(par, def)
  PROVE  \A x \in DOMAIN par \cup {NOTHING} : Once(Lay(par, def, x))
<1>1. PICK height, top : Ranked(par, height, top)
  BY DEF Hierarchy
<1>2. Typed(par, def)
  BY HierarchyTyped
<1>3. Once(Lay(par, def, NOTHING))
  <2>1. Lay(par, def, NOTHING) = <<>>
    BY <1>1, <1>2, LayIs DEF Typed
  <2>2. Once(<<>>)
    BY DEF Once
  <2>. QED BY <2>1, <2>2
<1>. DEFINE Good == {x \in DOMAIN par : Once(Lay(par, def, x))}
<1>4. ASSUME NEW x \in DOMAIN par, par[x] = NOTHING \/ par[x] \in Good PROVE x \in Good
  <2>1. PICK g \in Seq(Name), t \in Seq(Name), w \in Seq(Name) :
          g = def[x] /\ t = Lay(par, def, par[x]) /\ w = Lay(par, def, x)
    <3>1. par[x] \in DOMAIN par \cup {NOTHING}
      BY <1>1 DEF Ranked
    <3>. QED BY <1>1, <1>2, <3>1, LayIs DEF Typed
  <2>2. /\ Len(g) \in Nat /\ Len(w) \in Nat
        /\ \A i \in 1..Len(g) : i \in 1..Len(w) /\ w[i] = g[i]
        /\ \A i \in 1..Len(w) : i \notin 1..Len(g) =>
             i - Len(g) \in 1..Len(t) /\ w[i] = t[i - Len(g)]
    BY <2>1, OwnFirst DEF Width
  <2>3. Once(t)
    BY <1>3, <1>4, <2>1
  <2>4. Once(g)
    BY <2>1 DEF Hierarchy, Once
  <2>5. ASSUME NEW i \in 1..Len(g), NEW j \in 1..Len(t), g[i] = t[j] PROVE FALSE
    <3>1. g[i] \in ToSet(def[x]) /\ g[i] \in ToSet(Lay(par, def, par[x]))
      BY <2>1, <2>5, ToSetIs
    <3>2. par[x] \in DOMAIN par \cup {NOTHING}
      BY <1>1 DEF Ranked
    <3>3. PICK a \in Anc(par, par[x]) : g[i] \in ToSet(def[a])
      BY <1>1, <1>2, <3>1, <3>2, LayNames DEF Typed
    <3>4. par[x] # NOTHING
      BY <1>1, <3>3, AncSet
    <3>5. a \in Anc(par, x) /\ a \in DOMAIN par /\ par[x] \in DOMAIN par
      BY <1>1, <3>2, <3>3, <3>4, AncSet
    <3>6. height[a] <= height[par[x]] /\ height[par[x]] < height[x]
      BY <1>1, <3>3, <3>4, <3>5, AncOrder DEF Ranked
    <3>7. height[a] \in Nat /\ height[par[x]] \in Nat /\ height[x] \in Nat
      BY <1>1, <3>5 DEF Ranked
    <3>8. a # x
      BY <3>6, <3>7
    <3>. QED BY <3>1, <3>3, <3>5, <3>8 DEF Hierarchy, Apart
  <2>6. Once(w)
    <3>. SUFFICES ASSUME NEW i \in 1..Len(w), NEW j \in 1..Len(w), w[i] = w[j] PROVE i = j
      BY DEF Once
    <3>1. CASE i \in 1..Len(g) /\ j \in 1..Len(g)
      BY <2>2, <2>4, <3>1 DEF Once
    <3>2. CASE i \in 1..Len(g) /\ j \notin 1..Len(g)
      BY <2>2, <2>5, <3>2
    <3>3. CASE i \notin 1..Len(g) /\ j \in 1..Len(g)
      BY <2>2, <2>5, <3>3
    <3>4. CASE i \notin 1..Len(g) /\ j \notin 1..Len(g)
      <4>1. PICK k \in 1..Len(t), m \in 1..Len(t) : k = i - Len(g) /\ m = j - Len(g)
        BY <2>2, <3>4
      <4>2. t[k] = t[m]
        BY <2>2, <3>4, <4>1
      <4>3. k = m
        BY <2>3, <4>2 DEF Once
      <4>. QED BY <2>2, <4>1, <4>3
    <3>. QED BY <3>1, <3>2, <3>3, <3>4
  <2>. QED BY <2>1, <2>6
<1>5. DOMAIN par \subseteq Good
  <2>. HIDE DEF Good
  <2>. QED BY <1>1, <1>4, UpInd
<1>. QED BY <1>3, <1>5

\* A value may be replaced, but not by a clear one where it is defined.
LEMMA SetArrays ==
  ASSUME NEW par, NEW def, NEW val, Hierarchy(par, def), Arrays(par, def, val), NEW o \in DOMAIN par,
         NEW k \in 1..Len(val[o]), NEW e \in Pval, k \in 1..Len(def[o]) => e.var # Clear
  PROVE  Arrays(par, def, Set(val, o, k, e))
<1>1. /\ val \in [DOMAIN par -> Seq(Pval)]
      /\ \A x \in DOMAIN par : Len(val[x]) = Width(par, def, x)
      /\ \A x \in DOMAIN par : \A i \in 1..Len(def[x]) : val[x][i].var # Clear
  BY DEF Arrays
<1>2. PICK u \in Seq(Pval) : u = val[o]
  BY <1>1
<1>3. PICK v : v = [u EXCEPT ![k] = e]
  OBVIOUS
<1>4. v \in Seq(Pval) /\ Len(v) = Len(u) /\ \A i \in 1..Len(u) : v[i] = IF i = k THEN e ELSE u[i]
  BY <1>2, <1>3
<1>5. PICK val2 : val2 = [val EXCEPT ![o] = v]
  OBVIOUS
<1>6. val2 = Set(val, o, k, e)
  BY <1>2, <1>3, <1>5 DEF Set
<1>7. val2 \in [DOMAIN par -> Seq(Pval)] /\ \A x \in DOMAIN par : val2[x] = IF x = o THEN v ELSE val[x]
  BY <1>1, <1>4, <1>5
<1>8. \A x \in DOMAIN par : Len(val2[x]) = Width(par, def, x)
  BY <1>1, <1>2, <1>4, <1>7
<1>9. ASSUME NEW x \in DOMAIN par, NEW i \in 1..Len(def[x]) PROVE val2[x][i].var # Clear
  <2>1. CASE x = o
    <3>1. i \in 1..Len(u)
      BY <1>1, <1>2, <2>1, OwnFirst
    <3>2. val2[x][i] = IF i = k THEN e ELSE u[i]
      BY <1>4, <1>7, <2>1, <3>1
    <3>. QED BY <1>1, <1>2, <2>1, <3>2
  <2>2. CASE x # o
    BY <1>1, <1>7, <2>2
  <2>. QED BY <2>1, <2>2
<1>10. Arrays(par, def, val2)
  BY <1>7, <1>8, <1>9 DEF Arrays
<1>. QED BY <1>6, <1>10

\* The place of a name that o has: beyond the properties that o defines unless
\* it defines this one.
LEMMA PlaceIs ==
  ASSUME NEW par, NEW def, NEW val, Hierarchy(par, def), NEW o \in DOMAIN par,
         NEW S, S = State(par, def, val), NEW n
  PROVE  /\ Place(S, o, n) # 0 => /\ Place(S, o, n) \in 1..Width(par, def, o)
                                  /\ Lay(par, def, o)[Place(S, o, n)] = n
         /\ Place(S, o, n) = 0 <=> n \notin ToSet(Lay(par, def, o))
         /\ DefinedAt(S, o, n) # 0 => DefinedAt(S, o, n) \in 1..Len(def[o]) /\ def[o][DefinedAt(S, o, n)] = n
         /\ DefinedAt(S, o, n) = 0 <=> n \notin ToSet(def[o])
         /\ DefinedAt(S, o, n) = 0 => Place(S, o, n) \notin 1..Len(def[o])
<1>1. S.parent = par /\ S.propdefs = def
  BY DEF State
<1>2. PICK names \in Seq(Name) : names = Lay(par, def, o)
  BY LayIs, HierarchyTyped DEF Hierarchy, Typed
<1>3. PICK g \in Seq(Name) : g = def[o]
  BY HierarchyTyped DEF Typed
<1>4. Place(S, o, n) = PlaceIn(names, n)
  BY <1>1, <1>2, LayoutIs DEF Place
<1>5. DefinedAt(S, o, n) = PlaceIn(g, n)
  BY <1>1, <1>3 DEF DefinedAt
<1>6. PICK k, i : k = PlaceIn(names, n) /\ i = PlaceIn(g, n)
  OBVIOUS
<1>7. /\ k = 0 <=> n \notin ToSet(names)
      /\ k # 0 => k \in 1..Len(names) /\ names[k] = n
  BY <1>6, PlaceInIs
<1>8. /\ i = 0 <=> n \notin ToSet(g)
      /\ i # 0 => i \in 1..Len(g) /\ g[i] = n
  BY <1>6, PlaceInIs
<1>9. ASSUME i = 0, k \in 1..Len(g) PROVE FALSE
  <2>1. k # 0
    BY <1>9
  <2>2. names[k] = g[k]
    BY <1>2, <1>3, <1>9, OwnFirst
  <2>3. g[k] \in ToSet(g)
    BY <1>9, ToSetIs
  <2>. QED BY <1>7, <1>8, <1>9, <2>1, <2>2, <2>3
<1>. QED BY <1>2, <1>3, <1>4, <1>5, <1>6, <1>7, <1>8, <1>9 DEF Width

\* What becomes of a record of three fields.
LEMMA NewInfoIs ==
  ASSUME NEW r \in Pval, NEW w, NEW c
  PROVE  [r EXCEPT !.owner = w, !.chown = c] = [var |-> r.var, owner |-> w, chown |-> c]
<1>1. PICK a, b, d : a = r.var /\ b = r.owner /\ d = r.chown
  OBVIOUS
<1>2. r = [var |-> a, owner |-> b, chown |-> d]
  BY <1>1 DEF Pval
<1>3. [[var |-> a, owner |-> b, chown |-> d] EXCEPT !.owner = w] = [var |-> a, owner |-> w, chown |-> d]
  OBVIOUS
<1>4. [[var |-> a, owner |-> w, chown |-> d] EXCEPT !.chown = c] = [var |-> a, owner |-> w, chown |-> c]
  OBVIOUS
<1>. QED BY <1>1, <1>2, <1>3, <1>4

\* A value with another owner and other permissions.
WithInfo(r, info) == [var |-> r.var, owner |-> info.owner, chown |-> info.chown]

\* The value r of property n is at the place k of o's array.
IsAt(S, par, def, val, o, n, k, r) ==
  S = State(par, def, val) /\ k = Place(S, o, n) /\ r = val[o][k] /\ r \in Pval

\* The owner and the permissions of one value.
LEMMA SetInfoIs ==
  ASSUME NEW par, NEW def, NEW val, NEW o, NEW k, NEW S, NEW r, NEW n, NEW info,
         IsAt(S, par, def, val, o, n, k, r)
  PROVE  SetInfo(S, o, n, info)
         = State(par, def, Set(val, o, k, WithInfo(r, info)))
<1>. SUFFICES ASSUME S = State(par, def, val), k = Place(S, o, n), val[o][k] = r, r \in Pval
              PROVE  SetInfo(S, o, n, info)
                     = State(par, def, Set(val, o, k, WithInfo(r, info)))
  BY DEF IsAt
<1>1. PICK w, c : w = info.owner /\ c = info.chown
  OBVIOUS
<1>2. S.propval[o][k] = r
  BY DEF State
<1>3. [r EXCEPT !.owner = w, !.chown = c] = [var |-> r.var, owner |-> w, chown |-> c]
  BY NewInfoIs
<1>4. PICK e : e = [var |-> r.var, owner |-> w, chown |-> c]
  OBVIOUS
<1>5. SetInfo(S, o, n, info) = [S EXCEPT !.propval[o][k] = e]
  BY <1>1, <1>2, <1>3, <1>4 DEF SetInfo
<1>6. [S EXCEPT !.propval[o][k] = e] = State(par, def, Set(val, o, k, e))
  BY DEF State, Set
<1>. QED BY <1>1, <1>4, <1>5, <1>6 DEF WithInfo

\* The value at the place k of o's array becomes e.
Reset(par, def, val, o, k, e, val2) ==
  /\ k \in 1..Width(par, def, o) /\ e \in Pval /\ (k \in 1..Len(def[o]) => e.var # Clear)
  /\ val2 = Set(val, o, k, e)

\* What SetInfo(S, o, n, info) gives.
Informed(S, T, par, def, val, o, n) ==
  \E e, val2 : /\ T = State(par, def, val2) /\ Arrays(par, def, val2)
               /\ Reset(par, def, val, o, Place(S, o, n), e, val2)
               /\ e.var = val[o][Place(S, o, n)].var

\* A value with another owner and other permissions is where it was.
LEMMA InfoKeeps ==
  ASSUME NEW par, NEW def, NEW val, Hierarchy(par, def), Arrays(par, def, val), NEW o \in DOMAIN par,
         NEW n, NEW S, S = State(par, def, val), Place(S, o, n) # 0,
         NEW info, info.owner \in Player, info.chown \in BOOLEAN
  PROVE  Informed(S, SetInfo(S, o, n, info), par, def, val, o, n)
<1>1. PICK k : k = Place(S, o, n)
  OBVIOUS
<1>2. val[o] \in Seq(Pval) /\ Len(val[o]) = Width(par, def, o)
  BY DEF Arrays
<1>3. k \in 1..Len(val[o])
  BY <1>1, <1>2, PlaceIs
<1>4. PICK r \in Pval : r = val[o][k]
  BY <1>2, <1>3
<1>5. PICK e : e = [var |-> r.var, owner |-> info.owner, chown |-> info.chown]
  OBVIOUS
<1>6. e \in Pval /\ e.var = r.var
  BY <1>4, <1>5 DEF Pval
<1>7. k \in 1..Len(def[o]) => e.var # Clear
  BY <1>4, <1>6 DEF Arrays
<1>8. Arrays(par, def, Set(val, o, k, e))
  BY <1>3, <1>6, <1>7, SetArrays
<1>9. SetInfo(S, o, n, info)
      = State(par, def, Set(val, o, k, WithInfo(r, info)))
  <2>1. IsAt(S, par, def, val, o, n, k, r)
    BY <1>1, <1>4 DEF IsAt
  <2>. QED BY <2>1, SetInfoIs
<1>10. PICK val2 : val2 = Set(val, o, k, e)
  OBVIOUS
<1>11. Reset(par, def, val, o, k, e, val2)
  BY <1>2, <1>3, <1>6, <1>7, <1>10 DEF Reset
<1>12. SetInfo(S, o, n, info) = State(par, def, val2)
  BY <1>5, <1>9, <1>10 DEF WithInfo
<1>. QED BY <1>1, <1>4, <1>6, <1>8, <1>10, <1>11, <1>12 DEF Informed

\* Names that are as many as before have the same values.
LEMMA SameLengths ==
  ASSUME NEW par, NEW def, NEW val, Hierarchy(par, def), Arrays(par, def, val), NEW o, NEW new, NEW def2,
         Redefines(par, def, o, new, def2), Len(new) = Len(def[o])
  PROVE  Arrays(par, def2, val)
<1>1. Redefined(par, def, o, new, def2)
  BY RedefineLay
<1>2. /\ Tree(par, def2) /\ o \in DOMAIN par /\ new \in Seq(Name)
      /\ def2[o] = new /\ \A x \in DOMAIN par : x # o => def2[x] = def[x]
      /\ Lay(par, def, o) = def[o] \o Lay(par, def, par[o])
      /\ Lay(par, def2, o) = new \o Lay(par, def, par[o])
      /\ \A x \in DOMAIN par \cup {NOTHING} : o \notin Anc(par, x) => Lay(par, def2, x) = Lay(par, def, x)
      /\ \A x \in DOMAIN par : o \in Anc(par, x) => Prefixed(par, def, o, def2, x)
  BY <1>1 DEF Redefined, Redefines
<1>3. PICK height, top : Ranked(par, height, top)
  BY DEF Hierarchy
<1>4. PICK g \in Seq(Name), t \in Seq(Name) : g = def[o] /\ t = Lay(par, def, par[o])
  <2>1. par[o] \in DOMAIN par \cup {NOTHING}
    BY <1>2, <1>3 DEF Ranked
  <2>. QED BY <1>2, <1>3, <2>1, LayIs, HierarchyTyped DEF Typed
<1>5. PICK a, b : a = Lay(par, def, o) /\ b = Lay(par, def2, o)
  OBVIOUS
<1>6. a = g \o t /\ b = new \o t
  BY <1>2, <1>4, <1>5
<1>7. a \in Seq(Name) /\ b \in Seq(Name) /\ Len(a) = Len(b)
  BY <1>2, <1>4, <1>6
<1>8. ASSUME NEW x \in DOMAIN par PROVE Width(par, def2, x) = Width(par, def, x)
  <2>1. CASE o \notin Anc(par, x)
    BY <1>2, <2>1 DEF Width
  <2>2. CASE o \in Anc(par, x)
    <3>1. PICK s \in Seq(Name) : Lay(par, def, x) = s \o a /\ Lay(par, def2, x) = s \o b
      BY <1>2, <1>5, <2>2 DEF Prefixed
    <3>2. s \in Seq(Name)
      OBVIOUS
    <3>3. Len(s \o a) = Len(s) + Len(a) /\ Len(s \o b) = Len(s) + Len(b)
      BY ONLY <1>7, <3>2, ConcatProperties
    <3>4. Len(s \o a) = Len(s \o b)
      BY ONLY <1>7, <3>3
    <3>. QED BY ONLY <3>1, <3>4 DEF Width
  <2>. QED BY <2>1, <2>2
<1>9. \A x \in DOMAIN par : Len(def2[x]) = Len(def[x])
  BY <1>2
<1>. QED BY <1>8, <1>9 DEF Arrays

\* The property at place i of those that o defines gets another name.
Renamed(S, o, i, n, info) == SetInfo([S EXCEPT !.propdefs[o][i] = n], o, n, info)

\* w2 is w with e instead of what is at the place k.
Changed(w2, w, len, k, e) ==
  /\ len \in Nat /\ k \in 1..len
  /\ \A i \in 1..len : w2[i] = IF i = k THEN e ELSE w[i]

\* The same, with the length of the sequences.
Other(w2, w, k, n) == Len(w2) = Len(w) /\ Changed(w2, w, Len(w), k, n)

\* What this gives: the names new, and the value e for the renamed property.
RenamedTo(par, def, val, o, i, n, new, e, def2, val2) ==
  /\ Other(new, def[o], i, n) /\ Redefines(par, def, o, new, def2)
  /\ Arrays(par, def2, val) /\ Reset(par, def2, val, o, i, e, val2)
  /\ e.var = val[o][i].var

\* Renaming a property keeps its place in all arrays.
LEMMA RenameKeeps ==
  ASSUME NEW par, NEW def, NEW val, Hierarchy(par, def), Arrays(par, def, val), NEW o \in DOMAIN par,
         NEW i \in 1..Len(def[o]), NEW n \in Name, FreeName(par, def, o, n),
         NEW S, S = State(par, def, val),
         NEW info, info.owner \in Player, info.chown \in BOOLEAN
  PROVE  \E new, e, def2, val2 :
           /\ Renamed(S, o, i, n, info) = State(par, def2, val2)
           /\ Hierarchy(par, def2) /\ Arrays(par, def2, val2)
           /\ RenamedTo(par, def, val, o, i, n, new, e, def2, val2)
<1>1. PICK g \in Seq(Name) : g = def[o]
  BY HierarchyTyped DEF Typed
<1>2. PICK new : new = [g EXCEPT ![i] = n]
  OBVIOUS
<1>3. new \in Seq(Name) /\ Len(new) = Len(g) /\ \A j \in 1..Len(g) : new[j] = IF j = i THEN n ELSE g[j]
  BY <1>1, <1>2
<1>4. PICK def2 : def2 = [def EXCEPT ![o] = new]
  OBVIOUS
<1>5. Redefines(par, def, o, new, def2)
  <2>1. Tree(par, def) /\ DOMAIN def = DOMAIN par
    BY HierarchyTyped DEF Hierarchy, Tree
  <2>. QED BY <1>3, <1>4, <2>1 DEF Redefines
<1>6. PICK T : T = State(par, def2, val)
  OBVIOUS
<1>7. [S EXCEPT !.propdefs[o][i] = n] = T
  <2>1. [S EXCEPT !.propdefs[o][i] = n] = WithNames(S, o, [S.propdefs[o] EXCEPT ![i] = n])
    BY DEF WithNames
  <2>2. S.propdefs[o] = g
    BY <1>1 DEF State
  <2>3. WithNames(S, o, new) = State(par, def2, val)
    BY <1>5, NewNames
  <2>. QED BY <1>2, <1>6, <2>1, <2>2, <2>3
<1>8. NamesFit(par, def, o, new)
  <2>1. n \notin ToSet(Lay(par, def, o))
    BY DEF FreeName
  <2>2. \A j \in 1..Len(g) : g[j] # n
    <3>. SUFFICES ASSUME NEW j \in 1..Len(g), g[j] = n PROVE FALSE
      OBVIOUS
    <3>1. j \in 1..Width(par, def, o) /\ Lay(par, def, o)[j] = n
      BY <1>1, OwnFirst
    <3>2. Lay(par, def, o) \in Seq(Name)
      BY LayIs, HierarchyTyped DEF Hierarchy, Typed
    <3>. QED BY <2>1, <3>1, <3>2, ToSetIs DEF Width
  <2>3. \A x, y \in 1..Len(g) : g[x] = g[y] => x = y
    BY <1>1 DEF Hierarchy
  <2>4. \A x, y \in 1..Len(new) : new[x] = new[y] => x = y
    BY <1>3, <2>2, <2>3
  <2>5. \A m \in ToSet(new) : m \notin ToSet(g) => m = n
    BY <1>3, ToSetIs
  <2>. QED BY <1>1, <2>4, <2>5 DEF NamesFit
<1>9. Hierarchy(par, def2)
  BY <1>5, <1>8, RedefineHierarchy
<1>10. Arrays(par, def2, val)
  BY <1>1, <1>3, <1>5, SameLengths
<1>11. Place(T, o, n) # 0 /\ Place(T, o, n) = i
  <2>1. def2[o] = new
    BY <1>4, <1>5 DEF Redefines
  <2>2. i \in 1..Len(def2[o]) /\ def2[o][i] = n
    BY <1>1, <1>3, <2>1
  <2>3. i \in 1..Width(par, def2, o) /\ Lay(par, def2, o)[i] = n
    BY <1>9, <2>2, OwnFirst
  <2>4. Lay(par, def2, o) \in Seq(Name)
    BY <1>9, LayIs, HierarchyTyped DEF Hierarchy, Typed
  <2>5. n \in ToSet(Lay(par, def2, o))
    BY <2>3, <2>4, ToSetIs DEF Width
  <2>6. Place(T, o, n) # 0
    BY <1>6, <1>9, <2>5, PlaceIs
  <2>7. Place(T, o, n) \in 1..Width(par, def2, o) /\ Lay(par, def2, o)[Place(T, o, n)] = n
    BY <1>6, <1>9, <2>6, PlaceIs
  <2>8. Once(Lay(par, def2, o))
    BY <1>9, LayOnce
  <2>. QED BY <2>3, <2>6, <2>7, <2>8 DEF Once, Width
<1>12. Informed(T, SetInfo(T, o, n, info), par, def2, val, o, n)
  BY <1>6, <1>9, <1>10, <1>11, InfoKeeps
<1>13. PICK e, val2 : /\ SetInfo(T, o, n, info) = State(par, def2, val2) /\ Arrays(par, def2, val2)
                      /\ Reset(par, def2, val, o, i, e, val2) /\ e.var = val[o][i].var
  BY <1>11, <1>12 DEF Informed
<1>14. Renamed(S, o, i, n, info) = SetInfo(T, o, n, info)
  BY <1>7 DEF Renamed
<1>15. Other(new, def[o], i, n)
  BY <1>1, <1>3 DEF Other, Changed
<1>16. RenamedTo(par, def, val, o, i, n, new, e, def2, val2)
  BY <1>5, <1>10, <1>13, <1>15 DEF RenamedTo
<1>. QED BY <1>9, <1>13, <1>14, <1>16

\* A property that gets a value, or is cleared where it is inherited.
LEMMA ValueKeeps ==
  ASSUME NEW par, NEW def, NEW val, Hierarchy(par, def), Arrays(par, def, val), NEW o \in DOMAIN par,
         NEW n, NEW S, S = State(par, def, val), NEW k, k = Place(S, o, n), k # 0,
         NEW v \in Value \cup {Clear}, v = Clear => DefinedAt(S, o, n) = 0
  PROVE  \E e, val2 : /\ val2 = [val EXCEPT ![o][k].var = v] /\ Arrays(par, def, val2)
                      /\ Reset(par, def, val, o, k, e, val2)
<1>2. val \in [DOMAIN par -> Seq(Pval)] /\ Len(val[o]) = Width(par, def, o)
  BY DEF Arrays
<1>3. k \in 1..Len(val[o])
  BY <1>2, PlaceIs
<1>4. PICK r \in Pval : r = val[o][k]
  BY <1>2, <1>3
<1>5. PICK e : e = [r EXCEPT !.var = v]
  OBVIOUS
<1>6. e \in Pval /\ e.var = v
  BY <1>4, <1>5 DEF Pval
<1>7. k \in 1..Len(def[o]) => e.var # Clear
  BY <1>6, PlaceIs
<1>8. Arrays(par, def, Set(val, o, k, e))
  BY <1>3, <1>6, <1>7, SetArrays
<1>9. PICK val2 : val2 = Set(val, o, k, e)
  OBVIOUS
<1>10. [val EXCEPT ![o][k].var = v] = val2
  BY <1>4, <1>5, <1>9 DEF Set
<1>11. Reset(par, def, val, o, k, e, val2)
  BY <1>2, <1>3, <1>6, <1>7, <1>9 DEF Reset
<1>. QED BY <1>8, <1>9, <1>10, <1>11

-----------------------------------------------------------------------------
(* The search for a value                                                  *)

\* Whose value is meant for each place of x's array, if next tells it for its
\* parent's.
Found(def, val, x, next) ==
  [i \in Int |->
     IF x = NOTHING THEN NOTHING
     ELSE IF i \notin DOMAIN val[x] \/ val[x][i].var # Clear THEN x
     ELSE next[i - Len(def[x])]]

\* The search, for all objects.
Finds(up, par, def, val) ==
  up = [x \in DOMAIN par \cup {NOTHING} |-> Found(def, val, x, up[par[x]])]

\* There is such a function, by induction on the height it reaches.
LEMMA FindsExists ==
  ASSUME NEW par, NEW height, NEW top, Ranked(par, height, top), NEW def, NEW val
  PROVE  \E up : Finds(up, par, def, val)
<1>. DEFINE D(n) == {x \in DOMAIN par : height[x] < n} \cup {NOTHING}
            Reach(c, n) == c = [x \in D(n) |-> Found(def, val, x, c[par[x]])]
            S == {n \in Nat : \E c : Reach(c, n)}
<1>0. \A a, b : Found(def, val, NOTHING, a) = Found(def, val, NOTHING, b)
  BY DEF Found
<1>1. 0 \in S
  <2>. DEFINE c == [x \in D(0) |-> Found(def, val, NOTHING, par)]
  <2>1. D(0) = {NOTHING}
    BY DEF Ranked
  <2>2. Reach(c, 0)
    BY <1>0, <2>1
  <2>. HIDE DEF Reach, c
  <2>. QED BY <2>2
<1>2. ASSUME NEW n \in Nat, n \in S PROVE n + 1 \in S
  <2>1. PICK c : Reach(c, n)
    BY <1>2
  <2>. DEFINE g == [x \in D(n + 1) |-> Found(def, val, x, c[par[x]])]
  <2>2. ASSUME NEW x \in D(n + 1), x # NOTHING PROVE par[x] \in D(n) /\ par[x] \in D(n + 1)
    BY <2>2 DEF Ranked
  <2>3. ASSUME NEW x \in D(n) PROVE g[x] = c[x]
    <3>1. x \in D(n + 1)
      BY DEF Ranked
    <3>2. c[x] = Found(def, val, x, c[par[x]])
      BY <2>1
    <3>3. g[x] = Found(def, val, x, c[par[x]])
      BY <3>1
    <3>. QED BY <3>2, <3>3
  <2>4. Reach(g, n + 1)
    <3>. DEFINE h == [x \in D(n + 1) |-> Found(def, val, x, g[par[x]])]
    <3>1. ASSUME NEW x \in D(n + 1) PROVE g[x] = h[x]
      <4>1. x # NOTHING => g[par[x]] = c[par[x]]
        BY <2>2, <2>3
      <4>2. g[x] = Found(def, val, x, c[par[x]])
        OBVIOUS
      <4>3. h[x] = Found(def, val, x, g[par[x]])
        OBVIOUS
      <4>. HIDE DEF g, h, D
      <4>. QED BY <1>0, <4>1, <4>2, <4>3
    <3>. QED BY <3>1, Zenon
  <2>. HIDE DEF Reach, g
  <2>. QED BY <2>4
<1>3. PICK c : Reach(c, top + 1)
  <2>1. top + 1 \in Nat
    BY DEF Ranked
  <2>2. \A n \in Nat : n \in S
    <3>. HIDE DEF S
    <3>. QED BY <1>1, <1>2, NatInd
  <2>. QED BY <2>1, <2>2
<1>4. D(top + 1) = DOMAIN par \cup {NOTHING}
  <2>1. \A x \in DOMAIN par : height[x] < top + 1
    BY DEF Ranked
  <2>. QED BY <2>1
<1>5. Finds(c, par, def, val)
  <2>. HIDE DEF D
  <2>. QED BY <1>3, <1>4 DEF Finds
<1>. QED BY <1>5

\* What ValueOf computes.
LEMMA ValueOfIs ==
  ASSUME NEW par, NEW height, NEW top, Ranked(par, height, top), NEW def, NEW val,
         NEW S, S = State(par, def, val)
  PROVE  \E up : /\ Finds(up, par, def, val)
                 /\ \A o, n : ValueOf(S, o, n) = up[o][Place(S, o, n)]
<1>1. PICK up : up = CHOOSE f : Finds(f, S.parent, S.propdefs, S.propval)
  OBVIOUS
<1>2. Finds(up, par, def, val)
  <2>1. S.parent = par /\ S.propdefs = def /\ S.propval = val
    BY DEF State
  <2>2. \E f : Finds(f, S.parent, S.propdefs, S.propval)
    BY <2>1, FindsExists
  <2>3. Finds(up, S.parent, S.propdefs, S.propval)
    BY <1>1, <2>2
  <2>. QED BY <2>1, <2>3
<1>4. \A o, n : ValueOf(S, o, n) = up[o][Place(S, o, n)]
  BY <1>1, Zenon DEF ValueOf, Finds, Found
<1>. QED BY <1>2, <1>4

\* The value of the property at place i of x's array is u's, which has it too.
Has(par, def, x, i, u) == u \in DOMAIN par /\ Lay(par, def, x)[i] \in ToSet(Lay(par, def, u))

\* The search ends at an object that has the property.
LEMMA SearchEnds ==
  ASSUME NEW par, NEW def, NEW val, Hierarchy(par, def), Arrays(par, def, val),
         NEW up, Finds(up, par, def, val)
  PROVE  \A x \in DOMAIN par : \A i \in 1..Width(par, def, x) : Has(par, def, x, i, up[x][i])
<1>1. PICK height, top : Ranked(par, height, top)
  BY DEF Hierarchy
<1>. DEFINE Good == {x \in DOMAIN par :
                       \A i \in 1..Width(par, def, x) : Has(par, def, x, i, up[x][i])}
<1>2. ASSUME NEW x \in DOMAIN par, par[x] = NOTHING \/ par[x] \in Good PROVE x \in Good
  <2>. SUFFICES ASSUME NEW i \in 1..Width(par, def, x) PROVE Has(par, def, x, i, up[x][i])
    OBVIOUS
  <2>1. /\ val[x] \in Seq(Pval) /\ Len(val[x]) = Width(par, def, x)
        /\ \A j \in 1..Len(def[x]) : val[x][j].var # Clear
    BY DEF Arrays
  <2>2. i \in DOMAIN val[x] /\ i \in Int
    BY <2>1
  <2>3. x # NOTHING
    BY <1>1 DEF Ranked
  <2>4. up[x] = Found(def, val, x, up[par[x]])
    BY DEF Finds
  <2>5. CASE val[x][i].var # Clear
    <3>1. up[x][i] = x
      BY <2>2, <2>3, <2>4, <2>5 DEF Found
    <3>2. Lay(par, def, x) \in Seq(Name)
      BY <1>1, LayIs, HierarchyTyped DEF Typed
    <3>3. Lay(par, def, x)[i] \in ToSet(Lay(par, def, x))
      BY <3>2, ToSetIs DEF Width
    <3>. QED BY <3>1, <3>3 DEF Has
  <2>6. CASE val[x][i].var = Clear
    <3>1. up[x][i] = up[par[x]][i - Len(def[x])]
      BY <2>2, <2>3, <2>4, <2>6 DEF Found
    <3>2. i \notin 1..Len(def[x])
      BY <2>1, <2>6
    <3>3. PICK j : j = i - Len(def[x])
      OBVIOUS
    <3>4. /\ j \in 1..Width(par, def, par[x]) /\ Lay(par, def, x)[i] = Lay(par, def, par[x])[j]
          /\ par[x] # NOTHING
      BY <3>2, <3>3, OwnFirst
    <3>5. Has(par, def, par[x], j, up[par[x]][j])
      BY <1>2, <3>4
    <3>. QED BY <3>1, <3>3, <3>4, <3>5 DEF Has
  <2>. QED BY <2>5, <2>6
<1>3. DOMAIN par \subseteq Good
  <2>. HIDE DEF Good
  <2>. QED BY <1>1, <1>2, UpInd
<1>. QED BY <1>3

-----------------------------------------------------------------------------
(* Values by name                                                          *)

\* The values of an array by their names.
Spread(names, v) == [n \in ToSet(names) |-> v[PlaceIn(names, n)]]

\* Each value is found by its name.
LEMMA SpreadIs ==
  ASSUME NEW names \in Seq(Name), Once(names), NEW v
  PROVE  /\ DOMAIN Spread(names, v) = ToSet(names)
         /\ \A i \in 1..Len(names) : Spread(names, v)[names[i]] = v[i]
<1>1. DOMAIN Spread(names, v) = ToSet(names)
  BY DEF Spread
<1>2. ASSUME NEW i \in 1..Len(names) PROVE Spread(names, v)[names[i]] = v[i]
  <2>1. PICK n, k : n = names[i] /\ k = PlaceIn(names, n)
    OBVIOUS
  <2>2. n \in ToSet(names)
    BY <2>1, ToSetIs
  <2>3. k \in 1..Len(names) /\ names[k] = n
    BY <2>1, <2>2, PlaceInIs
  <2>4. k = i
    BY <2>1, <2>3 DEF Once
  <2>. QED BY <2>1, <2>2, <2>4 DEF Spread
<1>. QED BY <1>1, <1>2

\* A function of the names with the values at their places.
Fills(f, names, v) ==
  /\ f = [n \in ToSet(names) |-> f[n]]
  /\ \A i \in 1..Len(names) : f[names[i]] = v[i]

\* There is only one.
LEMMA SpreadOnly ==
  ASSUME NEW names \in Seq(Name), Once(names), NEW v, NEW f, Fills(f, names, v)
  PROVE  Spread(names, v) = f
<1>0. /\ f = [n \in ToSet(names) |-> f[n]]
      /\ \A i \in 1..Len(names) : f[names[i]] = v[i]
  BY DEF Fills
<1>1. PICK g : g = Spread(names, v)
  OBVIOUS
<1>2. g = [n \in ToSet(names) |-> g[n]]
  BY <1>1 DEF Spread
<1>3. ASSUME NEW n \in ToSet(names) PROVE g[n] = f[n]
  <2>1. PICK i \in 1..Len(names) : names[i] = n
    BY ToSetIs
  <2>. QED BY <1>0, <1>1, <2>1, SpreadIs
<1>4. g = f
  BY <1>0, <1>2, <1>3
<1>. QED BY <1>1, <1>4

\* The values of all objects by their names.
Slots(par, def, val) == [x \in DOMAIN par |-> Spread(Lay(par, def, x), val[x])]

\* The names that each object defines, as a set.
Defs(par, def) == [x \in DOMAIN par |-> ToSet(def[x])]

\* A name that x has is defined by one of its ancestors only.
LEMMA OneDefiner ==
  ASSUME NEW par, NEW def, Hierarchy(par, def), NEW n
  PROVE  \A x \in DOMAIN par : \A a, b \in Anc(par, x) :
           n \in ToSet(def[a]) /\ n \in ToSet(def[b]) => a = b
<1>1. PICK height, top : Ranked(par, height, top)
  BY DEF Hierarchy
<1>2. /\ Anc(par, NOTHING) = {}
      /\ \A x \in DOMAIN par : Anc(par, x) = {x} \cup Anc(par, par[x])
  BY <1>1, AncSet
<1>. DEFINE Good == {x \in DOMAIN par : \A a, b \in Anc(par, x) :
                       n \in ToSet(def[a]) /\ n \in ToSet(def[b]) => a = b}
<1>3. ASSUME NEW x \in DOMAIN par, par[x] = NOTHING \/ par[x] \in Good PROVE x \in Good
  <2>. SUFFICES ASSUME NEW a \in Anc(par, x), NEW b \in Anc(par, x),
                       n \in ToSet(def[a]), n \in ToSet(def[b])
                PROVE  a = b
    OBVIOUS
  <2>1. CASE a = x \/ b = x
    BY <2>1 DEF Hierarchy, Apart
  <2>2. CASE a # x /\ b # x
    <3>1. a \in Anc(par, par[x]) /\ b \in Anc(par, par[x])
      BY <1>2, <2>2
    <3>2. par[x] \in Good
      BY <1>2, <1>3, <3>1
    <3>. QED BY <3>1, <3>2
  <2>. QED BY <2>1, <2>2
<1>4. DOMAIN par \subseteq Good
  <2>. HIDE DEF Good
  <2>. QED BY <1>1, <1>3, UpInd
<1>. QED BY <1>4

\* The ancestors of an object are above or below any one of them.
LEMMA AncBetween ==
  ASSUME NEW par, NEW height, NEW top, Ranked(par, height, top), NEW o \in DOMAIN par
  PROVE  \A x \in DOMAIN par : \A b \in Anc(par, x) :
           o \in Anc(par, x) => o \in Anc(par, b) \/ b \in Anc(par, par[o])
<1>1. /\ Anc(par, NOTHING) = {}
      /\ \A x \in DOMAIN par : Anc(par, x) = {x} \cup Anc(par, par[x])
  BY AncSet
<1>. DEFINE Good == {x \in DOMAIN par : \A b \in Anc(par, x) :
                       o \in Anc(par, x) => o \in Anc(par, b) \/ b \in Anc(par, par[o])}
<1>2. ASSUME NEW x \in DOMAIN par, par[x] = NOTHING \/ par[x] \in Good PROVE x \in Good
  BY <1>1, <1>2
<1>3. DOMAIN par \subseteq Good
  <2>. HIDE DEF Good
  <2>. QED BY <1>2, UpInd
<1>. QED BY <1>3

\* A sequence of three parts.
Parts(w, a, b, c) ==
  /\ w \in Seq(Name) /\ Len(w) = Len(a) + Len(b) + Len(c)
  /\ \A i \in 1..Len(a) : w[i] = a[i]
  /\ \A i \in 1..Len(b) : w[Len(a) + i] = b[i]
  /\ \A i \in 1..Len(c) : w[Len(a) + Len(b) + i] = c[i]
  /\ ToSet(w) = ToSet(a) \cup (ToSet(b) \cup ToSet(c))

\* Three sequences one after the other.
LEMMA PartsAre ==
  ASSUME NEW a \in Seq(Name), NEW b \in Seq(Name), NEW c \in Seq(Name), NEW w, w = a \o (b \o c)
  PROVE  Parts(w, a, b, c)
<1>1. a \o (b \o c) = a \o b \o c
  BY ConcatAssociative, SMTT(30)
<1>2. w = a \o b \o c
  BY <1>1
<1>3. b \o c \in Seq(Name)
  OBVIOUS
<1>4. ToSet(b \o c) = ToSet(b) \cup ToSet(c)
  BY ToSetJoin
<1>5. PICK bc \in Seq(Name) : bc = b \o c
  BY <1>3
<1>6. ToSet(a \o bc) = ToSet(a) \cup ToSet(bc)
  BY ONLY a \in Seq(Name), bc \in Seq(Name), ToSetJoin
<1>7. ToSet(w) = ToSet(a) \cup (ToSet(b) \cup ToSet(c))
  BY <1>4, <1>5, <1>6
<1>8. /\ w \in Seq(Name) /\ Len(w) = Len(a) + Len(b) + Len(c)
      /\ \A i \in 1..Len(a) : w[i] = a[i]
      /\ \A i \in 1..Len(b) : w[Len(a) + i] = b[i]
      /\ \A i \in 1..Len(c) : w[Len(a) + Len(b) + i] = c[i]
  BY <1>2, ThreeParts
<1>. QED BY <1>7, <1>8 DEF Parts

\* The parts of a sequence without repetitions are apart.
LEMMA PartsApart ==
  ASSUME NEW a \in Seq(Name), NEW b \in Seq(Name), NEW c \in Seq(Name), NEW w, Parts(w, a, b, c), Once(w)
  PROVE  /\ \A n \in ToSet(a) : n \notin ToSet(b) /\ n \notin ToSet(c)
         /\ \A n \in ToSet(b) : n \notin ToSet(c)
<1>1. Len(a) \in Nat /\ Len(b) \in Nat /\ Len(c) \in Nat
  OBVIOUS
<1>2. ASSUME NEW n \in ToSet(a), n \in ToSet(b) PROVE FALSE
  <2>1. PICK i \in 1..Len(a) : a[i] = n
    BY ToSetIs
  <2>2. PICK j \in 1..Len(b) : b[j] = n
    BY <1>2, ToSetIs
  <2>3. w[i] = w[Len(a) + j] /\ i \in 1..Len(w) /\ Len(a) + j \in 1..Len(w)
    BY <1>1, <2>1, <2>2 DEF Parts
  <2>4. i = Len(a) + j
    BY <2>3 DEF Once
  <2>. QED BY <1>1, <2>4
<1>3. ASSUME NEW n \in ToSet(a), n \in ToSet(c) PROVE FALSE
  <2>1. PICK i \in 1..Len(a) : a[i] = n
    BY ToSetIs
  <2>2. PICK j \in 1..Len(c) : c[j] = n
    BY <1>3, ToSetIs
  <2>3. w[i] = w[Len(a) + Len(b) + j] /\ i \in 1..Len(w) /\ Len(a) + Len(b) + j \in 1..Len(w)
    BY <1>1, <2>1, <2>2 DEF Parts
  <2>4. i = Len(a) + Len(b) + j
    BY <2>3 DEF Once
  <2>. QED BY <1>1, <2>4
<1>4. ASSUME NEW n \in ToSet(b), n \in ToSet(c) PROVE FALSE
  <2>1. PICK i \in 1..Len(b) : b[i] = n
    BY ToSetIs
  <2>2. PICK j \in 1..Len(c) : c[j] = n
    BY <1>4, ToSetIs
  <2>3. /\ w[Len(a) + i] = w[Len(a) + Len(b) + j]
        /\ Len(a) + i \in 1..Len(w) /\ Len(a) + Len(b) + j \in 1..Len(w)
    BY <1>1, <2>1, <2>2 DEF Parts
  <2>4. Len(a) + i = Len(a) + Len(b) + j
    BY <2>3 DEF Once
  <2>. QED BY <1>1, <2>4
<1>. QED BY <1>2, <1>3, <1>4

\* What happens to the values of d by their names when its names s \o X \o Z
\* become s \o Y \o Z.
Carry(names, val, names2, val2, s, X, Y, Z, base, d) ==
  /\ Parts(names, s, X, Z) /\ Parts(names2, s, Y, Z)
  /\ \A n \in ToSet(s) \cup ToSet(Z) : Spread(names2, val2)[n] = Spread(names, val)[n]
  /\ \A n \in ToSet(Y) : Spread(names2, val2)[n] = Inherited(Spread(Y \o Z, base)[n], d)

\* A swap of names carries the values along.
LEMMA SwapSlots ==
  ASSUME NEW names, NEW names2, NEW val, NEW val2, NEW len,
         NEW X \in Seq(Name), NEW Y \in Seq(Name), NEW Z \in Seq(Name), NEW base, NEW d,
         Swap(names, names2, val, val2, len, X, Y, Z, base, d),
         Once(names), Once(names2), Once(Y \o Z)
  PROVE  \E s \in Seq(Name) : Carry(names, val, names2, val2, s, X, Y, Z, base, d)
<1>1. PICK s \in Seq(Name) :
        /\ names = s \o (X \o Z) /\ names2 = s \o (Y \o Z)
        /\ Refitted(val2, val, Len(s), Len(X), Len(Y), Len(Z), base, d)
  BY DEF Swap
<1>2. Parts(names, s, X, Z) /\ Parts(names2, s, Y, Z)
  BY <1>1, PartsAre
<1>3. Len(s) \in Nat /\ Len(X) \in Nat /\ Len(Y) \in Nat /\ Len(Z) \in Nat
  OBVIOUS
<1>4. names \in Seq(Name) /\ names2 \in Seq(Name)
  BY <1>2 DEF Parts
<1>5. /\ \A i \in 1..Len(names) : Spread(names, val)[names[i]] = val[i]
      /\ \A i \in 1..Len(names2) : Spread(names2, val2)[names2[i]] = val2[i]
  BY <1>4, SpreadIs
<1>6. ASSUME NEW n \in ToSet(s) PROVE Spread(names2, val2)[n] = Spread(names, val)[n]
  <2>1. PICK i \in 1..Len(s) : s[i] = n
    BY ToSetIs
  <2>2. names[i] = n /\ names2[i] = n /\ i \in 1..Len(names) /\ i \in 1..Len(names2)
    BY <1>2, <1>3, <2>1 DEF Parts
  <2>3. val2[i] = val[i]
    BY <1>1 DEF Refitted
  <2>. QED BY <1>5, <2>2, <2>3
<1>7. ASSUME NEW n \in ToSet(Z) PROVE Spread(names2, val2)[n] = Spread(names, val)[n]
  <2>1. PICK i \in 1..Len(Z) : Z[i] = n
    BY ToSetIs
  <2>2. PICK j, k : j = Len(s) + Len(X) + i /\ k = Len(s) + Len(Y) + i
    OBVIOUS
  <2>3. names[j] = n /\ names2[k] = n /\ j \in 1..Len(names) /\ k \in 1..Len(names2)
    BY <1>2, <1>3, <2>1, <2>2 DEF Parts
  <2>4. val2[k] = val[j]
    BY <1>1, <2>2 DEF Refitted
  <2>. QED BY <1>5, <2>3, <2>4
<1>8. ASSUME NEW n \in ToSet(Y) PROVE Spread(names2, val2)[n] = Inherited(Spread(Y \o Z, base)[n], d)
  <2>1. PICK i \in 1..Len(Y) : Y[i] = n
    BY ToSetIs
  <2>2. PICK k : k = Len(s) + i
    OBVIOUS
  <2>3. names2[k] = n /\ k \in 1..Len(names2)
    BY <1>2, <1>3, <2>1, <2>2 DEF Parts
  <2>4. val2[k] = Inherited(base[i], d)
    BY <1>1, <2>2 DEF Refitted
  <2>5. PICK w \in Seq(Name) : w = Y \o Z
    <3>1. Y \o Z \in Seq(Name)
      BY ConcatProperties
    <3>. QED BY <3>1
  <2>6. w[i] = n /\ i \in 1..Len(w)
    BY <2>1, <2>5
  <2>7. Spread(w, base)[n] = base[i]
    BY <2>5, <2>6, SpreadIs
  <2>. QED BY <1>5, <2>3, <2>4, <2>5, <2>7
<1>. QED BY <1>2, <1>6, <1>7, <1>8 DEF Carry

\* The object that defines n for x.
DefinerOf(par, def, x, n) == CHOOSE a \in Anc(par, x) : n \in ToSet(def[a])

\* Any ancestor that defines n is the one.
LEMMA DefinerIs ==
  ASSUME NEW par, NEW def, Hierarchy(par, def), NEW x \in DOMAIN par, NEW n,
         NEW a \in Anc(par, x), n \in ToSet(def[a])
  PROVE  DefinerOf(par, def, x, n) = a
<1>1. PICK b : b = DefinerOf(par, def, x, n)
  OBVIOUS
<1>2. b \in Anc(par, x) /\ n \in ToSet(def[b])
  BY <1>1 DEF DefinerOf
<1>. QED BY <1>1, <1>2, OneDefiner

\* What a change of parent does to the values by their names.
SlotsMoved(par, def, val, o, p, par2, val2) ==
  /\ \A d \in DOMAIN par : o \notin Anc(par, d) =>
       Spread(Lay(par2, def, d), val2[d]) = Spread(Lay(par, def, d), val[d])
  /\ \A d \in DOMAIN par : o \in Anc(par, d) => \A n \in ToSet(Lay(par2, def, d)) :
       Spread(Lay(par2, def, d), val2[d])[n]
         = IF n \in ToSet(Lay(par, def, d)) /\ DefinerOf(par2, def, d, n) = DefinerOf(par, def, d, n)
           THEN Spread(Lay(par, def, d), val[d])[n]
           ELSE Inherited(Spread(Lay(par, def, p), val[p])[n], d)

\* db_change_parent() moves the values with their names.
LEMMA MovedSlots ==
  ASSUME NEW par, NEW def, NEW val, Hierarchy(par, def), NEW o, NEW p, NEW par2, NEW val2,
         Moved(par, o, p, par2), Fits(par, def, o, p), Swapped(par, def, val, o, p, par2, val2)
  PROVE  SlotsMoved(par, def, val, o, p, par2, val2)
<1>1. PICK height, top : Ranked(par, height, top)
  BY DEF Hierarchy
<1>2. /\ o \in DOMAIN par /\ p \in DOMAIN par \cup {NOTHING} /\ o \notin Anc(par, p)
      /\ DOMAIN par2 = DOMAIN par
  BY DEF Moved
<1>3. Hierarchy(par2, def)
  BY MovedHierarchy
<1>4. Typed(par, def)
  BY HierarchyTyped
<1>5. ASSUME NEW d \in DOMAIN par, o \notin Anc(par, d)
      PROVE  Spread(Lay(par2, def, d), val2[d]) = Spread(Lay(par, def, d), val[d])
  <2>1. Lay(par2, def, d) = Lay(par, def, d)
    BY <1>1, <1>4, <1>5, MovedOthers
  <2>2. val2[d] = val[d]
    BY <1>5 DEF Swapped
  <2>. QED BY <2>1, <2>2
<1>6. PICK X \in Seq(Name), Y \in Seq(Name), Z \in Seq(Name), a \in DOMAIN par \cup {NOTHING} :
        /\ Lay(par, def, par[o]) = X \o Z /\ Lay(par, def, p) = Y \o Z
        /\ Z = Lay(par, def, a) /\ Anc(par, a) = Anc(par, p) \cap Anc(par, par[o])
        /\ \A d \in DOMAIN par : o \in Anc(par, d) =>
             Swap(Lay(par, def, d), Lay(par2, def, d), val[d], val2[d], Len(def[d]),
                  X, Y, Z, Base(val, p), d)
  BY DEF Swapped
<1>7. Once(Y \o Z)
  BY <1>2, <1>6, LayOnce
<1>8. /\ \A x \in DOMAIN par \cup {NOTHING} : \A n :
           n \in ToSet(Lay(par, def, x)) <=> \E b \in Anc(par, x) : n \in ToSet(def[b])
  BY <1>1, <1>4, LayNames DEF Typed
<1>9. par[o] \in DOMAIN par \cup {NOTHING}
  BY <1>1, <1>2 DEF Ranked
<1>10. ToSet(Lay(par, def, par[o])) = ToSet(X) \cup ToSet(Z) /\ ToSet(Lay(par, def, p)) = ToSet(Y) \cup ToSet(Z)
  BY <1>6, ToSetJoin
<1>11. ASSUME NEW d \in DOMAIN par, o \in Anc(par, d), NEW n \in ToSet(Lay(par2, def, d))
       PROVE  Spread(Lay(par2, def, d), val2[d])[n]
                = IF n \in ToSet(Lay(par, def, d)) /\ DefinerOf(par2, def, d, n) = DefinerOf(par, def, d, n)
                  THEN Spread(Lay(par, def, d), val[d])[n]
                  ELSE Inherited(Spread(Lay(par, def, p), val[p])[n], d)
  <2>1. PICK N, N2 : N = Lay(par, def, d) /\ N2 = Lay(par2, def, d)
    OBVIOUS
  <2>2. Once(N) /\ Once(N2)
    BY <1>2, <1>3, <2>1, LayOnce
  <2>3. PICK base : base = Base(val, p)
    OBVIOUS
  <2>4. Swap(N, N2, val[d], val2[d], Len(def[d]), X, Y, Z, base, d)
    BY <1>6, <1>11, <2>1, <2>3
  <2>5. PICK s \in Seq(Name) : Carry(N, val[d], N2, val2[d], s, X, Y, Z, base, d)
    BY <1>7, <2>2, <2>4, SwapSlots
  <2>6. Parts(N, s, X, Z) /\ Parts(N2, s, Y, Z)
    BY <2>5 DEF Carry
  <2>7. /\ ToSet(N) = ToSet(s) \cup (ToSet(X) \cup ToSet(Z))
        /\ ToSet(N2) = ToSet(s) \cup (ToSet(Y) \cup ToSet(Z))
    BY <2>6 DEF Parts
  <2>8. /\ \A m \in ToSet(s) : m \notin ToSet(X) /\ m \notin ToSet(Z)
        /\ \A m \in ToSet(Y) : m \notin ToSet(Z)
    BY <2>2, <2>6, PartsApart
  <2>9. Anc(par2, d) = {b \in Anc(par, d) : o \in Anc(par, b)} \cup Anc(par, p)
    BY <1>1, <1>11, MovedBelow
  <2>10. d \in DOMAIN par2
    BY <1>2
  <2>11. Anc(par, par[o]) \subseteq Anc(par, d)
    <3>1. Anc(par, o) \subseteq Anc(par, d) /\ Anc(par, o) = {o} \cup Anc(par, par[o])
      BY <1>1, <1>2, <1>11, AncOrder, AncSet
    <3>. QED BY <3>1
  <2>12. CASE n \in ToSet(s)
    <3>1. PICK b \in Anc(par, d) : n \in ToSet(def[b])
      BY <1>8, <2>1, <2>7, <2>12
    <3>2. b \notin Anc(par, par[o])
      BY <1>8, <1>9, <1>10, <2>8, <2>12, <3>1
    <3>3. o \in Anc(par, b)
      BY <1>1, <1>2, <1>11, <3>1, <3>2, AncBetween
    <3>4. b \in Anc(par2, d)
      BY <2>9, <3>1, <3>3
    <3>5. DefinerOf(par, def, d, n) = b /\ DefinerOf(par2, def, d, n) = b
      BY <1>3, <2>10, <3>1, <3>4, DefinerIs
    <3>6. Spread(N2, val2[d])[n] = Spread(N, val[d])[n]
      BY <2>5, <2>12 DEF Carry
    <3>. QED BY <2>1, <2>7, <2>12, <3>5, <3>6
  <2>13. CASE n \in ToSet(Z)
    <3>1. PICK b \in Anc(par, a) : n \in ToSet(def[b])
      BY <1>6, <1>8, <2>13
    <3>2. b \in Anc(par, p) /\ b \in Anc(par, par[o])
      BY <1>6, <3>1
    <3>3. b \in Anc(par, d) /\ b \in Anc(par2, d)
      BY <2>9, <2>11, <3>2
    <3>4. DefinerOf(par, def, d, n) = b /\ DefinerOf(par2, def, d, n) = b
      BY <1>3, <2>10, <3>1, <3>3, DefinerIs
    <3>5. Spread(N2, val2[d])[n] = Spread(N, val[d])[n]
      BY <2>5, <2>13 DEF Carry
    <3>. QED BY <2>1, <2>7, <2>13, <3>4, <3>5
  <2>14. CASE n \in ToSet(Y)
    <3>1. PICK b \in Anc(par, p) : n \in ToSet(def[b])
      BY <1>2, <1>8, <1>10, <2>14
    <3>2. DefinerOf(par2, def, d, n) = b
      BY <1>3, <2>9, <2>10, <3>1, DefinerIs
    <3>3. b \notin Anc(par, d)
      <4>. SUFFICES ASSUME b \in Anc(par, d) PROVE FALSE
        OBVIOUS
      <4>1. o \notin Anc(par, b)
        BY <1>1, <1>2, <3>1, AncOrder
      <4>2. b \in Anc(par, par[o])
        BY <1>1, <1>2, <1>11, <4>1, AncBetween
      <4>3. n \in ToSet(Z)
        BY <1>6, <1>8, <3>1, <4>2
      <4>. QED BY <2>8, <2>14, <4>3
    <3>4. ASSUME n \in ToSet(N) PROVE DefinerOf(par, def, d, n) # b
      <4>1. PICK c \in Anc(par, d) : n \in ToSet(def[c])
        BY <1>8, <2>1, <3>4
      <4>2. DefinerOf(par, def, d, n) = c
        BY <4>1, DefinerIs
      <4>. QED BY <3>3, <4>1, <4>2
    <3>5. Spread(N2, val2[d])[n] = Inherited(Spread(Y \o Z, base)[n], d)
      BY <2>5, <2>14 DEF Carry
    <3>6. p # NOTHING
      BY <1>1, <3>1, AncSet
    <3>7. base = val[p] /\ Y \o Z = Lay(par, def, p)
      BY <1>6, <2>3, <3>6 DEF Base
    <3>. QED BY <2>1, <3>2, <3>4, <3>5, <3>7
  <2>. QED BY <2>1, <2>7, <2>12, <2>13, <2>14
<1>. QED BY <1>5, <1>11 DEF SlotsMoved

\* Objects lose ancestors, and with them properties, but no value is touched.
Loses(par, def, val, par2, val2) ==
  /\ DOMAIN par2 = DOMAIN par
  /\ \A d \in DOMAIN par :
       /\ Anc(par2, d) \subseteq Anc(par, d)
       /\ \A n \in ToSet(Lay(par2, def, d)) :
            /\ n \in ToSet(Lay(par, def, d))
            /\ Spread(Lay(par2, def, d), val2[d])[n] = Spread(Lay(par, def, d), val[d])[n]

\* Two losses are one.
LEMMA LosesMore ==
  ASSUME NEW par, NEW def, NEW val, NEW par2, NEW val2, Loses(par, def, val, par2, val2),
         NEW par3, NEW val3, Loses(par2, def, val2, par3, val3)
  PROVE  Loses(par, def, val, par3, val3)
<1>. SUFFICES ASSUME NEW d \in DOMAIN par
              PROVE  /\ Anc(par3, d) \subseteq Anc(par, d)
                     /\ \A n \in ToSet(Lay(par3, def, d)) :
                          /\ n \in ToSet(Lay(par, def, d))
                          /\ Spread(Lay(par3, def, d), val3[d])[n] = Spread(Lay(par, def, d), val[d])[n]
  BY DEF Loses
<1>1. d \in DOMAIN par2
  BY DEF Loses
<1>2. /\ Anc(par2, d) \subseteq Anc(par, d)
      /\ \A n \in ToSet(Lay(par2, def, d)) :
           /\ n \in ToSet(Lay(par, def, d))
           /\ Spread(Lay(par2, def, d), val2[d])[n] = Spread(Lay(par, def, d), val[d])[n]
  BY DEF Loses
<1>3. /\ Anc(par3, d) \subseteq Anc(par2, d)
      /\ \A n \in ToSet(Lay(par3, def, d)) :
           /\ n \in ToSet(Lay(par2, def, d))
           /\ Spread(Lay(par3, def, d), val3[d])[n] = Spread(Lay(par2, def, d), val2[d])[n]
  BY <1>1 DEF Loses
<1>. QED BY <1>2, <1>3

\* An object that moves up inherits from those it inherited from before.
LEMMA MovedUpDefiner ==
  ASSUME NEW par, NEW def, Hierarchy(par, def), NEW o, NEW p, NEW par2,
         Moved(par, o, p, par2), Fits(par, def, o, p), Anc(par, p) \subseteq Anc(par, o),
         NEW d \in DOMAIN par, o \in Anc(par, d), NEW n \in ToSet(Lay(par2, def, d))
  PROVE  /\ n \in ToSet(Lay(par, def, d))
         /\ DefinerOf(par2, def, d, n) = DefinerOf(par, def, d, n)
<1>1. PICK height, top : Ranked(par, height, top)
  BY DEF Hierarchy
<1>3. Hierarchy(par2, def) /\ d \in DOMAIN par2
  BY MovedHierarchy DEF Moved
<1>4. Typed(par, def) /\ Typed(par2, def)
  BY <1>3, HierarchyTyped
<1>5. PICK height2, top2 : Ranked(par2, height2, top2)
  BY <1>3 DEF Hierarchy
<1>6. Anc(par2, d) = {b \in Anc(par, d) : o \in Anc(par, b)} \cup Anc(par, p)
  BY <1>1, MovedBelow
<1>7. Anc(par, o) \subseteq Anc(par, d)
  BY <1>1, AncOrder
<1>8. PICK b \in Anc(par2, d) : n \in ToSet(def[b])
  BY <1>3, <1>4, <1>5, LayNames DEF Typed
<1>9. b \in Anc(par, d)
  BY <1>6, <1>7
<1>10. n \in ToSet(Lay(par, def, d))
  BY <1>1, <1>4, <1>8, <1>9, LayNames DEF Typed
<1>11. DefinerOf(par2, def, d, n) = b
  BY <1>3, <1>8, DefinerIs
<1>12. DefinerOf(par, def, d, n) = b
  BY <1>8, <1>9, DefinerIs
<1>. QED BY <1>10, <1>11, <1>12

\* A parent farther up is such a loss.
LEMMA MovedUpLoses ==
  ASSUME NEW par, NEW def, NEW val, Hierarchy(par, def), NEW o, NEW p, NEW par2, NEW val2,
         Moved(par, o, p, par2), Fits(par, def, o, p), Swapped(par, def, val, o, p, par2, val2),
         Anc(par, p) \subseteq Anc(par, o)
  PROVE  Loses(par, def, val, par2, val2)
<1>1. PICK height, top : Ranked(par, height, top)
  BY DEF Hierarchy
<1>2. SlotsMoved(par, def, val, o, p, par2, val2)
  BY MovedSlots
<1>3. Hierarchy(par2, def) /\ DOMAIN par2 = DOMAIN par /\ o \in DOMAIN par
  BY MovedHierarchy DEF Moved
<1>4. Typed(par, def) /\ Typed(par2, def)
  BY <1>3, HierarchyTyped
<1>5. PICK height2, top2 : Ranked(par2, height2, top2)
  BY <1>3 DEF Hierarchy
<1>6. ASSUME NEW d \in DOMAIN par
      PROVE  /\ Anc(par2, d) \subseteq Anc(par, d)
             /\ \A n \in ToSet(Lay(par2, def, d)) :
                  /\ n \in ToSet(Lay(par, def, d))
                  /\ Spread(Lay(par2, def, d), val2[d])[n] = Spread(Lay(par, def, d), val[d])[n]
  <2>1. CASE o \notin Anc(par, d)
    <3>1. Ancestors(par2, d) = Ancestors(par, d) /\ Lay(par2, def, d) = Lay(par, def, d)
      BY <1>1, <1>4, <2>1, MovedOthers
    <3>2. Spread(Lay(par2, def, d), val2[d]) = Spread(Lay(par, def, d), val[d])
      BY <1>2, <2>1 DEF SlotsMoved
    <3>. QED BY <3>1, <3>2 DEF Anc
  <2>2. CASE o \in Anc(par, d)
    <3>1. Anc(par2, d) = {b \in Anc(par, d) : o \in Anc(par, b)} \cup Anc(par, p)
      BY <1>1, <2>2, MovedBelow
    <3>2. Anc(par, o) \subseteq Anc(par, d)
      BY <1>1, <2>2, AncOrder
    <3>3. Anc(par2, d) \subseteq Anc(par, d)
      BY <3>1, <3>2
    <3>4. ASSUME NEW n \in ToSet(Lay(par2, def, d))
          PROVE  /\ n \in ToSet(Lay(par, def, d))
                 /\ Spread(Lay(par2, def, d), val2[d])[n] = Spread(Lay(par, def, d), val[d])[n]
      <4>1. /\ n \in ToSet(Lay(par, def, d))
            /\ DefinerOf(par2, def, d, n) = DefinerOf(par, def, d, n)
        BY <2>2, <3>4, MovedUpDefiner
      <4>. QED BY <1>2, <2>2, <3>4, <4>1 DEF SlotsMoved
    <3>. QED BY <3>3, <3>4
  <2>. QED BY <2>1, <2>2
<1>. QED BY <1>3, <1>6 DEF Loses

\* The database after some of the children of o are moved, compared with before.
KeptValues(T, par, def, val, o, A) ==
  \E par2, val2 : /\ T = State(par2, def, val2)
                  /\ Partly(par, o, A, par2)
                  /\ Sound(par2, def, val2)
                  /\ Loses(par, def, val, par2, val2)

\* One more child gets its grandparent as its parent.
LEMMA KidKeepsValues ==
  ASSUME NEW par, NEW def, NEW val, Hierarchy(par, def), NEW o \in DOMAIN par,
         NEW A, NEW T, KeptValues(T, par, def, val, o, A), NEW c \in Children(par, o), c \notin A
  PROVE  KeptValues(db_change_parent(T, c, par[o]), par, def, val, o, A \cup {c})
<1>1. PICK par2, val2 : /\ T = State(par2, def, val2)
                        /\ Partly(par, o, A, par2)
                        /\ Sound(par2, def, val2)
                        /\ Loses(par, def, val, par2, val2)
  BY DEF KeptValues
<1>2. PICK par3 : par3 = [par2 EXCEPT ![c] = par[o]]
  OBVIOUS
<1>3. Hierarchy(par2, def)
  BY <1>1 DEF Sound
<1>4. Moved(par2, c, par[o], par3) /\ Fits(par2, def, c, par[o])
  BY <1>1, <1>2, <1>3, KidFits
<1>10. par2[o] = par[o] /\ par2[c] = o
  <2>1. PICK height, top : Ranked(par, height, top)
    BY DEF Hierarchy
  <2>2. c \in DOMAIN par /\ par[c] = o
    BY DEF Children
  <2>3. o \notin Children(par, o)
    BY <2>1, AncSet, KidsBelow
  <2>. QED BY <1>1, <2>2, <2>3 DEF Partly
<1>5. PICK val3 : /\ db_change_parent(T, c, par[o]) = State(par3, def, val3)
                  /\ Swapped(par2, def, val2, c, par[o], par3, val3)
                  /\ Sound(par3, def, val3)
  BY <1>1, <1>4, ChangeParentKeeps
<1>6. Partly(par, o, A \cup {c}, par3)
  BY <1>1, <1>2 DEF Partly, Children
<1>7. Anc(par2, par[o]) \subseteq Anc(par2, c)
  <2>1. PICK height2, top2 : Ranked(par2, height2, top2)
    BY <1>3 DEF Hierarchy
  <2>2. o \in DOMAIN par2 /\ c \in DOMAIN par2
    BY <1>1 DEF Partly, Children
  <2>3. Anc(par2, c) = {c} \cup Anc(par2, o) /\ Anc(par2, o) = {o} \cup Anc(par2, par[o])
    BY <1>10, <2>1, <2>2, AncSet
  <2>. QED BY <2>3
<1>8. Loses(par2, def, val2, par3, val3)
  BY <1>3, <1>4, <1>5, <1>7, MovedUpLoses
<1>9. Loses(par, def, val, par3, val3)
  BY <1>1, <1>8, LosesMore
<1>. QED BY <1>5, <1>6, <1>9 DEF KeptValues

\* All of them do, by induction along the list.
LEMMA KidsKeepValues ==
  ASSUME NEW par, NEW def, NEW val, Sound(par, def, val), NEW o \in DOMAIN par,
         NEW S, S = State(par, def, val)
  PROVE  \E A : KeptValues(RecycleKids(S, o), par, def, val, o, A)
<1>1. Hierarchy(par, def) /\ IsFiniteSet(DOMAIN par) /\ S.parent = par
  BY DEF Sound, Hierarchy, State
<1>2. PICK list : list = SetToSeq(Children(par, o))
  OBVIOUS
<1>3. PICK n \in Nat : /\ list \in [1..n -> Children(par, o)]
                       /\ \A i, j \in 1..n : list[i] = list[j] => i = j
  BY <1>1, <1>2, KidsIs
<1>4. PICK moved : Moves(moved, S, list, par[o], n) /\ RecycleKids(S, o) = moved[1..n]
  BY <1>1, <1>2, <1>3, RecycleKidsIs
<1>9. OneByOne(moved, S, list, par[o], n)
  BY <1>4, MovesOneByOne
<1>. DEFINE Good == {k \in Nat : k <= n => KeptValues(moved[1..k], par, def, val, o, Part(list, k))}
<1>5. 0 \in Good
  <2>1. moved[1..0] = S
    BY <1>9 DEF OneByOne
  <2>2. Part(list, 0) = {}
    BY DEF Part
  <2>3. Partly(par, o, {}, par)
    BY DEF Partly
  <2>5. Loses(par, def, val, par, val)
    BY DEF Loses
  <2>4. KeptValues(S, par, def, val, o, {})
    BY <2>3, <2>5 DEF KeptValues
  <2>. QED BY <2>1, <2>2, <2>4
<1>6. ASSUME NEW k \in Nat, k \in Good PROVE k + 1 \in Good
  <2>. SUFFICES ASSUME k + 1 <= n PROVE KeptValues(moved[1..(k + 1)], par, def, val, o, Part(list, k + 1))
    OBVIOUS
  <2>1. PICK T : T = moved[1..k]
    OBVIOUS
  <2>2. PICK A : A = Part(list, k)
    OBVIOUS
  <2>3. KeptValues(T, par, def, val, o, A)
    BY <1>6, <2>1, <2>2
  <2>4. k + 1 \in 1..n /\ (k + 1) - 1 = k
    OBVIOUS
  <2>5. PICK c \in Children(par, o) : c = list[k + 1]
    BY <1>3, <2>4
  <2>6. moved[1..(k + 1)] = db_change_parent(T, c, par[o])
    BY <1>9, <2>1, <2>4, <2>5 DEF OneByOne
  <2>7. Part(list, k + 1) = A \cup {c}
    <3>1. 1..(k + 1) = (1..k) \cup {k + 1}
      OBVIOUS
    <3>. QED BY <2>2, <2>5, <3>1 DEF Part
  <2>8. c \notin A
    <3>. SUFFICES ASSUME NEW i \in 1..k, list[i] = c PROVE FALSE
      BY <2>2 DEF Part
    <3>1. i \in 1..n /\ i # k + 1
      OBVIOUS
    <3>. QED BY <1>3, <2>4, <2>5, <3>1
  <2>9. KeptValues(db_change_parent(T, c, par[o]), par, def, val, o, A \cup {c})
    BY <1>1, <2>3, <2>8, KidKeepsValues
  <2>. QED BY <2>6, <2>7, <2>9
<1>. HIDE DEF Good
<1>7. n \in Good
  BY <1>5, <1>6, NatInd
<1>. QED BY <1>4, <1>7 DEF Good

\* The ancestors of the other objects when o is gone.
LEMMA AncWithout ==
  ASSUME NEW par, NEW height, NEW top, Ranked(par, height, top), NEW o \in DOMAIN par,
         NEW par2, NEW height2, NEW top2, Ranked(par2, height2, top2),
         DOMAIN par2 = DOMAIN par \ {o},
         \A x \in DOMAIN par2 : par2[x] = IF par[x] = o THEN par[o] ELSE par[x]
  PROVE  \A x \in DOMAIN par2 : Anc(par2, x) = Anc(par, x) \ {o}
<1>1. /\ Anc(par, NOTHING) = {}
      /\ \A x \in DOMAIN par : Anc(par, x) = {x} \cup Anc(par, par[x])
  BY AncSet
<1>2. /\ Anc(par2, NOTHING) = {}
      /\ \A x \in DOMAIN par2 : Anc(par2, x) = {x} \cup Anc(par2, par2[x])
  BY AncSet
<1>. DEFINE Good == {x \in DOMAIN par : Anc(par2, IF x = o THEN par[o] ELSE x) = Anc(par, x) \ {o}}
<1>3. ASSUME NEW x \in DOMAIN par, par[x] = NOTHING \/ par[x] \in Good PROVE x \in Good
  <2>1. Anc(par2, IF par[x] = o THEN par[o] ELSE par[x]) = Anc(par, par[x]) \ {o}
    <3>1. CASE par[x] = NOTHING
      <4>1. NOTHING # o
        BY DEF Ranked
      <4>. QED BY <1>1, <1>2, <3>1, <4>1
    <3>2. CASE par[x] \in Good
      BY <3>2
    <3>. QED BY <1>3, <3>1, <3>2
  <2>2. CASE x = o
    <3>1. par[o] # o
      <4>1. par[o] = o => height[o] < height[o] /\ height[o] \in Nat
        BY DEF Ranked
      <4>. QED BY <4>1
    <3>2. Anc(par2, par[o]) = Anc(par, par[o]) \ {o}
      BY <2>1, <2>2, <3>1
    <3>. QED BY <1>1, <2>2, <3>2
  <2>3. CASE x # o
    <3>1. Anc(par2, x) = {x} \cup (Anc(par, par[x]) \ {o})
      BY <1>2, <2>1, <2>3
    <3>. QED BY <1>1, <2>3, <3>1
  <2>. QED BY <2>2, <2>3
<1>4. DOMAIN par \subseteq Good
  <2>. HIDE DEF Good
  <2>. QED BY <1>3, UpInd
<1>. QED BY <1>4

\* What recycling o does to the values by their names.
SlotsWithout(par, def, val, o, par2, def2, val2) ==
  /\ DOMAIN par2 = DOMAIN par \ {o}
  /\ par2 = [d \in DOMAIN par \ {o} |-> IF par[d] = o THEN par[o] ELSE par[d]]
  /\ def2 = [d \in DOMAIN par \ {o} |-> def[d]]
  /\ \A d \in DOMAIN par \ {o} :
       /\ ToSet(Lay(par2, def2, d)) = {n \in ToSet(Lay(par, def, d)) :
                                         o \in Anc(par, d) => n \notin ToSet(def[o])}
       /\ \A n \in ToSet(Lay(par2, def2, d)) :
            Spread(Lay(par2, def2, d), val2[d])[n] = Spread(Lay(par, def, d), val[d])[n]

\* An object that loses its parent keeps the values of its own properties.
LEMMA OrphanLoses ==
  ASSUME NEW par, NEW def, NEW val, Sound(par, def, val), NEW o \in DOMAIN par,
         NEW S, S = State(par, def, val), NEW par2, par2 = [par EXCEPT ![o] = NOTHING]
  PROVE  \E val2 : /\ db_change_parent(S, o, NOTHING) = State(par2, def, val2)
                   /\ Loses(par, def, val, par2, val2)
                   /\ Sound(par2, def, val2)
<1>0. Hierarchy(par, def)
  BY DEF Sound
<1>1. PICK height, top : Ranked(par, height, top)
  BY <1>0 DEF Hierarchy
<1>2. Anc(par, NOTHING) = {}
  BY <1>1, AncSet
<1>3. Moved(par, o, NOTHING, par2)
  BY <1>2 DEF Moved
<1>4. Lay(par, def, NOTHING) = <<>>
  BY <1>0, <1>1, LayIs, HierarchyTyped DEF Typed
<1>5. Fits(par, def, o, NOTHING)
  <2>1. ToSet(<<>>) = {}
    BY DEF ToSet
  <2>. QED BY <1>4, <2>1 DEF Fits
<1>6. PICK val2 : /\ db_change_parent(S, o, NOTHING) = State(par2, def, val2)
                  /\ Swapped(par, def, val, o, NOTHING, par2, val2)
                  /\ Sound(par2, def, val2)
  BY <1>3, <1>5, ChangeParentKeeps
<1>7. Anc(par, NOTHING) \subseteq Anc(par, o)
  BY <1>2
<1>8. Loses(par, def, val, par2, val2)
  BY <1>0, <1>3, <1>5, <1>6, <1>7, MovedUpLoses
<1>. QED BY <1>6, <1>8

\* The names of the objects that are left when o, without children, is removed.
LEMMA DestroyLay ==
  ASSUME NEW par, NEW def, NEW val, Sound(par, def, val), NEW o, Children(par, o) = {},
         NEW rest, rest = DOMAIN par \ {o},
         NEW par2, par2 = [d \in rest |-> par[d]],
         NEW def2, def2 = [d \in rest |-> def[d]],
         NEW val2, Sound(par2, def2, val2)
  PROVE  \A x \in rest : Lay(par2, def2, x) = Lay(par, def, x)
<1>. SUFFICES ASSUME NEW x \in rest PROVE Lay(par2, def2, x) = Lay(par, def, x)
  OBVIOUS
<1>1. PICK height, top : Ranked(par, height, top)
  BY DEF Sound, Hierarchy
<1>2. Tree(par, def) /\ Tree(par2, def2)
  <2>1. Hierarchy(par, def) /\ Hierarchy(par2, def2)
    BY Zenon DEF Sound
  <2>2. Typed(par, def) /\ Typed(par2, def2)
    BY ONLY <2>1, HierarchyTyped
  <2>3. (\E h, t : Ranked(par, h, t)) /\ \E h, t : Ranked(par2, h, t)
    BY ONLY <2>1, Zenon DEF Hierarchy
  <2>. QED BY ONLY <2>2, <2>3, Zenon DEF Tree
<1>3. o \notin Anc(par, x)
  BY <1>1, NoKids
<1>4. \A a \in Anc(par, x) : a \in DOMAIN par2 /\ par2[a] = par[a] /\ def2[a] = def[a]
  BY <1>1, <1>3, AncSet
<1>5. SameAbove(par, def, par2, def2, x)
  BY <1>2, <1>4 DEF SameAbove
<1>. QED BY <1>5, SameAboveIs

\* bf_recycle() and the values by their names.
LEMMA RecycleSlots ==
  ASSUME NEW par, NEW def, NEW val, Sound(par, def, val), NEW o \in DOMAIN par,
         NEW S, S = State(par, def, val),
         NEW T, T = RecycleKids(S, o), Children(T.parent, o) = {},
         NEW U, U = db_destroy_object(db_change_parent(T, o, NOTHING), o)
  PROVE  \E par2, def2, val2 : /\ U = State(par2, def2, val2) /\ Sound(par2, def2, val2)
                               /\ SlotsWithout(par, def, val, o, par2, def2, val2)
<1>1. PICK A : KeptValues(T, par, def, val, o, A)
  BY KidsKeepValues
<1>2. PICK par1, val1 : /\ T = State(par1, def, val1) /\ Partly(par, o, A, par1)
                        /\ Sound(par1, def, val1) /\ Loses(par, def, val, par1, val1)
  BY <1>1 DEF KeptValues
<1>3. DOMAIN par1 = DOMAIN par /\ T.parent = par1 /\ NOTHING # o
  BY <1>2 DEF Partly, State, Sound, Hierarchy, Ranked
<1>4. o \in DOMAIN par1
  BY <1>3
<1>5. PICK par2 : par2 = [par1 EXCEPT ![o] = NOTHING]
  OBVIOUS
<1>6. PICK val2 : /\ db_change_parent(T, o, NOTHING) = State(par2, def, val2)
                  /\ Loses(par1, def, val1, par2, val2)
                  /\ Sound(par2, def, val2)
  BY <1>2, <1>4, <1>5, OrphanLoses
<1>7. DOMAIN par2 = DOMAIN par
  BY <1>3, <1>5
<1>8. Children(par2, o) = {}
  BY <1>3, <1>5 DEF Children
<1>9. PICK rest : rest = DOMAIN par2 \ {o}
  OBVIOUS
<1>10. PICK par3, def3, val3 : /\ par3 = [d \in rest |-> par2[d]]
                               /\ def3 = [d \in rest |-> def[d]]
                               /\ val3 = [d \in rest |-> val2[d]]
  OBVIOUS
<1>11. Sound(par3, def3, val3)
  BY <1>6, <1>8, <1>9, <1>10, DestroyKeeps
<1>12. db_destroy_object(State(par2, def, val2), o) = State(par3, def3, val3)
  BY <1>9, <1>10 DEF db_destroy_object, State
<1>13. \A x \in rest : Lay(par3, def3, x) = Lay(par2, def, x)
  BY <1>6, <1>8, <1>9, <1>10, <1>11, DestroyLay
<1>14. Loses(par, def, val, par2, val2)
  BY <1>2, <1>6, LosesMore
<1>15. ASSUME NEW x \in rest PROVE par3[x] = IF par[x] = o THEN par[o] ELSE par[x]
  <2>1. x \in DOMAIN par /\ x # o
    BY <1>7, <1>9
  <2>2. par3[x] = par1[x]
    BY <1>5, <1>10, <2>1
  <2>3. par1[x] # o
    BY <1>3, <2>1 DEF Children
  <2>4. par1[x] = IF x \in A THEN par[o] ELSE par[x]
    BY <1>2, <2>1 DEF Partly
  <2>5. x \in A => par[x] = o
    BY <1>2 DEF Partly, Children
  <2>. QED BY <2>2, <2>3, <2>4, <2>5
<1>16. rest = DOMAIN par \ {o} /\ DOMAIN par3 = rest
  BY <1>7, <1>9, <1>10
<1>17. PICK height, top : Ranked(par, height, top)
  BY DEF Sound, Hierarchy
<1>18. PICK height3, top3 : Ranked(par3, height3, top3)
  BY <1>11 DEF Sound, Hierarchy
<1>19. \A x \in rest : Anc(par3, x) = Anc(par, x) \ {o}
  BY <1>15, <1>16, <1>17, <1>18, AncWithout
<1>20. Typed(par, def) /\ Typed(par3, def3) /\ Hierarchy(par, def)
  BY <1>11, HierarchyTyped DEF Sound
<1>21. ASSUME NEW d \in rest
       PROVE  /\ ToSet(Lay(par3, def3, d)) = {n \in ToSet(Lay(par, def, d)) :
                                                o \in Anc(par, d) => n \notin ToSet(def[o])}
              /\ \A n \in ToSet(Lay(par3, def3, d)) :
                   Spread(Lay(par3, def3, d), val3[d])[n] = Spread(Lay(par, def, d), val[d])[n]
  <2>1. d \in DOMAIN par /\ d \in DOMAIN par3 /\ Anc(par, d) \subseteq DOMAIN par
    BY <1>16, <1>17, AncSet
  <2>2. ASSUME NEW n
        PROVE  n \in ToSet(Lay(par3, def3, d)) <=> \E a \in Anc(par, d) : a # o /\ n \in ToSet(def[a])
    <3>1. n \in ToSet(Lay(par3, def3, d)) <=> \E a \in Anc(par3, d) : n \in ToSet(def3[a])
      BY <1>18, <1>20, <2>1, LayNames DEF Typed
    <3>2. \A a \in Anc(par3, d) : def3[a] = def[a]
      BY <1>10, <1>16, <1>19, <2>1
    <3>. QED BY <1>19, <3>1, <3>2
  <2>3. \A n : n \in ToSet(Lay(par, def, d)) <=> \E a \in Anc(par, d) : n \in ToSet(def[a])
    BY <1>17, <1>20, <2>1, LayNames DEF Typed
  <2>4. \A n : \A a, b \in Anc(par, d) : n \in ToSet(def[a]) /\ n \in ToSet(def[b]) => a = b
    BY <1>20, <2>1, OneDefiner
  <2>5. ToSet(Lay(par3, def3, d)) = {n \in ToSet(Lay(par, def, d)) :
                                       o \in Anc(par, d) => n \notin ToSet(def[o])}
    BY <2>2, <2>3, <2>4
  <2>6. Lay(par3, def3, d) = Lay(par2, def, d) /\ val3[d] = val2[d]
    BY <1>10, <1>13
  <2>7. \A n \in ToSet(Lay(par2, def, d)) :
          Spread(Lay(par2, def, d), val2[d])[n] = Spread(Lay(par, def, d), val[d])[n]
    BY <1>14, <2>1 DEF Loses
  <2>. QED BY <2>5, <2>6, <2>7
<1>22. SlotsWithout(par, def, val, o, par3, def3, val3)
  <2>1. par3 = [d \in DOMAIN par \ {o} |-> IF par[d] = o THEN par[o] ELSE par[d]]
    BY <1>10, <1>15, <1>16
  <2>. QED BY <1>10, <1>16, <1>21, <2>1 DEF SlotsWithout
<1>. QED BY <1>6, <1>11, <1>12, <1>22

\* The names of d, at or below o, before and after o has other names.
LEMMA RedefinedParts ==
  ASSUME NEW par, NEW def, NEW o, NEW new, NEW def2, Redefines(par, def, o, new, def2),
         NEW d \in DOMAIN par, o \in Anc(par, d)
  PROVE  \E s, t \in Seq(Name) : /\ Parts(Lay(par, def, d), s, def[o], t)
                                 /\ Parts(Lay(par, def2, d), s, new, t)
                                 /\ Width(par, def, d) - Width(par, def, o) = Len(s)
                                 /\ def[o] \in Seq(Name) /\ new \in Seq(Name)
<1>1. PICK height, top : Ranked(par, height, top)
  BY DEF Redefines, Tree
<1>2. Typed(par, def) /\ o \in DOMAIN par /\ new \in Seq(Name)
  BY DEF Redefines, Tree
<1>3. /\ Lay(par, def, o) = def[o] \o Lay(par, def, par[o])
      /\ Lay(par, def2, o) = new \o Lay(par, def, par[o])
      /\ \A x \in DOMAIN par : o \in Anc(par, x) => Prefixed(par, def, o, def2, x)
  <2>1. Redefined(par, def, o, new, def2)
    BY RedefineLay
  <2>. QED BY <2>1 DEF Redefined
<1>4. PICK s \in Seq(Name) : /\ Lay(par, def, d) = s \o Lay(par, def, o)
                             /\ Lay(par, def2, d) = s \o Lay(par, def2, o)
  <2>1. Prefixed(par, def, o, def2, d)
    BY <1>3
  <2>. QED BY <2>1 DEF Prefixed
<1>5. PICK g \in Seq(Name), t \in Seq(Name) : g = def[o] /\ t = Lay(par, def, par[o])
  <2>1. par[o] \in DOMAIN par \cup {NOTHING}
    BY <1>1, <1>2 DEF Ranked
  <2>. QED BY <1>1, <1>2, <2>1, LayIs DEF Typed
<1>6. PICK w, w2 : w = Lay(par, def, d) /\ w2 = Lay(par, def2, d)
  OBVIOUS
<1>7. w = s \o (g \o t) /\ w2 = s \o (new \o t)
  BY <1>3, <1>4, <1>5, <1>6
<1>8. Parts(w, s, g, t) /\ Parts(w2, s, new, t)
  BY <1>2, <1>7, PartsAre
<1>9. Len(g \o t) = Len(g) + Len(t)
  BY ConcatProperties
<1>10. Len(w) - Len(g \o t) = Len(s)
  <2>1. Len(s) \in Nat /\ Len(g) \in Nat /\ Len(t) \in Nat
    OBVIOUS
  <2>2. Len(w) = Len(s) + Len(g) + Len(t)
    BY <1>8 DEF Parts
  <2>. QED BY ONLY <1>9, <2>1, <2>2
<1>11. Width(par, def, d) - Width(par, def, o) = Len(s)
  BY <1>3, <1>5, <1>6, <1>10 DEF Width
<1>. QED BY <1>2, <1>5, <1>6, <1>8, <1>11

\* w2 is w with e at the place k.
Longer(w2, w, len, k, e) ==
  /\ len \in Nat /\ k \in 1..(len + 1)
  /\ \A i \in 1..(k - 1) : w2[i] = w[i]
  /\ w2[k] = e
  /\ \A i \in k..len : w2[i + 1] = w[i]

\* An array with a value inserted.
LEMMA InsertLonger ==
  ASSUME NEW E, NEW u \in Seq(E), NEW k \in 1..(Len(u) + 1), NEW e \in E,
         NEW v, v = InsertAt(u, k, e)
  PROVE  Longer(v, u, Len(u), k, e)
<1>1. /\ \A i \in 1..(k - 1) : v[i] = u[i]
      /\ v[k] = e
      /\ \A i \in k..Len(u) : v[i + 1] = u[i]
  BY InsertIs
<1>2. Len(u) \in Nat
  OBVIOUS
<1>. QED BY <1>1, <1>2 DEF Longer

\* One more name with its value.
LEMMA SpreadMore ==
  ASSUME NEW names \in Seq(Name), NEW names2 \in Seq(Name), Once(names2), Once(names),
         NEW v, NEW v2, NEW k, NEW n, NEW e, Len(names2) = Len(names) + 1,
         Longer(names2, names, Len(names), k, n), Longer(v2, v, Len(names), k, e)
  PROVE  /\ Spread(names2, v2) = With(Spread(names, v), n, e)
         /\ n \notin ToSet(names) /\ ToSet(names2) = ToSet(names) \cup {n}
<1>1. PICK len \in Nat : len = Len(names) /\ Len(names2) = len + 1
  OBVIOUS
<1>2. k \in 1..(len + 1) /\ names2[k] = n /\ v2[k] = e
  BY <1>1 DEF Longer
<1>3. ASSUME NEW i \in 1..len
      PROVE  \E j \in 1..(len + 1) : names2[j] = names[i] /\ v2[j] = v[i] /\ j # k
  <2>1. CASE i < k
    <3>1. i \in 1..(k - 1) /\ i \in 1..(len + 1) /\ i # k
      BY <1>1, <1>2, <2>1
    <3>. QED BY <3>1 DEF Longer
  <2>2. CASE ~(i < k)
    <3>1. i \in k..len /\ i + 1 \in 1..(len + 1) /\ i + 1 # k
      BY <1>1, <1>2, <2>2
    <3>. QED BY <1>1, <3>1 DEF Longer
  <2>. QED BY <2>1, <2>2
<1>4. ASSUME NEW j \in 1..(len + 1), j # k
      PROVE  \E i \in 1..len : names2[j] = names[i] /\ v2[j] = v[i]
  <2>1. CASE j < k
    <3>1. j \in 1..(k - 1) /\ j \in 1..len
      BY <1>1, <1>2, <2>1
    <3>. QED BY <3>1 DEF Longer
  <2>2. CASE ~(j < k)
    <3>1. PICK i \in k..len : j = i + 1
      BY <1>1, <1>2, <1>4, <2>2
    <3>2. i \in 1..len
      BY <1>1, <1>2, <3>1
    <3>. QED BY <1>1, <3>1, <3>2 DEF Longer
  <2>. QED BY <2>1, <2>2
<1>5. n \notin ToSet(names)
  <2>. SUFFICES ASSUME n \in ToSet(names) PROVE FALSE
    OBVIOUS
  <2>1. PICK i \in 1..len : names[i] = n
    BY <1>1, ToSetIs
  <2>2. PICK j \in 1..(len + 1) : names2[j] = n /\ j # k
    BY <1>3, <2>1
  <2>. QED BY <1>1, <1>2, <2>2 DEF Once
<1>6. ToSet(names2) = ToSet(names) \cup {n}
  <2>1. ASSUME NEW m \in ToSet(names2) PROVE m \in ToSet(names) \cup {n}
    <3>1. PICK j \in 1..(len + 1) : names2[j] = m
      BY <1>1, ToSetIs
    <3>2. j # k => m \in ToSet(names)
      BY <1>1, <1>4, <3>1, ToSetIs
    <3>. QED BY <1>2, <3>1, <3>2
  <2>2. ASSUME NEW m \in ToSet(names) PROVE m \in ToSet(names2)
    <3>1. PICK i \in 1..len : names[i] = m
      BY <1>1, ToSetIs
    <3>. QED BY <1>1, <1>3, <3>1, ToSetIs
  <2>3. n \in ToSet(names2)
    BY <1>1, <1>2, ToSetIs
  <2>. QED BY <2>1, <2>2, <2>3
<1>7. PICK f : f = With(Spread(names, v), n, e)
  OBVIOUS
<1>8. /\ DOMAIN Spread(names, v) = ToSet(names)
      /\ \A i \in 1..len : Spread(names, v)[names[i]] = v[i]
  BY <1>1, SpreadIs
<1>9. f = [m \in ToSet(names2) |-> f[m]] /\ f[n] = e /\ \A m \in ToSet(names) : f[m] = Spread(names, v)[m]
  BY <1>5, <1>6, <1>7, <1>8 DEF With
<1>10. ASSUME NEW j \in 1..Len(names2) PROVE f[names2[j]] = v2[j]
  <2>1. CASE j = k
    BY <1>2, <1>9, <2>1
  <2>2. CASE j # k
    <3>1. PICK i \in 1..len : names2[j] = names[i] /\ v2[j] = v[i]
      BY <1>1, <1>4, <2>2
    <3>2. names[i] \in ToSet(names)
      BY <1>1, ToSetIs
    <3>. QED BY <1>8, <1>9, <3>1, <3>2
  <2>. QED BY <2>1, <2>2
<1>11. Spread(names2, v2) = f
  <2>1. names2 \in Seq(Name) /\ Once(names2)
    OBVIOUS
  <2>2. f = [m \in ToSet(names2) |-> f[m]]
    BY <1>9
  <2>3. \A j \in 1..Len(names2) : f[names2[j]] = v2[j]
    BY <1>10
  <2>4. Fills(f, names2, v2)
    BY ONLY <2>2, <2>3 DEF Fills
  <2>. QED BY ONLY <2>1, <2>4, SpreadOnly
<1>. QED BY <1>5, <1>6, <1>7, <1>11

\* The names with one more in the middle.
LEMMA PartsLonger ==
  ASSUME NEW s \in Seq(Name), NEW g \in Seq(Name), NEW h \in Seq(Name), NEW t \in Seq(Name),
         NEW w, NEW w2, Parts(w, s, g, t), Parts(w2, s, h, t),
         NEW k, NEW n, Len(h) = Len(g) + 1, Longer(h, g, Len(g), k, n)
  PROVE  Len(w2) = Len(w) + 1 /\ Longer(w2, w, Len(w), Len(s) + k, n)
<1>1. PICK a \in Nat, b \in Nat, c \in Nat : a = Len(s) /\ b = Len(g) /\ c = Len(t)
  OBVIOUS
<1>2. /\ Len(w) = a + b + c /\ Len(w2) = a + (b + 1) + c
      /\ \A i \in 1..a : w[i] = s[i] /\ w2[i] = s[i]
      /\ \A i \in 1..b : w[a + i] = g[i]
      /\ \A i \in 1..(b + 1) : w2[a + i] = h[i]
      /\ \A i \in 1..c : w[a + b + i] = t[i] /\ w2[a + (b + 1) + i] = t[i]
  BY <1>1 DEF Parts
<1>3. /\ k \in 1..(b + 1) /\ h[k] = n
      /\ \A i \in 1..(k - 1) : h[i] = g[i]
      /\ \A i \in k..b : h[i + 1] = g[i]
  BY <1>1 DEF Longer
<1>4. Len(w) \in Nat /\ a + k \in 1..(Len(w) + 1) /\ Len(w2) = Len(w) + 1
  BY <1>2, <1>3
<1>5. ASSUME NEW i \in 1..(a + k - 1) PROVE w2[i] = w[i]
  <2>1. CASE i <= a
    BY <1>2, <2>1
  <2>2. CASE ~(i <= a)
    <3>1. PICK j \in 1..(k - 1) : i = a + j
      BY <1>3, <2>2
    <3>2. j \in 1..b /\ j \in 1..(b + 1)
      BY <1>3
    <3>. QED BY <1>2, <1>3, <3>1, <3>2
  <2>. QED BY <2>1, <2>2
<1>6. w2[a + k] = n
  BY <1>2, <1>3
<1>7. ASSUME NEW i \in (a + k)..Len(w) PROVE w2[i + 1] = w[i]
  <2>1. CASE i <= a + b
    <3>1. PICK j \in k..b : i = a + j
      BY <1>2, <1>3, <2>1
    <3>2. j \in 1..b /\ j + 1 \in 1..(b + 1) /\ a + (j + 1) = i + 1
      BY <1>3, <3>1
    <3>3. w2[a + (j + 1)] = h[j + 1] /\ w[a + j] = g[j] /\ h[j + 1] = g[j]
      BY <1>2, <1>3, <3>2
    <3>. QED BY <3>1, <3>2, <3>3
  <2>2. CASE ~(i <= a + b)
    <3>0. i \in Int /\ i <= a + b + c
      BY <1>2, <1>3
    <3>4. i - (a + b) \in 1..c /\ i = a + b + (i - (a + b))
      BY ONLY a \in Nat, b \in Nat, c \in Nat, <2>2, <3>0
    <3>1. PICK j \in 1..c : i = a + b + j
      BY ONLY <3>4
    <3>2. a + (b + 1) + j = i + 1
      BY <3>1
    <3>3. w2[a + (b + 1) + j] = t[j] /\ w[a + b + j] = t[j]
      BY <1>2
    <3>. QED BY <3>1, <3>2, <3>3
  <2>. QED BY <2>1, <2>2
<1>. QED BY <1>1, <1>4, <1>5, <1>6, <1>7 DEF Longer

\* What a new property of o does to the values by their names.
SlotsMore(par, def, val, o, n, pval, def2, val2) ==
  /\ \A d \in DOMAIN par : o \notin Anc(par, d) =>
       Spread(Lay(par, def2, d), val2[d]) = Spread(Lay(par, def, d), val[d])
  /\ \A d \in DOMAIN par : o \in Anc(par, d) =>
       /\ n \notin ToSet(Lay(par, def, d))
       /\ Spread(Lay(par, def2, d), val2[d]) = With(Spread(Lay(par, def, d), val[d]), n, NewPval(pval, o, d))

\* db_add_propdef() by name.
LEMMA AddedSlots ==
  ASSUME NEW par, NEW def, NEW val, Sound(par, def, val), NEW o \in DOMAIN par, NEW n \in Name,
         NEW pval \in Pval, NEW new, new = Append(def[o], n),
         NEW def2, Redefines(par, def, o, new, def2), Hierarchy(par, def2),
         NEW val2, Inserted(par, def, val, o, pval, val2)
  PROVE  SlotsMore(par, def, val, o, n, pval, def2, val2)
<1>0. Hierarchy(par, def) /\ Arrays(par, def, val) /\ Owned(par)
  BY DEF Sound
<1>1. ASSUME NEW d \in DOMAIN par, o \notin Anc(par, d)
      PROVE  Spread(Lay(par, def2, d), val2[d]) = Spread(Lay(par, def, d), val[d])
  <2>1. Redefined(par, def, o, new, def2)
    BY RedefineLay
  <2>2. Lay(par, def2, d) = Lay(par, def, d)
    BY <1>1, <2>1 DEF Redefined
  <2>3. val2[d] = val[d]
    BY <1>1 DEF Inserted
  <2>. QED BY <2>2, <2>3
<1>2. ASSUME NEW d \in DOMAIN par, o \in Anc(par, d)
      PROVE  /\ n \notin ToSet(Lay(par, def, d))
             /\ Spread(Lay(par, def2, d), val2[d])
                  = With(Spread(Lay(par, def, d), val[d]), n, NewPval(pval, o, d))
  <2>1. PICK s \in Seq(Name), t \in Seq(Name) :
                /\ Parts(Lay(par, def, d), s, def[o], t)
                /\ Parts(Lay(par, def2, d), s, new, t)
                /\ Width(par, def, d) - Width(par, def, o) = Len(s)
                /\ def[o] \in Seq(Name) /\ new \in Seq(Name)
    BY <1>2, RedefinedParts
  <2>2. PICK g \in Seq(Name), h \in Seq(Name) : g = def[o] /\ h = new /\ h = Append(g, n)
    BY <2>1
  <2>3. PICK w, w2 : w = Lay(par, def, d) /\ w2 = Lay(par, def2, d)
    OBVIOUS
  <2>4. Len(h) = Len(g) + 1 /\ Longer(h, g, Len(g), Len(g) + 1, n)
    BY <2>2 DEF Longer
  <2>5. PICK k : k = Len(s) + (Len(g) + 1)
    OBVIOUS
  <2>6. Parts(w, s, g, t) /\ Parts(w2, s, h, t)
    BY <2>1, <2>2, <2>3
  <2>7. Len(w2) = Len(w) + 1 /\ Longer(w2, w, Len(w), k, n)
    <3>1. PICK j : j = Len(g) + 1
      OBVIOUS
    <3>2. s \in Seq(Name) /\ g \in Seq(Name) /\ h \in Seq(Name) /\ t \in Seq(Name)
      OBVIOUS
    <3>3. Longer(h, g, Len(g), j, n) /\ Len(h) = Len(g) + 1
      BY ONLY <2>4, <3>1
    <3>4. Len(w2) = Len(w) + 1 /\ Longer(w2, w, Len(w), Len(s) + j, n)
      BY ONLY <2>6, <3>2, <3>3, PartsLonger
    <3>. QED BY ONLY <2>5, <3>1, <3>4
  <2>8. PICK u \in Seq(Pval) : u = val[d] /\ Len(u) = Len(w)
    BY <1>0, <2>3 DEF Arrays, Width
  <2>9. PICK e \in Pval : e = NewPval(pval, o, d)
    BY <1>0, NewPvalIs DEF Owned
  <2>10. PICK u2 : u2 = InsertAt(u, k, e)
    OBVIOUS
  <2>11. val2[d] = u2
    <3>1. Len(s) \in Nat /\ Len(g) \in Nat
      OBVIOUS
    <3>2. Len(g) + 1 + Len(s) = k
      BY <2>5, <3>1
    <3>3. Len(def[o]) + 1 + (Width(par, def, d) - Width(par, def, o)) = k
      BY <2>1, <2>2, <3>2
    <3>4. val2[d] = InsertAt(val[d], Len(def[o]) + 1 + (Width(par, def, d) - Width(par, def, o)), NewPval(pval, o, d))
      BY <1>2 DEF Inserted
    <3>. QED BY <2>8, <2>9, <2>10, <3>3, <3>4
  <2>12. Longer(u2, u, Len(w), k, e)
    <3>1. Len(w) \in Nat /\ k \in 1..(Len(u) + 1)
      BY <2>7, <2>8 DEF Longer
    <3>2. u \in Seq(Pval) /\ e \in Pval
      BY <2>8, <2>9
    <3>3. k \in 1..(Len(u) + 1)
      BY <3>1
    <3>4. Longer(u2, u, Len(u), k, e)
      BY ONLY <2>10, <3>2, <3>3, InsertLonger
    <3>. QED BY ONLY <2>8, <3>4
  <2>13. w \in Seq(Name) /\ w2 \in Seq(Name)
    BY <2>6 DEF Parts
  <2>14. Once(w) /\ Once(w2)
    BY <1>0, <2>3, LayOnce
  <2>15. Spread(w2, u2) = With(Spread(w, u), n, e) /\ n \notin ToSet(w)
    BY ONLY <2>7, <2>12, <2>13, <2>14, SpreadMore
  <2>. QED BY <2>3, <2>8, <2>9, <2>11, <2>15
<1>. QED BY <1>1, <1>2 DEF SlotsMore

\* What it does when o loses the property n.
SlotsLess(par, def, val, o, n, def2, val2) ==
  /\ \A d \in DOMAIN par : o \notin Anc(par, d) =>
       Spread(Lay(par, def2, d), val2[d]) = Spread(Lay(par, def, d), val[d])
  /\ \A d \in DOMAIN par : o \in Anc(par, d) =>
       Spread(Lay(par, def2, d), val2[d])
         = [m \in ToSet(Lay(par, def, d)) \ {n} |-> Spread(Lay(par, def, d), val[d])[m]]

\* db_delete_propdef() by name.
LEMMA RemovedSlots ==
  ASSUME NEW par, NEW def, NEW val, Sound(par, def, val), NEW o \in DOMAIN par,
         NEW p \in 1..Len(def[o]), NEW new, new = RemoveAt(def[o], p),
         NEW def2, Redefines(par, def, o, new, def2), Hierarchy(par, def2),
         NEW val2, Removed(par, def, val, o, p, val2)
  PROVE  SlotsLess(par, def, val, o, def[o][p], def2, val2)
<1>0. Hierarchy(par, def) /\ Arrays(par, def, val)
  BY DEF Sound
<1>1. ASSUME NEW d \in DOMAIN par, o \notin Anc(par, d)
      PROVE  Spread(Lay(par, def2, d), val2[d]) = Spread(Lay(par, def, d), val[d])
  <2>1. Redefined(par, def, o, new, def2)
    BY RedefineLay
  <2>2. Lay(par, def2, d) = Lay(par, def, d)
    BY <1>1, <2>1 DEF Redefined
  <2>3. val2[d] = val[d]
    BY <1>1 DEF Removed
  <2>. QED BY <2>2, <2>3
<1>2. PICK n : n = def[o][p]
  OBVIOUS
<1>3. ASSUME NEW d \in DOMAIN par, o \in Anc(par, d)
      PROVE  Spread(Lay(par, def2, d), val2[d])
               = [m \in ToSet(Lay(par, def, d)) \ {n} |-> Spread(Lay(par, def, d), val[d])[m]]
  <2>1. PICK s \in Seq(Name), t \in Seq(Name) :
                /\ Parts(Lay(par, def, d), s, def[o], t)
                /\ Parts(Lay(par, def2, d), s, new, t)
                /\ Width(par, def, d) - Width(par, def, o) = Len(s)
                /\ def[o] \in Seq(Name) /\ new \in Seq(Name)
    BY <1>3, RedefinedParts
  <2>2. PICK g \in Seq(Name), h \in Seq(Name) : g = def[o] /\ h = new /\ h = RemoveAt(g, p)
    BY <2>1
  <2>3. PICK w, w2 : w = Lay(par, def, d) /\ w2 = Lay(par, def2, d)
    OBVIOUS
  <2>4. Len(g) = Len(h) + 1 /\ Longer(g, h, Len(h), p, n)
    <3>1. p \in 1..Len(g) /\ g[p] = n /\ Len(g) \in Nat
      BY <1>2, <2>2
    <3>2. Without(Name, h, g, p)
      BY <2>2, <3>1, RemoveIs
    <3>. QED BY <3>1, <3>2 DEF Without, Longer
  <2>5. PICK k : k = Len(s) + p
    OBVIOUS
  <2>6. Parts(w, s, g, t) /\ Parts(w2, s, h, t)
    BY <2>1, <2>2, <2>3
  <2>7. Len(w) = Len(w2) + 1 /\ Longer(w, w2, Len(w2), k, n)
    <3>1. s \in Seq(Name) /\ g \in Seq(Name) /\ h \in Seq(Name) /\ t \in Seq(Name)
      OBVIOUS
    <3>2. Len(w) = Len(w2) + 1 /\ Longer(w, w2, Len(w2), Len(s) + p, n)
      BY ONLY <2>4, <2>6, <3>1, PartsLonger
    <3>. QED BY ONLY <2>5, <3>2
  <2>8. PICK u \in Seq(Pval) : u = val[d] /\ Len(u) = Len(w)
    BY <1>0, <2>3 DEF Arrays, Width
  <2>10. PICK u2 : u2 = RemoveAt(u, k)
    OBVIOUS
  <2>11. val2[d] = u2
    <3>1. Len(s) \in Nat /\ p \in Nat
      BY <2>1
    <3>2. p + Len(s) = k
      BY <2>5, <3>1
    <3>3. p + (Width(par, def, d) - Width(par, def, o)) = k
      BY <2>1, <3>2
    <3>4. val2[d] = RemoveAt(val[d], p + (Width(par, def, d) - Width(par, def, o)))
      BY <1>3 DEF Removed
    <3>. QED BY <2>8, <2>10, <3>3, <3>4
  <2>9. PICK e : e = u[k]
    OBVIOUS
  <2>12. Longer(u, u2, Len(w2), k, e)
    <3>1. Len(w2) \in Nat /\ k \in 1..Len(u) /\ k \in 1..(Len(w2) + 1) /\ Len(u) - 1 = Len(w2)
      BY <2>7, <2>8 DEF Longer
    <3>2. Without(Pval, u2, u, k)
      BY <2>10, <3>1, RemoveIs
    <3>. QED BY <2>9, <3>1, <3>2 DEF Without, Longer
  <2>13. w \in Seq(Name) /\ w2 \in Seq(Name)
    BY <2>6 DEF Parts
  <2>14. Once(w) /\ Once(w2)
    BY <1>0, <2>3, LayOnce
  <2>15. /\ Spread(w, u) = With(Spread(w2, u2), n, e)
         /\ n \notin ToSet(w2) /\ ToSet(w) = ToSet(w2) \cup {n}
    BY ONLY <2>7, <2>12, <2>13, <2>14, SpreadMore
  <2>16. PICK f : f = Spread(w2, u2)
    OBVIOUS
  <2>17. f = [m \in ToSet(w2) |-> f[m]]
    BY <2>16 DEF Spread
  <2>18. f = [m \in ToSet(w) \ {n} |-> Spread(w, u)[m]]
    BY <2>15, <2>16, <2>17 DEF With
  <2>. QED BY <2>3, <2>8, <2>11, <2>16, <2>18
<1>. QED BY <1>1, <1>2, <1>3 DEF SlotsLess

\* Only the one value is another.
LEMMA ResetIs ==
  ASSUME NEW par, NEW def, NEW val, Arrays(par, def, val), NEW o \in DOMAIN par,
         NEW k, NEW e, NEW val2, Reset(par, def, val, o, k, e, val2)
  PROVE  /\ \A d \in DOMAIN par : d # o => val2[d] = val[d]
         /\ Changed(val2[o], val[o], Len(val[o]), k, e)
         /\ Len(val[o]) = Width(par, def, o) /\ val[o][k] \in Pval
<1>1. val \in [DOMAIN par -> Seq(Pval)] /\ Len(val[o]) = Width(par, def, o)
  BY DEF Arrays
<1>2. PICK u \in Seq(Pval) : u = val[o]
  BY <1>1
<1>3. PICK v : v = [u EXCEPT ![k] = e]
  OBVIOUS
<1>4. k \in 1..Len(u)
  BY <1>1, <1>2 DEF Reset
<1>5. \A i \in 1..Len(u) : v[i] = IF i = k THEN e ELSE u[i]
  BY <1>3
<1>6. val2 = [val EXCEPT ![o] = v]
  BY <1>2, <1>3 DEF Reset, Set
<1>7. val2[o] = v /\ \A d \in DOMAIN par : d # o => val2[d] = val[d]
  BY <1>1, <1>6
<1>8. Len(u) \in Nat /\ u[k] \in Pval
  BY <1>4
<1>. QED BY <1>1, <1>2, <1>4, <1>5, <1>7, <1>8 DEF Changed

\* names2 has the name m, with the value e, where names has n.
Renames(names, v, names2, v2, k, n, m, e) ==
  /\ Len(names2) = Len(names) /\ names[k] = n
  /\ Changed(names2, names, Len(names), k, m) /\ Changed(v2, v, Len(names), k, e)

\* What this means for the values by their names.
SpreadRenamed(names, v, names2, v2, k, n, m, e) ==
  /\ Spread(names2, v2)
       = [x \in (ToSet(names) \ {n}) \cup {m} |-> IF x # m THEN Spread(names, v)[x] ELSE e]
  /\ Spread(names, v)[n] = v[k] /\ n \in ToSet(names)

\* One value or one name less and another more.
LEMMA SpreadChanged ==
  ASSUME NEW names \in Seq(Name), NEW names2 \in Seq(Name), Once(names), Once(names2),
         NEW v, NEW v2, NEW k, NEW n, NEW m, NEW e, Renames(names, v, names2, v2, k, n, m, e)
  PROVE  SpreadRenamed(names, v, names2, v2, k, n, m, e)
<1>1. PICK len \in Nat : len = Len(names) /\ len = Len(names2)
  BY DEF Renames
<1>2. /\ k \in 1..len /\ names2[k] = m /\ v2[k] = e /\ names[k] = n
      /\ \A i \in 1..len : i # k => names2[i] = names[i] /\ v2[i] = v[i]
  BY <1>1 DEF Renames, Changed
<1>3. /\ DOMAIN Spread(names, v) = ToSet(names)
      /\ \A i \in 1..len : Spread(names, v)[names[i]] = v[i]
  <2>1. names \in Seq(Name) /\ Once(names)
    OBVIOUS
  <2>2. /\ DOMAIN Spread(names, v) = ToSet(names)
        /\ \A i \in 1..Len(names) : Spread(names, v)[names[i]] = v[i]
    BY ONLY <2>1, SpreadIs
  <2>. QED BY ONLY <1>1, <2>2
<1>4. Spread(names, v)[n] = v[k] /\ n \in ToSet(names)
  BY <1>1, <1>2, <1>3, ToSetIs
<1>5. ToSet(names2) = (ToSet(names) \ {n}) \cup {m}
  <2>1. ASSUME NEW x \in ToSet(names2) PROVE x \in (ToSet(names) \ {n}) \cup {m}
    <3>1. PICK i \in 1..len : names2[i] = x
      BY <1>1, ToSetIs
    <3>2. CASE i = k
      BY <1>2, <3>1, <3>2
    <3>3. CASE i # k
      <4>1. names[i] = x
        BY <1>2, <3>1, <3>3
      <4>2. names[i] # n
        BY <1>1, <1>2, <3>3 DEF Once
      <4>3. x \in ToSet(names)
        BY <1>1, <4>1, ToSetIs
      <4>. QED BY <4>1, <4>2, <4>3
    <3>. QED BY <3>2, <3>3
  <2>2. ASSUME NEW x \in ToSet(names), x # n PROVE x \in ToSet(names2)
    <3>1. PICK i \in 1..len : names[i] = x
      BY <1>1, ToSetIs
    <3>2. names2[i] = x
      BY <1>2, <2>2, <3>1
    <3>. QED BY <1>1, <3>2, ToSetIs
  <2>3. m \in ToSet(names2)
    BY <1>1, <1>2, ToSetIs
  <2>. QED BY <2>1, <2>2, <2>3
<1>6. PICK f : f = [x \in (ToSet(names) \ {n}) \cup {m} |-> IF x # m THEN Spread(names, v)[x] ELSE e]
  OBVIOUS
<1>7. f = [x \in ToSet(names2) |-> f[x]]
  BY <1>5, <1>6
<1>8. ASSUME NEW i \in 1..Len(names2) PROVE f[names2[i]] = v2[i]
  <2>1. CASE i = k
    BY <1>2, <1>6, <2>1
  <2>2. CASE i # k
    <3>1. names2[i] # m
      BY <1>1, <1>2, <2>2 DEF Once
    <3>2. names2[i] \in ToSet(names2)
      BY ToSetIs
    <3>3. f[names2[i]] = Spread(names, v)[names2[i]]
      BY <1>5, <1>6, <3>1, <3>2
    <3>. QED BY <1>1, <1>2, <1>3, <2>2, <3>3
  <2>. QED BY <2>1, <2>2
<1>9. Spread(names2, v2) = f
  <2>1. names2 \in Seq(Name) /\ Once(names2)
    OBVIOUS
  <2>2. \A i \in 1..Len(names2) : f[names2[i]] = v2[i]
    BY <1>8
  <2>3. Fills(f, names2, v2)
    BY ONLY <1>7, <2>2 DEF Fills
  <2>. QED BY ONLY <2>1, <2>3, SpreadOnly
<1>. QED BY <1>4, <1>6, <1>9 DEF SpreadRenamed

\* The names with another one in the middle.
LEMMA PartsChanged ==
  ASSUME NEW s \in Seq(Name), NEW g \in Seq(Name), NEW h \in Seq(Name), NEW t \in Seq(Name),
         NEW w, NEW w2, Parts(w, s, g, t), Parts(w2, s, h, t),
         NEW k, NEW n, Other(h, g, k, n)
  PROVE  Other(w2, w, Len(s) + k, n) /\ w[Len(s) + k] = g[k]
<1>0. Len(h) = Len(g) /\ Changed(h, g, Len(g), k, n)
  BY DEF Other
<1>1. PICK a \in Nat, b \in Nat, c \in Nat : a = Len(s) /\ b = Len(g) /\ c = Len(t)
  OBVIOUS
<1>2. /\ Len(w) = a + b + c /\ Len(w2) = a + b + c
      /\ \A i \in 1..a : w[i] = s[i] /\ w2[i] = s[i]
      /\ \A i \in 1..b : w[a + i] = g[i] /\ w2[a + i] = h[i]
      /\ \A i \in 1..c : w[a + b + i] = t[i] /\ w2[a + b + i] = t[i]
  BY <1>0, <1>1 DEF Parts
<1>3. k \in 1..b /\ \A i \in 1..b : h[i] = IF i = k THEN n ELSE g[i]
  BY <1>0, <1>1 DEF Changed
<1>4. Len(w) \in Nat /\ a + k \in 1..Len(w) /\ w[a + k] = g[k]
  BY <1>2, <1>3
<1>5. ASSUME NEW i \in 1..Len(w) PROVE w2[i] = IF i = a + k THEN n ELSE w[i]
  <2>1. CASE i <= a
    BY <1>2, <1>3, <2>1
  <2>2. CASE ~(i <= a) /\ i <= a + b
    <3>0. i \in Int
      BY <1>2
    <3>3. i - a \in 1..b /\ i = a + (i - a)
      BY ONLY a \in Nat, b \in Nat, <2>2, <3>0
    <3>1. PICK j \in 1..b : i = a + j
      BY ONLY <3>3
    <3>2. i = a + k <=> j = k
      BY <1>3, <3>1
    <3>. QED BY <1>2, <1>3, <3>1, <3>2
  <2>3. CASE ~(i <= a + b)
    <3>0. i \in Int /\ i <= a + b + c
      BY <1>2
    <3>1. i - (a + b) \in 1..c /\ i = a + b + (i - (a + b))
      BY ONLY a \in Nat, b \in Nat, c \in Nat, <2>3, <3>0
    <3>2. PICK j \in 1..c : i = a + b + j
      BY ONLY <3>1
    <3>3. i # a + k
      BY <1>3, <2>3
    <3>. QED BY <1>2, <3>2, <3>3
  <2>. QED BY <2>1, <2>2, <2>3
<1>. QED BY <1>1, <1>2, <1>4, <1>5 DEF Changed, Other

\* What another value does to the values by their names.
SlotsSet(par, def, val, o, n, e, val2) ==
  /\ n \in ToSet(Lay(par, def, o)) /\ e \in Pval /\ (n \in ToSet(def[o]) => e.var # Clear)
  /\ \A d \in DOMAIN par : d # o =>
       Spread(Lay(par, def, d), val2[d]) = Spread(Lay(par, def, d), val[d])
  /\ Spread(Lay(par, def, o), val2[o])
       = [x \in ToSet(Lay(par, def, o)) |-> IF x # n THEN Spread(Lay(par, def, o), val[o])[x] ELSE e]

\* Setting a value by name.
LEMMA ResetSlots ==
  ASSUME NEW par, NEW def, NEW val, Hierarchy(par, def), Arrays(par, def, val), NEW o \in DOMAIN par,
         NEW k, NEW e, NEW val2, Reset(par, def, val, o, k, e, val2)
  PROVE  SlotsSet(par, def, val, o, Lay(par, def, o)[k], e, val2)
<1>1. /\ \A d \in DOMAIN par : d # o => val2[d] = val[d]
      /\ Changed(val2[o], val[o], Len(val[o]), k, e)
      /\ Len(val[o]) = Width(par, def, o)
  BY ResetIs
<1>2. PICK w \in Seq(Name) : w = Lay(par, def, o)
  BY LayIs, HierarchyTyped DEF Hierarchy, Typed
<1>3. PICK n : n = w[k]
  OBVIOUS
<1>4. PICK u, u2 : u = val[o] /\ u2 = val2[o]
  OBVIOUS
<1>5. Changed(u2, u, Len(w), k, e)
  BY <1>1, <1>2, <1>4 DEF Width
<1>6. Changed(w, w, Len(w), k, n)
  BY <1>3, <1>5 DEF Changed
<1>7. Once(w)
  BY <1>2, LayOnce
<1>8. /\ Spread(w, u2) = [x \in (ToSet(w) \ {n}) \cup {n} |-> IF x # n THEN Spread(w, u)[x] ELSE e]
      /\ n \in ToSet(w)
  <2>1. Renames(w, u, w, u2, k, n, n, e)
    BY <1>3, <1>5, <1>6 DEF Renames
  <2>2. SpreadRenamed(w, u, w, u2, k, n, n, e)
    BY <1>7, <2>1, SpreadChanged
  <2>. QED BY <2>2 DEF SpreadRenamed
<1>9. (ToSet(w) \ {n}) \cup {n} = ToSet(w)
  BY <1>8
<1>10. Spread(w, u2) = [x \in ToSet(w) |-> IF x # n THEN Spread(w, u)[x] ELSE e]
  BY <1>8, <1>9
<1>11. n \in ToSet(def[o]) => e.var # Clear
  <2>. SUFFICES ASSUME n \in ToSet(def[o]) PROVE e.var # Clear
    OBVIOUS
  <2>1. def[o] \in Seq(Name)
    BY HierarchyTyped DEF Typed
  <2>2. PICK i \in 1..Len(def[o]) : def[o][i] = n
    BY <2>1, ToSetIs
  <2>3. i \in 1..Len(w) /\ w[i] = n
    BY <1>2, <2>2, OwnFirst DEF Width
  <2>4. k \in 1..Len(w)
    BY <1>2 DEF Reset, Width
  <2>5. i = k
    BY <1>3, <1>7, <2>3, <2>4 DEF Once
  <2>. QED BY <2>2, <2>5 DEF Reset
<1>12. e \in Pval
  BY DEF Reset
<1>. QED BY <1>1, <1>2, <1>3, <1>4, <1>8, <1>10, <1>11, <1>12 DEF SlotsSet

\* What another name does.
SlotsRenamed(par, def, val, o, n, m, e, def2, val2) ==
  /\ e \in Pval /\ e.var = Spread(Lay(par, def, o), val[o])[n].var
  /\ \A d \in DOMAIN par : o \notin Anc(par, d) =>
       Spread(Lay(par, def2, d), val2[d]) = Spread(Lay(par, def, d), val[d])
  /\ \A d \in DOMAIN par : o \in Anc(par, d) =>
       Spread(Lay(par, def2, d), val2[d])
         = [x \in (ToSet(Lay(par, def, d)) \ {n}) \cup {m} |->
              IF x # m THEN Spread(Lay(par, def, d), val[d])[x]
              ELSE IF d = o THEN e ELSE Spread(Lay(par, def, d), val[d])[n]]

\* Renaming a property by name: it is renamed for all objects below.
LEMMA RenamedSlots ==
  ASSUME NEW par, NEW def, NEW val, Hierarchy(par, def), Arrays(par, def, val), NEW o \in DOMAIN par,
         NEW i \in 1..Len(def[o]), NEW m, NEW new, NEW e, NEW def2, NEW val2,
         RenamedTo(par, def, val, o, i, m, new, e, def2, val2), Hierarchy(par, def2)
  PROVE  SlotsRenamed(par, def, val, o, def[o][i], m, e, def2, val2)
<1>0. /\ Other(new, def[o], i, m) /\ Redefines(par, def, o, new, def2)
      /\ Arrays(par, def2, val) /\ Reset(par, def2, val, o, i, e, val2)
      /\ e.var = val[o][i].var
  BY DEF RenamedTo
<1>1. /\ \A d \in DOMAIN par : d # o => val2[d] = val[d]
      /\ Changed(val2[o], val[o], Len(val[o]), i, e)
  BY <1>0, ResetIs
<1>2. PICK n : n = def[o][i]
  OBVIOUS
<1>3. o \in Anc(par, o)
  BY AncSet DEF Hierarchy
<1>4. ASSUME NEW d \in DOMAIN par, o \notin Anc(par, d)
      PROVE  Spread(Lay(par, def2, d), val2[d]) = Spread(Lay(par, def, d), val[d])
  <2>1. Redefined(par, def, o, new, def2)
    BY <1>0, RedefineLay
  <2>2. Lay(par, def2, d) = Lay(par, def, d)
    BY <1>4, <2>1 DEF Redefined
  <2>3. val2[d] = val[d]
    BY <1>1, <1>3, <1>4
  <2>. QED BY <2>2, <2>3
<1>5. ASSUME NEW d \in DOMAIN par, o \in Anc(par, d)
      PROVE  /\ Spread(Lay(par, def2, d), val2[d])
                  = [x \in (ToSet(Lay(par, def, d)) \ {n}) \cup {m} |->
                       IF x # m THEN Spread(Lay(par, def, d), val[d])[x]
                       ELSE IF d = o THEN e ELSE Spread(Lay(par, def, d), val[d])[n]]
             /\ d = o => Spread(Lay(par, def, d), val[d])[n] = val[o][i]
  <2>1. PICK s \in Seq(Name), t \in Seq(Name) :
                /\ Parts(Lay(par, def, d), s, def[o], t)
                /\ Parts(Lay(par, def2, d), s, new, t)
                /\ Width(par, def, d) - Width(par, def, o) = Len(s)
                /\ def[o] \in Seq(Name) /\ new \in Seq(Name)
    BY <1>0, <1>5, RedefinedParts
  <2>2. PICK g \in Seq(Name), h \in Seq(Name) : g = def[o] /\ h = new
    BY <2>1
  <2>3. PICK w, w2 : w = Lay(par, def, d) /\ w2 = Lay(par, def2, d)
    OBVIOUS
  <2>4. PICK k : k = Len(s) + i
    OBVIOUS
  <2>5. Parts(w, s, g, t) /\ Parts(w2, s, h, t)
    BY <2>1, <2>2, <2>3
  <2>6. Len(w2) = Len(w) /\ Changed(w2, w, Len(w), k, m) /\ w[k] = n
    <3>1. s \in Seq(Name) /\ g \in Seq(Name) /\ h \in Seq(Name) /\ t \in Seq(Name)
      OBVIOUS
    <3>2. Other(h, g, i, m) /\ g[i] = n
      BY <1>0, <1>2, <2>2
    <3>3. Other(w2, w, Len(s) + i, m) /\ w[Len(s) + i] = g[i]
      BY ONLY <2>5, <3>1, <3>2, PartsChanged
    <3>. QED BY ONLY <2>4, <3>2, <3>3 DEF Other
  <2>7. w \in Seq(Name) /\ w2 \in Seq(Name)
    BY <2>5 DEF Parts
  <2>8. Once(w) /\ Once(w2)
    BY <2>3, LayOnce
  <2>9. PICK u, u2 : u = val[d] /\ u2 = val2[d]
    OBVIOUS
  <2>10. Len(u) = Len(w)
    BY <2>3, <2>9 DEF Arrays, Width
  <2>11. PICK c : c = IF d = o THEN e ELSE u[k]
    OBVIOUS
  <2>12. d = o => k = i
    <3>1. ASSUME d = o PROVE Len(s) = 0
      <4>1. Width(par, def, o) \in Nat
        BY OwnFirst
      <4>. QED BY <2>1, <3>1, <4>1
    <3>2. i \in Nat
      BY <2>1
    <3>. QED BY <2>4, <3>1, <3>2
  <2>13. Changed(u2, u, Len(w), k, c)
    <3>1. CASE d = o
      BY <1>1, <2>9, <2>10, <2>11, <2>12, <3>1
    <3>2. CASE d # o
      BY <1>1, <2>6, <2>9, <2>11, <3>2 DEF Changed
    <3>. QED BY <3>1, <3>2
  <2>14. /\ Spread(w2, u2)
              = [x \in (ToSet(w) \ {n}) \cup {m} |-> IF x # m THEN Spread(w, u)[x] ELSE c]
         /\ Spread(w, u)[n] = u[k]
    <3>1. Renames(w, u, w2, u2, k, n, m, c)
      BY ONLY <2>6, <2>13 DEF Renames
    <3>2. SpreadRenamed(w, u, w2, u2, k, n, m, c)
      BY <2>7, <2>8, <3>1, SpreadChanged
    <3>. QED BY <3>2 DEF SpreadRenamed
  <2>15. c = IF d = o THEN e ELSE Spread(w, u)[n]
    BY <2>11, <2>14
  <2>16. Spread(w2, u2)
           = [x \in (ToSet(w) \ {n}) \cup {m} |->
                IF x # m THEN Spread(w, u)[x] ELSE IF d = o THEN e ELSE Spread(w, u)[n]]
    BY ONLY <2>14, <2>15
  <2>17. d = o => Spread(w, u)[n] = val[o][i]
    BY <2>9, <2>12, <2>14
  <2>. QED BY <2>3, <2>9, <2>16, <2>17
<1>6. e \in Pval
  BY <1>0 DEF Reset
<1>7. e.var = Spread(Lay(par, def, o), val[o])[n].var
  BY <1>0, <1>3, <1>5
<1>8. SlotsRenamed(par, def, val, o, n, m, e, def2, val2)
  <2>1. \A d \in DOMAIN par : o \notin Anc(par, d) =>
          Spread(Lay(par, def2, d), val2[d]) = Spread(Lay(par, def, d), val[d])
    BY ONLY <1>4
  <2>2. \A d \in DOMAIN par : o \in Anc(par, d) =>
          Spread(Lay(par, def2, d), val2[d])
            = [x \in (ToSet(Lay(par, def, d)) \ {n}) \cup {m} |->
                 IF x # m THEN Spread(Lay(par, def, d), val[d])[x]
                 ELSE IF d = o THEN e ELSE Spread(Lay(par, def, d), val[d])[n]]
    BY ONLY <1>5
  <2>. QED BY ONLY <1>6, <1>7, <2>1, <2>2, Zenon DEF SlotsRenamed
<1>. QED BY ONLY <1>2, <1>8

-----------------------------------------------------------------------------
(* The invariant                                                           *)

\* The inductive invariant: the hierarchy has no loops and no name twice on the
\* way up, the arrays fit, own values are not clear, and all objects are owned.
Inv ==
  /\ Hierarchy(parent, propdefs)
  /\ Arrays(parent, propdefs, propval)
  /\ owner \in [Valid -> Owner]

\* The first object.
LEMMA InitHolds == Init => Inv
<1>. SUFFICES ASSUME Init PROVE Inv
  OBVIOUS
<1>1. PICK root \in Obj, who \in Creator :
        /\ parent = [x \in {root} |-> NOTHING]
        /\ owner = [x \in {root} |-> NewOwner(root, who)]
        /\ propdefs = [x \in {root} |-> <<>>]
        /\ propval = [x \in {root} |-> <<>>]
  BY DEF Init
<1>3. /\ DOMAIN parent = {root} /\ parent[root] = NOTHING
      /\ propdefs[root] = <<>> /\ propval[root] = <<>>
      /\ propdefs \in [{root} -> Seq(Name)] /\ propval \in [{root} -> Seq(Pval)]
  BY <1>1
<1>4. owner \in [{root} -> Owner]
  BY <1>1, PropertiesAssumption DEF NewOwner, Owner
<1>5. Ranked(parent, [x \in {root} |-> 0], 0)
  <2>1. NOTHING \notin {root}
    BY PropertiesAssumption
  <2>. QED BY <1>1, <1>3, <2>1 DEF Ranked
<1>6. Hierarchy(parent, propdefs)
  <2>1. IsFiniteSet({root})
    BY FS_Singleton
  <2>2. \A x \in DOMAIN parent : Anc(parent, x) \subseteq DOMAIN parent
    BY <1>5, AncSet
  <2>3. Apart(parent, propdefs)
    BY <1>3, <2>2 DEF Apart
  <2>. QED BY <1>3, <1>5, <2>1, <2>3 DEF Hierarchy
<1>7. Arrays(parent, propdefs, propval)
  <2>1. Typed(parent, propdefs)
    BY <1>6, HierarchyTyped
  <2>2. Lay(parent, propdefs, NOTHING) = <<>>
        /\ Lay(parent, propdefs, root) = propdefs[root] \o Lay(parent, propdefs, parent[root])
    BY <1>3, <1>5, <2>1, LayIs DEF Typed
  <2>3. Lay(parent, propdefs, root) = <<>> \o <<>>
    BY <1>3, <2>2
  <2>4. Len(<<>> \o <<>>) = 0
    OBVIOUS
  <2>. QED BY <1>3, <2>3, <2>4 DEF Arrays, Width
<1>. QED BY <1>3, <1>4, <1>6, <1>7 DEF Inv, Valid

\* What the invariant says of DB.
LEMMA InvDB ==
  ASSUME Inv
  PROVE  /\ DB = State(parent, propdefs, propval)
         /\ Sound(parent, propdefs, propval)
         /\ Hierarchy(parent, propdefs) /\ Arrays(parent, propdefs, propval)
         /\ owner \in [DOMAIN parent -> Owner]
BY DEF Inv, DB, State, Sound, Owned, Valid

\* The array of an object of the owner w that inherits all of u.
InheritsAll(u, w) ==
  [i \in DOMAIN u |-> [var |-> Clear, chown |-> u[i].chown,
                       owner |-> IF u[i].chown THEN w ELSE u[i].owner]]

\* A new object.
LEMMA CreateAdds ==
  ASSUME Inv, NEW o, NEW p, NEW who \in Creator, create(o, p, who)
  PROVE  /\ Added(parent, propdefs, propval, o, p, parent', propdefs', propval')
         /\ owner' \in [DOMAIN parent \cup {o} -> Owner]
         /\ p # NOTHING => propval'[o] = InheritsAll(propval[p], NewOwner(o, who))
<1>1. Hierarchy(parent, propdefs) /\ Arrays(parent, propdefs, propval) /\ owner \in [DOMAIN parent -> Owner]
  BY InvDB
<1>2. /\ o \in Obj /\ o \notin DOMAIN parent /\ p \in DOMAIN parent \cup {NOTHING}
      /\ owner' = With(owner, o, NewOwner(o, who))
      /\ parent' = With(parent, o, p)
      /\ propdefs' = With(propdefs, o, <<>>)
  BY DEF create, Valid
<1>3. PICK v : /\ propval' = With(propval, o, v)
               /\ v = IF p = NOTHING THEN <<>>
                      ELSE [i \in DOMAIN propval[p] |->
                              [var |-> Clear, chown |-> propval[p][i].chown,
                               owner |-> IF propval[p][i].chown THEN owner'[o]
                                         ELSE propval[p][i].owner]]
  BY DEF create
<1>4. /\ parent \in [DOMAIN parent -> DOMAIN parent \cup {NOTHING}]
      /\ propdefs \in [DOMAIN parent -> Seq(Name)]
      /\ propval \in [DOMAIN parent -> Seq(Pval)]
  BY <1>1 DEF Hierarchy, Arrays, Ranked
<1>5. NewOwner(o, who) \in Owner
  BY <1>2, PropertiesAssumption DEF NewOwner, Owner
<1>6. /\ DOMAIN owner' = DOMAIN parent \cup {o}
      /\ owner' = [x \in DOMAIN owner' |-> owner'[x]]
      /\ owner'[o] = NewOwner(o, who)
      /\ \A x \in DOMAIN parent : owner'[x] = owner[x]
  <2>1. DOMAIN owner = DOMAIN parent
    BY <1>1
  <2>. QED BY <1>2, <2>1 DEF With
<1>7. owner' \in [DOMAIN parent \cup {o} -> Owner]
  BY <1>1, <1>5, <1>6
<1>8. /\ DOMAIN parent' = DOMAIN parent \cup {o}
      /\ parent' = [x \in DOMAIN parent' |-> parent'[x]]
      /\ parent'[o] = p
      /\ \A x \in DOMAIN parent : parent'[x] = parent[x]
  BY <1>2 DEF With
<1>9. /\ DOMAIN propdefs' = DOMAIN parent \cup {o}
      /\ propdefs' = [x \in DOMAIN propdefs' |-> propdefs'[x]]
      /\ propdefs'[o] = <<>>
      /\ \A x \in DOMAIN parent : propdefs'[x] = propdefs[x]
  <2>1. DOMAIN propdefs = DOMAIN parent
    BY <1>4
  <2>. QED BY <1>2, <2>1 DEF With
<1>10. /\ DOMAIN propval' = DOMAIN parent \cup {o}
       /\ propval' = [x \in DOMAIN propval' |-> propval'[x]]
       /\ propval'[o] = v
       /\ \A x \in DOMAIN parent : propval'[x] = propval[x]
  <2>1. DOMAIN propval = DOMAIN parent
    BY <1>4
  <2>. QED BY <1>2, <1>3, <2>1 DEF With
<1>11. v \in Seq(Pval) /\ Len(v) = IF p = NOTHING THEN 0 ELSE Len(propval[p])
  <2>1. CASE p = NOTHING
    BY <1>3, <2>1
  <2>2. CASE p # NOTHING
    <3>1. PICK u \in Seq(Pval) : u = propval[p]
      BY <1>2, <1>4, <2>2
    <3>2. PICK w \in Owner : w = owner'[o]
      BY <1>5, <1>6
    <3>3. v = [i \in 1..Len(u) |->
                 [var |-> Clear, chown |-> u[i].chown,
                  owner |-> IF u[i].chown THEN w ELSE u[i].owner]]
      BY <1>3, <2>2, <3>1, <3>2
    <3>4. \A i \in 1..Len(u) :
            [var |-> Clear, chown |-> u[i].chown,
             owner |-> IF u[i].chown THEN w ELSE u[i].owner] \in Pval
      <4>. SUFFICES ASSUME NEW i \in 1..Len(u)
                    PROVE  [var |-> Clear, chown |-> u[i].chown,
                            owner |-> IF u[i].chown THEN w ELSE u[i].owner] \in Pval
        OBVIOUS
      <4>1. PICK r \in Pval : r = u[i]
        OBVIOUS
      <4>. QED BY <3>2, <4>1 DEF Pval, Owner
    <3>5. v \in [1..Len(u) -> Pval] /\ Len(u) \in Nat
      BY <3>3, <3>4
    <3>6. v \in Seq(Pval) /\ Len(v) = Len(u)
      BY <3>5
    <3>. QED BY <2>2, <3>1, <3>6
  <2>. QED BY <2>1, <2>2
<1>12. Added(parent, propdefs, propval, o, p, parent', propdefs', propval')
  BY <1>2, <1>8, <1>9, <1>10, <1>11 DEF Added
<1>13. p # NOTHING => propval'[o] = InheritsAll(propval[p], NewOwner(o, who))
  BY <1>3, <1>6, <1>10 DEF InheritsAll
<1>. QED BY <1>7, <1>12, <1>13

\* It keeps the invariant.
LEMMA CreateKeeps ==
  ASSUME Inv, NEW o, NEW p, NEW who \in Creator, create(o, p, who)
  PROVE  Inv'
<1>1. /\ Added(parent, propdefs, propval, o, p, parent', propdefs', propval')
      /\ owner' \in [DOMAIN parent \cup {o} -> Owner]
  BY CreateAdds
<1>2. Hierarchy(parent', propdefs') /\ Arrays(parent', propdefs', propval')
  BY <1>1, AddedKeeps, InvDB
<1>3. DOMAIN parent' = DOMAIN parent \cup {o}
  BY <1>1 DEF Added
<1>. QED BY <1>1, <1>2, <1>3 DEF Inv, Valid

\* DB becomes a sound state of the same objects.
LEMMA SameObjects ==
  ASSUME Inv, NEW T, Becomes(T), NEW def2, NEW val2, NEW par2, T = State(par2, def2, val2),
         Hierarchy(par2, def2), Arrays(par2, def2, val2), DOMAIN par2 = DOMAIN parent, owner' = owner
  PROVE  Inv'
<1>1. parent' = par2 /\ propdefs' = def2 /\ propval' = val2
  BY DEF Becomes, State
<1>2. owner' \in [DOMAIN par2 -> Owner]
  BY InvDB
<1>. QED BY <1>1, <1>2 DEF Inv, Valid

\* A new parent.
LEMMA ChparentKeeps ==
  ASSUME Inv, NEW o, NEW p, chparent(o, p)
  PROVE  Inv'
<1>1. /\ o \in DOMAIN parent /\ p \in DOMAIN parent \cup {NOTHING}
      /\ NoLoop(parent, o, p) /\ dbpriv_check_properties_for_chparent(DB, o, p)
      /\ Becomes(db_change_parent(DB, o, p)) /\ owner' = owner
  BY DEF chparent, Valid
<1>2. DB = State(parent, propdefs, propval) /\ Sound(parent, propdefs, propval)
  BY InvDB
<1>3. PICK par2 : par2 = [parent EXCEPT ![o] = p]
  OBVIOUS
<1>4. Moved(parent, o, p, par2)
  BY <1>1, <1>3 DEF Moved, NoLoop, Anc
<1>5. Fits(parent, propdefs, o, p)
  BY <1>1, <1>2, CheckIs
<1>6. PICK val2 : db_change_parent(DB, o, p) = State(par2, propdefs, val2) /\ Sound(par2, propdefs, val2)
  BY <1>2, <1>4, <1>5, ChangeParentKeeps
<1>7. DOMAIN par2 = DOMAIN parent
  BY <1>3
<1>8. Hierarchy(par2, propdefs) /\ Arrays(par2, propdefs, val2)
  BY <1>6 DEF Sound
<1>. QED BY <1>1, <1>6, <1>7, <1>8, SameObjects

\* One object less.
LEMMA RecyclingKeeps ==
  ASSUME Inv, NEW o, recycle(o)
  PROVE  Inv'
<1>1. PICK S : S = RecycleKids(DB, o)
  OBVIOUS
<1>2. PICK U : U = db_destroy_object(db_change_parent(S, o, NOTHING), o)
  OBVIOUS
<1>3. /\ o \in DOMAIN parent /\ Children(S.parent, o) = {} /\ Becomes(U)
      /\ owner' = [d \in DOMAIN parent \ {o} |-> owner[d]]
  BY <1>1, <1>2 DEF recycle, Valid
<1>4. DB = State(parent, propdefs, propval) /\ Sound(parent, propdefs, propval)
  BY InvDB
<1>5. PICK par2, def2, val2 : /\ U = State(par2, def2, val2) /\ Sound(par2, def2, val2)
                              /\ SlotsWithout(parent, propdefs, propval, o, par2, def2, val2)
  BY <1>1, <1>2, <1>3, <1>4, RecycleSlots
<1>9. DOMAIN par2 = DOMAIN parent \ {o}
  BY <1>5 DEF SlotsWithout
<1>6. parent' = par2 /\ propdefs' = def2 /\ propval' = val2
  BY <1>3, <1>5 DEF Becomes, State
<1>7. owner' \in [DOMAIN par2 -> Owner]
  BY <1>3, <1>9, InvDB
<1>8. Hierarchy(par2, def2) /\ Arrays(par2, def2, val2)
  BY <1>5 DEF Sound
<1>. QED BY <1>6, <1>7, <1>8 DEF Inv, Valid

\* One property more.
LEMMA AddingKeeps ==
  ASSUME Inv, NEW o, NEW n \in Name, NEW pval \in Pval, pval.var # Clear, add_property(o, n, pval)
  PROVE  Inv'
<1>1. /\ o \in DOMAIN parent /\ MayBeNamed(DB, o, n)
      /\ Becomes(db_add_propdef(DB, o, n, pval)) /\ owner' = owner
  BY DEF add_property, Valid
<1>2. /\ DB = State(parent, propdefs, propval) /\ Sound(parent, propdefs, propval)
      /\ Hierarchy(parent, propdefs)
  BY InvDB
<1>3. FreeName(parent, propdefs, o, n)
  BY <1>1, <1>2, MayBeNamedIs
<1>4. PICK def2, val2 : /\ db_add_propdef(DB, o, n, pval) = State(parent, def2, val2)
                        /\ Sound(parent, def2, val2)
  BY <1>1, <1>2, <1>3, AddKeeps
<1>5. Hierarchy(parent, def2) /\ Arrays(parent, def2, val2)
  BY <1>4 DEF Sound
<1>. QED BY <1>1, <1>4, <1>5, SameObjects

\* One property less.
LEMMA DeletingKeeps ==
  ASSUME Inv, NEW o, NEW n, delete_property(o, n)
  PROVE  Inv'
<1>1. PICK i : i = DefinedAt(DB, o, n)
  OBVIOUS
<1>2. o \in DOMAIN parent /\ i # 0 /\ Becomes(db_delete_propdef(DB, o, i)) /\ owner' = owner
  BY <1>1 DEF delete_property, Valid
<1>3. /\ DB = State(parent, propdefs, propval) /\ Sound(parent, propdefs, propval)
      /\ Hierarchy(parent, propdefs)
  BY InvDB
<1>4. i \in 1..Len(propdefs[o])
  BY <1>1, <1>2, <1>3, PlaceIs
<1>5. PICK def2, val2 : /\ db_delete_propdef(DB, o, i) = State(parent, def2, val2)
                        /\ Sound(parent, def2, val2)
  BY <1>2, <1>3, <1>4, DeleteKeeps
<1>6. Hierarchy(parent, def2) /\ Arrays(parent, def2, val2)
  BY <1>5 DEF Sound
<1>. QED BY <1>2, <1>5, <1>6, SameObjects

\* Another owner or other permissions.
LEMMA SetInfoKeeps ==
  ASSUME Inv, NEW o, NEW n, NEW info \in NewInfo, set_prop_info(o, n, info)
  PROVE  Inv'
<1>1. o \in DOMAIN parent /\ Place(DB, o, n) # 0 /\ Becomes(SetInfo(DB, o, n, info)) /\ owner' = owner
  BY DEF set_prop_info, Valid
<1>2. /\ DB = State(parent, propdefs, propval)
      /\ Hierarchy(parent, propdefs) /\ Arrays(parent, propdefs, propval)
  BY InvDB
<1>3. info.owner \in Player /\ info.chown \in BOOLEAN
  BY PropertiesAssumption
<1>4. PICK val2 : SetInfo(DB, o, n, info) = State(parent, propdefs, val2) /\ Arrays(parent, propdefs, val2)
  <2>1. Informed(DB, SetInfo(DB, o, n, info), parent, propdefs, propval, o, n)
    BY <1>1, <1>2, <1>3, InfoKeeps
  <2>. QED BY <2>1 DEF Informed
<1>. QED BY <1>1, <1>2, <1>4, SameObjects

\* Another name.
LEMMA RenamingKeeps ==
  ASSUME Inv, NEW o, NEW n, NEW new \in Name, NEW info \in NewInfo, rename_prop(o, n, new, info)
  PROVE  Inv'
<1>1. PICK i : i = DefinedAt(DB, o, n)
  OBVIOUS
<1>2. PICK T : T = Renamed(DB, o, i, new, info)
  OBVIOUS
<1>3. o \in DOMAIN parent /\ i # 0 /\ MayBeNamed(DB, o, new) /\ Becomes(T) /\ owner' = owner
  BY <1>1, <1>2, Zenon DEF rename_prop, Renamed, Valid
<1>4. /\ DB = State(parent, propdefs, propval)
      /\ Hierarchy(parent, propdefs) /\ Arrays(parent, propdefs, propval)
  BY InvDB
<1>5. info.owner \in Player /\ info.chown \in BOOLEAN
  BY PropertiesAssumption
<1>6. i \in 1..Len(propdefs[o])
  BY <1>1, <1>3, <1>4, PlaceIs
<1>7. FreeName(parent, propdefs, o, new)
  BY <1>3, <1>4, MayBeNamedIs
<1>8. PICK def2, val2 : T = State(parent, def2, val2) /\ Hierarchy(parent, def2) /\ Arrays(parent, def2, val2)
  BY <1>2, <1>3, <1>4, <1>5, <1>6, <1>7, RenameKeeps
<1>. QED BY <1>3, <1>8, SameObjects

\* Another value, or none.
LEMMA PuttingKeeps ==
  ASSUME Inv, NEW o, NEW n,
         \/ \E v \in Value : put_prop(o, n, v)
         \/ clear_property(o, n)
  PROVE  Inv'
<1>1. PICK k : k = Place(DB, o, n)
  OBVIOUS
<1>2. /\ DB = State(parent, propdefs, propval)
      /\ Hierarchy(parent, propdefs) /\ Arrays(parent, propdefs, propval)
      /\ owner \in [DOMAIN parent -> Owner]
  BY InvDB
<1>3. PICK v \in Value \cup {Clear} :
        /\ o \in DOMAIN parent /\ k # 0 /\ (v = Clear => DefinedAt(DB, o, n) = 0)
        /\ propval' = [propval EXCEPT ![o][k].var = v]
        /\ parent' = parent /\ owner' = owner /\ propdefs' = propdefs
  BY <1>1, PropertiesAssumption DEF put_prop, clear_property, Valid
<1>4. PICK e, val2 : /\ val2 = [propval EXCEPT ![o][k].var = v] /\ Arrays(parent, propdefs, val2)
                     /\ Reset(parent, propdefs, propval, o, k, e, val2)
  BY <1>1, <1>2, <1>3, ValueKeeps
<1>. QED BY <1>2, <1>3, <1>4 DEF Inv, Valid

\* Every step keeps the invariant.
LEMMA InvKept == Inv /\ [Next]_vars => Inv'
<1>. SUFFICES ASSUME Inv, [Next]_vars PROVE Inv'
  OBVIOUS
<1>1. CASE UNCHANGED vars
  BY <1>1 DEF Inv, vars, Valid
<1>2. ASSUME NEW o \in Obj, NEW p \in Obj \cup {NOTHING}, chparent(o, p) PROVE Inv'
  BY <1>2, ChparentKeeps
<1>3. ASSUME NEW o \in Obj, NEW p \in Obj \cup {NOTHING}, NEW who \in Creator, create(o, p, who) PROVE Inv'
  BY <1>3, CreateKeeps
<1>4. ASSUME NEW o \in Obj, recycle(o) PROVE Inv'
  BY <1>4, RecyclingKeeps
<1>5. ASSUME NEW o \in Obj, NEW n \in Name, NEW v \in Value, NEW info \in Info,
             add_property(o, n, [var |-> v, owner |-> info.owner, chown |-> info.chown])
      PROVE  Inv'
  <2>1. PICK pval : pval = [var |-> v, owner |-> info.owner, chown |-> info.chown]
    OBVIOUS
  <2>2. info.owner \in Player /\ info.chown \in BOOLEAN
    BY PropertiesAssumption
  <2>3. pval \in Pval /\ pval.var # Clear
    BY <2>1, <2>2, PropertiesAssumption DEF Pval
  <2>4. add_property(o, n, pval)
    BY <1>5, <2>1
  <2>. QED BY <2>3, <2>4, AddingKeeps
<1>6. ASSUME NEW o \in Obj, NEW n \in Name, delete_property(o, n) PROVE Inv'
  BY <1>6, DeletingKeeps
<1>7. ASSUME NEW o \in Obj, NEW n \in Name, NEW info \in NewInfo, set_prop_info(o, n, info) PROVE Inv'
  BY <1>7, SetInfoKeeps
<1>8. ASSUME NEW o \in Obj, NEW n \in Name, NEW info \in NewInfo, NEW new \in Name,
             rename_prop(o, n, new, info)
      PROVE  Inv'
  BY <1>8, RenamingKeeps
<1>9. ASSUME NEW o \in Obj, NEW n \in Name,
             (\E v \in Value : put_prop(o, n, v)) \/ clear_property(o, n)
      PROVE  Inv'
  BY <1>9, PuttingKeeps
<1>. QED BY <1>1, <1>2, <1>3, <1>4, <1>5, <1>6, <1>7, <1>8, <1>9 DEF Next

\* The invariant always holds.
LEMMA InvHolds == Spec => []Inv
BY InitHolds, InvKept, PTL DEF Spec

-----------------------------------------------------------------------------
(* The specification by name                                               *)

\* The operators of PropertySpec are those of Properties: the object number -1.
LEMMA AbsNothing == Abstract!NOTHING = NOTHING
BY DEF Abstract!NOTHING, NOTHING

\* The elements of a sequence.
LEMMA AbsToSet == \A s : Abstract!ToSet(s) = ToSet(s)
BY DEF Abstract!ToSet, ToSet

\* The ancestors.
LEMMA AbsAncestors == \A par, o : Abstract!Ancestors(par, o) = Ancestors(par, o)
BY Zenon DEF Abstract!Ancestors, Ancestors, Abstract!NOTHING, NOTHING

\* The objects at or below o.
LEMMA AbsAtOrBelow == ASSUME NEW par, NEW o PROVE Abstract!AtOrBelow(par, o) = AtOrBelow(par, o)
BY AbsAncestors, AbsToSet DEF Abstract!AtOrBelow, AtOrBelow

\* The test for loops.
LEMMA AbsNoLoop == ASSUME NEW par, NEW o, NEW p PROVE Abstract!NoLoop(par, o, p) <=> NoLoop(par, o, p)
BY AbsAncestors, AbsToSet DEF Abstract!NoLoop, NoLoop

\* A function with one more value.
LEMMA AbsWith == ASSUME NEW f, NEW k, NEW e PROVE Abstract!With(f, k, e) = With(f, k, e)
BY DEF Abstract!With, With

\* What an object inherits.
LEMMA AbsInherited == ASSUME NEW d, NEW v PROVE Abstract!Inherited(v, d) = Inherited(v, d)
BY DEF Abstract!Inherited, Inherited

\* What slot shows of the arrays.
Shown == slot = Slots(parent, propdefs, propval)

\* Named is the same, written with Layout.
LEMMA NamedShown == slot = Named => Shown
<1>1. DB.parent = parent /\ DB.propdefs = propdefs
  BY DEF DB
<1>2. \A o : Layout(DB, o) = Lay(parent, propdefs, o)
  BY <1>1, LayoutIs
<1>. QED BY <1>2 DEF Named, Shown, Slots, Spread, Valid

\* s are the values by their names.
ByName(s, par, def, val) ==
  /\ DOMAIN s = DOMAIN par /\ s = [d \in DOMAIN par |-> s[d]]
  /\ \A d \in DOMAIN par : /\ s[d] = Spread(Lay(par, def, d), val[d])
                           /\ DOMAIN s[d] = ToSet(Lay(par, def, d))
                           /\ s[d] = [n \in ToSet(Lay(par, def, d)) |-> s[d][n]]

\* The facts about Slots that the lemmas below use.
LEMMA SlotsAre ==
  ASSUME NEW par, NEW def, NEW val, NEW s, s = Slots(par, def, val)
  PROVE  ByName(s, par, def, val)
BY DEF Slots, Spread, ByName

\* The objects at or below o are those that have it as an ancestor.
LEMMA BelowIs == \A par, o, d : d \in Abstract!AtOrBelow(par, o) <=> d \in DOMAIN par /\ o \in Anc(par, d)
BY AbsAtOrBelow DEF AtOrBelow, Anc

\* The names that an object has, and who defines them.
LEMMA AbsNames ==
  ASSUME NEW par, NEW def, Hierarchy(par, def), NEW x \in DOMAIN par \cup {NOTHING}
  PROVE  Abstract!Names(par, Defs(par, def), x) = ToSet(Lay(par, def, x))
<1>1. PICK height, top : Ranked(par, height, top)
  BY DEF Hierarchy
<1>2. Abstract!ToSet(Abstract!Ancestors(par, x)) = Anc(par, x)
  BY AbsToSet, AbsAncestors DEF Anc
<1>3. Anc(par, x) \subseteq DOMAIN par
  BY <1>1, AncSet
<1>4. \A n : n \in ToSet(Lay(par, def, x)) <=> \E a \in Anc(par, x) : n \in ToSet(def[a])
  BY <1>1, LayNames, HierarchyTyped DEF Typed
<1>5. \A a \in Anc(par, x) : Defs(par, def)[a] = ToSet(def[a])
  BY <1>3 DEF Defs
<1>6. Abstract!Names(par, Defs(par, def), x) = UNION {Defs(par, def)[a] : a \in Anc(par, x)}
  BY <1>2 DEF Abstract!Names
<1>. QED BY <1>4, <1>5, <1>6

\* And who defines a name.
LEMMA AbsDefiner ==
  ASSUME NEW par, NEW def, Hierarchy(par, def), NEW x \in DOMAIN par, NEW n
  PROVE  Abstract!Definer(par, Defs(par, def), x, n) = DefinerOf(par, def, x, n)
<1>1. PICK height, top : Ranked(par, height, top)
  BY DEF Hierarchy
<1>2. Abstract!ToSet(Abstract!Ancestors(par, x)) = Anc(par, x)
  BY AbsToSet, AbsAncestors DEF Anc
<1>3. Anc(par, x) \subseteq DOMAIN par
  BY <1>1, AncSet
<1>4. \A a \in Anc(par, x) : n \in Defs(par, def)[a] <=> n \in ToSet(def[a])
  BY <1>3 DEF Defs
<1>. QED BY <1>2, <1>4 DEF Abstract!Definer, DefinerOf

\* Another value.
LEMMA AssignShown ==
  ASSUME Shown, Shown', NEW o \in DOMAIN parent, NEW n, NEW e,
         SlotsSet(parent, propdefs, propval, o, n, e, propval'),
         parent' = parent, owner' = owner, propdefs' = propdefs
  PROVE  Abstract!assign
<1>1. /\ DOMAIN slot = DOMAIN parent /\ slot = [d \in DOMAIN parent |-> slot[d]]
      /\ \A d \in DOMAIN parent : /\ slot[d] = Spread(Lay(parent, propdefs, d), propval[d])
                                  /\ DOMAIN slot[d] = ToSet(Lay(parent, propdefs, d))
                                  /\ slot[d] = [m \in ToSet(Lay(parent, propdefs, d)) |-> slot[d][m]]
  <2>1. ByName(slot, parent, propdefs, propval)
    BY SlotsAre DEF Shown
  <2>. QED BY ONLY <2>1 DEF ByName
<1>2. /\ slot' = [d \in DOMAIN parent |-> slot'[d]]
      /\ \A d \in DOMAIN parent : slot'[d] = Spread(Lay(parent, propdefs, d), propval'[d])
  BY DEF Shown, Slots
<1>3. n \in DOMAIN slot[o] /\ e \in Pval /\ (n \in ToSet(propdefs[o]) => e.var # Clear)
  BY <1>1 DEF SlotsSet
<1>4. \A d \in DOMAIN parent : d # o => slot'[d] = slot[d]
  BY <1>1, <1>2 DEF SlotsSet
<1>5. slot'[o] = [x \in DOMAIN slot[o] |-> IF x # n THEN slot[o][x] ELSE e]
  BY <1>1, <1>2 DEF SlotsSet
<1>6. slot'[o][n] = e
  BY <1>3, <1>5
<1>7. slot' = [slot EXCEPT ![o][n] = slot'[o][n]]
  BY <1>1, <1>2, <1>3, <1>4, <1>5, <1>6
<1>8. Abstract!Pval = Pval /\ Abstract!Valid = DOMAIN parent
  BY DEF Abstract!Pval, Pval, Abstract!Valid
<1>9. [x \in Valid |-> ToSet(propdefs[x])][o] = ToSet(propdefs[o])
  BY DEF Valid
<1>10. [x \in Valid |-> ToSet(propdefs[x])]' = [x \in Valid |-> ToSet(propdefs[x])]
  BY DEF Valid
<1>. QED BY <1>3, <1>6, <1>7, <1>8, <1>9, <1>10 DEF Abstract!assign

\* The check of the names.
LEMMA AbsCompatible ==
  ASSUME Hierarchy(parent, propdefs), NEW o, NEW p \in DOMAIN parent \cup {NOTHING},
         Fits(parent, propdefs, o, p)
  PROVE  Abstract!Compatible(o, p)
<1>1. PICK D : D = [x \in Valid |-> ToSet(propdefs[x])] /\ D = Defs(parent, propdefs)
  BY DEF Defs, Valid
<1>2. Abstract!Names(parent, D, p) = ToSet(Lay(parent, propdefs, p))
  BY <1>1, AbsNames
<1>3. \A d \in Abstract!AtOrBelow(parent, o) : D[d] = ToSet(propdefs[d])
  BY <1>1, BelowIs DEF Defs
<1>4. Abstract!Names(parent, D, p) \cap UNION {D[d] : d \in Abstract!AtOrBelow(parent, o)} = {}
  BY <1>2, <1>3, BelowIs DEF Fits
<1>. QED BY <1>1, <1>4 DEF Abstract!Compatible

\* What d has when the hierarchy becomes par2, where d is below an object with
\* the new parent p.
Reparenting(par2, p, d) ==
  [n \in ToSet(Lay(par2, propdefs, d)) |->
     IF /\ n \in DOMAIN slot[d]
        /\ DefinerOf(par2, propdefs, d, n) = DefinerOf(parent, propdefs, d, n)
     THEN slot[d][n] ELSE Inherited(slot[p][n], d)]

\* It is what PropertySpec says.
LEMMA AbsReparented ==
  ASSUME Hierarchy(parent, propdefs), NEW par2, Hierarchy(par2, propdefs), NEW o, NEW p,
         par2 = [parent EXCEPT ![o] = p], NEW d \in DOMAIN parent
  PROVE  Abstract!Reparented(o, p, d) = Reparenting(par2, p, d)
<1>1. DOMAIN par2 = DOMAIN parent
  OBVIOUS
<1>2. PICK D : /\ D = [x \in Valid |-> ToSet(propdefs[x])]
               /\ D = Defs(parent, propdefs) /\ D = Defs(par2, propdefs)
  BY <1>1 DEF Defs, Valid
<1>3. Abstract!Names(par2, D, d) = ToSet(Lay(par2, propdefs, d))
  BY <1>1, <1>2, AbsNames
<1>4. \A n : /\ Abstract!Definer(par2, D, d, n) = DefinerOf(par2, propdefs, d, n)
             /\ Abstract!Definer(parent, D, d, n) = DefinerOf(parent, propdefs, d, n)
  BY <1>1, <1>2, AbsDefiner
<1>5. Abstract!Reparented(o, p, d)
      = [n \in Abstract!Names(par2, D, d) |->
           IF n \in DOMAIN slot[d] /\ Abstract!Definer(par2, D, d, n) = Abstract!Definer(parent, D, d, n)
           THEN slot[d][n] ELSE Abstract!Inherited(slot[p][n], d)]
  BY <1>2 DEF Abstract!Reparented
<1>6. \A n : Abstract!Inherited(slot[p][n], d) = Inherited(slot[p][n], d)
  BY AbsInherited
<1>7. PICK f : f = Abstract!Reparented(o, p, d)
  OBVIOUS
<1>8. f = [n \in ToSet(Lay(par2, propdefs, d)) |-> f[n]]
  BY <1>3, <1>5, <1>7
<1>9. ASSUME NEW n \in ToSet(Lay(par2, propdefs, d))
      PROVE  f[n] = IF /\ n \in DOMAIN slot[d]
                       /\ DefinerOf(par2, propdefs, d, n) = DefinerOf(parent, propdefs, d, n)
                    THEN slot[d][n] ELSE Inherited(slot[p][n], d)
  <2>1. n \in Abstract!Names(par2, D, d)
    BY <1>3, <1>9
  <2>2. f[n] = IF n \in DOMAIN slot[d] /\ Abstract!Definer(par2, D, d, n) = Abstract!Definer(parent, D, d, n)
               THEN slot[d][n] ELSE Abstract!Inherited(slot[p][n], d)
    BY ONLY <1>5, <1>7, <2>1
  <2>3. Abstract!Inherited(slot[p][n], d) = Inherited(slot[p][n], d)
    BY ONLY <1>6
  <2>4. /\ Abstract!Definer(par2, D, d, n) = DefinerOf(par2, propdefs, d, n)
        /\ Abstract!Definer(parent, D, d, n) = DefinerOf(parent, propdefs, d, n)
    BY ONLY <1>4
  <2>. QED BY ONLY <2>2, <2>3, <2>4
<1>10. f = Reparenting(par2, p, d)
  BY <1>8, <1>9 DEF Reparenting
<1>. QED BY <1>7, <1>10

\* A change of parent.
LEMMA ChparentShown ==
  ASSUME Inv, Shown, Shown', NEW o, NEW p, chparent(o, p)
  PROVE  Abstract!fail \/ (parent' # parent /\ Abstract!chparent(o, p))
<1>1. /\ o \in DOMAIN parent /\ p \in DOMAIN parent \cup {NOTHING}
      /\ NoLoop(parent, o, p) /\ dbpriv_check_properties_for_chparent(DB, o, p)
      /\ Becomes(db_change_parent(DB, o, p)) /\ owner' = owner
  BY DEF chparent, Valid
<1>2. /\ DB = State(parent, propdefs, propval) /\ Sound(parent, propdefs, propval)
      /\ Hierarchy(parent, propdefs)
  BY InvDB
<1>3. PICK par2 : par2 = [parent EXCEPT ![o] = p]
  OBVIOUS
<1>4. Moved(parent, o, p, par2)
  BY <1>1, <1>3 DEF Moved, NoLoop, Anc
<1>5. Fits(parent, propdefs, o, p)
  BY <1>1, <1>2, CheckIs
<1>6. PICK val2 : /\ db_change_parent(DB, o, p) = State(par2, propdefs, val2)
                  /\ Swapped(parent, propdefs, propval, o, p, par2, val2)
  BY <1>2, <1>4, <1>5, ChangeParentKeeps
<1>7. parent' = par2 /\ propdefs' = propdefs /\ propval' = val2
  BY <1>1, <1>6 DEF Becomes, State
<1>8. SlotsMoved(parent, propdefs, propval, o, p, par2, val2)
  BY <1>2, <1>4, <1>5, <1>6, MovedSlots
<1>9. DOMAIN par2 = DOMAIN parent
  BY <1>3
<1>10. /\ \A d \in DOMAIN parent : /\ slot[d] = Spread(Lay(parent, propdefs, d), propval[d])
                                   /\ DOMAIN slot[d] = ToSet(Lay(parent, propdefs, d))
                                   /\ slot[d] = [m \in ToSet(Lay(parent, propdefs, d)) |-> slot[d][m]]
       /\ slot = [d \in DOMAIN parent |-> slot[d]]
  <2>1. ByName(slot, parent, propdefs, propval)
    BY SlotsAre DEF Shown
  <2>. QED BY ONLY <2>1 DEF ByName
<1>11. PICK s2 : s2 = slot' /\ s2 = Slots(par2, propdefs, val2)
  BY <1>7 DEF Shown
<1>12. /\ \A d \in DOMAIN parent : /\ s2[d] = Spread(Lay(par2, propdefs, d), val2[d])
                                   /\ s2[d] = [m \in ToSet(Lay(par2, propdefs, d)) |-> s2[d][m]]
       /\ s2 = [d \in DOMAIN parent |-> s2[d]]
  <2>1. ByName(s2, par2, propdefs, val2)
    BY <1>11, SlotsAre
  <2>. QED BY ONLY <1>9, <2>1 DEF ByName
<1>13. \A d \in DOMAIN parent : o \notin Anc(parent, d) => s2[d] = slot[d]
  BY <1>8, <1>10, <1>12 DEF SlotsMoved
<1>14. Hierarchy(par2, propdefs)
  BY <1>2, <1>4, <1>5, MovedHierarchy
<1>15. ASSUME NEW d \in DOMAIN parent, o \in Anc(parent, d) PROVE s2[d] = Abstract!Reparented(o, p, d)
  <2>1. ASSUME NEW n \in ToSet(Lay(par2, propdefs, d))
        PROVE  s2[d][n] = IF /\ n \in DOMAIN slot[d]
                             /\ DefinerOf(par2, propdefs, d, n) = DefinerOf(parent, propdefs, d, n)
                          THEN slot[d][n] ELSE Inherited(slot[p][n], d)
    <3>1. s2[d][n] = IF n \in DOMAIN slot[d] /\ DefinerOf(par2, propdefs, d, n) = DefinerOf(parent, propdefs, d, n)
                     THEN slot[d][n]
                     ELSE Inherited(Spread(Lay(parent, propdefs, p), propval[p])[n], d)
      BY <1>8, <1>10, <1>12, <1>15 DEF SlotsMoved
    <3>2. CASE p \in DOMAIN parent
      BY <1>10, <3>1, <3>2
    <3>3. CASE p = NOTHING
      <4>1. Anc(parent, p) \subseteq Anc(parent, o)
        BY <1>2, <3>3, AncSet DEF Hierarchy
      <4>2. /\ n \in ToSet(Lay(parent, propdefs, d))
            /\ DefinerOf(par2, propdefs, d, n) = DefinerOf(parent, propdefs, d, n)
        BY <1>2, <1>4, <1>5, <1>15, <4>1, MovedUpDefiner
      <4>. QED BY <1>10, <3>1, <4>2
    <3>. QED BY <1>1, <3>2, <3>3
  <2>2. Abstract!Reparented(o, p, d) = Reparenting(par2, p, d)
    BY <1>2, <1>3, <1>14, AbsReparented
  <2>3. s2[d] = Reparenting(par2, p, d)
    BY <1>12, <2>1 DEF Reparenting
  <2>. QED BY <2>2, <2>3
<1>16. [x \in Valid |-> ToSet(propdefs[x])]' = [x \in Valid |-> ToSet(propdefs[x])]
  BY <1>7, <1>9 DEF Valid
<1>17. CASE parent' = parent
  <2>1. \A d \in DOMAIN parent : \A n \in ToSet(Lay(parent, propdefs, d)) : o \in Anc(parent, d) => s2[d][n] = slot[d][n]
    BY <1>7, <1>8, <1>10, <1>12, <1>17 DEF SlotsMoved
  <2>2. \A d \in DOMAIN parent : s2[d] = slot[d]
    BY <1>7, <1>10, <1>12, <1>13, <1>17, <2>1
  <2>3. slot' = slot
    BY <1>10, <1>11, <1>12, <2>2
  <2>. QED BY <1>1, <1>16, <1>17, <2>3 DEF Abstract!fail, Abstract!vars
<1>18. CASE parent' # parent
  <2>1. slot' = [d \in DOMAIN parent |->
                   IF d \in Abstract!AtOrBelow(parent, o) THEN Abstract!Reparented(o, p, d) ELSE slot[d]]
    BY <1>11, <1>12, <1>13, <1>15, BelowIs
  <2>2. Abstract!Compatible(o, p)
    BY <1>1, <1>2, <1>5, AbsCompatible
  <2>3. Abstract!NoLoop(parent, o, p)
    BY <1>1, AbsNoLoop
  <2>4. Abstract!Valid = DOMAIN parent /\ Abstract!NOTHING = NOTHING
    BY AbsNothing DEF Abstract!Valid
  <2>5. Abstract!chparent(o, p)
    BY <1>1, <1>3, <1>7, <1>16, <2>1, <2>2, <2>3, <2>4 DEF Abstract!chparent
  <2>. QED BY <1>18, <2>5
<1>. QED BY <1>17, <1>18

\* Recycling.
LEMMA RecycleShown ==
  ASSUME Inv, Shown, Shown', NEW o, recycle(o)
  PROVE  parent' # parent /\ Abstract!recycle(o)
<1>1. PICK S : S = RecycleKids(DB, o)
  OBVIOUS
<1>2. PICK U : U = db_destroy_object(db_change_parent(S, o, NOTHING), o)
  OBVIOUS
<1>3. /\ o \in DOMAIN parent /\ Children(S.parent, o) = {} /\ Becomes(U)
      /\ owner' = [d \in DOMAIN parent \ {o} |-> owner[d]]
  BY <1>1, <1>2 DEF recycle, Valid
<1>4. DB = State(parent, propdefs, propval) /\ Sound(parent, propdefs, propval)
  BY InvDB
<1>5. PICK par2, def2, val2 : /\ U = State(par2, def2, val2)
                              /\ SlotsWithout(parent, propdefs, propval, o, par2, def2, val2)
  BY <1>1, <1>2, <1>3, <1>4, RecycleSlots
<1>6. parent' = par2 /\ propdefs' = def2 /\ propval' = val2
  BY <1>3, <1>5 DEF Becomes, State
<1>7. PICK rest : rest = DOMAIN parent \ {o}
  OBVIOUS
<1>8. /\ DOMAIN par2 = rest
      /\ par2 = [d \in rest |-> IF parent[d] = o THEN parent[o] ELSE parent[d]]
      /\ def2 = [d \in rest |-> propdefs[d]]
      /\ \A d \in rest :
           /\ ToSet(Lay(par2, def2, d)) = {n \in ToSet(Lay(parent, propdefs, d)) :
                                             o \in Anc(parent, d) => n \notin ToSet(propdefs[o])}
           /\ \A n \in ToSet(Lay(par2, def2, d)) :
                Spread(Lay(par2, def2, d), val2[d])[n] = Spread(Lay(parent, propdefs, d), propval[d])[n]
  BY <1>5, <1>7 DEF SlotsWithout
<1>9. \A d \in DOMAIN parent : /\ slot[d] = Spread(Lay(parent, propdefs, d), propval[d])
                               /\ DOMAIN slot[d] = ToSet(Lay(parent, propdefs, d))
                               /\ slot[d] = [m \in ToSet(Lay(parent, propdefs, d)) |-> slot[d][m]]
  <2>1. ByName(slot, parent, propdefs, propval)
    BY SlotsAre DEF Shown
  <2>. QED BY ONLY <2>1 DEF ByName
<1>10. PICK s2 : s2 = slot' /\ s2 = Slots(par2, def2, val2)
  BY <1>6 DEF Shown
<1>11. /\ \A d \in rest : /\ s2[d] = Spread(Lay(par2, def2, d), val2[d])
                          /\ s2[d] = [m \in ToSet(Lay(par2, def2, d)) |-> s2[d][m]]
       /\ s2 = [d \in rest |-> s2[d]]
  <2>1. ByName(s2, par2, def2, val2)
    BY <1>10, SlotsAre
  <2>2. DOMAIN par2 = rest
    BY <1>8
  <2>. QED BY ONLY <2>1, <2>2 DEF ByName
<1>12. ASSUME NEW d \in rest, o \notin Anc(parent, d) PROVE s2[d] = slot[d]
  <2>1. d \in DOMAIN parent
    BY <1>7
  <2>2. /\ ToSet(Lay(par2, def2, d)) = {n \in ToSet(Lay(parent, propdefs, d)) :
                                          o \in Anc(parent, d) => n \notin ToSet(propdefs[o])}
        /\ \A n \in ToSet(Lay(par2, def2, d)) :
             Spread(Lay(par2, def2, d), val2[d])[n] = Spread(Lay(parent, propdefs, d), propval[d])[n]
    BY ONLY <1>8, d \in rest
  <2>3. ToSet(Lay(par2, def2, d)) = ToSet(Lay(parent, propdefs, d))
    BY <1>12, <2>2
  <2>4. \A n \in ToSet(Lay(parent, propdefs, d)) : s2[d][n] = slot[d][n]
    BY <1>9, <1>11, <2>1, <2>2, <2>3
  <2>. QED BY <1>9, <1>11, <2>1, <2>3, <2>4
<1>13. ASSUME NEW d \in rest, o \in Anc(parent, d)
       PROVE  s2[d] = [n \in DOMAIN slot[d] \ ToSet(propdefs[o]) |-> slot[d][n]]
  <2>1. d \in DOMAIN parent
    BY <1>7
  <2>2. /\ ToSet(Lay(par2, def2, d)) = {n \in ToSet(Lay(parent, propdefs, d)) :
                                          o \in Anc(parent, d) => n \notin ToSet(propdefs[o])}
        /\ \A n \in ToSet(Lay(par2, def2, d)) :
             Spread(Lay(par2, def2, d), val2[d])[n] = Spread(Lay(parent, propdefs, d), propval[d])[n]
    BY ONLY <1>8, d \in rest
  <2>3. ToSet(Lay(par2, def2, d)) = DOMAIN slot[d] \ ToSet(propdefs[o])
    BY <1>9, <1>13, <2>1, <2>2
  <2>4. \A n \in DOMAIN slot[d] \ ToSet(propdefs[o]) : s2[d][n] = slot[d][n]
    BY <1>9, <1>11, <2>1, <2>2, <2>3
  <2>. QED BY <1>11, <2>3, <2>4
<1>14. PICK D : D = [x \in Valid |-> ToSet(propdefs[x])]
  OBVIOUS
<1>15. D[o] = ToSet(propdefs[o])
  BY <1>3, <1>14 DEF Valid
<1>16. [x \in Valid |-> ToSet(propdefs[x])]' = [d \in rest |-> D[d]]
  <2>1. [x \in Valid |-> ToSet(propdefs[x])]' = [x \in rest |-> ToSet(def2[x])]
    BY <1>6, <1>8 DEF Valid
  <2>2. \A x \in rest : ToSet(def2[x]) = D[x]
    BY <1>7, <1>8, <1>14 DEF Valid
  <2>. QED BY <2>1, <2>2
<1>17. slot' = [d \in rest |-> IF d \in Abstract!AtOrBelow(parent, o)
                               THEN [n \in DOMAIN slot[d] \ D[o] |-> slot[d][n]] ELSE slot[d]]
  <2>1. ASSUME NEW d \in rest
        PROVE  s2[d] = IF d \in Abstract!AtOrBelow(parent, o)
                       THEN [n \in DOMAIN slot[d] \ D[o] |-> slot[d][n]] ELSE slot[d]
    <3>1. d \in Abstract!AtOrBelow(parent, o) <=> o \in Anc(parent, d)
      BY <1>7, BelowIs
    <3>2. CASE o \in Anc(parent, d)
      BY ONLY <1>13, <1>15, <3>1, <3>2, d \in rest
    <3>3. CASE o \notin Anc(parent, d)
      BY ONLY <1>12, <3>1, <3>3, d \in rest
    <3>. QED BY ONLY <3>2, <3>3
  <2>2. s2 = [d \in rest |-> s2[d]]
    BY <1>11
  <2>. QED BY ONLY <1>10, <2>1, <2>2
<1>18. Abstract!Valid = DOMAIN parent
  BY DEF Abstract!Valid
<1>19. Abstract!recycle(o)
  <2>1. rest = Abstract!Valid \ {o} /\ o \in Abstract!Valid
    BY <1>3, <1>7, <1>18
  <2>2. parent' = [d \in rest |-> IF parent[d] = o THEN parent[o] ELSE parent[d]]
    BY <1>6, <1>8
  <2>3. owner' = [d \in rest |-> owner[d]]
    BY <1>3, <1>7
  <2>. QED BY ONLY <1>14, <1>16, <1>17, <2>1, <2>2, <2>3 DEF Abstract!recycle
<1>20. parent' # parent
  BY <1>3, <1>6, <1>7, <1>8
<1>. QED BY <1>19, <1>20

\* The definitions when o has other names.
LEMMA DefsShown ==
  ASSUME NEW o, NEW new, NEW def2, Redefines(parent, propdefs, o, new, def2), propdefs' = def2,
         parent' = parent
  PROVE  [x \in Valid |-> ToSet(propdefs[x])]'
         = [[x \in Valid |-> ToSet(propdefs[x])] EXCEPT ![o] = ToSet(new)]
<1>1. /\ o \in DOMAIN parent /\ def2[o] = new /\ \A x \in DOMAIN parent : x # o => def2[x] = propdefs[x]
  BY RedefineLay DEF Redefined, Redefines
<1>. QED BY <1>1 DEF Valid

\* A new property.
LEMMA AddShown ==
  ASSUME Inv, Shown, Shown', NEW o, NEW n \in Name, NEW pval \in Pval, pval.var # Clear,
         add_property(o, n, pval)
  PROVE  [x \in Valid |-> ToSet(propdefs[x])]' # [x \in Valid |-> ToSet(propdefs[x])]
         /\ Abstract!add_property(o, n)
<1>1. /\ o \in DOMAIN parent /\ MayBeNamed(DB, o, n)
      /\ Becomes(db_add_propdef(DB, o, n, pval)) /\ owner' = owner
  BY DEF add_property, Valid
<1>2. /\ DB = State(parent, propdefs, propval) /\ Sound(parent, propdefs, propval)
      /\ Hierarchy(parent, propdefs)
  BY InvDB
<1>3. FreeName(parent, propdefs, o, n)
  BY <1>1, <1>2, MayBeNamedIs
<1>4. PICK def2, val2 : /\ db_add_propdef(DB, o, n, pval) = State(parent, def2, val2)
                        /\ Redefines(parent, propdefs, o, Append(propdefs[o], n), def2)
                        /\ Inserted(parent, propdefs, propval, o, pval, val2)
                        /\ Sound(parent, def2, val2)
  BY <1>1, <1>2, <1>3, AddKeeps
<1>5. parent' = parent /\ propdefs' = def2 /\ propval' = val2
  BY <1>1, <1>4 DEF Becomes, State
<1>6. PICK new : new = Append(propdefs[o], n)
  OBVIOUS
<1>7. SlotsMore(parent, propdefs, propval, o, n, pval, def2, val2)
  <2>1. Redefines(parent, propdefs, o, new, def2) /\ Hierarchy(parent, def2)
    BY <1>4, <1>6 DEF Sound
  <2>. QED BY <1>1, <1>2, <1>4, <1>6, <2>1, AddedSlots
<1>8. /\ \A d \in DOMAIN parent : /\ slot[d] = Spread(Lay(parent, propdefs, d), propval[d])
                                  /\ DOMAIN slot[d] = ToSet(Lay(parent, propdefs, d))
      /\ slot = [d \in DOMAIN parent |-> slot[d]]
  <2>1. ByName(slot, parent, propdefs, propval)
    BY SlotsAre DEF Shown
  <2>. QED BY ONLY <2>1 DEF ByName
<1>9. PICK s2 : s2 = slot' /\ s2 = Slots(parent, def2, val2)
  BY <1>5 DEF Shown
<1>10. /\ \A d \in DOMAIN parent : s2[d] = Spread(Lay(parent, def2, d), val2[d])
       /\ s2 = [d \in DOMAIN parent |-> s2[d]]
  <2>1. ByName(s2, parent, def2, val2)
    BY <1>9, SlotsAre
  <2>. QED BY ONLY <2>1 DEF ByName
<1>11. \A d \in DOMAIN parent : o \notin Anc(parent, d) => s2[d] = slot[d]
  BY <1>7, <1>8, <1>10 DEF SlotsMore
<1>12. \A d \in DOMAIN parent : o \in Anc(parent, d) =>
         n \notin DOMAIN slot[d] /\ s2[d] = With(slot[d], n, NewPval(pval, o, d))
  BY <1>7, <1>8, <1>10 DEF SlotsMore
<1>13. o \in Anc(parent, o)
  BY <1>1, <1>2, AncSet DEF Hierarchy
<1>14. PICK pv : pv = s2[o][n]
  OBVIOUS
<1>15. pv = NewPval(pval, o, o)
  BY <1>1, <1>12, <1>13, <1>14 DEF With
<1>16. pv \in Pval /\ pv.var = pval.var
  BY <1>1, <1>2, <1>15, NewPvalIs DEF Sound, Owned
<1>17. ASSUME NEW d PROVE NewPval(pv, o, d) = NewPval(pval, o, d)
  <2>1. PICK q \in Pval : q = Inherited(pval, o)
    BY <1>1, <1>2, InheritedIs DEF Sound, Owned
  <2>2. pv = [q EXCEPT !.var = pval.var]
    BY <1>15, <2>1 DEF NewPval
  <2>3. pv.chown = q.chown /\ pv.owner = q.owner
    BY <2>1, <2>2 DEF Pval
  <2>4. Inherited(pv, d) = Inherited(q, d)
    BY <2>3 DEF Inherited
  <2>5. Inherited(q, d) = Inherited(pval, d)
    BY <1>1, <1>2, <2>1, InheritedIs DEF Sound, Owned
  <2>. QED BY <1>16, <2>4, <2>5 DEF NewPval
<1>18. PICK D : D = [x \in Valid |-> ToSet(propdefs[x])]
  OBVIOUS
<1>19. /\ [x \in Valid |-> ToSet(propdefs[x])]' = [D EXCEPT ![o] = D[o] \cup {n}]
       /\ n \notin D[o] /\ DOMAIN D = DOMAIN parent
  <2>1. PICK g \in Seq(Name) : g = propdefs[o]
    BY <1>1, <1>2, HierarchyTyped DEF Typed
  <2>2. new \in Seq(Name) /\ Len(new) = Len(g) + 1 /\ Longer(new, g, Len(g), Len(g) + 1, n)
    BY <1>6, <2>1 DEF Longer
  <2>3. Once(g)
    BY <1>1, <1>2, <2>1 DEF Hierarchy, Once
  <2>4. Redefines(parent, propdefs, o, new, def2)
    BY <1>4, <1>6
  <2>5. Once(new)
    <3>1. Hierarchy(parent, def2) /\ def2[o] = new
      BY <1>4, <2>4, RedefineLay DEF Sound, Redefined, Redefines
    <3>. QED BY <1>1, <3>1 DEF Hierarchy, Once
  <2>6. n \notin ToSet(g) /\ ToSet(new) = ToSet(g) \cup {n}
    <3>1. PICK k : k = Len(g) + 1
      OBVIOUS
    <3>2. Longer(new, g, Len(g), k, n)
      BY <2>2, <3>1
    <3>. QED BY <2>2, <2>3, <2>5, <3>2, SpreadMore
  <2>7. [x \in Valid |-> ToSet(propdefs[x])]' = [D EXCEPT ![o] = ToSet(new)]
    BY <1>5, <1>18, <2>4, DefsShown
  <2>8. D[o] = ToSet(g) /\ DOMAIN D = DOMAIN parent
    BY <1>1, <1>18, <2>1 DEF Valid
  <2>. QED BY <2>6, <2>7, <2>8
<1>20. ASSUME NEW d \in DOMAIN parent, o \in Anc(parent, d)
       PROVE  s2[d] = Abstract!With(slot[d], n, [Abstract!Inherited(pv, d) EXCEPT
                                                   !.var = IF d = o THEN pv.var ELSE Clear])
  <2>1. [Abstract!Inherited(pv, d) EXCEPT !.var = IF d = o THEN pv.var ELSE Clear] = NewPval(pv, o, d)
    BY AbsInherited DEF NewPval
  <2>2. s2[d] = With(slot[d], n, NewPval(pv, o, d))
    BY <1>12, <1>17, <1>20
  <2>3. Abstract!With(slot[d], n, NewPval(pv, o, d)) = With(slot[d], n, NewPval(pv, o, d))
    BY AbsWith
  <2>. QED BY <2>1, <2>2, <2>3
<1>21. slot' = [d \in DOMAIN parent |->
                  IF d \notin Abstract!AtOrBelow(parent, o) THEN slot[d]
                  ELSE Abstract!With(slot[d], n, [Abstract!Inherited(pv, d) EXCEPT
                                                    !.var = IF d = o THEN pv.var ELSE Clear])]
  BY <1>9, <1>10, <1>11, <1>20, BelowIs
<1>22. \A d \in Abstract!AtOrBelow(parent, o) : n \notin DOMAIN slot[d]
  BY <1>12, BelowIs
<1>23. Abstract!Pval = Pval /\ Abstract!Valid = DOMAIN parent
  BY DEF Abstract!Pval, Pval, Abstract!Valid
<1>24. pv = slot'[o][n] /\ pv \in Abstract!Pval /\ pv.var # Clear
  BY <1>9, <1>14, <1>16, <1>23
<1>25. Abstract!add_property(o, n)
  BY ONLY <1>1, <1>5, <1>18, <1>19, <1>21, <1>22, <1>23, <1>24 DEF Abstract!add_property
<1>26. [D EXCEPT ![o] = D[o] \cup {n}] # D
  BY <1>1, <1>19
<1>. QED BY <1>18, <1>19, <1>25, <1>26

\* A property less.
LEMMA DeleteShown ==
  ASSUME Inv, Shown, Shown', NEW o, NEW n, delete_property(o, n)
  PROVE  [x \in Valid |-> ToSet(propdefs[x])]' # [x \in Valid |-> ToSet(propdefs[x])]
         /\ Abstract!delete_property(o, n)
<1>1. PICK i : i = DefinedAt(DB, o, n)
  OBVIOUS
<1>2. o \in DOMAIN parent /\ i # 0 /\ Becomes(db_delete_propdef(DB, o, i)) /\ owner' = owner
  BY <1>1 DEF delete_property, Valid
<1>3. /\ DB = State(parent, propdefs, propval) /\ Sound(parent, propdefs, propval)
      /\ Hierarchy(parent, propdefs)
  BY InvDB
<1>4. i \in 1..Len(propdefs[o]) /\ propdefs[o][i] = n
  BY <1>1, <1>2, <1>3, PlaceIs
<1>5. PICK def2, val2 : /\ db_delete_propdef(DB, o, i) = State(parent, def2, val2)
                        /\ Redefines(parent, propdefs, o, RemoveAt(propdefs[o], i), def2)
                        /\ Removed(parent, propdefs, propval, o, i, val2)
                        /\ Sound(parent, def2, val2)
  BY <1>2, <1>3, <1>4, DeleteKeeps
<1>6. parent' = parent /\ propdefs' = def2 /\ propval' = val2
  BY <1>2, <1>5 DEF Becomes, State
<1>7. PICK new : new = RemoveAt(propdefs[o], i)
  OBVIOUS
<1>8. Redefines(parent, propdefs, o, new, def2) /\ Hierarchy(parent, def2)
  BY <1>5, <1>7 DEF Sound
<1>9. SlotsLess(parent, propdefs, propval, o, n, def2, val2)
  <2>1. SlotsLess(parent, propdefs, propval, o, propdefs[o][i], def2, val2)
    BY <1>2, <1>3, <1>4, <1>5, <1>7, <1>8, RemovedSlots
  <2>. QED BY <1>4, <2>1
<1>10. /\ \A d \in DOMAIN parent : /\ slot[d] = Spread(Lay(parent, propdefs, d), propval[d])
                                   /\ DOMAIN slot[d] = ToSet(Lay(parent, propdefs, d))
       /\ slot = [d \in DOMAIN parent |-> slot[d]]
  <2>1. ByName(slot, parent, propdefs, propval)
    BY SlotsAre DEF Shown
  <2>. QED BY ONLY <2>1 DEF ByName
<1>11. PICK s2 : s2 = slot' /\ s2 = Slots(parent, def2, val2)
  BY <1>6 DEF Shown
<1>12. /\ \A d \in DOMAIN parent : s2[d] = Spread(Lay(parent, def2, d), val2[d])
       /\ s2 = [d \in DOMAIN parent |-> s2[d]]
  <2>1. ByName(s2, parent, def2, val2)
    BY <1>11, SlotsAre
  <2>. QED BY ONLY <2>1 DEF ByName
<1>13. \A d \in DOMAIN parent : o \notin Anc(parent, d) => s2[d] = slot[d]
  BY <1>9, <1>10, <1>12 DEF SlotsLess
<1>14. \A d \in DOMAIN parent : o \in Anc(parent, d) => s2[d] = [m \in DOMAIN slot[d] \ {n} |-> slot[d][m]]
  <2>. SUFFICES ASSUME NEW d \in DOMAIN parent, o \in Anc(parent, d)
                PROVE  s2[d] = [m \in DOMAIN slot[d] \ {n} |-> slot[d][m]]
    OBVIOUS
  <2>1. Spread(Lay(parent, def2, d), val2[d])
          = [m \in ToSet(Lay(parent, propdefs, d)) \ {n} |-> Spread(Lay(parent, propdefs, d), propval[d])[m]]
    BY <1>9 DEF SlotsLess
  <2>2. /\ s2[d] = Spread(Lay(parent, def2, d), val2[d])
        /\ slot[d] = Spread(Lay(parent, propdefs, d), propval[d])
        /\ DOMAIN slot[d] = ToSet(Lay(parent, propdefs, d))
    BY <1>10, <1>12
  <2>. QED BY ONLY <2>1, <2>2
<1>15. PICK D : D = [x \in Valid |-> ToSet(propdefs[x])]
  OBVIOUS
<1>16. /\ [x \in Valid |-> ToSet(propdefs[x])]' = [D EXCEPT ![o] = D[o] \ {n}]
       /\ n \in D[o] /\ DOMAIN D = DOMAIN parent
  <2>1. PICK g \in Seq(Name) : g = propdefs[o]
    BY <1>2, <1>3, HierarchyTyped DEF Typed
  <2>2. new \in Seq(Name) /\ Len(g) = Len(new) + 1 /\ Longer(g, new, Len(new), i, n)
    <3>1. Without(Name, new, g, i)
      BY <1>4, <1>7, <2>1, RemoveIs
    <3>2. Len(g) \in Nat /\ i \in 1..Len(g) /\ g[i] = n
      BY <1>4, <2>1
    <3>. QED BY <3>1, <3>2 DEF Without, Longer
  <2>3. Once(g)
    BY <1>2, <1>3, <2>1 DEF Hierarchy, Once
  <2>5. Once(new)
    <3>1. def2[o] = new
      BY <1>8, RedefineLay DEF Redefined, Redefines
    <3>. QED BY <1>2, <1>8, <3>1 DEF Hierarchy, Once
  <2>6. n \notin ToSet(new) /\ ToSet(g) = ToSet(new) \cup {n}
    BY <2>2, <2>3, <2>5, SpreadMore
  <2>7. [x \in Valid |-> ToSet(propdefs[x])]' = [D EXCEPT ![o] = ToSet(new)]
    BY <1>6, <1>8, <1>15, DefsShown
  <2>8. D[o] = ToSet(g) /\ DOMAIN D = DOMAIN parent
    BY <1>2, <1>15, <2>1 DEF Valid
  <2>9. ToSet(new) = D[o] \ {n} /\ n \in D[o]
    BY <2>6, <2>8
  <2>. QED BY <2>7, <2>8, <2>9
<1>17. slot' = [d \in DOMAIN parent |->
                  IF d \in Abstract!AtOrBelow(parent, o)
                  THEN [m \in DOMAIN slot[d] \ {n} |-> slot[d][m]] ELSE slot[d]]
  BY <1>11, <1>12, <1>13, <1>14, BelowIs
<1>18. Abstract!Valid = DOMAIN parent
  BY DEF Abstract!Valid
<1>19. Abstract!delete_property(o, n)
  BY ONLY <1>2, <1>6, <1>15, <1>16, <1>17, <1>18 DEF Abstract!delete_property
<1>20. [D EXCEPT ![o] = D[o] \ {n}] # D
  BY <1>2, <1>16
<1>. QED BY <1>15, <1>16, <1>19, <1>20

\* A name that is free for o is not known to any object below o.
LEMMA FreeBelow ==
  ASSUME NEW par, NEW def, Hierarchy(par, def), NEW o \in DOMAIN par, NEW n, FreeName(par, def, o, n)
  PROVE  \A d \in DOMAIN par : o \in Anc(par, d) => n \notin ToSet(Lay(par, def, d))
<1>. SUFFICES ASSUME NEW d \in DOMAIN par, o \in Anc(par, d), n \in ToSet(Lay(par, def, d)) PROVE FALSE
  OBVIOUS
<1>1. PICK height, top : Ranked(par, height, top)
  BY DEF Hierarchy
<1>2. \A x \in DOMAIN par : \A m : m \in ToSet(Lay(par, def, x)) <=> \E a \in Anc(par, x) : m \in ToSet(def[a])
  BY <1>1, LayNames, HierarchyTyped DEF Typed
<1>3. PICK b \in Anc(par, d) : n \in ToSet(def[b])
  BY <1>2
<1>4. b \in DOMAIN par /\ Anc(par, o) = {o} \cup Anc(par, par[o])
  BY <1>1, AncSet
<1>5. o \in Anc(par, b) \/ b \in Anc(par, par[o])
  BY <1>1, AncBetween
<1>6. CASE o \in Anc(par, b)
  BY <1>3, <1>4, <1>6 DEF FreeName
<1>7. CASE b \in Anc(par, par[o])
  BY <1>2, <1>3, <1>4, <1>7 DEF FreeName
<1>. QED BY <1>5, <1>6, <1>7

\* A property that has another name.
LEMMA RenameShown ==
  ASSUME Inv, Shown, Shown', NEW o, NEW n, NEW m \in Name, NEW info \in NewInfo, rename_prop(o, n, m, info)
  PROVE  [x \in Valid |-> ToSet(propdefs[x])]' # [x \in Valid |-> ToSet(propdefs[x])]
         /\ Abstract!rename(o, n, m)
<1>1. PICK i : i = DefinedAt(DB, o, n)
  OBVIOUS
<1>2. PICK T : T = Renamed(DB, o, i, m, info)
  OBVIOUS
<1>3. o \in DOMAIN parent /\ i # 0 /\ MayBeNamed(DB, o, m) /\ Becomes(T) /\ owner' = owner
  BY <1>1, <1>2, Zenon DEF rename_prop, Renamed, Valid
<1>4. /\ DB = State(parent, propdefs, propval)
      /\ Hierarchy(parent, propdefs) /\ Arrays(parent, propdefs, propval)
  BY InvDB
<1>5. info.owner \in Player /\ info.chown \in BOOLEAN
  BY PropertiesAssumption
<1>6. i \in 1..Len(propdefs[o]) /\ propdefs[o][i] = n
  BY <1>1, <1>3, <1>4, PlaceIs
<1>7. FreeName(parent, propdefs, o, m)
  BY <1>3, <1>4, MayBeNamedIs
<1>8. PICK new, e, def2, val2 :
        /\ T = State(parent, def2, val2)
        /\ Hierarchy(parent, def2) /\ Arrays(parent, def2, val2)
        /\ RenamedTo(parent, propdefs, propval, o, i, m, new, e, def2, val2)
  BY <1>2, <1>3, <1>4, <1>5, <1>6, <1>7, RenameKeeps
<1>9. parent' = parent /\ propdefs' = def2 /\ propval' = val2
  BY <1>3, <1>8 DEF Becomes, State
<1>10. SlotsRenamed(parent, propdefs, propval, o, n, m, e, def2, val2)
  <2>1. SlotsRenamed(parent, propdefs, propval, o, propdefs[o][i], m, e, def2, val2)
    BY <1>3, <1>4, <1>6, <1>8, RenamedSlots
  <2>. QED BY <1>6, <2>1
<1>11. /\ \A d \in DOMAIN parent : /\ slot[d] = Spread(Lay(parent, propdefs, d), propval[d])
                                   /\ DOMAIN slot[d] = ToSet(Lay(parent, propdefs, d))
       /\ slot = [d \in DOMAIN parent |-> slot[d]]
  <2>1. ByName(slot, parent, propdefs, propval)
    BY SlotsAre DEF Shown
  <2>. QED BY ONLY <2>1 DEF ByName
<1>12. PICK s2 : s2 = slot' /\ s2 = Slots(parent, def2, val2)
  BY <1>9 DEF Shown
<1>13. /\ \A d \in DOMAIN parent : s2[d] = Spread(Lay(parent, def2, d), val2[d])
       /\ s2 = [d \in DOMAIN parent |-> s2[d]]
  <2>1. ByName(s2, parent, def2, val2)
    BY <1>12, SlotsAre
  <2>. QED BY ONLY <2>1 DEF ByName
<1>14. \A d \in DOMAIN parent : o \notin Anc(parent, d) => s2[d] = slot[d]
  BY <1>10, <1>11, <1>13 DEF SlotsRenamed
<1>15. \A d \in DOMAIN parent : o \in Anc(parent, d) =>
         s2[d] = [x \in (DOMAIN slot[d] \ {n}) \cup {m} |->
                    IF x # m THEN slot[d][x] ELSE IF d = o THEN e ELSE slot[d][n]]
  <2>1. \A d \in DOMAIN parent : o \in Anc(parent, d) =>
          Spread(Lay(parent, def2, d), val2[d])
            = [x \in (ToSet(Lay(parent, propdefs, d)) \ {n}) \cup {m} |->
                 IF x # m THEN Spread(Lay(parent, propdefs, d), propval[d])[x]
                 ELSE IF d = o THEN e ELSE Spread(Lay(parent, propdefs, d), propval[d])[n]]
    BY ONLY <1>10, Zenon DEF SlotsRenamed
  <2>. QED BY ONLY <1>11, <1>13, <2>1
<1>16. e \in Pval /\ e.var = slot[o][n].var
  BY <1>3, <1>10, <1>11 DEF SlotsRenamed
<1>17. o \in Anc(parent, o)
  BY <1>3, <1>4, AncSet DEF Hierarchy
<1>18. e = slot'[o][m]
  BY <1>3, <1>12, <1>15, <1>17
<1>19. PICK D : D = [x \in Valid |-> ToSet(propdefs[x])]
  OBVIOUS
<1>20. /\ [x \in Valid |-> ToSet(propdefs[x])]' = [D EXCEPT ![o] = (D[o] \ {n}) \cup {m}]
       /\ n \in D[o] /\ m \notin D[o] /\ DOMAIN D = DOMAIN parent
  <2>1. PICK g \in Seq(Name) : g = propdefs[o]
    BY <1>3, <1>4, HierarchyTyped DEF Typed
  <2>2. Redefines(parent, propdefs, o, new, def2) /\ Other(new, g, i, m)
    BY <1>8, <2>1 DEF RenamedTo
  <2>3. new \in Seq(Name)
    BY <2>2 DEF Redefines
  <2>4. Renames(g, g, new, new, i, n, m, m)
    BY <1>6, <2>1, <2>2 DEF Other, Renames
  <2>5. Once(g)
    BY <1>3, <1>4, <2>1 DEF Hierarchy, Once
  <2>6. Once(new)
    <3>1. def2[o] = new
      BY <2>2, RedefineLay DEF Redefined, Redefines
    <3>. QED BY <1>3, <1>8, <3>1 DEF Hierarchy, Once
  <2>7. SpreadRenamed(g, g, new, new, i, n, m, m)
    BY <2>3, <2>4, <2>5, <2>6, SpreadChanged
  <2>8. ToSet(new) = (ToSet(g) \ {n}) \cup {m} /\ n \in ToSet(g)
    BY <2>7 DEF SpreadRenamed, Spread
  <2>9. m \notin ToSet(g)
    BY <1>7, <1>17, <2>1, <1>3 DEF FreeName
  <2>10. [x \in Valid |-> ToSet(propdefs[x])]' = [D EXCEPT ![o] = ToSet(new)]
    BY <1>9, <1>19, <2>2, DefsShown
  <2>11. D[o] = ToSet(g) /\ DOMAIN D = DOMAIN parent
    BY <1>3, <1>19, <2>1 DEF Valid
  <2>. QED BY <2>8, <2>9, <2>10, <2>11
<1>21. \A d \in Abstract!AtOrBelow(parent, o) : m \notin DOMAIN slot[d]
  BY <1>3, <1>4, <1>7, <1>11, BelowIs, FreeBelow
<1>22. slot' = [d \in DOMAIN parent |->
                  IF d \notin Abstract!AtOrBelow(parent, o) THEN slot[d]
                  ELSE [x \in (DOMAIN slot[d] \ {n}) \cup {m} |->
                          IF x # m THEN slot[d][x]
                          ELSE IF d = o THEN e ELSE slot[d][n]]]
  BY <1>12, <1>13, <1>14, <1>15, BelowIs
<1>23. Abstract!Pval = Pval /\ Abstract!Valid = DOMAIN parent
  BY DEF Abstract!Pval, Pval, Abstract!Valid
<1>24. Abstract!rename(o, n, m)
  BY ONLY <1>3, <1>9, <1>16, <1>18, <1>19, <1>20, <1>21, <1>22, <1>23 DEF Abstract!rename
<1>25. [D EXCEPT ![o] = (D[o] \ {n}) \cup {m}] # D
  BY <1>3, <1>20
<1>. QED BY <1>19, <1>20, <1>24, <1>25

\* The values of a new object by their names.
LEMMA InheritsAllShown ==
  ASSUME NEW names \in Seq(Name), NEW u \in Seq(Pval), Len(u) = Len(names), NEW w
  PROVE  Spread(names, InheritsAll(u, w)) = InheritsAll(Spread(names, u), w)
<1>1. PICK f : f = Spread(names, InheritsAll(u, w))
  OBVIOUS
<1>2. f = [n \in ToSet(names) |-> f[n]]
  BY <1>1 DEF Spread
<1>3. ASSUME NEW n \in ToSet(names)
      PROVE  f[n] = [var |-> Clear, chown |-> Spread(names, u)[n].chown,
                     owner |-> IF Spread(names, u)[n].chown THEN w ELSE Spread(names, u)[n].owner]
  <2>1. PICK k : k = PlaceIn(names, n)
    OBVIOUS
  <2>2. k \in DOMAIN u
    BY <2>1, PlaceInIs
  <2>3. Spread(names, u)[n] = u[k] /\ f[n] = InheritsAll(u, w)[k]
    BY <1>1, <2>1 DEF Spread
  <2>. QED BY <2>2, <2>3 DEF InheritsAll
<1>4. DOMAIN Spread(names, u) = ToSet(names)
  BY DEF Spread
<1>5. f = InheritsAll(Spread(names, u), w)
  BY <1>2, <1>3, <1>4 DEF InheritsAll
<1>. QED BY <1>1, <1>5

\* A new object.
LEMMA CreateShown ==
  ASSUME Inv, Shown, Shown', NEW o, NEW p, NEW who \in Creator, create(o, p, who)
  PROVE  parent' # parent /\ NewOwner(o, who) \in Player \cup {o} /\ Abstract!create(o, p, NewOwner(o, who))
<1>1. /\ Hierarchy(parent, propdefs) /\ Arrays(parent, propdefs, propval)
      /\ owner \in [DOMAIN parent -> Owner]
  BY InvDB
<1>2. PICK w : w = NewOwner(o, who)
  OBVIOUS
<1>3. w \in Player \cup {o}
  BY <1>2, PropertiesAssumption DEF NewOwner
<1>4. /\ o \in Obj /\ o \notin DOMAIN parent /\ p \in DOMAIN parent \cup {NOTHING}
      /\ owner' = With(owner, o, w) /\ parent' = With(parent, o, p)
      /\ propdefs' = With(propdefs, o, <<>>)
  BY <1>2 DEF create, Valid
<1>5. /\ Added(parent, propdefs, propval, o, p, parent', propdefs', propval')
      /\ p # NOTHING => propval'[o] = InheritsAll(propval[p], w)
  BY <1>2, CreateAdds
<1>6. PICK par2, def2, val2 : par2 = parent' /\ def2 = propdefs' /\ val2 = propval'
  OBVIOUS
<1>7. /\ \A x \in DOMAIN parent : Lay(par2, def2, x) = Lay(parent, propdefs, x)
      /\ Lay(par2, def2, o) = Lay(parent, propdefs, p)
  BY <1>1, <1>5, <1>6, AddedKeeps
<1>8. ByName(slot, parent, propdefs, propval)
  BY SlotsAre DEF Shown
<1>9. PICK s2 : s2 = slot' /\ ByName(s2, par2, def2, val2)
  BY <1>6, SlotsAre DEF Shown
<1>10. DOMAIN par2 = DOMAIN parent \cup {o} /\ \A x \in DOMAIN parent : val2[x] = propval[x] /\ def2[x] = propdefs[x]
  BY <1>5, <1>6 DEF Added
<1>11. ASSUME NEW x \in DOMAIN parent PROVE s2[x] = slot[x]
  <2>1. slot[x] = Spread(Lay(parent, propdefs, x), propval[x])
    BY <1>8 DEF ByName
  <2>2. x \in DOMAIN par2
    BY <1>10
  <2>3. s2[x] = Spread(Lay(par2, def2, x), val2[x])
    BY ONLY <1>9, <2>2 DEF ByName
  <2>4. Lay(par2, def2, x) = Lay(parent, propdefs, x) /\ val2[x] = propval[x]
    BY <1>7, <1>10
  <2>. QED BY ONLY <2>1, <2>3, <2>4
<1>12. slot' = With(slot, o, s2[o])
  <2>1. s2 = [d \in DOMAIN parent \cup {o} |-> s2[d]] /\ DOMAIN slot = DOMAIN parent
    BY <1>8, <1>9, <1>10 DEF ByName
  <2>. QED BY <1>9, <1>11, <2>1 DEF With
<1>13. p = NOTHING => s2[o] = [n \in {} |-> Clear]
  <2>. SUFFICES ASSUME p = NOTHING PROVE s2[o] = [n \in {} |-> Clear]
    OBVIOUS
  <2>1. Lay(parent, propdefs, NOTHING) = <<>>
    BY <1>1, LayIs, HierarchyTyped DEF Hierarchy, Typed
  <2>2. ToSet(<<>>) = {}
    BY DEF ToSet
  <2>3. s2[o] = [n \in {} |-> s2[o][n]]
    BY <1>7, <1>9, <1>10, <2>1, <2>2 DEF ByName
  <2>. QED BY <2>3
<1>14. p # NOTHING => s2[o] = InheritsAll(slot[p], w)
  <2>. SUFFICES ASSUME p # NOTHING
                PROVE  s2[o] = InheritsAll(slot[p], w)
    OBVIOUS
  <2>1. p \in DOMAIN parent
    BY <1>4
  <2>2. PICK names \in Seq(Name), u \in Seq(Pval) :
          names = Lay(parent, propdefs, p) /\ u = propval[p] /\ Len(u) = Len(names)
    BY <1>1, <2>1, LayIs, HierarchyTyped DEF Hierarchy, Typed, Arrays, Width
  <2>3. s2[o] = Spread(names, InheritsAll(u, w))
    <3>1. val2[o] = InheritsAll(u, w) /\ Lay(par2, def2, o) = names /\ o \in DOMAIN par2
      BY <1>5, <1>6, <1>7, <1>10, <2>2
    <3>2. s2[o] = Spread(Lay(par2, def2, o), val2[o])
      BY ONLY <1>9, <3>1 DEF ByName
    <3>. QED BY ONLY <3>1, <3>2
  <2>4. slot[p] = Spread(names, u)
    BY <1>8, <2>1, <2>2 DEF ByName
  <2>5. Spread(names, InheritsAll(u, w)) = InheritsAll(Spread(names, u), w)
    BY <2>2, InheritsAllShown
  <2>. QED BY ONLY <2>3, <2>4, <2>5
<1>15. [x \in Valid |-> ToSet(propdefs[x])]' = With([x \in Valid |-> ToSet(propdefs[x])], o, {})
  <2>1. ToSet(<<>>) = {}
    BY DEF ToSet
  <2>2. propdefs'[o] = <<>> /\ DOMAIN parent' = DOMAIN parent \cup {o}
        /\ \A x \in DOMAIN parent : propdefs'[x] = propdefs[x]
    BY <1>5 DEF Added
  <2>3. PICK D : D = [x \in Valid |-> ToSet(propdefs[x])]
    OBVIOUS
  <2>4. [x \in Valid |-> ToSet(propdefs[x])]' = [x \in DOMAIN parent \cup {o} |-> ToSet(propdefs'[x])]
    BY <2>2 DEF Valid
  <2>5. /\ DOMAIN D = DOMAIN parent
        /\ \A x \in DOMAIN parent \cup {o} : ToSet(propdefs'[x]) = IF x = o THEN {} ELSE D[x]
    BY <1>4, <2>1, <2>2, <2>3 DEF Valid
  <2>6. With(D, o, {}) = [x \in DOMAIN parent \cup {o} |-> IF x = o THEN {} ELSE D[x]]
    BY <2>5 DEF With
  <2>7. [x \in DOMAIN parent \cup {o} |-> ToSet(propdefs'[x])]
          = [x \in DOMAIN parent \cup {o} |-> IF x = o THEN {} ELSE D[x]]
    BY ONLY <2>5
  <2>. QED BY ONLY <2>3, <2>4, <2>6, <2>7
<1>16. Abstract!create(o, p, w)
  <2>1. Valid = Abstract!Valid
    BY DEF Abstract!Valid, Valid
  <2>2. o \in Obj \ Valid /\ p \in Valid \cup {NOTHING}
    BY <1>4 DEF Valid
  <2>. QED BY <1>4, <1>12, <1>13, <1>14, <1>15, <2>1, <2>2, AbsNothing, AbsWith
           DEF Abstract!create, Abstract!NoSlots, InheritsAll
<1>17. parent' # parent
  BY <1>4, <1>6, <1>10
<1>. QED BY <1>2, <1>3, <1>16, <1>17

\* Another owner, other permissions, or another value.
LEMMA ResetShown ==
  ASSUME Inv, Shown, Shown', NEW o \in DOMAIN parent, NEW k, NEW e,
         Reset(parent, propdefs, propval, o, k, e, propval'),
         parent' = parent, owner' = owner, propdefs' = propdefs
  PROVE  Abstract!assign
<1>1. Hierarchy(parent, propdefs) /\ Arrays(parent, propdefs, propval)
  BY InvDB
<1>2. PICK val2 : val2 = propval'
  OBVIOUS
<1>3. SlotsSet(parent, propdefs, propval, o, Lay(parent, propdefs, o)[k], e, val2)
  BY <1>1, <1>2, ResetSlots
<1>4. PICK n : n = Lay(parent, propdefs, o)[k]
  OBVIOUS
<1>5. SlotsSet(parent, propdefs, propval, o, n, e, propval')
  BY <1>2, <1>3, <1>4
<1>. QED BY <1>5, AssignShown

\* set_property_info() without a new name.
LEMMA InfoShown ==
  ASSUME Inv, Shown, Shown', NEW o, NEW n, NEW info \in NewInfo, set_prop_info(o, n, info)
  PROVE  Abstract!assign
<1>1. o \in DOMAIN parent /\ Place(DB, o, n) # 0 /\ Becomes(SetInfo(DB, o, n, info)) /\ owner' = owner
  BY DEF set_prop_info, Valid
<1>2. /\ DB = State(parent, propdefs, propval)
      /\ Hierarchy(parent, propdefs) /\ Arrays(parent, propdefs, propval)
  BY InvDB
<1>3. info.owner \in Player /\ info.chown \in BOOLEAN
  BY PropertiesAssumption
<1>4. Informed(DB, SetInfo(DB, o, n, info), parent, propdefs, propval, o, n)
  BY <1>1, <1>2, <1>3, InfoKeeps
<1>5. PICK e, val2 : /\ SetInfo(DB, o, n, info) = State(parent, propdefs, val2)
                     /\ Reset(parent, propdefs, propval, o, Place(DB, o, n), e, val2)
  BY <1>4 DEF Informed
<1>6. parent' = parent /\ propdefs' = propdefs /\ propval' = val2
  BY <1>1, <1>5 DEF Becomes, State
<1>7. PICK k : k = Place(DB, o, n)
  OBVIOUS
<1>8. Reset(parent, propdefs, propval, o, k, e, propval')
  BY <1>5, <1>6, <1>7
<1>. QED BY <1>1, <1>6, <1>8, ResetShown

\* OP_PUT_PROP and clear_property().
LEMMA PutShown ==
  ASSUME Inv, Shown, Shown', NEW o, NEW n,
         \/ \E v \in Value : put_prop(o, n, v)
         \/ clear_property(o, n)
  PROVE  Abstract!assign
<1>1. PICK k : k = Place(DB, o, n)
  OBVIOUS
<1>2. /\ DB = State(parent, propdefs, propval)
      /\ Hierarchy(parent, propdefs) /\ Arrays(parent, propdefs, propval)
  BY InvDB
<1>3. PICK v \in Value \cup {Clear} :
        /\ o \in DOMAIN parent /\ k # 0 /\ (v = Clear => DefinedAt(DB, o, n) = 0)
        /\ propval' = [propval EXCEPT ![o][k].var = v]
        /\ parent' = parent /\ owner' = owner /\ propdefs' = propdefs
  BY <1>1, PropertiesAssumption DEF put_prop, clear_property, Valid
<1>4. PICK e, val2 : /\ val2 = [propval EXCEPT ![o][k].var = v]
                     /\ Reset(parent, propdefs, propval, o, k, e, val2)
  BY <1>1, <1>2, <1>3, ValueKeeps
<1>5. Reset(parent, propdefs, propval, o, k, e, propval')
  BY <1>3, <1>4
<1>. QED BY <1>3, <1>5, ResetShown

\* The first object.
LEMMA InitShown == Init /\ Shown => Abstract!Init
<1>. SUFFICES ASSUME Init, Shown PROVE Abstract!Init
  OBVIOUS
<1>1. PICK root \in Obj, who \in Creator :
        /\ parent = [x \in {root} |-> NOTHING]
        /\ owner = [x \in {root} |-> NewOwner(root, who)]
        /\ propdefs = [x \in {root} |-> <<>>]
        /\ propval = [x \in {root} |-> <<>>]
  BY DEF Init
<1>2. Inv
  BY InitHolds
<1>3. Hierarchy(parent, propdefs)
  BY <1>2, InvDB
<1>4. PICK w : w = NewOwner(root, who)
  OBVIOUS
<1>5. w \in Player \cup {root}
  BY <1>4, PropertiesAssumption DEF NewOwner
<1>6. DOMAIN parent = {root} /\ parent[root] = NOTHING /\ propdefs[root] = <<>>
  BY <1>1
<1>7. Lay(parent, propdefs, root) = <<>>
  <2>1. Lay(parent, propdefs, NOTHING) = <<>>
        /\ Lay(parent, propdefs, root) = propdefs[root] \o Lay(parent, propdefs, parent[root])
    BY <1>3, <1>6, LayIs, HierarchyTyped DEF Hierarchy, Typed
  <2>2. <<>> \o <<>> = <<>>
    OBVIOUS
  <2>. QED BY <1>6, <2>1, <2>2
<1>8. ToSet(<<>>) = {}
  BY DEF ToSet
<1>9. slot = [d \in {root} |-> [n \in {} |-> Clear]]
  <2>1. ByName(slot, parent, propdefs, propval)
    BY SlotsAre DEF Shown
  <2>2. slot = [d \in {root} |-> slot[d]] /\ slot[root] = [n \in {} |-> slot[root][n]]
    BY <1>6, <1>7, <1>8, <2>1 DEF ByName
  <2>3. slot[root] = [n \in {} |-> Clear]
    BY <2>2
  <2>. QED BY ONLY <2>2, <2>3
<1>10. [x \in Valid |-> ToSet(propdefs[x])] = [d \in {root} |-> {}]
  BY <1>6, <1>8 DEF Valid
<1>. QED BY <1>1, <1>4, <1>5, <1>9, <1>10, AbsNothing DEF Abstract!Init, Abstract!NoSlots

\* Every step by name.
LEMMA NextShown == Inv /\ Shown /\ Shown' /\ [Next]_vars => [Abstract!Next]_(Abstract!vars)
<1>. SUFFICES ASSUME Inv, Shown, Shown', [Next]_vars PROVE Abstract!Next
  OBVIOUS
<1>0. Abstract!Valid = DOMAIN parent /\ Abstract!NOTHING = NOTHING
  BY AbsNothing DEF Abstract!Valid
<1>1. CASE UNCHANGED vars
  <2>1. slot' = slot
    BY <1>1 DEF Shown, vars
  <2>2. Abstract!fail
    BY <1>1, <2>1 DEF Abstract!fail, Abstract!vars, vars, Valid
  <2>. QED BY <2>2 DEF Abstract!Next
<1>2. ASSUME NEW o \in Obj, NEW p \in Obj \cup {NOTHING}, chparent(o, p) PROVE Abstract!Next
  <2>1. Abstract!fail \/ (parent' # parent /\ Abstract!chparent(o, p))
    BY <1>2, ChparentShown
  <2>2. o \in DOMAIN parent /\ p \in DOMAIN parent \cup {NOTHING}
    BY <1>2 DEF chparent, Valid
  <2>. QED BY <1>0, <2>1, <2>2 DEF Abstract!Next
<1>3. ASSUME NEW o \in Obj, NEW p \in Obj \cup {NOTHING}, NEW who \in Creator, create(o, p, who)
      PROVE  Abstract!Next
  <2>1. parent' # parent /\ NewOwner(o, who) \in Player \cup {o} /\ Abstract!create(o, p, NewOwner(o, who))
    BY <1>3, CreateShown
  <2>2. o \in Obj \ DOMAIN parent /\ p \in DOMAIN parent \cup {NOTHING}
    BY <1>3 DEF create, Valid
  <2>. QED BY <1>0, <2>1, <2>2 DEF Abstract!Next
<1>4. ASSUME NEW o \in Obj, recycle(o) PROVE Abstract!Next
  <2>1. parent' # parent /\ Abstract!recycle(o)
    BY <1>4, RecycleShown
  <2>2. o \in DOMAIN parent
    BY <1>4 DEF recycle, Valid
  <2>. QED BY <1>0, <2>1, <2>2 DEF Abstract!Next
<1>5. ASSUME NEW o \in Obj, NEW n \in Name, NEW v \in Value, NEW info \in Info,
             add_property(o, n, [var |-> v, owner |-> info.owner, chown |-> info.chown])
      PROVE  Abstract!Next
  <2>1. PICK pval : pval = [var |-> v, owner |-> info.owner, chown |-> info.chown]
    OBVIOUS
  <2>2. info.owner \in Player /\ info.chown \in BOOLEAN
    BY PropertiesAssumption
  <2>3. pval \in Pval /\ pval.var # Clear
    BY <2>1, <2>2, PropertiesAssumption DEF Pval
  <2>4. add_property(o, n, pval)
    BY <1>5, <2>1
  <2>5. /\ [x \in Valid |-> ToSet(propdefs[x])]' # [x \in Valid |-> ToSet(propdefs[x])]
        /\ Abstract!add_property(o, n)
    BY <2>3, <2>4, AddShown
  <2>6. o \in DOMAIN parent
    BY <2>4 DEF add_property, Valid
  <2>. QED BY <1>0, <2>5, <2>6 DEF Abstract!Next
<1>6. ASSUME NEW o \in Obj, NEW n \in Name, delete_property(o, n) PROVE Abstract!Next
  <2>1. /\ [x \in Valid |-> ToSet(propdefs[x])]' # [x \in Valid |-> ToSet(propdefs[x])]
        /\ Abstract!delete_property(o, n)
    BY <1>6, DeleteShown
  <2>2. o \in DOMAIN parent
    BY <1>6 DEF delete_property, Valid
  <2>. QED BY <1>0, <2>1, <2>2 DEF Abstract!Next
<1>7. ASSUME NEW o \in Obj, NEW n \in Name, NEW info \in NewInfo, set_prop_info(o, n, info) PROVE Abstract!Next
  <2>1. Abstract!assign
    BY <1>7, InfoShown
  <2>. QED BY <2>1 DEF Abstract!Next
<1>8. ASSUME NEW o \in Obj, NEW n \in Name, NEW info \in NewInfo, NEW new \in Name,
             rename_prop(o, n, new, info)
      PROVE  Abstract!Next
  <2>1. /\ [x \in Valid |-> ToSet(propdefs[x])]' # [x \in Valid |-> ToSet(propdefs[x])]
        /\ Abstract!rename(o, n, new)
    BY <1>8, RenameShown
  <2>2. o \in DOMAIN parent
    BY <1>8, Zenon DEF rename_prop, Valid
  <2>. QED BY <1>0, <2>1, <2>2 DEF Abstract!Next
<1>9. ASSUME NEW o \in Obj, NEW n \in Name,
             (\E v \in Value : put_prop(o, n, v)) \/ clear_property(o, n)
      PROVE  Abstract!Next
  <2>1. Abstract!assign
    BY <1>9, PutShown
  <2>. QED BY <2>1 DEF Abstract!Next
<1>. QED BY <1>1, <1>2, <1>3, <1>4, <1>5, <1>6, <1>7, <1>8, <1>9 DEF Next

-----------------------------------------------------------------------------
(* The theorems                                                            *)

\* Every array has exactly one value for each property that its object defines
\* or inherits, after any sequence of the built-in functions that move values
\* from one place to another.
THEOREM ArraysStayFit == Spec => [](TypeOK /\ ArraysFit)
<1>1. Inv => TypeOK /\ ArraysFit
  <2>. SUFFICES ASSUME Inv PROVE TypeOK /\ ArraysFit
    OBVIOUS
  <2>1. /\ DB = State(parent, propdefs, propval)
        /\ Hierarchy(parent, propdefs) /\ Arrays(parent, propdefs, propval)
        /\ owner \in [DOMAIN parent -> Owner]
    BY InvDB
  <2>2. TypeOK
    BY <2>1 DEF TypeOK, Valid, Hierarchy, Arrays, Ranked, Owner
  <2>3. DB.parent = parent /\ DB.propdefs = propdefs
    BY DEF DB
  <2>4. \A o : Layout(DB, o) = Lay(parent, propdefs, o)
    BY <2>3, LayoutIs
  <2>. QED BY <2>1, <2>2, <2>4 DEF ArraysFit, dbpriv_count_properties, Arrays, Width, Valid
<1>. QED BY <1>1, InvHolds, PTL

\* The loop of bf_recycle() ends: no child refuses its grandparent.
THEOREM RecyclingEnds == Spec => []RecycleEnds
<1>1. Inv => RecycleEnds
  <2>. SUFFICES ASSUME Inv, NEW o \in DOMAIN parent, NEW c \in DOMAIN parent, parent[c] = o
                PROVE  dbpriv_check_properties_for_chparent(DB, c, parent[o])
    BY DEF RecycleEnds, Children, Valid
  <2>1. DB = State(parent, propdefs, propval) /\ Hierarchy(parent, propdefs)
    BY InvDB
  <2>2. PICK height, top : Ranked(parent, height, top)
    BY <2>1 DEF Hierarchy
  <2>3. Typed(parent, propdefs) /\ Apart(parent, propdefs)
    BY <2>1, HierarchyTyped DEF Hierarchy
  <2>4. Fits(parent, propdefs, c, parent[o])
    BY <2>2, <2>3, GrandparentFits DEF Fits
  <2>. QED BY <2>1, <2>4, CheckIs
<1>. QED BY <1>1, InvHolds, PTL

\* The search for a value that is not clear ends at an object that has the
\* property.
THEOREM ValuesFound == Spec => []ValueFound
<1>1. Inv => ValueFound
  <2>. SUFFICES ASSUME Inv, NEW o \in DOMAIN parent, NEW n \in ToSet(Layout(DB, o)), NEW x, x = ValueOf(DB, o, n)
                PROVE  x # NOTHING /\ n \in ToSet(Layout(DB, x))
    BY DEF ValueFound, Valid
  <2>1. /\ DB = State(parent, propdefs, propval)
        /\ Hierarchy(parent, propdefs) /\ Arrays(parent, propdefs, propval)
    BY InvDB
  <2>2. PICK height, top : Ranked(parent, height, top)
    BY <2>1 DEF Hierarchy
  <2>3. PICK up : /\ Finds(up, parent, propdefs, propval)
                  /\ \A y, m : ValueOf(DB, y, m) = up[y][Place(DB, y, m)]
    BY <2>1, <2>2, ValueOfIs
  <2>4. PICK k : k = Place(DB, o, n)
    OBVIOUS
  <2>5. DB.parent = parent /\ DB.propdefs = propdefs
    BY DEF DB
  <2>6. \A y : Layout(DB, y) = Lay(parent, propdefs, y)
    BY <2>5, LayoutIs
  <2>7. k \in 1..Width(parent, propdefs, o) /\ Lay(parent, propdefs, o)[k] = n
    BY <2>1, <2>4, <2>6, PlaceIs
  <2>8. Has(parent, propdefs, o, k, up[o][k])
    BY <2>1, <2>3, <2>7, SearchEnds
  <2>9. x = up[o][k]
    BY <2>3, <2>4
  <2>10. x \in DOMAIN parent /\ n \in ToSet(Lay(parent, propdefs, x))
    BY <2>7, <2>8, <2>9 DEF Has
  <2>11. NOTHING \notin DOMAIN parent
    BY <2>2 DEF Ranked
  <2>. QED BY <2>6, <2>10, <2>11
<1>. QED BY <1>1, InvHolds, PTL

\* The arrays without names implement one value for each name: whatever the
\* functions of db_properties.c move around, each value stays with its property.
THEOREM Refinement == NamedSpec => RefinesSpec
<1>1. Shown /\ Init => Abstract!Init
  BY InitShown
<1>. QED BY <1>1, NamedShown, NextShown, InvHolds, PTL DEF NamedSpec, RefinesSpec, Spec, Abstract!Spec
=============================================================================
