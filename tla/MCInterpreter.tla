--------------------------- MODULE MCInterpreter ---------------------------
(***************************************************************************)
(* Programs for the interpreter: every statement around every statement    *)
(* around calls, returns and jumps, and programs for the expressions.      *)
(***************************************************************************)
EXTENDS Interpreter

Lit(v)      == [kind |-> "VAR", var |-> v]
Num(n)      == Lit(Int0(n))
Id(i)       == [kind |-> "ID", id |-> i]
Two(k, a, b) == [kind |-> k, lhs |-> a, rhs |-> b]
Arg(e)      == [splice |-> FALSE, expr |-> e]
At1(e)      == [splice |-> TRUE, expr |-> e]
ListOf(as)  == [kind |-> "LIST", args |-> as]
Func(f, as) == [kind |-> "CALL", func |-> f, args |-> as]
Ext(n)      == Func("ext", <<Arg(Num(n))>>)
Verb(name, as) == [kind |-> "VERB", obj |-> Lit(Obj(0)), verb |-> Lit(Str(name)), args |-> as]
Stmt(e)     == [kind |-> "EXPR", expr |-> e]
Ret(e)      == [kind |-> "RETURN", expr |-> e]
Exit(k, id) == [kind |-> k, exit |-> id]
Codes1(e)   == <<Arg(Lit(Err(e)))>>

Leaves == {<<Stmt(Ext(1))>>, <<Ret(Ext(2))>>, <<Stmt(Verb("v", <<>>))>>,
           <<Stmt(Func("apply", <<>>))>>, <<Exit("BREAK", -1)>>, <<Exit("CONTINUE", -1)>>,
           <<Exit("BREAK", 2)>>, <<Exit("CONTINUE", 2)>>}

Loops(b) ==
  {[kind |-> "WHILE", id |-> -1, condition |-> Ext(10), body |-> b],
   [kind |-> "WHILE", id |-> 2, condition |-> Ext(11), body |-> b],
   [kind |-> "FOR_LIST", id |-> 1, expr |-> ListOf(<<Arg(Num(1)), Arg(Num(2))>>), body |-> b],
   [kind |-> "FOR_RANGE", id |-> 2, from |-> Num(2), to |-> Num(3), body |-> b]}
Others(b) ==
  {[kind |-> "COND", arms |-> <<[condition |-> Ext(12), stmt |-> b],
                                [condition |-> Num(1), stmt |-> <<Stmt(Ext(13))>>]>>,
    otherwise |-> <<>>],
   [kind |-> "TRY_EXCEPT", body |-> b,
    excepts |-> <<[id |-> -1, codes |-> Codes1("E_RANGE"), stmt |-> <<>>],
                  [id |-> 3, codes |-> Codes1("E_INVARG"), stmt |-> <<Stmt(Func("ext", <<At1(Id(3))>>))>>]>>],
   [kind |-> "TRY_FINALLY", body |-> b, handler |-> <<Stmt(Ext(14))>>],
   [kind |-> "TRY_FINALLY", body |-> <<Stmt(Ext(15))>>, handler |-> b]}

\* An exit needs a loop around it, one with a name a loop of that name.
IsLoop(s, id) == s.kind \in {"WHILE", "FOR_LIST", "FOR_RANGE"} /\ (id = -1 \/ s.id = id)
Legal(leaf, outer, inner) ==
  Head(leaf).kind \in {"BREAK", "CONTINUE"}
    => IsLoop(outer, Head(leaf).exit) \/ IsLoop(inner, Head(leaf).exit)
Around(b) == Loops(b) \cup Others(b)
Nested ==
  UNION {{s \in UNION {Around(<<a>>) : a \in Around(l)} :
            \E a \in Around(l) : s \in Around(<<a>>) /\ Legal(l, s, a)} : l \in Leaves}

\* Expressions: x is variable 1, a list; y and z are 2 and 3.
X == Id(1)
Y == Id(2)
Z == Id(3)
Let(e, v)   == [kind |-> "ASGN", lhs |-> e, rhs |-> v]
Ix(e, i)    == Two("INDEX", e, i)
Rng(e, i, j) == [kind |-> "RANGE", base |-> e, from |-> i, to |-> j]
Len0        == [kind |-> "LENGTH"]
P           == Two("PROP", Lit(Obj(0)), Lit(Str("p")))
Catch(e, codes, ex) == [kind |-> "CATCH", expr |-> e, codes |-> codes, except |-> ex]
Item(how, id, d) == [how |-> how, id |-> id, default |-> d]
Scat(items) == [kind |-> "SCATTER", items |-> items]
Req(id) == Item("REQUIRED", id, <<>>)
Opt(id, d) == Item("OPTIONAL", id, d)
Rest(id) == Item("REST", id, <<>>)
Say(e) == Func("ext", <<Arg(e)>>)

Exprs ==
  {Func("ext", <<At1(X), Arg(Num(3)), At1(Ext(1))>>),
   ListOf(<<At1(Ext(1)), Arg(Num(1))>>),
   Ix(X, Two("PLUS", Ext(1), Len0)),
   Ix(Rng(X, Ext(1), Len0), Len0),
   Let(Ix(X, Ext(1)), Ext(2)),
   Let(Ix(Ix(X, Len0), Ext(1)), Num(7)),
   Let(Rng(X, Num(2), Ext(1)), ListOf(<<Arg(Num(7)), Arg(Num(8))>>)),
   Let(Y, Let(Ix(P, Len0), Ext(1))),
   Let(P, Ext(1)),
   Two("PROP", Lit(Obj(0)), Lit(Str("q"))),
   Two("PROP", Ext(1), Lit(Str("p"))),
   Let(Scat(<<Req(2), Opt(3, <<Ext(2)>>), Rest(1)>>), Rng(X, Num(1), Ext(1))),
   Let(Scat(<<Opt(2, <<>>), Req(3), Opt(1, <<Z>>)>>), Func("apply", <<At1(X)>>)),
   Let(Scat(<<Req(2), Rest(3), Opt(1, <<Num(4)>>)>>), ListOf(<<Arg(X), Arg(Ext(1))>>)),
   Let(Scat(<<Opt(2, <<Ext(1)>>), Opt(3, <<Ext(2)>>)>>), ListOf(<<Arg(Num(2))>>)),
   Ix(X, Catch(Two("PLUS", Len0, Ext(1)), Codes1("E_INVARG"), <<Len0>>)),
   Catch(Ix(X, Ext(1)), <<>>, <<>>),
   Catch(Ext(1), <<At1(Ext(2))>>, <<Ext(3)>>),
   [kind |-> "COND", condition |-> Ext(1), consequent |-> Y, alternate |-> Ext(2)],
   Two("AND", Two("OR", Ext(1), Ext(2)), [kind |-> "NOT", expr |-> Ext(3)]),
   Two("IN", Two("EQ", Ext(1), Num(1)), Two("PLUS", X, Num(1))),
   Verb("v", <<At1(X)>>), Verb("w", <<>>),
   [kind |-> "VERB", obj |-> Ext(1), verb |-> Lit(Str("v")), args |-> <<>>],
   [kind |-> "VERB", obj |-> Lit(Obj(1)), verb |-> Lit(Str("v")), args |-> <<>>]}

Start0 == Stmt(Let(X, ListOf(<<Arg(Num(1)), Arg(ListOf(<<Arg(Num(2))>>))>>)))
ExprBodies ==
  {<<Start0, Stmt(Lit(Str("doc"))), Stmt(e), Ret(ListOf(<<Arg(X), Arg(Y), Arg(Z), Arg(P)>>))>> : e \in Exprs}
  \cup {<<Start0, [kind |-> "TRY_EXCEPT", body |-> <<Ret(e)>>,
                   excepts |-> <<[id |-> 2, codes |-> <<>>, stmt |-> <<Ret(Y)>>]>>]>> : e \in Exprs}

Fork(id, time, b) == [kind |-> "FORK", id |-> id, time |-> time, body |-> b]
ForIn(id, e, b) == [kind |-> "FOR_LIST", id |-> id, expr |-> e, body |-> b]
ForTo(id, f, to, b) == [kind |-> "FOR_RANGE", id |-> id, from |-> f, to |-> to, body |-> b]
\* while y (1) endwhile
Forever == <<[kind |-> "WHILE", id |-> 2, condition |-> Num(1), body |-> <<>>]>>
StmtBodies ==
  {<<Fork(2, Num(0), <<Stmt(Say(Y)), Stmt(Ext(1)), Ret(Y)>>), Stmt(Say(Y))>>,
   <<Fork(-1, Ext(1), <<Stmt(Let(X, Verb("v", <<>>))), Fork(2, Num(0), <<Stmt(Say(X))>>)>>),
     Stmt(Let(X, Num(5)))>>,
   <<Fork(-1, Lit(Int0(-1)), <<>>), Stmt(Ext(1))>>,
   <<Fork(2, ListOf(<<>>), <<>>), [kind |-> "RETURN0"], Stmt(Ext(1))>>,
   <<ForIn(1, Ext(1), <<Stmt(Ext(2))>>), Stmt(Ext(3))>>,
   <<ForTo(2, Num(1), ListOf(<<>>), <<Stmt(Ext(2))>>), Stmt(Ext(3))>>,
   <<ForTo(2, Lit(Obj(2)), Lit(Obj(3)), <<Stmt(Say(Y))>>)>>,
   <<[kind |-> "WHILE", id |-> -1, condition |-> Num(1), body |-> <<>>]>>,
   Forever}

V == [stmt |-> <<Ret(Ext(5))>>, debug |-> TRUE]
W == [stmt |-> <<[kind |-> "TRY_FINALLY", body |-> <<Ret(Func("apply", <<>>))>>,
                  handler |-> <<Stmt(Verb("v", <<>>))>>]>>, debug |-> TRUE]
R == [stmt |-> <<Ret(Verb("v", <<>>))>>, debug |-> TRUE]
Text(s, d, v) == ("main" :> [stmt |-> s, debug |-> d]) @@ ("v" :> v)
MCTexts == {Text(<<s, Stmt(Ext(9))>>, TRUE, V) : s \in Nested}
           \cup {Text(s, d, V) : s \in ExprBodies \cup StmtBodies, d \in BOOLEAN}
           \cup {Text(s, d, v) : s \in {<<Stmt(Verb("v", <<>>))>>, <<Stmt(Func("apply", <<>>))>>},
                                 d \in BOOLEAN, v \in {[V EXCEPT !.debug = FALSE], W, R}}

\* For ErrorsAreReported: a finally block around a call.
FinallyTexts == {Text(<<[kind |-> "TRY_FINALLY", body |-> <<Ret(Ext(1))>>,
                         handler |-> <<Stmt(Ext(2))>>]>>, TRUE, V)}
=============================================================================
