------------------------------ MODULE Language ------------------------------
(***************************************************************************)
(* What a MOO program means: a reference for the compiler and the          *)
(* interpreter, written over the syntax tree (ast.h) without instructions, *)
(* labels or a stack.                                                      *)
(*                                                                         *)
(* Expressions and statements are records with the field "kind" and the    *)
(* fields of ast.h; statement lists, arguments and arms are sequences, and *)
(* a missing part is an empty sequence.  The outside world is one built-in *)
(* function, "ext", whose answers are given as a sequence, and a second,   *)
(* "apply", that calls the verb "v" and then ends like "ext".              *)
(*                                                                         *)
(* A meaning maps a record s to a record: the variables env, the           *)
(* properties prop, the log of what was called, the answers that are left, *)
(* the tasks forked, and how the evaluation ended: s.end is "val" (of      *)
(* value s.v), "raise" (the error s.v), "return", "break" or "continue" (to*)
(* the loop s.v, -1 for the innermost), "abort", or "starved" when the     *)
(* answers have run out.                                                   *)
(***************************************************************************)
EXTENDS Values, FiniteSets

CONSTANTS
  NumVars,          \* variables in each program: 0 holds the arguments
  max_stack_size    \* the limit of nested calls

Slots == 0..(NumVars - 1)

NewEnv(args) == [i \in Slots |-> IF i = 0 THEN args ELSE NONE]

Val(s, v)   == [s EXCEPT !.end = "val", !.v = v]
End(s, how, v) == [s EXCEPT !.end = how, !.v = v]

\* An operation that fails raises its error in a verb with the d bit, and has
\* the error as its value in one without.
Give(s, r) == IF r[1] # "FAIL" THEN Val(s, r)
              ELSE IF s.debug THEN End(s, "raise", Err(r[2]))
              ELSE Val(s, Err(r[2]))

Then(s, F(_)) == IF s.end = "val" THEN F(s) ELSE s

Set(s, id, v) == [s EXCEPT !.env[id] = v]

\* A call of ext or the return of a verb to apply: the call is logged and the
\* next answer taken; one that answers no call is none.
Ask(s, what) ==
  IF s.answers = <<>> THEN End([s EXCEPT !.log = Append(@, what)], "starved", zero)
  ELSE LET t == [s EXCEPT !.log = Append(@, what), !.answers = Tail(@)]
           a == Head(s.answers)
       IN CASE a = "zero" -> Val(t, zero)
            [] a = "one"  -> Val(t, Int0(1))
            [] a = "error" -> Give(t, Fail("E_INVARG"))
            [] a = "kill" -> End(t, "abort", zero)
            [] OTHER -> End(t, "starved", zero)

\* The tuple that a handler is given; its message, value and traceback are
\* left out.
Tuple(code) == List(<<code>>)

\* A list of codes that is not a list stands for ANY.
Matches(code, codes) == ~IsList(codes) \/ ismember(code, codes) # 0

\* A jump that ends at a loop with this variable.
Reaches(s, id) == s.v \in {Int0(-1), Int0(id)}

RECURSIVE Mean(_, _, _), Loop(_, _, _), Evals(_, _), Args(_, _, _), Codes(_, _)
Eval(e, s)     == Mean("EXPR", e, s)
Exec(stmts, s) == Mean("STMT", stmts, s)

\* The values of several expressions, from the left.
Evals(es, s) ==
  IF es = <<>> THEN Val(s, List(<<>>))
  ELSE Then(Eval(Head(es), s), LAMBDA a :
         Then(Evals(Tail(es), a), LAMBDA b : Val(b, List(<<a.v>> \o b.v[2]))))

\* A list of arguments, some of them spliced; s.v is what there is so far.
Args(args, first, s) ==
  IF args = <<>> THEN s
  ELSE Then(Eval(Head(args).expr, s), LAMBDA a :
         LET splice == Head(args).splice
             r == IF first
                  THEN IF splice THEN CheckSplice(a.v) ELSE List(<<a.v>>)
                  ELSE IF splice THEN ListAppend(s.v, a.v) ELSE ListAddTail(s.v, a.v)
         IN Then(Give(a, r), LAMBDA b : Args(Tail(args), FALSE, b)))

ArgList(args, s) == Args(args, TRUE, Val(s, List(<<>>)))

CodeList(codes, s) == IF codes = <<>> THEN Val(s, zero) ELSE ArgList(codes, s)

\* call_verb2() and the run of the verb
Call(name, args, s) ==
  IF s.depth = max_stack_size THEN Give(s, Fail("E_MAXREC"))
  ELSE LET r == Exec(s.verbs[name].stmt,
                     [s EXCEPT !.env = NewEnv(args), !.depth = @ + 1,
                               !.debug = s.verbs[name].debug, !.end = "val"])
           t == [r EXCEPT !.env = s.env, !.depth = s.depth, !.debug = s.debug,
                          !.base = s.base]
       IN CASE r.end = "val" -> Val(t, zero)
            [] r.end = "return" -> Val(t, r.v)
            [] OTHER -> t

\* A verb that was called by a built-in function: the function is told what
\* the verb returned and may call it again; or it is told 0 if the verb did not
\* return, and then nobody cares how it ends or whom it calls.
Again(s) == s.answers # <<>> /\ Head(s.answers) = "again"
Told(s, what) == [s EXCEPT !.log = Append(@, what), !.answers = Tail(@)]

RECURSIVE Apply(_, _), Ignored(_)
Ignored(r) ==
  IF Again(r) THEN Ignored(Told(r, zero))
  ELSE LET t == Ask(r, zero) IN IF t.end = "starved" THEN t ELSE End(t, r.end, r.v)

Apply(args, s) ==
  LET r == Call("v", args, s) IN
  IF s.depth = max_stack_size \/ r.end = "starved" THEN r
  ELSE IF r.end # "val" THEN Ignored(r)
  ELSE IF Again(r) THEN Apply(List(<<>>), Told(r, r.v))
  ELSE Ask(r, r.v)

\* Scattering assignment: the optional variables on the left get the values
\* that the required ones leave, the rest variable what is left after that.
Scatter(items, list) ==
  LET n     == Len(items)
      Of(h) == {i \in 1..n : items[i].how = h}
      len   == Len(list[2])
      opt   == IF len - Cardinality(Of("REQUIRED")) < Cardinality(Of("OPTIONAL"))
               THEN len - Cardinality(Of("REQUIRED")) ELSE Cardinality(Of("OPTIONAL"))
      extra == len - Cardinality(Of("REQUIRED")) - opt
      got   == {i \in 1..n : \/ items[i].how # "OPTIONAL"
                             \/ Cardinality({j \in Of("OPTIONAL") : j <= i}) <= opt}
      size  == [i \in 1..n |-> IF i \notin got THEN 0
                               ELSE IF items[i].how = "REST" THEN extra ELSE 1]
      first == [i \in 1..n |-> 1 + FoldLeft(+, 0, SubSeq(size, 1, i - 1))]
      ok    == len >= Cardinality(Of("REQUIRED")) /\ (Of("REST") # {} \/ len <= n)
  IN [ok  |-> ok,
      got |-> got,
      val |-> [i \in IF ok THEN got ELSE {} |-> IF items[i].how = "REST"
                             THEN sublist(list, first[i], first[i] + extra - 1)
                             ELSE list[2][first[i]]]]

RECURSIVE Defaults(_, _, _), Bind(_, _, _)
Bind(items, val, s) ==
  IF DOMAIN val = {} THEN s
  ELSE LET i == CHOOSE i \in DOMAIN val : \A j \in DOMAIN val : i <= j
       IN Bind(items, [j \in DOMAIN val \ {i} |-> val[j]], Set(s, items[i].id, val[i]))

Defaults(items, missing, s) ==
  IF missing = {} THEN s
  ELSE LET i == CHOOSE i \in missing : \A j \in missing : i <= j IN
       IF items[i].default = <<>> THEN Defaults(items, missing \ {i}, s)
       ELSE Then(Eval(items[i].default[1], s), LAMBDA a :
              Defaults(items, missing \ {i}, Set(a, items[i].id, a.v)))

\* The places an indexed assignment goes through.  Load gives a list: the value
\* of the expression, then what Store needs to put another value there.
RECURSIVE Load(_, _), Store(_, _, _)
Load(e, s) ==
  CASE e.kind = "ID" -> Then(Eval(e, s), LAMBDA a : Val(a, List(<<a.v>>)))
    [] e.kind = "PROP" ->
         Then(Evals(<<e.lhs, e.rhs>>, s), LAMBDA a :
           Then(Give(a, GetProp(a.prop, a.v[2][1], a.v[2][2])), LAMBDA b :
             Val(b, List(<<b.v>> \o a.v[2]))))
    [] e.kind = "INDEX" ->
         Then(Load(e.lhs, s), LAMBDA a :
           Then(Eval(e.rhs, [a EXCEPT !.base = a.v[2][1]]), LAMBDA b :
             Then(Give(b, Ref(a.v[2][1], b.v)), LAMBDA c :
               Val([c EXCEPT !.base = s.base], List(<<c.v, b.v>> \o a.v[2])))))

\* s.v is the value to store.
Store(e, path, s) ==
  CASE e.kind = "ID" -> Set(s, e.id, s.v)
    [] e.kind = "PROP" ->
         LET r == GetProp(s.prop, path[1], path[2]) IN
         IF r[1] = "FAIL" THEN Give(s, r) ELSE [s EXCEPT !.prop[path[2][2]] = s.v]
    [] e.kind = "INDEX" ->
         Then(Give(s, IndexSet(path[2], path[1], s.v)), LAMBDA a :
           Store(e.lhs, SubSeq(path, 3, Len(path)), a))

Assign(e, rhs, s) ==
  CASE e.kind = "ID" -> Then(Eval(rhs, s), LAMBDA a : Set(a, e.id, a.v))
    [] e.kind = "PROP" ->
         Then(Evals(<<e.lhs, e.rhs, rhs>>, s), LAMBDA a :
           Store(e, a.v[2], Val(a, a.v[2][3])))
    [] e.kind = "SCATTER" ->
         Then(Eval(rhs, s), LAMBDA a :
           IF ~IsList(a.v) THEN Give(a, Fail("E_TYPE"))
           ELSE LET r == Scatter(e.items, a.v) IN
                IF ~r.ok THEN Give(a, Fail("E_ARGS"))
                ELSE Then(Defaults(e.items, DOMAIN e.items \ r.got, Bind(e.items, r.val, a)),
                          LAMBDA b : Val(b, a.v)))
    [] e.kind = "INDEX" ->
         Then(Load(e.lhs, s), LAMBDA a :
           Then(Eval(e.rhs, [a EXCEPT !.base = a.v[2][1]]), LAMBDA b :
             Then(Eval(rhs, [b EXCEPT !.base = s.base]), LAMBDA c :
               Then(Give(c, IndexSet(a.v[2][1], b.v, c.v)), LAMBDA d :
                 Then(Store(e.lhs, Tail(a.v[2]), d), LAMBDA f : Val(f, c.v))))))
    [] e.kind = "RANGE" ->
         Then(Load(e.base, s), LAMBDA a :
           Then(Evals(<<e.from, e.to>>, [a EXCEPT !.base = a.v[2][1]]), LAMBDA b :
             Then(Eval(rhs, [b EXCEPT !.base = s.base]), LAMBDA c :
               Then(Give(c, RangeSet(a.v[2][1], b.v[2][1], b.v[2][2], c.v)), LAMBDA d :
                 Then(Store(e.base, Tail(a.v[2]), d), LAMBDA f : Val(f, c.v))))))

ExprMeans(e, s) ==
  CASE e.kind = "VAR" -> Val(s, e.var)
    [] e.kind = "ID" -> Give(s, IF s.env[e.id] = NONE THEN Fail("E_VARNF") ELSE s.env[e.id])
    [] e.kind = "LENGTH" -> Give(s, Length(s.base))
    [] e.kind = "LIST" -> ArgList(e.args, s)
    [] e.kind = "NOT" -> Then(Eval(e.expr, s), LAMBDA a : Val(a, Bool(~is_true(a.v))))
    [] e.kind \in {"AND", "OR"} ->
         Then(Eval(e.lhs, s), LAMBDA a :
           IF is_true(a.v) <=> (e.kind = "AND") THEN Eval(e.rhs, a) ELSE a)
    [] e.kind \in {"EQ", "IN", "PLUS"} ->
         Then(Evals(<<e.lhs, e.rhs>>, s), LAMBDA a :
           Give(a, Binary(e.kind, a.v[2][1], a.v[2][2])))
    [] e.kind = "PROP" ->
         Then(Evals(<<e.lhs, e.rhs>>, s), LAMBDA a :
           Give(a, GetProp(a.prop, a.v[2][1], a.v[2][2])))
    [] e.kind = "INDEX" ->
         Then(Eval(e.lhs, s), LAMBDA a :
           Then(Eval(e.rhs, [a EXCEPT !.base = a.v]), LAMBDA b :
             Give([b EXCEPT !.base = s.base], Ref(a.v, b.v))))
    [] e.kind = "RANGE" ->
         Then(Eval(e.base, s), LAMBDA a :
           Then(Evals(<<e.from, e.to>>, [a EXCEPT !.base = a.v]), LAMBDA b :
             Give([b EXCEPT !.base = s.base], RangeRef(a.v, b.v[2][1], b.v[2][2]))))
    [] e.kind = "COND" ->
         Then(Eval(e.condition, s), LAMBDA a :
           Eval(IF is_true(a.v) THEN e.consequent ELSE e.alternate, a))
    [] e.kind = "CALL" ->
         Then(ArgList(e.args, s), LAMBDA a :
           IF ~IsList(a.v) THEN Give(a, Fail("E_TYPE"))
           ELSE IF e.func = "ext" THEN Ask(a, a.v) ELSE Apply(a.v, a))
    [] e.kind = "VERB" ->
         Then(Evals(<<e.obj, e.verb>>, s), LAMBDA a :
           Then(ArgList(e.args, a), LAMBDA b :
             LET fault == VerbFault(a.v[2][1], a.v[2][2], b.v, DOMAIN b.verbs) IN
             IF fault # "E_NONE" THEN Give(b, Fail(fault)) ELSE Call(a.v[2][2][2], b.v, b)))
    [] e.kind = "ASGN" -> Assign(e.lhs, e.rhs, s)
    [] e.kind = "CATCH" ->
         Then(CodeList(e.codes, s), LAMBDA a :
           LET r == Eval(e.expr, a)
               t == [r EXCEPT !.base = s.base]
           IN IF r.end # "raise" \/ ~Matches(r.v, a.v) THEN r
              ELSE IF e.except = <<>> THEN Val(t, r.v) ELSE Eval(e.except[1], Val(t, r.v)))

\* The codes of the arms of a try statement.
Codes(arms, s) ==
  IF arms = <<>> THEN Val(s, List(<<>>))
  ELSE Then(CodeList(Head(arms).codes, s), LAMBDA a :
         Then(Codes(Tail(arms), a), LAMBDA b : Val(b, List(<<a.v>> \o b.v[2]))))

\* A loop: Round gives the state at the top of the body, or one that is not
\* "val" after the last round.
Loop(stmt, rounds, s) ==
  LET Round(a) ==
        LET b == Exec(stmt.body, a) IN
        IF b.end = "break" /\ Reaches(b, stmt.id) THEN Val(b, zero)
        ELSE IF b.end \notin {"val", "continue"} \/ (b.end = "continue" /\ ~Reaches(b, stmt.id))
        THEN b
        ELSE IF a.fuel = 0 THEN End(b, "starved", zero)
        ELSE Loop(stmt, IF rounds = <<>> THEN <<>> ELSE Tail(rounds),
                  [Val(b, zero) EXCEPT !.fuel = @ - 1])
  IN IF stmt.kind = "WHILE"
     THEN Then(Eval(stmt.condition, s), LAMBDA a :
            LET b == IF stmt.id = -1 THEN a ELSE Set(a, stmt.id, a.v)
            IN IF is_true(a.v) THEN Round(b) ELSE b)
     ELSE IF rounds = <<>> THEN s ELSE Round(Set(s, stmt.id, Head(rounds)))

\* A statement that fails without a value: nothing but the error is lost.
Statement(s, e) == IF s.debug THEN End(s, "raise", Err(e)) ELSE s

Step(stmt, s) ==
  CASE stmt.kind = "EXPR" -> Eval(stmt.expr, s)
    [] stmt.kind = "RETURN" -> Then(Eval(stmt.expr, s), LAMBDA a : End(a, "return", a.v))
    [] stmt.kind = "RETURN0" -> End(s, "return", zero)
    [] stmt.kind = "BREAK" -> End(s, "break", Int0(stmt.exit))
    [] stmt.kind = "CONTINUE" -> End(s, "continue", Int0(stmt.exit))
    [] stmt.kind = "COND" ->
         IF stmt.arms = <<>> THEN Exec(stmt.otherwise, s)
         ELSE Then(Eval(Head(stmt.arms).condition, s), LAMBDA a :
                IF is_true(a.v) THEN Exec(Head(stmt.arms).stmt, a)
                ELSE Exec(<<[stmt EXCEPT !.arms = Tail(@)]>>, a))
    [] stmt.kind = "WHILE" -> Loop(stmt, <<>>, s)
    [] stmt.kind = "FOR_LIST" ->
         Then(Eval(stmt.expr, s), LAMBDA a :
           IF IsList(a.v) THEN Loop(stmt, a.v[2], a) ELSE Statement(a, "E_TYPE"))
    [] stmt.kind = "FOR_RANGE" ->
         Then(Evals(<<stmt.from, stmt.to>>, s), LAMBDA a :
           LET from == a.v[2][1]
               to   == a.v[2][2]
           IN IF from[1] # to[1] \/ from[1] \notin {"INT", "OBJ"}
              THEN Statement(a, "E_TYPE")
              ELSE Loop(stmt, [i \in 1..(to[2] - from[2] + 1) |->
                                 <<from[1], from[2] + i - 1>>], a))
    [] stmt.kind = "FORK" ->
         Then(Eval(stmt.time, s), LAMBDA a :
           IF ~IsInt(a.v) THEN Statement(a, "E_TYPE")
           ELSE IF a.v[2] < 0 THEN Statement(a, "E_INVARG")
           ELSE IF a.answers = <<>> THEN Ask(a, Str("fork"))
           ELSE IF Head(a.answers) = "quota" THEN Statement(Told(a, Str("fork")), "E_QUOTA")
           ELSE LET id == Int0(a.tasks + 1)
                    b  == IF stmt.id = -1 THEN a ELSE Set(a, stmt.id, id)
                IN [Told(b, Str("fork")) EXCEPT
                      !.tasks = @ + 1,
                      !.forked = Append(@, [stmt |-> stmt.body, env |-> b.env,
                                            debug |-> b.debug])])
    [] stmt.kind = "TRY_FINALLY" ->
         LET b == Exec(stmt.body, s)
             h == Exec(stmt.handler, Val(b, zero))
         IN IF b.end \in {"abort", "starved"} THEN b
            ELSE Then(h, LAMBDA a : End(a, b.end, b.v))
    [] stmt.kind = "TRY_EXCEPT" ->
         Then(Codes(stmt.excepts, s), LAMBDA a :
           LET b  == Exec(stmt.body, a)
               at == SelectInSeq(a.v[2], LAMBDA codes : Matches(b.v, codes))
           IN IF b.end # "raise" \/ at = 0 THEN b
              ELSE LET arm == stmt.excepts[at]
                       t   == Val(b, zero)
                   IN Exec(arm.stmt, IF arm.id = -1 THEN t
                                     ELSE Set(t, arm.id, Tuple(b.v))))

StmtsMean(stmts, s) ==
  IF stmts = <<>> THEN s
  ELSE Then(Step(Head(stmts), s), LAMBDA a : Exec(Tail(stmts), a))

Mean(what, x, s) == IF what = "EXPR" THEN ExprMeans(x, s) ELSE StmtsMean(x, s)

\* A task from its start; then the tasks it has forked, in order.
RECURSIVE Tasks(_, _)
Start(t, s) ==
  [Exec(t.stmt, [s EXCEPT !.env = t.env, !.debug = t.debug, !.depth = 1, !.end = "val"])
     EXCEPT !.base = zero]
Tasks(ended, s) ==
  LET e == Append(ended, [end |-> IF s.end = "val" THEN "return" ELSE s.end,
                          v   |-> IF s.end = "val" THEN zero ELSE s.v])
  IN IF s.forked = <<>> \/ s.end = "starved" THEN [ended |-> e, log |-> s.log]
     ELSE Tasks(e, Start(Head(s.forked), [s EXCEPT !.forked = Tail(@)]))

\* The meaning of the verbs when "main" is run with these answers: how each
\* task ends, and the log.
Meaning(verbs, prop, answers, fuel) ==
  Tasks(<<>>, Start([stmt |-> verbs["main"].stmt, env |-> NewEnv(List(<<>>)),
                     debug |-> verbs["main"].debug],
                    [env |-> NewEnv(List(<<>>)), prop |-> prop, log |-> <<>>,
                     answers |-> answers, tasks |-> 0, forked |-> <<>>, end |-> "val",
                     v |-> zero, base |-> zero, depth |-> 1, debug |-> TRUE,
                     verbs |-> verbs, fuel |-> fuel]))
=============================================================================
