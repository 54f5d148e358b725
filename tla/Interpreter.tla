---------------------------- MODULE Interpreter ----------------------------
(***************************************************************************)
(* The interpreter (execute.c): one task at a time, one instruction at a   *)
(* step, on code that the generator has compiled from the verbs in text.   *)
(*                                                                         *)
(* activ_stack holds the activations, the running one last, each with its  *)
(* place in the code, its stack of values and its variables.  An error, a  *)
(* return, a break or a kill unwinds that stack (unwind_stack()): one      *)
(* activation at a step here, because a built-in function that called the  *)
(* verb has to be told and may answer in several ways.                     *)
(*                                                                         *)
(* The outside world is the built-in function ext(), which returns, fails, *)
(* suspends or kills the task, and apply(), which calls the verb "v" as    *)
(* move() and create() call verbs and is continued when that returns.  All *)
(* calls and all answers are recorded, to be compared with what the        *)
(* program means (module Language).                                        *)
(***************************************************************************)
EXTENDS Language, CodeGen, TLC

CONSTANTS
  Texts,      \* the programs: functions from verb names to [stmt, debug]
  Answers,    \* what built-ins do: "zero", "one", "error", "kill", "suspend",
              \* "again" (call once more), "quota" (a fork or suspend is refused)
  Continuations, \* those of a built-in function that has called a verb
  MaxCalls,   \* calls of built-in functions after which a task is killed
  Ticks,      \* the ticks of a task
  MAXINT      \* the largest integer

VARIABLES
  text,              \* the verbs as they are written
  prog,              \* their Programs
  activ_stack,       \* the activations of the task
  root_activ_vector, \* the vector the first one runs: MAIN or a fork vector
  ticks_remaining,
  unwind,            \* why and with what value the stack is being unwound
  handler,           \* handler_verb_name and the code in handler_verb_args
  status,            \* of the task: "running", "blocked", "ended" or "panic"
  result,            \* *result of run(): NONE while not set, NULL if nobody wants it
  ended,             \* how each task has ended
  forked,            \* the forked tasks
  tasks,             \* how many have been forked
  prop,              \* the properties of the one object
  log,               \* what the built-in functions were called with
  answers,           \* and what they answered
  resumed            \* has the task been suspended? (no variable of the code)

world == <<text, prog, forked, tasks, prop, ended>>
calls == <<log, answers, resumed>>
vars  == <<world, activ_stack, root_activ_vector, ticks_remaining, unwind, handler,
           status, result, calls>>

MAIN == 0
NULL == <<"NULL", 0>>
NoUnwind  == [why |-> "none", value |-> zero, by |-> ""]
NoHandler == [name |-> "none", code |-> zero, at |-> 0, was |-> zero]

FIN == <<"FALL_THRU", "RAISE", "UNCAUGHT", "RETURN", "ABORT", "EXIT">>
Reason(why) == Int0(SelectInSeq(FIN, LAMBDA f : f = why) - 1)

Activ(verb, env, debug) ==
  [prog |-> verb, pc |-> 0, rt_stack |-> <<>>, rt_env |-> env, debug |-> debug,
   temp |-> NONE, bi_func_pc |-> 0]
-----------------------------------------------------------------------------
(* The macros of run() *****************************************************)

RUN_ACTIV == Last(activ_stack)
rts       == RUN_ACTIV.rt_stack
depth     == Len(activ_stack)

VectorOf(i) ==
  IF i > 1 \/ root_activ_vector = MAIN THEN prog[activ_stack[i].prog].main_vector
  ELSE prog[activ_stack[i].prog].fork_vectors[root_activ_vector]
bc == VectorOf(depth)

\* The byte i places after the instruction, and the operand of nb bytes there.
bv(i) == bc.vector[RUN_ACTIV.pc + i + 1]
READ_BYTES(i, nb) == FoldLeft(LAMBDA n, k : n * Base + bv(i + k - 1), 0, [k \in 1..nb |-> k])
Label(i) == READ_BYTES(i, bc.numbytes_label)
Var(i)   == READ_BYTES(i, bc.numbytes_var_name)

TOP      == Last(rts)
Nth(k)   == rts[Len(rts) - k]                   \* k below the top
Drop(k)  == SubSeq(rts, 1, Len(rts) - k)

Running == status = "running" /\ unwind = NoUnwind

\* An instruction is fetched; most cost a tick.
Fetch(op) ==
  /\ Running /\ bv(0) = op
  /\ IF COUNT_TICK(op) THEN ticks_remaining > 1 /\ ticks_remaining' = ticks_remaining - 1
     ELSE UNCHANGED ticks_remaining

\* Here the ticks are not tested.  They are counted down to 0 only: all tests
\* in the code are for <= 0.
FetchExtended(eop) ==
  /\ Running /\ bv(0) = OP.EXTENDED /\ bv(1) = eop
  /\ ticks_remaining' = IF COUNT_EOP_TICK(eop) /\ ticks_remaining > 0
                        THEN ticks_remaining - 1 ELSE ticks_remaining

Run(a) == activ_stack' = [activ_stack EXCEPT ![depth] = a]
At(i)  == RUN_ACTIV.pc + i

\* The instruction is done: go on at pc with this stack and these variables.
Go(pc, stack, env) ==
  /\ Run([RUN_ACTIV EXCEPT !.pc = pc, !.rt_stack = stack, !.rt_env = env])
  /\ UNCHANGED <<root_activ_vector, unwind, handler, status, result>>

GoOn(pc, stack) == Go(pc, stack, RUN_ACTIV.rt_env) /\ UNCHANGED <<world, calls>>

\* find_handler_activ(): is there a handler for the code in some activation?
Catches(a, i, code) ==
  /\ a.rt_stack[i][1] = "CATCH"
  /\ \E k \in 1..a.rt_stack[i][2] : Matches(code, a.rt_stack[i - 2 * k])
find_handler_activ(stack, code) ==
  \E f \in DOMAIN stack : \E i \in DOMAIN stack[f].rt_stack : Catches(stack[f], i, code)

\* raise_error() in the given activations; old is the handler before it.
raise_error(code, stack, old) ==
  IF find_handler_activ(stack, code)
  THEN /\ unwind' = [why |-> "RAISE", value |-> Tuple(code), by |-> "raise_error"]
       /\ handler' = old
  ELSE /\ unwind' = [why |-> "UNCAUGHT", value |-> zero, by |-> "raise_error"]
       /\ handler' = [NoHandler EXCEPT !.name = "handle_uncaught_error", !.code = code,
                                       !.at = Len(log)]

\* Go on at pc with the outcome of an operation on top of the stack, or raise
\* its error there.
Finish(pc, stack, r) ==
  LET a == [RUN_ACTIV EXCEPT !.pc = pc, !.rt_stack = stack]
      Push(v) == /\ Run([a EXCEPT !.rt_stack = Append(@, v)])
                 /\ UNCHANGED <<unwind, handler>>
  IN /\ IF r[1] # "FAIL" THEN Push(r)
        ELSE IF ~a.debug THEN Push(Err(r[2]))
        ELSE Run(a) /\ raise_error(Err(r[2]), [activ_stack EXCEPT ![depth] = a], handler)
     /\ UNCHANGED <<root_activ_vector, status, result>>

\* A statement's instruction that fails: without the d bit it does what Else
\* says and pushes nothing.
RAISE_ERROR(e, pc, stack, Else) ==
  IF RUN_ACTIV.debug
  THEN /\ Run([RUN_ACTIV EXCEPT !.pc = pc, !.rt_stack = stack])
       /\ raise_error(Err(e), activ_stack, handler)
       /\ UNCHANGED <<root_activ_vector, status, result>>
  ELSE Else
-----------------------------------------------------------------------------
(* Instructions: tests, jumps and loops ************************************)

do_test(i) == GoOn(IF is_true(TOP) THEN At(i + bc.numbytes_label) ELSE Label(i), Drop(1))

OP_IF == \E op \in {OP.IF_QUES, OP.IF_, OP.WHILE, OP.EIF} : Fetch(op) /\ do_test(1)

EOP_WHILE_ID ==
  LET i == 2 + bc.numbytes_var_name IN
  /\ FetchExtended(EOP.WHILE_ID)
  /\ Go(IF is_true(TOP) THEN At(i + bc.numbytes_label) ELSE Label(i), Drop(1),
        [RUN_ACTIV.rt_env EXCEPT ![Var(2)] = TOP])
  /\ UNCHANGED <<world, calls>>

OP_JUMP == Fetch(OP.JUMP) /\ GoOn(Label(1), rts)

\* One round more with the variable set, or the end of the loop.
ForRound(value, stack) ==
  LET i == 1 + bc.numbytes_var_name IN
  /\ Go(At(i + bc.numbytes_label), stack, [RUN_ACTIV.rt_env EXCEPT ![Var(1)] = value])
  /\ UNCHANGED <<world, calls>>
ForEnd == GoOn(Label(1 + bc.numbytes_var_name), Drop(2))
ForFails == /\ RAISE_ERROR("E_TYPE", At(1 + bc.numbytes_var_name + bc.numbytes_label), rts,
                           ForEnd)
            /\ UNCHANGED <<world, calls>>

OP_FOR_LIST ==
  /\ Fetch(OP.FOR_LIST)
  /\ IF ~IsList(Nth(1)) THEN ForFails
     ELSE IF TOP[2] > Len(Nth(1)[2]) THEN ForEnd
     ELSE ForRound(Nth(1)[2][TOP[2]], Append(Drop(1), Int0(TOP[2] + 1)))

\* The code counts the end down where counting up would overflow.
OP_FOR_RANGE ==
  /\ Fetch(OP.FOR_RANGE)
  /\ LET from == Nth(1) IN
     IF TOP[1] \notin {"INT", "OBJ"} \/ TOP[1] # from[1] THEN ForFails
     ELSE IF from[2] > TOP[2] THEN ForEnd
     ELSE IF from[2] < MAXINT
     THEN ForRound(from, Drop(2) \o <<<<from[1], from[2] + 1>>, TOP>>)
     ELSE ForRound(from, Append(Drop(1), <<TOP[1], TOP[2] - 1>>))

OP_AND ==
  \E op \in {OP.AND, OP.OR} :
    /\ Fetch(op)
    /\ IF is_true(TOP) <=> (op = OP.OR) THEN GoOn(Label(1), rts)
       ELSE GoOn(At(1 + bc.numbytes_label), Drop(1))

(* Values ******************************************************************)

OP_NUM ==
  \E n \in 0..OPTIM_NUM_HI :
    Fetch(OP.NUM + n) /\ GoOn(At(1), Append(rts, Int0(n)))

\* A literal that would be thrown away at once is skipped.
OP_IMM ==
  LET i == 1 + bc.numbytes_literal IN
  /\ Fetch(OP.IMM)
  /\ IF bv(i) = OP.POP THEN GoOn(At(i + 1), rts)
     ELSE GoOn(At(i), Append(rts,
            prog[RUN_ACTIV.prog].literals[READ_BYTES(1, bc.numbytes_literal) + 1]))

OP_POP == Fetch(OP.POP) /\ GoOn(At(1), Drop(1))

\* The instructions that take some values off the stack and push one.
Compute(op, taken, r) == Fetch(op) /\ Finish(At(1), Drop(taken), r) /\ UNCHANGED <<world, calls>>

OP_lists ==
  \/ Compute(OP.MAKE_EMPTY_LIST, 0, List(<<>>))
  \/ Compute(OP.MAKE_SINGLETON_LIST, 1, List(<<TOP>>))
  \/ Compute(OP.LIST_ADD_TAIL, 2, ListAddTail(Nth(1), TOP))
  \/ Compute(OP.LIST_APPEND, 2, ListAppend(Nth(1), TOP))
  \/ Compute(OP.CHECK_LIST_FOR_SPLICE, 1, CheckSplice(TOP))

OP_operators ==
  \/ Compute(OP.EQ, 2, Binary("EQ", Nth(1), TOP))
  \/ Compute(OP.IN_, 2, Binary("IN", Nth(1), TOP))
  \/ Compute(OP.PLUS, 2, Binary("PLUS", Nth(1), TOP))
  \/ Compute(OP.NOT, 1, Bool(~is_true(TOP)))

OP_indexing ==
  \/ Compute(OP.REF, 2, Ref(Nth(1), TOP))
  \/ Compute(OP.PUSH_REF, 0, Ref(Nth(1), TOP))
  \/ Compute(OP.RANGE_REF, 3, RangeRef(Nth(2), Nth(1), TOP))
  \/ Compute(OP.INDEXSET, 3, IndexSet(Nth(2), Nth(1), TOP))
  \/ Compute(OP.GET_PROP, 2, GetProp(prop, Nth(1), TOP))
  \/ Compute(OP.PUSH_GET_PROP, 0, GetProp(prop, Nth(1), TOP))

EOP_RANGESET ==
  /\ FetchExtended(EOP.RANGESET)
  /\ Finish(At(2), Drop(4), RangeSet(Nth(3), Nth(2), Nth(1), TOP))
  /\ UNCHANGED <<world, calls>>

EOP_LENGTH ==
  /\ FetchExtended(EOP.LENGTH)
  /\ Finish(At(2 + bc.numbytes_stack), rts, Length(rts[READ_BYTES(2, bc.numbytes_stack) + 1]))
  /\ UNCHANGED <<world, calls>>

OP_PUT_PROP ==
  /\ Fetch(OP.PUT_PROP)
  /\ LET old == GetProp(prop, Nth(2), Nth(1)) IN
     /\ Finish(At(1), Drop(3), IF old[1] = "FAIL" THEN old ELSE TOP)
     /\ prop' = IF old[1] = "FAIL" THEN prop ELSE [prop EXCEPT ![Nth(1)[2]] = TOP]
  /\ UNCHANGED <<text, prog, forked, tasks, ended, calls>>

OP_PUT_TEMP ==
  /\ Fetch(OP.PUT_TEMP)
  /\ Run([RUN_ACTIV EXCEPT !.pc = @ + 1, !.temp = TOP])
  /\ UNCHANGED <<world, calls, root_activ_vector, unwind, handler, status, result>>

OP_PUSH_TEMP ==
  /\ Fetch(OP.PUSH_TEMP)
  /\ Run([RUN_ACTIV EXCEPT !.pc = @ + 1, !.rt_stack = Append(@, RUN_ACTIV.temp), !.temp = NONE])
  /\ UNCHANGED <<world, calls, root_activ_vector, unwind, handler, status, result>>

(* Variables ***************************************************************)

PushVar(slot, pc) ==
  /\ Finish(pc, rts, IF RUN_ACTIV.rt_env[slot] = NONE THEN Fail("E_VARNF")
                     ELSE RUN_ACTIV.rt_env[slot])
  /\ UNCHANGED <<world, calls>>

OP_PUSH ==
  \/ \E slot \in 0..(NUM_READY_VARS - 1) : Fetch(OP.PUSH + slot) /\ PushVar(slot, At(1))
  \/ Fetch(OP.G_PUSH) /\ PushVar(Var(1), At(1 + bc.numbytes_var_name))

\* The short form takes an OP_POP that follows along.
OP_PUT ==
  \E slot \in 0..(NUM_READY_VARS - 1) :
    /\ Fetch(OP.PUT + slot)
    /\ LET env == [RUN_ACTIV.rt_env EXCEPT ![slot] = TOP] IN
       IF bv(1) = OP.POP THEN Go(At(2), Drop(1), env) ELSE Go(At(1), rts, env)
    /\ UNCHANGED <<world, calls>>

OP_G_PUT ==
  /\ Fetch(OP.G_PUT)
  /\ Go(At(1 + bc.numbytes_var_name), rts, [RUN_ACTIV.rt_env EXCEPT ![Var(1)] = TOP])
  /\ UNCHANGED <<world, calls>>

\* Scattering assignment: the variables from the left, counting by how many
\* values the place in the list differs from the place among the variables.
EOP_SCATTER ==
  LET nargs == bv(2)
      nreq  == bv(3)
      rest  == bv(4)
      len   == Len(TOP[2])
      item  == bc.numbytes_var_name + bc.numbytes_label
      Id(i) == Var(5 + (i - 1) * item)
      Lab(i) == Label(5 + (i - 1) * item + bc.numbytes_var_name)
      done  == Label(5 + nargs * item)
      nrest == IF rest <= nargs /\ len >= nargs THEN len - nargs + 1 ELSE 0
      Bind1(s, i) ==
        IF i = rest
        THEN [s EXCEPT !.env[Id(i)] = sublist(TOP, i, i + nrest - 1), !.offset = @ + nrest - 1]
        ELSE IF Lab(i) = 0 THEN [s EXCEPT !.env[Id(i)] = TOP[2][i + s.offset]]
        ELSE IF s.nopt > 0
        THEN [s EXCEPT !.env[Id(i)] = TOP[2][i + s.offset], !.nopt = @ - 1]
        ELSE [s EXCEPT !.offset = @ - 1,
                       !.where = IF @ = 0 /\ Lab(i) # 1 THEN Lab(i) ELSE @]
      r == FoldLeft(Bind1, [env |-> RUN_ACTIV.rt_env, offset |-> 0, nopt |-> len - nreq,
                            where |-> 0], [i \in 1..nargs |-> i])
  IN /\ FetchExtended(EOP.SCATTER)
     /\ IF ~IsList(TOP) THEN Finish(done, Drop(1), Fail("E_TYPE"))
        ELSE IF len < nreq \/ (rest > nargs /\ len > nargs)
        THEN Finish(done, Drop(1), Fail("E_ARGS"))
        ELSE Go(IF r.where = 0 THEN done ELSE r.where, rts, r.env)
     /\ UNCHANGED <<world, calls>>

(* Handlers and jumps that unwind ******************************************)

EOP_PUSH_LABEL ==
  \E eop \in {EOP.PUSH_LABEL, EOP.TRY_FINALLY} :
    /\ FetchExtended(eop)
    /\ GoOn(At(2 + bc.numbytes_label),
            Append(rts, <<IF eop = EOP.PUSH_LABEL THEN "INT" ELSE "FINALLY", Label(2)>>))

EOP_CATCH ==
  \/ FetchExtended(EOP.CATCH) /\ GoOn(At(2), Append(rts, <<"CATCH", 1>>))
  \/ FetchExtended(EOP.TRY_EXCEPT) /\ GoOn(At(3), Append(rts, <<"CATCH", bv(2)>>))

Panic == /\ status' = "panic"
         /\ UNCHANGED <<world, calls, activ_stack, root_activ_vector, unwind, handler, result>>

EOP_END_CATCH ==
  \E eop \in {EOP.END_CATCH, EOP.END_EXCEPT} :
    LET over   == IF eop = EOP.END_CATCH THEN 1 ELSE 0
        marker == Nth(over)
    IN /\ FetchExtended(eop)
       /\ IF marker[1] # "CATCH" THEN Panic
          ELSE GoOn(Label(2), Drop(over + 1 + 2 * marker[2])
                              \o SubSeq(rts, Len(rts) + 1 - over, Len(rts)))

EOP_END_FINALLY ==
  /\ FetchExtended(EOP.END_FINALLY)
  /\ IF TOP[1] # "FINALLY" THEN Panic
     ELSE GoOn(At(2), Drop(1) \o <<Reason("FALL_THRU"), zero>>)

\* Start to unwind, with the stack as the instruction leaves it.
Unwind(why, value, by, pc, stack) ==
  /\ Run([RUN_ACTIV EXCEPT !.pc = pc, !.rt_stack = stack])
  /\ unwind' = [why |-> why, value |-> value, by |-> by]
  /\ UNCHANGED <<world, calls, root_activ_vector, handler, status, result>>

EOP_CONTINUE ==
  /\ FetchExtended(EOP.CONTINUE)
  /\ LET why == IF IsInt(Nth(1)) /\ Nth(1)[2] + 1 \in DOMAIN FIN THEN FIN[Nth(1)[2] + 1]
                ELSE "none"
     IN IF why = "FALL_THRU" THEN GoOn(At(2), Drop(2))
        ELSE IF why \in {"none", "ABORT"} THEN Panic
        ELSE Unwind(why, TOP, "EOP_CONTINUE", At(2), Drop(2))

EOP_EXIT ==
  \E eop \in {EOP.EXIT, EOP.EXIT_ID} :
    LET i == IF eop = EOP.EXIT THEN 2 ELSE 2 + bc.numbytes_var_name
        j == i + bc.numbytes_stack
    IN /\ FetchExtended(eop)
       /\ Unwind("EXIT", List(<<Int0(READ_BYTES(i, bc.numbytes_stack)), Int0(Label(j))>>),
                 "EOP_EXIT", At(j + bc.numbytes_label), rts)

OP_RETURN ==
  \/ Fetch(OP.RETURN) /\ Unwind("RETURN", TOP, "OP_RETURN", At(1), Drop(1))
  \/ \E op \in {OP.RETURN0, OP.DONE} :
       Fetch(op) /\ Unwind("RETURN", zero, "OP_RETURN", At(1), rts)

(* Calls *******************************************************************)

\* call_verb2() with the stack of the caller as it is left: the error, or the
\* new activation, which a built-in function has asked for if next # 0.
call_verb2(verb, args, pc, stack, next) ==
  IF depth = max_stack_size THEN Finish(pc, stack, Fail("E_MAXREC"))
  ELSE /\ activ_stack' =
            Append([activ_stack EXCEPT ![depth] = [@ EXCEPT !.pc = pc, !.rt_stack = stack]],
                   [Activ(verb, NewEnv(args), text[verb].debug) EXCEPT !.bi_func_pc = next])
       /\ UNCHANGED <<root_activ_vector, unwind, handler, status, result>>

OP_CALL_VERB ==
  /\ Fetch(OP.CALL_VERB)
  /\ LET fault == VerbFault(Nth(2), Nth(1), TOP, DOMAIN text) IN
     IF fault # "E_NONE" THEN Finish(At(1), Drop(3), Fail(fault))
     ELSE call_verb2(Nth(1)[2], TOP, At(1), Drop(3), 0)
  /\ UNCHANGED <<world, calls>>

\* The answers of built-in functions as values
AnswerValue(ans) == CASE ans = "zero" -> zero [] ans = "one" -> Int0(1)
                      [] ans = "error" -> Fail("E_INVARG")

\* ext(): its call is logged; a suspended task gets its answer when resumed.
\* A suspend that is refused raises its error like a call that fails.
bf_ext(args) ==
  \E ans \in IF Len(log) >= MaxCalls THEN {"kill"} ELSE Answers \ {"again", "quota"} :
    /\ log' = Append(log, args)
    /\ answers' = IF ans = "suspend" THEN answers ELSE Append(answers, ans)
    /\ UNCHANGED resumed
    /\ CASE ans = "suspend" ->
              /\ Run([RUN_ACTIV EXCEPT !.pc = @ + 2, !.rt_stack = Drop(1)])
              /\ status' = "blocked"
              /\ UNCHANGED <<world, root_activ_vector, unwind, handler, result>>
         [] ans = "kill" ->
              /\ Run([RUN_ACTIV EXCEPT !.pc = @ + 2, !.rt_stack = Drop(1)])
              /\ unwind' = [why |-> "ABORT", value |-> zero, by |-> "BI_KILL"]
              /\ UNCHANGED <<world, root_activ_vector, handler, status, result>>
         [] OTHER ->
              Finish(At(2), Drop(1), AnswerValue(ans)) /\ UNCHANGED world

OP_BI_FUNC_CALL ==
  /\ Fetch(OP.BI_FUNC_CALL)
  /\ IF ~IsList(TOP)
     THEN Finish(At(2), Drop(1), Fail("E_TYPE")) /\ UNCHANGED <<world, calls>>
     ELSE IF Funcs[bv(1)] = "ext" THEN bf_ext(TOP)
     ELSE call_verb2("v", TOP, At(2), Drop(1), 2) /\ UNCHANGED <<world, calls>>

\* fork: the variables are copied after the new task's id is in its variable.
\* check_user_task_limit() may refuse it; its answer is logged like a call.
OP_FORK ==
  \E op \in {OP.FORK, OP.FORK_WITH_ID} :
    LET i  == 1 + bc.numbytes_fork
        pc == At(IF op = OP.FORK THEN i ELSE i + bc.numbytes_var_name)
        Fails(e) == /\ RAISE_ERROR(e, pc, Drop(1), Go(pc, Drop(1), RUN_ACTIV.rt_env))
                    /\ UNCHANGED world
        env == IF op = OP.FORK THEN RUN_ACTIV.rt_env
               ELSE [RUN_ACTIV.rt_env EXCEPT ![Var(i)] = Int0(tasks + 1)]
    IN /\ Fetch(op)
       /\ UNCHANGED resumed
       /\ IF ~IsInt(TOP) THEN Fails("E_TYPE") /\ UNCHANGED <<log, answers>>
          ELSE IF TOP[2] < 0 THEN Fails("E_INVARG") /\ UNCHANGED <<log, answers>>
          ELSE \E ans \in IF Len(log) >= MaxCalls THEN {"quota"}
                          ELSE Answers \cap {"zero", "quota"} :
               /\ log' = Append(log, Str("fork")) /\ answers' = Append(answers, ans)
               /\ IF ans = "quota" THEN Fails("E_QUOTA")
                  ELSE /\ Go(pc, Drop(1), env)
                       /\ forked' = Append(forked,
                            [a |-> [RUN_ACTIV EXCEPT !.rt_env = env],
                             f_index |-> READ_BYTES(1, bc.numbytes_fork) + 1])
                       /\ tasks' = tasks + 1
                       /\ UNCHANGED <<text, prog, ended, prop>>

\* "Unknown opcode!", the place behind the code included
Opcodes  == Range(OP) \cup ((OP.PUT)..OP.G_PUT) \cup ((OP.PUSH)..OP.G_PUSH)
            \cup ((OP.NUM)..(OP.NUM + OPTIM_NUM_HI))
EOpcodes == Range(EOP)
UnknownOpcode ==
  /\ Running
  /\ \/ RUN_ACTIV.pc \notin 0..(Len(bc.vector) - 1)
     \/ bv(0) \notin Opcodes
     \/ bv(0) = OP.EXTENDED /\ bv(1) \notin EOpcodes

\* abort_task(): the ticks are used up, or task_timed_out is set, which the
\* timer may do at any time.
abort_task ==
  /\ Running /\ COUNT_TICK(bv(0))
  /\ ticks_remaining' = ticks_remaining - 1
  /\ handler' = [NoHandler EXCEPT !.name = "handle_task_timeout", !.at = Len(log)]
  /\ unwind' = [why |-> "ABORT", value |-> zero, by |-> "abort_task"]
  /\ UNCHANGED <<world, calls, activ_stack, root_activ_vector, status, result>>
-----------------------------------------------------------------------------
(* unwind_stack(), one activation at a time ********************************)

\* The highest place on the stack of a where the unwinding stops, 0 if none.
Goal == IF unwind.why = "EXIT" THEN unwind.value[2][1][2] ELSE 0
Stops(a) ==
  {i \in (Goal + 1)..Len(a.rt_stack) :
     \/ unwind.why # "ABORT" /\ a.rt_stack[i][1] = "FINALLY"
     \/ unwind.why = "RAISE" /\ Catches(a, i, unwind.value[2][1])}

\* Handlers are tried from the one that is written first.
EnterHandler(a, i) ==
  LET n == a.rt_stack[i][2] IN
  IF a.rt_stack[i][1] = "FINALLY"
  THEN [a EXCEPT !.pc = n,
                 !.rt_stack = SubSeq(@, 1, i - 1) \o <<Reason(unwind.why), unwind.value>>]
  ELSE LET k == CHOOSE k \in 1..n :
                  /\ Matches(unwind.value[2][1], a.rt_stack[i - 2 * k])
                  /\ \A j \in (k + 1)..n : ~Matches(unwind.value[2][1], a.rt_stack[i - 2 * j])
       IN [a EXCEPT !.pc = a.rt_stack[i - 2 * k + 1][2],
                    !.rt_stack = Append(SubSeq(@, 1, i - 1 - 2 * n), unwind.value)]

unwind_to_handler ==
  /\ status = "running" /\ unwind # NoUnwind
  /\ \/ /\ Stops(RUN_ACTIV) # {}
        /\ Run(EnterHandler(RUN_ACTIV, Max(Stops(RUN_ACTIV))))
     \/ /\ Stops(RUN_ACTIV) = {} /\ unwind.why = "EXIT"
        /\ Run([RUN_ACTIV EXCEPT !.pc = unwind.value[2][2][2], !.rt_stack = SubSeq(@, 1, Goal)])
  /\ unwind' = NoUnwind
  /\ UNCHANGED <<world, calls, root_activ_vector, ticks_remaining, handler, status, result>>

NothingStops == /\ status = "running" /\ unwind # NoUnwind
                /\ Stops(RUN_ACTIV) = {} /\ unwind.why # "EXIT"

\* The last activation is freed, and the task is over.
unwind_done ==
  /\ NothingStops /\ depth = 1
  /\ LET outcome == IF unwind.why = "RETURN" THEN "DONE" ELSE "ABORTED" IN
     /\ result' = IF outcome = "DONE" /\ unwind.by = "OP_RETURN" /\ result # NULL
                  THEN unwind.value ELSE result
     /\ ended' = Append(ended,
          [outcome |-> outcome, unwind |-> unwind, result |-> result', resumed |-> resumed,
           handler |-> IF outcome = "ABORTED" THEN handler ELSE NoHandler])
  /\ status' = "ended"
  /\ activ_stack' = <<>>
  /\ unwind' = NoUnwind
  /\ UNCHANGED <<text, prog, forked, tasks, prop, calls, root_activ_vector, ticks_remaining,
                 handler>>

\* A verb that was called by the program: a return goes on there.
unwind_verb ==
  /\ NothingStops /\ depth > 1 /\ RUN_ACTIV.bi_func_pc = 0
  /\ LET rest == Front(activ_stack)
         k    == Len(rest)
     IN IF unwind.why = "RETURN"
        THEN /\ activ_stack' = [rest EXCEPT ![k].rt_stack = Append(@, unwind.value)]
             /\ unwind' = NoUnwind
        ELSE activ_stack' = rest /\ UNCHANGED unwind
  /\ UNCHANGED <<world, calls, root_activ_vector, ticks_remaining, handler, status, result>>

\* The verb that apply() calls
ApplyActiv(args) == [Activ("v", NewEnv(args), text["v"].debug) EXCEPT !.bi_func_pc = 2]

\* What a built-in function ends with, in the activation k that called it.
Continue(r, rest, k) ==
  IF r[1] = "FAIL" /\ rest[k].debug
  THEN activ_stack' = rest /\ raise_error(Err(r[2]), rest, handler)
  ELSE /\ activ_stack' = [rest EXCEPT ![k].rt_stack =
               Append(@, IF r[1] = "FAIL" THEN Err(r[2]) ELSE r)]
       /\ unwind' = NoUnwind
       /\ UNCHANGED handler

\* A verb that was called by a built-in function: the function is continued
\* with the value, or with 0, and then what it does matters to nobody; a verb
\* that it then calls is not run, and it is continued once more.
\*   When it suspends and is refused, unwind_stack() is called with FIN_RAISE
\* and a bare error, and takes the error for the address of a list.
unwind_bi_func ==
  /\ NothingStops /\ depth > 1 /\ RUN_ACTIV.bi_func_pc # 0
  /\ LET rest == Front(activ_stack)
         k    == Len(rest)
     IN \E ans \in IF Len(log) >= MaxCalls THEN {"zero"} ELSE Continuations :
        /\ answers' = IF ans \notin {"suspend", "quota"} THEN Append(answers, ans)
                      ELSE IF unwind.why = "RETURN" THEN answers
                      ELSE Append(answers, "zero")
        /\ log' = Append(log, IF unwind.why = "RETURN" THEN unwind.value ELSE zero)
        /\ IF unwind.why # "RETURN"
           THEN /\ activ_stack' = IF ans = "again" THEN activ_stack ELSE rest
                /\ UNCHANGED <<unwind, handler, status>>
           ELSE CASE ans = "suspend" ->
                       /\ activ_stack' = rest /\ unwind' = NoUnwind
                       /\ status' = "blocked" /\ UNCHANGED handler
                  [] ans = "quota" ->
                       /\ activ_stack' = rest /\ status' = "panic"
                       /\ UNCHANGED <<unwind, handler>>
                  [] ans = "again" ->
                       /\ activ_stack' = Append(rest, ApplyActiv(List(<<>>)))
                       /\ unwind' = NoUnwind /\ UNCHANGED <<handler, status>>
                  [] ans = "kill" ->
                       /\ activ_stack' = rest
                       /\ unwind' = [why |-> "ABORT", value |-> zero, by |-> "BI_KILL"]
                       /\ UNCHANGED <<handler, status>>
                  [] OTHER ->
                       /\ Continue(AnswerValue(ans), rest, k)
                       /\ UNCHANGED status
  /\ UNCHANGED <<world, root_activ_vector, ticks_remaining, result, resumed>>
-----------------------------------------------------------------------------
(* Tasks *******************************************************************)

\* do_server_program_task() and do_task(): the verb "main" starts.
Init ==
  /\ text \in Texts
  /\ prog = [v \in DOMAIN text |-> generate_code(text[v].stmt)]
  /\ activ_stack = <<Activ("main", NewEnv(List(<<>>)), text["main"].debug)>>
  /\ root_activ_vector = MAIN
  /\ ticks_remaining = Ticks
  /\ unwind = NoUnwind /\ handler = NoHandler
  /\ status = "running" /\ result = NONE
  /\ ended = <<>> /\ forked = <<>> /\ tasks = 0
  /\ prop = [p \in {"p"} |-> List(<<Int0(1), Int0(2)>>)]
  /\ log = <<>> /\ answers = <<>> /\ resumed = FALSE

\* resume_from_previous_vm(): handler_verb_name is cleared, and .was remembers
\* the error it was for (no variable of the code).
resume_from_previous_vm ==
  /\ status = "blocked"
  /\ \E ans \in Answers \cap {"zero", "error"} :
       /\ answers' = Append(answers, ans)
       /\ status' = "running"
       /\ ticks_remaining' = Ticks
       /\ result' = NULL /\ resumed' = TRUE
       /\ LET r == AnswerValue(ans)
              cleared == [NoHandler EXCEPT
                            !.was = IF handler.name = "none" THEN handler.was ELSE handler.code]
          IN IF r[1] = "FAIL" /\ RUN_ACTIV.debug
             THEN UNCHANGED activ_stack /\ raise_error(Err(r[2]), activ_stack, cleared)
             ELSE /\ Run([RUN_ACTIV EXCEPT !.rt_stack =
                            Append(@, IF r[1] = "FAIL" THEN Err(r[2]) ELSE r)])
                  /\ handler' = cleared
                  /\ UNCHANGED unwind
  /\ UNCHANGED <<world, log, root_activ_vector>>

\* do_forked_task(), one task at a time and in the order of the forks
do_forked_task ==
  /\ status = "ended" /\ forked # <<>>
  /\ forked' = Tail(forked)
  /\ activ_stack' = <<[Head(forked).a EXCEPT !.pc = 0, !.rt_stack = <<>>, !.temp = NONE,
                                             !.bi_func_pc = 0]>>
  /\ root_activ_vector' = Head(forked).f_index
  /\ ticks_remaining' = Ticks
  /\ unwind' = NoUnwind /\ handler' = NoHandler
  /\ status' = "running" /\ result' = NULL /\ resumed' = FALSE
  /\ UNCHANGED <<text, prog, ended, tasks, prop, log, answers>>

Instruction ==
  \/ OP_IF \/ EOP_WHILE_ID \/ OP_JUMP \/ OP_FOR_LIST \/ OP_FOR_RANGE \/ OP_AND
  \/ OP_NUM \/ OP_IMM \/ OP_POP \/ OP_lists \/ OP_operators \/ OP_indexing
  \/ EOP_RANGESET \/ EOP_LENGTH \/ OP_PUT_PROP \/ OP_PUT_TEMP \/ OP_PUSH_TEMP
  \/ OP_PUSH \/ OP_PUT \/ OP_G_PUT \/ EOP_SCATTER
  \/ EOP_PUSH_LABEL \/ EOP_CATCH \/ EOP_END_CATCH \/ EOP_END_FINALLY
  \/ EOP_CONTINUE \/ EOP_EXIT \/ OP_RETURN
  \/ OP_CALL_VERB \/ OP_BI_FUNC_CALL \/ OP_FORK

Next ==
  \/ Instruction \/ abort_task
  \/ unwind_to_handler \/ unwind_done \/ unwind_verb \/ unwind_bi_func
  \/ resume_from_previous_vm \/ do_forked_task

\* run() does not stop by itself, and suspended and forked tasks are run.
Spec == Init /\ [][Next]_vars /\ WF_vars(Next)
-----------------------------------------------------------------------------
AllEnded == status = "ended" /\ forked = <<>>

\* What the compiler and the interpreter make of a program is what it means:
\* when all tasks have ended, they have made the calls that the text means with
\* the answers they got, and ended as it means; up to the first task that ran
\* out of time they have made the calls they should have.  No instruction finds
\* something on the stack that makes run() panic.
\*   *result, which only the first task has and only until it is suspended, is
\* what the first activation returned; alone when EOP_CONTINUE at the end of a
\* finally block of that activation made it return is *result not set.
\*   An uncaught error is in handler_verb_args for #0:handle_uncaught_error();
\* alone when a finally block has suspended the task and then EOP_CONTINUE went
\* on with that error is there no handler (see ErrorsAreReported).
RunsAsWritten ==
  /\ status # "panic" /\ ~UnknownOpcode
  /\ AllEnded =>
       LET TimedOut(e) == e.handler.name = "handle_task_timeout"
           first == SelectInSeq(ended, TimedOut)
           cut   == IF first = 0 THEN Len(log) ELSE ended[first].handler.at
           m     == Meaning(text, [p \in {"p"} |-> List(<<Int0(1), Int0(2)>>)],
                            SubSeq(answers, 1, cut), Ticks)
           Right(i, means) ==
             LET e == ended[i]
                 continued == e.unwind.by = "EOP_CONTINUE"
             IN
             CASE means.end = "return" ->
                    /\ e.outcome = "DONE" /\ e.unwind.value = means.v
                    /\ e.result = IF i > 1 \/ e.resumed THEN NULL
                                  ELSE IF continued THEN NONE ELSE means.v
               [] means.end = "raise" ->
                    /\ e.outcome = "ABORTED"
                    /\ \/ e.handler.name = "handle_uncaught_error" /\ e.handler.code = means.v
                       \/ continued /\ e.handler = [NoHandler EXCEPT !.was = means.v]
               [] means.end = "abort" -> e.outcome = "ABORTED"
               [] OTHER -> FALSE
       IN /\ IsPrefix(SubSeq(log, 1, cut), m.log)
          /\ first = 0 => m.log = log /\ Len(m.ended) = Len(ended)
          /\ \A i \in 1..(IF first = 0 THEN Len(ended) ELSE first - 1) :
               Right(i, m.ended[i])

\* The stack of an activation never outgrows what the generator computed for
\* its vector, which is what alloc_rt_stack() has allocated, and the generator
\* has popped what it pushed, without which stmt_to_code() panics.
StackFits ==
  \A i \in DOMAIN activ_stack : /\ Len(activ_stack[i].rt_stack) <= VectorOf(i).max_stack
                                /\ VectorOf(i).popped

\* Every unwinding of the stack comes to an end, and so does every task, for
\* the limit on ticks or seconds is tested on every way round a loop; the one
\* exception is a while loop with a name (EOP_WHILE_ID) whose condition and
\* body have no instruction that is tested, such as while x (1) endwhile: a
\* task may go round it for ever, its ticks long used up.
FreeRound == /\ Running /\ bv(0) = OP.EXTENDED /\ bv(1) = EOP.WHILE_ID
             /\ ticks_remaining = 0
TasksEnd == <>AllEnded \/ []<>FreeRound
-----------------------------------------------------------------------------
\* "If an error is raised and not caught, then the verb-call
\* #0:handle_uncaught_error(...) is made" (ChangeLog.txt).  The call is lost when
\* a finally block suspends the task: run_interpreter() clears handler_verb_name.
ErrorsAreReported ==
  \A i \in DOMAIN ended :
    ended[i].unwind.why = "UNCAUGHT" => ended[i].handler.name = "handle_uncaught_error"
=============================================================================
