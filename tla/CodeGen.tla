------------------------------ MODULE CodeGen ------------------------------
(***************************************************************************)
(* The code generator (code_gen.c): from the syntax tree to a vector of    *)
(* bytes.                                                                  *)
(*                                                                         *)
(* Code is generated with one byte for every operand and a fixup that says *)
(* what belongs there.  Only when all is generated are the sizes of the    *)
(* operands known; the labels, which are places in the vector, are then    *)
(* moved by what the operands before them have grown, which each fixup     *)
(* counted when its label was defined.                                     *)
(*                                                                         *)
(* The generator's state is a record that its operators take last and give *)
(* back.  A byte holds a number below Base (256 in the code, far less here,*)
(* so that programs of a few lines have labels of two bytes); opcodes are  *)
(* numbers above it, so that an operand taken for one is never a valid     *)
(* one.  BYTECODE_REDUCE_REF, which is off by default, is left out.        *)
(***************************************************************************)
EXTENDS Values, FiniteSetsExt

CONSTANTS
  Base,            \* what a byte can hold
  NUM_READY_VARS,  \* variables with instructions of one byte
  OPTIM_NUM_HI     \* the largest number with an instruction of one byte

NoStack == -1      \* UINT_MAX as the saved stack index

OP == LET put == 130 IN
  [IF_ |-> 100, WHILE |-> 101, EIF |-> 102, FORK |-> 103, FORK_WITH_ID |-> 104,
   FOR_LIST |-> 105, FOR_RANGE |-> 106, INDEXSET |-> 107, PUSH_GET_PROP |-> 108,
   GET_PROP |-> 109, CALL_VERB |-> 110, PUT_PROP |-> 111, BI_FUNC_CALL |-> 112,
   IF_QUES |-> 113, REF |-> 114, RANGE_REF |-> 115, MAKE_SINGLETON_LIST |-> 116,
   CHECK_LIST_FOR_SPLICE |-> 117, PLUS |-> 118, EQ |-> 119, IN_ |-> 120, AND |-> 121,
   OR |-> 122, NOT |-> 123,
   PUT |-> put, G_PUT |-> put + NUM_READY_VARS,
   PUSH |-> put + 40, G_PUSH |-> put + 40 + NUM_READY_VARS,
   IMM |-> 210, MAKE_EMPTY_LIST |-> 211, LIST_ADD_TAIL |-> 212, LIST_APPEND |-> 213,
   PUSH_REF |-> 214, PUT_TEMP |-> 215, PUSH_TEMP |-> 216, JUMP |-> 217, RETURN |-> 218,
   RETURN0 |-> 219, DONE |-> 220, POP |-> 221, EXTENDED |-> 222, NUM |-> 230]

EOP == [RANGESET |-> 300, LENGTH |-> 301, PUSH_LABEL |-> 302, END_CATCH |-> 303,
        END_EXCEPT |-> 304, END_FINALLY |-> 305, CONTINUE |-> 306,
        CATCH |-> 307, TRY_EXCEPT |-> 308, TRY_FINALLY |-> 309, WHILE_ID |-> 310,
        EXIT |-> 311, EXIT_ID |-> 312, SCATTER |-> 313]

\* Mutant: the tests of loops are free.
COUNT_TICK_tests_free(op) == op <= OP.G_PUT /\ op # OP.WHILE

COUNT_TICK(op)      == op <= OP.G_PUT
COUNT_EOP_TICK(eop) == eop >= EOP.CATCH

Funcs == <<"ext", "apply">>    \* the built-in functions by number
-----------------------------------------------------------------------------
\* The counts that a label remembers.
Counts(g) == [literals |-> g.num_literals, forks |-> g.num_forks,
              var_refs |-> g.num_var_refs, labels |-> g.num_labels, stacks |-> g.num_stacks]
NoCounts  == [literals |-> 0, forks |-> 0, var_refs |-> 0, labels |-> 0, stacks |-> 0]

\* init_state(); gs is the part that is shared with the vectors of fork
\* statements: literals, fork vectors, total_var_refs.
init_state(gs) ==
  [max_literal |-> 0, max_fork |-> 0, max_var_ref |-> 0,
   num_literals |-> 0, num_forks |-> 0, num_var_refs |-> 0, num_labels |-> 0,
   num_stacks |-> 0, fixups |-> <<>>, bytes |-> <<>>, cur_stack |-> 0, max_stack |-> 0,
   saved_stack |-> NoStack, loops |-> <<>>, gstate |-> gs]

init_gstate == [total_var_refs |-> 0, literals |-> <<>>, fork_vectors |-> <<>>]

emit_byte(b, g) == [g EXCEPT !.bytes = Append(@, b)]
emit_extended_byte(b, g) == emit_byte(b, emit_byte(OP.EXTENDED, g))

\* Places in the vector are counted from 0.
add_known_fixup(f, g) ==
  emit_byte(0, [g EXCEPT !.fixups = Append(@, [f EXCEPT !.pc = Len(g.bytes)])])

Fixup(kind, value, prev, next) ==
  [kind |-> kind, value |-> value, prev |-> prev, next |-> next, pc |-> 0]

add_fixup(kind, value, g) == add_known_fixup(Fixup(kind, value, Counts(g), 0), g)

add_literal(v, g) ==
  LET at  == SelectInSeq(g.gstate.literals, LAMBDA x : x = v)
      lit == IF at # 0 THEN g.gstate.literals ELSE Append(g.gstate.literals, v)
      i   == (IF at # 0 THEN at ELSE Len(lit)) - 1
  IN [add_fixup("LITERAL", i, g) EXCEPT
        !.gstate.literals = lit, !.num_literals = @ + 1, !.max_literal = Max({@, i})]

add_fork(vector, g) ==
  LET i == Len(g.gstate.fork_vectors) IN
  [add_fixup("FORK", i, g) EXCEPT
     !.gstate.fork_vectors = Append(@, vector), !.num_forks = @ + 1, !.max_fork = Max({@, i})]

add_var_ref(slot, g) ==
  [add_fixup("VAR_REF", slot, g) EXCEPT
     !.num_var_refs = @ + 1, !.max_var_ref = Max({@, slot}), !.gstate.total_var_refs = @ + 1]

\* add_linked_label(): the fixup's number, which is its place in fixups, is
\* LastFixup of the result; 0 is no label.
add_linked_label(next, g) ==
  [add_known_fixup(Fixup("LABEL", 0, Counts(g), next), g) EXCEPT !.num_labels = @ + 1]
add_label(g) == add_linked_label(0, g)
LastFixup(g) == Len(g.fixups)

add_pseudo_label(value, g) ==
  [add_known_fixup(Fixup("LABEL", value, NoCounts, 0), g) EXCEPT !.num_labels = @ + 1]

capture_label(g) == Fixup("LABEL", Len(g.bytes), Counts(g), 0)
add_known_label(f, g) == [add_known_fixup(f, g) EXCEPT !.num_labels = @ + 1]

\* Mutant: the counts stay those of the place where the label was added.
RECURSIVE define_label_stale_counts(_, _)
define_label_stale_counts(label, g) ==
  IF label = 0 THEN g
  ELSE define_label_stale_counts(g.fixups[label].next,
         [g EXCEPT !.fixups[label].value = Len(g.bytes)])

RECURSIVE define_label(_, _)
define_label(label, g) ==
  IF label = 0 THEN g
  ELSE define_label(g.fixups[label].next,
         [g EXCEPT !.fixups[label].value = Len(g.bytes), !.fixups[label].prev = Counts(g)])

add_stack_ref(index, g) == add_fixup("STACK", index, g)

push_stack(n, g) == [g EXCEPT !.cur_stack = @ + n, !.max_stack = Max({@, g.cur_stack + n})]
pop_stack(n, g)  == [g EXCEPT !.cur_stack = @ - n]

save_stack_top(g) == [g EXCEPT !.saved_stack = g.cur_stack - 1]
restore_stack_top(old, g) == [g EXCEPT !.saved_stack = old]

enter_loop(id, top_label, top_stack, bottom_label, bottom_stack, g) ==
  [g EXCEPT !.loops = Append(@, [id |-> id, top_label |-> top_label, top_stack |-> top_stack,
                                 bottom_label |-> bottom_label, bottom_stack |-> bottom_stack])]
exit_loop(g) == [g EXCEPT !.loops = Front(@)]

emit_var_op(op, slot, g) ==
  IF slot >= NUM_READY_VARS THEN add_var_ref(slot, emit_byte(op + NUM_READY_VARS, g))
  ELSE emit_byte(op + slot, g)
-----------------------------------------------------------------------------
(* Expressions *************************************************************)

RECURSIVE generate(_, _, _), push_lvalue(_, _, _)
generate_expr(e, g)     == generate("EXPR", e, g)
generate_stmt(stmts, g) == generate("STMT", stmts, g)

emit_num(n, g) == emit_byte(OP.NUM + n, g)

generate_literal(v, g) ==
  push_stack(1, IF IsInt(v) /\ v[2] \in 0..OPTIM_NUM_HI THEN emit_num(v[2], g)
                ELSE add_literal(v, emit_byte(OP.IMM, g)))

generate_arg_list(args, g) ==
  IF args = <<>> THEN push_stack(1, emit_byte(OP.MAKE_EMPTY_LIST, g))
  ELSE LET Arg(h, i) ==
             LET op == IF i = 1
                       THEN IF args[i].splice THEN OP.CHECK_LIST_FOR_SPLICE
                            ELSE OP.MAKE_SINGLETON_LIST
                       ELSE IF args[i].splice THEN OP.LIST_APPEND ELSE OP.LIST_ADD_TAIL
             IN pop_stack(IF i = 1 THEN 0 ELSE 1,
                          emit_byte(op, generate_expr(args[i].expr, h)))
       IN FoldLeft(Arg, g, [i \in DOMAIN args |-> i])

generate_codes(codes, g) ==
  IF codes # <<>> THEN generate_arg_list(codes, g) ELSE push_stack(1, emit_num(0, g))

\* The index expressions of base[...], between saving and restoring the place
\* that "$" looks at.
generate_indexes(es, g) ==
  restore_stack_top(g.saved_stack,
    FoldLeft(LAMBDA h, e : generate_expr(e, h), save_stack_top(g), es))

push_lvalue(e, indexed_above, g) ==
  LET Above(op, h) == IF indexed_above THEN push_stack(1, emit_byte(op, h)) ELSE h IN
  CASE e.kind = "RANGE" -> generate_indexes(<<e.from, e.to>>, push_lvalue(e.base, TRUE, g))
    [] e.kind = "INDEX" ->
         Above(OP.PUSH_REF, generate_indexes(<<e.rhs>>, push_lvalue(e.lhs, TRUE, g)))
    [] e.kind = "ID" ->
         IF indexed_above THEN push_stack(1, emit_var_op(OP.PUSH, e.id, g)) ELSE g
    [] e.kind = "PROP" ->
         Above(OP.PUSH_GET_PROP, generate_expr(e.rhs, generate_expr(e.lhs, g)))

generate_and_or(e, g) ==
  LET a == add_label(emit_byte(IF e.kind = "AND" THEN OP.AND ELSE OP.OR,
                               generate_expr(e.lhs, g)))
  IN define_label(LastFixup(a), generate_expr(e.rhs, pop_stack(1, a)))

generate_cond(e, g) ==
  LET a == add_label(emit_byte(OP.IF_QUES, generate_expr(e.condition, g)))
      b == add_label(emit_byte(OP.JUMP, generate_expr(e.consequent, pop_stack(1, a))))
      c == define_label(LastFixup(a), pop_stack(1, b))
  IN define_label(LastFixup(b), generate_expr(e.alternate, c))

generate_scatter(items, rhs, g) ==
  LET n    == Len(items)
      Of(h) == {i \in 1..n : items[i].how = h}
      rest == IF Of("REST") = {} THEN n + 1 ELSE Max(Of("REST"))
      a == emit_byte(rest, emit_byte(Cardinality(Of("REQUIRED")), emit_byte(n,
             emit_extended_byte(EOP.SCATTER, generate_expr(rhs, g)))))
      Item(h, it) ==
        LET v == add_var_ref(it.id, h) IN
        IF it.how # "OPTIONAL" THEN add_pseudo_label(0, v)
        ELSE IF it.default = <<>> THEN add_pseudo_label(1, v)
        ELSE add_label(v)
      b == add_label(FoldLeft(Item, a, items))
      Default(h, i) ==
        IF items[i].default = <<>> THEN h
        ELSE pop_stack(1, emit_byte(OP.POP, emit_var_op(OP.PUT, items[i].id,
               generate_expr(items[i].default[1],
                             define_label(LastFixup(a) + 2 * i, h)))))
  IN define_label(LastFixup(b), FoldLeft(Default, b, [i \in 1..n |-> i]))

\* After the value: change the containers from the inside out.
RECURSIVE generate_store(_, _)
generate_store(e, g) ==
  CASE e.kind = "RANGE" ->
         generate_store(e.base, pop_stack(3, emit_extended_byte(EOP.RANGESET, g)))
    [] e.kind = "INDEX" ->
         generate_store(e.lhs, pop_stack(2, emit_byte(OP.INDEXSET, g)))
    [] e.kind = "ID" -> emit_var_op(OP.PUT, e.id, g)
    [] e.kind = "PROP" -> pop_stack(2, emit_byte(OP.PUT_PROP, g))

generate_asgn(e, rhs, g) ==
  IF e.kind = "SCATTER" THEN generate_scatter(e.items, rhs, g)
  ELSE LET a == generate_expr(rhs, push_lvalue(e, FALSE, g)) IN
       IF e.kind \in {"RANGE", "INDEX"}
       THEN emit_byte(OP.PUSH_TEMP, emit_byte(OP.POP,
              generate_store(e, emit_byte(OP.PUT_TEMP, a))))
       ELSE generate_store(e, a)

generate_catch(e, g) ==
  LET a == add_label(emit_extended_byte(EOP.PUSH_LABEL, generate_codes(e.codes, g)))
      b == push_stack(1, emit_extended_byte(EOP.CATCH, push_stack(1, a)))
      c == add_label(emit_extended_byte(EOP.END_CATCH, generate_expr(e.expr, b)))
      d == define_label(LastFixup(a), pop_stack(3, c))
      h == IF e.except = <<>> THEN emit_byte(OP.REF, emit_num(1, d))
           ELSE generate_expr(e.except[1], pop_stack(1, emit_byte(OP.POP, d)))
  IN define_label(LastFixup(c), h)

expr_code(e, g) ==
  CASE e.kind = "VAR" -> generate_literal(e.var, g)
    [] e.kind = "ID" -> push_stack(1, emit_var_op(OP.PUSH, e.id, g))
    [] e.kind \in {"AND", "OR"} -> generate_and_or(e, g)
    [] e.kind = "NOT" -> emit_byte(OP.NOT, generate_expr(e.expr, g))
    [] e.kind \in {"EQ", "IN", "PLUS", "PROP"} ->
         LET op == CASE e.kind = "EQ" -> OP.EQ [] e.kind = "IN" -> OP.IN_
                     [] e.kind = "PLUS" -> OP.PLUS [] e.kind = "PROP" -> OP.GET_PROP
         IN pop_stack(1, emit_byte(op, generate_expr(e.rhs, generate_expr(e.lhs, g))))
    [] e.kind = "INDEX" ->
         pop_stack(1, emit_byte(OP.REF, generate_indexes(<<e.rhs>>, generate_expr(e.lhs, g))))
    [] e.kind = "RANGE" ->
         pop_stack(2, emit_byte(OP.RANGE_REF,
           generate_indexes(<<e.from, e.to>>, generate_expr(e.base, g))))
    [] e.kind = "LENGTH" ->
         push_stack(1, add_stack_ref(g.saved_stack, emit_extended_byte(EOP.LENGTH, g)))
    [] e.kind = "LIST" -> generate_arg_list(e.args, g)
    [] e.kind = "CALL" ->
         emit_byte(SelectInSeq(Funcs, LAMBDA f : f = e.func),
                   emit_byte(OP.BI_FUNC_CALL, generate_arg_list(e.args, g)))
    [] e.kind = "VERB" ->
         pop_stack(2, emit_byte(OP.CALL_VERB,
           generate_arg_list(e.args, generate_expr(e.verb, generate_expr(e.obj, g)))))
    [] e.kind = "COND" -> generate_cond(e, g)
    [] e.kind = "ASGN" -> generate_asgn(e.lhs, e.rhs, g)
    [] e.kind = "CATCH" -> generate_catch(e, g)
-----------------------------------------------------------------------------
(* Statements **************************************************************)

generate_cond_stmt(s, g) ==
  LET Arm(h, i) ==   \* h.g is the generator, h.end the chain of jumps to the end
        LET a == add_label(emit_byte(IF i = 1 THEN OP.IF_ ELSE OP.EIF,
                                     generate_expr(s.arms[i].condition, h.g)))
            b == add_linked_label(h.end, emit_byte(OP.JUMP,
                   generate_stmt(s.arms[i].stmt, pop_stack(1, a))))
        IN [g |-> define_label(LastFixup(a), b), end |-> LastFixup(b)]
      c == FoldLeft(Arm, [g |-> g, end |-> 0], [i \in DOMAIN s.arms |-> i])
  IN define_label(c.end, generate_stmt(s.otherwise, c.g))

\* The body of a loop and the jump back; g is where its end label was added.
generate_body(s, top, top_stack, bottom_stack, g) ==
  LET a == generate_stmt(s.body,
             enter_loop(s.id, top, top_stack, LastFixup(g), bottom_stack, g))
  IN define_label(Last(a.loops).bottom_label,
                  add_known_label(top, emit_byte(OP.JUMP, exit_loop(a))))

generate_for(s, op, g) ==
  LET a == add_label(add_var_ref(s.id, emit_byte(op, g)))
  IN pop_stack(2, generate_body(s, capture_label(g), a.cur_stack, a.cur_stack - 2, a))

generate_while(s, g) ==
  LET a == generate_expr(s.condition, g)
      b == IF s.id = -1 THEN emit_byte(OP.WHILE, a)
           ELSE add_var_ref(s.id, emit_extended_byte(EOP.WHILE_ID, a))
      c == pop_stack(1, add_label(b))
  IN generate_body(s, capture_label(g), c.cur_stack, c.cur_stack, c)

generate_try_except(s, g) ==
  LET n == Len(s.excepts)
      Codes(h, i) ==   \* h.labels are the labels of the arms so far
        LET a == add_label(emit_extended_byte(EOP.PUSH_LABEL,
                   generate_codes(s.excepts[i].codes, h.g)))
        IN [g |-> push_stack(1, a), labels |-> Append(h.labels, LastFixup(a))]
      b == FoldLeft(Codes, [g |-> g, labels |-> <<>>], [i \in 1..n |-> i])
      c == push_stack(1, emit_byte(n, emit_extended_byte(EOP.TRY_EXCEPT, b.g)))
      d == add_label(emit_extended_byte(EOP.END_EXCEPT, generate_stmt(s.body, c)))
      Arm(h, i) ==     \* h.end is the chain of jumps to the end
        LET ex == s.excepts[i]
            p  == push_stack(1, define_label(b.labels[i], h.g))
            q  == IF ex.id = -1 THEN p ELSE emit_var_op(OP.PUT, ex.id, p)
            r  == generate_stmt(ex.stmt, pop_stack(1, emit_byte(OP.POP, q)))
            t  == add_linked_label(h.end, emit_byte(OP.JUMP, r))
        IN IF i = n THEN [g |-> r, end |-> h.end] ELSE [g |-> t, end |-> LastFixup(t)]
      f == FoldLeft(Arm, [g |-> pop_stack(2 * n + 1, d), end |-> LastFixup(d)],
                    [i \in 1..n |-> i])
  IN define_label(f.end, f.g)

\* Mutant: no room for the reason and the value that a handler starts with.
generate_try_finally_no_room(s, g) ==
  LET a == add_label(emit_extended_byte(EOP.TRY_FINALLY, g))
      b == emit_extended_byte(EOP.END_FINALLY, generate_stmt(s.body, push_stack(1, a)))
      c == define_label(LastFixup(a), pop_stack(1, b))
  IN emit_extended_byte(EOP.CONTINUE, generate_stmt(s.handler, c))

generate_try_finally(s, g) ==
  LET a == add_label(emit_extended_byte(EOP.TRY_FINALLY, g))
      b == emit_extended_byte(EOP.END_FINALLY, generate_stmt(s.body, push_stack(1, a)))
      c == define_label(LastFixup(a), pop_stack(1, b))
      d == generate_stmt(s.handler, push_stack(2, c))
  IN pop_stack(2, emit_extended_byte(EOP.CONTINUE, d))

generate_exit(s, g) ==
  LET a == IF s.exit = -1 THEN emit_extended_byte(EOP.EXIT, g)
           ELSE add_var_ref(s.exit, emit_extended_byte(EOP.EXIT_ID, g))
      k == IF s.exit = -1 THEN Len(g.loops)
           ELSE SelectLastInSeq(g.loops, LAMBDA l : l.id = s.exit)
      loop == g.loops[k]
  IN IF s.kind = "CONTINUE"
     THEN add_known_label(loop.top_label, add_stack_ref(loop.top_stack, a))
     ELSE LET b == add_linked_label(loop.bottom_label, add_stack_ref(loop.bottom_stack, a))
          IN [b EXCEPT !.loops[k].bottom_label = LastFixup(b)]

RECURSIVE stmt_to_code(_, _)
generate_fork(s, g) ==
  LET a == emit_byte(IF s.id = -1 THEN OP.FORK ELSE OP.FORK_WITH_ID, generate_expr(s.time, g))
      f == stmt_to_code(s.body, a.gstate)
      b == add_fork(f.bc, [a EXCEPT !.gstate = f.gstate])
  IN pop_stack(1, IF s.id = -1 THEN b ELSE add_var_ref(s.id, b))

stmt_code(stmts, g) ==
  LET One(h, s) ==
        CASE s.kind = "COND" -> generate_cond_stmt(s, h)
          [] s.kind = "FOR_LIST" ->
               generate_for(s, OP.FOR_LIST, push_stack(1, emit_num(1, generate_expr(s.expr, h))))
          [] s.kind = "FOR_RANGE" ->
               generate_for(s, OP.FOR_RANGE, generate_expr(s.to, generate_expr(s.from, h)))
          [] s.kind = "WHILE" -> generate_while(s, h)
          [] s.kind = "FORK" -> generate_fork(s, h)
          [] s.kind = "EXPR" -> pop_stack(1, emit_byte(OP.POP, generate_expr(s.expr, h)))
          [] s.kind = "RETURN" ->
               pop_stack(1, emit_byte(OP.RETURN, generate_expr(s.expr, h)))
          [] s.kind = "RETURN0" -> emit_byte(OP.RETURN0, h)
          [] s.kind = "TRY_EXCEPT" -> generate_try_except(s, h)
          [] s.kind = "TRY_FINALLY" -> generate_try_finally(s, h)
          [] s.kind \in {"BREAK", "CONTINUE"} -> generate_exit(s, h)
  IN FoldLeft(One, g, stmts)

generate(what, x, g) == IF what = "EXPR" THEN expr_code(x, g) ELSE stmt_code(x, g)
-----------------------------------------------------------------------------
(* Assembly ****************************************************************)

ref_size(rmax) == IF rmax <= Base THEN 1 ELSE IF rmax <= Base * Base THEN 2 ELSE 4

\* An operand of the given size, the high byte first.
Bytes(value, size) == [i \in 1..size |-> (value \div Base^(size - i)) % Base]

\* The vector of what has been generated; popped is what the code panics without.
Assemble(g) ==
  LET lit  == ref_size(Max({g.max_literal, Len(g.gstate.literals)}))
      fork == ref_size(Max({g.max_fork, Len(g.gstate.fork_vectors)}))
      var  == ref_size(Max({g.max_var_ref, g.gstate.total_var_refs}))
      size == Len(g.bytes) + (lit - 1) * g.num_literals + (fork - 1) * g.num_forks
              + (var - 1) * g.num_var_refs
      label == IF size <= Base THEN 1
               ELSE IF size + g.num_labels <= Base * Base THEN 2 ELSE 4
      stack == ref_size(g.max_stack)
      Size(kind) == CASE kind = "LITERAL" -> lit [] kind = "FORK" -> fork
                      [] kind = "VAR_REF" -> var [] kind = "STACK" -> stack
                      [] kind = "LABEL" -> label
      Value(f) == IF f.kind # "LABEL" THEN f.value
                  ELSE f.value + f.prev.literals * (lit - 1) + f.prev.forks * (fork - 1)
                       + f.prev.var_refs * (var - 1) + f.prev.labels * (label - 1)
                       + f.prev.stacks * (stack - 1)
      Place(old) == SelectInSeq(g.fixups, LAMBDA f : f.pc = old - 1)
      Item(old) == IF Place(old) = 0 THEN <<g.bytes[old]>>
                   ELSE LET f == g.fixups[Place(old)] IN Bytes(Value(f), Size(f.kind))
  IN [bc |-> [vector |-> FlattenSeq([old \in DOMAIN g.bytes |-> Item(old)]),
              size |-> size + (label - 1) * g.num_labels,
              numbytes_literal |-> lit, numbytes_fork |-> fork, numbytes_var_name |-> var,
              numbytes_label |-> label, numbytes_stack |-> stack,
              max_stack |-> g.max_stack,
              popped |-> g.cur_stack = 0 /\ g.saved_stack = NoStack],
      gstate |-> g.gstate]

stmt_to_code(stmts, gs) == Assemble(emit_byte(OP.DONE, generate_stmt(stmts, init_state(gs))))

\* The Program of a verb.
ProgramOf(r) == [main_vector |-> r.bc, literals |-> r.gstate.literals,
                 fork_vectors |-> r.gstate.fork_vectors]
generate_code(stmts) == ProgramOf(stmt_to_code(stmts, init_gstate))
=============================================================================
