------------------------------- MODULE Values -------------------------------
(***************************************************************************)
(* The values of MOO programs and the operations on them that the          *)
(* instructions of execute.c perform.  A value is a pair of a type and its *)
(* contents; Fail(e) is an operation that fails with the error e, which is *)
(* not the same as one whose value is that error.  Numbers are integers;   *)
(* strings are only names of verbs and properties; floats and waifs are    *)
(* left out.                                                               *)
(***************************************************************************)
EXTENDS Integers, Sequences, SequencesExt

Int0(n)  == <<"INT", n>>
Err(e)   == <<"ERR", e>>
Obj(o)   == <<"OBJ", o>>
Str(x)   == <<"STR", x>>
List(s)  == <<"LIST", s>>
Fail(e)  == <<"FAIL", e>>
NONE     == <<"NONE", 0>>   \* a variable without a value
zero     == Int0(0)

IsList(v) == v[1] = "LIST"
IsInt(v)  == v[1] = "INT"

is_true(v) == \/ v[1] = "INT" /\ v[2] # 0
              \/ v[1] = "STR" /\ v[2] # ""
              \/ v[1] = "LIST" /\ v[2] # <<>>

Bool(b) == IF b THEN Int0(1) ELSE zero

\* ismember(): the first place of a value in a list, 0 if it has none.
ismember(v, list) == SelectInSeq(list[2], LAMBDA x : x = v)

sublist(list, lower, upper) == List(SubSeq(list[2], lower, upper))

\* OP_EQ, OP_IN and OP_ADD stand for the binary operators.
Binary(op, lhs, rhs) ==
  CASE op = "EQ" -> Bool(lhs = rhs)
    [] op = "IN" -> IF IsList(rhs) THEN Int0(ismember(lhs, rhs)) ELSE Fail("E_TYPE")
    [] op = "PLUS" -> IF IsInt(lhs) /\ IsInt(rhs) THEN Int0(lhs[2] + rhs[2])
                      ELSE Fail("E_TYPE")

\* OP_REF and OP_PUSH_REF
Ref(list, index) ==
  IF ~IsInt(index) \/ ~IsList(list) THEN Fail("E_TYPE")
  ELSE IF index[2] \notin DOMAIN list[2] THEN Fail("E_RANGE")
  ELSE list[2][index[2]]

\* OP_RANGE_REF: an empty range may lie anywhere.
RangeRef(base, from, to) ==
  IF ~IsList(base) \/ ~IsInt(to) \/ ~IsInt(from) THEN Fail("E_TYPE")
  ELSE IF from[2] <= to[2] /\ ~({from[2], to[2]} \subseteq DOMAIN base[2])
       THEN Fail("E_RANGE")
  ELSE sublist(base, from[2], to[2])

\* OP_INDEXSET
IndexSet(list, index, value) ==
  IF ~IsList(list) \/ ~IsInt(index) THEN Fail("E_TYPE")
  ELSE IF index[2] \notin DOMAIN list[2] THEN Fail("E_RANGE")
  ELSE List([list[2] EXCEPT ![index[2]] = value])

\* EOP_RANGESET with rangeset_check() and listrangeset()
RangeSet(base, from, to, value) ==
  IF ~IsInt(to) \/ ~IsInt(from) \/ ~IsList(base) \/ ~IsList(value) THEN Fail("E_TYPE")
  ELSE IF from[2] > Len(base[2]) + 1 \/ to[2] < 0 THEN Fail("E_RANGE")
  ELSE List(SubSeq(base[2], 1, from[2] - 1) \o value[2]
            \o SubSeq(base[2], to[2] + 1, Len(base[2])))

\* EOP_LENGTH
Length(base) == IF IsList(base) THEN Int0(Len(base[2])) ELSE Fail("E_TYPE")

\* OP_LIST_ADD_TAIL and OP_LIST_APPEND
ListAddTail(list, tail) ==
  IF IsList(list) THEN List(Append(list[2], tail)) ELSE Fail("E_TYPE")
ListAppend(list, tail) ==
  IF IsList(list) /\ IsList(tail) THEN List(list[2] \o tail[2]) ELSE Fail("E_TYPE")

\* OP_GET_PROP, OP_PUSH_GET_PROP and the checks of OP_PUT_PROP: there is one
\* valid object, 0, with the properties in prop; permissions are left out.
GetProp(prop, obj, name) ==
  IF name[1] # "STR" \/ obj[1] # "OBJ" THEN Fail("E_TYPE")
  ELSE IF obj[2] # 0 THEN Fail("E_INVIND")
  ELSE IF name[2] \notin DOMAIN prop THEN Fail("E_PROPNF")
  ELSE prop[name[2]]

\* The checks of OP_CALL_VERB before call_verb2(), with the names of the verbs
\* that object 0 has.
VerbFault(obj, verb, args, names) ==
  IF verb[1] # "STR" \/ ~IsList(args) \/ obj[1] # "OBJ" THEN "E_TYPE"
  ELSE IF obj[2] # 0 THEN "E_INVIND"
  ELSE IF verb[2] \notin names THEN "E_VERBNF"
  ELSE "E_NONE"

\* OP_CHECK_LIST_FOR_SPLICE
CheckSplice(v) == IF IsList(v) THEN v ELSE Fail("E_TYPE")
=============================================================================
