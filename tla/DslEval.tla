------------------------------ MODULE DslEval ------------------------------
(***************************************************************************)
(* The mapping DSL's evaluator (dsl_engine/evaluator.rs), its function     *)
(* registry (registry.rs) and the built-in functions (functions.rs).       *)
(* Functions receive their argument expressions unevaluated and force     *)
(* them through eval_fn, so evaluation is modelled together with the set   *)
(* of AST positions it visits: a position is the sequence of child indices *)
(* from the root (argument i of a call, 1 and 2 for a comparison's sides). *)
(* A DSL string is a sequence of letters.                                  *)
(***************************************************************************)
EXTENDS Integers, Sequences, TLC, DslParser

\* str::to_uppercase on the letters of the model.
UpperCase == ("x" :> "X") @@ ("y" :> "Y")
ToUpper(s) == [i \in DOMAIN s |->
                 IF s[i] \in DOMAIN UpperCase THEN UpperCase[s[i]] ELSE s[i]]

\* serde_json accessors: as_str, as_bool, as_i64.
AsStr(v) == IF Kind(v) = "str" THEN Some(Val(v)) ELSE None
AsBool(v) == IF Kind(v) = "bool" THEN Some(Val(v)) ELSE None
AsI64(v) == IF Kind(v) = "int" THEN Some(Val(v)) ELSE None

\* x.unwrap_or(d) on an Option.
UnwrapOr(x, d) == IF x = None THEN d ELSE x[1]

\* FunctionRegistry::new: the four built-ins under their names.
Registry == [n \in {"upper", "concat", "coalesce", "if"} |-> "op_" \o n]

\* A value together with the positions evaluated to produce it.
Res(v, ev) == [v |-> v, ev |-> ev]

\* eval_field: ctx.source.get(key), Null when absent or not an object.
EvalField(name, src) ==
    IF Kind(src) = "obj" /\ name \in DOMAIN Val(src) THEN Val(src)[name]
    ELSE JNull

\* eval_literal: a string or number literal's JSON value.
EvalLiteral(e) == IF e[1] = "StringLiteral" THEN JStr(e[2]) ELSE JInt(e[2])

\* The comparison of two evaluated sides (eval_compare).
CompareValues(l, op, r) ==
    LET il == AsI64(l)
        ir == AsI64(r)
        both == il # None /\ ir # None
    IN JBool(CASE op = "Eq" -> l = r
               [] op = "Ne" -> l # r
               [] op = "Gt" -> both /\ il[1] > ir[1]
               [] op = "Lt" -> both /\ il[1] < ir[1]
               [] op = "Ge" -> both /\ il[1] >= ir[1]
               [] op = "Le" -> both /\ il[1] <= ir[1])

RECURSIVE Eval(_, _, _), EvalCall(_, _, _, _), CoalesceFrom(_, _, _, _, _),
          CoalesceFromAll(_, _, _, _, _), OpUpper(_, _, _), OpConcat(_, _, _),
          OpIfEager(_, _, _), OpIf(_, _, _)

\* Argument i of the call at position p.
EvalArg(args, i, p, src) == Eval(args[i], p \o <<i>>, src)

\* Mutant: a non-string argument gives Null instead of "".
OpUpperNullOnNonString(args, p, src) ==
    IF args = <<>> THEN Res(JNull, {})
    ELSE LET a == EvalArg(args, 1, p, src)
         IN Res(IF AsStr(a.v) = None THEN JNull ELSE JStr(ToUpper(AsStr(a.v)[1])),
                a.ev)

\* op_upper: Null without arguments, else the first one's string (or "")
\* uppercased.
OpUpper(args, p, src) ==
    IF args = <<>> THEN Res(JNull, {})
    ELSE LET a == EvalArg(args, 1, p, src)
         IN Res(JStr(ToUpper(UnwrapOr(AsStr(a.v), <<>>))), a.ev)

\* op_concat: Null with fewer than two arguments, else the first two's
\* strings (or "") joined; further arguments are ignored.
OpConcat(args, p, src) ==
    IF Len(args) < 2 THEN Res(JNull, {})
    ELSE LET a == EvalArg(args, 1, p, src)
             b == EvalArg(args, 2, p, src)
         IN Res(JStr(UnwrapOr(AsStr(a.v), <<>>) \o UnwrapOr(AsStr(b.v), <<>>)),
                a.ev \cup b.ev)

\* Mutant: every argument is evaluated, the first non-null one returned.
CoalesceFromAll(args, i, p, src, ev) ==
    IF i > Len(args) THEN Res(JNull, ev)
    ELSE LET a == EvalArg(args, i, p, src)
             rest == CoalesceFromAll(args, i + 1, p, src, ev \cup a.ev)
         IN IF a.v # JNull THEN Res(a.v, rest.ev) ELSE rest

\* op_coalesce's loop from argument i on, ev the positions visited so far:
\* the first non-null value returns at once.
CoalesceFrom(args, i, p, src, ev) ==
    IF i > Len(args) THEN Res(JNull, ev)
    ELSE LET a == EvalArg(args, i, p, src)
         IN IF a.v # JNull THEN Res(a.v, ev \cup a.ev)
            ELSE CoalesceFrom(args, i + 1, p, src, ev \cup a.ev)

\* Mutant: both branches are evaluated before one is chosen.
OpIfEager(args, p, src) ==
    IF Len(args) # 3 THEN Res(JNull, {})
    ELSE LET c == EvalArg(args, 1, p, src)
             t == EvalArg(args, 2, p, src)
             f == EvalArg(args, 3, p, src)
         IN Res(IF UnwrapOr(AsBool(c.v), FALSE) THEN t.v ELSE f.v,
                c.ev \cup t.ev \cup f.ev)

\* op_if: Null unless there are exactly three arguments; the condition is
\* evaluated, then only the branch as_bool().unwrap_or(false) selects.
OpIf(args, p, src) ==
    IF Len(args) # 3 THEN Res(JNull, {})
    ELSE LET c == EvalArg(args, 1, p, src)
             branch == IF UnwrapOr(AsBool(c.v), FALSE)
                       THEN EvalArg(args, 2, p, src) ELSE EvalArg(args, 3, p, src)
         IN Res(branch.v, c.ev \cup branch.ev)

\* registry.call(name, args, &eval_fn) from eval_call; an unknown name is
\* an Err that eval_call turns into Null.
EvalCall(name, args, p, src) ==
    LET fn == IF name \in DOMAIN Registry THEN Registry[name] ELSE "unknown"
    IN CASE fn = "op_upper" -> OpUpper(args, p, src)
         [] fn = "op_concat" -> OpConcat(args, p, src)
         [] fn = "op_coalesce" -> CoalesceFrom(args, 1, p, src, {})
         [] fn = "op_if" -> OpIf(args, p, src)
         [] OTHER -> Res(JNull, {})

\* eval_expr at position p: the node's value, p and what it evaluated.
Eval(e, p, src) ==
    LET r == CASE e[1] = "Field" -> Res(EvalField(e[2], src), {})
               [] e[1] \in {"StringLiteral", "NumberLiteral"} -> Res(EvalLiteral(e), {})
               [] e[1] = "FuncCall" -> EvalCall(e[2], e[3], p, src)
               [] e[1] = "Compare" ->
                    LET l == Eval(e[2], p \o <<1>>, src)
                        rr == Eval(e[4], p \o <<2>>, src)
                    IN Res(CompareValues(l.v, e[3], rr.v), l.ev \cup rr.ev)
    IN Res(r.v, {p} \cup r.ev)

\* Evaluator::eval, the entry process_row calls: the same dispatch as
\* eval_expr, at the root.
EvaluatorEval(e, src) == Eval(e, <<>>, src)

-----------------------------------------------------------------------------
(***************************************************************************)
(* Reference: call-by-value evaluation. Every argument is evaluated first  *)
(* and each function is applied to the values, as spec section 4.2         *)
(* describes the built-ins on values.                                      *)
(***************************************************************************)
RECURSIVE FirstNonNull(_)
FirstNonNull(vs) ==
    IF vs = <<>> THEN JNull
    ELSE IF Head(vs) # JNull THEN Head(vs) ELSE FirstNonNull(Tail(vs))

ApplyByValue(name, vs) ==
    CASE name = "upper" /\ Len(vs) >= 1 ->
            JStr(ToUpper(UnwrapOr(AsStr(vs[1]), <<>>)))
      [] name = "concat" /\ Len(vs) >= 2 ->
            JStr(UnwrapOr(AsStr(vs[1]), <<>>) \o UnwrapOr(AsStr(vs[2]), <<>>))
      [] name = "coalesce" -> FirstNonNull(vs)
      [] name = "if" /\ Len(vs) = 3 ->
            IF vs[1] = JBool(TRUE) THEN vs[2] ELSE vs[3]
      [] OTHER -> JNull

RECURSIVE StrictEval(_, _)
StrictEval(e, src) ==
    CASE e[1] = "Field" -> EvalField(e[2], src)
      [] e[1] = "StringLiteral" -> JStr(e[2])
      [] e[1] = "NumberLiteral" -> JInt(e[2])
      [] e[1] = "FuncCall" ->
            ApplyByValue(e[2], [i \in DOMAIN e[3] |-> StrictEval(e[3][i], src)])
      [] e[1] = "Compare" ->
            CompareValues(StrictEval(e[2], src), e[3], StrictEval(e[4], src))

\* The subexpression at position p.
RECURSIVE NodeAt(_, _)
NodeAt(e, p) ==
    IF p = <<>> THEN e
    ELSE IF e[1] = "FuncCall" THEN NodeAt(e[3][Head(p)], Tail(p))
    ELSE NodeAt(IF Head(p) = 1 THEN e[2] ELSE e[4], Tail(p))
=============================================================================
