----------------------------- MODULE DslEngine -----------------------------
(***************************************************************************)
(* SyncEngine (dsl_engine/evaluator.rs): SyncEngine::new compiles a        *)
(* mapping rule with compile_dsl, dropping it when it does not compile,    *)
(* and process_row evaluates the compiled rule against one source record   *)
(* after another. One target field and its rule are modelled; rules are    *)
(* independent of each other.                                              *)
(***************************************************************************)
EXTENDS Integers, Sequences, DslEval

CONSTANTS
    Rules,    \* the rules a user may write, as lexeme sequences
    Records   \* the source records

VARIABLES
    rule,     \* the rule of the target field
    engine,   \* "new" before SyncEngine::new, "ready" after
    mapping,  \* Some(ast) when the rule compiled, None when it was dropped
    src,      \* the record process_row was last given
    out       \* Some of process_row's value and visited positions, or None

vars == <<rule, engine, mapping, src, out>>

Init ==
    /\ rule \in Rules
    /\ engine = "new"
    /\ mapping = None
    /\ src = JNull
    /\ out = None

\* SyncEngine::new: compile_dsl(&rule), insert on Ok, log and drop on Err.
New ==
    /\ engine = "new"
    /\ engine' = "ready"
    /\ mapping' = CompileDsl(rule)
    /\ UNCHANGED <<rule, src, out>>

\* Mutant: a dropped rule gives the target field Null.
ProcessRowNullForDropped(r) ==
    /\ engine = "ready"
    /\ src' = r
    /\ out' = IF mapping = None THEN Some(Res(JNull, {}))
              ELSE Some(EvaluatorEval(mapping[1], r))
    /\ UNCHANGED <<rule, engine, mapping>>

\* process_row(source_row): the rule's value for the record; a dropped rule
\* has no entry in the target row.
ProcessRow(r) ==
    /\ engine = "ready"
    /\ src' = r
    /\ out' = IF mapping = None THEN None ELSE Some(EvaluatorEval(mapping[1], r))
    /\ UNCHANGED <<rule, engine, mapping>>

Next == New \/ \E r \in Records : ProcessRow(r)

Spec == Init /\ [][Next]_vars

-----------------------------------------------------------------------------
\* Types; a value is produced only for a rule that compiled.
TypeOK ==
    /\ out # None => mapping # None
    /\ rule \in Rules
    /\ engine \in {"new", "ready"}
    /\ mapping = None \/ Len(mapping) = 1
    /\ src \in Records \cup {JNull}
    /\ out = None \/ DOMAIN out[1] = {"v", "ev"}

\* The evaluated rule, and the positions of the calls to f it evaluated.
Ast == mapping[1]
Visited == out[1].ev
CallsTo(f) == {p \in Visited : NodeAt(Ast, p)[1] = "FuncCall"
                                /\ NodeAt(Ast, p)[2] = f}

\* compile_dsl accepts exactly the rules of the grammar of spec section 4.1:
\* parse_expr's alternatives, the optional comparison, separated_list0 and
\* the remainder check agree with the EBNF on every rule.
ParserAcceptsGrammar ==
    engine = "ready" => (mapping # None <=> IsExpr(rule))

\* A compiled rule is the rule that was written: writing its AST back out
\* gives the rule's lexemes (no literal, operator or argument is altered
\* or lost by the parser).
ParseRoundTrip ==
    mapping # None => Lexemes(Ast) = rule

\* if(cond, a, b) forces cond and exactly one branch, the one cond selects
\* (op_if's lazy evaluation, spec section 4.2's one hard invariant).
IfOnlySelectedBranch ==
    out # None =>
        \A p \in CallsTo("if") :
            Len(NodeAt(Ast, p)[3]) = 3 =>
                LET cond == StrictEval(NodeAt(Ast, p \o <<1>>), src)
                IN /\ p \o <<1>> \in Visited
                   /\ (p \o <<2>> \in Visited) <=> cond = JBool(TRUE)
                   /\ (p \o <<3>> \in Visited) <=> cond # JBool(TRUE)

\* coalesce(a1, ..., an) forces its arguments in order and stops at the
\* first non-null one (op_coalesce's loop and early return).
CoalesceStopsAtFirstNonNull ==
    out # None =>
        \A p \in CallsTo("coalesce") :
            LET args == NodeAt(Ast, p)[3]
            IN \A i \in DOMAIN args :
                 (p \o <<i>> \in Visited) <=>
                    \A j \in 1 .. i - 1 : StrictEval(args[j], src) = JNull

\* Lazy evaluation changes no value: process_row gives what evaluating
\* every argument first and applying the function to the values gives.
LazyAgreesWithStrict ==
    out # None => out[1].v = StrictEval(Ast, src)
=============================================================================
