---------------------------- MODULE MC_DslEngine ----------------------------
(***************************************************************************)
(* DslEngine for TLC. Rules are the lexemes of a bounded set of ASTs: every *)
(* call of the four built-ins and of an unknown name on up to two atoms,   *)
(* comparisons, if with compared and plain conditions, and nested calls;   *)
(* plus every rule with one lexeme left out, which gives malformed rules   *)
(* and, where a lone argument is left out, other well-formed ones.         *)
(***************************************************************************)
EXTENDS DslEngine, TLC

X == <<"x">>
Atoms == {Field("a"), Field("b"), StringLiteral(X), NumberLiteral(1)}
Names == {"upper", "concat", "coalesce", "if", "nope"}

Calls == {FuncCall(n, args) :
            n \in Names, args \in {<<>>} \cup {<<a>> : a \in Atoms}
                                  \cup {<<a, b>> : a, b \in Atoms}}

Compares == {Compare(l, o, r) : l \in {Field("a"), NumberLiteral(1)},
                                o \in {"Eq", "Gt", "Ge"},
                                r \in {Field("a"), NumberLiteral(1), StringLiteral(X)}}

Ifs == {FuncCall("if", <<c, t, f>>) :
          c \in Compares \cup {Field("a")},
          t \in {StringLiteral(X), Field("b")},
          f \in {NumberLiteral(1), FuncCall("upper", <<Field("a")>>)}}

Nested ==
    {FuncCall("upper", <<FuncCall("concat", <<Field("a"), StringLiteral(X)>>)>>),
     FuncCall("coalesce", <<Field("b"),
                            FuncCall("if", <<Compare(Field("a"), "Eq", NumberLiteral(1)),
                                             StringLiteral(X), Field("b")>>),
                            Field("a")>>),
     FuncCall("if", <<Compare(FuncCall("coalesce", <<Field("b"), Field("a")>>),
                              "Ge", NumberLiteral(1)),
                      StringLiteral(X), NumberLiteral(1)>>),
     FuncCall("coalesce", <<FuncCall("if", <<Field("a"), Field("b"), Field("b")>>),
                            FuncCall("upper", <<Field("b")>>)>>)}

Asts == Atoms \cup Calls \cup Compares \cup Ifs \cup Nested

DropOne(ts) == {SubSeq(ts, 1, i - 1) \o SubSeq(ts, i + 1, Len(ts)) : i \in DOMAIN ts}

MCRules == UNION {{Lexemes(e)} \cup DropOne(Lexemes(e)) : e \in Asts}

MCRecords == {JObj([a |-> JStr(X)]), JObj([a |-> JInt(1)]), JObj([a |-> JInt(0)]),
              JObj([a |-> JBool(TRUE)]), JObj([a |-> JNull]), JArr(<<>>)}
=============================================================================
