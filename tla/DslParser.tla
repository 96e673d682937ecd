----------------------------- MODULE DslParser -----------------------------
(***************************************************************************)
(* The mapping DSL's parser (dsl_engine/parser.rs) over lexemes. A rule is *)
(* given as the sequence of its lexemes after nom's multispace0 calls have *)
(* dropped the whitespace between them: function names (alpha1), "source." *)
(* field references, quoted strings, digit runs, parentheses, commas and   *)
(* comparison operators. Every parser returns an Option of <<ast, rest>>,  *)
(* the AST and the unconsumed lexemes, None for a nom error.               *)
(***************************************************************************)
EXTENDS Integers, Sequences, TypedValue

\* Lexemes. A digit run carries whether its value fits an i64 and, if so,
\* the value.
IdentTok(n) == <<"ident", n>>
FieldTok(n) == <<"field", n>>
StrTok(s) == <<"strlit", s>>
NumTok(fits, n) == <<"num", fits, n>>
OpTok(o) == <<"op", o>>
LP == <<"punct", "(">>
RP == <<"punct", ")">>
Comma == <<"punct", ",">>

Kindof(tok) == tok[1]

\* ast.rs Expr, as tuples led by the variant.
Field(n) == <<"Field", n>>
StringLiteral(s) == <<"StringLiteral", s>>
NumberLiteral(n) == <<"NumberLiteral", n>>
FuncCall(name, args) == <<"FuncCall", name, args>>
Compare(l, op, r) == <<"Compare", l, op, r>>

\* The CompareOp variants.
CompareOps == {"Eq", "Ne", "Gt", "Lt", "Ge", "Le"}

Ok(ast, rest) == Some(<<ast, rest>>)
AstOf(res) == res[1][1]
RestOf(res) == res[1][2]

StartsWith(ts, k) == ts # <<>> /\ Kindof(Head(ts)) = k

\* parse_field, parse_string_literal: one lexeme each.
ParseField(ts) ==
    IF StartsWith(ts, "field") THEN Ok(Field(Head(ts)[2]), Tail(ts)) ELSE None

ParseStringLiteral(ts) ==
    IF StartsWith(ts, "strlit") THEN Ok(StringLiteral(Head(ts)[2]), Tail(ts))
    ELSE None

\* parse_number_literal: num_str.parse::<i64>().unwrap_or(0).
ParseNumberLiteral(ts) ==
    IF StartsWith(ts, "num")
    THEN Ok(NumberLiteral(IF Head(ts)[2] THEN Head(ts)[3] ELSE 0), Tail(ts))
    ELSE None

\* Mutant: ">" and ">=" swapped in the match.
OpOfSwapped(text) == CASE text = "==" -> "Eq" [] text = "!=" -> "Ne"
                       [] text = ">" -> "Ge"  [] text = "<" -> "Lt"
                       [] text = ">=" -> "Gt" [] text = "<=" -> "Le"

\* parse_compare_op: the operator's text to its CompareOp.
OpOf(text) == CASE text = "==" -> "Eq" [] text = "!=" -> "Ne"
                [] text = ">" -> "Gt"  [] text = "<" -> "Lt"
                [] text = ">=" -> "Ge" [] text = "<=" -> "Le"

ParseCompareOp(ts) ==
    IF StartsWith(ts, "op") THEN Some(<<OpOf(Head(ts)[2]), Tail(ts)>>)
    ELSE None

\* The first alternative of a nom alt that succeeds.
RECURSIVE FirstOk(_)
FirstOk(results) ==
    IF results = <<>> THEN None
    ELSE IF Head(results) # None THEN Head(results) ELSE FirstOk(Tail(results))

RECURSIVE ParseExpr(_), ParseAtom(_), ParseFuncCall(_), ParseArgsMore(_, _)

\* alt((parse_func_call, parse_field, parse_string_literal,
\*      parse_number_literal))
ParseAtom(ts) ==
    FirstOk(<<ParseFuncCall(ts), ParseField(ts), ParseStringLiteral(ts),
              ParseNumberLiteral(ts)>>)

\* parse_expr: an atom, then optionally an operator and a second atom; once
\* the operator is read, a missing right atom fails the whole expression.
ParseExpr(ts) ==
    LET left == ParseAtom(ts)
        op == IF left = None THEN None ELSE ParseCompareOp(RestOf(left))
        right == IF op = None THEN None ELSE ParseAtom(op[1][2])
    IN CASE left = None -> None
         [] op = None -> left
         [] right = None -> None
         [] OTHER -> Ok(Compare(AstOf(left), op[1][1], AstOf(right)),
                        RestOf(right))

\* separated_list0's loop after the first element: a separator followed by
\* an element extends the list, otherwise the list ends before the separator.
ParseArgsMore(args, ts) ==
    LET next == IF StartsWith(ts, "punct") /\ Head(ts) = Comma
                THEN ParseExpr(Tail(ts)) ELSE None
    IN IF next = None THEN <<args, ts>>
       ELSE ParseArgsMore(Append(args, AstOf(next)), RestOf(next))

\* parse_func_call: alpha1, "(", separated_list0(",", parse_expr), ")".
ParseFuncCall(ts) ==
    IF Len(ts) < 2 \/ Kindof(ts[1]) # "ident" \/ ts[2] # LP THEN None
    ELSE LET first == ParseExpr(Tail(Tail(ts)))
             list == IF first = None THEN <<<<>>, Tail(Tail(ts))>>
                     ELSE ParseArgsMore(<<AstOf(first)>>, RestOf(first))
         IN IF StartsWith(list[2], "punct") /\ Head(list[2]) = RP
            THEN Ok(FuncCall(ts[1][2], list[1]), Tail(list[2]))
            ELSE None

\* Mutant: the remainder is not checked.
CompileDslNoRemainder(ts) ==
    LET res == ParseExpr(ts)
    IN IF res # None THEN Some(AstOf(res)) ELSE None

\* compile_dsl: parse_expr must consume the whole rule.
CompileDsl(ts) ==
    LET res == ParseExpr(ts)
    IN IF res # None /\ RestOf(res) = <<>> THEN Some(AstOf(res)) ELSE None

-----------------------------------------------------------------------------
(***************************************************************************)
(* References for checking the parser: the lexemes of an AST, and the      *)
(* language of the grammar in spec section 4.1 as a recognizer over        *)
(* lexemes, written from the EBNF and not from parser.rs.                  *)
(***************************************************************************)
OpText(op) == CASE op = "Eq" -> "==" [] op = "Ne" -> "!="
                [] op = "Gt" -> ">"  [] op = "Lt" -> "<"
                [] op = "Ge" -> ">=" [] op = "Le" -> "<="

RECURSIVE Lexemes(_), LexemesOfArgs(_)
LexemesOfArgs(args) ==
    IF args = <<>> THEN <<>>
    ELSE IF Len(args) = 1 THEN Lexemes(Head(args))
    ELSE Lexemes(Head(args)) \o <<Comma>> \o LexemesOfArgs(Tail(args))

Lexemes(e) ==
    CASE e[1] = "Field" -> <<FieldTok(e[2])>>
      [] e[1] = "StringLiteral" -> <<StrTok(e[2])>>
      [] e[1] = "NumberLiteral" -> <<NumTok(TRUE, e[2])>>
      [] e[1] = "FuncCall" -> <<IdentTok(e[2]), LP>> \o LexemesOfArgs(e[3]) \o <<RP>>
      [] e[1] = "Compare" -> Lexemes(e[2]) \o <<OpTok(OpText(e[3]))>> \o Lexemes(e[4])

\* atom := call | field | string_lit | number_lit
\* call := ident "(" [expr {"," expr}] ")"
\* expr := call | compare | atom ;  compare := atom cmpop atom
RECURSIVE IsExpr(_), IsAtom(_), IsArgList(_)
IsAtom(ts) ==
    \/ Len(ts) = 1 /\ Kindof(ts[1]) \in {"field", "strlit", "num"}
    \/ /\ Len(ts) >= 3
       /\ Kindof(ts[1]) = "ident" /\ ts[2] = LP /\ ts[Len(ts)] = RP
       /\ IsArgList(SubSeq(ts, 3, Len(ts) - 1))

IsArgList(ts) ==
    \/ ts = <<>>
    \/ IsExpr(ts)
    \/ \E i \in 2 .. Len(ts) - 1 :
          /\ ts[i] = Comma
          /\ IsExpr(SubSeq(ts, 1, i - 1))
          /\ IsArgList(SubSeq(ts, i + 1, Len(ts)))
          /\ SubSeq(ts, i + 1, Len(ts)) # <<>>

IsExpr(ts) ==
    \/ IsAtom(ts)
    \/ \E i \in 2 .. Len(ts) - 1 :
          /\ Kindof(ts[i]) = "op"
          /\ IsAtom(SubSeq(ts, 1, i - 1))
          /\ IsAtom(SubSeq(ts, i + 1, Len(ts)))
=============================================================================
