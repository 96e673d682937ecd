----------------------------- MODULE TypedValue -----------------------------
(***************************************************************************)
(* The values the sync pipeline handles (core/server.rs):                  *)
(*   - serde_json::Value, the raw record fields fetched from the API;      *)
(*   - extract_by_path, the lookup of a column's raw value in a record     *)
(*     and of the record array in the response;                            *)
(*   - to_typed_value, the coercion of a raw value to a TypedVal bind      *)
(*     value according to the column's declared type.                     *)
(* Strings are drawn from the small set Str; each string's fate under      *)
(* Rust's parsers is given by ParseI64/ParseF64/ParseTs below. A path is   *)
(* given in its split form (its separators already applied).               *)
(***************************************************************************)
EXTENDS Integers, Sequences, TLC

\* serde_json::Value, as a tuple led by its kind (so that values of
\* different kinds compare unequal). Numbers are i64 integers ("int") or
\* numbers with a fractional part ("frac", named by their decimal text).
JNull == <<"null", "null">>
JBool(b) == <<"bool", b>>
JInt(n) == <<"int", n>>
JFrac(x) == <<"frac", x>>
JStr(s) == <<"str", s>>
JArr(s) == <<"arr", s>>
JObj(f) == <<"obj", f>>

\* The kind of a JSON value and what it holds.
Kind(v) == v[1]
Val(v) == v[2]

\* An Option<T> is a sequence of length 0 (None) or 1 (Some).
None == <<>>
Some(x) == <<x>>

\* The strings records carry in the model.
Str == {"7", "-3", "1", "4.5", "true", "abc",
        "2024-01-02 03:04:05", "2024-01-02 03:04:05.250", "2024-01-02"}

\* s.parse::<i64>(): Some(n), or None for an Err.
ParseI64(s) == CASE s = "7" -> Some(7) [] s = "-3" -> Some(-3)
                 [] s = "1" -> Some(1)
                 [] OTHER -> None

\* An f64 is named by its shortest decimal text ("7.0", "4.5").
F64OfInt(n) == ToString(n) \o ".0"

\* s.parse::<f64>(): integers and decimal fractions.
ParseF64(s) == CASE s = "4.5" -> Some("4.5")
                 [] ParseI64(s) # None -> Some(F64OfInt(ParseI64(s)[1]))
                 [] OTHER -> None

\* NaiveDateTime::parse_from_str(s, "%Y-%m-%d %H:%M:%S"), and failing that
\* with "%Y-%m-%d %H:%M:%S%.f": a date alone matches neither layout.
ParseTs(s) == IF s \in {"2024-01-02 03:04:05", "2024-01-02 03:04:05.250"}
              THEN Some(s) ELSE None

\* Value::as_i64 then as_str().parse::<i64>(), the two ways to an i64.
IntOf(v) == CASE Kind(v) = "int" -> Some(Val(v))
              [] Kind(v) = "str" -> ParseI64(Val(v))
              [] OTHER -> None

\* Value::as_f64 (true of every JSON number) then as_str().parse::<f64>().
FloatOf(v) == CASE Kind(v) = "int" -> Some(F64OfInt(Val(v)))
                [] Kind(v) = "frac" -> Some(Val(v))
                [] Kind(v) = "str" -> ParseF64(Val(v))
                [] OTHER -> None

\* serde_json::to_string(v), also Value's Display (v.to_string()).
\* Strings in Str contain no character that needs escaping. Arrays and
\* objects are kept as their own encoding: records carry scalar fields.
JsonText(v) == CASE Kind(v) = "null" -> "null"
                 [] Kind(v) = "bool" -> IF Val(v) THEN "true" ELSE "false"
                 [] Kind(v) = "int" -> ToString(Val(v))
                 [] Kind(v) = "frac" -> Val(v)
                 [] Kind(v) = "str" -> "\"" \o Val(v) \o "\""
                 [] OTHER -> <<"json", v>>

(***************************************************************************)
(* to_typed_value(v, ty): the TypedVal a raw value binds as, or an error   *)
(* (which aborts the sync job). ty is the column_types entry, "unset"      *)
(* when the column has none; unknown type names fall through to text.      *)
(* Opt* variants and Text carry an Option, the others a plain value.       *)
(***************************************************************************)
Coerced(tag, x) == [ok |-> TRUE, tv |-> [tag |-> tag, v |-> x]]
CoerceError == [ok |-> FALSE]

ToTypedValue(v, ty) ==
    CASE ty = "int" ->
            CASE v = JNull -> Coerced("OptI64", None)
              [] IntOf(v) # None -> Coerced("I64", IntOf(v)[1])
              [] OTHER -> CoerceError
      [] ty = "float" ->
            CASE v = JNull -> Coerced("OptF64", None)
              [] FloatOf(v) # None -> Coerced("F64", FloatOf(v)[1])
              [] OTHER -> CoerceError
      [] ty = "bool" ->
            CASE v = JNull -> Coerced("OptBool", None)
              [] Kind(v) = "bool" -> Coerced("Bool", Val(v))
              [] Kind(v) = "str" /\ Val(v) \in {"true", "1"} -> Coerced("Bool", TRUE)
              [] Kind(v) = "str" /\ Val(v) \in {"false", "0"} -> Coerced("Bool", FALSE)
              [] OTHER -> CoerceError
      [] ty = "json" -> Coerced("Text", Some(JsonText(v)))
      [] ty = "timestamp" ->
            CASE v = JNull -> Coerced("OptNaiveTs", None)
              [] Kind(v) = "str" /\ ParseTs(Val(v)) # None ->
                    Coerced("OptNaiveTs", ParseTs(Val(v)))
              [] OTHER -> CoerceError
      [] OTHER ->
            CASE v = JNull -> Coerced("Text", None)
              [] Kind(v) = "str" -> Coerced("Text", Some(Val(v)))
              [] OTHER -> Coerced("Text", Some(JsonText(v)))

\* What the database receives for a TypedVal: None is SQL NULL (<<>>),
\* a value x is <<x>>.
SqlValue(tv) == IF tv.tag \in {"I64", "F64", "Bool"} THEN <<tv.v>> ELSE tv.v

(***************************************************************************)
(* extract_by_path(root, path). A path is a record: kind "root" for "" and *)
(* "/", "ptr" for a JSON pointer (Value::pointer, strict array indices:    *)
(* no sign, no leading zero), "dot" for a dot path (usize::from_str        *)
(* indices, which accept "+1" and "01"); segs are its segments.            *)
(* The result is an Option of the value found.                             *)
(***************************************************************************)
IndexOf(seg, strict) ==
    CASE seg = "0" -> 0
      [] seg = "1" -> 1
      [] seg \in {"01", "+1"} /\ ~strict -> 1
      [] OTHER -> -1

RECURSIVE Walk(_, _, _)
Walk(cur, segs, strict) ==
    IF segs = <<>> THEN Some(cur)
    ELSE LET seg == Head(segs)
             idx == IndexOf(seg, strict)
         IN CASE Kind(cur) = "obj" /\ seg \in DOMAIN Val(cur) ->
                    Walk(Val(cur)[seg], Tail(segs), strict)
              [] Kind(cur) = "arr" /\ idx \in 0 .. Len(Val(cur)) - 1 ->
                    Walk(Val(cur)[idx + 1], Tail(segs), strict)
              [] OTHER -> None

ExtractByPath(root, path) ==
    IF path.kind = "root" THEN Some(root)
    ELSE Walk(root, path.segs, path.kind = "ptr")

\* A column's raw value: extract_by_path(item, p).unwrap_or(&Value::Null).
RawValue(item, path) ==
    LET found == ExtractByPath(item, path)
    IN IF found = None THEN JNull ELSE found[1]

\* A path of kind dot made of the given segments.
DotPath(segs) == [kind |-> "dot", segs |-> segs]
PtrPath(segs) == [kind |-> "ptr", segs |-> segs]
RootPath == [kind |-> "root", segs |-> <<>>]
=============================================================================
