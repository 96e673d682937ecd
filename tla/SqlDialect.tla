----------------------------- MODULE SqlDialect -----------------------------
(***************************************************************************)
(* The statement sync() builds for one record (core/server.rs) and what    *)
(* the target table does with it. A statement is kept as its shape: the    *)
(* conflict clause it ends with, the conflict target and the SET list;     *)
(* placeholders and column lists are always generated from the same       *)
(* column list and are left out. A table is a set of rows, a row maps      *)
(* each mapped column to the SqlValue bound for it; the table's primary    *)
(* key is TableKey.                                                        *)
(***************************************************************************)
EXTENDS FiniteSets

\* split_keys_nonkeys(cols, key_cols): the mapped columns that are key
\* columns and those that are not. Key columns that are not mapped vanish.
SplitKeysNonkeys(cols, keyCols) == [keys |-> cols \cap keyCols,
                                    nonkeys |-> cols \ keyCols]

(***************************************************************************)
(* The tail sync() appends to "insert into t (cols) values (...)":         *)
(*   Postgres, mode upsert: " on conflict (keys) do update set             *)
(*     c = excluded.c, ..." over the nonkeys, only when keys is not empty; *)
(*   MySQL, mode upsert: " on duplicate key update c = values(c), ..."     *)
(*     over the nonkeys, always;                                           *)
(*   any other mode: nothing.                                              *)
(***************************************************************************)
\* Mutant: the conflict target lists every mapped column.
StatementAllColsTarget(dialect, mode, split) ==
    [clause |-> CASE mode # "upsert" -> "none"
                  [] dialect = "postgres" /\ split.keys # {} -> "on_conflict"
                  [] dialect = "postgres" -> "none"
                  [] OTHER -> "on_duplicate",
     target |-> split.keys \cup split.nonkeys,
     sets   |-> split.nonkeys]

Statement(dialect, mode, split) ==
    [clause |-> CASE mode # "upsert" -> "none"
                  [] dialect = "postgres" /\ split.keys # {} -> "on_conflict"
                  [] dialect = "postgres" -> "none"
                  [] OTHER -> "on_duplicate",
     target |-> split.keys,
     sets   |-> split.nonkeys]

ExecOk(view) == [ok |-> TRUE, view |-> view, reason |-> "none"]
ExecError(why) == [ok |-> FALSE, view |-> {}, reason |-> why]

\* The SQL errors a statement can raise.
SqlErrors == {"sql_syntax", "sql_not_null", "sql_conflict_target",
              "sql_duplicate"}

(***************************************************************************)
(* Executing stmt with the bound row against the rows visible to the       *)
(* transaction. A conflict clause with an empty SET list is a syntax       *)
(* error; a NULL primary key column violates NOT NULL; Postgres requires   *)
(* the conflict target to be the table's unique key; a row whose key is    *)
(* taken is a duplicate-key error without a conflict clause, and otherwise *)
(* has its SET columns overwritten.                                        *)
(***************************************************************************)
Execute(stmt, tableKey, view, row) ==
    LET clash == {r \in view : \A c \in tableKey : r[c] = row[c]}
        old == CHOOSE r \in clash : TRUE
        updated == [c \in DOMAIN row |-> IF c \in stmt.sets THEN row[c]
                                                             ELSE old[c]]
    IN CASE stmt.clause # "none" /\ stmt.sets = {} -> ExecError("sql_syntax")
         [] \E c \in tableKey : row[c] = <<>> -> ExecError("sql_not_null")
         [] stmt.clause = "on_conflict" /\ stmt.target # tableKey ->
               ExecError("sql_conflict_target")
         [] clash = {} -> ExecOk(view \cup {row})
         [] stmt.clause = "none" -> ExecError("sql_duplicate")
         [] OTHER -> ExecOk((view \ clash) \cup {updated})
=============================================================================
