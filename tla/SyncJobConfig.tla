---------------------------- MODULE SyncJobConfig ----------------------------
(***************************************************************************)
(* What sync() (core/server.rs) derives from a job's Config before and    *)
(* while it writes: transaction use, batch size, mode, key split, the     *)
(* statement shape, where the records are in the response and the row     *)
(* each record binds. A Config is a record                                *)
(*   [dialect, useTx, batchSize, mode, keyColumns, itemsPath,             *)
(*    timeoutSecs]                                                        *)
(* whose optional fields are Options (TypedValue's None / Some).          *)
(***************************************************************************)
EXTENDS Integers, Sequences, FiniteSets, TypedValue, SqlDialect

CONSTANTS
    Cols,           \* the keys of cfg.column_mapping
    ColumnMapping,  \* column -> the path of its raw value in a record
    ColumnTypes,    \* column -> Option of its cfg.column_types entry
    TableKey,       \* the primary key columns of the target table
    Configs,        \* the job configurations to check
    Docs,           \* the JSON documents the API may answer with, as a
                    \* sequence (documents of different shapes do not compare)
    InitTables,     \* the table contents a job may start from
    UsizeMax        \* usize::MAX, larger than any record count

ASSUME Cols # {} /\ TableKey \subseteq Cols
ASSUME ColumnMapping \in [Cols -> [kind : {"root", "ptr", "dot"},
                                   segs : Seq(STRING)]]
ASSUME \A conf \in Configs :
         /\ conf.dialect \in {"postgres", "mysql"}  \* the pool's DbKind
         /\ conf.useTx \in {None, Some(TRUE), Some(FALSE)}
         /\ conf.batchSize = None \/ conf.batchSize[1] \in Int
         /\ conf.keyColumns \subseteq Cols
         /\ conf.timeoutSecs = None \/ conf.timeoutSecs[1] \in Nat  \* a u64

\* cfg.db.use_transaction.unwrap_or(true)
UseTx(conf) == IF conf.useTx = None THEN TRUE ELSE conf.useTx[1]

\* Mutant: a default batch size of 0.
BatchSizeDefaultZero(conf) ==
    CASE conf.batchSize = None -> 0
      [] conf.batchSize[1] < 0 -> UsizeMax + 1 + conf.batchSize[1]
      [] OTHER -> conf.batchSize[1]

\* cfg.batch_size.unwrap_or(10); the i64 read by Config::from_manager is
\* cast to usize with `as`, so a negative value wraps to usize::MAX + 1 + n.
BatchSize(conf) ==
    CASE conf.batchSize = None -> 10
      [] conf.batchSize[1] < 0 -> UsizeMax + 1 + conf.batchSize[1]
      [] OTHER -> conf.batchSize[1]

\* cfg.mode.as_deref().unwrap_or("insert")
Mode(conf) == IF conf.mode = None THEN "insert" ELSE conf.mode[1]

\* cfg.db.key_columns.unwrap_or_default(), split against the mapped columns
Split(conf) == SplitKeysNonkeys(Cols, conf.keyColumns)

Stmt(conf) == Statement(conf.dialect, Mode(conf), Split(conf))

\* Mutant: the batch end without .min(items.len()).
BatchEndNoMin(conf, start, n) == start + BatchSize(conf)

\* (start + batch_size).min(items.len())
BatchEnd(conf, start, n) ==
    IF start + BatchSize(conf) < n THEN start + BatchSize(conf) ELSE n

(***************************************************************************)
(* Locating the record array in the response: items_json_path when set    *)
(* (it must lead to an array), else the document itself if it is an       *)
(* array, else the first array-valued field of an object. serde_json's    *)
(* map order depends on its preserve_order feature, so "first" is any     *)
(* array-valued field. The empty set is a locator error.                  *)
(***************************************************************************)
ArrayFields(doc) == {k \in DOMAIN Val(doc) : Kind(Val(doc)[k]) = "arr"}

Locate(conf, doc) ==
    IF conf.itemsPath # None
    THEN LET found == ExtractByPath(doc, conf.itemsPath[1])
         IN IF found # None /\ Kind(found[1]) = "arr" THEN {Val(found[1])} ELSE {}
    ELSE CASE Kind(doc) = "arr" -> {Val(doc)}
           [] Kind(doc) = "obj" -> {Val(Val(doc)[k]) : k \in ArrayFields(doc)}
           [] OTHER -> {}

\* The coerced values of one record, column by column: the column's raw
\* value at its mapped path, to_typed_value'd with its declared type.
RowValues(item) ==
    [c \in Cols |-> ToTypedValue(RawValue(item, ColumnMapping[c]),
                                 IF ColumnTypes[c] = None THEN "text"
                                 ELSE ColumnTypes[c][1])]

CoercesOk(item) == \A c \in Cols : RowValues(item)[c].ok

\* The row bound for a record whose columns all coerce.
RowOf(item) == [c \in Cols |-> SqlValue(RowValues(item)[c].tv)]
=============================================================================
