---------------------------- MODULE SyncCommand -----------------------------
(***************************************************************************)
(* How the Config a sync job runs with is built, on each route into       *)
(* sync():                                                                 *)
(*  - HTTP, sync_command (core/server.rs): Config::from_manager on the     *)
(*    stored task, overridden by the request's MappingConfig;              *)
(*  - CLI, `sync` and `sync-with-mapping` (core/cli.rs): read_config on a  *)
(*    JSON file, which the CLI's sanitize_identifier then checks.          *)
(* Both then call get_pool_from_config, whose detect_db_kind picks the     *)
(* dialect or fails before the job starts. A Config here is the record    *)
(*   [dbType, url, mode, batchSize, keyColumns, useTx, itemsPath,          *)
(*    timeoutSecs]                                                         *)
(* that ConfigTree's FromManager returns; JobConfig turns it into the      *)
(* record SyncJobConfig runs with. The column mapping and types of a job   *)
(* are the ones the instance fixes (SyncJobConfig's Cols, ColumnMapping,   *)
(* ColumnTypes): a request always supplies both.                          *)
(***************************************************************************)
EXTENDS Integers, Sequences, TypedValue

CONSTANTS
    UsizeMax,     \* usize::MAX, for ConfigTree's casts
    Lower,        \* db_type string -> its to_ascii_lowercase form
    Scheme,       \* db url -> "postgres" (postgres:// or postgresql://),
                  \* "mysql" (mysql://) or "other"
    PathOf,       \* items_json_path string -> the path extract_by_path follows
    Identifiers   \* the strings that match ^[A-Za-z0-9_]+$

Tree == INSTANCE ConfigTree

\* get_pool_from_config: db_type.eq_ignore_ascii_case("postgres" / "mysql").
ExplicitKind(dbType) ==
    IF dbType # None /\ Lower[dbType[1]] \in {"postgres", "mysql"}
    THEN Some(Lower[dbType[1]]) ELSE None

\* detect_db_kind(url, explicit): the explicit kind, else the URL's prefix,
\* else an error (None).
DetectDbKind(url, explicit) ==
    IF explicit # None THEN explicit
    ELSE IF Scheme[url] \in {"postgres", "mysql"} THEN Some(Scheme[url])
    ELSE None

\* The job's SyncJobConfig record, or None when get_pool_from_config fails.
\* sync() reads key_columns with unwrap_or_default.
JobConfig(c) ==
    LET kind == DetectDbKind(c.url, ExplicitKind(c.dbType))
    IN IF kind = None THEN None
       ELSE Some([dialect |-> kind[1], useTx |-> c.useTx,
                  batchSize |-> c.batchSize, mode |-> c.mode,
                  keyColumns |-> IF c.keyColumns = None THEN {} ELSE c.keyColumns[1],
                  itemsPath |-> IF c.itemsPath = None THEN None
                                ELSE Some(PathOf[c.itemsPath[1]]),
                  timeoutSecs |-> c.timeoutSecs])

(***************************************************************************)
(* sync_command(task_id, mapping): from_manager (an error answers 400),   *)
(* then mapping.mode and mapping.key_columns replace the task's when the  *)
(* request sets them. A mapping is [mode, keyColumns], both Options.      *)
(***************************************************************************)
SyncCommandConfig(merged, t, mapping) ==
    LET fm == Tree!FromManager(merged, t)
    IN IF fm = None THEN None
       ELSE JobConfig([fm[1] EXCEPT
                !.mode = IF mapping.mode # None THEN mapping.mode ELSE @,
                !.keyColumns = IF mapping.keyColumns # None THEN mapping.keyColumns
                               ELSE @])

(***************************************************************************)
(* read_config(path) of the CLI: serde_json::from_str::<Config>, whose    *)
(* failure is replaced by a Config with id "default" and an empty table,  *)
(* which sanitize_identifier then rejects. Deserializes checks the fields *)
(* serde requires and the types of the fields a job reads; an Option      *)
(* field may be missing or null, and a u64 or usize is a non-negative     *)
(* integer.                                                               *)
(***************************************************************************)
Has(f, k, kind) == k \in DOMAIN f /\ Kind(f[k]) = kind
Opt(f, k, kind) == k \notin DOMAIN f \/ Kind(f[k]) \in {"null", kind}
OptUnsigned(f, k) == Opt(f, k, "int") /\ (Has(f, k, "int") => Val(f[k]) >= 0)
OptStrings(f, k) ==
    Opt(f, k, "arr") /\ (Has(f, k, "arr") => \A i \in DOMAIN Val(f[k]) : Kind(Val(f[k])[i]) = "str")
OptVal(f, k, kind) == IF Has(f, k, kind) THEN Some(Val(f[k])) ELSE None

Deserializes(doc) ==
    /\ Kind(doc) = "obj"
    /\ LET f == Val(doc)
       IN /\ Has(f, "id", "str") /\ Has(f, "column_mapping", "obj")
          /\ Opt(f, "db_type", "str") /\ Opt(f, "mode", "str")
          /\ OptUnsigned(f, "batch_size")
          /\ Has(f, "db", "obj") /\ Has(f, "api", "obj")
          /\ LET db == Val(f["db"])
                 api == Val(f["api"])
             IN /\ Has(db, "url", "str") /\ Has(db, "table", "str")
                /\ OptStrings(db, "key_columns") /\ Opt(db, "use_transaction", "bool")
                /\ Has(api, "url", "str") /\ Opt(api, "items_json_path", "str")
                /\ OptUnsigned(api, "timeout_secs")

\* The key columns of a deserialized db object, as a set.
KeyColumnsIn(db) ==
    IF Has(db, "key_columns", "arr")
    THEN Some({Val(Val(db["key_columns"])[i]) : i \in DOMAIN Val(db["key_columns"])})
    ELSE None

\* sanitize_identifier on the table, every column_mapping key and every
\* key column.
Sanitized(doc) ==
    LET db == Val(Val(doc)["db"])
        keys == KeyColumnsIn(db)
    IN /\ Val(db["table"]) \in Identifiers
       /\ DOMAIN Val(Val(doc)["column_mapping"]) \subseteq Identifiers
       /\ keys # None => keys[1] \subseteq Identifiers

ReadConfig(doc) ==
    IF ~Deserializes(doc) \/ ~Sanitized(doc) THEN None
    ELSE LET f == Val(doc)
             db == Val(f["db"])
             api == Val(f["api"])
         IN Some([dbType |-> OptVal(f, "db_type", "str"), url |-> Val(db["url"]),
                  mode |-> OptVal(f, "mode", "str"),
                  batchSize |-> OptVal(f, "batch_size", "int"),
                  keyColumns |-> KeyColumnsIn(db),
                  useTx |-> OptVal(db, "use_transaction", "bool"),
                  itemsPath |-> OptVal(api, "items_json_path", "str"),
                  timeoutSecs |-> OptVal(api, "timeout_secs", "int")])

\* The CLI's `sync` and `sync-with-mapping`: read_config, then
\* get_pool_from_config; either error is printed and no job runs.
CliSyncConfig(doc) ==
    LET c == ReadConfig(doc) IN IF c = None THEN None ELSE JobConfig(c[1])
=============================================================================
