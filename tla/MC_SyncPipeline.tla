-------------------------- MODULE MC_SyncPipeline --------------------------
(***************************************************************************)
(* Instances of SyncPipeline for TLC. A two-column mapping, id (int, the   *)
(* table's primary key, read by a dot path) and name (no declared type,    *)
(* so text, read by a JSON pointer), and records chosen so that every      *)
(* coercion outcome and every SQL outcome occurs: two records share a key, *)
(* one id does not parse as an i64, one record has no id.                  *)
(***************************************************************************)
EXTENDS SyncPipeline, TLC

MCCols == {"id", "name"}
MCColumnMapping == [c \in MCCols |-> IF c = "id" THEN DotPath(<<"id">>)
                                                 ELSE PtrPath(<<"name">>)]
MCColumnTypes == [c \in MCCols |-> IF c = "id" THEN Some("int") ELSE None]
MCTableKey == {"id"}

R1 == JObj([id |-> JInt(1), name |-> JStr("abc")])
R7 == JObj([id |-> JStr("7"), name |-> JInt(7)])
R1Again == JObj([id |-> JStr("1"), name |-> JBool(TRUE)])
RBadId == JObj([id |-> JStr("4.5"), name |-> JStr("abc")])
RNoId == JObj([name |-> JStr("true")])

\* A top-level array; an object with two array fields and a scalar; a scalar.
DocArray == JArr(<<R1, R7, R1Again>>)
DocObject == JObj([data |-> JArr(<<R7, RBadId, RNoId>>), total |-> JInt(3),
                   more |-> JArr(<<R1>>)])
DocScalar == JStr("abc")
\* Arrays of one and of no record, which the PowerShell fallback unrolls.
DocOne == JArr(<<R1>>)
DocEmpty == JArr(<<>>)
\* A one-record array whose record holds an array field.
DocNested == JArr(<<JObj([id |-> JInt(9), data |-> JArr(<<R7>>)])>>)

MCDocs == <<DocArray, DocObject, DocScalar, DocOne, DocEmpty>>
\* The rows of an earlier sync of R1, and an empty table.
MCInitTables == {{}, {[id |-> <<1>>, name |-> <<"old">>]}}

(***************************************************************************)
(* Configs built on the routes into sync() (SyncCommand). The strings the *)
(* tasks and files use: a db_type in another case, database URLs, an      *)
(* items_json_path, and identifiers.                                      *)
(***************************************************************************)
MCLower == [s \in {"", "Postgres"} |-> IF s = "Postgres" THEN "postgres" ELSE s]
MCScheme == [u \in {"", "postgresql://h/db", "mysql://h/db"} |->
                CASE u = "postgresql://h/db" -> "postgres"
                  [] u = "mysql://h/db" -> "mysql"
                  [] OTHER -> "other"]
MCPathOf == [s \in {"data"} |-> DotPath(<<"data">>)]

Cmd == INSTANCE SyncCommand WITH Lower <- MCLower, Scheme <- MCScheme,
                                 PathOf <- MCPathOf, Identifiers <- MCCols \cup {"items"}

\* A task as create_config stores it (apply_default_task_values filled in
\* mode "insert", batch_size 100, use_transaction true), keyed by the
\* primary key, and the merged map that holds it.
StoredTask ==
    Cmd!Tree!ApplyDefaultTaskValues(
        [id |-> JStr("t1"),
         db |-> JObj([url |-> JStr("postgresql://h/db"), table |-> JStr("items"),
                      key_columns |-> JArr(<<JStr("id")>>)]),
         api |-> JObj([url |-> JStr("http://src"), timeout_secs |-> JInt(30)])])
MCMerged == [p \in {Cmd!Tree!TasksKey} |-> JArr(<<JObj(StoredTask)>>)]

\* POST /sync for t1 asking for an upsert, without and with key_columns.
UpsertMapping == [mode |-> Some("upsert"), keyColumns |-> None]
KeyedMapping == [mode |-> Some("upsert"), keyColumns |-> Some({"id"})]

\* A CLI config file: a Postgres upsert named by db_type in another case,
\* with key_columns, reading data; and one whose negative batch_size does
\* not deserialize.
CliFile(batch) ==
    JObj([id |-> JStr("f1"), db_type |-> JStr("Postgres"), mode |-> JStr("upsert"),
          batch_size |-> JInt(batch), column_mapping |-> JObj([id |-> JStr("id")]),
          db |-> JObj([url |-> JStr(""), table |-> JStr("items"),
                       key_columns |-> JArr(<<JStr("id")>>)]),
          api |-> JObj([url |-> JStr("http://src"), items_json_path |-> JStr("data"),
                        timeout_secs |-> JInt(30)])])
ASSUME Cmd!CliSyncConfig(CliFile(-1)) = None

\* Jobs started by POST /sync with key columns, and by the CLI.
RouteConfigs ==
    {Cmd!SyncCommandConfig(MCMerged, "t1", KeyedMapping)[1],
     Cmd!CliSyncConfig(CliFile(2))[1]}

\* The jobs POST /sync starts for the stored task when the request sets no
\* key_columns: from_manager has dropped the task's.
EmptyKeyConfigs == {Cmd!SyncCommandConfig(MCMerged, "t1", UpsertMapping)[1]}

\* Every configuration but the hang run's sets api.timeout_secs.
ConfigsOf(dialects, useTxs, batchSizes, modes, keyCols, paths) ==
    [dialect : dialects, useTx : useTxs, batchSize : batchSizes,
     mode : modes, keyColumns : keyCols, itemsPath : paths,
     timeoutSecs : {Some(30)}]

\* Transactions on (explicitly or by default), both dialects, both modes,
\* batch sizes 2, 10 (unset) and -1 (wrapping to usize::MAX), key columns
\* set to the primary key, with and without items_json_path.
PassConfigs ==
    ConfigsOf({"postgres", "mysql"}, {None, Some(TRUE)},
              {Some(2), None, Some(-1)}, {None, Some("upsert")},
              {{"id"}}, {None, Some(DotPath(<<"data">>))})
    \cup
    \* MySQL's upsert needs no key_columns: the table's key decides.
    ConfigsOf({"mysql"}, {None}, {Some(2)}, {Some("upsert")}, {{}}, {None})
    \cup RouteConfigs

\* db.use_transaction = false.
NoTxConfigs ==
    ConfigsOf({"postgres", "mysql"}, {Some(FALSE)}, {None}, {None, Some("upsert")},
              {{"id"}}, {None})

\* batch_size = 0.
ZeroBatchConfigs ==
    ConfigsOf({"postgres", "mysql"}, {None}, {Some(0)}, {None, Some("upsert")},
              {{"id"}}, {None})

\* A plain Postgres insert job with defaults, for the fallback's documents.
DefaultConfigs == ConfigsOf({"postgres"}, {None}, {None}, {None}, {{"id"}}, {None})
UnwrapDocs == <<DocNested>>

\* api.timeout_secs unset, and set to 0.
HangConfigs ==
    {[c EXCEPT !.timeoutSecs = t] :
        c \in ConfigsOf({"postgres"}, {None}, {None}, {None}, {{"id"}}, {None}),
        t \in {None, Some(0)}}

MCUsizeMax == 1000
=============================================================================
