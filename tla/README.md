# TLA+ models of data-sync-trans

This directory holds TLA+ specifications of the data synchronisation library
`src/data_trans_core`. The library fetches a JSON document from an HTTP API,
locates an array of records in it, and writes each record as one row of a
Postgres or MySQL table. It can also derive target fields with a small mapping
DSL. All the models are checked with TLC. `PROJECT.json` maps every modelled
definition to the source lines it translates. It also lists the runs, the
mutants, the findings and the hazards.

## The system

| Part | Source | What it does |
|---|---|---|
| Sync job | `core/server.rs` `sync` | Runs `fetch_json` and the items locator (`items_json_path`, or the first array field). Then it runs batches of `batch_size` records, one transaction per batch. Each record is coerced with `to_typed_value`, written with an `insert` or `upsert` statement, and the batch is committed. The first error returns and drops the open transaction. |
| Statement builder | `server.rs` `split_keys_nonkeys`, lines 333-352, 387-402 | In upsert mode the statement gets a dialect-specific tail: `on conflict (keys) do update set ...` on Postgres (only when key columns exist), `on duplicate key update ...` on MySQL. |
| Pool cache | `core/db.rs` `DB_POOLS`, `get_db_pool`, `create_pool`; `server.rs` `get_pool_from_config` | A process-wide DashMap from `DbConfig {kind, url, max_conns, timeout_secs}` to pools, shared by every concurrent axum handler and job. |
| DSL | `dsl_engine/parser.rs`, `evaluator.rs`, `functions.rs`, `registry.rs` | `compile_dsl` is a nom parser. `SyncEngine::new` compiles each rule and drops the ones that fail. `process_row` evaluates the rest. The built-ins `upper`, `concat`, `coalesce` and `if` receive unevaluated arguments and force them lazily. |
| Configuration store | `app_config/*`, `lib.rs`, `core/mod.rs` `Config::from_manager`, `server.rs` `create_config`, `update_config` | `ConfigManager` keeps `user` (from the file) and `merged` (defaults overlaid by user) as flat maps keyed by dotted paths. `set` inserts, rebuilds and persists by `unflatten` plus `std::fs::write`. `init_system_config` loads the file and writes defaults when the file has no `tasks`. `init_and_watch_config` also starts a watcher that reloads the file on every event. Jobs read their `Config` through `Config::from_manager`. |
| Fetch client | `core/client_tool.rs` `fetch_json` | Runs `curl -sS` (with `--max-time` only when `api.timeout_secs` is set). On any curl error it runs PowerShell's `Invoke-RestMethod ... -TimeoutSec (timeout_secs or 30); $r \| ConvertTo-Json`. It parses what the tool printed with `serde_json`. Both tools are child processes the job waits for. |
| Job configuration | `server.rs` `sync_command`, `get_pool_from_config`; `lib.rs` `detect_db_kind`; `cli.rs` `read_config`, `run_cli` | `POST /sync` builds the job's `Config` with `from_manager` from the stored task and overrides `mode` and `key_columns` when the request sets them. The CLI's `sync` reads it from a JSON file and checks identifiers. Both pick the dialect from `db_type`, else from the URL's prefix. |
| Table browsing | `server.rs` `list_tables`, `describe`, `gen_mapping`, `DbParams`; `db.rs` `get_pool_from_query` | `GET /tables`, `/describe` and `/gen-mapping` (and the Flutter bridge's `get_tables`) get a pool keyed `(kind, url, 5, None)`. `resolve_url` takes the query's `db_url`, else the task's `db.url`; `resolve_type` the query's `db_type`, else the task's. Each reads the store under its own read lock. Then they query the database catalog. |
| I/O shells | `axum_api.rs`, the rest of `cli.rs`, the Flutter bridge, `data_trans_cli` | Request parsing and printing around the parts above. |

How the parts interact:
- A sync job asks the pool cache for a pool keyed by its `Config`, then runs `sync`.
- The browsing handlers use the same cache with a different key for the same URL. They read the URL and the type from the configuration store in two separate critical sections.
- Jobs started by `sync_command` take their `Config` from the configuration store through `from_manager`. Jobs started by the CLI take it from a file through `read_config`.
- A job's fetch runs curl, then PowerShell, inside `sync`.
- The DSL is independent of the pipeline: a mapping engine turns one source record into target fields.

## Modules

| Module | Models | State and actions |
|---|---|---|
| `TypedValue` | JSON values (tag-first tuples), `to_typed_value`, `extract_by_path`, the bind of each `TypedVal` | Pure operators. String parsing is over a small set of strings with known results. |
| `SqlDialect` | `split_keys_nonkeys`, the statement's shape (clause, conflict target, SET list); `Execute`, what the database does with a statement | Pure operators. `Execute` models Postgres/MySQL behaviour (empty SET list is a syntax error, a NOT NULL key, an ON CONFLICT target that must be the unique key, a duplicate key, an update). It is the environment, not repository code. |
| `SyncJobConfig` | The job's configuration defaults (`unwrap_or` of use_transaction, batch_size, mode), batch bounds, locator and row building | CONSTANTS: the mapped columns, their JSON paths and types, the table key, the configurations, the documents the API may return, the initial tables, `usize::MAX`. |
| `SyncPipeline` | `sync` | VARIABLES `phase, items, start, end, cur, tx, table, reason`. One action per step between two awaits. The fetch is `CurlAnswers`, `CurlFails`, `CurlTimesOut`, `PsAnswers`, `PsFails` and `PsTimesOut`; each answer is parsed and located in the same step (`Received`). The rest is `BeginBatch`, `BeginFails`, `CoerceFails`, `WriteRow`, `WriteRejected`, `WriteConnFails`, `Commit`, `CommitFails`. `tx` is what the open transaction sees; `table` is what is committed. |
| `FetchClient` | What `fetch_json`'s tools do with `timeout_secs`, and what `ConvertTo-Json` prints | Pure operators: `CurlTimed`, `PsTimed`, `PsOutput`. |
| `SyncCommand` | `sync_command`, the CLI's `read_config` and `sync`, `get_pool_from_config`'s `detect_db_kind` | Pure operators from a stored task or a config file to the record `SyncJobConfig` runs with (or `None` when the job never starts). `MC_SyncPipeline` instantiates it to build the configurations of `sync_emptykeys` and two of `sync_pass`. Lowercasing, URL prefixes, path parsing and the identifier regex are given as tables over the strings the instance uses. |
| `SyncAtomic` | What a job promises: batches in order, each all or nothing | The abstract spec. `SyncPipeline` implements it under the refinement mapping `aphase <- run` while a batch is open, and `next <- start`. |
| `PoolCache` | `get_db_pool` for concurrent tasks, and the keys `get_pool_from_config` and `get_pool_from_query` build | `Request` is the atomic DashMap get (a hit returns). `Connected` is `create_pool` succeeding followed by `insert`. `ConnectFails` and `Finish` are the other outcomes. It has no `Next`: `TableBrowse` calls its actions. |
| `TableBrowse` | The browsing handlers and `sync_command`'s pool lookup, composed with `ConfigStore` (without the watcher) and `PoolCache` in a process that embeds the library. This over-approximates both shipped hosts. `serve_http` routes no `update_config`, so after `init_system_config` the server's store changes only by restart. The Flutter app's store changes by the watcher's reload, which replaces a task in one step, as `UpdateConfig` does here. The properties checked are safety properties, or liveness under fairness of the callers' steps only, so they also hold for those smaller sets of behaviours | Redeclares both components' variables and adds `req`, each caller's progress (`idle`, `url` after `resolve_url`, `pool` inside `get_db_pool` and after). `ResolveUrl` is `q.resolve_url()?` under one read lock. `ResolveType` is `resolve_type` under a second lock, `detect_db_kind` and the cache lookup. `JobPool` is `sync_command`'s `from_manager` and `get_pool_from_config`. `Connect`, `ConnectFail` and `Answer` finish the pool request. `StoreStep` is the store's `Boot` or `UpdateConfig`, and `Restart` ends the process, clearing `DB_POOLS`. `Connect` requires the key's kind to be the URL's scheme: a Postgres server does not accept the MySQL driver. |
| `DslParser` | The parsers of `parser.rs` over lexemes | Each parser returns `Some(<<ast, rest>>)` or `None`. Also holds a recognizer of the spec's EBNF and an AST printer, for reference. |
| `DslEval` | `Evaluator::eval`, `eval_expr`, `eval_literal` and the built-ins, recording which AST positions are evaluated | Also holds `StrictEval`, a call-by-value reference evaluator. |
| `DslEngine` | `SyncEngine::new` and `process_row` | VARIABLES `rule, engine, mapping, src, out`. |
| `ConfigTree` | The store's values: `ConfigValue::from`, `flatten`, `unflatten` in every HashMap order, `apply_json_defaults`, `build`, `merge_json_value`, `apply_default_task_values`, `Config::from_manager` (with `DbConfig::default` for a task whose `db` is not an object) | Pure operators. A flat map is a function from key paths to values; `Unflattened` is the set of documents (or `None`, the panic) the possible iteration orders give. |
| `ConfigStore` | One process's store with its file, over starts and restarts | VARIABLES `phase, file, user, merged, pending, reply, diverged, extEdits`. Each action holds the write lock for its whole length, as the code does: `Boot` (`init_system_config` plus the plugin default), `CreateConfig`, `UpdateConfig` (both end in `SetTasks`, which is `set` with its three persist outcomes), `Reload` (the watcher callback), `ExternalWrite` (an editor, as in `test_config_watch`), `Restart`. `diverged` and `extEdits` are history variables for the properties. |

`MC_SyncPipeline`, `MC_TableBrowse`, `MC_DslEngine` and `MC_ConfigStore` give the constants for TLC.

## Runs

| Run | Expect | Shows |
|---|---|---|
| `sync_pass` | pass | For transactional configurations (both dialects and both modes; batch sizes 2, unset = 10, and -1 cast to `usize::MAX`; key column `id`; with and without `items_json_path`; a fetch timeout of 30 s), plus one job built by `POST /sync` with key columns in the request and one built by the CLI from a file with key columns. Documents: an array, an object with array fields, a scalar, and arrays of one and of no record, each as curl or the PowerShell fallback returns it, and a body that is not JSON. Two initial tables (empty, and one holding id 1), several properties hold. `BatchAtomicity`: the job refines `SyncAtomic`. `SuccessMeansAllPersisted`: a job that returns Ok has every record in the table, the last one per key. `UpsertNeverRejected`: an upsert job never fails because of its own conflict clause. `Termination`: the job returns. |
| `sync_notx` | violation | With `use_transaction = false`, `sync` writes nothing and returns Ok. |
| `sync_zerobatch` | violation | With `batch_size = 0`, the loop never advances. |
| `sync_emptykeys` | violation | The task is stored with `key_columns: ["id"]`, and `POST /sync` asks for an upsert without key columns. `from_manager` has dropped the stored ones, so the job is a plain Postgres insert and fails on an existing row. |
| `sync_fetchhang` | violation | With `timeout_secs` unset or 0, curl has no time limit. A server that never answers keeps the job in the fetch forever. Spec section 5 names the fetch's request timeout among the deadlines that bound a job. |
| `sync_psunwrap` | violation | Curl fails, and PowerShell fetches `[{"id": 9, "data": [...]}]`. `ConvertTo-Json` prints the record without its array, so `sync` syncs the record's `data` array instead of the record. |
| `browse_pass` | pass | Two callers send browsing requests or run `POST /sync` for task `t1`, which the first file stores against a Postgres URL. Meanwhile `update_config` may move `t1` to MySQL, and the process restarts. The keys are the ones the handlers build from the store: `(kind, url, 5, None)` for browsing and `(kind, url, 20, Some(60))` for jobs. `PoolsPerKeyBounded`: a key never gets more pools than there are callers. `RequestsAnswered`: every request that starts is answered, through every error path of `resolve_url`, `detect_db_kind` and `create_pool`. No symmetry, because `RequestsAnswered` is a liveness property. 136,928 distinct states in under two minutes. |
| `dsl_pass` | pass | Rules are the lexemes of bounded ASTs plus every one-lexeme deletion of them, evaluated on records with `a` as a string, 1, 0, true, null, or absent. `ParserAcceptsGrammar`: `compile_dsl` accepts exactly the EBNF. `ParseRoundTrip`: the compiled AST prints back to the rule. `IfOnlySelectedBranch` and `CoalesceStopsAtFirstNonNull`: the lazy built-ins force exactly the arguments they should. `LazyAgreesWithStrict`: lazy evaluation gives the call-by-value result. |
| `store_pass` | pass | With the watcher on, the run covers creates and updates (a rename, a nested null, a top-level null, a negative batch size). It also covers failed writes, the panic and the overwrite of `unflatten`, editor writes, reloads and restarts. Two properties hold. `TaskIdsUnique`: task ids stay unique. `AckedTaskKept` (temporal): once a handler answers ok while task `t` is stored, `t` stays in every later up state. A later failed write, a reload, an editor's write or a restart does not lose it. Its mutant, `set` persisting before the insert, loses the task at the next restart. |
| `store_lostedit` | violation | An editor writes the file; `update_config` persists before the watcher reloads, and the edit is gone from both file and memory. |
| `store_bootoverwrite` | violation | A start that finds a file without `tasks` replaces all of it with the defaults. The comment at `lib.rs:51` promises this only for a missing or empty file. |
| `store_panic` | violation | `PersistSavesUser` says `set` either returns an Err or writes a file that loads back as `user`. The file holds `tasks` as an object, so the next create stores `tasks` next to `tasks.t1.mode`. In one HashMap order `unflatten` panics; this is the trace TLC reports, because it generates that successor first. In the other order the array overwrites the object: `create_config` answers ok, and the written file lacks `tasks.t1.mode`. Both are successors of the same `CreateConfig` step, and each violates the property. |

Every property of a passing run has a mutant in `PROJECT.json`: a plausible bug in a mapped definition that TLC finds violating it.

### Why the bounds are enough

The sync documents contain the cases that decide each branch of the locator and the coercion:
- a record whose key repeats, so upsert and insert differ;
- a key that does not parse as an integer;
- a missing key, which gives a NOT NULL error;
- a scalar document;
- arrays of one and of no record, which PowerShell's `ConvertTo-Json` prints differently from curl.

Batch size 2 over three records gives a full batch followed by a partial one. The initial table holding id 1 is the state a retried job starts from.

The browsing model has two callers, which is enough for the check-then-insert race and for one request to be between `resolve_url` and `resolve_type` while the other path runs. It allows up to three pools, so a cache that stopped caching would exceed the per-key bound. The queries are `t1`'s (URL and type from the store) and an explicit Postgres URL with `db_type` "Postgres". An empty query, the Flutter bridge's `get_tables`, asks for the `default` task, which is never stored; it answers 400 without a change of state, so it is left out. The store has one task and one update body. The update moves that task between dialects, which is the change that makes the two reads of a browsing request disagree. Creates and editors' writes are left to `ConfigStore`'s runs, because with them the composed state space passes a million states. The Flutter app's process, whose `init_app` starts the watcher, is not composed with its reload. With it and liveness checking, the composition runs past TLC's time budget. `UpdateConfig` stands in for the reload's change to a task.

The configuration store starts from no file, a file with task `t1`, a file an editor wrote without tasks, or a file that stores `tasks` as an object (the `unflatten` conflict). Two task ids let a create succeed and be refused and let an update rename one task onto the other. One create body and one update body carry top-level and nested nulls and a negative batch size. Each persist may fail, and the editor writes one field. That is 8,284 distinct states in about ten seconds. A third task or a second body only multiplies the same task shapes.

The DSL rules cover every built-in at every arity up to 2, the wrong arity of `if`, and every comparison shape. Nested calls exercise laziness inside laziness. The deletions give the malformed rules.

### Fairness

- `SyncPipeline` assumes weak fairness of the database steps (`DbStep`) and of the two timeouts (`CurlTimesOut`, `PsTimesOut`). It assumes none of the server's answers.
  - The job is a future that tokio polls until it returns. Each database await completes: the pool's acquire timeout (60 s by default) bounds `begin`, and the server answers or drops the connection.
  - A tool's own timer fires when it is armed. Nothing makes a silent server answer, so `CurlAnswers` and `PsAnswers` are not fair.
  - That is why `sync_fetchhang` can hang, and why `Termination` holds in `sync_pass`, whose configurations set a timeout.
- `TableBrowse` assumes weak fairness of each caller's `ResolveType`, of its `Connect` or `ConnectFail`, and of its `Answer`. Tokio polls every handler's future until it returns. `resolve_type` and `detect_db_kind` do not await. `create_pool`'s connect succeeds or fails within the pool's acquire timeout (30 s for a browsing key). The catalog query is answered or its connection dropped, as for `SyncPipeline`'s database steps. The store's steps, restarts and new requests are not fair. `ResolveType`'s fairness is written out as `[]<>~ResolveTypeEnabled(c) \/ []<><<ResolveType(c)>>_vars`. `ResolveTypeEnabled(c)` is `req[c].st = "url"`, which is the action's ENABLED in every reachable state (TypeOK ties `pc` to `req`). TLC evaluates the literal ENABLED through `FromManager` about a hundred times slower.
- `DslEngine` and `ConfigStore` assume no fairness, because their properties are safety properties.
- Deadlock checking is off only for `SyncPipeline`, where a finished job really stops.

## Not modelled, and the plan

- A job's run after it has its pool. `TableBrowse` hands the pool to `sync` and stops; `SyncPipeline` runs `sync` with a fixed configuration. The job reads the store only once, under the read lock, before it starts.
- The pool cache's check-then-insert race has no run. Spec section 9 already lists it as an open question. `browse_pass` checks that the duplicate pools stay bounded by the number of callers.
- The torn read of a browsing request has no run. An update between `resolve_url` and `resolve_type` pairs the old URL with the new type. The request then fails with 400, which is not a broken promise. `browse_pass` reaches this interleaving, and `RequestsAnswered` shows that the request is still answered.
- The catalog queries (`list_tables_postgres`, `fetch_columns_*`), `guess_type` and the JSON the browsing handlers answer with. They read the database and format text. `guess_type`'s `timestamp` for `date` and `time` columns, which the timestamp parser then rejects, is listed as a hazard.
- `dsl_engine/mod.rs` holds only unit tests. `core/mod.rs`'s inherent methods after `from_manager` have no caller.
- A request that curl sent before it timed out is sent again by PowerShell. The model's server keeps no state, so a doubled POST has nothing to break. It is listed as a hazard.
- The fetch's request headers, body and method, and the browsing handlers' fetches. They change no state that a property reads.
- In the configuration store:
  - `ConfigManager::new` failing, which gives a manager with an empty path whose every persist fails;
  - files that are not valid JSON;
  - `Float` values;
  - schema descriptions.
  `get_by_prefix` has no caller.
- Two bugs that a unit test reaches directly are listed as hazards, not as runs:
  - a number literal beyond i64 compiles to 0 (`parser.rs:27`);
  - key columns that cover every column give an empty SET list (`server.rs:350`).
- `build_placeholders` and identifier text. They are always generated from the same column list; only the statement's shape matters to the properties.
- The other HTTP handlers, the CLI's `test-api`, `list-tables`, `describe-table` and `gen-mapping`, clap's argument parsing, the Flutter bridge and the examples. These are I/O around the modelled parts. `cli.rs`'s private copies of `try_curl`, `try_powershell`, `fetch_json` and `extract_by_path` are the same code as `client_tool.rs` and `server.rs`.
- `FunctionRegistry::register`: nothing in the library registers a function.
