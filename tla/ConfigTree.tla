----------------------------- MODULE ConfigTree -----------------------------
(***************************************************************************)
(* The value layer of the configuration store (app_config/, core/mod.rs,   *)
(* core/server.rs). A ConfigValue is a JSON value of TypedValue without    *)
(* Null (Bool, Int, Str, Arr, Obj). The store keeps flat maps: a function  *)
(* from keys to ConfigValues, a key being the sequence of the segments     *)
(* its dotted string joins. Object payloads are functions from field names *)
(* to values; arrays are leaves of the flat map.                           *)
(***************************************************************************)
EXTENDS Integers, Sequences, FiniteSets, TLC, TypedValue

CONSTANT UsizeMax   \* usize::MAX of the target, for `i as usize`

EmptyObj == [f \in {} |-> JNull]
EmptyMap == [k \in {} |-> JNull]

\* HashMap::insert.
Put(f, k, v) == [x \in DOMAIN f \cup {k} |-> IF x = k THEN v ELSE f[x]]

\* ConfigValue::from(serde_json::Value): Null becomes the empty string,
\* arrays and objects convert element by element.
RECURSIVE CV(_)
CV(v) == CASE Kind(v) = "null" -> JStr("")
           [] Kind(v) = "arr" -> JArr([i \in DOMAIN Val(v) |-> CV(Val(v)[i])])
           [] Kind(v) = "obj" -> JObj([k \in DOMAIN Val(v) |-> CV(Val(v)[k])])
           [] OTHER -> v

\* The paths from v to its leaves; an object is an inner node, anything
\* else (arrays included) a leaf, and an empty object has no leaf.
RECURSIVE LeafPaths(_)
LeafPaths(v) ==
    IF Kind(v) = "obj"
    THEN UNION {{<<k>> \o p : p \in LeafPaths(Val(v)[k])} : k \in DOMAIN Val(v)}
    ELSE {<<>>}

RECURSIVE At(_, _)
At(v, p) == IF p = <<>> THEN v ELSE At(Val(v)[Head(p)], Tail(p))

\* flatten("", &ConfigValue::Object(root), &mut result): one entry per leaf.
Flatten(root) == [p \in LeafPaths(root) |-> At(root, p)]

\* apply_json_defaults(mgr, "", defaults_json): register every leaf of the
\* defaults document, converted, as the default of its key.
JsonDefaults(json) == [p \in LeafPaths(json) |-> CV(At(json, p))]

\* ConfigManager::build: the user's values over the defaults.
Build(defaults, user) == user @@ defaults

(***************************************************************************)
(* unflatten: the keys are taken in the HashMap's iteration order, which   *)
(* is random per process. Inserting a key walks its segments, creating     *)
(* empty objects; a segment that holds a non-object makes                  *)
(* as_object_mut().unwrap() panic (None), and a last segment overwrites.   *)
(***************************************************************************)
RECURSIVE InsertPath(_, _, _)
InsertPath(obj, path, val) ==
    IF Len(path) = 1 THEN Some(Put(obj, path[1], val))
    ELSE LET child == IF path[1] \in DOMAIN obj THEN obj[path[1]] ELSE JObj(EmptyObj)
             inner == IF Kind(child) = "obj"
                      THEN InsertPath(Val(child), Tail(path), val) ELSE None
         IN IF inner = None THEN None ELSE Some(Put(obj, path[1], JObj(inner[1])))

RECURSIVE UnflattenIn(_, _, _)
UnflattenIn(flat, order, root) ==
    IF order = <<>> THEN Some(JObj(root))
    ELSE LET r == InsertPath(root, Head(order), flat[Head(order)])
         IN IF r = None THEN None ELSE UnflattenIn(flat, Tail(order), r[1])

\* The documents persist may write, None for a panic.
Unflattened(flat) ==
    {UnflattenIn(flat, o, EmptyObj) :
        o \in {s \in [1 .. Cardinality(DOMAIN flat) -> DOMAIN flat] :
                 \A i, j \in DOMAIN s : i # j => s[i] # s[j]}}

(***************************************************************************)
(* Task maps (server.rs).                                                  *)
(***************************************************************************)
\* merge_json_value(target, updates): for each field of an object update,
\* null removes it, an object merges into an object, anything else
\* replaces the field (an absent field starts as "").
RECURSIVE MergeJsonValue(_, _)
MergeJsonValue(target, updates) ==
    IF Kind(updates) # "obj" THEN target
    ELSE LET u == Val(updates)
             dels == {k \in DOMAIN u : Kind(u[k]) = "null"}
             sets == DOMAIN u \ dels
             old(k) == IF k \in DOMAIN target THEN target[k] ELSE JStr("")
         IN [k \in (DOMAIN target \ dels) \cup sets |->
               IF k \notin sets THEN target[k]
               ELSE IF Kind(old(k)) = "obj" /\ Kind(u[k]) = "obj"
                    THEN JObj(MergeJsonValue(Val(old(k)), u[k]))
                    ELSE CV(u[k])]

\* apply_default_task_values: entry(..).or_insert(..) for every default;
\* db and api get their own defaults only when they are objects.
TaskDefaults == [db_type |-> JStr(""), mode |-> JStr("insert"),
                 batch_size |-> JInt(100), column_mapping |-> JObj(EmptyObj),
                 column_types |-> JObj(EmptyObj), db |-> JObj(EmptyObj),
                 api |-> JObj(EmptyObj)]
DbDefaults == [url |-> JStr(""), table |-> JStr(""), key_columns |-> JArr(<<>>),
               max_connections |-> JInt(20), acquire_timeout_secs |-> JInt(60),
               use_transaction |-> JBool(TRUE)]
ApiDefaults == [url |-> JStr(""), method |-> JStr("GET"), headers |-> JObj(EmptyObj)]

FillObj(v, defs) == IF Kind(v) = "obj" THEN JObj(Val(v) @@ defs) ELSE v

ApplyDefaultTaskValues(map) ==
    LET m == map @@ TaskDefaults
    IN [m EXCEPT !["db"] = FillObj(@, DbDefaults), !["api"] = FillObj(@, ApiDefaults)]

(***************************************************************************)
(* Config::from_manager(mgr, task_id) (core/mod.rs), restricted to the     *)
(* settings a sync job runs with. key_columns is None whatever the task    *)
(* stores; the column mapping and types come from the sync request.       *)
(***************************************************************************)
TasksKey == <<"tasks">>

\* mgr.get("tasks") as an array, or None.
TasksOf(m) == IF TasksKey \in DOMAIN m /\ Kind(m[TasksKey]) = "arr"
              THEN Some(Val(m[TasksKey])) ELSE None

\* map.get("id") as a string.
IdOf(task) == IF Kind(task) = "obj" /\ "id" \in DOMAIN Val(task)
                 /\ Kind(Val(task)["id"]) = "str"
              THEN Some(Val(Val(task)["id"])) ELSE None

\* The index of the first task whose id is t (iter().find).
TaskIndex(tasks, t) ==
    LET is == {i \in DOMAIN tasks : IdOf(tasks[i]) = Some(t)}
    IN IF is = {} THEN None ELSE Some(CHOOSE i \in is : \A j \in is : i <= j)

\* get(k).and_then(as_str / as_i64 / as_bool) on an object's payload.
AsStrField(f, k) == IF k \in DOMAIN f /\ Kind(f[k]) = "str" THEN Some(Val(f[k])) ELSE None
AsIntField(f, k) == IF k \in DOMAIN f /\ Kind(f[k]) = "int" THEN Some(Val(f[k])) ELSE None
AsBoolField(f, k) == IF k \in DOMAIN f /\ Kind(f[k]) = "bool" THEN Some(Val(f[k])) ELSE None

\* The payload of an object field, or None (db_val, api_val).
ObjField(f, k) == IF k \in DOMAIN f /\ Kind(f[k]) = "obj" THEN Some(Val(f[k])) ELSE None

\* i as usize for an i64.
AsUsize(i) == IF i >= 0 THEN i ELSE UsizeMax + 1 + i

\* i as u32 and i as u64 for an i64 keep its low 32 or 64 bits, which is i
\* itself for 0 <= i < 2^31, the only values TLC's integers let the
\* instances store; a CASE without OTHER fails on any other.
AsU32(i) == CASE i \in 0 .. 2147483647 -> i
AsU64(i) == CASE i \in 0 .. 2147483647 -> i

\* DbConfig::default(), the db of a task whose db is not an object.
DbConfigDefault == [url |-> "", keyColumns |-> Some({}), maxConnections |-> Some(10),
                    acquireTimeoutSecs |-> Some(30), useTx |-> Some(FALSE)]

FromManager(m, t) ==
    LET tasks == TasksOf(m)
        idx == IF tasks = None THEN None ELSE TaskIndex(tasks[1], t)
    IN IF idx = None THEN None
       ELSE LET map == Val(tasks[1][idx[1]])
                db == ObjField(map, "db")
                api == ObjField(map, "api")
                bs == AsIntField(map, "batch_size")
                ts == IF api = None THEN None ELSE AsIntField(api[1], "timeout_secs")
                mc == IF db = None THEN None ELSE AsIntField(db[1], "max_connections")
                at == IF db = None THEN None ELSE AsIntField(db[1], "acquire_timeout_secs")
                url == IF db = None THEN None ELSE AsStrField(db[1], "url")
                dbc == IF db = None THEN DbConfigDefault
                       ELSE [url |-> IF url = None THEN "" ELSE url[1],
                             keyColumns |-> None,
                             maxConnections |-> IF mc = None THEN None ELSE Some(AsU32(mc[1])),
                             acquireTimeoutSecs |-> IF at = None THEN None ELSE Some(AsU64(at[1])),
                             useTx |-> AsBoolField(db[1], "use_transaction")]
            IN Some([dbType |-> AsStrField(map, "db_type"),
                     url |-> dbc.url, keyColumns |-> dbc.keyColumns, useTx |-> dbc.useTx,
                     maxConnections |-> dbc.maxConnections,
                     acquireTimeoutSecs |-> dbc.acquireTimeoutSecs,
                     mode |-> AsStrField(map, "mode"),
                     batchSize |-> IF bs = None THEN None ELSE Some(AsUsize(bs[1])),
                     itemsPath |-> IF api = None THEN None
                                   ELSE AsStrField(api[1], "items_json_path"),
                     timeoutSecs |-> IF ts = None THEN None ELSE Some(AsUsize(ts[1]))])
=============================================================================
