---------------------------- MODULE TableBrowse -----------------------------
(***************************************************************************)
(* The table browsing handlers list_tables, describe and gen_mapping       *)
(* (core/server.rs; GET /tables, /describe, /gen-mapping, and the Flutter  *)
(* bridge's get_tables) and sync_command's pool lookup, composed with the  *)
(* configuration store they read (ConfigStore) and the pool cache they     *)
(* fill (PoolCache), in a process that embeds the library: the store is  *)
(* ConfigStore without the watcher, changed by update_config between       *)
(* requests and by restarts. This over-approximates both shipped hosts:    *)
(* serve_http routes no update_config, so after init_system_config its     *)
(* store only changes by restart; the Flutter app's store changes by the   *)
(* watcher's reload, one atomic replacement of the task like the          *)
(* update_config step. Every property checked here is a safety property,  *)
(* or a liveness property under fairness of the callers' steps only, so   *)
(* it holds of the smaller sets of behaviours too. Callers are concurrent *)
(* tokio tasks.                                                            *)
(* A browsing handler calls get_pool_from_query (core/db.rs): resolve_url *)
(* and resolve_type (DbParams, server.rs) each take the manager's read    *)
(* lock on their own, so the store may change between the two reads.     *)
(* Then detect_db_kind, get_db_pool, and the catalog query.               *)
(***************************************************************************)
EXTENDS Integers, Sequences, FiniteSets, TypedValue

CONSTANTS
    DefaultsJson, InitFiles, TaskIds, CreateBodies, UpdateBodies,
    ExtKeys, ExtValues, UsizeMax,   \* the configuration store's, as in ConfigStore
    Callers, Urls, MaxPools,        \* the pool cache's, as in PoolCache
    Lower, Scheme,                  \* as in SyncCommand
    Queries   \* BaseDbQuery values [dbUrl, dbType, taskId], Options of strings

VARIABLES
    phase, file, user, merged, pending, reply, diverged, extEdits,
    cache, created, pc, want, got,
    req   \* per caller: the handler's progress and what it read

storeVars == <<phase, file, user, merged, pending, reply, diverged, extEdits>>
poolVars == <<cache, created, pc, want, got>>
vars == <<storeVars, poolVars, req>>

Store == INSTANCE ConfigStore WITH Watching <- FALSE
Pools == INSTANCE PoolCache
Cmd == INSTANCE SyncCommand WITH PathOf <- [s \in {} |-> RootPath], Identifiers <- {}

(***************************************************************************)
(* A request: st is idle, url (resolve_url done) or pool (in get_db_pool  *)
(* and after); route is browse or job; q and url are what resolve_type  *)
(* will read and what resolve_url returned. The status a handler answers  *)
(* with is not kept: each error return (400, or 500 from the catalog     *)
(* query) ends the request.                                               *)
(***************************************************************************)
IdleReq == [st |-> "idle", route |-> "browse",
            q |-> [dbUrl |-> None, dbType |-> None, taskId |-> None],
            url |-> ""]

\* A query string that is present and not empty.
Given(o) == o # None /\ o[1] # ""

\* task_id_opt().unwrap_or("default").
TaskOf(q) == IF q.taskId = None THEN "default" ELSE q.taskId[1]

\* DbParams::resolve_url: the query's db_url, else the task's non-empty
\* db.url under a read lock, else an error (None).
ResolveUrlIn(m, q) ==
    IF Given(q.dbUrl) THEN q.dbUrl
    ELSE LET fm == Store!FromManager(m, TaskOf(q))
         IN IF fm # None /\ fm[1].url # "" THEN Some(fm[1].url) ELSE None

\* DbParams::resolve_type: the query's db_type, else the task's db_type
\* under a second read lock.
ResolveTypeIn(m, q) ==
    IF Given(q.dbType) THEN q.dbType
    ELSE LET fm == Store!FromManager(m, TaskOf(q))
         IN IF fm = None THEN None ELSE fm[1].dbType

\* dbkind_from_opt_str: eq_ignore_ascii_case "postgres" or "mysql".
DbkindFromOptStr(s) ==
    IF s # None /\ Lower[s[1]] \in Pools!Kinds THEN Some(Lower[s[1]]) ELSE None

SetReq(c, r) == req' = [req EXCEPT ![c] = r]

Init == Store!Init /\ Pools!Init /\ req = [c \in Callers |-> IdleReq]

\* A browsing handler starts: get_pool_from_query's q.resolve_url()?;
\* an error answers 400.
ResolveUrl(c, q) ==
    /\ phase = "up" /\ req[c].st = "idle"
    /\ LET u == ResolveUrlIn(merged, q)
       IN IF u = None
          THEN SetReq(c, IdleReq)
          ELSE SetReq(c, [IdleReq EXCEPT !.st = "url", !.q = q, !.url = u[1]])
    /\ UNCHANGED <<storeVars, poolVars>>

\* detect_db_kind(&db_url, dbkind_from_opt_str(&q.resolve_type()))?, then
\* get_db_pool(&db_url, kind, 5, None)'s lookup.
ResolveType(c) ==
    /\ req[c].st = "url"
    /\ LET r == req[c]
           t == ResolveTypeIn(merged, r.q)
           kind == Cmd!DetectDbKind(r.url, DbkindFromOptStr(t))
       IN IF kind = None
          THEN /\ SetReq(c, IdleReq)
               /\ UNCHANGED poolVars
          ELSE /\ SetReq(c, [r EXCEPT !.st = "pool"])
               /\ Pools!Request(c, Pools!KeyFromQuery(kind[1], r.url))
    /\ UNCHANGED storeVars

\* sync_command(t, mapping): Config::from_manager under a read lock, then
\* get_pool_from_config (detect_db_kind, max_connections, acquire timeout);
\* an error answers 400. The mapping's overrides do not touch the pool.
JobPool(c, t) ==
    /\ phase = "up" /\ req[c].st = "idle"
    /\ LET fm == Store!FromManager(merged, t)
           kind == IF fm = None THEN None
                   ELSE Cmd!DetectDbKind(fm[1].url, Cmd!ExplicitKind(fm[1].dbType))
       IN IF kind = None
          THEN /\ SetReq(c, IdleReq)
               /\ UNCHANGED poolVars
          ELSE /\ SetReq(c, [IdleReq EXCEPT !.st = "pool", !.route = "job", !.url = fm[1].url])
               /\ Pools!Request(c, Pools!KeyFromConfig(kind[1], fm[1].url,
                                     fm[1].maxConnections, fm[1].acquireTimeoutSecs))
    /\ UNCHANGED storeVars

\* create_pool: the server accepts a connection only from the driver of its
\* own protocol, so a key whose kind is not the URL's scheme never connects.
Connect(c) ==
    /\ Scheme[want[c].url] = want[c].kind
    /\ Pools!Connected(c)
    /\ UNCHANGED <<storeVars, req>>

ConnectFail(c) == Pools!ConnectFails(c) /\ UNCHANGED <<storeVars, req>>

\* The handler answers: 400 when get_db_pool failed, else the catalog
\* query's 200 or 500; sync_command hands the pool to sync (SyncPipeline).
Answer(c) ==
    /\ req[c].st = "pool"
    /\ Pools!Finish(c)
    /\ SetReq(c, IdleReq)
    /\ UNCHANGED storeVars

\* The process ends: the store restarts, DB_POOLS and every request with it.
Restart ==
    /\ Store!Restart
    /\ cache' = {} /\ created' = {}
    /\ pc' = [c \in Callers |-> "idle"] /\ got' = [c \in Callers |-> 0]
    /\ UNCHANGED want
    /\ req' = [c \in Callers |-> IdleReq]

\* The store steps that change what a handler reads: run_serve's
\* init_system_config and update_config. Creates and editors' writes are
\* ConfigStore's own runs.
StoreStep ==
    /\ \/ Store!Boot
       \/ \E t \in TaskIds, u \in UpdateBodies : Store!UpdateConfig(t, u)
    /\ UNCHANGED <<poolVars, req>>

Next ==
    \/ StoreStep \/ Restart
    \/ \E c \in Callers :
          \/ \E q \in Queries : ResolveUrl(c, q)
          \/ \E t \in TaskIds : JobPool(c, t)
          \/ ResolveType(c) \/ Connect(c) \/ ConnectFail(c) \/ Answer(c)

Spec == Init /\ [][Next]_vars

(***************************************************************************)
(* Tokio polls every handler's future until it returns, so each caller's  *)
(* next step is weakly fair: resolve_type and detect_db_kind run without  *)
(* awaiting; create_pool's connect either succeeds or fails within its    *)
(* acquire timeout (30 s when the key has none); the catalog query is     *)
(* answered or its connection dropped. The store, restarts and new        *)
(* requests are not fair: nothing forces them to happen.                  *)
(***************************************************************************)
\* ENABLED <<ResolveType(c)>>_vars: both branches change req, and the pool
\* request's pc[c] = "idle" holds whenever req[c].st # "pool" (TypeOK).
\* Stated as a state predicate because TLC evaluates ENABLED through
\* FromManager very slowly.
ResolveTypeEnabled(c) == req[c].st = "url"

Fairness ==
    \A c \in Callers :
        \* WF_vars(ResolveType(c)), with its ENABLED written out
        /\ []<>~ResolveTypeEnabled(c) \/ []<><<ResolveType(c)>>_vars
        /\ WF_vars(Connect(c) \/ ConnectFail(c))
        /\ WF_vars(Answer(c))

FairSpec == Spec /\ Fairness

-----------------------------------------------------------------------------
\* Types, and a request is inside get_db_pool or after it exactly when its
\* caller is not idle in the pool cache.
TypeOK ==
    /\ Store!TypeOK /\ Pools!TypeOK
    /\ \A c \in Callers :
          /\ req[c].st \in {"idle", "url", "pool"} /\ req[c].route \in {"browse", "job"}
          /\ req[c].q \in Queries \cup {IdleReq.q}
          /\ (req[c].st = "pool") = (pc[c] # "idle")

\* The pool cache's promise (PoolCache) on the keys get_pool_from_query and
\* get_pool_from_config really build: a key gets no more pools than callers.
PoolsPerKeyBounded == Pools!PoolsPerKeyBounded

\* Every request a browsing handler or sync_command starts is answered:
\* no error path of get_pool_from_query, get_pool_from_config, get_db_pool
\* or create_pool leaves a handler, or the pool cache's caller, waiting.
RequestsAnswered == \A c \in Callers : req[c].st # "idle" ~> req[c].st = "idle"
=============================================================================
