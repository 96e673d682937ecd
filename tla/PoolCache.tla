----------------------------- MODULE PoolCache -----------------------------
(***************************************************************************)
(* The process-wide connection pool cache (core/db.rs, DB_POOLS) and the  *)
(* two ways callers reach it (core/server.rs): get_pool_from_config, used *)
(* by every sync job, and get_pool_from_query, used by the table browsing *)
(* handlers. Requests are tokio tasks (axum handlers, CLI jobs) that run  *)
(* concurrently. get_db_pool looks the DbConfig key up in the DashMap     *)
(* (one atomic step), and on a miss awaits create_pool, then inserts the  *)
(* new pool, overwriting whatever another task inserted meanwhile.        *)
(* TableBrowse drives these actions from the handlers that call it.      *)
(***************************************************************************)
EXTENDS Integers, FiniteSets, TypedValue

CONSTANTS
    Callers,   \* the concurrent tasks that ask for a pool
    Urls,      \* the database URLs in the configurations
    MaxPools   \* bound on the pools created in a behaviour

ASSUME MaxPools \in Nat

VARIABLES
    cache,    \* DB_POOLS: a set of [key, pool] entries, one per key
    created,  \* every pool create_pool returned: [id, key]
    pc,       \* per caller: idle, connecting, done, failed
    want,     \* per caller: the DbConfig key it asked for
    got       \* per caller: the id of the pool it returned, 0 for none

vars == <<cache, created, pc, want, got>>

\* DbConfig {kind, url, max_conns, timeout_secs}. The kind is the one
\* detect_db_kind chose, which an explicit db_type may set against the URL.
DbConfig(kind, url, maxConns, timeoutSecs) ==
    [kind |-> kind, url |-> url, maxConns |-> maxConns, timeoutSecs |-> timeoutSecs]

Kinds == {"postgres", "mysql"}

\* get_pool_from_config: max_connections.unwrap_or(20),
\* acquire_timeout_secs.unwrap_or(60), always passed as Some.
KeyFromConfig(kind, url, maxConnections, acquireTimeout) ==
    DbConfig(kind, url, IF maxConnections = None THEN 20 ELSE maxConnections[1],
             Some(IF acquireTimeout = None THEN 60 ELSE acquireTimeout[1]))

\* get_pool_from_query: 5 connections, no timeout.
KeyFromQuery(kind, url) == DbConfig(kind, url, 5, None)

\* The keys callers may ask for: a browsing query, and a task's Config
\* with max_connections and acquire_timeout_secs unset, set to 5 and 60, or
\* DbConfig::default's 10 and 30.
Keys == {KeyFromQuery(k, u) : k \in Kinds, u \in Urls}
        \cup {KeyFromConfig(k, u, m, a) : k \in Kinds, u \in Urls,
                 m \in {None, Some(5), Some(10)}, a \in {None, Some(30), Some(60)}}

\* DbConfig's derived Eq (and Hash): every field.
KeyEq(a, b) == a = b

Cached(k) == {e \in cache : KeyEq(e.key, k)}

Init ==
    /\ cache = {}
    /\ created = {}
    /\ pc = [c \in Callers |-> "idle"]
    /\ want = [c \in Callers |-> KeyFromQuery("postgres", CHOOSE u \in Urls : TRUE)]
    /\ got = [c \in Callers |-> 0]

\* pools.get(&key): a hit returns the cached pool's clone, a miss goes on
\* to create_pool.
Request(c, k) ==
    /\ pc[c] = "idle"
    /\ want' = [want EXCEPT ![c] = k]
    /\ IF Cached(k) # {}
       THEN /\ pc' = [pc EXCEPT ![c] = "done"]
            /\ got' = [got EXCEPT ![c] = (CHOOSE e \in Cached(k) : TRUE).pool]
       ELSE /\ pc' = [pc EXCEPT ![c] = "connecting"]
            /\ UNCHANGED got
    /\ UNCHANGED <<cache, created>>

\* Mutant: the new pool is returned but never inserted.
ConnectedNoInsert(c) ==
    /\ pc[c] = "connecting"
    /\ Cardinality(created) < MaxPools
    /\ LET p == [id |-> Cardinality(created) + 1, key |-> want[c]]
       IN /\ created' = created \cup {p}
          /\ got' = [got EXCEPT ![c] = p.id]
    /\ pc' = [pc EXCEPT ![c] = "done"]
    /\ UNCHANGED <<want, cache>>

\* create_pool(&key).await? succeeds, then pools.insert(key, pool.clone()).
Connected(c) ==
    /\ pc[c] = "connecting"
    /\ Cardinality(created) < MaxPools
    /\ LET p == [id |-> Cardinality(created) + 1, key |-> want[c]]
       IN /\ created' = created \cup {p}
          /\ cache' = {e \in cache : ~KeyEq(e.key, want[c])}
                        \cup {[key |-> want[c], pool |-> p.id]}
          /\ got' = [got EXCEPT ![c] = p.id]
    /\ pc' = [pc EXCEPT ![c] = "done"]
    /\ UNCHANGED want

\* Mutant: the failed key is cached with no pool.
ConnectFailsCachesKey(c) ==
    /\ pc[c] = "connecting"
    /\ pc' = [pc EXCEPT ![c] = "failed"]
    /\ cache' = cache \cup {[key |-> want[c], pool |-> 0]}
    /\ UNCHANGED <<created, want, got>>

\* connect() fails or times out: the error propagates, nothing is cached.
ConnectFails(c) ==
    /\ pc[c] = "connecting"
    /\ pc' = [pc EXCEPT ![c] = "failed"]
    /\ UNCHANGED <<cache, created, want, got>>

\* Mutant: only a task that got a pool returns; a failed one never does.
FinishOnlyDone(c) ==
    /\ pc[c] = "done"
    /\ pc' = [pc EXCEPT ![c] = "idle"]
    /\ got' = [got EXCEPT ![c] = 0]
    /\ UNCHANGED <<cache, created, want>>

\* The handler returns; the task may ask again later.
Finish(c) ==
    /\ pc[c] \in {"done", "failed"}
    /\ pc' = [pc EXCEPT ![c] = "idle"]
    /\ got' = [got EXCEPT ![c] = 0]
    /\ UNCHANGED <<cache, created, want>>

-----------------------------------------------------------------------------
TypeOK ==
    /\ cache \subseteq [key : Keys, pool : 1 .. MaxPools]
    /\ created \subseteq [id : 1 .. MaxPools, key : Keys]
    /\ pc \in [Callers -> {"idle", "connecting", "done", "failed"}]
    /\ want \in [Callers -> Keys]
    /\ got \in [Callers -> 0 .. MaxPools]

PoolOf(id) == CHOOSE p \in created : p.id = id
PoolsFor(k) == {p \in created : p.key = k}

\* The cache bounds the pools a key ever gets: only tasks that missed
\* before the first insert create one, so a key never has more pools than
\* there are tasks, however many requests follow (no eviction, insert on
\* every successful create).
PoolsPerKeyBounded ==
    \A k \in Keys : Cardinality(PoolsFor(k)) <= Cardinality(Callers)
=============================================================================
