---------------------------- MODULE SyncPipeline ----------------------------
(***************************************************************************)
(* One sync job: sync(cfg, pool) in core/server.rs. The job fetches the    *)
(* source document, locates the record array, and writes the records in   *)
(* batches of batch_size, one database transaction per batch; the first   *)
(* error (coercion, SQL, connection, commit) ends the job with the        *)
(* transaction dropped, i.e. rolled back. Each action is one step of the  *)
(* job between two suspension points (fetch, begin, execute, commit).     *)
(***************************************************************************)
EXTENDS Integers, Sequences, FiniteSets, FiniteSetsExt, SyncJobConfig,
        FetchClient

VARIABLES
    cfg,     \* the job's Config
    phase,   \* where the job is: curl, ps, begin, row, commit, done, failed
    items,   \* the located records
    start,   \* first index (0-based) of the current batch
    end,     \* one past the last index of the current batch
    cur,     \* the record the batch writes next
    tx,      \* the rows the open transaction sees, its own writes included
    table,   \* the committed rows of the target table
    reason   \* why the job failed

vars == <<cfg, phase, items, start, end, cur, tx, table, reason>>

Phases == {"curl", "ps", "begin", "row", "commit", "done", "failed"}
FailReasons == {"none", "fetch", "locate", "coerce", "conn", "commit"}
                 \cup SqlErrors

Init ==
    /\ cfg \in Configs
    /\ phase = "curl"
    /\ items = <<>>
    /\ start = 0 /\ end = 0 /\ cur = 0
    /\ tx = {}
    /\ table \in InitTables
    /\ reason = "none"

Fail(why) == /\ phase' = "failed"
             /\ reason' = why
             /\ tx' = {}

(***************************************************************************)
(* fetch_json(&cfg.api).await? and the locator. The server answers with   *)
(* the body b, an index into Docs, or 0 for a body that is not JSON. curl *)
(* runs without -f, so it exits 0 for any HTTP answer and fetch_json     *)
(* parses its body; only a curl error (refused, unresolved, timed out,    *)
(* missing binary) runs the PowerShell fallback, whose error ends the    *)
(* job. Without use_transaction sync() has no loop at all and returns     *)
(* Ok(()) once the items are found.                                       *)
(***************************************************************************)
Bodies == 0 .. Len(Docs)

\* What serde_json reads from curl's stdout, and from PowerShell's.
CurlParsed(b) == IF b = 0 THEN None ELSE Some(Docs[b])
PsParsed(b) == IF b = 0 THEN Some(NotJsonText) ELSE PsOutput(Docs[b])

\* The parse and the locator, on what the fetch returned.
Received(parsed) ==
    \/ /\ parsed = None
       /\ Fail("fetch")
       /\ UNCHANGED items
    \/ /\ parsed # None
       /\ Locate(cfg, parsed[1]) = {}
       /\ Fail("locate")
       /\ UNCHANGED items
    \/ /\ parsed # None
       /\ \E its \in Locate(cfg, parsed[1]) :
            /\ items' = its
            /\ phase' = IF UseTx(cfg) /\ 0 < Len(its) THEN "begin" ELSE "done"
       /\ UNCHANGED <<tx, reason>>

CurlAnswers ==
    /\ phase = "curl"
    /\ \E b \in Bodies : Received(CurlParsed(b))
    /\ UNCHANGED <<cfg, start, end, cur, table>>

CurlFails ==
    /\ phase = "curl"
    /\ phase' = "ps"
    /\ UNCHANGED <<cfg, items, start, end, cur, tx, table, reason>>

\* --max-time expires: the job's own timer, so it is always taken.
CurlTimesOut ==
    /\ phase = "curl"
    /\ CurlTimed(cfg.timeoutSecs)
    /\ phase' = "ps"
    /\ UNCHANGED <<cfg, items, start, end, cur, tx, table, reason>>

PsAnswers ==
    /\ phase = "ps"
    /\ \E b \in Bodies : Received(PsParsed(b))
    /\ UNCHANGED <<cfg, start, end, cur, table>>

PsFails ==
    /\ phase = "ps"
    /\ Fail("fetch")
    /\ UNCHANGED <<cfg, items, start, end, cur, table>>

PsTimesOut ==
    /\ phase = "ps"
    /\ PsTimed(cfg.timeoutSecs)
    /\ Fail("fetch")
    /\ UNCHANGED <<cfg, items, start, end, cur, table>>

(***************************************************************************)
(* Loop head, `while start < items.len()` having held: the batch bounds   *)
(* and pool.begin().await?.                                               *)
(***************************************************************************)
BeginBatch ==
    /\ phase = "begin"
    /\ end' = BatchEnd(cfg, start, Len(items))
    /\ cur' = start
    /\ tx' = table
    /\ phase' = IF start < end' THEN "row" ELSE "commit"
    /\ UNCHANGED <<cfg, items, start, table, reason>>

BeginFails ==
    /\ phase = "begin"
    /\ Fail("conn")
    /\ UNCHANGED <<cfg, items, start, end, cur, table>>

(***************************************************************************)
(* One record of the batch: every column's to_typed_value(v, t)?, then    *)
(* q.execute(&mut *tx).await?. An error returns from sync() and drops the *)
(* transaction, which rolls it back.                                      *)
(***************************************************************************)
CoerceFails ==
    /\ phase = "row"
    /\ ~CoercesOk(items[cur + 1])
    /\ Fail("coerce")
    /\ UNCHANGED <<cfg, items, start, end, cur, table>>

\* Mutant: the row is written outside the transaction.
WriteRowAutocommit ==
    /\ phase = "row"
    /\ CoercesOk(items[cur + 1])
    /\ LET res == Execute(Stmt(cfg), TableKey, tx, RowOf(items[cur + 1]))
       IN /\ res.ok
          /\ tx' = res.view
          /\ table' = res.view
    /\ cur' = cur + 1
    /\ phase' = IF cur + 1 < end THEN "row" ELSE "commit"
    /\ UNCHANGED <<cfg, items, start, end, reason>>

WriteRow ==
    /\ phase = "row"
    /\ CoercesOk(items[cur + 1])
    /\ LET res == Execute(Stmt(cfg), TableKey, tx, RowOf(items[cur + 1]))
       IN /\ res.ok
          /\ tx' = res.view
    /\ cur' = cur + 1
    /\ phase' = IF cur + 1 < end THEN "row" ELSE "commit"
    /\ UNCHANGED <<cfg, items, start, end, table, reason>>

WriteRejected ==
    /\ phase = "row"
    /\ CoercesOk(items[cur + 1])
    /\ LET res == Execute(Stmt(cfg), TableKey, tx, RowOf(items[cur + 1]))
       IN /\ ~res.ok
          /\ Fail(res.reason)
    /\ UNCHANGED <<cfg, items, start, end, cur, table>>

WriteConnFails ==
    /\ phase = "row"
    /\ CoercesOk(items[cur + 1])
    /\ Fail("conn")
    /\ UNCHANGED <<cfg, items, start, end, cur, table>>

(***************************************************************************)
(* tx.commit().await?; start = end. A commit whose answer is lost fails   *)
(* the job whether or not the server applied it.                          *)
(***************************************************************************)
\* Mutant: the loop test is off by one after a commit.
CommitOffByOne ==
    /\ phase = "commit"
    /\ table' = tx
    /\ start' = end
    /\ phase' = IF end + 1 < Len(items) THEN "begin" ELSE "done"
    /\ tx' = {}
    /\ UNCHANGED <<cfg, items, end, cur, reason>>

Commit ==
    /\ phase = "commit"
    /\ table' = tx
    /\ start' = end
    /\ phase' = IF end < Len(items) THEN "begin" ELSE "done"
    /\ tx' = {}
    /\ UNCHANGED <<cfg, items, end, cur, reason>>

CommitFails ==
    /\ phase = "commit"
    /\ table' \in {table, tx}
    /\ Fail("commit")
    /\ UNCHANGED <<cfg, items, start, end, cur>>

Next ==
    \/ CurlAnswers \/ CurlFails \/ CurlTimesOut
    \/ PsAnswers \/ PsFails \/ PsTimesOut
    \/ BeginBatch \/ BeginFails
    \/ CoerceFails \/ WriteRow \/ WriteRejected \/ WriteConnFails
    \/ Commit \/ CommitFails

\* The job's steps against the database. The job runs on a tokio task that
\* is polled until sync() returns, and every database await completes: the
\* pool's acquire timeout bounds begin, and the server answers or drops the
\* connection.
DbStep == phase \in {"begin", "row", "commit"} /\ Next

\* The fetch is a child process the job waits for: only the tools' own
\* timers are sure to end it, a server may keep the connection open.
Spec == Init /\ [][Next]_vars
        /\ WF_vars(DbStep) /\ WF_vars(CurlTimesOut) /\ WF_vars(PsTimesOut)

-----------------------------------------------------------------------------
\* Types, and the batch bounds staying inside the located records.
TypeOK ==
    /\ cfg \in Configs
    /\ phase \in Phases
    /\ reason \in FailReasons
    /\ \/ items = <<>>
       \/ \E b \in Bodies : \E p \in {CurlParsed(b), PsParsed(b)} :
            p # None /\ items \in Locate(cfg, p[1])
    /\ start \in 0 .. Len(items)
    /\ end \in 0 .. Len(items)
    /\ cur \in start .. Max({start, end})
    /\ \A r \in tx \cup table : DOMAIN r = Cols /\ \A c \in Cols : Len(r[c]) <= 1

(***************************************************************************)
(* Batch atomicity: the pipeline implements SyncAtomic. The abstract      *)
(* table is the committed table, the abstract count of written records is *)
(* the start of the current batch; an open batch is invisible.            *)
(***************************************************************************)
Atomic == INSTANCE SyncAtomic
            WITH aphase <- CASE phase \in {"begin", "row", "commit"} -> "run"
                             [] phase \in {"curl", "ps"} -> "fetch"
                             [] OTHER -> phase,
                 next <- start

\* A job writes whole batches in order, each all or nothing: the table never
\* shows part of a batch (sync's per-batch transaction, commit and drop).
BatchAtomicity == Atomic!ASpec

\* Item i is the last located record with its primary key.
LastOfKey(i) ==
    \A j \in i + 1 .. Len(items) :
        \E c \in TableKey : RowOf(items[j])[c] # RowOf(items[i])[c]

\* A job that returns Ok(()) has persisted every located record: each one
\* coerced, and the table holds, for every key, the row of the last record
\* with that key (sync()'s loop, its commits and its Ok at the end).
SuccessMeansAllPersisted ==
    phase = "done" =>
        \A i \in 1 .. Len(items) :
            /\ CoercesOk(items[i])
            /\ LastOfKey(i) => RowOf(items[i]) \in table

\* An upsert is a statement that re-syncing the same records never breaks:
\* an upsert job fails only for its input or its connection, never because
\* of the conflict clause sync() builds from key_columns.
UpsertNeverRejected ==
    Mode(cfg) = "upsert" /\ phase = "failed" =>
        reason \notin {"sql_duplicate", "sql_syntax", "sql_conflict_target"}

\* Every job returns: the fetch ends by its timeout when the server does not
\* answer, and sync()'s batch loop advances start on every commit.
Termination == <>(phase \in {"done", "failed"})
=============================================================================
