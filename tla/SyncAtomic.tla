----------------------------- MODULE SyncAtomic -----------------------------
(***************************************************************************)
(* What a sync job promises the target table (spec section 4.5): the      *)
(* located records are written in consecutive batches of batch_size, in   *)
(* order; a batch appears in the table all at once or not at all; a job   *)
(* that fails keeps the batches committed before it and nothing of later  *)
(* ones; a job ends "done" only once every located record is written.     *)
(* A commit whose outcome is lost may leave its batch applied and still   *)
(* fail the job.                                                           *)
(***************************************************************************)
EXTENDS Integers, Sequences, SyncJobConfig

VARIABLES
    cfg,     \* the job's Config
    aphase,  \* fetch, run, done or failed
    items,   \* the located records
    next,    \* how many records are written
    table    \* the committed rows

avars == <<cfg, aphase, items, next, table>>

\* The table after writing recs one after another from view, or the first
\* error: what one batch does when it commits.
RECURSIVE ApplyBatch(_, _, _)
ApplyBatch(conf, view, recs) ==
    IF recs = <<>> THEN ExecOk(view)
    ELSE IF ~CoercesOk(Head(recs)) THEN ExecError("coerce")
    ELSE LET res == Execute(Stmt(conf), TableKey, view, RowOf(Head(recs)))
         IN IF res.ok THEN ApplyBatch(conf, res.view, Tail(recs)) ELSE res

\* The batch that starts at next.
Batch == SubSeq(items, next + 1, BatchEnd(cfg, next, Len(items)))

AInit ==
    /\ cfg \in Configs
    /\ aphase = "fetch"
    /\ items = <<>>
    /\ next = 0
    /\ table \in InitTables

AFetch ==
    /\ aphase = "fetch"
    /\ \E d \in DOMAIN Docs : \E its \in Locate(cfg, Docs[d]) :
         /\ items' = its
         /\ aphase' = IF Len(its) > 0 THEN "run" ELSE "done"
    /\ UNCHANGED <<cfg, next, table>>

ACommitBatch ==
    /\ aphase = "run"
    /\ ApplyBatch(cfg, table, Batch).ok
    /\ table' = ApplyBatch(cfg, table, Batch).view
    /\ next' = BatchEnd(cfg, next, Len(items))
    /\ aphase' = IF next' = Len(items) THEN "done" ELSE "run"
    /\ UNCHANGED <<cfg, items>>

\* Failing leaves the table as the committed batches made it, or, for a
\* commit whose answer was lost, with the current batch applied.
AFail ==
    /\ aphase \in {"fetch", "run"}
    /\ aphase' = "failed"
    /\ \/ table' = table
       \/ /\ aphase = "run"
          /\ ApplyBatch(cfg, table, Batch).ok
          /\ table' = ApplyBatch(cfg, table, Batch).view
    /\ UNCHANGED <<cfg, items, next>>

ANext == AFetch \/ ACommitBatch \/ AFail

ASpec == AInit /\ [][ANext]_avars
=============================================================================
