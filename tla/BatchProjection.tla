--------------------------- MODULE BatchProjection ---------------------------
(***************************************************************************)
(* The status and counts a batch caches, recomputed in every transaction   *)
(* that moves one of its items (db/repositories/batches.py, the roll-up in *)
(* domain/item_state.py, transition in db/repositories/items.py).          *)
(*                                                                         *)
(* One batch.  Transactions are READ COMMITTED: each statement sees what   *)
(* others had committed when it began, an updated row is locked until the  *)
(* commit, and the session (autoflush is off) writes the batch only with   *)
(* the commit, and of it only the columns whose value differs from the one *)
(* it loaded.                                                              *)
(***************************************************************************)
EXTENDS ItemState

CONSTANTS
    Items,      \* the batch's items
    Sessions    \* open units of work: workers, the reaper, a retry

VARIABLES
    status,     \* the items' committed statuses
    cache,      \* the batch row's committed status, status_counts, completed_at
    at,         \* what a session does next
    writes,     \* the item updates it holds uncommitted
    loaded,     \* the batch as it read it
    seen,       \* the projection it computed
    disturbed,  \* history: another session committed after this one loaded the batch
    tainted     \* history: the last commit was by a disturbed session

vars == <<status, cache, at, writes, loaded, seen, disturbed, tainted>>

Untouched == "untouched"

-----------------------------------------------------------------------------
(* The roll-up of item statuses st. *)

BatchStatus == {"queued", "processing", "completed", "partial_failed", "failed"}

Terminal == {"completed", "partial_failed", "failed"}

\* Slip: asks for activity before it asks whether anything has started.
DeriveActiveFirst(st) ==
    IF \E i \in Items : st[i] \in PipelineActive THEN "processing"
    ELSE IF \A i \in Items : st[i] \in PipelineFailed THEN "failed"
    ELSE IF \E i \in Items : st[i] \in PipelineFailed THEN "partial_failed"
    ELSE "completed"

DeriveBatchStatus(st) ==
    IF \A i \in Items : st[i] = "uploaded" THEN "queued"
    ELSE IF \E i \in Items : st[i] \in PipelineActive THEN "processing"
    ELSE IF \A i \in Items : st[i] \in PipelineFailed THEN "failed"
    ELSE IF \E i \in Items : st[i] \in PipelineFailed THEN "partial_failed"
    ELSE "completed"

CountKeys == {"queued", "processing", "awaiting_review", "no_ads", "needs_attention",
              "failed", "completed"}

CountKeyOf(s) ==
    CASE s = "uploaded"    -> "queued"
      [] s \in InFlight    -> "processing"
      [] OTHER             -> s

CountsFrom(st) ==
    [k \in CountKeys |-> Cardinality({i \in Items : CountKeyOf(st[i]) = k})]

Projection(st) ==
    [status    |-> DeriveBatchStatus(st),
     counts    |-> CountsFrom(st),
     finished  |-> DeriveBatchStatus(st) \in Terminal]

-----------------------------------------------------------------------------
Nothing == [i \in Items |-> Untouched]

\* What a session sees of the items: what is committed, under its own updates.
View(t) == [i \in Items |-> IF writes[t][i] = Untouched THEN status[i] ELSE writes[t][i]]

\* A session that has not read the batch.
NotRead == Projection([i \in Items |-> "uploaded"])

\* A batch whose items are anywhere in their lives, and no transaction open.
Init ==
    /\ status \in [Items -> ItemStatus]
    /\ cache = Projection(status)
    /\ at = [t \in Sessions |-> "idle"]
    /\ writes = [t \in Sessions |-> Nothing]
    /\ loaded = [t \in Sessions |-> NotRead]
    /\ seen = [t \in Sessions |-> NotRead]
    /\ disturbed = [t \in Sessions |-> FALSE]
    /\ tainted = FALSE

\* transition or claim: one row, locked from here to the commit.  A session that
\* moves several items (the reaper, recovery) comes back here, and finds the batch
\* in its identity map.
Update(t, i, target) ==
    /\ at[t] \in {"idle", "commit"}
    /\ \A u \in Sessions : writes[u][i] = Untouched
    /\ IsLegalTransition(status[i], target)
    /\ writes' = [writes EXCEPT ![t][i] = target]
    /\ at' = [at EXCEPT ![t] = IF at[t] = "idle" THEN "load" ELSE "count"]
    /\ UNCHANGED <<status, cache, loaded, seen, disturbed, tainted>>

\* refresh_projection: self.get(batch_id), ...
Load(t) ==
    /\ at[t] = "load"
    /\ loaded' = [loaded EXCEPT ![t] = cache]
    /\ at' = [at EXCEPT ![t] = "count"]
    /\ UNCHANGED <<status, cache, writes, seen, disturbed, tainted>>

\* Slip: the projection is recomputed before the item is updated.
CountTooEarly(t) ==
    /\ at[t] = "count"
    /\ seen' = [seen EXCEPT ![t] = Projection(status)]
    /\ at' = [at EXCEPT ![t] = "commit"]
    /\ UNCHANGED <<status, cache, writes, loaded, disturbed, tainted>>

\* ... then status_counts, a statement of its own.
Count(t) ==
    /\ at[t] = "count"
    /\ seen' = [seen EXCEPT ![t] = Projection(View(t))]
    /\ at' = [at EXCEPT ![t] = "commit"]
    /\ UNCHANGED <<status, cache, writes, loaded, disturbed, tainted>>

\* Slip: completed_at is set and never cleared.
FlushedForGood(t) ==
    [status   |-> IF seen[t].status # loaded[t].status THEN seen[t].status ELSE cache.status,
     counts   |-> IF seen[t].counts # loaded[t].counts THEN seen[t].counts ELSE cache.counts,
     finished |-> seen[t].finished \/ cache.finished]

\* The columns the flush writes.  completed_at gets a new time whenever the
\* batch is finished, and is cleared when it was set.
Flushed(t) ==
    [status   |-> IF seen[t].status # loaded[t].status THEN seen[t].status ELSE cache.status,
     counts   |-> IF seen[t].counts # loaded[t].counts THEN seen[t].counts ELSE cache.counts,
     finished |-> seen[t].finished \/ (cache.finished /\ ~loaded[t].finished)]

\* The unit of work is closed.
Close(t) ==
    /\ at' = [at EXCEPT ![t] = "idle"]
    /\ writes' = [writes EXCEPT ![t] = Nothing]
    /\ loaded' = [loaded EXCEPT ![t] = NotRead]
    /\ seen' = [seen EXCEPT ![t] = NotRead]

Commit(t) ==
    /\ at[t] = "commit"
    /\ status' = View(t)
    /\ cache' = Flushed(t)
    /\ Close(t)
    /\ disturbed' = [u \in Sessions |->
                        u # t /\ (disturbed[u] \/ at[u] \in {"count", "commit"})]
    /\ tainted' = disturbed[t]

\* An exception, or the death of the process.
Rollback(t) ==
    /\ at[t] # "idle"
    /\ Close(t)
    /\ disturbed' = [disturbed EXCEPT ![t] = FALSE]
    /\ UNCHANGED <<status, cache, tainted>>

Next ==
    \E t \in Sessions :
        \/ \E i \in Items, target \in ItemStatus : Update(t, i, target)
        \/ Load(t) \/ Count(t) \/ Commit(t) \/ Rollback(t)

Spec == Init /\ [][Next]_vars

-----------------------------------------------------------------------------
(* Properties. *)

\* The cache is what the items say unless the last commit came from a
\* transaction beside which another one committed: nothing else makes it drift,
\* neither the column-wise flush, nor a batch that a retry reopens, nor a session
\* that moves several items; and one transaction that runs alone repairs it.
CacheRightUnlessDisturbed == ~tainted => cache = Projection(status)

\* The status and the seven counts are derived apart and tell the same story.
RollUpsAgree ==
    LET c == CountsFrom(status)
        total == Cardinality(Items)
        failures == c["needs_attention"] + c["failed"]
        batch == DeriveBatchStatus(status)
    IN /\ batch = "queued" <=> c["queued"] = total
       /\ batch \in Terminal <=> c["queued"] + c["processing"] = 0 /\ total > 0
       /\ batch = "failed" <=> failures = total /\ total > 0
       /\ batch = "partial_failed" => failures \in 1 .. total - 1
       /\ batch = "completed" => failures = 0

\* "The cache cannot drift from the rows it summarises" (refresh_projection),
\* where no transaction is open.
CacheCannotDrift ==
    (\A t \in Sessions : at[t] = "idle") => cache = Projection(status)

\* What makes CacheRightUnlessDisturbed inductive: a session nobody disturbed
\* holds the batch as it is, and the projection its commit will make true.
ProjectionInv ==
    /\ CacheRightUnlessDisturbed
    /\ \A t \in Sessions :
        ~disturbed[t] =>
            /\ at[t] \in {"count", "commit"} => loaded[t] = cache
            /\ at[t] = "commit" => seen[t] = Projection(View(t))
=============================================================================
