------------------------------ MODULE WorkQueue ------------------------------
(***************************************************************************)
(* The table ingestion_items as a work queue: rows are claimed under a     *)
(* lease and a fresh token, moved by compare-and-swap, and put back by the *)
(* reaper, by recovery at start-up or by an operator's retry               *)
(* (db/repositories/items.py, jobs/local_pool.py, and the writes to the    *)
(* row in jobs/runner.py and services/ingestion.py).                       *)
(*                                                                         *)
(* Only the item row is modelled here.  What the same transactions write   *)
(* to artifacts and candidates, and the order of the steps a worker takes  *)
(* between two writes of the row, is in Pipeline, which extends this       *)
(* module and conjoins its own part to each of these actions.              *)
(***************************************************************************)
EXTENDS ItemState

CONSTANTS
    Items,           \* rows of ingestion_items
    Workers,         \* pool slots; a slot runs one claimed item at a time
    Operators,       \* requests that call retry_item
    Instances,       \* service processes
    InstanceOf,      \* the process a worker or a request lives in
    NoItem,          \* a slot or request that has no item
    MaxItemAttempts, \* settings.max_item_attempts
    SingleInstance,  \* settings.worker_single_instance
    MaxCrashes,      \* bound: how often a process dies
    MaxRetries       \* bound: how many retry requests are granted

ASSUME QueueAssumption ==
    /\ NoItem \notin Items
    /\ Workers \cap Operators = {}
    /\ InstanceOf \in [Workers \cup Operators -> Instances]
    /\ MaxItemAttempts \in Nat \ {0}
    /\ SingleInstance \in BOOLEAN
    \* config: recovery at start-up is only correct when nobody else runs.
    /\ SingleInstance => \A p, q \in Instances : p = q
    /\ MaxCrashes \in Nat
    /\ MaxRetries \in Nat

VARIABLES
    status,      \* ingestion_items.status
    claim,       \* ingestion_items.claim_token; 0 is NULL
    issued,      \* tokens ever handed out for the row (new_claim_token is fresh)
    attempts,    \* ingestion_items.attempt_count
    generation,  \* ingestion_items.pipeline_generation
    due,         \* run_after has passed
    lapsed,      \* lease_expires_at has passed
    task,        \* the item a worker is running
    held,        \* the claim token it was given
    req,         \* what a retry request read from the row
    up,          \* which processes are running
    crashes, retries

rowVars == <<status, claim, issued, attempts, generation, due, lapsed>>
queueVars == <<rowVars, task, held, req, up, crashes, retries>>

NoClaim == 0

Modes == {"resume", "reprocess"}

Requests == [item : Items \cup {NoItem}, mode : Modes,
             seen : ItemStatus, generation : Nat]

NoRequest == [item |-> NoItem, mode |-> "resume",
              seen |-> "uploaded", generation |-> 0]

Running(w) == task[w] # NoItem

\* The compare-and-swap predicate `claim_token = :token` would match.
Owns(w) == Running(w) /\ claim[task[w]] = held[w]

\* A zombie: the worker still runs an item whose claim has moved on.
Stale(w) == Running(w) /\ claim[task[w]] # held[w]

Init ==
    /\ status = [i \in Items |-> "uploaded"]
    /\ claim = [i \in Items |-> NoClaim]
    /\ issued = [i \in Items |-> 0]
    /\ attempts = [i \in Items |-> 0]
    /\ generation = [i \in Items |-> 1]
    /\ due = [i \in Items |-> TRUE]
    /\ lapsed = [i \in Items |-> FALSE]
    /\ task = [w \in Workers |-> NoItem]
    /\ held = [w \in Workers |-> NoClaim]
    /\ req = [o \in Operators |-> NoRequest]
    /\ up = [p \in Instances |-> TRUE]
    /\ crashes = 0
    /\ retries = 0

\* The slot is free again; the row is not written.
Leave(w) ==
    /\ Running(w)
    /\ task' = [task EXCEPT ![w] = NoItem]
    /\ held' = [held EXCEPT ![w] = NoClaim]

-----------------------------------------------------------------------------
(* Slips: variants of definitions below, each with one mistake the code    *)
(* could have made.  No specification uses them; they show that the        *)
(* properties notice.                                                      *)

\* A token derived from attempt_count, which a retry resets.
ClaimByAttempt(w, i) ==
    /\ up[InstanceOf[w]] /\ ~Running(w)
    /\ status[i] \in Claimable /\ due[i] /\ claim[i] = NoClaim
    /\ status' = [status EXCEPT ![i] = "preprocessing"]
    /\ issued' = [issued EXCEPT ![i] = @ + 1]
    /\ claim' = [claim EXCEPT ![i] = attempts[i] + 1]
    /\ attempts' = [attempts EXCEPT ![i] = @ + 1]
    /\ lapsed' = [lapsed EXCEPT ![i] = FALSE]
    /\ task' = [task EXCEPT ![w] = i]
    /\ held' = [held EXCEPT ![w] = attempts[i] + 1]
    /\ UNCHANGED <<generation, due, req, up, crashes, retries>>

\* A stage boundary that compares the token and not the status.
AdvanceByToken(w, from, to) ==
    /\ Owns(w)
    /\ status' = [status EXCEPT ![task[w]] = to]
    /\ lapsed' = [lapsed EXCEPT ![task[w]] = FALSE]
    /\ UNCHANGED <<claim, issued, attempts, generation, due,
                   task, held, req, up, crashes, retries>>

\* A stage boundary, with its heartbeat, that compares the status and not the token.
AdvanceUnfenced(w, from, to) ==
    /\ Running(w) /\ status[task[w]] = from
    /\ status' = [status EXCEPT ![task[w]] = to]
    /\ lapsed' = [lapsed EXCEPT ![task[w]] = FALSE]
    /\ UNCHANGED <<claim, issued, attempts, generation, due,
                   task, held, req, up, crashes, retries>>

\* transition without release_claim.
ReleaseKeepingClaim(w, target, nowDue) ==
    /\ Owns(w)
    /\ status' = [status EXCEPT ![task[w]] = target]
    /\ lapsed' = [lapsed EXCEPT ![task[w]] = FALSE]
    /\ due' = [due EXCEPT ![task[w]] = nowDue]
    /\ Leave(w)
    /\ UNCHANGED <<claim, issued, attempts, generation, req, up, crashes, retries>>

\* transition without claim_token.
ReleaseUnfenced(w, target, nowDue) ==
    /\ Running(w)
    /\ status' = [status EXCEPT ![task[w]] = target]
    /\ claim' = [claim EXCEPT ![task[w]] = NoClaim]
    /\ lapsed' = [lapsed EXCEPT ![task[w]] = FALSE]
    /\ due' = [due EXCEPT ![task[w]] = nowDue]
    /\ Leave(w)
    /\ UNCHANGED <<issued, attempts, generation, req, up, crashes, retries>>

\* Only rows still in the status a claim gives them are looked at.
ExpiredAtClaimTarget ==
    {i \in Items : claim[i] # NoClaim /\ lapsed[i] /\ status[i] = "preprocessing"}

\* The budget compared one attempt too late.
ExhaustedOneLate == {i \in Items : attempts[i] > MaxItemAttempts}

-----------------------------------------------------------------------------
(* Time. *)

LeaseLapses(i) ==
    /\ claim[i] # NoClaim /\ ~lapsed[i]
    /\ lapsed' = [lapsed EXCEPT ![i] = TRUE]
    /\ UNCHANGED <<status, claim, issued, attempts, generation, due,
                   task, held, req, up, crashes, retries>>

BackoffElapses(i) ==
    /\ ~due[i]
    /\ due' = [due EXCEPT ![i] = TRUE]
    /\ UNCHANGED <<status, claim, issued, attempts, generation, lapsed,
                   task, held, req, up, crashes, retries>>

-----------------------------------------------------------------------------
(* The worker's side of the row. *)

\* A free slot takes a claimable row: status, fresh token, lease and attempt
\* count change in the one UPDATE.
Claim(w, i) ==
    /\ up[InstanceOf[w]] /\ ~Running(w)
    /\ status[i] \in Claimable /\ due[i] /\ claim[i] = NoClaim
    /\ status' = [status EXCEPT ![i] = "preprocessing"]
    /\ issued' = [issued EXCEPT ![i] = @ + 1]
    /\ claim' = [claim EXCEPT ![i] = issued[i] + 1]
    /\ attempts' = [attempts EXCEPT ![i] = @ + 1]
    /\ lapsed' = [lapsed EXCEPT ![i] = FALSE]
    /\ task' = [task EXCEPT ![w] = i]
    /\ held' = [held EXCEPT ![w] = issued[i] + 1]
    /\ UNCHANGED <<generation, due, req, up, crashes, retries>>

\* A stage boundary: compare-and-swap on status and token, and the heartbeat
\* that renews the lease in the same transaction.
Advance(w, from, to) ==
    LET i == task[w] IN
    /\ Owns(w) /\ status[i] = from
    /\ status' = [status EXCEPT ![i] = to]
    /\ lapsed' = [lapsed EXCEPT ![i] = FALSE]
    /\ UNCHANGED <<claim, issued, attempts, generation, due,
                   task, held, req, up, crashes, retries>>

\* The run ends with no write to the row: its compare-and-swap missed, or the
\* failure handler itself failed and was swallowed.
Drop(w) ==
    /\ Leave(w)
    /\ UNCHANGED <<rowVars, req, up, crashes, retries>>

\* A write by the owner that ends the run and releases the claim.
Release(w, target, nowDue) ==
    LET i == task[w] IN
    /\ Owns(w)
    /\ status' = [status EXCEPT ![i] = target]
    /\ claim' = [claim EXCEPT ![i] = NoClaim]
    /\ lapsed' = [lapsed EXCEPT ![i] = FALSE]
    /\ due' = [due EXCEPT ![i] = nowDue]
    /\ Leave(w)
    /\ UNCHANGED <<issued, attempts, generation, req, up, crashes, retries>>

Finish(w, target) ==
    /\ Running(w) /\ status[task[w]] = "llm_processing"
    /\ target \in {"awaiting_review", "no_ads"}
    /\ Release(w, target, due[task[w]])

\* Slip: the row is requeued under the name the API counts it by.
FailAsQueued(w, retryable) ==
    /\ Running(w)
    /\ IF ~retryable \/ attempts[task[w]] >= MaxItemAttempts
       THEN Release(w, "needs_attention", due[task[w]])
       ELSE Release(w, "queued", FALSE)

\* Parked when the failure is permanent or the budget is spent, otherwise
\* requeued behind a backoff.
Fail(w, retryable) ==
    /\ Running(w)
    /\ IF ~retryable \/ attempts[task[w]] >= MaxItemAttempts
       THEN Release(w, "needs_attention", due[task[w]])
       ELSE Release(w, "uploaded", FALSE)

-----------------------------------------------------------------------------
(* Abandoned rows. *)

\* Give up the claims on these rows in one transaction: requeue_abandoned
\* with no delay for some, needs_attention for the others.
PutBack(requeued, parked) ==
    LET S == requeued \cup parked IN
    /\ status' = [i \in Items |-> IF i \in requeued THEN "uploaded"
                                  ELSE IF i \in parked THEN "needs_attention"
                                  ELSE status[i]]
    /\ claim' = [i \in Items |-> IF i \in S THEN NoClaim ELSE claim[i]]
    /\ lapsed' = [i \in Items |-> IF i \in S THEN FALSE ELSE lapsed[i]]
    /\ due' = [i \in Items |-> IF i \in requeued THEN TRUE ELSE due[i]]
    /\ UNCHANGED <<issued, attempts, generation>>

Expired == {i \in Items : claim[i] # NoClaim /\ lapsed[i]}

Exhausted == {i \in Items : attempts[i] >= MaxItemAttempts}

\* One pass of the reaper over the expired rows it could lock (SKIP LOCKED).
Reap(S) ==
    /\ S # {} /\ S \subseteq Expired
    /\ \E p \in Instances : up[p]
    /\ PutBack(S \ Exhausted, S \cap Exhausted)
    /\ UNCHANGED <<task, held, req, up, crashes, retries>>

\* _recover_in_flight requeues every in-flight row, whatever its attempts.
Recover == PutBack({i \in Items : status[i] \in InFlight}, {})

Start(p) ==
    /\ ~up[p]
    /\ up' = [up EXCEPT ![p] = TRUE]
    /\ IF SingleInstance THEN Recover ELSE UNCHANGED rowVars
    /\ UNCHANGED <<task, held, req, crashes, retries>>

\* The process dies: its slots and its open requests vanish, the rows stay.
Crash(p) ==
    /\ up[p] /\ crashes < MaxCrashes
    /\ up' = [up EXCEPT ![p] = FALSE]
    /\ crashes' = crashes + 1
    /\ task' = [w \in Workers |-> IF InstanceOf[w] = p THEN NoItem ELSE task[w]]
    /\ held' = [w \in Workers |-> IF InstanceOf[w] = p THEN NoClaim ELSE held[w]]
    /\ req' = [o \in Operators |-> IF InstanceOf[o] = p THEN NoRequest ELSE req[o]]
    /\ UNCHANGED <<rowVars, retries>>

-----------------------------------------------------------------------------
(* retry_item: an unlocked read of the row, then a compare-and-swap on the *)
(* status alone.  `force` is looked at when the row is read, by Pipeline's *)
(* RequestRetry, and never again.                                          *)

Allowed(mode) ==
    IF mode = "resume" THEN Retryable ELSE Retryable \cup Reprocessable

RetryRead(o, i, mode) ==
    /\ up[InstanceOf[o]] /\ req[o] = NoRequest /\ retries < MaxRetries
    /\ status[i] \in Allowed(mode)
    /\ req' = [req EXCEPT ![o] = [item |-> i, mode |-> mode,
                                  seen |-> status[i], generation |-> generation[i]]]
    /\ UNCHANGED <<rowVars, task, held, up, crashes, retries>>

RetryWrite(o) ==
    LET i == req[o].item IN
    /\ i # NoItem /\ status[i] = req[o].seen /\ retries < MaxRetries
    /\ status' = [status EXCEPT ![i] = "uploaded"]
    /\ claim' = [claim EXCEPT ![i] = NoClaim]
    /\ lapsed' = [lapsed EXCEPT ![i] = FALSE]
    /\ attempts' = [attempts EXCEPT ![i] = 0]
    /\ generation' = [generation EXCEPT
            ![i] = IF req[o].mode = "reprocess" THEN req[o].generation + 1 ELSE @]
    /\ req' = [req EXCEPT ![o] = NoRequest]
    /\ retries' = retries + 1
    /\ UNCHANGED <<issued, due, task, held, up, crashes>>

\* The row moved after it was read: the swap misses and the request fails.
RetryMiss(o) ==
    /\ req[o].item # NoItem /\ status[req[o].item] # req[o].seen
    /\ req' = [req EXCEPT ![o] = NoRequest]
    /\ UNCHANGED <<rowVars, task, held, up, crashes, retries>>

-----------------------------------------------------------------------------
WorkerStep(w) ==
    \/ Advance(w, "preprocessing", "ocr_processing")
    \/ Advance(w, "ocr_processing", "llm_processing")
    \/ \E target \in {"awaiting_review", "no_ads"} : Finish(w, target)
    \/ \E retryable \in BOOLEAN : Fail(w, retryable)
    \/ Drop(w)

OperatorStep(o) ==
    \/ \E i \in Items, mode \in Modes : RetryRead(o, i, mode)
    \/ RetryWrite(o)
    \/ RetryMiss(o)

Next ==
    \/ \E i \in Items : LeaseLapses(i) \/ BackoffElapses(i)
    \/ \E w \in Workers, i \in Items : Claim(w, i)
    \/ \E w \in Workers : WorkerStep(w)
    \/ \E S \in SUBSET Items : Reap(S)
    \/ \E p \in Instances : Start(p) \/ Crash(p)
    \/ \E o \in Operators : OperatorStep(o)

Spec == Init /\ [][Next]_queueVars

(***************************************************************************)
(* Fairness.  A running worker's steps end (OCR and provider calls carry   *)
(* timeouts), a started process polls and reaps for ever, clocks advance,  *)
(* and a dead process is started again.  A row that keeps becoming         *)
(* claimable is claimed in the end: claim_next takes the oldest run_after. *)
(***************************************************************************)
Fairness ==
    /\ \A i \in Items :
        /\ WF_queueVars(LeaseLapses(i))
        /\ WF_queueVars(BackoffElapses(i))
        /\ SF_queueVars(\E w \in Workers : Claim(w, i))
    /\ \A w \in Workers : WF_queueVars(WorkerStep(w))
    /\ \A p \in Instances : WF_queueVars(Start(p))
    /\ WF_queueVars(Reap(Expired))

FairSpec == Spec /\ Fairness

-----------------------------------------------------------------------------
(* Properties. *)

TypeOK ==
    /\ status \in [Items -> ItemStatus]
    /\ claim \in [Items -> Nat]
    /\ issued \in [Items -> Nat]
    /\ attempts \in [Items -> Nat]
    /\ generation \in [Items -> Nat]
    /\ due \in [Items -> BOOLEAN]
    /\ lapsed \in [Items -> BOOLEAN]
    /\ task \in [Workers -> Items \cup {NoItem}]
    /\ held \in [Workers -> Nat]
    /\ req \in [Operators -> Requests]
    /\ up \in [Instances -> BOOLEAN]
    /\ crashes \in 0 .. MaxCrashes
    /\ retries \in 0 .. MaxRetries

\* A row carries a claim token exactly while its status is an in-flight one,
\* across claims, failures, reaping, restarts and retries: a token left behind
\* would hide a queued row from _claimable_predicates, and an in-flight row
\* without one would be invisible to find_expired_leases.
ClaimIffInFlight ==
    \A i \in Items : claim[i] # NoClaim <=> status[i] \in InFlight

\* Two slots never hold the same token for the same row, however the lease
\* expires under one of them: the compare-and-swap on claim_token can match at
\* most one worker.
OneOwner ==
    \A v, w \in Workers :
        v # w /\ Running(v) /\ task[v] = task[w] => held[v] # held[w]

\* What makes OneOwner inductive: no token is in use that was not handed out,
\* and the tokens of a row only grow.
TokensWereIssued ==
    /\ \A i \in Items : claim[i] <= issued[i]
    /\ \A w \in Workers : Running(w) => held[w] \in 1 .. issued[task[w]]

\* A request in flight read a status its mode may retry from.
RequestsWereAllowed ==
    \A o \in Operators : req[o].item # NoItem => req[o].seen \in Allowed(req[o].mode)

\* The inductive invariant of the proofs.
QueueInv ==
    /\ TypeOK /\ ClaimIffInFlight
    /\ TokensWereIssued /\ OneOwner
    /\ RequestsWereAllowed

\* A zombie is harmless (items.py: "its first write misses and it stops"): no
\* step of a worker whose claim is gone changes a row, be it a stage boundary with
\* its heartbeat or an end of the run; and a claimed row is moved on, or its
\* lease extended, only while the worker the claim was given to is at it.
FencedZombies ==
    [][/\ \A w \in Workers :
            Stale(w) /\ (WorkerStep(w) \/ task'[w] # task[w]) => UNCHANGED rowVars
       /\ \A i \in Items :
            /\ claim[i] # NoClaim /\ claim'[i] = claim[i]
            /\ status'[i] # status[i] \/ (lapsed[i] /\ ~lapsed'[i])
            => \E w \in Workers : task[w] = i /\ Owns(w)
      ]_queueVars

\* "An item sitting in `uploaded` always has budget left" (claim_next): the two
\* paths that requeue a row park it once its attempts are spent.
UploadedHasBudget ==
    \A i \in Items : status[i] = "uploaded" => attempts[i] < MaxItemAttempts

\* A reprocess opens a generation that the item never had before: candidates
\* and artifacts are keyed by it.
ReprocessOpensGeneration ==
    [][\A o \in Operators, i \in Items :
        /\ req[o].item = i /\ req[o].mode = "reprocess" /\ req'[o] = NoRequest
        /\ status[i] # "uploaded" /\ status'[i] = "uploaded"
        => generation'[i] > generation[i]
      ]_queueVars

\* Every status change is one ITEM_TRANSITIONS allows, those included that are
\* written without asking is_legal_transition (the claim is a bare UPDATE) and
\* those where a status read earlier is the one asked about.
MovesAreLegal ==
    [][\A i \in Items : status'[i] # status[i]
                          => IsLegalTransition(status[i], status'[i])]_queueVars

\* Every item a worker may still touch comes to rest: it reaches a reviewable
\* or a parked status, whatever workers die, hang past their lease or fail.
Settles ==
    \A i \in Items : status[i] \in PipelineActive ~> status[i] \notin PipelineActive

\* The queue implements the life of a row that ItemLifecycle describes.
Lifecycle == INSTANCE ItemLifecycle WITH
    Items <- Items, status <- status, claim <- claim, issued <- issued

ImplementsLifecycle == Lifecycle!Spec

=============================================================================
