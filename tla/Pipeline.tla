------------------------------ MODULE Pipeline ------------------------------
(***************************************************************************)
(* One claimed item taken through preprocess, OCR and extraction, step by  *)
(* step, over the artifacts that survive a crash (jobs/runner.py,          *)
(* jobs/resume.py, db/repositories/artifacts.py, llm/recording.py), up to  *)
(* the candidates a reviewer decides on (domain/listings.py,               *)
(* db/repositories/candidates.py).                                         *)
(*                                                                         *)
(* Every action that writes the item row is the WorkQueue action conjoined *)
(* with what the same transaction writes here.  A step is one transaction, *)
(* or one long call: other workers run between any two of them.            *)
(***************************************************************************)
EXTENDS WorkQueue, Sequences

CONSTANTS
    MaxDrafts,   \* bound: advertisements one page yields
    MaxCalls     \* provider calls one extraction may make (settings.max_attempts + max_repairs)

ASSUME PipelineAssumption == MaxDrafts \in Nat /\ MaxCalls \in Nat \ {0}

VARIABLES
    pc,          \* the step a worker is about to take
    ctx,         \* its ItemContext, ResumePlan and recorder
    page,        \* what the scan holds: OCR reads it as text or as blank
    derivative,  \* the ocr_input derivative has been recorded
    ocr,         \* ocr_extractions rows, as <<generation, status>>
    runs,        \* llm_extraction_runs rows, in insertion order
    candidates,  \* advertisement_provenance rows
    count        \* ingestion_items.candidate_count

artifactVars == <<page, derivative, ocr, runs, candidates, count>>
localVars == <<pc, ctx>>
vars == <<queueVars, localVars, artifactVars>>

Steps == {"idle", "begin", "preprocess", "to_ocr", "cas_ocr", "ocr", "to_llm", "cas_llm",
          "extract", "started", "calling", "finish", "fail"}

RunStatus == {"running", "validated", "failed", "abandoned"}
CandidateState == {"pending_publish", "linked", "discarded", "superseded"}
Decided == {"linked", "discarded"}

\* generation: of the context; ocr: the plan holds a completed extraction;
\* run: the plan's validated run, later the one recorded; number: the attempt
\* number read; row: the row of the call in progress; calls: provider calls so
\* far; drafts: candidates to create; retryable: of the StageError raised.
NoContext == [generation |-> 0, ocr |-> FALSE, run |-> 0, number |-> 0, row |-> 0,
              calls |-> 0, drafts |-> 0, retryable |-> FALSE]

PipelineInit ==
    /\ Init
    /\ pc = [w \in Workers |-> "idle"]
    /\ ctx = [w \in Workers |-> NoContext]
    /\ page \in [Items -> {"text", "blank"}]
    \* Derivatives belong to the stored bytes: an earlier upload may have left one.
    /\ derivative \in [Items -> BOOLEAN]
    /\ ocr = [i \in Items |-> {}]
    /\ runs = [i \in Items |-> <<>>]
    /\ candidates = [i \in Items |-> {}]
    /\ count = [i \in Items |-> 0]

-----------------------------------------------------------------------------
(* Rows and plans. *)

RunsOf(i, g) == {r \in DOMAIN runs[i] : runs[i][r].generation = g}

ValidatedRuns(i, g) == {r \in RunsOf(i, g) : runs[i][r].status = "validated"}

NextAttempt(i, g) == 1 + Cardinality(RunsOf(i, g))

\* abandon_running_llm_runs.  (No ocr_extractions row is ever `running`.)
Abandoned(i) ==
    [r \in DOMAIN runs[i] |->
        IF runs[i][r].generation = generation[i] /\ runs[i][r].status = "running"
        THEN [runs[i][r] EXCEPT !.status = "abandoned"]
        ELSE runs[i][r]]

AbandonIn(S) == runs' = [i \in Items |-> IF i \in S THEN Abandoned(i) ELSE runs[i]]

\* Slip: a resumed run never looks for a validated extraction.
PlanOcrOnly(i) ==
    [NoContext EXCEPT !.generation = generation[i],
                      !.ocr = derivative[i] /\ <<generation[i], "completed">> \in ocr[i]]

\* plan_resume: each artifact is looked for only when the one before exists.
Plan(i) ==
    LET hasOcr == derivative[i] /\ <<generation[i], "completed">> \in ocr[i]
        found == IF hasOcr THEN ValidatedRuns(i, generation[i]) ELSE {}
    IN [NoContext EXCEPT !.generation = generation[i],
                         !.ocr = hasOcr,
                         !.run = IF found = {} THEN 0 ELSE CHOOSE r \in found : TRUE]

-----------------------------------------------------------------------------
(* The worker. *)

Goto(w, step) == pc' = [pc EXCEPT ![w] = step]

\* The steps of a run that write nothing to the item row.
Local(w, step) == pc[w] = step /\ UNCHANGED queueVars

\* ItemClaimLostError, or a failure handler that failed: the run just ends.
Stop(w) ==
    /\ Drop(w)
    /\ Goto(w, "idle") /\ ctx' = [ctx EXCEPT ![w] = NoContext]
    /\ UNCHANGED artifactVars

\* Slip: the slot is handed back with its context still in place.
EndRunInPlace(w) == UNCHANGED <<pc, ctx>>

\* The run ends with a write to the row.
EndRun(w) == Goto(w, "idle") /\ ctx' = [ctx EXCEPT ![w] = NoContext]

ClaimItem(w, i) ==
    /\ Claim(w, i)
    /\ Goto(w, "begin")
    /\ UNCHANGED <<ctx, artifactVars>>

Begin(w) ==
    /\ pc[w] = "begin"
    /\ IF Owns(w)
       THEN /\ ctx' = [ctx EXCEPT ![w] = Plan(task[w])]
            /\ Goto(w, IF derivative[task[w]] THEN "to_ocr" ELSE "preprocess")
            /\ UNCHANGED <<queueVars, artifactVars>>
       ELSE Stop(w)

Preprocess(w) ==
    /\ Local(w, "preprocess")
    /\ derivative' = [derivative EXCEPT ![task[w]] = TRUE]
    /\ Goto(w, "to_ocr")
    /\ UNCHANGED <<ctx, page, ocr, runs, candidates, count>>

\* _advance reads the row first and returns at once when it already has the
\* target status, whoever moved it there; the swap is a second statement.
EnterRead(w, step, target, swap, next) ==
    /\ Local(w, step)
    /\ Goto(w, IF status[task[w]] = target THEN next ELSE swap)
    /\ UNCHANGED <<ctx, artifactVars>>

\* Slip: the swap compares the status and not the token.
EnterSwapUnfenced(w, swap, from, to, next) ==
    /\ pc[w] = swap
    /\ \/ /\ status[task[w]] = from
          /\ status' = [status EXCEPT ![task[w]] = to]
          /\ lapsed' = [lapsed EXCEPT ![task[w]] = FALSE]
          /\ Goto(w, next)
          /\ UNCHANGED <<claim, issued, attempts, generation, due, task, held, req, up,
                         crashes, retries, ctx, artifactVars>>
       \/ status[task[w]] # from /\ Stop(w)

EnterSwap(w, swap, from, to, next) ==
    /\ pc[w] = swap
    /\ \/ /\ Advance(w, from, to)
          /\ Goto(w, next)
          /\ UNCHANGED <<ctx, artifactVars>>
       \/ /\ ~(Owns(w) /\ status[task[w]] = from)
          /\ Stop(w)

AfterOcrEntry(w) == IF ctx[w].ocr THEN "to_llm" ELSE "ocr"

EnterOcr(w) ==
    \/ EnterRead(w, "to_ocr", "ocr_processing", "cas_ocr", AfterOcrEntry(w))
    \/ EnterSwap(w, "cas_ocr", "preprocessing", "ocr_processing", AfterOcrEntry(w))

\* The engine runs and its row is recorded; a second completed row for the
\* generation yields to the first.
Ocr(w) ==
    /\ Local(w, "ocr")
    /\ LET i == task[w]
           outcome == IF page[i] = "blank" THEN "empty" ELSE "completed"
       IN ocr' = [ocr EXCEPT ![i] = @ \cup {<<ctx[w].generation, outcome>>}]
    /\ Goto(w, "to_llm")
    /\ UNCHANGED <<ctx, page, derivative, runs, candidates, count>>

EnterLlm(w) ==
    \/ EnterRead(w, "to_llm", "llm_processing", "cas_llm", "extract")
    \/ EnterSwap(w, "cas_llm", "ocr_processing", "llm_processing", "extract")

\* A StageError on its way to the failure handler, which needs nothing else.
Raised(w, retryable) ==
    /\ Goto(w, "fail")
    /\ ctx' = [ctx EXCEPT ![w] = [NoContext EXCEPT !.retryable = retryable]]

\* Drafts in hand, from this run.
Drafted(w, run, drafts) ==
    /\ Goto(w, "finish")
    /\ ctx' = [ctx EXCEPT ![w] = [NoContext EXCEPT !.run = run, !.drafts = drafts]]

\* Rebuild from the plan's validated run, without a call, or read the attempt
\* number of the next one.
Extract(w) ==
    /\ Local(w, "extract")
    /\ IF ctx[w].run # 0
       THEN Drafted(w, ctx[w].run, runs[task[w]][ctx[w].run].drafts)
       ELSE /\ ctx' = [ctx EXCEPT ![w].number = NextAttempt(task[w], ctx[w].generation)]
            /\ Goto(w, "started")
    /\ UNCHANGED artifactVars

\* recorder.started: insert the running row, then the call begins.  When the
\* number was taken meanwhile, a validated winner's row is handed back instead;
\* without one the next number is taken.
Started(w) ==
    LET i == task[w]
        g == ctx[w].generation
        taken == \E r \in RunsOf(i, g) : runs[i][r].attempt = ctx[w].number
        row == [generation |-> g, status |-> "running", drafts |-> 0,
                attempt |-> IF taken THEN NextAttempt(i, g) ELSE ctx[w].number]
    IN /\ Local(w, "started")
       /\ IF taken /\ ValidatedRuns(i, g) # {}
          THEN /\ \E r \in ValidatedRuns(i, g) :
                    ctx' = [ctx EXCEPT ![w].row = r, ![w].number = 0]
               /\ UNCHANGED runs
          ELSE /\ runs' = [runs EXCEPT ![i] = Append(@, row)]
               /\ ctx' = [ctx EXCEPT ![w].row = Len(runs[i]) + 1, ![w].number = 0]
       /\ Goto(w, "calling")
       /\ UNCHANGED <<page, derivative, ocr, candidates, count>>

\* recorder.finished with a validated response: the row is overwritten whatever
\* its status, unless another row of the generation is validated already, when
\* the partial unique index raises and the run fails as INTERNAL_ERROR.
Validated(w, drafts) ==
    LET i == task[w]
        r == ctx[w].row
    IN /\ Local(w, "calling")
       /\ IF ValidatedRuns(i, ctx[w].generation) \ {r} # {}
          THEN Raised(w, TRUE) /\ UNCHANGED runs
          ELSE /\ runs' = [runs EXCEPT ![i][r].status = "validated", ![i][r].drafts = drafts]
               /\ Drafted(w, r, drafts)
       /\ UNCHANGED <<page, derivative, ocr, candidates, count>>

\* recorder.finished with an error: another call while the budgets allow, or
\* the extraction fails.
CallFailed(w) ==
    /\ Local(w, "calling")
    /\ runs' = [runs EXCEPT ![task[w]][ctx[w].row].status = "failed"]
    /\ \/ /\ ctx[w].calls + 1 < MaxCalls
          /\ ctx' = [ctx EXCEPT ![w].calls = @ + 1, ![w].row = 0]
          /\ Goto(w, "extract")
       \/ \E retryable \in BOOLEAN : Raised(w, retryable)
    /\ UNCHANGED <<page, derivative, ocr, candidates, count>>

\* A stage raises.  Only the stage calls classify a failure as permanent;
\* anything unforeseen is INTERNAL_ERROR and retryable.  (The permanent
\* ASSET_MISSING at "begin" cannot come: the foreign key keeps an item's asset.)
Raise(w) ==
    /\ pc[w] \notin {"idle", "fail"}
    /\ \E retryable \in BOOLEAN :
        /\ retryable \/ pc[w] \in {"preprocess", "ocr", "extract"}
        /\ Raised(w, retryable)
    /\ UNCHANGED <<queueVars, artifactVars>>

\* Slip: the candidates are committed before the row's compare-and-swap.
FinishItemInTwoCommits(w) ==
    LET i == task[w]
        new == [generation : {generation[i]}, index : 1 .. ctx[w].drafts,
                run : {ctx[w].run}, state : {"pending_publish"}]
    IN /\ pc[w] = "finish"
       /\ candidates' = [candidates EXCEPT ![i] = @ \cup new]
       /\ EndRun(w)
       /\ \/ /\ Finish(w, IF ctx[w].drafts > 0 THEN "awaiting_review" ELSE "no_ads")
             /\ count' = [count EXCEPT ![i] = ctx[w].drafts]
          \/ /\ ~(Owns(w) /\ status[i] = "llm_processing")
             /\ Drop(w)
             /\ UNCHANGED count
       /\ UNCHANGED <<page, derivative, ocr, runs>>

\* create_candidates, candidate_count and the item's status in one commit.
\* A candidate the generation already has is kept.
FinishItem(w) ==
    LET i == task[w]
        g == generation[i]
        present == {c.index : c \in {d \in candidates[i] : d.generation = g}}
        new == [generation : {g}, index : (1 .. ctx[w].drafts) \ present,
                run : {ctx[w].run}, state : {"pending_publish"}]
    IN /\ pc[w] = "finish"
       /\ \/ /\ Finish(w, IF ctx[w].drafts > 0 THEN "awaiting_review" ELSE "no_ads")
             /\ candidates' = [candidates EXCEPT ![i] = @ \cup new]
             /\ count' = [count EXCEPT ![i] = Cardinality(present \cup (1 .. ctx[w].drafts))]
             /\ EndRun(w)
             /\ UNCHANGED <<page, derivative, ocr, runs>>
          \/ /\ ~(Owns(w) /\ status[i] = "llm_processing")
             /\ Stop(w)

\* _fail: close the running rows and requeue or park, when the claim is held;
\* a lost claim, or an error in here, ends the run in silence.
FailItem(w) ==
    /\ pc[w] = "fail"
    /\ \/ /\ Fail(w, ctx[w].retryable)
          /\ AbandonIn({task[w]})
          /\ EndRun(w)
          /\ UNCHANGED <<page, derivative, ocr, candidates, count>>
       \/ Stop(w)

RunnerStep(w) ==
    \/ Begin(w) \/ Preprocess(w)
    \/ EnterOcr(w) \/ Ocr(w)
    \/ EnterLlm(w) \/ Extract(w) \/ Started(w)
    \/ \E drafts \in 0 .. MaxDrafts : Validated(w, drafts)
    \/ CallFailed(w)
    \/ FinishItem(w) \/ FailItem(w)

-----------------------------------------------------------------------------
(* Recovery, operators and reviewers. *)

ReapItems(S) ==
    /\ Reap(S)
    /\ AbandonIn(S)
    /\ UNCHANGED <<localVars, page, derivative, ocr, candidates, count>>

StartProcess(p) ==
    /\ Start(p)
    /\ AbandonIn(IF SingleInstance THEN {i \in Items : status[i] \in InFlight} ELSE {})
    /\ UNCHANGED <<localVars, page, derivative, ocr, candidates, count>>

CrashProcess(p) ==
    /\ Crash(p)
    /\ pc' = [w \in Workers |-> IF InstanceOf[w] = p THEN "idle" ELSE pc[w]]
    /\ ctx' = [w \in Workers |-> IF InstanceOf[w] = p THEN NoContext ELSE ctx[w]]
    /\ UNCHANGED artifactVars

HasDecided(i) == \E c \in candidates[i] : c.state \in Decided

\* An unforced reprocess is refused when a candidate has been decided on; a
\* resume does not look at `force`.
RequestRetry(o, i, mode, force) ==
    /\ RetryRead(o, i, mode)
    /\ mode = "reprocess" => force \/ ~HasDecided(i)
    /\ UNCHANGED <<localVars, artifactVars>>

\* Slips: nothing is superseded; decided candidates are superseded as well.
SupersededNone(i, g) == candidates[i]

SupersededAll(i, g) ==
    {IF c.generation < g THEN [c EXCEPT !.state = "superseded"] ELSE c : c \in candidates[i]}

\* supersede_undecided in the transaction that requeues the item.
Superseded(i, g) ==
    {IF c.generation < g /\ c.state = "pending_publish"
     THEN [c EXCEPT !.state = "superseded"] ELSE c : c \in candidates[i]}

RetryItem(o) ==
    LET i == req[o].item IN
    /\ RetryWrite(o)
    /\ candidates' = IF req[o].mode = "reprocess"
                     THEN [candidates EXCEPT ![i] = Superseded(i, req[o].generation + 1)]
                     ELSE candidates
    /\ UNCHANGED <<localVars, page, derivative, ocr, runs, count>>

RetryLost(o) == RetryMiss(o) /\ UNCHANGED <<localVars, artifactVars>>

\* approve and reject: under a row lock, only an undecided candidate.
Decide(i, c, verdict) ==
    /\ c \in candidates[i] /\ c.state = "pending_publish"
    /\ \E p \in Instances : up[p]
    /\ candidates' = [candidates EXCEPT ![i] = (@ \ {c}) \cup {[c EXCEPT !.state = verdict]}]
    /\ UNCHANGED <<queueVars, localVars, page, derivative, ocr, runs, count>>

Clock(i) ==
    /\ LeaseLapses(i) \/ BackoffElapses(i)
    /\ UNCHANGED <<localVars, artifactVars>>

PipelineNext ==
    \/ \E i \in Items : Clock(i)
    \/ \E w \in Workers, i \in Items : ClaimItem(w, i)
    \/ \E w \in Workers : RunnerStep(w) \/ Raise(w)
    \/ \E S \in SUBSET Items : ReapItems(S)
    \/ \E p \in Instances : StartProcess(p) \/ CrashProcess(p)
    \/ \E o \in Operators, i \in Items, mode \in Modes, force \in BOOLEAN :
          RequestRetry(o, i, mode, force)
    \/ \E o \in Operators : RetryItem(o) \/ RetryLost(o)
    \/ \E i \in Items : \E c \in candidates[i], verdict \in Decided : Decide(i, c, verdict)

PipelineSpec == PipelineInit /\ [][PipelineNext]_vars


(***************************************************************************)
(* Fairness, as in WorkQueue: steps of a run end, processes poll, reap and *)
(* restart, clocks advance.  Nothing obliges a stage to raise, an operator *)
(* to retry or a reviewer to decide.                                       *)
(***************************************************************************)
PipelineFairness ==
    /\ \A i \in Items :
        /\ WF_vars(Clock(i))
        /\ SF_vars(\E w \in Workers : ClaimItem(w, i))
    /\ \A w \in Workers : WF_vars(RunnerStep(w))
    /\ \A p \in Instances : WF_vars(StartProcess(p))
    /\ WF_vars(ReapItems(Expired))

FairPipelineSpec == PipelineSpec /\ PipelineFairness

-----------------------------------------------------------------------------
(* Properties. *)

RunRow == [generation : Nat, attempt : Nat, status : RunStatus, drafts : 0 .. MaxDrafts]

Candidate == [generation : Nat, index : 1 .. MaxDrafts, run : Nat, state : CandidateState]

PipelineTypeOK ==
    /\ TypeOK
    /\ pc \in [Workers -> Steps]
    /\ ctx \in [Workers -> [generation : Nat, ocr : BOOLEAN, run : Nat, number : Nat, row : Nat,
                            calls : 0 .. MaxCalls, drafts : 0 .. MaxDrafts,
                            retryable : BOOLEAN]]
    /\ page \in [Items -> {"text", "blank"}]
    /\ derivative \in [Items -> BOOLEAN]
    /\ ocr \in [Items -> SUBSET (Nat \X {"empty", "completed"})]
    /\ runs \in [Items -> Seq(RunRow)]
    /\ candidates \in [Items -> SUBSET Candidate]
    /\ count \in [Items -> Nat]
    /\ \A w \in Workers : pc[w] = "idle" <=> ~Running(w)

CurrentCandidates(i) == {c \in candidates[i] : c.generation = generation[i]}

\* Candidates, status and candidate_count are one commit (runner.py: "a worker
\* cannot die between creating candidates and recording that it did"): the
\* current generation has candidates exactly when the item says it awaits
\* review, as many as candidate_count says, and none while work is pending.
CandidatesCommitWithItem ==
    \A i \in Items :
        /\ CurrentCandidates(i) # {} <=> status[i] = "awaiting_review"
        /\ status[i] \in PipelineSucceeded => count[i] = Cardinality(CurrentCandidates(i))

\* A candidate open for review belongs to the item's current generation: a
\* reprocess retires what earlier generations left undecided, and no late
\* worker adds to a generation that is over.
PendingIsCurrent ==
    \A i \in Items : \A c \in candidates[i] :
        c.state = "pending_publish" => c.generation = generation[i]

\* What a reviewer decided is never touched again, by a forced reprocess or by
\* a worker that finishes late ("never supersedes a decided candidate").
DecisionsStand ==
    [][\A i \in Items : \A c \in candidates[i] :
        c.state \in Decided => c \in candidates'[i]]_vars

\* A worker whose claim is gone writes neither the item row nor a candidate,
\* at whatever step of the run it wakes up.
ZombiesWriteNothingOfRecord ==
    [][\A w \in Workers :
        Stale(w) /\ pc'[w] # pc[w]
            => UNCHANGED <<status, claim, attempts, generation, candidates, count>>]_vars

\* The artifacts of a generation are paid for once (resume.py): a page with
\* text is not read again once its OCR completed, nor is the provider called
\* again once a run validated, across crashes, failures and resumes.  Holds
\* where no two workers run the same item.
CompletedWorkIsNotRepeated ==
    [][\A w \in Workers :
        LET i == task[w]
            g == ctx[w].generation
        IN /\ pc[w] = "ocr" /\ pc'[w] = "to_llm" => <<g, "completed">> \notin ocr[i]
           /\ pc[w] = "started" /\ pc'[w] = "calling" /\ page[i] = "text"
                => ValidatedRuns(i, g) = {}]_vars

\* "A validated extraction run skips the provider entirely -- so the crash
\* between a paid call and its candidate rows costs nothing" (README.md), of
\* any page.
ValidatedRunSkipsProvider ==
    [][\A w \in Workers :
        pc[w] = "started" /\ pc'[w] = "calling"
            => ValidatedRuns(task[w], ctx[w].generation) = {}]_vars

\* Every attempt has its own row, "rather than the last one overwriting the
\* story" (recording.py): a run that validated is never marked otherwise.
ValidatedIsFinal ==
    [][\A i \in Items : \A r \in DOMAIN runs[i] :
        runs[i][r].status = "validated" => runs'[i][r].status = "validated"]_vars

=============================================================================
