---------------------------- MODULE PipelineProofs ----------------------------
(***************************************************************************)
(* Proofs about the pipeline, for any number of items, workers, requests   *)
(* and processes, and any bound on drafts and calls: that it implements    *)
(* the work queue, that a zombie leaves no trace in what is of record,     *)
(* that a reviewer's decision stands, type correctness, and -- where retry *)
(* requests do not overlap -- that candidates, status and candidate_count  *)
(* agree, and that what is open for review belongs to the current          *)
(* generation; and that a generation is not paid for twice while no two    *)
(* workers run one item.                                                   *)
(***************************************************************************)
EXTENDS Pipeline, WorkQueueProofs, FiniteSetTheorems

-----------------------------------------------------------------------------
(* The pipeline's steps are steps of the queue. *)

LEMMA RunnerQueueStep ==
    ASSUME NEW w \in Workers, RunnerStep(w) \/ Raise(w)
    PROVE  WorkerStep(w) \/ UNCHANGED queueVars
  <1>1. CASE Begin(w)
    BY <1>1 DEF Begin, Stop, WorkerStep
  <1>2. CASE EnterOcr(w)
    BY <1>2 DEF EnterOcr, EnterRead, EnterSwap, Local, Stop, WorkerStep
  <1>3. CASE EnterLlm(w)
    BY <1>3 DEF EnterLlm, EnterRead, EnterSwap, Local, Stop, WorkerStep
  <1>4. CASE FinishItem(w)
    BY <1>4 DEF FinishItem, Stop, WorkerStep, Finish
  <1>5. CASE FailItem(w)
    <2>1. CASE Stop(w)
      BY <2>1 DEF Stop, WorkerStep
    <2>2. CASE Fail(w, ctx[w].retryable)
      <3>1. Fail(w, TRUE) \/ Fail(w, FALSE)
        BY <2>2 DEF Fail
      <3>2. QED
        BY <3>1 DEF WorkerStep
    <2>3. QED
      BY <1>5, <2>1, <2>2 DEF FailItem
  <1>6. CASE \/ Preprocess(w) \/ Ocr(w) \/ Extract(w) \/ Started(w) \/ CallFailed(w) \/ Raise(w)
             \/ \E drafts \in 0 .. MaxDrafts : Validated(w, drafts)
    BY <1>6 DEF Preprocess, Ocr, Extract, Started, CallFailed, Raise, Validated, Local
  <1>7. QED
    BY <1>1, <1>2, <1>3, <1>4, <1>5, <1>6 DEF RunnerStep

LEMMA PipelineQueueStep == [PipelineNext]_vars => [Next]_queueVars
  <1> SUFFICES ASSUME [PipelineNext]_vars
               PROVE  [Next]_queueVars
    OBVIOUS
  <1>1. ASSUME NEW i \in Items, Clock(i)
        PROVE  Next
    BY <1>1 DEF Clock, Next
  <1>2. ASSUME NEW w \in Workers, NEW i \in Items, ClaimItem(w, i)
        PROVE  Next
    BY <1>2 DEF ClaimItem, Next
  <1>3. ASSUME NEW w \in Workers, RunnerStep(w) \/ Raise(w)
        PROVE  [Next]_queueVars
    BY <1>3, RunnerQueueStep DEF Next
  <1>4. ASSUME NEW S \in SUBSET Items, ReapItems(S)
        PROVE  Next
    BY <1>4 DEF ReapItems, Next
  <1>5. ASSUME NEW p \in Instances, StartProcess(p) \/ CrashProcess(p)
        PROVE  Next
    BY <1>5 DEF StartProcess, CrashProcess, Next
  <1>6. ASSUME NEW o \in Operators, NEW i \in Items, NEW mode \in Modes, NEW force \in BOOLEAN,
               RequestRetry(o, i, mode, force)
        PROVE  Next
    BY <1>6 DEF RequestRetry, Next, OperatorStep
  <1>7. ASSUME NEW o \in Operators, RetryItem(o) \/ RetryLost(o)
        PROVE  Next
    BY <1>7 DEF RetryItem, RetryLost, Next, OperatorStep
  <1>8. ASSUME NEW i \in Items, NEW c \in candidates[i], NEW verdict \in Decided,
               Decide(i, c, verdict)
        PROVE  UNCHANGED queueVars
    BY <1>8 DEF Decide
  <1>9. CASE UNCHANGED vars
    BY <1>9 DEF vars
  <1>10. QED
    BY <1>1, <1>2, <1>3, <1>4, <1>5, <1>6, <1>7, <1>8, <1>9 DEF PipelineNext

\* The pipeline implements the work queue, with the identity mapping on the
\* item row: what is proved of the queue holds of the pipeline.
THEOREM PipelineImplementsQueue == PipelineSpec => Spec
  <1>1. PipelineInit => Init
    BY DEF PipelineInit
  <1>2. QED
    BY <1>1, PipelineQueueStep, PTL DEF PipelineSpec, Spec

\* In the pipeline too, a row carries a token exactly while it is in flight and
\* no two workers hold the same one.
THEOREM PipelineQueueInvariant == PipelineSpec => []QueueInv
  BY PipelineImplementsQueue, QueueInvariant, PTL

-----------------------------------------------------------------------------
(* The program counters and the candidate tables are functions. *)

Shape ==
    /\ pc \in [Workers -> Steps]
    /\ candidates = [i \in Items |-> candidates[i]]

\* A worker's step moves its own program counter only.
LEMMA RunnerMovesOwnPc ==
    ASSUME Shape, NEW w \in Workers, RunnerStep(w) \/ Raise(w)
    PROVE  \E step \in Steps : pc' = [pc EXCEPT ![w] = step]
  <1> USE DEF Steps, Goto
  <1> DEFINE Moved == \E step \in Steps : pc' = [pc EXCEPT ![w] = step]
  <1>1. CASE Begin(w)
    <2>1. CASE Owns(w) /\ derivative[task[w]]
      BY <1>1, <2>1 DEF Begin
    <2>2. CASE Owns(w) /\ ~derivative[task[w]]
      BY <1>1, <2>2 DEF Begin
    <2>3. CASE ~Owns(w)
      BY <1>1, <2>3 DEF Begin, Stop
    <2>4. QED
      BY <2>1, <2>2, <2>3
  <1>2. ASSUME NEW step, NEW target, NEW swap \in Steps, NEW next \in Steps,
               EnterRead(w, step, target, swap, next)
        PROVE  Moved
    BY <1>2 DEF EnterRead
  <1>3. ASSUME NEW swap, NEW from, NEW to, NEW next \in Steps, EnterSwap(w, swap, from, to, next)
        PROVE  Moved
    BY <1>3 DEF EnterSwap, Stop
  <1>4. AfterOcrEntry(w) \in Steps
    BY DEF AfterOcrEntry
  <1>5. CASE EnterOcr(w) \/ EnterLlm(w)
    BY <1>2, <1>3, <1>4, <1>5 DEF EnterOcr, EnterLlm
  <1>6. CASE Preprocess(w) \/ Ocr(w)
    BY <1>6 DEF Preprocess, Ocr
  <1>7. CASE Extract(w)
    BY <1>7 DEF Extract, Drafted
  <1>8. CASE Started(w)
    BY <1>8 DEF Started
  <1>9. CASE \E drafts \in 0 .. MaxDrafts : Validated(w, drafts)
    BY <1>9 DEF Validated, Drafted, Raised
  <1>10. CASE CallFailed(w) \/ Raise(w)
    BY <1>10 DEF CallFailed, Raise, Raised
  <1>11. CASE FinishItem(w) \/ FailItem(w)
    <2>1. EndRun(w) \/ Stop(w)
      BY <1>11, Zenon DEF FinishItem, FailItem
    <2>2. pc' = [pc EXCEPT ![w] = "idle"]
      BY <2>1, Zenon DEF EndRun, Stop
    <2> QED
      BY <2>2
  <1>12. QED
    BY <1>1, <1>5, <1>6, <1>7, <1>8, <1>9, <1>10, <1>11 DEF RunnerStep

\* What the steps of a run do to the candidates: nothing, or add some to the
\* item its owner finishes.
LEMMA RunnerCandidates ==
    ASSUME NEW w \in Workers, RunnerStep(w) \/ Raise(w)
    PROVE  \/ UNCHANGED <<candidates, count>>
           \/ /\ Owns(w)
              /\ \E new : candidates' = [candidates EXCEPT ![task[w]] = @ \cup new]
  BY Zenon
     DEF RunnerStep, Raise, Begin, Preprocess, EnterOcr, EnterLlm, EnterRead, EnterSwap, Ocr,
         Extract, Started, Validated, CallFailed, FinishItem, FailItem, Stop, artifactVars,
         Finish, Release

LEMMA ShapeStep == Shape /\ [PipelineNext]_vars => Shape'
  <1> SUFFICES ASSUME Shape, [PipelineNext]_vars
               PROVE  Shape'
    OBVIOUS
  <1>1. ASSUME NEW w \in Workers, RunnerStep(w) \/ Raise(w)
        PROVE  Shape'
    <2>1. (pc \in [Workers -> Steps])'
      BY <1>1, RunnerMovesOwnPc DEF Shape
    <2>2. (candidates = [i \in Items |-> candidates[i]])'
      BY <1>1, RunnerCandidates DEF Shape
    <2>3. QED
      BY <2>1, <2>2 DEF Shape
  <1>2. ASSUME NEW w \in Workers, NEW i \in Items, ClaimItem(w, i)
        PROVE  Shape'
    BY <1>2 DEF ClaimItem, Goto, Steps, Shape, artifactVars
  <1>3. ASSUME NEW p \in Instances, CrashProcess(p)
        PROVE  Shape'
    BY <1>3 DEF CrashProcess, Steps, Shape, artifactVars
  <1>4. ASSUME NEW o \in Operators, RetryItem(o)
        PROVE  Shape'
    BY <1>4 DEF RetryItem, Shape, localVars
  <1>5. ASSUME NEW i \in Items, NEW c, NEW verdict, Decide(i, c, verdict)
        PROVE  Shape'
    BY <1>5 DEF Decide, Shape, localVars
  <1>6. CASE UNCHANGED <<pc, candidates>>
    BY <1>6 DEF Shape
  <1>7. QED
    BY <1>1, <1>2, <1>3, <1>4, <1>5, <1>6
    DEF PipelineNext, Clock, ReapItems, StartProcess, RequestRetry, RetryLost, localVars,
        artifactVars, vars

LEMMA ShapeInvariant == PipelineSpec => []Shape
  <1>1. PipelineInit => Shape
    BY DEF PipelineInit, Shape, Steps
  <1>2. QED
    BY <1>1, ShapeStep, PTL DEF PipelineSpec

-----------------------------------------------------------------------------
(* Zombies. *)

LEMMA ZombieStep ==
    ASSUME TypeOK, Shape, [PipelineNext]_vars, NEW w \in Workers, Stale(w), pc'[w] # pc[w]
    PROVE  UNCHANGED <<status, claim, attempts, generation, candidates, count>>
  <1>1. ~Owns(w) /\ Running(w)
    BY DEF Stale, Owns
  <1>2. ASSUME NEW v \in Workers, RunnerStep(v) \/ Raise(v)
        PROVE  UNCHANGED <<status, claim, attempts, generation, candidates, count>>
    <2>1. v = w
      BY <1>2, RunnerMovesOwnPc DEF Shape
    <2>2. UNCHANGED <<candidates, count>>
      BY <1>1, <1>2, <2>1, RunnerCandidates
    <2>3. UNCHANGED rowVars
      BY <1>1, <1>2, <2>1, RunnerQueueStep, WorkerWritesAsOwner DEF queueVars
    <2>4. QED
      BY <2>2, <2>3 DEF rowVars
  <1>3. ASSUME NEW v \in Workers, NEW i \in Items, ClaimItem(v, i)
        PROVE  FALSE
    BY <1>1, <1>3 DEF ClaimItem, Claim, Goto, Shape
  <1>4. ASSUME NEW p \in Instances, CrashProcess(p)
        PROVE  UNCHANGED <<status, claim, attempts, generation, candidates, count>>
    BY <1>4 DEF CrashProcess, Crash, rowVars, artifactVars
  <1>5. pc' # pc
    OBVIOUS
  <1>6. QED
    BY <1>2, <1>3, <1>4, <1>5
    DEF PipelineNext, Clock, ReapItems, StartProcess, RequestRetry, RetryItem, RetryLost, Decide,
        localVars, vars

\* Whatever step a zombie wakes up at, it writes neither the item row nor a
\* candidate nor the count of them.
THEOREM ZombiesLeaveNoTrace == PipelineSpec => ZombiesWriteNothingOfRecord
  <1>1. QueueInv /\ Shape /\ [PipelineNext]_vars
        => [\A w \in Workers :
              Stale(w) /\ pc'[w] # pc[w]
                => UNCHANGED <<status, claim, attempts, generation, candidates, count>>]_vars
    BY ZombieStep DEF QueueInv
  <1>2. QED
    BY <1>1, PipelineQueueInvariant, ShapeInvariant, PTL
    DEF PipelineSpec, ZombiesWriteNothingOfRecord

-----------------------------------------------------------------------------
(* Decisions. *)

LEMMA DecisionStep ==
    ASSUME TypeOK, Shape, [PipelineNext]_vars,
           NEW i \in Items, NEW c \in candidates[i], c.state \in Decided
    PROVE  c \in candidates'[i]
  <1>1. ASSUME NEW w \in Workers, RunnerStep(w) \/ Raise(w)
        PROVE  c \in candidates'[i]
    BY <1>1, RunnerCandidates DEF Shape
  <1>2. ASSUME NEW o \in Operators, RetryItem(o)
        PROVE  c \in candidates'[i]
    <2>1. \A g : c \in Superseded(i, g)
      BY DEF Superseded, Decided
    <2>2. QED
      BY <1>2, <2>1 DEF RetryItem, Shape
  <1>3. ASSUME NEW j \in Items, NEW d \in candidates[j], NEW verdict, Decide(j, d, verdict)
        PROVE  c \in candidates'[i]
    BY <1>3 DEF Decide, Shape, Decided
  <1>4. CASE candidates' = candidates
    BY <1>4
  <1>5. QED
    BY <1>1, <1>2, <1>3, <1>4
    DEF PipelineNext, Clock, ClaimItem, ReapItems, StartProcess, CrashProcess, RequestRetry,
        RetryLost, artifactVars, vars

\* No step -- a forced reprocess and a late worker included -- changes a
\* candidate a reviewer has approved or rejected.
THEOREM DecisionsAreFinal == PipelineSpec => DecisionsStand
  <1>1. QueueInv /\ Shape /\ [PipelineNext]_vars
        => [\A i \in Items : \A c \in candidates[i] :
              c.state \in Decided => c \in candidates'[i]]_vars
    BY DecisionStep DEF QueueInv
  <1>2. QED
    BY <1>1, PipelineQueueInvariant, ShapeInvariant, PTL DEF PipelineSpec, DecisionsStand

-----------------------------------------------------------------------------
(* Type correctness. *)

Context == [generation : Nat, ocr : BOOLEAN, run : Nat, number : Nat, row : Nat,
            calls : 0 .. MaxCalls, drafts : 0 .. MaxDrafts, retryable : BOOLEAN]

\* The runs a plan or a recorder names are rows of the item it is running.
RunsAreKnown ==
    \A w \in Workers :
        /\ pc[w] = "idle" => ctx[w] = NoContext
        /\ ctx[w].run # 0 /\ pc[w] # "idle" => ctx[w].run \in DOMAIN runs[task[w]]
        /\ pc[w] = "calling" => ctx[w].row \in DOMAIN runs[task[w]]

PipelineInv == PipelineTypeOK /\ RunsAreKnown

LEMMA NoContextTyped == NoContext \in Context
  BY PipelineAssumption DEF NoContext, Context

LEMMA ContextUpdates ==
    ASSUME NEW c \in Context
    PROVE  /\ \A n \in Nat : [c EXCEPT !.number = n] \in Context
           /\ \A r \in Nat, n \in Nat : [c EXCEPT !.row = r, !.number = n] \in Context
           /\ \A k \in 0 .. MaxCalls, r \in Nat : [c EXCEPT !.calls = k, !.row = r] \in Context
           /\ \A b \in BOOLEAN : [c EXCEPT !.retryable = b] \in Context
           /\ \A r \in Nat, d \in 0 .. MaxDrafts : [c EXCEPT !.run = r, !.drafts = d] \in Context
           /\ \A g \in Nat, o \in BOOLEAN, r \in Nat :
                [c EXCEPT !.generation = g, !.ocr = o, !.run = r] \in Context
  BY DEF Context

LEMMA RowUpdates ==
    ASSUME NEW s \in Seq(RunRow), NEW n, NEW t \in RunStatus, NEW d \in 0 .. MaxDrafts
    PROVE  /\ [s EXCEPT ![n].status = t] \in Seq(RunRow)
           /\ [s EXCEPT ![n].status = t, ![n].drafts = d] \in Seq(RunRow)
  <1>1. \A r \in RunRow : /\ [r EXCEPT !.status = t] \in RunRow
                          /\ [r EXCEPT !.drafts = d] \in RunRow
    BY DEF RunRow
  <1>2. s \in [1 .. Len(s) -> RunRow]
    OBVIOUS
  <1>3. [s EXCEPT ![n].status = t] \in [1 .. Len(s) -> RunRow]
    BY <1>1, <1>2
  <1>4. [s EXCEPT ![n].status = t, ![n].drafts = d] \in [1 .. Len(s) -> RunRow]
    BY <1>1, <1>3
  <1> QED
    BY <1>3, <1>4

LEMMA NextAttemptTyped ==
    ASSUME PipelineTypeOK, NEW i \in Items, NEW g
    PROVE  NextAttempt(i, g) \in Nat
  <1>1. /\ runs[i] \in Seq(RunRow)
        /\ DOMAIN runs[i] = 1 .. Len(runs[i])
        /\ Len(runs[i]) \in Nat
    BY DEF PipelineTypeOK
  <1>2. IsFiniteSet(1 .. Len(runs[i])) /\ RunsOf(i, g) \subseteq 1 .. Len(runs[i])
    BY <1>1, FS_Interval DEF RunsOf
  <1>3. Cardinality(RunsOf(i, g)) \in Nat
    BY <1>2, FS_Subset, FS_CardinalityType
  <1> QED
    BY <1>3 DEF NextAttempt

LEMMA AbandonedTyped ==
    ASSUME PipelineTypeOK, NEW i \in Items
    PROVE  Abandoned(i) \in Seq(RunRow) /\ DOMAIN Abandoned(i) = DOMAIN runs[i]
  <1>0. runs[i] \in Seq(RunRow)
    BY DEF PipelineTypeOK
  <1>1. runs[i] \in [1 .. Len(runs[i]) -> RunRow] /\ Len(runs[i]) \in Nat
    BY <1>0
  <1>2. \A r \in DOMAIN runs[i] : runs[i][r] \in RunRow
    BY <1>1
  <1>3. \A r \in DOMAIN runs[i] : [runs[i][r] EXCEPT !.status = "abandoned"] \in RunRow
    BY <1>2 DEF RunRow, RunStatus
  <1>4. \A r \in 1 .. Len(runs[i]) : Abandoned(i)[r] \in RunRow
    BY <1>1, <1>2, <1>3 DEF Abandoned
  <1>5. DOMAIN Abandoned(i) = 1 .. Len(runs[i])
    BY <1>1 DEF Abandoned
  <1>6. Abandoned(i) \in [1 .. Len(runs[i]) -> RunRow]
    BY <1>4, <1>5 DEF Abandoned
  <1> QED
    BY <1>1, <1>6

LEMMA PlanTyped ==
    ASSUME PipelineTypeOK, NEW i \in Items
    PROVE  /\ Plan(i) \in Context
           /\ Plan(i).run # 0 => Plan(i).run \in DOMAIN runs[i]
  <1> DEFINE found == ValidatedRuns(i, generation[i])
             hasOcr == derivative[i] /\ <<generation[i], "completed">> \in ocr[i]
             run == IF (IF hasOcr THEN found ELSE {}) = {} THEN 0
                    ELSE CHOOSE r \in (IF hasOcr THEN found ELSE {}) : TRUE
  <1>1. run = 0 \/ run \in found
    OBVIOUS
  <1>2. found \subseteq DOMAIN runs[i]
    BY DEF ValidatedRuns, RunsOf
  <1>3. DOMAIN runs[i] \subseteq Nat
    BY DEF PipelineTypeOK
  <1>4. hasOcr \in BOOLEAN /\ generation[i] \in Nat /\ run \in Nat
    BY <1>1, <1>2, <1>3 DEF PipelineTypeOK, TypeOK
  <1>5. Plan(i) = [NoContext EXCEPT !.generation = generation[i], !.ocr = hasOcr, !.run = run]
    BY DEF Plan
  <1>6. Plan(i) \in Context
    <2> HIDE DEF hasOcr, run
    <2>1. \A g \in Nat, o \in BOOLEAN, r \in Nat :
             [NoContext EXCEPT !.generation = g, !.ocr = o, !.run = r] \in Context
      BY NoContextTyped, ContextUpdates
    <2>2. [NoContext EXCEPT !.generation = generation[i], !.ocr = hasOcr, !.run = run] \in Context
      BY <1>4, <2>1
    <2> QED
      BY <1>5, <2>2
  <1>7. Plan(i).run = run
    <2> HIDE DEF hasOcr, run
    <2> QED
      BY <1>5 DEF NoContext
  <1> QED
    BY <1>1, <1>2, <1>6, <1>7

\* What a step of a run leaves of the run's own records.
RunKept(w) ==
    /\ pc' \in [Workers -> Steps]
    /\ ctx' \in [Workers -> Context]
    /\ derivative' \in [Items -> BOOLEAN]
    /\ ocr' \in [Items -> SUBSET (Nat \X {"empty", "completed"})]
    /\ runs' \in [Items -> Seq(RunRow)]
    /\ \A v \in Workers \ {w} : pc'[v] = pc[v] /\ ctx'[v] = ctx[v] /\ task'[v] = task[v]
    /\ pc'[w] = "idle" <=> ~Running(w)'
    /\ pc'[w] = "idle" => ctx'[w] = NoContext
    /\ Running(w)' => task'[w] = task[w]
    /\ \A i \in Items : DOMAIN runs[i] \subseteq DOMAIN runs'[i]
    /\ ctx'[w].run \in {0} \cup DOMAIN runs'[task[w]]
    /\ pc'[w] = "calling" => ctx'[w].row \in DOMAIN runs'[task[w]]
    /\ page' = page

LEMMA StopKept ==
    ASSUME PipelineInv, NEW w \in Workers, Stop(w)
    PROVE  RunKept(w)
  BY NoContextTyped
  DEF PipelineInv, PipelineTypeOK, TypeOK, Context, Stop, Drop, Leave, Running, Goto, Steps,
      RunKept, artifactVars, NoContext

\* The item row and the slot stay as they are.
LEMMA LocalKept ==
    ASSUME PipelineInv, NEW w \in Workers, Running(w), UNCHANGED queueVars,
           NEW step \in Steps \ {"idle"}, Goto(w, step),
           NEW c \in Context, ctx' = [ctx EXCEPT ![w] = c],
           step = "calling" => c.row \in DOMAIN runs'[task[w]],
           UNCHANGED page, derivative' \in [Items -> BOOLEAN],
           ocr' \in [Items -> SUBSET (Nat \X {"empty", "completed"})],
           runs' \in [Items -> Seq(RunRow)],
           \A i \in Items : DOMAIN runs[i] \subseteq DOMAIN runs'[i],
           c.run \in {0} \cup DOMAIN runs'[task[w]]
    PROVE  RunKept(w)
  BY DEF PipelineInv, PipelineTypeOK, Context, Running, queueVars, Goto, RunKept

LEMMA QuietKept ==
    ASSUME PipelineInv, NEW w \in Workers, Running(w), UNCHANGED queueVars,
           NEW step \in Steps \ {"idle", "calling"}, Goto(w, step),
           NEW c \in Context, ctx' = [ctx EXCEPT ![w] = c],
           UNCHANGED page, derivative' \in [Items -> BOOLEAN],
           ocr' \in [Items -> SUBSET (Nat \X {"empty", "completed"})],
           runs' \in [Items -> Seq(RunRow)],
           \A i \in Items : DOMAIN runs[i] \subseteq DOMAIN runs'[i],
           c.run \in {0} \cup DOMAIN runs'[task[w]]
    PROVE  RunKept(w)
  BY LocalKept

LEMMA RunnerKept ==
    ASSUME PipelineInv, NEW w \in Workers, RunnerStep(w) \/ Raise(w)
    PROVE  RunKept(w)
  <1> DEFINE i == task[w]
             g == ctx[w].generation
  <1>1. /\ pc \in [Workers -> Steps] /\ ctx \in [Workers -> Context]
        /\ derivative \in [Items -> BOOLEAN]
        /\ ocr \in [Items -> SUBSET (Nat \X {"empty", "completed"})]
        /\ runs \in [Items -> Seq(RunRow)]
    <2>1. ctx \in [Workers -> Context]
      BY Zenon DEF PipelineInv, PipelineTypeOK, Context
    <2> QED
      BY <2>1, Zenon DEF PipelineInv, PipelineTypeOK
  <1>2. pc[w] # "idle" /\ Running(w) /\ i \in Items
    <2>1. pc[w] # "idle"
      BY Zenon
      DEF RunnerStep, Raise, Begin, Preprocess, EnterOcr, EnterLlm, EnterRead, EnterSwap, Ocr,
          Extract, Started, Validated, CallFailed, FinishItem, FailItem, Local
    <2> QED
      BY <2>1 DEF PipelineInv, PipelineTypeOK, TypeOK, Running
  <1>3. ctx[w] \in Context /\ ctx[w].run \in {0} \cup DOMAIN runs[i]
    BY <1>1, <1>2 DEF PipelineInv, RunsAreKnown
  <1>4. ASSUME NEW retryable \in BOOLEAN, Raised(w, retryable), UNCHANGED queueVars,
               UNCHANGED <<page, derivative, ocr>>, runs' \in [Items -> Seq(RunRow)],
               \A j \in Items : DOMAIN runs[j] \subseteq DOMAIN runs'[j]
        PROVE  RunKept(w)
    <2>1. /\ [NoContext EXCEPT !.retryable = retryable] \in Context
          /\ [NoContext EXCEPT !.retryable = retryable].run = 0
      BY NoContextTyped, ContextUpdates DEF NoContext
    <2> QED
      BY <1>1, <1>2, <1>4, <2>1, QuietKept DEF Raised, Steps
  <1>5. ASSUME NEW run \in DOMAIN runs'[i], NEW drafts \in 0 .. MaxDrafts,
               Drafted(w, run, drafts), UNCHANGED queueVars,
               UNCHANGED <<page, derivative, ocr>>, runs' \in [Items -> Seq(RunRow)],
               \A j \in Items : DOMAIN runs[j] \subseteq DOMAIN runs'[j]
        PROVE  RunKept(w)
    <2>0. run \in Nat
      BY <1>2, <1>5
    <2>1. /\ [NoContext EXCEPT !.run = run, !.drafts = drafts] \in Context
          /\ [NoContext EXCEPT !.run = run, !.drafts = drafts].run = run
      BY <2>0, NoContextTyped, ContextUpdates DEF NoContext
    <2> QED
      BY <1>1, <1>2, <1>5, <2>1, QuietKept DEF Drafted, Steps
  <1>6. CASE Begin(w)
    <2>1. CASE Owns(w)
      BY <1>1, <1>2, <1>6, <2>1, PlanTyped, QuietKept
      DEF Begin, PipelineInv, Steps, artifactVars, Goto
    <2> QED
      BY <1>6, <2>1, StopKept DEF Begin
  <1>7. CASE Preprocess(w) \/ Ocr(w)
    <2>1. ctx' = [ctx EXCEPT ![w] = ctx[w]] /\ UNCHANGED <<queueVars, page, runs>>
      BY <1>1, <1>7 DEF Preprocess, Ocr, Local
    <2>2. derivative' \in [Items -> BOOLEAN]
      BY <1>1, <1>7 DEF Preprocess, Ocr
    <2>3. ocr' \in [Items -> SUBSET (Nat \X {"empty", "completed"})]
      <3>1. CASE Ocr(w)
        <4>1. PICK outcome \in {"empty", "completed"} :
                 ocr' = [ocr EXCEPT ![i] = @ \cup {<<g, outcome>>}]
          BY <3>1 DEF Ocr
        <4>2. <<g, outcome>> \in Nat \X {"empty", "completed"}
          BY <1>3 DEF Context
        <4> QED
          BY <1>1, <1>2, <4>1, <4>2
      <3> QED
        BY <1>1, <1>7, <3>1 DEF Preprocess
    <2>4. \E step \in Steps \ {"idle", "calling"} : Goto(w, step)
      BY <1>7 DEF Preprocess, Ocr, Steps
    <2> QED
      BY <1>1, <1>2, <1>3, <2>1, <2>2, <2>3, <2>4, QuietKept
  <1>8. CASE EnterOcr(w) \/ EnterLlm(w)
    <2>1. AfterOcrEntry(w) \in Steps \ {"idle", "calling"}
      BY DEF AfterOcrEntry, Steps
    <2>2. ASSUME NEW step, NEW target, NEW swap \in Steps \ {"idle", "calling"}, NEW next \in Steps \ {"idle", "calling"},
                 EnterRead(w, step, target, swap, next)
          PROVE  RunKept(w)
      <3>1. ctx' = [ctx EXCEPT ![w] = ctx[w]] /\ UNCHANGED <<queueVars, artifactVars>>
        BY <1>1, <2>2 DEF EnterRead, Local
      <3>2. \E to \in Steps \ {"idle", "calling"} : Goto(w, to)
        BY <2>2 DEF EnterRead
      <3> QED
        BY <1>1, <1>2, <1>3, <3>1, <3>2, QuietKept DEF artifactVars
    <2>3. ASSUME NEW swap, NEW from, NEW to, NEW next \in Steps \ {"idle", "calling"},
                 EnterSwap(w, swap, from, to, next)
          PROVE  RunKept(w)
      <3>1. CASE Advance(w, from, to) /\ Goto(w, next) /\ UNCHANGED <<ctx, artifactVars>>
        BY <1>1, <1>2, <1>3, <3>1
        DEF RunKept, Advance, Goto, artifactVars, Running, PipelineInv, PipelineTypeOK
      <3> QED
        BY <2>3, <3>1, StopKept DEF EnterSwap
    <2> QED
      BY <1>8, <2>1, <2>2, <2>3 DEF EnterOcr, EnterLlm, Steps
  <1>9. CASE Extract(w)
    <2>1. CASE ctx[w].run # 0
      <3>1. runs[i][ctx[w].run].drafts \in 0 .. MaxDrafts
        <4>1. runs[i] \in Seq(RunRow) /\ ctx[w].run \in DOMAIN runs[i]
          BY <1>1, <1>2, <1>3, <2>1
        <4>2. runs[i][ctx[w].run] \in RunRow
          BY <4>1
        <4> QED
          BY <4>2 DEF RunRow
      <3> QED
        BY <1>1, <1>3, <1>5, <1>9, <2>1, <3>1 DEF Extract, Local, artifactVars
    <2>2. CASE ctx[w].run = 0
      <3>1. /\ ctx' = [ctx EXCEPT ![w] = [ctx[w] EXCEPT !.number = NextAttempt(i, g)]]
            /\ Goto(w, "started") /\ UNCHANGED <<queueVars, artifactVars>>
        BY <1>9, <2>2 DEF Extract, Local
      <3>2. /\ [ctx[w] EXCEPT !.number = NextAttempt(i, g)] \in Context
            /\ [ctx[w] EXCEPT !.number = NextAttempt(i, g)].run = ctx[w].run
        BY <1>2, <1>3, NextAttemptTyped, ContextUpdates DEF Context, PipelineInv
      <3> QED
        BY <1>1, <1>2, <1>3, <3>1, <3>2, QuietKept DEF Steps, artifactVars
    <2> QED
      BY <2>1, <2>2
  <1>10. CASE Started(w)
    <2> DEFINE taken == \E r \in RunsOf(i, g) : runs[i][r].attempt = ctx[w].number
               row == [generation |-> g, status |-> "running", drafts |-> 0,
                       attempt |-> IF taken THEN NextAttempt(i, g) ELSE ctx[w].number]
    <2>0. runs[i] \in Seq(RunRow) /\ DOMAIN runs[i] = 1 .. Len(runs[i]) /\ Len(runs[i]) \in Nat
      BY <1>1, <1>2
    <2>1. ASSUME NEW r \in Nat, runs' \in [Items -> Seq(RunRow)], r \in DOMAIN runs'[i],
                 \A j \in Items : DOMAIN runs[j] \subseteq DOMAIN runs'[j],
                 ctx' = [ctx EXCEPT ![w].row = r, ![w].number = 0]
          PROVE  RunKept(w)
      <3> DEFINE c == [ctx[w] EXCEPT !.row = r, !.number = 0]
      <3>1. ctx' = [ctx EXCEPT ![w] = c]
        BY <1>1, <2>1
      <3>2. c \in Context /\ c.run = ctx[w].run /\ c.row = r
        BY <1>3, ContextUpdates DEF Context
      <3> HIDE DEF c
      <3>3. /\ c.run \in {0} \cup DOMAIN runs'[task[w]]
            /\ c.row \in DOMAIN runs'[task[w]]
        BY <1>2, <1>3, <2>1, <3>2
      <3>4. "calling" \in Steps \ {"idle"}
        BY DEF Steps
      <3>5. /\ Goto(w, "calling") /\ UNCHANGED queueVars /\ UNCHANGED page
            /\ derivative' \in [Items -> BOOLEAN]
            /\ ocr' \in [Items -> SUBSET (Nat \X {"empty", "completed"})]
        BY <1>1, <1>10 DEF Started, Local
      <3> QED
        BY <1>2, <2>1, <3>1, <3>2, <3>3, <3>4, <3>5, LocalKept
    <2>2. CASE taken /\ ValidatedRuns(i, g) # {}
      <3>1. PICK r \in ValidatedRuns(i, g) : ctx' = [ctx EXCEPT ![w].row = r, ![w].number = 0]
        BY <1>10, <2>2 DEF Started
      <3>2. r \in Nat /\ r \in DOMAIN runs[i]
        BY <2>0, <3>1 DEF ValidatedRuns, RunsOf
      <3> QED
        BY <1>1, <1>2, <1>10, <2>1, <2>2, <3>1, <3>2 DEF Started
    <2>3. CASE ~(taken /\ ValidatedRuns(i, g) # {})
      <3>1. /\ runs' = [runs EXCEPT ![i] = Append(@, row)]
            /\ ctx' = [ctx EXCEPT ![w].row = Len(runs[i]) + 1, ![w].number = 0]
        BY <1>10, <2>3 DEF Started
      <3>2. NextAttempt(i, g) \in Nat
        BY <1>2, NextAttemptTyped DEF PipelineInv
      <3>3. row \in RunRow
        <4>1. row.attempt \in Nat
          BY <1>3, <3>2 DEF Context
        <4> QED
          BY <1>3, <4>1, PipelineAssumption DEF Context, RunRow, RunStatus
      <3> HIDE DEF row
      <3>4. /\ Append(runs[i], row) \in Seq(RunRow)
            /\ DOMAIN runs[i] \subseteq DOMAIN Append(runs[i], row)
            /\ Len(runs[i]) + 1 \in DOMAIN Append(runs[i], row)
            /\ Len(runs[i]) + 1 \in Nat
        BY <2>0, <3>3
      <3>5. /\ runs' \in [Items -> Seq(RunRow)]
            /\ \A j \in Items : DOMAIN runs[j] \subseteq DOMAIN runs'[j]
            /\ Len(runs[i]) + 1 \in DOMAIN runs'[i]
        BY <1>1, <1>2, <3>1, <3>4
      <3> QED
        BY <2>1, <3>1, <3>4, <3>5
    <2> QED
      BY <2>2, <2>3
  <1>11. ASSUME NEW n, NEW t \in RunStatus
         PROVE  LET changed == [runs EXCEPT ![i][n].status = t] IN
                /\ changed \in [Items -> Seq(RunRow)]
                /\ \A j \in Items : DOMAIN changed[j] = DOMAIN runs[j]
    <2>0. runs[i] \in Seq(RunRow) /\ 0 \in 0 .. MaxDrafts
      BY <1>1, <1>2, PipelineAssumption
    <2>1. [runs[i] EXCEPT ![n].status = t] \in Seq(RunRow)
      BY <2>0, RowUpdates
    <2>2. [runs EXCEPT ![i][n].status = t] = [runs EXCEPT ![i] = [runs[i] EXCEPT ![n].status = t]]
      BY <1>1, <1>2
    <2>3. DOMAIN [runs[i] EXCEPT ![n].status = t] = DOMAIN runs[i]
      OBVIOUS
    <2> QED
      BY <1>1, <1>2, <2>1, <2>2, <2>3
  <1>12. CASE CallFailed(w)
    <2>1. /\ runs' \in [Items -> Seq(RunRow)]
          /\ \A j \in Items : DOMAIN runs[j] = DOMAIN runs'[j]
      BY <1>11, <1>12 DEF CallFailed, RunStatus
    <2>2. CASE \E retryable \in BOOLEAN : Raised(w, retryable)
      BY <1>4, <1>12, <2>1, <2>2 DEF CallFailed, Local
    <2>3. CASE /\ ctx[w].calls + 1 < MaxCalls
               /\ ctx' = [ctx EXCEPT ![w].calls = @ + 1, ![w].row = 0]
               /\ Goto(w, "extract")
      <3> DEFINE c == [ctx[w] EXCEPT !.calls = ctx[w].calls + 1, !.row = 0]
      <3>1. ctx' = [ctx EXCEPT ![w] = c]
        BY <1>1, <2>3
      <3>2. ctx[w].calls + 1 \in 0 .. MaxCalls
        BY <1>3, <2>3, PipelineAssumption DEF Context
      <3>3. c \in Context /\ c.run = ctx[w].run
        BY <1>3, <3>2, ContextUpdates DEF Context
      <3>4. c.run \in {0} \cup DOMAIN runs'[i]
        BY <1>2, <1>3, <2>1, <3>3
      <3> HIDE DEF c
      <3> QED
        BY <1>1, <1>2, <1>12, <2>1, <2>3, <3>1, <3>3, <3>4, QuietKept DEF CallFailed, Local, Steps
    <2> QED
      BY <1>12, <2>2, <2>3 DEF CallFailed
  <1>13. ASSUME NEW drafts \in 0 .. MaxDrafts, Validated(w, drafts)
         PROVE  RunKept(w)
    <2> DEFINE r == ctx[w].row
    <2>1. CASE ValidatedRuns(i, g) \ {r} # {}
      BY <1>1, <1>4, <1>13, <2>1 DEF Validated, Local
    <2>2. CASE ~(ValidatedRuns(i, g) \ {r} # {})
      <3>1. /\ runs' = [runs EXCEPT ![i][r].status = "validated", ![i][r].drafts = drafts]
            /\ Drafted(w, r, drafts)
        BY <1>13, <2>2 DEF Validated
      <3> DEFINE changed == [runs[i] EXCEPT ![r].status = "validated", ![r].drafts = drafts]
      <3>2. runs' = [runs EXCEPT ![i] = changed]
        BY <1>1, <1>2, <3>1
      <3>3. runs[i] \in Seq(RunRow) /\ "validated" \in RunStatus
        BY <1>1, <1>2 DEF RunStatus
      <3>4. changed \in Seq(RunRow)
        BY <3>3, RowUpdates
      <3>5. DOMAIN changed = DOMAIN runs[i]
        OBVIOUS
      <3> HIDE DEF changed
      <3>6. /\ runs' \in [Items -> Seq(RunRow)]
            /\ \A j \in Items : DOMAIN runs[j] = DOMAIN runs'[j]
        BY <1>1, <1>2, <3>2, <3>4, <3>5
      <3>7. r \in DOMAIN runs'[i]
        BY <1>2, <1>13, <3>6 DEF Validated, Local, PipelineInv, RunsAreKnown
      <3> QED
        BY <1>5, <1>13, <3>1, <3>6, <3>7 DEF Validated, Local
    <2> QED
      BY <2>1, <2>2
  <1>14. CASE Raise(w)
    BY <1>1, <1>4, <1>14 DEF Raise, artifactVars
  <1>15. ASSUME EndRun(w), Leave(w), UNCHANGED <<page, derivative, ocr>>,
                runs' \in [Items -> Seq(RunRow)],
                \A j \in Items : DOMAIN runs[j] \subseteq DOMAIN runs'[j]
         PROVE  RunKept(w)
    BY <1>1, <1>15, NoContextTyped
    DEF EndRun, Leave, Goto, RunKept, Running, NoContext, PipelineInv, PipelineTypeOK, TypeOK, Steps
  <1>16. CASE FinishItem(w)
    <2>1. CASE Stop(w)
      BY <2>1, StopKept
    <2>2. CASE EndRun(w)
      BY <1>1, <1>15, <1>16, <2>2 DEF FinishItem, Finish, Release, Stop, Drop, artifactVars
    <2> QED
      BY <1>16, <2>1, <2>2 DEF FinishItem
  <1>17. CASE FailItem(w)
    <2>1. CASE Stop(w)
      BY <2>1, StopKept
    <2>2. CASE /\ Fail(w, ctx[w].retryable) /\ AbandonIn({task[w]}) /\ EndRun(w)
               /\ UNCHANGED <<page, derivative, ocr, candidates, count>>
      <3>1. /\ runs' \in [Items -> Seq(RunRow)]
            /\ \A j \in Items : DOMAIN runs[j] = DOMAIN runs'[j]
        BY <1>1, <2>2, AbandonedTyped DEF AbandonIn, PipelineInv
      <3> QED
        BY <1>15, <2>2, <3>1 DEF Fail, Release
    <2> QED
      BY <1>17, <2>1, <2>2 DEF FailItem
  <1> QED
    BY <1>6, <1>7, <1>8, <1>9, <1>10, <1>12, <1>13, <1>14, <1>16, <1>17 DEF RunnerStep

\* What a step does to the candidates and their count, besides the decisions
\* of reviewers.
LEMMA CountTyped ==
    ASSUME PipelineTypeOK, NEW w \in Workers, RunnerStep(w) \/ Raise(w)
    PROVE  /\ candidates' \in [Items -> SUBSET Candidate]
           /\ count' \in [Items -> Nat]
  <1>1. /\ candidates \in [Items -> SUBSET Candidate] /\ count \in [Items -> Nat]
        /\ ctx[w].drafts \in 0 .. MaxDrafts /\ ctx[w].run \in Nat
        /\ generation \in [Items -> Nat] /\ task[w] \in Items \cup {NoItem}
    BY DEF PipelineTypeOK, TypeOK
  <1>2. ASSUME FinishItem(w), ~UNCHANGED <<candidates, count>>
        PROVE  /\ candidates' \in [Items -> SUBSET Candidate]
               /\ count' \in [Items -> Nat]
    <2> DEFINE i == task[w]
               g == generation[i]
               present == {c.index : c \in {d \in candidates[i] : d.generation = g}}
               new == [generation : {g}, index : (1 .. ctx[w].drafts) \ present,
                       run : {ctx[w].run}, state : {"pending_publish"}]
    <2>1. /\ Finish(w, IF ctx[w].drafts > 0 THEN "awaiting_review" ELSE "no_ads")
          /\ candidates' = [candidates EXCEPT ![i] = @ \cup new]
          /\ count' = [count EXCEPT ![i] = Cardinality(present \cup (1 .. ctx[w].drafts))]
      BY <1>2 DEF FinishItem, Stop, artifactVars
    <2>2. i \in Items
      BY <1>1, <2>1 DEF Finish, Running
    <2>3. present \subseteq 1 .. MaxDrafts
      BY <1>1, <2>2 DEF Candidate
    <2>4. present \cup (1 .. ctx[w].drafts) \subseteq 1 .. MaxDrafts
      <3>1. ctx[w].drafts \in 0 .. MaxDrafts
        BY <1>1
      <3>2. 1 .. ctx[w].drafts \subseteq 1 .. MaxDrafts
        BY <3>1, PipelineAssumption
      <3> HIDE DEF present
      <3> QED
        BY <2>3, <3>2
    <2>5. Cardinality(present \cup (1 .. ctx[w].drafts)) \in Nat
      <3> HIDE DEF present
      <3> QED
        <4>1. IsFiniteSet(1 .. MaxDrafts)
          BY FS_Interval, PipelineAssumption
        <4> QED
          BY <2>4, <4>1, FS_Subset, FS_CardinalityType, Zenon
    <2>6. new \subseteq Candidate
      BY <1>1, <2>2, PipelineAssumption DEF Candidate, CandidateState
    <2> HIDE DEF new, present
    <2> QED
      BY <1>1, <2>1, <2>2, <2>5, <2>6
  <1>3. CASE UNCHANGED <<candidates, count>>
    BY <1>1, <1>3
  <1>4. FinishItem(w) \/ UNCHANGED <<candidates, count>>
    BY Zenon
    DEF RunnerStep, Raise, Begin, Preprocess, EnterOcr, EnterLlm, EnterRead, EnterSwap, Ocr,
           Extract, Started, Validated, CallFailed, FailItem, Stop, artifactVars
  <1> QED
    BY <1>2, <1>3, <1>4

LEMMA PipelineTypeStep ==
    ASSUME PipelineInv, [PipelineNext]_vars
    PROVE  PipelineInv'
  <1>0. TypeOK'
    BY PipelineQueueStep, TypeStep DEF PipelineInv, PipelineTypeOK
  <1>1. ASSUME NEW w \in Workers, RunnerStep(w) \/ Raise(w)
        PROVE  PipelineInv'
    <2>1. RunKept(w)
      BY <1>1, RunnerKept
    <2>2. /\ candidates' \in [Items -> SUBSET Candidate]
          /\ count' \in [Items -> Nat]
      BY <1>1, CountTyped DEF PipelineInv
    <2>3. PipelineTypeOK'
      BY <1>0, <2>1, <2>2 DEF PipelineInv, PipelineTypeOK, RunKept, Context, Running
    <2>4. RunsAreKnown'
      <3> SUFFICES ASSUME NEW v \in Workers
                   PROVE  /\ pc'[v] = "idle" => ctx'[v] = NoContext
                          /\ ctx'[v].run # 0 /\ pc'[v] # "idle"
                                => ctx'[v].run \in DOMAIN runs'[task'[v]]
                          /\ pc'[v] = "calling" => ctx'[v].row \in DOMAIN runs'[task'[v]]
        BY DEF RunsAreKnown
      <3>1. CASE v = w
        BY <2>1, <3>1 DEF RunKept, Running
      <3>2. CASE v # w
        <4>1. pc'[v] = pc[v] /\ ctx'[v] = ctx[v] /\ task'[v] = task[v]
          BY <2>1, <3>2 DEF RunKept
        <4>2. pc[v] # "idle" => task[v] \in Items
          BY DEF PipelineInv, PipelineTypeOK, TypeOK, Running
        <4>3. \A i \in Items : DOMAIN runs[i] \subseteq DOMAIN runs'[i]
          BY <2>1 DEF RunKept
        <4> QED
          BY <4>1, <4>2, <4>3 DEF PipelineInv, RunsAreKnown
      <3> QED
        BY <3>1, <3>2
    <2> QED
      BY <2>3, <2>4 DEF PipelineInv
  <1>2. ASSUME NEW w \in Workers, NEW i \in Items, ClaimItem(w, i)
        PROVE  PipelineInv'
    <2>1. /\ pc' = [pc EXCEPT ![w] = "begin"] /\ task' = [task EXCEPT ![w] = i]
          /\ ~Running(w) /\ UNCHANGED <<ctx, artifactVars>>
      BY <1>2 DEF ClaimItem, Claim, Goto
    <2>2. ctx[w] = NoContext /\ i # NoItem
      BY <2>1, QueueAssumption DEF PipelineInv, PipelineTypeOK, RunsAreKnown
    <2>3. PipelineTypeOK'
      BY <1>0, <2>1, <2>2
      DEF PipelineInv, PipelineTypeOK, TypeOK, artifactVars, Running, Steps
    <2>4. RunsAreKnown'
      <3> SUFFICES ASSUME NEW v \in Workers
                   PROVE  /\ pc'[v] = "idle" => ctx[v] = NoContext
                          /\ ctx[v].run # 0 /\ pc'[v] # "idle"
                                => ctx[v].run \in DOMAIN runs[task'[v]]
                          /\ pc'[v] = "calling" => ctx[v].row \in DOMAIN runs[task'[v]]
        BY <2>1 DEF RunsAreKnown, artifactVars
      <3>1. pc \in [Workers -> Steps] /\ task \in [Workers -> Items \cup {NoItem}]
        BY DEF PipelineInv, PipelineTypeOK, TypeOK
      <3>2. CASE v = w
        BY <2>1, <2>2, <3>1, <3>2 DEF NoContext
      <3>3. CASE v # w
        BY <2>1, <3>1, <3>3 DEF PipelineInv, RunsAreKnown
      <3> QED
        BY <3>2, <3>3
    <2> QED
      BY <2>3, <2>4 DEF PipelineInv
  <1>3. ASSUME NEW S \in SUBSET Items, AbandonIn(S), UNCHANGED <<localVars, task>>,
               UNCHANGED <<page, derivative, ocr, candidates, count>>
        PROVE  PipelineInv'
    <2>1. /\ runs' \in [Items -> Seq(RunRow)]
          /\ \A j \in Items : DOMAIN runs[j] = DOMAIN runs'[j]
      BY <1>3, AbandonedTyped DEF AbandonIn, PipelineInv, PipelineTypeOK
    <2> QED
      BY <1>0, <1>3, <2>1
      DEF PipelineInv, PipelineTypeOK, TypeOK, RunsAreKnown, localVars, Running
  <1>4. ASSUME NEW p \in Instances, CrashProcess(p)
        PROVE  PipelineInv'
    BY <1>0, <1>4, NoContextTyped
    DEF PipelineInv, PipelineTypeOK, RunsAreKnown, CrashProcess, Crash, artifactVars, Running,
        Steps, Context, NoContext
  <1>5. ASSUME NEW o \in Operators, RetryItem(o)
        PROVE  PipelineInv'
    <2>1. \A i \in Items : \A g : Superseded(i, g) \in SUBSET Candidate
      <3> SUFFICES ASSUME NEW i \in Items, NEW c \in candidates[i]
                   PROVE  c \in Candidate /\ [c EXCEPT !.state = "superseded"] \in Candidate
        BY DEF Superseded
      <3> QED
        <4>1. c \in Candidate
          BY DEF PipelineInv, PipelineTypeOK
        <4> QED
          BY <4>1 DEF Candidate, CandidateState
    <2>2. candidates' \in [Items -> SUBSET Candidate]
      BY <1>5, <2>1 DEF RetryItem, PipelineInv, PipelineTypeOK
    <2> QED
      BY <1>0, <1>5, <2>2
      DEF PipelineInv, PipelineTypeOK, RunsAreKnown, RetryItem, RetryWrite, localVars, Running
  <1>6. ASSUME NEW i \in Items, NEW c \in candidates[i], NEW verdict \in Decided,
               Decide(i, c, verdict)
        PROVE  PipelineInv'
    <2>1. [c EXCEPT !.state = verdict] \in Candidate
      <3>1. c \in Candidate
        BY DEF PipelineInv, PipelineTypeOK
      <3> QED
        BY <3>1 DEF Candidate, CandidateState, Decided
    <2> QED
      BY <1>0, <1>6, <2>1
      DEF PipelineInv, PipelineTypeOK, RunsAreKnown, Decide, queueVars, localVars, Running
  <1>7. CASE UNCHANGED <<localVars, artifactVars, task>>
    BY <1>0, <1>7 DEF PipelineInv, PipelineTypeOK, RunsAreKnown, localVars, artifactVars, Running
  <1> QED
    BY <1>1, <1>2, <1>3, <1>4, <1>5, <1>6, <1>7
    DEF PipelineNext, Clock, LeaseLapses, BackoffElapses, ReapItems, Reap, StartProcess, Start,
        RequestRetry, RetryRead, RetryLost, RetryMiss, vars, queueVars

LEMMA PipelineInvariant == PipelineSpec => []PipelineInv
  <1>1. PipelineInit => PipelineInv
    <2> SUFFICES ASSUME PipelineInit PROVE PipelineInv
      OBVIOUS
    <2>1. <<>> \in Seq(RunRow)
      OBVIOUS
    <2> QED
      BY <2>1, TypeInit, NoContextTyped
      DEF PipelineInit, Init, PipelineInv, PipelineTypeOK, RunsAreKnown, Context, Steps, Running,
          NoContext
  <1>2. PipelineInv /\ [PipelineNext]_vars => PipelineInv'
    BY PipelineTypeStep
  <1> QED
    BY <1>1, <1>2, PTL DEF PipelineSpec

\* Every program counter, context and artifact row has its type, and a worker
\* without an item is idle.
THEOREM PipelineTypes == PipelineSpec => []PipelineTypeOK
  BY PipelineInvariant, PTL DEF PipelineInv

-----------------------------------------------------------------------------
(* What is of record. *)

\* A page's candidates are numbered without gaps or repetitions by the one
\* commit that creates them, and open ones are of the current generation.
Recorded(i) ==
    /\ \A c, d \in candidates[i] : c.generation = d.generation /\ c.index = d.index => c = d
    /\ {c.index : c \in CurrentCandidates(i)}
            = IF status[i] \in PipelineSucceeded THEN 1 .. count[i] ELSE {}
    /\ status[i] = "awaiting_review" => count[i] > 0
    /\ status[i] = "no_ads" => count[i] = 0
    /\ status[i] # "completed"
    /\ \A c \in candidates[i] :
        /\ c.generation <= generation[i]
        /\ c.state = "pending_publish" => c.generation = generation[i]

\* A retry request still holds the item's generation.
ReadsAreCurrent ==
    \A o \in Operators : req[o].item # NoItem => req[o].generation = generation[req[o].item]

RecordInv == (\A i \in Items : Recorded(i)) /\ ReadsAreCurrent

\* The item stays put, or moves among the statuses of pending and failed work.
Unrecorded(i) ==
    \/ status'[i] = status[i]
    \/ /\ status[i] \notin PipelineSucceeded
       /\ status'[i] \in InFlight \cup {"uploaded", "needs_attention"}

LEMMA UnrecordedMove ==
    ASSUME NEW i \in Items, Recorded(i), Unrecorded(i),
           UNCHANGED <<generation, candidates, count>>
    PROVE  Recorded(i)'
  <1>1. status'[i] \in InFlight \cup {"uploaded", "needs_attention"} =>
           /\ status'[i] \notin PipelineSucceeded
           /\ status'[i] \notin {"awaiting_review", "no_ads", "completed"}
    BY DEF InFlight, PipelineSucceeded
  <1> QED
    BY <1>1 DEF Recorded, CurrentCandidates, Unrecorded

\* No worker, reaper or restart touches a row that is not in flight, and none
\* but the last step of a run makes it succeed.
LEMMA QuietMove ==
    ASSUME QueueInv, NEW i \in Items,
           \/ \E j \in Items : LeaseLapses(j) \/ BackoffElapses(j)
           \/ \E w \in Workers, j \in Items : Claim(w, j)
           \/ \E w \in Workers : \/ Advance(w, "preprocessing", "ocr_processing")
                                 \/ Advance(w, "ocr_processing", "llm_processing")
                                 \/ \E retryable \in BOOLEAN : Fail(w, retryable)
                                 \/ Drop(w)
           \/ \E S \in SUBSET Items : Reap(S)
           \/ \E p \in Instances : Start(p) \/ Crash(p)
    PROVE  generation' = generation /\ Unrecorded(i)
  <1>1. TypeOK /\ ClaimIffInFlight
    BY DEF QueueInv
  <1>2. \A s \in InFlight \cup Claimable : s \notin PipelineSucceeded
    BY DEF InFlight, Claimable, PipelineSucceeded
  <1>3. ASSUME NEW w \in Workers, Owns(w)
        PROVE  task[w] \in Items /\ status[task[w]] \in InFlight
    BY <1>1, <1>3
    DEF Owns, Running, TypeOK, ClaimIffInFlight, QueueInv, TokensWereIssued, NoClaim
  <1>4. ASSUME NEW S \in SUBSET Items, NEW T \in SUBSET Items, PutBack(S, T),
               \A j \in S \cup T : status[j] \in InFlight
        PROVE  generation' = generation /\ Unrecorded(i)
    BY <1>2, <1>4 DEF PutBack, Unrecorded
  <1>5. CASE \E j \in Items : LeaseLapses(j) \/ BackoffElapses(j)
    BY <1>5 DEF LeaseLapses, BackoffElapses, Unrecorded
  <1>6. ASSUME NEW w \in Workers, NEW j \in Items, Claim(w, j)
        PROVE  generation' = generation /\ Unrecorded(i)
    BY <1>1, <1>2, <1>6 DEF Claim, TypeOK, InFlight, Unrecorded
  <1>7. ASSUME NEW w \in Workers,
               \/ Advance(w, "preprocessing", "ocr_processing")
               \/ Advance(w, "ocr_processing", "llm_processing")
               \/ \E retryable \in BOOLEAN : Fail(w, retryable)
        PROVE  generation' = generation /\ Unrecorded(i)
    <2>1. Owns(w)
      BY <1>7 DEF Advance, Fail, Release
    <2>2. PICK s \in InFlight \cup {"uploaded", "needs_attention"} :
             status' = [status EXCEPT ![task[w]] = s] /\ generation' = generation
      BY <1>7 DEF Advance, Fail, Release, InFlight
    <2> QED
      BY <1>1, <1>2, <1>3, <2>1, <2>2 DEF TypeOK, Unrecorded
  <1>8. ASSUME NEW S \in SUBSET Items, Reap(S)
        PROVE  generation' = generation /\ Unrecorded(i)
    <2>1. \A j \in S : status[j] \in InFlight
      BY <1>1, <1>8 DEF Reap, Expired, ClaimIffInFlight
    <2> QED
      BY <1>4, <1>8, <2>1 DEF Reap
  <1>9. ASSUME NEW p \in Instances, Start(p)
        PROVE  generation' = generation /\ Unrecorded(i)
    BY <1>4, <1>9 DEF Start, Recover, rowVars, Unrecorded
  <1>10. CASE \/ \E w \in Workers : Drop(w)
              \/ \E p \in Instances : Crash(p)
    BY <1>10 DEF Drop, Crash, rowVars, Unrecorded
  <1> QED
    BY <1>5, <1>6, <1>7, <1>8, <1>9, <1>10

LEMMA UpToHas ==
    ASSUME NEW n \in Nat
    PROVE  Cardinality(1 .. n) = n
  <1>1. Cardinality(1 .. n) = IF 1 > n THEN 0 ELSE n - 1 + 1
    BY FS_Interval
  <1> QED
    BY <1>1

\* The commit that ends a run records as many candidates as it says.
LEMMA FinishRecorded ==
    ASSUME PipelineTypeOK, QueueInv, NEW w \in Workers, FinishItem(w), ~Stop(w),
           NEW j \in Items, \A i \in Items : Recorded(i)
    PROVE  Recorded(j)'
  <1> DEFINE i == task[w]
             g == generation[i]
             n == ctx[w].drafts
             present == {c.index : c \in {d \in candidates[i] : d.generation = g}}
             new == [generation : {g}, index : (1 .. n) \ present,
                     run : {ctx[w].run}, state : {"pending_publish"}]
             target == IF n > 0 THEN "awaiting_review" ELSE "no_ads"
  <1>1. /\ Finish(w, target)
        /\ candidates' = [candidates EXCEPT ![i] = @ \cup new]
        /\ count' = [count EXCEPT ![i] = Cardinality(present \cup (1 .. n))]
    BY DEF FinishItem
  <1>2. /\ i \in Items /\ n \in Nat /\ g \in Nat /\ generation' = generation
        /\ status[i] = "llm_processing" /\ status' = [status EXCEPT ![i] = target]
    BY <1>1 DEF Finish, Release, Owns, Running, PipelineTypeOK, TypeOK
  <1>3. /\ candidates \in [Items -> SUBSET Candidate] /\ count \in [Items -> Nat]
        /\ status \in [Items -> ItemStatus] /\ generation \in [Items -> Nat]
    BY DEF PipelineTypeOK, TypeOK
  <1>4. CASE j # i
    <2>1. /\ candidates'[j] = candidates[j] /\ count'[j] = count[j]
          /\ generation'[j] = generation[j] /\ status'[j] = status[j]
      BY <1>1, <1>2, <1>3, <1>4
    <2> QED
      BY <2>1 DEF Recorded, CurrentCandidates
  <1>5. CASE j = i
    <2>1. present = {}
      BY <1>2 DEF Recorded, CurrentCandidates, PipelineSucceeded
    <2>2. Cardinality(1 .. n) = n
      <3> HIDE DEF n, present, new, target
      <3> QED
        BY <1>2, UpToHas
    <2>3. count'[i] = n /\ status'[i] = target
      <3>1. present \cup (1 .. n) = 1 .. n
        BY <2>1
      <3> QED
        BY <1>1, <1>2, <1>3, <2>2, <3>1
    <2>4. /\ \A c \in new : /\ c.generation = g /\ c.index \in 1 .. n
                            /\ c = [generation |-> g, index |-> c.index, run |-> ctx[w].run,
                                    state |-> "pending_publish"]
          /\ \A m \in 1 .. n : \E c \in new : c.index = m
      <3> DEFINE at(m) == [generation |-> g, index |-> m, run |-> ctx[w].run,
                           state |-> "pending_publish"]
      <3>1. \A m \in 1 .. n : at(m) \in new /\ at(m).index = m
        BY <2>1
      <3>2. \A c \in new : c.generation = g /\ c.index \in 1 .. n /\ c = at(c.index)
        OBVIOUS
      <3> HIDE DEF new, present
      <3> QED
        BY <3>1, <3>2
    <2>5. candidates'[i] = candidates[i] \cup new
      BY <1>1, <1>2, <1>3
    <2>6. \A c \in candidates[i] : c.generation # g
      BY <2>1
    <2> HIDE DEF new, present
    <2>7. \A c, d \in candidates'[i] : c.generation = d.generation /\ c.index = d.index => c = d
      BY <1>2, <2>4, <2>5, <2>6 DEF Recorded
    <2>8. CurrentCandidates(j)' = new
      BY <1>2, <1>5, <2>4, <2>5, <2>6 DEF CurrentCandidates
    <2>9. {c.index : c \in CurrentCandidates(j)'} = 1 .. n
      BY <2>4, <2>8
    <2>10. \A c \in candidates'[i] :
             /\ c.generation <= generation'[i]
             /\ c.state = "pending_publish" => c.generation = generation'[i]
      <3>1. \A c \in candidates[i] :
              /\ c.generation <= generation[i]
              /\ c.state = "pending_publish" => c.generation = generation[i]
        BY <1>2 DEF Recorded
      <3> QED
        BY <1>2, <2>4, <2>5, <3>1
    <2>11. target \in PipelineSucceeded /\ target # "completed"
      BY DEF PipelineSucceeded
    <2> QED
      BY <1>2, <1>5, <2>3, <2>7, <2>9, <2>10, <2>11 DEF Recorded
  <1> QED
    BY <1>4, <1>5

\* A reprocess opens a generation without candidates and closes what the
\* earlier ones left open; a resume finds nothing recorded.
LEMMA RetryRecorded ==
    ASSUME PipelineTypeOK, QueueInv, ReadsAreCurrent, NEW o \in Operators, RetryItem(o),
           NEW j \in Items, \A i \in Items : Recorded(i)
    PROVE  Recorded(j)'
  <1> DEFINE i == req[o].item
  <1>1. /\ i \in Items /\ status[i] = req[o].seen /\ req[o].seen \in Allowed(req[o].mode)
        /\ req[o].generation = generation[i] /\ generation[i] \in Nat
        /\ req[o].mode \in Modes
    BY DEF RetryItem, RetryWrite, QueueInv, RequestsWereAllowed, ReadsAreCurrent, TypeOK, Requests
  <1>2. /\ candidates \in [Items -> SUBSET Candidate] /\ count' = count
        /\ status \in [Items -> ItemStatus] /\ generation \in [Items -> Nat]
        /\ status' = [status EXCEPT ![i] = "uploaded"]
    BY DEF PipelineTypeOK, TypeOK, RetryItem, RetryWrite
  <1>3. "uploaded" \notin PipelineSucceeded
    BY DEF PipelineSucceeded
  <1>4. CASE j # i
    <2>1. /\ candidates'[j] = candidates[j] /\ count'[j] = count[j]
          /\ generation'[j] = generation[j] /\ status'[j] = status[j]
      BY <1>1, <1>2, <1>4 DEF RetryItem, RetryWrite
    <2> QED
      BY <2>1 DEF Recorded, CurrentCandidates
  <1>5. CASE j = i /\ req[o].mode = "resume"
    <2>1. /\ candidates' = candidates /\ generation' = generation
          /\ status'[i] = "uploaded" /\ status[i] \notin PipelineSucceeded
      BY <1>1, <1>2, <1>5 DEF RetryItem, RetryWrite, Allowed, Retryable, PipelineSucceeded
    <2> QED
      BY <1>2, <1>5, <2>1, UnrecordedMove DEF Unrecorded
  <1>6. CASE j = i /\ req[o].mode = "reprocess"
    <2> DEFINE h == generation[i] + 1
    <2>1. /\ generation'[i] = h /\ status'[i] = "uploaded"
          /\ candidates'[i] = Superseded(i, h)
      BY <1>1, <1>2, <1>6 DEF RetryItem, RetryWrite
    <2>2. \A c \in candidates[i] : c.generation \in Nat /\ c.generation <= generation[i]
      BY <1>1, <1>2 DEF Recorded, Candidate
    <2>3. ASSUME NEW c \in Superseded(i, h)
          PROVE  /\ c.generation < h /\ c.state # "pending_publish"
                 /\ \E b \in candidates[i] :
                      /\ c.generation = b.generation /\ c.index = b.index
                      /\ c = IF b.state = "pending_publish"
                             THEN [b EXCEPT !.state = "superseded"] ELSE b
      <3>1. PICK b \in candidates[i] :
               c = IF b.generation < h /\ b.state = "pending_publish"
                   THEN [b EXCEPT !.state = "superseded"] ELSE b
        BY <2>3 DEF Superseded
      <3>2. b \in Candidate /\ b.generation \in Nat /\ b.generation < h
        BY <1>1, <1>2, <2>2
      <3> QED
        BY <1>1, <3>1, <3>2 DEF Candidate
    <2>4. \A c, d \in candidates'[i] : c.generation = d.generation /\ c.index = d.index => c = d
      <3>1. \A b, d \in candidates[i] : b.generation = d.generation /\ b.index = d.index => b = d
        BY <1>1 DEF Recorded
      <3> QED
        BY <2>1, <2>3, <3>1
    <2>5. CurrentCandidates(j)' = {}
      BY <1>1, <1>6, <2>1, <2>3 DEF CurrentCandidates
    <2>6. \A c \in candidates'[i] : c.generation <= h /\ c.state # "pending_publish"
      BY <1>1, <2>1, <2>2, <2>3
    <2> QED
      BY <1>3, <1>6, <2>1, <2>4, <2>5, <2>6 DEF Recorded
  <1> QED
    BY <1>1, <1>4, <1>5, <1>6 DEF Modes

\* A reviewer's decision leaves the numbering as it is.
LEMMA DecideRecorded ==
    ASSUME PipelineTypeOK, NEW i \in Items, NEW c \in candidates[i], NEW verdict \in Decided,
           Decide(i, c, verdict), NEW j \in Items, \A k \in Items : Recorded(k)
    PROVE  Recorded(j)'
  <1> DEFINE d == [c EXCEPT !.state = verdict]
  <1>1. /\ candidates \in [Items -> SUBSET Candidate] /\ c \in Candidate
        /\ UNCHANGED <<status, generation, count>>
        /\ candidates' = [candidates EXCEPT ![i] = (@ \ {c}) \cup {d}]
    BY DEF PipelineTypeOK, Decide, queueVars, rowVars
  <1>2. d.generation = c.generation /\ d.index = c.index /\ d.state # "pending_publish"
    BY <1>1 DEF Candidate, Decided
  <1> HIDE DEF d
  <1>3. CASE j # i
    <2>1. candidates'[j] = candidates[j]
      BY <1>1, <1>3
    <2> QED
      BY <1>1, <2>1 DEF Recorded, CurrentCandidates
  <1>4. CASE j = i
    <2>1. candidates'[i] = (candidates[i] \ {c}) \cup {d}
      BY <1>1
    <2>2. \A b, e \in candidates'[i] : b.generation = e.generation /\ b.index = e.index => b = e
      BY <1>2, <2>1 DEF Recorded
    <2>3. {b.index : b \in CurrentCandidates(i)'} = {b.index : b \in CurrentCandidates(i)}
      BY <1>1, <1>2, <2>1 DEF CurrentCandidates
    <2>4. \A b \in candidates'[i] :
             /\ b.generation <= generation[i]
             /\ b.state = "pending_publish" => b.generation = generation[i]
      BY <1>2, <2>1 DEF Recorded
    <2> QED
      BY <1>1, <1>4, <2>2, <2>3, <2>4 DEF Recorded
  <1> QED
    BY <1>3, <1>4

LEMMA RecordStep ==
    ASSUME \A o, p \in Operators : o = p, PipelineTypeOK, QueueInv, RecordInv, [PipelineNext]_vars
    PROVE  RecordInv'
  <1>1. ASSUME NEW j \in Items
        PROVE  Recorded(j)'
    <2>1. Recorded(j) /\ \A i \in Items : Recorded(i)
      BY DEF RecordInv
    <2>2. ASSUME generation' = generation /\ Unrecorded(j), UNCHANGED <<candidates, count>>
          PROVE  Recorded(j)'
      BY <2>1, <2>2, UnrecordedMove
    <2>3. CASE \E i \in Items : Clock(i)
      BY <2>2, <2>3, QuietMove DEF Clock, artifactVars
    <2>4. CASE \E w \in Workers, i \in Items : ClaimItem(w, i)
      BY <2>2, <2>4, QuietMove DEF ClaimItem, artifactVars
    <2>5. ASSUME NEW w \in Workers, RunnerStep(w) \/ Raise(w)
          PROVE  Recorded(j)'
      <3>1. CASE FinishItem(w) /\ ~Stop(w)
        BY <2>1, <3>1, FinishRecorded
      <3>2. CASE Stop(w)
        BY <2>2, <3>2, QuietMove DEF Stop, artifactVars
      <3>3. CASE FailItem(w) /\ ~Stop(w)
        <4>1. /\ Fail(w, ctx[w].retryable) /\ ctx[w].retryable \in BOOLEAN
              /\ UNCHANGED <<candidates, count>>
          BY <3>3 DEF FailItem, PipelineTypeOK
        <4> QED
          BY <2>2, <4>1, QuietMove
      <3>4. CASE EnterOcr(w) /\ ~Stop(w)
        <4>1. UNCHANGED <<candidates, count>>
          BY <3>4 DEF EnterOcr, EnterRead, EnterSwap, artifactVars
        <4>2. Advance(w, "preprocessing", "ocr_processing") \/ UNCHANGED queueVars
          BY <3>4 DEF EnterOcr, EnterRead, EnterSwap, Local
        <4> QED
          BY <2>2, <4>1, <4>2, QuietMove DEF queueVars, rowVars, Unrecorded
      <3>5. CASE EnterLlm(w) /\ ~Stop(w)
        <4>1. UNCHANGED <<candidates, count>>
          BY <3>5 DEF EnterLlm, EnterRead, EnterSwap, artifactVars
        <4>2. Advance(w, "ocr_processing", "llm_processing") \/ UNCHANGED queueVars
          BY <3>5 DEF EnterLlm, EnterRead, EnterSwap, Local
        <4> QED
          BY <2>2, <4>1, <4>2, QuietMove DEF queueVars, rowVars, Unrecorded
      <3>6. CASE /\ ~Stop(w)
                 /\ \/ Begin(w) \/ Preprocess(w) \/ Ocr(w) \/ Extract(w) \/ Started(w)
                    \/ CallFailed(w) \/ Raise(w)
                    \/ \E drafts \in 0 .. MaxDrafts : Validated(w, drafts)
        <4>1. UNCHANGED queueVars /\ UNCHANGED <<candidates, count>>
          <5>1. CASE Begin(w) \/ Preprocess(w) \/ Ocr(w)
            BY <3>6, <5>1 DEF Begin, Preprocess, Ocr, Local, artifactVars
          <5>2. CASE Extract(w) \/ Started(w)
            BY <3>6, <5>2, Zenon DEF Extract, Started, Local, artifactVars
          <5>3. CASE CallFailed(w) \/ Raise(w) \/ \E drafts \in 0 .. MaxDrafts : Validated(w, drafts)
            BY <3>6, <5>3, Zenon DEF CallFailed, Raise, Validated, Local, artifactVars
          <5> QED
            BY <3>6, <5>1, <5>2, <5>3
        <4> QED
          BY <2>2, <4>1 DEF queueVars, rowVars, Unrecorded
      <3> QED
        BY <2>5, <3>1, <3>2, <3>3, <3>4, <3>5, <3>6 DEF RunnerStep
    <2>6. CASE \E S \in SUBSET Items : ReapItems(S)
      BY <2>2, <2>6, QuietMove DEF ReapItems
    <2>7. CASE \E p \in Instances : StartProcess(p) \/ CrashProcess(p)
      BY <2>2, <2>7, QuietMove DEF StartProcess, CrashProcess, artifactVars
    <2>8. ASSUME NEW o \in Operators, RetryItem(o)
          PROVE  Recorded(j)'
      BY <2>1, <2>8, RetryRecorded DEF RecordInv
    <2>9. ASSUME NEW i \in Items, NEW c \in candidates[i], NEW verdict \in Decided,
                 Decide(i, c, verdict)
          PROVE  Recorded(j)'
      BY <2>1, <2>9, DecideRecorded
    <2>10. CASE UNCHANGED <<rowVars, artifactVars>>
      BY <2>2, <2>10 DEF rowVars, artifactVars, Unrecorded
    <2> QED
      BY <2>3, <2>4, <2>5, <2>6, <2>7, <2>8, <2>9, <2>10
      DEF PipelineNext, RequestRetry, RetryRead, RetryLost, RetryMiss, vars, queueVars
  <1>2. ReadsAreCurrent'
    <2> SUFFICES ASSUME NEW o \in Operators, req'[o].item # NoItem
                 PROVE  req'[o].generation = generation'[req'[o].item]
      BY DEF ReadsAreCurrent
    <2>1. [Next]_queueVars
      BY PipelineQueueStep
    <2>2. req \in [Operators -> Requests] /\ NoRequest.item = NoItem
      BY DEF QueueInv, TypeOK, NoRequest
    <2>3. CASE req'[o] = req[o] /\ generation' = generation
      BY <2>3 DEF RecordInv, ReadsAreCurrent
    <2>4. ASSUME NEW p \in Operators, OperatorStep(p)
          PROVE  req'[o].generation = generation'[req'[o].item]
      <3>1. p = o
        OBVIOUS
      <3>2. PICK i \in Items, mode \in Modes : RetryRead(o, i, mode)
        BY <2>2, <2>4, <3>1 DEF OperatorStep, RetryWrite, RetryMiss
      <3> QED
        BY <2>2, <3>2 DEF RetryRead, rowVars
    <2>5. ASSUME NEW p \in Instances, Crash(p)
          PROVE  req'[o].generation = generation'[req'[o].item]
      BY <2>2, <2>3, <2>5 DEF Crash, rowVars
    <2> QED
      BY <2>1, <2>3, <2>4, <2>5
      DEF Next, LeaseLapses, BackoffElapses, Claim, WorkerStep, Advance, Finish, Fail, Release,
          Drop, Reap, PutBack, Start, Recover, rowVars, queueVars
  <1> QED
    BY <1>1, <1>2 DEF RecordInv

LEMMA CountAgrees ==
    ASSUME NEW S, NEW n \in Nat, {c.index : c \in S} = 1 .. n,
           \A c, d \in S : c.index = d.index => c = d
    PROVE  Cardinality(S) = n
  <1> DEFINE f == [m \in 1 .. n |-> CHOOSE c \in S : c.index = m]
  <1>1. \A m \in 1 .. n : \E c \in S : c.index = m
    OBVIOUS
  <1>2. \A m \in 1 .. n : f[m] \in S /\ f[m].index = m
    BY <1>1
  <1>3. \A c \in S : c.index \in 1 .. n /\ f[c.index] = c
    BY <1>2
  <1>4. f \in [1 .. n -> S]
    BY <1>2
  <1> HIDE DEF f
  <1>5. f \in Bijection(1 .. n, S)
    BY <1>2, <1>3, <1>4 DEF Bijection, Injection, Surjection, IsInjective
  <1> QED
    BY <1>5, FS_CountingElements DEF ExistsBijection

LEMMA RecordAgrees == PipelineTypeOK /\ RecordInv => CandidatesCommitWithItem /\ PendingIsCurrent
  <1> SUFFICES ASSUME PipelineTypeOK, RecordInv, NEW i \in Items
               PROVE  /\ CurrentCandidates(i) # {} <=> status[i] = "awaiting_review"
                      /\ status[i] \in PipelineSucceeded => count[i] = Cardinality(CurrentCandidates(i))
                      /\ \A c \in candidates[i] :
                            c.state = "pending_publish" => c.generation = generation[i]
    BY DEF CandidatesCommitWithItem, PendingIsCurrent
  <1>1. Recorded(i) /\ count[i] \in Nat
    BY DEF RecordInv, PipelineTypeOK
  <1> DEFINE S == CurrentCandidates(i)
  <1>2. S # {} <=> status[i] \in PipelineSucceeded /\ count[i] > 0
    <2>1. S # {} <=> {c.index : c \in S} # {}
      OBVIOUS
    <2>2. 1 .. count[i] # {} <=> count[i] > 0
      BY <1>1
    <2> QED
      BY <1>1, <2>1, <2>2 DEF Recorded
  <1>3. S # {} <=> status[i] = "awaiting_review"
    BY <1>1, <1>2 DEF Recorded, PipelineSucceeded
  <1>4. ASSUME status[i] \in PipelineSucceeded
        PROVE  count[i] = Cardinality(S)
    <2>1. \A c, d \in S : c.index = d.index => c = d
      BY <1>1 DEF Recorded, CurrentCandidates
    <2>2. {c.index : c \in S} = 1 .. count[i]
      BY <1>1, <1>4 DEF Recorded
    <2> QED
      BY <1>1, <2>1, <2>2, CountAgrees
  <1> QED
    BY <1>1, <1>3, <1>4 DEF Recorded

LEMMA RecordInvariant ==
    ASSUME \A o, p \in Operators : o = p
    PROVE  PipelineSpec => []RecordInv
  <1>1. PipelineInit => RecordInv
    BY DEF PipelineInit, Init, RecordInv, Recorded, CurrentCandidates, PipelineSucceeded,
           ReadsAreCurrent, NoRequest
  <1>2. PipelineTypeOK /\ QueueInv /\ RecordInv /\ [PipelineNext]_vars => RecordInv'
    BY RecordStep
  <1> QED
    BY <1>1, <1>2, PipelineTypes, PipelineQueueInvariant, PTL DEF PipelineSpec

\* Where retry requests are made one at a time, an item awaits review exactly
\* when its current generation has candidates, and candidate_count counts them.
THEOREM CandidatesAreCommitted ==
    ASSUME \A o, p \in Operators : o = p
    PROVE  PipelineSpec => []CandidatesCommitWithItem
  BY RecordInvariant, RecordAgrees, PipelineTypes, PTL

\* Where retry requests are made one at a time, what is open for review is of
\* the current generation: a reprocess retires the rest, and no late worker
\* adds to a generation that is over.
THEOREM OpenIsCurrent ==
    ASSUME \A o, p \in Operators : o = p
    PROVE  PipelineSpec => []PendingIsCurrent
  BY RecordInvariant, RecordAgrees, PipelineTypes, PTL

-----------------------------------------------------------------------------
(* Work that was paid for. *)

\* No item is being run twice: no zombie has company yet.
NoSharedItem ==
    \A v, w \in Workers : Running(v) /\ Running(w) /\ task[v] = task[w] => v = w

BeforeOcr == {"preprocess", "to_ocr", "cas_ocr", "ocr"}
BeforeAnswer == {"to_llm", "cas_llm", "extract", "started", "calling"}

\* An artifact is there only when those it was made from are.
Traced(i) ==
    /\ ocr[i] # {} => derivative[i]
    /\ page[i] = "text" =>
           \A r \in DOMAIN runs[i] : runs[i][r].status = "validated" =>
               <<runs[i][r].generation, "completed">> \in ocr[i]

\* What the plan was made from still stands: OCR is ahead exactly when it has not
\* completed, and a plan without a validated run means there is none.
PlanHolds(w) ==
    LET i == task[w]
        g == ctx[w].generation
        read == <<g, "completed">> \in ocr[i]
    IN /\ pc[w] \in BeforeOcr => (ctx[w].ocr <=> read)
       /\ pc[w] \in BeforeOcr \ {"preprocess"} => derivative[i]
       /\ pc[w] = "ocr" => ~ctx[w].ocr
       /\ page[i] = "text" =>
              /\ pc[w] \in BeforeAnswer => read
              /\ pc[w] \in BeforeOcr \cup BeforeAnswer /\ ctx[w].run = 0 =>
                     ValidatedRuns(i, g) = {}
       /\ pc[w] \in {"started", "calling"} => ctx[w].run = 0
       /\ pc[w] = "calling" => runs[i][ctx[w].row].generation = g

PaidOnce == (\A i \in Items : Traced(i)) /\ (\A w \in Workers : Running(w) => PlanHolds(w))

\* What no step of w repeats.
NotRepeated(w) ==
    /\ pc[w] = "ocr" /\ pc'[w] = "to_llm" =>
           <<ctx[w].generation, "completed">> \notin ocr[task[w]]
    /\ pc[w] = "started" /\ pc'[w] = "calling" /\ page[task[w]] = "text" =>
           ValidatedRuns(task[w], ctx[w].generation) = {}

Holds(w) == (\A i \in Items : Traced(i)') /\ PlanHolds(w)' /\ NotRepeated(w)

\* Steps that write none of these artifacts and end the run, or leave it before a
\* step that needs nothing of the plan.
LEMMA QuietHolds ==
    ASSUME PaidOnce, NEW w \in Workers, UNCHANGED <<page, derivative, ocr, runs>>,
           pc'[w] \in {"idle", "begin", "finish", "fail"}
    PROVE  Holds(w)
  BY DEF PaidOnce, Traced, PlanHolds, NotRepeated, BeforeOcr, BeforeAnswer, Holds

\* Steps on to another stage, with the plan as it was.
LEMMA PlanStands ==
    ASSUME PaidOnce, NEW w \in Workers, Running(w),
           UNCHANGED <<page, derivative, ocr, runs, task, ctx>>,
           pc[w] \in {"to_ocr", "cas_ocr", "to_llm", "cas_llm"},
           pc'[w] \in (BeforeOcr \cup BeforeAnswer) \ {"started", "calling"},
           pc[w] \in BeforeAnswer => pc'[w] \in BeforeAnswer,
           pc[w] \in BeforeOcr /\ pc'[w] \in BeforeAnswer => ctx[w].ocr,
           pc'[w] = "ocr" => ~ctx[w].ocr
    PROVE  Holds(w)
  <1>1. (\A i \in Items : Traced(i)')
    BY DEF PaidOnce, Traced
  <1>2. NotRepeated(w)
    BY DEF NotRepeated
  <1>3. PlanHolds(w)'
    BY DEF PaidOnce, PlanHolds, ValidatedRuns, RunsOf, BeforeOcr, BeforeAnswer
  <1> QED
    BY <1>1, <1>2, <1>3 DEF Holds

LEMMA PlanSays ==
    ASSUME NEW i \in Items
    PROVE  LET g == generation[i] IN
           /\ Plan(i).generation = g
           /\ Plan(i).ocr = (derivative[i] /\ <<g, "completed">> \in ocr[i])
           /\ Plan(i).run = 0 /\ derivative[i] /\ <<g, "completed">> \in ocr[i] =>
                  ValidatedRuns(i, g) = {} \/ 0 \in ValidatedRuns(i, g)
  BY DEF Plan, NoContext

\* abandon_running_llm_runs takes no generation and no validated run from a row.
LEMMA AbandonKeeps ==
    ASSUME PipelineTypeOK, NEW S, AbandonIn(S), NEW i \in Items
    PROVE  /\ DOMAIN runs'[i] = DOMAIN runs[i]
           /\ \A r \in DOMAIN runs[i] :
                 /\ runs'[i][r].generation = runs[i][r].generation
                 /\ runs'[i][r].status = "validated" <=> runs[i][r].status = "validated"
  <1>1. \A r \in DOMAIN runs[i] : runs[i][r] \in RunRow
    BY DEF PipelineTypeOK
  <1>2. runs'[i] = IF i \in S THEN Abandoned(i) ELSE runs[i]
    BY DEF AbandonIn
  <1> QED
    BY <1>1, <1>2 DEF Abandoned, RunRow

LEMMA AbandonTraced ==
    ASSUME PipelineTypeOK, PaidOnce, NEW S, AbandonIn(S), UNCHANGED <<page, derivative, ocr>>
    PROVE  \A i \in Items : Traced(i)'
  BY AbandonKeeps DEF PaidOnce, Traced

\* Steps of a run up to OCR.
LEMMA ReadingHolds ==
    ASSUME PipelineInv, PaidOnce, NEW w \in Workers, Running(w),
           \/ Begin(w) \/ Preprocess(w) \/ EnterOcr(w) \/ Ocr(w) \/ EnterLlm(w)
    PROVE  Holds(w)
  <1> DEFINE i == task[w]
             g == ctx[w].generation
  <1>1. /\ i \in Items /\ ctx[w] \in Context /\ PlanHolds(w) /\ \A j \in Items : Traced(j)
        /\ pc \in [Workers -> Steps] /\ ctx \in [Workers -> Context]
    <2>1. ctx \in [Workers -> Context]
      BY Zenon DEF PipelineInv, PipelineTypeOK, Context
    <2> QED
      BY <2>1 DEF PipelineInv, PipelineTypeOK, TypeOK, Running, PaidOnce
  <1>2. CASE Stop(w)
    <2>1. pc'[w] = "idle" /\ UNCHANGED <<page, derivative, ocr, runs>>
      BY <1>1, <1>2 DEF Stop, Goto, artifactVars
    <2> QED
      BY <2>1, QuietHolds
  <1>3. CASE Begin(w) /\ Owns(w)
    <2>1. /\ ctx'[w] = Plan(i) /\ UNCHANGED <<page, derivative, ocr, runs, task>>
          /\ pc[w] = "begin"
          /\ pc'[w] = IF derivative[i] THEN "to_ocr" ELSE "preprocess"
      BY <1>1, <1>3 DEF Begin, Goto, queueVars, artifactVars
    <2>0. PICK h : h = generation[i]
      OBVIOUS
    <2>2. /\ ctx'[w].generation = h
          /\ ctx'[w].ocr <=> derivative[i] /\ <<h, "completed">> \in ocr[i]
          /\ ctx'[w].run = 0 /\ derivative[i] /\ <<h, "completed">> \in ocr[i] =>
                 ValidatedRuns(i, h) = {}
      <3>1. 0 \notin ValidatedRuns(i, h)
        BY <1>1 DEF PipelineInv, PipelineTypeOK, ValidatedRuns, RunsOf
      <3> QED
        BY <1>1, <2>0, <2>1, <3>1, PlanSays
    <2>3. <<h, "completed">> \in ocr[i] => derivative[i]
      BY <1>1 DEF Traced
    <2>4. page[i] = "text" /\ <<h, "completed">> \notin ocr[i] => ValidatedRuns(i, h) = {}
      BY <1>1 DEF Traced, ValidatedRuns, RunsOf
    <2>5. UNCHANGED ValidatedRuns(i, h)
      BY <2>1 DEF ValidatedRuns, RunsOf
    <2>6. PlanHolds(w)'
      BY <2>1, <2>2, <2>3, <2>4, <2>5 DEF PlanHolds, BeforeOcr, BeforeAnswer
    <2> QED
      BY <1>1, <2>1, <2>6 DEF Holds, NotRepeated, Traced
  <1>4. CASE Preprocess(w)
    <2>1. /\ pc[w] = "preprocess" /\ pc'[w] = "to_ocr"
          /\ UNCHANGED <<ctx, page, ocr, runs, task>>
          /\ derivative' = [derivative EXCEPT ![i] = TRUE]
      BY <1>1, <1>4 DEF Preprocess, Local, Goto, queueVars
    <2>2. derivative'[i] = TRUE /\ \A j \in Items : derivative[j] => derivative'[j]
      BY <1>1, <2>1 DEF PipelineInv, PipelineTypeOK
    <2>3. UNCHANGED ValidatedRuns(i, g)
      BY <2>1 DEF ValidatedRuns, RunsOf
    <2> QED
      BY <1>1, <2>1, <2>2, <2>3
      DEF Holds, NotRepeated, Traced, PlanHolds, BeforeOcr, BeforeAnswer
  <1>5. CASE EnterOcr(w) /\ ~Stop(w)
    <2>1. /\ pc[w] \in {"to_ocr", "cas_ocr"}
          /\ pc'[w] \in {"cas_ocr", AfterOcrEntry(w)}
          /\ UNCHANGED <<page, derivative, ocr, runs, task, ctx>>
      BY <1>1, <1>5
      DEF EnterOcr, EnterRead, EnterSwap, Local, Advance, Goto, queueVars, artifactVars
    <2> QED
      BY <2>1, PlanStands DEF AfterOcrEntry, BeforeOcr, BeforeAnswer
  <1>6. CASE EnterLlm(w) /\ ~Stop(w)
    <2>1. /\ pc[w] \in {"to_llm", "cas_llm"}
          /\ pc'[w] \in {"cas_llm", "extract"}
          /\ UNCHANGED <<page, derivative, ocr, runs, task, ctx>>
      BY <1>1, <1>6
      DEF EnterLlm, EnterRead, EnterSwap, Local, Advance, Goto, queueVars, artifactVars
    <2> QED
      BY <2>1, PlanStands DEF BeforeOcr, BeforeAnswer
  <1>7. CASE Ocr(w)
    <2>1. /\ pc[w] = "ocr" /\ pc'[w] = "to_llm"
          /\ UNCHANGED <<ctx, page, derivative, runs, task>>
          /\ ocr'[i] = ocr[i] \cup {<<g, IF page[i] = "blank" THEN "empty" ELSE "completed">>}
          /\ \A j \in Items : j # i => ocr'[j] = ocr[j]
      BY <1>1, <1>7 DEF Ocr, Local, Goto, queueVars, PipelineInv, PipelineTypeOK
    <2>2. derivative[i] /\ <<g, "completed">> \notin ocr[i]
      BY <1>1, <2>1 DEF PlanHolds, BeforeOcr
    <2>3. page[i] = "text" => <<g, "completed">> \in ocr'[i]
      BY <2>1
    <2>4. \A j \in Items : Traced(j)'
      BY <1>1, <2>1, <2>2 DEF Traced
    <2>5. UNCHANGED ValidatedRuns(i, g)
      BY <2>1 DEF ValidatedRuns, RunsOf
    <2>6. PlanHolds(w)'
      BY <1>1, <2>1, <2>3, <2>5 DEF PlanHolds, BeforeOcr, BeforeAnswer
    <2> QED
      BY <2>1, <2>2, <2>4, <2>6 DEF Holds, NotRepeated
  <1> QED
    BY <1>2, <1>3, <1>4, <1>5, <1>6, <1>7 DEF Begin

\* The call's row is overwritten: no other is, and no generation is.
Overwritten(i, r, t) ==
    /\ DOMAIN runs'[i] = DOMAIN runs[i]
    /\ runs'[i][r].generation = runs[i][r].generation /\ runs'[i][r].status = t
    /\ \A q \in DOMAIN runs[i] : q # r => runs'[i][q] = runs[i][q]
    /\ \A j \in Items : j # i => runs'[j] = runs[j]

LEMMA OneRow ==
    ASSUME runs \in [Items -> Seq(RunRow)], NEW i \in Items, NEW r \in DOMAIN runs[i], NEW row,
           runs' = [runs EXCEPT ![i] = [runs[i] EXCEPT ![r] = row]],
           NEW t, row.status = t, row.generation = runs[i][r].generation
    PROVE  Overwritten(i, r, t)
  BY DEF Overwritten

LEMMA ARow ==
    ASSUME runs \in [Items -> Seq(RunRow)], NEW i \in Items, NEW r \in DOMAIN runs[i]
    PROVE  runs[i][r] \in RunRow
  <1>1. runs[i] \in [1 .. Len(runs[i]) -> RunRow]
    OBVIOUS
  <1> QED
    BY <1>1

LEMMA FailedRow ==
    ASSUME runs \in [Items -> Seq(RunRow)], NEW i \in Items, NEW r \in DOMAIN runs[i],
           runs' = [runs EXCEPT ![i][r].status = "failed"]
    PROVE  Overwritten(i, r, "failed")
  <1>1. PICK row : row = [runs[i][r] EXCEPT !.status = "failed"]
    OBVIOUS
  <1>2. runs' = [runs EXCEPT ![i] = [runs[i] EXCEPT ![r] = row]]
    BY <1>1, Zenon
  <1>3. row.status = "failed" /\ row.generation = runs[i][r].generation
    BY <1>1, ARow DEF RunRow
  <1> QED
    BY <1>2, <1>3, OneRow

LEMMA ValidatedRow ==
    ASSUME runs \in [Items -> Seq(RunRow)], NEW i \in Items, NEW r \in DOMAIN runs[i], NEW d,
           runs' = [runs EXCEPT ![i][r].status = "validated", ![i][r].drafts = d]
    PROVE  Overwritten(i, r, "validated")
  <1>1. PICK row : row = [runs[i][r] EXCEPT !.status = "validated", !.drafts = d]
    OBVIOUS
  <1>2. runs' = [runs EXCEPT ![i] = [runs[i] EXCEPT ![r] = row]]
    BY <1>1, Zenon
  <1>3. row.status = "validated" /\ row.generation = runs[i][r].generation
    BY <1>1, ARow DEF RunRow
  <1> QED
    BY <1>2, <1>3, OneRow

\* Started leaves the plan as it is: it takes a validated row over, or adds one.
LEMMA StartedRow ==
    ASSUME ctx \in [Workers -> Context], NEW w \in Workers, Started(w)
    PROVE  LET i == task[w] g == ctx[w].generation IN
           /\ ctx'[w].generation = g /\ ctx'[w].run = ctx[w].run
           /\ \/ UNCHANGED runs /\ ctx'[w].row \in ValidatedRuns(i, g)
              \/ \E row : /\ row.generation = g /\ row.status = "running"
                          /\ runs' = [runs EXCEPT ![i] = Append(@, row)]
                          /\ ctx'[w].row = Len(runs[i]) + 1
  <1> DEFINE i == task[w]
             g == ctx[w].generation
             row(n) == [generation |-> g, status |-> "running", drafts |-> 0, attempt |-> n]
  <1>1. \/ /\ UNCHANGED runs
           /\ \E r \in ValidatedRuns(i, g) : ctx' = [ctx EXCEPT ![w].row = r, ![w].number = 0]
        \/ /\ \E n : runs' = [runs EXCEPT ![i] = Append(@, row(n))]
           /\ ctx' = [ctx EXCEPT ![w].row = Len(runs[i]) + 1, ![w].number = 0]
    BY Zenon DEF Started
  <1>2. ASSUME NEW r, ctx' = [ctx EXCEPT ![w].row = r, ![w].number = 0]
        PROVE  ctx'[w].generation = g /\ ctx'[w].run = ctx[w].run /\ ctx'[w].row = r
    BY <1>2 DEF Context
  <1>3. \A n : row(n).generation = g /\ row(n).status = "running"
    OBVIOUS
  <1> HIDE DEF row
  <1>4. CASE /\ UNCHANGED runs
             /\ \E r \in ValidatedRuns(i, g) : ctx' = [ctx EXCEPT ![w].row = r, ![w].number = 0]
    BY <1>2, <1>4
  <1>5. CASE /\ \E n : runs' = [runs EXCEPT ![i] = Append(@, row(n))]
             /\ ctx' = [ctx EXCEPT ![w].row = Len(runs[i]) + 1, ![w].number = 0]
    <2>1. PICK n : runs' = [runs EXCEPT ![i] = Append(@, row(n))]
      BY <1>5
    <2>2. ctx'[w].generation = g /\ ctx'[w].run = ctx[w].run /\ ctx'[w].row = Len(runs[i]) + 1
      BY <1>2, <1>5
    <2>3. row(n).generation = g /\ row(n).status = "running"
      BY <1>3
    <2> QED
      BY <2>1, <2>2, <2>3, Zenon
  <1> QED
    BY <1>1, <1>4, <1>5, Zenon

\* Steps of a run from the extraction on.
LEMMA AnsweringHolds ==
    ASSUME PipelineInv, PaidOnce, NEW w \in Workers, Running(w),
           \/ Extract(w) \/ Started(w) \/ CallFailed(w) \/ FinishItem(w) \/ FailItem(w) \/ Raise(w)
           \/ \E drafts \in 0 .. MaxDrafts : Validated(w, drafts)
    PROVE  Holds(w)
  <1> DEFINE i == task[w]
             g == ctx[w].generation
  <1>1. /\ i \in Items /\ ctx[w] \in Context /\ PlanHolds(w) /\ \A j \in Items : Traced(j)
        /\ pc \in [Workers -> Steps] /\ ctx \in [Workers -> Context]
        /\ runs \in [Items -> Seq(RunRow)]
    <2>1. ctx \in [Workers -> Context]
      BY Zenon DEF PipelineInv, PipelineTypeOK, Context
    <2> QED
      BY <2>1 DEF PipelineInv, PipelineTypeOK, TypeOK, Running, PaidOnce
  <1>2. CASE FinishItem(w) \/ Raise(w) \/ (Extract(w) /\ ctx[w].run # 0)
    <2>1. pc'[w] \in {"idle", "fail", "finish"} /\ UNCHANGED <<page, derivative, ocr, runs>>
      BY <1>1, <1>2
      DEF FinishItem, EndRun, Stop, Goto, artifactVars, Raise, Raised, Extract, Drafted
    <2> QED
      BY <2>1, QuietHolds
  <1>3. CASE FailItem(w)
    <2>1. pc'[w] = "idle" /\ pc[w] = "fail"
      BY <1>1, <1>3 DEF FailItem, EndRun, Stop, Goto
    <2>2. \A j \in Items : Traced(j)'
      <3>1. CASE AbandonIn({task[w]}) /\ UNCHANGED <<page, derivative, ocr>>
        BY <3>1, AbandonTraced DEF PipelineInv
      <3>2. CASE UNCHANGED artifactVars
        BY <1>1, <3>2 DEF Traced, artifactVars
      <3> QED
        BY <1>3, <3>1, <3>2 DEF FailItem, Stop
    <2> QED
      BY <2>1, <2>2 DEF Holds, NotRepeated, PlanHolds, BeforeOcr, BeforeAnswer
  <1>4. CASE Extract(w) /\ ctx[w].run = 0
    <2>1. /\ pc[w] = "extract" /\ pc'[w] = "started"
          /\ UNCHANGED <<page, derivative, ocr, runs, task>>
          /\ ctx'[w].generation = g /\ ctx'[w].run = 0
      BY <1>1, <1>4 DEF Extract, Local, Goto, artifactVars, queueVars, Context
    <2>2. PICK h : h = g
      OBVIOUS
    <2>3. UNCHANGED ValidatedRuns(i, h)
      BY <2>1 DEF ValidatedRuns, RunsOf
    <2>4. PlanHolds(w)'
      BY <1>1, <2>1, <2>2, <2>3, <1>4 DEF PlanHolds, BeforeOcr, BeforeAnswer
    <2> QED
      BY <1>1, <2>1, <2>4 DEF Holds, NotRepeated, Traced
  <1>5. CASE Started(w)
    <2>1. /\ pc[w] = "started" /\ pc'[w] = "calling"
          /\ UNCHANGED <<page, derivative, ocr, task>>
      BY <1>1, <1>5 DEF Started, Local, Goto, queueVars
    <2>2. PICK h : h = g
      OBVIOUS
    <2>3. /\ ctx[w].run = 0
          /\ page[i] = "text" => <<h, "completed">> \in ocr[i] /\ ValidatedRuns(i, h) = {}
      BY <1>1, <2>1, <2>2 DEF PlanHolds, BeforeAnswer, BeforeOcr
    <2>4. /\ ctx'[w].generation = h /\ ctx'[w].run = 0
          /\ \/ UNCHANGED runs /\ ctx'[w].row \in ValidatedRuns(i, h)
             \/ \E row : /\ row.generation = h /\ row.status = "running"
                         /\ runs' = [runs EXCEPT ![i] = Append(@, row)]
                         /\ ctx'[w].row = Len(runs[i]) + 1
      BY <1>1, <1>5, <2>2, <2>3, StartedRow
    <2>5. CASE UNCHANGED runs /\ ctx'[w].row \in ValidatedRuns(i, h)
      <3>1. UNCHANGED ValidatedRuns(i, h) /\ runs[i][ctx'[w].row].generation = h
        BY <2>1, <2>5 DEF ValidatedRuns, RunsOf
      <3>2. PlanHolds(w)'
        BY <2>1, <2>3, <2>4, <2>5, <3>1 DEF PlanHolds, BeforeOcr, BeforeAnswer
      <3> QED
        BY <1>1, <2>1, <2>2, <2>3, <2>5, <3>2 DEF Holds, NotRepeated, Traced
    <2>6. ASSUME NEW row, row.generation = h, row.status = "running",
                 runs' = [runs EXCEPT ![i] = Append(@, row)], ctx'[w].row = Len(runs[i]) + 1
          PROVE  Holds(w)
      <3>1. /\ DOMAIN runs'[i] = DOMAIN runs[i] \cup {Len(runs[i]) + 1}
            /\ \A r \in DOMAIN runs[i] : runs'[i][r] = runs[i][r]
            /\ runs'[i][Len(runs[i]) + 1] = row
            /\ \A j \in Items : j # i => runs'[j] = runs[j]
        BY <1>1, <2>6
      <3>2. UNCHANGED ValidatedRuns(i, h)
        BY <2>1, <2>6, <3>1 DEF ValidatedRuns, RunsOf
      <3>3. PlanHolds(w)'
        BY <2>1, <2>3, <2>4, <2>6, <3>1, <3>2 DEF PlanHolds, BeforeOcr, BeforeAnswer
      <3>4. \A j \in Items : Traced(j)'
        BY <1>1, <2>1, <2>6, <3>1 DEF Traced
      <3> QED
        BY <2>1, <2>2, <2>3, <3>3, <3>4 DEF Holds, NotRepeated
    <2> QED
      BY <2>4, <2>5, <2>6
  <1>6. ASSUME pc[w] = "calling"
        PROVE  /\ ctx[w].row \in DOMAIN runs[i] /\ runs[i][ctx[w].row].generation = g
               /\ page[i] = "text" => <<g, "completed">> \in ocr[i] /\ ValidatedRuns(i, g) = {}
               /\ ctx[w].run = 0
    BY <1>1, <1>6 DEF PlanHolds, BeforeAnswer, BeforeOcr, PipelineInv, RunsAreKnown
  <1>7. CASE CallFailed(w)
    <2>1. /\ pc[w] = "calling" /\ UNCHANGED <<page, derivative, ocr, task>>
          /\ runs' = [runs EXCEPT ![i][ctx[w].row].status = "failed"]
          /\ pc'[w] = "fail" \/ (pc'[w] = "extract" /\ ctx'[w].generation = g)
      BY <1>1, <1>7 DEF CallFailed, Local, Raised, Goto, queueVars, Context
    <2>2. PICK h : h = g
      OBVIOUS
    <2>3. Overwritten(i, ctx[w].row, "failed")
      BY <1>1, <1>6, <2>1, FailedRow
    <2>4. \A j \in Items : Traced(j)'
      BY <1>1, <2>1, <2>3 DEF Traced, Overwritten
    <2>5. ValidatedRuns(i, h)' \subseteq ValidatedRuns(i, h)
      BY <2>1, <2>3 DEF ValidatedRuns, RunsOf, Overwritten
    <2>6. PlanHolds(w)'
      BY <1>6, <2>1, <2>2, <2>5 DEF PlanHolds, BeforeOcr, BeforeAnswer
    <2> QED
      BY <2>1, <2>4, <2>6 DEF Holds, NotRepeated
  <1>8. ASSUME NEW drafts \in 0 .. MaxDrafts, Validated(w, drafts)
        PROVE  Holds(w)
    <2>1. /\ pc[w] = "calling" /\ UNCHANGED <<page, derivative, ocr, task>>
          /\ pc'[w] \in {"finish", "fail"}
          /\ \/ UNCHANGED runs
             \/ runs' = [runs EXCEPT ![i][ctx[w].row].status = "validated",
                                     ![i][ctx[w].row].drafts = drafts]
      BY <1>1, <1>8 DEF Validated, Local, Raised, Drafted, Goto, queueVars
    <2>2. CASE UNCHANGED runs
      BY <2>1, <2>2, QuietHolds
    <2>3. CASE runs' = [runs EXCEPT ![i][ctx[w].row].status = "validated",
                                    ![i][ctx[w].row].drafts = drafts]
      <3>1. Overwritten(i, ctx[w].row, "validated")
        BY <1>1, <1>6, <2>1, <2>3, ValidatedRow
      <3>2. Traced(i)'
        <4>1. PICK r : r = ctx[w].row
          OBVIOUS
        <4>2. /\ r \in DOMAIN runs[i] /\ runs'[i][r].generation = g
              /\ page[i] = "text" => <<g, "completed">> \in ocr[i]
          BY <1>6, <2>1, <3>1, <4>1 DEF Overwritten
        <4>3. /\ DOMAIN runs'[i] = DOMAIN runs[i]
              /\ \A q \in DOMAIN runs[i] : q # r => runs'[i][q] = runs[i][q]
          BY <3>1, <4>1 DEF Overwritten
        <4> QED
          BY <1>1, <2>1, <4>2, <4>3 DEF Traced
      <3>3. \A j \in Items : j # i => Traced(j)'
        BY <1>1, <2>1, <3>1 DEF Traced, Overwritten
      <3> QED
        BY <2>1, <3>2, <3>3 DEF Holds, NotRepeated, PlanHolds, BeforeOcr, BeforeAnswer
    <2> QED
      BY <2>1, <2>2, <2>3
  <1> QED
    BY <1>2, <1>3, <1>4, <1>5, <1>7, <1>8 DEF Extract

\* The steps of a run write artifacts of its own item only.
LEMMA RunnerArtifacts ==
    ASSUME PipelineInv, NEW w \in Workers, RunnerStep(w) \/ Raise(w), NEW j \in Items, j # task[w]
    PROVE  UNCHANGED page /\ derivative'[j] = derivative[j] /\ ocr'[j] = ocr[j] /\ runs'[j] = runs[j]
  <1>1. /\ derivative \in [Items -> BOOLEAN] /\ runs \in [Items -> Seq(RunRow)]
        /\ ocr \in [Items -> SUBSET (Nat \X {"empty", "completed"})]
    BY Zenon DEF PipelineInv, PipelineTypeOK
  <1>2. UNCHANGED page
    BY RunnerKept DEF RunKept
  <1>3. derivative'[j] = derivative[j]
    <2>1. derivative' = derivative \/ derivative' = [derivative EXCEPT ![task[w]] = TRUE]
      BY Zenon
      DEF RunnerStep, Raise, Begin, Preprocess, EnterOcr, EnterLlm, EnterRead, EnterSwap, Ocr,
          Extract, Started, Validated, CallFailed, FinishItem, FailItem, Stop, artifactVars
    <2> QED
      BY <1>1, <2>1
  <1>4. ocr'[j] = ocr[j]
    <2>1. ocr' = ocr \/ \E new : ocr' = [ocr EXCEPT ![task[w]] = new]
      BY Zenon
      DEF RunnerStep, Raise, Begin, Preprocess, EnterOcr, EnterLlm, EnterRead, EnterSwap, Ocr,
          Extract, Started, Validated, CallFailed, FinishItem, FailItem, Stop, artifactVars
    <2> QED
      BY <1>1, <2>1
  <1>5. runs'[j] = runs[j]
    <2>1. \/ runs' = runs
          \/ \E new : runs' = [runs EXCEPT ![task[w]] = new]
          \/ AbandonIn({task[w]})
      BY Zenon
      DEF RunnerStep, Raise, Begin, Preprocess, EnterOcr, EnterLlm, EnterRead, EnterSwap, Ocr,
          Extract, Started, Validated, CallFailed, FinishItem, FailItem, Stop, artifactVars
    <2> QED
      BY <1>1, <2>1 DEF AbandonIn
  <1> QED
    BY <1>2, <1>3, <1>4, <1>5

\* Nobody else disturbs a plan, while nobody else runs the item.
LEMMA OthersLeavePlan ==
    ASSUME PipelineInv, PaidOnce, NEW w \in Workers, Running(w),
           pc'[w] = pc[w], ctx'[w] = ctx[w], task'[w] = task[w],
           UNCHANGED page, derivative'[task[w]] = derivative[task[w]],
           ocr'[task[w]] = ocr[task[w]],
           \/ runs'[task[w]] = runs[task[w]]
           \/ \E S : AbandonIn(S)
    PROVE  PlanHolds(w)'
  <1>1. PICK i \in Items : i = task[w]
    BY DEF PipelineInv, PipelineTypeOK, TypeOK, Running
  <1>2. PICK g : g = ctx[w].generation
    OBVIOUS
  <1>3. /\ DOMAIN runs'[i] = DOMAIN runs[i]
        /\ \A r \in DOMAIN runs[i] :
              /\ runs'[i][r].generation = runs[i][r].generation
              /\ runs'[i][r].status = "validated" <=> runs[i][r].status = "validated"
    BY <1>1, AbandonKeeps DEF PipelineInv
  <1>4. UNCHANGED ValidatedRuns(i, g)
    BY <1>3 DEF ValidatedRuns, RunsOf
  <1>5. pc[w] = "calling" => runs'[i][ctx[w].row].generation = runs[i][ctx[w].row].generation
    BY <1>1, <1>3 DEF PipelineInv, RunsAreKnown
  <1> QED
    BY <1>1, <1>2, <1>4, <1>5 DEF PaidOnce, PlanHolds

\* The artifacts are as they were, or some running rows are abandoned.
LEMMA ArtifactsStand ==
    ASSUME PipelineTypeOK, PaidOnce, UNCHANGED <<page, derivative, ocr>>,
           runs' = runs \/ \E S : AbandonIn(S)
    PROVE  \A i \in Items : Traced(i)'
  <1>1. CASE runs' = runs
    BY <1>1 DEF PaidOnce, Traced
  <1>2. CASE \E S : AbandonIn(S)
    BY <1>2, AbandonTraced
  <1> QED
    BY <1>1, <1>2

LEMMA PaidOnceNext ==
    ASSUME PipelineInv, PaidOnce, NoSharedItem, [PipelineNext]_vars
    PROVE  PaidOnce' /\ \A w \in Workers : NotRepeated(w)
  <1>0. PipelineTypeOK /\ pc \in [Workers -> Steps] /\ task \in [Workers -> Items \cup {NoItem}]
    BY DEF PipelineInv, PipelineTypeOK, TypeOK
  <1>1. ASSUME NEW v \in Workers, RunnerStep(v) \/ Raise(v)
        PROVE  PaidOnce' /\ \A w \in Workers : NotRepeated(w)
    <2>1. RunKept(v)
      BY <1>1, RunnerKept
    <2>2. pc[v] # "idle"
      BY <1>1, Zenon
      DEF RunnerStep, Raise, Begin, Preprocess, EnterOcr, EnterLlm, EnterRead, EnterSwap, Ocr,
          Extract, Started, Validated, CallFailed, FinishItem, FailItem, Local
    <2>3. Running(v)
      BY <2>2 DEF PipelineInv, PipelineTypeOK
    <2>4. Holds(v)
      BY <1>1, <2>3, ReadingHolds, AnsweringHolds, Zenon DEF RunnerStep
    <2>5. ASSUME NEW w \in Workers, w # v
          PROVE  NotRepeated(w) /\ (Running(w)' => PlanHolds(w)')
      <3>1. pc'[w] = pc[w] /\ ctx'[w] = ctx[w] /\ task'[w] = task[w]
        BY <2>1, <2>5 DEF RunKept
      <3>2. ASSUME Running(w)
            PROVE  PlanHolds(w)'
        <4>1. task[w] \in Items /\ task[w] # task[v]
          BY <1>0, <2>3, <2>5, <3>2 DEF NoSharedItem, Running
        <4>2. /\ UNCHANGED page /\ derivative'[task[w]] = derivative[task[w]]
              /\ ocr'[task[w]] = ocr[task[w]] /\ runs'[task[w]] = runs[task[w]]
          BY <1>1, <4>1, RunnerArtifacts
        <4> QED
          BY <3>1, <3>2, <4>2, OthersLeavePlan
      <3> QED
        BY <3>1, <3>2 DEF NotRepeated, Running
    <2> QED
      BY <2>4, <2>5 DEF PaidOnce, Holds
  <1>2. ASSUME UNCHANGED <<page, derivative, ocr>>, runs' = runs \/ \E S : AbandonIn(S),
               \A w \in Workers :
                  \/ pc'[w] = pc[w] /\ ctx'[w] = ctx[w] /\ task'[w] = task[w]
                  \/ pc'[w] \in {"idle", "begin"}
        PROVE  PaidOnce' /\ \A w \in Workers : NotRepeated(w)
    <2>1. \A i \in Items : Traced(i)'
      BY <1>0, <1>2, ArtifactsStand
    <2>2. ASSUME NEW w \in Workers
          PROVE  NotRepeated(w) /\ (Running(w)' => PlanHolds(w)')
      <3>1. CASE pc'[w] \in {"idle", "begin"}
        BY <3>1 DEF NotRepeated, PlanHolds, BeforeOcr, BeforeAnswer
      <3>2. CASE pc'[w] = pc[w] /\ ctx'[w] = ctx[w] /\ task'[w] = task[w]
        <4>1. Running(w) => PlanHolds(w)'
          BY <1>2, <3>2, OthersLeavePlan
        <4> QED
          BY <3>2, <4>1 DEF NotRepeated, Running
      <3> QED
        BY <1>2, <3>1, <3>2
    <2> QED
      BY <2>1, <2>2 DEF PaidOnce
  <1>3. ASSUME NEW v \in Workers, NEW i \in Items, ClaimItem(v, i)
        PROVE  PaidOnce' /\ \A w \in Workers : NotRepeated(w)
    <2>1. /\ UNCHANGED <<ctx, page, derivative, ocr, runs>> /\ pc' = [pc EXCEPT ![v] = "begin"]
          /\ task' = [task EXCEPT ![v] = i]
      BY <1>3 DEF ClaimItem, Claim, Goto, artifactVars
    <2> QED
      BY <1>0, <1>2, <2>1
  <1>4. ASSUME NEW p \in Instances, CrashProcess(p)
        PROVE  PaidOnce' /\ \A w \in Workers : NotRepeated(w)
    <2>1. /\ UNCHANGED <<page, derivative, ocr, runs>>
          /\ pc' = [w \in Workers |-> IF InstanceOf[w] = p THEN "idle" ELSE pc[w]]
          /\ ctx' = [w \in Workers |-> IF InstanceOf[w] = p THEN NoContext ELSE ctx[w]]
          /\ task' = [w \in Workers |-> IF InstanceOf[w] = p THEN NoItem ELSE task[w]]
      BY <1>4 DEF CrashProcess, Crash, artifactVars
    <2> QED
      BY <1>2, <2>1
  <1>5. CASE \/ \E i \in Items : Clock(i)
             \/ \E o \in Operators, i \in Items, mode \in Modes, force \in BOOLEAN :
                    RequestRetry(o, i, mode, force)
             \/ \E o \in Operators : RetryItem(o) \/ RetryLost(o)
             \/ \E i \in Items : \E c \in candidates[i], verdict \in Decided : Decide(i, c, verdict)
             \/ UNCHANGED vars
    <2>1. UNCHANGED <<pc, ctx, task, page, derivative, ocr, runs>>
      BY <1>5, Zenon
      DEF Clock, LeaseLapses, BackoffElapses, RequestRetry, RetryRead, RetryItem, RetryWrite,
          RetryLost, RetryMiss, Decide, localVars, artifactVars, queueVars, vars
    <2> QED
      BY <1>2, <2>1
  <1>6. CASE (\E S \in SUBSET Items : ReapItems(S)) \/ (\E p \in Instances : StartProcess(p))
    <2>1. UNCHANGED <<pc, ctx, task, page, derivative, ocr>> /\ \E S : AbandonIn(S)
      BY <1>6, Zenon DEF ReapItems, Reap, StartProcess, Start, localVars
    <2> QED
      BY <1>2, <2>1
  <1> QED
    BY <1>1, <1>3, <1>4, <1>5, <1>6 DEF PipelineNext

\* While no two workers run one item -- no lease of a live worker has lapsed and
\* been taken over -- what a generation has is not made again, whatever crashes,
\* fails or is retried (resume.py, runner.py).
THEOREM SoloWorkIsPaidOnce == PipelineSpec /\ []NoSharedItem => CompletedWorkIsNotRepeated
  <1>1. PipelineInit => PaidOnce
    BY DEF PipelineInit, Init, PaidOnce, Traced, Running
  <1>2. PipelineInv /\ PaidOnce /\ NoSharedItem /\ [PipelineNext]_vars => PaidOnce'
    BY PaidOnceNext
  <1>3. PipelineInv /\ PaidOnce /\ NoSharedItem /\ [PipelineNext]_vars
        => [\A w \in Workers :
              LET i == task[w]
                  g == ctx[w].generation
              IN /\ pc[w] = "ocr" /\ pc'[w] = "to_llm" => <<g, "completed">> \notin ocr[i]
                 /\ pc[w] = "started" /\ pc'[w] = "calling" /\ page[i] = "text"
                      => ValidatedRuns(i, g) = {}]_vars
    BY PaidOnceNext DEF NotRepeated
  <1> QED
    BY <1>1, <1>2, <1>3, PipelineInvariant, PTL DEF PipelineSpec, CompletedWorkIsNotRepeated

\* With worker_concurrency = 1 in one process that is always so.
THEOREM OneWorkerPaysOnce ==
    ASSUME \A v, w \in Workers : v = w
    PROVE  PipelineSpec => CompletedWorkIsNotRepeated
  <1>1. NoSharedItem
    BY DEF NoSharedItem
  <1> QED
    BY <1>1, SoloWorkIsPaidOnce, PTL
=============================================================================
