--------------------------- MODULE WorkQueueProofs ---------------------------
(***************************************************************************)
(* Proofs about the work queue, for any number of items, workers,          *)
(* requests and processes.                                                 *)
(***************************************************************************)
EXTENDS WorkQueue, TLAPS

USE QueueAssumption DEF NoClaim

LEMMA StatusSets ==
    /\ InFlight \subseteq ItemStatus
    /\ Claimable \subseteq ItemStatus
    /\ {"awaiting_review", "no_ads", "needs_attention"} \subseteq ItemStatus
    /\ \A s \in Claimable \cup Retryable \cup Reprocessable
                \cup {"awaiting_review", "no_ads", "needs_attention"} : s \notin InFlight
  BY DEF InFlight, Claimable, ItemStatus, PipelineActive, PipelineSucceeded, PipelineFailed,
         Retryable, Reprocessable

LEMMA NoRequestTyped == NoRequest \in Requests
  BY DEF NoRequest, Requests, Modes, ItemStatus, PipelineActive, Claimable

-----------------------------------------------------------------------------
(* Type correctness: one lemma per group of actions. *)

LEMMA TypeClock ==
    ASSUME TypeOK, NEW i \in Items, LeaseLapses(i) \/ BackoffElapses(i)
    PROVE  TypeOK'
  BY DEF TypeOK, LeaseLapses, BackoffElapses

LEMMA TypeClaim ==
    ASSUME TypeOK, NEW w \in Workers, NEW i \in Items, Claim(w, i)
    PROVE  TypeOK'
  BY StatusSets DEF TypeOK, Claim, InFlight

LEMMA TypeWorkerStep ==
    ASSUME TypeOK, NEW w \in Workers, WorkerStep(w)
    PROVE  TypeOK'
  <1>1. ASSUME NEW from, NEW to \in InFlight, Advance(w, from, to)
        PROVE  TypeOK'
    BY <1>1, StatusSets DEF TypeOK, Advance, Owns, Running
  <1>2. ASSUME NEW target \in ItemStatus, NEW nowDue \in BOOLEAN, Running(w),
               Release(w, target, nowDue)
        PROVE  TypeOK'
    BY <1>2 DEF TypeOK, Release, Leave, Running
  <1>3. CASE \E target \in {"awaiting_review", "no_ads"} : Finish(w, target)
    BY <1>2, <1>3, StatusSets DEF Finish, Running, TypeOK
  <1>4. CASE \E retryable \in BOOLEAN : Fail(w, retryable)
    <2>1. PICK target \in {"needs_attention", "uploaded"}, nowDue \in {due[task[w]], FALSE} :
            Running(w) /\ Release(w, target, nowDue)
      BY <1>4 DEF Fail
    <2>2. target \in ItemStatus /\ nowDue \in BOOLEAN
      BY <2>1, StatusSets DEF Running, TypeOK, Claimable
    <2> QED
      BY <1>2, <2>1, <2>2
  <1>5. CASE Drop(w)
    BY <1>5 DEF TypeOK, Drop, Leave, rowVars
  <1>6. QED
    BY <1>1, <1>3, <1>4, <1>5 DEF WorkerStep, InFlight

LEMMA TypePutBack ==
    ASSUME TypeOK, NEW S \in SUBSET Items, NEW T \in SUBSET Items, PutBack(S, T)
    PROVE  /\ status' \in [Items -> ItemStatus]
           /\ claim' \in [Items -> Nat]
           /\ issued' \in [Items -> Nat]
           /\ attempts' \in [Items -> Nat]
           /\ generation' \in [Items -> Nat]
           /\ due' \in [Items -> BOOLEAN]
           /\ lapsed' \in [Items -> BOOLEAN]
  BY StatusSets DEF TypeOK, PutBack, Claimable

LEMMA TypeProcess ==
    ASSUME TypeOK,
           \/ \E S \in SUBSET Items : Reap(S)
           \/ \E p \in Instances : Start(p) \/ Crash(p)
    PROVE  TypeOK'
  <1>1. ASSUME NEW S \in SUBSET Items, Reap(S)
        PROVE  TypeOK'
    <2>1. PutBack(S \ Exhausted, S \cap Exhausted)
      BY <1>1 DEF Reap
    <2>2. S \ Exhausted \in SUBSET Items /\ S \cap Exhausted \in SUBSET Items
      OBVIOUS
    <2>3. QED
      BY <1>1, <2>1, <2>2, TypePutBack DEF Reap, TypeOK
  <1>2. ASSUME NEW p \in Instances, Start(p)
        PROVE  TypeOK'
    <2>1. CASE SingleInstance
      <3>1. PutBack({i \in Items : status[i] \in InFlight}, {})
        BY <1>2, <2>1 DEF Start, Recover
      <3>2. {i \in Items : status[i] \in InFlight} \in SUBSET Items /\ {} \in SUBSET Items
        OBVIOUS
      <3>3. QED
        BY <1>2, <3>1, <3>2, TypePutBack DEF Start, TypeOK
    <2>2. CASE ~SingleInstance
      BY <1>2, <2>2 DEF Start, TypeOK, rowVars
    <2>3. QED
      BY <2>1, <2>2
  <1>3. ASSUME NEW p \in Instances, Crash(p)
        PROVE  TypeOK'
    BY <1>3, NoRequestTyped DEF Crash, TypeOK, rowVars
  <1>4. QED
    BY <1>1, <1>2, <1>3

LEMMA TypeOperatorStep ==
    ASSUME TypeOK, NEW o \in Operators, OperatorStep(o)
    PROVE  TypeOK'
  <1>1. ASSUME NEW i \in Items, NEW mode \in Modes,
               RetryRead(o, i, mode)
        PROVE  TypeOK'
    BY <1>1 DEF TypeOK, RetryRead, Requests, rowVars
  <1>2. CASE RetryWrite(o)
    BY <1>2, NoRequestTyped, StatusSets DEF TypeOK, RetryWrite, Requests, Claimable
  <1>3. CASE RetryMiss(o)
    BY <1>3, NoRequestTyped DEF TypeOK, RetryMiss, rowVars
  <1>4. QED
    BY <1>1, <1>2, <1>3 DEF OperatorStep

LEMMA TypeInit == Init => TypeOK
  BY NoRequestTyped, StatusSets DEF Init, TypeOK, Claimable

LEMMA TypeStep == TypeOK /\ [Next]_queueVars => TypeOK'
  <1> SUFFICES ASSUME TypeOK, [Next]_queueVars
               PROVE  TypeOK'
    OBVIOUS
  <1>1. CASE Next
    BY <1>1, TypeClock, TypeClaim, TypeWorkerStep, TypeProcess, TypeOperatorStep DEF Next
  <1>2. CASE UNCHANGED queueVars
    BY <1>2 DEF queueVars, rowVars, TypeOK
  <1>3. QED
    BY <1>1, <1>2

\* Every variable keeps its type in every reachable state.
THEOREM TypeCorrect == Spec => []TypeOK
  BY TypeInit, TypeStep, PTL DEF Spec

-----------------------------------------------------------------------------
(* The inductive invariant, one lemma per conjunct. *)

LEMMA ClaimInvStep ==
    ASSUME TypeOK, ClaimIffInFlight, [Next]_queueVars
    PROVE  ClaimIffInFlight'
  <1>1. ASSUME NEW i \in Items, LeaseLapses(i) \/ BackoffElapses(i)
        PROVE  ClaimIffInFlight'
    BY <1>1 DEF ClaimIffInFlight, LeaseLapses, BackoffElapses
  <1>2. ASSUME NEW w \in Workers, NEW i \in Items, Claim(w, i)
        PROVE  ClaimIffInFlight'
    BY <1>2 DEF ClaimIffInFlight, Claim, TypeOK, InFlight
  <1>3. ASSUME NEW w \in Workers, WorkerStep(w)
        PROVE  ClaimIffInFlight'
    <2>1. ASSUME NEW from \in InFlight, NEW to \in InFlight, Advance(w, from, to)
          PROVE  ClaimIffInFlight'
      BY <2>1 DEF ClaimIffInFlight, Advance, TypeOK, Owns, Running
    <2>2. ASSUME NEW target \in ItemStatus \ InFlight, NEW nowDue, Release(w, target, nowDue)
          PROVE  ClaimIffInFlight'
      BY <2>2 DEF ClaimIffInFlight, Release, TypeOK, Owns, Running
    <2>3. CASE \E target \in {"awaiting_review", "no_ads"} : Finish(w, target)
      BY <2>2, <2>3, StatusSets DEF Finish
    <2>4. CASE \E retryable \in BOOLEAN : Fail(w, retryable)
      BY <2>2, <2>4, StatusSets DEF Fail, Claimable
    <2>5. CASE Drop(w)
      BY <2>5 DEF ClaimIffInFlight, Drop, rowVars
    <2>6. QED
      BY <1>3, <2>1, <2>3, <2>4, <2>5 DEF WorkerStep, InFlight
  <1>4. ASSUME NEW S \in SUBSET Items, NEW T \in SUBSET Items, PutBack(S, T)
        PROVE  ClaimIffInFlight'
    BY <1>4 DEF ClaimIffInFlight, PutBack, TypeOK, InFlight
  <1>5. ASSUME NEW S \in SUBSET Items, Reap(S)
        PROVE  ClaimIffInFlight'
    <2>1. PutBack(S \ Exhausted, S \cap Exhausted)
      BY <1>5 DEF Reap
    <2>2. S \ Exhausted \in SUBSET Items /\ S \cap Exhausted \in SUBSET Items
      OBVIOUS
    <2>3. QED
      BY <1>4, <2>1, <2>2
  <1>6. ASSUME NEW p \in Instances, Start(p) \/ Crash(p)
        PROVE  ClaimIffInFlight'
    <2>1. CASE Start(p) /\ SingleInstance
      <3>1. PutBack({i \in Items : status[i] \in InFlight}, {})
        BY <2>1 DEF Start, Recover
      <3>2. {i \in Items : status[i] \in InFlight} \in SUBSET Items /\ {} \in SUBSET Items
        OBVIOUS
      <3>3. QED
        BY <1>4, <3>1, <3>2
    <2>2. CASE (Start(p) /\ ~SingleInstance) \/ Crash(p)
      BY <2>2 DEF Start, Crash, ClaimIffInFlight, rowVars
    <2>3. QED
      BY <1>6, <2>1, <2>2
  <1>7. ASSUME NEW o \in Operators, OperatorStep(o)
        PROVE  ClaimIffInFlight'
    <2>1. CASE RetryWrite(o)
      BY <2>1, StatusSets DEF ClaimIffInFlight, RetryWrite, TypeOK, Claimable
    <2>2. CASE RetryMiss(o) \/ \E i \in Items, mode \in Modes :
                                    RetryRead(o, i, mode)
      BY <2>2 DEF ClaimIffInFlight, RetryMiss, RetryRead, rowVars
    <2>3. QED
      BY <1>7, <2>1, <2>2 DEF OperatorStep
  <1>8. CASE UNCHANGED queueVars
    BY <1>8 DEF queueVars, rowVars, ClaimIffInFlight
  <1>9. QED
    BY <1>1, <1>2, <1>3, <1>5, <1>6, <1>7, <1>8 DEF Next

\* Which actions touch the tokens at all: a claim makes one, the end of a run
\* and a crash forget one, and a row only ever loses the one it has.
LEMMA TokensStep ==
    ASSUME TypeOK, [Next]_queueVars
    PROVE  \/ \E w \in Workers, i \in Items : Claim(w, i)
           \/ /\ issued' = issued
              /\ \A i \in Items : claim'[i] \in {claim[i], NoClaim}
              /\ \A w \in Workers : \/ task'[w] = task[w] /\ held'[w] = held[w]
                                    \/ task'[w] = NoItem
  <1> DEFINE Kept ==
         /\ issued' = issued
         /\ \A i \in Items : claim'[i] \in {claim[i], NoClaim}
         /\ \A w \in Workers : \/ task'[w] = task[w] /\ held'[w] = held[w]
                               \/ task'[w] = NoItem
  <1>1. ASSUME NEW i \in Items, LeaseLapses(i) \/ BackoffElapses(i)
        PROVE  Kept
    BY <1>1 DEF LeaseLapses, BackoffElapses
  <1>2. ASSUME NEW w \in Workers, WorkerStep(w)
        PROVE  Kept
    <2>1. ASSUME NEW target, NEW nowDue, Release(w, target, nowDue)
          PROVE  Kept
      BY <2>1 DEF Release, Leave, Owns, Running, TypeOK
    <2>2. CASE Drop(w) \/ \E from, to \in InFlight : Advance(w, from, to)
      BY <2>2 DEF Drop, Leave, Advance, rowVars, TypeOK
    <2>3. QED
      BY <1>2, <2>1, <2>2 DEF WorkerStep, Finish, Fail, InFlight
  <1>3. ASSUME NEW S, NEW T, PutBack(S, T), UNCHANGED <<task, held>>
        PROVE  Kept
    BY <1>3 DEF PutBack
  <1>4. ASSUME NEW S \in SUBSET Items, Reap(S)
        PROVE  Kept
    BY <1>3, <1>4 DEF Reap
  <1>5. ASSUME NEW p \in Instances, Start(p) \/ Crash(p)
        PROVE  Kept
    BY <1>3, <1>5 DEF Start, Recover, Crash, rowVars, TypeOK
  <1>6. ASSUME NEW o \in Operators, OperatorStep(o)
        PROVE  Kept
    BY <1>6 DEF OperatorStep, RetryRead, RetryWrite, RetryMiss, rowVars, TypeOK
  <1>7. CASE UNCHANGED queueVars
    BY <1>7 DEF queueVars, rowVars
  <1>8. QED
    BY <1>1, <1>2, <1>4, <1>5, <1>6, <1>7 DEF Next

LEMMA TokenInvStep ==
    ASSUME TypeOK, TypeOK', TokensWereIssued, OneOwner, [Next]_queueVars
    PROVE  TokensWereIssued' /\ OneOwner'
  <1>1. ASSUME NEW w \in Workers, NEW i \in Items, Claim(w, i)
        PROVE  TokensWereIssued' /\ OneOwner'
    <2>1. /\ issued' = [issued EXCEPT ![i] = issued[i] + 1]
          /\ claim' = [claim EXCEPT ![i] = issued[i] + 1]
          /\ task' = [task EXCEPT ![w] = i]
          /\ held' = [held EXCEPT ![w] = issued[i] + 1]
      BY <1>1 DEF Claim
    <2>2. TokensWereIssued'
      BY <2>1 DEF TokensWereIssued, TypeOK, Running
    <2>3. OneOwner'
      BY <2>1 DEF OneOwner, TokensWereIssued, TypeOK, Running
    <2>4. QED
      BY <2>2, <2>3
  <1>2. CASE /\ issued' = issued
             /\ \A i \in Items : claim'[i] \in {claim[i], NoClaim}
             /\ \A w \in Workers : \/ task'[w] = task[w] /\ held'[w] = held[w]
                                   \/ task'[w] = NoItem
    BY <1>2 DEF TokensWereIssued, OneOwner, TypeOK, Running
  <1>3. QED
    BY <1>1, <1>2, TokensStep

LEMMA RequestInvStep ==
    ASSUME TypeOK, RequestsWereAllowed, [Next]_queueVars
    PROVE  RequestsWereAllowed'
  <1>1. ASSUME NEW o \in Operators, OperatorStep(o)
        PROVE  RequestsWereAllowed'
    <2>1. ASSUME NEW i \in Items, NEW mode \in Modes,
                 RetryRead(o, i, mode)
          PROVE  RequestsWereAllowed'
      BY <2>1 DEF RetryRead, RequestsWereAllowed, TypeOK
    <2>2. CASE RetryWrite(o) \/ RetryMiss(o)
      BY <2>2 DEF RetryWrite, RetryMiss, RequestsWereAllowed, TypeOK, NoRequest
    <2>3. QED
      BY <1>1, <2>1, <2>2 DEF OperatorStep
  <1>2. ASSUME NEW p \in Instances, Crash(p)
        PROVE  RequestsWereAllowed'
    BY <1>2 DEF Crash, RequestsWereAllowed, NoRequest
  <1>3. CASE req' = req
    BY <1>3 DEF RequestsWereAllowed
  <1>4. ASSUME NEW w \in Workers, WorkerStep(w)
        PROVE  req' = req
    BY <1>4 DEF WorkerStep, Advance, Finish, Fail, Release, Drop
  <1>5. QED
    BY <1>1, <1>2, <1>3, <1>4
    DEF Next, LeaseLapses, BackoffElapses, Claim, Reap, Start, queueVars

LEMMA QueueInvInit == Init => QueueInv
  <1> SUFFICES ASSUME Init PROVE QueueInv
    OBVIOUS
  <1>1. TypeOK
    BY TypeInit
  <1>2. ClaimIffInFlight /\ TokensWereIssued /\ OneOwner
    BY DEF Init, ClaimIffInFlight, TokensWereIssued, OneOwner, Running, InFlight
  <1>3. RequestsWereAllowed
    BY DEF Init, RequestsWereAllowed, NoRequest
  <1>4. QED
    BY <1>1, <1>2, <1>3 DEF QueueInv

LEMMA QueueInvStep == QueueInv /\ [Next]_queueVars => QueueInv'
  BY TypeStep, ClaimInvStep, TokenInvStep, RequestInvStep DEF QueueInv

\* Every reachable state satisfies the inductive invariant.
THEOREM QueueInvariant == Spec => []QueueInv
  BY QueueInvInit, QueueInvStep, PTL DEF Spec

\* A row has a claim token exactly while it is in flight.
THEOREM ClaimsMatchStatus == Spec => []ClaimIffInFlight
  BY QueueInvariant, PTL DEF QueueInv

\* At most one worker's compare-and-swap on a row can match.
THEOREM AtMostOneOwner == Spec => []OneOwner
  BY QueueInvariant, PTL DEF QueueInv

-----------------------------------------------------------------------------
(* What a step does to the rows, and the properties that follow from it.   *)

\* A worker's step writes the row only as its owner.
LEMMA WorkerWritesAsOwner ==
    ASSUME NEW w \in Workers, WorkerStep(w)
    PROVE  Owns(w) \/ UNCHANGED rowVars
  BY DEF WorkerStep, Advance, Finish, Fail, Release, Drop

\* A worker's step ends its own run or none.
LEMMA WorkerLeavesOthers ==
    ASSUME TypeOK, NEW w \in Workers, NEW v \in Workers, WorkerStep(v), task'[w] # task[w]
    PROVE  v = w
  BY DEF WorkerStep, Advance, Finish, Fail, Release, Drop, Leave, TypeOK

\* What a zombie does, or what happens to it, leaves every row alone.
LEMMA StaleStep ==
    ASSUME TypeOK, [Next]_queueVars, NEW w \in Workers, Stale(w),
           WorkerStep(w) \/ task'[w] # task[w]
    PROVE  UNCHANGED rowVars
  <1>1. CASE WorkerStep(w)
    BY <1>1, WorkerWritesAsOwner DEF Stale, Owns
  <1>2. CASE task'[w] # task[w]
    <2>1. ASSUME NEW v \in Workers, NEW i \in Items, Claim(v, i)
          PROVE  FALSE
      BY <1>2, <2>1 DEF Claim, Stale, Running, TypeOK
    <2>2. ASSUME NEW v \in Workers, WorkerStep(v)
          PROVE  UNCHANGED rowVars
      BY <1>1, <1>2, <2>2, WorkerLeavesOthers
    <2>3. ASSUME NEW p \in Instances, Crash(p)
          PROVE  UNCHANGED rowVars
      BY <2>3 DEF Crash
    <2>4. task' # task
      BY <1>2
    <2> QED
      BY <2>1, <2>2, <2>3, <2>4
      DEF Next, LeaseLapses, BackoffElapses, Reap, Start, OperatorStep, RetryRead, RetryWrite,
          RetryMiss, queueVars, rowVars
  <1> QED
    BY <1>1, <1>2

\* Who else writes a claimed row takes the claim away.
LEMMA OwnerAtIt ==
    ASSUME TypeOK, [Next]_queueVars, NEW i \in Items, claim[i] # NoClaim, claim'[i] = claim[i],
           status'[i] # status[i] \/ (lapsed[i] /\ ~lapsed'[i])
    PROVE  \E w \in Workers : task[w] = i /\ Owns(w)
  <1>1. ASSUME NEW j \in Items, LeaseLapses(j) \/ BackoffElapses(j)
        PROVE  FALSE
    BY <1>1 DEF LeaseLapses, BackoffElapses, TypeOK
  <1>2. ASSUME NEW w \in Workers, NEW j \in Items, Claim(w, j)
        PROVE  FALSE
    BY <1>2 DEF Claim, TypeOK
  <1>3. ASSUME NEW w \in Workers, WorkerStep(w)
        PROVE  task[w] = i /\ Owns(w)
    <2>1. Owns(w)
      BY <1>3, WorkerWritesAsOwner DEF rowVars
    <2>2. \A j \in Items : j # task[w] => status'[j] = status[j] /\ lapsed'[j] = lapsed[j]
      BY <1>3 DEF WorkerStep, Advance, Finish, Fail, Release, Drop, rowVars, TypeOK
    <2> QED
      BY <2>1, <2>2
  <1>4. ASSUME NEW requeued, NEW parked, PutBack(requeued, parked)
        PROVE  FALSE
    BY <1>4 DEF PutBack, NoClaim, TypeOK
  <1>5. ASSUME NEW S \in SUBSET Items, Reap(S)
        PROVE  FALSE
    BY <1>4, <1>5 DEF Reap
  <1>6. ASSUME NEW p \in Instances, Start(p) \/ Crash(p)
        PROVE  FALSE
    BY <1>4, <1>6 DEF Start, Crash, Recover, rowVars
  <1>7. ASSUME NEW o \in Operators, OperatorStep(o)
        PROVE  FALSE
    BY <1>7 DEF OperatorStep, RetryRead, RetryWrite, RetryMiss, rowVars, NoClaim, TypeOK
  <1> QED
    BY <1>1, <1>2, <1>3, <1>5, <1>6, <1>7 DEF Next, queueVars, rowVars

\* No step of a zombie changes a row, and a claimed row moves, or has its lease
\* extended, only while the worker the claim was given to is at it (items.py).
THEOREM ZombiesAreFenced == Spec => FencedZombies
  <1>1. TypeOK /\ [Next]_queueVars
        => [/\ \A w \in Workers :
                  Stale(w) /\ (WorkerStep(w) \/ task'[w] # task[w]) => UNCHANGED rowVars
            /\ \A i \in Items :
                  /\ claim[i] # NoClaim /\ claim'[i] = claim[i]
                  /\ status'[i] # status[i] \/ (lapsed[i] /\ ~lapsed'[i])
                  => \E w \in Workers : task[w] = i /\ Owns(w)]_queueVars
    BY StaleStep, OwnerAtIt
  <1>2. QED
    BY <1>1, TypeCorrect, PTL DEF Spec, FencedZombies

LEMMA BudgetStep ==
    ASSUME ~SingleInstance, TypeOK, UploadedHasBudget, [Next]_queueVars
    PROVE  UploadedHasBudget'
  <1>1. ASSUME NEW i \in Items, LeaseLapses(i) \/ BackoffElapses(i)
        PROVE  UploadedHasBudget'
    BY <1>1 DEF UploadedHasBudget, LeaseLapses, BackoffElapses
  <1>2. ASSUME NEW w \in Workers, NEW i \in Items, Claim(w, i)
        PROVE  UploadedHasBudget'
    BY <1>2 DEF UploadedHasBudget, Claim, TypeOK
  <1>3. ASSUME NEW w \in Workers, WorkerStep(w)
        PROVE  UploadedHasBudget'
    <2>1. ASSUME NEW target, NEW nowDue, Release(w, target, nowDue),
                 target # "uploaded" \/ attempts[task[w]] < MaxItemAttempts
          PROVE  UploadedHasBudget'
      BY <2>1 DEF UploadedHasBudget, Release, TypeOK
    <2>2. CASE \E retryable \in BOOLEAN : Fail(w, retryable)
      <3>1. PICK retryable \in BOOLEAN : Fail(w, retryable)
        BY <2>2
      <3>2. task[w] \in Items /\ attempts[task[w]] \in Nat
        BY <3>1 DEF Fail, Running, TypeOK
      <3>3. CASE attempts[task[w]] >= MaxItemAttempts \/ ~retryable
        BY <2>1, <3>1, <3>3 DEF Fail
      <3>4. CASE ~(attempts[task[w]] >= MaxItemAttempts \/ ~retryable)
        <4>1. Release(w, "uploaded", FALSE)
          BY <3>1, <3>4 DEF Fail
        <4>2. attempts[task[w]] < MaxItemAttempts
          BY <3>2, <3>4
        <4>3. QED
          BY <2>1, <4>1, <4>2
      <3>5. QED
        BY <3>3, <3>4
    <2>3. CASE \E target \in {"awaiting_review", "no_ads"} : Finish(w, target)
      BY <2>1, <2>3 DEF Finish
    <2>4. CASE Drop(w) \/ \E from, to \in InFlight : Advance(w, from, to)
      BY <2>4 DEF UploadedHasBudget, Drop, Advance, rowVars, TypeOK, InFlight
    <2>5. QED
      BY <1>3, <2>2, <2>3, <2>4 DEF WorkerStep, InFlight
  <1>4. ASSUME NEW S \in SUBSET Items, Reap(S)
        PROVE  UploadedHasBudget'
    BY <1>4 DEF UploadedHasBudget, Reap, PutBack, Exhausted, TypeOK
  <1>5. ASSUME NEW p \in Instances, Start(p) \/ Crash(p)
        PROVE  UploadedHasBudget'
    BY <1>5 DEF UploadedHasBudget, Start, Crash, rowVars
  <1>6. ASSUME NEW o \in Operators, OperatorStep(o)
        PROVE  UploadedHasBudget'
    <2>1. CASE RetryWrite(o)
      BY <2>1 DEF UploadedHasBudget, RetryWrite, TypeOK
    <2>2. CASE RetryMiss(o) \/ \E i \in Items, mode \in Modes :
                                    RetryRead(o, i, mode)
      BY <2>2 DEF UploadedHasBudget, RetryMiss, RetryRead, rowVars
    <2>3. QED
      BY <1>6, <2>1, <2>2 DEF OperatorStep
  <1>7. CASE UNCHANGED queueVars
    BY <1>7 DEF queueVars, rowVars, UploadedHasBudget
  <1>8. QED
    BY <1>1, <1>2, <1>3, <1>4, <1>5, <1>6, <1>7 DEF Next

\* Without recovery at start-up a queued row always has budget left.  (With it,
\* the run queue_budget refutes the claim.)
THEOREM QueuedRowsHaveBudget ==
    ASSUME ~SingleInstance
    PROVE  Spec => []UploadedHasBudget
  <1>1. Init => UploadedHasBudget
    BY DEF Init, UploadedHasBudget
  <1>2. TypeOK /\ UploadedHasBudget /\ [Next]_queueVars => UploadedHasBudget'
    BY BudgetStep
  <1>3. QED
    BY <1>1, <1>2, TypeCorrect, PTL DEF Spec

-----------------------------------------------------------------------------
(* The queue implements the life of a row.                                 *)

LEMMA LifecycleInit == Init => Lifecycle!Init
  BY DEF Init, Lifecycle!Init

LEMMA LifecycleWorker ==
    ASSUME QueueInv, NEW w \in Workers, WorkerStep(w)
    PROVE  Lifecycle!Next
  <1> USE DEF Lifecycle!Next, Lifecycle!Move, Lifecycle!Same
  <1>1. TypeOK /\ ClaimIffInFlight
    BY DEF QueueInv
  <1>2. ASSUME NEW from, NEW to,
               <<from, to>> \in {<<"preprocessing", "ocr_processing">>,
                                 <<"ocr_processing", "llm_processing">>},
               Advance(w, from, to)
        PROVE  Lifecycle!Next
    <2>1. task[w] \in Items /\ claim[task[w]] # NoClaim
      BY <1>1, <1>2 DEF Advance, Owns, Running, TypeOK, ClaimIffInFlight, InFlight
    <2>2. Lifecycle!Progress(task[w])
      BY <1>1, <1>2, <2>1 DEF Advance, TypeOK, Lifecycle!Progress
    <2>3. QED
      BY <1>1, <1>2, <2>2 DEF Advance, TypeOK
  <1>3. ASSUME NEW target, NEW nowDue, Release(w, target, nowDue),
               \/ status[task[w]] = "llm_processing" /\ target \in {"awaiting_review", "no_ads"}
               \/ target \in {"uploaded", "needs_attention"}
        PROVE  Lifecycle!Next
    <2>1. task[w] \in Items /\ held[w] # NoClaim
      BY <1>3 DEF Release, Owns, Running, TypeOK, TokensWereIssued, QueueInv
    <2>2. claim[task[w]] # NoClaim /\ status[task[w]] \in InFlight
      BY <1>1, <1>3, <2>1 DEF Release, Owns, ClaimIffInFlight
    <2>3. Lifecycle!End(task[w])
      BY <1>1, <1>3, <2>1, <2>2
      DEF Release, TypeOK, Lifecycle!End, Lifecycle!InFlight, InFlight
    <2>4. QED
      BY <1>1, <1>3, <2>3 DEF Release, TypeOK
  <1>4. CASE \E target \in {"awaiting_review", "no_ads"} : Finish(w, target)
    BY <1>3, <1>4 DEF Finish
  <1>5. CASE \E retryable \in BOOLEAN : Fail(w, retryable)
    BY <1>3, <1>5 DEF Fail
  <1>6. CASE Drop(w)
    BY <1>6 DEF Drop, rowVars
  <1>7. QED
    BY <1>2, <1>4, <1>5, <1>6 DEF WorkerStep

\* A row put back was in flight, under a claim.
LEMMA LifecyclePutBack ==
    ASSUME QueueInv, NEW S \in SUBSET Items, NEW T \in SUBSET Items, PutBack(S, T),
           \A i \in S \cup T : status[i] \in InFlight
    PROVE  Lifecycle!Next
  <1> SUFFICES ASSUME NEW i \in Items
               PROVE  Lifecycle!Move(i) \/ Lifecycle!Same(i)
    BY DEF Lifecycle!Next
  <1>1. TypeOK /\ ClaimIffInFlight
    BY DEF QueueInv
  <1>2. CASE i \in S \cup T
    <2>1. Lifecycle!End(i)
      BY <1>1, <1>2
      DEF PutBack, TypeOK, ClaimIffInFlight, Lifecycle!End, Lifecycle!InFlight, InFlight
    <2>2. QED
      BY <2>1 DEF Lifecycle!Move
  <1>3. CASE i \notin S \cup T
    BY <1>1, <1>3 DEF PutBack, TypeOK, Lifecycle!Same
  <1>4. QED
    BY <1>2, <1>3

LEMMA LifecycleProcess ==
    ASSUME QueueInv,
           \/ \E S \in SUBSET Items : Reap(S)
           \/ \E p \in Instances : Start(p) \/ Crash(p)
    PROVE  Lifecycle!Next
  <1>1. TypeOK /\ ClaimIffInFlight
    BY DEF QueueInv
  <1>2. ASSUME NEW S \in SUBSET Items, Reap(S)
        PROVE  Lifecycle!Next
    <2>1. PutBack(S \ Exhausted, S \cap Exhausted) /\ S \subseteq Expired
      BY <1>2 DEF Reap
    <2>2. \A i \in S : status[i] \in InFlight
      BY <1>1, <2>1 DEF Expired, ClaimIffInFlight
    <2>3. S \ Exhausted \in SUBSET Items /\ S \cap Exhausted \in SUBSET Items
      OBVIOUS
    <2>4. QED
      BY <2>1, <2>2, <2>3, LifecyclePutBack
  <1>3. ASSUME NEW p \in Instances, Start(p), SingleInstance
        PROVE  Lifecycle!Next
    <2> DEFINE S == {i \in Items : status[i] \in InFlight}
    <2>1. PutBack(S, {})
      BY <1>3 DEF Start, Recover
    <2>2. S \in SUBSET Items /\ {} \in SUBSET Items
      OBVIOUS
    <2>3. QED
      BY <2>1, <2>2, LifecyclePutBack
  <1>4. ASSUME NEW p \in Instances, (Start(p) /\ ~SingleInstance) \/ Crash(p)
        PROVE  Lifecycle!Next
    BY <1>4 DEF Start, Crash, rowVars, Lifecycle!Next, Lifecycle!Same
  <1>5. QED
    BY <1>2, <1>3, <1>4

LEMMA LifecycleOperator ==
    ASSUME QueueInv, NEW o \in Operators, OperatorStep(o)
    PROVE  Lifecycle!Next
  <1> USE DEF Lifecycle!Next, Lifecycle!Move, Lifecycle!Same
  <1>1. CASE RetryWrite(o)
    <2> DEFINE i == req[o].item
    <2>1. TypeOK /\ ClaimIffInFlight /\ RequestsWereAllowed
      BY DEF QueueInv
    <2>2. i \in Items /\ status[i] \in Allowed(req[o].mode)
      BY <1>1, <2>1 DEF RetryWrite, RequestsWereAllowed, TypeOK, Requests
    <2>3. status[i] \in Retryable \cup Reprocessable
      BY <2>2 DEF Allowed
    <2>4. claim[i] = 0
      BY <2>1, <2>2, <2>3, StatusSets DEF ClaimIffInFlight
    <2>5. Lifecycle!Resubmit(i)
      BY <1>1, <2>1, <2>2, <2>3, <2>4
      DEF RetryWrite, TypeOK, Lifecycle!Resubmit, Lifecycle!Retryable, Lifecycle!Reprocessable,
          Retryable, Reprocessable
    <2>6. QED
      BY <1>1, <2>1, <2>5 DEF RetryWrite, TypeOK
  <1>2. CASE RetryMiss(o) \/ \E i \in Items, mode \in Modes :
                                  RetryRead(o, i, mode)
    BY <1>2 DEF RetryMiss, RetryRead, rowVars
  <1>3. QED
    BY <1>1, <1>2 DEF OperatorStep

LEMMA LifecycleStep ==
    ASSUME QueueInv, [Next]_queueVars
    PROVE  [Lifecycle!Next]_Lifecycle!vars
  <1>1. ASSUME NEW i \in Items, LeaseLapses(i) \/ BackoffElapses(i)
        PROVE  UNCHANGED Lifecycle!vars
    BY <1>1 DEF LeaseLapses, BackoffElapses, Lifecycle!vars
  <1>2. ASSUME NEW w \in Workers, NEW i \in Items, Claim(w, i)
        PROVE  Lifecycle!Next
    <2>1. TypeOK /\ TokensWereIssued
      BY DEF QueueInv
    <2>2. Lifecycle!Begin(i)
      BY <1>2, <2>1 DEF Claim, TypeOK, Claimable, Lifecycle!Begin
    <2>3. QED
      BY <1>2, <2>1, <2>2 DEF Claim, TypeOK, Lifecycle!Next, Lifecycle!Move, Lifecycle!Same
  <1>3. CASE UNCHANGED queueVars
    BY <1>3 DEF queueVars, rowVars, Lifecycle!vars
  <1>4. QED
    BY <1>1, <1>2, <1>3, LifecycleWorker, LifecycleProcess, LifecycleOperator DEF Next

\* The queue refines the abstract life of a row, with the identity mapping.
THEOREM QueueImplementsLifecycle == Spec => ImplementsLifecycle
  BY LifecycleInit, LifecycleStep, QueueInvariant, PTL
  DEF Spec, ImplementsLifecycle, Lifecycle!Spec

-----------------------------------------------------------------------------
(* Every move is in the transition table, because every move is one of     *)
(* those the abstract life allows.                                         *)

LEMMA LifecycleMovesAreLegal ==
    ASSUME Lifecycle!Next, NEW i \in Items, status'[i] # status[i]
    PROVE  IsLegalTransition(status[i], status'[i])
  <1>1. CASE Lifecycle!Begin(i)
    BY <1>1 DEF Lifecycle!Begin, IsLegalTransition, Successors
  <1>2. CASE Lifecycle!Progress(i)
    BY <1>2 DEF Lifecycle!Progress, IsLegalTransition, Successors
  <1>3. CASE Lifecycle!End(i)
    BY <1>3 DEF Lifecycle!End, Lifecycle!InFlight, IsLegalTransition, Successors
  <1>4. CASE Lifecycle!Resubmit(i)
    BY <1>4 DEF Lifecycle!Resubmit, Lifecycle!Retryable, Lifecycle!Reprocessable,
                IsLegalTransition, Successors
  <1>5. QED
    BY <1>1, <1>2, <1>3, <1>4 DEF Lifecycle!Next, Lifecycle!Move, Lifecycle!Same

\* No write moves a row along an edge ITEM_TRANSITIONS does not have.
THEOREM EveryMoveIsLegal == Spec => MovesAreLegal
  <1>1. QueueInv /\ [Next]_queueVars
        => [\A i \in Items : status'[i] # status[i]
              => IsLegalTransition(status[i], status'[i])]_queueVars
    <2> SUFFICES ASSUME QueueInv, [Next]_queueVars, NEW i \in Items, status'[i] # status[i]
                 PROVE  IsLegalTransition(status[i], status'[i])
      OBVIOUS
    <2>1. ~(UNCHANGED Lifecycle!vars)
      BY DEF Lifecycle!vars
    <2>2. Lifecycle!Next
      BY <2>1, LifecycleStep
    <2>3. QED
      BY <2>2, LifecycleMovesAreLegal
  <1>2. QED
    BY <1>1, QueueInvariant, PTL DEF Spec, MovesAreLegal

=============================================================================
