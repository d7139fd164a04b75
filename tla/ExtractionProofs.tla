-------------------------- MODULE ExtractionProofs --------------------------
(***************************************************************************)
(* Proofs about extraction, for all budgets, pages, replies and answers:   *)
(* the bound on paid calls and what each is charged to; that around the    *)
(* three adapters the loop is the one of LlmRunner, and that the adapters  *)
(* classify every reply alike; that reading a page loses no text and numbers *)
(* it in one way; and that drafts stand on the page.                       *)
(***************************************************************************)
EXTENDS Extraction, OcrPagesProofs

-----------------------------------------------------------------------------
(* The loop: what it may pay for, and what a call is charged to. *)

\* The budget is untouched when the loop starts.
LEMMA RunnerInit == Init => RunnerInv
  <1> SUFFICES ASSUME Init PROVE RunnerInv
    OBVIOUS
  <1>1. rows \in Seq(Row) /\ Calls = 0
    BY DEF Init, Calls
  <1>2. TypeOK
    BY RunnerAssumption, <1>1 DEF Init, TypeOK
  <1>3. QED
    BY RunnerAssumption, <1>1, <1>2 DEF Init, RunnerInv

\* A row stays a row when its status is recorded.
LEMMA RecordedRow ==
    ASSUME NEW r \in Row, NEW s \in {"provider_error", "schema_invalid", "validated"}
    PROVE  [r EXCEPT !.status = s] \in Row
  BY DEF Row

\* What the end of a call does to the recorder's rows: their number stays.
LEMMA RecordKeepsRows ==
    ASSUME TypeOK, rows # <<>>, NEW s \in {"provider_error", "schema_invalid", "validated"},
           Record(s)
    PROVE  rows' \in Seq(Row) /\ Calls' = Calls
  <1> DEFINE row == [rows[Calls] EXCEPT !.status = s]
  <1>1. rows \in Seq(Row) /\ Calls \in 1 .. Len(rows)
    BY DEF TypeOK, Calls
  <1>2. row \in Row
    BY <1>1, rows[Calls] \in Row, RecordedRow
  <1>3. rows' = [rows EXCEPT ![Calls] = row]
    BY DEF Record
  <1> HIDE DEF row
  <1>4. QED
    BY <1>1, <1>2, <1>3 DEF Calls

\* A raised token limit is a number.
LEMMA GrownIsNat == limit \in Nat => Grown \in Nat
  BY RunnerAssumption DEF Grown

\* Every step keeps the bound on what was charged.
LEMMA RunnerStep == RunnerInv /\ [Next]_vars => RunnerInv'
  <1> SUFFICES ASSUME RunnerInv, [Next]_vars
               PROVE  RunnerInv'
    OBVIOUS
  <1> USE RunnerAssumption
  <1>0. at = "calling" => rows # <<>>
    BY DEF RunnerInv, TypeOK, Calls
  <1>1. CASE Elapse
    BY <1>1 DEF Elapse, RunnerInv, TypeOK, Calls
  <1>2. CASE DeadlineExceeded
    BY <1>2 DEF DeadlineExceeded, Return, RunnerInv, TypeOK, Calls
  <1>3. CASE Call
    <2>1. rows' \in Seq(Row) /\ Calls' = Calls + 1
      BY <1>3 DEF Call, RunnerInv, TypeOK, Row, Kind, Calls
    <2>2. QED
      BY <1>3, <2>1 DEF Call, RunnerInv, TypeOK
  <1>4. ASSUME NEW truncated \in BOOLEAN, NEW retryable \in BOOLEAN,
               TransportFails(truncated, retryable)
        PROVE  RunnerInv'
    <2>1. rows' \in Seq(Row) /\ Calls' = Calls
      BY <1>0, <1>4, RecordKeepsRows DEF TransportFails, RunnerInv
    <2>2. limit' \in Nat
      BY <1>4, GrownIsNat DEF TransportFails, RunnerInv, TypeOK
    <2>3. attempts < MaxAttempts /\ attempts' = attempts + 1 /\ repairing' = repairing
      BY <1>4 DEF TransportFails, Charged, NextTurn, RunnerInv
    <2>4. CASE retryable /\ ~(attempts' >= MaxAttempts)
      BY <1>4, <2>1, <2>2, <2>3, <2>4 DEF TransportFails, RunnerInv, TypeOK
    <2>5. CASE ~retryable \/ attempts' >= MaxAttempts
      BY <1>4, <2>1, <2>2, <2>3, <2>5 DEF TransportFails, Return, RunnerInv, TypeOK
    <2>6. QED
      BY <2>4, <2>5
  <1>5. CASE SchemaFails
    <2>1. rows' \in Seq(Row) /\ Calls' = Calls
      BY <1>0, <1>5, RecordKeepsRows DEF SchemaFails, RunnerInv
    <2>2. CASE repairs >= MaxRepairs
      BY <1>5, <2>1, <2>2 DEF SchemaFails, Return, RunnerInv, TypeOK
    <2>3. CASE ~(repairs >= MaxRepairs)
      BY <1>5, <2>1, <2>3 DEF SchemaFails, RunnerInv, TypeOK
    <2>4. QED
      BY <2>2, <2>3
  <1>6. CASE Succeeds
    <2>1. rows' \in Seq(Row) /\ Calls' = Calls
      BY <1>0, <1>6, RecordKeepsRows DEF Succeeds, RunnerInv
    <2>2. QED
      BY <1>6, <2>1 DEF Succeeds, Return, RunnerInv, TypeOK
  <1>7. CASE Raises
    BY <1>7 DEF Raises, Return, RunnerInv, TypeOK, Calls
  <1>8. CASE UNCHANGED vars
    BY <1>8 DEF vars, RunnerInv, TypeOK, Calls
  <1>9. QED
    BY <1>1, <1>2, <1>3, <1>4, <1>5, <1>6, <1>7, <1>8 DEF Next, Answer

\* Every call is charged to exactly one budget, in any order of failures.
THEOREM RunnerInvariant == Spec => []RunnerInv
  BY RunnerInit, RunnerStep, PTL DEF Spec

\* An extraction makes at most max_attempts + max_repairs calls, whatever the
\* budgets and whatever fails when.
THEOREM BoundedCalls == Spec => []CallsBounded
  <1>1. RunnerInv => CallsBounded
    BY RunnerAssumption DEF RunnerInv, TypeOK, CallsBounded
  <1>2. QED
    BY <1>1, RunnerInvariant, PTL

-----------------------------------------------------------------------------
(* What the recorder's rows tell. *)

\* A call appends a row; the end of a call changes the status of the last one.
LEMMA CallAppends ==
    ASSUME TypeOK, Call
    PROVE  /\ Calls \in Nat /\ Calls' = Calls + 1
           /\ \A n \in 1 .. Calls : rows'[n] = rows[n]
           /\ rows'[Calls + 1].kind = Kind /\ rows'[Calls + 1].status = "running"
  BY DEF TypeOK, Call, Calls

\* Recording an outcome changes the last row only.
LEMMA RecordChangesLast ==
    ASSUME TypeOK, rows # <<>>, NEW s \in {"provider_error", "schema_invalid", "validated"},
           Record(s)
    PROVE  /\ Calls \in Nat /\ Calls >= 1 /\ Calls' = Calls
           /\ \A n \in 1 .. Calls : n # Calls => rows'[n] = rows[n]
           /\ rows'[Calls].kind = rows[Calls].kind /\ rows'[Calls].status = s
  <1> DEFINE row == [rows[Calls] EXCEPT !.status = s]
  <1>1. rows \in Seq(Row) /\ Calls \in 1 .. Len(rows) /\ Calls = Len(rows)
    BY DEF TypeOK, Calls
  <1>2. rows[Calls] \in Row
    BY <1>1
  <1>3. row.kind = rows[Calls].kind /\ row.status = s
    BY <1>2 DEF Row
  <1>4. rows' = [rows EXCEPT ![Calls] = row]
    BY DEF Record
  <1> HIDE DEF row
  <1>5. rows'[Calls] = row /\ Calls' = Calls
    BY <1>1, <1>4 DEF Calls
  <1> QED
    BY <1>1, <1>3, <1>4, <1>5

\* The steps that end a call and record how.
EndsCall ==
    \/ \E truncated, retryable \in BOOLEAN : TransportFails(truncated, retryable)
    \/ SchemaFails
    \/ Succeeds

\* Once an answer did not fit the schema, the loop asks for corrections.
Repairing == at # "done" /\ RowsWith("schema_invalid") # {} => repairing

\* A repair follows an answer that did not validate, at every step.
LEMMA RepairingNext ==
    ASSUME RunnerInv, RepairsStayRepairs, Repairing, [Next]_vars
    PROVE  RepairsStayRepairs' /\ Repairing'
  <1>0. TypeOK /\ (at = "calling" => rows # <<>>)
    BY DEF RunnerInv, TypeOK, Calls
  <1>1. CASE Call
    <2>1. /\ Calls \in Nat /\ Calls' = Calls + 1
          /\ \A n \in 1 .. Calls : rows'[n] = rows[n]
          /\ rows'[Calls + 1].kind = Kind /\ rows'[Calls + 1].status = "running"
      BY <1>0, <1>1, CallAppends
    <2>2. (\E m \in 1 .. Calls : rows[m].status = "schema_invalid") => Kind = "repair"
      BY <1>1 DEF Call, Repairing, RowsWith, Kind
    <2>3. RepairsStayRepairs'
      <3> SUFFICES ASSUME NEW m \in 1 .. Calls', NEW n \in 1 .. Calls', m < n,
                          rows'[m].status = "schema_invalid"
                   PROVE  rows'[n].kind = "repair"
        BY DEF RepairsStayRepairs
      <3>1. m \in 1 .. Calls /\ rows[m].status = "schema_invalid"
        BY <2>1
      <3>2. CASE n = Calls + 1
        BY <2>1, <2>2, <3>1, <3>2
      <3>3. CASE n # Calls + 1
        BY <2>1, <3>1, <3>3 DEF RepairsStayRepairs
      <3> QED
        BY <3>2, <3>3
    <2>4. Repairing'
      <3>1. RowsWith("schema_invalid")' # {} => RowsWith("schema_invalid") # {}
        BY <2>1 DEF RowsWith
      <3> QED
        BY <1>1, <3>1 DEF Call, Repairing
    <2> QED
      BY <2>3, <2>4
  <1>2. CASE EndsCall
    <2>1. PICK s \in {"provider_error", "schema_invalid", "validated"} :
             /\ Record(s) /\ at = "calling"
             /\ s = "schema_invalid" => at' = "done" \/ repairing'
             /\ s # "schema_invalid" => repairing' = repairing
      BY <1>2 DEF EndsCall, TransportFails, NextTurn, SchemaFails, Succeeds, Return
    <2>2. /\ Calls \in Nat /\ Calls >= 1 /\ Calls' = Calls
          /\ \A n \in 1 .. Calls : n # Calls => rows'[n] = rows[n]
          /\ rows'[Calls].kind = rows[Calls].kind /\ rows'[Calls].status = s
      BY <1>0, <2>1, RecordChangesLast
    <2>3. RepairsStayRepairs'
      BY <2>2 DEF RepairsStayRepairs
    <2>4. s # "schema_invalid" /\ RowsWith("schema_invalid")' # {} => RowsWith("schema_invalid") # {}
      BY <2>2 DEF RowsWith
    <2>5. Repairing'
      BY <2>1, <2>4 DEF Repairing
    <2> QED
      BY <2>3, <2>5
  <1>3. CASE Elapse \/ DeadlineExceeded \/ Raises \/ UNCHANGED vars
    <2>1. UNCHANGED <<rows, repairing>> /\ (at' # "done" => at # "done")
      BY <1>3 DEF Elapse, DeadlineExceeded, Raises, Return, vars
    <2> QED
      BY <2>1 DEF RepairsStayRepairs, Repairing, RowsWith, Calls
  <1> QED
    BY <1>1, <1>2, <1>3 DEF Next, Answer, EndsCall

\* Every call after one that failed the schema carries the correction, whatever
\* fails in between (runner.py 181-204, 232-250).
THEOREM CorrectionsStand == Spec => []RepairsStayRepairs
  <1>1. Init => RepairsStayRepairs /\ Repairing
    BY DEF Init, RepairsStayRepairs, Repairing, RowsWith, Calls
  <1>2. RunnerInv /\ RepairsStayRepairs /\ Repairing /\ [Next]_vars
            => RepairsStayRepairs' /\ Repairing'
    BY RepairingNext
  <1> QED
    BY <1>1, <1>2, RunnerInvariant, PTL DEF Spec

\* The rows of each kind of failure are as many as were charged to its budget; a
\* call that is out has a row that says so.
Ledger ==
    /\ BudgetsIndependent
    /\ at = "calling" => rows[Calls].status = "running"

\* There are finitely many rows of a kind.
LEMMA RowsAreFinite ==
    ASSUME Calls \in Nat, NEW s
    PROVE  IsFiniteSet(RowsWith(s)) /\ Cardinality(RowsWith(s)) \in Nat
  <1>1. RowsWith(s) \subseteq 1 .. Calls /\ IsFiniteSet(1 .. Calls)
    BY FS_Interval DEF RowsWith
  <1> QED
    BY <1>1, FS_Subset, FS_CardinalityType

\* The call's row goes to the budget it is charged to.
LEMMA EndIsCharged ==
    ASSUME TypeOK, rows # <<>>, rows[Calls].status = "running",
           NEW s \in {"provider_error", "schema_invalid", "validated"}, Record(s)
    PROVE  \A t \in {"provider_error", "schema_invalid"} :
             Cardinality(RowsWith(t)') = Cardinality(RowsWith(t)) + (IF t = s THEN 1 ELSE 0)
  <1>1. /\ Calls \in Nat /\ Calls >= 1 /\ Calls' = Calls
        /\ \A n \in 1 .. Calls : n # Calls => rows'[n] = rows[n]
        /\ rows'[Calls].status = s
    BY RecordChangesLast
  <1> SUFFICES ASSUME NEW t \in {"provider_error", "schema_invalid"}
               PROVE  Cardinality(RowsWith(t)') = Cardinality(RowsWith(t)) + (IF t = s THEN 1 ELSE 0)
    OBVIOUS
  <1>2. IsFiniteSet(RowsWith(t)) /\ Cardinality(RowsWith(t)) \in Nat
    BY <1>1, RowsAreFinite
  <1>3. CASE t = s
    <2>1. Calls \notin RowsWith(t) /\ RowsWith(t)' = RowsWith(t) \cup {Calls}
      BY <1>1, <1>3 DEF RowsWith
    <2>2. Cardinality(RowsWith(t) \cup {Calls}) = Cardinality(RowsWith(t)) + 1
      BY <1>2, <2>1, FS_AddElement
    <2> QED
      BY <1>3, <2>1, <2>2
  <1>4. CASE t # s
    <2>1. RowsWith(t)' = RowsWith(t)
      BY <1>1, <1>4 DEF RowsWith
    <2> QED
      BY <1>2, <1>4, <2>1
  <1> QED
    BY <1>3, <1>4

\* Every step keeps the ledger: what is charged is what the rows say.
LEMMA LedgerNext ==
    ASSUME RunnerInv, Ledger, [Next]_vars
    PROVE  Ledger'
  <1> USE RunnerAssumption
  <1>0. /\ TypeOK /\ Calls \in Nat /\ (at = "calling" => rows # <<>>)
        /\ attempts \in Nat /\ repairs \in Nat
        /\ attempts = Cardinality(RowsWith("provider_error"))
        /\ repairs + (IF outcome = "repairs" THEN 1 ELSE 0) = Cardinality(RowsWith("schema_invalid"))
    BY DEF RunnerInv, TypeOK, Calls, Ledger, BudgetsIndependent
  <1>1. CASE Call
    <2>1. /\ Calls' = Calls + 1
          /\ \A n \in 1 .. Calls : rows'[n] = rows[n]
          /\ rows'[Calls + 1].status = "running"
      BY <1>0, <1>1, CallAppends
    <2>2. /\ RowsWith("provider_error")' = RowsWith("provider_error")
          /\ RowsWith("schema_invalid")' = RowsWith("schema_invalid")
      BY <1>0, <2>1 DEF RowsWith
    <2> QED
      BY <1>0, <1>1, <2>1, <2>2 DEF Call, Ledger, BudgetsIndependent
  <1>2. CASE \E truncated, retryable \in BOOLEAN : TransportFails(truncated, retryable)
    <2>1. /\ at = "calling" /\ Record("provider_error") /\ attempts' = attempts + 1
          /\ repairs' = repairs /\ (outcome' # "repairs" \/ outcome' = outcome)
          /\ outcome' = "attempts" => attempts' >= MaxAttempts
          /\ at' # "calling"
      BY <1>2 DEF TransportFails, Charged, Return, RunnerInv
    <2>2. /\ attempts < MaxAttempts /\ outcome = "none" /\ outcome' # "repairs"
      BY <1>2, <2>1 DEF RunnerInv, TransportFails, Return
    <2>3. /\ Cardinality(RowsWith("provider_error")') = Cardinality(RowsWith("provider_error")) + 1
          /\ Cardinality(RowsWith("schema_invalid")') = Cardinality(RowsWith("schema_invalid"))
      BY <1>0, <2>1, EndIsCharged, RowsAreFinite DEF Ledger
    <2> QED
      BY <1>0, <1>2, <2>1, <2>2, <2>3 DEF Ledger, BudgetsIndependent, TransportFails
  <1>3. CASE SchemaFails
    <2>1. /\ at = "calling" /\ Record("schema_invalid") /\ attempts' = attempts /\ at' # "calling"
          /\ \/ repairs >= MaxRepairs /\ outcome' = "repairs" /\ repairs' = repairs
             \/ outcome' = outcome /\ repairs' = repairs + 1
      BY <1>3 DEF SchemaFails, Return
    <2>2. outcome = "none" /\ repairs <= MaxRepairs
      BY <2>1 DEF RunnerInv
    <2>3. /\ Cardinality(RowsWith("provider_error")') = Cardinality(RowsWith("provider_error"))
          /\ Cardinality(RowsWith("schema_invalid")') = Cardinality(RowsWith("schema_invalid")) + 1
      BY <1>0, <2>1, EndIsCharged, RowsAreFinite DEF Ledger
    <2> QED
      BY <1>0, <2>1, <2>2, <2>3 DEF Ledger, BudgetsIndependent
  <1>4. CASE Succeeds
    <2>1. /\ at = "calling" /\ Record("validated") /\ at' # "calling"
          /\ outcome' = "envelope" /\ UNCHANGED <<attempts, repairs>>
      BY <1>4 DEF Succeeds, Return
    <2>2. outcome = "none"
      BY <2>1 DEF RunnerInv
    <2>3. /\ Cardinality(RowsWith("provider_error")') = Cardinality(RowsWith("provider_error"))
          /\ Cardinality(RowsWith("schema_invalid")') = Cardinality(RowsWith("schema_invalid"))
      BY <1>0, <2>1, EndIsCharged, RowsAreFinite DEF Ledger
    <2> QED
      BY <1>0, <2>1, <2>2, <2>3 DEF Ledger, BudgetsIndependent
  <1>5. CASE Elapse \/ DeadlineExceeded \/ Raises \/ UNCHANGED vars
    <2>1. /\ UNCHANGED <<rows, attempts, repairs>>
          /\ at' = "calling" => at = "calling"
          /\ outcome' = outcome \/ (outcome = "none" /\ outcome' \in {"deadline", "raised"})
      BY <1>5 DEF Elapse, DeadlineExceeded, Raises, Return, RunnerInv, vars
    <2>2. /\ RowsWith("provider_error")' = RowsWith("provider_error")
          /\ RowsWith("schema_invalid")' = RowsWith("schema_invalid")
      BY <2>1 DEF RowsWith, Calls
    <2> QED
      BY <1>0, <2>1, <2>2 DEF Ledger, BudgetsIndependent, Calls
  <1> QED
    BY <1>1, <1>2, <1>3, <1>4, <1>5 DEF Next, Answer

\* Neither kind of failure draws on the other's budget, for all budgets, and
\* extraction is given up for want of either only when it is spent.
THEOREM IndependentBudgets == Spec => []BudgetsIndependent
  <1>1. Init => Ledger
    <2> SUFFICES ASSUME Init PROVE Ledger
      OBVIOUS
    <2>1. RowsWith("provider_error") = {} /\ RowsWith("schema_invalid") = {}
      BY DEF Init, RowsWith, Calls
    <2>2. Cardinality({}) = 0
      BY FS_EmptySet
    <2>3. /\ Cardinality(RowsWith("provider_error")) = 0
          /\ Cardinality(RowsWith("schema_invalid")) = 0
      BY <2>1, <2>2
    <2> QED
      BY <2>3 DEF Init, Ledger, BudgetsIndependent
  <1>2. RunnerInv /\ Ledger /\ [Next]_vars => Ledger'
    BY LedgerNext
  <1>3. Ledger => BudgetsIndependent
    BY DEF Ledger
  <1> QED
    BY <1>1, <1>2, <1>3, RunnerInvariant, PTL DEF Spec
-----------------------------------------------------------------------------
(* The loop inside extraction is the loop of LlmRunner. *)

\* What is taken of a reply is what the loop may be answered.
LEMMA TakeIsAnswer ==
    ASSUME NEW result, result.retryable \in BOOLEAN, Take(result)
    PROVE  Answer
  BY (result.code = "TRUNCATED_OUTPUT") \in BOOLEAN DEF Take, Answer

\* What the adapters agree on about the reply r and what they make of it.
Agreed(r, result) ==
    /\ result.kind \in {"failure", "response", "unforeseen"} /\ result.retryable \in BOOLEAN
    /\ result.kind = "unforeseen" => r.body # "object" \/ r.error = "text"
    /\ result.kind # "unforeseen" /\ (CutOff(r) \/ Busy(r)) =>
           result.kind = "failure" /\ result.retryable
    /\ result.kind # "unforeseen" /\ r.named = "none" /\ (Declined(r) \/ Denied(r)) =>
           result.kind = "failure" /\ ~result.retryable
    /\ result.kind = "response" /\ result.code = "object" => r.said \in {"object", "fenced_object"}

\* The codes that end the loop at once.
PermanentCodes ==
    {"AUTH_FAILED", "MODEL_UNAVAILABLE", "BAD_REQUEST", "CONTENT_BLOCKED", "UNPARSEABLE_RESPONSE"}

\* What is worth another call is agreed on where nothing was refused for good.
LEMMA RetryableFailure ==
    ASSUME NEW r, NEW code \in RetryableCodes, r.named = "none" => ~Declined(r) /\ ~Denied(r)
    PROVE  Agreed(r, Failure(code))
  <1>1. /\ Failure(code).kind = "failure" /\ Failure(code).retryable = TRUE
    BY DEF Failure
  <1> QED
    BY <1>1, Zenon DEF Agreed

\* What is final is agreed on where another call could not help.
LEMMA PermanentFailure ==
    ASSUME NEW r, NEW code \in PermanentCodes, ~CutOff(r), ~Busy(r)
    PROVE  Agreed(r, Failure(code))
  <1>1. code \notin RetryableCodes
    BY DEF PermanentCodes, RetryableCodes
  <1>2. (code \in RetryableCodes) = FALSE
    BY <1>1
  <1>3. /\ Failure(code).kind = "failure" /\ Failure(code).retryable = FALSE
    BY <1>2, Zenon DEF Failure
  <1> QED
    BY <1>3, Zenon DEF Agreed

\* A reply that is none of these is handed to the loop as it is.
LEMMA GoodResponse ==
    ASSUME NEW r, NEW payload, ~CutOff(r), ~Busy(r), ~Declined(r), ~Denied(r),
           payload = "object" => r.said \in {"object", "fenced_object"}
    PROVE  Agreed(r, Response(payload))
  <1>1. /\ Response(payload).kind = "response" /\ Response(payload).code = payload
        /\ Response(payload).retryable = FALSE
    BY DEF Response
  <1> QED
    BY <1>1, Zenon DEF Agreed

\* A body that none foresees is handed to nobody.
LEMMA NotForeseen ==
    ASSUME NEW r, r.body # "object" \/ r.error = "text"
    PROVE  Agreed(r, Unforeseen)
  <1>1. Unforeseen.kind = "unforeseen" /\ Unforeseen.retryable = FALSE
    BY DEF Unforeseen
  <1> QED
    BY <1>1, Zenon DEF Agreed

\* A status other than 200, by its number and then by what Gemini's body names.
LEMMA RefusalsAgree ==
    ASSUME NEW a \in Adapter, NEW r \in Reply, r.wire = "answered",
           r.status \in {400, 401, 403, 404, 429, 500, 503, 529}
    PROVE  Agreed(r, Classify(a, r))
  <1>1. ~CutOff(r) /\ ~Declined(r)
    BY DEF CutOff, Declined
  <1>2. Agreed(r, ClassifyStatus(r.status))
    <2>1. CASE r.status \in {400, 401, 403, 404}
      <3>1. ~Busy(r)
        BY <2>1 DEF Busy
      <3>2. \E code \in PermanentCodes : ClassifyStatus(r.status) = Failure(code)
        BY <2>1 DEF ClassifyStatus, PermanentCodes
      <3> QED
        BY <1>1, <3>1, <3>2, PermanentFailure
    <2>2. CASE r.status \in {429, 500, 503, 529}
      <3>1. ~Denied(r)
        BY <2>2 DEF Denied
      <3>2. \E code \in RetryableCodes : ClassifyStatus(r.status) = Failure(code)
        BY <2>2 DEF ClassifyStatus, RetryableCodes
      <3> QED
        BY <1>1, <3>1, <3>2, RetryableFailure
    <2> QED
      BY <2>1, <2>2
  <1>3. ASSUME r.named # "none"
        PROVE  Agreed(r, Failure(NamedByGemini[r.named]))
    <2>1. NamedByGemini[r.named] \in RetryableCodes
      BY <1>3 DEF NamedByGemini, RetryableCodes, Reply
    <2> QED
      BY <1>3, <2>1, RetryableFailure
  <1>4. r.error = "text" => Agreed(r, Unforeseen)
    BY NotForeseen
  <1> QED
    BY <1>2, <1>3, <1>4 DEF Classify

\* A body that arrived, by why generation stopped and only then by what it holds.
LEMMA BodiesAgree ==
    ASSUME NEW a \in Adapter, NEW r \in Reply, r.wire = "answered", r.status = 200
    PROVE  Agreed(r, Read(a, r))
  <1>1. ~Busy(r) /\ ~Denied(r)
    BY DEF Busy, Denied
  <1>2. CASE r.body = "other_json"
    BY <1>2, NotForeseen DEF Read
  <1>3. CASE r.body # "other_json" /\ r.stop = "limit"
    <2>1. Read(a, r) = Failure("TRUNCATED_OUTPUT") /\ "TRUNCATED_OUTPUT" \in RetryableCodes
      BY <1>3 DEF Read, ReadOpenAi, ReadGemini, ReadAnthropic, RetryableCodes
    <2>2. ~Declined(r)
      BY <1>3 DEF Declined
    <2> QED
      BY <1>1, <2>1, <2>2, RetryableFailure
  <1>4. CASE r.body # "other_json" /\ r.stop # "limit"
    <2>1. ~CutOff(r) /\ (r.stop # "refusal" => ~Declined(r))
      BY <1>4 DEF CutOff, Declined
    <2>2. \/ \E code \in PermanentCodes : Read(a, r) = Failure(code)
          \/ /\ r.stop # "refusal"
             /\ \E payload \in {"object", "none"} :
                   /\ Read(a, r) = Response(payload)
                   /\ payload = "object" => r.said \in {"object", "fenced_object"}
      BY <1>4 DEF Read, ReadOpenAi, ReadGemini, ReadAnthropic, Parsed, PermanentCodes
    <2> QED
      BY <1>1, <2>1, <2>2, PermanentFailure, GoodResponse
  <1> QED
    BY <1>2, <1>3, <1>4

\* Every adapter, of every reply its provider could send.
LEMMA AdaptersAgree ==
    ASSUME NEW a \in Adapter, NEW r \in Reply
    PROVE  Agreed(r, Complete(a, r))
  <1>1. /\ r.status \in {200, 400, 401, 403, 404, 429, 500, 503, 529}
        /\ r.wire \in {"timeout", "unreachable", "answered"}
    BY DEF Reply
  <1>2. r.wire # "answered" => ~Declined(r) /\ ~Denied(r)
    BY DEF Declined, Denied
  <1>3. CASE r.wire \in {"timeout", "unreachable"}
    <2>1. \E code \in RetryableCodes : Complete(a, r) = Failure(code)
      BY <1>3 DEF Complete, RetryableCodes
    <2> QED
      BY <1>2, <1>3, <2>1, RetryableFailure
  <1>4. CASE r.wire = "answered" /\ r.status # 200
    BY <1>1, <1>4, RefusalsAgree DEF Complete
  <1>5. CASE r.wire = "answered" /\ r.status = 200 /\ r.body = "no_json"
    <2>1. Complete(a, r) = Failure("SERVER_ERROR") /\ "SERVER_ERROR" \in RetryableCodes
      BY <1>5 DEF Complete, RetryableCodes
    <2>2. ~Declined(r) /\ ~Denied(r)
      BY <1>5 DEF Declined, Denied
    <2> QED
      BY <2>1, <2>2, RetryableFailure
  <1>6. CASE r.wire = "answered" /\ r.status = 200 /\ r.body # "no_json"
    BY <1>6, BodiesAgree DEF Complete
  <1> QED
    BY <1>1, <1>3, <1>4, <1>5, <1>6

\* Every step of extraction is a step of the loop, or none.
LEMMA ExtractionRunnerStep == [ExtractionNext]_extractionVars => [Next]_vars
  <1> SUFFICES ASSUME [ExtractionNext]_extractionVars
               PROVE  [Next]_vars
    OBVIOUS
  <1>1. CASE ReadPage \/ RenderPrompt \/ MakeDrafts \/ Rebuild \/ UNCHANGED extractionVars
    BY <1>1 DEF ReadPage, RenderPrompt, MakeDrafts, Rebuild, extractionVars
  <1>2. CASE Ask \/ Wait
    BY <1>2 DEF Ask, Wait, Next
  <1>3. ASSUME NEW r \in Replies, ProviderReplies(r)
        PROVE  Next
    BY <1>3, ExtractionAssumption, AdaptersAgree, TakeIsAnswer DEF ProviderReplies, Next, Agreed
  <1>4. CASE OfflineReplies
    BY <1>4 DEF OfflineReplies, Answer, Next
  <1> QED
    BY <1>1, <1>2, <1>3, <1>4 DEF ExtractionNext, Replied

\* Whatever page is read, provider asked and reply received, the loop behind
\* extraction is the loop of LlmRunner (runner.py knows no provider).
THEOREM ExtractionImplementsRunner == ExtractionSpec => Spec
  <1>1. ExtractionInit => Init
    BY DEF ExtractionInit
  <1> QED
    BY <1>1, ExtractionRunnerStep, PTL DEF ExtractionSpec, Spec

-----------------------------------------------------------------------------
(* The reply at hand and what the loop made of it. *)

\* What the loop has recorded when a reply came to result.
Taken(result) ==
    /\ at # "calling"
    /\ result.kind = "failure" =>
           /\ rows[Calls].status = "provider_error"
           /\ outcome \in IF result.retryable THEN {"none", "attempts"} ELSE {"permanent"}
    /\ result.kind = "response" =>
           \/ rows[Calls].status = "schema_invalid" /\ outcome \in {"none", "repairs"}
           \/ rows[Calls].status = "validated" /\ outcome = "envelope" /\ result.code = "object"
    /\ result.kind = "unforeseen" => rows[Calls].status = "running" /\ outcome = "raised"

\* The inductive invariant: the last row and the outcome are those of the last
\* reply until the loop goes on, and no other row is still open.
ReplyInv ==
    /\ provider \in Adapter \cup {Offline}
    /\ at = "calling" => rows[Calls].status = "running" /\ said = NoReply
    /\ said # NoReply =>
           said \in Replies /\ provider \in Adapter /\ Taken(Complete(provider, said))

\* What is taken of a reply is recorded in the row of its call.
LEMMA TakeRecords ==
    ASSUME RunnerInv, ReplyInv, NEW result, result.retryable \in BOOLEAN, Take(result)
    PROVE  Taken(result)'
  <1>1. /\ at = "calling" /\ TypeOK /\ rows # <<>> /\ outcome = "none"
        /\ rows[Calls].status = "running"
    <2>1. at = "calling"
      BY DEF Take, TransportFails, SchemaFails, Succeeds, Raises
    <2> QED
      BY <2>1 DEF RunnerInv, TypeOK, Calls, ReplyInv
  <1>2. CASE result.kind = "failure"
    <2>1. TransportFails(result.code = "TRUNCATED_OUTPUT", result.retryable)
      BY <1>2 DEF Take
    <2>2. Record("provider_error") /\ at' # "calling"
      BY <2>1 DEF TransportFails, Return
    <2>3. rows'[Calls'].status = "provider_error"
      BY <1>1, <2>2, RecordChangesLast
    <2>4. outcome' \in IF result.retryable THEN {"none", "attempts"} ELSE {"permanent"}
      BY <1>1, <2>1 DEF TransportFails, Return
    <2> QED
      BY <1>2, <2>2, <2>3, <2>4 DEF Taken, Calls
  <1>3. CASE result.kind = "response" /\ SchemaFails
    <2>1. Record("schema_invalid") /\ at' # "calling" /\ outcome' \in {"none", "repairs"}
      BY <1>1, <1>3 DEF SchemaFails, Return
    <2>2. rows'[Calls'].status = "schema_invalid"
      BY <1>1, <2>1, RecordChangesLast
    <2> QED
      BY <1>3, <2>1, <2>2 DEF Taken, Calls
  <1>4. CASE result.kind = "response" /\ result.code = "object" /\ Succeeds
    <2>1. Record("validated") /\ at' # "calling" /\ outcome' = "envelope"
      BY <1>4 DEF Succeeds, Return
    <2>2. rows'[Calls'].status = "validated"
      BY <1>1, <2>1, RecordChangesLast
    <2> QED
      BY <1>4, <2>1, <2>2 DEF Taken, Calls
  <1>5. CASE result.kind = "unforeseen" /\ Raises
    BY <1>1, <1>5 DEF Raises, Return, Taken, Calls
  <1> QED
    BY <1>2, <1>3, <1>4, <1>5 DEF Take

\* Steps that leave the last call as it ended.
LEMMA TakenStands ==
    ASSUME NEW result, Taken(result), UNCHANGED <<at, rows, outcome>>
    PROVE  Taken(result)'
  BY DEF Taken, Calls

\* Every step keeps what is known of the last reply.
LEMMA ReplyNext ==
    ASSUME RunnerInv, ReplyInv, [ExtractionNext]_extractionVars
    PROVE  ReplyInv'
  <1> DEFINE Same == UNCHANGED <<at, rows, outcome, provider, said>>
  <1>1. ASSUME Same
        PROVE  ReplyInv'
    BY <1>1 DEF ReplyInv, Taken, Calls
  <1>2. CASE ReadPage \/ RenderPrompt \/ MakeDrafts \/ Rebuild \/ UNCHANGED extractionVars
    BY <1>1, <1>2 DEF ReadPage, RenderPrompt, MakeDrafts, Rebuild, extractionVars, exchange, vars
  <1>3. CASE Wait
    BY <1>1, <1>3 DEF Wait, Elapse, exchange
  <1>4. CASE Ask
    <2>1. said' = NoReply /\ provider' = provider
      BY <1>4 DEF Ask
    <2>2. CASE Call
      <3>1. Calls' = Calls + 1 /\ rows'[Calls + 1].status = "running"
        BY <2>2, CallAppends DEF RunnerInv
      <3> QED
        BY <2>1, <3>1 DEF ReplyInv
    <2>3. CASE DeadlineExceeded
      BY <2>1, <2>3 DEF DeadlineExceeded, Return, ReplyInv
    <2> QED
      BY <1>4, <2>2, <2>3 DEF Ask
  <1>5. ASSUME NEW r \in Replies, ProviderReplies(r)
        PROVE  ReplyInv'
    <2>1. PICK a \in Adapter : a = provider
      BY <1>5 DEF ProviderReplies
    <2>2. Take(Complete(a, r)) /\ said' = r /\ provider' = a
      BY <1>5, <2>1 DEF ProviderReplies
    <2>3. Complete(a, r).retryable \in BOOLEAN
      BY ExtractionAssumption, AdaptersAgree DEF Agreed
    <2>4. Taken(Complete(a, r))'
      BY <2>2, <2>3, TakeRecords
    <2>5. at' # "calling"
      BY <2>4 DEF Taken
    <2> QED
      BY <2>2, <2>4, <2>5 DEF ReplyInv
  <1>6. CASE OfflineReplies
    <2>1. said' = said /\ provider' = provider /\ provider = Offline /\ at' # "calling"
      BY <1>6 DEF OfflineReplies, SchemaFails, Succeeds, Return
    <2>2. Offline \notin Adapter
      BY DEF Offline, Adapter
    <2> QED
      BY <2>1, <2>2 DEF ReplyInv
  <1> QED
    BY <1>2, <1>3, <1>4, <1>5, <1>6 DEF ExtractionNext, Replied

\* What the loop holds about its calls, it holds whatever is asked.
THEOREM ExtractionKeepsRunner == ExtractionSpec => [](RunnerInv /\ ReplyInv)
  <1>1. ExtractionInit => ReplyInv
    BY DEF ExtractionInit, Init, ReplyInv
  <1>2. RunnerInv /\ ReplyInv /\ [ExtractionNext]_extractionVars => ReplyInv'
    BY ReplyNext
  <1> QED
    BY <1>1, <1>2, ExtractionImplementsRunner, RunnerInvariant, PTL DEF ExtractionSpec

\* What the loop recorded of a reply is what the adapters agree on.
LEMMA TakenIsClassified == ReplyInv => AnswersAreClassified
  <1> SUFFICES ASSUME ReplyInv, said # NoReply
               PROVE  AnswersAreClassified
    BY DEF AnswersAreClassified
  <1>1. /\ said \in Reply /\ provider \in Adapter
        /\ Taken(Complete(provider, said)) /\ Agreed(said, Complete(provider, said))
    BY ExtractionAssumption, AdaptersAgree DEF ReplyInv
  <1> QED
    BY <1>1, Zenon DEF Taken, Agreed, AnswersAreClassified

\* A cut-off answer is never taken for one, what is busy is asked again, what is
\* refused is not, and only an undocumented body escapes, of every provider
\* (openai.py, gemini.py, anthropic.py, http.py).
THEOREM RepliesAreClassified == ExtractionSpec => []AnswersAreClassified
  BY TakenIsClassified, ExtractionKeepsRunner, PTL

-----------------------------------------------------------------------------
(* Reading: no text is lost. *)

\* A page that an engine can find, read either way.
LEMMA PageIsRead ==
    ASSUME NEW s \in Scans, NEW e
    PROVE  LET B == BlocksOf(e, s)
               W == ToSet(Recognised(s.words))
           IN /\ B \in Seq(ToSet(B))
              /\ IF e = "tesseract" \/ Degraded(s) # {}
                 THEN \A w \in W : Cardinality({n \in DOMAIN B : w \in ToSet(B[n].text)}) = 1
                 ELSE \A w \in W : (\E n \in DOMAIN s.lines : Spans(s.lines[n], w.box)) =>
                                    {n \in DOMAIN B : w \in ToSet(B[n].text)} # {}
  <1> DEFINE R == Recognised(s.words)
             M == MergeLines(s.lines)
             B == BlocksOf(e, s)
  <1>1. ScansPage(s)
    BY ExtractionAssumption
  <1>2. PageWidth \in Nat /\ PageHeight \in Nat /\ Padding \in Nat
    BY ExtractionAssumption
  <1>3. s.words \in Seq(WordRow) /\ s.lines \in Seq(Box)
    BY <1>1 DEF ScansPage
  <1>4. R \in Seq(WordRow) /\ ToSet(R) \subseteq ToSet(s.words)
    BY <1>3, RecognisedWords
  <1>5. CASE e = "tesseract" \/ Degraded(s) # {}
    <2>1. B = Assemble(R, PageWidth)
      BY <1>5 DEF BlocksOf
    <2> HIDE DEF B, R
    <2>2. /\ B \in Seq(ToSet(B))
          /\ \A w \in ToSet(R) : Cardinality({n \in DOMAIN B : w \in ToSet(B[n].text)}) = 1
      BY <1>4, <2>1, AssembleKeeps
    <2> QED
      BY <1>5, <2>2 DEF B, R
  <1>6. CASE ~(e = "tesseract" \/ Degraded(s) # {})
    <2>1. B = Recognise(R, M, PageWidth, PageHeight, Padding)
      BY <1>6 DEF BlocksOf
    <2>2. M \in Seq(Box) /\ Covers(M, s.lines)
      BY <1>3, MergeLinesCovers
    <2> HIDE DEF B, M, R
    <2>3. /\ B \in Seq(ToSet(B))
          /\ \A j \in DOMAIN M : \A w \in ToSet(R) :
                /\ Spans(M[j], w.box) /\ Spans(FromEdges(0, 0, PageWidth, PageHeight), w.box)
                /\ w.box.width > 0 /\ w.box.height > 0
                => \E n \in DOMAIN B : w \in ToSet(B[n].text)
      BY <1>2, <1>4, <2>1, <2>2, RecogniseKeeps
    <2>4. ASSUME NEW w \in ToSet(R), NEW i \in DOMAIN s.lines, Spans(s.lines[i], w.box)
          PROVE  \E n \in DOMAIN B : w \in ToSet(B[n].text)
      <3>1. PICK n \in DOMAIN s.words : s.words[n] = w
        BY <1>4 DEF ToSet
      <3>2. /\ w.box.width > 0 /\ w.box.height > 0
            /\ Spans(FromEdges(0, 0, PageWidth, PageHeight), w.box)
        BY <1>1, <3>1 DEF ScansPage
      <3>3. w \in WordRow
        BY <1>3, <3>1
      <3>4. w.box \in Box /\ s.lines[i] \in Box
        BY <1>3, <3>3, WordFields
      <3>5. PICK j \in DOMAIN M : Spans(M[j], s.lines[i])
        BY <2>2 DEF Covers
      <3>6. Spans(M[j], w.box)
        <4>1. M[j] \in Box
          BY <2>2
        <4> QED
          BY <2>4, <3>4, <3>5, <4>1, SpansTwice
      <3> QED
        BY <2>3, <3>2, <3>6
    <2>5. \A w \in ToSet(R) : (\E n \in DOMAIN s.lines : Spans(s.lines[n], w.box)) =>
                                {n \in DOMAIN B : w \in ToSet(B[n].text)} # {}
      BY <2>4
    <2> QED
      BY <1>6, <2>3, <2>5 DEF B, R
  <1> QED
    BY <1>5, <1>6

\* The page keeps to what was made of it.
PageInv ==
    /\ stage \in {"scanned", "read"} => scan \in Scans
    /\ stage = "read" => blocks = BlocksOf(engine, scan) /\ flags = FlagsOf(engine, scan)

\* It holds of a page that is yet to be read.
LEMMA PageInit == ExtractionInit => PageInv
  BY DEF ExtractionInit, PageInv

\* And no step but reading touches it.
LEMMA PageNext == PageInv /\ [ExtractionNext]_extractionVars => PageInv'
  <1> SUFFICES ASSUME PageInv, [ExtractionNext]_extractionVars
               PROVE  PageInv'
    OBVIOUS
  <1>1. CASE ReadPage
    BY <1>1 DEF ReadPage, PageInv
  <1>2. CASE RenderPrompt
    BY <1>2 DEF RenderPrompt, PageInv
  <1>3. CASE Wait \/ Ask \/ Replied \/ UNCHANGED extractionVars
    <2>1. UNCHANGED page
      BY <1>3 DEF Wait, Ask, Replied, ProviderReplies, OfflineReplies, extractionVars
    <2> QED
      BY <2>1 DEF page, PageInv
  <1>4. CASE MakeDrafts \/ Rebuild
    BY <1>4 DEF MakeDrafts, Rebuild, PageInv
  <1> QED
    BY <1>1, <1>2, <1>3, <1>4 DEF ExtractionNext

\* A page that keeps to it has lost no text.
LEMMA PageLosesNothing == PageInv => NoTextIsLost
  <1> SUFFICES ASSUME PageInv, stage = "read"
               PROVE  NoTextIsLost
    BY DEF NoTextIsLost
  <1>1. scan \in Scans /\ blocks = BlocksOf(engine, scan) /\ flags = FlagsOf(engine, scan)
    BY DEF PageInv
  <1>2. IF engine = "tesseract" \/ Degraded(scan) # {}
        THEN \A w \in Recognisable : Cardinality(BlocksWith(w)) = 1
        ELSE \A w \in Recognisable :
                 (\E n \in DOMAIN scan.lines : Spans(scan.lines[n], w.box)) => BlocksWith(w) # {}
    BY <1>1, PageIsRead, Zenon DEF Recognisable, BlocksWith
  <1>3. engine # "tesseract" => Degraded(scan) \subseteq flags
    BY <1>1 DEF FlagsOf
  <1>4. engine = "paddle_tesseract" /\ Degraded(scan) # {} => flags # {}
    BY <1>3
  <1> QED
    BY <1>2, <1>4 DEF NoTextIsLost

\* "Losing text silently is the one outcome worse than a degraded result": it does
\* not happen, whatever the engines find and however lines are merged.
THEOREM ReadingLosesNothing == ExtractionSpec => []NoTextIsLost
  <1>1. ExtractionSpec => []PageInv
    BY PageInit, PageNext, PTL DEF ExtractionSpec
  <1> QED
    BY <1>1, PageLosesNothing, PTL

-----------------------------------------------------------------------------
(* Reading: the same page makes the same blocks. *)

\* What evidence depends on.
LEMMA SameEvidence ==
    ASSUME NEW A, NEW B, DOMAIN A = DOMAIN B,
           \A n \in DOMAIN A : /\ A[n].id = B[n].id /\ A[n].box = B[n].box
                               /\ ToSet(A[n].text) = ToSet(B[n].text)
    PROVE  Evidence(A) = Evidence(B)
  BY DEF Evidence

\* Reading a whole page whose blocks have corners of their own: the order of the
\* words makes no difference.
LEMMA AssembleIsCanonical ==
    ASSUME NEW words \in Seq(WordRow), NEW others \in Seq(WordRow), ToSet(words) = ToSet(others),
           NEW width \in Nat,
           Apart([n \in DOMAIN Assemble(words, width) |-> Assemble(words, width)[n].box])
    PROVE  Evidence(Assemble(others, width)) = Evidence(Assemble(words, width))
  <1> DEFINE s == GroupIntoBlocks(words)
             t == GroupIntoBlocks(others)
             T == ToSet(s) \cup ToSet(t)
             A == Assemble(words, width)
             B == Assemble(others, width)
             rs == ReadingOrder(s, width)
             rt == ReadingOrder(t, width)
  <1>1. A = AssignIds(rs) /\ B = AssignIds(rt)
    BY DEF Assemble
  <1>2. s \in Seq(ToSet(s)) /\ t \in Seq(ToSet(t))
    BY GroupedBlocks
  <1>3. s \in Seq(T) /\ t \in Seq(T)
    <2> HIDE DEF s, t
    <2>1. /\ DOMAIN s = 1 .. Len(s) /\ Len(s) \in Nat /\ DOMAIN t = 1 .. Len(t) /\ Len(t) \in Nat
          /\ s \in [1 .. Len(s) -> T] /\ t \in [1 .. Len(t) -> T]
      BY <1>2
    <2> HIDE DEF T
    <2> QED
      BY <2>1, FunctionIsList
  <1>4. \A b \in T : IsBlock(b) /\ b.page \in Int /\ b.box.left \in Int /\ b.box.top \in Int
    <2>1. /\ \A b \in ToSet(s) : IsBlock(b) /\ b.page \in Int /\ b.box.left \in Int /\ b.box.top \in Int
          /\ \A b \in ToSet(t) : IsBlock(b) /\ b.page \in Int /\ b.box.left \in Int /\ b.box.top \in Int
      BY GroupedBlocks
    <2> HIDE DEF s, t
    <2> QED
      BY <2>1
  <1>5. /\ \A i \in DOMAIN s : \E j \in DOMAIN t : SameBlock(s[i], t[j])
        /\ \A i \in DOMAIN t : \E j \in DOMAIN s : SameBlock(t[i], s[j])
        /\ \A i, j \in DOMAIN t : SameBlock(t[i], t[j]) => i = j
    BY SameParagraphs, BlocksDiffer
  <1> HIDE DEF s, t, T, A, B
  <1>6. rs \in Seq(T) /\ Len(rs) = Len(s) /\ Rearranged(s, rs)
    BY <1>3, <1>4, ReadingOrderKeeps
  <1>7. rt \in Seq(T) /\ Len(rt) = Len(t)
    BY <1>3, <1>4, ReadingOrderKeeps
  <1>8. /\ DOMAIN A = DOMAIN rs
        /\ \A n \in DOMAIN rs : A[n].text = rs[n].text /\ A[n].box = rs[n].box /\ A[n].id = n
    BY <1>1, <1>4, <1>6, AssignIdsKeeps
  <1>9. /\ DOMAIN B = DOMAIN rt
        /\ \A n \in DOMAIN rt : B[n].text = rt[n].text /\ B[n].box = rt[n].box /\ B[n].id = n
    BY <1>1, <1>4, <1>7, AssignIdsKeeps
  <1>10. Cornered(s)
    <2> SUFFICES ASSUME NEW i \in DOMAIN s, NEW j \in DOMAIN s,
                        s[i].box.left = s[j].box.left, s[i].box.top = s[j].box.top
                 PROVE  i = j
      BY DEF Cornered
    <2>1. DOMAIN rs = DOMAIN s
      BY <1>3, <1>6
    <2>2. PICK place \in [DOMAIN s -> DOMAIN s] :
                 /\ \A n \in DOMAIN s : \E k \in DOMAIN s : place[k] = n
                 /\ \A k \in DOMAIN s : rs[k] = s[place[k]]
      BY <1>6 DEF Rearranged
    <2>3. PICK k \in DOMAIN s, l \in DOMAIN s : place[k] = i /\ place[l] = j
      BY <2>2
    <2>4. A[k].box = s[i].box /\ A[l].box = s[j].box /\ k \in DOMAIN A /\ l \in DOMAIN A
      BY <1>8, <2>1, <2>2, <2>3
    <2>5. k = l
      <3> DEFINE boxes == [n \in DOMAIN A |-> A[n].box]
      <3>1. Apart(boxes)
        BY DEF A
      <3>2. \A m, n \in DOMAIN boxes :
               m # n => boxes[m].left # boxes[n].left \/ boxes[m].top # boxes[n].top
        BY <3>1 DEF Apart
      <3>3. k \in DOMAIN boxes /\ l \in DOMAIN boxes /\ boxes[k] = A[k].box /\ boxes[l] = A[l].box
        BY <2>4
      <3> HIDE DEF boxes
      <3> QED
        BY <2>4, <3>2, <3>3
    <2> QED
      BY <2>3, <2>5
  <1>11. Cornered(t)
    <2> SUFFICES ASSUME NEW i \in DOMAIN t, NEW j \in DOMAIN t,
                        t[i].box.left = t[j].box.left, t[i].box.top = t[j].box.top
                 PROVE  i = j
      BY DEF Cornered
    <2>1. PICK k \in DOMAIN s, l \in DOMAIN s : SameBlock(t[i], s[k]) /\ SameBlock(t[j], s[l])
      BY <1>5
    <2>2. k = l
      BY <1>10, <2>1 DEF SameBlock, Cornered
    <2> QED
      BY <1>5, <2>1, <2>2 DEF SameBlock
  <1>12. (\A b \in T : Placed(b)) /\ SameCorners(s, t)
    BY <1>4, <1>5 DEF Placed, SameBlock, SameCorner, SameCorners
  <1>13. /\ Len(s) = Len(t)
         /\ \A n \in DOMAIN s : \E i \in DOMAIN s, j \in DOMAIN t :
               rs[n] = s[i] /\ rt[n] = t[j] /\ SameCorner(s[i], t[j])
    <2>1. ReadAlike(s, t, width)
      BY <1>3, <1>10, <1>11, <1>12, ReadingOrderAlike
    <2> QED
      BY <2>1 DEF ReadAlike
  <1> HIDE DEF rs, rt
  <1>14. DOMAIN A = DOMAIN B /\ DOMAIN A = DOMAIN s /\ DOMAIN rs = DOMAIN s /\ DOMAIN rt = DOMAIN s
    <2>1. /\ DOMAIN rs = 1 .. Len(rs) /\ DOMAIN rt = 1 .. Len(rt) /\ DOMAIN s = 1 .. Len(s)
      BY <1>3, <1>6, <1>7
    <2>2. Len(rs) = Len(s) /\ Len(rt) = Len(s)
      BY <1>6, <1>7, <1>13
    <2> QED
      BY <1>8, <1>9, <2>1, <2>2
  <1>15. ASSUME NEW n \in DOMAIN A
         PROVE  /\ A[n].id = B[n].id /\ A[n].box = B[n].box
                /\ ToSet(A[n].text) = ToSet(B[n].text)
    <2>1. PICK i \in DOMAIN s, j \in DOMAIN t :
                 rs[n] = s[i] /\ rt[n] = t[j] /\ SameCorner(s[i], t[j])
      BY <1>13, <1>14
    <2>2. PICK k \in DOMAIN t : SameBlock(s[i], t[k])
      BY <1>5
    <2>3. k = j
      BY <1>11, <2>1, <2>2 DEF SameBlock, SameCorner, Cornered
    <2>4. A[n].text = s[i].text /\ A[n].box = s[i].box /\ A[n].id = n
      BY <1>8, <1>14, <2>1
    <2>5. B[n].text = t[j].text /\ B[n].box = t[j].box /\ B[n].id = n
      BY <1>9, <1>14, <2>1
    <2> QED
      BY <2>2, <2>3, <2>4, <2>5 DEF SameBlock
  <1>16. Evidence(A) = Evidence(B)
    BY <1>14, <1>15, SameEvidence
  <1> QED
    BY <1>16 DEF A, B

\* Reading by regions: the order of the words makes no difference.
LEMMA RecogniseIsCanonical ==
    ASSUME NEW words \in Seq(WordRow), NEW others \in Seq(WordRow), ToSet(words) = ToSet(others),
           NEW regions \in Seq(Box), NEW W, NEW H, NEW pad
    PROVE  Evidence(Recognise(others, regions, W, H, pad))
              = Evidence(Recognise(words, regions, W, H, pad))
  <1> DEFINE ordered == Regions(regions, W)
             s == Crops(words, ordered, W, H, pad)
             t == Crops(others, ordered, W, H, pad)
             A == Recognise(words, regions, W, H, pad)
             B == Recognise(others, regions, W, H, pad)
             ps == Picked(s, Legible(s))
             pt == Picked(t, Legible(t))
  <1>1. /\ A = AssignIds(ps)
        /\ s \in Seq(ToSet(s)) /\ DOMAIN s = DOMAIN ordered
        /\ \A n \in DOMAIN ordered : s[n] = CropOf(words, ordered[n].box, W, H, pad)
        /\ \A b \in ToSet(s) : IsBlock(b)
        /\ ps \in Seq(ToSet(s))
    BY ReadRegions
  <1>2. /\ B = AssignIds(pt)
        /\ t \in Seq(ToSet(t)) /\ DOMAIN t = DOMAIN ordered
        /\ \A n \in DOMAIN ordered : t[n] = CropOf(others, ordered[n].box, W, H, pad)
        /\ \A b \in ToSet(t) : IsBlock(b)
        /\ pt \in Seq(ToSet(t))
    BY ReadRegions
  <1> HIDE DEF ordered, s, t, A, B
  <1>3. ASSUME NEW n \in DOMAIN s
        PROVE  /\ s[n].box = t[n].box /\ ToSet(s[n].text) = ToSet(t[n].text)
               /\ s[n].text # <<>> <=> t[n].text # <<>>
    <2>1. /\ s[n].box = Clamp(ordered[n].box, W, H, pad) /\ s[n].text \in Seq(WordRow)
          /\ ToSet(s[n].text) = {w \in ToSet(words) : /\ Area(Clamp(ordered[n].box, W, H, pad)) # 0
                                                      /\ Spans(Clamp(ordered[n].box, W, H, pad), w.box)}
      BY <1>1, CropText
    <2>2. /\ t[n].box = Clamp(ordered[n].box, W, H, pad) /\ t[n].text \in Seq(WordRow)
          /\ ToSet(t[n].text) = {w \in ToSet(others) : /\ Area(Clamp(ordered[n].box, W, H, pad)) # 0
                                                       /\ Spans(Clamp(ordered[n].box, W, H, pad), w.box)}
      BY <1>1, <1>2, CropText
    <2>3. ToSet(s[n].text) = ToSet(t[n].text)
      BY <2>1, <2>2
    <2>4. ASSUME NEW q \in Seq(WordRow)
          PROVE  q # <<>> <=> ToSet(q) # {}
      <3>1. q # <<>> => 1 \in DOMAIN q
        BY EmptySeq
      <3>2. DOMAIN q # {} => q # <<>>
        OBVIOUS
      <3> QED
        BY <3>1, <3>2 DEF ToSet
    <2> QED
      BY <2>1, <2>2, <2>3, <2>4
  <1>4. Legible(t) = Legible(s) /\ Legible(s) \in SUBSET DOMAIN s
    BY <1>1, <1>2, <1>3 DEF Legible
  <1>5. Len(s) = Len(t)
    BY <1>1, <1>2
  <1>6. /\ DOMAIN ps = DOMAIN pt
        /\ \A k \in DOMAIN ps : \E n \in Legible(s) : ps[k] = s[n] /\ pt[k] = t[n]
    <2>1. /\ DOMAIN Picked(s, Legible(s)) = DOMAIN Picked(t, Legible(s))
          /\ \A k \in DOMAIN Picked(s, Legible(s)) : \E n \in Legible(s) :
                Picked(s, Legible(s))[k] = s[n] /\ Picked(t, Legible(s))[k] = t[n]
      <3> DEFINE places == Legible(s)
                 S == ToSet(s)
                 T == ToSet(t)
      <3>1. s \in Seq(S) /\ t \in Seq(T) /\ places \in SUBSET DOMAIN s
        BY <1>1, <1>2, <1>4
      <3> HIDE DEF places, S, T
      <3>2. /\ DOMAIN Picked(s, places) = DOMAIN Picked(t, places)
            /\ \A k \in DOMAIN Picked(s, places) : \E n \in places :
                  Picked(s, places)[k] = s[n] /\ Picked(t, places)[k] = t[n]
        BY <1>5, <3>1, PickedAlike
      <3> QED
        BY <3>2 DEF places
    <2> QED
      BY <1>4, <2>1
  <1>7. /\ DOMAIN A = DOMAIN ps
        /\ \A k \in DOMAIN ps : A[k].text = ps[k].text /\ A[k].box = ps[k].box /\ A[k].id = k
    BY <1>1, AssignIdsKeeps
  <1>8. /\ DOMAIN B = DOMAIN pt
        /\ \A k \in DOMAIN pt : B[k].text = pt[k].text /\ B[k].box = pt[k].box /\ B[k].id = k
    BY <1>2, AssignIdsKeeps
  <1> HIDE DEF ps, pt
  <1>9. ASSUME NEW k \in DOMAIN A
        PROVE  /\ A[k].id = B[k].id /\ A[k].box = B[k].box
               /\ ToSet(A[k].text) = ToSet(B[k].text)
    <2>1. PICK n \in Legible(s) : ps[k] = s[n] /\ pt[k] = t[n]
      BY <1>6, <1>7
    <2> QED
      BY <1>3, <1>4, <1>6, <1>7, <1>8, <2>1
  <1>10. Evidence(A) = Evidence(B)
    BY <1>6, <1>7, <1>8, <1>9, SameEvidence
  <1> QED
    BY <1>10 DEF A, B

\* Lines with corners of their own are merged alike, in whatever order they come.
LEMMA MergeIsCanonical ==
    ASSUME NEW lines \in Seq(Box), Apart(lines), NEW p \in Bijection(DOMAIN lines, DOMAIN lines)
    PROVE  MergeLines([n \in DOMAIN lines |-> lines[p[n]]]) = MergeLines(lines)
  <1> DEFINE others == [n \in DOMAIN lines |-> lines[p[n]]]
             ks == [n \in DOMAIN lines |-> <<lines[n].top, lines[n].left>>]
             kt == [n \in DOMAIN others |-> <<others[n].top, others[n].left>>]
  <1>1. /\ p \in [DOMAIN lines -> DOMAIN lines]
        /\ \A n \in DOMAIN lines : \E k \in DOMAIN lines : p[k] = n
        /\ \A j, k \in DOMAIN lines : p[j] = p[k] => j = k
    BY DEF Bijection, Injection, Surjection, IsInjective
  <1>2. others \in Seq(Box) /\ DOMAIN others = DOMAIN lines /\ Len(others) = Len(lines)
    <2>1. DOMAIN lines = 1 .. Len(lines) /\ Len(lines) \in Nat
      OBVIOUS
    <2>2. others \in [1 .. Len(lines) -> Box]
      BY <1>1, <2>1
    <2> HIDE DEF others
    <2> QED
      BY <2>1, <2>2, FunctionIsList
  <1>3. \A n \in DOMAIN lines : others[n] = lines[p[n]]
    OBVIOUS
  <1> HIDE DEF others
  <1>4. /\ \A n \in DOMAIN lines : ks[n] = <<lines[n].top, lines[n].left>>
        /\ \A n \in DOMAIN others : kt[n] = <<others[n].top, others[n].left>>
    OBVIOUS
  <1>5. ks \in [DOMAIN lines -> [1 .. 2 -> Int]] /\ kt \in [DOMAIN others -> [1 .. 2 -> Int]]
    <2>1. /\ \A n \in DOMAIN lines : lines[n].top \in Int /\ lines[n].left \in Int
          /\ \A n \in DOMAIN others : others[n].top \in Int /\ others[n].left \in Int
      <3>1. /\ \A n \in DOMAIN lines : lines[n] \in Box
            /\ \A n \in DOMAIN others : others[n] \in Box
        BY <1>2
      <3> HIDE DEF ks, kt
      <3> QED
        BY <3>1 DEF Box
    <2> QED
      BY <2>1, KeysAreTuples
  <1>6. Sorted(lines, ks) \in Seq(Box) /\ Len(Sorted(lines, ks)) = Len(lines)
    <2> HIDE DEF ks
    <2> QED
      BY <1>5, SortedPlaces
  <1>7. Sorted(others, kt) \in Seq(Box) /\ Len(Sorted(others, kt)) = Len(lines)
    <2> HIDE DEF kt
    <2> QED
      BY <1>2, <1>5, SortedPlaces
  <1> DEFINE a == Sorted(lines, ks)
             b == Sorted(others, kt)
  <1>8. a = b => MergeLines(others) = MergeLines(lines)
    BY Zenon DEF MergeLines
  <1> HIDE DEF ks, kt
  <1>9. ASSUME NEW i \in DOMAIN lines, NEW j \in DOMAIN lines, ks[i] = ks[j]
        PROVE  i = j
    <2>1. <<lines[i].top, lines[i].left>> = <<lines[j].top, lines[j].left>>
      BY <1>4, <1>9
    <2>2. lines[i].top = lines[j].top /\ lines[i].left = lines[j].left
      BY <2>1
    <2>3. <<lines[i].left, lines[i].top>> = <<lines[j].left, lines[j].top>>
      BY <2>2
    <2> QED
      BY <2>3, Zenon DEF Apart
  <1>10. ASSUME NEW n \in DOMAIN lines
         PROVE  kt[n] = ks[p[n]]
    <2>1. p[n] \in DOMAIN lines
      BY <1>1
    <2>2. kt[n] = <<others[n].top, others[n].left>> /\ others[n] = lines[p[n]]
      BY <1>2, <1>3, <1>4, Zenon
    <2>3. ks[p[n]] = <<lines[p[n]].top, lines[p[n]].left>>
      BY <1>4, <2>1, Zenon
    <2> QED
      BY <2>2, <2>3, Zenon
  <1>11. Keyed(lines, ks, 2) /\ Keyed(others, kt, 2)
    <2>1. \A i, j \in DOMAIN others : kt[i] = kt[j] => i = j
      BY <1>1, <1>2, <1>9, <1>10
    <2> QED
      BY <1>5, <1>9, <2>1 DEF Keyed
  <1>12. SameKeys(lines, ks, others, kt)
    BY <1>1, <1>2, <1>10 DEF SameKeys
  <1>13. Alike(lines, ks, others, kt)
    <2>1. 2 \in Nat
      OBVIOUS
    <2> QED
      BY <1>2, <1>11, <1>12, <2>1, SortedAlike
  <1>14. ASSUME NEW n \in DOMAIN lines
         PROVE  a[n] = b[n]
    <2>1. PICK i \in DOMAIN lines, j \in DOMAIN others : a[n] = lines[i] /\ b[n] = others[j] /\ ks[i] = kt[j]
      BY <1>13 DEF Alike
    <2> HIDE DEF a, b
    <2>2. i = p[j]
      BY <1>1, <1>2, <1>9, <1>10, <2>1
    <2> QED
      BY <1>2, <1>3, <2>1, <2>2
  <1>15. a = b
    <2> HIDE DEF a, b
    <2>1. a \in Seq(Box) /\ b \in Seq(Box) /\ Len(a) = Len(lines) /\ Len(b) = Len(lines)
      BY <1>6, <1>7 DEF a, b
    <2> QED
      BY <1>14, <2>1
  <1> QED
    BY <1>8, <1>15 DEF others

\* A crop of any page can be given a number, so it has one.
LEMMA ReadIsNumbered ==
    ASSUME NEW s \in Scans, NEW e
    PROVE  \A n \in DOMAIN BlocksOf(e, s) : BlocksOf(e, s)[n].id = n
  <1> DEFINE R == Recognised(s.words)
             M == MergeLines(s.lines)
  <1>1. ScansPage(s)
    BY ExtractionAssumption
  <1>2. s.words \in Seq(WordRow) /\ s.lines \in Seq(Box)
    BY <1>1 DEF ScansPage
  <1>3. R \in Seq(WordRow) /\ M \in Seq(Box)
    BY <1>2, RecognisedWords, MergeLinesCovers
  <1> HIDE DEF R, M
  <1>4. CASE BlocksOf(e, s) = Assemble(R, PageWidth)
    <2> DEFINE G == GroupIntoBlocks(R)
               ordered == ReadingOrder(G, PageWidth)
    <2>1. G \in Seq(ToSet(G))
      BY <1>3, GroupedBlocks
    <2>2. \A b \in ToSet(G) : IsBlock(b) /\ b.page \in Int /\ b.box.left \in Int /\ b.box.top \in Int
      BY <1>3, GroupedBlocks
    <2>3. BlocksOf(e, s) = AssignIds(ordered)
      BY <1>4 DEF Assemble
    <2> HIDE DEF G
    <2>4. ordered \in Seq(ToSet(G))
      BY <2>1, <2>2, ReadingOrderKeeps
    <2> HIDE DEF ordered
    <2> QED
      BY <2>2, <2>3, <2>4, AssignIdsKeeps
  <1>5. CASE BlocksOf(e, s) = Recognise(R, M, PageWidth, PageHeight, Padding)
    <2> DEFINE crops == Crops(R, Regions(M, PageWidth), PageWidth, PageHeight, Padding)
               kept == Picked(crops, Legible(crops))
    <2>1. /\ BlocksOf(e, s) = AssignIds(kept)
          /\ \A b \in ToSet(crops) : IsBlock(b)
          /\ kept \in Seq(ToSet(crops))
      BY <1>3, <1>5, ReadRegions
    <2> HIDE DEF crops, kept
    <2> QED
      BY <2>1, AssignIdsKeeps
  <1> QED
    BY <1>4, <1>5 DEF BlocksOf, R, M

\* Words that come in another order are the same words.
LEMMA ShuffledWords ==
    ASSUME NEW words \in Seq(WordRow), NEW s \in Shuffled(words)
    PROVE  s \in Seq(WordRow) /\ ToSet(s) = ToSet(words)
  <1>1. PICK p \in Bijection(DOMAIN words, DOMAIN words) : s = [n \in DOMAIN words |-> words[p[n]]]
    BY DEF Shuffled
  <1>2. /\ p \in [DOMAIN words -> DOMAIN words]
        /\ \A n \in DOMAIN words : \E k \in DOMAIN words : p[k] = n
    BY DEF Bijection, Injection, Surjection
  <1>3. DOMAIN words = 1 .. Len(words) /\ Len(words) \in Nat
    OBVIOUS
  <1>4. s \in [1 .. Len(words) -> WordRow]
    BY <1>1, <1>2, <1>3
  <1>5. ToSet(s) = ToSet(words)
    <2>1. DOMAIN s = DOMAIN words /\ \A n \in DOMAIN words : s[n] = words[p[n]]
      BY <1>1
    <2> QED
      BY <1>2, <2>1 DEF ToSet
  <1> QED
    BY <1>3, <1>4, <1>5, FunctionIsList

\* Those that are recognised among them are too.
LEMMA RecognisedAlike ==
    ASSUME NEW words \in Seq(WordRow), NEW others \in Seq(WordRow), ToSet(words) = ToSet(others)
    PROVE  ToSet(Recognised(words)) = ToSet(Recognised(others))
  <1>1. ASSUME NEW q \in Seq(WordRow)
        PROVE  ToSet(Recognised(q)) = {w \in ToSet(q) : w.text # "" /\ w.conf >= 0}
    <2> DEFINE places == {n \in DOMAIN q : q[n].text # "" /\ q[n].conf >= 0}
    <2>1. places \in SUBSET DOMAIN q /\ Recognised(q) = Picked(q, places)
      BY DEF Recognised
    <2> HIDE DEF places
    <2>2. ToSet(Recognised(q)) = {q[n] : n \in places}
      BY <2>1, PickedElements
    <2> QED
      BY <2>2 DEF places, ToSet
  <1> QED
    BY <1>1

\* The blocks of a page that was just read.
LEMMA PageIsCanonical == PageInv => ReadingIsCanonical
  <1> SUFFICES ASSUME PageInv, stage = "read"
               PROVE  ReadingIsCanonical
    BY DEF ReadingIsCanonical
  <1>1. scan \in Scans /\ blocks = BlocksOf(engine, scan)
    BY DEF PageInv
  <1>2. ScansPage(scan) /\ PageWidth \in Nat
    BY <1>1, ExtractionAssumption
  <1>3. PICK words \in Seq(WordRow), lines \in Seq(Box), detector \in STRING :
                scan = [words |-> words, lines |-> lines, detector |-> detector]
    BY <1>2 DEF ScansPage
  <1>4. \A n \in DOMAIN blocks : blocks[n].id = n
    BY <1>1, ReadIsNumbered
  <1>5. ASSUME \/ engine = "paddle_tesseract" /\ Degraded(scan) = {}
               \/ Apart([n \in DOMAIN blocks |-> blocks[n].box]),
               NEW s \in Shuffled(scan.words)
        PROVE  Evidence(BlocksOf(engine, [scan EXCEPT !.words = s])) = Evidence(blocks)
    <2> DEFINE other == [scan EXCEPT !.words = s]
    <2>1. other.words = s /\ other.lines = scan.lines /\ other.detector = scan.detector
      BY <1>3
    <2> HIDE DEF other
    <2>2. Degraded(other) = Degraded(scan)
      BY <2>1, Zenon DEF Degraded
    <2>3. scan.words \in Seq(WordRow) /\ scan.lines \in Seq(Box)
      BY <1>3
    <2>4. s \in Seq(WordRow) /\ ToSet(s) = ToSet(scan.words)
      BY <1>5, <2>3, ShuffledWords
    <2> DEFINE R == Recognised(scan.words)
               Q == Recognised(s)
               M == MergeLines(scan.lines)
    <2>5. /\ R \in Seq(WordRow) /\ Q \in Seq(WordRow) /\ ToSet(R) = ToSet(Q)
          /\ M \in Seq(Box)
      BY <2>3, <2>4, RecognisedWords, RecognisedAlike, MergeLinesCovers
    <2>6. CASE engine = "tesseract" \/ Degraded(scan) # {}
      <3>1. blocks = Assemble(R, PageWidth) /\ BlocksOf(engine, other) = Assemble(Q, PageWidth)
        BY <1>1, <2>1, <2>2, <2>6 DEF BlocksOf
      <3>2. Apart([n \in DOMAIN blocks |-> blocks[n].box])
        BY <1>5, <2>6
      <3> HIDE DEF R, Q
      <3> QED
        BY <1>2, <2>5, <3>1, <3>2, AssembleIsCanonical DEF other
    <2>7. CASE ~(engine = "tesseract" \/ Degraded(scan) # {})
      <3>1. /\ blocks = Recognise(R, M, PageWidth, PageHeight, Padding)
            /\ BlocksOf(engine, other) = Recognise(Q, M, PageWidth, PageHeight, Padding)
        BY <1>1, <2>1, <2>2, <2>7 DEF BlocksOf
      <3> HIDE DEF R, Q, M
      <3> QED
        BY <2>5, <3>1, RecogniseIsCanonical DEF other
    <2> QED
      BY <2>6, <2>7
  <1>6. ASSUME Apart(scan.lines), NEW s \in Shuffled(scan.lines)
        PROVE  BlocksOf(engine, [scan EXCEPT !.lines = s]) = blocks
    <2> DEFINE other == [scan EXCEPT !.lines = s]
    <2>1. other.words = scan.words /\ other.lines = s /\ other.detector = scan.detector
      BY <1>3
    <2> HIDE DEF other
    <2>2. scan.lines \in Seq(Box)
      BY <1>3
    <2>3. PICK p \in Bijection(DOMAIN scan.lines, DOMAIN scan.lines) :
                  s = [n \in DOMAIN scan.lines |-> scan.lines[p[n]]]
      BY <1>6 DEF Shuffled
    <2>4. MergeLines(s) = MergeLines(scan.lines)
      BY <1>6, <2>2, <2>3, MergeIsCanonical
    <2>5. s = <<>> <=> scan.lines = <<>>
      <3>1. DOMAIN s = DOMAIN scan.lines
        BY <2>3
      <3>2. DOMAIN scan.lines = 1 .. Len(scan.lines) /\ Len(scan.lines) \in Nat
        BY <2>2
      <3>3. p \in [DOMAIN scan.lines -> DOMAIN scan.lines]
        BY DEF Bijection, Injection
      <3>4. s \in [1 .. Len(scan.lines) -> Box]
        BY <2>2, <2>3, <3>2, <3>3
      <3>5. s \in Seq(Box) /\ Len(s) = Len(scan.lines)
        BY <3>2, <3>4, FunctionIsList
      <3>6. \A q \in Seq(Box) : q = <<>> <=> Len(q) = 0
        OBVIOUS
      <3> QED
        BY <2>2, <3>5, <3>6
    <2>6. Degraded(other) = Degraded(scan)
      BY <2>1, <2>4, <2>5, Zenon DEF Degraded
    <2>7. BlocksOf(engine, other) = BlocksOf(engine, scan)
      BY <2>1, <2>4, <2>6, Zenon DEF BlocksOf
    <2> QED
      BY <1>1, <2>7 DEF other
  <1> QED
    BY <1>4, <1>5, <1>6 DEF ReadingIsCanonical

\* The same page is read as the same numbered blocks, whatever order its words and
\* lines come in, so that the citations of a stored draft still say what they said.
THEOREM ReadingIsStable == ExtractionSpec => []ReadingIsCanonical
  <1>1. ExtractionSpec => []PageInv
    BY PageInit, PageNext, PTL DEF ExtractionSpec
  <1> QED
    BY <1>1, PageIsCanonical, PTL

-----------------------------------------------------------------------------
(* Drafts: what they cite is on the page. *)

\* An answer: a list of advertisements, each with a list of citations.
IsAnswer(e) ==
    /\ e.ads \in Seq(ToSet(e.ads))
    /\ \A n \in DOMAIN e.ads : e.ads[n].cites \in Seq(ToSet(e.ads[n].cites))

\* Every name is resolved to a category that there is.
LEMMA ResolveIsSlug == \A name : Resolve(name) \in Slugs
  BY DEF Resolve, Mapped, Slugs, LegacyAliases

\* What an advertisement keeps of its citations: those of the page, each once.
LEMMA KeptCitations ==
    ASSUME NEW ad, ad.cites \in Seq(ToSet(ad.cites)), NEW known
    PROVE  /\ IsInjective(Kept(ad, known))
           /\ ToSet(Kept(ad, known)) = ToSet(ad.cites) \cap known
           /\ Kept(ad, known) # <<>> <=> ToSet(ad.cites) \cap known # {}
  <1> DEFINE cited == Distinct(ad.cites)
             places == {n \in DOMAIN cited : cited[n] \in known}
             K == Picked(cited, places)
             T == ToSet(ad.cites)
  <1>1. Kept(ad, known) = K
    BY Zenon DEF Kept
  <1>2. /\ cited \in Seq(T) /\ ToSet(cited) = T
        /\ \A j, k \in DOMAIN cited : cited[j] = cited[k] => j = k
    BY DistinctElements
  <1> HIDE DEF cited, T
  <1>3. places \in SUBSET DOMAIN cited
    OBVIOUS
  <1>4. {cited[n] : n \in places} = T \cap known
    BY <1>2 DEF ToSet
  <1> HIDE DEF places
  <1>5. K \in Seq(T) /\ ToSet(K) = {cited[n] : n \in places}
    BY <1>2, <1>3, PickedElements
  <1>6. Len(K) = Cardinality(places) /\ Cardinality(places) \in Nat
    BY <1>2, <1>3, PickedPlaces
  <1>7. PICK place \in [1 .. Cardinality(places) -> places] :
               /\ \A j, k \in 1 .. Cardinality(places) : place[j] = place[k] => j = k
               /\ \A k \in 1 .. Cardinality(places) : K[k] = cited[place[k]]
    BY <1>2, <1>3, PickedPlaces
  <1> HIDE DEF K
  <1>8. DOMAIN K = 1 .. Cardinality(places)
    BY <1>5, <1>6
  <1>9. IsInjective(K)
    BY <1>2, <1>3, <1>7, <1>8 DEF IsInjective
  <1>10. K # <<>> <=> ToSet(K) # {}
    <2>1. ToSet(K) # {} => K # <<>>
      BY DEF ToSet
    <2>2. K # <<>> => 1 \in DOMAIN K
      BY <1>5, EmptySeq
    <2> QED
      BY <2>1, <2>2 DEF ToSet
  <1> QED
    BY <1>1, <1>4, <1>5, <1>9, <1>10 DEF T

\* An answer's drafts stand on the blocks they are made with.
LEMMA DraftsStand ==
    ASSUME NEW e, IsAnswer(e), NEW bs, NEW ws
    PROVE  LET D == Drafts(e, bs, MaxCandidates, ws)
               known == {b.id : b \in ToSet(bs)}
           IN /\ \A n \in DOMAIN D :
                    /\ D[n].index = n - 1
                    /\ D[n].cites # <<>> /\ ToSet(D[n].cites) \subseteq known
                    /\ IsInjective(D[n].cites) /\ D[n].category \in Slugs
              /\ Len(D) = Cardinality({n \in DOMAIN e.ads :
                              n <= MaxCandidates /\ ToSet(e.ads[n].cites) \cap known # {}})
  <1> DEFINE known == {b.id : b \in ToSet(bs)}
             ads == WithinCap(e.ads, MaxCandidates)
             places == {n \in DOMAIN ads : Kept(ads[n], known) # <<>>}
             kept == Picked(ads, places)
             candidates == [n \in DOMAIN kept |-> Candidate(kept[n], known, n - 1)]
             pageWarnings == Distinct(ws \o PageWarnings(e, MaxCandidates))
             D == Drafts(e, bs, MaxCandidates, ws)
             T == ToSet(e.ads)
  <1>1. D = [n \in DOMAIN candidates |->
                [candidates[n] EXCEPT !.warnings = Distinct(candidates[n].warnings \o pageWarnings)]]
    BY Zenon DEF Drafts, Survivors
  <1> HIDE DEF D, pageWarnings, known
  <1>2. MaxCandidates \in Nat
    BY ExtractionAssumption
  <1>3. /\ ads \in Seq(T)
        /\ DOMAIN ads = {n \in DOMAIN e.ads : n <= MaxCandidates}
        /\ \A n \in DOMAIN ads : ads[n] = e.ads[n]
    <2>1. e.ads \in Seq(T) /\ Len(e.ads) \in Nat /\ DOMAIN e.ads = 1 .. Len(e.ads)
      BY DEF IsAnswer
    <2> DEFINE m == Min({Len(e.ads), MaxCandidates})
    <2>2. m = IF Len(e.ads) <= MaxCandidates THEN Len(e.ads) ELSE MaxCandidates
      BY <1>2, <2>1, Extremes
    <2>3. ads = SubSeq(e.ads, 1, m)
      BY DEF WithinCap
    <2> HIDE DEF ads, m, T
    <2>4. m \in 0 .. Len(e.ads)
      BY <1>2, <2>1, <2>2
    <2>5. ads \in Seq(T) /\ DOMAIN ads = 1 .. m /\ \A n \in 1 .. m : ads[n] = e.ads[n]
      BY <2>1, <2>3, <2>4
    <2>6. 1 .. m = {n \in DOMAIN e.ads : n <= MaxCandidates}
      BY <1>2, <2>1, <2>2, <2>4
    <2> QED
      BY <2>5, <2>6
  <1> HIDE DEF ads, T
  <1>4. \A n \in DOMAIN ads : ads[n].cites \in Seq(ToSet(ads[n].cites))
    BY <1>3 DEF IsAnswer
  <1>5. places = {n \in DOMAIN e.ads : n <= MaxCandidates /\ ToSet(e.ads[n].cites) \cap known # {}}
    <2>1. \A n \in DOMAIN ads : Kept(ads[n], known) # <<>> <=> ToSet(ads[n].cites) \cap known # {}
      BY <1>4, KeptCitations
    <2> QED
      BY <1>3, <2>1
  <1>6. places \in SUBSET DOMAIN ads
    OBVIOUS
  <1>7. \A n \in places : /\ Kept(ads[n], known) # <<>>
                         /\ ads[n].cites \in Seq(ToSet(ads[n].cites))
    BY <1>4
  <1> HIDE DEF places
  <1>8. /\ Cardinality(places) \in Nat /\ DOMAIN kept = 1 .. Cardinality(places)
        /\ \A k \in DOMAIN kept : \E n \in places : kept[k] = ads[n]
    <2>1. /\ Cardinality(places) \in Nat
          /\ kept \in Seq(T) /\ Len(kept) = Cardinality(places)
          /\ \E place \in [1 .. Cardinality(places) -> places] :
                \A k \in 1 .. Cardinality(places) : kept[k] = ads[place[k]]
      BY <1>3, <1>6, PickedPlaces
    <2> HIDE DEF kept
    <2> QED
      BY <2>1
  <1> HIDE DEF kept
  <1>9. ASSUME NEW n \in DOMAIN kept
        PROVE  /\ D[n].index = n - 1
               /\ D[n].cites # <<>> /\ ToSet(D[n].cites) \subseteq known
               /\ IsInjective(D[n].cites) /\ D[n].category \in Slugs
    <2>1. PICK m \in places : kept[n] = ads[m]
      BY <1>8
    <2> DEFINE ad == kept[n]
    <2>2. ad.cites \in Seq(ToSet(ad.cites)) /\ Kept(ad, known) # <<>>
      BY <1>7, <2>1
    <2>3. IsInjective(Kept(ad, known)) /\ ToSet(Kept(ad, known)) \subseteq known
      <3>1. /\ IsInjective(Kept(ad, known))
            /\ ToSet(Kept(ad, known)) = ToSet(ad.cites) \cap known
        BY <2>2, KeptCitations
      <3> QED
        BY <3>1
    <2>4. PICK p, w : candidates[n] = [index |-> n - 1, cites |-> Kept(ad, known),
                                       category |-> Resolve(ad.category), phones |-> p, warnings |-> w]
      BY Zenon DEF Candidate
    <2>5. PICK x : D[n] = [candidates[n] EXCEPT !.warnings = x]
      BY <1>1
    <2> HIDE DEF candidates, ad
    <2>6. /\ D[n].index = n - 1 /\ D[n].cites = Kept(ad, known)
          /\ D[n].category = Resolve(ad.category)
      BY <2>4, <2>5
    <2> QED
      BY <2>2, <2>3, <2>6, ResolveIsSlug
  <1>10. DOMAIN D = 1 .. Cardinality(places) /\ DOMAIN D = DOMAIN kept
    BY <1>1, <1>8
  <1>11. Len(D) = Cardinality(places)
    <2>1. D \in [1 .. Cardinality(places) -> ToSet(D)]
      <3>1. D = [n \in DOMAIN D |-> D[n]]
        BY <1>1
      <3> QED
        BY <1>10, <3>1 DEF ToSet
    <2> QED
      BY <1>8, <2>1, FunctionIsList
  <1> QED
    BY <1>5, <1>9, <1>10, <1>11 DEF D, known

\* What is asked about is a list, what was answered fits the schema, and drafts are
\* those of the stored answer.
DraftInv ==
    /\ stage # "scanned" => blocks \in Seq(ToSet(blocks))
    /\ rendered.shown \in Seq(ToSet(rendered.shown))
    /\ IsAnswer(stored)
    /\ stage \in {"drafted", "rebuilt"} =>
           \E ws : drafts = Drafts(stored, blocks, MaxCandidates, ws)

\* No answer at all is an answer.
LEMMA EmptyAnswers == <<>> \in Seq(ToSet(<<>>)) /\ IsAnswer(NoAnswer)
  <1>1. \A S : <<>> \in Seq(S)
    BY EmptySeq
  <1>2. NoAnswer.ads = <<>> /\ DOMAIN <<>> = {}
    BY DEF NoAnswer
  <1> QED
    BY <1>1, <1>2, Zenon DEF IsAnswer

\* So is every envelope that a provider can return.
LEMMA EnvelopesAreAnswers ==
    ASSUME NEW e \in Envelope
    PROVE  IsAnswer(e)
  <1>1. e.ads \in Seq(Advertisement)
    BY DEF Envelope
  <1>2. \A ad \in Advertisement : ad.cites \in Seq(Int)
    BY DEF Advertisement
  <1>3. \A n \in DOMAIN e.ads : e.ads[n] \in Advertisement
    BY <1>1
  <1>4. \A n \in DOMAIN e.ads : e.ads[n].cites \in Seq(Int)
    BY <1>2, <1>3
  <1> QED
    BY <1>1, <1>4, ListsAreLists DEF IsAnswer

\* So is what the rules say of a page.
LEMMA RuleBasedIsAnswer ==
    ASSUME NEW shown, shown \in Seq(ToSet(shown)), NEW category, NEW phones
    PROVE  IsAnswer(RuleBased(shown, category, phones))
  <1> DEFINE e == RuleBased(shown, category, phones)
             cites == [n \in DOMAIN shown |-> shown[n].id]
  <1>1. CASE shown = <<>>
    <2>1. e.ads = <<>>
      BY <1>1 DEF RuleBased
    <2>2. DOMAIN <<>> = {}
      OBVIOUS
    <2> QED
      BY <2>1, <2>2, EmptySeq, Zenon DEF IsAnswer
  <1>2. CASE shown # <<>>
    <2>1. cites \in Seq(ToSet(cites))
      <3>1. DOMAIN shown = 1 .. Len(shown) /\ Len(shown) \in Nat
        OBVIOUS
      <3>2. cites \in [1 .. Len(shown) -> ToSet(cites)]
        BY <3>1 DEF ToSet
      <3> HIDE DEF cites
      <3> QED
        BY <3>1, <3>2, FunctionIsList
    <2> DEFINE ad == [cites |-> cites, category |-> category, phones |-> Distinct(phones),
                      warnings |-> <<"HEURISTIC_EXTRACTION">>]
    <2>2. e.ads = <<ad>> /\ ad.cites = cites
      BY <1>2 DEF RuleBased
    <2> HIDE DEF e, cites, ad
    <2>3. ToSet(<<ad>>) = {ad} /\ DOMAIN <<ad>> = {1} /\ <<ad>>[1] = ad /\ <<ad>> \in Seq({ad})
      BY DEF ToSet
    <2>4. IsAnswer(e)
      BY <2>1, <2>2, <2>3 DEF IsAnswer
    <2> QED
      BY <2>4 DEF e
  <1> QED
    BY <1>1, <1>2

\* A prompt shows the first blocks of the page.
LEMMA ShownIsList ==
    ASSUME NEW T, NEW told \in Seq(T), NEW maxChars
    PROVE  Shown(told, maxChars) \in Seq(T)
  <1> DEFINE fit == {n \in DOMAIN told : Cost(told, n) <= maxChars} \cup {0}
  <1>1. DOMAIN told = 1 .. Len(told) /\ Len(told) \in Nat
    OBVIOUS
  <1>2. fit \subseteq 0 .. Len(told) /\ fit # {} /\ fit \in SUBSET Int
    BY <1>1
  <1>3. Shown(told, maxChars) = SubSeq(told, 1, Max(fit))
    BY Zenon DEF Shown
  <1> HIDE DEF fit
  <1>4. IsFiniteSet(fit)
    <2>1. IsFiniteSet(0 .. Len(told))
      BY <1>1, FS_Interval
    <2> QED
      BY <1>2, <2>1, FS_Subset
  <1>5. Max(fit) \in fit
    <2>1. \E m \in fit : \A k \in fit : k <= m
      BY <1>2, <1>4, FiniteMax
    <2>2. \E m \in fit : \A k \in fit : m >= k
      BY <1>2, <2>1
    <2> QED
      BY <2>2 DEF Max
  <1>6. Max(fit) \in 0 .. Len(told)
    BY <1>2, <1>5
  <1> QED
    BY <1>3, <1>6

\* It holds before there are drafts.
LEMMA DraftInit == ExtractionInit => DraftInv
  BY EmptyAnswers DEF ExtractionInit, DraftInv, NoPrompt

\* And every step keeps it: drafts are made of a stored answer.
LEMMA DraftNext == PageInv /\ DraftInv /\ [ExtractionNext]_extractionVars => DraftInv'
  <1> SUFFICES ASSUME PageInv, DraftInv, [ExtractionNext]_extractionVars
               PROVE  DraftInv'
    OBVIOUS
  <1>1. CASE ReadPage
    <2>1. PICK B : B = BlocksOf(engine, scan)
      OBVIOUS
    <2>2. B \in Seq(ToSet(B))
      BY <1>1, <2>1, PageIsRead DEF ReadPage, PageInv
    <2>3. /\ blocks' = B /\ stage' = "read"
          /\ UNCHANGED <<rendered, stored, drafts>>
      BY <1>1, <2>1 DEF ReadPage, exchange
    <2> QED
      BY <2>2, <2>3 DEF DraftInv, IsAnswer
  <1>2. CASE RenderPrompt
    <2> DEFINE toldOf(b) == [id |-> b.id, size |-> Len(b.text),
                             marked |-> \E m \in DOMAIN b.text : b.text[m].text = "<<<"]
    <2>1. PICK told : told = [n \in DOMAIN blocks |-> toldOf(blocks[n])]
      OBVIOUS
    <2>2. /\ blocks' = told /\ stage' = "asked" /\ rendered'.shown = Shown(told, MaxChars)
          /\ UNCHANGED <<stored, drafts>>
      BY <1>2, <2>1 DEF RenderPrompt, exchange
    <2>3. blocks \in Seq(ToSet(blocks))
      BY <1>2 DEF DraftInv, RenderPrompt
    <2>4. told \in Seq(ToSet(told))
      <3>1. DOMAIN blocks = 1 .. Len(blocks) /\ Len(blocks) \in Nat
        BY <2>3
      <3>2. told \in [1 .. Len(blocks) -> ToSet(told)]
        <4> HIDE DEF toldOf
        <4> QED
          BY <2>1, <3>1 DEF ToSet
      <3> QED
        BY <3>1, <3>2, FunctionIsList
    <2>5. Shown(told, MaxChars) \in Seq(ToSet(Shown(told, MaxChars)))
      BY <2>4, ShownIsList, ListsAreLists
    <2> QED
      BY <2>2, <2>4, <2>5 DEF DraftInv, IsAnswer
  <1>3. CASE Ask \/ Wait \/ UNCHANGED extractionVars
    <2>1. UNCHANGED <<stage, blocks, rendered, stored, drafts>>
      BY <1>3 DEF Ask, Wait, page, exchange, extractionVars
    <2> QED
      BY <2>1 DEF DraftInv, IsAnswer
  <1>4. CASE Replied
    <2>1. stage = "asked" /\ UNCHANGED <<stage, blocks, rendered, drafts>>
      BY <1>4 DEF Replied, ProviderReplies, OfflineReplies, page
    <2>2. IsAnswer(stored')
      <3>1. IsAnswer(stored)
        BY DEF DraftInv
      <3>2. stored' = stored \/ stored' \in Answers \/ stored' = RuleBased(rendered.shown, "other", <<>>)
        BY <1>4 DEF Replied, ProviderReplies, OfflineReplies, Take
      <3>3. stored' \in Answers => stored' \in Envelope
        BY ExtractionAssumption
      <3>4. IsAnswer(RuleBased(rendered.shown, "other", <<>>))
        BY RuleBasedIsAnswer DEF DraftInv
      <3> QED
        BY <3>1, <3>2, <3>3, <3>4, EnvelopesAreAnswers
    <2> QED
      BY <2>1, <2>2 DEF DraftInv, IsAnswer
  <1>5. CASE MakeDrafts \/ Rebuild
    <2>1. stage # "scanned" /\ UNCHANGED <<blocks, rendered, stored>>
      BY <1>5 DEF MakeDrafts, Rebuild
    <2>2. PICK ws : drafts' = Drafts(stored, blocks, MaxCandidates, ws)
      BY <1>5 DEF MakeDrafts, Rebuild
    <2>3. drafts' = Drafts(stored', blocks', MaxCandidates, ws)
      BY <2>1, <2>2
    <2> QED
      BY <2>1, <2>3 DEF DraftInv, IsAnswer
  <1> QED
    BY <1>1, <1>2, <1>3, <1>4, <1>5 DEF ExtractionNext

\* Drafts for which it holds are grounded.
LEMMA DraftsHold == DraftInv => DraftsAreGrounded
  <1> SUFFICES ASSUME DraftInv, stage \in {"drafted", "rebuilt"}
               PROVE  DraftsAreGrounded
    BY DEF DraftsAreGrounded
  <1>1. PICK ws : drafts = Drafts(stored, blocks, MaxCandidates, ws)
    BY DEF DraftInv
  <1>2. IsAnswer(stored)
    BY DEF DraftInv
  <1> DEFINE D == Drafts(stored, blocks, MaxCandidates, ws)
  <1>3. /\ \A n \in DOMAIN D :
              /\ D[n].index = n - 1
              /\ D[n].cites # <<>> /\ ToSet(D[n].cites) \subseteq Ids
              /\ IsInjective(D[n].cites) /\ D[n].category \in Slugs
        /\ Len(D) = Cardinality({n \in DOMAIN stored.ads :
                        n <= MaxCandidates /\ ToSet(stored.ads[n].cites) \cap Ids # {}})
    BY <1>2, DraftsStand, Zenon DEF Ids
  <1>4. drafts = D
    BY <1>1
  <1> HIDE DEF D
  <1> QED
    BY <1>3, <1>4 DEF DraftsAreGrounded

\* Every candidate cites blocks of its page, and no advertisement that does is lost,
\* whatever a provider answered and however the loop came to an answer.
THEOREM DraftsStandOnThePage == ExtractionSpec => []DraftsAreGrounded
  <1>1. ExtractionSpec => [](PageInv /\ DraftInv)
    <2>1. ExtractionInit => PageInv /\ DraftInv
      BY PageInit, DraftInit
    <2>2. PageInv /\ DraftInv /\ [ExtractionNext]_extractionVars => PageInv' /\ DraftInv'
      BY PageNext, DraftNext
    <2> QED
      BY <2>1, <2>2, PTL DEF ExtractionSpec
  <1> QED
    BY <1>1, DraftsHold, PTL
=============================================================================
