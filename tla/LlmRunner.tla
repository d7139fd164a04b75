----------------------------- MODULE LlmRunner -----------------------------
(***************************************************************************)
(* The loop around one extraction's provider calls (llm/runner.py): two    *)
(* budgets charged by the kind of failure, a deadline, and an output limit *)
(* that grows when an answer was cut off.  A call is recorded before it is *)
(* sent and again when it has an outcome.  Pipeline shows the same loop    *)
(* from outside, as at most MaxCalls calls.                                *)
(***************************************************************************)
EXTENDS Naturals, Sequences, FiniteSets

CONSTANTS
    MaxAttempts,  \* RunnerSettings.max_attempts: transport failures
    MaxRepairs,   \* RunnerSettings.max_repairs
    FirstLimit,   \* RunnerSettings.max_output_tokens
    Ceiling       \* MAX_OUTPUT_TOKEN_CEILING

ASSUME RunnerAssumption ==
    /\ MaxAttempts \in Nat \ {0}
    /\ MaxRepairs \in Nat
    /\ FirstLimit \in Nat \ {0}
    /\ Ceiling \in Nat \ {0}

VARIABLES
    at,         \* "loop", "calling" or "done"
    late,       \* the deadline has passed
    attempts,   \* transport failures charged
    repairs,    \* repair turns issued
    limit,      \* max_output_tokens of the next request
    repairing,  \* repair_instruction is set
    rows,       \* the recorder's rows: kind and outcome of each call
    outcome     \* what run returned, or "raised"

vars == <<at, late, attempts, repairs, limit, repairing, rows, outcome>>

Calls == Len(rows)

Init ==
    /\ at = "loop" /\ late = FALSE
    /\ attempts = 0 /\ repairs = 0
    /\ limit = FirstLimit
    /\ repairing = FALSE
    /\ rows = <<>>
    /\ outcome = "none"

\* Time passes: while a call is out, or in the backoff before the next one.
Elapse ==
    /\ ~late /\ at # "done"
    /\ late' = TRUE
    /\ UNCHANGED <<at, attempts, repairs, limit, repairing, rows, outcome>>

Return(result) == at' = "done" /\ outcome' = result

\* Slip: past the deadline the loop waits and looks again.
DeadlineWaited == at = "loop" /\ late /\ UNCHANGED vars

DeadlineExceeded ==
    /\ at = "loop" /\ late
    /\ Return("deadline")
    /\ UNCHANGED <<late, attempts, repairs, limit, repairing, rows>>

\* _kind_of.
Kind == IF repairing THEN "repair" ELSE IF attempts > 0 THEN "retry" ELSE "primary"

\* _start, then the request goes out.
Call ==
    /\ at = "loop" /\ ~late
    /\ rows' = Append(rows, [kind |-> Kind, status |-> "running"])
    /\ at' = "calling"
    /\ UNCHANGED <<late, attempts, repairs, limit, repairing, outcome>>

\* _finish on the row of the call that has just ended.
Record(status) == rows' = [rows EXCEPT ![Calls].status = status]

\* int(max_output_tokens * 1.5), up to the ceiling.
Grown == LET more == (limit * 3) \div 2 IN IF more < Ceiling THEN more ELSE Ceiling

\* Slips: a failed repair turn gives its repair back and charges no budget; a
\* retry starts again from the original turn.
ChargedByTurn == IF repairing THEN attempts ELSE attempts + 1
NextTurnAfresh == FALSE

\* A transport failure is charged to the transport budget on whatever turn it
\* came; a repair that failed so is retried as a repair.
Charged == attempts + 1
NextTurn == repairing

\* LlmProviderError.
TransportFails(truncated, retryable) ==
    /\ at = "calling"
    /\ attempts' = Charged
    /\ repairing' = NextTurn
    /\ Record("provider_error")
    /\ limit' = IF truncated THEN Grown ELSE limit
    /\ IF ~retryable THEN Return("permanent")
       ELSE IF attempts' >= MaxAttempts THEN Return("attempts")
       ELSE at' = "loop" /\ UNCHANGED outcome
    /\ UNCHANGED <<late, repairs>>

\* The answer is not JSON or does not fit the schema: a repair turn, if one is
\* left.
SchemaFails ==
    /\ at = "calling"
    /\ Record("schema_invalid")
    /\ IF repairs >= MaxRepairs
       THEN Return("repairs") /\ UNCHANGED <<repairs, repairing>>
       ELSE /\ at' = "loop" /\ UNCHANGED outcome
            /\ repairs' = repairs + 1
            /\ repairing' = TRUE
    /\ UNCHANGED <<late, attempts, limit>>

Succeeds ==
    /\ at = "calling"
    /\ Record("validated")
    /\ Return("envelope")
    /\ UNCHANGED <<late, attempts, repairs, limit, repairing>>

\* Anything but an LlmProviderError passes through run: the row stays as it is.
Raises ==
    /\ at = "calling"
    /\ Return("raised")
    /\ UNCHANGED <<late, attempts, repairs, limit, repairing, rows>>

Answer ==
    \/ \E truncated, retryable \in BOOLEAN : TransportFails(truncated, retryable)
    \/ SchemaFails
    \/ Succeeds
    \/ Raises

Next == Elapse \/ DeadlineExceeded \/ Call \/ Answer

Spec == Init /\ [][Next]_vars

-----------------------------------------------------------------------------
(* Properties. *)

Row == [kind : {"primary", "retry", "repair"},
        status : {"running", "provider_error", "schema_invalid", "validated"}]

RowsWith(s) == {n \in 1 .. Calls : rows[n].status = s}

TypeOK ==
    /\ at \in {"loop", "calling", "done"}
    /\ late \in BOOLEAN /\ repairing \in BOOLEAN
    /\ attempts \in Nat /\ repairs \in Nat
    /\ limit \in Nat
    /\ rows \in Seq(Row)
    /\ outcome \in {"none", "deadline", "permanent", "attempts", "repairs", "envelope", "raised"}

\* The number that costs money (runner.py: "the loop is bounded ... no matter
\* which order things fail in"): the module's own text allows one call more than
\* the code ever makes.
CallsBounded == Calls <= MaxAttempts + MaxRepairs

\* "Two budgets, genuinely independent": each is spent by its own kind of
\* failure only, as the recorded rows tell, and extraction is given up for
\* want of a repair only when every repair was spent on a schema failure.
BudgetsIndependent ==
    /\ attempts = Cardinality(RowsWith("provider_error"))
    /\ repairs + (IF outcome = "repairs" THEN 1 ELSE 0) = Cardinality(RowsWith("schema_invalid"))
    /\ outcome = "repairs" => repairs = MaxRepairs
    /\ outcome = "attempts" => attempts = MaxAttempts

\* After an answer that did not fit the schema every further call carries the
\* correction, whatever fails in between (runner.py: "retried as a repair rather
\* than restarted from the original turn").
RepairsStayRepairs ==
    \A m, n \in 1 .. Calls :
        m < n /\ rows[m].status = "schema_invalid" => rows[n].kind = "repair"

\* The inductive invariant: every call made is charged to one budget, but for
\* the one that is out or that ended the loop otherwise.
RunnerInv ==
    /\ TypeOK
    /\ Calls = attempts + repairs
               + (IF at = "calling" \/ outcome \in {"repairs", "envelope", "raised"} THEN 1 ELSE 0)
    /\ repairs <= MaxRepairs
    /\ attempts <= MaxAttempts
    /\ at # "done" \/ outcome \in {"repairs", "envelope", "raised"} => attempts < MaxAttempts
    /\ at # "done" <=> outcome = "none"
=============================================================================
