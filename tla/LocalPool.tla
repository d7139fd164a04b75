----------------------------- MODULE LocalPool -----------------------------
(***************************************************************************)
(* The threads of one worker process (jobs/local_pool.py): a poller that   *)
(* takes a slot before it claims, as many tasks as slots, a reaper, and    *)
(* whoever starts and stops the pool (main.py, lifespan).                  *)
(*                                                                         *)
(* What a run does to its item is WorkQueue's and Pipeline's; here a row   *)
(* is queued, claimed under a token with a lease, or done.                 *)
(***************************************************************************)
EXTENDS Naturals, FiniteSets

CONSTANTS
    Items,
    Slots,           \* settings.worker_concurrency
    SingleInstance,  \* settings.worker_single_instance: recover at start
    MaxTokens,       \* bound on claims
    MaxStarts        \* bound on starts

ASSUME LocalPoolAssumption ==
    /\ Slots \in Nat \ {0} /\ MaxTokens \in Nat /\ MaxStarts \in Nat
    /\ SingleInstance \in BOOLEAN

VARIABLES
    row,         \* a row's status, and the token of its last claim
    tokens,      \* claims so far
    lapsed,      \* claims whose lease has run out
    poller,      \* where the poller thread is
    hand,        \* the claim it holds
    tasks,       \* claims given to the executor whose slot is not released
    permits,     \* the semaphore
    wake,        \* the wake event
    stopping,    \* the stop event
    executor,    \* none, open, or shut for new tasks
    mode,        \* where start and stop are
    starts,      \* how often the pool was started
    excused      \* history: claims that died with their process, their runner or a late poller

dbVars == <<row, tokens, lapsed>>
poolVars == <<poller, hand, tasks, permits, wake, executor>>
vars == <<row, tokens, lapsed, poller, hand, tasks, permits, wake, stopping, executor, mode,
          starts, excused>>

NoClaim == [item |-> "none", token |-> 0]

Init ==
    /\ row = [i \in Items |-> [status |-> "absent", token |-> 0]]
    /\ tokens = 0 /\ lapsed = {}
    /\ poller = "exited" /\ hand = NoClaim /\ tasks = {}
    /\ permits = Slots /\ wake = FALSE
    /\ stopping = FALSE /\ executor = "none" /\ mode = "down"
    /\ starts = 0 /\ excused = {}

Status(i, s) == [row EXCEPT ![i].status = s]

\* The claims the process still holds, running or about to.
Carried == {t.token : t \in tasks} \cup {hand.token}

Claimed == {i \in Items : row[i].status = "claimed"}

Stranded == {i \in Claimed : row[i].token \notin Carried}

Queued == {i \in Items : row[i].status = "queued"}

-----------------------------------------------------------------------------
(* Slips: variants of definitions below, each with one mistake the code    *)
(* could have made.  No specification uses them.                           *)

\* A wait for a hint without a timeout.
WaitEndsByHint ==
    /\ poller = "wait" /\ wake
    /\ poller' = "clear"
    /\ UNCHANGED <<dbVars, hand, tasks, permits, wake, executor, stopping, mode, starts, excused>>

\* A stop that does not wait for the poller.
JoinNobody ==
    /\ mode = "joining"
    /\ mode' = "draining" /\ executor' = "shut"
    /\ UNCHANGED <<dbVars, poller, hand, tasks, permits, wake, stopping, starts, excused>>

\* A poller that never looks at the stop event.
TopWhateverHappens ==
    /\ poller = "top"
    /\ poller' = "acquire"
    /\ UNCHANGED <<dbVars, hand, tasks, permits, wake, executor, stopping, mode, starts, excused>>

\* A task that releases its slot only when its runner returns.
ReleasesOnReturn(raised) == IF raised THEN permits ELSE permits + 1

-----------------------------------------------------------------------------
(* The service around the pool. *)

\* An item is committed; the hint comes after, or never.
Arrive(i) ==
    /\ row[i].status = "absent"
    /\ row' = Status(i, "queued")
    /\ UNCHANGED <<tokens, lapsed, poolVars, stopping, mode, starts, excused>>

\* enqueue_item, enqueue_batch.
Hint ==
    /\ wake' = TRUE
    /\ UNCHANGED <<dbVars, poller, hand, tasks, permits, executor, stopping, mode, starts, excused>>

\* Recover, open the executor, start the threads.  The poller of a pool that was
\* stopped leaves at once: nothing clears the stop event.
Start ==
    /\ mode = "down" /\ starts < MaxStarts
    /\ starts' = starts + 1
    /\ row' = IF SingleInstance
              THEN [i \in Items |-> IF i \in Claimed THEN [row[i] EXCEPT !.status = "queued"]
                                                     ELSE row[i]]
              ELSE row
    /\ executor' = "open" /\ mode' = "up"
    /\ poller' = IF stopping THEN poller ELSE "top"
    /\ UNCHANGED <<tokens, lapsed, hand, tasks, permits, wake, stopping, excused>>

\* stop: the events, then the poller is joined ...
Stop ==
    /\ mode = "up"
    /\ stopping' = TRUE /\ wake' = TRUE /\ mode' = "joining"
    /\ UNCHANGED <<dbVars, poller, hand, tasks, permits, executor, starts, excused>>

\* ... until it is gone, or its claim has taken longer than the join waits, ...
\* (A poller that waits for a slot or a hint is back within a poll interval, two
\* seconds by default: taken to be shorter than the join's thirty.)
Join ==
    /\ mode = "joining"
    /\ poller \in {"exited", "raised", "claim", "submit"}
    /\ mode' = "draining" /\ executor' = "shut"
    /\ excused' = IF poller \in {"exited", "raised"} THEN excused ELSE excused \cup {tokens, tokens + 1}
    /\ UNCHANGED <<dbVars, poller, hand, tasks, permits, wake, stopping, starts>>

\* ... and the tasks are waited for, however long they take.
Drain ==
    /\ mode = "draining" /\ tasks = {}
    /\ mode' = "down" /\ executor' = "none"
    /\ UNCHANGED <<dbVars, poller, hand, tasks, permits, wake, stopping, starts, excused>>

\* The process dies; the next one has a pool of its own.
Crash ==
    /\ mode # "down" /\ starts < MaxStarts
    /\ poller' = "exited" /\ hand' = NoClaim /\ tasks' = {}
    /\ permits' = Slots /\ wake' = FALSE
    /\ stopping' = FALSE /\ executor' = "none" /\ mode' = "down"
    /\ excused' = excused \cup Carried
    /\ UNCHANGED <<dbVars, starts>>

-----------------------------------------------------------------------------
(* The poller. *)

PollerGoes(where) == poller' = where /\ UNCHANGED <<stopping, mode, starts, excused>>

Top ==
    /\ poller = "top"
    /\ PollerGoes(IF stopping THEN "exited" ELSE "acquire")
    /\ UNCHANGED <<dbVars, hand, tasks, permits, wake, executor>>

\* A slot, within a poll interval or not.
Acquire ==
    /\ poller = "acquire"
    /\ \/ permits > 0 /\ permits' = permits - 1 /\ PollerGoes("claim")
       \/ permits = 0 /\ UNCHANGED permits /\ PollerGoes("top")
    /\ UNCHANGED <<dbVars, hand, tasks, wake, executor>>

\* claim_next, committed.
ClaimNext(i) ==
    /\ poller = "claim" /\ i \in Queued /\ tokens < MaxTokens
    /\ tokens' = tokens + 1
    /\ row' = [row EXCEPT ![i] = [status |-> "claimed", token |-> tokens + 1]]
    /\ hand' = [item |-> i, token |-> tokens + 1]
    /\ PollerGoes("submit")
    /\ UNCHANGED <<lapsed, tasks, permits, wake, executor>>

\* Nothing to claim, or the database failed.
ClaimNothing ==
    /\ poller = "claim"
    /\ permits' = permits + 1
    /\ PollerGoes("wait")
    /\ UNCHANGED <<dbVars, hand, tasks, wake, executor>>

\* A hint, or the poll interval.
WaitEnds ==
    /\ poller = "wait"
    /\ PollerGoes("clear")
    /\ UNCHANGED <<dbVars, hand, tasks, permits, wake, executor>>

\* Whatever was hinted since the wait ended is forgotten with it.
Clear ==
    /\ poller = "clear"
    /\ wake' = FALSE
    /\ PollerGoes("top")
    /\ UNCHANGED <<dbVars, hand, tasks, permits, executor>>

Submit ==
    /\ poller = "submit"
    /\ hand' = NoClaim
    /\ \/ executor = "open" /\ tasks' = tasks \cup {hand} /\ PollerGoes("top") /\ UNCHANGED permits
       \* The executor is gone: the slot is released, the row stays claimed.
       \/ executor = "none" /\ permits' = permits + 1 /\ PollerGoes("top") /\ UNCHANGED tasks
       \* The executor refuses: the exception ends the thread, and the slot with it.
       \/ executor # "open" /\ PollerGoes("raised") /\ UNCHANGED <<tasks, permits>>
    /\ UNCHANGED <<dbVars, wake, executor>>

-----------------------------------------------------------------------------
(* Tasks and the reaper. *)

Releases(raised) == permits + 1

\* The runner is done with its item, gives it back, finds that it is not its own
\* any more, or raises and leaves it claimed; the slot is released in any case.
TaskEnds(t, outcome) ==
    LET mine == row[t.item].status = "claimed" /\ row[t.item].token = t.token IN
    /\ t \in tasks
    /\ tasks' = tasks \ {t}
    /\ permits' = Releases(outcome = "raised")
    /\ wake' = TRUE
    /\ row' = IF mine /\ outcome # "raised" THEN Status(t.item, outcome) ELSE row
    /\ excused' = IF outcome = "raised" THEN excused \cup {t.token} ELSE excused
    /\ UNCHANGED <<tokens, lapsed, poller, hand, executor, stopping, mode, starts>>

\* Time passes: a lease is renewed between stages only, so it runs out under a
\* stage that takes long as it does under a claim nobody is at ...
LeaseLapses(i) ==
    /\ i \in Claimed /\ row[i].token \notin lapsed
    /\ lapsed' = lapsed \cup {row[i].token}
    /\ UNCHANGED <<row, tokens, poolVars, stopping, mode, starts, excused>>

\* ... and a heartbeat that comes before the reaper has it back.
Heartbeat(t) ==
    /\ t \in tasks /\ t.token \in lapsed
    /\ row[t.item].status = "claimed" /\ row[t.item].token = t.token
    /\ lapsed' = lapsed \ {t.token}
    /\ UNCHANGED <<row, tokens, poolVars, stopping, mode, starts, excused>>

\* find_expired_leases, whoever is at the row.
Reapable(i) == i \in Claimed /\ row[i].token \in lapsed

\* Back to the queue, or parked when its attempts are spent.
Reap(i, outcome) ==
    /\ mode = "up" /\ ~stopping
    /\ Reapable(i)
    /\ row' = Status(i, outcome)
    /\ wake' = TRUE
    /\ UNCHANGED <<tokens, lapsed, poller, hand, tasks, permits, executor, stopping, mode, starts,
                   excused>>

-----------------------------------------------------------------------------
TaskStep(t) == \E outcome \in {"done", "queued", "raised"} : TaskEnds(t, outcome)

Claims == [item : Items, token : 1 .. MaxTokens]

Next ==
    \/ \E i \in Items :
        \/ Arrive(i) \/ ClaimNext(i) \/ LeaseLapses(i)
        \/ \E outcome \in {"queued", "done"} : Reap(i, outcome)
    \/ Hint \/ Start \/ Stop \/ Join \/ Drain \/ Crash
    \/ Top \/ Acquire \/ ClaimNothing \/ WaitEnds \/ Clear \/ Submit
    \/ \E t \in Claims : TaskStep(t) \/ Heartbeat(t)

Spec == Init /\ [][Next]_vars

\* Threads run: waits time out, the claim query ends and takes the oldest row, so
\* that none is passed over for ever, runs end.  Nobody need stop the pool, or
\* start it; no lease need run out, or be renewed in time.
Fairness ==
    /\ WF_vars(Top) /\ WF_vars(Acquire) /\ WF_vars(WaitEnds) /\ WF_vars(Clear) /\ WF_vars(Submit)
    /\ WF_vars(ClaimNothing \/ \E i \in Items : ClaimNext(i))
    /\ \A i \in Items : SF_vars(ClaimNext(i))
    /\ \A t \in Claims : WF_vars(TaskStep(t))
    /\ WF_vars(Join) /\ WF_vars(Drain)

FairSpec == Spec /\ Fairness

-----------------------------------------------------------------------------
(* Properties. *)

TypeOK ==
    /\ row \in [Items -> [status : {"absent", "queued", "claimed", "done"}, token : Nat]]
    /\ tokens \in Nat /\ lapsed \subseteq Nat /\ starts \in Nat /\ permits \in 0 .. Slots
    /\ poller \in {"top", "acquire", "claim", "wait", "clear", "submit", "exited", "raised"}
    /\ hand \in {NoClaim} \cup [item : Items, token : Nat]
    /\ tasks \subseteq [item : Items, token : Nat]
    /\ wake \in BOOLEAN /\ stopping \in BOOLEAN
    /\ executor \in {"none", "open", "shut"}
    /\ mode \in {"down", "up", "joining", "draining"}
    /\ excused \subseteq Nat

\* Every slot is accounted for, through idle polls, failed claims, runners that
\* raise and a stop that races the poller: free, with the poller, or with a
\* task.  Hence what is claimed never waits for a thread while its lease runs,
\* and the semaphore is never released beyond its bound.  Only a poller that
\* submits to an executor already shut takes its slot with it.
SlotsConserved ==
    permits + Cardinality(tasks)
        + (IF poller \in {"claim", "submit", "raised"} THEN 1 ELSE 0) = Slots

\* What the process carries and what the rows say agree: a run is at a row that
\* is still claimed under the run's own token, so that nobody else may take it,
\* until its lease has run out and the reaper may have had it; hence an item is
\* run twice at a time only after a lease ran out under the first run.  And
\* "draining rather than dropping: an item abandoned here would wait out its
\* whole lease" (main.py): no row stays claimed with nobody at it.  Excused are
\* the claims that died with their process, whose runner raised, or whose poller
\* took longer to claim than stop waits.
ClaimsAreCarried ==
    /\ \A t \in tasks \cup ({hand} \ {NoClaim}) :
        \/ row[t.item].status = "claimed" /\ row[t.item].token = t.token
        \/ t.token \in lapsed \cup excused
    /\ \A i \in Stranded : row[i].token \in excused

\* The inductive invariant: the slots, and that nothing runs when stop has
\* returned.
PoolInv ==
    /\ TypeOK
    /\ IsFiniteSet(tasks)
    /\ SlotsConserved
    /\ mode = "down" => tasks = {}
    /\ executor = "open" <=> mode \in {"up", "joining"}
    /\ poller = "submit" <=> hand # NoClaim

\* "A lost notification costs a poll interval and nothing else" (protocol.py),
\* whatever is hinted, and cleared, and when: a queued row is claimed.
QueuedIsTaken ==
    \A i \in Items :
        i \in Queued ~> (i \notin Queued \/ stopping \/ mode = "down" \/ tokens = MaxTokens)

\* stop returns.
StopReturns == mode = "joining" ~> mode = "down"

=============================================================================
