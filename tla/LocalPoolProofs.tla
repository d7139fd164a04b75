--------------------------- MODULE LocalPoolProofs ---------------------------
(***************************************************************************)
(* Proofs about the worker pool, for any number of items, slots, claims    *)
(* and starts: no slot is lost or invented, a run has its row until its    *)
(* lease runs out, and no claim is left with nobody at it but those the    *)
(* code knowingly gives up.                                                *)
(***************************************************************************)
EXTENDS LocalPool, FiniteSetTheorems, TLAPS

\* A pool that was not stopped since its process started has no poller left
\* over; start and stop order the modes.
Phases ==
    /\ mode = "down" /\ ~stopping => poller = "exited"
    /\ mode \in {"joining", "draining"} => stopping

\* The hand holds the last claim; a token names one claim and one row.
Tokens ==
    /\ hand # NoClaim => hand.token = tokens /\ tokens > 0
    /\ \A t \in tasks : t.token \in 1 .. tokens /\ t # hand
    /\ \A i \in Items : row[i].token <= tokens
    /\ \A t, u \in tasks \cup ({hand} \ {NoClaim}) : t.token = u.token => t = u
    /\ \A t \in tasks \cup ({hand} \ {NoClaim}), i \in Items :
            row[i].token = t.token => t.item = i

\* A poller that is still at it after stop gave up on it is excused.
LatePoller ==
    stopping /\ mode # "joining" =>
        /\ poller # "acquire"
        /\ poller = "claim" => tokens + 1 \in excused
        /\ poller = "submit" => hand.token \in excused

-----------------------------------------------------------------------------
(* Slots. *)

\* One more task, one less.
LEMMA TaskCount ==
    ASSUME IsFiniteSet(tasks), NEW t
    PROVE  /\ Cardinality(tasks) \in Nat
           /\ IsFiniteSet(tasks \cup {t}) /\ IsFiniteSet(tasks \ {t})
           /\ t \notin tasks => Cardinality(tasks \cup {t}) = Cardinality(tasks) + 1
           /\ t \in tasks => Cardinality(tasks \ {t}) = Cardinality(tasks) - 1
  BY FS_CardinalityType, FS_AddElement, FS_RemoveElement

RowsTyped == row \in [Items -> [status : {"absent", "queued", "claimed", "done"}, token : Nat]]

LEMMA RowsTypedStep ==
    ASSUME TypeOK, [Next]_vars
    PROVE  RowsTyped'
  <1>0. RowsTyped /\ tokens \in Nat
    BY DEF TypeOK, RowsTyped
  <1>1. ASSUME NEW i \in Items, NEW s \in {"absent", "queued", "claimed", "done"}, row' = Status(i, s)
        PROVE  RowsTyped'
    BY <1>0, <1>1 DEF RowsTyped, Status
  <1>2. ASSUME NEW i \in Items, ClaimNext(i)
        PROVE  RowsTyped'
    BY <1>0, <1>2 DEF RowsTyped, ClaimNext
  <1>3. CASE Start
    BY <1>0, <1>3 DEF RowsTyped, Start
  <1>4. ASSUME NEW t \in Claims, TaskStep(t)
        PROVE  RowsTyped'
    <2>1. t.item \in Items
      BY DEF Claims
    <2> QED
      BY <1>0, <1>1, <1>4, <2>1 DEF TaskStep, TaskEnds, RowsTyped
  <1>5. CASE UNCHANGED row
    BY <1>0, <1>5 DEF RowsTyped
  <1> QED
    BY <1>1, <1>2, <1>3, <1>4, <1>5
    DEF Next, Arrive, Reap, LeaseLapses, Heartbeat, Hint, Stop, Join, Drain, Crash, Top, Acquire, ClaimNothing, WaitEnds,
        Clear, Submit, dbVars, vars

\* The pool's own state, without the rows.
Kept ==
    /\ tokens \in Nat /\ lapsed \subseteq Nat /\ starts \in Nat /\ permits \in 0 .. Slots
    /\ poller \in {"top", "acquire", "claim", "wait", "clear", "submit", "exited", "raised"}
    /\ hand \in {NoClaim} \cup [item : Items, token : Nat]
    /\ tasks \subseteq [item : Items, token : Nat]
    /\ wake \in BOOLEAN /\ stopping \in BOOLEAN
    /\ executor \in {"none", "open", "shut"}
    /\ mode \in {"down", "up", "joining", "draining"}
    /\ excused \subseteq Nat
    /\ IsFiniteSet(tasks)
    /\ SlotsConserved
    /\ mode = "down" => tasks = {}
    /\ executor = "open" <=> mode \in {"up", "joining"}
    /\ poller = "submit" <=> hand # NoClaim

LEMMA PoolParts == PoolInv <=> RowsTyped /\ Kept
  BY DEF PoolInv, TypeOK, RowsTyped, Kept

LEMMA KeptStep ==
    ASSUME Kept, RowsTyped, Phases, Tokens, [Next]_vars
    PROVE  Kept'
  <1>0. Cardinality(tasks) \in Nat /\ Slots \in Nat \ {0} /\ MaxTokens \in Nat
    BY FS_CardinalityType, LocalPoolAssumption DEF Kept
  <1>1. CASE UNCHANGED <<tokens, starts, permits, poller, hand, tasks, executor, mode>>
             /\ wake' \in BOOLEAN /\ stopping' \in BOOLEAN /\ excused' \subseteq Nat
             /\ lapsed' \subseteq Nat
    BY <1>1 DEF Kept, SlotsConserved
  <1>2. ASSUME NEW i \in Items, ClaimNext(i)
        PROVE  Kept'
    <2>1. /\ hand' = [item |-> i, token |-> tokens + 1] /\ tokens' = tokens + 1
          /\ poller = "claim" /\ poller' = "submit"
          /\ UNCHANGED <<lapsed, tasks, permits, wake, executor, stopping, mode, starts, excused>>
      BY <1>2 DEF ClaimNext, PollerGoes
    <2>2. /\ hand' \in [item : Items, token : Nat] /\ tokens' \in Nat /\ hand' # NoClaim
      BY <2>1 DEF Kept, NoClaim
    <2> QED
      BY <1>0, <2>1, <2>2 DEF Kept, SlotsConserved
  <1>3. CASE Top \/ WaitEnds \/ Clear
    BY <1>0, <1>3 DEF Kept, SlotsConserved, Top, WaitEnds, Clear, PollerGoes, dbVars
  <1>4. CASE Acquire
    <2>1. UNCHANGED <<dbVars, hand, tasks, wake, executor, stopping, mode, starts, excused>>
      BY <1>4 DEF Acquire, PollerGoes
    <2>2. \/ permits > 0 /\ permits' = permits - 1 /\ poller' = "claim"
          \/ permits' = permits /\ poller' = "top"
      BY <1>4 DEF Acquire, PollerGoes
    <2>3. permits' \in 0 .. Slots
      BY <1>0, <2>2 DEF Kept
    <2>4. SlotsConserved'
      BY <1>0, <1>4, <2>1, <2>2 DEF Kept, SlotsConserved, Acquire
    <2> QED
      BY <1>4, <2>1, <2>2, <2>3, <2>4 DEF Kept, Acquire, dbVars
  <1>5. CASE ClaimNothing
    BY <1>0, <1>5 DEF Kept, SlotsConserved, ClaimNothing, PollerGoes, dbVars
  <1>6. CASE Start
    BY <1>0, <1>6 DEF Kept, Phases, SlotsConserved, Start
  <1>7. CASE Stop \/ Drain
    BY <1>0, <1>7 DEF Kept, SlotsConserved, Stop, Drain, dbVars
  <1>8. CASE Join
    <2>1. excused' \subseteq Nat
      BY <1>8 DEF Kept, Join
    <2> QED
      BY <1>0, <1>8, <2>1 DEF Kept, SlotsConserved, Join, dbVars
  <1>9. CASE Crash
    <2>1. Cardinality({}) = 0 /\ IsFiniteSet({})
      BY FS_EmptySet
    <2>2. excused' \subseteq Nat
      <3>1. hand.token \in Nat /\ \A t \in tasks : t.token \in Nat
        BY DEF Kept, NoClaim
      <3> QED
        BY <1>9, <3>1 DEF Kept, Carried, Crash
    <2>3. Cardinality(tasks') = 0 /\ IsFiniteSet(tasks')
      BY <1>9, <2>1 DEF Crash
    <2>4. SlotsConserved' /\ permits' \in 0 .. Slots
      BY <1>0, <1>9, <2>3 DEF SlotsConserved, Crash
    <2> QED
      BY <1>9, <2>2, <2>3, <2>4 DEF Kept, Crash, dbVars
  <1>10. CASE Submit
    <2>1. hand \in [item : Items, token : Nat] /\ hand \notin tasks /\ hand # NoClaim
      BY <1>10 DEF Kept, Submit, Tokens
    <2>2. /\ Cardinality(tasks \cup {hand}) = Cardinality(tasks) + 1
          /\ IsFiniteSet(tasks \cup {hand})
      BY <2>1, TaskCount DEF Kept
    <2> QED
      <3>1. CASE executor = "open" /\ tasks' = tasks \cup {hand} /\ poller' = "top"
                 /\ permits' = permits
        <4>1. SlotsConserved' /\ IsFiniteSet(tasks')
          BY <1>0, <1>10, <2>2, <3>1 DEF Kept, SlotsConserved, Submit
        <4> QED
          BY <1>10, <2>1, <3>1, <4>1 DEF Kept, Submit, PollerGoes, dbVars
      <3>2. CASE executor = "none" /\ permits' = permits + 1 /\ poller' = "top" /\ tasks' = tasks
        <4>1. SlotsConserved' /\ permits' \in 0 .. Slots
          BY <1>0, <1>10, <3>2 DEF Kept, SlotsConserved, Submit
        <4> QED
          BY <1>10, <3>2, <4>1 DEF Kept, Submit, PollerGoes, dbVars
      <3>3. CASE executor # "open" /\ poller' = "raised" /\ UNCHANGED <<tasks, permits>>
        <4>1. SlotsConserved'
          BY <1>0, <1>10, <3>3 DEF Kept, SlotsConserved, Submit
        <4> QED
          BY <1>10, <3>3, <4>1 DEF Kept, Submit, PollerGoes, dbVars
      <3> QED
        BY <1>10, <3>1, <3>2, <3>3 DEF Submit, PollerGoes
  <1>11. ASSUME NEW t \in Claims, TaskStep(t)
         PROVE  Kept'
    <2>1. PICK outcome \in {"done", "queued", "raised"} : TaskEnds(t, outcome)
      BY <1>11 DEF TaskStep
    <2>2. /\ t \in tasks /\ t.token \in Nat
          /\ Cardinality(tasks \ {t}) = Cardinality(tasks) - 1
          /\ IsFiniteSet(tasks \ {t}) /\ Cardinality(tasks \ {t}) \in Nat
      BY <2>1, TaskCount, FS_CardinalityType DEF TaskEnds, Kept
    <2>3. /\ tasks' = tasks \ {t} /\ permits' = permits + 1 /\ wake' = TRUE
          /\ excused' \subseteq Nat
          /\ UNCHANGED <<tokens, lapsed, poller, hand, executor, stopping, mode, starts>>
      BY <2>1, <2>2 DEF TaskEnds, Releases, Kept
    <2> QED
      <3>1. permits \in Nat /\ SlotsConserved
        BY DEF Kept
      <3>2. Cardinality(tasks') = Cardinality(tasks) - 1 /\ Cardinality(tasks') \in Nat
        BY <2>2, <2>3
      <3>3. SlotsConserved' /\ permits' \in 0 .. Slots
        BY <1>0, <2>3, <3>1, <3>2 DEF SlotsConserved
      <3> QED
        BY <2>2, <2>3, <3>3 DEF Kept
  <1>12. ASSUME NEW i \in Items, LeaseLapses(i)
         PROVE  Kept'
    <2>1. row[i].token \in Nat
      BY DEF RowsTyped
    <2>2. lapsed \subseteq Nat /\ lapsed' = lapsed \cup {row[i].token}
      BY <1>12 DEF LeaseLapses, Kept
    <2>3. lapsed' \subseteq Nat
      BY <2>1, <2>2
    <2> QED
      BY <1>1, <1>12, <2>3 DEF LeaseLapses, poolVars, Kept
  <1>13. ASSUME NEW t \in Claims, Heartbeat(t)
         PROVE  Kept'
    BY <1>1, <1>13 DEF Heartbeat, poolVars, Kept
  <1> QED
    BY <1>1, <1>2, <1>3, <1>4, <1>5, <1>6, <1>7, <1>8, <1>9, <1>10, <1>11, <1>12, <1>13
    DEF Next, Arrive, Reap, Hint, poolVars, dbVars, vars, Kept

LEMMA PhasesStep ==
    ASSUME Kept, Phases, [Next]_vars
    PROVE  Phases'
  BY DEF Kept, Phases, Next, Arrive, ClaimNext, Reap, LeaseLapses, Heartbeat, Hint, Start, Stop, Join, Drain, Crash, Top,
         Acquire, ClaimNothing, WaitEnds, Clear, Submit, TaskStep, TaskEnds, PollerGoes, poolVars,
         dbVars, vars

\* The tokens of what is under way stay as they are, or lose some.
LEMMA FewerTokens ==
    ASSUME Kept, RowsTyped, Tokens, tokens' = tokens,
           \A i \in Items : row'[i].token = row[i].token,
           tasks' \cup ({hand'} \ {NoClaim}) \subseteq tasks \cup ({hand} \ {NoClaim}),
           hand' \in {hand, NoClaim}, hand' \notin tasks'
    PROVE  Tokens'
  <1>1. \A t \in tasks' : t \in tasks \/ (t = hand /\ hand # NoClaim)
    OBVIOUS
  <1>2. hand # NoClaim => hand.token \in 1 .. tokens
    BY DEF Tokens, Kept
  <1> QED
    BY <1>1, <1>2 DEF Tokens

LEMMA TokensStep ==
    ASSUME Kept, RowsTyped, Tokens, [Next]_vars
    PROVE  Tokens'
  <1>0. ASSUME NEW i \in Items, NEW s, row' = Status(i, s)
        PROVE  \A j \in Items : row'[j].token = row[j].token
    BY <1>0 DEF RowsTyped, Status
  <1>1. CASE tokens' = tokens /\ UNCHANGED <<hand, tasks>>
             /\ \A j \in Items : row'[j].token = row[j].token
    BY <1>1 DEF Tokens
  <1>2. ASSUME NEW i \in Items, ClaimNext(i)
        PROVE  Tokens'
    <2>1. /\ hand' = [item |-> i, token |-> tokens + 1] /\ tokens' = tokens + 1
          /\ hand = NoClaim /\ tasks' = tasks /\ tokens \in Nat
          /\ row' = [row EXCEPT ![i] = [status |-> "claimed", token |-> tokens + 1]]
      BY <1>2 DEF ClaimNext, PollerGoes, Kept
    <2>2. \A t \in tasks : t.token \in Nat /\ t.token < tokens + 1 /\ t.token >= 1
      BY <2>1 DEF Tokens, Kept
    <2>3. \A j \in Items : /\ row[j].token \in Nat /\ row[j].token < tokens + 1
                           /\ row'[j].token = IF j = i THEN tokens + 1 ELSE row[j].token
      BY <2>1 DEF Tokens, RowsTyped
    <2>4. hand'.item = i /\ hand'.token = tokens + 1
      BY <2>1
    <2>5. /\ hand' # NoClaim => hand'.token = tokens' /\ tokens' > 0
          /\ \A t \in tasks' : t.token \in 1 .. tokens' /\ t # hand'
          /\ \A j \in Items : row'[j].token <= tokens'
      BY <2>1, <2>2, <2>3, <2>4
    <2>6. \A t, u \in tasks' \cup ({hand'} \ {NoClaim}) : t.token = u.token => t = u
      <3>1. \A t, u \in tasks : t.token = u.token => t = u
        BY DEF Tokens
      <3> QED
        BY <2>1, <2>2, <2>4, <3>1
    <2>7. ASSUME NEW t \in tasks' \cup ({hand'} \ {NoClaim}), NEW j \in Items,
                 row'[j].token = t.token
          PROVE  t.item = j
      <3>1. CASE t = hand'
        BY <2>1, <2>3, <2>4, <2>7, <3>1
      <3>2. CASE t \in tasks
        BY <2>1, <2>2, <2>3, <2>7, <3>2 DEF Tokens
      <3> QED
        BY <2>1, <2>7, <3>1, <3>2
    <2> QED
      BY <2>5, <2>6, <2>7 DEF Tokens
  <1>3. CASE Start
    <2>1. \A j \in Items : row'[j].token = row[j].token
      BY <1>3 DEF Start, RowsTyped
    <2> QED
      BY <1>1, <1>3, <2>1 DEF Start
  <1>4. CASE Crash
    BY <1>4, FewerTokens DEF Crash, dbVars
  <1>5. CASE Submit
    <2>1. hand # NoClaim /\ NoClaim \notin tasks
      BY <1>5 DEF Submit, Kept, Tokens, NoClaim
    <2> QED
      BY <1>5, <2>1, FewerTokens DEF Submit, dbVars, PollerGoes
  <1>6. ASSUME NEW t \in Claims, TaskStep(t)
        PROVE  Tokens'
    <2>1. t.item \in Items
      BY DEF Claims
    <2>2. \A j \in Items : row'[j].token = row[j].token
      BY <1>0, <1>6, <2>1 DEF TaskStep, TaskEnds
    <2>3. tasks' = tasks \ {t} /\ UNCHANGED <<tokens, hand>>
      BY <1>6 DEF TaskStep, TaskEnds
    <2> QED
      BY <2>2, <2>3, FewerTokens DEF Tokens
  <1> QED
    BY <1>0, <1>1, <1>2, <1>3, <1>4, <1>5, <1>6
    DEF Next, Arrive, Reap, LeaseLapses, Heartbeat, Hint, Stop, Join, Drain, Top, Acquire, ClaimNothing, WaitEnds,
        Clear, PollerGoes, dbVars, poolVars, vars

\* The stop that gives up on a poller excuses the claim in its hand, or the
\* next one.
LEMMA LateStep ==
    ASSUME Kept, Tokens, LatePoller, Phases, [Next]_vars
    PROVE  LatePoller'
  <1>1. CASE Join
    BY <1>1 DEF LatePoller, Join, Tokens, Kept, dbVars
  <1>2. ASSUME NEW i \in Items, ClaimNext(i)
        PROVE  LatePoller'
    BY <1>2 DEF LatePoller, ClaimNext, PollerGoes
  <1>3. CASE Start
    BY <1>3 DEF LatePoller, Start, Phases
  <1>4. ASSUME NEW t \in Claims, TaskStep(t)
        PROVE  LatePoller'
    BY <1>4 DEF LatePoller, TaskStep, TaskEnds
  <1>5. CASE Stop \/ Crash
    BY <1>5 DEF LatePoller, Stop, Crash
  <1>8. CASE Drain
    BY <1>8 DEF LatePoller, Drain, Phases, dbVars
  <1>6. CASE Top \/ Acquire \/ ClaimNothing \/ WaitEnds \/ Clear \/ Submit
    BY <1>6
    DEF LatePoller, Top, Acquire, ClaimNothing, WaitEnds, Clear, Submit, PollerGoes, dbVars
  <1>7. CASE UNCHANGED <<tokens, hand, poller, mode, stopping, excused>>
    BY <1>7 DEF LatePoller
  <1> QED
    BY <1>1, <1>2, <1>3, <1>4, <1>5, <1>6, <1>7, <1>8
    DEF Next, Arrive, Reap, LeaseLapses, Heartbeat, Hint, dbVars, poolVars, vars

-----------------------------------------------------------------------------
(* Claims. *)

Under == tasks \cup ({hand} \ {NoClaim})

Mine(t) == row[t.item].status = "claimed" /\ row[t.item].token = t.token

\* Either somebody is at a claimed row or its claim is excused.
Attended(i) ==
    row[i].status = "claimed" =>
        /\ row[i].token > 0
        /\ row[i].token \in excused \/ \E t \in Under : t.token = row[i].token

CarriedInv ==
    /\ \A t \in Under : Mine(t) \/ t.token \in lapsed \cup excused
    /\ \A i \in Items : Attended(i)

LEMMA AttendedAgrees == Kept /\ RowsTyped /\ Tokens /\ CarriedInv => ClaimsAreCarried
  <1> SUFFICES ASSUME Kept, RowsTyped, Tokens, CarriedInv
               PROVE  ClaimsAreCarried
    OBVIOUS
  <1>1. ASSUME NEW i \in Stranded
        PROVE  row[i].token \in excused
    <2>1. i \in Items /\ row[i].status = "claimed" /\ row[i].token \notin Carried
      BY DEF Stranded, Claimed
    <2>2. \A t \in Under : t.token \in Carried
      BY DEF Under, Carried
    <2> QED
      BY <2>1, <2>2 DEF CarriedInv, Attended
  <1> QED
    BY <1>1 DEF ClaimsAreCarried, CarriedInv, Under, Mine

\* Nothing is taken away from a row, and nobody leaves it.
LEMMA SameHands ==
    ASSUME CarriedInv, UNCHANGED <<tasks, hand>>, lapsed \subseteq lapsed', excused \subseteq excused',
           \A i \in Items : row'[i] = row[i] \/ (row[i].status # "claimed" /\ row'[i].status # "claimed"),
           \A t \in Under : t.item \in Items
    PROVE  CarriedInv'
  <1>1. Under' = Under
    BY DEF Under
  <1>2. \A t \in Under' : Mine(t)' \/ t.token \in lapsed' \cup excused'
    BY <1>1 DEF CarriedInv, Mine
  <1>3. \A i \in Items : Attended(i)'
    BY <1>1 DEF CarriedInv, Attended
  <1> QED
    BY <1>2, <1>3 DEF CarriedInv

LEMMA CarriedStep ==
    ASSUME Kept, RowsTyped, Tokens, Phases, LatePoller, CarriedInv, [Next]_vars
    PROVE  CarriedInv'
  <1>0. /\ \A t \in Under : t.item \in Items /\ t.token \in Nat /\ t.token > 0
        /\ \A i \in Items : row[i].token \in Nat
    BY DEF Kept, RowsTyped, Tokens, Under
  <1>1. ASSUME NEW i \in Items, Arrive(i)
        PROVE  CarriedInv'
    BY <1>0, <1>1, SameHands DEF Arrive, Status, poolVars, RowsTyped
  <1>2. ASSUME NEW i \in Items, ClaimNext(i)
        PROVE  CarriedInv'
    <2>1. /\ hand' = [item |-> i, token |-> tokens + 1] /\ tokens \in Nat
          /\ hand = NoClaim /\ tasks' = tasks /\ excused' = excused /\ lapsed' = lapsed
          /\ row' = [row EXCEPT ![i] = [status |-> "claimed", token |-> tokens + 1]]
          /\ row[i].status # "claimed"
      BY <1>2 DEF ClaimNext, PollerGoes, Kept, Queued
    <2>2. hand' # NoClaim
      BY <2>1 DEF NoClaim
    <2>3. Under = tasks /\ Under' = tasks \cup {hand'}
      BY <2>1, <2>2 DEF Under
    <2>4. \A j \in Items : row'[j] = IF j = i THEN [status |-> "claimed", token |-> tokens + 1]
                                     ELSE row[j]
      BY <2>1 DEF RowsTyped
    <2>5. ASSUME NEW t \in Under'
          PROVE  Mine(t)' \/ t.token \in lapsed' \cup excused'
      <3>1. CASE t = hand'
        BY <2>1, <2>4, <3>1 DEF Mine
      <3>2. CASE t \in tasks
        BY <1>0, <2>1, <2>3, <2>4, <3>2 DEF Mine, CarriedInv
      <3> QED
        BY <2>3, <2>5, <3>1, <3>2
    <2>6. ASSUME NEW j \in Items
          PROVE  Attended(j)'
      BY <2>1, <2>3, <2>4 DEF Attended, CarriedInv
    <2> QED
      BY <2>5, <2>6 DEF CarriedInv
  <1>3. ASSUME NEW i \in Items, NEW outcome \in {"queued", "done"}, Reap(i, outcome)
        PROVE  CarriedInv'
    <2>1. /\ row' = [row EXCEPT ![i].status = outcome] /\ row[i].token \in lapsed
          /\ UNCHANGED <<hand, tasks, lapsed, excused>>
      BY <1>3 DEF Reap, Reapable, Status
    \* Whoever is at the row has outlived its lease.
    <2>2. \A t \in Under : t.item = i /\ Mine(t) => t.token \in lapsed
      BY <2>1 DEF Mine
    <2>3. Under' = Under
      BY <2>1 DEF Under
    <2>4. row'[i].status # "claimed" /\ \A j \in Items : j # i => row'[j] = row[j]
      BY <2>1 DEF RowsTyped
    <2>5. \A t \in Under' : Mine(t)' \/ t.token \in lapsed' \cup excused'
      BY <1>0, <2>1, <2>2, <2>3, <2>4 DEF Mine, CarriedInv
    <2>6. \A j \in Items : Attended(j)'
      BY <2>1, <2>3, <2>4 DEF Attended, CarriedInv
    <2> QED
      BY <2>5, <2>6 DEF CarriedInv
  <1>4. CASE Start
    <2>1. tasks' = {} /\ hand' = hand /\ excused' = excused /\ lapsed' = lapsed
      BY <1>4 DEF Start, Kept
    <2>2. \A t \in Under : t.token \in excused
      BY <1>4 DEF Start, Kept, Under, Phases, LatePoller
    <2>3. Under' = Under
      BY <1>4 DEF Start, Under
    <2>4. \A j \in Items : row'[j] = row[j] \/ row'[j].status # "claimed"
      BY <1>4 DEF Start, RowsTyped
    <2>5. \A j \in Items : Attended(j)'
      BY <2>1, <2>3, <2>4 DEF Attended, CarriedInv
    <2> QED
      BY <2>1, <2>2, <2>3, <2>5 DEF CarriedInv
  <1>5. CASE Crash
    <2>1. Under' = {} /\ row' = row /\ excused' = excused \cup Carried
      BY <1>5 DEF Crash, Under, dbVars
    <2>2. \A t \in Under : t.token \in Carried
      BY DEF Under, Carried
    <2>3. \A j \in Items : Attended(j)'
      BY <2>1, <2>2 DEF Attended, CarriedInv
    <2> QED
      BY <2>1, <2>3 DEF CarriedInv
  <1>6. CASE Submit
    <2>1. row' = row /\ excused' = excused /\ lapsed' = lapsed /\ hand' = NoClaim /\ hand # NoClaim
      BY <1>6 DEF Submit, PollerGoes, dbVars, Kept
    <2>2. CASE tasks' = tasks \cup {hand}
      <3>1. NoClaim \notin tasks
        BY <1>0 DEF NoClaim, Kept, Tokens
      <3>2. Under' = Under
        BY <2>1, <2>2, <3>1 DEF Under
      <3> QED
        BY <2>1, <3>2 DEF CarriedInv, Attended, Mine
    <2>3. CASE executor # "open" /\ tasks' = tasks
      <3>1. hand.token \in excused
        BY <1>6, <2>3 DEF Submit, Kept, Phases, LatePoller
      <3>2. Under' \subseteq Under /\ \A t \in Under : t \in Under' \/ t.token \in excused
        BY <2>1, <2>3, <3>1 DEF Under
      <3>3. \A t \in Under' : Mine(t)' \/ t.token \in lapsed' \cup excused'
        BY <2>1, <3>2 DEF CarriedInv, Mine
      <3>4. \A j \in Items : Attended(j)'
        BY <2>1, <3>2 DEF CarriedInv, Attended
      <3> QED
        BY <3>3, <3>4 DEF CarriedInv
    <2> QED
      BY <1>6, <2>2, <2>3 DEF Submit
  <1>7. ASSUME NEW t \in Claims, NEW outcome \in {"done", "queued", "raised"}, TaskEnds(t, outcome)
        PROVE  CarriedInv'
    <2>1. /\ t \in tasks /\ tasks' = tasks \ {t} /\ hand' = hand /\ t # hand
          /\ t.item \in Items /\ t \in Under /\ t # NoClaim
      BY <1>0, <1>7 DEF TaskEnds, Tokens, Claims, Under, NoClaim
    <2>2. Under' = Under \ {t}
      BY <2>1 DEF Under
    <2>3. /\ \A j \in Items : j # t.item => row'[j] = row[j]
          /\ row'[t.item] = row[t.item] \/ (Mine(t) /\ row'[t.item].status # "claimed")
          /\ excused \subseteq excused' /\ lapsed' = lapsed
      BY <1>7, <2>1 DEF TaskEnds, Status, RowsTyped, Mine
    <2>4. ASSUME NEW u \in Under'
          PROVE  Mine(u)' \/ u.token \in lapsed' \cup excused'
      <3>1. u \in Under /\ u # t /\ u.token # t.token
        BY <2>1, <2>2 DEF Tokens, Under
      <3> QED
        BY <1>0, <2>3, <3>1 DEF Mine, CarriedInv
    <2>5. ASSUME NEW j \in Items, row'[j].status = "claimed"
          PROVE  Attended(j)'
      <3>1. row'[j] = row[j]
        BY <2>3, <2>5
      <3>2. row[j].token = t.token => t.token \in excused'
        <4>1. row[j].token = t.token => j = t.item /\ Mine(t)
          BY <2>1, <2>5, <3>1 DEF Tokens, Under, Mine
        <4>2. Mine(t) /\ row'[t.item] = row[t.item] => outcome = "raised"
          BY <1>7, <2>1 DEF TaskEnds, Status, RowsTyped, Mine
        <4> QED
          BY <1>7, <3>1, <4>1, <4>2 DEF TaskEnds
      <3> QED
        BY <2>2, <2>3, <3>1, <3>2 DEF Attended, CarriedInv
    <2> QED
      BY <2>4, <2>5 DEF CarriedInv, Attended
  <1>8. CASE Hint \/ Stop \/ Join \/ Drain \/ Top \/ Acquire \/ ClaimNothing \/ WaitEnds \/ Clear
    <2>1. UNCHANGED <<row, tasks, hand, lapsed>> /\ excused \subseteq excused'
      BY <1>8
      DEF Hint, Stop, Join, Drain, Top, Acquire, ClaimNothing, WaitEnds, Clear, PollerGoes, dbVars
    <2> QED
      BY <1>0, <2>1, SameHands
  <1>9. CASE UNCHANGED vars
    BY <1>0, <1>9, SameHands DEF vars
  <1>10. ASSUME NEW i \in Items, LeaseLapses(i)
         PROVE  CarriedInv'
    BY <1>0, <1>10, SameHands DEF LeaseLapses, poolVars
  \* A run that has its lease back is still at its row; no other run has its token.
  <1>11. ASSUME NEW t \in Claims, Heartbeat(t)
         PROVE  CarriedInv'
    <2>1. /\ t \in Under /\ Mine(t) /\ lapsed' = lapsed \ {t.token}
          /\ UNCHANGED <<row, tasks, hand, excused>>
      <3>1. t # NoClaim
        BY <1>0, <1>11 DEF Heartbeat, Tokens, Kept, NoClaim
      <3> QED
        BY <1>11, <3>1 DEF Heartbeat, poolVars, Under, Mine
    <2>2. Under' = Under
      BY <2>1 DEF Under
    <2>3. ASSUME NEW u \in Under'
          PROVE  Mine(u)' \/ u.token \in lapsed' \cup excused'
      <3>1. u.token = t.token => u = t
        BY <2>1, <2>2 DEF Tokens, Under
      <3>2. Mine(u) \/ u.token \in lapsed \cup excused
        BY <2>2 DEF CarriedInv
      <3> QED
        BY <2>1, <3>1, <3>2 DEF Mine
    <2>4. \A j \in Items : Attended(j)'
      BY <2>1, <2>2 DEF Attended, CarriedInv
    <2> QED
      BY <2>3, <2>4 DEF CarriedInv
  <1> QED
    BY <1>1, <1>2, <1>3, <1>4, <1>5, <1>6, <1>7, <1>8, <1>9, <1>10, <1>11 DEF Next, TaskStep

-----------------------------------------------------------------------------

FullInv == PoolInv /\ Phases /\ Tokens /\ LatePoller /\ CarriedInv

LEMMA FullInvariant == Spec => []FullInv
  <1>1. Init => FullInv
    <2> SUFFICES ASSUME Init PROVE FullInv
      OBVIOUS
    <2>1. Cardinality({}) = 0 /\ IsFiniteSet({})
      BY FS_EmptySet
    <2>2. RowsTyped /\ Kept
      <3>1. RowsTyped
        BY DEF Init, RowsTyped
      <3>2. /\ Cardinality(tasks) = 0 /\ IsFiniteSet(tasks)
            /\ permits = Slots /\ poller = "exited" /\ Slots \in Nat
        BY <2>1, LocalPoolAssumption DEF Init
      <3>3. SlotsConserved /\ permits \in 0 .. Slots
        BY <3>2 DEF SlotsConserved
      <3> QED
        BY <3>1, <3>2, <3>3 DEF Init, Kept
    <2>3. Phases /\ Tokens /\ LatePoller
      BY DEF Init, Phases, Tokens, LatePoller
    <2>4. CarriedInv
      BY DEF Init, CarriedInv, Under, Attended
    <2> QED
      BY <2>2, <2>3, <2>4, PoolParts DEF FullInv
  <1>2. FullInv /\ [Next]_vars => FullInv'
    <2> SUFFICES ASSUME FullInv, [Next]_vars PROVE FullInv'
      OBVIOUS
    <2>1. TypeOK /\ RowsTyped /\ Kept
      BY PoolParts DEF FullInv, PoolInv
    <2>2. RowsTyped' /\ Kept'
      BY <2>1, RowsTypedStep, KeptStep DEF FullInv
    <2>3. PoolInv'
      BY <2>2 DEF PoolInv, TypeOK, RowsTyped, Kept
    <2> QED
      BY <2>1, <2>3, PhasesStep, TokensStep, LateStep, CarriedStep DEF FullInv
  <1> QED
    BY <1>1, <1>2, PTL DEF Spec

\* Through idle polls, failed claims, runners that raise, stops and crashes every
\* slot is free, with the poller or with a task.
THEOREM PoolInvariant == Spec => []PoolInv
  BY FullInvariant, PTL DEF FullInv

\* A run has its row to itself until its lease has run out, and no row stays
\* claimed with nobody at it but for the claims the code gives up knowingly; the
\* reaper takes every row whose lease has run out, whoever is at it.
THEOREM NoClaimIsDropped == Spec => []ClaimsAreCarried
  <1>1. FullInv => ClaimsAreCarried
    BY AttendedAgrees, PoolParts DEF FullInv
  <1> QED
    BY <1>1, FullInvariant, PTL
=============================================================================
