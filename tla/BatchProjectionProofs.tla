------------------------ MODULE BatchProjectionProofs ------------------------
(***************************************************************************)
(* The cached projection, for any items and any number of sessions.        *)
(***************************************************************************)
EXTENDS BatchProjection, FiniteSetTheorems, TLAPS

\* The variables that hold a value for each session.
PerSession ==
    /\ at \in [Sessions -> {"idle", "load", "count", "commit"}]
    /\ disturbed \in [Sessions -> BOOLEAN]
    /\ writes = [t \in Sessions |-> writes[t]]
    /\ loaded = [t \in Sessions |-> loaded[t]]
    /\ seen = [t \in Sessions |-> seen[t]]

LEMMA PerSessionInit == Init => PerSession
  BY DEF Init, PerSession

LEMMA PerSessionStep == PerSession /\ [Next]_vars => PerSession'
  <1> SUFFICES ASSUME PerSession, [Next]_vars
               PROVE  PerSession'
    OBVIOUS
  <1>1. ASSUME NEW t \in Sessions, NEW i \in Items, NEW target \in ItemStatus,
               Update(t, i, target)
        PROVE  PerSession'
    BY <1>1 DEF Update, PerSession
  <1>2. ASSUME NEW t \in Sessions, Load(t) \/ Count(t)
        PROVE  PerSession'
    BY <1>2 DEF Load, Count, PerSession
  <1>3. ASSUME NEW t \in Sessions, Commit(t)
        PROVE  PerSession'
    BY <1>3 DEF Commit, Close, PerSession
  <1>4. ASSUME NEW t \in Sessions, Rollback(t)
        PROVE  PerSession'
    BY <1>4 DEF Rollback, Close, PerSession
  <1>5. CASE UNCHANGED vars
    BY <1>5 DEF vars, PerSession
  <1>6. QED
    BY <1>1, <1>2, <1>3, <1>4, <1>5 DEF Next

LEMMA ProjectionInit == Init => ProjectionInv
  BY DEF Init, ProjectionInv, CacheRightUnlessDisturbed

\* A session whose batch is as it loaded it writes the whole projection.
LEMMA UndisturbedFlush ==
    ASSUME NEW t \in Sessions, NEW st, loaded[t] = cache, seen[t] = Projection(st)
    PROVE  Flushed(t) = Projection(st)
  <1>1. seen[t].finished \in BOOLEAN
    BY DEF Projection
  <1>2. Flushed(t) = [status |-> seen[t].status, counts |-> seen[t].counts,
                      finished |-> seen[t].finished]
    BY <1>1 DEF Flushed
  <1>3. QED
    BY <1>2 DEF Projection

LEMMA ProjectionStep == PerSession /\ ProjectionInv /\ [Next]_vars => ProjectionInv'
  <1> SUFFICES ASSUME PerSession, ProjectionInv, [Next]_vars
               PROVE  ProjectionInv'
    OBVIOUS
  <1>1. ASSUME NEW t \in Sessions, NEW i \in Items, NEW target \in ItemStatus,
               Update(t, i, target)
        PROVE  ProjectionInv'
    <2>1. \A u \in Sessions : u # t => at'[u] = at[u] /\ View(u)' = View(u)
      BY <1>1 DEF Update, PerSession, View
    <2>2. at'[t] # "commit" /\ (at'[t] = "count" => at[t] = "commit")
      BY <1>1 DEF Update, PerSession
    <2>3. QED
      BY <1>1, <2>1, <2>2 DEF Update, PerSession, ProjectionInv, CacheRightUnlessDisturbed
  <1>2. ASSUME NEW t \in Sessions, Load(t)
        PROVE  ProjectionInv'
    <2>1. \A u \in Sessions : View(u)' = View(u)
      BY <1>2 DEF Load, View
    <2>2. QED
      BY <1>2, <2>1 DEF Load, PerSession, ProjectionInv, CacheRightUnlessDisturbed
  <1>3. ASSUME NEW t \in Sessions, Count(t)
        PROVE  ProjectionInv'
    <2>1. \A u \in Sessions : View(u)' = View(u)
      BY <1>3 DEF Count, View
    <2>2. QED
      BY <1>3, <2>1 DEF Count, PerSession, ProjectionInv, CacheRightUnlessDisturbed
  <1>4. ASSUME NEW t \in Sessions, Commit(t)
        PROVE  ProjectionInv'
    <2>1. CacheRightUnlessDisturbed'
      BY <1>4, UndisturbedFlush DEF Commit, CacheRightUnlessDisturbed, ProjectionInv, PerSession
    <2>2. \A u \in Sessions : ~disturbed'[u] => at'[u] \notin {"count", "commit"}
      BY <1>4 DEF Commit, Close, PerSession
    <2>3. QED
      BY <2>1, <2>2 DEF ProjectionInv
  <1>5. ASSUME NEW t \in Sessions, Rollback(t)
        PROVE  ProjectionInv'
    <2>1. at'[t] = "idle"
      BY <1>5 DEF Rollback, Close, PerSession
    <2>2. \A u \in Sessions : u # t =>
            /\ at'[u] = at[u] /\ View(u)' = View(u)
            /\ loaded'[u] = loaded[u] /\ seen'[u] = seen[u] /\ disturbed'[u] = disturbed[u]
      BY <1>5 DEF Rollback, Close, PerSession, View
    <2>3. QED
      BY <1>5, <2>1, <2>2 DEF Rollback, ProjectionInv, CacheRightUnlessDisturbed
  <1>6. CASE UNCHANGED vars
    BY <1>6 DEF vars, ProjectionInv, CacheRightUnlessDisturbed, View
  <1>7. QED
    BY <1>1, <1>2, <1>3, <1>4, <1>5, <1>6 DEF Next

\* A session nobody disturbed holds the batch as it is and the projection its
\* commit makes true.
THEOREM ProjectionInvariant == Spec => []ProjectionInv
  <1>1. Spec => []PerSession
    BY PerSessionInit, PerSessionStep, PTL DEF Spec
  <1>2. QED
    BY <1>1, ProjectionInit, ProjectionStep, PTL DEF Spec

\* The cached projection is right whenever the last commit was undisturbed, in a
\* batch of any size and beside any number of transactions.
THEOREM CacheRight == Spec => []CacheRightUnlessDisturbed
  BY ProjectionInvariant, PTL DEF ProjectionInv

-----------------------------------------------------------------------------
(* The two roll-ups. *)

StatusesTyped ==
    /\ status \in [Items -> ItemStatus]
    /\ writes \in [Sessions -> [Items -> ItemStatus \cup {Untouched}]]

LEMMA StatusesStep == StatusesTyped /\ [Next]_vars => StatusesTyped'
  <1> SUFFICES ASSUME StatusesTyped, [Next]_vars
               PROVE  StatusesTyped'
    OBVIOUS
  <1>1. ASSUME NEW t \in Sessions, NEW i \in Items, NEW target \in ItemStatus,
               Update(t, i, target)
        PROVE  StatusesTyped'
    <2>1. [writes[t] EXCEPT ![i] = target] \in [Items -> ItemStatus \cup {Untouched}]
      BY DEF StatusesTyped
    <2>2. writes' = [writes EXCEPT ![t] = [writes[t] EXCEPT ![i] = target]] /\ status' = status
      BY <1>1 DEF Update
    <2> QED
      BY <2>1, <2>2 DEF StatusesTyped
  <1>2. ASSUME NEW t \in Sessions
        PROVE  View(t) \in [Items -> ItemStatus]
    BY DEF View, StatusesTyped
  <1>3. Nothing \in [Items -> ItemStatus \cup {Untouched}]
    BY DEF Nothing
  <1>4. ASSUME NEW t \in Sessions, Commit(t) \/ Rollback(t)
        PROVE  StatusesTyped'
    BY <1>2, <1>3, <1>4 DEF Commit, Rollback, Close, StatusesTyped
  <1>5. CASE UNCHANGED <<status, writes>>
    BY <1>5 DEF StatusesTyped
  <1> QED
    BY <1>1, <1>4, <1>5 DEF Next, Load, Count, vars

LEMMA CountFacts ==
    ASSUME IsFiniteSet(Items), NEW P \in SUBSET Items
    PROVE  /\ Cardinality(P) \in Nat /\ Cardinality(P) <= Cardinality(Items)
           /\ Cardinality(Items) \in Nat /\ IsFiniteSet(P)
           /\ Cardinality(P) = 0 <=> P = {}
           /\ Cardinality(P) = Cardinality(Items) <=> P = Items
  BY FS_Subset, FS_CardinalityType, FS_EmptySet

LEMMA StatusesAgree ==
    ASSUME IsFiniteSet(Items), StatusesTyped
    PROVE  RollUpsAgree
  <1> DEFINE Of == [k \in CountKeys |-> {i \in Items : CountKeyOf(status[i]) = k}]
             c == CountsFrom(status)
             total == Cardinality(Items)
             active == {i \in Items : status[i] \in PipelineActive}
             failed == {i \in Items : status[i] \in PipelineFailed}
             batch == DeriveBatchStatus(status)
  <1>1. \A i \in Items : status[i] \in ItemStatus
    BY DEF StatusesTyped
  <1>2. \A k \in CountKeys : c[k] = Cardinality(Of[k])
    BY DEF CountsFrom
  <1>3. /\ "queued" \in CountKeys /\ "processing" \in CountKeys
        /\ "needs_attention" \in CountKeys /\ "failed" \in CountKeys
    BY DEF CountKeys
  <1>4. /\ Of["queued"] = {i \in Items : status[i] = "uploaded"}
        /\ Of["processing"] = {i \in Items : status[i] \in InFlight}
        /\ Of["needs_attention"] = {i \in Items : status[i] = "needs_attention"}
        /\ Of["failed"] = {i \in Items : status[i] = "failed"}
    BY <1>1, <1>3 DEF CountKeyOf, InFlight, ItemStatus, PipelineActive, PipelineSucceeded,
                PipelineFailed, Claimable
  <1>5. /\ active = Of["queued"] \cup Of["processing"]
        /\ failed = Of["needs_attention"] \cup Of["failed"]
        /\ Of["needs_attention"] \cap Of["failed"] = {}
        /\ active \cap failed = {}
    BY <1>4 DEF PipelineActive, PipelineFailed, Claimable, InFlight
  <1>6. total \in Nat /\ (total = 0 <=> Items = {})
    BY CountFacts
  <1>7. \A k \in CountKeys : /\ c[k] \in Nat
                             /\ c[k] = total <=> Of[k] = Items
                             /\ c[k] = 0 <=> Of[k] = {}
    <2> SUFFICES ASSUME NEW k \in CountKeys
                 PROVE  /\ Cardinality(Of[k]) \in Nat
                        /\ Cardinality(Of[k]) = total <=> Of[k] = Items
                        /\ Cardinality(Of[k]) = 0 <=> Of[k] = {}
      <3> HIDE DEF Of, c
      <3> QED
        BY <1>2
    <2>1. Of[k] \in SUBSET Items
      OBVIOUS
    <2> HIDE DEF Of
    <2> QED
      BY <2>1, CountFacts
  <1>8. c["queued"] + c["processing"] = 0 <=> active = {}
    <2> HIDE DEF Of, c
    <2> QED
      BY <1>3, <1>5, <1>7
  <1>9. c["needs_attention"] + c["failed"] = Cardinality(failed)
    <2>1. IsFiniteSet(Of["needs_attention"]) /\ IsFiniteSet(Of["failed"])
      <3>1. Of["needs_attention"] \in SUBSET Items /\ Of["failed"] \in SUBSET Items
        BY <1>3
      <3> QED
        BY <3>1, CountFacts
    <2>2. /\ c["needs_attention"] = Cardinality(Of["needs_attention"])
          /\ c["failed"] = Cardinality(Of["failed"])
          /\ c["needs_attention"] \in Nat /\ c["failed"] \in Nat
      BY <1>2, <1>3, <1>7
    <2> HIDE DEF Of, c, failed
    <2>3. Cardinality(failed) = Cardinality(Of["needs_attention"]) + Cardinality(Of["failed"])
                                  - Cardinality({})
      BY <1>5, <2>1, FS_Union
    <2> QED
      BY <2>2, <2>3, FS_EmptySet
  <1>10. /\ Cardinality(failed) \in Nat /\ Cardinality(failed) <= total
         /\ Cardinality(failed) = 0 <=> failed = {}
         /\ Cardinality(failed) = total <=> failed = Items
    BY CountFacts
  <1>11. batch = IF Of["queued"] = Items THEN "queued"
                 ELSE IF active # {} THEN "processing"
                 ELSE IF failed = Items THEN "failed"
                 ELSE IF failed # {} THEN "partial_failed"
                 ELSE "completed"
    BY <1>4 DEF DeriveBatchStatus
  <1>12. Of["queued"] \subseteq active
    BY <1>5
  <1> HIDE DEF Of, c, total, active, failed, batch
  <1>13. /\ batch = "queued" <=> c["queued"] = total
         /\ batch \in Terminal <=> c["queued"] + c["processing"] = 0 /\ total > 0
         /\ batch = "failed" <=> Cardinality(failed) = total /\ total > 0
         /\ batch = "partial_failed" => Cardinality(failed) \in 1 .. total - 1
         /\ batch = "completed" => Cardinality(failed) = 0
    <2>1. c["queued"] = total <=> Of["queued"] = Items
      BY <1>3, <1>7
    <2>2. batch \in Terminal <=> batch \in {"failed", "partial_failed", "completed"}
      BY DEF Terminal
    <2>3. CASE Items = {}
      <3>1. Of["queued"] = Items /\ total = 0 /\ Cardinality(failed) = 0
        <4>1. failed = {}
          BY <2>3 DEF failed
        <4>2. Of["queued"] = {}
          BY <1>4, <2>3
        <4> QED
          BY <1>6, <1>10, <2>3, <4>1, <4>2
      <3> QED
        BY <1>11, <2>1, <2>2, <3>1
    <2>4. CASE Items # {}
      <3>1. active # {} /\ failed # {} => failed # Items
        BY <1>5 DEF active, failed
      <3>2. Of["queued"] = Items => active # {}
        BY <1>12, <2>4
      <3>3. failed = Items => active = {} /\ Of["queued"] # Items
        BY <1>5, <1>12, <2>4 DEF active, failed
      <3> QED
        BY <1>6, <1>8, <1>10, <1>11, <2>1, <2>2, <2>4, <3>2, <3>3
    <2> QED
      BY <2>3, <2>4
  <1> QED
    BY <1>9, <1>13 DEF RollUpsAgree, c, total, batch

\* The batch's status and its seven counts never disagree, though each is derived
\* on its own (item_state.py, counts_from and derive_batch_status).
THEOREM RollUpsNeverDisagree ==
    ASSUME IsFiniteSet(Items)
    PROVE  Spec => []RollUpsAgree
  <1>1. Init => StatusesTyped
    BY DEF Init, StatusesTyped, Nothing
  <1>2. StatusesTyped => RollUpsAgree
    BY StatusesAgree
  <1> QED
    BY <1>1, <1>2, StatusesStep, PTL DEF Spec
=============================================================================
