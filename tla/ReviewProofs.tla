---------------------------- MODULE ReviewProofs ----------------------------
(***************************************************************************)
(* What holds of Review for any number of advertisements, reviewers,       *)
(* fields, values and versions: the inductive invariant, and from it that  *)
(* nothing unseen is overwritten, that what is public is what was          *)
(* accepted, and that the desk implements Listing.                         *)
(***************************************************************************)
EXTENDS Review, TLAPS

-----------------------------------------------------------------------------
(* The rows a step writes are rows. *)

\* An edit of a row's values gives values again.
LEMMA EditedIsValues ==
    ASSUME NEW v \in Values, NEW edit \in Edits
    PROVE  Edited(v, edit) \in Values
  BY DEF Edited, Values, Edits

\* The row of an edit or an approval.
LEMMA BumpIsNat ==
    ASSUME NEW row \in Row, NEW v
    PROVE  Bump(row, v) \in Nat /\ Bump(row, v) >= row.version
           /\ (row.values # v => Bump(row, v) = row.version + 1)
  BY DEF Row, Bump

\* A logged event is an event.
LEMMA EventIsEvent ==
    ASSUME NEW action \in {"edited", "approved", "rejected"}, NEW p \in People,
           NEW before \in Row, NEW after \in Row
    PROVE  Event(action, p, before, after) \in EventRow
  BY DEF Event, EventRow, Snapshot, Shown, Row

LEMMA NothingIsTyped == NoAdvert \in Row /\ NoProvenance \in Provenance /\ Empty \in Values
  BY ReviewAssumption DEF NoAdvert, Row, Status, NoProvenance, Ruling, Provenance, Values, Empty

-----------------------------------------------------------------------------
(* TypeOK is inductive. *)

LEMMA TypeInit == Init => TypeOK
  <1> SUFFICES ASSUME Init PROVE TypeOK
    OBVIOUS
  <1>1. ad \in [Adverts -> Row] /\ prov \in [Adverts -> Provenance]
    BY NothingIsTyped DEF Init
  <1>2. events \in [Adverts -> Seq(EventRow)]
    BY DEF Init
  <1>3. generation \in Nat /\ reopening \in BOOLEAN /\ legacy \in BOOLEAN /\ imported \subseteq Adverts
    BY DEF Init
  <1>4. sent \in [People -> Request]
    BY DEF Init, Request
  <1>5. copy \in [People -> {Idle} \cup [kind : {"save"}, of : Adverts, values : Values,
                                        status : {"active", "pending"}]]
    BY DEF Init
  <1> QED
    BY <1>1, <1>2, <1>3, <1>4, <1>5 DEF TypeOK

\* What a request on its way holds.
LEMMA SentIsRequest ==
    ASSUME TypeOK, NEW p \in People, sent[p] # Idle
    PROVE  /\ sent[p].kind \in {"edit", "approve", "reject"}
           /\ sent[p].of \in Adverts
           /\ sent[p].edit \in Edits
           /\ sent[p].version \in Nat
           /\ sent[p].basis \in Shown
  BY DEF TypeOK, Request, Idle

LEMMA CopyIsSave ==
    ASSUME TypeOK, NEW p \in People, copy[p] # Idle
    PROVE  /\ copy[p].of \in Adverts
           /\ copy[p].values \in Values
           /\ copy[p].status \in {"active", "pending"}
  BY DEF TypeOK, Idle

LEMMA LoggedIsTyped ==
    ASSUME TypeOK, NEW a \in Adverts, NEW e \in EventRow
    PROVE  [events EXCEPT ![a] = Append(@, e)] \in [Adverts -> Seq(EventRow)]
  BY DEF TypeOK

LEMMA TypeStep == TypeOK /\ [Next]_vars => TypeOK'
  <1> SUFFICES ASSUME TypeOK, [Next]_vars PROVE TypeOK'
    OBVIOUS
  <1> USE DEF importVars
  <1>1. CASE UNCHANGED vars
    BY <1>1 DEF TypeOK, vars
  <1>2. ASSUME NEW a \in Adverts, NEW v \in Values, Create(a, v)
        PROVE  TypeOK'
    BY <1>2, NothingIsTyped DEF Create, TypeOK, Row, Status, Provenance, NewRow, Ruling
  <1>3. ASSUME NEW a \in Adverts, NEW v \in Values, NEW status \in {"active", "pending"},
               EnterByHand(a, v, status)
        PROVE  TypeOK'
    BY <1>3 DEF EnterByHand, TypeOK, Row, Status, NewRow
  <1>4. ASSUME NEW p \in People, NEW a \in Adverts, NEW kind \in {"edit", "approve", "reject"},
               NEW edit \in Edits, NEW versioned \in BOOLEAN, Send(p, a, kind, edit, versioned)
        PROVE  TypeOK'
    <2>1. ad[a] \in Row
      BY DEF TypeOK
    <2>2. Snapshot(ad[a]) \in Shown /\ ad[a].version \in Nat
      BY <2>1 DEF Snapshot, Shown, Row
    <2>3. sent'[p] \in Request
      BY <1>4, <2>2 DEF Send, Request, TypeOK
    <2> QED
      BY <1>4, <2>3 DEF Send, TypeOK
  <1>5. ASSUME NEW p \in People, Edit(p)
        PROVE  TypeOK'
    <2>1. sent[p] # Idle
      BY <1>5 DEF Edit, Idle
    <2> DEFINE a == sent[p].of
               v == Edited(ad[a].values, sent[p].edit)
               row == [values |-> v, status |-> ad[a].status, version |-> Bump(ad[a], v),
                       by |-> ad[a].by]
    <2>2. a \in Adverts /\ ad[a] \in Row /\ v \in Values
      BY <2>1, SentIsRequest, EditedIsValues DEF TypeOK, Row
    <2>3. row \in Row
      BY <2>2, BumpIsNat DEF Row
    <2>4. Event("edited", p, ad[a], row) \in EventRow
      BY <2>2, <2>3, EventIsEvent
    <2>5. ad' = [ad EXCEPT ![a] = row]
      BY <1>5 DEF Edit
    <2>6. ad' \in [Adverts -> Row]
      BY <2>3, <2>5 DEF TypeOK
    <2>7. events' = events \/ events' = [events EXCEPT ![a] = Append(@, Event("edited", p, ad[a], row))]
      BY <1>5 DEF Edit
    <2>8. events' \in [Adverts -> Seq(EventRow)]
      <3>1. CASE events' = events
        BY <3>1 DEF TypeOK
      <3>2. CASE events' = [events EXCEPT ![a] = Append(@, Event("edited", p, ad[a], row))]
        <4> HIDE DEF row
        <4> QED
          BY <2>2, <2>4, <3>2, LoggedIsTyped
      <3> QED
        BY <2>7, <3>1, <3>2
    <2>9. sent' \in [People -> Request]
      BY <1>5 DEF Edit, Answered, TypeOK, Request
    <2> QED
      BY <1>5, <2>6, <2>8, <2>9 DEF Edit, TypeOK
  <1>6. ASSUME NEW p \in People, Approve(p)
        PROVE  TypeOK'
    <2>1. sent[p] # Idle
      BY <1>6 DEF Approve, Idle
    <2> DEFINE a == sent[p].of
               v == Edited(ad[a].values, sent[p].edit)
               row == [values |-> v, status |-> "active", version |-> Bump(ad[a], v) + 1, by |-> p]
    <2>2. a \in Adverts /\ ad[a] \in Row /\ v \in Values
      BY <2>1, SentIsRequest, EditedIsValues DEF TypeOK, Row
    <2>3. row \in Row
      BY <2>2, BumpIsNat DEF Row, Status
    <2>4. Event("approved", p, ad[a], row) \in EventRow
      BY <2>2, <2>3, EventIsEvent
    <2>5. /\ ad' = [ad EXCEPT ![a] = row]
          /\ prov' = [prov EXCEPT ![a] = Ruling("linked", @.generation, p, v)]
          /\ events' = [events EXCEPT ![a] = Append(@, Event("approved", p, ad[a], row))]
      BY <1>6 DEF Approve
    <2>6. ad' \in [Adverts -> Row] /\ events' \in [Adverts -> Seq(EventRow)]
      BY <2>2, <2>3, <2>4, <2>5 DEF TypeOK
    <2>7. prov' \in [Adverts -> Provenance]
      BY <2>2, <2>5 DEF TypeOK, Provenance, Ruling
    <2>8. sent' \in [People -> Request]
      BY <1>6 DEF Approve, Answered, TypeOK, Request
    <2> QED
      BY <1>6, <2>6, <2>7, <2>8 DEF Approve, TypeOK
  <1>7. ASSUME NEW p \in People, Reject(p)
        PROVE  TypeOK'
    <2>1. sent[p] # Idle
      BY <1>7 DEF Reject, Idle
    <2> DEFINE a == sent[p].of
               row == [values |-> ad[a].values, status |-> "rejected",
                       version |-> ad[a].version + 1, by |-> p]
    <2>2. a \in Adverts /\ ad[a] \in Row
      BY <2>1, SentIsRequest DEF TypeOK
    <2>3. row \in Row
      BY <2>2 DEF Row, Status
    <2>4. Event("rejected", p, ad[a], row) \in EventRow
      BY <2>2, <2>3, EventIsEvent
    <2>5. /\ ad' = [ad EXCEPT ![a] = row]
          /\ prov' = [prov EXCEPT ![a] = Ruling("discarded", @.generation, p, @.accepted)]
          /\ events' = [events EXCEPT ![a] = Append(@, Event("rejected", p, ad[a], row))]
      BY <1>7 DEF Reject
    <2>6. ad' \in [Adverts -> Row] /\ events' \in [Adverts -> Seq(EventRow)]
      BY <2>2, <2>3, <2>4, <2>5 DEF TypeOK
    <2>7. prov' \in [Adverts -> Provenance]
      BY <2>2, <2>5 DEF TypeOK, Provenance, Ruling
    <2>8. sent' \in [People -> Request]
      BY <1>7 DEF Reject, Answered, TypeOK, Request
    <2> QED
      BY <1>7, <2>6, <2>7, <2>8 DEF Reject, TypeOK
  <1>8. ASSUME NEW p \in People, Lose(p)
        PROVE  TypeOK'
    BY <1>8 DEF Lose, TypeOK, Request
  <1>9. ASSUME NEW p \in People, NEW a \in Adverts, NEW v \in Values,
               NEW status \in {"active", "pending"}, PrototypeRead(p, a, v, status)
        PROVE  TypeOK'
    BY <1>9 DEF PrototypeRead, TypeOK
  <1>10. ASSUME NEW p \in People, PrototypeWrite(p)
         PROVE  TypeOK'
    <2>1. copy[p] # Idle
      BY <1>10 DEF PrototypeWrite
    <2> DEFINE a == copy[p].of
               row == [values |-> copy[p].values, status |-> copy[p].status,
                       version |-> ad[a].version + 1, by |-> ad[a].by]
    <2>2. a \in Adverts /\ row \in Row
      BY <2>1, CopyIsSave DEF TypeOK, Row, Status
    <2>3. ad' = [ad EXCEPT ![a] = row] \/ ad' = ad
      BY <1>10 DEF PrototypeWrite
    <2>4. ad' \in [Adverts -> Row]
      BY <2>2, <2>3 DEF TypeOK
    <2> QED
      BY <1>10, <2>4 DEF PrototypeWrite, TypeOK
  <1>11. ASSUME NEW force \in BOOLEAN, ReprocessRead(force)
         PROVE  TypeOK'
    BY <1>11 DEF ReprocessRead, TypeOK
  <1>12. CASE ReprocessWrite
    <2>1. prov' \in [Adverts -> Provenance]
      <3>1. \A a \in Adverts : [prov[a] EXCEPT !.state = "superseded"] \in Provenance
        BY DEF TypeOK, Provenance
      <3>2. \A a \in Adverts : prov[a] \in Provenance
        BY DEF TypeOK
      <3> QED
        BY <1>12, <3>1, <3>2 DEF ReprocessWrite
    <2>2. generation' \in Nat
      BY <1>12 DEF ReprocessWrite, TypeOK
    <2>3. reopening' \in BOOLEAN
      BY <1>12 DEF ReprocessWrite
    <2> QED
      BY <1>12, <2>1, <2>2, <2>3 DEF ReprocessWrite, TypeOK
  <1>13. ASSUME NEW a \in Adverts, NEW v \in Values, NEW status \in {"active", "pending"},
                Import(a, v, status)
         PROVE  TypeOK'
    <2> DEFINE ruling == Ruling(IF status = "active" THEN "linked" ELSE "pending_publish",
                                1, Nobody, Empty)
    <2>1. NewRow(v, status) \in Row /\ ruling \in Provenance
      BY NothingIsTyped DEF NewRow, Row, Status, Ruling, Provenance
    <2>2. ad' = [ad EXCEPT ![a] = NewRow(v, status)] /\ prov' = [prov EXCEPT ![a] = ruling]
      BY <1>13 DEF Import
    <2> HIDE DEF ruling
    <2>3. ad' \in [Adverts -> Row] /\ prov' \in [Adverts -> Provenance]
      BY <2>1, <2>2 DEF TypeOK
    <2>4. imported' \subseteq Adverts
      BY <1>13 DEF Import, TypeOK
    <2> QED
      BY <1>13, <2>3, <2>4 DEF Import, TypeOK
  <1> QED
    BY <1>1, <1>2, <1>3, <1>4, <1>5, <1>6, <1>7, <1>8, <1>9, <1>10, <1>11, <1>12, <1>13 DEF Next

-----------------------------------------------------------------------------
(* The rest of the invariant, action by action. *)

LEMMA ReviewInvInit == Init => ReviewInv
  <1> SUFFICES ASSUME Init PROVE ReviewInv
    OBVIOUS
  <1>1. TypeOK
    BY TypeInit
  <1>2. RowsAgree /\ PublishedAsAccepted
    BY DEF Init, RowsAgree, PublishedAsAccepted, IsCandidate, NoAdvert, NoProvenance, Ruling
  <1>3. CopiesAreByHand /\ VersionsIdentify
    BY DEF Init, CopiesAreByHand, VersionsIdentify
  <1> QED
    BY <1>1, <1>2, <1>3 DEF ReviewInv

\* What a verdict or an edit of candidate a does to the invariant: one row
\* changes, under a higher version, and the two rows agree afterwards.
LEMMA ReviewersKeepTheRest ==
    ASSUME ReviewInv, NEW a \in Adverts, NEW row \in Row, NEW ruling \in Provenance,
           IsCandidate(a),
           ad' = [ad EXCEPT ![a] = row],
           prov' = [prov EXCEPT ![a] = ruling],
           \A b \in Adverts : b # a => events'[b] = events[b],
           copy' = copy,
           \A p \in People : sent'[p] \in {Idle, sent[p]},
           row = ad[a] \/ row.version > ad[a].version,
           row.status # "none", ruling.state # "none",
           ruling.state \in {"pending_publish", "superseded"} => row.status = "pending",
           row.status = "active" <=> ruling.state = "linked",
           row.status = "rejected" <=> ruling.state = "discarded",
           ruling.state = "linked" =>
               /\ ruling.reviewer \in People
               /\ row.values \in Complete /\ row.values = ruling.accepted,
           imported' = imported
    PROVE  RowsAgree' /\ CopiesAreByHand' /\ VersionsIdentify' /\ PublishedAsAccepted'
  <1> USE DEF ReviewInv
  <1>1. \A b \in Adverts : b # a => ad'[b] = ad[b] /\ prov'[b] = prov[b]
    BY DEF TypeOK
  <1>2. ad'[a] = row /\ prov'[a] = ruling
    BY DEF TypeOK
  <1>3. RowsAgree'
    BY <1>1, <1>2 DEF RowsAgree, IsCandidate
  <1>4. CopiesAreByHand'
    BY <1>1, <1>2, CopyIsSave DEF CopiesAreByHand, IsCandidate
  <1>5. VersionsIdentify'
    <2> SUFFICES ASSUME NEW p \in People, sent'[p] # Idle
                 PROVE  /\ IsCandidate(sent[p].of)'
                        /\ sent'[p].version <= ad'[sent'[p].of].version
                        /\ sent'[p].version = ad'[sent'[p].of].version
                                => sent'[p].basis = Snapshot(ad'[sent'[p].of])
      BY DEF VersionsIdentify
    <2>1. sent'[p] = sent[p] /\ sent[p] # Idle
      OBVIOUS
    <2>2. sent[p].of \in Adverts /\ sent[p].version \in Nat
      BY <2>1, SentIsRequest
    <2>3. ad[sent[p].of].version \in Nat /\ row.version \in Nat
      BY <2>2 DEF TypeOK, Row
    <2>4. /\ IsCandidate(sent[p].of)
          /\ sent[p].version <= ad[sent[p].of].version
          /\ sent[p].version = ad[sent[p].of].version => sent[p].basis = Snapshot(ad[sent[p].of])
      BY <2>1 DEF VersionsIdentify
    <2>5. CASE sent[p].of = a
      <3>1. IsCandidate(sent[p].of)'
        BY <1>2, <2>1, <2>5 DEF IsCandidate
      <3>2. ad'[sent'[p].of] = row
        BY <1>2, <2>1, <2>5
      <3>3. CASE row = ad[a]
        BY <2>1, <2>4, <2>5, <3>1, <3>2, <3>3
      <3>4. CASE row.version > ad[a].version
        BY <2>1, <2>2, <2>3, <2>4, <2>5, <3>1, <3>2, <3>4
      <3> QED
        BY <3>3, <3>4
    <2>6. CASE sent[p].of # a
      BY <1>1, <2>1, <2>2, <2>4, <2>6 DEF IsCandidate
    <2> QED
      BY <2>5, <2>6
  <1>6. PublishedAsAccepted'
    BY <1>1, <1>2 DEF PublishedAsAccepted, TakenOver, IsCandidate
  <1> QED
    BY <1>3, <1>4, <1>5, <1>6

\* What the actions that touch no candidate's two rows do to the invariant.
LEMMA BystandersKeepTheRest ==
    ASSUME ReviewInv, UNCHANGED <<ad, prov, events, imported>>,
           \A p \in People :
               \/ copy'[p] \in {Idle, copy[p]}
               \/ ad[copy'[p].of].status # "none" /\ ~IsCandidate(copy'[p].of),
           \A p \in People :
               \/ sent'[p] \in {Idle, sent[p]}
               \/ /\ IsCandidate(sent'[p].of)
                  /\ sent'[p].version \in {0, ad[sent'[p].of].version}
                  /\ ad[sent'[p].of].version \in Nat
                  /\ sent'[p].basis = Snapshot(ad[sent'[p].of])
    PROVE  RowsAgree' /\ CopiesAreByHand' /\ VersionsIdentify' /\ PublishedAsAccepted'
  <1> USE DEF ReviewInv
  <1>1. RowsAgree' /\ PublishedAsAccepted'
    BY DEF RowsAgree, PublishedAsAccepted, TakenOver, IsCandidate
  <1>2. CopiesAreByHand'
    BY DEF CopiesAreByHand, IsCandidate
  <1>3. VersionsIdentify'
    BY DEF VersionsIdentify, IsCandidate
  <1> QED
    BY <1>1, <1>2, <1>3

LEMMA ReviewInvStep == ReviewInv /\ [Next]_vars => ReviewInv'
  <1> SUFFICES ASSUME ReviewInv, [Next]_vars PROVE ReviewInv'
    OBVIOUS
  <1>0. TypeOK /\ TypeOK'
    BY TypeStep DEF ReviewInv
  <1> SUFFICES RowsAgree' /\ CopiesAreByHand' /\ VersionsIdentify' /\ PublishedAsAccepted'
    BY <1>0 DEF ReviewInv
  <1> USE DEF importVars
  <1>1. CASE UNCHANGED vars
    BY <1>1, BystandersKeepTheRest DEF vars
  <1>2. ASSUME NEW a \in Adverts, NEW v \in Values, Create(a, v)
        PROVE  RowsAgree' /\ CopiesAreByHand' /\ VersionsIdentify' /\ PublishedAsAccepted'
    <2>1. /\ ad'[a] = NewRow(v, "pending")
          /\ prov'[a] = Ruling("pending_publish", generation, Nobody, Empty)
          /\ \A b \in Adverts : b # a => ad'[b] = ad[b] /\ prov'[b] = prov[b]
          /\ UNCHANGED <<events, sent, copy, imported>>
      BY <1>0, <1>2 DEF Create, TypeOK
    <2>2. ad[a].status = "none" /\ ~IsCandidate(a) /\ events[a] = <<>>
      BY <1>2 DEF Create, ReviewInv, RowsAgree
    <2>3. RowsAgree'
      BY <2>1, <2>2 DEF ReviewInv, RowsAgree, IsCandidate, NewRow, Ruling
    <2>4. PublishedAsAccepted'
      BY <2>1 DEF ReviewInv, PublishedAsAccepted, TakenOver, IsCandidate, NewRow, Ruling
    <2>5. CopiesAreByHand'
      BY <1>0, <2>1, <2>2, CopyIsSave DEF ReviewInv, CopiesAreByHand, IsCandidate
    <2>6. VersionsIdentify'
      BY <1>0, <2>1, <2>2, SentIsRequest DEF ReviewInv, VersionsIdentify, IsCandidate
    <2> QED
      BY <2>3, <2>4, <2>5, <2>6
  <1>3. ASSUME NEW a \in Adverts, NEW v \in Values, NEW status \in {"active", "pending"},
               EnterByHand(a, v, status)
        PROVE  RowsAgree' /\ CopiesAreByHand' /\ VersionsIdentify' /\ PublishedAsAccepted'
    <2>1. /\ ad'[a] = NewRow(v, status)
          /\ \A b \in Adverts : b # a => ad'[b] = ad[b]
          /\ UNCHANGED <<prov, events, sent, copy, imported>>
      BY <1>0, <1>3 DEF EnterByHand, TypeOK
    <2>2. ad[a].status = "none" /\ ~IsCandidate(a)
      BY <1>3 DEF EnterByHand, ReviewInv, RowsAgree
    <2>3. RowsAgree'
      BY <2>1, <2>2 DEF ReviewInv, RowsAgree, IsCandidate, NewRow
    <2>4. PublishedAsAccepted'
      BY <2>1, <2>2 DEF ReviewInv, PublishedAsAccepted, TakenOver, IsCandidate
    <2>5. CopiesAreByHand'
      BY <1>0, <2>1, <2>2, CopyIsSave DEF ReviewInv, CopiesAreByHand, IsCandidate
    <2>6. VersionsIdentify'
      BY <1>0, <2>1, <2>2, SentIsRequest DEF ReviewInv, VersionsIdentify, IsCandidate
    <2> QED
      BY <2>3, <2>4, <2>5, <2>6
  <1>4. ASSUME NEW p \in People, NEW a \in Adverts, NEW kind \in {"edit", "approve", "reject"},
               NEW edit \in Edits, NEW versioned \in BOOLEAN, Send(p, a, kind, edit, versioned)
        PROVE  RowsAgree' /\ CopiesAreByHand' /\ VersionsIdentify' /\ PublishedAsAccepted'
    <2>1. ad[a].version \in Nat
      BY <1>0 DEF TypeOK, Row
    <2>2. /\ \A q \in People : q # p => sent'[q] = sent[q]
          /\ sent'[p].of = a /\ sent'[p].version \in {0, ad[a].version}
          /\ sent'[p].basis = Snapshot(ad[a])
      BY <1>0, <1>4 DEF Send, TypeOK
    <2> QED
      BY <1>4, <2>1, <2>2, BystandersKeepTheRest DEF Send
  <1>5. ASSUME NEW p \in People, Edit(p)
        PROVE  RowsAgree' /\ CopiesAreByHand' /\ VersionsIdentify' /\ PublishedAsAccepted'
    <2>1. sent[p] # Idle
      BY <1>5 DEF Edit, Idle
    <2> DEFINE a == sent[p].of
               v == Edited(ad[a].values, sent[p].edit)
               row == [values |-> v, status |-> ad[a].status, version |-> Bump(ad[a], v),
                       by |-> ad[a].by]
    <2>2. a \in Adverts /\ ad[a] \in Row /\ prov[a] \in Provenance /\ v \in Values
      BY <1>0, <2>1, SentIsRequest, EditedIsValues DEF TypeOK, Row
    <2>3. prov[a].state = "pending_publish" /\ IsCandidate(a) /\ ad[a].status = "pending"
      BY <1>5, <2>2 DEF Edit, Decidable, IsCandidate, ReviewInv, RowsAgree
    <2>4. row \in Row /\ row.version >= ad[a].version /\ (row = ad[a] \/ row.version > ad[a].version)
      BY <2>2, BumpIsNat DEF Row, Bump
    <2>5. ad' = [ad EXCEPT ![a] = row] /\ prov' = [prov EXCEPT ![a] = prov[a]]
      BY <1>0, <1>5 DEF Edit, TypeOK
    <2>6. row.status = "pending"
      BY <2>3
    <2>7. prov[a].state \notin {"linked", "discarded", "none"}
      BY <2>3
    <2>8. \A q \in People : sent'[q] \in {Idle, sent[q]}
      BY <1>0, <1>5 DEF Edit, Answered, TypeOK
    <2>9. UNCHANGED <<copy, imported>> /\ \A b \in Adverts : b # a => events'[b] = events[b]
      BY <1>0, <1>5 DEF Edit, TypeOK
    <2> HIDE DEF row
    <2> QED
      BY <2>2, <2>3, <2>4, <2>5, <2>6, <2>7, <2>8, <2>9, ReviewersKeepTheRest
  <1>6. ASSUME NEW p \in People, Approve(p)
        PROVE  RowsAgree' /\ CopiesAreByHand' /\ VersionsIdentify' /\ PublishedAsAccepted'
    <2>1. sent[p] # Idle
      BY <1>6 DEF Approve, Idle
    <2> DEFINE a == sent[p].of
               v == Edited(ad[a].values, sent[p].edit)
               row == [values |-> v, status |-> "active", version |-> Bump(ad[a], v) + 1, by |-> p]
               ruling == Ruling("linked", prov[a].generation, p, v)
    <2>2. a \in Adverts /\ ad[a] \in Row /\ prov[a] \in Provenance /\ v \in Values
      BY <1>0, <2>1, SentIsRequest, EditedIsValues DEF TypeOK, Row
    <2>3. prov[a].state = "pending_publish" /\ IsCandidate(a) /\ ad[a].status = "pending"
      BY <1>6, <2>2 DEF Approve, Decidable, IsCandidate, ReviewInv, RowsAgree
    <2>4. row \in Row /\ row.version > ad[a].version
      BY <2>2, BumpIsNat DEF Row, Status
    <2>5. ad' = [ad EXCEPT ![a] = row] /\ prov' = [prov EXCEPT ![a] = ruling]
      BY <1>0, <1>6 DEF Approve, TypeOK
    <2>6. ruling \in Provenance /\ ruling.state = "linked" /\ row.status = "active"
      BY <2>2 DEF Ruling, Provenance
    <2>7. row.values \in Complete /\ row.values = ruling.accepted /\ ruling.reviewer \in People
      BY <1>6 DEF Approve, Publishes, Ruling
    <2>8. \A q \in People : sent'[q] \in {Idle, sent[q]}
      BY <1>0, <1>6 DEF Approve, Answered, TypeOK
    <2>9. UNCHANGED <<copy, imported>> /\ \A b \in Adverts : b # a => events'[b] = events[b]
      BY <1>0, <1>6 DEF Approve, TypeOK
    <2> HIDE DEF row, ruling
    <2> QED
      BY <2>2, <2>3, <2>4, <2>5, <2>6, <2>7, <2>8, <2>9, ReviewersKeepTheRest
  <1>7. ASSUME NEW p \in People, Reject(p)
        PROVE  RowsAgree' /\ CopiesAreByHand' /\ VersionsIdentify' /\ PublishedAsAccepted'
    <2>1. sent[p] # Idle
      BY <1>7 DEF Reject, Idle
    <2> DEFINE a == sent[p].of
               row == [values |-> ad[a].values, status |-> "rejected",
                       version |-> ad[a].version + 1, by |-> p]
               ruling == Ruling("discarded", prov[a].generation, p, prov[a].accepted)
    <2>2. a \in Adverts /\ ad[a] \in Row /\ prov[a] \in Provenance
      BY <1>0, <2>1, SentIsRequest DEF TypeOK, Row
    <2>3. prov[a].state = "pending_publish" /\ IsCandidate(a) /\ ad[a].status = "pending"
      BY <1>7, <2>2 DEF Reject, Decidable, IsCandidate, ReviewInv, RowsAgree
    <2>4. row \in Row /\ row.version > ad[a].version
      BY <2>2 DEF Row, Status
    <2>5. ad' = [ad EXCEPT ![a] = row] /\ prov' = [prov EXCEPT ![a] = ruling]
      BY <1>0, <1>7 DEF Reject, TypeOK
    <2>6. ruling \in Provenance
      BY <2>2 DEF Ruling, Provenance
    <2>7. ruling.state = "discarded" /\ row.status = "rejected"
      BY DEF Ruling
    <2>8. \A q \in People : sent'[q] \in {Idle, sent[q]}
      BY <1>0, <1>7 DEF Reject, Answered, TypeOK
    <2>9. UNCHANGED <<copy, imported>> /\ \A b \in Adverts : b # a => events'[b] = events[b]
      BY <1>0, <1>7 DEF Reject, TypeOK
    <2> HIDE DEF row, ruling
    <2> QED
      BY <2>2, <2>3, <2>4, <2>5, <2>6, <2>7, <2>8, <2>9, ReviewersKeepTheRest
  <1>8. ASSUME NEW p \in People, Lose(p)
        PROVE  RowsAgree' /\ CopiesAreByHand' /\ VersionsIdentify' /\ PublishedAsAccepted'
    BY <1>0, <1>8, BystandersKeepTheRest DEF Lose, TypeOK
  <1>9. ASSUME NEW p \in People, NEW a \in Adverts, NEW v \in Values,
               NEW status \in {"active", "pending"}, PrototypeRead(p, a, v, status)
        PROVE  RowsAgree' /\ CopiesAreByHand' /\ VersionsIdentify' /\ PublishedAsAccepted'
    BY <1>0, <1>9, BystandersKeepTheRest DEF PrototypeRead, OpenToPrototype, TypeOK
  <1>10. ASSUME NEW p \in People, PrototypeWrite(p)
         PROVE  RowsAgree' /\ CopiesAreByHand' /\ VersionsIdentify' /\ PublishedAsAccepted'
    <2>1. copy[p] # Idle
      BY <1>10 DEF PrototypeWrite
    <2> DEFINE a == copy[p].of
    <2>2. a \in Adverts /\ ad[a].status # "none" /\ ~IsCandidate(a)
      BY <1>0, <2>1, CopyIsSave DEF ReviewInv, CopiesAreByHand
    <2>3. UNCHANGED <<prov, events, sent, imported>> /\ \A q \in People : copy'[q] \in {Idle, copy[q]}
      BY <1>0, <1>10 DEF PrototypeWrite, TypeOK
    <2>4. \A b \in Adverts : b # a => ad'[b] = ad[b]
      BY <1>0, <1>10 DEF PrototypeWrite, TypeOK
    <2>5. ad'[a].status # "none"
      <3>1. \/ ad' = ad
            \/ ad' = [ad EXCEPT ![a] = [values |-> copy[p].values, status |-> copy[p].status,
                                       version |-> ad[a].version + 1, by |-> ad[a].by]]
        BY <1>10 DEF PrototypeWrite
      <3>2. copy[p].status # "none"
        BY <1>0, <2>1, CopyIsSave
      <3> QED
        BY <1>0, <2>2, <3>1, <3>2 DEF TypeOK
    <2>6. RowsAgree' /\ PublishedAsAccepted'
      BY <2>2, <2>3, <2>4, <2>5 DEF ReviewInv, RowsAgree, PublishedAsAccepted, TakenOver, IsCandidate
    <2>7. CopiesAreByHand'
      BY <1>0, <2>2, <2>3, <2>4, <2>5, CopyIsSave DEF ReviewInv, CopiesAreByHand, IsCandidate
    <2>8. VersionsIdentify'
      BY <1>0, <2>2, <2>3, <2>4, SentIsRequest DEF ReviewInv, VersionsIdentify, IsCandidate
    <2> QED
      BY <2>6, <2>7, <2>8
  <1>11. ASSUME NEW force \in BOOLEAN, ReprocessRead(force)
         PROVE  RowsAgree' /\ CopiesAreByHand' /\ VersionsIdentify' /\ PublishedAsAccepted'
    BY <1>11, BystandersKeepTheRest DEF ReprocessRead
  <1>12. CASE ReprocessWrite
    <2>1. \A a \in Adverts : \/ prov'[a] = prov[a]
                             \/ /\ prov[a].state = "pending_publish"
                                /\ prov'[a] = [prov[a] EXCEPT !.state = "superseded"]
      BY <1>12 DEF ReprocessWrite, Undecided
    <2>2. \A a \in Adverts : \/ prov[a].state = "pending_publish" /\ prov'[a].state = "superseded"
                             \/ prov'[a] = prov[a]
      BY <1>0, <2>1 DEF TypeOK, Provenance
    <2>3. UNCHANGED <<ad, events, sent, copy, imported>>
      BY <1>12 DEF ReprocessWrite
    <2>4. RowsAgree' /\ PublishedAsAccepted'
      BY <2>2, <2>3 DEF ReviewInv, RowsAgree, PublishedAsAccepted, TakenOver, IsCandidate
    <2>5. CopiesAreByHand' /\ VersionsIdentify'
      BY <1>0, <2>2, <2>3, CopyIsSave, SentIsRequest
      DEF ReviewInv, CopiesAreByHand, VersionsIdentify, IsCandidate
    <2> QED
      BY <2>4, <2>5
  <1>13. ASSUME NEW a \in Adverts, NEW v \in Values, NEW status \in {"active", "pending"},
                Import(a, v, status)
         PROVE  RowsAgree' /\ CopiesAreByHand' /\ VersionsIdentify' /\ PublishedAsAccepted'
    <2>1. /\ ad'[a] = NewRow(v, status)
          /\ prov'[a] = Ruling(IF status = "active" THEN "linked" ELSE "pending_publish",
                              1, Nobody, Empty)
          /\ \A b \in Adverts : b # a => ad'[b] = ad[b] /\ prov'[b] = prov[b]
          /\ UNCHANGED <<events, sent, copy>> /\ imported' = imported \cup {a}
      BY <1>0, <1>13 DEF Import, TypeOK
    <2>2. ad[a].status = "none" /\ ~IsCandidate(a) /\ events[a] = <<>>
      BY <1>13 DEF Import, ReviewInv, RowsAgree
    <2>3. /\ ad'[a].status = status
          /\ prov'[a].state = IF status = "active" THEN "linked" ELSE "pending_publish"
          /\ prov'[a].reviewer = Nobody
      BY <2>1 DEF NewRow, Ruling
    <2>4. RowsAgree'
      BY <2>1, <2>2, <2>3 DEF ReviewInv, RowsAgree, IsCandidate
    <2>5. PublishedAsAccepted'
      BY <2>1, <2>3 DEF ReviewInv, PublishedAsAccepted, TakenOver, IsCandidate
    <2>6. CopiesAreByHand'
      BY <1>0, <2>1, <2>2, CopyIsSave DEF ReviewInv, CopiesAreByHand, IsCandidate
    <2>7. VersionsIdentify'
      BY <1>0, <2>1, <2>2, SentIsRequest DEF ReviewInv, VersionsIdentify, IsCandidate
    <2> QED
      BY <2>4, <2>5, <2>6, <2>7
  <1> QED
    BY <1>1, <1>2, <1>3, <1>4, <1>5, <1>6, <1>7, <1>8, <1>9, <1>10, <1>11, <1>12, <1>13 DEF Next

\* The rows of an advertisement agree, requests carry versions that stand for
\* what was seen, and the prototype's endpoints stay out: db/tables.py,
\* services/review.py, api/routes.py.
THEOREM ReviewInvariant == Spec => []ReviewInv
  BY ReviewInvInit, ReviewInvStep, PTL DEF Spec

\* A candidate is public exactly when it is linked: by a reviewer, complete and
\* as accepted (approve), or taken over by the importer as it was
\* (_import_advertisement).
THEOREM PublicIsAccepted == Spec => []PublishedAsAccepted
  <1>1. ReviewInv => PublishedAsAccepted
    BY DEF ReviewInv
  <1> QED
    BY <1>1, ReviewInvariant, PTL

-----------------------------------------------------------------------------
(* What an event is an event of. *)

\* Who logged something had a request on its way that was decidable.
LEMMA LoggedByReviewer ==
    ASSUME TypeOK, [Next]_vars, NEW a \in Adverts, events'[a] # events[a]
    PROVE  \E p \in People :
               /\ Edit(p) \/ Approve(p) \/ Reject(p)
               /\ sent[p] # Idle /\ sent[p].of = a /\ Decidable(p)
  <1>1. PICK p \in People : Edit(p) \/ Approve(p) \/ Reject(p)
    BY DEF Next, vars, Create, EnterByHand, Import, Send, Lose, PrototypeRead, PrototypeWrite,
           ReprocessRead, ReprocessWrite
  <1>2. sent[p] # Idle
    BY <1>1 DEF Edit, Approve, Reject, Idle
  <1>3. sent[p].of = a
    BY <1>1, <1>2, SentIsRequest DEF Edit, Approve, Reject, TypeOK
  <1>4. Decidable(p)
    BY <1>1 DEF Edit, Approve, Reject
  <1> QED
    BY <1>1, <1>2, <1>3, <1>4

\* The last event is by the one whose request was served, about the row as it
\* was; and it is the verdict if there is one now.
LEMMA LastEvent ==
    ASSUME ReviewInv, NEW p \in People, NEW a \in Adverts, sent[p] # Idle, sent[p].of = a,
           Decidable(p), Edit(p) \/ Approve(p) \/ Reject(p), events'[a] # events[a]
    PROVE  /\ IsCandidate(a) /\ ~Decided(a) /\ IsCandidate(a)'
           /\ Snapshot(ad[a]) # Snapshot(ad'[a])
           /\ \E action \in {"edited", "approved", "rejected"} :
                /\ events'[a] = Append(events[a], Event(action, p, ad[a], ad'[a]))
                /\ action # "edited" <=> Decided(a)'
                /\ action # "edited" => prov'[a].reviewer = p /\ ad'[a].by = p
  <1>0. TypeOK
    BY DEF ReviewInv
  <1>1. events \in [Adverts -> Seq(EventRow)] /\ ad \in [Adverts -> Row]
        /\ prov \in [Adverts -> Provenance]
    BY <1>0 DEF TypeOK
  <1>2. IsCandidate(a) /\ ~Decided(a) /\ ad[a].status = "pending" /\ prov[a].state = "pending_publish"
    BY DEF Decidable, IsCandidate, Decided, ReviewInv, RowsAgree
  <1>3. CASE Edit(p)
    <2> DEFINE v == Edited(ad[a].values, sent[p].edit)
               row == [values |-> v, status |-> ad[a].status, version |-> Bump(ad[a], v),
                       by |-> ad[a].by]
               e == Event("edited", p, ad[a], row)
    <2>1. /\ ad' = [ad EXCEPT ![a] = row] /\ prov' = prov
          /\ events' = [events EXCEPT ![a] = Append(@, e)] /\ v # ad[a].values
      BY <1>3 DEF Edit
    <2>2. row.values # ad[a].values
      BY <2>1
    <2> HIDE DEF row
    <2>3. ad'[a] = row /\ events'[a] = Append(events[a], e)
      BY <1>1, <2>1
    <2>4. Snapshot(ad[a]) # Snapshot(ad'[a])
      BY <2>2, <2>3 DEF Snapshot
    <2> QED
      BY <1>2, <2>1, <2>3, <2>4 DEF IsCandidate, Decided
  <1>4. CASE Approve(p)
    <2> DEFINE v == Edited(ad[a].values, sent[p].edit)
               row == [values |-> v, status |-> "active", version |-> Bump(ad[a], v) + 1, by |-> p]
               ruling == Ruling("linked", prov[a].generation, p, v)
               e == Event("approved", p, ad[a], row)
    <2>1. /\ ad' = [ad EXCEPT ![a] = row] /\ prov' = [prov EXCEPT ![a] = ruling]
          /\ events' = [events EXCEPT ![a] = Append(@, e)]
      BY <1>1, <1>4 DEF Approve
    <2>2. row.status = "active" /\ row.by = p /\ ruling.state = "linked" /\ ruling.reviewer = p
      BY DEF Ruling
    <2> HIDE DEF row, ruling
    <2>3. ad'[a] = row /\ prov'[a] = ruling /\ events'[a] = Append(events[a], e)
      BY <1>1, <2>1
    <2>4. Snapshot(ad[a]) # Snapshot(ad'[a])
      BY <1>2, <2>2, <2>3 DEF Snapshot
    <2>5. IsCandidate(a)' /\ Decided(a)' /\ prov'[a].reviewer = p /\ ad'[a].by = p
      BY <2>2, <2>3 DEF IsCandidate, Decided
    <2> QED
      BY <1>2, <2>3, <2>4, <2>5
  <1>5. CASE Reject(p)
    <2> DEFINE row == [values |-> ad[a].values, status |-> "rejected",
                       version |-> ad[a].version + 1, by |-> p]
               ruling == Ruling("discarded", prov[a].generation, p, prov[a].accepted)
               e == Event("rejected", p, ad[a], row)
    <2>1. /\ ad' = [ad EXCEPT ![a] = row] /\ prov' = [prov EXCEPT ![a] = ruling]
          /\ events' = [events EXCEPT ![a] = Append(@, e)]
      BY <1>1, <1>5 DEF Reject
    <2>2. row.status = "rejected" /\ row.by = p /\ ruling.state = "discarded" /\ ruling.reviewer = p
      BY DEF Ruling
    <2> HIDE DEF row, ruling
    <2>3. ad'[a] = row /\ prov'[a] = ruling /\ events'[a] = Append(events[a], e)
      BY <1>1, <2>1
    <2>4. Snapshot(ad[a]) # Snapshot(ad'[a])
      BY <1>2, <2>2, <2>3 DEF Snapshot
    <2>5. IsCandidate(a)' /\ Decided(a)' /\ prov'[a].reviewer = p /\ ad'[a].by = p
      BY <2>2, <2>3 DEF IsCandidate, Decided
    <2> QED
      BY <1>2, <2>3, <2>4, <2>5
  <1> QED
    BY <1>3, <1>4, <1>5

LEMMA OverwritesWhatWasSeen ==
    ASSUME ReviewInv, [Next]_vars, NEW p \in People, NEW a \in Adverts,
           Len(events'[a]) > Len(events[a]), events'[a][Len(events'[a])].actor = p,
           sent[p].version # 0
    PROVE  Snapshot(ad[a]) = sent[p].basis
  <1>1. TypeOK
    BY DEF ReviewInv
  <1>2. events[a] \in Seq(EventRow)
    BY <1>1 DEF TypeOK
  <1>3. PICK q \in People : /\ Edit(q) \/ Approve(q) \/ Reject(q)
                           /\ sent[q] # Idle /\ sent[q].of = a /\ Decidable(q)
    <2>1. events'[a] # events[a]
      BY <1>2
    <2> QED
      BY <1>1, <2>1, LoggedByReviewer
  <1>4. PICK action \in {"edited", "approved", "rejected"} :
            events'[a] = Append(events[a], Event(action, q, ad[a], ad'[a]))
    <2>1. events'[a] # events[a]
      BY <1>2
    <2> QED
      BY <1>3, <2>1, LastEvent
  <1>5. events'[a][Len(events'[a])] = Event(action, q, ad[a], ad'[a])
    BY <1>2, <1>4
  <1>6. q = p
    BY <1>5 DEF Event
  <1>7. sent[p].version = ad[a].version
    BY <1>3, <1>6 DEF Decidable
  <1> QED
    BY <1>3, <1>6, <1>7 DEF ReviewInv, VersionsIdentify

\* A request that carries a version replaces exactly what its sender saw
\* (_for_decision), whoever else writes and however late it is served.
THEOREM NothingUnseen == Spec => NothingUnseenIsOverwritten
  <1>1. ReviewInv /\ [Next]_vars =>
            [\A p \in People : \A a \in Adverts :
                /\ Len(events'[a]) > Len(events[a])
                /\ events'[a][Len(events'[a])].actor = p
                /\ sent[p].version # 0
                => Snapshot(ad[a]) = sent[p].basis]_vars
    BY OverwritesWhatWasSeen
  <1> QED
    BY <1>1, ReviewInvariant, PTL DEF Spec, NothingUnseenIsOverwritten

-----------------------------------------------------------------------------
(* Review implements Listing. *)

\* Where the advertisement of a row and its ruling stands.
LEMMA StandingIs ==
    ASSUME NEW a \in Adverts
    PROVE  /\ ad[a].status = "none" => Standing(ad[a], prov[a]) = "absent"
           /\ ad[a].status # "none" =>
                /\ prov[a].state = "none" => Standing(ad[a], prov[a]) = "by hand"
                /\ prov[a].state = "pending_publish" => Standing(ad[a], prov[a]) = "draft"
                /\ prov[a].state = "linked" => Standing(ad[a], prov[a]) =
                        IF prov[a].reviewer = Nobody THEN "inherited" ELSE "public"
                /\ prov[a].state = "discarded" => Standing(ad[a], prov[a]) = "refused"
                /\ prov[a].state = "superseded" => Standing(ad[a], prov[a]) = "retired"
  BY DEF Standing

LEMMA StandingBecomes ==
    ASSUME NEW a \in Adverts
    PROVE  /\ ad'[a].status = "none" => Standing(ad'[a], prov'[a]) = "absent"
           /\ ad'[a].status # "none" =>
                /\ prov'[a].state = "none" => Standing(ad'[a], prov'[a]) = "by hand"
                /\ prov'[a].state = "pending_publish" => Standing(ad'[a], prov'[a]) = "draft"
                /\ prov'[a].state = "linked" => Standing(ad'[a], prov'[a]) =
                        IF prov'[a].reviewer = Nobody THEN "inherited" ELSE "public"
                /\ prov'[a].state = "discarded" => Standing(ad'[a], prov'[a]) = "refused"
                /\ prov'[a].state = "superseded" => Standing(ad'[a], prov'[a]) = "retired"
  BY DEF Standing

LEMMA PromiseInit == Init => Promised!ListingInit
  <1> SUFFICES ASSUME Init PROVE Promised!ListingInit
    OBVIOUS
  <1>1. \A a \in Adverts : ad[a] = NoAdvert
    BY DEF Init
  <1>2. \A a \in Adverts : ad[a].status = "none" /\ ad[a].values = Empty
    <2>1. NoAdvert.status = "none" /\ NoAdvert.values = Empty
      BY DEF NoAdvert
    <2> QED
      BY <1>1, <2>1
  <1>3. \A a \in Adverts : Standing(ad[a], prov[a]) = "absent"
    BY <1>2, StandingIs
  <1> QED
    BY <1>2, <1>3 DEF Promised!ListingInit

\* A step that changes one advertisement changes one place of the promise.
LEMMA OneStanding ==
    ASSUME NEW a \in Adverts,
           \A b \in Adverts : b # a => ad'[b] = ad[b] /\ prov'[b] = prov[b]
    PROVE  /\ [b \in Adverts |-> Standing(ad'[b], prov'[b])]
                = [[b \in Adverts |-> Standing(ad[b], prov[b])]
                        EXCEPT ![a] = Standing(ad'[a], prov'[a])]
           /\ [b \in Adverts |-> ad'[b].values]
                = [[b \in Adverts |-> ad[b].values] EXCEPT ![a] = ad'[a].values]
  OBVIOUS

LEMMA PromiseStep ==
    ReviewInv /\ [Next]_vars => [Promised!ListingNext]_Promised!listingVars
  <1> SUFFICES ASSUME ReviewInv, [Next]_vars
               PROVE  Promised!ListingNext \/ UNCHANGED Promised!listingVars
    OBVIOUS
  <1>0. TypeOK /\ RowsAgree
    BY DEF ReviewInv
  <1>1. CASE UNCHANGED <<ad, prov>>
    BY <1>1 DEF Promised!listingVars
  <1>2. ASSUME NEW a \in Adverts, NEW v \in Values, Create(a, v)
        PROVE  Promised!ListingNext
    <2>1. /\ ad'[a] = NewRow(v, "pending")
          /\ prov'[a] = Ruling("pending_publish", generation, Nobody, Empty)
          /\ \A b \in Adverts : b # a => ad'[b] = ad[b] /\ prov'[b] = prov[b]
      BY <1>0, <1>2 DEF Create, TypeOK
    <2>2. ad'[a].status = "pending" /\ ad'[a].values = v /\ prov'[a].state = "pending_publish"
      BY <2>1 DEF NewRow, Ruling
    <2>3. Standing(ad[a], prov[a]) = "absent" /\ Standing(ad'[a], prov'[a]) = "draft"
      BY <1>2, <2>2, StandingIs, StandingBecomes DEF Create
    <2>4. Promised!Draft(a, v)
      BY <2>1, <2>2, <2>3, OneStanding DEF Promised!Draft
    <2> QED
      BY <2>4 DEF Promised!ListingNext
  <1>3. ASSUME NEW a \in Adverts, NEW v \in Values, NEW status \in {"active", "pending"},
               EnterByHand(a, v, status)
        PROVE  Promised!ListingNext
    <2>1. /\ ad'[a] = NewRow(v, status) /\ prov' = prov
          /\ \A b \in Adverts : b # a => ad'[b] = ad[b] /\ prov'[b] = prov[b]
      BY <1>0, <1>3 DEF EnterByHand, TypeOK
    <2>2. /\ ad[a].status = "none" /\ prov'[a].state = "none"
          /\ ad'[a].status # "none" /\ ad'[a].values = v
      BY <1>0, <1>3, <2>1 DEF EnterByHand, RowsAgree, IsCandidate, NewRow
    <2>3. Standing(ad[a], prov[a]) = "absent" /\ Standing(ad'[a], prov'[a]) = "by hand"
      BY <2>2, StandingIs, StandingBecomes
    <2>4. Promised!ByHand(a, v)
      BY <2>1, <2>2, <2>3, OneStanding DEF Promised!ByHand
    <2> QED
      BY <2>4 DEF Promised!ListingNext
  <1>4. ASSUME NEW p \in People, Edit(p)
        PROVE  Promised!ListingNext
    <2>1. sent[p] # Idle
      BY <1>4 DEF Edit, Idle
    <2> DEFINE a == sent[p].of
               v == Edited(ad[a].values, sent[p].edit)
    <2>2. a \in Adverts /\ v \in Values
      BY <1>0, <2>1, SentIsRequest, EditedIsValues DEF TypeOK, Row
    <2>3. ad[a].status # "none" /\ prov[a].state = "pending_publish"
      BY <1>0, <1>4, <2>2 DEF Edit, Decidable, RowsAgree
    <2>4. /\ ad'[a].status = ad[a].status /\ ad'[a].values = v /\ prov' = prov
          /\ \A b \in Adverts : b # a => ad'[b] = ad[b] /\ prov'[b] = prov[b]
      BY <1>0, <1>4, <2>2 DEF Edit, TypeOK
    <2> HIDE DEF v, a
    <2>5. Standing(ad[a], prov[a]) = "draft" /\ Standing(ad'[a], prov'[a]) = "draft"
      BY <2>2, <2>3, <2>4, StandingIs, StandingBecomes
    <2>6. PICK b \in Adverts, u \in Values : b = a /\ u = v
      BY <2>2
    <2>7. \A c \in Adverts : Standing(ad'[c], prov'[c]) = Standing(ad[c], prov[c])
      BY <2>4, <2>5
    <2>8. [c \in Adverts |-> Standing(ad'[c], prov'[c])] = [c \in Adverts |-> Standing(ad[c], prov[c])]
      BY <2>7
    <2>9. Promised!Revise(b, u)
      BY <2>2, <2>4, <2>5, <2>6, <2>8, OneStanding DEF Promised!Revise
    <2> QED
      BY <2>9 DEF Promised!ListingNext
  <1>5. ASSUME NEW p \in People, Approve(p)
        PROVE  Promised!ListingNext
    <2>1. sent[p] # Idle
      BY <1>5 DEF Approve, Idle
    <2> DEFINE a == sent[p].of
               v == Edited(ad[a].values, sent[p].edit)
    <2>2. a \in Adverts /\ v \in Values
      BY <1>0, <2>1, SentIsRequest, EditedIsValues DEF TypeOK, Row
    <2>3. ad[a].status # "none" /\ prov[a].state = "pending_publish" /\ v \in Complete
      BY <1>0, <1>5, <2>2 DEF Approve, Publishes, Decidable, RowsAgree
    <2>4. /\ ad'[a].status = "active" /\ ad'[a].values = v /\ prov'[a].state = "linked"
          /\ prov'[a].reviewer = p /\ p # Nobody
          /\ \A b \in Adverts : b # a => ad'[b] = ad[b] /\ prov'[b] = prov[b]
      BY <1>0, <1>5, <2>2, ReviewAssumption DEF Approve, TypeOK, Ruling
    <2> HIDE DEF v, a
    <2>5. Standing(ad[a], prov[a]) = "draft" /\ Standing(ad'[a], prov'[a]) = "public"
      BY <2>2, <2>3, <2>4, StandingIs, StandingBecomes
    <2>6. PICK b \in Adverts, u \in Values : b = a /\ u = v
      BY <2>2
    <2>7. Promised!Publish(b, u)
      BY <2>2, <2>3, <2>4, <2>5, <2>6, OneStanding DEF Promised!Publish
    <2> QED
      BY <2>7 DEF Promised!ListingNext
  <1>6. ASSUME NEW p \in People, Reject(p)
        PROVE  Promised!ListingNext
    <2>1. sent[p] # Idle
      BY <1>6 DEF Reject, Idle
    <2> DEFINE a == sent[p].of
    <2>2. a \in Adverts
      BY <1>0, <2>1, SentIsRequest
    <2>3. ad[a].status # "none" /\ prov[a].state = "pending_publish"
      BY <1>0, <1>6, <2>2 DEF Reject, Decidable, RowsAgree
    <2>4. /\ ad'[a].status = "rejected" /\ ad'[a].values = ad[a].values
          /\ prov'[a].state = "discarded"
          /\ \A b \in Adverts : b # a => ad'[b] = ad[b] /\ prov'[b] = prov[b]
      BY <1>0, <1>6, <2>2 DEF Reject, TypeOK, Ruling
    <2> HIDE DEF a
    <2>5. Standing(ad[a], prov[a]) = "draft" /\ Standing(ad'[a], prov'[a]) = "refused"
      BY <2>2, <2>3, <2>4, StandingIs, StandingBecomes
    <2>6. Promised!Refuse(a)
      BY <2>2, <2>4, <2>5, OneStanding DEF Promised!Refuse
    <2> QED
      BY <2>2, <2>6 DEF Promised!ListingNext
  <1>7. ASSUME NEW p \in People, PrototypeWrite(p), ~UNCHANGED <<ad, prov>>
        PROVE  Promised!ListingNext
    <2>1. copy[p] # Idle
      BY <1>7 DEF PrototypeWrite
    <2> DEFINE a == copy[p].of
    <2>2. a \in Adverts /\ copy[p].values \in Values /\ copy[p].status # "none"
      BY <1>0, <2>1, CopyIsSave
    <2>3. ad[a].status # "none" /\ prov[a].state = "none"
      BY <2>1 DEF ReviewInv, CopiesAreByHand, IsCandidate
    <2>4. /\ ad' = [ad EXCEPT ![a] = [values |-> copy[p].values, status |-> copy[p].status,
                                     version |-> ad[a].version + 1, by |-> ad[a].by]]
          /\ prov' = prov
      BY <1>7 DEF PrototypeWrite
    <2>5. /\ ad'[a].status # "none" /\ ad'[a].values = copy[p].values
          /\ \A b \in Adverts : b # a => ad'[b] = ad[b] /\ prov'[b] = prov[b]
      BY <1>0, <2>2, <2>4 DEF TypeOK
    <2> HIDE DEF a
    <2>6. Standing(ad[a], prov[a]) = "by hand" /\ Standing(ad'[a], prov'[a]) = "by hand"
      BY <2>2, <2>3, <2>4, <2>5, StandingIs, StandingBecomes
    <2>7. PICK b \in Adverts, u \in Values : b = a /\ u = copy[p].values
      BY <2>2
    <2>8. Promised!ByHand(b, u)
      BY <2>2, <2>5, <2>6, <2>7, OneStanding DEF Promised!ByHand
    <2> QED
      BY <2>8 DEF Promised!ListingNext
  <1>8. CASE ReprocessWrite
    <2> DEFINE S == {a \in Adverts : prov'[a] # prov[a]}
    <2>1. \A a \in Adverts : a \in S => prov[a].state = "pending_publish"
                                      /\ prov'[a].state = "superseded"
      BY <1>0, <1>8 DEF ReprocessWrite, Undecided, TypeOK, Provenance
    <2>2. ad' = ad
      BY <1>8 DEF ReprocessWrite
    <2>3. \A a \in S : Standing(ad[a], prov[a]) = "draft" /\ Standing(ad'[a], prov'[a]) = "retired"
      BY <1>0, <2>1, <2>2, StandingIs, StandingBecomes DEF RowsAgree
    <2>4. \A a \in Adverts : a \notin S => Standing(ad'[a], prov'[a]) = Standing(ad[a], prov[a])
      BY <2>2
    <2>5. [a \in Adverts |-> Standing(ad'[a], prov'[a])]
            = [a \in Adverts |-> IF a \in S THEN "retired"
                                  ELSE [b \in Adverts |-> Standing(ad[b], prov[b])][a]]
      BY <2>3, <2>4
    <2>6. Promised!Retire(S)
      BY <2>2, <2>3, <2>5 DEF Promised!Retire
    <2>7. S \in SUBSET Adverts
      OBVIOUS
    <2> QED
      BY <2>6, <2>7 DEF Promised!ListingNext
  <1>9. CASE UNCHANGED vars
    BY <1>1, <1>9 DEF vars
  <1>10. ASSUME NEW p \in People, NEW a \in Adverts, NEW kind \in {"edit", "approve", "reject"},
                NEW edit \in Edits, NEW versioned \in BOOLEAN, Send(p, a, kind, edit, versioned)
         PROVE  UNCHANGED <<ad, prov>>
    BY <1>10 DEF Send
  <1>11. ASSUME NEW p \in People, Lose(p)
         PROVE  UNCHANGED <<ad, prov>>
    BY <1>11 DEF Lose
  <1>12. ASSUME NEW p \in People, NEW a \in Adverts, NEW v \in Values,
                NEW status \in {"active", "pending"}, PrototypeRead(p, a, v, status)
         PROVE  UNCHANGED <<ad, prov>>
    BY <1>12 DEF PrototypeRead
  <1>13. ASSUME NEW force \in BOOLEAN, ReprocessRead(force)
         PROVE  UNCHANGED <<ad, prov>>
    BY <1>13 DEF ReprocessRead
  <1>14. ASSUME NEW a \in Adverts, NEW v \in Values, NEW status \in {"active", "pending"},
                Import(a, v, status)
         PROVE  Promised!ListingNext
    <2>1. /\ ad'[a] = NewRow(v, status)
          /\ prov'[a] = Ruling(IF status = "active" THEN "linked" ELSE "pending_publish",
                              1, Nobody, Empty)
          /\ \A b \in Adverts : b # a => ad'[b] = ad[b] /\ prov'[b] = prov[b]
      BY <1>0, <1>14 DEF Import, TypeOK
    <2>2. /\ ad'[a].status # "none" /\ ad'[a].values = v /\ prov'[a].reviewer = Nobody
          /\ prov'[a].state = IF status = "active" THEN "linked" ELSE "pending_publish"
      BY <2>1 DEF NewRow, Ruling
    <2>3. Standing(ad[a], prov[a]) = "absent"
      BY <1>14, StandingIs DEF Import
    <2>4. CASE status = "active"
      <3>1. Standing(ad'[a], prov'[a]) = "inherited"
        BY <2>2, <2>4, StandingBecomes
      <3>2. Promised!Inherit(a, v)
        BY <2>1, <2>2, <2>3, <3>1, OneStanding DEF Promised!Inherit
      <3> QED
        BY <3>2 DEF Promised!ListingNext
    <2>5. CASE status = "pending"
      <3>1. Standing(ad'[a], prov'[a]) = "draft"
        BY <2>2, <2>5, StandingBecomes
      <3>2. Promised!Draft(a, v)
        BY <2>1, <2>2, <2>3, <3>1, OneStanding DEF Promised!Draft
      <3> QED
        BY <3>2 DEF Promised!ListingNext
    <2> QED
      BY <2>4, <2>5
  <1> QED
    BY <1>1, <1>2, <1>3, <1>4, <1>5, <1>6, <1>7, <1>8, <1>9, <1>10, <1>11, <1>12, <1>13, <1>14
    DEF Next

\* What readers of the advertisements table are promised holds whoever
\* reviews, retries or reprocesses: domain/listings.py implements Listing.
THEOREM ReviewKeepsThePromise == Spec => ListingPromise
  BY PromiseInit, PromiseStep, ReviewInvariant, PTL DEF Spec, ListingPromise, Promised!ListingSpec

-----------------------------------------------------------------------------
(* review_events tell the whole story. *)

\* What is not logged does not happen to a candidate.
LEMMA NothingUnlogged ==
    ASSUME ReviewInv, [Next]_vars, NEW a \in Adverts, IsCandidate(a), events'[a] = events[a]
    PROVE  /\ Snapshot(ad'[a]) = Snapshot(ad[a]) /\ ad'[a].by = ad[a].by
           /\ IsCandidate(a)' /\ Decided(a)' = Decided(a)
           /\ prov'[a].reviewer = prov[a].reviewer
           /\ TakenOver(a)' = TakenOver(a)
  <1>0. TypeOK /\ RowsAgree /\ CopiesAreByHand
    BY DEF ReviewInv
  <1>a. a \in imported' <=> a \in imported
    <2>1. \A b \in Adverts : ad[b].status = "none" => b # a
      BY <1>0 DEF RowsAgree
    <2> QED
      BY <2>1 DEF Next, vars, importVars, Create, EnterByHand, Import, Send, Edit, Approve, Reject,
             Lose, PrototypeRead, PrototypeWrite, ReprocessRead, ReprocessWrite
  <1>1. CASE ad'[a] = ad[a] /\ prov'[a] = prov[a]
    BY <1>1, <1>a DEF IsCandidate, Decided, TakenOver
  <1>2. ASSUME NEW b \in Adverts, NEW v \in Values,
               \/ Create(b, v)
               \/ \E status \in {"active", "pending"} :
                      EnterByHand(b, v, status) \/ Import(b, v, status)
        PROVE  ad'[a] = ad[a] /\ prov'[a] = prov[a]
    <2>1. b # a
      BY <1>0, <1>2 DEF Create, EnterByHand, Import, RowsAgree
    <2> QED
      BY <1>0, <1>2, <2>1 DEF Create, EnterByHand, Import, TypeOK
  <1>3. ASSUME NEW p \in People, Edit(p) \/ Approve(p) \/ Reject(p)
        PROVE  /\ Snapshot(ad'[a]) = Snapshot(ad[a]) /\ ad'[a].by = ad[a].by
               /\ prov'[a] = prov[a]
    <2>1. sent[p] # Idle
      BY <1>3 DEF Edit, Approve, Reject, Idle
    <2>2. sent[p].of \in Adverts
      BY <1>0, <2>1, SentIsRequest
    <2>3. CASE sent[p].of # a
      BY <1>0, <1>3, <2>3 DEF Edit, Approve, Reject, TypeOK
    <2>4. ASSUME sent[p].of = a, NEW e, events' = [events EXCEPT ![a] = Append(@, e)]
          PROVE  FALSE
      <3>1. events[a] \in Seq(EventRow)
        BY <1>0 DEF TypeOK
      <3>2. events'[a] = Append(events[a], e)
        BY <1>0, <2>4 DEF TypeOK
      <3>3. Len(events'[a]) = Len(events[a]) + 1
        BY <3>1, <3>2
      <3> QED
        BY <3>1, <3>3
    <2>5. CASE sent[p].of = a
      <3> DEFINE v == Edited(ad[a].values, sent[p].edit)
                 row == [values |-> v, status |-> ad[a].status, version |-> Bump(ad[a], v),
                         by |-> ad[a].by]
      <3>1. Edit(p) /\ v = ad[a].values /\ ad' = [ad EXCEPT ![a] = row] /\ prov' = prov
        BY <1>3, <2>4, <2>5 DEF Edit, Approve, Reject
      <3>2. ad'[a] = row
        BY <1>0, <3>1 DEF TypeOK
      <3> QED
        BY <3>1, <3>2 DEF Snapshot
    <2> QED
      BY <2>3, <2>5
  <1>4. ASSUME NEW p \in People, PrototypeWrite(p)
        PROVE  ad'[a] = ad[a] /\ prov'[a] = prov[a]
    <2>1. copy[p] # Idle
      BY <1>4 DEF PrototypeWrite
    <2>2. copy[p].of # a
      BY <1>0, <2>1 DEF CopiesAreByHand
    <2> QED
      BY <1>0, <1>4, <2>2 DEF PrototypeWrite, TypeOK
  <1>5. CASE ReprocessWrite
    <2>1. ad' = ad
      BY <1>5 DEF ReprocessWrite
    <2>2. \/ prov'[a] = prov[a]
          \/ prov[a].state = "pending_publish" /\ prov'[a] = [prov[a] EXCEPT !.state = "superseded"]
      BY <1>5 DEF ReprocessWrite, Undecided
    <2>3. CASE prov[a].state = "pending_publish" /\ prov'[a] = [prov[a] EXCEPT !.state = "superseded"]
      <3>1. prov'[a].state = "superseded" /\ prov'[a].reviewer = prov[a].reviewer
        BY <1>0, <2>3 DEF TypeOK, Provenance
      <3> QED
        BY <1>a, <2>1, <2>3, <3>1 DEF IsCandidate, Decided, TakenOver
    <2> QED
      BY <1>1, <2>1, <2>2, <2>3
  <1>6. CASE UNCHANGED <<ad, prov>>
    BY <1>1, <1>6
  <1>7. \/ \E b \in Adverts, v \in Values :
                \/ Create(b, v)
                \/ \E status \in {"active", "pending"} :
                      EnterByHand(b, v, status) \/ Import(b, v, status)
        \/ \E p \in People : Edit(p) \/ Approve(p) \/ Reject(p)
        \/ \E p \in People : PrototypeWrite(p)
        \/ ReprocessWrite
        \/ UNCHANGED <<ad, prov>>
    BY DEF Next, vars, Send, Lose, PrototypeRead, ReprocessRead
  <1> QED
    BY <1>a, <1>1, <1>2, <1>3, <1>4, <1>5, <1>6, <1>7 DEF IsCandidate, Decided, TakenOver

LEMMA AuditInit == Init => AuditTellsTheStory
  BY DEF Init, AuditTellsTheStory, IsCandidate, NoProvenance, Ruling

LEMMA AuditStep ==
    ASSUME ReviewInv, AuditTellsTheStory, [Next]_vars
    PROVE  AuditTellsTheStory'
  <1>0. TypeOK /\ RowsAgree
    BY DEF ReviewInv
  <1> DEFINE Story(log, row, decided, taken, reviewer) ==
                /\ \A k \in 1 .. Len(log) :
                    /\ k < Len(log) => log[k].after = log[k + 1].before
                    /\ k < Len(log) => log[k].action = "edited"
                    /\ log[k].before # log[k].after
                /\ Len(log) > 0 => log[Len(log)].after = Snapshot(row)
                /\ taken => Len(log) = 0
                /\ decided /\ ~taken <=> Len(log) > 0 /\ log[Len(log)].action # "edited"
                /\ decided /\ ~taken => log[Len(log)].actor = reviewer /\ row.by = reviewer
  <1> SUFFICES ASSUME NEW a \in Adverts, IsCandidate(a)'
               PROVE  Story(events'[a], ad'[a], Decided(a)', TakenOver(a)', prov'[a].reviewer)
    BY DEF AuditTellsTheStory
  <1>1. IsCandidate(a) => Story(events[a], ad[a], Decided(a), TakenOver(a), prov[a].reviewer)
    BY DEF AuditTellsTheStory
  <1>2. events[a] \in Seq(EventRow)
    BY <1>0 DEF TypeOK
  <1>3. CASE events'[a] # events[a]
    <2>1. PICK p \in People : /\ Edit(p) \/ Approve(p) \/ Reject(p)
                             /\ sent[p] # Idle /\ sent[p].of = a /\ Decidable(p)
      BY <1>0, <1>3, LoggedByReviewer
    <2>2. /\ IsCandidate(a) /\ ~Decided(a) /\ Snapshot(ad[a]) # Snapshot(ad'[a])
          /\ \E action \in {"edited", "approved", "rejected"} :
                /\ events'[a] = Append(events[a], Event(action, p, ad[a], ad'[a]))
                /\ action # "edited" <=> Decided(a)'
                /\ action # "edited" => prov'[a].reviewer = p /\ ad'[a].by = p
      BY <1>3, <2>1, LastEvent
    <2>3. PICK action \in {"edited", "approved", "rejected"} :
                /\ events'[a] = Append(events[a], Event(action, p, ad[a], ad'[a]))
                /\ action # "edited" <=> Decided(a)'
                /\ action # "edited" => prov'[a].reviewer = p /\ ad'[a].by = p
      BY <2>2
    <2> DEFINE e == Event(action, p, ad[a], ad'[a])
               n == Len(events[a])
    <2>4. /\ e.action = action /\ e.actor = p
          /\ e.before = Snapshot(ad[a]) /\ e.after = Snapshot(ad'[a])
      BY DEF Event
    <2> HIDE DEF e
    <2>5. /\ n \in Nat /\ Len(events'[a]) = n + 1 /\ events'[a][n + 1] = e
          /\ \A k \in 1 .. n : events'[a][k] = events[a][k]
      BY <1>2, <2>3 DEF e
    <2>6. \A k \in 1 .. n : events[a][k].action = "edited"
      BY <1>1, <1>2, <2>2
    <2>7. \A k \in 1 .. n : events'[a][k].after = events'[a][k + 1].before
      <3> SUFFICES ASSUME NEW k \in 1 .. n
                   PROVE  events'[a][k].after = events'[a][k + 1].before
        OBVIOUS
      <3>1. CASE k < n
        BY <1>1, <2>2, <2>5, <3>1
      <3>2. CASE k = n
        BY <1>1, <2>2, <2>4, <2>5, <3>2
      <3> QED
        BY <2>5, <3>1, <3>2
    <2>8. \A k \in 1 .. n + 1 : events'[a][k].before # events'[a][k].after
      <3> SUFFICES ASSUME NEW k \in 1 .. n + 1
                   PROVE  events'[a][k].before # events'[a][k].after
        OBVIOUS
      <3>1. CASE k \in 1 .. n
        BY <1>1, <2>2, <2>5, <3>1
      <3>2. CASE k = n + 1
        BY <2>2, <2>4, <2>5, <3>2
      <3> QED
        BY <2>5, <3>1, <3>2
    <2>10. ~TakenOver(a)'
      BY <2>3, ReviewAssumption DEF TakenOver, Decided
    <2> HIDE DEF n
    <2>9. \A k \in 1 .. Len(events'[a]) : k < Len(events'[a]) => k \in 1 .. n
      BY <2>5
    <2> QED
      BY <2>3, <2>4, <2>5, <2>6, <2>7, <2>8, <2>9, <2>10
  <1>4. CASE events'[a] = events[a]
    <2>1. CASE IsCandidate(a)
      <3>1. /\ Snapshot(ad'[a]) = Snapshot(ad[a]) /\ ad'[a].by = ad[a].by
            /\ Decided(a)' = Decided(a) /\ prov'[a].reviewer = prov[a].reviewer
            /\ TakenOver(a)' = TakenOver(a)
        BY <1>4, <2>1, NothingUnlogged
      <3> QED
        BY <1>1, <1>4, <2>1, <3>1
    <2>2. CASE ~IsCandidate(a)
      <3>1. events'[a] = <<>>
        BY <1>4, <2>2 DEF ReviewInv, RowsAgree
      <3>2. ~TakenOver(a)' => ~Decided(a)'
        <4>1. prov'[a] # prov[a]
          BY <2>2 DEF IsCandidate
        <4>2. PICK v \in Values : \/ Create(a, v)
                                 \/ \E status \in {"active", "pending"} : Import(a, v, status)
          <5>1. \A p \in People : Edit(p) \/ Approve(p) \/ Reject(p) =>
                    sent[p] # Idle /\ IsCandidate(sent[p].of)
            BY DEF Edit, Approve, Reject, Idle, Decidable, IsCandidate
          <5>2. \A p \in People : Edit(p) \/ Approve(p) \/ Reject(p) => prov'[a] = prov[a]
            BY <1>0, <2>2, <5>1, SentIsRequest DEF Edit, Approve, Reject, TypeOK
          <5>3. ReprocessWrite => prov'[a] = prov[a]
            BY <2>2 DEF ReprocessWrite, Undecided, IsCandidate
          <5>4. \A b \in Adverts, v \in Values : Create(b, v) => b = a
            BY <1>0, <4>1 DEF Create, TypeOK
          <5>5. \A b \in Adverts, v \in Values, status \in {"active", "pending"} :
                    Import(b, v, status) => b = a
            BY <1>0, <4>1 DEF Import, TypeOK
          <5> QED
            BY <4>1, <5>2, <5>3, <5>4, <5>5
            DEF Next, vars, EnterByHand, Send, Lose, PrototypeRead, PrototypeWrite, ReprocessRead
        <4>3. CASE Create(a, v)
          <5>1. prov'[a].state = "pending_publish"
            BY <1>0, <4>3 DEF Create, Ruling, TypeOK
          <5> QED
            BY <5>1 DEF Decided
        <4>4. ASSUME NEW status \in {"active", "pending"}, Import(a, v, status)
              PROVE  ~TakenOver(a)' => ~Decided(a)'
          <5>1. /\ prov'[a] = Ruling(IF status = "active" THEN "linked" ELSE "pending_publish",
                                    1, Nobody, Empty)
                /\ a \in imported'
            BY <1>0, <4>4 DEF Import, TypeOK
          <5> QED
            BY <5>1 DEF Decided, TakenOver, Ruling
        <4> QED
          BY <4>2, <4>3, <4>4
      <3>3. TakenOver(a)' => Decided(a)'
        BY DEF TakenOver, Decided
      <3> QED
        BY <3>1, <3>2, <3>3
    <2> QED
      BY <2>1, <2>2
  <1> QED
    BY <1>3, <1>4

\* review_events tell the whole story of a candidate: a chain without gaps that
\* ends at what is stored, with the verdict last and by the reviewer both rows
\* name; of one the importer took over as public there is none.
THEOREM StoryIsTold == Spec => []AuditTellsTheStory
  BY AuditInit, AuditStep, ReviewInvariant, PTL DEF Spec
=============================================================================
