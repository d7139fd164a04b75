------------------------------- MODULE Review -------------------------------
(***************************************************************************)
(* Reviewers rule on the candidates of an image (services/review.py,       *)
(* domain/listings.py, api/review_routes.py), while the image is           *)
(* reprocessed, the prototype's endpoints write the same table             *)
(* (api/routes.py, services/advertisements.py, db/repositories/legacy.py)  *)
(* and an operator imports the prototype's store (cli.py).                 *)
(*                                                                         *)
(* A reviewer reads a candidate and sends a request some time later, with  *)
(* the version read or without one.  A request may be lost, refused, or    *)
(* sent again when its answer is lost.  Each is served in one transaction  *)
(* that holds the candidate's rows locked.                                 *)
(***************************************************************************)
EXTENDS Naturals, Sequences

CONSTANTS
    Adverts,     \* ids of advertisements
    People,      \* reviewers, and callers of the prototype's endpoints
    Nobody,
    Fields,      \* what a candidate must have before it is published
    Vals,        \* what a field may say
    Blank,       \* a value publication_errors refuses
    Keep,        \* a field that an edit leaves alone
    MaxVersion   \* bound on the version column

ASSUME ReviewAssumption ==
    /\ Nobody \notin People
    /\ Blank \in Vals /\ Keep \notin Vals
    /\ MaxVersion \in Nat

VARIABLES
    ad,          \* the advertisements row: what it says, status, version, by whom
    prov,        \* the advertisement_provenance row, if there is one
    events,      \* review_events of an advertisement, oldest first
    generation,  \* of the item the candidates come from
    legacy,      \* whether that item was made by the importer
    imported,    \* advertisements whose provenance says "legacy_json"
    reopening,   \* a reprocess has looked for decisions and not written yet
    sent,        \* each reviewer's request on its way
    copy         \* each caller's copy, inside a prototype endpoint

vars == <<ad, prov, events, generation, legacy, imported, reopening, sent, copy>>

importVars == <<legacy, imported>>

Values == [Fields -> Vals]
Empty == [f \in Fields |-> Blank]
Edits == [Fields -> Vals \cup {Keep}]

\* publication_errors finds nothing.
Complete == {v \in Values : \A f \in Fields : v[f] # Blank}

NoAdvert == [values |-> Empty, status |-> "none", version |-> 0, by |-> Nobody]

\* A row as it is inserted.
NewRow(v, status) == [values |-> v, status |-> status, version |-> 1, by |-> Nobody]

Ruling(state, g, reviewer, accepted) ==
    [state |-> state, generation |-> g, reviewer |-> reviewer, accepted |-> accepted]

NoProvenance == Ruling("none", 0, Nobody, Empty)

Idle == [kind |-> "none"]

Init ==
    /\ ad = [a \in Adverts |-> NoAdvert]
    /\ prov = [a \in Adverts |-> NoProvenance]
    /\ events = [a \in Adverts |-> <<>>]
    /\ generation = 1
    /\ legacy \in BOOLEAN /\ imported = {}
    /\ reopening = FALSE
    /\ sent = [p \in People |-> Idle]
    /\ copy = [p \in People |-> Idle]

IsCandidate(a) == prov[a].state # "none"

Decided(a) == prov[a].state \in {"linked", "discarded"}

\* ReviewerEdits: a field that is absent is left alone.
Edited(v, edit) == [f \in Fields |-> IF edit[f] = Keep THEN v[f] ELSE edit[f]]

\* _values_of.
Snapshot(row) == [values |-> row.values, status |-> row.status]

-----------------------------------------------------------------------------
(* Slips: variants of definitions below, each with one mistake the code    *)
(* could have made.  No specification uses them.                           *)

\* No version check.
DecidableAtAnyVersion(p) == prov[sent[p].of].state = "pending_publish"

\* A version column that a plain save forgets.
BumpNever(row, v) == row.version

\* Validation of what the model extracted.
PublishesUnedited(row, v) == row.values \in Complete

\* A decision that is logged with what the row says afterwards on both sides.
EventAfterTheFact(action, p, before, after) ==
    [action |-> action, actor |-> p, before |-> Snapshot(after), after |-> Snapshot(after)]

\* A reprocess that supersedes everything.
UndecidedOrNot(a) == prov[a].state # "none"

-----------------------------------------------------------------------------
(* What a decision logs, and what a flush does to the version. *)

Event(action, p, before, after) ==
    [action |-> action, actor |-> p, before |-> Snapshot(before), after |-> Snapshot(after)]

\* SQLAlchemy bumps version_id_col with each flush that changes the row.
Bump(row, v) == IF row.values = v THEN row.version ELSE row.version + 1

-----------------------------------------------------------------------------
(* Where advertisements come from. *)

\* create_candidates, by a worker that finishes the current generation.  An
\* imported item awaits review from the start: workers see it when it is reprocessed.
Create(a, v) ==
    /\ ad[a].status = "none"
    /\ legacy => generation > 1
    /\ ad' = [ad EXCEPT ![a] = NewRow(v, "pending")]
    /\ prov' = [prov EXCEPT ![a] = Ruling("pending_publish", generation, Nobody, Empty)]
    /\ UNCHANGED <<events, generation, reopening, sent, copy, importVars>>

\* The prototype: an advertisement entered by hand is active at once, one read
\* from a newspaper is pending.
EnterByHand(a, v, status) ==
    /\ ad[a].status = "none"
    /\ ad' = [ad EXCEPT ![a] = NewRow(v, status)]
    /\ UNCHANGED <<prov, events, generation, reopening, sent, copy, importVars>>

\* _import_advertisement, for one with an image: the row as the prototype had it,
\* public if it was public there, and a provenance row of generation 1.  Nobody
\* is asked, nothing is validated, nothing is logged.  (One without an image gets
\* no provenance, and is as one entered by hand.)
Import(a, v, status) ==
    /\ legacy /\ ad[a].status = "none"
    /\ ad' = [ad EXCEPT ![a] = NewRow(v, status)]
    /\ prov' = [prov EXCEPT ![a] =
                    Ruling(IF status = "active" THEN "linked" ELSE "pending_publish", 1, Nobody, Empty)]
    /\ imported' = imported \cup {a}
    /\ UNCHANGED <<events, generation, legacy, reopening, sent, copy>>

-----------------------------------------------------------------------------
(* Requests. *)

\* A reviewer reads a candidate and sends a request about it.  basis: what the
\* screen showed.
Send(p, a, kind, edit, versioned) ==
    /\ sent[p] = Idle
    /\ IsCandidate(a)
    /\ sent' = [sent EXCEPT ![p] = [kind |-> kind, of |-> a, edit |-> edit,
                                    version |-> IF versioned THEN ad[a].version ELSE 0,
                                    basis |-> Snapshot(ad[a])]]
    /\ UNCHANGED <<ad, prov, events, generation, reopening, copy, importVars>>

\* _for_decision, under the row lock.
Decidable(p) ==
    /\ prov[sent[p].of].state = "pending_publish"
    /\ sent[p].version \in {0, ad[sent[p].of].version}

\* The request is over, or will be sent again because its answer was lost.
Answered(p) == sent' = [sent EXCEPT ![p] = Idle] \/ UNCHANGED sent

\* apply_edits, its flush, and an event when something changed.
Edit(p) ==
    /\ sent[p].kind = "edit"
    /\ Decidable(p)
    /\ LET a == sent[p].of
           v == Edited(ad[a].values, sent[p].edit)
           row == [values |-> v, status |-> ad[a].status, version |-> Bump(ad[a], v),
                   by |-> ad[a].by]
       IN /\ row.version <= MaxVersion
          /\ ad' = [ad EXCEPT ![a] = row]
          /\ events' = IF v = ad[a].values THEN events
                       ELSE [events EXCEPT ![a] = Append(@, Event("edited", p, ad[a], row))]
    /\ Answered(p)
    /\ UNCHANGED <<prov, generation, reopening, copy, importVars>>

\* Validation is of what the edits leave.
Publishes(row, v) == v \in Complete

\* approve: the edits and the verdict are one transaction; what it refuses it
\* rolls back whole.
Approve(p) ==
    /\ sent[p].kind = "approve"
    /\ Decidable(p)
    /\ LET a == sent[p].of
           v == Edited(ad[a].values, sent[p].edit)
           row == [values |-> v, status |-> "active", version |-> Bump(ad[a], v) + 1, by |-> p]
       IN /\ Publishes(ad[a], v)
          /\ ad' = [ad EXCEPT ![a] = row]
          /\ prov' = [prov EXCEPT ![a] = Ruling("linked", @.generation, p, v)]
          /\ events' = [events EXCEPT ![a] = Append(@, Event("approved", p, ad[a], row))]
    /\ Answered(p)
    /\ UNCHANGED <<generation, reopening, copy, importVars>>

Reject(p) ==
    /\ sent[p].kind = "reject"
    /\ Decidable(p)
    /\ LET a == sent[p].of
           row == [values |-> ad[a].values, status |-> "rejected",
                   version |-> ad[a].version + 1, by |-> p]
       IN /\ ad' = [ad EXCEPT ![a] = row]
          /\ prov' = [prov EXCEPT ![a] = Ruling("discarded", @.generation, p, @.accepted)]
          /\ events' = [events EXCEPT ![a] = Append(@, Event("rejected", p, ad[a], row))]
    /\ Answered(p)
    /\ UNCHANGED <<generation, reopening, copy, importVars>>

\* Not its state, not its version, not complete, or never delivered.
Lose(p) ==
    /\ sent[p] # Idle
    /\ sent' = [sent EXCEPT ![p] = Idle]
    /\ UNCHANGED <<ad, prov, events, generation, reopening, copy, importVars>>

-----------------------------------------------------------------------------
(* Beside them. *)

\* retry_item(mode=reprocess) looks for decisions, without a lock on any.
ReprocessRead(force) ==
    /\ ~reopening
    /\ force \/ \A a \in Adverts : ~Decided(a)
    /\ reopening' = TRUE
    /\ UNCHANGED <<ad, prov, events, generation, sent, copy, importVars>>

Undecided(a) == prov[a].state = "pending_publish"

\* supersede_undecided: the provenance row alone.
ReprocessWrite ==
    /\ reopening /\ generation < MaxVersion
    /\ reopening' = FALSE
    /\ generation' = generation + 1
    /\ prov' = [a \in Adverts |->
                    IF Undecided(a) /\ prov[a].generation <= generation
                    THEN [prov[a] EXCEPT !.state = "superseded"] ELSE prov[a]]
    /\ UNCHANGED <<ad, events, sent, copy, importVars>>

\* _refuse_pipeline_candidate.
OpenToPrototype(a) == ~IsCandidate(a)

\* PATCH and approve of the prototype read the row in one transaction...  The
\* refusal looks in a transaction of its own before; its answer stays true,
\* because a row is inserted with its provenance or never gets one.  Callers name
\* an advertisement they have seen.
PrototypeRead(p, a, v, status) ==
    /\ copy[p] = Idle
    /\ ad[a].status # "none" /\ OpenToPrototype(a)
    /\ \/ v \in Complete /\ status = ad[a].status
       \/ v = ad[a].values /\ status = "active"
    /\ copy' = [copy EXCEPT ![p] = [kind |-> "save", of |-> a, values |-> v, status |-> status]]
    /\ UNCHANGED <<ad, prov, events, generation, reopening, sent, importVars>>

\* ... and write all of it in another, or fail.
PrototypeWrite(p) ==
    /\ copy[p] # Idle
    /\ LET a == copy[p].of
           v == copy[p].values
           same == v = ad[a].values /\ copy[p].status = ad[a].status
           row == [values |-> v, status |-> copy[p].status, version |-> ad[a].version + 1,
                   by |-> ad[a].by]
       IN \/ UNCHANGED ad
          \/ ~same /\ ad[a].version < MaxVersion /\ ad' = [ad EXCEPT ![a] = row]
    /\ copy' = [copy EXCEPT ![p] = Idle]
    /\ UNCHANGED <<prov, events, generation, reopening, sent, importVars>>

-----------------------------------------------------------------------------
Next ==
    \/ \E a \in Adverts, v \in Values :
        \/ Create(a, v)
        \/ \E status \in {"active", "pending"} :
              EnterByHand(a, v, status) \/ Import(a, v, status)
    \/ \E p \in People :
        \/ \E a \in Adverts, kind \in {"edit", "approve", "reject"}, edit \in Edits,
              versioned \in BOOLEAN : Send(p, a, kind, edit, versioned)
        \/ Edit(p) \/ Approve(p) \/ Reject(p) \/ Lose(p)
        \/ \E a \in Adverts, v \in Values, status \in {"active", "pending"} :
              PrototypeRead(p, a, v, status)
        \/ PrototypeWrite(p)
    \/ \E force \in BOOLEAN : ReprocessRead(force)
    \/ ReprocessWrite

Spec == Init /\ [][Next]_vars

-----------------------------------------------------------------------------
(* Properties. *)

Status == {"none", "pending", "active", "rejected"}

Row == [values : Values, status : Status, version : Nat, by : People \cup {Nobody}]

Provenance ==
    [state : {"none", "pending_publish", "linked", "discarded", "superseded"},
     generation : Nat, reviewer : People \cup {Nobody}, accepted : Values]

Shown == [values : Values, status : Status]

EventRow ==
    [action : {"edited", "approved", "rejected"}, actor : People, before : Shown, after : Shown]

Request ==
    {Idle} \cup [kind : {"edit", "approve", "reject"}, of : Adverts, edit : Edits,
                 version : Nat, basis : Shown]

TypeOK ==
    /\ ad \in [Adverts -> Row]
    /\ prov \in [Adverts -> Provenance]
    /\ events \in [Adverts -> Seq(EventRow)]
    /\ generation \in Nat
    /\ legacy \in BOOLEAN /\ imported \subseteq Adverts
    /\ reopening \in BOOLEAN
    /\ sent \in [People -> Request]
    /\ copy \in [People -> {Idle} \cup [kind : {"save"}, of : Adverts, values : Values,
                                        status : {"active", "pending"}]]

\* "One that sends a stale number is not" legitimate (_for_decision): a request
\* that carries a version replaces exactly what its sender's screen showed,
\* however many others wrote in between, and however often it is sent.
NothingUnseenIsOverwritten ==
    [][\A p \in People : \A a \in Adverts :
        /\ Len(events'[a]) > Len(events[a])
        /\ events'[a][Len(events'[a])].actor = p
        /\ sent[p].version # 0
        => Snapshot(ad[a]) = sent[p].basis]_vars

\* Public by import: linked, and no reviewer named.
TakenOver(a) ==
    prov[a].state = "linked" /\ prov[a].reviewer = Nobody /\ a \in imported

\* review_events tell the whole story of a candidate: each starts where the one
\* before ended, the last ends at what is stored, and the verdict is the last
\* and only one, by the reviewer both rows name.  The one decided candidate
\* without a verdict event is what the importer took over as public, and of that
\* nothing is ever logged.
AuditTellsTheStory ==
    \A a \in Adverts : IsCandidate(a) =>
        LET n == Len(events[a]) IN
        /\ \A k \in 1 .. n :
            /\ k < n => events[a][k].after = events[a][k + 1].before
            /\ k < n => events[a][k].action = "edited"
            /\ events[a][k].before # events[a][k].after
        /\ n > 0 => events[a][n].after = Snapshot(ad[a])
        /\ TakenOver(a) => n = 0
        /\ Decided(a) /\ ~TakenOver(a) <=> n > 0 /\ events[a][n].action # "edited"
        /\ Decided(a) /\ ~TakenOver(a) =>
                events[a][n].actor = prov[a].reviewer /\ ad[a].by = prov[a].reviewer

\* "The single transition that makes one publicly readable" (approve): a
\* candidate is active exactly when it is linked, and then either a reviewer
\* linked it, complete, saying what was accepted, or the importer took it over
\* as it was in the prototype's store, unseen and unvalidated; one that a
\* reprocess superseded, even between a reviewer's reading and deciding, is
\* never published.
PublishedAsAccepted ==
    \A a \in Adverts : IsCandidate(a) =>
        /\ ad[a].status = "active" <=> prov[a].state = "linked"
        /\ ad[a].status = "rejected" <=> prov[a].state = "discarded"
        /\ prov[a].state = "linked" /\ ~TakenOver(a) =>
                /\ prov[a].reviewer \in People
                /\ ad[a].values \in Complete /\ ad[a].values = prov[a].accepted

\* "Anything with provenance is a candidate, and a candidate becomes public
\* through `approve` or not at all" (is_pipeline_candidate).  It is false: the
\* importer's candidates become public without (review_import.cfg shows one).
PublicThroughApproveOrNotAtAll ==
    \A a \in Adverts : IsCandidate(a) /\ ad[a].status = "active" =>
        \E k \in 1 .. Len(events[a]) : events[a][k].action = "approved"

\* The refinement: what readers of the table are promised.
Standing(row, ruling) ==
    CASE row.status = "none" -> "absent"
      [] row.status # "none" /\ ruling.state = "none" -> "by hand"
      [] row.status # "none" /\ ruling.state = "pending_publish" -> "draft"
      [] row.status # "none" /\ ruling.state = "linked" /\ ruling.reviewer # Nobody -> "public"
      [] row.status # "none" /\ ruling.state = "linked" /\ ruling.reviewer = Nobody -> "inherited"
      [] row.status # "none" /\ ruling.state = "discarded" -> "refused"
      [] row.status # "none" /\ ruling.state = "superseded" -> "retired"

Promised == INSTANCE Listing WITH
    Adverts <- Adverts, Values <- Values, Complete <- Complete, Empty <- Empty,
    state <- [a \in Adverts |-> Standing(ad[a], prov[a])],
    values <- [a \in Adverts |-> ad[a].values]

ListingPromise == Promised!ListingSpec

\* A candidate has an advertisement, logged only while it is a candidate, and
\* pending until it is ruled on.
RowsAgree ==
    \A a \in Adverts :
        /\ ad[a].status = "none" => ad[a] = NoAdvert /\ ~IsCandidate(a)
        /\ ~IsCandidate(a) => events[a] = <<>>
        /\ prov[a].state \in {"pending_publish", "superseded"} => ad[a].status = "pending"

\* What the prototype's endpoints hold a copy of never becomes a candidate.
CopiesAreByHand ==
    \A p \in People : copy[p] # Idle =>
        ad[copy[p].of].status # "none" /\ ~IsCandidate(copy[p].of)

\* A version stands for what the row said under it.
VersionsIdentify ==
    \A p \in People : sent[p] # Idle =>
        /\ IsCandidate(sent[p].of)
        /\ sent[p].version <= ad[sent[p].of].version
        /\ sent[p].version = ad[sent[p].of].version => sent[p].basis = Snapshot(ad[sent[p].of])

\* The inductive invariant behind all of it.
ReviewInv == TypeOK /\ RowsAgree /\ CopiesAreByHand /\ VersionsIdentify /\ PublishedAsAccepted
=============================================================================
