------------------------------ MODULE Ingestion ------------------------------
(***************************************************************************)
(* From an upload to a committed batch, beside the orphan sweep            *)
(* (services/ingestion.py, services/uploads.py, storage/filesystem.py,     *)
(* db/repositories/assets.py, the import and the sweep of cli.py).         *)
(*                                                                         *)
(* Two resources that know nothing of each other meet here: files, which   *)
(* land first, and rows, which refer to them.  A request is a sequence of  *)
(* short steps, each a file operation or a transaction, and may fail or    *)
(* die between any two.  An image is its digest.                           *)
(***************************************************************************)
EXTENDS Naturals, FiniteSets, Sequences

CONSTANTS
    Requests,    \* calls of create_batch, and runs of import-legacy-json
    Keys,        \* (operator, idempotency key) pairs
    NoKey,       \* a request without a key
    Digests,     \* images, by content
    MaxImages,   \* settings.max_images_per_batch
    Sweepers     \* runs of storage-gc

ASSUME IngestionAssumption ==
    /\ NoKey \notin Keys
    /\ MaxImages \in Nat \ {0}

VARIABLES
    pc,          \* where a request is
    job,         \* what it was asked: kind, key and images
    place,       \* the image it is at
    temp,        \* its staged files
    wrote,       \* the blobs its promotions wrote
    answer,      \* what it answered, and with whose batch
    batch,       \* the ingestion_batches row it reserved
    blob,        \* files under originals/
    row,         \* media_assets rows, by bytes_state
    orphans,     \* the keys a sweep is about to delete
    sweeping,    \* which sweeps are at it
    adopted      \* history: images whose file was found there, with no row that vouches for
                 \* it, or was on the list of a sweep

requestVars == <<pc, job, place, temp, wrote, answer>>
vars == <<requestVars, batch, blob, row, orphans, sweeping, adopted>>

Ages == {"none", "young", "old"}   \* "old" is past --min-age-seconds

Uploads == UNION {[1 .. n -> Digests] : n \in 1 .. MaxImages}

NoJob == [kind |-> "batch", key |-> NoKey, images |-> <<>>]

Unanswered == [how |-> "none", batch |-> {}]

Active == {r \in Requests : pc[r] \notin {"new", "done", "dead"}}

ImagesOf(r) == {job[r].images[n] : n \in DOMAIN job[r].images}

\* request_fingerprint: the images, in whatever order.
Fingerprint(r) ==
    [d \in Digests |-> Cardinality({n \in DOMAIN job[r].images : job[r].images[n] = d})]

Init ==
    /\ pc = [r \in Requests |-> "new"]
    /\ job = [r \in Requests |-> NoJob]
    /\ place = [r \in Requests |-> 1]
    /\ temp = [r \in Requests |-> [n \in 1 .. MaxImages |-> "none"]]
    /\ wrote = [r \in Requests |-> {}]
    /\ answer = [r \in Requests |-> Unanswered]
    /\ batch = [r \in Requests |-> "none"]
    /\ blob = [d \in Digests |-> "none"]
    /\ row = [d \in Digests |-> "none"]
    /\ orphans = [s \in Sweepers |-> {}]
    /\ sweeping = [s \in Sweepers |-> FALSE]
    /\ adopted = {}

Goto(r, where, n) == pc' = [pc EXCEPT ![r] = where] /\ place' = [place EXCEPT ![r] = n]

Discarded(r) == [temp EXCEPT ![r] = [n \in 1 .. MaxImages |-> "none"]]

\* The request ends, its staged files as `files` says.
Answer(r, how, of, files) ==
    /\ Goto(r, "done", 1)
    /\ answer' = [answer EXCEPT ![r] = [how |-> how, batch |-> of]]
    /\ temp' = files
    /\ UNCHANGED <<job, wrote>>

-----------------------------------------------------------------------------
(* Slips: variants of definitions below, each with one mistake the code    *)
(* could have made.  No specification uses them.                           *)

\* A refused set whose files are left to the sweep.
ValidateKeeping(r) ==
    /\ pc[r] = "validating"
    /\ \/ Goto(r, "reserving", 1) /\ UNCHANGED <<job, temp, wrote, answer>>
       \/ Answer(r, "rejected", {}, temp)
    /\ UNCHANGED <<batch, blob, row, orphans, sweeping, adopted>>

\* A lookup before the insert, and no unique index behind it.
HoldersCommitted(r) == {b \in Requests : batch[b] = "committed" /\ job[b].key = job[r].key}

\* A sweep without the age floor.
SweepListAnyAge(s) ==
    /\ ~sweeping[s]
    /\ sweeping' = [sweeping EXCEPT ![s] = TRUE]
    /\ orphans' = [orphans EXCEPT ![s] = {d \in Digests : blob[d] # "none" /\ row[d] = "none"}]
    /\ UNCHANGED <<requestVars, batch, blob, row, adopted>>

\* A sweep that forgets the staging area.
SweepPurgeNothing(s) ==
    /\ sweeping[s] /\ orphans[s] = {}
    /\ sweeping' = [sweeping EXCEPT ![s] = FALSE]
    /\ UNCHANGED <<requestVars, batch, blob, row, orphans, adopted>>

-----------------------------------------------------------------------------
(* One request. *)

\* create_batch is called, or the import started; the images are those its file
\* or its form holds.
Begin(r, kind, key, images) ==
    /\ pc[r] = "new"
    /\ kind = "import" => key = NoKey
    /\ job' = [job EXCEPT ![r] = [kind |-> kind, key |-> key, images |-> images]]
    /\ Goto(r, "staging", 1)
    /\ UNCHANGED <<temp, wrote, answer, batch, blob, row, orphans, sweeping, adopted>>

Last(r) == place[r] = Len(job[r].images)

\* store.stage: a batch stages its whole set, the import one image at a time.
Stage(r) ==
    /\ pc[r] = "staging"
    /\ temp' = [temp EXCEPT ![r][place[r]] = "young"]
    /\ CASE job[r].kind = "import" -> Goto(r, "promoting", place[r])
         [] job[r].kind = "batch" /\ ~Last(r) -> Goto(r, "staging", place[r] + 1)
         [] OTHER -> Goto(r, "validating", 1)
    /\ UNCHANGED <<job, wrote, answer, batch, blob, row, orphans, sweeping, adopted>>

\* The stream breaks, or the disk is full: what is staged already is discarded,
\* the file being written is not.
StageFails(r) ==
    /\ pc[r] = "staging"
    /\ Answer(r, "failed", {}, [Discarded(r) EXCEPT ![r][place[r]] = "young"])
    /\ UNCHANGED <<batch, blob, row, orphans, sweeping, adopted>>

\* The set as a whole is accepted, or refused and discarded.
Validate(r) ==
    /\ pc[r] = "validating"
    /\ \/ Goto(r, "reserving", 1) /\ UNCHANGED <<job, temp, wrote, answer>>
       \/ Answer(r, "rejected", {}, Discarded(r))
    /\ UNCHANGED <<batch, blob, row, orphans, sweeping, adopted>>

\* The batches that hold a request's key: the unique index knows nothing of
\* requests without one.
Holders(r) == {b \in Requests : batch[b] # "none" /\ job[b].key = job[r].key}

\* Insert and commit the batch row, or find the key taken.
Reserve(r) ==
    /\ pc[r] = "reserving"
    /\ IF job[r].key # NoKey /\ Holders(r) # {}
       THEN /\ Goto(r, "replaying", 1)
            /\ temp' = Discarded(r)
            /\ UNCHANGED batch
       ELSE /\ batch' = [batch EXCEPT ![r] = "reserved"]
            /\ Goto(r, "promoting", 1)
            /\ UNCHANGED temp
    /\ UNCHANGED <<job, wrote, answer, blob, row, orphans, sweeping, adopted>>

\* Any other database error leaves the staged files where they are.
ReserveFails(r) ==
    /\ pc[r] = "reserving"
    /\ Answer(r, "failed", {}, temp)
    /\ UNCHANGED <<batch, blob, row, orphans, sweeping, adopted>>

\* A sweep is about to delete it.
Doomed(d) == \E s \in Sweepers : d \in orphans[s]

\* store.promote: a file already there is taken for the same file, as it is.
Promote(r) ==
    LET d == job[r].images[place[r]] IN
    /\ pc[r] = "promoting"
    /\ temp' = [temp EXCEPT ![r][place[r]] = "none"]
    /\ IF blob[d] # "none" THEN UNCHANGED <<blob, wrote>>
       ELSE /\ blob' = [blob EXCEPT ![d] = "young"]
            /\ wrote' = [wrote EXCEPT ![r] = @ \cup {d}]
    /\ adopted' = IF row[d] # "present" /\ (blob[d] # "none" \/ Doomed(d)) THEN adopted \cup {d}
                  ELSE adopted
    /\ CASE Last(r) -> Goto(r, "recording", 1)
         [] ~Last(r) /\ job[r].kind = "import" -> Goto(r, "staging", place[r] + 1)
         [] OTHER -> Goto(r, "promoting", place[r] + 1)
    /\ UNCHANGED <<job, answer, batch, row, orphans, sweeping>>

\* The second transaction: get_or_create of each asset keeps the row it finds;
\* items, and committed_at.
Record(r) ==
    /\ pc[r] = "recording"
    /\ row' = [d \in Digests |-> IF d \in ImagesOf(r) /\ row[d] = "none" THEN "present" ELSE row[d]]
    /\ batch' = IF job[r].kind = "batch" THEN [batch EXCEPT ![r] = "committed"] ELSE batch
    /\ Answer(r, "created", {r}, temp)
    /\ UNCHANGED <<blob, orphans, sweeping, adopted>>

\* _record raises and its transaction is rolled back, or the import was a dry
\* run: the files stay, and so does the reservation.
RecordFails(r) ==
    /\ pc[r] \in {"promoting", "recording"}
    /\ Answer(r, "failed", {}, IF job[r].kind = "batch" THEN Discarded(r) ELSE temp)
    /\ UNCHANGED <<batch, blob, row, orphans, sweeping, adopted>>

\* One look at the batch that holds the key.
Replay(r) ==
    /\ pc[r] = "replaying"
    /\ \E b \in Holders(r) :
        \/ Fingerprint(b) # Fingerprint(r) /\ Answer(r, "conflict", {}, temp)
        \/ Fingerprint(b) = Fingerprint(r) /\ batch[b] = "committed"
             /\ Answer(r, "replayed", {b}, temp)
        \* Looked at until the deadline.
        \/ Fingerprint(b) = Fingerprint(r) /\ batch[b] = "reserved"
             /\ Answer(r, "in_progress", {}, temp)
    /\ UNCHANGED <<batch, blob, row, orphans, sweeping, adopted>>

\* The process dies.
Die(r) ==
    /\ r \in Active
    /\ Goto(r, "dead", 1)
    /\ UNCHANGED <<job, temp, wrote, answer, batch, blob, row, orphans, sweeping, adopted>>

-----------------------------------------------------------------------------
(* Around it. *)

\* save_asset and the import of extractions: a row whose bytes were never kept.
RecordAbsent(d) ==
    /\ row[d] = "none"
    /\ row' = [row EXCEPT ![d] = "absent"]
    /\ UNCHANGED <<requestVars, batch, blob, orphans, sweeping, adopted>>

\* A file gets older.  A request ends before what it wrote reaches the age floor:
\* the floor is an hour ("the gap is real and the age floor is what keeps the
\* sweep from racing it").
BlobAges(d) ==
    /\ blob[d] = "young" /\ \A r \in Active : d \notin wrote[r]
    /\ blob' = [blob EXCEPT ![d] = "old"]
    /\ UNCHANGED <<requestVars, batch, row, orphans, sweeping, adopted>>

TempAges(r) ==
    /\ r \notin Active
    /\ \E n \in 1 .. MaxImages : temp[r][n] = "young"
    /\ temp' = [temp EXCEPT ![r] = [n \in 1 .. MaxImages |->
                                        IF @[n] = "none" THEN "none" ELSE "old"]]
    /\ UNCHANGED <<pc, job, place, wrote, answer, batch, blob, row, orphans, sweeping, adopted>>

\* storage_gc reads the keys and lists the old files without one.  (Two steps of
\* the code; ages are taken against one clock reading next to the first.)
SweepList(s) ==
    /\ ~sweeping[s]
    /\ sweeping' = [sweeping EXCEPT ![s] = TRUE]
    /\ orphans' = [orphans EXCEPT ![s] = {d \in Digests : blob[d] = "old" /\ row[d] = "none"}]
    /\ UNCHANGED <<requestVars, batch, blob, row, adopted>>

\* store.delete, on the strength of the list.
SweepDelete(s, d) ==
    /\ d \in orphans[s]
    /\ orphans' = [orphans EXCEPT ![s] = @ \ {d}]
    /\ blob' = [blob EXCEPT ![d] = "none"]
    /\ UNCHANGED <<requestVars, batch, row, sweeping, adopted>>

\* purge_staging ends the sweep.
SweepPurge(s) ==
    /\ sweeping[s] /\ orphans[s] = {}
    /\ sweeping' = [sweeping EXCEPT ![s] = FALSE]
    /\ temp' = [r \in Requests |-> [n \in 1 .. MaxImages |->
                    IF temp[r][n] = "old" THEN "none" ELSE temp[r][n]]]
    /\ UNCHANGED <<pc, job, place, wrote, answer, batch, blob, row, orphans, adopted>>

\* A dry run, or a sweep that dies, deletes nothing more.
SweepStops(s) ==
    /\ sweeping[s] /\ orphans[s] # {}
    /\ sweeping' = [sweeping EXCEPT ![s] = FALSE]
    /\ orphans' = [orphans EXCEPT ![s] = {}]
    /\ UNCHANGED <<requestVars, batch, blob, row, adopted>>

-----------------------------------------------------------------------------
Step(r) ==
    \/ Stage(r) \/ StageFails(r) \/ Validate(r)
    \/ Reserve(r) \/ ReserveFails(r)
    \/ Promote(r) \/ Record(r) \/ RecordFails(r)
    \/ Replay(r)

Next ==
    \/ \E r \in Requests, kind \in {"batch", "import"}, key \in Keys \cup {NoKey},
          images \in Uploads : Begin(r, kind, key, images)
    \/ \E r \in Requests : Step(r) \/ Die(r) \/ TempAges(r)
    \/ \E d \in Digests : RecordAbsent(d) \/ BlobAges(d)
    \/ \E s \in Sweepers :
        \/ SweepList(s) \/ SweepPurge(s) \/ SweepStops(s)
        \/ \E d \in Digests : SweepDelete(s, d)

Spec == Init /\ [][Next]_vars

\* Requests end (a database call and a wait have timeouts), files get older, and
\* the sweep is run again and again.
Fairness ==
    /\ \A r \in Requests : WF_vars(Step(r)) /\ WF_vars(TempAges(r))
    /\ \A d \in Digests : WF_vars(BlobAges(d))
    /\ \A s \in Sweepers :
        /\ WF_vars(SweepList(s)) /\ SF_vars(SweepPurge(s))
        /\ \A d \in Digests : SF_vars(SweepDelete(s, d))

FairSpec == Spec /\ Fairness

-----------------------------------------------------------------------------
(* Properties. *)

Steps == {"new", "staging", "validating", "reserving", "promoting", "recording", "replaying",
          "done", "dead"}

Answers ==
    [how : {"none", "created", "replayed", "rejected", "conflict", "in_progress", "failed"},
     batch : SUBSET Requests]

Jobs == [kind : {"batch", "import"}, key : Keys \cup {NoKey}, images : Seq(Digests)]

TypeOK ==
    /\ pc \in [Requests -> Steps]
    /\ job \in [Requests -> Jobs]
    /\ \A r \in Requests : Len(job[r].images) <= MaxImages
    /\ place \in [Requests -> 1 .. MaxImages]
    /\ temp \in [Requests -> [1 .. MaxImages -> Ages]]
    /\ wrote \in [Requests -> SUBSET Digests]
    /\ answer \in [Requests -> Answers]
    /\ batch \in [Requests -> {"none", "reserved", "committed"}]
    /\ blob \in [Digests -> Ages]
    /\ row \in [Digests -> {"none", "present", "absent"}]
    /\ orphans \in [Sweepers -> SUBSET Digests]
    /\ sweeping \in [Sweepers -> BOOLEAN]
    /\ adopted \subseteq Digests

\* AssetService.read of an original.
Served(d) ==
    CASE row[d] = "none" -> "not_found"
      [] row[d] = "absent" -> "gone"
      [] OTHER -> IF blob[d] = "none" THEN "gone" ELSE "bytes"

\* Files land before rows (create_batch, step 3), the sweep spares what is young
\* and what has a row: so every image a row vouches for is there, whoever
\* crashed or failed, and so is every image of a batch, unless the request took
\* over a file that was lying there unreferenced or listed by a sweep, or a row
\* without bytes.
BytesOutliveTheSweep ==
    \A d \in Digests :
        (row[d] = "present" \/ \E r \in Requests : batch[r] = "committed" /\ d \in ImagesOf(r))
            => Served(d) = "bytes" \/ d \in adopted \/ row[d] = "absent"

\* Under one key there is one batch, and whoever is answered with a batch is
\* answered with that one, whole, and for the images it sent: duplicates that
\* race, that come late, or that send something else.
OneAnswerPerKey ==
    \A r \in Requests : \A b \in answer[r].batch :
        /\ job[r].kind = "batch" => batch[b] = "committed"
        /\ Fingerprint(b) = Fingerprint(r)
        /\ \A d \in ImagesOf(r) : row[d] # "none"
        /\ \A q \in Requests : \A c \in answer[q].batch :
            job[q].key = job[r].key /\ job[q].key # NoKey => b = c

\* A request that was answered leaves nothing in the staging area ("leaves no
\* files behind for the orphan sweep"): refused, in conflict, replayed, created,
\* or failed after its reservation.  Only a stage that broke, a reservation the
\* database did not take and a write of the import that failed leave a file.
AnsweredLeavesNoFiles ==
    \A r \in Requests :
        /\ pc[r] = "done"
        /\ answer[r].how = "failed" => batch[r] # "none"
        => \A n \in 1 .. MaxImages : temp[r][n] = "none"

\* What requests leave behind when they die is collected in the end: no staged
\* file and no file without a row stays for good.
LeftoversAreCollected ==
    /\ \A r \in Requests : \A n \in 1 .. MaxImages :
          temp[r][n] # "none" ~> temp[r][n] = "none"
    /\ \A d \in Digests : blob[d] # "none" ~> (blob[d] = "none" \/ row[d] # "none")

\* How many images of a request under way have been put in place, and which.
InPlace(r) ==
    CASE pc[r] = "recording" -> Len(job[r].images)
      [] pc[r] = "promoting" \/ (pc[r] = "staging" /\ job[r].kind = "import") -> place[r] - 1
      [] OTHER -> 0

Promoted(r) == {job[r].images[n] : n \in 1 .. InPlace(r)}

\* Requests take their images in turn.
ImagesInTurn ==
    \A r \in Requests :
        /\ pc[r] = "new" => batch[r] = "none" /\ job[r] = NoJob
        /\ pc[r] # "new" => Len(job[r].images) > 0
        /\ pc[r] \in {"staging", "promoting"} => place[r] <= Len(job[r].images)

\* A file waits for its row young, and no sweep has it.
PromotedAreSafe ==
    \A r \in Requests : \A d \in Promoted(r) :
        \/ d \in adopted \/ row[d] = "present"
        \/ d \in wrote[r] /\ blob[d] = "young" /\ ~Doomed(d)

\* A file with a row is there to stay.
RowsAreSafe ==
    \A d \in Digests : row[d] = "present" => d \in adopted \/ (blob[d] # "none" /\ ~Doomed(d))

CommittedHaveRows ==
    \A r \in Requests : batch[r] = "committed" => \A d \in ImagesOf(r) : row[d] # "none"

\* The inductive invariant behind BytesOutliveTheSweep.
IngestionInv == TypeOK /\ ImagesInTurn /\ PromotedAreSafe /\ RowsAreSafe /\ CommittedHaveRows
=============================================================================
