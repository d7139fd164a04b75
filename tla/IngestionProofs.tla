--------------------------- MODULE IngestionProofs ---------------------------
(***************************************************************************)
(* What holds of Ingestion for any number of requests, images and sweeps:  *)
(* the inductive invariant, and from it that the sweep spares every file a *)
(* row vouches for; that a key has one answer; that whoever is answered    *)
(* leaves no staged file.                                                  *)
(***************************************************************************)
EXTENDS Ingestion, FiniteSetTheorems, TLAPS

-----------------------------------------------------------------------------
(* Types. *)

LEMMA UploadsAreSeqs ==
    ASSUME NEW images \in Uploads
    PROVE  images \in Seq(Digests) /\ Len(images) \in 1 .. MaxImages
  <1>1. PICK n \in 1 .. MaxImages : images \in [1 .. n -> Digests]
    BY DEF Uploads
  <1>2. n \in Nat /\ n <= MaxImages /\ n >= 1
    BY IngestionAssumption
  <1>3. images \in Seq(Digests) /\ Len(images) = n
    BY <1>1, <1>2
  <1> QED
    BY <1>2, <1>3

LEMMA TypeInit == Init => TypeOK
  <1> SUFFICES ASSUME Init PROVE TypeOK
    OBVIOUS
  <1>1. /\ pc \in [Requests -> Steps] /\ place \in [Requests -> 1 .. MaxImages]
        /\ wrote \in [Requests -> SUBSET Digests]
        /\ batch \in [Requests -> {"none", "reserved", "committed"}]
        /\ blob \in [Digests -> Ages] /\ row \in [Digests -> {"none", "present", "absent"}]
        /\ orphans \in [Sweepers -> SUBSET Digests] /\ adopted \subseteq Digests
    BY IngestionAssumption DEF Init, Ages, Steps
  <1>2. sweeping \in [Sweepers -> BOOLEAN]
    BY DEF Init
  <1>3. temp \in [Requests -> [1 .. MaxImages -> Ages]]
    BY DEF Init, Ages
  <1>4. job \in [Requests -> Jobs] /\ \A r \in Requests : Len(job[r].images) <= MaxImages
    BY IngestionAssumption DEF Init, NoJob, Jobs
  <1>5. answer \in [Requests -> Answers]
    BY DEF Init, Unanswered, Answers
  <1> QED
    BY <1>1, <1>2, <1>3, <1>4, <1>5 DEF TypeOK

\* A request's step to another place in its program.
LEMMA GotoIsTyped ==
    ASSUME TypeOK, NEW r \in Requests, NEW where \in Steps, NEW n \in 1 .. MaxImages,
           Goto(r, where, n)
    PROVE  /\ pc' \in [Requests -> Steps] /\ place' \in [Requests -> 1 .. MaxImages]
           /\ pc'[r] = where /\ place'[r] = n
           /\ \A q \in Requests : q # r => pc'[q] = pc[q] /\ place'[q] = place[q]
  BY DEF TypeOK, Goto, Steps

LEMMA DiscardedIsTyped ==
    ASSUME TypeOK, NEW r \in Requests
    PROVE  Discarded(r) \in [Requests -> [1 .. MaxImages -> Ages]]
  BY DEF TypeOK, Discarded, Ages

LEMMA AnswerIsTyped ==
    ASSUME TypeOK, NEW r \in Requests,
           NEW how \in {"replayed", "rejected", "conflict", "in_progress", "failed", "created"},
           NEW of \in SUBSET Requests, NEW files \in [Requests -> [1 .. MaxImages -> Ages]],
           Answer(r, how, of, files)
    PROVE  /\ pc' \in [Requests -> Steps] /\ place' \in [Requests -> 1 .. MaxImages]
           /\ answer' \in [Requests -> Answers] /\ temp' \in [Requests -> [1 .. MaxImages -> Ages]]
           /\ pc'[r] = "done" /\ \A q \in Requests : q # r => pc'[q] = pc[q] /\ place'[q] = place[q]
           /\ UNCHANGED <<job, wrote>>
  <1>1. Goto(r, "done", 1) /\ answer' = [answer EXCEPT ![r] = [how |-> how, batch |-> of]]
        /\ temp' = files /\ UNCHANGED <<job, wrote>>
    BY DEF Answer
  <1>2. "done" \in Steps /\ 1 \in 1 .. MaxImages
    BY IngestionAssumption DEF Steps
  <1>3. [how |-> how, batch |-> of] \in Answers
    BY DEF Answers
  <1>4. answer' \in [Requests -> Answers]
    BY <1>1, <1>3 DEF TypeOK
  <1> QED
    BY <1>1, <1>2, <1>4, GotoIsTyped

-----------------------------------------------------------------------------
(* The steps of requests, and what the invariant needs to know of them. *)

\* A step that puts no image in place and records none.
Quiet(r) ==
    \/ Stage(r) \/ StageFails(r) \/ Validate(r) \/ Reserve(r) \/ ReserveFails(r)
    \/ RecordFails(r) \/ Replay(r) \/ Die(r)

LEMMA TempIsTyped ==
    ASSUME TypeOK, NEW r \in Requests, NEW n \in 1 .. MaxImages, NEW age \in Ages
    PROVE  /\ [temp EXCEPT ![r][n] = age] \in [Requests -> [1 .. MaxImages -> Ages]]
           /\ [Discarded(r) EXCEPT ![r][n] = age] \in [Requests -> [1 .. MaxImages -> Ages]]
  BY DiscardedIsTyped DEF TypeOK

LEMMA InPlaceIs ==
    ASSUME TypeOK, ImagesInTurn, NEW r \in Requests
    PROVE  /\ InPlace(r) \in Nat /\ InPlace(r) <= Len(job[r].images)
           /\ pc[r] = "recording" => InPlace(r) = Len(job[r].images)
           /\ pc[r] = "promoting" => InPlace(r) = place[r] - 1
           /\ pc[r] = "staging" /\ job[r].kind = "import" => InPlace(r) = place[r] - 1
           /\ pc[r] = "staging" /\ job[r].kind # "import" => InPlace(r) = 0
           /\ pc[r] \notin {"recording", "promoting", "staging"} => InPlace(r) = 0
  <1>1. Len(job[r].images) \in Nat /\ place[r] \in Nat /\ place[r] >= 1
    BY IngestionAssumption DEF TypeOK, Jobs
  <1>2. CASE pc[r] = "recording"
    BY <1>1, <1>2 DEF InPlace
  <1>3. CASE pc[r] = "promoting" \/ (pc[r] = "staging" /\ job[r].kind = "import")
    BY <1>1, <1>3 DEF InPlace, ImagesInTurn
  <1>4. CASE pc[r] \notin {"recording", "promoting"} /\ ~(pc[r] = "staging" /\ job[r].kind = "import")
    BY <1>1, <1>4 DEF InPlace
  <1> QED
    BY <1>2, <1>3, <1>4

LEMMA InPlaceIsNext ==
    ASSUME TypeOK', ImagesInTurn', NEW r \in Requests
    PROVE  InPlace(r)' \in Nat
  <1>1. Len(job'[r].images) \in Nat /\ place'[r] \in Nat /\ place'[r] >= 1
    BY IngestionAssumption DEF TypeOK, Jobs
  <1> QED
    BY <1>1 DEF InPlace

LEMMA InPlaceBecomes ==
    /\ \A r \in Requests : pc'[r] = "promoting" => InPlace(r)' = place'[r] - 1
    /\ \A r \in Requests : pc'[r] = "recording" => InPlace(r)' = Len(job'[r].images)
    /\ \A r \in Requests : pc'[r] = "staging" /\ job'[r].kind = "import" => InPlace(r)' = place'[r] - 1
    /\ \A r \in Requests : pc'[r] = "staging" /\ job'[r].kind # "import" => InPlace(r)' = 0
    /\ \A r \in Requests : pc'[r] \notin {"recording", "promoting", "staging"} => InPlace(r)' = 0
  BY DEF InPlace

\* What a quiet step of r leaves behind.
Quietly(r) ==
    /\ pc' \in [Requests -> Steps] /\ place' \in [Requests -> 1 .. MaxImages]
    /\ temp' \in [Requests -> [1 .. MaxImages -> Ages]]
    /\ answer' \in [Requests -> Answers]
    /\ batch' \in [Requests -> {"none", "reserved", "committed"}]
    /\ \A q \in Requests : batch'[q] = "committed" => batch[q] = "committed"
    /\ UNCHANGED <<job, wrote, blob, row, orphans, sweeping, adopted>>
    /\ \A q \in Requests : q # r => pc'[q] = pc[q] /\ place'[q] = place[q] /\ batch'[q] = batch[q]
    /\ pc[r] # "new" /\ pc'[r] # "new"
    /\ pc'[r] \in {"staging", "promoting"} => place'[r] <= Len(job[r].images)
    /\ InPlace(r)' <= InPlace(r)

LEMMA GotoQuietly ==
    ASSUME TypeOK, ImagesInTurn, NEW r \in Requests,
           NEW where \in Steps \ {"new"}, NEW n \in 1 .. MaxImages, Goto(r, where, n),
           UNCHANGED <<job, wrote, blob, row, orphans, sweeping, adopted>>,
           pc[r] # "new",
           where \in {"staging", "promoting"} => n <= Len(job[r].images),
           \/ where = "promoting" /\ n - 1 <= InPlace(r)
           \/ where = "staging" /\ job[r].kind # "import"
           \/ where \notin {"staging", "promoting", "recording"},
           temp' \in [Requests -> [1 .. MaxImages -> Ages]],
           answer' \in [Requests -> Answers],
           batch' = batch \/ batch' = [batch EXCEPT ![r] = "reserved"]
    PROVE  Quietly(r)
  <1>1. /\ pc' \in [Requests -> Steps] /\ place' \in [Requests -> 1 .. MaxImages]
        /\ pc'[r] = where /\ place'[r] = n
        /\ \A q \in Requests : q # r => pc'[q] = pc[q] /\ place'[q] = place[q]
    BY GotoIsTyped
  <1>2. /\ batch' \in [Requests -> {"none", "reserved", "committed"}]
        /\ \A q \in Requests : batch'[q] = "committed" => batch[q] = "committed"
        /\ \A q \in Requests : q # r => batch'[q] = batch[q]
    BY DEF TypeOK
  <1>3. InPlace(r) \in Nat
    BY InPlaceIs
  <1>4. InPlace(r)' <= InPlace(r)
    <2>1. CASE where = "promoting" /\ n - 1 <= InPlace(r)
      <3>1. InPlace(r)' = n - 1
        BY <1>1, <2>1, InPlaceBecomes
      <3> QED
        BY <2>1, <3>1
    <2>2. CASE where = "staging" /\ job[r].kind # "import"
      <3>1. InPlace(r)' = 0
        BY <1>1, <2>2, InPlaceBecomes
      <3> QED
        BY <1>3, <3>1
    <2>3. CASE where \notin {"staging", "promoting", "recording"}
      <3>1. InPlace(r)' = 0
        BY <1>1, <2>3, InPlaceBecomes
      <3> QED
        BY <1>3, <3>1
    <2> QED
      BY <2>1, <2>2, <2>3
  <1> QED
    BY <1>1, <1>2, <1>4 DEF Quietly

LEMMA AnswerQuietly ==
    ASSUME TypeOK, ImagesInTurn, NEW r \in Requests,
           NEW how \in {"replayed", "rejected", "conflict", "in_progress", "failed"},
           NEW of \in SUBSET Requests, NEW files \in [Requests -> [1 .. MaxImages -> Ages]],
           Answer(r, how, of, files), pc[r] # "new",
           UNCHANGED <<batch, blob, row, orphans, sweeping, adopted>>
    PROVE  Quietly(r)
  <1>1. /\ answer' \in [Requests -> Answers] /\ temp' \in [Requests -> [1 .. MaxImages -> Ages]]
        /\ UNCHANGED <<job, wrote>>
    BY AnswerIsTyped
  <1>2. Goto(r, "done", 1) /\ "done" \in Steps \ {"new"} /\ 1 \in 1 .. MaxImages
    BY IngestionAssumption DEF Answer, Steps
  <1> QED
    BY <1>1, <1>2, GotoQuietly

LEMMA StageQuietly ==
    ASSUME TypeOK, ImagesInTurn, NEW r \in Requests, Stage(r)
    PROVE  Quietly(r)
  <1>0. /\ Len(job[r].images) \in Nat /\ Len(job[r].images) <= MaxImages
        /\ place[r] \in 1 .. MaxImages /\ 1 \in 1 .. MaxImages /\ MaxImages \in Nat
        /\ "young" \in Ages
    BY IngestionAssumption DEF TypeOK, Jobs, Ages
  <1>1. pc[r] = "staging" /\ place[r] <= Len(job[r].images)
    BY DEF Stage, ImagesInTurn
  <1>2. /\ UNCHANGED <<job, wrote, answer, batch, blob, row, orphans, sweeping, adopted>>
        /\ temp' = [temp EXCEPT ![r][place[r]] = "young"]
    BY DEF Stage
  <1>3. temp' \in [Requests -> [1 .. MaxImages -> Ages]]
    BY <1>0, <1>2, TempIsTyped
  <1>4. answer' \in [Requests -> Answers]
    BY <1>2 DEF TypeOK
  <1>5. PICK n \in 1 .. MaxImages : n = place[r]
    BY <1>0
  <1>6. CASE job[r].kind = "import" /\ Goto(r, "promoting", n)
    <2>1. n - 1 <= InPlace(r) /\ n <= Len(job[r].images)
      BY <1>0, <1>1, <1>5, <1>6, InPlaceIs
    <2>2. "promoting" \in Steps \ {"new"}
      BY DEF Steps
    <2> QED
      BY <1>1, <1>2, <1>3, <1>4, <1>6, <2>1, <2>2, GotoQuietly
  <1>7. CASE job[r].kind = "batch" /\ ~Last(r) /\ Goto(r, "staging", n + 1)
    <2>1. n + 1 <= Len(job[r].images) /\ n + 1 \in 1 .. MaxImages
      BY <1>0, <1>1, <1>5, <1>7 DEF Last
    <2>2. PICK m \in 1 .. MaxImages : m = n + 1
      BY <2>1
    <2>3. "staging" \in Steps \ {"new"} /\ Goto(r, "staging", m) /\ m <= Len(job[r].images)
      BY <1>7, <2>1, <2>2 DEF Steps
    <2> QED
      BY <1>1, <1>2, <1>3, <1>4, <1>7, <2>3, GotoQuietly
  <1>8. CASE Goto(r, "validating", 1)
    <2>1. "validating" \in Steps \ {"new"}
      BY DEF Steps
    <2> QED
      BY <1>0, <1>1, <1>2, <1>3, <1>4, <1>8, <2>1, GotoQuietly
  <1> QED
    BY <1>5, <1>6, <1>7, <1>8 DEF Stage

LEMMA QuietSteps ==
    ASSUME TypeOK, ImagesInTurn, NEW r \in Requests, Quiet(r)
    PROVE  Quietly(r)
  <1>0. /\ place[r] \in 1 .. MaxImages /\ 1 \in 1 .. MaxImages
        /\ "young" \in Ages
        /\ temp \in [Requests -> [1 .. MaxImages -> Ages]]
        /\ Discarded(r) \in [Requests -> [1 .. MaxImages -> Ages]]
        /\ answer \in [Requests -> Answers]
    BY IngestionAssumption, DiscardedIsTyped DEF TypeOK, Ages
  <1>1. CASE Stage(r)
    BY <1>1, StageQuietly
  <1>2. CASE StageFails(r)
    <2>1. [Discarded(r) EXCEPT ![r][place[r]] = "young"] \in [Requests -> [1 .. MaxImages -> Ages]]
      BY <1>0, TempIsTyped
    <2>2. PICK files \in [Requests -> [1 .. MaxImages -> Ages]] :
            files = [Discarded(r) EXCEPT ![r][place[r]] = "young"]
      BY <2>1
    <2>3. Answer(r, "failed", {}, files) /\ pc[r] # "new"
          /\ UNCHANGED <<batch, blob, row, orphans, sweeping, adopted>>
      BY <1>2, <2>2 DEF StageFails
    <2> QED
      BY <2>3, AnswerQuietly
  <1>3. CASE Validate(r)
    <2>1. pc[r] = "validating" /\ UNCHANGED <<batch, blob, row, orphans, sweeping, adopted>>
      BY <1>3 DEF Validate
    <2>2. CASE Goto(r, "reserving", 1) /\ UNCHANGED <<job, temp, wrote, answer>>
      <3>1. "reserving" \in Steps \ {"new"}
        BY DEF Steps
      <3> QED
        BY <1>0, <2>1, <2>2, <3>1, GotoQuietly
    <2>3. CASE Answer(r, "rejected", {}, Discarded(r))
      <3>1. PICK files \in [Requests -> [1 .. MaxImages -> Ages]] : files = Discarded(r)
        BY <1>0
      <3>2. Answer(r, "rejected", {}, files)
        BY <2>3, <3>1
      <3> QED
        BY <2>1, <3>2, AnswerQuietly
    <2> QED
      BY <1>3, <2>2, <2>3 DEF Validate
  <1>4. CASE Reserve(r)
    <2>1. /\ pc[r] = "reserving"
          /\ UNCHANGED <<job, wrote, answer, blob, row, orphans, sweeping, adopted>>
      BY <1>4 DEF Reserve
    <2>2. CASE Goto(r, "replaying", 1) /\ temp' = Discarded(r) /\ UNCHANGED batch
      <3>1. "replaying" \in Steps \ {"new"}
        BY DEF Steps
      <3> QED
        BY <1>0, <2>1, <2>2, <3>1, GotoQuietly
    <2>3. CASE batch' = [batch EXCEPT ![r] = "reserved"] /\ Goto(r, "promoting", 1) /\ UNCHANGED temp
      <3>1. Len(job[r].images) \in Nat /\ Len(job[r].images) > 0 /\ InPlace(r) \in Nat
        BY <2>1, InPlaceIs DEF TypeOK, Jobs, ImagesInTurn
      <3>2. 1 <= Len(job[r].images) /\ 1 - 1 <= InPlace(r) /\ "promoting" \in Steps \ {"new"}
        BY <3>1 DEF Steps
      <3> QED
        BY <1>0, <2>1, <2>3, <3>2, GotoQuietly
    <2> QED
      BY <1>4, <2>2, <2>3 DEF Reserve
  <1>5. CASE ReserveFails(r)
    BY <1>0, <1>5, AnswerQuietly DEF ReserveFails
  <1>6. CASE RecordFails(r)
    <2>1. PICK files \in [Requests -> [1 .. MaxImages -> Ages]] : Answer(r, "failed", {}, files)
      BY <1>0, <1>6 DEF RecordFails
    <2>2. pc[r] # "new" /\ UNCHANGED <<batch, blob, row, orphans, sweeping, adopted>>
      BY <1>6 DEF RecordFails
    <2> QED
      BY <2>1, <2>2, AnswerQuietly
  <1>7. CASE Replay(r)
    <2>1. PICK how \in {"conflict", "replayed", "in_progress"}, of \in SUBSET Requests :
            Answer(r, how, of, temp)
      BY <1>7 DEF Replay, Holders
    <2>2. pc[r] # "new" /\ UNCHANGED <<batch, blob, row, orphans, sweeping, adopted>>
      BY <1>7 DEF Replay
    <2> QED
      BY <1>0, <2>1, <2>2, AnswerQuietly
  <1>8. CASE Die(r)
    <2>1. "dead" \in Steps \ {"new"}
      BY DEF Steps
    <2>2. pc[r] # "new" /\ Goto(r, "dead", 1)
          /\ UNCHANGED <<job, temp, wrote, answer, batch, blob, row, orphans, sweeping, adopted>>
      BY <1>8 DEF Die, Active
    <2> QED
      BY <1>0, <2>1, <2>2, GotoQuietly
  <1> QED
    BY <1>1, <1>2, <1>3, <1>4, <1>5, <1>6, <1>7, <1>8 DEF Quiet

\* What Begin and Promote leave behind.
LEMMA BeginIs ==
    ASSUME TypeOK, ImagesInTurn, NEW r \in Requests, NEW kind \in {"batch", "import"},
           NEW key \in Keys \cup {NoKey}, NEW images \in Uploads,
           Begin(r, kind, key, images)
    PROVE  /\ TypeOK' /\ ImagesInTurn'
           /\ \A q \in Requests : q # r => pc'[q] = pc[q] /\ place'[q] = place[q] /\ job'[q] = job[q]
           /\ InPlace(r)' = 0 /\ batch[r] = "none"
           /\ UNCHANGED <<temp, wrote, answer, batch, blob, row, orphans, sweeping, adopted>>
  <1>1. images \in Seq(Digests) /\ Len(images) \in 1 .. MaxImages /\ MaxImages \in Nat
    BY UploadsAreSeqs, IngestionAssumption
  <1>2. PICK asked : asked = [kind |-> kind, key |-> key, images |-> images]
    OBVIOUS
  <1>3. asked \in Jobs /\ asked.images = images /\ asked.kind = kind
    BY <1>1, <1>2 DEF Jobs
  <1>4. /\ job' = [job EXCEPT ![r] = asked] /\ Goto(r, "staging", 1)
        /\ pc[r] = "new"
        /\ UNCHANGED <<temp, wrote, answer, batch, blob, row, orphans, sweeping, adopted>>
    BY <1>2 DEF Begin
  <1>5. "staging" \in Steps /\ 1 \in 1 .. MaxImages
    BY <1>1 DEF Steps
  <1>6. /\ pc' \in [Requests -> Steps] /\ place' \in [Requests -> 1 .. MaxImages]
        /\ pc'[r] = "staging" /\ place'[r] = 1
        /\ \A q \in Requests : q # r => pc'[q] = pc[q] /\ place'[q] = place[q]
    BY <1>4, <1>5, GotoIsTyped
  <1>7. /\ job' \in [Requests -> Jobs] /\ job'[r] = asked
        /\ \A q \in Requests : q # r => job'[q] = job[q]
    BY <1>3, <1>4 DEF TypeOK
  <1>8. \A q \in Requests : Len(job'[q].images) <= MaxImages
    <2>1. Len(job'[r].images) <= MaxImages
      BY <1>1, <1>3, <1>7
    <2>2. \A q \in Requests : q # r => Len(job'[q].images) <= MaxImages
      BY <1>7 DEF TypeOK
    <2> QED
      BY <2>1, <2>2
  <1>9. TypeOK'
    BY <1>4, <1>6, <1>7, <1>8 DEF TypeOK
  <1>10. ImagesInTurn'
    <2>1. Len(job'[r].images) > 0 /\ place'[r] <= Len(job'[r].images)
      BY <1>1, <1>3, <1>6, <1>7
    <2> QED
      BY <1>4, <1>6, <1>7, <2>1 DEF ImagesInTurn
  <1>11. InPlace(r)' = 0
    <2>1. place'[r] - 1 = 0
      BY <1>6
    <2> QED
      BY <1>6, <2>1, InPlaceBecomes
  <1> QED
    BY <1>4, <1>6, <1>7, <1>9, <1>10, <1>11 DEF ImagesInTurn

LEMMA PromoteIs ==
    ASSUME TypeOK, ImagesInTurn, NEW r \in Requests, Promote(r)
    PROVE  /\ TypeOK' /\ ImagesInTurn'
           /\ \A q \in Requests : q # r => pc'[q] = pc[q] /\ place'[q] = place[q]
           /\ InPlace(r)' = InPlace(r) + 1
           /\ InPlace(r) + 1 = place[r] /\ job[r].images[place[r]] \in Digests
           /\ UNCHANGED <<job, answer, batch, row, orphans, sweeping>>
  <1> DEFINE d == job[r].images[place[r]]
  <1>0. /\ Len(job[r].images) \in Nat /\ Len(job[r].images) <= MaxImages
        /\ place[r] \in 1 .. MaxImages /\ 1 \in 1 .. MaxImages /\ MaxImages \in Nat
        /\ job[r].images \in Seq(Digests) /\ "young" \in Ages /\ "none" \in Ages
    BY IngestionAssumption DEF TypeOK, Jobs, Ages
  <1>1. pc[r] = "promoting" /\ place[r] <= Len(job[r].images)
    BY DEF Promote, ImagesInTurn
  <1>2. d \in Digests
    BY <1>0, <1>1
  <1>3. InPlace(r) = place[r] - 1
    BY <1>1, InPlaceIs
  <1>4. /\ temp' = [temp EXCEPT ![r][place[r]] = "none"]
        /\ UNCHANGED <<job, answer, batch, row, orphans, sweeping>>
    BY DEF Promote
  <1>5. temp' \in [Requests -> [1 .. MaxImages -> Ages]]
    BY <1>0, <1>4, TempIsTyped
  <1>6. blob' \in [Digests -> Ages] /\ wrote' \in [Requests -> SUBSET Digests] /\ adopted' \subseteq Digests
    <2>1. PICK e \in Digests : e = d
      BY <1>2
    <2>2. CASE blob[e] # "none" /\ UNCHANGED <<blob, wrote>>
      BY <2>1, <2>2, <1>2 DEF Promote, TypeOK
    <2>3. CASE blob' = [blob EXCEPT ![e] = "young"] /\ wrote' = [wrote EXCEPT ![r] = @ \cup {e}]
      <3>1. blob' \in [Digests -> Ages]
        BY <1>0, <2>3 DEF TypeOK
      <3>2. wrote' \in [Requests -> SUBSET Digests]
        BY <2>3 DEF TypeOK
      <3>3. adopted' \subseteq Digests
        BY <1>2 DEF Promote, TypeOK
      <3> QED
        BY <3>1, <3>2, <3>3
    <2> QED
      BY <2>1, <2>2, <2>3 DEF Promote
  <1>7. PICK n \in Nat : n = place[r] + 1
    BY <1>0
  <1> DEFINE Moved ==
        /\ pc' \in [Requests -> Steps] /\ place' \in [Requests -> 1 .. MaxImages]
        /\ \A q \in Requests : q # r => pc'[q] = pc[q] /\ place'[q] = place[q]
        /\ pc'[r] # "new" /\ (pc'[r] \in {"staging", "promoting"} => place'[r] <= Len(job[r].images))
        /\ InPlace(r)' = place[r]
  <1>8. Moved
    <2>1. CASE Last(r) /\ Goto(r, "recording", 1)
      <3>1. "recording" \in Steps
        BY DEF Steps
      <3>2. /\ pc' \in [Requests -> Steps] /\ place' \in [Requests -> 1 .. MaxImages]
            /\ pc'[r] = "recording"
            /\ \A q \in Requests : q # r => pc'[q] = pc[q] /\ place'[q] = place[q]
        BY <1>0, <2>1, <3>1, GotoIsTyped
      <3>3. InPlace(r)' = Len(job[r].images)
        BY <1>4, <3>2, InPlaceBecomes
      <3> QED
        BY <2>1, <3>2, <3>3 DEF Last
    <2>2. CASE ~Last(r) /\ job[r].kind = "import" /\ Goto(r, "staging", n)
      <3>1. "staging" \in Steps /\ n \in 1 .. MaxImages /\ n <= Len(job[r].images)
        BY <1>0, <1>1, <1>7, <2>2 DEF Steps, Last
      <3>2. /\ pc' \in [Requests -> Steps] /\ place' \in [Requests -> 1 .. MaxImages]
            /\ pc'[r] = "staging" /\ place'[r] = n
            /\ \A q \in Requests : q # r => pc'[q] = pc[q] /\ place'[q] = place[q]
        BY <2>2, <3>1, GotoIsTyped
      <3>3. InPlace(r)' = n - 1
        BY <1>4, <2>2, <3>2, InPlaceBecomes
      <3>4. InPlace(r)' = place[r]
        BY <1>0, <1>7, <3>3
      <3> QED
        BY <3>1, <3>2, <3>4
    <2>3. CASE ~Last(r) /\ Goto(r, "promoting", n)
      <3>1. "promoting" \in Steps /\ n \in 1 .. MaxImages /\ n <= Len(job[r].images)
        BY <1>0, <1>1, <1>7, <2>3 DEF Steps, Last
      <3>2. /\ pc' \in [Requests -> Steps] /\ place' \in [Requests -> 1 .. MaxImages]
            /\ pc'[r] = "promoting" /\ place'[r] = n
            /\ \A q \in Requests : q # r => pc'[q] = pc[q] /\ place'[q] = place[q]
        BY <2>3, <3>1, GotoIsTyped
      <3>3. InPlace(r)' = n - 1
        BY <3>2, InPlaceBecomes
      <3>4. InPlace(r)' = place[r]
        BY <1>0, <1>7, <3>3
      <3> QED
        BY <3>1, <3>2, <3>4
    <2> QED
      BY <1>7, <2>1, <2>2, <2>3 DEF Promote
  <1> HIDE DEF d
  <1>9. TypeOK'
    BY <1>4, <1>5, <1>6, <1>8 DEF TypeOK
  <1>10. ImagesInTurn'
    BY <1>1, <1>4, <1>8 DEF ImagesInTurn
  <1>11. InPlace(r) + 1 = place[r]
    BY <1>0, <1>3
  <1> QED
    BY <1>2, <1>4, <1>8, <1>9, <1>10, <1>11 DEF d

LEMMA RecordIs ==
    ASSUME TypeOK, ImagesInTurn, NEW r \in Requests, Record(r)
    PROVE  /\ TypeOK' /\ ImagesInTurn'
           /\ \A q \in Requests : q # r => pc'[q] = pc[q] /\ place'[q] = place[q] /\ batch'[q] = batch[q]
           /\ InPlace(r) = Len(job[r].images) /\ InPlace(r)' = 0
           /\ UNCHANGED <<job, wrote, blob, orphans, sweeping, adopted>>
           /\ \A d \in Digests :
                row'[d] = IF d \in ImagesOf(r) /\ row[d] = "none" THEN "present" ELSE row[d]
  <1>1. /\ pc[r] = "recording" /\ Answer(r, "created", {r}, temp)
        /\ batch' = IF job[r].kind = "batch" THEN [batch EXCEPT ![r] = "committed"] ELSE batch
        /\ row' = [d \in Digests |-> IF d \in ImagesOf(r) /\ row[d] = "none" THEN "present" ELSE row[d]]
        /\ UNCHANGED <<blob, orphans, sweeping, adopted>>
    BY DEF Record
  <1>2. temp \in [Requests -> [1 .. MaxImages -> Ages]]
    BY DEF TypeOK
  <1>3. PICK of \in SUBSET Requests : of = {r}
    OBVIOUS
  <1>4. Answer(r, "created", of, temp)
    BY <1>1, <1>3
  <1>5. /\ pc' \in [Requests -> Steps] /\ place' \in [Requests -> 1 .. MaxImages]
        /\ answer' \in [Requests -> Answers] /\ temp' \in [Requests -> [1 .. MaxImages -> Ages]]
        /\ pc'[r] = "done" /\ \A q \in Requests : q # r => pc'[q] = pc[q] /\ place'[q] = place[q]
        /\ UNCHANGED <<job, wrote>>
    BY <1>2, <1>4, AnswerIsTyped
  <1>6. /\ batch' \in [Requests -> {"none", "reserved", "committed"}]
        /\ \A q \in Requests : q # r => batch'[q] = batch[q]
    BY <1>1 DEF TypeOK
  <1>7. row' \in [Digests -> {"none", "present", "absent"}]
    BY <1>1 DEF TypeOK
  <1>8. TypeOK'
    BY <1>1, <1>5, <1>6, <1>7 DEF TypeOK
  <1>9. ImagesInTurn'
    BY <1>1, <1>5, <1>6 DEF ImagesInTurn
  <1>10. InPlace(r)' = 0
    BY <1>5, InPlaceBecomes
  <1>11. InPlace(r) = Len(job[r].images)
    BY <1>1, InPlaceIs
  <1> QED
    BY <1>1, <1>5, <1>6, <1>8, <1>9, <1>10, <1>11

\* The steps around the requests.
Around ==
    \/ \E d \in Digests : RecordAbsent(d) \/ BlobAges(d)
    \/ \E r \in Requests : TempAges(r)
    \/ \E s \in Sweepers :
        \/ SweepList(s) \/ SweepPurge(s) \/ SweepStops(s)
        \/ \E d \in Digests : SweepDelete(s, d)

LEMMA AroundIsTyped ==
    ASSUME TypeOK, Around
    PROVE  /\ TypeOK' /\ UNCHANGED <<pc, job, place, wrote, answer, batch, adopted>>
  <1>1. CASE \E d \in Digests : RecordAbsent(d) \/ BlobAges(d)
    <2>1. PICK d \in Digests : RecordAbsent(d) \/ BlobAges(d)
      BY <1>1
    <2>2. UNCHANGED <<requestVars, batch, orphans, sweeping, adopted>>
      BY <2>1 DEF RecordAbsent, BlobAges
    <2>3. row' \in [Digests -> {"none", "present", "absent"}]
      BY <2>1 DEF RecordAbsent, BlobAges, TypeOK
    <2>4. blob' \in [Digests -> Ages]
      BY <2>1 DEF RecordAbsent, BlobAges, TypeOK, Ages
    <2> QED
      BY <2>2, <2>3, <2>4 DEF TypeOK, requestVars
  <1>2. CASE \E r \in Requests : TempAges(r)
    <2>1. PICK r \in Requests : TempAges(r)
      BY <1>2
    <2>2. UNCHANGED <<pc, job, place, wrote, answer, batch, blob, row, orphans, sweeping, adopted>>
      BY <2>1 DEF TempAges
    <2>3. temp' \in [Requests -> [1 .. MaxImages -> Ages]]
      BY <2>1 DEF TempAges, TypeOK, Ages
    <2> QED
      BY <2>2, <2>3 DEF TypeOK
  <1>3. CASE \E s \in Sweepers : SweepList(s) \/ SweepStops(s) \/ \E d \in Digests : SweepDelete(s, d)
    <2>1. PICK s \in Sweepers : SweepList(s) \/ SweepStops(s) \/ \E d \in Digests : SweepDelete(s, d)
      BY <1>3
    <2>2. UNCHANGED <<requestVars, batch, row, adopted>>
      BY <2>1 DEF SweepList, SweepStops, SweepDelete
    <2>3. blob' \in [Digests -> Ages]
      BY <2>1 DEF SweepList, SweepStops, SweepDelete, TypeOK, Ages
    <2>4. orphans' \in [Sweepers -> SUBSET Digests]
      BY <2>1 DEF SweepList, SweepStops, SweepDelete, TypeOK
    <2>5. sweeping' \in [Sweepers -> BOOLEAN]
      BY <2>1 DEF SweepList, SweepStops, SweepDelete, TypeOK
    <2> QED
      BY <2>2, <2>3, <2>4, <2>5 DEF TypeOK, requestVars
  <1>4. CASE \E s \in Sweepers : SweepPurge(s)
    <2>1. PICK s \in Sweepers : SweepPurge(s)
      BY <1>4
    <2>2. UNCHANGED <<pc, job, place, wrote, answer, batch, blob, row, orphans, adopted>>
      BY <2>1 DEF SweepPurge
    <2>3. temp' \in [Requests -> [1 .. MaxImages -> Ages]]
      BY <2>1 DEF SweepPurge, TypeOK, Ages
    <2>4. sweeping' \in [Sweepers -> BOOLEAN]
      BY <2>1 DEF SweepPurge, TypeOK
    <2> QED
      BY <2>2, <2>3, <2>4 DEF TypeOK
  <1> QED
    BY <1>1, <1>2, <1>3, <1>4 DEF Around

-----------------------------------------------------------------------------
(* Safety: what a step must leave standing. *)

\* Files with a row, and fresh files of a request under way, stay where they are
\* and on no list; nothing new is put in place, recorded or committed.
Calm ==
    /\ \A q \in Requests : Promoted(q)' \subseteq Promoted(q)
    /\ \A q \in Requests : wrote[q] \subseteq wrote'[q]
    /\ adopted \subseteq adopted'
    /\ \A d \in Digests : (row'[d] = "present") <=> (row[d] = "present")
    /\ \A d \in Digests : row[d] # "none" => row'[d] # "none"
    /\ \A d \in Digests : row[d] = "present" /\ blob[d] # "none" /\ ~Doomed(d)
                            => blob'[d] # "none" /\ ~Doomed(d)'
    /\ \A q \in Requests : \A d \in Promoted(q) :
          d \in wrote[q] /\ blob[d] = "young" /\ ~Doomed(d) => blob'[d] = "young" /\ ~Doomed(d)'
    /\ \A q \in Requests : batch'[q] = "committed" => batch[q] = "committed" /\ ImagesOf(q)' = ImagesOf(q)

Safe == PromotedAreSafe /\ RowsAreSafe /\ CommittedHaveRows

LEMMA PromotedAreDigests ==
    ASSUME TypeOK, ImagesInTurn, NEW r \in Requests
    PROVE  /\ Promoted(r) \subseteq ImagesOf(r) /\ ImagesOf(r) \subseteq Digests
           /\ InPlace(r) = Len(job[r].images) => Promoted(r) = ImagesOf(r)
  <1>1. /\ job[r].images \in Seq(Digests) /\ InPlace(r) \in Nat /\ InPlace(r) <= Len(job[r].images)
        /\ DOMAIN job[r].images = 1 .. Len(job[r].images) /\ Len(job[r].images) \in Nat
    BY InPlaceIs DEF TypeOK, Jobs
  <1>2. \A n \in 1 .. InPlace(r) : n \in DOMAIN job[r].images
    BY <1>1
  <1>3. \A n \in DOMAIN job[r].images : job[r].images[n] \in Digests
    BY <1>1
  <1> QED
    BY <1>1, <1>2, <1>3 DEF Promoted, ImagesOf

LEMMA CalmIsSafe ==
    ASSUME TypeOK, ImagesInTurn, Safe, Calm
    PROVE  Safe'
  <1>1. PromotedAreSafe'
    <2> SUFFICES ASSUME NEW q \in Requests, NEW d \in Promoted(q)'
                 PROVE  \/ d \in adopted' \/ row'[d] = "present"
                        \/ d \in wrote'[q] /\ blob'[d] = "young" /\ ~Doomed(d)'
      BY DEF PromotedAreSafe
    <2>1. d \in Promoted(q) /\ d \in Digests
      BY PromotedAreDigests DEF Calm
    <2>2. \/ d \in adopted \/ row[d] = "present"
          \/ d \in wrote[q] /\ blob[d] = "young" /\ ~Doomed(d)
      BY <2>1 DEF Safe, PromotedAreSafe
    <2> QED
      BY <2>1, <2>2 DEF Calm
  <1>2. RowsAreSafe'
    BY DEF Safe, Calm, RowsAreSafe
  <1>3. CommittedHaveRows'
    BY PromotedAreDigests DEF Safe, Calm, CommittedHaveRows
  <1> QED
    BY <1>1, <1>2, <1>3 DEF Safe

LEMMA QuietIsSafe ==
    ASSUME TypeOK, ImagesInTurn, Safe, NEW r \in Requests, Quiet(r)
    PROVE  TypeOK' /\ ImagesInTurn' /\ Safe'
  <1>1. Quietly(r)
    BY QuietSteps
  <1>2. TypeOK'
    BY <1>1 DEF Quietly, TypeOK
  <1>3. ImagesInTurn'
    <2>1. \A q \in Requests : Len(job'[q].images) = Len(job[q].images) /\ job'[q] = job[q]
      BY <1>1 DEF Quietly
    <2> QED
      BY <1>1, <2>1 DEF Quietly, ImagesInTurn
  <1>4. \A q \in Requests : q # r => InPlace(q)' = InPlace(q)
    BY <1>1 DEF Quietly, InPlace
  <1>5. \A q \in Requests : Promoted(q)' \subseteq Promoted(q)
    <2>1. /\ InPlace(r) \in Nat /\ InPlace(r)' \in Nat
          /\ InPlace(r)' <= InPlace(r) /\ job'[r] = job[r]
      BY <1>1, <1>2, <1>3, InPlaceIs, InPlaceIsNext DEF Quietly
    <2>2. Promoted(r)' \subseteq Promoted(r)
      BY <2>1 DEF Promoted
    <2>3. \A q \in Requests : q # r => Promoted(q)' = Promoted(q)
      BY <1>1, <1>4 DEF Quietly, Promoted
    <2> QED
      BY <2>2, <2>3
  <1>6. Calm
    BY <1>1, <1>5 DEF Quietly, Calm, Doomed, ImagesOf
  <1> QED
    BY <1>2, <1>3, <1>6, CalmIsSafe

LEMMA BeginIsSafe ==
    ASSUME TypeOK, ImagesInTurn, Safe, NEW r \in Requests, NEW kind \in {"batch", "import"},
           NEW key \in Keys \cup {NoKey}, NEW images \in Uploads,
           Begin(r, kind, key, images)
    PROVE  TypeOK' /\ ImagesInTurn' /\ Safe'
  <1>1. /\ TypeOK' /\ ImagesInTurn'
        /\ \A q \in Requests : q # r => pc'[q] = pc[q] /\ place'[q] = place[q] /\ job'[q] = job[q]
        /\ InPlace(r)' = 0 /\ batch[r] = "none"
        /\ UNCHANGED <<temp, wrote, answer, batch, blob, row, orphans, sweeping, adopted>>
    BY BeginIs
  <1>2. Promoted(r)' = {}
    BY <1>1 DEF Promoted
  <1>3. \A q \in Requests : q # r => Promoted(q)' = Promoted(q) /\ ImagesOf(q)' = ImagesOf(q)
    BY <1>1 DEF Promoted, InPlace, ImagesOf
  <1>4. Calm
    BY <1>1, <1>2, <1>3 DEF Calm, Doomed
  <1> QED
    BY <1>1, <1>4, CalmIsSafe

\* An image is put in place only by the request that is at it, young and on no
\* list, or it is adopted.
LEMMA PromoteIsSafe ==
    ASSUME TypeOK, ImagesInTurn, Safe, NEW r \in Requests, Promote(r)
    PROVE  TypeOK' /\ ImagesInTurn' /\ Safe'
  <1>1. /\ TypeOK' /\ ImagesInTurn'
        /\ \A q \in Requests : q # r => pc'[q] = pc[q] /\ place'[q] = place[q]
        /\ InPlace(r)' = InPlace(r) + 1
        /\ InPlace(r) + 1 = place[r] /\ job[r].images[place[r]] \in Digests
        /\ UNCHANGED <<job, answer, batch, row, orphans, sweeping>>
    BY PromoteIs
  <1>2. PICK d \in Digests : d = job[r].images[place[r]]
    BY <1>1
  <1>3. /\ \A e \in Digests : e # d => blob'[e] = blob[e]
        /\ blob[d] # "none" => blob'[d] = blob[d]
        /\ blob[d] = "none" => blob'[d] = "young" /\ d \in wrote'[r]
        /\ \A q \in Requests : wrote[q] \subseteq wrote'[q]
    <2>1. CASE blob[d] # "none"
      BY <1>2, <2>1 DEF Promote
    <2>2. CASE blob[d] = "none"
      <3>1. blob' = [blob EXCEPT ![d] = "young"] /\ wrote' = [wrote EXCEPT ![r] = @ \cup {d}]
        BY <1>2, <2>2 DEF Promote
      <3> QED
        BY <2>2, <3>1 DEF TypeOK
    <2> QED
      BY <2>1, <2>2
  <1>4. /\ adopted \subseteq adopted'
        /\ row[d] # "present" /\ (blob[d] # "none" \/ Doomed(d)) => d \in adopted'
    BY <1>2 DEF Promote
  <1>5. \A e \in Digests : Doomed(e)' <=> Doomed(e)
    BY <1>1 DEF Doomed
  <1>6. /\ \A q \in Requests : q # r => Promoted(q)' = Promoted(q)
        /\ Promoted(r)' = Promoted(r) \cup {d}
    <2>1. \A q \in Requests : q # r => InPlace(q)' = InPlace(q)
      BY <1>1 DEF InPlace
    <2>2. \A q \in Requests : q # r => Promoted(q)' = Promoted(q)
      BY <1>1, <2>1 DEF Promoted
    <2>3. InPlace(r) \in Nat
      BY InPlaceIs
    <2>4. Promoted(r)' = {job[r].images[n] : n \in 1 .. InPlace(r) + 1}
      BY <1>1 DEF Promoted
    <2>5. 1 .. InPlace(r) + 1 = (1 .. InPlace(r)) \cup {place[r]}
      BY <1>1, <2>3
    <2>6. Promoted(r)' = Promoted(r) \cup {d}
      BY <1>2, <2>4, <2>5 DEF Promoted
    <2> QED
      BY <2>2, <2>6
  <1>7. PromotedAreSafe'
    <2> SUFFICES ASSUME NEW q \in Requests, NEW e \in Promoted(q)'
                 PROVE  \/ e \in adopted' \/ row'[e] = "present"
                        \/ e \in wrote'[q] /\ blob'[e] = "young" /\ ~Doomed(e)'
      BY DEF PromotedAreSafe
    <2>1. e \in Promoted(q) \/ (q = r /\ e = d)
      BY <1>6
    <2>2. CASE e \in Promoted(q)
      <3>1. e \in Digests
        BY <2>2, PromotedAreDigests
      <3>2. \/ e \in adopted \/ row[e] = "present"
            \/ e \in wrote[q] /\ blob[e] = "young" /\ ~Doomed(e)
        BY <2>2 DEF Safe, PromotedAreSafe
      <3> QED
        BY <1>1, <1>3, <1>4, <1>5, <3>1, <3>2
    <2>3. CASE q = r /\ e = d
      BY <1>1, <1>3, <1>4, <1>5, <2>3
    <2> QED
      BY <2>1, <2>2, <2>3
  <1>8. RowsAreSafe'
    BY <1>1, <1>3, <1>4, <1>5 DEF Safe, RowsAreSafe
  <1>9. CommittedHaveRows'
    BY <1>1 DEF Safe, CommittedHaveRows, ImagesOf
  <1> QED
    BY <1>1, <1>7, <1>8, <1>9 DEF Safe

\* The rows are written for images that are all in place.
LEMMA RecordIsSafe ==
    ASSUME TypeOK, ImagesInTurn, Safe, NEW r \in Requests, Record(r)
    PROVE  TypeOK' /\ ImagesInTurn' /\ Safe'
  <1>1. /\ TypeOK' /\ ImagesInTurn'
        /\ \A q \in Requests : q # r => pc'[q] = pc[q] /\ place'[q] = place[q] /\ batch'[q] = batch[q]
        /\ InPlace(r) = Len(job[r].images) /\ InPlace(r)' = 0
        /\ UNCHANGED <<job, wrote, blob, orphans, sweeping, adopted>>
        /\ \A d \in Digests :
             row'[d] = IF d \in ImagesOf(r) /\ row[d] = "none" THEN "present" ELSE row[d]
    BY RecordIs
  <1>2. Promoted(r) = ImagesOf(r) /\ \A q \in Requests : ImagesOf(q) \subseteq Digests
    BY <1>1, PromotedAreDigests
  <1>3. \A e \in Digests : Doomed(e)' <=> Doomed(e)
    BY <1>1 DEF Doomed
  <1>4. Promoted(r)' = {} /\ \A q \in Requests : q # r => Promoted(q)' = Promoted(q)
    <2>1. Promoted(r)' = {}
      BY <1>1 DEF Promoted
    <2>2. \A q \in Requests : q # r => InPlace(q)' = InPlace(q)
      BY <1>1 DEF InPlace
    <2> QED
      BY <1>1, <2>1, <2>2 DEF Promoted
  <1>5. PromotedAreSafe'
    <2> SUFFICES ASSUME NEW q \in Requests, NEW e \in Promoted(q)'
                 PROVE  \/ e \in adopted' \/ row'[e] = "present"
                        \/ e \in wrote'[q] /\ blob'[e] = "young" /\ ~Doomed(e)'
      BY DEF PromotedAreSafe
    <2>1. e \in Promoted(q) /\ e \in Digests
      BY <1>4, PromotedAreDigests
    <2>2. \/ e \in adopted \/ row[e] = "present"
          \/ e \in wrote[q] /\ blob[e] = "young" /\ ~Doomed(e)
      BY <2>1 DEF Safe, PromotedAreSafe
    <2> QED
      BY <1>1, <1>3, <2>1, <2>2
  <1>6. RowsAreSafe'
    <2> SUFFICES ASSUME NEW e \in Digests, row'[e] = "present"
                 PROVE  e \in adopted' \/ (blob'[e] # "none" /\ ~Doomed(e)')
      BY DEF RowsAreSafe
    <2>1. CASE row[e] = "present"
      BY <1>1, <1>3, <2>1 DEF Safe, RowsAreSafe
    <2>2. CASE row[e] # "present"
      <3>1. e \in Promoted(r)
        BY <1>1, <1>2, <2>2
      <3>2. e \in adopted \/ (e \in wrote[r] /\ blob[e] = "young" /\ ~Doomed(e))
        BY <2>2, <3>1 DEF Safe, PromotedAreSafe
      <3> QED
        BY <1>1, <1>3, <3>2
    <2> QED
      BY <2>1, <2>2
  <1>7. CommittedHaveRows'
    <2> SUFFICES ASSUME NEW q \in Requests, batch'[q] = "committed", NEW e \in ImagesOf(q)'
                 PROVE  row'[e] # "none"
      BY DEF CommittedHaveRows
    <2>1. e \in ImagesOf(q) /\ e \in Digests
      BY <1>1, <1>2 DEF ImagesOf
    <2>2. CASE q = r
      BY <1>1, <2>1, <2>2
    <2>3. CASE q # r
      BY <1>1, <2>1, <2>3 DEF Safe, CommittedHaveRows
    <2> QED
      BY <2>2, <2>3
  <1> QED
    BY <1>1, <1>5, <1>6, <1>7 DEF Safe

\* The sweep lists old files without a row and deletes what it listed; a file
\* ages only when no request that wrote it is under way.
LEMMA AroundIsSafe ==
    ASSUME TypeOK, ImagesInTurn, Safe, Around
    PROVE  TypeOK' /\ ImagesInTurn' /\ Safe'
  <1>1. TypeOK' /\ UNCHANGED <<pc, job, place, wrote, answer, batch, adopted>>
    BY AroundIsTyped
  <1>2. ImagesInTurn'
    BY <1>1 DEF ImagesInTurn
  <1>3. \A q \in Requests : Promoted(q)' = Promoted(q) /\ ImagesOf(q)' = ImagesOf(q)
    BY <1>1 DEF Promoted, InPlace, ImagesOf
  <1>4. \A q \in Requests : \A d \in Promoted(q) : q \in Active /\ d \in Digests
    <2> SUFFICES ASSUME NEW q \in Requests, NEW d \in Promoted(q)
                 PROVE  q \in Active /\ d \in Digests
      OBVIOUS
    <2>1. InPlace(q) # 0
      BY DEF Promoted
    <2>2. pc[q] \in {"recording", "promoting", "staging"}
      BY <2>1, InPlaceIs
    <2> QED
      BY <2>2, PromotedAreDigests DEF Active
  <1> DEFINE Spared == /\ \A d \in Digests : (row'[d] = "present") <=> (row[d] = "present")
                       /\ \A d \in Digests : row[d] # "none" => row'[d] # "none"
                       /\ \A d \in Digests : row[d] = "present" /\ blob[d] # "none" /\ ~Doomed(d)
                             => blob'[d] # "none" /\ ~Doomed(d)'
                       /\ \A q \in Requests : \A d \in Promoted(q) :
                             d \in wrote[q] /\ blob[d] = "young" /\ ~Doomed(d)
                                 => blob'[d] = "young" /\ ~Doomed(d)'
  <1>5. Spared
    <2>1. CASE \E d \in Digests : RecordAbsent(d)
      <3>1. PICK d \in Digests : RecordAbsent(d)
        BY <2>1
      <3>2. /\ row[d] = "none" /\ row'[d] = "absent" /\ \A e \in Digests : e # d => row'[e] = row[e]
            /\ UNCHANGED <<blob, orphans>>
        BY <3>1 DEF RecordAbsent, TypeOK
      <3> QED
        BY <1>4, <3>2 DEF Doomed
    <2>2. CASE \E d \in Digests : BlobAges(d)
      <3>1. PICK d \in Digests : BlobAges(d)
        BY <2>2
      <3>2. /\ blob'[d] = "old" /\ \A e \in Digests : e # d => blob'[e] = blob[e]
            /\ \A r \in Active : d \notin wrote[r]
            /\ UNCHANGED <<row, orphans>>
        BY <3>1 DEF BlobAges, TypeOK
      <3> QED
        BY <1>4, <3>2 DEF Doomed
    <2>3. CASE \E r \in Requests : TempAges(r)
      <3>1. UNCHANGED <<blob, row, orphans>>
        BY <2>3 DEF TempAges
      <3> QED
        BY <3>1, <1>4 DEF Doomed
    <2>4. CASE \E s \in Sweepers : SweepList(s)
      <3>1. PICK s \in Sweepers : SweepList(s)
        BY <2>4
      <3>2. /\ orphans'[s] = {d \in Digests : blob[d] = "old" /\ row[d] = "none"}
            /\ \A t \in Sweepers : t # s => orphans'[t] = orphans[t]
            /\ UNCHANGED <<blob, row>>
        BY <3>1 DEF SweepList, TypeOK
      <3> QED
        BY <1>4, <3>2 DEF Doomed
    <2>5. CASE \E s \in Sweepers : SweepPurge(s)
      <3>1. UNCHANGED <<blob, row, orphans>>
        BY <2>5 DEF SweepPurge
      <3> QED
        BY <3>1, <1>4 DEF Doomed
    <2>6. CASE \E s \in Sweepers : SweepStops(s)
      <3>1. PICK s \in Sweepers : SweepStops(s)
        BY <2>6
      <3>2. /\ \A t \in Sweepers : orphans'[t] \subseteq orphans[t]
            /\ UNCHANGED <<blob, row>>
        BY <3>1 DEF SweepStops, TypeOK
      <3> QED
        BY <1>4, <3>2 DEF Doomed
    <2>7. CASE \E s \in Sweepers : \E d \in Digests : SweepDelete(s, d)
      <3>1. PICK s \in Sweepers, d \in Digests : SweepDelete(s, d)
        BY <2>7
      <3>2. /\ Doomed(d) /\ \A e \in Digests : e # d => blob'[e] = blob[e]
            /\ \A t \in Sweepers : orphans'[t] \subseteq orphans[t]
            /\ UNCHANGED row
        BY <3>1 DEF SweepDelete, TypeOK, Doomed
      <3> QED
        BY <1>4, <3>2 DEF Doomed
    <2> QED
      BY <2>1, <2>2, <2>3, <2>4, <2>5, <2>6, <2>7 DEF Around
  <1>6. Calm
    BY <1>1, <1>3, <1>5 DEF Calm
  <1> QED
    BY <1>1, <1>2, <1>6, CalmIsSafe

-----------------------------------------------------------------------------
(* One answer per key.  OneAnswerPerKey says nothing of a request that has no  *)
(* answer yet, and AnsweredLeavesNoFiles nothing of one under way: each needs  *)
(* what a request's place in the program says of its row and its files.        *)

\* What a request has is what its place in the program says: only batches are
\* reserved, and only once; only what is done has an answer.
Reservations ==
    \A r \in Requests :
        /\ job[r].kind = "import" => job[r].key = NoKey /\ batch[r] = "none"
        /\ pc[r] \in {"validating", "reserving", "replaying"} => job[r].kind = "batch"
        /\ batch[r] # "none" => pc[r] \in {"promoting", "recording", "done", "dead"}
        /\ pc[r] \in {"promoting", "recording"} /\ job[r].kind = "batch" => batch[r] # "none"
        /\ answer[r].batch # {} => pc[r] = "done"

\* The unique index on operator and key.
OneHolder ==
    \A b, c \in Requests :
        /\ batch[b] # "none" /\ batch[c] # "none"
        /\ job[b].key = job[c].key /\ job[b].key # NoKey
        => b = c

\* A batch somebody was answered with holds the key and the images asked for.
AnswersStand ==
    \A r \in Requests : \A b \in answer[r].batch :
        /\ job[r].kind = "batch" => batch[b] = "committed" /\ job[b].key = job[r].key
        /\ job[r].kind = "import" => b = r
        /\ Fingerprint(b) = Fingerprint(r)
        /\ \A d \in ImagesOf(r) : row[d] # "none"

\* Where a request may still have staged files: at most those it has not come to.
StagedAhead ==
    \A r \in Requests : \A n \in 1 .. MaxImages :
        temp[r][n] # "none" =>
            /\ pc[r] \notin {"new", "recording", "replaying"} /\ n <= Len(job[r].images)
            /\ pc[r] = "promoting" \/ (pc[r] = "staging" /\ job[r].kind = "import")
                 => n >= place[r]

Answered == Reservations /\ OneHolder /\ AnswersStand

\* A step of a request that is under way touches nobody else's.
Alone(r) ==
    /\ pc[r] \notin {"new", "done", "dead"} /\ pc'[r] # "new" /\ job' = job
    /\ \A q \in Requests : q # r => pc'[q] = pc[q] /\ batch'[q] = batch[q] /\ answer'[q] = answer[q]
    /\ \A q \in Requests : batch[q] = "committed" => batch'[q] = "committed"
    /\ \A d \in Digests : row[d] # "none" => row'[d] # "none"

LEMMA FingerprintTellsImages ==
    ASSUME TypeOK, NEW r \in Requests, NEW b \in Requests, Fingerprint(b) = Fingerprint(r)
    PROVE  ImagesOf(r) \subseteq ImagesOf(b)
  <1> SUFFICES ASSUME NEW d \in ImagesOf(r) PROVE d \in ImagesOf(b)
    OBVIOUS
  <1> DEFINE At(q) == {n \in DOMAIN job[q].images : job[q].images[n] = d}
  <1>1. \A q \in Requests : /\ job[q].images \in Seq(Digests) /\ Len(job[q].images) \in Nat
                           /\ DOMAIN job[q].images = 1 .. Len(job[q].images)
    BY DEF TypeOK, Jobs
  <1>2. d \in Digests
    BY <1>1 DEF ImagesOf
  <1>3. \A q \in Requests : IsFiniteSet(At(q))
    <2> SUFFICES ASSUME NEW q \in Requests PROVE IsFiniteSet(At(q))
      OBVIOUS
    <2>1. IsFiniteSet(1 .. Len(job[q].images))
      BY <1>1, FS_Interval
    <2> QED
      BY <1>1, <2>1, FS_Subset
  <1>4. Cardinality(At(b)) = Cardinality(At(r))
    <2>1. Fingerprint(b)[d] = Cardinality(At(b)) /\ Fingerprint(r)[d] = Cardinality(At(r))
      BY <1>2 DEF Fingerprint
    <2> QED
      BY <2>1
  <1>5. At(r) # {}
    BY DEF ImagesOf
  <1>6. At(b) # {}
    BY <1>3, <1>4, <1>5, FS_EmptySet
  <1> QED
    BY <1>6 DEF ImagesOf

\* The answers that stand are left standing, whatever r does.
LEMMA AnswersStayThere ==
    ASSUME TypeOK, Answered, NEW r \in Requests, Alone(r), NEW q \in Requests,
           answer'[q] = answer[q]
    PROVE  \A b \in answer'[q].batch :
              /\ job'[q].kind = "batch" => batch'[b] = "committed" /\ job'[b].key = job'[q].key
              /\ job'[q].kind = "import" => b = q
              /\ Fingerprint(b)' = Fingerprint(q)'
              /\ \A d \in ImagesOf(q)' : row'[d] # "none"
  <1> SUFFICES ASSUME NEW b \in answer[q].batch
               PROVE  /\ job[q].kind = "batch" => batch'[b] = "committed" /\ job[b].key = job[q].key
                      /\ job[q].kind = "import" => b = q
                      /\ Fingerprint(b)' = Fingerprint(q)'
                      /\ \A d \in ImagesOf(q)' : row'[d] # "none"
    BY DEF Alone
  <1>1. b \in Requests
    BY DEF TypeOK, Answers
  <1>2. Fingerprint(b)' = Fingerprint(b) /\ Fingerprint(q)' = Fingerprint(q)
        /\ ImagesOf(q)' = ImagesOf(q)
    BY DEF Alone, Fingerprint, ImagesOf
  <1>3. \A d \in ImagesOf(q) : d \in Digests
    BY DEF ImagesOf, TypeOK, Jobs
  <1> QED
    BY <1>1, <1>2, <1>3 DEF Alone, Answered, AnswersStand

\* A step that reserves nothing and answers with no batch.
LEMMA NothingAnswered ==
    ASSUME TypeOK, Answered, NEW r \in Requests, Alone(r), batch' = batch,
           answer'[r].batch = {},
           pc'[r] \in {"validating", "reserving", "replaying"} => job[r].kind = "batch",
           batch[r] # "none" => pc'[r] \in {"promoting", "recording", "done", "dead"},
           pc'[r] \in {"promoting", "recording"} /\ job[r].kind = "batch" => batch[r] # "none"
    PROVE  Answered'
  <1>1. Reservations'
    BY DEF Alone, Answered, Reservations
  <1>2. OneHolder'
    BY DEF Alone, Answered, OneHolder
  <1>3. AnswersStand'
    <2>1. \A q \in Requests : q # r => answer'[q] = answer[q]
      BY DEF Alone
    <2> SUFFICES ASSUME NEW q \in Requests, q # r
                 PROVE  \A b \in answer'[q].batch :
                           /\ job'[q].kind = "batch" => batch'[b] = "committed" /\ job'[b].key = job'[q].key
                           /\ job'[q].kind = "import" => b = q
                           /\ Fingerprint(b)' = Fingerprint(q)'
                           /\ \A d \in ImagesOf(q)' : row'[d] # "none"
      BY DEF AnswersStand
    <2> QED
      BY <2>1, AnswersStayThere
  <1> QED
    BY <1>1, <1>2, <1>3 DEF Answered

\* A step that answers with a batch.
LEMMA AnsweredWith ==
    ASSUME TypeOK, TypeOK', Answered, NEW r \in Requests, Alone(r), NEW b \in Requests,
           pc'[r] = "done", answer'[r].batch = {b},
           \/ batch' = batch
           \/ job[r].kind = "batch" /\ batch[r] # "none" /\ batch' = [batch EXCEPT ![r] = "committed"],
           job[r].kind = "batch" => batch'[b] = "committed" /\ job[b].key = job[r].key,
           job[r].kind = "import" => b = r,
           Fingerprint(b) = Fingerprint(r),
           \A d \in ImagesOf(r) : row'[d] # "none"
    PROVE  Answered'
  <1>0. \A q \in Requests : batch'[q] # "none" => batch[q] # "none"
    BY DEF TypeOK
  <1>1. Reservations'
    BY <1>0 DEF Alone, Answered, Reservations
  <1>2. OneHolder'
    BY <1>0 DEF Alone, Answered, OneHolder
  <1>3. AnswersStand'
    <2> SUFFICES ASSUME NEW q \in Requests
                 PROVE  \A c \in answer'[q].batch :
                           /\ job'[q].kind = "batch" => batch'[c] = "committed" /\ job'[c].key = job'[q].key
                           /\ job'[q].kind = "import" => c = q
                           /\ Fingerprint(c)' = Fingerprint(q)'
                           /\ \A d \in ImagesOf(q)' : row'[d] # "none"
      BY DEF AnswersStand
    <2>1. CASE q # r
      BY <2>1, AnswersStayThere DEF Alone
    <2>2. CASE q = r
      <3>1. Fingerprint(b)' = Fingerprint(b) /\ Fingerprint(r)' = Fingerprint(r)
            /\ ImagesOf(r)' = ImagesOf(r)
        BY DEF Alone, Fingerprint, ImagesOf
      <3> QED
        BY <2>2, <3>1 DEF Alone
    <2> QED
      BY <2>1, <2>2
  <1> QED
    BY <1>1, <1>2, <1>3 DEF Answered

\* Where a step goes, and whom it answers.
LEMMA GotoGoes ==
    ASSUME TypeOK, NEW r \in Requests, NEW where, NEW n, Goto(r, where, n)
    PROVE  pc'[r] = where /\ \A q \in Requests : q # r => pc'[q] = pc[q]
  BY DEF TypeOK, Goto

LEMMA AnswerGoes ==
    ASSUME TypeOK, NEW r \in Requests, NEW how, NEW of, NEW files, Answer(r, how, of, files)
    PROVE  /\ pc'[r] = "done" /\ \A q \in Requests : q # r => pc'[q] = pc[q] /\ answer'[q] = answer[q]
           /\ answer'[r].how = how /\ answer'[r].batch = of /\ temp' = files /\ job' = job
  <1>1. Goto(r, "done", 1) /\ answer' = [answer EXCEPT ![r] = [how |-> how, batch |-> of]]
        /\ temp' = files /\ job' = job
    BY DEF Answer
  <1>2. pc'[r] = "done" /\ \A q \in Requests : q # r => pc'[q] = pc[q]
    BY <1>1, GotoGoes
  <1>3. answer'[r] = [how |-> how, batch |-> of] /\ \A q \in Requests : q # r => answer'[q] = answer[q]
    BY <1>1 DEF TypeOK
  <1> QED
    BY <1>1, <1>2, <1>3

LEMMA RecordAnswers ==
    ASSUME TypeOK, TypeOK', ImagesInTurn, Answered, NEW r \in Requests, Record(r)
    PROVE  Answered'
  <1>1. /\ pc[r] = "recording" /\ Answer(r, "created", {r}, temp)
        /\ batch' = IF job[r].kind = "batch" THEN [batch EXCEPT ![r] = "committed"] ELSE batch
        /\ row' = [d \in Digests |-> IF d \in ImagesOf(r) /\ row[d] = "none" THEN "present" ELSE row[d]]
    BY DEF Record
  <1>2. /\ pc'[r] = "done" /\ answer'[r].batch = {r} /\ job' = job
        /\ \A q \in Requests : q # r => pc'[q] = pc[q] /\ answer'[q] = answer[q]
    BY <1>1, AnswerGoes
  <1>3. job[r].kind = "batch" => batch[r] # "none"
    BY <1>1 DEF Answered, Reservations
  <1>4. \/ job[r].kind # "batch" /\ batch' = batch
        \/ job[r].kind = "batch" /\ batch' = [batch EXCEPT ![r] = "committed"]
    BY <1>1
  <1>5. /\ job[r].kind = "batch" => batch'[r] = "committed"
        /\ \A q \in Requests : q # r => batch'[q] = batch[q]
        /\ \A q \in Requests : batch[q] = "committed" => batch'[q] = "committed"
    BY <1>4 DEF TypeOK
  <1>6. ImagesOf(r) \subseteq Digests
    BY DEF ImagesOf, TypeOK, Jobs
  <1>7. /\ \A d \in Digests : row[d] # "none" => row'[d] # "none"
        /\ \A d \in ImagesOf(r) : row'[d] # "none"
    BY <1>1, <1>6
  <1>8. Alone(r)
    BY <1>1, <1>2, <1>5, <1>7 DEF Alone
  <1> QED
    BY <1>2, <1>3, <1>4, <1>5, <1>7, <1>8, AnsweredWith

LEMMA ReplayAnswers ==
    ASSUME TypeOK, TypeOK', CommittedHaveRows, Answered, NEW r \in Requests, Replay(r)
    PROVE  Answered'
  <1>1. pc[r] = "replaying" /\ UNCHANGED <<batch, row>>
    BY DEF Replay
  <1>2. job[r].kind = "batch" /\ batch[r] = "none"
    BY <1>1 DEF Answered, Reservations
  <1>3. CASE \E how \in {"conflict", "in_progress"} : Answer(r, how, {}, temp)
    <2>1. PICK how \in {"conflict", "in_progress"} : Answer(r, how, {}, temp)
      BY <1>3
    <2>2. /\ pc'[r] = "done" /\ answer'[r].batch = {} /\ job' = job
          /\ \A q \in Requests : q # r => pc'[q] = pc[q] /\ answer'[q] = answer[q]
      BY <2>1, AnswerGoes
    <2>3. Alone(r)
      BY <1>1, <2>2 DEF Alone
    <2> QED
      BY <1>1, <1>2, <2>2, <2>3, NothingAnswered
  <1>4. CASE \E b \in Holders(r) : /\ Fingerprint(b) = Fingerprint(r) /\ batch[b] = "committed"
                                  /\ Answer(r, "replayed", {b}, temp)
    <2>1. PICK b \in Requests : /\ batch[b] = "committed" /\ job[b].key = job[r].key
                                /\ Fingerprint(b) = Fingerprint(r)
                                /\ Answer(r, "replayed", {b}, temp)
      BY <1>4 DEF Holders
    <2>2. /\ pc'[r] = "done" /\ answer'[r].batch = {b} /\ job' = job
          /\ \A q \in Requests : q # r => pc'[q] = pc[q] /\ answer'[q] = answer[q]
      BY <2>1, AnswerGoes
    <2>3. Alone(r)
      BY <1>1, <2>2 DEF Alone
    <2>4. \A d \in ImagesOf(r) : row'[d] # "none"
      BY <1>1, <2>1, FingerprintTellsImages DEF CommittedHaveRows
    <2> QED
      BY <1>1, <1>2, <2>1, <2>2, <2>3, <2>4, AnsweredWith
  <1> QED
    BY <1>3, <1>4 DEF Replay

\* A reservation: whoever else held the key would have been found.
LEMMA ReserveAnswers ==
    ASSUME TypeOK, Answered, NEW r \in Requests, Reserve(r)
    PROVE  Answered'
  <1>1. pc[r] = "reserving" /\ UNCHANGED <<job, answer, row>>
    BY DEF Reserve
  <1>2. job[r].kind = "batch" /\ batch[r] = "none" /\ answer[r].batch = {}
    BY <1>1 DEF Answered, Reservations
  <1>3. CASE UNCHANGED batch /\ Goto(r, "replaying", 1)
    <2>1. pc'[r] = "replaying" /\ \A q \in Requests : q # r => pc'[q] = pc[q]
      BY <1>3, GotoGoes
    <2>2. Alone(r)
      BY <1>1, <1>3, <2>1 DEF Alone
    <2> QED
      BY <1>1, <1>2, <1>3, <2>1, <2>2, NothingAnswered
  <1>4. CASE /\ ~(job[r].key # NoKey /\ Holders(r) # {})
             /\ batch' = [batch EXCEPT ![r] = "reserved"] /\ Goto(r, "promoting", 1)
    <2>1. pc'[r] = "promoting" /\ \A q \in Requests : q # r => pc'[q] = pc[q]
      BY <1>4, GotoGoes
    <2>2. batch'[r] = "reserved" /\ \A q \in Requests : q # r => batch'[q] = batch[q]
      BY <1>4 DEF TypeOK
    <2>3. Alone(r)
      BY <1>1, <1>2, <2>1, <2>2 DEF Alone
    <2>4. Reservations'
      BY <1>1, <1>2, <2>1, <2>2 DEF Answered, Reservations
    <2>5. OneHolder'
      <3> SUFFICES ASSUME NEW b \in Requests, NEW c \in Requests,
                          batch'[b] # "none", batch'[c] # "none",
                          job[b].key = job[c].key, job[b].key # NoKey
                   PROVE  b = c
        BY <1>1 DEF OneHolder
      <3>1. CASE b # r /\ c # r
        BY <2>2, <3>1 DEF Answered, OneHolder
      <3>2. CASE b = r /\ c # r
        BY <1>4, <2>2, <3>2 DEF Holders
      <3>3. CASE b # r /\ c = r
        BY <1>4, <2>2, <3>3 DEF Holders
      <3> QED
        BY <3>1, <3>2, <3>3
    <2>6. AnswersStand'
      BY <1>1, <2>3, AnswersStayThere DEF AnswersStand
    <2> QED
      BY <2>4, <2>5, <2>6 DEF Answered
  <1> QED
    BY <1>3, <1>4 DEF Reserve

LEMMA StepAnswers ==
    ASSUME TypeOK, TypeOK', ImagesInTurn, CommittedHaveRows, Answered,
           NEW r \in Requests, Step(r) \/ Die(r)
    PROVE  Answered'
  <1>0. /\ pc[r] \notin {"new", "done", "dead"} => answer[r].batch = {}
        /\ pc[r] \in {"staging", "validating", "reserving"} => batch[r] = "none"
        /\ pc[r] \in {"validating", "reserving"} => job[r].kind = "batch"
        /\ job[r].kind \in {"batch", "import"}
        /\ job[r].kind = "import" => batch[r] = "none"
        /\ pc[r] \in {"promoting", "recording"} /\ job[r].kind = "batch" => batch[r] # "none"
    BY DEF Answered, Reservations, TypeOK, Jobs
  <1> DEFINE Ends == /\ pc[r] \notin {"new", "done", "dead"}
                     /\ \E how, files : Answer(r, how, {}, files)
                     /\ UNCHANGED <<batch, row>>
  <1>1. CASE Ends
    <2>1. PICK how, files : Answer(r, how, {}, files)
      BY <1>1
    <2>2. /\ pc'[r] = "done" /\ answer'[r].batch = {} /\ job' = job
          /\ \A q \in Requests : q # r => pc'[q] = pc[q] /\ answer'[q] = answer[q]
      BY <2>1, AnswerGoes
    <2>3. Alone(r)
      BY <1>1, <2>2 DEF Alone
    <2> QED
      BY <1>1, <2>2, <2>3, NothingAnswered
  <1>2. ASSUME NEW where, NEW n, Goto(r, where, n), UNCHANGED <<batch, row, job, answer>>,
               pc[r] \notin {"new", "done", "dead"}, where # "new",
               where \in {"validating", "reserving", "replaying"} => job[r].kind = "batch",
               batch[r] # "none" => where \in {"promoting", "recording", "done", "dead"},
               where \in {"promoting", "recording"} /\ job[r].kind = "batch" => batch[r] # "none"
        PROVE  Answered'
    <2>1. pc'[r] = where /\ \A q \in Requests : q # r => pc'[q] = pc[q]
      BY <1>2, GotoGoes
    <2>2. Alone(r)
      BY <1>2, <2>1 DEF Alone
    <2> QED
      BY <1>0, <1>2, <2>1, <2>2, NothingAnswered
  <1>3. CASE Stage(r)
    <2>1. pc[r] = "staging" /\ UNCHANGED <<batch, row, job, answer>>
      BY <1>3 DEF Stage
    <2>2. CASE job[r].kind = "import" /\ Goto(r, "promoting", place[r])
      BY <1>0, <1>2, <2>1, <2>2
    <2>3. CASE job[r].kind = "batch" /\ Goto(r, "staging", place[r] + 1)
      BY <1>0, <1>2, <2>1, <2>3
    <2>4. CASE job[r].kind = "batch" /\ Goto(r, "validating", 1)
      BY <1>0, <1>2, <2>1, <2>4
    <2> QED
      BY <1>0, <1>3, <2>2, <2>3, <2>4 DEF Stage
  <1>4. CASE StageFails(r) \/ ReserveFails(r) \/ RecordFails(r)
    BY <1>1, <1>4 DEF StageFails, ReserveFails, RecordFails
  <1>5. CASE Validate(r)
    <2>1. pc[r] = "validating" /\ UNCHANGED <<batch, row>>
      BY <1>5 DEF Validate
    <2>2. CASE Goto(r, "reserving", 1) /\ UNCHANGED <<job, answer>>
      BY <1>0, <1>2, <2>1, <2>2
    <2>3. CASE Answer(r, "rejected", {}, Discarded(r))
      BY <1>1, <2>1, <2>3
    <2> QED
      BY <1>5, <2>2, <2>3 DEF Validate
  <1>6. CASE Reserve(r)
    BY <1>6, ReserveAnswers
  <1>7. CASE Promote(r)
    <2>1. pc[r] = "promoting" /\ UNCHANGED <<batch, row, job, answer>>
      BY <1>7 DEF Promote
    <2>2. CASE Goto(r, "recording", 1)
      BY <1>0, <1>2, <2>1, <2>2
    <2>3. CASE job[r].kind = "import" /\ Goto(r, "staging", place[r] + 1)
      BY <1>0, <1>2, <2>1, <2>3
    <2>4. CASE Goto(r, "promoting", place[r] + 1)
      BY <1>0, <1>2, <2>1, <2>4
    <2> QED
      BY <1>7, <2>2, <2>3, <2>4 DEF Promote
  <1>8. CASE Record(r)
    BY <1>8, RecordAnswers
  <1>9. CASE Replay(r)
    BY <1>9, ReplayAnswers
  <1>10. CASE Die(r)
    <2>1. pc[r] \notin {"new", "done", "dead"} /\ Goto(r, "dead", 1)
          /\ UNCHANGED <<batch, row, job, answer>>
      BY <1>10 DEF Die, Active
    <2> QED
      BY <1>2, <2>1
  <1> QED
    BY <1>3, <1>4, <1>5, <1>6, <1>7, <1>8, <1>9, <1>10 DEF Step

\* A new request has nothing that anybody was answered with.
LEMMA BeginAnswers ==
    ASSUME TypeOK, TypeOK', ImagesInTurn, Answered, NEW r \in Requests, NEW kind \in {"batch", "import"},
           NEW key \in Keys \cup {NoKey}, NEW images \in Uploads,
           Begin(r, kind, key, images)
    PROVE  Answered'
  <1>1. /\ pc[r] = "new"
        /\ kind = "import" => key = NoKey
        /\ job' = [job EXCEPT ![r] = [kind |-> kind, key |-> key, images |-> images]]
        /\ Goto(r, "staging", 1) /\ UNCHANGED <<answer, batch, row>>
    BY DEF Begin
  <1>2. pc'[r] = "staging" /\ \A q \in Requests : q # r => pc'[q] = pc[q]
    BY <1>1, GotoGoes
  <1>3. batch[r] = "none" /\ answer[r].batch = {}
    BY <1>1 DEF ImagesInTurn, Answered, Reservations
  <1>4. /\ job'[r].kind = kind /\ job'[r].key = key
        /\ \A q \in Requests : q # r => job'[q] = job[q]
    BY <1>1 DEF TypeOK
  <1>5. Reservations'
    BY <1>1, <1>2, <1>3, <1>4 DEF Answered, Reservations
  <1>6. OneHolder'
    BY <1>1, <1>3, <1>4 DEF Answered, OneHolder
  <1>7. AnswersStand'
    <2> SUFFICES ASSUME NEW q \in Requests, NEW b \in answer[q].batch
                 PROVE  /\ job'[q].kind = "batch" => batch[b] = "committed" /\ job'[b].key = job'[q].key
                        /\ job'[q].kind = "import" => b = q
                        /\ Fingerprint(b)' = Fingerprint(q)'
                        /\ \A d \in ImagesOf(q)' : row[d] # "none"
      BY <1>1 DEF AnswersStand
    <2>1. q # r /\ b \in Requests /\ job[q].kind \in {"batch", "import"}
      BY <1>3 DEF TypeOK, Answers, Jobs
    <2>2. b # r
      BY <1>3, <2>1 DEF Answered, AnswersStand
    <2>3. job'[q] = job[q] /\ job'[b] = job[b]
      BY <1>4, <2>1, <2>2
    <2>4. Fingerprint(b)' = Fingerprint(b) /\ Fingerprint(q)' = Fingerprint(q)
          /\ ImagesOf(q)' = ImagesOf(q)
      BY <2>3 DEF Fingerprint, ImagesOf
    <2> QED
      BY <2>1, <2>3, <2>4 DEF Answered, AnswersStand
  <1> QED
    BY <1>5, <1>6, <1>7 DEF Answered

\* Rows only come, and nothing else around the requests is theirs.
LEMMA AroundAnswers ==
    ASSUME TypeOK, Answered, Around \/ UNCHANGED vars
    PROVE  Answered'
  <1>1. UNCHANGED <<pc, job, answer, batch>>
    BY AroundIsTyped DEF vars, requestVars
  <1>2. \A d \in Digests : row[d] # "none" => row'[d] # "none"
    <2>1. CASE \E d \in Digests : RecordAbsent(d)
      BY <2>1 DEF RecordAbsent, TypeOK
    <2>2. CASE row' = row
      BY <2>2
    <2> QED
      BY <2>1, <2>2 DEF Around, vars, BlobAges, TempAges, SweepList, SweepPurge, SweepStops, SweepDelete
  <1>3. Reservations' /\ OneHolder'
    BY <1>1 DEF Answered, Reservations, OneHolder
  <1>4. AnswersStand'
    <2>1. \A q \in Requests : Fingerprint(q)' = Fingerprint(q) /\ ImagesOf(q)' = ImagesOf(q)
                             /\ ImagesOf(q) \subseteq Digests
      BY <1>1 DEF Fingerprint, ImagesOf, TypeOK, Jobs
    <2>2. \A q \in Requests : answer[q].batch \subseteq Requests
      BY DEF TypeOK, Answers
    <2> SUFFICES ASSUME NEW q \in Requests, NEW b \in answer[q].batch
                 PROVE  /\ job[q].kind = "batch" => batch[b] = "committed" /\ job[b].key = job[q].key
                        /\ job[q].kind = "import" => b = q
                        /\ Fingerprint(b)' = Fingerprint(q)'
                        /\ \A d \in ImagesOf(q)' : row'[d] # "none"
      BY <1>1 DEF AnswersStand
    <2> QED
      BY <1>2, <2>1, <2>2 DEF Answered, AnswersStand
  <1> QED
    BY <1>3, <1>4 DEF Answered

-----------------------------------------------------------------------------
(* Staged files. *)

\* The files of a request, each at most as it was or the one it is writing.
Cleared(r) == \A n \in 1 .. MaxImages : temp'[r][n] = "none"

Tidy == StagedAhead /\ AnsweredLeavesNoFiles

\* A step of r that leaves none of its files.
LEMMA NoneLeft ==
    ASSUME Tidy, NEW r \in Requests, Cleared(r),
           \A q \in Requests : q # r =>
               /\ pc'[q] = pc[q] /\ place'[q] = place[q] /\ temp'[q] = temp[q] /\ job'[q] = job[q]
               /\ answer'[q] = answer[q] /\ batch'[q] = batch[q]
    PROVE  Tidy'
  BY DEF Tidy, StagedAhead, AnsweredLeavesNoFiles, Cleared

LEMMA GotoStays ==
    ASSUME TypeOK, NEW r \in Requests, NEW where, NEW n, Goto(r, where, n)
    PROVE  /\ pc'[r] = where /\ place'[r] = n
           /\ \A q \in Requests : q # r => pc'[q] = pc[q] /\ place'[q] = place[q]
  BY DEF TypeOK, Goto

LEMMA DiscardedIsNone ==
    ASSUME TypeOK, NEW r \in Requests
    PROVE  /\ \A n \in 1 .. MaxImages : Discarded(r)[r][n] = "none"
           /\ \A q \in Requests : q # r => Discarded(r)[q] = temp[q]
  BY DEF TypeOK, Discarded

\* What r's steps do to its files, and where they leave it.
LEMMA StepTidies ==
    ASSUME TypeOK, TypeOK', ImagesInTurn, Reservations, Tidy, NEW r \in Requests,
           Step(r) \/ Die(r)
    PROVE  Tidy'
  <1>0. /\ place[r] \in 1 .. MaxImages /\ MaxImages \in Nat
        /\ Len(job[r].images) \in Nat /\ job[r].kind \in {"batch", "import"}
        /\ pc[r] \in {"staging", "reserving"} => batch[r] = "none"
        /\ job[r].kind = "import" => batch[r] = "none"
        /\ pc[r] \in {"staging", "promoting"} => place[r] <= Len(job[r].images)
        /\ pc[r] \in {"validating", "reserving", "replaying"} => job[r].kind = "batch"
    <2>1. place[r] \in 1 .. MaxImages /\ MaxImages \in Nat
      BY IngestionAssumption DEF TypeOK
    <2>2. Len(job[r].images) \in Nat /\ job[r].kind \in {"batch", "import"}
      BY DEF TypeOK, Jobs
    <2>3. pc[r] \in {"staging", "promoting"} => place[r] <= Len(job[r].images)
      BY DEF ImagesInTurn
    <2> QED
      BY <2>1, <2>2, <2>3 DEF Reservations
  <1>1. pc[r] \notin {"new", "done", "dead"}
    BY DEF Step, Stage, StageFails, Validate, Reserve, ReserveFails, Promote, Record, RecordFails,
           Replay, Die, Active
  <1>2. \A n \in 1 .. MaxImages : temp[r][n] # "none" =>
            /\ pc[r] \notin {"new", "recording", "replaying"} /\ n <= Len(job[r].images)
            /\ pc[r] = "promoting" \/ (pc[r] = "staging" /\ job[r].kind = "import")
                 => n >= place[r]
    BY DEF Tidy, StagedAhead
  <1> DEFINE Others == \A q \in Requests : q # r =>
               /\ pc'[q] = pc[q] /\ place'[q] = place[q] /\ temp'[q] = temp[q] /\ job'[q] = job[q]
               /\ answer'[q] = answer[q] /\ batch'[q] = batch[q]
             Ahead == \A n \in 1 .. MaxImages : temp'[r][n] # "none" =>
               /\ pc'[r] \notin {"new", "recording", "replaying"} /\ n <= Len(job'[r].images)
               /\ pc'[r] = "promoting" \/ (pc'[r] = "staging" /\ job'[r].kind = "import")
                    => n >= place'[r]
  <1>3. ASSUME Others, Ahead,
               \/ pc'[r] # "done"
               \/ answer'[r].how = "failed" /\ batch'[r] = "none"
        PROVE  Tidy'
    BY <1>3 DEF Tidy, StagedAhead, AnsweredLeavesNoFiles
  <1>4. ASSUME NEW how, NEW of, NEW files, Answer(r, how, of, files),
               \A q \in Requests : q # r => files[q] = temp[q] /\ batch'[q] = batch[q]
        PROVE  /\ Others /\ pc'[r] = "done" /\ temp' = files /\ job' = job
               /\ answer'[r].how = how
    <2>1. Goto(r, "done", 1)
      BY <1>4 DEF Answer
    <2> QED
      BY <1>4, <2>1, AnswerGoes, GotoStays
  <1>5. CASE Stage(r)
    <2>1. /\ pc[r] = "staging" /\ temp' = [temp EXCEPT ![r][place[r]] = "young"]
          /\ UNCHANGED <<job, answer, batch>>
      BY <1>5 DEF Stage
    <2>2. /\ \A q \in Requests : q # r => temp'[q] = temp[q]
          /\ \A n \in 1 .. MaxImages : n # place[r] => temp'[r][n] = temp[r][n]
      BY <2>1 DEF TypeOK
    <2>3. CASE job[r].kind = "import" /\ Goto(r, "promoting", place[r])
      BY <1>0, <1>2, <1>3, <2>1, <2>2, <2>3, GotoStays
    <2>4. CASE job[r].kind = "batch" /\ Goto(r, "staging", place[r] + 1)
      BY <1>0, <1>2, <1>3, <2>1, <2>2, <2>4, GotoStays
    <2>5. CASE job[r].kind = "batch" /\ Goto(r, "validating", 1)
      BY <1>0, <1>2, <1>3, <2>1, <2>2, <2>5, GotoStays
    <2> QED
      BY <1>0, <1>5, <2>3, <2>4, <2>5 DEF Stage
  <1>6. CASE StageFails(r)
    <2>1. /\ pc[r] = "staging" /\ UNCHANGED batch
          /\ Answer(r, "failed", {}, [Discarded(r) EXCEPT ![r][place[r]] = "young"])
      BY <1>6 DEF StageFails
    <2> DEFINE files == [Discarded(r) EXCEPT ![r][place[r]] = "young"]
    <2>2. /\ \A q \in Requests : q # r => files[q] = temp[q]
          /\ \A n \in 1 .. MaxImages : n # place[r] => files[r][n] = "none"
      BY DiscardedIsNone, DiscardedIsTyped
    <2>3. Answer(r, "failed", {}, files)
      BY <2>1
    <2> HIDE DEF files
    <2>4. /\ Others /\ pc'[r] = "done" /\ temp' = files /\ job' = job /\ answer'[r].how = "failed"
      BY <1>4, <2>1, <2>2, <2>3
    <2> QED
      BY <1>0, <1>3, <2>1, <2>2, <2>4
  <1>7. CASE Validate(r)
    <2>1. pc[r] = "validating" /\ UNCHANGED batch
      BY <1>7 DEF Validate
    <2>2. CASE Goto(r, "reserving", 1) /\ UNCHANGED <<job, temp, answer>>
      BY <1>2, <1>3, <2>1, <2>2, GotoStays
    <2>3. CASE Answer(r, "rejected", {}, Discarded(r))
      <3>1. Others /\ temp' = Discarded(r)
        BY <1>4, <2>1, <2>3, DiscardedIsNone
      <3> QED
        BY <3>1, DiscardedIsNone, NoneLeft DEF Cleared
    <2> QED
      BY <1>7, <2>2, <2>3 DEF Validate
  <1>8. CASE Reserve(r)
    <2>1. pc[r] = "reserving" /\ UNCHANGED <<job, answer>>
      BY <1>8 DEF Reserve
    <2>2. CASE Goto(r, "replaying", 1) /\ temp' = Discarded(r) /\ UNCHANGED batch
      <3>1. Others
        BY <2>1, <2>2, GotoStays, DiscardedIsNone
      <3> QED
        BY <2>2, <3>1, DiscardedIsNone, NoneLeft DEF Cleared
    <2>3. CASE Goto(r, "promoting", 1) /\ UNCHANGED temp /\ batch' = [batch EXCEPT ![r] = "reserved"]
      <3>1. \A q \in Requests : q # r => batch'[q] = batch[q]
        BY <2>3 DEF TypeOK
      <3>2. Others /\ pc'[r] = "promoting" /\ place'[r] = 1
        BY <2>1, <2>3, <3>1, GotoStays
      <3> QED
        BY <1>0, <1>2, <1>3, <2>1, <2>3, <3>2
    <2> QED
      BY <1>8, <2>2, <2>3 DEF Reserve
  <1>9. CASE ReserveFails(r)
    <2>1. pc[r] = "reserving" /\ UNCHANGED batch /\ Answer(r, "failed", {}, temp)
      BY <1>9 DEF ReserveFails
    <2>2. Others /\ pc'[r] = "done" /\ temp' = temp /\ job' = job /\ answer'[r].how = "failed"
      BY <1>4, <2>1
    <2> QED
      BY <1>0, <1>2, <1>3, <2>1, <2>2
  <1>10. CASE Promote(r)
    <2>1. /\ pc[r] = "promoting" /\ temp' = [temp EXCEPT ![r][place[r]] = "none"]
          /\ UNCHANGED <<job, answer, batch>>
      BY <1>10 DEF Promote
    <2>2. /\ \A q \in Requests : q # r => temp'[q] = temp[q]
          /\ \A n \in 1 .. MaxImages : n # place[r] => temp'[r][n] = temp[r][n]
          /\ temp'[r][place[r]] = "none"
      BY <1>0, <2>1 DEF TypeOK
    <2>3. \A n \in 1 .. MaxImages : temp'[r][n] # "none" => n > place[r] /\ n <= Len(job[r].images)
      BY <1>0, <1>2, <2>1, <2>2
    <2>4. CASE Last(r) /\ Goto(r, "recording", 1)
      <3>1. Cleared(r)
        BY <1>0, <2>3, <2>4 DEF Last, Cleared
      <3> QED
        BY <2>1, <2>2, <2>4, <3>1, GotoStays, NoneLeft
    <2>5. CASE job[r].kind = "import" /\ Goto(r, "staging", place[r] + 1)
      BY <1>0, <1>3, <2>1, <2>2, <2>3, <2>5, GotoStays
    <2>6. CASE Goto(r, "promoting", place[r] + 1)
      BY <1>0, <1>3, <2>1, <2>2, <2>3, <2>6, GotoStays
    <2> QED
      BY <1>10, <2>4, <2>5, <2>6 DEF Promote
  <1>11. CASE Record(r)
    <2>1. /\ pc[r] = "recording" /\ Answer(r, "created", {r}, temp)
          /\ \A q \in Requests : q # r => batch'[q] = batch[q]
      BY <1>11 DEF Record, TypeOK
    <2>2. Others /\ temp' = temp
      BY <1>4, <2>1
    <2>3. Cleared(r)
      BY <1>2, <2>1, <2>2 DEF Cleared
    <2> QED
      BY <2>2, <2>3, NoneLeft
  <1>12. CASE RecordFails(r)
    <2>1. pc[r] \in {"promoting", "recording"} /\ UNCHANGED batch
          /\ Answer(r, "failed", {}, IF job[r].kind = "batch" THEN Discarded(r) ELSE temp)
      BY <1>12 DEF RecordFails
    <2>2. CASE job[r].kind = "batch"
      <3>1. Answer(r, "failed", {}, Discarded(r))
        BY <2>1, <2>2
      <3>2. Others /\ temp' = Discarded(r)
        BY <1>4, <2>1, <3>1, DiscardedIsNone
      <3> QED
        BY <3>2, DiscardedIsNone, NoneLeft DEF Cleared
    <2>3. CASE job[r].kind = "import"
      <3>1. Answer(r, "failed", {}, temp)
        BY <2>1, <2>3
      <3>2. Others /\ pc'[r] = "done" /\ temp' = temp /\ job' = job /\ answer'[r].how = "failed"
        BY <1>4, <2>1, <3>1
      <3> QED
        BY <1>0, <1>2, <1>3, <2>1, <2>3, <3>2
    <2> QED
      BY <1>0, <2>2, <2>3
  <1>13. CASE Replay(r)
    <2>1. pc[r] = "replaying" /\ UNCHANGED batch /\ \E how, of : Answer(r, how, of, temp)
      BY <1>13 DEF Replay
    <2>2. Others /\ temp' = temp
      BY <1>4, <2>1
    <2>3. Cleared(r)
      BY <1>2, <2>1, <2>2 DEF Cleared
    <2> QED
      BY <2>2, <2>3, NoneLeft
  <1>14. CASE Die(r)
    <2>1. Goto(r, "dead", 1) /\ UNCHANGED <<job, temp, answer, batch>>
      BY <1>14 DEF Die
    <2> QED
      BY <1>2, <1>3, <2>1, GotoStays
  <1> QED
    BY <1>5, <1>6, <1>7, <1>8, <1>9, <1>10, <1>11, <1>12, <1>13, <1>14 DEF Step

LEMMA BeginTidies ==
    ASSUME TypeOK, TypeOK', Tidy, NEW r \in Requests, NEW kind \in {"batch", "import"},
           NEW key \in Keys \cup {NoKey}, NEW images \in Uploads,
           Begin(r, kind, key, images)
    PROVE  Tidy'
  <1>1. /\ pc[r] = "new" /\ Goto(r, "staging", 1) /\ UNCHANGED <<temp, answer, batch>>
        /\ \A q \in Requests : q # r => job'[q] = job[q]
    BY DEF Begin, TypeOK
  <1>2. Cleared(r)
    BY <1>1 DEF Tidy, StagedAhead, Cleared
  <1> QED
    BY <1>1, <1>2, GotoStays, NoneLeft

\* Around the requests files only go, or get older.
LEMMA AroundTidies ==
    ASSUME TypeOK, Tidy, Around \/ UNCHANGED vars
    PROVE  Tidy'
  <1>1. UNCHANGED <<pc, job, place, answer, batch>>
    BY AroundIsTyped DEF vars, requestVars
  <1>2. \A q \in Requests : \A n \in 1 .. MaxImages : temp'[q][n] # "none" => temp[q][n] # "none"
    <2>1. CASE \E r \in Requests : TempAges(r)
      <3>1. PICK r \in Requests : TempAges(r)
        BY <2>1
      <3>2. temp' = [temp EXCEPT ![r] = [n \in 1 .. MaxImages |->
                                            IF @[n] = "none" THEN "none" ELSE "old"]]
        BY <3>1 DEF TempAges
      <3>3. \A n \in 1 .. MaxImages : temp'[r][n] = IF temp[r][n] = "none" THEN "none" ELSE "old"
        BY <3>2 DEF TypeOK
      <3>4. \A q \in Requests : q # r => temp'[q] = temp[q]
        BY <3>2 DEF TypeOK
      <3> QED
        BY <3>3, <3>4
    <2>2. CASE \E s \in Sweepers : SweepPurge(s)
      BY <2>2 DEF SweepPurge
    <2>3. CASE temp' = temp
      BY <2>3
    <2> QED
      BY <2>1, <2>2, <2>3
      DEF Around, vars, requestVars, RecordAbsent, BlobAges, SweepList, SweepStops, SweepDelete
  <1> QED
    BY <1>1, <1>2 DEF Tidy, StagedAhead, AnsweredLeavesNoFiles

-----------------------------------------------------------------------------
(* The theorems. *)

LEMMA InvInit == Init => IngestionInv
  <1> SUFFICES ASSUME Init PROVE IngestionInv
    OBVIOUS
  <1>1. TypeOK
    BY TypeInit
  <1>2. ImagesInTurn
    BY DEF Init, ImagesInTurn
  <1>3. PromotedAreSafe
    BY DEF Init, PromotedAreSafe, Promoted, InPlace
  <1>4. RowsAreSafe /\ CommittedHaveRows
    BY DEF Init, RowsAreSafe, CommittedHaveRows
  <1> QED
    BY <1>1, <1>2, <1>3, <1>4 DEF IngestionInv

LEMMA InvNext == IngestionInv /\ [Next]_vars => IngestionInv'
  <1> SUFFICES ASSUME TypeOK, ImagesInTurn, Safe, [Next]_vars
               PROVE  TypeOK' /\ ImagesInTurn' /\ Safe'
    BY DEF IngestionInv, Safe
  <1>1. CASE \E r \in Requests, kind \in {"batch", "import"}, key \in Keys \cup {NoKey},
                images \in Uploads : Begin(r, kind, key, images)
    BY <1>1, BeginIsSafe
  <1>2. CASE \E r \in Requests : Quiet(r)
    BY <1>2, QuietIsSafe
  <1>3. CASE \E r \in Requests : Promote(r)
    BY <1>3, PromoteIsSafe
  <1>4. CASE \E r \in Requests : Record(r)
    BY <1>4, RecordIsSafe
  <1>5. CASE Around
    BY <1>5, AroundIsSafe
  <1>6. CASE UNCHANGED vars
    <2>1. TypeOK'
      BY <1>6 DEF vars, requestVars, TypeOK
    <2>2. ImagesInTurn'
      BY <1>6 DEF vars, requestVars, ImagesInTurn
    <2>3. Calm
      BY <1>6 DEF vars, requestVars, Calm, Promoted, InPlace, Doomed, ImagesOf
    <2> QED
      BY <2>1, <2>2, <2>3, CalmIsSafe
  <1> QED
    BY <1>1, <1>2, <1>3, <1>4, <1>5, <1>6 DEF Next, Step, Quiet, Around

\* A file that a row vouches for, or that waits for its row, is on no sweep's list
\* (IngestionInv; services/ingestion.py 97-205, filesystem.py 184-205).
THEOREM IngestionInvariant == Spec => []IngestionInv
  <1> QED
    BY InvInit, InvNext, PTL DEF Spec

\* The sweep deletes nothing that a row or a committed batch refers to, whatever
\* fails or dies, unless the file lay there unreferenced before (cli.py 381-432).
THEOREM SweepSparesTheReferenced == Spec => []BytesOutliveTheSweep
  <1>1. IngestionInv => BytesOutliveTheSweep
    <2> SUFFICES ASSUME IngestionInv, NEW d \in Digests,
                        row[d] = "present" \/ \E r \in Requests : batch[r] = "committed" /\ d \in ImagesOf(r)
                 PROVE  Served(d) = "bytes" \/ d \in adopted \/ row[d] = "absent"
      BY DEF BytesOutliveTheSweep
    <2>1. row[d] = "present" \/ row[d] = "absent"
      BY DEF IngestionInv, TypeOK, CommittedHaveRows
    <2>2. CASE row[d] = "present"
      BY <2>2 DEF IngestionInv, RowsAreSafe, Served
    <2> QED
      BY <2>1, <2>2
  <1> QED
    BY <1>1, IngestionInvariant, PTL

\* The strengthening: what requests were answered, and what they left.
LEMMA AnswersInit == Init => Answered /\ Tidy
  <1> SUFFICES ASSUME Init PROVE Answered /\ Tidy
    OBVIOUS
  <1>1. Reservations /\ OneHolder /\ AnswersStand
    BY DEF Init, NoJob, Unanswered, Reservations, OneHolder, AnswersStand
  <1>2. StagedAhead /\ AnsweredLeavesNoFiles
    BY DEF Init, StagedAhead, AnsweredLeavesNoFiles
  <1> QED
    BY <1>1, <1>2 DEF Answered, Tidy

LEMMA AnswersNext ==
    ASSUME IngestionInv, IngestionInv', Answered, Tidy, [Next]_vars
    PROVE  Answered' /\ Tidy'
  <1>0. TypeOK /\ TypeOK' /\ ImagesInTurn /\ CommittedHaveRows /\ Reservations
    BY DEF IngestionInv, Answered
  <1>1. CASE \E r \in Requests, kind \in {"batch", "import"}, key \in Keys \cup {NoKey},
                images \in Uploads : Begin(r, kind, key, images)
    BY <1>0, <1>1, BeginAnswers, BeginTidies
  <1>2. CASE \E r \in Requests : Step(r) \/ Die(r)
    BY <1>0, <1>2, StepAnswers, StepTidies
  <1>3. CASE Around \/ UNCHANGED vars
    BY <1>0, <1>3, AroundAnswers, AroundTidies
  <1> QED
    BY <1>1, <1>2, <1>3 DEF Next, Around

LEMMA AnswersHold == Spec => [](Answered /\ Tidy)
  <1>1. IngestionInv /\ IngestionInv' /\ (Answered /\ Tidy) /\ [Next]_vars => (Answered /\ Tidy)'
    BY AnswersNext
  <1> QED
    BY <1>1, AnswersInit, IngestionInvariant, PTL DEF Spec

\* Whoever is answered with a batch under a key is answered with the one that holds
\* it, committed and for the same images, however duplicates race
\* (services/ingestion.py 107-126, 261-283).
THEOREM OneBatchPerKey == Spec => []OneAnswerPerKey
  <1>1. TypeOK /\ Answered => OneAnswerPerKey
    <2> SUFFICES ASSUME TypeOK, Answered,
                        NEW r \in Requests, NEW b \in answer[r].batch,
                        NEW q \in Requests, NEW c \in answer[q].batch,
                        job[q].key = job[r].key, job[q].key # NoKey
                 PROVE  b = c
      BY DEF OneAnswerPerKey, Answered, AnswersStand
    <2>1. b \in Requests /\ c \in Requests
          /\ job[r].kind \in {"batch", "import"} /\ job[q].kind \in {"batch", "import"}
      BY DEF TypeOK, Answers, Jobs
    <2>2. job[r].kind = "batch" /\ job[q].kind = "batch"
      BY <2>1 DEF Answered, Reservations
    <2>3. /\ batch[b] = "committed" /\ job[b].key = job[r].key
          /\ batch[c] = "committed" /\ job[c].key = job[q].key
      BY <2>2 DEF Answered, AnswersStand
    <2> QED
      BY <2>1, <2>3 DEF Answered, OneHolder
  <1>2. IngestionInv => TypeOK
    BY DEF IngestionInv
  <1> QED
    BY <1>1, <1>2, AnswersHold, IngestionInvariant, PTL

\* An answered request has cleared its staged files, whatever the answer, unless a
\* stage or the reservation itself failed (services/ingestion.py 121-135, 257-259).
THEOREM AnsweredRequestsAreTidy == Spec => []AnsweredLeavesNoFiles
  <1>1. Tidy => AnsweredLeavesNoFiles
    BY DEF Tidy
  <1> QED
    BY <1>1, AnswersHold, PTL
=============================================================================
