# Verification of the media service's ingestion pipeline

This directory is a TLA+ development of the LankaListings media service: a web
service that takes batches of newspaper pages and advertisement images, runs OCR
and an LLM extraction over each image, and offers the advertisements it found to
a reviewer. The service's own difficulty is the middle of that: a database table
used as a work queue by processes that die, workers that outlive their lease,
paid calls that must not be repeated, and people who retry, reprocess and decide
while workers run.

Paths are relative to the repository; `items.py` alone means
`src/media_service/db/repositories/items.py`, and likewise `runner.py` (of
`jobs/`), `resume.py`, `recording.py`, `local_pool.py`, `ingestion.py` (of
`services/`).

## 1. The system

| component | state it keeps | operations | correct when |
|---|---|---|---|
| item state rules (`domain/item_state.py`) | none | transition table, status sets, batch roll-up | every row moves along the table's edges |
| item queue (`items.py`) | rows of `ingestion_items`: status, claim token, lease, attempts, generation, `run_after` | `claim_next`, `transition`, `heartbeat`, `requeue_abandoned`, `expired_leases`, `retry` | one owner per row; a claim exactly while in flight; a queued row has budget |
| worker pool (`local_pool.py`) | slots, permits, wake event, stop event | poll, dispatch, reap, recover at start-up, stop | an abandoned row comes back or is parked; the pool does not go idle with work queued |
| item runner (`runner.py`, `stages.py`) | the variables of one run | the stages, `_advance`, `_finish_item`, `_fail` | a run without its claim changes nothing; candidates, count and status commit together |
| resume planner (`resume.py`) | none | `plan_resume` | finished artifacts of a generation are not paid for again |
| artifacts (`artifacts.py`) and attempt recorder (`recording.py`) | OCR rows and extraction runs per generation | record, abandon, next attempt | one validated run per generation, each attempt its own row |
| candidates (`candidates.py`) and review (`services/review.py`) | advertisements and their publication state, versions, review events | create, supersede, edit, approve, reject | a decision stands; nothing open for review belongs to a generation that is over |
| retry and reprocess (`ingestion.py`) | none of its own | `retry_item`, `retry_batch` | a reprocess opens a new generation and does not discard a decision unasked |
| batch creation (`ingestion.py`, `services/uploads.py`) | idempotency keys, staged and promoted blobs | create, replay, wait for the first | one key, one batch; a failure leaves nothing half visible |
| batch projection (`batches.py`) | cached counts and status of a batch | `refresh_projection` | the cache says what the items say |
| blob storage and sweep (`storage/filesystem.py`, `cli.py`) | files by digest | stage, promote, collect orphans | a referenced blob exists |
| LLM loop (`llm/runner.py`), service and validation | two budgets, a deadline | attempt, repair, split on truncation | the loop ends within its budgets |
| OCR blocks and regions (`ocr/`) | none | merge, number, order | every block numbered once, no region lost |
| providers, OCR engines, HTTP layer, prototype endpoints, legacy import, configuration, schema | - | I/O, formatting, wiring | - |

How they meet. Everything the components share is in PostgreSQL. Each *unit of
work* is one transaction; between two of them anything can happen. A worker
holds no lock while it runs a stage: it holds a claim token and a lease, and
every write of the row compares both the status it expects and the token. The
reaper (any process) and the recovery at start-up (only when
`worker_single_instance` is set) put rows back whose workers are gone. A retry
reads the row without a lock and compares the status alone when it writes. A
reviewer locks a candidate's row. The pool's threads share a semaphore and two
events within one process.

What is hard here, with the lines, is the list `hazards` in `PROJECT.json`. In short:

* a lease expires under a live worker (a *zombie*), at any step of the run;
* the status is read in one transaction and compared in another (`_advance`,
  `retry_item`), so it can have moved, and moved back;
* a process dies between the two commits around a paid call;
* a provider's answer arrives after the row was given to somebody else, and both
  workers record attempts;
* the budget is counted at the claim and enforced on some paths that requeue;
* an operator reprocesses while a reviewer decides;
* items must come to rest although workers hang, fail and die;
* concurrent transactions recompute one batch's counts; two uploads share one
  idempotency key; the sweep collects a blob that is being reused;
* an upload is a chain of file operations and transactions that can break between
  any two of them;
* a lease runs out under a run of the pool's own, and its reaper hands the row on;
* a reviewer decides on a screen that is minutes old, and sends the decision again
  when the answer is lost, while the image is reprocessed;
* an import makes advertisements public beside the review desk;
* the pool's threads meet in a semaphore and two events, one of which is never
  cleared;
* three providers report failure in three ways, and the loop must not notice;
* text recognised on a page must survive merging, ordering, cutting and citation.

## 2. The modules

| module | stands for | form |
|---|---|---|
| `ItemState` | `domain/item_state.py`: status sets, `ITEM_TRANSITIONS` | operators |
| `ItemLifecycle` | what a row promises to those who only read it | abstract specification |
| `WorkQueue` | `ingestion_items` as a queue: `items.py`, and the writes of the row in `runner.py`, `local_pool.py`, `ingestion.py` | state machine |
| `Pipeline` | one run, step by step, over the queue: `runner.py`, `resume.py`, `artifacts.py`, `recording.py`, `candidates.py`, the retry, the two review decisions | state machine that extends `WorkQueue` |
| `LlmRunner` | the loop around one extraction's provider calls: `llm/runner.py` | state machine |
| `Orders` | Python's comprehension, `dict.fromkeys` and `sort`, by the places of the elements | operators |
| `OcrPages` | words to numbered blocks, lines to regions: `ocr/blocks.py`, `regions.py`, `quality.py`, `types.py`, the region pass of `paddle_tesseract.py` | operators |
| `Adapters` | what a reply of each provider's API comes to: `llm/providers/http.py`, `openai_compatible.py`, `gemini.py`, `anthropic.py` | operators |
| `LlmAnswers` | the prompt's blocks, the semantic checks, the drafts, the offline provider: `rendering.py`, `validation.py`, `service.py`, `rule_based.py`, `categories.py` | operators |
| `Extraction` | one page from scan to drafts: composes `LlmRunner`, `OcrPages`, `Adapters` and `LlmAnswers` | state machine that extends `LlmRunner` |
| `BatchProjection` | the cached status and counts of a batch: `batches.py`, the roll-up in `item_state.py` | state machine and operators |
| `Ingestion` | an upload beside the orphan sweep: `services/ingestion.py` (`create_batch`), `uploads.py`, `filesystem.py`, `assets.py`, `cli.py` | state machine |
| `Listing` | what a reader of the advertisements is promised: the `ListingGateway` protocol of `domain/listings.py` | abstract specification |
| `Review` | reviewers at the candidates of an image: `services/review.py`, `domain/listings.py`, `domain/review.py`, `events.py`, the decision endpoints; the importer of `cli.py` and the prototype's endpoints on the same table | state machine |
| `LocalPool` | the threads of a worker process: `local_pool.py`, the lifespan in `main.py` | state machine |
| `MCWorkQueue`, `MCPipeline`, `MCExtraction`, `MCBatchProjection`, `MCIngestion`, `MCReview`, `MCLocalPool` | instances: pages, replies, processes, symmetry | for TLC |
| `OcrPagesProofs` | lemmas on lists, boxes, regions and reading order | for TLAPS |
| `WorkQueueProofs`, `PipelineProofs`, `ExtractionProofs`, `BatchProjectionProofs`, `IngestionProofs`, `ReviewProofs`, `LocalPoolProofs` | theorems | for TLAPS |

The sections of *slips* in the modules are variants of single definitions with a
mistake a maintainer could make. No specification uses them; they are there to
show that each property notices (`mutants` in `PROJECT.json`).

### ItemLifecycle and WorkQueue

`ItemLifecycle` has each row's status, token and the tokens issued: a row is begun
only under a token never used for it before, passes the stages in order under
that token, leaves them only by giving it up, and at rest moves only when it is
resubmitted. `WorkQueue` implements it (`ImplementsLifecycle`, same variables).

`WorkQueue` keeps the columns that decide something. `claim` is the token, 0 for
NULL; `issued` counts the tokens handed out, so that a new one is fresh as
`new_claim_token()` is. `due` and `lapsed` stand for `run_after <= now` and
`lease_expires_at <= now`: time appears only as the two facts the code asks
about, and `LeaseLapses` may come at any moment after the claim, under a live
worker or a dead one. `task` and `held` are what a slot knows: the item it was
given and the token it was given with. `req` is what `retry_item` read before it
writes.

One action per transaction: `Claim` (`claim_next`), `Advance` (`transition` at
a stage boundary, with the heartbeat in the same transaction), `Finish` and
`Fail` (the two ends of a run), `Drop` (the end of a run that writes nothing),
`Reap`, `Start` (with recovery), `Crash`, `RetryRead`/`RetryWrite`/`RetryMiss`.
`SKIP LOCKED` makes the reaper's pass a choice of any nonempty subset of the
expired rows.

### Pipeline

`Pipeline` conjoins to each action of the queue what the same transaction writes
elsewhere, and adds the steps between: `pc` is the worker's place, `ctx` its
local variables. The read in `_advance` (`EnterRead`) is apart from its swap
(`EnterSwap`), and the number of an LLM attempt is read (`Extract`) apart from its
insertion (`Started`) and from the end of the call (`Validated`, `CallFailed`).
`Raise` lets any step fail, permanently where the code classifies the failure,
retryably everywhere (the last `except` of the runner calls it INTERNAL_ERROR).
Artifacts are sets and sequences per item:
`ocr` has (generation, outcome), `runs` the rows of `extraction_runs` with their
attempt number, `candidates` the advertisements with generation, index and
state. A page's content is `text` or `blank`, chosen at the start; an extraction
yields any number of drafts up to a bound.

Every step of `Pipeline` is a step of `WorkQueue` or leaves its variables alone;
that is checked (`Spec` as a property) and proved.

### LlmRunner

The loop as a state machine: `at` is the place (`loop` at the top, `calling` while a
request is out), `attempts` and `repairs` the two budgets, `repairing` whether
`repair_instruction` is set, `rows` what the recorder was told, `late` whether the
deadline has passed; it may pass at any moment, in a call or in the backoff. An
answer is a transport failure (with or without truncation, retryable or not), a
schema failure or a success. `Pipeline` shows the loop from outside: its
`MaxCalls` stands for the bound proved here.

### BatchProjection

One batch whose items start anywhere in their lives. A session (an open unit of
work) goes through the statements of `transition` and `refresh_projection`: the
conditional UPDATE of an item (`Update`, locked until the commit), the load of the
batch (`Load`), the GROUP BY (`Count`), and the commit, with which the session
writes the columns of the batch that differ from what it loaded (`Commit`,
`Flushed`). Under READ COMMITTED the GROUP BY sees what others have committed and
the session's own updates. A session may move several items (reaper, recovery);
it then loads the batch once and counts again. Two history variables, `disturbed`
and `tainted`, say whether another session committed between a session's load and its
commit.

### OcrPages, Adapters, LlmAnswers and Extraction

The pure parts of an extraction are operators, and `Extraction` is the page that goes
through them: `ReadPage` (either engine, with the fallback of the hybrid one),
`RenderPrompt`, the loop of `LlmRunner` with the replies of an adapter or of the
offline provider in it, `MakeDrafts`, or `Rebuild` after a restart. Every step that
changes a variable of `LlmRunner` is an action of `LlmRunner`, so what is said of
the loop is checked here against real replies and not against free choices.

Filtering, removing duplicates and sorting come from `Orders`. They are written there by
place (`Sorted` is the sequence whose k-th element is the one with k - 1 before it) and not
by recursion, because that is a form the prover can reason about; `MCExtraction` assumes, and
TLC evaluates, that they agree with the sorting and filtering of the community modules on
all short lists (`OrdersAreOrders`).

A word is a record with a box, a confidence and a text that is a letter; boxes are
integers, so the two ratios of `regions.py` (0.5 and 0.6) and the gap of `blocks.py`
(0.15) are compared after multiplication, and a confidence is out of 10000 with the
rounding of `round(..., 4)`. A reply is a record of what the adapters look at: how the
wire went, the HTTP status, what the body is, the form of `error`, a status Gemini names,
the stop reason, what was said. `Unforeseen` is an exception that is no
`LlmProviderError`: it passes through the loop (`Raises`), and the row of the call stays
`running`.

### Ingestion

A request is a call of `create_batch` or a run of `import-legacy-json`; `pc` is its place
in the program, one step per file operation or transaction: `Stage` for each image,
`Validate`, `Reserve` (the first commit, with the unique index on operator and key),
`Promote` for each image, `Record` (the second commit) or `Replay`. Every step can fail
as the code lets it, with the files the code then leaves, and `Die` stops a request
anywhere. An image is its digest, so `blob` is the directory `originals/` and
`temp` the staging area. The sweep is two actions, the list (`SweepList`) and each
delete (`SweepDelete`), because nothing holds the list true in between.

A file is young or old, which is what the sweep asks. `BlobAges` embodies the one
assumption about time: a request ends before what it wrote is an hour old. `adopted` is a
history variable: the images whose file a request found in place with no row to vouch for
it, or on the list of a running sweep. For those the age floor promises nothing.

### Review and Listing

A reviewer's request carries what the screen showed (`basis`) and the version read, or
none. It is served in one transaction under the row lock (`Edit`, `Approve`,
`Reject`), lost or refused (`Lose`), or served and sent again (`Answered` leaves it).
A reprocess looks for decisions in one step and supersedes in another. The prototype's
endpoints refuse candidates, read a row in one transaction and write it in another. The
refusal is a transaction of its own before the read and one step with it in the model: a
row is inserted together with its provenance or never gets one, so its answer does not age.
(A caller who guesses the id of an advertisement whose import is not committed yet is left
out.)

The item is one of the upload's or one of the importer's (`legacy`, chosen at the start).
`Import` writes an advertisement of the prototype's store with its provenance, linked at once
if it was active there, with no reviewer, no event and no validation; workers come to such an
item only when it is reprocessed. An advertisement without an image gets no provenance and
is as one entered by hand.
`Listing` has one state and one text per advertisement (absent, draft, public, refused,
retired, inherited from the prototype's store, or entered by hand); `Review` implements it
with both rows of a candidate mapped to that state (`Standing`, `ListingPromise`).
`PublishedAsAccepted` and `AuditTellsTheStory` except what was inherited by name
(`TakenOver`); section 5 says what this leaves of the code's own promise.

### LocalPool

The poller's loop, line by line, over a semaphore, the wake event and the stop event,
with the claim, the hand-over to the executor, the release in the task's `finally`,
the reaper, `start`, `stop` with its join (which may time out under a slow claim) and its
drain. What a task does to its row is reduced to an outcome: done, queued again, or an
exception. `lapsed` has the claims whose lease has run out, which it may at any moment, under
a task too (`LeaseLapses`; a heartbeat in time has it back, `Heartbeat`), and `Reap` takes every
such row, back to the queue or parked, whoever is at it: so the pool can have two runs of one
item, and `ClaimsAreCarried` says that then the first one's lease ran out. `Join` takes a
poll interval (2 s by default) to be shorter than the 30 s that `stop` waits. `excused` is a history of the claims nobody can be blamed for: their process
died, their runner raised, or their poller was slower than `stop` waits.

## 3. What TLC checks

| run | instance | what it shows |
|---|---|---|
| `queue_multi` | 2 items, 2 slots in 2 processes, 2 operators, 2 attempts, 1 crash, 2 retries, no recovery | the inductive invariant; a claim exactly while in flight; one owner; a queued row has budget; no step of a zombie changes a row, stage boundary or end; the refinement of `ItemLifecycle` |
| `pipeline_zombies` | 1 item, 2 slots of 1 process, 1 retry, a reviewer, leases that lapse at any step | the record stays consistent whatever step a zombie wakes at; decisions stand; the pipeline implements the queue |
| `pipeline_restart` | 1 item with 2 attempts, 1 slot, 1 crash at any step, recovery, 2 operators of whom 1 is granted a retry, a reviewer, fairness | completed work is not repeated; decisions stand although an operator forces a reprocess; an item comes to rest, through failures that go back to the queue, their backoff and the reaper |
| `extraction` | pages of 3 or 4 words on a grid of two columns, both engines, three adapters and the offline provider, 24 kinds of reply, answers of up to 3 advertisements, 2 attempts, 1 repair | no text is lost; reading does not depend on the order of the words recognised or of the lines detected; every reply is classified and charged; budgets are independent and bounded; drafts are grounded; the loop ends |
| `batch_projection` | 2 items in any status, 2 sessions | the cache is right unless the last commit was disturbed; status and counts agree |
| `ingestion` | 2 requests of any kind, key and 1 or 2 images, 1 sweep, fairness | referenced files stay; one answer per key; answered requests leave no files; leftovers are collected |
| `review` | 1 advertisement, of an upload or of an import, 2 reviewers, 1 field, versions up to 3 | what is public was accepted, or taken over by the importer; the refinement of `Listing`; the events tell the story; nothing unseen is overwritten |
| `local_pool` | 2 slots, 2 items, 3 claims, 2 starts, recovery, fairness | permits are conserved; a run has its row until its lease is out, and no claim is dropped; queued work is taken; stop returns |
| `queue_reprocess`, `pipeline_blank`, `pipeline_race`, `batch_drift` | smallest instances that show it | a sentence of the documentation that the code does not keep: section 5 |

Three more configurations are kept for use by hand: `queue_budget.cfg` (with recovery at
start-up `UploadedHasBudget` is violated, section 5), `review_import.cfg` (the importer
violates `PublicThroughApproveOrNotAtAll`, section 5) and `ingestion_two_sweeps.cfg` (the
invariants of `Ingestion` with two sweeps, 407 thousand states).

All pass runs end with the whole state space explored. The queue, pipeline and pool runs turn
deadlock checking off: the system does come to a stop, when every item rests and the
bounds on crashes, claims and requests are spent; so does `extraction`, when the drafts
are made. Batches, uploads with their sweep and the review desk never stop, and their
runs check for deadlock.

Bounds, and why they are enough. `MaxItemAttempts = 2` is the smallest budget
with a first attempt, a retry and a last attempt, and every run of rows has it. One item suffices where the
hazard is two actors on one row (rows share nothing but the reaper's and the
recovery's transaction, which `queue_multi` covers with two). Two slots give a zombie and its
successor; with two attempts between operator retries no third party can be
on a row that the first two have left, except after a retry, which the bound `MaxRetries = 1` or 2 allows.
`CandidatesCommitWithItem` and `PendingIsCurrent` are checked with one operator at a
time: with two, the first finding of section 5 breaks them (a generation opened twice has
candidates while its row is queued). `MaxCrashes`, `MaxRetries`, `MaxDrafts` and `MaxCalls` bound the environment and are constants of
the modules (`MaxRetries` counts the swaps that are granted: requests that miss are free, and
at the bound no further one is granted); everything that is a counter of the code (`attempts`, `issued`,
`generation`, the length of `runs`) is bounded by these and never cut off.
In `extraction` the grid has a place in the second column, one beyond the gap and one
within it, three lines that merge only through a fourth, an unreadable word and a
delimiter; the limits (5 characters of prompt, 2 regions, 2 candidates) are such that each is
reached and each is missed. In `ingestion` two requests suffice for every race over a
key or a digest, as each race has one winner; two images per request give a failure between
two promotions and a duplicate within one upload. In `review` one advertisement
suffices for the locks, since no transaction of a reviewer spans two; `ReprocessWrite`
does, and its effect on each is separate. `MaxVersion` = 3 allows an edit and a decision by
somebody else between a reading and a decision. In `local_pool` three claims give each item a second one.
Slots are interchangeable in `pipeline_zombies` (one process), so it uses
symmetry, as do `queue_multi` (rows, requests), `batch_projection` (rows, sessions) and
`review` (advertisements, people);
no liveness run does.

Each property has a mutant in `PROJECT.json`: a definition replaced by a slip
of the kind a maintainer could make (a fence dropped, a budget compared one
late, a supersession forgotten). The slips stand in sections of their own in
the modules, used by no specification.

### Fairness

`pipeline_restart` assumes: steps of a run end (`WF` of a run's step: OCR runs
under a timeout and every provider call has one, `config.py`); clocks advance; a
dead process is started again; the reaper passes for ever (`_reap_loop`); and
strong fairness of the claim of one item, because `claim_next` orders by
`run_after`, so a row that keeps becoming claimable is the oldest in the end.
Nothing obliges a stage to raise, a crash to happen, an operator to retry or a
reviewer to decide. The result is `Settles`: a row that is queued or in flight comes to rest, parked, in
review or without advertisements.
The number of crashes is bounded by `MaxCrashes`: a process that dies for ever
need not finish anything (see the first remark of section 5).

`extraction` assumes that a provider call ends (every adapter sends it with
`llm_timeout_seconds`) and that the thread runs on; the deadline need never pass.

`ingestion` assumes that a request's steps end (statement and wait timeouts), that time
passes, and that the sweep is run again and again, each time it can finish to its end (strong
fairness of `SweepDelete` and `SweepPurge`: a run may be a dry one, but not all of them are).
A request may still die at any step.

`local_pool` assumes that the threads run, waits time out and the claim query ends; strong
fairness of the claim of each item, because `claim_next` takes the oldest. Nobody is
obliged to give a hint, to start or to stop, and no lease to run out or to be renewed.

## 4. What is proved

All theorems hold for any sets of items, slots, operators, processes, requests, images,
sweeps, people and advertisements, and any bounds that meet the assumption of the module
(`QueueAssumption`, `PipelineAssumption`, `IngestionAssumption`, ...). `ExtractionAssumption`
says that an engine finds words on the page and none without a size (`ScansPage`), and that
replies and answers have the form of `Reply` and `Envelope`. Where a theorem needs more, its
statement says so.

`WorkQueueProofs`. The two safety properties of interest, `ClaimIffInFlight` and
`OneOwner`, are not inductive: a write by a worker that holds a token no row ever
had would break both, and a retry that read an in-flight row would requeue a
claimed one. `QueueInv` therefore adds to `TypeOK` and `ClaimIffInFlight`
`TokensWereIssued` (a token held by a slot or a row is between 1 and `issued`, so
that the next one is fresh and makes every older holder a zombie),
`RequestsWereAllowed` (a request read the row at rest) and `OneOwner`.
A lemma for every action says the invariant survives it; the theorems are:

* `QueueInvariant`, from which `TypeCorrect`, `ClaimsMatchStatus`, `AtMostOneOwner`;
* `ZombiesAreFenced`: no step of a worker without its claim changes a row, and a claimed
  row moves on, or has its lease extended, only with its owner at it;
* `QueuedRowsHaveBudget`, assuming `~SingleInstance`: the assumption is
  needed, see the first remark of section 5;
* `QueueImplementsLifecycle` and `EveryMoveIsLegal`: the refinement, and the
  edges of the table.

`PipelineProofs`. `PipelineImplementsQueue` maps each step of a run to a step of
the queue or a stutter, which carries every theorem above over to the pipeline
(`PipelineQueueInvariant` is the one written out). `ZombiesLeaveNoTrace`
strengthens `ZombiesAreFenced` to candidates and count, at every step of a run;
its strengthening `Shape` ties `pc` to `task`. `DecisionsAreFinal` says that no
step whatever changes a decided candidate.

`PipelineTypes` needs to know that a row number in a worker's hands is a
row of `extraction_runs` (`RunsAreKnown`). `CandidatesAreCommitted` and `OpenIsCurrent`
assume that retry requests are made one at a time (`\A o, p \in Operators : o = p`): with
two, the first finding of section 5 breaks both, because a generation opened twice has
candidates while its row is queued. Their strengthening `Recorded` says what the commit of
a run leaves: the indexes of the current generation's candidates are exactly
`1 .. candidate_count` when the run succeeded and none otherwise, and no candidate is of a
generation to come; `ReadsAreCurrent` is the use of the assumption, the generation a request
read is still the row's when it writes. A worker that finishes is the owner, by `QueueInv`,
so nobody else's write can have come between.

`SoloWorkIsPaidOnce`: `CompletedWorkIsNotRepeated` holds while no two workers run one item
(`NoSharedItem`). The hypothesis is about the behaviour and is needed: a zombie planned its
run before its successor's answer was stored, so both may call. Its invariant `PaidOnce` has
two halves. `Traced`: an artifact is there only if those it was made from are, so a restart
that plans from what it finds skips no step. `PlanHolds`: what a running worker's plan says
is missing still is; alone on its item, it is the only one who could have made it since.
`OneWorkerPaysOnce` discharges the hypothesis for a single worker, which is the instance
of `pipeline_restart`.

`ExtractionProofs`, the loop. `BoundedCalls`: for any budgets, an extraction makes at most
`max_attempts + max_repairs` calls, one less than the module's text allows. The
bound is not inductive; `RunnerInv` says why it holds: the calls made are the
charges to both budgets, plus the one that is out or that ended the loop
without a charge, and while the loop runs the transport budget is not spent.
`CorrectionsStand`: once an answer did not fit the schema, every later call carries the
correction; the invariant behind it is that `repairing` is set from then on.
`IndependentBudgets`: the budgets are what the recorded rows say, counted by cause; the
proof follows the two counts through the one row that changes in each step.
`ExtractionImplementsRunner`: each step of `Extraction`, whichever adapter answers, is a step
of the loop or a stutter, so these theorems hold of it with real replies.
`RepliesAreClassified` then needs to know how the last reply was taken: `Agreed` says of every
adapter's result what the property asks of it, case by case over `Reply`, and `ReplyInv` that
the last row and the outcome are what the loop makes of such a result (`Taken`).

`ExtractionProofs`, the page. `PageInv` says that the blocks and warnings of a page that
was read are what `BlocksOf` and `FlagsOf` make of a scan an engine can deliver; the rest are facts about
these operators.

* `ReadingLosesNothing`: each detected line lies within a region after every pass of the
  merging (`Covers`), the crops hold the words their region spans, each paragraph is one
  block, and ordering loses none.
* `ReadingIsStable`: the same page is read as the same numbered blocks whatever order
  its words and lines come in. A block's column is shown to depend on the left edges on the
  page alone (`ReadingOrderByEdges`, by `ColumnOf`), lists with the same keys, each of them
  once, sort alike (`SortedAlike`), and what is grouped depends on the set of words only.
  Ties are excepted: see the remarks of section 5.
* `DraftsStandOnThePage`: every candidate cites blocks of its page, and no advertisement that
  does is lost under the cap; `DraftInv` says that what is stored fits the schema
  (`IsAnswer`) and that drafts, made or made again, are those of the stored answer.

`OcrPagesProofs` has the lemmas this takes, in four parts: lists (what filtering, removing
duplicates and sorting keep, that a strict order has one enumeration, and what a fold does
step by step), boxes and regions, reading order, and that blocks depend on the words and not
on their order. Facts about folds are by the least place where one fails (`UpTo`,
`Recursion`), because the library's induction theorems cannot be instantiated here.

`BatchProjectionProofs`. `CacheRight`: the cached projection is right whenever the
last commit was undisturbed, for any batch and any number of sessions.
`ProjectionInv` adds what an open session knows: while undisturbed, the batch it
loaded is the batch as it is (so that the flush, which writes only columns
that differ, writes the whole projection), and what it computed is what its commit
will make true. `RollUpsNeverDisagree`, for a finite set of items: status and counts,
derived by two pieces of code, agree; its argument is one of cardinalities and needs no
invariant but the types.

`IngestionProofs`. `SweepSparesTheReferenced`. What a sweep may delete it decided some time
ago, so the invariant speaks of the lists as well as of the files: `PromotedAreSafe` (an
image that a request under way has put in place is young, written by it and on no list) and
`RowsAreSafe` (a file with a row is there and on no list), each unless the image is
`adopted`. Steps that put nothing in place and record nothing share one lemma (`Calm`).
`OneBatchPerKey` adds what a request's place in its program says of its row
(`Reservations`), the unique index (`OneHolder`), and that an answer once given stays true
(`AnswersStand`); that equal fingerprints mean equal images is a lemma about cardinalities.
`AnsweredRequestsAreTidy` adds which staged files a request can still have
(`StagedAhead`: none it has passed).

`ReviewProofs`. `ReviewInvariant` (the candidate's two rows agree, a version names one
content), `PublicIsAccepted`, `NothingUnseen`, `ReviewKeepsThePromise` (the refinement of
`Listing`, step by step) and `StoryIsTold` (the events of a candidate, read in order, are its
history). The importer is among the steps: what is linked names a reviewer, is complete and
as accepted, or is `TakenOver`, which nothing changes or logs any more.

`LocalPoolProofs`. `PoolInvariant`: permits plus tasks plus the one in the poller's hand are
the slots. `NoClaimIsDropped` (a run has its row until its lease is out; a claim is left only
knowingly) needs the tokens to be distinct (`Tokens`), the order of the
modes (`Phases`), and that a poller still at work after `stop` gave up waiting for it is
excused (`LatePoller`).

Only model-checked: liveness (`Settles`, `LoopEnds`, `LeftoversAreCollected`, `QueuedIsTaken`,
`StopReturns`), which is out of this prover's reach. Every invariant, action property and
refinement of a passing run is stated by a theorem; the properties of the four runs that
expect a violation are false of the code and have none. What is not proved of a property that
has a theorem: `CompletedWorkIsNotRepeated` for the owner of a row with a zombie beside it,
and `CandidatesCommitWithItem` and `PendingIsCurrent` with several operators, where they are
false. The values that folds compute (mean confidences, the length of a prompt) enter the
proofs as numbers only.

## 5. Where the code and its documentation part

1. **Two reprocess requests open one generation** (`queue_reprocess`). The write
   compares the status only. The second request's generation is the one it read,
   plus one; when the first was run to its end in between, that generation exists.
2. **A blank page is paid for again** (`pipeline_blank`). Its OCR row is `empty`,
   which the planner does not count, and it then does not look at the validated run.
3. **A zombie can overwrite the winner's row** (`pipeline_race`). `started`
   ignores the flag that the row it got back is somebody else's.
4. **The cached projection can drift** (`batch_drift`). Two items moved in
   overlapping transactions: each counts without the other, and the later flush
   leaves counts, status and `completed_at` that were never true, until another item
   of the batch moves or, if they were the last two, for good. Reads recompute
   status and counts, but serve `completed_at` from the row. `CacheRight` says
   exactly when the cache can be trusted.

5. **An import publishes without approve** (`review_import.cfg`, by hand). `is_pipeline_candidate`
   says that "anything with provenance is a candidate, and a candidate becomes public through
   `approve` or not at all -- that is invariant 2" (`services/review.py:98-101`).
   `_import_advertisement` (`cli.py:166-197`) inserts an active advertisement with a provenance
   row that is `linked`, with no reviewer, no review event, no accepted values and no
   `publication_errors`: even one without a title. It is meant to be so, since these were
   public before, but it is a second path, and a reader of `review_events` finds no verdict.
   What is left of the invariant is `PublishedAsAccepted` with `TakenOver` excepted.

Remarks: behaviours that the models have and no run of its own reports.

* Recovery ignores the budget. `_recover_in_flight` requeues every in-flight row, so a row
  can be `uploaded` with no attempts left, and a process that keeps dying on one item
  restarts it for ever (`queue_budget.cfg` shows it; `QueuedRowsHaveBudget` excludes it).
* `_advance` returns early, without looking at the token, on a row that already has the
  target status, so a zombie can pass a stage boundary and waste a call (`EnterRead`); it
  changes nothing of record (`ZombiesLeaveNoTrace`).
* An unforced reprocess checks for decisions at its read only (`RequestRetry`, `RetryItem`,
  and `ReprocessRead`, `ReprocessWrite` of `Review`), so a decision taken in between does not
  stop it; the decision itself stands (`DecisionsAreFinal`).
* A reserved key whose request dies or fails before its batch is committed answers
  IN_PROGRESS for good (`Replay`); the files are collected.
* An asset row without bytes is kept when its image is uploaded (`Record`): the file is
  there, and served as gone. `BytesOutliveTheSweep` excepts it.
* A stage that breaks leaves the file it was writing (`StageFails`), and a dry run of the
  import its blobs (`RecordFails`): both are collected later.
* The stop event is never cleared (`Start`): a pool that is started again does not poll.
* A Gemini error whose `error` is a text raises an AttributeError (`Unforeseen`), which
  passes the loop and leaves the call's row `running`.
* An `llm_max_output_tokens` configured above the ceiling of 32000 is lowered, not raised, by
  a truncation (`Grown`); it lies outside the instance checked.
* Drafts rebuilt after a restart lack the warnings about text that was cut or escaped
  (`Rebuild`); a block that was cut from the prompt may still be cited; the limit on
  advertisements is applied before those without grounds are dropped (`LlmAnswers`).
* Two detected lines with one and the same corner are merged in the order the detector
  emitted them, because `merge_lines` sorts by corner alone (`ocr/regions.py:62`). Merging
  is not associative, so the regions can differ: with lines (0,2)-(14,12), (54,0)-(104,10),
  A = (12,14)-(17,24) and B = (12,14)-(104,24), as left, top, right, bottom, and
  `merge_iou` 0.1, A before B gives a region (0,2)-(17,24) and B before A (0,2)-(14,12). The
  comment of `_settle` and a test (`tests/test_ocr_regions.py:57`) say that the
  result does not depend on the order. `ReadingIsCanonical` excepts lines with one corner
  (`Apart`), and likewise blocks of a whole page with one corner, whose numbers go by
  the order of recognition.
* Inline mode claims outside its `try`: an error of the claim itself strands the rest of the
  batch. It has no module.

## 6. Plan

Done: all modules of section 2, and the proofs of section 4. What is left, in order of worth:

1. `RetryBatch`: the loop over a list of items read before, stopped half way by an error, and
   the inline dispatcher's loop, which has the same form.
2. The positions of the items of a legacy import beside a second import.
3. `CompletedWorkIsNotRepeated` under two slots, weakened to the work of owners, and its
   proof without `NoSharedItem`: a run of the current owner that calls the provider found
   no validated run of its generation.
4. `CandidatesAreCommitted` and `OpenIsCurrent` with several operators, under the weaker
   hypothesis that no two requests reprocess the same generation.

## 7. What is not modelled

* Row content nothing decides on: error texts, filenames, hashes, timings, most of the
  advertisement's fields.
* Formatting: request bodies of the providers, their schema dialects, the prompts' wording,
  HTTP parsing and rendering, logging.
* What is outside the program: recognition and image preprocessing, the OCR subprocess, the
  providers. A call succeeds, fails or takes longer than the lease; a page is a set of
  words; a reply is any of its forms.
* The checks of one upload (size, type, pixels): one choice, accepted or refused. The schema
  check of an answer: one choice, it fits or does not.
* `retry_batch` as a whole: each of its retries is `RetryRead` and `RetryWrite` or
  `RetryMiss`, by one operator.
* The inline and manual dispatchers: they drive the same claim and the same runner from a
  single caller, a subset of the interleavings here.
* The prototype's JSON store, and of a legacy import the positions of its items and its old OCR
  results. The shared table matters to the prototype's endpoints only with
  `MEDIA_REPOSITORY=sql`, and there `Review` has their two writes.
* Settings and wiring: what the models depend on are constants.
* The DDL and the migrations. The database is taken at its word: a unit of work is atomic, a
  conditional UPDATE compares and writes at once and unique indexes hold; what READ COMMITTED
  allows beyond that concerns the batch projection only and is modelled there.
