----------------------------- MODULE Extraction -----------------------------
(***************************************************************************)
(* One page from its scan to candidate drafts: what the engines recognised *)
(* becomes numbered blocks, the blocks a prompt, the prompt calls of a     *)
(* provider behind the loop of LlmRunner, and the answer drafts; after a   *)
(* restart the drafts are made again from the stored answer                *)
(* (jobs/runner.py, ocr/providers, llm/service.py).                        *)
(***************************************************************************)
EXTENDS LlmRunner, OcrPages, Adapters, LlmAnswers

CONSTANTS
    Scans,          \* [words, lines, detector]: what the engines can find on a page
    Replies,        \* the native replies a provider can send
    Answers,        \* the envelopes an answer that fits the schema can be
    PageWidth, PageHeight, Padding,
    MaxRegions,     \* OCR_PADDLE_MAX_REGIONS
    MinWords,       \* empty_text_min_chars
    MaxChars,       \* max_ocr_chars
    MaxDescription, \* MAX_DESCRIPTION_CHARS
    MaxCandidates   \* LLM_MAX_CANDIDATES

\* An engine finds words on the page, and none without a size.
ScansPage(s) ==
    /\ s \in [words : Seq(WordRow), lines : Seq(Box), detector : STRING]
    /\ \A n \in DOMAIN s.words :
           /\ s.words[n].box.width > 0 /\ s.words[n].box.height > 0
           /\ Spans(FromEdges(0, 0, PageWidth, PageHeight), s.words[n].box)

ASSUME ExtractionAssumption ==
    /\ \A s \in Scans : ScansPage(s)
    /\ Replies \subseteq Reply /\ Answers \subseteq Envelope
    /\ {PageWidth, PageHeight, Padding, MaxRegions, MinWords, MaxChars, MaxDescription,
        MaxCandidates} \subseteq Nat
    /\ MaxCandidates > 0

VARIABLES
    stage,    \* "scanned", "read", "asked", "drafted" or "rebuilt"
    engine,   \* OCR_PROVIDER: "tesseract" or "paddle_tesseract"
    provider, \* LLM_PROVIDER: an adapter or "rule_based"
    scan,     \* what there is to recognise, and by then what was
    blocks,   \* the OCR row's blocks
    flags,    \* the OCR row's warnings
    rendered, \* what went into the prompt, and the warnings about it
    said,     \* the reply to the last call
    stored,   \* the validated response
    drafts    \* the candidates

page == <<stage, engine, scan, blocks, flags, rendered>>
exchange == <<provider, said, stored, drafts>>
extractionVars == <<vars, page, exchange>>

Offline == "rule_based"
NoReply == [wire |-> "none"]
NoAnswer == [version |-> "none", ads |-> <<>>]
NoScan == [words |-> <<>>, lines |-> <<>>, detector |-> "ok"]
NoPrompt == [shown |-> <<>>, warnings |-> <<>>]

ExtractionInit ==
    /\ Init
    /\ stage = "scanned"
    /\ engine \in {"tesseract", "paddle_tesseract"}
    /\ provider \in Adapter \cup {Offline}
    /\ scan \in Scans
    /\ blocks = <<>> /\ flags = {}
    /\ rendered = NoPrompt
    /\ said = NoReply /\ stored = NoAnswer /\ drafts = <<>>

-----------------------------------------------------------------------------
(* Reading. *)

\* Why the hybrid provider reads the whole page after all, if it does.
Degraded(s) ==
    IF s.detector # "ok" THEN {s.detector}
    ELSE IF s.lines = <<>> THEN {"NO_REGIONS_DETECTED"}
    ELSE IF Len(MergeLines(s.lines)) > MaxRegions THEN {"TOO_MANY_REGIONS"}
    ELSE {}

\* TesseractOcrProvider.extract and PaddleTesseractOcrProvider.extract.
BlocksOf(e, s) ==
    IF e = "tesseract" \/ Degraded(s) # {} THEN Assemble(Recognised(s.words), PageWidth)
    ELSE Recognise(Recognised(s.words), MergeLines(s.lines), PageWidth, PageHeight, Padding)

FlagsOf(e, s) ==
    Warnings(BlocksOf(e, s), MinWords) \cup (IF e = "tesseract" THEN {} ELSE Degraded(s))

\* _run_ocr.
ReadPage ==
    /\ stage = "scanned"
    /\ stage' = "read"
    /\ blocks' = BlocksOf(engine, scan)
    /\ flags' = FlagsOf(engine, scan)
    /\ UNCHANGED <<vars, engine, scan, rendered, exchange>>

\* LlmExtractionService.run, up to the loop.  From here on a block is its number,
\* its length and whether it holds a delimiter; engine and scan are done with.
RenderPrompt ==
    LET told == [n \in DOMAIN blocks |->
                    [id |-> blocks[n].id, size |-> Len(blocks[n].text),
                     marked |-> \E m \in DOMAIN blocks[n].text : blocks[n].text[m].text = "<<<"]]
    IN /\ stage = "read"
       /\ stage' = "asked"
       /\ blocks' = told
       /\ rendered' = [shown |-> Shown(told, MaxChars), warnings |-> RenderWarnings(told, MaxChars)]
       /\ scan' = NoScan /\ engine' = "tesseract" /\ flags' = {}
       /\ UNCHANGED <<vars, exchange>>

-----------------------------------------------------------------------------
(* Asking. *)

\* The loop goes on to another call, or stops for time.
Ask ==
    /\ stage = "asked"
    /\ Call \/ DeadlineExceeded
    /\ said' = NoReply
    /\ UNCHANGED <<page, provider, stored, drafts>>

Wait == Elapse /\ UNCHANGED <<page, exchange>>

\* What a reply comes to in the loop: a failure is charged, an answer validated,
\* and anything else is nobody's to handle.
Take(result) ==
    \/ /\ result.kind = "failure"
       /\ TransportFails(result.code = "TRUNCATED_OUTPUT", result.retryable)
       /\ UNCHANGED stored
    \/ /\ result.kind = "response"
       /\ SchemaFails
       /\ UNCHANGED stored
    \/ /\ result.kind = "response" /\ result.code = "object"
       /\ Succeeds
       /\ stored' \in Answers
    \/ /\ result.kind = "unforeseen"
       /\ Raises
       /\ UNCHANGED stored

ProviderReplies(r) ==
    /\ stage = "asked" /\ provider \in Adapter
    /\ Take(Complete(provider, r))
    /\ said' = r
    /\ UNCHANGED <<page, provider, drafts>>

\* The offline extractor answers the same whenever it is asked, and its answer
\* fits unless the text it was shown is longer than a description may be.
OfflineReplies ==
    /\ stage = "asked" /\ provider = Offline
    /\ IF Length(rendered.shown) > MaxDescription THEN SchemaFails /\ UNCHANGED stored
       ELSE Succeeds /\ stored' = RuleBased(rendered.shown, "other", <<>>)
    /\ UNCHANGED <<page, provider, said, drafts>>

-----------------------------------------------------------------------------
(* Drafting. *)

\* The rest of LlmExtractionService.run.
MakeDrafts ==
    /\ stage = "asked" /\ outcome = "envelope"
    /\ stage' = "drafted"
    /\ drafts' = Drafts(stored, blocks, MaxCandidates, rendered.warnings)
    /\ UNCHANGED <<vars, engine, scan, blocks, flags, rendered, provider, said, stored>>

\* rebuild, after a crash between the answer and the candidates.  It has no render
\* warnings.
Rebuild ==
    /\ stage \in {"asked", "drafted"} /\ outcome = "envelope"
    /\ stage' = "rebuilt"
    /\ drafts' = Drafts(stored, blocks, MaxCandidates, <<>>)
    /\ UNCHANGED <<vars, engine, scan, blocks, flags, rendered, provider, said, stored>>

Replied == (\E r \in Replies : ProviderReplies(r)) \/ OfflineReplies

ExtractionNext == ReadPage \/ RenderPrompt \/ Wait \/ Ask \/ Replied \/ MakeDrafts \/ Rebuild

\* The loop's own steps, and a call ends: the adapters send it with a timeout.
ExtractionSpec ==
    /\ ExtractionInit /\ [][ExtractionNext]_extractionVars
    /\ WF_extractionVars(Ask) /\ WF_extractionVars(Replied)

-----------------------------------------------------------------------------
(* Properties. *)

\* The loop ends without the deadline's help: nothing obliges Elapse to happen.
LoopEnds == stage = "asked" ~> at = "done"

Ids == {b.id : b \in ToSet(blocks)}

Recognisable == ToSet(Recognised(scan.words))

BlocksWith(w) == {n \in DOMAIN blocks : w \in ToSet(blocks[n].text)}

\* "Losing text silently is the one outcome worse than a degraded result"
\* (paddle_tesseract.py:198): a word the engines can find is in a block: in one of
\* the whole page's, or in a region's when a detected line holds it, whatever the
\* lines merged into.  A page read another way than was asked for says so.
NoTextIsLost ==
    stage = "read" =>
        IF engine = "tesseract" \/ Degraded(scan) # {}
        THEN /\ \A w \in Recognisable : Cardinality(BlocksWith(w)) = 1
             /\ engine = "paddle_tesseract" => flags # {}
        ELSE \A w \in Recognisable :
                 (\E n \in DOMAIN scan.lines : Spans(scan.lines[n], w.box)) => BlocksWith(w) # {}

Shuffled(s) == {[n \in DOMAIN s |-> s[p[n]]] : p \in Bijection(DOMAIN s, DOMAIN s)}

\* No two boxes have one and the same corner.
Apart(boxes) ==
    \A m, n \in DOMAIN boxes :
        m # n => <<boxes[m].left, boxes[m].top>> # <<boxes[n].left, boxes[n].top>>

\* What a citation of a block can be checked against.
Evidence(bs) == [n \in DOMAIN bs |-> <<bs[n].id, bs[n].box, ToSet(bs[n].text)>>]

\* "An id that shifted between runs would silently invalidate every stored
\* citation" (blocks.py:18), and the result must not "depend on the order the
\* detector happened to emit its boxes" (regions.py:157): the order in which an
\* engine emits its words makes no difference, but to blocks of a whole page with
\* one and the same corner, and that in which a detector emits its lines none at
\* all, but for lines with one and the same corner, which merge_lines keeps as they
\* came.
ReadingIsCanonical ==
    stage = "read" =>
        /\ \A n \in DOMAIN blocks : blocks[n].id = n
        /\ \/ engine = "paddle_tesseract" /\ Degraded(scan) = {}
           \/ Apart([n \in DOMAIN blocks |-> blocks[n].box])
           => \A s \in Shuffled(scan.words) :
                  Evidence(BlocksOf(engine, [scan EXCEPT !.words = s])) = Evidence(blocks)
        /\ Apart(scan.lines) =>
               \A s \in Shuffled(scan.lines) :
                   BlocksOf(engine, [scan EXCEPT !.lines = s]) = blocks

CutOff(r) == r.wire = "answered" /\ r.status = 200 /\ r.body = "object" /\ r.stop = "limit"

Declined(r) == r.wire = "answered" /\ r.status = 200 /\ r.body = "object" /\ r.stop = "refusal"

\* The provider could not be reached, or says it is busy or broken.
Busy(r) == r.wire # "answered" \/ r.status \in {429, 500, 503, 529}

Denied(r) == r.wire = "answered" /\ r.status \in {401, 403, 404}

\* The loop "never branches on a provider" (runner.py), so the adapters must agree:
\* a cut-off answer is a transport failure worth another call, never a schema
\* failure or an answer, whatever of it can be parsed; what is refused or denied is
\* not asked again; what is busy is.  Only a body no provider documents gets past
\* the classification.
AnswersAreClassified ==
    said # NoReply =>
        /\ outcome = "raised" <=> rows[Calls].status = "running"
        /\ outcome = "raised" => said.body # "object" \/ said.error = "text"
        /\ outcome # "raised" /\ (CutOff(said) \/ Busy(said)) =>
               rows[Calls].status = "provider_error" /\ outcome # "permanent"
        /\ outcome # "raised" /\ said.named = "none" /\ (Declined(said) \/ Denied(said)) =>
               outcome = "permanent"
        /\ outcome = "envelope" => said.said \in {"object", "fenced_object"}

\* Candidates stand on the page (validation.py: citations are "the concrete detector
\* for an advertisement the model invented"): numbered without a gap, no more than
\* the cap, each with evidence among the page's blocks and a category of the
\* catalog; and no advertisement with evidence within the cap is lost, when they
\* are made and when they are made again.
DraftsAreGrounded ==
    stage \in {"drafted", "rebuilt"} =>
        /\ \A n \in DOMAIN drafts :
               /\ drafts[n].index = n - 1
               /\ drafts[n].cites # <<>> /\ ToSet(drafts[n].cites) \subseteq Ids
               /\ IsInjective(drafts[n].cites)
               /\ drafts[n].category \in Slugs
        /\ Len(drafts) = Cardinality({n \in DOMAIN stored.ads :
                             n <= MaxCandidates /\ ToSet(stored.ads[n].cites) \cap Ids # {}})
=============================================================================
