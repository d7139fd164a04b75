----------------------------- MODULE LlmAnswers -----------------------------
(***************************************************************************)
(* From blocks to a prompt and from an answer to candidate drafts          *)
(* (llm/rendering.py, llm/validation.py, llm/service.py,                   *)
(* domain/categories.py).                                                  *)
(*                                                                         *)
(* Pure functions.  A block is its number, its length in the prompt and    *)
(* whether it holds a delimiter; a category is its normalised spelling,    *)
(* with _ for a space and amp for &; a phone number is its digits.         *)
(***************************************************************************)
EXTENDS Naturals, Sequences, SequencesExt, Orders

-----------------------------------------------------------------------------
(* The prompt (rendering.py). *)

Length(blocks) == FoldLeft(LAMBDA sum, b : sum + b.size, 0, blocks)

\* What the first n blocks take: a blank line, two characters, between entries.
Cost(blocks, n) == Length(SubSeq(blocks, 1, n)) + 2 * (n - 1)

\* render_blocks: whole blocks, up to the first that does not fit.
Shown(blocks, maxChars) ==
    LET fit == {n \in DOMAIN blocks : Cost(blocks, n) <= maxChars} IN
    SubSeq(blocks, 1, Max(fit \cup {0}))

\* The block that did not fit was looked at, for delimiters, before it was left
\* out.
RenderWarnings(blocks, maxChars) ==
    LET shown == Len(Shown(blocks, maxChars)) IN
    (IF shown < Len(blocks) THEN <<"OCR_TEXT_TRUNCATED">> ELSE <<>>)
        \o (IF \E n \in DOMAIN blocks : n <= shown + 1 /\ blocks[n].marked
            THEN <<"OCR_DELIMITER_ESCAPED">> ELSE <<>>)

-----------------------------------------------------------------------------
(* Categories (categories.py). *)

Slugs == {"vehicles", "property", "land", "jobs", "electronics", "services", "home_garden",
          "fashion", "other"}

\* A label reads like its slug, but for the & of "Home & Garden".
LegacyAliases ==
    [home |-> "home_garden", home_and_garden |-> "home_garden", home_amp_garden |-> "home_garden",
     house |-> "property", houses |-> "property", vehicle |-> "vehicles", car |-> "vehicles",
     cars |-> "vehicles", job |-> "jobs", vacancy |-> "jobs", vacancies |-> "jobs",
     service |-> "services", electronic |-> "electronics", lands |-> "land"]

\* CategoryCatalog.resolve; what is unknown is "other", and says so.
Mapped(name) == name \in Slugs \cup DOMAIN LegacyAliases

Resolve(name) ==
    IF name \in Slugs THEN name
    ELSE IF Mapped(name) THEN LegacyAliases[name]
    ELSE "other"

-----------------------------------------------------------------------------
(* Phone numbers (validation.py). *)

\* normalize_phone, of digits: +94 and a bare subscriber number get their zero.
National(digits) ==
    IF Len(digits) = 11 /\ SubSeq(digits, 1, 2) = <<9, 4>> THEN <<0>> \o SubSeq(digits, 3, 11)
    ELSE IF Len(digits) = 9 /\ digits[1] # 0 THEN <<0>> \o digits
    ELSE digits

IsNational(digits) == Len(digits) \in {9, 10} /\ digits[1] = 0

Parseable(digits) == digits # <<>> /\ IsNational(National(digits))

\* _normalize_phones: what cannot be read stays as written.
Phones(written) ==
    Distinct([n \in DOMAIN written |->
                 IF Parseable(written[n]) THEN National(written[n]) ELSE written[n]])

-----------------------------------------------------------------------------
(* Slips: variants of definitions below, each with one mistake the code    *)
(* could have made.  No specification uses them.                           *)

\* Citations taken as they are.
KeptUnchecked(ad, known) == Distinct(ad.cites)

-----------------------------------------------------------------------------
(* Tier 2 (validation.py). *)

\* What fits the schema.
Advertisement ==
    [cites : Seq(Int), category : STRING, phones : Seq(Seq(Nat)), warnings : Seq(STRING)]

Envelope == [version : STRING, ads : Seq(Advertisement)]

\* What an advertisement cites of the page, once each.
Kept(ad, known) ==
    LET cited == Distinct(ad.cites) IN Picked(cited, {n \in DOMAIN cited : cited[n] \in known})

\* _validate_one, of an advertisement with evidence.
Candidate(ad, known, index) ==
    LET warnings ==
            ad.warnings
                \o (IF Len(Kept(ad, known)) # Len(Distinct(ad.cites))
                    THEN <<"EVIDENCE_BLOCK_UNKNOWN">> ELSE <<>>)
                \o (IF Mapped(ad.category) THEN <<>> ELSE <<"CATEGORY_UNMAPPED">>)
                \o (IF \A n \in DOMAIN ad.phones : Parseable(ad.phones[n]) THEN <<>>
                    ELSE <<"PHONE_UNPARSEABLE">>)
    IN [index |-> index, cites |-> Kept(ad, known), category |-> Resolve(ad.category),
        phones |-> Phones(ad.phones), warnings |-> Distinct(warnings)]

\* The loop of validate_extraction: an advertisement without evidence is dropped,
\* the others are numbered without a gap.
Survivors(known, ads) ==
    LET kept == Picked(ads, {n \in DOMAIN ads : Kept(ads[n], known) # <<>>}) IN
    [n \in DOMAIN kept |-> Candidate(kept[n], known, n - 1)]

\* validate_extraction: the cap comes first.
WithinCap(ads, maxCandidates) == SubSeq(ads, 1, Min({Len(ads), maxCandidates}))

PageWarnings(envelope, maxCandidates) ==
    (IF envelope.version = "1.0" THEN <<>> ELSE <<"SCHEMA_VERSION_UNSUPPORTED">>)
        \o (IF Len(envelope.ads) <= maxCandidates THEN <<>> ELSE <<"CANDIDATE_LIMIT_EXCEEDED">>)

\* _drafts (service.py): warnings about the page go with each of its candidates.
Drafts(envelope, blocks, maxCandidates, renderWarnings) ==
    LET known == {b.id : b \in ToSet(blocks)}
        candidates == Survivors(known, WithinCap(envelope.ads, maxCandidates))
        page == Distinct(renderWarnings \o PageWarnings(envelope, maxCandidates))
    IN [n \in DOMAIN candidates |->
           [candidates[n] EXCEPT !.warnings = Distinct(@ \o page)]]

-----------------------------------------------------------------------------
(* The offline extractor (rule_based.py). *)

\* One advertisement, that cites what it was shown; its description is the text
\* it was shown, whose length nothing cuts.
RuleBased(shown, category, phones) ==
    [version |-> "1.0",
     ads |-> IF shown = <<>> THEN <<>>
             ELSE <<[cites |-> [n \in DOMAIN shown |-> shown[n].id], category |-> category,
                     phones |-> Distinct(phones), warnings |-> <<"HEURISTIC_EXTRACTION">>]>>]
=============================================================================
