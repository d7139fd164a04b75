------------------------------ MODULE ItemState ------------------------------
(***************************************************************************)
(* The status vocabulary of an ingestion item and which status may follow  *)
(* which (domain/item_state.py).                                           *)
(***************************************************************************)
EXTENDS Naturals, FiniteSets

Claimable == {"uploaded"}

InFlight == {"preprocessing", "ocr_processing", "llm_processing"}

PipelineActive == Claimable \cup InFlight

PipelineSucceeded == {"awaiting_review", "no_ads", "completed"}

PipelineFailed == {"needs_attention", "failed"}

ItemStatus == PipelineActive \cup PipelineSucceeded \cup PipelineFailed

Retryable == {"needs_attention", "failed"}

Reprocessable == {"awaiting_review", "no_ads", "completed"}

\* ITEM_TRANSITIONS: the statuses that may legally follow s.
Successors(s) ==
    CASE s = "uploaded"         -> {"preprocessing", "needs_attention", "failed"}
      [] s = "preprocessing"    -> {"ocr_processing", "needs_attention", "failed", "uploaded"}
      [] s = "ocr_processing"   -> {"llm_processing", "needs_attention", "failed", "uploaded"}
      [] s = "llm_processing"   -> {"awaiting_review", "no_ads", "needs_attention",
                                    "failed", "uploaded"}
      [] s = "awaiting_review"  -> {"completed", "uploaded"}
      [] s = "needs_attention"  -> {"uploaded", "failed"}
      [] OTHER                  -> {"uploaded"}

IsLegalTransition(s, t) == t \in Successors(s)

=============================================================================
