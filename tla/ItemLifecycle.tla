---------------------------- MODULE ItemLifecycle ----------------------------
(***************************************************************************)
(* What the queue promises about each row, whoever writes it: a row is     *)
(* begun only under a token never used for it before, passes the stages in *)
(* order under that same token, and leaves them only by giving the token   *)
(* up; a row nobody is working on moves only when it is resubmitted.       *)
(* Rows move independently: one step may move several of them.             *)
(***************************************************************************)
EXTENDS ItemState

CONSTANT Items

VARIABLES status, claim, issued

vars == <<status, claim, issued>>

Init ==
    /\ status = [i \in Items |-> "uploaded"]
    /\ claim = [i \in Items |-> 0]
    /\ issued = [i \in Items |-> 0]

Same(i) ==
    /\ status'[i] = status[i] /\ claim'[i] = claim[i] /\ issued'[i] = issued[i]

Begin(i) ==
    /\ status[i] = "uploaded" /\ status'[i] = "preprocessing"
    /\ claim[i] = 0 /\ claim'[i] > issued[i]
    /\ issued'[i] = claim'[i]

Progress(i) ==
    /\ <<status[i], status'[i]>> \in {<<"preprocessing", "ocr_processing">>,
                                      <<"ocr_processing", "llm_processing">>}
    /\ claim[i] # 0 /\ claim'[i] = claim[i]
    /\ issued'[i] = issued[i]

\* Extraction is done, or the attempt is given up and the row requeued or parked.
End(i) ==
    /\ \/ status[i] = "llm_processing" /\ status'[i] \in {"awaiting_review", "no_ads"}
       \/ status[i] \in InFlight /\ status'[i] \in {"uploaded", "needs_attention"}
    /\ claim[i] # 0 /\ claim'[i] = 0
    /\ issued'[i] = issued[i]

Resubmit(i) ==
    /\ status[i] \in Retryable \cup Reprocessable /\ status'[i] = "uploaded"
    /\ claim[i] = 0 /\ claim'[i] = 0
    /\ issued'[i] = issued[i]

Move(i) == Begin(i) \/ Progress(i) \/ End(i) \/ Resubmit(i)

Next == \A i \in Items : Move(i) \/ Same(i)

Spec == Init /\ [][Next]_vars
=============================================================================
