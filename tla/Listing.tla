------------------------------- MODULE Listing -------------------------------
(***************************************************************************)
(* What the advertisements table promises its readers, whoever reviews,    *)
(* reprocesses or retries: an advertisement the pipeline made is a draft   *)
(* until one person publishes or refuses it, complete, once and for all.   *)
(* What was public in the prototype's store may be taken over as public,   *)
(* by nobody's decision, and then stays as it is.                          *)
(*                                                                         *)
(* The abstract specification that Review implements.                      *)
(***************************************************************************)
CONSTANTS
    Adverts,
    Values,      \* what an advertisement may say
    Complete,    \* what may be published
    Empty        \* what an advertisement nobody wrote yet says

VARIABLES
    state,       \* where each advertisement stands
    values       \* and what it says

listingVars == <<state, values>>

ListingInit ==
    /\ state = [a \in Adverts |-> "absent"]
    /\ values = [a \in Adverts |-> Empty]

Draft(a, v) ==
    /\ state[a] = "absent"
    /\ state' = [state EXCEPT ![a] = "draft"]
    /\ values' = [values EXCEPT ![a] = v]

Revise(a, v) ==
    /\ state[a] = "draft"
    /\ values' = [values EXCEPT ![a] = v]
    /\ UNCHANGED state

Publish(a, v) ==
    /\ state[a] = "draft"
    /\ v \in Complete
    /\ state' = [state EXCEPT ![a] = "public"]
    /\ values' = [values EXCEPT ![a] = v]

Refuse(a) ==
    /\ state[a] = "draft"
    /\ state' = [state EXCEPT ![a] = "refused"]
    /\ UNCHANGED values

Retire(S) ==
    /\ \A a \in S : state[a] = "draft"
    /\ state' = [a \in Adverts |-> IF a \in S THEN "retired" ELSE state[a]]
    /\ UNCHANGED values

\* Public before there was review: taken over whatever it says.
Inherit(a, v) ==
    /\ state[a] = "absent"
    /\ state' = [state EXCEPT ![a] = "inherited"]
    /\ values' = [values EXCEPT ![a] = v]

\* Entered by hand: outside review, and free to change.
ByHand(a, v) ==
    /\ state[a] \in {"absent", "by hand"}
    /\ state' = [state EXCEPT ![a] = "by hand"]
    /\ values' = [values EXCEPT ![a] = v]

ListingNext ==
    \/ \E a \in Adverts :
        \/ \E v \in Values : Draft(a, v) \/ Revise(a, v) \/ Publish(a, v) \/ ByHand(a, v)
                             \/ Inherit(a, v)
        \/ Refuse(a)
    \/ \E S \in SUBSET Adverts : Retire(S)

ListingSpec == ListingInit /\ [][ListingNext]_listingVars

=============================================================================
