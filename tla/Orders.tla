------------------------------- MODULE Orders -------------------------------
(***************************************************************************)
(* Python's list comprehensions, dict.fromkeys and list.sort, written so   *)
(* that what they keep can be proved: by the place of an element, not by   *)
(* recursion.                                                              *)
(***************************************************************************)
EXTENDS Integers, FiniteSets, Sequences

\* A list is itself; written so, TLC computes its elements once, not whenever one
\* is looked at.
List(s) == s \o <<>>

\* The elements of a finite set in an order, given by the pairs <<x, y>> of which
\* x comes first.
InOrder(S, order) ==
    [k \in 1 .. Cardinality(S) |->
        CHOOSE x \in S : Cardinality({y \in S : <<y, x>> \in order}) = k - 1]

\* [s[n] for n in places].
Picked(s, places) ==
    LET place == InOrder(places, {p \in places \X places : p[1] < p[2]}) IN
    List([k \in 1 .. Cardinality(places) |-> s[place[k]]])

\* dict.fromkeys: the first of each, in order.
Distinct(s) == Picked(s, {n \in DOMAIN s : \A m \in 1 .. n - 1 : s[m] # s[n]})

\* Tuples are compared place by place.
Precedes(k, l) == \E i \in DOMAIN k : k[i] < l[i] /\ \A j \in 1 .. i - 1 : k[j] = l[j]

\* list.sort by key[n], a tuple of numbers for each place n: stable.
Sorted(s, key) ==
    LET by == List(key)
        Earlier(m, n) == Precedes(by[m], by[n]) \/ (by[m] = by[n] /\ m < n)
        place == InOrder(DOMAIN s, {p \in (DOMAIN s) \X (DOMAIN s) : Earlier(p[1], p[2])})
    IN List([k \in DOMAIN s |-> s[place[k]]])
=============================================================================
