---------------------------- MODULE MCExtraction ----------------------------
(* Pages of three words on a grid, the replies that differ to an adapter,  *)
(* and answers of up to three advertisements.                              *)
EXTENDS Extraction

At(c) == [left |-> c[1], top |-> c[2], width |-> 30, height |-> 10]

Word(c, block, conf, text) ==
    [page |-> 1, block |-> block, paragraph |-> 1, line |-> block, box |-> At(c),
     conf |-> conf, text |-> text]

\* The second column is beyond the gap, the third place of the first within it.
Corners == {<<0, 0>>, <<0, 12>>, <<8, 40>>, <<50, 0>>, <<50, 12>>, <<50, 40>>}

\* How the engine numbers them: a block each, or two in one.
Page(cs, numbers, texts, confs) ==
    LET words == [n \in DOMAIN cs |-> Word(cs[n], numbers[n], confs[n], texts[n])] IN
    [words |-> words, lines |-> [n \in DOMAIN cs |-> At(cs[n])], detector |-> "ok"]

Plain(cs, numbers) == Page(cs, numbers, <<"a", "b", "c">>, <<90, 80, 50>>)

MCScans ==
    LET threes == {cs \in [1 .. 3 -> Corners] : IsInjective(cs)}
        one == <<<<0, 0>>, <<50, 0>>, <<50, 40>>>>
        \* The third line reaches the first two only once they are one region.
        steps == {cs \in [1 .. 4 -> {<<0, 0>>, <<25, 12>>, <<50, 24>>, <<0, 36>>}] : IsInjective(cs)}
    IN {Page(cs, <<1, 2, 3, 4>>, <<"a", "b", "c", "d">>, <<90, 80, 50, 40>>) : cs \in steps}
       \cup {Plain(cs, numbers) : cs \in threes, numbers \in {<<1, 2, 3>>, <<1, 1, 2>>}}
       \cup {Page(one, <<1, 2, 3>>, <<"a", "<<<", "c">>, <<90, 80, 50>>),
             Page(one, <<1, 2, 3>>, <<"a", "", "c">>, <<90, 80, -1>>),
             Page(one, <<1, 1, 1>>, <<"a", "b", "c">>, <<90, 80, 50>>),
             [Plain(one, <<1, 2, 3>>) EXCEPT !.lines = <<>>],
             [Plain(one, <<1, 2, 3>>) EXCEPT !.detector = "DETECTOR_UNAVAILABLE"],
             [Plain(one, <<1, 2, 3>>) EXCEPT !.detector = "DETECTOR_FAILED"],
             NoScan}

Said(stop, text) ==
    [wire |-> "answered", status |-> 200, body |-> "object", error |-> "absent",
     named |-> "none", stop |-> stop, said |-> text]

Refused(status, error, named) ==
    [Said("end", "nothing") EXCEPT !.status = status, !.error = error, !.named = named]

MCReplies ==
    {[Said("end", "nothing") EXCEPT !.wire = w] : w \in {"timeout", "unreachable"}}
    \cup {Refused(s, "absent", "none") : s \in {400, 401, 404, 429, 503, 529}}
    \cup {Refused(s, "object", n) : s \in {400, 429}, n \in {"RESOURCE_EXHAUSTED", "UNAVAILABLE"}}
    \cup {Refused(400, "text", "none")}
    \cup {[Said("end", "nothing") EXCEPT !.body = b] : b \in {"other_json", "no_json"}}
    \cup {Said("end", t) : t \in {"nothing", "prose", "other_json", "object", "fenced_object"}}
    \cup {Said("limit", t) : t \in {"nothing", "object", "half_object"}}
    \cup {Said("refusal", "nothing"), Said("filter", "nothing")}

\* Advertisements that cite a block of the page, one that is not there, both, and
\* nothing.
MCAnswers ==
    LET ad(cites, category) ==
            [cites |-> cites, category |-> category, phones |-> <<>>, warnings |-> <<>>]
        ads == {ad(<<1, 1, 9>>, "car"), ad(<<9>>, "boats"), ad(<<2>>, "boats"), ad(<<>>, "jobs")}
    IN [version : {"1.0"}, ads : SeqOf(ads, 3)]

\* The orders of Orders are those of the community modules.
ASSUME OrdersAreOrders ==
    \A s \in SeqOf(1 .. 3, 4) :
        LET places == SetToSortSeq(DOMAIN s, LAMBDA m, n :
                          s[m] < s[n] \/ (s[m] = s[n] /\ m < n))
        IN /\ Sorted(s, [n \in DOMAIN s |-> <<0, s[n]>>]) = SortSeq(s, <)
           /\ Sorted([n \in DOMAIN s |-> n], [n \in DOMAIN s |-> <<s[n]>>]) = places
           /\ \A S \in SUBSET (1 .. 3) :
                  Picked(s, {n \in DOMAIN s : s[n] \in S}) = SelectSeq(s, LAMBDA x : x \in S)
           /\ Distinct(s) = FoldLeft(LAMBDA kept, x : IF Contains(kept, x) THEN kept
                                                       ELSE Append(kept, x), <<>>, s)
=============================================================================
