--------------------------- MODULE OcrPagesProofs ---------------------------
(***************************************************************************)
(* What a page loses and gains on its way to numbered blocks, for all pages: *)
(* lists picked from and sorted, boxes merged, blocks in reading order.    *)
(***************************************************************************)
EXTENDS OcrPages, FiniteSetTheorems, SequenceTheorems, WellFoundedInduction, TLAPS

-----------------------------------------------------------------------------
(* Lists: what a comprehension or a sort keeps, and in which order. *)

\* A set of numbers that is not empty has a least one.
LEMMA NatLeast ==
    ASSUME NEW T \in SUBSET Nat, T # {}
    PROVE  \E m \in T : \A k \in T : m <= k
  <1>1. IsWellFoundedOn(OpToRel(<, Nat), Nat)
    BY NatLessThanWellFounded
  <1>2. PICK m \in T : \A k \in T : ~(<<k, m>> \in OpToRel(<, Nat))
    BY <1>1, WFMin
  <1>3. \A k \in T : ~(k < m)
    BY <1>2 DEF OpToRel
  <1> QED
    BY <1>3

\* Every two elements are in order, one way.
StrictOrder(S, R) ==
    /\ \A x \in S : <<x, x>> \notin R
    /\ \A x, y, z \in S : <<x, y>> \in R /\ <<y, z>> \in R => <<x, z>> \in R
    /\ \A x, y \in S : x # y => <<x, y>> \in R \/ <<y, x>> \in R

\* In a strict order of a finite set every element has a place, and every place
\* an element.
LEMMA InOrderPlaces ==
    ASSUME NEW S, IsFiniteSet(S), NEW R, StrictOrder(S, R)
    PROVE  /\ Cardinality(S) \in Nat
           /\ InOrder(S, R) \in [1 .. Cardinality(S) -> S]
           /\ \A x \in S : \E k \in 1 .. Cardinality(S) : InOrder(S, R)[k] = x
           /\ \A j, k \in 1 .. Cardinality(S) : InOrder(S, R)[j] = InOrder(S, R)[k] => j = k
           /\ \A j, k \in 1 .. Cardinality(S) :
                 j < k => <<InOrder(S, R)[j], InOrder(S, R)[k]>> \in R
  <1> DEFINE n == Cardinality(S)
             Below(x) == {y \in S : <<y, x>> \in R}
             rank == [x \in S |-> Cardinality(Below(x)) + 1]
  <1>1. n \in Nat
    BY FS_CardinalityType
  <1>2. \A x \in S : IsFiniteSet(Below(x)) /\ Cardinality(Below(x)) \in Nat
    BY FS_Subset, FS_CardinalityType
  <1>0. \A x \in S : rank[x] = Cardinality(Below(x)) + 1
    OBVIOUS
  <1>3. ASSUME NEW x \in S, NEW y \in S, <<x, y>> \in R
        PROVE  Cardinality(Below(x)) < Cardinality(Below(y))
    <2>1. Below(x) \subseteq Below(y) /\ x \in Below(y) /\ x \notin Below(x)
      BY <1>3 DEF StrictOrder
    <2>2. Cardinality(Below(x)) <= Cardinality(Below(y)) /\ Cardinality(Below(x)) # Cardinality(Below(y))
      BY <1>2, <2>1, FS_Subset
    <2> QED
      BY <1>2, <2>2
  <1>4. rank \in [S -> 1 .. n]
    <2> SUFFICES ASSUME NEW x \in S PROVE Cardinality(Below(x)) + 1 \in 1 .. n
      OBVIOUS
    <2>1. Below(x) \subseteq S /\ x \notin Below(x)
      BY DEF StrictOrder
    <2>2. Cardinality(Below(x)) <= n /\ Cardinality(Below(x)) # n
      BY <1>2, <2>1, FS_Subset
    <2> QED
      BY <1>1, <1>2, <2>2
  <1>5. \A x, y \in S : rank[x] = rank[y] => x = y
    <2> SUFFICES ASSUME NEW x \in S, NEW y \in S, x # y
                 PROVE  rank[x] # rank[y]
      OBVIOUS
    <2>1. <<x, y>> \in R \/ <<y, x>> \in R
      BY DEF StrictOrder
    <2>2. Cardinality(Below(x)) < Cardinality(Below(y)) \/ Cardinality(Below(y)) < Cardinality(Below(x))
      BY <1>3, <2>1
    <2> QED
      <3> HIDE DEF Below, rank
      <3> QED
        BY <1>2, <1>0, <2>2
  <1>6. rank \in Surjection(S, 1 .. n)
    <2>1. IsFiniteSet(1 .. n) /\ Cardinality(1 .. n) = n
      BY <1>1, FS_Interval
    <2>2. rank \in Injection(S, 1 .. n)
      BY <1>4, <1>5 DEF Injection, IsInjective
    <2> QED
      BY <2>1, <2>2, FS_Injection
  <1>7. \A k \in 1 .. n : \E x \in S : rank[x] = k
    BY <1>6 DEF Surjection
  <1>8. \A k \in 1 .. n : InOrder(S, R)[k] \in S /\ rank[InOrder(S, R)[k]] = k
    <2> SUFFICES ASSUME NEW k \in 1 .. n
                 PROVE  InOrder(S, R)[k] \in S /\ rank[InOrder(S, R)[k]] = k
      OBVIOUS
    <2>1. InOrder(S, R)[k] = CHOOSE x \in S : Cardinality(Below(x)) = k - 1
      BY DEF InOrder
    <2>2. PICK x \in S : Cardinality(Below(x)) = k - 1
      <3>1. PICK x \in S : rank[x] = k
        BY <1>7
      <3>2. Cardinality(Below(x)) + 1 = k /\ Cardinality(Below(x)) \in Nat
        <4> HIDE DEF Below, rank
        <4> QED
          BY <1>0, <1>2, <3>1
      <3>3. Cardinality(Below(x)) = k - 1
        <4> HIDE DEF Below
        <4> QED
          BY <1>1, <3>2
      <3> QED
        BY <3>3
    <2> DEFINE it == CHOOSE y \in S : Cardinality(Below(y)) = k - 1
    <2>3. it \in S /\ Cardinality(Below(it)) = k - 1
      <3> HIDE DEF Below
      <3> QED
        BY <2>2, Zenon
    <2>4. rank[it] = k
      <3> HIDE DEF Below, rank, it
      <3> QED
        BY <1>1, <1>0, <2>3
    <2> QED
      BY <2>1, <2>3, <2>4
  <1>9. InOrder(S, R) \in [1 .. n -> S]
    BY <1>8 DEF InOrder
  <1>12. ASSUME NEW x \in S, NEW y \in S, rank[x] < rank[y]
         PROVE  <<x, y>> \in R
    <2>1. ~(<<y, x>> \in R)
      <3> HIDE DEF Below, rank
      <3> QED
        BY <1>2, <1>3, <1>0, <1>12
    <2>2. x # y
      <3> HIDE DEF Below, rank
      <3> QED
        BY <1>2, <1>0, <1>12
    <2> QED
      BY <2>1, <2>2 DEF StrictOrder
  <1> HIDE DEF rank, Below
  <1>10. \A x \in S : \E k \in 1 .. n : InOrder(S, R)[k] = x
    BY <1>4, <1>5, <1>8
  <1>11. \A j, k \in 1 .. n : InOrder(S, R)[j] = InOrder(S, R)[k] => j = k
    BY <1>8, Zenon
  <1>13. \A j, k \in 1 .. n : j < k => <<InOrder(S, R)[j], InOrder(S, R)[k]>> \in R
    BY <1>8, <1>12
  <1> QED
    BY <1>1, <1>9, <1>10, <1>11, <1>13

\* A list is itself.
LEMMA ListIsItself ==
    ASSUME NEW T, NEW s \in Seq(T)
    PROVE  List(s) = s
  BY ConcatEmptySeq DEF List

\* A function of the places up to n is a list of n elements.
LEMMA FunctionIsList ==
    ASSUME NEW T, NEW n \in Nat, NEW f \in [1 .. n -> T]
    PROVE  f \in Seq(T) /\ Len(f) = n /\ DOMAIN f = 1 .. n /\ List(f) = f
  <1>1. f \in Seq(T)
    BY SeqDef
  <1>2. DOMAIN f = 1 .. n /\ Len(f) = n
    BY <1>1, LenProperties
  <1> QED
    BY <1>1, <1>2, ListIsItself

\* A list is one of its own elements.
LEMMA ListsAreLists ==
    ASSUME NEW T, NEW s \in Seq(T)
    PROVE  s \in Seq(ToSet(s))
  <1>1. s \in [1 .. Len(s) -> ToSet(s)] /\ Len(s) \in Nat
    BY DEF ToSet
  <1> QED
    BY <1>1, FunctionIsList

\* The places that a list comprehension keeps, in their order.
LEMMA PickedInOrder ==
    ASSUME NEW T, NEW s \in Seq(T), NEW places \in SUBSET DOMAIN s
    PROVE  LET place == InOrder(places, {p \in places \X places : p[1] < p[2]})
               n == Cardinality(places)
           IN /\ n \in Nat
              /\ place \in [1 .. n -> places]
              /\ \A x \in places : \E k \in 1 .. n : place[k] = x
              /\ \A j, k \in 1 .. n : place[j] = place[k] => j = k
  <1> DEFINE R == {p \in places \X places : p[1] < p[2]}
  <1>1. IsFiniteSet(places) /\ places \subseteq Int
    <2>1. DOMAIN s = 1 .. Len(s) /\ Len(s) \in Nat
      OBVIOUS
    <2>2. IsFiniteSet(1 .. Len(s))
      BY <2>1, FS_Interval
    <2>3. places \subseteq 1 .. Len(s)
      BY <2>1
    <2> QED
      BY <2>1, <2>2, <2>3, FS_Subset
  <1>2. StrictOrder(places, R)
    BY <1>1 DEF StrictOrder
  <1> HIDE DEF R
  <1>3. /\ Cardinality(places) \in Nat
        /\ InOrder(places, R) \in [1 .. Cardinality(places) -> places]
        /\ \A x \in places : \E k \in 1 .. Cardinality(places) : InOrder(places, R)[k] = x
        /\ \A j, k \in 1 .. Cardinality(places) :
              InOrder(places, R)[j] = InOrder(places, R)[k] => j = k
    BY <1>1, <1>2, InOrderPlaces
  <1> QED
    BY <1>3 DEF R

\* A list comprehension: in some order, each of the places once.
LEMMA PickedPlaces ==
    ASSUME NEW T, NEW s \in Seq(T), NEW places \in SUBSET DOMAIN s
    PROVE  /\ Cardinality(places) \in Nat
           /\ Picked(s, places) \in Seq(T) /\ Len(Picked(s, places)) = Cardinality(places)
           /\ \E place \in [1 .. Cardinality(places) -> places] :
                 /\ \A n \in places : \E k \in 1 .. Cardinality(places) : place[k] = n
                 /\ \A j, k \in 1 .. Cardinality(places) : place[j] = place[k] => j = k
                 /\ \A k \in 1 .. Cardinality(places) : Picked(s, places)[k] = s[place[k]]
  <1> DEFINE R == {p \in places \X places : p[1] < p[2]}
             place == InOrder(places, R)
             n == Cardinality(places)
             it == [k \in 1 .. n |-> s[place[k]]]
  <1>3. /\ n \in Nat
        /\ place \in [1 .. n -> places]
        /\ \A x \in places : \E k \in 1 .. n : place[k] = x
        /\ \A j, k \in 1 .. n : place[j] = place[k] => j = k
    BY PickedInOrder
  <1>4. it \in Seq(T) /\ Len(it) = n
    <2> HIDE DEF place, n
    <2>1. it \in [1 .. n -> T]
      BY <1>3
    <2> QED
      BY <1>3, <2>1, SeqDef, LenProperties
  <1>5. Picked(s, places) = it
    <2>1. List(it) = it
      <3> HIDE DEF it
      <3> QED
        BY <1>4, ListIsItself
    <2> QED
      BY <2>1 DEF Picked
  <1> HIDE DEF place, n, it
  <1>6. \A k \in 1 .. n : it[k] = s[place[k]]
    BY DEF it
  <1> QED
    BY <1>3, <1>4, <1>5, <1>6 DEF n

\* It holds what was picked and nothing else.
LEMMA PickedElements ==
    ASSUME NEW T, NEW s \in Seq(T), NEW places \in SUBSET DOMAIN s
    PROVE  /\ Picked(s, places) \in Seq(T)
           /\ ToSet(Picked(s, places)) = {s[n] : n \in places}
  <1> DEFINE P == Picked(s, places)
  <1>1. /\ Cardinality(places) \in Nat
        /\ P \in Seq(T) /\ Len(P) = Cardinality(places)
    BY PickedPlaces
  <1>2. PICK place \in [1 .. Cardinality(places) -> places] :
               /\ \A n \in places : \E k \in 1 .. Cardinality(places) : place[k] = n
               /\ \A k \in 1 .. Cardinality(places) : P[k] = s[place[k]]
    BY PickedPlaces
  <1> HIDE DEF P
  <1>3. DOMAIN P = 1 .. Cardinality(places)
    BY <1>1
  <1>4. ToSet(P) = {s[n] : n \in places}
    BY <1>2, <1>3 DEF ToSet
  <1> QED
    BY <1>1, <1>4 DEF P

\* Two lists picked from at the same places are picked from in the same order.
LEMMA PickedAlike ==
    ASSUME NEW S, NEW s \in Seq(S), NEW T, NEW t \in Seq(T), Len(s) = Len(t),
           NEW places \in SUBSET DOMAIN s
    PROVE  /\ DOMAIN Picked(s, places) = DOMAIN Picked(t, places)
           /\ \A k \in DOMAIN Picked(s, places) : \E n \in places :
                 Picked(s, places)[k] = s[n] /\ Picked(t, places)[k] = t[n]
  <1> DEFINE place == InOrder(places, {p \in places \X places : p[1] < p[2]})
             n == Cardinality(places)
             ps == [k \in 1 .. n |-> s[place[k]]]
             pt == [k \in 1 .. n |-> t[place[k]]]
  <1>1. DOMAIN s = DOMAIN t /\ places \in SUBSET DOMAIN t
    <2>1. DOMAIN s = 1 .. Len(s) /\ DOMAIN t = 1 .. Len(t)
      OBVIOUS
    <2> QED
      BY <2>1
  <1>2. n \in Nat /\ Len(Picked(s, places)) = n /\ Picked(s, places) \in Seq(S)
    BY PickedPlaces
  <1>3. Len(Picked(t, places)) = n /\ Picked(t, places) \in Seq(T)
    BY <1>1, PickedPlaces
  <1>4. place \in [1 .. n -> places]
    BY PickedInOrder
  <1>5. Picked(s, places) = List(ps) /\ Picked(t, places) = List(pt)
    BY Zenon DEF Picked
  <1> HIDE DEF place, n
  <1>6. ps \in [1 .. n -> S] /\ pt \in [1 .. n -> T]
    BY <1>1, <1>4
  <1>7. \A k \in 1 .. n : ps[k] = s[place[k]] /\ pt[k] = t[place[k]]
    OBVIOUS
  <1> HIDE DEF ps, pt
  <1>8. List(ps) = ps /\ List(pt) = pt
    BY <1>2, <1>6, FunctionIsList
  <1>9. DOMAIN Picked(s, places) = 1 .. n /\ DOMAIN Picked(t, places) = 1 .. n
    BY <1>2, <1>3
  <1> QED
    BY <1>4, <1>5, <1>7, <1>8, <1>9

\* dict.fromkeys keeps every element once.
LEMMA DistinctElements ==
    ASSUME NEW T, NEW s \in Seq(T)
    PROVE  /\ Distinct(s) \in Seq(T)
           /\ ToSet(Distinct(s)) = ToSet(s)
           /\ \A j, k \in DOMAIN Distinct(s) : Distinct(s)[j] = Distinct(s)[k] => j = k
  <1> DEFINE firsts == {n \in DOMAIN s : \A m \in 1 .. n - 1 : s[m] # s[n]}
             P == Picked(s, firsts)
  <1>1. DOMAIN s = 1 .. Len(s) /\ Len(s) \in Nat
    OBVIOUS
  <1>2. firsts \in SUBSET DOMAIN s
    OBVIOUS
  <1>3. \A n \in DOMAIN s : \E m \in firsts : s[m] = s[n]
    <2> SUFFICES ASSUME NEW n \in DOMAIN s PROVE \E m \in firsts : s[m] = s[n]
      OBVIOUS
    <2> DEFINE same == {m \in DOMAIN s : s[m] = s[n]}
    <2>1. same \in SUBSET Nat /\ same # {}
      BY <1>1
    <2>2. PICK m \in same : \A k \in same : m <= k
      <3> HIDE DEF same
      <3> QED
        BY <2>1, NatLeast
    <2>3. m \in firsts
      BY <1>1, <2>2
    <2> QED
      BY <2>2, <2>3
  <1>4. \A m, n \in firsts : s[m] = s[n] => m = n
    BY <1>1
  <1> HIDE DEF firsts
  <1>5. /\ P \in Seq(T) /\ ToSet(P) = {s[n] : n \in firsts}
    BY <1>2, PickedElements
  <1>6. ToSet(P) = ToSet(s)
    BY <1>2, <1>3, <1>5, Zenon DEF ToSet
  <1>7. Len(P) = Cardinality(firsts) /\ Cardinality(firsts) \in Nat
    BY <1>2, PickedPlaces
  <1>8. PICK place \in [1 .. Cardinality(firsts) -> firsts] :
               /\ \A j, k \in 1 .. Cardinality(firsts) : place[j] = place[k] => j = k
               /\ \A k \in 1 .. Cardinality(firsts) : P[k] = s[place[k]]
    BY <1>2, PickedPlaces
  <1>9. Distinct(s) = P
    BY DEF Distinct, firsts
  <1> HIDE DEF P
  <1>10. DOMAIN P = 1 .. Cardinality(firsts)
    BY <1>5, <1>7
  <1>11. \A j, k \in DOMAIN P : P[j] = P[k] => j = k
    BY <1>4, <1>8, <1>10
  <1> QED
    BY <1>5, <1>6, <1>9, <1>11

\* Tuples of one length are in order, of two that differ one comes first.
LEMMA PrecedesIsOrder ==
    ASSUME NEW m \in Nat, NEW K, K = [1 .. m -> Int]
    PROVE  /\ \A k \in K : ~Precedes(k, k)
           /\ \A j, k, l \in K : Precedes(j, k) /\ Precedes(k, l) => Precedes(j, l)
           /\ \A k, l \in K : k # l => Precedes(k, l) \/ Precedes(l, k)
  <1>1. \A k \in K : ~Precedes(k, k)
    BY DEF Precedes
  <1>2. ASSUME NEW j \in K, NEW k \in K, NEW l \in K, Precedes(j, k), Precedes(k, l)
        PROVE  Precedes(j, l)
    <2>1. PICK x \in 1 .. m : j[x] < k[x] /\ \A y \in 1 .. x - 1 : j[y] = k[y]
      BY <1>2 DEF Precedes
    <2>2. PICK z \in 1 .. m : k[z] < l[z] /\ \A y \in 1 .. z - 1 : k[y] = l[y]
      BY <1>2 DEF Precedes
    <2>3. CASE x <= z
      <3>1. j[x] < l[x]
        <4>1. CASE x = z
          BY <2>1, <2>2, <4>1
        <4>2. CASE x < z
          BY <2>1, <2>2, <4>2
        <4> QED
          BY <2>3, <4>1, <4>2
      <3>2. \A y \in 1 .. x - 1 : j[y] = l[y]
        BY <2>1, <2>2, <2>3
      <3> QED
        BY <3>1, <3>2 DEF Precedes
    <2>4. CASE z < x
      <3>1. j[z] < l[z]
        BY <2>1, <2>2, <2>4
      <3>2. \A y \in 1 .. z - 1 : j[y] = l[y]
        BY <2>1, <2>2, <2>4
      <3> QED
        BY <3>1, <3>2 DEF Precedes
    <2> QED
      BY <2>3, <2>4
  <1>3. ASSUME NEW k \in K, NEW l \in K, k # l
        PROVE  Precedes(k, l) \/ Precedes(l, k)
    <2> DEFINE differ == {x \in 1 .. m : k[x] # l[x]}
    <2>1. differ \in SUBSET Nat /\ differ # {}
      BY <1>3
    <2>2. PICK x \in differ : \A y \in differ : x <= y
      <3> HIDE DEF differ
      <3> QED
        BY <2>1, NatLeast
    <2>3. \A y \in 1 .. x - 1 : k[y] = l[y]
      BY <2>2
    <2>4. k[x] < l[x] \/ l[x] < k[x]
      BY <2>2
    <2> QED
      BY <2>2, <2>3, <2>4 DEF Precedes
  <1> QED
    BY <1>1, <1>2, <1>3

\* t is s with its places changed, each of them kept once.
Rearranged(s, t) ==
    \E place \in [DOMAIN s -> DOMAIN s] :
        /\ \A n \in DOMAIN s : \E k \in DOMAIN s : place[k] = n
        /\ \A j, k \in DOMAIN s : place[j] = place[k] => j = k
        /\ \A k \in DOMAIN s : t[k] = s[place[k]]

\* And no element of t comes before one that its key says is earlier.
Sorts(s, key, t) ==
    \E place \in [DOMAIN s -> DOMAIN s] :
        /\ \A n \in DOMAIN s : \E k \in DOMAIN s : place[k] = n
        /\ \A j, k \in DOMAIN s : place[j] = place[k] => j = k
        /\ \A k \in DOMAIN s : t[k] = s[place[k]]
        /\ \A j, k \in DOMAIN s : j < k => ~Precedes(key[place[k]], key[place[j]])

\* list.sort keeps every place once, in the order of the keys.
LEMMA SortedPlaces ==
    ASSUME NEW T, NEW s \in Seq(T), NEW m \in Nat, NEW key \in [DOMAIN s -> [1 .. m -> Int]]
    PROVE  /\ Sorted(s, key) \in Seq(T) /\ Len(Sorted(s, key)) = Len(s)
           /\ Rearranged(s, Sorted(s, key)) /\ Sorts(s, key, Sorted(s, key))
  <1> DEFINE D == DOMAIN s
             K == [1 .. m -> Int]
             Earlier(i, j) == Precedes(key[i], key[j]) \/ (key[i] = key[j] /\ i < j)
             R == {p \in D \X D : Earlier(p[1], p[2])}
             place == InOrder(D, R)
             it == [k \in D |-> s[place[k]]]
  <1>1. D = 1 .. Len(s) /\ Len(s) \in Nat
    OBVIOUS
  <1>2. IsFiniteSet(D) /\ Cardinality(D) = Len(s)
    <2>1. /\ IsFiniteSet(1 .. Len(s))
          /\ Cardinality(1 .. Len(s)) = IF 1 > Len(s) THEN 0 ELSE Len(s) - 1 + 1
      BY <1>1, FS_Interval
    <2> QED
      BY <1>1, <2>1
  <1>3. List(key) = key
    <2>1. key \in Seq(K)
      BY <1>1, SeqDef
    <2> HIDE DEF K
    <2> QED
      BY <2>1, ListIsItself
  <1>4. \A i, j \in D : <<i, j>> \in R <=> Earlier(i, j)
    <2> HIDE DEF Earlier, D
    <2> QED
      BY DEF R
  <1>5. StrictOrder(D, R)
    <2>1. /\ \A k \in K : ~Precedes(k, k)
          /\ \A j, k, l \in K : Precedes(j, k) /\ Precedes(k, l) => Precedes(j, l)
          /\ \A k, l \in K : k # l => Precedes(k, l) \/ Precedes(l, k)
      BY PrecedesIsOrder
    <2>2. D \subseteq Nat
      BY <1>1
    <2>3. key \in [D -> K]
      OBVIOUS
    <2> HIDE DEF R, D, K
    <2>4. \A x \in D : <<x, x>> \notin R
      BY <1>4, <2>1, <2>2, <2>3
    <2>5. \A x, y, z \in D : <<x, y>> \in R /\ <<y, z>> \in R => <<x, z>> \in R
      <3> SUFFICES ASSUME NEW x \in D, NEW y \in D, NEW z \in D, Earlier(x, y), Earlier(y, z)
                   PROVE  Earlier(x, z)
        BY <1>4
      <3> QED
        BY <2>1, <2>2, <2>3
    <2>6. \A x, y \in D : x # y => <<x, y>> \in R \/ <<y, x>> \in R
      <3> SUFFICES ASSUME NEW x \in D, NEW y \in D, x # y
                   PROVE  Earlier(x, y) \/ Earlier(y, x)
        BY <1>4
      <3> QED
        BY <2>1, <2>2, <2>3
    <2> QED
      BY <2>4, <2>5, <2>6 DEF StrictOrder
  <1>6. Sorted(s, key) = List(it)
    <2> HIDE DEF Earlier
    <2>1. Sorted(s, key) =
            List([k \in D |-> s[InOrder(D, {p \in D \X D :
                                      Precedes(key[p[1]], key[p[2]])
                                         \/ (key[p[1]] = key[p[2]] /\ p[1] < p[2])})[k]]])
      BY <1>3, Zenon DEF Sorted
    <2> QED
      BY <2>1, Zenon DEF Earlier
  <1> HIDE DEF R
  <1>7. /\ place \in [1 .. Len(s) -> D]
        /\ \A x \in D : \E k \in 1 .. Len(s) : place[k] = x
        /\ \A j, k \in 1 .. Len(s) : place[j] = place[k] => j = k
        /\ \A j, k \in 1 .. Len(s) : j < k => <<place[j], place[k]>> \in R
    <2> HIDE DEF D
    <2> QED
      BY <1>2, <1>5, InOrderPlaces
  <1> HIDE DEF place
  <1>13. \A j, k \in D : j < k => ~Precedes(key[place[k]], key[place[j]])
    <2> SUFFICES ASSUME NEW j \in D, NEW k \in D, j < k, Precedes(key[place[k]], key[place[j]])
                 PROVE  FALSE
      OBVIOUS
    <2>1. place[j] \in D /\ place[k] \in D /\ <<place[j], place[k]>> \in R
      BY <1>1, <1>7
    <2>2. <<place[k], place[j]>> \in R
      BY <1>4, <2>1
    <2> HIDE DEF D
    <2> QED
      BY <1>5, <2>1, <2>2 DEF StrictOrder
  <1>8. it \in Seq(T) /\ Len(it) = Len(s)
    <2>1. it \in [1 .. Len(s) -> T]
      BY <1>1, <1>7
    <2> QED
      BY <1>1, <2>1, SeqDef, LenProperties
  <1>9. Sorted(s, key) = it
    <2> HIDE DEF it
    <2> QED
      BY <1>6, <1>8, ListIsItself
  <1>10. \A k \in D : it[k] = s[place[k]]
    OBVIOUS
  <1>11. /\ place \in [D -> D]
         /\ \A n \in D : \E k \in D : place[k] = n
         /\ \A j, k \in D : place[j] = place[k] => j = k
    BY <1>1, <1>7
  <1> HIDE DEF it
  <1>12. Rearranged(s, Sorted(s, key))
    BY <1>9, <1>10, <1>11 DEF Rearranged
  <1>14. Sorts(s, key, Sorted(s, key))
    BY <1>9, <1>10, <1>11, <1>13 DEF Sorts
  <1> QED
    BY <1>8, <1>9, <1>12, <1>14

\* Tuples are functions of their places.
LEMMA KeysAreTuples ==
    ASSUME NEW a \in Int, NEW b \in Int, NEW c \in Int
    PROVE  /\ <<a>> \in [1 .. 1 -> Int] /\ <<a, b>> \in [1 .. 2 -> Int]
           /\ <<a, b, c>> \in [1 .. 3 -> Int]
  <1>1. <<a>> \in Seq(Int) /\ Len(<<a>>) = 1
    OBVIOUS
  <1>2. <<a, b>> \in Seq(Int) /\ Len(<<a, b>>) = 2
    OBVIOUS
  <1>3. <<a, b, c>> \in Seq(Int) /\ Len(<<a, b, c>>) = 3
    OBVIOUS
  <1> QED
    BY <1>1, <1>2, <1>3, LenProperties

\* Rearranged and rearranged again is rearranged.
LEMMA RearrangedTwice ==
    ASSUME NEW s, NEW t, NEW u, DOMAIN t = DOMAIN s, Rearranged(s, t), Rearranged(t, u)
    PROVE  Rearranged(s, u)
  <1> DEFINE D == DOMAIN s
  <1>1. PICK p \in [D -> D] :
               /\ \A n \in D : \E k \in D : p[k] = n
               /\ \A j, k \in D : p[j] = p[k] => j = k
               /\ \A k \in D : t[k] = s[p[k]]
    BY DEF Rearranged
  <1>2. PICK q \in [DOMAIN t -> DOMAIN t] :
               /\ \A n \in DOMAIN t : \E k \in DOMAIN t : q[k] = n
               /\ \A j, k \in DOMAIN t : q[j] = q[k] => j = k
               /\ \A k \in DOMAIN t : u[k] = t[q[k]]
    BY Zenon DEF Rearranged
  <1>3. DOMAIN t = D
    OBVIOUS
  <1> HIDE DEF D
  <1> DEFINE r == [k \in D |-> p[q[k]]]
  <1>4. r \in [D -> D]
    BY <1>1, <1>2, <1>3
  <1>5. \A k \in D : u[k] = s[r[k]]
    BY <1>1, <1>2, <1>3
  <1>6. \A n \in D : \E k \in D : r[k] = n
    BY <1>1, <1>2, <1>3
  <1>7. \A j, k \in D : r[j] = r[k] => j = k
    BY <1>1, <1>2, <1>3
  <1> HIDE DEF r
  <1> QED
    BY <1>4, <1>5, <1>6, <1>7 DEF D, Rearranged

\* list.sort neither adds an element nor loses one.
LEMMA SortedElements ==
    ASSUME NEW T, NEW s \in Seq(T), NEW m \in Nat, NEW key \in [DOMAIN s -> [1 .. m -> Int]]
    PROVE  /\ Sorted(s, key) \in Seq(T)
           /\ ToSet(Sorted(s, key)) = ToSet(s)
  <1>1. /\ Sorted(s, key) \in Seq(T) /\ Len(Sorted(s, key)) = Len(s)
        /\ Rearranged(s, Sorted(s, key))
    BY SortedPlaces
  <1>2. PICK place \in [DOMAIN s -> DOMAIN s] :
               /\ \A n \in DOMAIN s : \E k \in DOMAIN s : place[k] = n
               /\ \A k \in DOMAIN s : Sorted(s, key)[k] = s[place[k]]
    BY <1>1 DEF Rearranged
  <1>3. DOMAIN Sorted(s, key) = DOMAIN s
    BY <1>1
  <1>4. ToSet(Sorted(s, key)) = ToSet(s)
    BY <1>2, <1>3 DEF ToSet
  <1> QED
    BY <1>1, <1>4

\* min of some numbers: the one that none comes before.
LEMMA FiniteMin ==
    ASSUME NEW S \in SUBSET Int, IsFiniteSet(S), S # {}
    PROVE  \E m \in S : \A k \in S : m <= k
  <1> DEFINE Below(x) == {y \in S : y < x}
             sizes == {Cardinality(Below(x)) : x \in S}
  <1>1. \A x \in S : IsFiniteSet(Below(x)) /\ Cardinality(Below(x)) \in Nat
    BY FS_Subset, FS_CardinalityType
  <1>2. PICK c \in sizes : \A d \in sizes : c <= d
    <2>1. sizes \in SUBSET Nat /\ sizes # {}
      <3> HIDE DEF Below
      <3> QED
        BY <1>1
    <2> HIDE DEF sizes
    <2> QED
      BY <2>1, NatLeast
  <1> HIDE DEF sizes
  <1>3. PICK m \in S : \A x \in S : Cardinality(Below(m)) <= Cardinality(Below(x))
    <2> HIDE DEF Below
    <2> QED
      BY <1>2 DEF sizes
  <1>4. ASSUME NEW k \in S, k < m
        PROVE  FALSE
    <2>0. \A x, y, z \in S : ~(x < x) /\ (x < y /\ y < z => x < z)
      OBVIOUS
    <2>1. Below(k) \subseteq Below(m) /\ k \in Below(m) /\ k \notin Below(k)
      BY <1>4, <2>0
    <2>2. Cardinality(Below(k)) <= Cardinality(Below(m)) /\ Cardinality(Below(k)) # Cardinality(Below(m))
      BY <1>1, <2>1, FS_Subset
    <2> HIDE DEF Below
    <2> QED
      BY <1>1, <1>3, <2>2
  <1> QED
    BY <1>4

\* And max.
LEMMA FiniteMax ==
    ASSUME NEW S \in SUBSET Int, IsFiniteSet(S), S # {}
    PROVE  \E m \in S : \A k \in S : k <= m
  <1> DEFINE Above(x) == {y \in S : x < y}
             sizes == {Cardinality(Above(x)) : x \in S}
  <1>1. \A x \in S : IsFiniteSet(Above(x)) /\ Cardinality(Above(x)) \in Nat
    BY FS_Subset, FS_CardinalityType
  <1>2. PICK c \in sizes : \A d \in sizes : c <= d
    <2>1. sizes \in SUBSET Nat /\ sizes # {}
      <3> HIDE DEF Above
      <3> QED
        BY <1>1
    <2> HIDE DEF sizes
    <2> QED
      BY <2>1, NatLeast
  <1> HIDE DEF sizes
  <1>3. PICK m \in S : \A x \in S : Cardinality(Above(m)) <= Cardinality(Above(x))
    <2> HIDE DEF Above
    <2> QED
      BY <1>2 DEF sizes
  <1>4. ASSUME NEW k \in S, m < k
        PROVE  FALSE
    <2>0. \A x, y, z \in S : ~(x < x) /\ (x < y /\ y < z => x < z)
      OBVIOUS
    <2>1. Above(k) \subseteq Above(m) /\ k \in Above(m) /\ k \notin Above(k)
      BY <1>4, <2>0
    <2>2. Cardinality(Above(k)) <= Cardinality(Above(m)) /\ Cardinality(Above(k)) # Cardinality(Above(m))
      BY <1>1, <2>1, FS_Subset
    <2> HIDE DEF Above
    <2> QED
      BY <1>1, <1>3, <2>2
  <1> QED
    BY <1>4

\* The lesser and the greater of two numbers.
LEMMA Extremes ==
    ASSUME NEW i \in Int, NEW j \in Int
    PROVE  /\ Min({i, j}) = IF i <= j THEN i ELSE j
           /\ Max({i, j}) = IF i <= j THEN j ELSE i
  <1>1. CASE i <= j
    <2>1. \A x \in {i, j} : (\A y \in {i, j} : x <= y) <=> x = i
      BY <1>1
    <2>2. \A x \in {i, j} : (\A y \in {i, j} : x >= y) <=> x = j
      BY <1>1
    <2> QED
      BY <1>1, <2>1, <2>2 DEF Min, Max
  <1>2. CASE ~(i <= j)
    <2>1. \A x \in {i, j} : (\A y \in {i, j} : x <= y) <=> x = j
      BY <1>2
    <2>2. \A x \in {i, j} : (\A y \in {i, j} : x >= y) <=> x = i
      BY <1>2
    <2> QED
      BY <1>2, <2>1, <2>2 DEF Min, Max
  <1> QED
    BY <1>1, <1>2

\* Induction up to n, on a set.
LEMMA UpTo ==
    ASSUME NEW n \in Nat, NEW T, 0 \in T, \A k \in 1 .. n : k - 1 \in T => k \in T
    PROVE  0 .. n \subseteq T
  <1> DEFINE missing == {k \in 0 .. n : k \notin T}
  <1>1. ASSUME missing # {}
        PROVE  FALSE
    <2>1. PICK m \in missing : \A k \in missing : m <= k
      <3>1. missing \in SUBSET Nat
        OBVIOUS
      <3> HIDE DEF missing
      <3> QED
        BY <1>1, <3>1, NatLeast
    <2>2. m \in 1 .. n /\ m - 1 \in 0 .. n /\ m - 1 < m
      BY <2>1
    <2>3. m - 1 \in T
      BY <2>1, <2>2
    <2> QED
      BY <2>1, <2>2, <2>3
  <1> QED
    BY <1>1

\* What each step makes of the value before.
Follows(f, start, n, step) ==
    f[0] = start /\ \A k \in 1 .. n : f[k] = step[k][f[k - 1]]

\* A recursion over the elements of a list has a value: what each step makes of the
\* value before is given as a function.
LEMMA Recursion ==
    ASSUME NEW S, NEW start \in S, NEW n \in Nat, NEW step \in [1 .. n -> [S -> S]]
    PROVE  \E f \in [0 .. n -> S] : Follows(f, start, n, step)
  <1> DEFINE Value(f, m) ==
                 /\ f \in [0 .. m -> S]
                 /\ f[0] = start /\ \A k \in 1 .. m : f[k] = step[k][f[k - 1]]
             T == {m \in 0 .. n : \E f : Value(f, m)}
  <1>1. 0 \in T
    <2>1. Value([k \in 0 .. 0 |-> start], 0)
      OBVIOUS
    <2> HIDE DEF Value
    <2> QED
      BY <2>1
  <1>2. ASSUME NEW m \in 1 .. n, m - 1 \in T
        PROVE  m \in T
    <2>1. PICK f : Value(f, m - 1)
      BY <1>2
    <2> DEFINE g == [k \in 0 .. m |-> IF k = m THEN step[m][f[m - 1]] ELSE f[k]]
    <2>2. f[m - 1] \in S /\ step[m][f[m - 1]] \in S
      BY <2>1
    <2>3. g \in [0 .. m -> S] /\ g[0] = start
      BY <2>1, <2>2
    <2>4. ASSUME NEW k \in 1 .. m
          PROVE  g[k] = step[k][g[k - 1]]
      <3>1. g[k - 1] = f[k - 1]
        OBVIOUS
      <3>2. CASE k = m
        <4>1. g[m] = step[m][f[m - 1]]
          OBVIOUS
        <4> HIDE DEF g
        <4> QED
          BY <3>1, <3>2, <4>1
      <3>3. CASE k # m
        <4>1. g[k] = f[k] /\ k \in 1 .. m - 1
          BY <3>3
        <4> HIDE DEF g
        <4> QED
          BY <2>1, <3>1, <4>1
      <3> QED
        BY <3>2, <3>3
    <2>5. Value(g, m)
      BY <2>3, <2>4
    <2> QED
      <3> HIDE DEF Value
      <3> QED
        BY <2>5
  <1>3. n \in T
    <2> HIDE DEF T
    <2>1. 0 .. n \subseteq T
      BY <1>1, <1>2, UpTo
    <2> QED
      BY <2>1
  <1>4. PICK f : Value(f, n)
    BY <1>3
  <1> QED
    BY <1>4 DEF Follows

\* There is one list of given elements in which each comes before the next.
LEMMA OnlyOneOrder ==
    ASSUME NEW K, NEW R, StrictOrder(K, R), NEW f \in Seq(K), NEW g \in Seq(K),
           ToSet(f) = ToSet(g),
           \A i, j \in DOMAIN f : i < j => <<f[i], f[j]>> \in R,
           \A i, j \in DOMAIN g : i < j => <<g[i], g[j]>> \in R
    PROVE  f = g
  <1> DEFINE T == {k \in 0 .. Len(f) : k <= Len(g) /\ \A i \in 1 .. k : f[i] = g[i]}
  <1>1. /\ DOMAIN f = 1 .. Len(f) /\ Len(f) \in Nat /\ DOMAIN g = 1 .. Len(g) /\ Len(g) \in Nat
        /\ \A i \in DOMAIN f : f[i] \in K
        /\ \A i \in DOMAIN g : g[i] \in K
    OBVIOUS
  <1>2. /\ \A i \in DOMAIN f : \E j \in DOMAIN g : f[i] = g[j]
        /\ \A i \in DOMAIN g : \E j \in DOMAIN f : g[i] = f[j]
    BY DEF ToSet
  <1>3. \A x \in K : <<x, x>> \notin R
    BY DEF StrictOrder
  <1>4. \A x, y \in K : ~(<<x, y>> \in R /\ <<y, x>> \in R)
    BY <1>3 DEF StrictOrder
  <1>5. ASSUME NEW k \in 1 .. Len(f), k - 1 \in T
        PROVE  k \in T
    <2>1. k - 1 <= Len(g) /\ \A i \in 1 .. k - 1 : f[i] = g[i]
      BY <1>5
    <2>2. PICK j \in DOMAIN g : f[k] = g[j]
      BY <1>1, <1>2
    <2>3. j >= k
      <3> SUFFICES ASSUME j < k PROVE FALSE
        BY <1>1
      <3>1. j \in 1 .. k - 1 /\ j \in DOMAIN f /\ k \in DOMAIN f
        BY <1>1
      <3>2. f[j] = f[k] /\ <<f[j], f[k]>> \in R /\ f[k] \in K
        BY <1>1, <2>1, <2>2, <3>1
      <3> QED
        BY <1>3, <3>2
    <2>4. k \in DOMAIN g
      BY <1>1, <2>3
    <2>5. PICK i \in DOMAIN f : g[k] = f[i]
      BY <1>2, <2>4
    <2>6. i >= k
      <3> SUFFICES ASSUME i < k PROVE FALSE
        BY <1>1
      <3>1. i \in 1 .. k - 1 /\ i \in DOMAIN g
        BY <1>1, <2>4
      <3>2. g[i] = g[k] /\ <<g[i], g[k]>> \in R /\ g[k] \in K
        BY <1>1, <2>1, <2>4, <2>5, <3>1
      <3> QED
        BY <1>3, <3>2
    <2>7. f[k] = g[k]
      <3>1. CASE j = k
        BY <2>2, <3>1
      <3>2. CASE i = k
        BY <2>5, <3>2
      <3>3. CASE j > k /\ i > k
        <4>1. k \in DOMAIN f
          BY <1>1
        <4>2. <<f[k], f[i]>> \in R /\ <<g[k], g[j]>> \in R
          BY <2>4, <3>3, <4>1
        <4>3. <<f[k], g[k]>> \in R /\ <<g[k], f[k]>> \in R /\ f[k] \in K /\ g[k] \in K
          BY <1>1, <2>2, <2>4, <2>5, <4>1, <4>2
        <4> QED
          BY <1>4, <4>3
      <3> QED
        BY <1>1, <2>3, <2>6, <3>1, <3>2, <3>3
    <2>8. \A m \in 1 .. k : f[m] = g[m]
      <3> SUFFICES ASSUME NEW m \in 1 .. k PROVE f[m] = g[m]
        OBVIOUS
      <3>1. m = k \/ m \in 1 .. k - 1
        OBVIOUS
      <3> QED
        BY <2>1, <2>7, <3>1
    <2> QED
      BY <1>1, <2>4, <2>8
  <1>6. Len(f) <= Len(g) /\ \A i \in 1 .. Len(f) : f[i] = g[i]
    <2>1. 0 \in T
      BY <1>1
    <2>2. 0 .. Len(f) \subseteq T
      <3> HIDE DEF T
      <3> QED
        BY <1>1, <1>5, <2>1, UpTo
    <2>3. Len(f) \in T
      <3> HIDE DEF T
      <3> QED
        BY <1>1, <2>2
    <2> QED
      BY <2>3
  <1>7. Len(g) <= Len(f)
    <2> SUFFICES ASSUME Len(f) < Len(g) PROVE FALSE
      BY <1>1
    <2>1. Len(g) \in DOMAIN g
      BY <1>1
    <2>2. PICK i \in DOMAIN f : g[Len(g)] = f[i]
      BY <1>2, <2>1
    <2>3. i \in DOMAIN g /\ i < Len(g) /\ g[i] = g[Len(g)]
      BY <1>1, <1>6, <2>2
    <2> QED
      BY <1>1, <1>3, <2>1, <2>3
  <1> QED
    BY <1>1, <1>6, <1>7

\* Keys, of m numbers, that tell the places of s apart.
Keyed(s, key, m) ==
    /\ key \in [DOMAIN s -> [1 .. m -> Int]]
    /\ \A i, j \in DOMAIN s : key[i] = key[j] => i = j

\* Each key of s is one of t, and the other way round.
SameKeys(s, ks, t, kt) ==
    /\ \A i \in DOMAIN s : \E j \in DOMAIN t : ks[i] = kt[j]
    /\ \A i \in DOMAIN t : \E j \in DOMAIN s : kt[i] = ks[j]

\* At each place the sorted lists have elements with one key.
Alike(s, ks, t, kt) ==
    /\ Len(s) = Len(t)
    /\ \A n \in DOMAIN s : \E i \in DOMAIN s : \E j \in DOMAIN t :
          Sorted(s, ks)[n] = s[i] /\ Sorted(t, kt)[n] = t[j] /\ ks[i] = kt[j]

\* Two lists with the same keys, each key once, are sorted alike.
LEMMA SortedAlike ==
    ASSUME NEW S, NEW s \in Seq(S), NEW T, NEW t \in Seq(T), NEW m \in Nat,
           NEW ks, NEW kt, Keyed(s, ks, m), Keyed(t, kt, m), SameKeys(s, ks, t, kt)
    PROVE  Alike(s, ks, t, kt)
  <1> DEFINE K == [1 .. m -> Int]
             R == {p \in K \X K : Precedes(p[1], p[2])}
  <1>0. /\ ks \in [DOMAIN s -> K] /\ \A i, j \in DOMAIN s : ks[i] = ks[j] => i = j
        /\ kt \in [DOMAIN t -> K] /\ \A i, j \in DOMAIN t : kt[i] = kt[j] => i = j
    BY DEF Keyed
  <1>1. PICK p \in [DOMAIN s -> DOMAIN s] :
               /\ \A n \in DOMAIN s : \E k \in DOMAIN s : p[k] = n
               /\ \A j, k \in DOMAIN s : p[j] = p[k] => j = k
               /\ \A k \in DOMAIN s : Sorted(s, ks)[k] = s[p[k]]
               /\ \A j, k \in DOMAIN s : j < k => ~Precedes(ks[p[k]], ks[p[j]])
    <2>1. Sorts(s, ks, Sorted(s, ks))
      BY <1>0, SortedPlaces
    <2> QED
      BY <2>1 DEF Sorts
  <1>2. PICK q \in [DOMAIN t -> DOMAIN t] :
               /\ \A n \in DOMAIN t : \E k \in DOMAIN t : q[k] = n
               /\ \A j, k \in DOMAIN t : q[j] = q[k] => j = k
               /\ \A k \in DOMAIN t : Sorted(t, kt)[k] = t[q[k]]
               /\ \A j, k \in DOMAIN t : j < k => ~Precedes(kt[q[k]], kt[q[j]])
    <2>1. Sorts(t, kt, Sorted(t, kt))
      BY <1>0, SortedPlaces
    <2> QED
      BY <2>1 DEF Sorts
  <1>3. StrictOrder(K, R) /\ \A x, y \in K : x # y /\ ~Precedes(y, x) => <<x, y>> \in R
    <2>1. /\ \A k \in K : ~Precedes(k, k)
          /\ \A j, k, l \in K : Precedes(j, k) /\ Precedes(k, l) => Precedes(j, l)
          /\ \A k, l \in K : k # l => Precedes(k, l) \/ Precedes(l, k)
      BY PrecedesIsOrder
    <2>2. \A x, y \in K : <<x, y>> \in R <=> Precedes(x, y)
      <3> HIDE DEF K
      <3> QED
        OBVIOUS
    <2> HIDE DEF K, R
    <2> QED
      BY <2>1, <2>2 DEF StrictOrder
  <1> HIDE DEF K, R
  <1> DEFINE f == [n \in DOMAIN s |-> ks[p[n]]]
             g == [n \in DOMAIN t |-> kt[q[n]]]
  <1>5. f \in Seq(K) /\ DOMAIN f = DOMAIN s /\ \A n \in DOMAIN s : f[n] = ks[p[n]]
    <2>1. DOMAIN s = 1 .. Len(s) /\ Len(s) \in Nat
      OBVIOUS
    <2>2. f \in [1 .. Len(s) -> K] /\ DOMAIN f = DOMAIN s /\ \A n \in DOMAIN s : f[n] = ks[p[n]]
      BY <1>1, <1>0, <2>1
    <2> HIDE DEF f
    <2> QED
      BY <2>1, <2>2, FunctionIsList
  <1>6. g \in Seq(K) /\ DOMAIN g = DOMAIN t /\ \A n \in DOMAIN t : g[n] = kt[q[n]]
    <2>1. DOMAIN t = 1 .. Len(t) /\ Len(t) \in Nat
      OBVIOUS
    <2>2. g \in [1 .. Len(t) -> K] /\ DOMAIN g = DOMAIN t /\ \A n \in DOMAIN t : g[n] = kt[q[n]]
      BY <1>2, <1>0, <2>1
    <2> HIDE DEF g
    <2> QED
      BY <2>1, <2>2, FunctionIsList
  <1> HIDE DEF f, g
  <1>7. \A i, j \in DOMAIN f : i < j => <<f[i], f[j]>> \in R
    <2> SUFFICES ASSUME NEW i \in DOMAIN s, NEW j \in DOMAIN s, i < j
                 PROVE  <<f[i], f[j]>> \in R
      BY <1>5
    <2>0. i # j
      <3>1. DOMAIN s \in SUBSET Int
        OBVIOUS
      <3> QED
        BY <3>1
    <2>1. p[i] # p[j] /\ p[i] \in DOMAIN s /\ p[j] \in DOMAIN s
      BY <1>1, <2>0
    <2>2. ks[p[i]] # ks[p[j]] /\ ks[p[i]] \in K /\ ks[p[j]] \in K
      BY <1>0, <2>1
    <2> QED
      BY <1>1, <1>3, <1>5, <2>2
  <1>8. \A i, j \in DOMAIN g : i < j => <<g[i], g[j]>> \in R
    <2> SUFFICES ASSUME NEW i \in DOMAIN t, NEW j \in DOMAIN t, i < j
                 PROVE  <<g[i], g[j]>> \in R
      BY <1>6
    <2>0. i # j
      <3>1. DOMAIN t \in SUBSET Int
        OBVIOUS
      <3> QED
        BY <3>1
    <2>1. q[i] # q[j] /\ q[i] \in DOMAIN t /\ q[j] \in DOMAIN t
      BY <1>2, <2>0
    <2>2. kt[q[i]] # kt[q[j]] /\ kt[q[i]] \in K /\ kt[q[j]] \in K
      BY <1>0, <2>1
    <2> QED
      BY <1>2, <1>3, <1>6, <2>2
  <1>9. ToSet(f) = ToSet(g)
    <2>1. \A n \in DOMAIN f : \E k \in DOMAIN g : f[n] = g[k]
      <3> SUFFICES ASSUME NEW n \in DOMAIN s PROVE \E k \in DOMAIN g : f[n] = g[k]
        BY <1>5
      <3>1. p[n] \in DOMAIN s
        BY <1>1
      <3>2. PICK j \in DOMAIN t : ks[p[n]] = kt[j]
        BY <3>1 DEF SameKeys
      <3>3. PICK k \in DOMAIN t : q[k] = j
        BY <1>2
      <3>4. f[n] = kt[j] /\ g[k] = kt[j] /\ k \in DOMAIN g
        BY <1>5, <1>6, <3>2, <3>3, Zenon
      <3> QED
        BY <3>4, Zenon
    <2>2. \A n \in DOMAIN g : \E k \in DOMAIN f : g[n] = f[k]
      <3> SUFFICES ASSUME NEW n \in DOMAIN t PROVE \E k \in DOMAIN f : g[n] = f[k]
        BY <1>6
      <3>1. q[n] \in DOMAIN t
        BY <1>2
      <3>2. PICK j \in DOMAIN s : kt[q[n]] = ks[j]
        BY <3>1 DEF SameKeys
      <3>3. PICK k \in DOMAIN s : p[k] = j
        BY <1>1
      <3>4. g[n] = ks[j] /\ f[k] = ks[j] /\ k \in DOMAIN f
        BY <1>5, <1>6, <3>2, <3>3, Zenon
      <3> QED
        BY <3>4, Zenon
    <2> QED
      BY <2>1, <2>2 DEF ToSet
  <1>10. f = g
    <2>1. StrictOrder(K, R)
      BY <1>3
    <2>2. f \in Seq(K) /\ g \in Seq(K)
      BY <1>5, <1>6
    <2> QED
      BY <1>7, <1>8, <1>9, <2>1, <2>2, OnlyOneOrder, Zenon
  <1>11. DOMAIN s = DOMAIN t /\ Len(s) = Len(t)
    <2>1. DOMAIN s = DOMAIN t
      BY <1>5, <1>6, <1>10
    <2>2. /\ DOMAIN s = 1 .. Len(s) /\ Len(s) \in Nat
          /\ DOMAIN t = 1 .. Len(t) /\ Len(t) \in Nat
      OBVIOUS
    <2>3. \A i, j \in Nat : 1 .. i = 1 .. j => i = j
      <3> SUFFICES ASSUME NEW i \in Nat, NEW j \in Nat, 1 .. i = 1 .. j, i < j PROVE FALSE
        OBVIOUS
      <3>1. j \in 1 .. j /\ j \notin 1 .. i
        OBVIOUS
      <3> QED
        BY <3>1
    <2> HIDE DEF f, g
    <2> QED
      BY <2>1, <2>2, <2>3
  <1>12. ASSUME NEW n \in DOMAIN s
         PROVE  \E i \in DOMAIN s : \E j \in DOMAIN t :
                   Sorted(s, ks)[n] = s[i] /\ Sorted(t, kt)[n] = t[j] /\ ks[i] = kt[j]
    <2>1. p[n] \in DOMAIN s /\ q[n] \in DOMAIN t /\ n \in DOMAIN t
      BY <1>1, <1>2, <1>11
    <2>2. ks[p[n]] = kt[q[n]]
      BY <1>5, <1>6, <1>10, <2>1
    <2> QED
      BY <1>1, <1>2, <2>1, <2>2
  <1> QED
    BY <1>11, <1>12 DEF Alike

-----------------------------------------------------------------------------
(* Boxes, crops and paragraphs: no word is lost on the way. *)

\* reading_order only rearranges.
LEMMA ReadingOrderKeeps ==
    ASSUME NEW T, \A b \in T : b.page \in Int /\ b.box.left \in Int /\ b.box.top \in Int,
           NEW s \in Seq(T), NEW width
    PROVE  /\ ReadingOrder(s, width) \in Seq(T) /\ Len(ReadingOrder(s, width)) = Len(s)
           /\ Rearranged(s, ReadingOrder(s, width))
  <1> DEFINE first == [n \in DOMAIN s |-> <<s[n].page, s[n].box.left>>]
             byLeft == Sorted(s, first)
             Starts(n) ==
                 \/ n = 1
                 \/ byLeft[n].page # byLeft[n - 1].page
                 \/ byLeft[n].box.left - byLeft[n - 1].box.left > ColumnGap(width)
             Column(n) == Cardinality({m \in 1 .. n : Starts(m)})
             second == [n \in DOMAIN byLeft |-> <<Column(n), byLeft[n].box.top, byLeft[n].box.left>>]
  <1>1. ReadingOrder(s, width) = Sorted(byLeft, second)
    BY Zenon DEF ReadingOrder
  <1>2. byLeft \in Seq(T) /\ Len(byLeft) = Len(s) /\ Rearranged(s, byLeft)
    <2>1. \A n \in DOMAIN s : s[n].page \in Int /\ s[n].box.left \in Int
      OBVIOUS
    <2>2. first \in [DOMAIN s -> [1 .. 2 -> Int]]
      BY <2>1, KeysAreTuples
    <2> HIDE DEF first
    <2> QED
      BY <2>2, SortedPlaces
  <1> HIDE DEF byLeft, Starts
  <1>3. second \in [DOMAIN byLeft -> [1 .. 3 -> Int]]
    <2> SUFFICES ASSUME NEW n \in DOMAIN byLeft
                 PROVE  <<Column(n), byLeft[n].box.top, byLeft[n].box.left>> \in [1 .. 3 -> Int]
      OBVIOUS
    <2>1. byLeft[n].box.top \in Int /\ byLeft[n].box.left \in Int /\ n \in Nat
      BY <1>2
    <2>2. IsFiniteSet({m \in 1 .. n : Starts(m)})
      <3>1. IsFiniteSet(1 .. n)
        BY <2>1, FS_Interval
      <3> QED
        BY <3>1, FS_Subset
    <2>3. Column(n) \in Int
      BY <2>2, FS_CardinalityType
    <2> HIDE DEF Column
    <2> QED
      BY <2>1, <2>3, KeysAreTuples
  <1> HIDE DEF second
  <1>4. /\ Sorted(byLeft, second) \in Seq(T) /\ Len(Sorted(byLeft, second)) = Len(byLeft)
        /\ Rearranged(byLeft, Sorted(byLeft, second))
    BY <1>2, <1>3, SortedPlaces
  <1>5. DOMAIN byLeft = DOMAIN s
    BY <1>2
  <1> QED
    BY <1>1, <1>2, <1>4, <1>5, RearrangedTwice

\* Both boxes, and nothing less.
LEMMA UnionSpans ==
    ASSUME NEW b \in Box, NEW c \in Box
    PROVE  Union(b, c) \in Box /\ Spans(Union(b, c), b) /\ Spans(Union(b, c), c)
  <1>1. /\ b.left \in Int /\ b.top \in Int /\ Right(b) \in Int /\ Bottom(b) \in Int
        /\ c.left \in Int /\ c.top \in Int /\ Right(c) \in Int /\ Bottom(c) \in Int
    BY DEF Box, Right, Bottom
  <1> DEFINE l == Min({b.left, c.left})
             t == Min({b.top, c.top})
             r == Max({Right(b), Right(c)})
             m == Max({Bottom(b), Bottom(c)})
  <1>2. /\ l \in Int /\ l <= b.left /\ l <= c.left /\ t \in Int /\ t <= b.top /\ t <= c.top
        /\ r \in Int /\ Right(b) <= r /\ Right(c) <= r
        /\ m \in Int /\ Bottom(b) <= m /\ Bottom(c) <= m
    <2>1. /\ l = (IF b.left <= c.left THEN b.left ELSE c.left)
          /\ t = (IF b.top <= c.top THEN b.top ELSE c.top)
          /\ r = (IF Right(b) <= Right(c) THEN Right(c) ELSE Right(b))
          /\ m = (IF Bottom(b) <= Bottom(c) THEN Bottom(c) ELSE Bottom(b))
      BY <1>1, Extremes, Zenon
    <2> HIDE DEF l, t, r, m
    <2> QED
      BY <1>1, <2>1
  <1>3. Union(b, c) = [left |-> l, top |-> t, width |-> r - l, height |-> m - t]
    BY DEF Union, FromEdges
  <1> HIDE DEF l, t, r, m
  <1>4. /\ Union(b, c).left = l /\ Union(b, c).top = t
        /\ Right(Union(b, c)) = r /\ Bottom(Union(b, c)) = m
    BY <1>2, <1>3 DEF Right, Bottom
  <1> QED
    BY <1>2, <1>3, <1>4 DEF Box, Spans

\* Every box lies in a region.
Covers(regions, boxes) ==
    \A j \in DOMAIN boxes : \E q \in DOMAIN regions : Spans(regions[q], boxes[j])

\* What spans a box that spans a third spans the third.
LEMMA SpansTwice ==
    ASSUME NEW a \in Box, NEW b \in Box, NEW c \in Box, Spans(a, b), Spans(b, c)
    PROVE  Spans(a, c)
  BY DEF Box, Spans, Right, Bottom

\* A box spans itself.
LEMMA SpansItself ==
    ASSUME NEW b \in Box
    PROVE  Spans(b, b)
  BY DEF Box, Spans, Right, Bottom

\* What takes in a box takes nothing away.
LEMMA JoinedCovers ==
    ASSUME NEW regions \in Seq(Box), NEW box \in Box, NEW twice
    PROVE  /\ Joined(regions, box, twice) \in Seq(Box)
           /\ Covers(Joined(regions, box, twice), regions)
           /\ \E q \in DOMAIN Joined(regions, box, twice) :
                 Spans(Joined(regions, box, twice)[q], box)
  <1> DEFINE hosts == {n \in DOMAIN regions : Absorbs(regions[n], box, twice)}
             J == Joined(regions, box, twice)
  <1>1. CASE hosts = {}
    <2>1. J = Append(regions, box)
      BY <1>1 DEF Joined
    <2>2. /\ J \in Seq(Box) /\ Len(J) = Len(regions) + 1 /\ J[Len(regions) + 1] = box
          /\ \A n \in DOMAIN regions : J[n] = regions[n]
      BY <2>1
    <2> HIDE DEF J
    <2>3. Covers(J, regions)
      <3> SUFFICES ASSUME NEW n \in DOMAIN regions PROVE n \in DOMAIN J /\ Spans(J[n], regions[n])
        BY DEF Covers
      <3>1. regions[n] \in Box
        OBVIOUS
      <3> QED
        BY <2>2, <3>1, SpansItself
    <2>4. Len(regions) + 1 \in DOMAIN J /\ Spans(J[Len(regions) + 1], box)
      BY <2>2, SpansItself
    <2> QED
      BY <2>2, <2>3, <2>4 DEF J
  <1>2. CASE hosts # {}
    <2> DEFINE h == Min(hosts)
    <2>1. h \in hosts
      <3>1. hosts \in SUBSET Nat
        OBVIOUS
      <3>2. \E m \in hosts : \A k \in hosts : m <= k
        <4> HIDE DEF hosts
        <4> QED
          BY <1>2, <3>1, NatLeast
      <3> HIDE DEF hosts
      <3> QED
        BY <3>2 DEF Min
    <2>2. J = [regions EXCEPT ![h] = Union(regions[h], box)]
      BY <1>2 DEF Joined
    <2> HIDE DEF h, J
    <2>3. h \in DOMAIN regions /\ regions[h] \in Box
      BY <2>1
    <2>4. /\ Union(regions[h], box) \in Box /\ Spans(Union(regions[h], box), regions[h])
          /\ Spans(Union(regions[h], box), box)
      BY <2>3, UnionSpans
    <2>5. /\ J \in Seq(Box) /\ DOMAIN J = DOMAIN regions /\ J[h] = Union(regions[h], box)
          /\ \A n \in DOMAIN regions : n # h => J[n] = regions[n]
      BY <2>2, <2>3, <2>4
    <2>6. Covers(J, regions)
      <3> SUFFICES ASSUME NEW n \in DOMAIN regions PROVE Spans(J[n], regions[n])
        BY <2>5 DEF Covers
      <3>1. regions[n] \in Box
        OBVIOUS
      <3> QED
        BY <2>4, <2>5, <3>1, SpansItself
    <2> QED
      BY <2>3, <2>4, <2>5, <2>6 DEF J
  <1> QED
    BY <1>1, <1>2

\* Regions that cover what covers some boxes cover the boxes.
LEMMA CoversTwice ==
    ASSUME NEW a \in Seq(Box), NEW b \in Seq(Box), NEW c \in Seq(Box), Covers(a, b), Covers(b, c)
    PROVE  Covers(a, c)
  <1> SUFFICES ASSUME NEW j \in DOMAIN c
               PROVE  \E q \in DOMAIN a : Spans(a[q], c[j])
    BY DEF Covers
  <1>1. PICK p \in DOMAIN b : Spans(b[p], c[j])
    BY DEF Covers
  <1>2. PICK q \in DOMAIN a : Spans(a[q], b[p])
    BY DEF Covers
  <1>3. a[q] \in Box /\ b[p] \in Box /\ c[j] \in Box
    OBVIOUS
  <1> QED
    BY <1>1, <1>2, <1>3, SpansTwice

\* A pass leaves no box out.
LEMMA MergePassCovers ==
    ASSUME NEW s \in Seq(Box), NEW twice
    PROVE  MergePass(s, twice) \in Seq(Box) /\ Covers(MergePass(s, twice), s)
  <1> DEFINE S == Seq(Box)
             n == Len(s)
             step == [k \in 1 .. n |-> [r \in S |-> Joined(r, s[k], twice)]]
             Is(f) == f = [k \in 0 .. n |-> IF k = 0 THEN <<>> ELSE Joined(f[k - 1], s[k], twice)]
             after == CHOOSE f : Is(f)
  <1>1. n \in Nat /\ DOMAIN s = 1 .. n /\ \A k \in 1 .. n : s[k] \in Box
    OBVIOUS
  <1>2. \E f \in [0 .. n -> S] : Is(f)
    <2>1. step \in [1 .. n -> [S -> S]]
      BY <1>1, JoinedCovers
    <2>2. \A k \in 1 .. n : \A r \in S : step[k][r] = Joined(r, s[k], twice)
      OBVIOUS
    <2>3. <<>> \in S
      OBVIOUS
    <2> HIDE DEF step, n, S
    <2>4. PICK f \in [0 .. n -> S] :
                 f[0] = <<>> /\ \A k \in 1 .. n : f[k] = step[k][f[k - 1]]
      <3>1. n \in Nat
        BY <1>1
      <3>2. \E f \in [0 .. n -> S] : Follows(f, <<>>, n, step)
        BY <2>1, <2>3, <3>1, Recursion, Zenon
      <3> QED
        BY <3>2 DEF Follows
    <2>5. \A k \in 1 .. n : f[k] = Joined(f[k - 1], s[k], twice)
      BY <1>1, <2>2, <2>4
    <2> QED
      BY <1>1, <2>4, <2>5
  <1>3. Is(after)
    BY <1>2, Zenon
  <1>4. MergePass(s, twice) = after[n]
    BY DEF MergePass
  <1> HIDE DEF after, step, S
  <1>5. after[0] = <<>> /\ \A k \in 1 .. n : after[k] = Joined(after[k - 1], s[k], twice)
    BY <1>1, <1>3
  <1> HIDE DEF n
  <1> DEFINE T == {k \in 0 .. n : /\ after[k] \in Seq(Box)
                                 /\ \A j \in 1 .. k : \E q \in DOMAIN after[k] : Spans(after[k][q], s[j])}
  <1>6. 0 \in T
    <2>1. 0 \in 0 .. n /\ after[0] \in Seq(Box) /\ 1 .. 0 = {}
      BY <1>1, <1>5
    <2> QED
      BY <2>1
  <1>7. ASSUME NEW k \in 1 .. n, k - 1 \in T
        PROVE  k \in T
    <2> DEFINE before == after[k - 1]
    <2>1. /\ before \in Seq(Box)
          /\ \A j \in 1 .. k - 1 : \E q \in DOMAIN before : Spans(before[q], s[j])
      BY <1>7
    <2>2. s[k] \in Box /\ after[k] = Joined(before, s[k], twice)
      BY <1>1, <1>5
    <2> HIDE DEF before
    <2>3. /\ after[k] \in Seq(Box) /\ Covers(after[k], before)
          /\ \E q \in DOMAIN after[k] : Spans(after[k][q], s[k])
      BY <2>1, <2>2, JoinedCovers
    <2>4. ASSUME NEW j \in 1 .. k
          PROVE  \E q \in DOMAIN after[k] : Spans(after[k][q], s[j])
      <3>1. CASE j = k
        BY <2>3, <3>1
      <3>2. CASE j # k
        <4>1. j \in 1 .. k - 1 /\ s[j] \in Box
          BY <1>1, <3>2
        <4>2. PICK p \in DOMAIN before : Spans(before[p], s[j])
          BY <2>1, <4>1
        <4>3. PICK q \in DOMAIN after[k] : Spans(after[k][q], before[p])
          BY <2>3 DEF Covers
        <4>4. before[p] \in Box /\ after[k][q] \in Box
          BY <2>1, <2>3
        <4> QED
          BY <4>1, <4>2, <4>3, <4>4, SpansTwice
      <3> QED
        BY <3>1, <3>2
    <2> QED
      BY <2>3, <2>4
  <1>8. n \in T
    <2> HIDE DEF T
    <2>1. 0 .. n \subseteq T
      BY <1>1, <1>6, <1>7, UpTo
    <2> QED
      BY <1>1, <2>1
  <1> QED
    BY <1>1, <1>4, <1>8 DEF Covers

\* merge_lines leaves no detected line out, whatever was merged into what.
LEMMA MergeLinesCovers ==
    ASSUME NEW s \in Seq(Box)
    PROVE  MergeLines(s) \in Seq(Box) /\ Covers(MergeLines(s), s)
  <1> DEFINE S == Seq(Box)
             key == [k \in DOMAIN s |-> <<s[k].top, s[k].left>>]
             ordered == Sorted(s, key)
             n == Len(ordered)
             twice == TwiceTypical(ordered)
             step == [k \in 1 .. n |-> [r \in S |-> MergePass(r, twice)]]
             Is(f) == f = [k \in 0 .. n |-> IF k = 0 THEN ordered ELSE MergePass(f[k - 1], twice)]
             after == CHOOSE f : Is(f)
  <1>0. \A k \in DOMAIN s : s[k] \in Box
    OBVIOUS
  <1>2. ordered \in S /\ Covers(ordered, s)
    <2>1. \A k \in DOMAIN s : s[k].top \in Int /\ s[k].left \in Int
      BY <1>0 DEF Box
    <2>2. key \in [DOMAIN s -> [1 .. 2 -> Int]]
      BY <2>1, KeysAreTuples
    <2> HIDE DEF key
    <2>3. ordered \in S /\ ToSet(ordered) = ToSet(s)
      BY <2>2, SortedElements
    <2> HIDE DEF ordered
    <2>4. \A k \in DOMAIN s : \E q \in DOMAIN ordered : ordered[q] = s[k]
      BY <2>3 DEF ToSet
    <2> QED
      BY <1>0, <2>3, <2>4, SpansItself DEF Covers
  <1>1. n \in Nat
    BY <1>2
  <1>3. MergeLines(s) = after[n]
    BY DEF MergeLines
  <1> HIDE DEF ordered, twice
  <1>4. \E f \in [0 .. n -> S] : Is(f)
    <2>1. step \in [1 .. n -> [S -> S]]
      BY MergePassCovers
    <2>2. \A k \in 1 .. n : \A r \in S : step[k][r] = MergePass(r, twice)
      OBVIOUS
    <2> HIDE DEF step, n, S
    <2>3. PICK f \in [0 .. n -> S] :
                 f[0] = ordered /\ \A k \in 1 .. n : f[k] = step[k][f[k - 1]]
      BY <1>1, <1>2, <2>1, Recursion DEF Follows
    <2>4. \A k \in 1 .. n : f[k] = MergePass(f[k - 1], twice)
      BY <1>1, <2>2, <2>3
    <2> QED
      BY <1>1, <2>3, <2>4
  <1>5. Is(after)
    BY <1>4, Zenon
  <1> HIDE DEF after, step
  <1>6. after[0] = ordered /\ \A k \in 1 .. n : after[k] = MergePass(after[k - 1], twice)
    BY <1>1, <1>5
  <1> HIDE DEF n, S
  <1> DEFINE T == {k \in 0 .. n : after[k] \in Seq(Box) /\ Covers(after[k], s)}
  <1>7. 0 \in T
    BY <1>1, <1>2, <1>6 DEF S
  <1>8. ASSUME NEW k \in 1 .. n, k - 1 \in T
        PROVE  k \in T
    <2>1. after[k - 1] \in Seq(Box) /\ Covers(after[k - 1], s)
      BY <1>8
    <2>2. after[k] \in Seq(Box) /\ Covers(after[k], after[k - 1])
      BY <1>6, <2>1, MergePassCovers
    <2> QED
      BY <2>1, <2>2, CoversTwice
  <1>9. n \in T
    <2> HIDE DEF T
    <2>1. 0 .. n \subseteq T
      BY <1>1, <1>7, <1>8, UpTo
    <2> QED
      BY <1>1, <2>1
  <1> QED
    BY <1>3, <1>9

\* The fields of a block.
IsBlock(b) == b = [id |-> b.id, page |-> b.page, text |-> b.text, box |-> b.box, conf |-> b.conf]

\* Numbering changes nothing else.
LEMMA AssignIdsKeeps ==
    ASSUME NEW T, \A b \in T : IsBlock(b), NEW s \in Seq(T)
    PROVE  /\ DOMAIN AssignIds(s) = DOMAIN s
           /\ AssignIds(s) \in Seq(ToSet(AssignIds(s)))
           /\ \A n \in DOMAIN s : /\ AssignIds(s)[n].text = s[n].text
                                 /\ AssignIds(s)[n].box = s[n].box /\ AssignIds(s)[n].id = n
  <1> DEFINE A == AssignIds(s)
  <1>1. A = [n \in DOMAIN s |-> [s[n] EXCEPT !.id = n]]
    BY DEF AssignIds
  <1>2. \A n \in DOMAIN s : A[n].text = s[n].text /\ A[n].box = s[n].box /\ A[n].id = n
    <2> SUFFICES ASSUME NEW n \in DOMAIN s
                 PROVE  A[n].text = s[n].text /\ A[n].box = s[n].box /\ A[n].id = n
      OBVIOUS
    <2>1. IsBlock(s[n])
      OBVIOUS
    <2>2. PICK i, p, t, b, c : s[n] = [id |-> i, page |-> p, text |-> t, box |-> b, conf |-> c]
      BY <2>1, Zenon DEF IsBlock
    <2>3. A[n] = [s[n] EXCEPT !.id = n]
      BY <1>1
    <2> HIDE DEF A
    <2> QED
      BY <2>2, <2>3
  <1>3. DOMAIN A = DOMAIN s
    BY <1>1
  <1>4. A \in Seq(ToSet(A))
    <2>1. DOMAIN A = 1 .. Len(s) /\ Len(s) \in Nat
      BY <1>3
    <2>2. A \in [1 .. Len(s) -> ToSet(A)]
      BY <1>1, <2>1 DEF ToSet
    <2> HIDE DEF A
    <2> QED
      BY <2>1, <2>2, FunctionIsList
  <1> QED
    BY <1>2, <1>3, <1>4

\* A crop holds every word of the page that its region spans.
LEMMA ClampSpans ==
    ASSUME NEW region \in Box, NEW box \in Box, NEW W \in Nat, NEW H \in Nat, NEW pad \in Nat,
           Spans(region, box), Spans(FromEdges(0, 0, W, H), box), box.width > 0, box.height > 0
    PROVE  /\ Clamp(region, W, H, pad) \in Box
           /\ Spans(Clamp(region, W, H, pad), box) /\ Area(Clamp(region, W, H, pad)) # 0
  <1> DEFINE l == Max({region.left - pad, 0})
             t == Max({region.top - pad, 0})
             r0 == Min({Right(region) + pad, W})
             m0 == Min({Bottom(region) + pad, H})
             r == Max({r0, l})
             m == Max({m0, t})
             crop == Clamp(region, W, H, pad)
  <1>2. /\ box.left \in Int /\ box.top \in Int /\ Right(box) \in Int /\ Bottom(box) \in Int
        /\ region.left \in Int /\ region.top \in Int /\ Right(region) \in Int /\ Bottom(region) \in Int
        /\ box.left < Right(box) /\ box.top < Bottom(box)
        /\ region.left <= box.left /\ region.top <= box.top
        /\ Right(box) <= Right(region) /\ Bottom(box) <= Bottom(region)
        /\ 0 <= box.left /\ 0 <= box.top /\ Right(box) <= W /\ Bottom(box) <= H
    BY DEF Box, Spans, Right, Bottom, FromEdges
  <1>3. /\ l \in Int /\ l <= box.left /\ t \in Int /\ t <= box.top
        /\ r0 \in Int /\ Right(box) <= r0 /\ m0 \in Int /\ Bottom(box) <= m0
    <2>1. /\ region.left - pad \in Int /\ region.top - pad \in Int /\ 0 \in Int
          /\ Right(region) + pad \in Int /\ Bottom(region) + pad \in Int /\ W \in Int /\ H \in Int
      BY <1>2
    <2>2. /\ l = (IF region.left - pad <= 0 THEN 0 ELSE region.left - pad)
          /\ t = (IF region.top - pad <= 0 THEN 0 ELSE region.top - pad)
          /\ r0 = (IF Right(region) + pad <= W THEN Right(region) + pad ELSE W)
          /\ m0 = (IF Bottom(region) + pad <= H THEN Bottom(region) + pad ELSE H)
      BY <2>1, Extremes, Zenon
    <2> HIDE DEF l, t, r0, m0
    <2> QED
      BY <1>2, <2>2
  <1>4. crop = [left |-> l, top |-> t, width |-> r - l, height |-> m - t]
    BY DEF Clamp, FromEdges
  <1> HIDE DEF l, t, r0, m0
  <1>5. /\ r \in Int /\ Right(box) <= r /\ m \in Int /\ Bottom(box) <= m
    <2>1. r = (IF r0 <= l THEN l ELSE r0) /\ m = (IF m0 <= t THEN t ELSE m0)
      BY <1>3, Extremes, Zenon
    <2> HIDE DEF r, m
    <2> QED
      BY <1>2, <1>3, <2>1
  <1> HIDE DEF r, m, crop
  <1>6. /\ crop.left = l /\ crop.top = t /\ crop.width = r - l /\ crop.height = m - t
        /\ Right(crop) = r /\ Bottom(crop) = m
    BY <1>3, <1>4, <1>5 DEF Right, Bottom
  <1>7. crop \in Box
    BY <1>3, <1>4, <1>5 DEF Box
  <1>8. Spans(crop, box)
    BY <1>3, <1>5, <1>6 DEF Spans
  <1>9. r - l \in Nat \ {0} /\ m - t \in Nat \ {0}
    BY <1>2, <1>3, <1>5
  <1>10. Area(crop) # 0
    <2>1. Max({crop.width, 0}) = r - l /\ Max({crop.height, 0}) = m - t
      <3>1. crop.width \in Int /\ crop.height \in Int /\ 0 \in Int
        BY <1>6, <1>9
      <3>2. /\ Max({crop.width, 0}) = (IF crop.width <= 0 THEN 0 ELSE crop.width)
            /\ Max({crop.height, 0}) = (IF crop.height <= 0 THEN 0 ELSE crop.height)
        BY <3>1, Extremes, Zenon
      <3> QED
        BY <1>6, <1>9, <3>2
    <2>2. \A i, j \in Nat \ {0} : i * j # 0
      OBVIOUS
    <2> QED
      BY <1>9, <2>1, <2>2 DEF Area
  <1> QED
    BY <1>7, <1>8, <1>10 DEF crop

\* What is used of a word.
LEMMA WordFields ==
    ASSUME NEW w \in WordRow
    PROVE  w.page \in Int /\ w.block \in Int /\ w.line \in Int /\ w.box \in Box
  BY DEF WordRow

\* The text of a region holds the words its crop spans.
LEMMA CropText ==
    ASSUME NEW words \in Seq(WordRow), NEW region, NEW W, NEW H, NEW pad
    PROVE  /\ IsBlock(CropOf(words, region, W, H, pad))
           /\ CropOf(words, region, W, H, pad).box = Clamp(region, W, H, pad)
           /\ CropOf(words, region, W, H, pad).text \in Seq(WordRow)
           /\ ToSet(CropOf(words, region, W, H, pad).text)
                 = {w \in ToSet(words) : /\ Area(Clamp(region, W, H, pad)) # 0
                                        /\ Spans(Clamp(region, W, H, pad), w.box)}
  <1> DEFINE crop == Clamp(region, W, H, pad)
             places == {n \in DOMAIN words : Area(crop) # 0 /\ Spans(crop, words[n].box)}
             own == Picked(words, places)
             key == [n \in DOMAIN own |-> <<own[n].block, own[n].line>>]
             conf == MeanOf([n \in DOMAIN own |-> own[n].conf])
             block == CropOf(words, region, W, H, pad)
  <1>1. block = [id |-> 0, page |-> 1, text |-> Sorted(own, key), box |-> crop, conf |-> conf]
    BY Zenon DEF CropOf
  <1>2. own \in Seq(WordRow) /\ ToSet(own) = {words[n] : n \in places}
    <2> HIDE DEF crop
    <2>1. places \in SUBSET DOMAIN words
      OBVIOUS
    <2> HIDE DEF places
    <2> QED
      BY <2>1, PickedElements
  <1> HIDE DEF own, conf, block
  <1>3. ToSet(Sorted(own, key)) = ToSet(own) /\ Sorted(own, key) \in Seq(WordRow)
    <2>1. \A n \in DOMAIN own : own[n].block \in Int /\ own[n].line \in Int
      BY <1>2, WordFields
    <2>2. key \in [DOMAIN own -> [1 .. 2 -> Int]]
      BY <2>1, KeysAreTuples
    <2> HIDE DEF key
    <2> QED
      BY <1>2, <2>2, SortedElements
  <1> HIDE DEF key
  <1>4. block.text = Sorted(own, key) /\ IsBlock(block) /\ block.box = crop
    BY <1>1 DEF IsBlock
  <1>5. {words[n] : n \in places} = {w \in ToSet(words) : Area(crop) # 0 /\ Spans(crop, w.box)}
    <2> HIDE DEF crop
    <2> QED
      BY DEF ToSet
  <1> QED
    BY <1>2, <1>3, <1>4, <1>5 DEF block

\* The regions in reading order, what each of them reads as, and which read as
\* something.
Regions(regions, W) ==
    ReadingOrder([n \in DOMAIN regions |-> [box |-> regions[n], page |-> 1]], W)

Crops(words, ordered, W, H, pad) ==
    [n \in DOMAIN ordered |-> CropOf(words, ordered[n].box, W, H, pad)]

Legible(crops) == {n \in DOMAIN crops : crops[n].text # <<>>}

\* Every region has its place.
LEMMA RegionsInOrder ==
    ASSUME NEW regions \in Seq(Box), NEW W
    PROVE  /\ Regions(regions, W) \in Seq([box : Box, page : {1}])
           /\ \A j \in DOMAIN regions :
                 \E n \in DOMAIN Regions(regions, W) : Regions(regions, W)[n].box = regions[j]
  <1> DEFINE boxed == [n \in DOMAIN regions |-> [box |-> regions[n], page |-> 1]]
             ordered == Regions(regions, W)
             T == [box : Box, page : {1}]
  <1>1. boxed \in Seq(T) /\ Len(boxed) = Len(regions) /\ DOMAIN boxed = DOMAIN regions
    <2>1. DOMAIN regions = 1 .. Len(regions) /\ Len(regions) \in Nat
      OBVIOUS
    <2>2. boxed \in [1 .. Len(regions) -> T]
      BY <2>1
    <2> HIDE DEF boxed, T
    <2> QED
      BY <2>1, <2>2, FunctionIsList
  <1>2. \A b \in T : b.page \in Int /\ b.box.left \in Int /\ b.box.top \in Int
    BY DEF Box
  <1>3. \A j \in DOMAIN regions : boxed[j].box = regions[j]
    OBVIOUS
  <1>4. ordered = ReadingOrder(boxed, W)
    BY DEF Regions
  <1> HIDE DEF boxed, T, ordered
  <1>5. ordered \in Seq(T) /\ Len(ordered) = Len(regions) /\ Rearranged(boxed, ordered)
    BY <1>1, <1>2, <1>4, ReadingOrderKeeps
  <1>6. \A j \in DOMAIN regions : \E n \in DOMAIN ordered : ordered[n].box = regions[j]
    <2>1. PICK place \in [DOMAIN boxed -> DOMAIN boxed] :
                 /\ \A n \in DOMAIN boxed : \E k \in DOMAIN boxed : place[k] = n
                 /\ \A k \in DOMAIN boxed : ordered[k] = boxed[place[k]]
      BY <1>5 DEF Rearranged
    <2>2. DOMAIN ordered = DOMAIN boxed
      BY <1>1, <1>5
    <2> SUFFICES ASSUME NEW j \in DOMAIN regions
                 PROVE  \E n \in DOMAIN ordered : ordered[n].box = regions[j]
      OBVIOUS
    <2>3. PICK k \in DOMAIN boxed : place[k] = j
      BY <1>1, <2>1
    <2>4. k \in DOMAIN ordered /\ ordered[k] = boxed[j]
      BY <2>1, <2>2, <2>3
    <2> QED
      BY <1>3, <2>4
  <1> QED
    BY <1>5, <1>6 DEF ordered, T

\* _recognise: a block for each region that reads as something.
LEMMA ReadRegions ==
    ASSUME NEW words \in Seq(WordRow), NEW regions \in Seq(Box), NEW W, NEW H, NEW pad
    PROVE  LET ordered == Regions(regions, W)
               crops == Crops(words, ordered, W, H, pad)
           IN /\ Recognise(words, regions, W, H, pad) = AssignIds(Picked(crops, Legible(crops)))
              /\ crops \in Seq(ToSet(crops)) /\ DOMAIN crops = DOMAIN ordered
              /\ \A n \in DOMAIN ordered : crops[n] = CropOf(words, ordered[n].box, W, H, pad)
              /\ \A b \in ToSet(crops) : IsBlock(b)
              /\ Picked(crops, Legible(crops)) \in Seq(ToSet(crops))
  <1> DEFINE ordered == Regions(regions, W)
             crops == Crops(words, ordered, W, H, pad)
  <1>5. ordered \in Seq([box : Box, page : {1}])
    BY RegionsInOrder
  <1> HIDE DEF ordered
  <1>7. /\ DOMAIN crops = DOMAIN ordered
        /\ \A n \in DOMAIN ordered : crops[n] = CropOf(words, ordered[n].box, W, H, pad)
    BY DEF Crops
  <1>8. crops \in Seq(ToSet(crops)) /\ List(crops) = crops
    <2>1. DOMAIN ordered = 1 .. Len(ordered) /\ Len(ordered) \in Nat
      BY <1>5
    <2>2. crops \in [1 .. Len(ordered) -> ToSet(crops)]
      BY <2>1 DEF ToSet, Crops
    <2> HIDE DEF crops
    <2> QED
      BY <2>1, <2>2, FunctionIsList
  <1>9. Recognise(words, regions, W, H, pad) = AssignIds(Picked(crops, Legible(crops)))
    <2>1. Recognise(words, regions, W, H, pad) = AssignIds(Picked(List(crops), Legible(List(crops))))
      BY Zenon DEF Recognise, ordered, Regions, Crops, Legible
    <2> HIDE DEF crops
    <2> QED
      BY <1>8, <2>1
  <1> HIDE DEF crops
  <1>10. \A b \in ToSet(crops) : IsBlock(b)
    BY <1>7, CropText DEF ToSet
  <1>11. Picked(crops, Legible(crops)) \in Seq(ToSet(crops))
    <2>1. Legible(crops) \in SUBSET DOMAIN crops
      BY DEF Legible
    <2> QED
      BY <1>8, <2>1, PickedElements
  <1> QED
    BY <1>7, <1>8, <1>9, <1>10, <1>11 DEF crops, ordered

\* Reading by regions loses nothing that a region spans.
LEMMA RecogniseKeeps ==
    ASSUME NEW words \in Seq(WordRow), NEW regions \in Seq(Box), NEW W \in Nat, NEW H \in Nat,
           NEW pad \in Nat
    PROVE  LET R == Recognise(words, regions, W, H, pad) IN
           /\ R \in Seq(ToSet(R))
           /\ \A j \in DOMAIN regions : \A w \in ToSet(words) :
                 /\ Spans(regions[j], w.box) /\ Spans(FromEdges(0, 0, W, H), w.box)
                 /\ w.box.width > 0 /\ w.box.height > 0
                 => \E n \in DOMAIN R : w \in ToSet(R[n].text)
  <1> DEFINE R == Recognise(words, regions, W, H, pad)
             ordered == Regions(regions, W)
             crops == Crops(words, ordered, W, H, pad)
             kept == Picked(crops, Legible(crops))
  <1>5. \A j \in DOMAIN regions : \E n \in DOMAIN ordered : ordered[n].box = regions[j]
    BY RegionsInOrder
  <1>6. crops \in Seq(ToSet(crops)) /\ DOMAIN crops = DOMAIN ordered
    BY ReadRegions
  <1>7. R = AssignIds(kept)
    BY ReadRegions
  <1>8. \A n \in DOMAIN ordered : crops[n] = CropOf(words, ordered[n].box, W, H, pad)
    BY ReadRegions
  <1>9. \A b \in ToSet(crops) : IsBlock(b)
    BY ReadRegions
  <1> HIDE DEF crops, R, ordered
  <1>10. kept \in Seq(ToSet(crops)) /\ ToSet(kept) = {crops[n] : n \in Legible(crops)}
    <2>1. Legible(crops) \in SUBSET DOMAIN crops
      BY DEF Legible
    <2> QED
      BY <1>6, <2>1, PickedElements
  <1> HIDE DEF kept
  <1>11. /\ DOMAIN R = DOMAIN kept /\ R \in Seq(ToSet(R))
         /\ \A n \in DOMAIN kept : R[n].text = kept[n].text
    BY <1>7, <1>9, <1>10, AssignIdsKeeps
  <1>12. ASSUME NEW j \in DOMAIN regions, NEW w \in ToSet(words),
                Spans(regions[j], w.box), Spans(FromEdges(0, 0, W, H), w.box),
                w.box.width > 0, w.box.height > 0
         PROVE  \E n \in DOMAIN R : w \in ToSet(R[n].text)
    <2>1. PICK k \in DOMAIN ordered : ordered[k].box = regions[j]
      BY <1>5
    <2>2. regions[j] \in Box /\ w.box \in Box
      <3>1. PICK n \in DOMAIN words : words[n] = w
        BY DEF ToSet
      <3>2. w \in WordRow
        BY <3>1
      <3> QED
        BY <3>2, WordFields
    <2>3. Spans(Clamp(regions[j], W, H, pad), w.box) /\ Area(Clamp(regions[j], W, H, pad)) # 0
      BY <1>12, <2>2, ClampSpans
    <2>4. w \in ToSet(crops[k].text)
      BY <1>8, <2>1, <2>3, CropText
    <2>5. crops[k].text # <<>>
      BY <2>4 DEF ToSet
    <2>6. crops[k] \in ToSet(kept)
      BY <1>6, <1>10, <2>5 DEF Legible
    <2>7. PICK n \in DOMAIN kept : kept[n] = crops[k]
      BY <2>6 DEF ToSet
    <2> QED
      BY <1>11, <2>4, <2>7
  <1> QED
    BY <1>11, <1>12 DEF R

\* A list has finitely many elements.
LEMMA ImageIsFinite ==
    ASSUME NEW n \in Nat, NEW f, DOMAIN f = 1 .. n
    PROVE  IsFiniteSet({f[k] : k \in 1 .. n})
  <1> DEFINE T == {f[k] : k \in 1 .. n}
             g == [k \in 1 .. n |-> f[k]]
  <1>1. IsFiniteSet(1 .. n)
    BY FS_Interval
  <1>2. g \in Surjection(1 .. n, T)
    BY DEF Surjection
  <1> HIDE DEF T, g
  <1>3. IsFiniteSet(T)
    BY <1>1, <1>2, FS_Surjection
  <1> QED
    BY <1>3 DEF T

\* The words of a paragraph, and what bounds some words.
WordsOf(words, p) == {w \in ToSet(words) : Paragraph(w) = p}

Bounds(W) ==
    FromEdges(Min({w.box.left : w \in W}), Min({w.box.top : w \in W}),
              Max({Right(w.box) : w \in W}), Max({Bottom(w.box) : w \in W}))

\* A paragraph's block holds its words, bounds them, and has a corner.
LEMMA ParagraphBlock ==
    ASSUME NEW words \in Seq(WordRow), NEW i \in DOMAIN words
    PROVE  LET p == Paragraph(words[i])
               b == BlockOf(words, p)
           IN /\ IsBlock(b)
              /\ ToSet(b.text) = WordsOf(words, p) /\ b.box = Bounds(WordsOf(words, p))
              /\ b.page = p[1]
              /\ b.page \in Int /\ b.box.left \in Int /\ b.box.top \in Int
  <1> DEFINE p == Paragraph(words[i])
             b == BlockOf(words, p)
             places == {n \in DOMAIN words : Paragraph(words[n]) = p}
             own == Picked(words, places)
             key == [n \in DOMAIN own |-> <<own[n].line>>]
             conf == MeanOf([n \in DOMAIN own |-> own[n].conf])
  <1>1. b = [id |-> 0, page |-> p[1], text |-> Sorted(own, key), box |-> Bounding(own), conf |-> conf]
    BY Zenon DEF BlockOf
  <1> HIDE DEF b
  <1>2. p[1] \in Int
    <2>1. words[i] \in WordRow
      OBVIOUS
    <2> QED
      BY <2>1, WordFields DEF Paragraph
  <1>3. own \in Seq(WordRow) /\ ToSet(own) = {words[n] : n \in places}
    <2>1. places \in SUBSET DOMAIN words
      OBVIOUS
    <2> HIDE DEF places
    <2> QED
      BY <2>1, PickedElements
  <1>4. i \in places
    OBVIOUS
  <1>5. {words[n] : n \in places} = {w \in ToSet(words) : Paragraph(w) = p}
    <2> HIDE DEF p
    <2> QED
      BY DEF ToSet
  <1> HIDE DEF own, conf, p, places
  <1>6. ToSet(Sorted(own, key)) = ToSet(own)
    <2>1. \A n \in DOMAIN own : own[n].line \in Int
      BY <1>3, WordFields
    <2>2. key \in [DOMAIN own -> [1 .. 1 -> Int]]
      BY <2>1, KeysAreTuples
    <2> HIDE DEF key
    <2> QED
      BY <1>3, <2>2, SortedElements
  <1> HIDE DEF key
  <1>7. Bounding(own).left \in Int /\ Bounding(own).top \in Int
    <2>1. /\ DOMAIN own = 1 .. Len(own) /\ Len(own) \in Nat /\ DOMAIN own # {}
          /\ \A n \in DOMAIN own : own[n].box.left \in Int /\ own[n].box.top \in Int
      <3>1. DOMAIN own # {}
        BY <1>3, <1>4 DEF ToSet
      <3>2. \A n \in DOMAIN own : own[n].box \in Box
        BY <1>3, WordFields
      <3> QED
        BY <1>3, <3>1, <3>2 DEF Box
    <2> DEFINE ls == {w.box.left : w \in ToSet(own)}
               ts == {w.box.top : w \in ToSet(own)}
               lf == [n \in DOMAIN own |-> own[n].box.left]
               tf == [n \in DOMAIN own |-> own[n].box.top]
    <2>2. /\ ls = {lf[n] : n \in 1 .. Len(own)} /\ ls \in SUBSET Int /\ ls # {}
          /\ ts = {tf[n] : n \in 1 .. Len(own)} /\ ts \in SUBSET Int /\ ts # {}
      BY <2>1 DEF ToSet
    <2>3. DOMAIN lf = 1 .. Len(own) /\ DOMAIN tf = 1 .. Len(own)
      BY <2>1
    <2>4. Bounding(own).left = Min(ls) /\ Bounding(own).top = Min(ts)
      BY DEF Bounding, FromEdges
    <2> HIDE DEF ls, ts, lf, tf
    <2>5. IsFiniteSet(ls) /\ IsFiniteSet(ts)
      BY <2>1, <2>2, <2>3, ImageIsFinite
    <2>6. Min(ls) \in ls /\ Min(ts) \in ts
      <3>1. /\ \E m \in ls : \A k \in ls : m <= k
            /\ \E m \in ts : \A k \in ts : m <= k
        BY <2>2, <2>5, FiniteMin
      <3> QED
        BY <3>1 DEF Min
    <2> QED
      BY <2>2, <2>4, <2>6
  <1>8. /\ b.text = Sorted(own, key) /\ b.page = p[1] /\ b.box = Bounding(own) /\ IsBlock(b)
    BY <1>1 DEF IsBlock
  <1>9. ToSet(own) = WordsOf(words, p)
    BY <1>3, <1>5 DEF WordsOf
  <1>10. Bounding(own) = Bounds(ToSet(own))
    BY Zenon DEF Bounding, Bounds
  <1>11. /\ IsBlock(b)
         /\ ToSet(b.text) = WordsOf(words, p) /\ b.box = Bounds(WordsOf(words, p))
         /\ b.page = p[1]
         /\ b.page \in Int /\ b.box.left \in Int /\ b.box.top \in Int
    BY <1>2, <1>6, <1>7, <1>8, <1>9, <1>10
  <1> QED
    BY <1>11 DEF b, p

\* The paragraphs of a page, in the order they are met.
Paragraphs(words) == Distinct([n \in DOMAIN words |-> Paragraph(words[n])])

\* group_into_blocks: a block for each paragraph.
LEMMA GroupedBlocks ==
    ASSUME NEW words \in Seq(WordRow)
    PROVE  LET P == Paragraphs(words)
               G == GroupIntoBlocks(words)
           IN /\ G \in Seq(ToSet(G)) /\ DOMAIN G = DOMAIN P
              /\ \A n \in DOMAIN G : G[n] = BlockOf(words, P[n])
              /\ \A n \in DOMAIN P : \E i \in DOMAIN words : P[n] = Paragraph(words[i])
              /\ \A i \in DOMAIN words : \E n \in DOMAIN P : P[n] = Paragraph(words[i])
              /\ \A j, k \in DOMAIN P : P[j] = P[k] => j = k
              /\ \A b \in ToSet(G) : /\ IsBlock(b)
                                     /\ b.page \in Int /\ b.box.left \in Int /\ b.box.top \in Int
  <1> DEFINE all == [n \in DOMAIN words |-> Paragraph(words[n])]
             P == Paragraphs(words)
             made == [n \in DOMAIN P |-> BlockOf(words, P[n])]
             G == GroupIntoBlocks(words)
  <1>1. P = Distinct(all) /\ G = List(made)
    BY Zenon DEF Paragraphs, GroupIntoBlocks
  <1> HIDE DEF G, P
  <1>2. all \in Seq(ToSet(all)) /\ ToSet(all) = {Paragraph(words[n]) : n \in DOMAIN words}
    <2>1. DOMAIN words = 1 .. Len(words) /\ Len(words) \in Nat
      OBVIOUS
    <2>2. all \in [1 .. Len(words) -> ToSet(all)]
      BY <2>1 DEF ToSet
    <2>3. ToSet(all) = {Paragraph(words[n]) : n \in DOMAIN words}
      BY DEF ToSet
    <2> HIDE DEF all
    <2> QED
      BY <2>1, <2>2, <2>3, FunctionIsList
  <1> HIDE DEF all
  <1>3. /\ P \in Seq(ToSet(all)) /\ ToSet(P) = ToSet(all)
        /\ \A j, k \in DOMAIN P : P[j] = P[k] => j = k
    BY <1>1, <1>2, DistinctElements
  <1>4. \A n \in DOMAIN P : \E i \in DOMAIN words : P[n] = Paragraph(words[i])
    BY <1>2, <1>3
  <1>5. \A i \in DOMAIN words : \E n \in DOMAIN P : P[n] = Paragraph(words[i])
    BY <1>2, <1>3 DEF ToSet
  <1>6. made \in Seq(ToSet(made)) /\ G = made /\ DOMAIN made = DOMAIN P
    <2>1. DOMAIN P = 1 .. Len(P) /\ Len(P) \in Nat
      BY <1>3
    <2>2. made \in [1 .. Len(P) -> ToSet(made)] /\ DOMAIN made = DOMAIN P
      BY <2>1 DEF ToSet
    <2> HIDE DEF made
    <2> QED
      BY <1>1, <2>1, <2>2, FunctionIsList
  <1>7. \A n \in DOMAIN P : made[n] = BlockOf(words, P[n])
    OBVIOUS
  <1> HIDE DEF made
  <1>8. ASSUME NEW b \in ToSet(made)
        PROVE  /\ IsBlock(b)
               /\ b.page \in Int /\ b.box.left \in Int /\ b.box.top \in Int
    <2>1. PICK n \in DOMAIN P : b = made[n]
      BY <1>6 DEF ToSet
    <2>2. PICK i \in DOMAIN words : P[n] = Paragraph(words[i])
      BY <1>4
    <2> QED
      BY <1>7, <2>1, <2>2, ParagraphBlock
  <1> QED
    BY <1>3, <1>4, <1>5, <1>6, <1>7, <1>8 DEF G, P

\* Reading a whole page puts every word into one block.
LEMMA AssembleKeeps ==
    ASSUME NEW words \in Seq(WordRow), NEW width
    PROVE  LET A == Assemble(words, width) IN
           /\ A \in Seq(ToSet(A))
           /\ \A w \in ToSet(words) : Cardinality({n \in DOMAIN A : w \in ToSet(A[n].text)}) = 1
  <1> DEFINE paragraphs == Paragraphs(words)
             made == GroupIntoBlocks(words)
             T == ToSet(made)
             ordered == ReadingOrder(made, width)
             A == Assemble(words, width)
  <1>1. A = AssignIds(ordered)
    BY DEF Assemble
  <1> HIDE DEF A
  <1>2. /\ made \in Seq(T) /\ DOMAIN made = DOMAIN paragraphs
        /\ \A n \in DOMAIN made : made[n] = BlockOf(words, paragraphs[n])
        /\ \A n \in DOMAIN paragraphs : \E i \in DOMAIN words : paragraphs[n] = Paragraph(words[i])
        /\ \A i \in DOMAIN words : \E n \in DOMAIN paragraphs : paragraphs[n] = Paragraph(words[i])
        /\ \A j, k \in DOMAIN paragraphs : paragraphs[j] = paragraphs[k] => j = k
    BY GroupedBlocks
  <1>9. \A b \in T : IsBlock(b) /\ b.page \in Int /\ b.box.left \in Int /\ b.box.top \in Int
    BY GroupedBlocks
  <1> HIDE DEF made, paragraphs
  <1>8. ASSUME NEW n \in DOMAIN paragraphs
        PROVE  ToSet(made[n].text) = WordsOf(words, paragraphs[n])
    <2>1. PICK i \in DOMAIN words : paragraphs[n] = Paragraph(words[i])
      BY <1>2
    <2> QED
      BY <1>2, <2>1, ParagraphBlock
  <1> HIDE DEF T
  <1>10. ordered \in Seq(T) /\ Len(ordered) = Len(made) /\ Rearranged(made, ordered)
    BY <1>2, <1>9, ReadingOrderKeeps
  <1> HIDE DEF ordered
  <1>11. /\ DOMAIN A = DOMAIN ordered /\ A \in Seq(ToSet(A))
         /\ \A n \in DOMAIN ordered : A[n].text = ordered[n].text
    BY <1>1, <1>9, <1>10, AssignIdsKeeps
  <1>12. DOMAIN ordered = DOMAIN made
    BY <1>2, <1>10
  <1>13. PICK place \in [DOMAIN made -> DOMAIN made] :
                /\ \A n \in DOMAIN made : \E k \in DOMAIN made : place[k] = n
                /\ \A j, k \in DOMAIN made : place[j] = place[k] => j = k
                /\ \A k \in DOMAIN made : ordered[k] = made[place[k]]
    BY <1>10 DEF Rearranged
  <1>14. ASSUME NEW w \in ToSet(words)
         PROVE  Cardinality({n \in DOMAIN A : w \in ToSet(A[n].text)}) = 1
    <2>1. PICK i \in DOMAIN words : words[i] = w
      BY DEF ToSet
    <2>2. PICK n \in DOMAIN paragraphs : paragraphs[n] = Paragraph(w)
      BY <1>2, <2>1
    <2>3. PICK k \in DOMAIN made : place[k] = n
      BY <1>2, <1>13, <2>2
    <2>4. \A m \in DOMAIN A : w \in ToSet(A[m].text) <=> paragraphs[place[m]] = Paragraph(w)
      <3> SUFFICES ASSUME NEW m \in DOMAIN A
                   PROVE  w \in ToSet(A[m].text) <=> paragraphs[place[m]] = Paragraph(w)
        OBVIOUS
      <3>1. m \in DOMAIN made /\ place[m] \in DOMAIN paragraphs
        BY <1>2, <1>11, <1>12, <1>13
      <3>2. A[m].text = made[place[m]].text
        BY <1>11, <1>12, <1>13, <3>1
      <3> QED
        BY <1>8, <3>1, <3>2 DEF WordsOf
    <2>5. {m \in DOMAIN A : w \in ToSet(A[m].text)} = {k}
      <3>1. \A m \in DOMAIN A : paragraphs[place[m]] = Paragraph(w) <=> m = k
        <4> SUFFICES ASSUME NEW m \in DOMAIN A
                     PROVE  paragraphs[place[m]] = Paragraph(w) <=> m = k
          OBVIOUS
        <4>1. m \in DOMAIN made /\ place[m] \in DOMAIN paragraphs
          BY <1>2, <1>11, <1>12, <1>13
        <4>2. paragraphs[place[m]] = Paragraph(w) => place[m] = place[k]
          BY <1>2, <2>2, <2>3, <4>1
        <4> QED
          BY <1>13, <2>2, <2>3, <4>1, <4>2
      <3>2. k \in DOMAIN A
        BY <1>11, <1>12
      <3> QED
        BY <2>4, <3>1, <3>2
    <2> QED
      BY <2>5, FS_Singleton
  <1> QED
    BY <1>11, <1>14 DEF A

\* What is recognised are some of the words.
LEMMA RecognisedWords ==
    ASSUME NEW words \in Seq(WordRow)
    PROVE  Recognised(words) \in Seq(WordRow) /\ ToSet(Recognised(words)) \subseteq ToSet(words)
  <1> DEFINE places == {n \in DOMAIN words : words[n].text # "" /\ words[n].conf >= 0}
  <1>1. places \in SUBSET DOMAIN words /\ Recognised(words) = Picked(words, places)
    BY DEF Recognised
  <1> HIDE DEF places
  <1>2. /\ Picked(words, places) \in Seq(WordRow)
        /\ ToSet(Picked(words, places)) = {words[n] : n \in places}
    BY <1>1, PickedElements
  <1> QED
    BY <1>1, <1>2 DEF ToSet

-----------------------------------------------------------------------------
(* Reading order: columns are told by the edges of the blocks, so that blocks *)
(* at the same corners are read in the same order.                            *)

\* Where a column starts, told by its blocks' pages and left edges alone: at a left
\* edge with none of its page within the gap before it.
StartKeys(K, gap) == {k \in K : \A l \in K : l[1] = k[1] /\ l[2] < k[2] => k[2] - l[2] > gap}

\* The number of a block's column, told alike.
ColumnOf(k, K, gap) ==
    Cardinality({l \in StartKeys(K, gap) : l[1] < k[1] \/ (l[1] = k[1] /\ l[2] <= k[2])})

\* A block starts a column just where its edge does.
LEMMA StartsAreKeys ==
    ASSUME NEW N \in Nat, NEW pages \in [1 .. N -> Int], NEW lefts \in [1 .. N -> Int],
           NEW gap \in Nat,
           \A i, j \in 1 .. N : i < j =>
               pages[i] < pages[j] \/ (pages[i] = pages[j] /\ lefts[i] <= lefts[j]),
           NEW n \in 1 .. N
    PROVE  LET Starts(m) ==
                   m = 1 \/ pages[m] # pages[m - 1] \/ lefts[m] - lefts[m - 1] > gap
           IN Cardinality({m \in 1 .. n : Starts(m)})
                 = ColumnOf(<<pages[n], lefts[n]>>, {<<pages[i], lefts[i]>> : i \in 1 .. N}, gap)
  <1> DEFINE Starts(m) == m = 1 \/ pages[m] # pages[m - 1] \/ lefts[m] - lefts[m - 1] > gap
             K == {<<pages[i], lefts[i]>> : i \in 1 .. N}
             M == {m \in 1 .. n : Starts(m)}
             C == {l \in StartKeys(K, gap) :
                      l[1] < pages[n] \/ (l[1] = pages[n] /\ l[2] <= lefts[n])}
             key == [m \in M |-> <<pages[m], lefts[m]>>]
  <1>1. /\ \A i \in 1 .. N : pages[i] \in Int /\ lefts[i] \in Int
        /\ \A i, j \in 1 .. N : i <= j =>
               pages[i] < pages[j] \/ (pages[i] = pages[j] /\ lefts[i] <= lefts[j])
    <2>1. \A i \in 1 .. N : pages[i] \in Int /\ lefts[i] \in Int
      OBVIOUS
    <2>2. ASSUME NEW i \in 1 .. N, NEW j \in 1 .. N, i <= j
          PROVE  pages[i] < pages[j] \/ (pages[i] = pages[j] /\ lefts[i] <= lefts[j])
      <3>1. CASE i = j
        BY <2>1, <3>1
      <3>2. CASE i < j
        BY <3>2
      <3> QED
        BY <2>2, <3>1, <3>2
    <2> QED
      BY <2>1, <2>2
  \* A start is a key that starts, up to the key of n.
  <1>2. ASSUME NEW m \in M
        PROVE  <<pages[m], lefts[m]>> \in C
    <2>1. m \in 1 .. N /\ m <= n /\ Starts(m)
      OBVIOUS
    <2>2. pages[m] < pages[n] \/ (pages[m] = pages[n] /\ lefts[m] <= lefts[n])
      BY <1>1, <2>1
    <2>3. ASSUME NEW j \in 1 .. N, pages[j] = pages[m], lefts[j] < lefts[m]
          PROVE  lefts[m] - lefts[j] > gap
      <3>1. j < m
        <4> SUFFICES ASSUME m <= j PROVE FALSE
          BY <2>1
        <4> QED
          BY <1>1, <2>1, <2>3
      <3>2. m - 1 \in 1 .. N /\ j <= m - 1
        BY <2>1, <3>1
      <3>3. /\ pages[j] < pages[m - 1] \/ (pages[j] = pages[m - 1] /\ lefts[j] <= lefts[m - 1])
            /\ pages[m - 1] < pages[m] \/ (pages[m - 1] = pages[m] /\ lefts[m - 1] <= lefts[m])
        BY <1>1, <2>1, <3>2
      <3>4. pages[m - 1] = pages[m] /\ lefts[j] <= lefts[m - 1]
        BY <1>1, <2>1, <2>3, <3>2, <3>3
      <3>5. lefts[m] - lefts[m - 1] > gap
        BY <2>1, <3>1, <3>4
      <3> QED
        BY <1>1, <2>1, <3>2, <3>4, <3>5
    <2>4. <<pages[m], lefts[m]>> \in K
      BY <2>1
    <2>5. <<pages[m], lefts[m]>> \in StartKeys(K, gap)
      BY <2>3, <2>4 DEF StartKeys
    <2> QED
      BY <2>2, <2>5
  \* No two starts have one key.
  <1>3. ASSUME NEW j \in M, NEW m \in M, pages[j] = pages[m], lefts[j] = lefts[m], j < m
        PROVE  FALSE
    <2>1. j \in 1 .. N /\ m \in 1 .. N /\ m - 1 \in 1 .. N /\ j <= m - 1 /\ m - 1 <= m /\ Starts(m)
      BY <1>3
    <2>2. /\ pages[j] < pages[m - 1] \/ (pages[j] = pages[m - 1] /\ lefts[j] <= lefts[m - 1])
          /\ pages[m - 1] < pages[m] \/ (pages[m - 1] = pages[m] /\ lefts[m - 1] <= lefts[m])
      BY <1>1, <2>1
    <2>3. pages[m - 1] = pages[m] /\ lefts[m - 1] = lefts[m]
      BY <1>1, <1>3, <2>1, <2>2
    <2> QED
      BY <1>1, <1>3, <2>1, <2>3
  \* Every key that starts is that of a start: its first place.
  <1>4. ASSUME NEW l \in C
        PROVE  \E m \in M : l = <<pages[m], lefts[m]>>
    <2> DEFINE first == {i \in 1 .. N : l = <<pages[i], lefts[i]>>}
    <2>1. l \in K /\ \A k \in K : k[1] = l[1] /\ k[2] < l[2] => l[2] - k[2] > gap
      BY DEF StartKeys
    <2>2. first \in SUBSET Nat /\ first # {}
      <3>1. PICK i \in 1 .. N : l = <<pages[i], lefts[i]>>
        BY <2>1
      <3>2. i \in first
        BY <3>1, Zenon
      <3>3. first \subseteq 1 .. N /\ 1 .. N \subseteq Nat
        OBVIOUS
      <3> HIDE DEF first
      <3> QED
        BY <3>2, <3>3
    <2>3. PICK m \in first : \A i \in first : m <= i
      <3> HIDE DEF first
      <3> QED
        BY <2>2, NatLeast
    <2>4. m \in 1 .. N /\ l = <<pages[m], lefts[m]>> /\ l[1] = pages[m] /\ l[2] = lefts[m]
      BY <2>3
    <2>5. m <= n
      <3> SUFFICES ASSUME n < m PROVE FALSE
        BY <2>4
      <3>1. pages[n] < pages[m] \/ (pages[n] = pages[m] /\ lefts[n] <= lefts[m])
        BY <1>1, <2>4
      <3>2. l[1] < pages[n] \/ (l[1] = pages[n] /\ l[2] <= lefts[n])
        OBVIOUS
      <3>3. pages[n] = pages[m] /\ lefts[n] = lefts[m]
        BY <1>1, <2>4, <3>1, <3>2
      <3>4. n \in first
        BY <2>4, <3>3
      <3> QED
        BY <2>3, <2>4, <3>4
    <2>6. Starts(m)
      <3> SUFFICES ASSUME m # 1, pages[m] = pages[m - 1] PROVE lefts[m] - lefts[m - 1] > gap
        OBVIOUS
      <3>1. m - 1 \in 1 .. N /\ m - 1 \notin first
        BY <2>3, <2>4
      <3>2. lefts[m - 1] # lefts[m]
        BY <2>4, <3>1
      <3>3. lefts[m - 1] < lefts[m]
        BY <1>1, <2>4, <3>1, <3>2
      <3>4. <<pages[m - 1], lefts[m - 1]>> \in K
        BY <3>1
      <3> QED
        BY <2>1, <2>4, <3>3, <3>4
    <2> QED
      BY <2>4, <2>5, <2>6
  <1>5. key \in Bijection(M, C)
    <2>1. key \in [M -> C]
      BY <1>2
    <2>2. \A j, m \in M : key[j] = key[m] => j = m
      <3> SUFFICES ASSUME NEW j \in M, NEW m \in M, key[j] = key[m], j # m
                   PROVE  FALSE
        OBVIOUS
      <3>1. pages[j] = pages[m] /\ lefts[j] = lefts[m]
        OBVIOUS
      <3>2. j < m \/ m < j
        OBVIOUS
      <3> QED
        BY <1>3, <3>1, <3>2
    <2>3. \A l \in C : \E m \in M : key[m] = l
      BY <1>4
    <2> HIDE DEF key, M, C
    <2> QED
      BY <2>1, <2>2, <2>3 DEF Bijection, Injection, Surjection, IsInjective
  <1>6. IsFiniteSet(M)
    <2>1. IsFiniteSet(1 .. n)
      BY FS_Interval
    <2> QED
      BY <2>1, FS_Subset
  <1>7. Cardinality(M) = Cardinality(C)
    <2> HIDE DEF M, C, key
    <2> QED
      BY <1>5, <1>6, FS_Bijection DEF ExistsBijection
  <1>8. ColumnOf(<<pages[n], lefts[n]>>, K, gap) = Cardinality(C)
    <2> HIDE DEF K
    <2> QED
      BY DEF ColumnOf
  <1> HIDE DEF C, K, key
  <1> QED
    BY <1>7, <1>8 DEF K

\* The order of two pairs of numbers.
LEMMA PairPrecedes ==
    ASSUME NEW a \in Int, NEW b \in Int, NEW c \in Int, NEW d \in Int
    PROVE  Precedes(<<a, b>>, <<c, d>>) <=> a < c \/ (a = c /\ b < d)
  <1>1. DOMAIN <<a, b>> = 1 .. 2 /\ 1 .. 2 = {1, 2}
    OBVIOUS
  <1>2. \A j \in 1 .. 1 - 1 : FALSE
    OBVIOUS
  <1>3. \A j \in 1 .. 2 - 1 : j = 1
    OBVIOUS
  <1>4. 1 \in 1 .. 2 - 1
    OBVIOUS
  <1>5. <<a, b>>[1] = a /\ <<a, b>>[2] = b /\ <<c, d>>[1] = c /\ <<c, d>>[2] = d
    OBVIOUS
  <1>6. Precedes(<<a, b>>, <<c, d>>)
            <=> \/ a < c /\ \A j \in 1 .. 1 - 1 : <<a, b>>[j] = <<c, d>>[j]
                \/ b < d /\ \A j \in 1 .. 2 - 1 : <<a, b>>[j] = <<c, d>>[j]
    BY <1>1, <1>5 DEF Precedes
  <1>7. (\A j \in 1 .. 2 - 1 : <<a, b>>[j] = <<c, d>>[j]) <=> a = c
    BY <1>3, <1>4, <1>5
  <1> QED
    BY <1>2, <1>6, <1>7

\* What the reading order looks at.
Edge(b) == <<b.page, b.box.left>>

Edges(s) == {Edge(s[n]) : n \in DOMAIN s}

Placed(b) == b.page \in Int /\ b.box.left \in Int /\ b.box.top \in Int

\* The key of the second sort.
PlaceOf(b, K, gap) == <<ColumnOf(Edge(b), K, gap), b.box.top, b.box.left>>

\* The least gap between two columns is a number of pixels.
LEMMA GapIsNat == \A width \in Nat : ColumnGap(width) \in Nat
  <1> SUFFICES ASSUME NEW width \in Nat PROVE ColumnGap(width) \in Nat
    OBVIOUS
  <1> DEFINE part == (width * 15) \div 100
  <1>1. part \in Nat
    OBVIOUS
  <1>2. ColumnGap(width) = Max({1, part})
    BY DEF ColumnGap
  <1> HIDE DEF part
  <1>3. Max({1, part}) = IF 1 <= part THEN part ELSE 1
    BY <1>1, Extremes
  <1> QED
    BY <1>1, <1>2, <1>3

\* Columns are numbered by edges alone, though the order within an edge is that of
\* arrival: the second sort sees no trace of it.
LEMMA ReadingOrderByEdges ==
    ASSUME NEW T, \A b \in T : Placed(b), NEW s \in Seq(T), NEW width \in Nat
    PROVE  \E u \in Seq(T) :
              /\ Len(u) = Len(s) /\ Rearranged(s, u)
              /\ \A n \in DOMAIN u : ColumnOf(Edge(u[n]), Edges(s), ColumnGap(width)) \in Int
              /\ ReadingOrder(s, width)
                    = Sorted(u, [n \in DOMAIN u |-> PlaceOf(u[n], Edges(s), ColumnGap(width))])
  <1> DEFINE first == [n \in DOMAIN s |-> <<s[n].page, s[n].box.left>>]
             u == Sorted(s, first)
             gap == ColumnGap(width)
             Starts(n) ==
                 \/ n = 1
                 \/ u[n].page # u[n - 1].page
                 \/ u[n].box.left - u[n - 1].box.left > gap
             Column(n) == Cardinality({m \in 1 .. n : Starts(m)})
             second == [n \in DOMAIN u |-> <<Column(n), u[n].box.top, u[n].box.left>>]
             N == Len(s)
             pages == [n \in 1 .. N |-> u[n].page]
             lefts == [n \in 1 .. N |-> u[n].box.left]
             K == {<<pages[i], lefts[i]>> : i \in 1 .. N}
  <1>1. ReadingOrder(s, width) = Sorted(u, second)
    BY Zenon DEF ReadingOrder
  <1>2. \A n \in DOMAIN s : first[n] = <<s[n].page, s[n].box.left>> /\ Placed(s[n])
    OBVIOUS
  <1>3. /\ u \in Seq(T) /\ Len(u) = Len(s) /\ Rearranged(s, u) /\ Sorts(s, first, u)
    <2>1. first \in [DOMAIN s -> [1 .. 2 -> Int]]
      BY <1>2, KeysAreTuples DEF Placed
    <2> HIDE DEF first
    <2> QED
      BY <2>1, SortedPlaces
  <1> HIDE DEF first, u, gap
  <1>4. N \in Nat /\ DOMAIN s = 1 .. N /\ DOMAIN u = 1 .. N /\ \A n \in 1 .. N : Placed(u[n])
    BY <1>3
  <1>5. PICK place \in [DOMAIN s -> DOMAIN s] :
               /\ \A n \in DOMAIN s : \E k \in DOMAIN s : place[k] = n
               /\ \A k \in DOMAIN s : u[k] = s[place[k]]
               /\ \A j, k \in DOMAIN s : j < k => ~Precedes(first[place[k]], first[place[j]])
    BY <1>3 DEF Sorts
  <1>6. pages \in [1 .. N -> Int] /\ lefts \in [1 .. N -> Int]
    BY <1>4 DEF Placed
  <1>7. \A n \in 1 .. N : pages[n] = u[n].page /\ lefts[n] = u[n].box.left
    OBVIOUS
  <1> HIDE DEF pages, lefts
  <1>8. ASSUME NEW i \in 1 .. N, NEW j \in 1 .. N, i < j
        PROVE  pages[i] < pages[j] \/ (pages[i] = pages[j] /\ lefts[i] <= lefts[j])
    <2>1. place[i] \in DOMAIN s /\ place[j] \in DOMAIN s
      BY <1>4, <1>5
    <2>2. first[place[i]] = <<pages[i], lefts[i]>> /\ first[place[j]] = <<pages[j], lefts[j]>>
      <3>1. u[i] = s[place[i]] /\ u[j] = s[place[j]]
        BY <1>4, <1>5
      <3>2. /\ first[place[i]] = <<s[place[i]].page, s[place[i]].box.left>>
            /\ first[place[j]] = <<s[place[j]].page, s[place[j]].box.left>>
        BY <1>2, <2>1
      <3> HIDE DEF N
      <3> QED
        BY <1>7, <3>1, <3>2
    <2>3. ~Precedes(<<pages[j], lefts[j]>>, <<pages[i], lefts[i]>>)
      BY <1>4, <1>5, <1>8, <2>2
    <2>4. pages[i] \in Int /\ pages[j] \in Int /\ lefts[i] \in Int /\ lefts[j] \in Int
      BY <1>6
    <2> QED
      BY <2>3, <2>4, PairPrecedes
  <1>9. gap \in Nat
    BY GapIsNat DEF gap
  <1>10. K = Edges(s)
    <2>1. \A i \in 1 .. N : <<pages[i], lefts[i]>> = Edge(s[place[i]]) /\ place[i] \in DOMAIN s
      BY <1>4, <1>5, <1>7 DEF Edge
    <2>2. \A n \in DOMAIN s : \E i \in 1 .. N : Edge(s[n]) = <<pages[i], lefts[i]>>
      <3> SUFFICES ASSUME NEW n \in DOMAIN s
                   PROVE  \E i \in 1 .. N : Edge(s[n]) = <<pages[i], lefts[i]>>
        OBVIOUS
      <3>1. PICK i \in DOMAIN s : place[i] = n
        BY <1>5
      <3>2. i \in 1 .. N
        BY <1>4
      <3> QED
        BY <2>1, <3>1, <3>2, Zenon
    <2> HIDE DEF N
    <2> QED
      BY <2>1, <2>2 DEF Edges
  <1>11. ASSUME NEW n \in DOMAIN u
         PROVE  /\ Column(n) = ColumnOf(Edge(u[n]), Edges(s), gap)
                /\ ColumnOf(Edge(u[n]), Edges(s), gap) \in Int
    <2> DEFINE Begins(m) == m = 1 \/ pages[m] # pages[m - 1] \/ lefts[m] - lefts[m - 1] > gap
    <2>1. n \in 1 .. N
      BY <1>4
    <2>2. Cardinality({m \in 1 .. n : Begins(m)}) = ColumnOf(<<pages[n], lefts[n]>>, K, gap)
      <3>1. \A i, j \in 1 .. N : i < j =>
               pages[i] < pages[j] \/ (pages[i] = pages[j] /\ lefts[i] <= lefts[j])
        BY <1>8
      <3>2. N \in Nat
        BY <1>4
      <3> HIDE DEF N
      <3> QED
        BY <1>6, <1>9, <2>1, <3>1, <3>2, StartsAreKeys, Zenon
    <2>3. {m \in 1 .. n : Begins(m)} = {m \in 1 .. n : Starts(m)}
      <3> SUFFICES ASSUME NEW m \in 1 .. n PROVE Begins(m) <=> Starts(m)
        OBVIOUS
      <3>1. m \in 1 .. N /\ (m # 1 => m - 1 \in 1 .. N)
        BY <1>4, <2>1
      <3> HIDE DEF N
      <3> QED
        BY <1>7, <3>1
    <2>4. <<pages[n], lefts[n]>> = Edge(u[n])
      BY <1>7, <2>1 DEF Edge
    <2>5. Column(n) = ColumnOf(Edge(u[n]), Edges(s), gap)
      <3> HIDE DEF Begins, Starts, K
      <3> QED
        BY <1>10, <2>2, <2>3, <2>4
    <2>6. Column(n) \in Int
      <3>1. IsFiniteSet(1 .. n)
        BY <1>4, FS_Interval
      <3>2. IsFiniteSet({m \in 1 .. n : Starts(m)})
        BY <3>1, FS_Subset
      <3> HIDE DEF Starts
      <3> QED
        BY <3>2, FS_CardinalityType
    <2> HIDE DEF Column
    <2> QED
      BY <2>5, <2>6
  <1> HIDE DEF Column
  <1>12. second = [n \in DOMAIN u |-> PlaceOf(u[n], Edges(s), gap)]
    BY <1>11 DEF PlaceOf
  <1> HIDE DEF second
  <1>13. /\ u \in Seq(T) /\ Len(u) = Len(s) /\ Rearranged(s, u)
         /\ \A n \in DOMAIN u : ColumnOf(Edge(u[n]), Edges(s), ColumnGap(width)) \in Int
         /\ ReadingOrder(s, width)
               = Sorted(u, [n \in DOMAIN u |-> PlaceOf(u[n], Edges(s), ColumnGap(width))])
    BY <1>1, <1>3, <1>11, <1>12 DEF gap
  <1> QED
    BY <1>13

\* Blocks of one page with one corner.
SameCorner(b, c) == b.page = c.page /\ b.box.left = c.box.left /\ b.box.top = c.box.top

\* No two blocks have one and the same corner.
Cornered(s) ==
    \A i, j \in DOMAIN s :
        s[i].box.left = s[j].box.left /\ s[i].box.top = s[j].box.top => i = j

\* u, made of what s is made of, with keys that tell its elements apart.
KeyedAnew(s, u, key) ==
    /\ Keyed(u, key, 3)
    /\ \A i \in DOMAIN u : \E j \in DOMAIN s : u[i] = s[j]
    /\ \A j \in DOMAIN s : \E i \in DOMAIN u : u[i] = s[j]

\* Where no two blocks share a corner, no two share a place.
LEMMA KeysOfCorners ==
    ASSUME NEW T, \A b \in T : Placed(b), NEW s \in Seq(T), Cornered(s), NEW K, NEW gap,
           NEW u \in Seq(T), Len(u) = Len(s), Rearranged(s, u),
           \A n \in DOMAIN u : ColumnOf(Edge(u[n]), K, gap) \in Int
    PROVE  KeyedAnew(s, u, [n \in DOMAIN u |-> PlaceOf(u[n], K, gap)])
  <1> DEFINE key == [n \in DOMAIN u |-> PlaceOf(u[n], K, gap)]
  <1>1. DOMAIN u = DOMAIN s /\ \A n \in DOMAIN u : u[n] \in T
    OBVIOUS
  <1>2. PICK place \in [DOMAIN s -> DOMAIN s] :
               /\ \A n \in DOMAIN s : \E k \in DOMAIN s : place[k] = n
               /\ \A j, k \in DOMAIN s : place[j] = place[k] => j = k
               /\ \A k \in DOMAIN s : u[k] = s[place[k]]
    BY DEF Rearranged
  <1>3. key \in [DOMAIN u -> [1 .. 3 -> Int]]
    <2> SUFFICES ASSUME NEW n \in DOMAIN u
                 PROVE  PlaceOf(u[n], K, gap) \in [1 .. 3 -> Int]
      OBVIOUS
    <2>1. u[n].box.top \in Int /\ u[n].box.left \in Int
      BY <1>1 DEF Placed
    <2> QED
      BY <2>1, KeysAreTuples DEF PlaceOf
  <1>4. ASSUME NEW i \in DOMAIN u, NEW j \in DOMAIN u, key[i] = key[j]
        PROVE  i = j
    <2>1. u[i].box.top = u[j].box.top /\ u[i].box.left = u[j].box.left
      BY <1>4 DEF PlaceOf
    <2>2. u[i] = s[place[i]] /\ u[j] = s[place[j]] /\ place[i] \in DOMAIN s /\ place[j] \in DOMAIN s
      BY <1>1, <1>2
    <2>3. place[i] = place[j]
      BY <2>1, <2>2 DEF Cornered
    <2> QED
      BY <1>1, <1>2, <2>3
  <1>5. \A i \in DOMAIN u : \E j \in DOMAIN s : u[i] = s[j]
    BY <1>1, <1>2
  <1>6. \A j \in DOMAIN s : \E i \in DOMAIN u : u[i] = s[j]
    BY <1>1, <1>2
  <1> HIDE DEF key
  <1>7. KeyedAnew(s, u, key)
    BY <1>3, <1>4, <1>5, <1>6 DEF KeyedAnew, Keyed
  <1> QED
    BY <1>7 DEF key

\* Each corner of a block of s is one of t's, and the other way round.
SameCorners(s, t) ==
    /\ \A i \in DOMAIN s : \E j \in DOMAIN t : SameCorner(s[i], t[j])
    /\ \A j \in DOMAIN t : \E i \in DOMAIN s : SameCorner(s[i], t[j])

\* At each place of the reading order there are blocks with one corner.
ReadAlike(s, t, width) ==
    /\ Len(s) = Len(t)
    /\ \A n \in DOMAIN s : \E i \in DOMAIN s : \E j \in DOMAIN t :
          /\ ReadingOrder(s, width)[n] = s[i] /\ ReadingOrder(t, width)[n] = t[j]
          /\ SameCorner(s[i], t[j])

\* Blocks at the same corners, no two at one, are put in the same order.
LEMMA ReadingOrderAlike ==
    ASSUME NEW T, \A b \in T : Placed(b), NEW s \in Seq(T), NEW t \in Seq(T), NEW width \in Nat,
           Cornered(s), Cornered(t), SameCorners(s, t)
    PROVE  ReadAlike(s, t, width)
  <1> DEFINE K == Edges(s)
             gap == ColumnGap(width)
  <1>0. /\ \A i \in DOMAIN s : \E j \in DOMAIN t : SameCorner(s[i], t[j])
        /\ \A j \in DOMAIN t : \E i \in DOMAIN s : SameCorner(s[i], t[j])
    BY DEF SameCorners
  <1>1. Edges(t) = K
    <2>1. ASSUME NEW i \in DOMAIN s
          PROVE  \E j \in DOMAIN t : Edge(s[i]) = Edge(t[j])
      <3>1. PICK j \in DOMAIN t : SameCorner(s[i], t[j])
        BY <1>0
      <3> QED
        BY <3>1 DEF SameCorner, Edge
    <2>2. ASSUME NEW j \in DOMAIN t
          PROVE  \E i \in DOMAIN s : Edge(s[i]) = Edge(t[j])
      <3>1. PICK i \in DOMAIN s : SameCorner(s[i], t[j])
        BY <1>0
      <3> QED
        BY <3>1 DEF SameCorner, Edge
    <2> QED
      BY <2>1, <2>2 DEF Edges
  <1>2. PICK u \in Seq(T) :
              /\ Len(u) = Len(s) /\ Rearranged(s, u)
              /\ \A n \in DOMAIN u : ColumnOf(Edge(u[n]), K, gap) \in Int
              /\ ReadingOrder(s, width) = Sorted(u, [n \in DOMAIN u |-> PlaceOf(u[n], K, gap)])
    BY ReadingOrderByEdges
  <1>3. PICK v \in Seq(T) :
              /\ Len(v) = Len(t) /\ Rearranged(t, v)
              /\ \A n \in DOMAIN v : ColumnOf(Edge(v[n]), K, gap) \in Int
              /\ ReadingOrder(t, width) = Sorted(v, [n \in DOMAIN v |-> PlaceOf(v[n], K, gap)])
    <2>1. \E v \in Seq(T) :
              /\ Len(v) = Len(t) /\ Rearranged(t, v)
              /\ \A n \in DOMAIN v : ColumnOf(Edge(v[n]), Edges(t), gap) \in Int
              /\ ReadingOrder(t, width)
                    = Sorted(v, [n \in DOMAIN v |-> PlaceOf(v[n], Edges(t), gap)])
      BY ReadingOrderByEdges
    <2> HIDE DEF K
    <2> QED
      BY <1>1, <2>1
  <1> HIDE DEF K, gap
  <1> DEFINE ku == [n \in DOMAIN u |-> PlaceOf(u[n], K, gap)]
             kv == [n \in DOMAIN v |-> PlaceOf(v[n], K, gap)]
  <1>4. KeyedAnew(s, u, ku)
    BY <1>2, KeysOfCorners
  <1>5. KeyedAnew(t, v, kv)
    BY <1>3, KeysOfCorners
  <1>6. /\ \A n \in DOMAIN u : ku[n] = PlaceOf(u[n], K, gap)
        /\ \A n \in DOMAIN v : kv[n] = PlaceOf(v[n], K, gap)
    OBVIOUS
  <1>7. \A b, c : SameCorner(b, c) => PlaceOf(b, K, gap) = PlaceOf(c, K, gap)
    BY DEF SameCorner, Edge, PlaceOf
  <1>8. \A b, c : PlaceOf(b, K, gap) = PlaceOf(c, K, gap) =>
                     b.box.left = c.box.left /\ b.box.top = c.box.top
    BY DEF PlaceOf
  <1>12. ReadingOrder(s, width) = Sorted(u, ku) /\ ReadingOrder(t, width) = Sorted(v, kv)
    BY <1>2, <1>3, Zenon
  <1> HIDE DEF ku, kv
  <1>9. \A i \in DOMAIN u : \E j \in DOMAIN v : ku[i] = kv[j]
    <2> SUFFICES ASSUME NEW i \in DOMAIN u PROVE \E j \in DOMAIN v : ku[i] = kv[j]
      OBVIOUS
    <2>1. PICK m \in DOMAIN s : u[i] = s[m]
      BY <1>4 DEF KeyedAnew
    <2>2. PICK n \in DOMAIN t : SameCorner(s[m], t[n])
      BY <1>0
    <2>3. PICK j \in DOMAIN v : v[j] = t[n]
      BY <1>5 DEF KeyedAnew
    <2>4. PlaceOf(s[m], K, gap) = PlaceOf(t[n], K, gap)
      BY <1>7, <2>2, Zenon
    <2> QED
      BY <1>6, <2>1, <2>3, <2>4
  <1>10. \A j \in DOMAIN v : \E i \in DOMAIN u : kv[j] = ku[i]
    <2> SUFFICES ASSUME NEW j \in DOMAIN v PROVE \E i \in DOMAIN u : kv[j] = ku[i]
      OBVIOUS
    <2>1. PICK n \in DOMAIN t : v[j] = t[n]
      BY <1>5 DEF KeyedAnew
    <2>2. PICK m \in DOMAIN s : SameCorner(s[m], t[n])
      BY <1>0
    <2>3. PICK i \in DOMAIN u : u[i] = s[m]
      BY <1>4 DEF KeyedAnew
    <2>4. PlaceOf(s[m], K, gap) = PlaceOf(t[n], K, gap)
      BY <1>7, <2>2, Zenon
    <2> QED
      BY <1>6, <2>1, <2>3, <2>4
  <1>11. Alike(u, ku, v, kv)
    <2>1. Keyed(u, ku, 3) /\ Keyed(v, kv, 3) /\ SameKeys(u, ku, v, kv)
      BY <1>4, <1>5, <1>9, <1>10 DEF KeyedAnew, SameKeys
    <2>2. 3 \in Nat
      OBVIOUS
    <2> QED
      BY <2>1, <2>2, SortedAlike
  <1>13. Len(s) = Len(t) /\ DOMAIN u = DOMAIN s
    <2>1. Len(u) = Len(s) /\ Len(v) = Len(t) /\ Len(u) = Len(v)
      BY <1>2, <1>3, <1>11 DEF Alike
    <2>2. DOMAIN u = 1 .. Len(u) /\ DOMAIN s = 1 .. Len(s)
      OBVIOUS
    <2>3. DOMAIN u = DOMAIN s
      BY <2>1, <2>2, Zenon
    <2>4. Len(s) = Len(t)
      BY <2>1, Zenon
    <2> QED
      BY <2>3, <2>4
  <1>14. ASSUME NEW n \in DOMAIN s
         PROVE  \E i \in DOMAIN s, j \in DOMAIN t :
                   /\ ReadingOrder(s, width)[n] = s[i] /\ ReadingOrder(t, width)[n] = t[j]
                   /\ SameCorner(s[i], t[j])
    <2>1. PICK i \in DOMAIN u, j \in DOMAIN v :
                 Sorted(u, ku)[n] = u[i] /\ Sorted(v, kv)[n] = v[j] /\ ku[i] = kv[j]
      BY <1>11, <1>13 DEF Alike
    <2>2. PICK m \in DOMAIN s : u[i] = s[m]
      BY <1>4 DEF KeyedAnew
    <2>3. PICK k \in DOMAIN t : v[j] = t[k]
      BY <1>5 DEF KeyedAnew
    <2>4. s[m].box.left = t[k].box.left /\ s[m].box.top = t[k].box.top
      <3>1. PlaceOf(s[m], K, gap) = PlaceOf(t[k], K, gap)
        BY <1>6, <2>1, <2>2, <2>3, Zenon
      <3> QED
        BY <1>8, <3>1, Zenon
    <2>5. PICK l \in DOMAIN t : SameCorner(s[m], t[l])
      BY <1>0
    <2>6. l = k
      BY <2>4, <2>5 DEF SameCorner, Cornered
    <2> QED
      BY <1>12, <2>1, <2>2, <2>3, <2>5, <2>6
  <1> QED
    BY <1>13, <1>14 DEF ReadAlike

-----------------------------------------------------------------------------
(* The blocks of a page depend on its words, not on their order. *)

\* Blocks of one page, box and words.
SameBlock(b, c) == b.page = c.page /\ b.box = c.box /\ ToSet(b.text) = ToSet(c.text)

\* The same words make the same blocks, in whatever order.
LEMMA SameParagraphs ==
    ASSUME NEW words \in Seq(WordRow), NEW others \in Seq(WordRow), ToSet(words) = ToSet(others)
    PROVE  \A i \in DOMAIN GroupIntoBlocks(words) : \E j \in DOMAIN GroupIntoBlocks(others) :
              SameBlock(GroupIntoBlocks(words)[i], GroupIntoBlocks(others)[j])
  <1> DEFINE G == GroupIntoBlocks(words)
             O == GroupIntoBlocks(others)
             P == Paragraphs(words)
             Q == Paragraphs(others)
  <1>1. /\ DOMAIN G = DOMAIN P
        /\ \A n \in DOMAIN G : G[n] = BlockOf(words, P[n])
        /\ \A n \in DOMAIN P : \E i \in DOMAIN words : P[n] = Paragraph(words[i])
    BY GroupedBlocks
  <1>2. /\ DOMAIN O = DOMAIN Q
        /\ \A n \in DOMAIN O : O[n] = BlockOf(others, Q[n])
        /\ \A i \in DOMAIN others : \E n \in DOMAIN Q : Q[n] = Paragraph(others[i])
    BY GroupedBlocks
  <1> HIDE DEF G, O, P, Q
  <1>3. ASSUME NEW n \in DOMAIN G
        PROVE  \E j \in DOMAIN O : SameBlock(G[n], O[j])
    <2>1. PICK i \in DOMAIN words : P[n] = Paragraph(words[i])
      BY <1>1
    <2>2. PICK k \in DOMAIN others : words[i] = others[k]
      <3>1. words[i] \in ToSet(words)
        BY DEF ToSet
      <3> QED
        BY <3>1 DEF ToSet
    <2>3. PICK j \in DOMAIN Q : Q[j] = Paragraph(others[k])
      BY <1>2
    <2>4. P[n] = Q[j] /\ Q[j] = Paragraph(words[i])
      BY <2>1, <2>2, <2>3
    <2>5. WordsOf(words, P[n]) = WordsOf(others, Q[j])
      BY <2>4 DEF WordsOf
    <2>6. /\ ToSet(G[n].text) = WordsOf(words, P[n]) /\ G[n].box = Bounds(WordsOf(words, P[n]))
          /\ G[n].page = P[n][1]
      BY <1>1, <2>1, ParagraphBlock
    <2>7. /\ ToSet(O[j].text) = WordsOf(others, Q[j]) /\ O[j].box = Bounds(WordsOf(others, Q[j]))
          /\ O[j].page = Q[j][1]
      BY <1>2, <2>3, ParagraphBlock
    <2> QED
      BY <1>2, <2>4, <2>5, <2>6, <2>7 DEF SameBlock
  <1> QED
    BY <1>3 DEF G, O

\* No two blocks of a page hold the same words.
LEMMA BlocksDiffer ==
    ASSUME NEW words \in Seq(WordRow)
    PROVE  \A i, j \in DOMAIN GroupIntoBlocks(words) :
              SameBlock(GroupIntoBlocks(words)[i], GroupIntoBlocks(words)[j]) => i = j
  <1> DEFINE G == GroupIntoBlocks(words)
             P == Paragraphs(words)
  <1>1. /\ DOMAIN G = DOMAIN P
        /\ \A n \in DOMAIN G : G[n] = BlockOf(words, P[n])
        /\ \A n \in DOMAIN P : \E i \in DOMAIN words : P[n] = Paragraph(words[i])
        /\ \A j, k \in DOMAIN P : P[j] = P[k] => j = k
    BY GroupedBlocks
  <1> HIDE DEF G, P
  <1>2. ASSUME NEW n \in DOMAIN G
        PROVE  ToSet(G[n].text) = WordsOf(words, P[n]) /\ WordsOf(words, P[n]) # {}
    <2>1. PICK i \in DOMAIN words : P[n] = Paragraph(words[i])
      BY <1>1
    <2>2. ToSet(G[n].text) = WordsOf(words, P[n])
      BY <1>1, <2>1, ParagraphBlock
    <2>3. words[i] \in WordsOf(words, P[n])
      BY <2>1 DEF WordsOf, ToSet
    <2> QED
      BY <2>2, <2>3
  <1>3. ASSUME NEW m \in DOMAIN G, NEW n \in DOMAIN G, SameBlock(G[m], G[n])
        PROVE  m = n
    <2>1. WordsOf(words, P[m]) = WordsOf(words, P[n]) /\ WordsOf(words, P[m]) # {}
      BY <1>2, <1>3 DEF SameBlock
    <2>2. P[m] = P[n]
      BY <2>1 DEF WordsOf
    <2> QED
      BY <1>1, <2>2
  <1> QED
    BY <1>3 DEF G
=============================================================================
