---------------------------- MODULE SetFindProofs ----------------------------
(***************************************************************************)
(* A set's find, alone and behind an answer cache: for every set, text,      *)
(* vector width, re-try period, caller, region and trigger its variables     *)
(* keep to their values, what a call checks of the cache's header is so, a   *)
(* bucket's memory is clear between its walks, and a drive costs a constant  *)
(* number of passes over its text.                                           *)
(*                                                                          *)
(* FindInv is the find's invariant: what the buffer holds and is counted     *)
(* belongs to groups already served, a body's locals to the one whose turn   *)
(* it is, and what a bucket remembers to the walk that is in it.  CachedInv  *)
(* adds what the region holds (the columns, counts and rows of this text)    *)
(* and what the walks and the sweeps have cost.                              *)
(***************************************************************************)
EXTENDS CachedFind, TLAPS, FiniteSetTheorems, SequenceTheorems, WellFoundedInduction,
        NaturalsInduction

Less == {pair \in Nat \X Nat : pair[1] < pair[2]}

LEMMA MinIsLeast ==
    ASSUME NEW T, T \subseteq Nat, T # {}
    PROVE  Min(T) \in T /\ \A y \in T : Min(T) <= y
  <1>1. OpToRel(<, Nat) = Less
    BY DEF OpToRel, Less
  <1>2. IsWellFoundedOn(Less, Nat)
    BY <1>1, NatLessThanWellFounded, Zenon
  <1>3. PICK x \in T : \A y \in T : ~(<<y, x>> \in Less)
    BY <1>2, WFMin, Zenon
  <1>4. \A y \in T : x <= y
    <2> SUFFICES ASSUME NEW y \in T PROVE x <= y
      OBVIOUS
    <2>1. x \in Nat /\ y \in Nat /\ (y < x => <<y, x>> \in Less)
      BY DEF Less
    <2> QED BY <1>3, <2>1
  <1> QED BY <1>4 DEF Min

LEMMA MaxOfTwo ==
    ASSUME NEW x \in Int, NEW y \in Int
    PROVE  Max({x, y}) = IF x >= y THEN x ELSE y
  BY DEF Max

LEMMA MinOfTwo ==
    ASSUME NEW x \in Int, NEW y \in Int
    PROVE  Min({x, y}) = IF x <= y THEN x ELSE y
  BY DEF Min

\* The last of them, below a bound.
LEMMA MaxIsGreatest ==
    ASSUME NEW T, T \subseteq Nat, T # {}, NEW n \in Nat, \A x \in T : x <= n
    PROVE  Max(T) \in T /\ \A y \in T : Max(T) >= y
  <1> DEFINE rest == {n - x : x \in T}
  <1>1. rest \subseteq Nat /\ rest # {}
    <2>1. PICK x \in T : TRUE
      OBVIOUS
    <2>2. n - x \in rest
      BY <2>1
    <2> QED BY <2>2
  <1>2. Min(rest) \in rest /\ \A y \in rest : Min(rest) <= y
    BY <1>1, MinIsLeast
  <1>3. PICK x \in T : Min(rest) = n - x
    BY <1>2
  <1>4. ASSUME NEW y \in T PROVE x >= y
    <2>1. n - x <= n - y
      BY <1>2, <1>3
    <2> QED BY <2>1
  <1> QED BY <1>4 DEF Max

-----------------------------------------------------------------------------
(* Numbers in ascending order. *)

Below(ks, k) == {j \in ks : j < k}

LEMMA RankGrows ==
    ASSUME NEW ids \in SUBSET Nat, IsFiniteSet(ids), NEW k \in ids, NEW l \in ids, k < l
    PROVE  Cardinality(Below(ids, k)) < Cardinality(Below(ids, l))
  <1> k \in Nat /\ l \in Nat
    OBVIOUS
  <1>0. k \in Below(ids, l) /\ k \notin Below(ids, k)
    BY DEF Below
  <1>a. ASSUME NEW j \in Below(ids, k) PROVE j \in Below(ids, l)
    BY DEF Below
  <1>1. Below(ids, k) \in SUBSET Below(ids, l) /\ Below(ids, k) # Below(ids, l)
    BY <1>0, <1>a
  <1>2. IsFiniteSet(Below(ids, l))
    BY FS_Subset DEF Below
  <1>3. /\ IsFiniteSet(Below(ids, k))
        /\ Cardinality(Below(ids, k)) <= Cardinality(Below(ids, l))
        /\ Cardinality(Below(ids, k)) # Cardinality(Below(ids, l))
    BY <1>1, <1>2, FS_Subset
  <1>4. Cardinality(Below(ids, k)) \in Nat /\ Cardinality(Below(ids, l)) \in Nat
    BY <1>2, <1>3, FS_CardinalityType
  <1> QED BY <1>3, <1>4

LEMMA RankTells ==
    ASSUME NEW ids \in SUBSET Nat, IsFiniteSet(ids), NEW k \in ids, NEW l \in ids,
           Cardinality(Below(ids, k)) = Cardinality(Below(ids, l))
    PROVE  k = l
  <1>1. Below(ids, k) \in SUBSET ids
    BY DEF Below
  <1>2. Cardinality(Below(ids, k)) \in Nat
    BY <1>1, FS_Subset, FS_CardinalityType
  <1>3. CASE k < l
    BY <1>2, <1>3, RankGrows
  <1>4. CASE l < k
    BY <1>2, <1>4, RankGrows
  <1> QED BY <1>3, <1>4

\* Rank by rank the ids are all there.
LEMMA Ranked ==
    ASSUME NEW ids \in SUBSET Nat, IsFiniteSet(ids)
    PROVE  /\ Cardinality(ids) \in Nat
           /\ \A k \in ids : Cardinality(Below(ids, k)) \in 0..(Cardinality(ids) - 1)
           /\ \A i \in 1..Cardinality(ids) :
                  \E k \in ids : Cardinality(Below(ids, k)) = i - 1
  <1>1. Cardinality(ids) \in Nat
    BY FS_CardinalityType
  <1>2. ASSUME NEW k \in ids
        PROVE  Cardinality(Below(ids, k)) \in 0..(Cardinality(ids) - 1)
    <2>1. Below(ids, k) \in SUBSET ids /\ Below(ids, k) # ids
      BY DEF Below
    <2>2. /\ IsFiniteSet(Below(ids, k))
          /\ Cardinality(Below(ids, k)) <= Cardinality(ids)
          /\ Cardinality(Below(ids, k)) # Cardinality(ids)
      BY <2>1, FS_Subset
    <2>3. Cardinality(Below(ids, k)) \in Nat
      BY <2>2, FS_CardinalityType
    <2> QED BY <1>1, <2>2, <2>3
  <1>3. ASSUME NEW i \in 1..Cardinality(ids)
        PROVE  \E k \in ids : Cardinality(Below(ids, k)) = i - 1
    <2> DEFINE place == [k \in ids |-> Cardinality(Below(ids, k)) + 1]
               places == 1..Cardinality(ids)
    <2>1. place \in [ids -> places]
      BY <1>1, <1>2
    <2>2. ASSUME NEW k \in ids, NEW l \in ids, place[k] = place[l] PROVE k = l
      <3>1. Cardinality(Below(ids, k)) = Cardinality(Below(ids, l))
        BY <1>1, <1>2, <2>2
      <3> QED BY <3>1, RankTells
    <2>3. place \in Injection(ids, places)
      BY <2>1, <2>2 DEF Injection, IsInjective
    <2>4. IsFiniteSet(places) /\ Cardinality(places) = Cardinality(ids)
      BY <1>1, FS_Interval
    <2>5. place \in Surjection(ids, places)
      BY <2>3, <2>4, FS_Injection
    <2>6. PICK k \in ids : place[k] = i
      BY <2>5 DEF Surjection
    <2> QED BY <1>1, <1>2, <2>6
  <1> QED BY <1>1, <1>2, <1>3

LEMMA AscendingSorts ==
    ASSUME NEW ids \in SUBSET Nat, IsFiniteSet(ids)
    PROVE  /\ Ascending(ids) \in [1..Cardinality(ids) -> ids]
           /\ \A i \in 1..Cardinality(ids) :
                  Cardinality(Below(ids, Ascending(ids)[i])) = i - 1
           /\ \A k \in ids : \E i \in 1..Cardinality(ids) : Ascending(ids)[i] = k
           /\ \A i, j \in 1..Cardinality(ids) :
                  i # j => Ascending(ids)[i] # Ascending(ids)[j]
  <1>1. \A i \in 1..Cardinality(ids) :
            /\ Ascending(ids)[i] \in ids
            /\ Cardinality(Below(ids, Ascending(ids)[i])) = i - 1
    BY Ranked DEF Ascending, Below
  <1>2. Ascending(ids) \in [1..Cardinality(ids) -> ids]
    BY <1>1 DEF Ascending
  <1>3. ASSUME NEW k \in ids
        PROVE  \E i \in 1..Cardinality(ids) : Ascending(ids)[i] = k
    <2>1. PICK r \in 0..(Cardinality(ids) - 1) : Cardinality(Below(ids, k)) = r
      BY Ranked
    <2>2. r + 1 \in 1..Cardinality(ids) /\ Cardinality(ids) \in Nat
      BY Ranked
    <2>3. Cardinality(Below(ids, Ascending(ids)[r + 1])) = r
      BY <1>1, <2>2
    <2>4. Ascending(ids)[r + 1] = k
      BY <1>1, <2>1, <2>2, <2>3, RankTells
    <2> QED BY <2>2, <2>4
  <1>4. ASSUME NEW i \in 1..Cardinality(ids), NEW j \in 1..Cardinality(ids),
               Ascending(ids)[i] = Ascending(ids)[j]
        PROVE  i = j
    BY <1>1, <1>4
  <1> QED BY <1>1, <1>2, <1>3, <1>4

\* order has each of ks at one place.
Lists(order, ks) ==
    /\ order \in Seq(ks) /\ Len(order) = Cardinality(ks)
    /\ \A k \in ks : \E i \in 1..Len(order) : order[i] = k
    /\ \A i, j \in 1..Len(order) : order[i] = order[j] => i = j

LEMMA AscendingLists ==
    ASSUME NEW ks \in SUBSET Nat, IsFiniteSet(ks)
    PROVE  Lists(Ascending(ks), ks)
  <1>1. Cardinality(ks) \in Nat
    BY FS_CardinalityType
  <1>2. /\ Ascending(ks) \in [1..Cardinality(ks) -> ks]
        /\ \A k \in ks : \E i \in 1..Cardinality(ks) : Ascending(ks)[i] = k
        /\ \A i, j \in 1..Cardinality(ks) :
               i # j => Ascending(ks)[i] # Ascending(ks)[j]
    BY AscendingSorts
  <1>3. Ascending(ks) \in Seq(ks) /\ Len(Ascending(ks)) = Cardinality(ks)
    BY <1>1, <1>2
  <1> QED BY <1>2, <1>3 DEF Lists

\* What a call writes for a text: an id, and a match in the text.
TuplesOf(t) == {m \in [id : Ids, start : 0..LenOf(t), end : 0..LenOf(t)] : m.start <= m.end}

\* The buffer has the first n tuples, or as many as it has room for.
Fits(buf, n, cap) == Len(buf) <= cap /\ (Len(buf) >= n \/ Len(buf) = cap)

LEMMA WriteFits ==
    ASSUME NEW T, NEW buf \in Seq(T), NEW list \in Seq(T), NEW i \in Nat, NEW cap \in Nat,
           Fits(buf, i, cap)
    PROVE  /\ Write(buf, i, cap, list) \in Seq(T)
           /\ Fits(Write(buf, i, cap, list), i + Len(list), cap)
  <1> DEFINE n == IF cap <= i + Len(list) THEN cap ELSE i + Len(list)
             at(j) == IF j <= i THEN buf[j] ELSE list[j - i]
  <1>1. Len(buf) \in Nat /\ Len(list) \in Nat /\ n \in Nat
    OBVIOUS
  <1>2. Write(buf, i, cap, list) = [j \in 1..n |-> at(j)]
    BY <1>1, MinOfTwo DEF Write, Placed
  <1>3. ASSUME NEW j \in 1..n PROVE at(j) \in T
    <2>1. CASE j <= i
      <3>1. j \in 1..Len(buf)
        BY <1>1, <2>1 DEF Fits
      <3> QED BY <2>1, <3>1, ElementOfSeq
    <2>2. CASE j > i
      <3>1. j - i \in 1..Len(list)
        BY <1>1, <2>2
      <3> QED BY <1>1, <2>2, <3>1, ElementOfSeq
    <2> QED BY <1>1, <2>1, <2>2
  <1> DEFINE r == [j \in 1..n |-> at(j)]
  <1> HIDE DEF at
  <1>4. r \in Seq(T) /\ Len(r) = n
    BY <1>1, <1>3
  <1> QED BY <1>1, <1>2, <1>4 DEF Fits

\* A call the frontend makes.
IsCall(call) ==
    /\ IsTable(call.table, call.ids)
    /\ call.ids \in Seq(Ids) /\ call.text.bytes \in Seq(Bytes) /\ call.cap \in Nat

DenseType(call) ==
    [from : 0..LenOf(call.text), start : 0..LenOf(call.text), mask : SUBSET DOMAIN call.ids,
     base : Nat, state : DOMAIN call.table.mid, pos : 0..LenOf(call.text),
     result : SUBSET DOMAIN call.ids, opened : SUBSET DOMAIN call.ids,
     ends : [DOMAIN call.ids -> 0..LenOf(call.text)], done : SUBSET DOMAIN call.ids,
     count : Nat, buf : Seq(TuplesOf(call.text)), over : BOOLEAN]

\* A dense walk in the text: what has ended ended after its start, and what is
\* counted is done.
IsDense(call, w) ==
    /\ w \in DenseType(call)
    /\ w.start <= w.from /\ w.from <= w.pos
    /\ w.result \subseteq w.mask /\ w.opened \subseteq w.mask /\ w.done \subseteq w.mask
    /\ \A k \in w.result \union w.opened : w.from <= w.ends[k]
    /\ w.count <= Cardinality(w.done)
    /\ Fits(w.buf, w.base + w.count, call.cap)

\* What a call was made for stays.
SameWalk(v, w) == v.from = w.from /\ v.start = w.start /\ v.mask = w.mask /\ v.base = w.base
SamePlace(v, w) == v.state = w.state /\ v.pos = w.pos /\ v.over = w.over

LEMMA TextLength == ASSUME NEW call, IsCall(call) PROVE LenOf(call.text) \in Nat
  BY DEF IsCall, LenOf

LEMMA EndingDense ==
    ASSUME NEW call, IsCall(call), NEW w, IsDense(call, w), NEW bits,
           NEW p \in w.from..LenOf(call.text)
    PROVE  LET v == Ending(w, bits, p)
           IN  /\ IsDense(call, v) /\ SameWalk(v, w) /\ SamePlace(v, w)
               /\ v.opened = w.opened /\ w.result \subseteq v.result
               /\ bits \intersect w.mask \subseteq v.result
  <1> DEFINE more == bits \intersect w.mask
             upto == [k \in DOMAIN w.ends |-> IF k \in more THEN p ELSE w.ends[k]]
             v == [w EXCEPT !.result = w.result \union more, !.ends = upto]
  <1>1. Ending(w, bits, p) = v
    BY DEF Ending, IsDense, DenseType
  <1>2. p \in 0..LenOf(call.text) /\ w.from \in Nat /\ LenOf(call.text) \in Nat
    BY TextLength DEF IsDense, DenseType
  <1>3. w.ends \in [DOMAIN call.ids -> 0..LenOf(call.text)] /\ w.mask \subseteq DOMAIN call.ids
    BY DEF IsDense, DenseType
  <1>4. upto \in [DOMAIN call.ids -> 0..LenOf(call.text)]
    BY <1>2, <1>3
  <1>5. ASSUME NEW k \in w.result \union more \union w.opened PROVE w.from <= upto[k]
    BY <1>2, <1>3, <1>5 DEF IsDense
  <1>6. /\ v \in DenseType(call) /\ v.result = w.result \union more /\ v.ends = upto
        /\ v.opened = w.opened /\ v.done = w.done /\ v.count = w.count /\ v.buf = w.buf
        /\ SameWalk(v, w) /\ SamePlace(v, w)
    <2> HIDE DEF upto
    <2> QED BY <1>3, <1>4 DEF IsDense, DenseType, SameWalk, SamePlace
  <1> HIDE DEF v, upto
  <1> QED BY <1>1, <1>5, <1>6 DEF IsDense, SameWalk, SamePlace
\* What is written for a list of patterns that have ended.
LEMMA CountingFits ==
    ASSUME NEW call, IsCall(call), NEW w,
           w.ends \in [DOMAIN call.ids -> 0..LenOf(call.text)], w.start \in 0..LenOf(call.text),
           w.base \in Nat, w.count \in Nat, w.buf \in Seq(TuplesOf(call.text)),
           Fits(w.buf, w.base + w.count, call.cap),
           NEW list \in Seq(DOMAIN call.ids),
           \A i \in 1..Len(list) : w.start <= w.ends[list[i]]
    PROVE  LET buf == Write(w.buf, w.base + w.count, call.cap,
                            [i \in DOMAIN list |-> MatchOf(call, w, list[i])])
           IN  /\ buf \in Seq(TuplesOf(call.text))
               /\ Fits(buf, w.base + (w.count + Len(list)), call.cap)
  <1> DEFINE tuple(i) == MatchOf(call, w, list[i])
             tuples == [i \in DOMAIN list |-> tuple(i)]
  <1>1. Len(list) \in Nat /\ DOMAIN list = 1..Len(list) /\ call.cap \in Nat
    BY DEF IsCall
  <1>2. ASSUME NEW i \in 1..Len(list) PROVE tuple(i) \in TuplesOf(call.text)
    <2>1. list[i] \in DOMAIN call.ids
      BY <1>1, ElementOfSeq
    <2>2. call.ids[list[i]] \in Ids
      BY <2>1 DEF IsCall
    <2> QED BY <1>2, <2>1, <2>2 DEF MatchOf, TuplesOf
  <1> HIDE DEF tuple
  <1>3. tuples \in Seq(TuplesOf(call.text)) /\ Len(tuples) = Len(list)
    BY <1>1, <1>2
  <1> HIDE DEF tuples
  <1> DEFINE i == w.base + w.count
  <1>4. i \in Nat /\ i + Len(list) = w.base + (w.count + Len(list))
    BY <1>1
  <1> HIDE DEF i
  <1>5. /\ Write(w.buf, i, call.cap, tuples) \in Seq(TuplesOf(call.text))
        /\ Fits(Write(w.buf, i, call.cap, tuples), i + Len(tuples), call.cap)
    BY <1>1, <1>3, <1>4, WriteFits DEF i
  <1> QED BY <1>3, <1>4, <1>5 DEF i, tuples, tuple

LEMMA DeliverDense ==
    ASSUME NEW call, IsCall(call), NEW w, IsDense(call, w),
           NEW ks, ks \subseteq w.result \union w.opened
    PROVE  LET v == DeliverAll(call, w, ks)
           IN  /\ IsDense(call, v) /\ SameWalk(v, w) /\ SamePlace(v, w)
               /\ v.result = w.result /\ v.opened = w.opened
  <1> DEFINE open == {k \in ks \ w.done : ~Barred(call, w, k)}
             list == Ascending(open)
             done == w.done \union ks
             buf == Write(w.buf, w.base + w.count, call.cap,
                          [i \in DOMAIN list |-> MatchOf(call, w, list[i])])
             v == [w EXCEPT !.done = done, !.count = w.count + Len(list), !.buf = buf]
  <1>1. /\ w.ends \in [DOMAIN call.ids -> 0..LenOf(call.text)] /\ w.start \in 0..LenOf(call.text)
        /\ w.base \in Nat /\ w.count \in Nat /\ w.buf \in Seq(TuplesOf(call.text))
        /\ Fits(w.buf, w.base + w.count, call.cap)
        /\ ks \subseteq w.mask /\ w.mask \subseteq DOMAIN call.ids /\ w.done \subseteq w.mask
        /\ w.from \in Int /\ w.start <= w.from
    BY DEF IsDense, DenseType
  <1>2. IsFiniteSet(DOMAIN call.ids) /\ DOMAIN call.ids \subseteq Nat
    <2>1. DOMAIN call.ids = 1..Len(call.ids) /\ Len(call.ids) \in Nat
      BY DEF IsCall
    <2> QED BY <2>1, FS_Interval
  <1>3. open \in SUBSET DOMAIN call.ids /\ done \in SUBSET DOMAIN call.ids
    BY <1>1
  <1>4. IsFiniteSet(open) /\ open \in SUBSET Nat /\ IsFiniteSet(done)
    <2> HIDE DEF open, done
    <2> QED BY <1>2, <1>3, FS_Subset
  <1>5. list \in Seq(open) /\ Len(list) = Cardinality(open) /\ Len(list) \in Nat
    <2> HIDE DEF open
    <2> QED BY <1>4, AscendingLists DEF Lists
  <1>6. list \in Seq(DOMAIN call.ids)
    <2> HIDE DEF open, list
    <2> QED BY <1>3, <1>5, SeqMonotonic
  <1>7. ASSUME NEW i \in 1..Len(list) PROVE w.start <= w.ends[list[i]]
    <2>1. list[i] \in open
      <3> HIDE DEF open, list
      <3> QED BY <1>5, ElementOfSeq
    <2>2. list[i] \in w.result \union w.opened /\ list[i] \in DOMAIN call.ids
      BY <1>1, <2>1
    <2>3. w.from <= w.ends[list[i]]
      BY <2>2 DEF IsDense
    <2> HIDE DEF list
    <2>4. w.ends[list[i]] \in Int
      BY <1>1, <2>2
    <2> QED BY <1>1, <2>3, <2>4
  <1>8. /\ buf \in Seq(TuplesOf(call.text))
        /\ Fits(buf, w.base + (w.count + Len(list)), call.cap)
    <2> HIDE DEF list
    <2> QED BY <1>1, <1>6, <1>7, CountingFits
  <1>9. w.count + Len(list) <= Cardinality(done) /\ w.count + Len(list) \in Nat
    <2>1. w.done \in SUBSET done /\ open \in SUBSET done /\ w.done \intersect open = {}
      OBVIOUS
    <2> HIDE DEF open, done, list
    <2>2. IsFiniteSet(w.done)
      BY <1>4, <2>1, FS_Subset
    <2>3. /\ IsFiniteSet(w.done \union open)
          /\ Cardinality(w.done \union open)
                 = Cardinality(w.done) + Cardinality(open) - Cardinality(w.done \intersect open)
      BY <1>4, <2>2, FS_Union
    <2>4. Cardinality(w.done \union open) <= Cardinality(done)
      BY <1>4, <2>1, FS_Subset
    <2>5. Cardinality({}) = 0
      BY FS_EmptySet
    <2>6. /\ Cardinality(w.done) \in Nat /\ Cardinality(open) \in Nat
          /\ Cardinality(done) \in Nat /\ Cardinality(w.done \union open) \in Nat
      BY <1>4, <2>2, <2>3, FS_CardinalityType
    <2>7. w.count <= Cardinality(w.done)
      BY DEF IsDense
    <2>8. Cardinality(w.done \intersect open) = 0
      BY <2>1, <2>5
    <2> DEFINE c == Cardinality(w.done)  o == Cardinality(open)  d == Cardinality(done)
               u == Cardinality(w.done \union open)  l == Len(list)
    <2>9. /\ c \in Nat /\ o \in Nat /\ d \in Nat /\ u \in Nat /\ w.count \in Nat
          /\ l = o /\ u = c + o /\ u <= d /\ w.count <= c
      <3>1. u = c + o - 0
        BY <2>3, <2>8
      <3> QED BY <1>1, <1>5, <2>4, <2>6, <2>7, <3>1
    <2> HIDE DEF c, o, d, u, l
    <2>10. w.count + l <= d /\ w.count + l \in Nat
      BY <2>9
    <2> QED BY <2>10 DEF l, d
  <1> HIDE DEF open, list, done, buf
  <1>10. DeliverAll(call, w, ks) = v
    <2> DEFINE u == [w EXCEPT !.done = w.done \union ks]
    <2>1. /\ u.start = w.start /\ u.ends = w.ends /\ u.base = w.base /\ u.count = w.count
          /\ u.buf = w.buf
      BY DEF IsDense, DenseType
    <2>2. \A k : MatchOf(call, u, k) = MatchOf(call, w, k)
      <3> HIDE DEF u
      <3> QED BY <2>1 DEF MatchOf
    <2>3. DeliverAll(call, w, ks) = Counting(call, u, list)
      BY DEF DeliverAll, list, open
    <2>4. Counting(call, u, list) = [u EXCEPT !.count = w.count + Len(list), !.buf = buf]
      <3> HIDE DEF u
      <3> QED BY <2>1, <2>2 DEF Counting, buf
    <2>5. [u EXCEPT !.count = w.count + Len(list), !.buf = buf] = v
      BY DEF IsDense, DenseType, done
    <2> HIDE DEF u, v
    <2> QED BY <2>3, <2>4, <2>5
  <1>11. /\ v \in DenseType(call) /\ v.done = done /\ v.count = w.count + Len(list)
         /\ v.buf = buf /\ v.result = w.result /\ v.opened = w.opened /\ v.ends = w.ends
         /\ SameWalk(v, w) /\ SamePlace(v, w)
    BY <1>3, <1>8, <1>9 DEF IsDense, DenseType, SameWalk, SamePlace
  <1>12. done \subseteq w.mask
    BY <1>1 DEF done
  <1> HIDE DEF v
  <1> QED BY <1>8, <1>9, <1>10, <1>11, <1>12 DEF IsDense, SameWalk, SamePlace

\* Whole vectors stay within what is left.
LEMMA Vectors ==
    ASSUME NEW x \in Nat
    PROVE  Chunk * (x \div Chunk) \in 0..x
  <1> DEFINE q == x \div Chunk
  <1>1. Chunk \in Nat \ {0}
    BY BodyAssumption
  <1>2. q \in Nat /\ Chunk * q <= x
    BY <1>1
  <1>3. Chunk * q \in Nat
    BY <1>1, <1>2
  <1> QED BY <1>2, <1>3

LEMMA StrideStays ==
    ASSUME NEW t, LenOf(t) \in Nat, NEW pos \in 0..LenOf(t), NEW loop
    PROVE  StrideTo(t, pos, loop) \in pos..LenOf(t)
  <1> DEFINE ahead == Chunk * ((LenOf(t) - pos) \div Chunk)
             whole == pos + ahead
             leaves == {q \in pos..(whole - 1) : ByteAt(t, q) \notin loop}
  <1>1. ahead \in 0..(LenOf(t) - pos)
    BY Vectors
  <1> HIDE DEF ahead
  <1>2. whole \in pos..LenOf(t)
    BY <1>1
  <1>3. CASE leaves = {}
    BY <1>2, <1>3 DEF StrideTo, ahead
  <1>4. CASE leaves # {}
    <2>1. leaves \subseteq Nat
      BY <1>2
    <2>2. Min(leaves) \in leaves
      BY <1>4, <2>1, MinIsLeast
    <2>3. Min(leaves) \in pos..LenOf(t)
      BY <1>2, <2>2
    <2> QED BY <1>4, <2>3 DEF StrideTo, ahead
  <1> QED BY <1>3, <1>4

\* A walk that has moved, and has taken what ends on arrival.
IsRead(call, v, w) ==
    /\ IsDense(call, v) /\ SameWalk(v, w) /\ v.pos < LenOf(call.text)
    /\ call.table.mid[v.state] \intersect v.mask \subseteq v.result

LEMMA DensePlace ==
    ASSUME NEW call, IsCall(call), NEW w, IsDense(call, w)
    PROVE  /\ w.pos \in Nat /\ w.from \in Nat /\ w.from <= w.pos /\ w.pos <= LenOf(call.text)
           /\ w.state \in DOMAIN call.table.mid /\ w.mask \subseteq DOMAIN call.ids
           /\ LenOf(call.text) \in Nat
  BY TextLength DEF IsDense, DenseType

LEMMA WordCheckDense ==
    ASSUME NEW call, IsCall(call), NEW w, IsDense(call, w)
    PROVE  LET v == WordCheck(call, w)
           IN  IsDense(call, v) /\ SameWalk(v, w) /\ SamePlace(v, w)
  <1> DEFINE word == IsWord(call.text, w.pos)
             bits == (IF word THEN call.table.w ELSE call.table.nw)[w.state]
             checked == Ending(w, bits, w.pos)
             dominant == (IF word THEN "w" ELSE "nw") \in call.table.dominant[w.state]
             one == {1} \intersect w.mask
  <1>1. /\ IsDense(call, checked) /\ SameWalk(checked, w) /\ SamePlace(checked, w)
        /\ bits \intersect w.mask \subseteq checked.result
    <2>1. w.pos \in w.from..LenOf(call.text)
      BY DensePlace
    <2> HIDE DEF bits
    <2> QED BY <2>1, EndingDense
  <1>2. CASE ~call.table.words
    BY <1>2 DEF WordCheck, SameWalk, SamePlace
  <1>3. CASE call.table.words /\ ~(DOMAIN call.ids = {1} /\ dominant)
    <2>1. WordCheck(call, w) = checked
      BY <1>3 DEF WordCheck
    <2> HIDE DEF checked
    <2> QED BY <1>1, <2>1
  <1>4. CASE call.table.words /\ DOMAIN call.ids = {1} /\ dominant
    <2>1. one \subseteq checked.result
      <3>1. w.state \in DOMAIN call.table.mid
        BY DensePlace
      <3>2. 1 \in bits
        BY <1>4, <3>1 DEF IsCall, IsTable
      <3> HIDE DEF bits, checked
      <3> QED BY <1>1, <3>2
    <2>2. WordCheck(call, w) = DeliverAll(call, checked, one)
      BY <1>4 DEF WordCheck
    <2> HIDE DEF checked, one
    <2>3. LET v == DeliverAll(call, checked, one)
          IN  IsDense(call, v) /\ SameWalk(v, checked) /\ SamePlace(v, checked)
      BY <1>1, <2>1, DeliverDense
    <2> QED BY <1>1, <2>2, <2>3 DEF SameWalk, SamePlace
  <1> QED BY <1>2, <1>3, <1>4

LEMMA LineCheckDense ==
    ASSUME NEW call, IsCall(call), NEW w, IsDense(call, w)
    PROVE  LET v == LineCheck(call, w)
           IN  IsDense(call, v) /\ SameWalk(v, w) /\ SamePlace(v, w)
  <1>1. w.pos \in w.from..LenOf(call.text)
    BY DensePlace
  <1>2. LET v == Ending(w, call.table.nl[w.state], w.pos)
        IN  IsDense(call, v) /\ SameWalk(v, w) /\ SamePlace(v, w)
    BY <1>1, EndingDense
  <1> QED BY <1>2 DEF LineCheck, SameWalk, SamePlace

LEMMA MovedDense ==
    ASSUME NEW call, IsCall(call), NEW w, IsDense(call, w), w.pos < LenOf(call.text)
    PROVE  IsRead(call, Moved(call, w), w)
  <1> DEFINE to == call.table.next[w.state][ByteAt(call.text, w.pos)]
             u == [w EXCEPT !.state = to]
             v == Ending(u, call.table.mid[to], w.pos + 1)
  <1>1. w.pos \in Nat /\ w.from \in Nat /\ w.from <= w.pos /\ LenOf(call.text) \in Nat
    BY DensePlace
  <1>2. to \in DOMAIN call.table.mid
    <2>1. w.pos + 1 \in 1..LenOf(call.text)
      BY <1>1
    <2>2. ByteAt(call.text, w.pos) \in Bytes
      BY <2>1, ElementOfSeq DEF IsCall, ByteAt, LenOf
    <2>3. w.state \in DOMAIN call.table.mid
      BY DensePlace
    <2> QED BY <2>2, <2>3 DEF IsCall, IsTable
  <1> HIDE DEF to
  <1>3. IsDense(call, u) /\ SameWalk(u, w) /\ u.pos = w.pos /\ u.state = to
    BY <1>2 DEF IsDense, DenseType, SameWalk
  <1> HIDE DEF u
  <1>4. w.pos + 1 \in u.from..LenOf(call.text)
    BY <1>1, <1>3 DEF SameWalk
  <1>5. /\ IsDense(call, v) /\ SameWalk(v, u) /\ SamePlace(v, u)
        /\ call.table.mid[to] \intersect u.mask \subseteq v.result
    BY <1>3, <1>4, EndingDense
  <1>6. Moved(call, w) = v
    BY DEF Moved, u, to
  <1> HIDE DEF v
  <1> QED BY <1>3, <1>5, <1>6 DEF IsRead, SameWalk, SamePlace

LEMMA StrodeRead ==
    ASSUME NEW call, IsCall(call), NEW w, NEW v, IsRead(call, v, w), NEW loop
    PROVE  IsRead(call, Strode(call, v, loop), w)
  <1> DEFINE to == StrideTo(call.text, v.pos + 1, loop)
             at == to - 1
             u == Ending(v, call.table.mid[v.state], at + 1)
             r == [u EXCEPT !.pos = at]
  <1>1. /\ v.pos \in Nat /\ v.from \in Nat /\ v.from <= v.pos /\ v.pos < LenOf(call.text)
        /\ LenOf(call.text) \in Nat
    BY DensePlace DEF IsRead
  <1>2. to \in (v.pos + 1)..LenOf(call.text)
    BY <1>1, StrideStays
  <1> HIDE DEF to
  <1>3. at \in v.pos..(LenOf(call.text) - 1) /\ at + 1 \in v.from..LenOf(call.text)
    BY <1>1, <1>2
  <1>4. /\ IsDense(call, u) /\ SameWalk(u, v) /\ SamePlace(u, v)
        /\ v.result \subseteq u.result
    <2> HIDE DEF at
    <2> QED BY <1>3, EndingDense DEF IsRead
  <1>5. Strode(call, v, loop) = r
    BY DEF Strode, to
  <1> HIDE DEF at, u
  <1>6. /\ IsDense(call, r) /\ SameWalk(r, u) /\ r.pos = at /\ r.state = u.state
        /\ r.result = u.result
    <2>1. at \in 0..LenOf(call.text) /\ u.from <= at
      BY <1>1, <1>3, <1>4 DEF SameWalk
    <2> QED BY <1>4, <2>1 DEF IsDense, DenseType, SameWalk
  <1> HIDE DEF r
  <1>7. r.pos < LenOf(call.text)
    BY <1>1, <1>3, <1>6
  <1> QED BY <1>4, <1>5, <1>6, <1>7 DEF IsRead, SameWalk, SamePlace

LEMMA LeavesRead ==
    ASSUME NEW call, IsCall(call), NEW w, NEW v, IsRead(call, v, w)
    PROVE  IsRead(call, [v EXCEPT !.over = TRUE], w)
  BY DEF IsRead, IsDense, DenseType, SameWalk

LEMMA StridesRead ==
    ASSUME NEW call, IsCall(call), NEW w, NEW v, IsRead(call, v, w)
    PROVE  /\ IsRead(call, DominantStride(call, v), w)
           /\ IsRead(call, MemberStride(call, v), w)
  BY StrodeRead, LeavesRead DEF DominantStride, MemberStride

LEMMA AdvancedDense ==
    ASSUME NEW call, IsCall(call), NEW w, NEW v, IsRead(call, v, w)
    PROVE  IsDense(call, Advanced(call, v)) /\ SameWalk(Advanced(call, v), w)
  <1> DEFINE now == IF v.over THEN v
                    ELSE DeliverAll(call, v, call.table.imm[v.state] \intersect v.mask)
  <1>1. IsDense(call, now) /\ SameWalk(now, w) /\ SamePlace(now, v)
    <2>1. CASE v.over
      BY <2>1 DEF IsRead, SamePlace
    <2>2. CASE ~v.over
      <3> DEFINE ks == call.table.imm[v.state] \intersect v.mask
                 u == DeliverAll(call, v, ks)
      <3>1. v.state \in DOMAIN call.table.mid
        BY DensePlace DEF IsRead
      <3>2. ks \subseteq v.result \union v.opened
        BY <3>1 DEF IsRead, IsCall, IsTable
      <3> HIDE DEF ks
      <3>3. IsDense(call, u) /\ SameWalk(u, v) /\ SamePlace(u, v)
        BY <3>2, DeliverDense DEF IsRead
      <3>4. now = u
        BY <2>2 DEF ks
      <3> HIDE DEF now, u
      <3> QED BY <3>3, <3>4 DEF IsRead, SameWalk
    <2> HIDE DEF now
    <2> QED BY <2>1, <2>2
  <1> HIDE DEF now
  <1>2. /\ v.pos \in Nat /\ v.pos < LenOf(call.text) /\ LenOf(call.text) \in Nat
        /\ now.pos = v.pos
    BY <1>1, DensePlace DEF IsRead, SamePlace
  <1>3. IsDense(call, [now EXCEPT !.pos = now.pos + 1]) /\ SameWalk([now EXCEPT !.pos = now.pos + 1], w)
    <2>1. now.pos + 1 \in 0..LenOf(call.text) /\ now.from \in Nat /\ now.from <= now.pos + 1
      BY <1>1, <1>2, DensePlace
    <2> DEFINE p == now.pos + 1
    <2> HIDE DEF p
    <2>2. p \in 0..LenOf(call.text) /\ now.from <= p
      BY <2>1 DEF p
    <2>3. IsDense(call, [now EXCEPT !.pos = p]) /\ SameWalk([now EXCEPT !.pos = p], w)
      BY <1>1, <2>2 DEF IsDense, DenseType, SameWalk
    <2> QED BY <2>3 DEF p
  <1>4. \/ Advanced(call, v) = now
        \/ Advanced(call, v) = [now EXCEPT !.pos = now.pos + 1]
    BY DEF Advanced, now
  <1> QED BY <1>1, <1>3, <1>4

LEMMA DenseStepDense ==
    ASSUME NEW call, IsCall(call), NEW w, IsDense(call, w), ~DenseOver(call, w)
    PROVE  IsDense(call, DenseStep(call, w)) /\ SameWalk(DenseStep(call, w), w)
  <1> DEFINE u == LineCheck(call, WordCheck(call, w))
             read == Moved(call, u)
  <1>1. IsDense(call, u) /\ SameWalk(u, w) /\ u.pos = w.pos
    BY WordCheckDense, LineCheckDense DEF SameWalk, SamePlace
  <1>2. w.pos < LenOf(call.text)
    <2>1. w.pos \in Int /\ LenOf(call.text) \in Int
      BY DensePlace
    <2> QED BY <2>1 DEF DenseOver
  <1> HIDE DEF u
  <1>3. IsRead(call, read, u)
    BY <1>1, <1>2, MovedDense
  <1> HIDE DEF read
  <1>4. IsRead(call, read, w)
    BY <1>1, <1>3 DEF IsRead, SameWalk
  <1>5. DenseStep(call, w) = Advanced(call, MemberStride(call, DominantStride(call, read)))
    BY DEF DenseStep, read, u
  <1> QED BY <1>4, <1>5, StridesRead, AdvancedDense

LEMMA PatternsAreFinite ==
    ASSUME NEW call, IsCall(call)
    PROVE  /\ IsFiniteSet(DOMAIN call.ids) /\ DOMAIN call.ids \in SUBSET Nat
           /\ DOMAIN call.ids = 1..Len(call.ids) /\ Len(call.ids) \in Nat
           /\ Cardinality(DOMAIN call.ids) = Len(call.ids)
  <1>1. DOMAIN call.ids = 1..Len(call.ids) /\ Len(call.ids) \in Nat
    BY DEF IsCall
  <1>2. ASSUME NEW n \in Nat
        PROVE  IsFiniteSet(1..n) /\ 1..n \in SUBSET Nat /\ Cardinality(1..n) = n
    <2>1. IsFiniteSet(1..n) /\ Cardinality(1..n) = (IF 1 > n THEN 0 ELSE n - 1 + 1)
      BY FS_Interval
    <2>2. (IF 1 > n THEN 0 ELSE n - 1 + 1) = n
      OBVIOUS
    <2> QED BY <2>1, <2>2
  <1> QED BY <1>1, <1>2

LEMMA EntryIsState ==
    ASSUME NEW call, IsCall(call), NEW from
    PROVE  Entry(call, from) \in DOMAIN call.table.mid
  BY DEF Entry, IsCall, IsTable

\* A dense walk begins.
LEMMA DenseWalkDense ==
    ASSUME NEW call, IsCall(call), NEW from \in 0..LenOf(call.text), NEW start \in 0..from,
           NEW mask \in SUBSET DOMAIN call.ids, NEW base \in Nat,
           NEW buf \in Seq(TuplesOf(call.text)), Fits(buf, base, call.cap)
    PROVE  LET w == DenseWalk(call, from, start, mask, base, buf)
           IN  /\ IsDense(call, w) /\ w.from = from /\ w.start = start /\ w.mask = mask
               /\ w.base = base
  <1> DEFINE state == Entry(call, from)
             opened == call.table.mid[state] \intersect mask
             upto == [k \in DOMAIN call.ids |-> IF k \in opened THEN from ELSE 0]
             w == [from |-> from, start |-> start, mask |-> mask, base |-> base,
                   state |-> state, pos |-> from, result |-> {}, opened |-> opened,
                   ends |-> upto, done |-> {}, count |-> 0, buf |-> buf, over |-> FALSE]
  <1>1. DenseWalk(call, from, start, mask, base, buf) = w
    BY DEF DenseWalk
  <1>2. LenOf(call.text) \in Nat /\ state \in DOMAIN call.table.mid
    BY TextLength, EntryIsState
  <1> HIDE DEF state
  <1>3. opened \in SUBSET mask
    OBVIOUS
  <1> HIDE DEF opened
  <1>4. /\ upto \in [DOMAIN call.ids -> 0..LenOf(call.text)]
        /\ \A k \in opened : from <= upto[k]
    BY <1>2, <1>3
  <1>5. start \in 0..LenOf(call.text) /\ start <= from
    BY <1>2
  <1> HIDE DEF upto
  <1>6. w \in DenseType(call)
    BY <1>2, <1>3, <1>4, <1>5 DEF DenseType
  <1>7. Cardinality({}) = 0 /\ base + 0 = base
    BY FS_EmptySet
  <1>8. 0 <= Cardinality({}) /\ from <= from
    BY <1>7
  <1> QED BY <1>1, <1>3, <1>4, <1>5, <1>6, <1>7, <1>8 DEF IsDense

\* What a frontend commits: no more matches than ks has patterns.
IsAnswer(call, v, w, ks) ==
    /\ v.start = w.start /\ v.base = w.base
    /\ v.count \in Nat /\ v.count <= Cardinality(ks)
    /\ v.buf \in Seq(TuplesOf(call.text)) /\ Fits(v.buf, v.base + v.count, call.cap)

LEMMA DenseEndAnswers ==
    ASSUME NEW call, IsCall(call), NEW w, IsDense(call, w)
    PROVE  IsAnswer(call, DenseEnd(call, w), w, w.mask)
  <1> DEFINE ended == Ending(w, call.table.eof[w.state], w.pos)
             written == DeliverAll(call, ended, ended.result)
             v == DeliverAll(call, written, ended.opened)
  <1>1. w.pos \in w.from..LenOf(call.text) /\ w.mask \subseteq DOMAIN call.ids
    BY DensePlace
  <1>2. IsDense(call, ended) /\ SameWalk(ended, w)
    BY <1>1, EndingDense
  <1> HIDE DEF ended
  <1>3. IsDense(call, written) /\ SameWalk(written, ended) /\ written.opened = ended.opened
    BY <1>2, DeliverDense
  <1> HIDE DEF written
  <1>4. IsDense(call, v) /\ SameWalk(v, written)
    BY <1>3, DeliverDense
  <1>5. DenseEnd(call, w) = v
    BY DEF DenseEnd, written, ended
  <1> HIDE DEF v
  <1>6. SameWalk(v, w)
    BY <1>2, <1>3, <1>4 DEF SameWalk
  <1>7. Cardinality(v.done) <= Cardinality(w.mask) /\ Cardinality(v.done) \in Nat
        /\ Cardinality(w.mask) \in Nat
    <2>1. v.done \in SUBSET w.mask
      BY <1>4, <1>6 DEF IsDense, SameWalk
    <2>2. IsFiniteSet(w.mask)
      BY <1>1, PatternsAreFinite, FS_Subset
    <2> QED BY <2>1, <2>2, FS_Subset, FS_CardinalityType
  <1>8. v.count \in Nat /\ v.count <= Cardinality(v.done)
    BY <1>4 DEF IsDense, DenseType
  <1>9. v.buf \in Seq(TuplesOf(call.text)) /\ Fits(v.buf, v.base + v.count, call.cap)
    BY <1>4 DEF IsDense, DenseType
  <1>10. v.count <= Cardinality(w.mask)
    BY <1>7, <1>8
  <1> QED BY <1>5, <1>6, <1>8, <1>9, <1>10 DEF IsAnswer, SameWalk
-----------------------------------------------------------------------------
(* The sparse body. *)

Memory(s) == [seen |-> s.seen, stale |-> s.stale, verdict |-> s.verdict]

SparseType(call) ==
    [from : 0..LenOf(call.text), start : 0..LenOf(call.text), base : Nat,
     state : DOMAIN call.table.mid, pos : 0..LenOf(call.text), fired : Seq(DOMAIN call.ids),
     ends : [DOMAIN call.ids -> 0..LenOf(call.text)], plain : BOOLEAN, tried : BOOLEAN,
     advanced : BOOLEAN, over : BOOLEAN, buf : Seq(TuplesOf(call.text)), count : Nat]

\* A sparse walk and its bucket's memory: no pattern fires twice, what has fired
\* ended after the start, and it is what the memory has.
IsSparse(call, w, s) ==
    /\ w \in SparseType(call)
    /\ w.start <= w.from /\ w.from <= w.pos
    /\ \A i, j \in 1..Len(w.fired) : w.fired[i] = w.fired[j] => i = j
    /\ \A i \in 1..Len(w.fired) : w.from <= w.ends[w.fired[i]]
    /\ w.count = 0 /\ Fits(w.buf, w.base, call.cap)
    /\ s = Memory(s) /\ s.seen = FiredIn(w)

SameCall(v, w) == v.from = w.from /\ v.start = w.start /\ v.base = w.base

\* The list, and after it what is new.
LEMMA Lengthens ==
    ASSUME NEW K, NEW f \in Seq(K), \A i, j \in 1..Len(f) : f[i] = f[j] => i = j,
           NEW e \in SUBSET K, NEW g, Lists(g, e), e \intersect Range(f) = {}
    PROVE  /\ f \o g \in Seq(K) /\ Range(f \o g) = Range(f) \union e
           /\ \A i, j \in 1..Len(f \o g) : (f \o g)[i] = (f \o g)[j] => i = j
  <1> DEFINE h == f \o g
             n == Len(f)
  <1>1. g \in Seq(K) /\ Len(g) \in Nat /\ n \in Nat
    BY SeqMonotonic DEF Lists
  <1>2. /\ h \in Seq(K) /\ Len(h) = n + Len(g)
        /\ \A i \in 1..(n + Len(g)) : h[i] = IF i <= n THEN f[i] ELSE g[i - n]
    BY <1>1, ConcatProperties
  <1>3. /\ \A i \in 1..n : f[i] \in Range(f)
        /\ \A x \in Range(f) : \E i \in 1..n : f[i] = x
        /\ \A i \in 1..Len(g) : g[i] \in e
        /\ \A x \in e : \E i \in 1..Len(g) : g[i] = x
    BY ElementOfSeq DEF Range, Lists
  <1>4. /\ DOMAIN h = 1..(n + Len(g))
        /\ \A i \in 1..n : h[i] = f[i]
        /\ \A i \in 1..Len(g) : i + n \in 1..(n + Len(g)) /\ h[i + n] = g[i]
        /\ \A i \in 1..(n + Len(g)) : i <= n \/ (i - n \in 1..Len(g) /\ h[i] = g[i - n])
    <2>1. DOMAIN h = 1..(n + Len(g))
      <3> HIDE DEF h
      <3> QED BY <1>2
    <2> HIDE DEF h, n
    <2> QED BY <1>1, <1>2, <2>1
  <1> HIDE DEF h, n
  <1>5. Range(h) = Range(f) \union e
    <2>1. ASSUME NEW x \in Range(h) PROVE x \in Range(f) \union e
      <3>1. PICK i \in 1..(n + Len(g)) : h[i] = x
        BY <1>4 DEF Range
      <3>2. CASE i <= n
        BY <1>1, <1>2, <1>3, <3>1, <3>2
      <3>3. CASE ~(i <= n)
        BY <1>3, <1>4, <3>1, <3>3
      <3> QED BY <3>2, <3>3
    <2>2. ASSUME NEW x \in Range(f) PROVE x \in Range(h)
      <3>1. PICK i \in 1..n : f[i] = x
        BY <1>3
      <3>2. i \in DOMAIN h /\ h[i] = x
        BY <1>1, <1>4, <3>1
      <3> QED BY <3>2 DEF Range
    <2>3. ASSUME NEW x \in e PROVE x \in Range(h)
      <3>1. PICK i \in 1..Len(g) : g[i] = x
        BY <1>3
      <3>2. i + n \in DOMAIN h /\ h[i + n] = x
        BY <1>4, <3>1
      <3> QED BY <3>2 DEF Range
    <2> QED BY <2>1, <2>2, <2>3
  <1>6. ASSUME NEW i \in 1..(n + Len(g)), NEW j \in 1..(n + Len(g)), h[i] = h[j]
        PROVE  i = j
    <2>1. CASE i <= n /\ j <= n
      <3>1. i \in 1..n /\ j \in 1..n
        BY <1>1, <2>1
      <3>2. f[i] = f[j]
        BY <1>4, <1>6, <3>1
      <3> QED BY <3>1, <3>2 DEF n
    <2>2. CASE ~(i <= n) /\ ~(j <= n)
      <3>1. i - n \in 1..Len(g) /\ j - n \in 1..Len(g) /\ g[i - n] = g[j - n]
        BY <1>4, <1>6, <2>2
      <3>2. i - n = j - n
        BY <3>1 DEF Lists
      <3> QED BY <1>1, <3>2
    <2>3. CASE i <= n /\ ~(j <= n)
      <3>1. i \in 1..n /\ j - n \in 1..Len(g)
        BY <1>1, <1>4, <2>3
      <3>2. h[i] \in Range(f) /\ h[j] \in e
        BY <1>3, <1>4, <2>3, <3>1
      <3> QED BY <1>6, <3>2
    <2>4. CASE ~(i <= n) /\ j <= n
      <3>1. j \in 1..n /\ i - n \in 1..Len(g)
        BY <1>1, <1>4, <2>4
      <3>2. h[j] \in Range(f) /\ h[i] \in e
        BY <1>3, <1>4, <2>4, <3>1
      <3> QED BY <1>6, <3>2
    <2> QED BY <2>1, <2>2, <2>3, <2>4
  <1> QED BY <1>2, <1>5, <1>6 DEF h, n

LEMMA RecordSparse ==
    ASSUME NEW call, IsCall(call), NEW w, NEW s, IsSparse(call, w, s),
           NEW list \in SUBSET DOMAIN call.ids
    PROVE  LET r == Record(w, s, list)
           IN  /\ IsSparse(call, r.w, r.scratch) /\ SameCall(r.w, w)
               /\ r.w.pos = w.pos /\ r.w.over = w.over /\ r.w.state = w.state
  <1> DEFINE e == list \ s.seen
             fired == w.fired \o Ascending(e)
             upto == [k \in DOMAIN w.ends |-> IF k \in list THEN w.pos ELSE w.ends[k]]
             v == [w EXCEPT !.ends = upto, !.fired = fired]
             m == [s EXCEPT !.seen = s.seen \union list]
             r == Record(w, s, list)
             K == DOMAIN call.ids
  <1>1. /\ w.fired \in Seq(K) /\ w.ends \in [K -> 0..LenOf(call.text)]
        /\ w.pos \in 0..LenOf(call.text) /\ w.from \in Int /\ w.from <= w.pos
        /\ w.pos \in Int
        /\ \A i, j \in 1..Len(w.fired) : w.fired[i] = w.fired[j] => i = j
        /\ s = Memory(s) /\ s.seen = Range(w.fired)
    BY DEF IsSparse, SparseType, FiredIn
  <1>2. r.w = v /\ r.scratch = m
    BY DEF Record, IsSparse, SparseType
  <1>3. e \in SUBSET K /\ IsFiniteSet(e) /\ e \in SUBSET Nat
    <2>1. e \in SUBSET K
      OBVIOUS
    <2> HIDE DEF e, K
    <2> QED BY <2>1, PatternsAreFinite, FS_Subset DEF K
  <1>4. Lists(Ascending(e), e)
    <2> HIDE DEF e
    <2> QED BY <1>3, AscendingLists
  <1>5. e \intersect Range(w.fired) = {}
    BY <1>1
  <1>6. /\ fired \in Seq(K) /\ Range(fired) = Range(w.fired) \union e
        /\ \A i, j \in 1..Len(fired) : fired[i] = fired[j] => i = j
    <2> DEFINE f == w.fired
               g == Ascending(e)
    <2>1. /\ f \in Seq(K) /\ e \in SUBSET K /\ Lists(g, e) /\ e \intersect Range(f) = {}
          /\ \A i, j \in 1..Len(f) : f[i] = f[j] => i = j
      BY <1>1, <1>3, <1>4, <1>5
    <2> HIDE DEF e, K, f, g
    <2>2. /\ f \o g \in Seq(K) /\ Range(f \o g) = Range(f) \union e
          /\ \A i, j \in 1..Len(f \o g) : (f \o g)[i] = (f \o g)[j] => i = j
      BY <2>1, Lengthens
    <2> QED BY <2>2 DEF f, g
  <1>7. upto \in [K -> 0..LenOf(call.text)]
    BY <1>1
  <1>8. ASSUME NEW i \in 1..Len(fired) PROVE w.from <= upto[fired[i]]
    <2>1. fired[i] \in Range(w.fired) \union e /\ fired[i] \in K
      <3> HIDE DEF e
      <3>1. DOMAIN fired = 1..Len(fired)
        BY <1>6
      <3> HIDE DEF fired
      <3>2. fired[i] \in Range(fired)
        BY <3>1 DEF Range
      <3> QED BY <1>6, <3>2, ElementOfSeq
    <2>2. upto[fired[i]] = IF fired[i] \in list THEN w.pos ELSE w.ends[fired[i]]
      BY <1>1, <2>1
    <2>3. CASE fired[i] \in list
      <3> HIDE DEF upto, fired
      <3> QED BY <1>1, <2>2, <2>3
    <2>4. CASE fired[i] \notin list
      <3>1. fired[i] \in Range(w.fired)
        BY <2>1, <2>4
      <3>0. DOMAIN w.fired = 1..Len(w.fired)
        BY <1>1
      <3>2. PICK j \in 1..Len(w.fired) : w.fired[j] = fired[i]
        <4> HIDE DEF fired
        <4> QED BY <3>0, <3>1 DEF Range
      <3>3. w.from <= w.ends[w.fired[j]]
        BY DEF IsSparse
      <3> HIDE DEF upto, fired
      <3> QED BY <2>2, <2>4, <3>2, <3>3
    <2> QED BY <2>3, <2>4
  <1>9. m = Memory(m) /\ m.seen = Range(fired)
    <2>1. s.seen \union list = Range(fired)
      BY <1>1, <1>6
    <2>2. PICK a, b, c : s = [seen |-> a, stale |-> b, verdict |-> c]
      BY <1>1 DEF Memory
    <2>3. m = [seen |-> a \union list, stale |-> b, verdict |-> c] /\ s.seen = a
      BY <2>2
    <2> HIDE DEF m
    <2> QED BY <2>1, <2>3 DEF Memory
  <1> HIDE DEF upto, fired, m
  <1>10. /\ v \in SparseType(call) /\ v.fired = fired /\ v.ends = upto /\ SameCall(v, w)
         /\ v.pos = w.pos /\ v.over = w.over /\ v.state = w.state /\ v.count = w.count
         /\ v.buf = w.buf
    <2>1. fired \in Seq(DOMAIN call.ids) /\ upto \in [DOMAIN call.ids -> 0..LenOf(call.text)]
      BY <1>6, <1>7
    <2> QED BY <2>1 DEF IsSparse, SparseType, SameCall
  <1> HIDE DEF v, r
  <1>11. IsSparse(call, v, m)
    BY <1>1, <1>6, <1>8, <1>9, <1>10 DEF IsSparse, SameCall, FiredIn
  <1> QED BY <1>2, <1>10, <1>11 DEF r

LEMMA SparsePlace ==
    ASSUME NEW call, IsCall(call), NEW w, NEW s, IsSparse(call, w, s)
    PROVE  /\ w.pos \in Nat /\ w.from \in Nat /\ w.from <= w.pos /\ w.pos <= LenOf(call.text)
           /\ w.state \in DOMAIN call.table.mid /\ LenOf(call.text) \in Nat
  BY TextLength DEF IsSparse, SparseType

\* A step of a walk that fires nothing.
LEMMA SparseMoves ==
    ASSUME NEW call, IsCall(call), NEW w, NEW s, IsSparse(call, w, s),
           NEW state \in DOMAIN call.table.mid, NEW pos \in w.pos..LenOf(call.text),
           NEW tried \in BOOLEAN, NEW advanced \in BOOLEAN, NEW over \in BOOLEAN,
           NEW v, v = [w EXCEPT !.state = state, !.pos = pos, !.tried = tried,
                                !.advanced = advanced, !.over = over],
           NEW m, m = Memory(m), m.seen = s.seen
    PROVE  IsSparse(call, v, m) /\ SameCall(v, w)
  <1>1. pos \in 0..LenOf(call.text) /\ w.from <= pos
    BY SparsePlace
  <1>2. /\ v \in SparseType(call) /\ SameCall(v, w) /\ v.pos = pos /\ v.fired = w.fired
        /\ v.ends = w.ends /\ v.count = w.count /\ v.buf = w.buf
    BY <1>1 DEF IsSparse, SparseType, SameCall
  <1>3. IsSparse(call, v, m)
    BY <1>1, <1>2 DEF IsSparse, SameCall, FiredIn
  <1> QED BY <1>2, <1>3

LEMMA SparseStrideSparse ==
    ASSUME NEW call, IsCall(call), NEW w, NEW s, IsSparse(call, w, s)
    PROVE  LET r == SparseStride(call, w, s)
           IN  /\ IsSparse(call, r.w, r.scratch) /\ SameCall(r.w, w) /\ r.w.state = w.state
  <1> DEFINE loop == call.table.members[w.state]
             due == w.state \notin s.stale \/ w.pos % Period = 0
             at == StrideTo(call.text, w.pos, loop)
             still == at = w.pos
             stale == IF still THEN s.stale \union {w.state} ELSE s.stale \ {w.state}
             r == SparseStride(call, w, s)
  <1>1. /\ w.pos \in Nat /\ w.pos <= LenOf(call.text) /\ w.state \in DOMAIN call.table.mid
        /\ LenOf(call.text) \in Nat /\ s = Memory(s) /\ w \in SparseType(call)
        /\ w.pos \in w.pos..LenOf(call.text)
    BY SparsePlace DEF IsSparse
  <1>2. CASE w.plain \/ loop = {}
    BY <1>2 DEF SparseStride, SameCall
  <1>3. CASE ~(w.plain \/ loop = {}) /\ ~due
    <2> DEFINE v == [w EXCEPT !.tried = TRUE]
    <2>1. r = [w |-> v, scratch |-> s]
      BY <1>3 DEF SparseStride
    <2>2. v = [w EXCEPT !.state = w.state, !.pos = w.pos, !.tried = TRUE,
                        !.advanced = w.advanced, !.over = w.over]
      BY <1>1 DEF SparseType
    <2>3. w.advanced \in BOOLEAN /\ w.over \in BOOLEAN
      BY <1>1 DEF SparseType
    <2>5. v.state = w.state
      BY <1>1 DEF SparseType
    <2> HIDE DEF v, r
    <2>6. IsSparse(call, v, s) /\ SameCall(v, w)
      BY <1>1, <2>2, <2>3, SparseMoves
    <2> QED BY <2>1, <2>5, <2>6 DEF r
  <1>4. CASE ~(w.plain \/ loop = {}) /\ due
    <2> DEFINE advanced == w.advanced \/ ~still
               v == [w EXCEPT !.tried = TRUE, !.pos = at, !.advanced = advanced]
               m == [s EXCEPT !.stale = stale]
    <2>1. r = [w |-> v, scratch |-> m]
      BY <1>1, <1>4 DEF SparseStride, SparseType, Memory
    <2>2. at \in w.pos..LenOf(call.text)
      BY <1>1, StrideStays
    <2>3. m = Memory(m) /\ m.seen = s.seen
      <3>1. PICK a, b, c : s = [seen |-> a, stale |-> b, verdict |-> c]
        BY <1>1 DEF Memory
      <3> HIDE DEF stale
      <3> QED BY <3>1 DEF Memory
    <2>4. advanced \in BOOLEAN /\ w.over \in BOOLEAN
      BY <1>1 DEF SparseType
    <2> HIDE DEF at, still, stale, advanced
    <2>5. v = [w EXCEPT !.state = w.state, !.pos = at, !.tried = TRUE,
                        !.advanced = advanced, !.over = w.over]
      BY <1>1 DEF SparseType
    <2>6. v.state = w.state
      BY <1>1 DEF SparseType
    <2> HIDE DEF v, r, m
    <2>7. IsSparse(call, v, m) /\ SameCall(v, w)
      <3>1. PICK x, y, z : x = at /\ y = advanced /\ z = m
        OBVIOUS
      <3>2. /\ x \in w.pos..LenOf(call.text) /\ y \in BOOLEAN /\ w.over \in BOOLEAN
            /\ w.state \in DOMAIN call.table.mid /\ z = Memory(z) /\ z.seen = s.seen
            /\ v = [w EXCEPT !.state = w.state, !.pos = x, !.tried = TRUE,
                             !.advanced = y, !.over = w.over]
        BY <1>1, <2>2, <2>3, <2>4, <2>5, <3>1
      <3>3. IsSparse(call, v, z) /\ SameCall(v, w)
        BY <3>2, SparseMoves
      <3> QED BY <3>1, <3>3
    <2> QED BY <2>1, <2>6, <2>7 DEF r
  <1> HIDE DEF r
  <1>5. IsSparse(call, r.w, r.scratch) /\ SameCall(r.w, w) /\ r.w.state = w.state
    BY <1>2, <1>3, <1>4 DEF r
  <1> QED BY <1>5 DEF r

LEMMA SparseStepSparse ==
    ASSUME NEW call, IsCall(call), NEW w, NEW s, IsSparse(call, w, s), ~SparseOver(call, w)
    PROVE  LET r == SparseStep(call, w, s)
           IN  IsSparse(call, r.w, r.scratch) /\ SameCall(r.w, w)
  <1> DEFINE to == call.table.next[w.state][ByteAt(call.text, w.pos)]
             u == [w EXCEPT !.state = to, !.pos = w.pos + 1]
             read == SparseStride(call, u, s)
             r == SparseStep(call, w, s)
  <1>1. /\ w.pos \in Nat /\ w.pos < LenOf(call.text) /\ w.state \in DOMAIN call.table.mid
        /\ LenOf(call.text) \in Nat /\ s = Memory(s) /\ w \in SparseType(call)
    <2>1. w.pos \in Nat /\ LenOf(call.text) \in Nat /\ w.pos <= LenOf(call.text)
      BY SparsePlace
    <2>2. w.pos < LenOf(call.text)
      BY <2>1 DEF SparseOver
    <2> QED BY <2>1, <2>2, SparsePlace DEF IsSparse
  <1>2. to \in DOMAIN call.table.mid
    <2>1. w.pos + 1 \in 1..LenOf(call.text)
      BY <1>1
    <2>2. ByteAt(call.text, w.pos) \in Bytes
      BY <2>1, ElementOfSeq DEF IsCall, ByteAt, LenOf
    <2> QED BY <1>1, <2>2 DEF IsCall, IsTable
  <1>4. w.tried \in BOOLEAN /\ w.advanced \in BOOLEAN /\ w.over \in BOOLEAN
    BY <1>1 DEF SparseType
  <1>5. CASE to = DeadState
    <2> DEFINE v == [w EXCEPT !.over = TRUE]
    <2>1. v = [w EXCEPT !.state = w.state, !.pos = w.pos, !.tried = w.tried,
                        !.advanced = w.advanced, !.over = TRUE]
      BY <1>1 DEF SparseType
    <2>2. w.pos \in w.pos..LenOf(call.text)
      BY <1>1
    <2>3. r = [w |-> v, scratch |-> s]
      BY <1>5 DEF SparseStep
    <2> HIDE DEF v, r
    <2>4. IsSparse(call, v, s) /\ SameCall(v, w)
      BY <1>1, <1>2, <1>4, <2>1, <2>2, SparseMoves
    <2> QED BY <2>3, <2>4 DEF r
  <1>6. CASE to # DeadState
    <2>1. r = Record(read.w, read.scratch, call.table.mid[to])
      BY <1>1, <1>6 DEF SparseStep, SparseType
    <2> HIDE DEF to
    <2>2. u = [w EXCEPT !.state = to, !.pos = w.pos + 1, !.tried = w.tried,
                        !.advanced = w.advanced, !.over = w.over]
      BY <1>1 DEF SparseType
    <2>3. w.pos + 1 \in w.pos..LenOf(call.text)
      BY <1>1
    <2>4. u.state = to
      BY <1>1 DEF SparseType
    <2> HIDE DEF u
    <2>5. IsSparse(call, u, s) /\ SameCall(u, w)
      <3> DEFINE p == w.pos + 1
      <3> HIDE DEF p
      <3>1. u = [w EXCEPT !.state = to, !.pos = p, !.tried = w.tried,
                          !.advanced = w.advanced, !.over = w.over]
            /\ p \in w.pos..LenOf(call.text)
        BY <2>2, <2>3 DEF p
      <3> QED BY <1>1, <1>2, <1>4, <3>1, SparseMoves
    <2>6. /\ IsSparse(call, read.w, read.scratch) /\ SameCall(read.w, u)
          /\ read.w.state = to
      BY <2>4, <2>5, SparseStrideSparse
    <2> HIDE DEF read, r
    <2>7. call.table.mid[to] \in SUBSET DOMAIN call.ids
      BY <1>2 DEF IsCall, IsTable
    <2>8. IsSparse(call, r.w, r.scratch) /\ SameCall(r.w, read.w)
      BY <2>1, <2>6, <2>7, RecordSparse
    <2> QED BY <2>5, <2>6, <2>8 DEF SameCall, r
  <1> QED BY <1>5, <1>6

LEMMA SparseWalkSparse ==
    ASSUME NEW call, IsCall(call), NEW from \in 0..LenOf(call.text), NEW start \in 0..from,
           NEW base \in Nat, NEW buf \in Seq(TuplesOf(call.text)), Fits(buf, base, call.cap),
           NEW s, s = Memory(s), s.seen = {}
    PROVE  LET r == SparseWalk(call, from, start, base, buf, s)
           IN  /\ IsSparse(call, r.w, r.scratch) /\ r.w.from = from /\ r.w.start = start
               /\ r.w.base = base
  <1> DEFINE state == IF from = 0 THEN call.table.start ELSE call.table.midStart
             upto == [k \in DOMAIN call.ids |-> 0]
             plain == s.verdict # 0 /\ start % Reprobe # 0
             w == [from |-> from, start |-> start, base |-> base,
                   state |-> state, pos |-> from, fired |-> << >>, ends |-> upto,
                   plain |-> plain, tried |-> FALSE, advanced |-> FALSE, over |-> FALSE,
                   buf |-> buf, count |-> 0]
             r == SparseWalk(call, from, start, base, buf, s)
  <1>1. r = Record(w, s, call.table.mid[state])
    BY DEF SparseWalk
  <1>2. state \in DOMAIN call.table.mid /\ call.table.mid[state] \in SUBSET DOMAIN call.ids
    BY DEF IsCall, IsTable
  <1>3. LenOf(call.text) \in Nat /\ upto \in [DOMAIN call.ids -> 0..LenOf(call.text)]
        /\ plain \in BOOLEAN /\ start \in 0..LenOf(call.text) /\ start <= from
    <2>1. LenOf(call.text) \in Nat
      BY TextLength
    <2>2. plain \in BOOLEAN
      BY Zenon
    <2> HIDE DEF plain
    <2> QED BY <2>1, <2>2
  <1>4. << >> \in Seq(DOMAIN call.ids) /\ Len(<< >>) = 0
    OBVIOUS
  <1> HIDE DEF state, upto, plain
  <1>5. w \in SparseType(call)
    BY <1>2, <1>3, <1>4 DEF SparseType
  <1>6. FiredIn(w) = {}
    BY DEF FiredIn, Range
  <1>7. IsSparse(call, w, s)
    <2>1. /\ w.start <= w.from /\ w.from <= w.pos /\ w.count = 0 /\ w.base = base
          /\ w.buf = buf /\ w.fired = << >>
      BY <1>3
    <2> HIDE DEF w
    <2>2. 1..Len(w.fired) = {}
      BY <1>4, <2>1
    <2> QED BY <1>5, <1>6, <2>1, <2>2 DEF IsSparse
  <1>8. w.from = from /\ w.start = start /\ w.base = base
    OBVIOUS
  <1> HIDE DEF w, r
  <1>9. IsSparse(call, r.w, r.scratch) /\ SameCall(r.w, w)
    BY <1>1, <1>2, <1>7, RecordSparse
  <1> QED BY <1>8, <1>9 DEF r, SameCall

\* Of a list, at the places chosen.
LEMMA Chosen ==
    ASSUME NEW K, NEW f \in Seq(K), NEW places \in SUBSET (1..Len(f))
    PROVE  LET order == Ascending(places)
               list == [i \in DOMAIN order |-> f[order[i]]]
           IN  /\ list \in Seq(K) /\ Len(list) \in Nat /\ Len(list) <= Len(f)
               /\ DOMAIN list = 1..Len(list)
               /\ \A i \in 1..Len(list) : \E j \in 1..Len(f) : list[i] = f[j]
  <1> DEFINE order == Ascending(places)
             list == [i \in DOMAIN order |-> f[order[i]]]
             n == Len(f)
  <1>1. n \in Nat /\ f \in [1..n -> K] /\ places \in SUBSET (1..n)
    OBVIOUS
  <1> HIDE DEF n
  <1>2. IsFiniteSet(1..n) /\ Cardinality(1..n) = n
    BY <1>1, FS_Interval
  <1>3. /\ IsFiniteSet(places) /\ Cardinality(places) <= n
        /\ Cardinality(places) \in Nat /\ places \in SUBSET Nat
    <2>1. IsFiniteSet(places) /\ Cardinality(places) <= Cardinality(1..n)
      BY <1>1, <1>2, FS_Subset
    <2> QED BY <1>1, <1>2, <2>1, FS_CardinalityType
  <1>4. order \in Seq(places) /\ Len(order) = Cardinality(places)
    BY <1>3, AscendingLists DEF Lists
  <1> DEFINE m == Len(order)
  <1> HIDE DEF order
  <1>5. m \in Nat /\ order \in [1..m -> places] /\ m <= n
    <2>1. m \in Nat /\ order \in [1..m -> places]
      BY <1>4
    <2>2. m <= n
      BY <1>3, <1>4
    <2> QED BY <2>1, <2>2
  <1> HIDE DEF m
  <1>6. \A i \in 1..m : order[i] \in 1..n /\ f[order[i]] \in K
    BY <1>1, <1>5
  <1>7. list \in [1..m -> K]
    BY <1>5, <1>6
  <1>8. \A i \in 1..m : \E j \in 1..n : list[i] = f[j]
    BY <1>5, <1>6
  <1> HIDE DEF list
  <1>9. list \in Seq(K) /\ Len(list) = m /\ DOMAIN list = 1..m
    BY <1>5, <1>7
  <1>10. Len(list) \in Nat /\ Len(list) <= n
    BY <1>5, <1>9
  <1> QED BY <1>8, <1>9, <1>10 DEF list, order, n

\* No more patterns have ended than there are.
LEMMA FiredOnce ==
    ASSUME NEW K, IsFiniteSet(K), NEW f \in Seq(K),
           \A i, j \in 1..Len(f) : f[i] = f[j] => i = j
    PROVE  Len(f) <= Cardinality(K)
  <1>1. Len(f) \in Nat /\ f \in [1..Len(f) -> K]
    OBVIOUS
  <1>2. f \in Injection(1..Len(f), K)
    BY <1>1, Zenon DEF Injection, IsInjective
  <1>3. Cardinality(1..Len(f)) <= Cardinality(K)
    BY <1>2, FS_Injection
  <1>4. Cardinality(1..Len(f)) = Len(f)
    BY <1>1, FS_Interval
  <1> QED BY <1>3, <1>4

LEMMA SparseDeliverAnswers ==
    ASSUME NEW call, IsCall(call), NEW w, NEW s, IsSparse(call, w, s)
    PROVE  IsAnswer(call, SparseDeliver(call, w), w, DOMAIN call.ids)
  <1> DEFINE open == {i \in DOMAIN w.fired : ~SparseBarred(call, w, w.fired[i])}
             places == Ascending(open)
             list == [i \in DOMAIN places |-> w.fired[places[i]]]
             K == DOMAIN call.ids
             buf == Write(w.buf, w.base + w.count, call.cap,
                          [i \in DOMAIN list |-> MatchOf(call, w, list[i])])
             v == [w EXCEPT !.count = w.count + Len(list), !.buf = buf]
  <1>1. /\ w \in SparseType(call) /\ w.fired \in Seq(K)
        /\ w.ends \in [K -> 0..LenOf(call.text)] /\ w.start \in 0..LenOf(call.text)
        /\ w.base \in Nat /\ w.count = 0 /\ w.buf \in Seq(TuplesOf(call.text))
        /\ Fits(w.buf, w.base, call.cap) /\ w.from \in Int /\ w.start <= w.from
        /\ DOMAIN w.fired = 1..Len(w.fired) /\ Len(w.fired) \in Nat
    BY DEF IsSparse, SparseType
  <1>2. Len(w.fired) <= Cardinality(K) /\ Cardinality(K) \in Nat
    <2>1. IsFiniteSet(K)
      BY PatternsAreFinite
    <2>2. \A i, j \in 1..Len(w.fired) : w.fired[i] = w.fired[j] => i = j
      BY DEF IsSparse
    <2> QED BY <1>1, <2>1, <2>2, FiredOnce, FS_CardinalityType
  <1>3. open \in SUBSET (1..Len(w.fired))
    BY <1>1
  <1>4. /\ list \in Seq(K) /\ Len(list) \in Nat /\ Len(list) <= Len(w.fired)
        /\ DOMAIN list = 1..Len(list)
        /\ \A i \in 1..Len(list) : \E j \in 1..Len(w.fired) : list[i] = w.fired[j]
    <2> DEFINE f == w.fired
    <2>1. f \in Seq(K) /\ open \in SUBSET (1..Len(f))
      BY <1>1, <1>3
    <2> HIDE DEF open, K, f
    <2> DEFINE order == Ascending(open)
               chosen == [i \in DOMAIN order |-> f[order[i]]]
    <2>2. /\ chosen \in Seq(K) /\ Len(chosen) \in Nat /\ Len(chosen) <= Len(f)
          /\ DOMAIN chosen = 1..Len(chosen)
          /\ \A i \in 1..Len(chosen) : \E j \in 1..Len(f) : chosen[i] = f[j]
      BY <2>1, Chosen
    <2>3. list = chosen
      BY DEF f
    <2> HIDE DEF chosen, list
    <2> QED BY <2>2, <2>3 DEF f
  <1> HIDE DEF open, places, list
  <1>5. ASSUME NEW i \in 1..Len(list) PROVE w.start <= w.ends[list[i]]
    <2>1. PICK j \in 1..Len(w.fired) : list[i] = w.fired[j]
      BY <1>4
    <2>2. w.from <= w.ends[list[i]]
      BY <2>1 DEF IsSparse
    <2>3. list[i] \in K
      BY <1>4, ElementOfSeq
    <2>4. w.ends[list[i]] \in Int
      BY <1>1, <2>3
    <2> QED BY <1>1, <2>2, <2>4
  <1>6. Fits(w.buf, w.base + w.count, call.cap) /\ w.count \in Nat
    <2>1. w.base + w.count = w.base
      BY <1>1
    <2> QED BY <1>1, <2>1
  <1>7. /\ buf \in Seq(TuplesOf(call.text))
        /\ Fits(buf, w.base + (w.count + Len(list)), call.cap)
    BY <1>1, <1>4, <1>5, <1>6, CountingFits
  <1>8. SparseDeliver(call, w) = v
    BY DEF SparseDeliver, Counting, list, places, open
  <1> HIDE DEF buf
  <1>9. v.count = w.count + Len(list) /\ v.buf = buf /\ v.start = w.start /\ v.base = w.base
    BY <1>1 DEF SparseType
  <1>10. v.count \in Nat /\ v.count <= Cardinality(K)
    BY <1>1, <1>2, <1>4, <1>9
  <1> HIDE DEF v
  <1> QED BY <1>7, <1>8, <1>9, <1>10 DEF IsAnswer

\* The end of a sparse walk: its answer, and the bucket's memory as it was
\* found.
LEMMA SparseEndAnswers ==
    ASSUME NEW call, IsCall(call), NEW w, NEW s, IsSparse(call, w, s)
    PROVE  LET end == SparseEnd(call, w, s)
           IN  /\ IsAnswer(call, end.w, w, DOMAIN call.ids)
               /\ end.scratch = Memory(end.scratch) /\ end.scratch.seen = {}
  <1> DEFINE judged == IF w.plain THEN s
                       ELSE [s EXCEPT !.verdict = IF w.advanced \/ ~w.tried THEN 0
                                                  ELSE Reprobe - 1]
             last == IF w.pos = LenOf(call.text)
                     THEN Record(w, judged, call.table.eof[w.state])
                     ELSE [w |-> w, scratch |-> judged]
             v == last.w
             m == last.scratch
             end == SparseEnd(call, w, s)
  <1>1. s = Memory(s) /\ w \in SparseType(call) /\ w.state \in DOMAIN call.table.mid
        /\ w.pos \in 0..LenOf(call.text)
    BY DEF IsSparse, SparseType
  <1>2. judged = Memory(judged) /\ judged.seen = s.seen
    <2>1. PICK a, b, c : s = [seen |-> a, stale |-> b, verdict |-> c]
      BY <1>1 DEF Memory
    <2>2. PICK d : d = IF w.advanced \/ ~w.tried THEN 0 ELSE Reprobe - 1
      OBVIOUS
    <2>3. judged = IF w.plain THEN s ELSE [seen |-> a, stale |-> b, verdict |-> d]
      BY <2>1, <2>2
    <2> HIDE DEF judged
    <2> QED BY <2>1, <2>3 DEF Memory
  <1> HIDE DEF judged
  <1>3. IsSparse(call, w, judged) /\ SameCall(w, w)
    BY <1>2 DEF IsSparse, SameCall
  <1>4. call.table.eof[w.state] \in SUBSET DOMAIN call.ids
    BY <1>1 DEF IsCall, IsTable
  <1>5. IsSparse(call, v, m) /\ SameCall(v, w)
    BY <1>3, <1>4, RecordSparse
  <1>6. end = [w |-> SparseDeliver(call, v),
               scratch |-> [m EXCEPT !.seen = Unmarked(call, v, m.seen)]]
    BY DEF SparseEnd, judged
  <1> HIDE DEF last
  <1>7. IsAnswer(call, SparseDeliver(call, v), v, DOMAIN call.ids)
    BY <1>5, SparseDeliverAnswers
  <1>8. PICK x : x = [m EXCEPT !.seen = Unmarked(call, v, m.seen)]
    OBVIOUS
  <1>9. x = Memory(x) /\ x.seen = {}
    <2>1. m = Memory(m) /\ m.seen = FiredIn(v)
      BY <1>5 DEF IsSparse
    <2>2. Unmarked(call, v, m.seen) = {}
      BY <2>1 DEF Unmarked
    <2>3. PICK a, b, c : m = [seen |-> a, stale |-> b, verdict |-> c]
      BY <2>1 DEF Memory
    <2>4. x = [seen |-> {}, stale |-> b, verdict |-> c]
      BY <1>8, <2>2, <2>3
    <2> QED BY <2>4 DEF Memory
  <1> HIDE DEF v, m, end
  <1>10. end.w = SparseDeliver(call, v) /\ end.scratch = x
    BY <1>6, <1>8
  <1>11. IsAnswer(call, end.w, w, DOMAIN call.ids)
    BY <1>5, <1>7, <1>10 DEF IsAnswer, SameCall
  <1> QED BY <1>9, <1>10, <1>11 DEF end

\* What a drive does not change.
Setting == set \in Sets /\ text \in Texts

LEMMA SettingFacts ==
    ASSUME Setting
    PROVE  /\ Buckets = 1..Len(B) /\ Len(B) \in Nat /\ \A b \in Buckets : IsBucket(B[b])
           /\ text.bytes \in Seq(Bytes) /\ LenOf(text) \in Nat
           /\ IsFiniteSet(Ids) /\ Cardinality(Ids) \in Nat /\ MaxCap \in Nat
  <1>1. set.buckets \in Seq(Range(set.buckets))
    BY SetAssumption DEF Setting
  <1>2. Buckets = 1..Len(B) /\ Len(B) \in Nat
    BY <1>1 DEF Buckets, B
  <1>3. \A b \in Buckets : IsBucket(B[b])
    BY SetAssumption DEF Setting, Buckets, B
  <1>4. text.bytes \in Seq(Bytes) /\ LenOf(text) \in Nat
    <2>1. text.bytes \in Seq(Bytes)
      BY SetAssumption DEF Setting
    <2> QED BY <2>1 DEF LenOf
  <1> QED BY <1>2, <1>3, <1>4, SetAssumption, FS_CardinalityType

LEMMA BucketFacts ==
    ASSUME Setting, NEW b \in Buckets
    PROVE  /\ B[b].ids \in Seq(Ids) /\ IsTable(B[b].table, B[b].ids)
           /\ B[b].lit \in Seq(Bytes) /\ Len(B[b].lit) \in Nat
           /\ B[b].lit = << >> <=> Len(B[b].lit) = 0
           /\ DOMAIN B[b].groups = 1..Len(B[b].groups) /\ Len(B[b].groups) \in Nat \ {0}
           /\ \A g \in DOMAIN B[b].groups :
                 /\ B[b].groups[g].L \in Nat /\ B[b].groups[g].ks \subseteq DOMAIN B[b].ids
                 /\ B[b].wide => B[b].groups[g].L = 0
                                 /\ B[b].groups[g].ks = DOMAIN B[b].ids
  <1>1. IsBucket(B[b])
    BY SettingFacts
  <1>2. B[b].groups \in Seq([L : Nat, ks : SUBSET DOMAIN B[b].ids]) \ {<< >>}
    BY <1>1 DEF IsBucket
  <1>3. DOMAIN B[b].groups = 1..Len(B[b].groups) /\ Len(B[b].groups) \in Nat \ {0}
    BY <1>2, EmptySeq
  <1>4. ASSUME NEW g \in DOMAIN B[b].groups
        PROVE  /\ B[b].groups[g].L \in Nat /\ B[b].groups[g].ks \subseteq DOMAIN B[b].ids
               /\ B[b].wide => B[b].groups[g].L = 0
                               /\ B[b].groups[g].ks = DOMAIN B[b].ids
    <2>1. B[b].groups[g] \in [L : Nat, ks : SUBSET DOMAIN B[b].ids]
      BY <1>2, <1>3, ElementOfSeq
    <2>2. B[b].wide => B[b].groups[g] = [L |-> 0, ks |-> DOMAIN B[b].ids]
      BY <1>1 DEF IsBucket
    <2> QED BY <2>1, <2>2
  <1>5. /\ B[b].ids \in Seq(Ids) /\ IsTable(B[b].table, B[b].ids) /\ B[b].lit \in Seq(Bytes)
    BY <1>1 DEF IsBucket
  <1>6. Len(B[b].lit) \in Nat /\ (B[b].lit = << >> <=> Len(B[b].lit) = 0)
    BY <1>5, EmptySeq
  <1> QED BY <1>3, <1>4, <1>5, <1>6

LEMMA FiniteMax ==
    ASSUME NEW T \in SUBSET Nat, IsFiniteSet(T), T # {}
    PROVE  Max(T) \in T /\ \A y \in T : y <= Max(T)
  <1> DEFINE n == Cardinality(T)
  <1>1. n \in Nat /\ n # 0
    BY FS_CardinalityType, FS_EmptySet
  <1> HIDE DEF n
  <1>2. PICK k \in T : Cardinality(Below(T, k)) = n - 1
    <2>1. n \in 1..n
      BY <1>1
    <2> QED BY <2>1, Ranked DEF n
  <1>3. ASSUME NEW y \in T PROVE y <= k
    <2>1. Cardinality(Below(T, y)) \in 0..(n - 1)
      BY Ranked DEF n
    <2>2. CASE k < y
      <3>1. Cardinality(Below(T, k)) < Cardinality(Below(T, y))
        BY <2>2, RankGrows
      <3> QED BY <1>1, <1>2, <2>1, <3>1
    <2> QED BY <2>2
  <1>4. k \in Nat
    OBVIOUS
  <1>5. Max(T) \in T /\ \A y \in T : Max(T) >= y
    BY <1>3, <1>4, MaxIsGreatest
  <1> QED BY <1>5

LEMMA LookbackBounds ==
    ASSUME Setting, NEW b \in Buckets, NEW g \in DOMAIN B[b].groups
    PROVE  MaxLookback \in Nat /\ B[b].groups[g].L <= MaxLookback
  <1> DEFINE Of(c) == {group.L : group \in Range(B[c].groups)}
             all == {Of(c) : c \in Buckets}
             T == UNION all
  <1>1. ASSUME NEW c \in Buckets PROVE Of(c) \in SUBSET Nat /\ IsFiniteSet(Of(c))
    <2> DEFINE n == Len(B[c].groups)
               f == [h \in 1..n |-> B[c].groups[h].L]
    <2>1. n \in Nat /\ DOMAIN B[c].groups = 1..n /\ \A h \in 1..n : B[c].groups[h].L \in Nat
      BY BucketFacts
    <2>2. Range(B[c].groups) = {B[c].groups[h] : h \in 1..n}
      BY <2>1 DEF Range
    <2> HIDE DEF n
    <2>3. Of(c) = {B[c].groups[h].L : h \in 1..n}
      BY <2>2
    <2>4. f \in Surjection(1..n, Of(c))
      BY <2>3 DEF Surjection
    <2>5. IsFiniteSet(1..n)
      BY <2>1, FS_Interval
    <2>6. IsFiniteSet(Of(c))
      BY <2>4, <2>5, FS_Surjection
    <2> QED BY <2>1, <2>3, <2>6
  <1>2. IsFiniteSet(all)
    <2> DEFINE f == [c \in Buckets |-> Of(c)]
    <2> HIDE DEF Of
    <2>1. f \in Surjection(Buckets, all)
      BY DEF Surjection
    <2>2. IsFiniteSet(Buckets)
      BY SettingFacts, FS_Interval
    <2> QED BY <2>1, <2>2, FS_Surjection
  <1>3. IsFiniteSet(T) /\ T \in SUBSET Nat
    BY <1>1, <1>2, FS_UNION
  <1>4. B[b].groups[g].L \in T
    <2>1. B[b].groups[g] \in Range(B[b].groups)
      BY DEF Range
    <2> QED BY <2>1
  <1>5. MaxLookback = Max(T)
    BY DEF MaxLookback
  <1> HIDE DEF T
  <1>6. Max(T) \in T /\ \A y \in T : y <= Max(T)
    BY <1>3, <1>4, FiniteMax
  <1> QED BY <1>3, <1>4, <1>5, <1>6

\* A position's work.
LEMMA WorkFacts ==
    ASSUME Setting, NEW p \in Nat, NEW t \in Work(p)
    PROVE  /\ t = [b |-> t.b, g |-> t.g] /\ t.b \in Buckets /\ t.g \in DOMAIN B[t.b].groups
           /\ p + Len(B[t.b].lit) <= LenOf(text)
  <1>1. PICK b \in {c \in Buckets : LiteralAt(c, p)} :
             t \in {[b |-> b, g |-> g] : g \in DOMAIN B[b].groups}
    BY DEF Work
  <1>2. PICK g \in DOMAIN B[b].groups : t = [b |-> b, g |-> g]
    BY <1>1
  <1>3. t.b = b /\ t.g = g
    BY <1>2
  <1>4. p + Len(B[b].lit) <= LenOf(text)
    BY <1>1 DEF LiteralAt
  <1> QED BY <1>1, <1>2, <1>3, <1>4
\* A group whose turn it is, as long as one is left.
LEMMA TurnIsLeft ==
    ASSUME Setting, NEW p \in Nat, scan.todo \in SUBSET Work(p), scan.todo # {}
    PROVE  Turn \in scan.todo /\ Turn.b \in Buckets /\ Turn.g \in DOMAIN B[Turn.b].groups
  <1> DEFINE len(t) == Len(B[t.b].lit)
             lens == {len(t) : t \in scan.todo}
             m == Min(lens)
             short == {t \in scan.todo : len(t) = m}
             bs == {t.b : t \in short}
             b == IF m = 0 THEN Min(bs) ELSE Max(bs)
             gs == {t.g : t \in {u \in short : u.b = b}}
             g == Min(gs)
  <1>1. \A t \in scan.todo : /\ t = [b |-> t.b, g |-> t.g] /\ t.b \in Buckets
                             /\ t.g \in DOMAIN B[t.b].groups /\ len(t) \in Nat
                             /\ t.b \in Nat /\ t.g \in Nat /\ t.b <= Len(B)
                             /\ B[t.b].lit = << >> <=> len(t) = 0
    <2> TAKE t \in scan.todo
    <2>1. t \in Work(p)
      OBVIOUS
    <2>2. t = [b |-> t.b, g |-> t.g] /\ t.b \in Buckets /\ t.g \in DOMAIN B[t.b].groups
      BY <2>1, WorkFacts
    <2>3. t.g \in Nat /\ len(t) \in Nat /\ (B[t.b].lit = << >> <=> len(t) = 0)
      BY <2>2, BucketFacts
    <2>4. t.b \in Nat /\ t.b <= Len(B)
      BY <2>2, SettingFacts
    <2> QED BY <2>2, <2>3, <2>4
  <1>2. PICK first \in scan.todo : TRUE
    OBVIOUS
  <1>3. m \in lens /\ \A n \in lens : m <= n
    <2>1. lens \subseteq Nat /\ len(first) \in lens
      BY <1>1, <1>2
    <2> HIDE DEF lens
    <2> QED BY <2>1, MinIsLeast
  <1>4. \A t \in scan.todo : m <= len(t)
    <2> HIDE DEF m
    <2> QED BY <1>3
  <1>5. PICK shortest \in scan.todo : len(shortest) = m
    <2> HIDE DEF m
    <2> QED BY <1>3
  <1> HIDE DEF m
  <1>6. bs \subseteq Nat /\ shortest.b \in bs /\ \A x \in bs : x <= Len(B)
    BY <1>1, <1>5
  <1>7. /\ b \in bs
        /\ \A x \in bs : IF m = 0 THEN b <= x ELSE x <= b
    <2>1. Len(B) \in Nat
      BY SettingFacts
    <2> HIDE DEF bs
    <2>2. Min(bs) \in bs /\ \A x \in bs : Min(bs) <= x
      BY <1>6, MinIsLeast
    <2>3. Max(bs) \in bs /\ \A x \in bs : Max(bs) >= x
      BY <1>6, <2>1, MaxIsGreatest
    <2>4. bs \subseteq Nat
      BY <1>6
    <2> DEFINE low == Min(bs)  high == Max(bs)
    <2>5. /\ low \in bs /\ high \in bs /\ \A x \in bs : low <= x /\ x <= high
          /\ b = IF m = 0 THEN low ELSE high
      <3> HIDE DEF low, high
      <3>1. low \in bs /\ high \in bs /\ (\A x \in bs : low <= x) /\ (\A x \in bs : high >= x)
        BY <2>2, <2>3 DEF low, high
      <3>2. \A x \in bs : low <= x /\ x <= high
        BY <2>4, <3>1
      <3> QED BY <3>1, <3>2 DEF low, high
    <2> HIDE DEF low, high, b
    <2> QED BY <2>5
  <1> HIDE DEF b
  <1>8. \A t \in short : IF m = 0 THEN b <= t.b ELSE t.b <= b
    BY <1>7
  <1>9. PICK fitting \in short : fitting.b = b
    BY <1>7
  <1>10. g \in gs /\ \A x \in gs : g <= x
    <2>1. gs \subseteq Nat /\ fitting.g \in gs
      BY <1>1, <1>9
    <2> HIDE DEF gs
    <2> QED BY <2>1, MinIsLeast
  <1> HIDE DEF g
  <1>11. PICK t \in short : t.b = b /\ t.g = g
    BY <1>10
  <1>12. t \in scan.todo /\ len(t) = m
    BY <1>11
  <1>13. ASSUME NEW u \in scan.todo \ {t} PROVE Precedes(t, u)
    <2>1. /\ len(u) \in Nat /\ m \in Nat /\ m <= len(u) /\ u.b \in Nat /\ u.g \in Nat
          /\ b \in Nat /\ g \in Nat /\ t # u
      BY <1>1, <1>4, <1>11, <1>12
    <2>2. CASE len(u) # m
      <3>1. m < len(u)
        <4> HIDE DEF len
        <4> QED BY <2>1, <2>2
      <3> QED BY <1>12, <3>1 DEF Precedes
    <2>3. CASE len(u) = m /\ u.b # b
      <3>1. u \in short
        BY <2>3
      <3>2. IF m = 0 THEN b <= u.b ELSE u.b <= b
        BY <1>8, <3>1
      <3>3. IF m = 0 THEN b < u.b ELSE b > u.b
        BY <2>1, <2>3, <3>2
      <3>4. IsFallback(t.b) <=> m = 0
        BY <1>1, <1>12 DEF IsFallback
      <3>5. IF IsFallback(t.b) THEN t.b < u.b ELSE t.b > u.b
        BY <1>11, <3>3, <3>4
      <3> QED BY <1>12, <2>3, <3>5 DEF Precedes
    <2>4. CASE len(u) = m /\ u.b = b
      <3>1. u.g \in gs
        BY <2>4
      <3>2. g <= u.g
        BY <1>10, <3>1
      <3>3. u.g # g
        <4>1. t = [b |-> t.b, g |-> t.g] /\ u = [b |-> u.b, g |-> u.g]
          BY <1>1, <1>12
        <4> QED BY <1>11, <2>1, <2>4, <4>1
      <3>4. t.g < u.g /\ t.b = u.b
        BY <1>11, <2>1, <2>4, <3>2, <3>3
      <3> QED BY <3>4 DEF Precedes
    <2> QED BY <2>2, <2>3, <2>4
  <1>14. Turn \in scan.todo
    BY <1>12, <1>13 DEF Turn
  <1> QED BY <1>1, <1>14

\* The ids of a group; a group is served, for the matches that start at m, at one
\* position of the search; the ids of those served once it has come to p and has
\* left to do there.
GroupIds(b, g) == {B[b].ids[k] : k \in B[b].groups[g].ks}
ServedAt(b, g, m, p, left) ==
    LET q == m + B[b].groups[g].L
    IN  q < p \/ (q = p /\ [b |-> b, g |-> g] \notin left)
ServedIds(m, p, left) ==
    {i \in Ids : \E b \in Buckets : \E g \in DOMAIN B[b].groups :
                     i \in GroupIds(b, g) /\ ServedAt(b, g, m, p, left)}

LEMMA ServedBounds ==
    ASSUME Setting, NEW m, NEW p, NEW left
    PROVE  /\ IsFiniteSet(ServedIds(m, p, left)) /\ Cardinality(ServedIds(m, p, left)) \in Nat
           /\ Cardinality(ServedIds(m, p, left)) <= Cardinality(Ids)
  <1>1. ServedIds(m, p, left) \in SUBSET Ids
    BY DEF ServedIds
  <1>2. IsFiniteSet(Ids)
    BY SettingFacts
  <1> QED BY <1>1, <1>2, FS_Subset, FS_CardinalityType

LEMMA ServedGrow ==
    ASSUME Setting, NEW m, NEW p, NEW left, NEW n, NEW q, NEW rest,
           \A b \in Buckets : \A g \in DOMAIN B[b].groups :
               ServedAt(b, g, m, p, left) => ServedAt(b, g, n, q, rest)
    PROVE  Cardinality(ServedIds(m, p, left)) <= Cardinality(ServedIds(n, q, rest))
  <1>1. ServedIds(m, p, left) \in SUBSET ServedIds(n, q, rest)
    BY DEF ServedIds
  <1> QED BY <1>1, ServedBounds, FS_Subset

\* As many ids as patterns.
LEMMA GroupIdsCount ==
    ASSUME Setting, NEW b \in Buckets, NEW g \in DOMAIN B[b].groups
    PROVE  /\ GroupIds(b, g) \in SUBSET Ids
           /\ Cardinality(B[b].groups[g].ks) <= Cardinality(GroupIds(b, g))
           /\ Cardinality(B[b].groups[g].ks) \in Nat
  <1> DEFINE ks == B[b].groups[g].ks
             f == [k \in ks |-> B[b].ids[k]]
  <1>1. ks \in SUBSET DOMAIN B[b].ids /\ B[b].ids \in Seq(Ids)
    BY BucketFacts
  <1>2. \A k \in ks : B[b].ids[k] \in Ids
    BY <1>1
  <1>3. GroupIds(b, g) \in SUBSET Ids
    BY <1>2 DEF GroupIds
  <1>4. ASSUME NEW k \in ks, NEW l \in ks, B[b].ids[k] = B[b].ids[l] PROVE k = l
    BY <1>1, <1>4, SetAssumption DEF Setting, Buckets, B
  <1> HIDE DEF ks
  <1>5. f \in [ks -> GroupIds(b, g)]
    BY DEF GroupIds, ks
  <1>6. f \in Injection(ks, GroupIds(b, g))
    BY <1>4, <1>5, Zenon DEF Injection, IsInjective
  <1>7. IsFiniteSet(GroupIds(b, g))
    BY <1>3, SettingFacts, FS_Subset
  <1>8. IsFiniteSet(ks) /\ Cardinality(ks) <= Cardinality(GroupIds(b, g))
    BY <1>6, <1>7, FS_Injection
  <1> QED BY <1>3, <1>8, FS_CardinalityType DEF ks

\* A pattern is in one group.
LEMMA GroupsApart ==
    ASSUME Setting, NEW b \in Buckets, NEW g \in DOMAIN B[b].groups,
           NEW c \in Buckets, NEW h \in DOMAIN B[c].groups,
           NEW i, i \in GroupIds(b, g), i \in GroupIds(c, h)
    PROVE  b = c /\ g = h
  <1>1. PICK k \in B[b].groups[g].ks : i = B[b].ids[k]
    BY DEF GroupIds
  <1>2. PICK l \in B[c].groups[h].ks : i = B[c].ids[l]
    BY DEF GroupIds
  <1>3. k \in DOMAIN B[b].ids /\ l \in DOMAIN B[c].ids
    BY BucketFacts
  <1>4. b = c /\ k = l
    <2>1. \A x, y \in Buckets : \A r \in DOMAIN B[x].ids : \A s \in DOMAIN B[y].ids :
              B[x].ids[r] = B[y].ids[s] => x = y /\ r = s
      BY SetAssumption DEF Setting, Buckets, B
    <2>2. B[b].ids[k] = B[c].ids[l]
      BY <1>1, <1>2
    <2> QED BY <1>3, <2>1, <2>2, Zenon
  <1>5. IsBucket(B[b])
    BY SettingFacts
  <1>6. g # h => B[b].groups[g].ks \intersect B[b].groups[h].ks = {}
    BY <1>4, <1>5 DEF IsBucket
  <1> QED BY <1>4, <1>6

\* What a group commits is counted once: its ids were not served for this start
\* before.
LEMMA CommitCounts ==
    ASSUME Setting, NEW left, NEW b \in Buckets, NEW g \in DOMAIN B[b].groups,
           [b |-> b, g |-> g] \in left,
           NEW p \in Nat, NEW m \in Nat, NEW total \in Nat, NEW count \in Nat,
           NEW start \in Nat, start = p - B[b].groups[g].L, start <= m,
           total <= Cardinality(ServedIds(m, p, left)),
           count <= Cardinality(B[b].groups[g].ks)
    PROVE  (IF start < m THEN 0 ELSE total) + count
               <= Cardinality(ServedIds(start, p, left \ {[b |-> b, g |-> g]}))
  <1> DEFINE t == [b |-> b, g |-> g]
             after == ServedIds(start, p, left \ {t})
             before == ServedIds(m, p, left)
             new == GroupIds(b, g)
  <1>1. /\ new \in SUBSET Ids /\ count <= Cardinality(new)
        /\ IsFiniteSet(new) /\ Cardinality(new) \in Nat
    <2>1. /\ new \in SUBSET Ids /\ Cardinality(B[b].groups[g].ks) <= Cardinality(new)
          /\ Cardinality(B[b].groups[g].ks) \in Nat
      BY GroupIdsCount
    <2>2. IsFiniteSet(new)
      BY <2>1, SettingFacts, FS_Subset
    <2>3. Cardinality(new) \in Nat
      BY <2>2, FS_CardinalityType
    <2> QED BY <2>1, <2>2, <2>3
  <1>2. ServedAt(b, g, start, p, left \ {t})
    <2>1. B[b].groups[g].L \in Nat
      BY BucketFacts
    <2>2. start + B[b].groups[g].L = p
      BY <2>1
    <2> QED BY <2>2 DEF ServedAt
  <1>3. new \in SUBSET after
    BY <1>1, <1>2 DEF ServedIds
  <1>4. /\ IsFiniteSet(after) /\ Cardinality(after) \in Nat
        /\ IsFiniteSet(before) /\ Cardinality(before) \in Nat
    BY ServedBounds
  <1>5. CASE start < m
    <2>1. Cardinality(new) <= Cardinality(after)
      BY <1>3, <1>4, FS_Subset
    <2> DEFINE x == Cardinality(new)  y == Cardinality(after)
    <2>2. x \in Nat /\ y \in Nat /\ count <= x /\ x <= y
      BY <1>1, <1>4, <2>1
    <2> HIDE DEF x, y
    <2>3. 0 + count <= y
      BY <2>2
    <2> QED BY <1>5, <2>3 DEF y
  <1>6. CASE ~(start < m)
    <2>1. start = m
      BY <1>6
    <2>2. before \in SUBSET after
      BY <2>1 DEF ServedIds, ServedAt
    <2>3. before \intersect new = {}
      <3> SUFFICES ASSUME NEW i \in before, i \in new PROVE FALSE
        OBVIOUS
      <3>1. PICK c \in Buckets : \E h \in DOMAIN B[c].groups :
                 i \in GroupIds(c, h) /\ ServedAt(c, h, m, p, left)
        BY DEF ServedIds
      <3>2. PICK h \in DOMAIN B[c].groups : i \in GroupIds(c, h) /\ ServedAt(c, h, m, p, left)
        BY <3>1
      <3>3. b = c /\ g = h
        BY <3>2, GroupsApart
      <3>4. B[b].groups[g].L \in Nat
        BY BucketFacts
      <3>5. m + B[b].groups[g].L = p
        BY <2>1, <3>4
      <3> QED BY <3>2, <3>3, <3>4, <3>5 DEF ServedAt
    <2> HIDE DEF before, after, new
    <2>4. before \union new \in SUBSET after
      BY <1>3, <2>2
    <2>5. Cardinality(before \union new)
              = Cardinality(before) + Cardinality(new) - Cardinality(before \intersect new)
      BY <1>1, <1>4, FS_Union
    <2>6. Cardinality(before \intersect new) = 0
      BY <2>3, FS_EmptySet
    <2>7. Cardinality(before \union new) <= Cardinality(after)
      BY <1>4, <2>4, FS_Subset
    <2> DEFINE x == Cardinality(new)  y == Cardinality(after)  z == Cardinality(before)
               u == Cardinality(before \union new)
    <2>8. /\ x \in Nat /\ y \in Nat /\ z \in Nat /\ count <= x /\ total <= z /\ u <= y
          /\ u = z + x - 0
      BY <1>1, <1>4, <2>5, <2>6, <2>7 DEF before
    <2> HIDE DEF x, y, z, u
    <2>9. total + count <= y
      BY <2>8
    <2> QED BY <1>6, <2>9 DEF y, after
  <1> QED BY <1>5, <1>6

L == LenOf(text)
Calling == pc \in {"scan", "group", "walk"}

\* What a position still has to do.
Left == IF pc \in {"group", "walk"} THEN scan.todo ELSE Work(scan.pos)

\* The caller's state; the frontend's locals: the buffer has what is counted, as
\* far as it has room, and no more is counted than ids are served; a body's
\* locals, for the group whose turn it is; and what the bodies keep.
CallerInv ==
    /\ gate \in [Ids -> 0..(2 * L + 2)]
    /\ host \in [from : 0..(L + 1), cap : 0..(MaxCap + Cardinality(Ids))]
    /\ out \in Seq(TuplesOf(text)) /\ status \in {"driving", "done"}

ScanType == [pos : 0..(L + 1), minStart : 0..(L + 1), total : 0..Cardinality(Ids),
             todo : SUBSET [b : Nat, g : Nat], buf : Seq(TuplesOf(text))]
ScanInv ==
    /\ pc \in {"host", "scan", "group", "walk", "answered"}
    /\ scan \in ScanType
    /\ Len(scan.buf) <= host.cap /\ (scan.total <= host.cap => Len(scan.buf) >= scan.total)
    /\ Calling => /\ Fits(scan.buf, scan.total, host.cap)
                  /\ scan.total <= Cardinality(ServedIds(scan.minStart, scan.pos, Left))
    /\ pc \in {"group", "walk"} => /\ scan.pos <= L /\ scan.pos - MaxLookback <= scan.minStart
                                   /\ scan.todo \subseteq Work(scan.pos)
    /\ pc \notin {"group", "walk"} => scan.todo = {}
    /\ pc = "walk" => scan.todo # {}
    /\ pc = "host" => scan = NoScan

AtWalk ==
    /\ walk.start = TurnStart /\ TurnStart \in Nat /\ TurnStart <= scan.minStart
    /\ walk.from = AfterLiteral /\ walk.base = Base(TurnStart)
    /\ IF B[Turn.b].wide THEN IsSparse(Call(Turn.b), walk, scratch[Turn.b])
       ELSE IsDense(Call(Turn.b), walk) /\ walk.mask \subseteq TurnGroup.ks
WalkInv ==
    /\ pc # "walk" => walk = NoWalk
    /\ pc = "walk" => AtWalk

MemoryInv == scratch = [b \in Buckets |-> Memory(scratch[b])] /\ ScratchClear

FindInv == Setting /\ CallerInv /\ ScanInv /\ WalkInv /\ MemoryInv

LEMMA TurnFacts ==
    ASSUME Setting, ScanInv, pc \in {"group", "walk"}, scan.todo # {}
    PROVE  /\ Turn \in scan.todo /\ Turn.b \in Buckets /\ Turn.g \in DOMAIN B[Turn.b].groups
           /\ Turn = [b |-> Turn.b, g |-> Turn.g]
           /\ scan.pos \in Nat /\ scan.pos <= L /\ L \in Nat
           /\ AfterLiteral \in scan.pos..L
           /\ TurnGroup.L \in Nat /\ TurnGroup.ks \subseteq DOMAIN B[Turn.b].ids
           /\ B[Turn.b].wide => TurnGroup.L = 0 /\ TurnGroup.ks = DOMAIN B[Turn.b].ids
  <1>1. scan.pos \in Nat /\ scan.pos <= L /\ scan.todo \in SUBSET Work(scan.pos) /\ L \in Nat
    <2>1. L \in Nat
      BY SettingFacts DEF L
    <2> QED BY <2>1 DEF ScanInv, ScanType
  <1>2. Turn \in scan.todo /\ Turn.b \in Buckets /\ Turn.g \in DOMAIN B[Turn.b].groups
    BY <1>1, TurnIsLeft
  <1>3. /\ Turn = [b |-> Turn.b, g |-> Turn.g]
        /\ scan.pos + Len(B[Turn.b].lit) <= L
    <2>1. Turn \in Work(scan.pos)
      BY <1>1, <1>2
    <2> QED BY <1>1, <2>1, WorkFacts DEF L
  <1>4. Len(B[Turn.b].lit) \in Nat
    BY <1>2, BucketFacts
  <1>5. /\ TurnGroup.L \in Nat /\ TurnGroup.ks \subseteq DOMAIN B[Turn.b].ids
        /\ B[Turn.b].wide => TurnGroup.L = 0 /\ TurnGroup.ks = DOMAIN B[Turn.b].ids
    BY <1>2, BucketFacts DEF TurnGroup
  <1>6. AfterLiteral \in scan.pos..L
    BY <1>1, <1>3, <1>4 DEF AfterLiteral
  <1> QED BY <1>1, <1>2, <1>3, <1>5, <1>6

LEMMA CallIsCall ==
    ASSUME Setting, CallerInv, NEW b \in Buckets
    PROVE  /\ IsCall(Call(b)) /\ Call(b).text = text /\ Call(b).cap = host.cap
           /\ Call(b).ids = B[b].ids
  <1>1. IsTable(B[b].table, B[b].ids) /\ B[b].ids \in Seq(Ids)
    BY BucketFacts
  <1>2. text.bytes \in Seq(Bytes) /\ MaxCap + Cardinality(Ids) \in Nat
    BY SettingFacts
  <1>3. host.cap \in Nat
    BY <1>2 DEF CallerInv
  <1> QED BY <1>1, <1>2, <1>3 DEF IsCall, Call

LEMMA SameSetting ==
    ASSUME Setting, UNCHANGED fixed
    PROVE  /\ Setting' /\ L' = L /\ B' = B /\ Buckets' = Buckets /\ text' = text
           /\ MaxLookback' = MaxLookback /\ \A p : Work(p)' = Work(p)
           /\ \A m, p, left : ServedIds(m, p, left)' = ServedIds(m, p, left)
  <1>1. set' = set /\ text' = text
    BY DEF fixed
  <1> QED BY <1>1 DEF Setting, L, B, Buckets, MaxLookback, Work, LiteralAt, ServedIds,
                       GroupIds, ServedAt

LEMMA SameTurn ==
    ASSUME UNCHANGED fixed, UNCHANGED scan
    PROVE  /\ Turn' = Turn /\ TurnGroup' = TurnGroup /\ TurnStart' = TurnStart
           /\ AfterLiteral' = AfterLiteral /\ \A s : Base(s)' = Base(s)
  <1>1. set' = set /\ text' = text /\ scan' = scan
    BY DEF fixed
  <1>2. Turn' = Turn
    BY <1>1 DEF Turn, Precedes, IsFallback, B
  <1> QED BY <1>1, <1>2 DEF TurnGroup, TurnStart, AfterLiteral, Base, B

LEMMA SameCalls ==
    ASSUME UNCHANGED fixed, UNCHANGED gate, UNCHANGED host
    PROVE  \A b : Call(b)' = Call(b)
  BY DEF Call, fixed, B

LEMMA SameCaller ==
    ASSUME Setting, CallerInv, UNCHANGED <<fixed, gate, host, out, status>>
    PROVE  CallerInv'
  <1>1. L' = L /\ text' = text /\ gate' = gate /\ host' = host /\ out' = out /\ status' = status
    BY SameSetting
  <1> QED BY <1>1 DEF CallerInv

LEMMA MembersAreIds ==
    ASSUME Setting
    PROVE  Members \in SUBSET Ids /\ Members # {}
  <1>1. \A b \in Buckets : B[b].ids \in Seq(Ids)
    BY BucketFacts
  <1>2. ASSUME NEW k \in Members PROVE k \in Ids
    <2>1. PICK b \in Buckets : k \in Range(B[b].ids)
      BY DEF Members
    <2>2. PICK i \in DOMAIN B[b].ids : k = B[b].ids[i]
      BY <2>1 DEF Range
    <2> QED BY <1>1, <2>2
  <1>3. PICK b \in Buckets : B[b].ids # << >>
    BY SetAssumption DEF Setting, Buckets, B
  <1>4. 1 \in DOMAIN B[b].ids
    <2>1. B[b].ids \in Seq(Ids)
      BY <1>1
    <2>2. Len(B[b].ids) \in Nat /\ Len(B[b].ids) # 0
      BY <1>3, <2>1, EmptySeq
    <2> QED BY <2>1, <2>2
  <1>5. B[b].ids[1] \in Members
    BY <1>4 DEF Members, Range
  <1> QED BY <1>2, <1>5

LEMMA JumpStays ==
    ASSUME Setting, CallerInv
    PROVE  Jump(host.from) \in host.from..(L + 1)
  <1> DEFINE T == {gate[k] \div 2 : k \in Members}
             low == Min(T)
  <1>1. L \in Nat /\ host.from \in 0..(L + 1) /\ gate \in [Ids -> 0..(2 * L + 2)]
    BY SettingFacts DEF CallerInv, L
  <1>2. ASSUME NEW x \in 0..(2 * L + 2) PROVE x \div 2 \in 0..(L + 1)
    <2> DEFINE q == x \div 2
    <2>1. x \in Nat /\ q \in Nat /\ 2 * q <= x /\ x <= 2 * L + 2
      BY <1>1
    <2> HIDE DEF q
    <2>2. q <= L + 1
      BY <1>1, <2>1
    <2>3. q \in 0..(L + 1)
      BY <1>1, <2>1, <2>2
    <2> QED BY <2>3 DEF q
  <1>3. \A k \in Members : gate[k] \div 2 \in 0..(L + 1)
    BY <1>1, <1>2, MembersAreIds
  <1>4. T \subseteq Nat /\ T # {}
    <2>1. PICK k \in Members : TRUE
      BY MembersAreIds
    <2>2. gate[k] \div 2 \in T
      BY <2>1
    <2> QED BY <1>1, <1>3, <2>2
  <1>5. low \in T
    <2> HIDE DEF T
    <2> QED BY <1>4, MinIsLeast
  <1>6. low \in 0..(L + 1)
    <2> HIDE DEF low
    <2> QED BY <1>3, <1>5
  <1> HIDE DEF low
  <1>7. Max({host.from, low}) = IF host.from >= low THEN host.from ELSE low
    BY <1>1, <1>6, MaxOfTwo
  <1>8. Jump(host.from) = host.from \/ Jump(host.from) = Max({host.from, low})
    BY DEF Jump, low
  <1> DEFINE j == Jump(host.from)
             from == host.from
             m == Max({host.from, low})
  <1>a. /\ from \in 0..(L + 1) /\ low \in 0..(L + 1) /\ (j = from \/ j = m)
        /\ m = IF from >= low THEN from ELSE low
    BY <1>1, <1>6, <1>7, <1>8
  <1> HIDE DEF m, from
  <1>9. j = from \/ (j = low /\ from <= low)
    <2>1. CASE from >= low
      BY <1>a, <2>1
    <2>2. CASE ~(from >= low)
      BY <1>a, <2>2
    <2> QED BY <2>1, <2>2
  <1> HIDE DEF j
  <1> QED BY <1>1, <1>a, <1>9 DEF j, from

LEMMA NoScanTyped ==
    ASSUME Setting
    PROVE  NoScan \in ScanType /\ Len(NoScan.buf) = 0 /\ NoScan.total = 0 /\ NoScan.todo = {}
           /\ NoScan.buf = << >>
  <1>1. L \in Nat /\ Cardinality(Ids) \in Nat
    BY SettingFacts DEF L
  <1>2. << >> \in Seq(TuplesOf(text)) /\ Len(<< >>) = 0
    OBVIOUS
  <1>3. {} \in SUBSET [b : Nat, g : Nat]
    OBVIOUS
  <1> QED BY <1>1, <1>2, <1>3 DEF NoScan, ScanType

\* Between the walks.
LEMMA NoWalkInv == ASSUME walk' = NoWalk, pc' # "walk" PROVE WalkInv'
  BY DEF WalkInv, NoWalk

LEMMA FindScans ==
    ASSUME FindInv, Find
    PROVE  ScanInv' /\ WalkInv'
  <1> USE DEF FindInv
  <1>1. /\ UNCHANGED <<fixed, gate, host, out, status, walk, scratch>> /\ pc = "host" /\ pc' = "scan"
        /\ scan' = [NoScan EXCEPT !.pos = Jump(host.from), !.minStart = Sentinel]
    BY DEF Find
  <1>2. L' = L /\ text' = text /\ L \in Nat /\ host.from \in 0..(L + 1) /\ host' = host
        /\ host.cap \in Nat
    BY <1>1, SameSetting, SettingFacts DEF L, CallerInv
  <1>3. Jump(host.from) \in 0..(L + 1) /\ Sentinel \in 0..(L + 1)
    <2>1. Jump(host.from) \in host.from..(L + 1)
      BY JumpStays
    <2>2. Sentinel = L + 1
      BY DEF Sentinel, L
    <2> QED BY <1>2, <2>1, <2>2
  <1>4. /\ scan' \in ScanType /\ Len(scan'.buf) = 0 /\ scan'.total = 0 /\ scan'.todo = {}
    <2> DEFINE j == Jump(host.from)
    <2>1. scan' = [NoScan EXCEPT !.pos = j, !.minStart = Sentinel]
      BY <1>1
    <2> HIDE DEF j
    <2>2. j \in 0..(L + 1)
      BY <1>3 DEF j
    <2> QED BY <1>3, <2>1, <2>2, NoScanTyped DEF ScanType
  <1>5. ScanType' = ScanType
    BY <1>2 DEF ScanType
  <1>6. Fits(scan'.buf, scan'.total, host'.cap)
    BY <1>2, <1>4 DEF Fits
  <1>7. ASSUME NEW m, NEW p, NEW left
        PROVE  scan'.total <= Cardinality(ServedIds(m, p, left)')
    <2>1. ServedIds(m, p, left)' = ServedIds(m, p, left)
      BY <1>1, SameSetting
    <2>2. Cardinality(ServedIds(m, p, left)) \in Nat
      BY ServedBounds
    <2> QED BY <1>4, <2>1, <2>2
  <1>8. scan'.total <= Cardinality(ServedIds(scan.minStart, scan.pos, Left))'
    <2>1. PICK m, p, left : m = scan'.minStart /\ p = scan'.pos /\ left = Left'
      OBVIOUS
    <2> QED BY <1>7, <2>1
  <1>9. ScanInv'
    BY <1>1, <1>2, <1>4, <1>5, <1>6, <1>8 DEF ScanInv, Calling
  <1>10. WalkInv'
    <2>1. walk = NoWalk
      BY <1>1 DEF WalkInv
    <2> QED BY <1>1, <2>1, NoWalkInv
  <1> QED BY <1>9, <1>10

\* The search goes on at p with todo left: what was served stays served.
LEMMA ScanMoves ==
    ASSUME FindInv, Calling, Calling', UNCHANGED <<fixed, gate, host, out, status>>,
           NEW p \in 0..(L + 1), NEW todo \in SUBSET [b : Nat, g : Nat],
           scan' = [scan EXCEPT !.pos = p, !.todo = todo],
           \A b \in Buckets : \A g \in DOMAIN B[b].groups :
               ServedAt(b, g, scan.minStart, scan.pos, Left)
                   => ServedAt(b, g, scan.minStart, p, Left')
    PROVE  /\ scan' \in ScanType' /\ scan'.pos = p /\ scan'.todo = todo
           /\ scan'.minStart = scan.minStart
           /\ Len(scan'.buf) <= host'.cap
           /\ (scan'.total <= host'.cap => Len(scan'.buf) >= scan'.total)
           /\ Calling' => /\ Fits(scan.buf, scan.total, host.cap)'
                          /\ scan'.total <= Cardinality(ServedIds(scan.minStart, scan.pos, Left))'
  <1> USE DEF FindInv
  <1>1. /\ scan \in ScanType /\ ScanType' = ScanType /\ host' = host
        /\ Fits(scan.buf, scan.total, host.cap)
        /\ scan.total <= Cardinality(ServedIds(scan.minStart, scan.pos, Left))
        /\ Len(scan.buf) <= host.cap /\ (scan.total <= host.cap => Len(scan.buf) >= scan.total)
    BY SameSetting DEF ScanInv, ScanType
  <1>2. /\ scan' \in ScanType /\ scan'.pos = p /\ scan'.todo = todo
        /\ scan'.minStart = scan.minStart /\ scan'.total = scan.total /\ scan'.buf = scan.buf
    BY <1>1 DEF ScanType
  <1>3. scan'.total <= Cardinality(ServedIds(scan.minStart, scan.pos, Left)')
    <2>1. PICK m, left : m = scan.minStart /\ left = Left'
      OBVIOUS
    <2>2. ServedIds(m, p, left)' = ServedIds(m, p, left)
      BY SameSetting
    <2>3. ServedIds(scan.minStart, scan.pos, Left)' = ServedIds(m, p, left)
      BY <1>2, <2>1, <2>2, SameSetting DEF ServedIds, ServedAt, GroupIds
    <2>4. Cardinality(ServedIds(scan.minStart, scan.pos, Left))
              <= Cardinality(ServedIds(m, p, left))
      BY <2>1, ServedGrow
    <2> DEFINE x == Cardinality(ServedIds(scan.minStart, scan.pos, Left))
               y == Cardinality(ServedIds(m, p, left))
    <2>5. x \in Nat /\ y \in Nat /\ x <= y /\ scan.total <= x /\ scan.total \in Nat
      <3>1. x \in Nat /\ y \in Nat
        BY ServedBounds
      <3>2. Cardinality(Ids) \in Nat
        BY SettingFacts
      <3> HIDE DEF x, y
      <3> QED BY <1>1, <2>4, <3>1, <3>2 DEF ScanType, x, y
    <2> HIDE DEF x, y
    <2>6. scan.total <= y
      BY <2>5
    <2> QED BY <1>2, <2>3, <2>6 DEF y
  <1> QED BY <1>1, <1>2, <1>3

LEMMA WorkTyped ==
    ASSUME Setting, NEW p \in Nat
    PROVE  Work(p) \in SUBSET [b : Nat, g : Nat]
  <1>1. ASSUME NEW t \in Work(p) PROVE t \in [b : Nat, g : Nat]
    <2>1. /\ t = [b |-> t.b, g |-> t.g] /\ t.b \in Buckets /\ t.g \in DOMAIN B[t.b].groups
      BY WorkFacts
    <2>2. t.b \in Nat /\ t.g \in Nat
      BY <2>1, SettingFacts, BucketFacts
    <2> QED BY <2>1, <2>2
  <1> QED BY <1>1

LEMMA VisitGroups ==
    ASSUME FindInv, Visit
    PROVE  ScanInv' /\ WalkInv'
  <1> USE DEF FindInv
  <1>1. /\ UNCHANGED <<fixed, gate, host, out, status, walk, scratch>> /\ pc = "scan" /\ pc' = "group"
        /\ scan' = [scan EXCEPT !.todo = Work(scan.pos)] /\ scan.pos <= LenOf(text) /\ ~Drained
    BY DEF Visit, Scanning
  <1>2. /\ scan \in ScanType /\ scan.pos \in 0..(L + 1) /\ scan.pos <= L /\ scan.pos \in Nat
        /\ L \in Nat /\ scan.minStart \in 0..(L + 1)
    BY <1>1, SettingFacts DEF ScanInv, ScanType, L
  <1>3. Work(scan.pos) \in SUBSET [b : Nat, g : Nat]
    BY <1>2, WorkTyped
  <1>4. scan' = [scan EXCEPT !.pos = scan.pos, !.todo = Work(scan.pos)]
    BY <1>1, <1>2 DEF ScanType
  <1>5. Left = Work(scan.pos) /\ Left' = Work(scan.pos) /\ Calling /\ Calling'
    <2>1. scan'.todo = Work(scan.pos)
      BY <1>1, <1>2 DEF ScanType
    <2> QED BY <1>1, <2>1 DEF Left, Calling
  <1>6. /\ scan' \in ScanType' /\ scan'.pos = scan.pos /\ scan'.todo = Work(scan.pos)
        /\ scan'.minStart = scan.minStart
        /\ Len(scan'.buf) <= host'.cap
        /\ (scan'.total <= host'.cap => Len(scan'.buf) >= scan'.total)
        /\ Calling' => /\ Fits(scan.buf, scan.total, host.cap)'
                       /\ scan'.total <= Cardinality(ServedIds(scan.minStart, scan.pos, Left))'
    <2> DEFINE p == scan.pos  todo == Work(scan.pos)
    <2>1. /\ p \in 0..(L + 1) /\ todo \in SUBSET [b : Nat, g : Nat]
          /\ scan' = [scan EXCEPT !.pos = p, !.todo = todo]
          /\ Left' = Left
          /\ UNCHANGED <<fixed, gate, host, out, status>>
      BY <1>1, <1>2, <1>3, <1>4, <1>5
    <2>2. p = scan.pos
      OBVIOUS
    <2> HIDE DEF p, todo
    <2>3. \A b \in Buckets : \A g \in DOMAIN B[b].groups :
              ServedAt(b, g, scan.minStart, scan.pos, Left)
                  => ServedAt(b, g, scan.minStart, p, Left')
      BY <2>1, <2>2
    <2> QED BY <1>5, <2>1, <2>3, ScanMoves DEF p, todo
  <1>7. scan'.pos <= L' /\ scan'.pos - MaxLookback' <= scan'.minStart
        /\ scan'.todo \subseteq Work(scan.pos)'
    <2>1. PICK p : p = scan.pos
      OBVIOUS
    <2>2. L' = L /\ MaxLookback' = MaxLookback /\ Work(p)' = Work(p)
      BY <1>1, SameSetting
    <2>3. Work(scan.pos)' = Work(p)
      BY <1>1, <1>6, <2>1, <2>2, SameSetting DEF Work, LiteralAt
    <2>4. PICK b \in Buckets : TRUE
      BY SetAssumption DEF Setting, Buckets, B
    <2>5. 1 \in DOMAIN B[b].groups
      BY BucketFacts
    <2>6. MaxLookback \in Nat
      BY <2>5, LookbackBounds
    <2>7. scan.pos - MaxLookback <= scan.minStart
      BY <1>1, <1>2, <2>6 DEF Drained
    <2> QED BY <1>2, <1>6, <2>1, <2>2, <2>3, <2>7
  <1>8. ScanInv'
    <2>1. scan'.todo = {} \/ scan'.todo # {}
      OBVIOUS
    <2> QED BY <1>1, <1>6, <1>7 DEF ScanInv
  <1>9. WalkInv'
    <2>1. walk = NoWalk
      BY <1>1 DEF WalkInv
    <2> QED BY <1>1, <2>1, NoWalkInv
  <1> QED BY <1>8, <1>9

LEMMA NextPositionScans ==
    ASSUME FindInv, NextPosition
    PROVE  ScanInv' /\ WalkInv'
  <1> USE DEF FindInv
  <1>1. /\ UNCHANGED <<fixed, gate, host, out, status, walk, scratch>> /\ pc = "group" /\ pc' = "scan"
        /\ scan' = [scan EXCEPT !.pos = scan.pos + 1] /\ scan.todo = {}
    BY DEF NextPosition
  <1>2. /\ scan \in ScanType /\ scan.pos <= L /\ scan.pos \in Nat
        /\ L \in Nat /\ scan.minStart \in Nat
    <2>1. L \in Nat
      BY SettingFacts DEF L
    <2> QED BY <1>1, <2>1 DEF ScanInv, ScanType
  <1>3. Calling /\ Calling'
    BY <1>1 DEF Calling
  <1> DEFINE p == scan.pos + 1
             todo == {}
  <1>4. /\ p \in 0..(L + 1) /\ todo \in SUBSET [b : Nat, g : Nat]
        /\ scan' = [scan EXCEPT !.pos = p, !.todo = todo]
        /\ UNCHANGED <<fixed, gate, host, out, status>>
    <2>1. p \in 0..(L + 1) /\ todo \in SUBSET [b : Nat, g : Nat]
      BY <1>2
    <2>2. scan' = [scan EXCEPT !.pos = p] /\ scan.todo = todo
      BY <1>1
    <2> HIDE DEF p, todo
    <2>3. scan' = [scan EXCEPT !.pos = p, !.todo = todo]
      BY <1>2, <2>2 DEF ScanType
    <2> QED BY <1>1, <2>1, <2>3
  <1>5. p = scan.pos + 1
    OBVIOUS
  <1>5a. todo = {}
    OBVIOUS
  <1> HIDE DEF p, todo
  <1>6. ASSUME NEW b \in Buckets, NEW g \in DOMAIN B[b].groups,
               ServedAt(b, g, scan.minStart, scan.pos, Left)
        PROVE  ServedAt(b, g, scan.minStart, p, Left')
    <2>1. B[b].groups[g].L \in Nat
      BY BucketFacts
    <2> QED BY <1>2, <1>5, <1>6, <2>1 DEF ServedAt
  <1>7. /\ scan' \in ScanType' /\ scan'.pos = p /\ scan'.todo = todo
        /\ Len(scan'.buf) <= host'.cap
        /\ (scan'.total <= host'.cap => Len(scan'.buf) >= scan'.total)
        /\ Calling' => /\ Fits(scan.buf, scan.total, host.cap)'
                       /\ scan'.total <= Cardinality(ServedIds(scan.minStart, scan.pos, Left))'
    BY <1>3, <1>4, <1>6, ScanMoves
  <1>8. ScanInv'
    BY <1>1, <1>5a, <1>7 DEF ScanInv
  <1>9. WalkInv'
    <2>1. walk = NoWalk
      BY <1>1 DEF WalkInv
    <2> QED BY <1>1, <2>1, NoWalkInv
  <1> QED BY <1>8, <1>9

LEMMA SkipGroupGoesOn ==
    ASSUME FindInv, SkipGroup
    PROVE  ScanInv' /\ WalkInv'
  <1> USE DEF FindInv
  <1>1. /\ UNCHANGED <<fixed, gate, host, out, status, walk, scratch, pc>> /\ pc = "group"
        /\ scan' = [scan EXCEPT !.todo = scan.todo \ {Turn}] /\ scan.todo # {}
    BY DEF SkipGroup, AtGroup
  <1>2. /\ scan \in ScanType /\ scan.pos \in 0..(L + 1)
        /\ scan.pos <= L /\ scan.pos - MaxLookback <= scan.minStart
        /\ scan.todo \subseteq Work(scan.pos)
    BY <1>1 DEF ScanInv, ScanType
  <1>3. Calling /\ Calling'
    BY <1>1 DEF Calling
  <1> DEFINE p == scan.pos
             todo == scan.todo \ {Turn}
  <1>4. /\ p \in 0..(L + 1) /\ todo \in SUBSET [b : Nat, g : Nat]
        /\ scan' = [scan EXCEPT !.pos = p, !.todo = todo] /\ todo \subseteq scan.todo
        /\ UNCHANGED <<fixed, gate, host, out, status>>
    BY <1>1, <1>2 DEF ScanType
  <1>5. p = scan.pos
    OBVIOUS
  <1> HIDE DEF p, todo
  <1>6. scan'.todo = todo
    BY <1>2, <1>4 DEF ScanType
  <1>7. Left = scan.todo /\ Left' = todo
    BY <1>1, <1>6 DEF Left
  <1>8. \A b \in Buckets : \A g \in DOMAIN B[b].groups :
            ServedAt(b, g, scan.minStart, scan.pos, Left)
                => ServedAt(b, g, scan.minStart, p, Left')
    BY <1>4, <1>5, <1>7 DEF ServedAt
  <1>9. /\ scan' \in ScanType' /\ scan'.pos = p /\ scan'.todo = todo
        /\ scan'.minStart = scan.minStart
        /\ Len(scan'.buf) <= host'.cap
        /\ (scan'.total <= host'.cap => Len(scan'.buf) >= scan'.total)
        /\ Calling' => /\ Fits(scan.buf, scan.total, host.cap)'
                       /\ scan'.total <= Cardinality(ServedIds(scan.minStart, scan.pos, Left))'
    BY <1>3, <1>4, <1>8, ScanMoves
  <1>10. scan'.pos <= L' /\ scan'.pos - MaxLookback' <= scan'.minStart
         /\ scan'.todo \subseteq Work(scan.pos)'
    <2>0. PICK q : q = scan.pos
      OBVIOUS
    <2>1. L' = L /\ MaxLookback' = MaxLookback /\ Work(q)' = Work(q)
      BY <1>1, SameSetting
    <2>2. Work(scan.pos)' = Work(p)
      BY <1>1, <1>5, <1>9, <2>0, <2>1, SameSetting DEF Work, LiteralAt
    <2> QED BY <1>2, <1>4, <1>5, <1>9, <2>1, <2>2
  <1>11. ScanInv'
    BY <1>1, <1>9, <1>10 DEF ScanInv
  <1>12. WalkInv'
    <2>1. walk = NoWalk
      BY <1>1 DEF WalkInv
    <2> QED BY <1>1, <2>1, NoWalkInv
  <1> QED BY <1>11, <1>12

SparseNow == pc = "walk" /\ B[Turn.b].wide

LEMMA MemoryKept ==
    ASSUME FindInv, UNCHANGED fixed, UNCHANGED scratch, ~SparseNow, ~SparseNow'
    PROVE  MemoryInv'
  <1>1. \A b \in Buckets : scratch[b].seen = {}
    BY DEF FindInv, MemoryInv, ScratchClear, SparseNow
  <1>2. Buckets' = Buckets /\ B' = B
    BY SameSetting DEF FindInv
  <1>3. scratch' = [b \in Buckets |-> Memory(scratch'[b])]
    BY DEF FindInv, MemoryInv, Memory
  <1> QED BY <1>1, <1>2, <1>3 DEF MemoryInv, ScratchClear, SparseNow

\* Of every bucket but the one walked.
LEMMA MemoryOf ==
    ASSUME FindInv, UNCHANGED fixed, UNCHANGED Turn, Turn.b \in Buckets, B[Turn.b].wide,
           pc = "walk" \/ ~SparseNow, NEW m, m = Memory(m),
           scratch' = [scratch EXCEPT ![Turn.b] = m],
           m.seen = IF pc' = "walk" THEN FiredIn(walk') ELSE {}
    PROVE  MemoryInv' /\ scratch'[Turn.b] = m
  <1> USE DEF FindInv
  <1>1. Buckets' = Buckets /\ B' = B
    BY SameSetting
  <1>2. scratch = [b \in Buckets |-> Memory(scratch[b])] /\ Turn' = Turn
    BY DEF MemoryInv
  <1>3. /\ scratch'[Turn.b] = m /\ DOMAIN scratch' = Buckets
        /\ \A b \in Buckets \ {Turn.b} : scratch'[b] = scratch[b]
    BY <1>2
  <1>4. \A b \in Buckets \ {Turn.b} : scratch[b].seen = {} /\ scratch[b] = Memory(scratch[b])
    BY <1>2 DEF MemoryInv, ScratchClear
  <1>5. \A b \in Buckets : scratch'[b] = Memory(scratch'[b])
    BY <1>3, <1>4
  <1>6. scratch' = [b \in Buckets |-> scratch'[b]]
    BY <1>2
  <1>7. scratch' = [b \in Buckets |-> Memory(scratch'[b])]
    BY <1>5, <1>6, Zenon
  <1>8. ScratchClear'
    BY <1>1, <1>2, <1>3, <1>4 DEF ScratchClear
  <1> QED BY <1>1, <1>3, <1>7, <1>8 DEF MemoryInv

\* Where a group that is wanted starts, and what it is given.
LEMMA Entered ==
    ASSUME FindInv, AtGroup, Wanted(Turn.b, TurnGroup, scan.pos)
    PROVE  /\ Turn.b \in Buckets /\ IsCall(Call(Turn.b)) /\ Call(Turn.b).text = text
           /\ AfterLiteral \in 0..L /\ TurnStart \in 0..AfterLiteral
           /\ TurnStart <= scan.minStart /\ TurnStart \in Nat
           /\ Base(TurnStart) \in Nat /\ scan.buf \in Seq(TuplesOf(text))
           /\ Fits(scan.buf, Base(TurnStart), host.cap) /\ Call(Turn.b).cap = host.cap
  <1> USE DEF FindInv
  <1>1. /\ Turn.b \in Buckets /\ Turn.g \in DOMAIN B[Turn.b].groups
        /\ scan.pos \in Nat /\ scan.pos <= L /\ L \in Nat /\ AfterLiteral \in scan.pos..L
        /\ TurnGroup.L \in Nat
    BY TurnFacts DEF AtGroup
  <1>2. /\ scan \in ScanType /\ host.cap \in Nat /\ host.from \in Nat /\ Cardinality(Ids) \in Nat
        /\ Fits(scan.buf, scan.total, host.cap) /\ scan.pos - MaxLookback <= scan.minStart
        /\ scan.total \in Nat /\ scan.minStart \in Nat /\ scan.buf \in Seq(TuplesOf(text))
    <2>1. MaxCap + Cardinality(Ids) \in Nat /\ Cardinality(Ids) \in Nat
      BY SettingFacts
    <2>2. scan \in ScanType /\ Fits(scan.buf, scan.total, host.cap)
          /\ scan.pos - MaxLookback <= scan.minStart
      BY DEF ScanInv, Calling, AtGroup
    <2>3. host.cap \in Nat /\ host.from \in Nat
      BY <1>1, <2>1 DEF CallerInv
    <2> QED BY <1>1, <2>1, <2>2, <2>3 DEF ScanType
  <1>3. TurnGroup.L <= MaxLookback /\ MaxLookback \in Nat
    BY <1>1, LookbackBounds DEF TurnGroup
  <1>4. TurnStart = scan.pos - TurnGroup.L
    BY DEF TurnStart
  <1>5. /\ TurnGroup.L # 0 => TurnStart >= host.from
        /\ MaxLookback # 0 => TurnStart <= scan.minStart
    BY <1>4 DEF Wanted
  <1> DEFINE l == TurnGroup.L  s == TurnStart  a == AfterLiteral  k == MaxLookback
  <1>6. /\ l \in Nat /\ k \in Nat /\ l <= k /\ s = scan.pos - l /\ (l # 0 => s >= host.from)
        /\ k # 0 => s <= scan.minStart
        /\ a \in scan.pos..L /\ scan.pos - k <= scan.minStart
    BY <1>1, <1>2, <1>3, <1>4, <1>5
  <1> HIDE DEF l, s, a, k
  <1>7. s \in Nat /\ a \in 0..L /\ s \in 0..a
    BY <1>1, <1>2, <1>6
  <1>8. s <= scan.minStart
    <2>1. CASE k = 0
      BY <1>1, <1>2, <1>6, <2>1
    <2>2. CASE k # 0
      BY <1>6, <2>2
    <2> QED BY <2>1, <2>2
  <1>9. Base(TurnStart) \in Nat /\ Fits(scan.buf, Base(TurnStart), host.cap)
    <2>1. Len(scan.buf) \in Nat
      BY <1>2
    <2>2. Fits(scan.buf, 0, host.cap)
      BY <1>2, <2>1 DEF Fits
    <2> QED BY <1>2, <2>2 DEF Base
  <1> QED BY <1>1, <1>2, <1>7, <1>8, <1>9, CallIsCall DEF s, a

\* The call is made and the frontend waits.
LEMMA WalkBegins ==
    ASSUME FindInv, pc \in {"group", "walk"}, scan.todo # {}, pc' = "walk",
           UNCHANGED <<fixed, gate, host, out, status, scan>>
    PROVE  ScanInv' /\ CallerInv' /\ Setting'
  <1> USE DEF FindInv
  <1>1. /\ L' = L /\ ScanType' = ScanType /\ scan' = scan /\ host' = host
        /\ MaxLookback' = MaxLookback
    BY SameSetting DEF ScanType
  <1>2. Left' = Left
    BY <1>1 DEF Left
  <1>3. Work(scan.pos)' = Work(scan.pos)
    BY <1>1, SameSetting DEF Work, LiteralAt
  <1>4. ServedIds(scan.minStart, scan.pos, Left)' = ServedIds(scan.minStart, scan.pos, Left)
    BY <1>1, <1>2, SameSetting DEF ServedIds, ServedAt, GroupIds
  <1>5. ScanInv'
    BY <1>1, <1>3, <1>4 DEF ScanInv, Calling
  <1> QED BY <1>5, SameSetting, SameCaller

LEMMA EnterDenseInv ==
    ASSUME FindInv, EnterDense
    PROVE  FindInv'
  <1> USE DEF FindInv
  <1> DEFINE call == Call(Turn.b)
             mask == Mask(Turn.b, TurnGroup, scan.pos)
  <1>1. /\ AtGroup /\ pc = "group" /\ pc' = "walk" /\ scan.todo # {} /\ ~B[Turn.b].wide
        /\ UNCHANGED <<fixed, gate, host, out, status, scan, scratch>>
        /\ walk' = DenseWalk(call, AfterLiteral, TurnStart, mask, Base(TurnStart), scan.buf)
        /\ Wanted(Turn.b, TurnGroup, scan.pos)
    BY DEF EnterDense, AtGroup
  <1>2. mask \subseteq TurnGroup.ks /\ mask \in SUBSET DOMAIN call.ids
    <2>1. mask \subseteq TurnGroup.ks
      BY DEF Mask, Prefixed, Open, Startable, GroupMask
    <2>2. TurnGroup.ks \subseteq DOMAIN B[Turn.b].ids
      BY <1>1, TurnFacts
    <2> QED BY <2>1, <2>2 DEF Call
  <1>3. /\ Turn.b \in Buckets /\ IsCall(call) /\ call.text = text
        /\ AfterLiteral \in 0..L /\ TurnStart \in 0..AfterLiteral
        /\ TurnStart <= scan.minStart /\ TurnStart \in Nat
        /\ Base(TurnStart) \in Nat /\ scan.buf \in Seq(TuplesOf(text))
        /\ Fits(scan.buf, Base(TurnStart), call.cap)
    BY <1>1, Entered
  <1> HIDE DEF call, mask
  <1>4. /\ IsDense(call, walk') /\ walk'.from = AfterLiteral /\ walk'.start = TurnStart
        /\ walk'.mask = mask /\ walk'.base = Base(TurnStart)
    BY <1>1, <1>2, <1>3, DenseWalkDense DEF L
  <1>5. /\ Turn' = Turn /\ TurnGroup' = TurnGroup /\ TurnStart' = TurnStart
        /\ AfterLiteral' = AfterLiteral /\ B' = B /\ scan' = scan
        /\ Base(TurnStart)' = Base(TurnStart) /\ Call(Turn.b)' = call
    <2>1. PICK s, b : s = TurnStart /\ b = Turn.b
      OBVIOUS
    <2>2. Base(s)' = Base(s) /\ Call(b)' = Call(b) /\ Turn' = Turn /\ TurnGroup' = TurnGroup
          /\ TurnStart' = TurnStart /\ AfterLiteral' = AfterLiteral /\ B' = B
      BY <1>1, SameTurn, SameCalls, SameSetting
    <2> QED BY <1>1, <2>1, <2>2 DEF Base, Call, call
  <1>6. AtWalk'
    BY <1>1, <1>2, <1>3, <1>4, <1>5 DEF AtWalk
  <1>7. MemoryInv'
    BY <1>1, <1>5, MemoryKept DEF SparseNow
  <1> QED BY <1>1, <1>6, <1>7, WalkBegins DEF WalkInv

\* The frontend's locals stay while a body walks.
LEMMA SameFront ==
    ASSUME FindInv, UNCHANGED <<fixed, gate, host, scan>>
    PROVE  /\ Turn' = Turn /\ TurnGroup' = TurnGroup /\ TurnStart' = TurnStart
           /\ AfterLiteral' = AfterLiteral /\ B' = B /\ scan' = scan
           /\ Base(TurnStart)' = Base(TurnStart) /\ Call(Turn.b)' = Call(Turn.b)
           /\ B[Turn.b].wide' = B[Turn.b].wide
  <1>1. PICK s, b : s = TurnStart /\ b = Turn.b
    OBVIOUS
  <1>2. Base(s)' = Base(s) /\ Call(b)' = Call(b) /\ Turn' = Turn /\ TurnGroup' = TurnGroup
        /\ TurnStart' = TurnStart /\ AfterLiteral' = AfterLiteral /\ B' = B
    BY SameTurn, SameCalls, SameSetting DEF FindInv
  <1> QED BY <1>1, <1>2 DEF Base, Call

LEMMA EnterSparseInv ==
    ASSUME FindInv, EnterSparse
    PROVE  FindInv'
  <1> USE DEF FindInv
  <1> DEFINE call == Call(Turn.b)
             r == SparseWalk(call, AfterLiteral, TurnStart, Base(TurnStart), scan.buf,
                             scratch[Turn.b])
  <1>1. /\ AtGroup /\ pc = "group" /\ pc' = "walk" /\ scan.todo # {} /\ B[Turn.b].wide
        /\ UNCHANGED <<fixed, gate, host, out, status, scan>>
        /\ walk' = r.w /\ scratch' = [scratch EXCEPT ![Turn.b] = r.scratch]
        /\ Wanted(Turn.b, TurnGroup, scan.pos)
    BY DEF EnterSparse, AtGroup
  <1>2. /\ Turn.b \in Buckets /\ IsCall(call) /\ call.text = text
        /\ AfterLiteral \in 0..L /\ TurnStart \in 0..AfterLiteral
        /\ TurnStart <= scan.minStart /\ TurnStart \in Nat
        /\ Base(TurnStart) \in Nat /\ scan.buf \in Seq(TuplesOf(text))
        /\ Fits(scan.buf, Base(TurnStart), call.cap)
    BY <1>1, Entered
  <1>3. scratch[Turn.b] = Memory(scratch[Turn.b]) /\ scratch[Turn.b].seen = {}
    BY <1>1, <1>2 DEF MemoryInv, ScratchClear
  <1> HIDE DEF call
  <1>4. /\ IsSparse(call, r.w, r.scratch) /\ r.w.from = AfterLiteral /\ r.w.start = TurnStart
        /\ r.w.base = Base(TurnStart)
    BY <1>2, <1>3, SparseWalkSparse DEF L
  <1> HIDE DEF r
  <1>5. /\ Turn' = Turn /\ TurnGroup' = TurnGroup /\ TurnStart' = TurnStart
        /\ AfterLiteral' = AfterLiteral /\ B' = B /\ scan' = scan
        /\ Base(TurnStart)' = Base(TurnStart) /\ Call(Turn.b)' = call
    BY <1>1, SameFront DEF call
  <1>6. MemoryInv' /\ scratch'[Turn.b] = r.scratch
    <2>1. r.scratch = Memory(r.scratch) /\ r.scratch.seen = FiredIn(r.w)
      BY <1>4 DEF IsSparse
    <2>2. ~SparseNow
      BY <1>1 DEF SparseNow
    <2>3. PICK m : m = r.scratch
      OBVIOUS
    <2>4. /\ m = Memory(m) /\ scratch' = [scratch EXCEPT ![Turn.b] = m]
          /\ m.seen = IF pc' = "walk" THEN FiredIn(walk') ELSE {}
      BY <1>1, <2>1, <2>3 DEF FiredIn
    <2> QED BY <1>1, <1>2, <1>5, <2>2, <2>3, <2>4, MemoryOf
  <1>7. AtWalk'
    <2>1. IsSparse(call, walk', scratch'[Turn.b])
      BY <1>1, <1>4, <1>6
    <2>2. scratch[Turn.b]' = scratch'[Turn.b]
      BY <1>5
    <2> QED BY <1>1, <1>2, <1>4, <1>5, <2>1, <2>2 DEF AtWalk
  <1> QED BY <1>1, <1>6, <1>7, WalkBegins DEF WalkInv

LEMMA DenseWalksInv ==
    ASSUME FindInv, DenseWalks
    PROVE  FindInv'
  <1> USE DEF FindInv
  <1> DEFINE call == Call(Turn.b)
  <1>1. /\ pc = "walk" /\ pc' = "walk" /\ ~B[Turn.b].wide /\ ~DenseOver(call, walk)
        /\ walk' = DenseStep(call, walk) /\ scan.todo # {}
        /\ UNCHANGED <<fixed, gate, host, out, status, scan, scratch>>
    BY DEF DenseWalks, ScanInv
  <1>2. IsCall(call)
    BY <1>1, TurnFacts, CallIsCall
  <1>3. /\ IsDense(call, walk) /\ walk.mask \subseteq TurnGroup.ks
        /\ walk.start = TurnStart /\ TurnStart \in Nat /\ TurnStart <= scan.minStart
        /\ walk.from = AfterLiteral /\ walk.base = Base(TurnStart)
    BY <1>1 DEF WalkInv, AtWalk
  <1> HIDE DEF call
  <1>4. IsDense(call, walk') /\ SameWalk(walk', walk)
    BY <1>1, <1>2, <1>3, DenseStepDense
  <1>5. /\ Turn' = Turn /\ TurnGroup' = TurnGroup /\ TurnStart' = TurnStart
        /\ AfterLiteral' = AfterLiteral /\ B' = B /\ scan' = scan
        /\ Base(TurnStart)' = Base(TurnStart) /\ Call(Turn.b)' = call
    BY <1>1, SameFront DEF call
  <1>6. AtWalk'
    BY <1>1, <1>3, <1>4, <1>5 DEF AtWalk, SameWalk
  <1>7. MemoryInv'
    BY <1>1, <1>5, MemoryKept DEF SparseNow
  <1> QED BY <1>1, <1>6, <1>7, WalkBegins DEF WalkInv

LEMMA SparseWalksInv ==
    ASSUME FindInv, SparseWalks
    PROVE  FindInv'
  <1> USE DEF FindInv
  <1> DEFINE call == Call(Turn.b)
             r == SparseStep(call, walk, scratch[Turn.b])
  <1>1. /\ pc = "walk" /\ pc' = "walk" /\ B[Turn.b].wide /\ ~SparseOver(call, walk)
        /\ walk' = r.w /\ scratch' = [scratch EXCEPT ![Turn.b] = r.scratch] /\ scan.todo # {}
        /\ UNCHANGED <<fixed, gate, host, out, status, scan>>
    BY DEF SparseWalks, ScanInv
  <1>2. IsCall(call) /\ Turn.b \in Buckets
    BY <1>1, TurnFacts, CallIsCall
  <1>3. /\ IsSparse(call, walk, scratch[Turn.b])
        /\ walk.start = TurnStart /\ TurnStart \in Nat /\ TurnStart <= scan.minStart
        /\ walk.from = AfterLiteral /\ walk.base = Base(TurnStart)
    BY <1>1 DEF WalkInv, AtWalk
  <1> HIDE DEF call
  <1>4. IsSparse(call, r.w, r.scratch) /\ SameCall(r.w, walk)
    BY <1>1, <1>2, <1>3, SparseStepSparse
  <1> HIDE DEF r
  <1>5. /\ Turn' = Turn /\ TurnGroup' = TurnGroup /\ TurnStart' = TurnStart
        /\ AfterLiteral' = AfterLiteral /\ B' = B /\ scan' = scan
        /\ Base(TurnStart)' = Base(TurnStart) /\ Call(Turn.b)' = call
    BY <1>1, SameFront DEF call
  <1>6. MemoryInv' /\ scratch'[Turn.b] = r.scratch
    <2>1. r.scratch = Memory(r.scratch) /\ r.scratch.seen = FiredIn(r.w)
      BY <1>4 DEF IsSparse
    <2>3. PICK m : m = r.scratch
      OBVIOUS
    <2>4. /\ m = Memory(m) /\ scratch' = [scratch EXCEPT ![Turn.b] = m]
          /\ m.seen = IF pc' = "walk" THEN FiredIn(walk') ELSE {}
      BY <1>1, <2>1, <2>3 DEF FiredIn
    <2> QED BY <1>1, <1>2, <1>5, <2>3, <2>4, MemoryOf
  <1>7. AtWalk'
    <2>1. IsSparse(call, walk', scratch'[Turn.b])
      BY <1>1, <1>4, <1>6
    <2>2. scratch[Turn.b]' = scratch'[Turn.b]
      BY <1>5
    <2> QED BY <1>1, <1>3, <1>4, <1>5, <2>1, <2>2 DEF AtWalk, SameCall
  <1> QED BY <1>1, <1>6, <1>7, WalkBegins DEF WalkInv

\* What a body has answered is committed.
LEMMA CommitScans ==
    ASSUME FindInv, pc = "walk", NEW v, IsAnswer(Call(Turn.b), v, walk, TurnGroup.ks),
           scan' = Commit(v), pc' = "group", walk' = NoWalk,
           UNCHANGED <<fixed, gate, host, out, status>>
    PROVE  ScanInv' /\ WalkInv' /\ CallerInv' /\ Setting'
  <1> USE DEF FindInv
  <1> DEFINE todo == scan.todo \ {Turn}
             minStart == IF v.count # 0 THEN v.start ELSE scan.minStart
             total == IF v.count # 0 THEN v.base + v.count ELSE scan.total
             buf == IF v.count # 0 THEN v.buf ELSE scan.buf
  <1>1. /\ Turn \in scan.todo /\ Turn.b \in Buckets /\ Turn.g \in DOMAIN B[Turn.b].groups
        /\ Turn = [b |-> Turn.b, g |-> Turn.g]
        /\ scan.pos \in Nat /\ scan.pos <= L /\ L \in Nat
        /\ AfterLiteral \in scan.pos..L /\ TurnGroup.L \in Nat
    BY TurnFacts DEF ScanInv
  <1>2. /\ scan \in ScanType /\ Fits(scan.buf, scan.total, host.cap)
        /\ scan.total <= Cardinality(ServedIds(scan.minStart, scan.pos, scan.todo))
        /\ Len(scan.buf) <= host.cap /\ scan.pos - MaxLookback <= scan.minStart
        /\ scan.todo \subseteq Work(scan.pos)
    BY DEF ScanInv, Calling, Left
  <1>3. /\ walk.start = TurnStart /\ TurnStart \in Nat /\ TurnStart <= scan.minStart
        /\ walk.base = Base(TurnStart)
    BY DEF WalkInv, AtWalk
  <1>4. /\ v.start = TurnStart /\ v.base = Base(TurnStart) /\ v.count \in Nat
        /\ v.count <= Cardinality(TurnGroup.ks) /\ v.buf \in Seq(TuplesOf(text))
        /\ Fits(v.buf, v.base + v.count, host.cap)
    BY <1>3 DEF IsAnswer, Call
  <1>5. /\ host.cap \in Nat /\ Cardinality(Ids) \in Nat /\ scan.total \in Nat
        /\ scan.minStart \in Nat /\ scan.minStart <= L + 1
    <2>1. MaxCap + Cardinality(Ids) \in Nat /\ Cardinality(Ids) \in Nat
      BY SettingFacts
    <2>2. host.cap \in Nat
      BY <2>1 DEF CallerInv
    <2> QED BY <1>1, <1>2, <2>1, <2>2 DEF ScanType
  <1>6. TurnStart = scan.pos - TurnGroup.L /\ TurnStart <= L
    <2>1. TurnStart = scan.pos - TurnGroup.L
      BY DEF TurnStart
    <2> QED BY <1>1, <2>1
  <1>7. total <= Cardinality(ServedIds(minStart, scan.pos, todo)) /\ total \in Nat
    <2>1. CASE v.count # 0
      <3>1. (IF TurnStart < scan.minStart THEN 0 ELSE scan.total) + v.count
                <= Cardinality(ServedIds(TurnStart, scan.pos,
                                         scan.todo \ {[b |-> Turn.b, g |-> Turn.g]}))
        <4>1. /\ [b |-> Turn.b, g |-> Turn.g] \in scan.todo
              /\ TurnStart = scan.pos - B[Turn.b].groups[Turn.g].L
              /\ v.count <= Cardinality(B[Turn.b].groups[Turn.g].ks)
          BY <1>1, <1>4, <1>6 DEF TurnGroup
        <4>2. PICK b, g, s : b = Turn.b /\ g = Turn.g /\ s = TurnStart
          OBVIOUS
        <4>3. /\ b \in Buckets /\ g \in DOMAIN B[b].groups /\ [b |-> b, g |-> g] \in scan.todo
              /\ s = scan.pos - B[b].groups[g].L /\ s \in Nat /\ s <= scan.minStart
              /\ v.count <= Cardinality(B[b].groups[g].ks) /\ v.count \in Nat
          BY <1>1, <1>3, <1>4, <4>1, <4>2
        <4>4. (IF s < scan.minStart THEN 0 ELSE scan.total) + v.count
                  <= Cardinality(ServedIds(s, scan.pos, scan.todo \ {[b |-> b, g |-> g]}))
          BY <1>1, <1>2, <1>5, <4>3, CommitCounts
        <4> QED BY <4>2, <4>4
      <3>2. total = Base(TurnStart) + v.count /\ minStart = TurnStart
        BY <1>4, <2>1
      <3>3. Base(TurnStart) = IF TurnStart < scan.minStart THEN 0 ELSE scan.total
        BY DEF Base
      <3>4. todo = scan.todo \ {[b |-> Turn.b, g |-> Turn.g]}
        BY <1>1
      <3> HIDE DEF total, minStart, todo
      <3>5. total <= Cardinality(ServedIds(minStart, scan.pos, todo))
        BY <3>1, <3>2, <3>3, <3>4
      <3>6. total \in Nat
        BY <1>4, <1>5, <3>2, <3>3
      <3> QED BY <3>5, <3>6
    <2>2. CASE ~(v.count # 0)
      <3>1. total = scan.total /\ minStart = scan.minStart
        BY <2>2
      <3> HIDE DEF total, minStart
      <3>2. \A b \in Buckets : \A g \in DOMAIN B[b].groups :
                ServedAt(b, g, scan.minStart, scan.pos, scan.todo)
                    => ServedAt(b, g, minStart, scan.pos, todo)
        BY <3>1 DEF ServedAt
      <3> HIDE DEF todo
      <3> DEFINE x == Cardinality(ServedIds(scan.minStart, scan.pos, scan.todo))
                 y == Cardinality(ServedIds(minStart, scan.pos, todo))
      <3>3. x <= y
        BY <3>2, ServedGrow
      <3>4. x \in Nat /\ y \in Nat /\ scan.total <= x
        BY <1>2, ServedBounds
      <3> HIDE DEF x, y
      <3>5. total <= y /\ total \in Nat
        BY <1>5, <3>1, <3>3, <3>4
      <3> QED BY <3>5 DEF y
    <2> QED BY <2>1, <2>2
  <1>8. total \in 0..Cardinality(Ids)
    <2> DEFINE y == Cardinality(ServedIds(minStart, scan.pos, todo))
    <2>1. y \in Nat /\ y <= Cardinality(Ids)
      BY ServedBounds
    <2> HIDE DEF total
    <2>2. total <= y /\ total \in Nat
      BY <1>7
    <2> HIDE DEF y
    <2> QED BY <1>5, <2>1, <2>2
  <1>9. minStart \in 0..(L + 1) /\ minStart <= scan.minStart /\ minStart \in Nat
    BY <1>1, <1>3, <1>4, <1>5, <1>6
  <1>10. buf \in Seq(TuplesOf(text)) /\ Fits(buf, total, host.cap)
    BY <1>2, <1>4 DEF ScanType
  <1>11. scan' = [scan EXCEPT !.todo = todo, !.minStart = minStart, !.total = total, !.buf = buf]
    BY DEF Commit
  <1>12. todo \in SUBSET [b : Nat, g : Nat] /\ todo \subseteq scan.todo
    BY <1>2 DEF ScanType
  <1> HIDE DEF todo, minStart, total, buf
  <1>13. /\ scan' \in ScanType /\ scan'.pos = scan.pos /\ scan'.todo = todo
         /\ scan'.minStart = minStart /\ scan'.total = total /\ scan'.buf = buf
    BY <1>2, <1>8, <1>9, <1>10, <1>11, <1>12 DEF ScanType
  <1>14. scan'.pos - MaxLookback <= scan'.minStart
    <2>1. MaxLookback \in Nat
      BY <1>1, LookbackBounds
    <2>2. CASE v.count # 0
      <3>1. TurnGroup.L <= MaxLookback
        BY <1>1, LookbackBounds DEF TurnGroup
      <3>2. minStart = TurnStart
        BY <1>4, <2>2 DEF minStart
      <3> QED BY <1>1, <1>6, <1>13, <2>1, <3>1, <3>2
    <2>3. CASE ~(v.count # 0)
      BY <1>2, <1>13, <2>3 DEF minStart
    <2> QED BY <2>2, <2>3
  <1>15. /\ L' = L /\ ScanType' = ScanType /\ MaxLookback' = MaxLookback /\ host' = host
    BY SameSetting DEF ScanType
  <1>16. scan'.todo \subseteq Work(scan.pos)'
    <2>1. PICK q : q = scan.pos
      OBVIOUS
    <2>2. Work(q)' = Work(q)
      BY SameSetting
    <2>3. Work(scan.pos)' = Work(q)
      BY <1>13, <2>1, <2>2, SameSetting DEF Work, LiteralAt
    <2> QED BY <1>2, <1>12, <1>13, <2>1, <2>3
  <1>17. scan'.total <= Cardinality(ServedIds(scan.minStart, scan.pos, Left)')
    <2>1. PICK m, p, left : m = minStart /\ p = scan.pos /\ left = todo
      OBVIOUS
    <2>2. ServedIds(m, p, left)' = ServedIds(m, p, left)
      BY SameSetting
    <2>3. Left' = todo
      BY <1>13 DEF Left
    <2>4. ServedIds(scan.minStart, scan.pos, Left)' = ServedIds(m, p, left)
      BY <1>13, <2>1, <2>2, <2>3, SameSetting DEF ServedIds, ServedAt, GroupIds
    <2> QED BY <1>7, <1>13, <2>1, <2>4
  <1>18. Fits(scan.buf, scan.total, host.cap)'
    BY <1>10, <1>13, <1>15 DEF Fits
  <1>19. Len(scan'.buf) <= host'.cap /\ (scan'.total <= host'.cap => Len(scan'.buf) >= scan'.total)
    BY <1>5, <1>8, <1>10, <1>13, <1>15 DEF Fits
  <1>20. ScanInv'
    BY <1>1, <1>13, <1>14, <1>15, <1>16, <1>17, <1>18, <1>19 DEF ScanInv, Calling
  <1> QED BY <1>20, NoWalkInv, SameSetting, SameCaller

LEMMA DenseReturnsInv ==
    ASSUME FindInv, DenseReturns
    PROVE  FindInv'
  <1> USE DEF FindInv
  <1> DEFINE call == Call(Turn.b)
             v == DenseEnd(call, walk)
  <1>1. /\ pc = "walk" /\ pc' = "group" /\ ~B[Turn.b].wide /\ walk' = NoWalk /\ scan.todo # {}
        /\ scan' = Commit(v) /\ UNCHANGED <<fixed, gate, host, out, status, scratch>>
    BY DEF DenseReturns, ScanInv
  <1>2. IsCall(call) /\ Turn.b \in Buckets /\ TurnGroup.ks \subseteq DOMAIN call.ids
    BY <1>1, TurnFacts, CallIsCall DEF Call
  <1>3. IsDense(call, walk) /\ walk.mask \subseteq TurnGroup.ks
    BY <1>1 DEF WalkInv, AtWalk
  <1> HIDE DEF call
  <1>4. IsAnswer(call, v, walk, walk.mask)
    BY <1>2, <1>3, DenseEndAnswers
  <1> HIDE DEF v
  <1>5. IsAnswer(call, v, walk, TurnGroup.ks)
    <2>1. IsFiniteSet(TurnGroup.ks)
      BY <1>2, PatternsAreFinite, FS_Subset
    <2>2. /\ IsFiniteSet(walk.mask)
          /\ Cardinality(walk.mask) <= Cardinality(TurnGroup.ks)
      BY <1>3, <2>1, FS_Subset
    <2> DEFINE x == Cardinality(walk.mask)  y == Cardinality(TurnGroup.ks)
    <2>3. x \in Nat /\ y \in Nat /\ x <= y /\ v.count \in Nat /\ v.count <= x
      BY <1>4, <2>1, <2>2, FS_CardinalityType DEF IsAnswer
    <2> HIDE DEF x, y
    <2>4. v.count <= y
      BY <2>3
    <2> QED BY <1>4, <2>4 DEF IsAnswer, y
  <1>6. ScanInv' /\ WalkInv' /\ CallerInv' /\ Setting'
    BY <1>1, <1>5, CommitScans DEF call
  <1>7. MemoryInv'
    BY <1>1, MemoryKept DEF SparseNow
  <1> QED BY <1>6, <1>7

LEMMA SparseReturnsInv ==
    ASSUME FindInv, SparseReturns
    PROVE  FindInv'
  <1> USE DEF FindInv
  <1> DEFINE call == Call(Turn.b)
             end == SparseEnd(call, walk, scratch[Turn.b])
  <1>1. /\ pc = "walk" /\ pc' = "group" /\ B[Turn.b].wide /\ walk' = NoWalk /\ scan.todo # {}
        /\ scan' = Commit(end.w) /\ scratch' = [scratch EXCEPT ![Turn.b] = end.scratch]
        /\ UNCHANGED <<fixed, gate, host, out, status>>
    BY DEF SparseReturns, ScanInv
  <1>2. IsCall(call) /\ Turn.b \in Buckets /\ TurnGroup.ks = DOMAIN call.ids
    BY <1>1, TurnFacts, CallIsCall DEF Call
  <1>3. IsSparse(call, walk, scratch[Turn.b])
    BY <1>1 DEF WalkInv, AtWalk
  <1> HIDE DEF call
  <1>4. /\ IsAnswer(call, end.w, walk, DOMAIN call.ids)
        /\ end.scratch = Memory(end.scratch) /\ end.scratch.seen = {}
    BY <1>2, <1>3, SparseEndAnswers
  <1> HIDE DEF end
  <1>5. PICK v, m : v = end.w /\ m = end.scratch
    OBVIOUS
  <1>6. ScanInv' /\ WalkInv' /\ CallerInv' /\ Setting'
    BY <1>1, <1>2, <1>4, <1>5, CommitScans DEF call
  <1>7. MemoryInv'
    <2>1. \A b \in Buckets \ {Turn.b} : scratch[b].seen = {} /\ scratch[b] = Memory(scratch[b])
      BY DEF MemoryInv, ScratchClear
    <2>2. /\ scratch = [b \in Buckets |-> Memory(scratch[b])]
          /\ scratch' = [scratch EXCEPT ![Turn.b] = m] /\ m = Memory(m) /\ m.seen = {}
      BY <1>1, <1>4, <1>5 DEF MemoryInv
    <2>3. Buckets' = Buckets
      BY <1>1, SameSetting
    <2>4. /\ scratch' = [b \in Buckets |-> scratch'[b]]
          /\ \A b \in Buckets : scratch'[b] = Memory(scratch'[b]) /\ scratch'[b].seen = {}
      BY <1>2, <2>1, <2>2
    <2>5. scratch' = [b \in Buckets |-> Memory(scratch'[b])]
      BY <2>4, Zenon
    <2> QED BY <1>1, <2>3, <2>4, <2>5 DEF MemoryInv, ScratchClear
  <1> QED BY <1>6, <1>7

\* What is counted and fits is there.
LEMMA Counted1 ==
    ASSUME FindInv, scan.total \in 1..host.cap, NEW i \in 1..scan.total
    PROVE  /\ i \in 1..Len(scan.buf) /\ scan.buf[i] \in TuplesOf(text)
           /\ scan.buf[i].start \in 0..L /\ scan.buf[i].end \in 0..L
           /\ scan.buf[i].start <= scan.buf[i].end
           /\ Len(scan.buf) \in Nat /\ scan.total <= Len(scan.buf)
  <1>1. /\ Len(scan.buf) >= scan.total /\ scan.buf \in Seq(TuplesOf(text))
    BY DEF FindInv, ScanInv, ScanType
  <1>2. Len(scan.buf) \in Nat
    BY <1>1
  <1>3. i \in 1..Len(scan.buf)
    BY <1>1, <1>2
  <1>4. scan.buf[i] \in TuplesOf(text)
    BY <1>1, <1>3, ElementOfSeq
  <1> QED BY <1>1, <1>2, <1>3, <1>4 DEF TuplesOf, L

LEMMA GatesClose ==
    ASSUME FindInv
    PROVE  WrittenBack \in [Ids -> 0..(2 * L + 2)]
  <1> USE DEF FindInv
  <1> DEFINE of(k) == {i \in 1..scan.total : scan.buf[i].id = k}
             w(k) == IF of(k) = {} THEN gate[k] ELSE Closed(scan.buf[Max(of(k))])
  <1>1. gate \in [Ids -> 0..(2 * L + 2)] /\ L \in Nat
    BY SettingFacts DEF CallerInv, L
  <1>2. CASE ~(set.gated /\ scan.total \in 1..host.cap)
    BY <1>1, <1>2 DEF WrittenBack
  <1>3. CASE set.gated /\ scan.total \in 1..host.cap
    <2>1. ASSUME NEW k \in Ids PROVE w(k) \in 0..(2 * L + 2)
      <3>1. CASE of(k) = {}
        BY <1>1, <3>1
      <3>2. CASE of(k) # {}
        <4>1. of(k) \subseteq Nat /\ scan.total \in Nat /\ \A i \in of(k) : i <= scan.total
          BY <1>3
        <4>2. Max(of(k)) \in of(k)
          <5> HIDE DEF of
          <5> QED BY <3>2, <4>1, MaxIsGreatest
        <4>3. PICK i \in 1..scan.total : i = Max(of(k))
          BY <4>2
        <4>4. /\ scan.buf[i].start \in 0..L /\ scan.buf[i].end \in 0..L
          BY <1>3, Counted1
        <4>5. Closed(scan.buf[i]) \in 0..(2 * L + 2)
          BY <1>1, <4>4 DEF Closed
        <4> HIDE DEF of
        <4> QED BY <3>2, <4>3, <4>5
      <3> QED BY <3>1, <3>2
    <2>2. WrittenBack = [k \in Ids |-> w(k)]
      BY <1>3 DEF WrittenBack
    <2> HIDE DEF w
    <2> QED BY <2>1, <2>2
  <1> QED BY <1>2, <1>3

LEMMA FindReturnsInv ==
    ASSUME FindInv, FindReturns
    PROVE  FindInv'
  <1> USE DEF FindInv
  <1>1. /\ pc = "scan" /\ pc' = "answered" /\ gate' = WrittenBack
        /\ UNCHANGED <<fixed, host, out, status, scan, walk, scratch>>
    BY DEF FindReturns
  <1>2. /\ L' = L /\ ScanType' = ScanType /\ text' = text
    BY <1>1, SameSetting DEF ScanType
  <1>3. CallerInv'
    BY <1>1, <1>2, GatesClose DEF CallerInv
  <1>4. ScanInv'
    BY <1>1, <1>2 DEF ScanInv, Calling
  <1>5. WalkInv'
    BY <1>1, NoWalkInv DEF WalkInv
  <1>6. MemoryInv'
    BY <1>1, MemoryKept DEF SparseNow
  <1> QED BY <1>1, <1>3, <1>4, <1>5, <1>6, SameSetting

\* Between the calls.
LEMMA AtHost ==
    ASSUME Setting', CallerInv', pc' = "host", scan' = NoScan, walk' = NoWalk
    PROVE  ScanInv' /\ WalkInv'
  <1>1. /\ L' \in Nat /\ Cardinality(Ids) \in Nat /\ MaxCap \in Nat
    <2>1. text'.bytes \in Seq(Bytes)
      BY SetAssumption DEF Setting
    <2>2. L' \in Nat
      BY <2>1 DEF L, LenOf
    <2> QED BY <2>2, SetAssumption, FS_CardinalityType
  <1>1a. host'.cap \in Nat
    BY <1>1 DEF CallerInv
  <1>2. NoScan \in ScanType' /\ Len(NoScan.buf) = 0 /\ NoScan.total = 0 /\ NoScan.todo = {}
    <2>1. << >> \in Seq(TuplesOf(text')) /\ Len(<< >>) = 0
      OBVIOUS
    <2>2. {} \in SUBSET [b : Nat, g : Nat]
      OBVIOUS
    <2>3. ScanType' = [pos : 0..(L' + 1), minStart : 0..(L' + 1), total : 0..Cardinality(Ids),
                       todo : SUBSET [b : Nat, g : Nat], buf : Seq(TuplesOf(text'))]
      BY DEF ScanType, TuplesOf
    <2>4. NoScan \in ScanType'
      <3>1. PICK l, T, c : l = L' /\ T = TuplesOf(text') /\ c = Cardinality(Ids)
        OBVIOUS
      <3>2. NoScan \in [pos : 0..(l + 1), minStart : 0..(l + 1), total : 0..c,
                        todo : SUBSET [b : Nat, g : Nat], buf : Seq(T)]
        <4>1. l \in Nat /\ c \in Nat /\ << >> \in Seq(T)
          BY <1>1, <3>1
        <4> QED BY <4>1, <2>2 DEF NoScan
      <3> QED BY <2>3, <3>1, <3>2
    <2> QED BY <2>1, <2>4 DEF NoScan
  <1>3. NoScan' = NoScan
    BY DEF NoScan
  <1>4. ScanInv'
    BY <1>1a, <1>2, <1>3 DEF ScanInv, Calling
  <1> QED BY <1>4, NoWalkInv

LEMMA AnsweredInv ==
    ASSUME FindInv, pc = "answered", pc' = "host", scan' = NoScan,
           UNCHANGED <<fixed, gate, walk, scratch>>, CallerInv'
    PROVE  FindInv'
  <1> USE DEF FindInv
  <1>1. Setting'
    BY SameSetting
  <1>2. walk' = NoWalk
    BY DEF WalkInv
  <1>3. ScanInv' /\ WalkInv'
    BY <1>1, <1>2, AtHost
  <1>4. MemoryInv'
    BY MemoryKept DEF SparseNow
  <1> QED BY <1>1, <1>3, <1>4

LEMMA FindEndsInv ==
    ASSUME FindInv, FindEnds
    PROVE  FindInv'
  <1>1. /\ pc = "answered" /\ pc' = "host" /\ scan' = NoScan /\ status' = "done"
        /\ UNCHANGED <<fixed, gate, host, out, walk, scratch>>
    BY DEF FindEnds, Answered
  <1>2. L' = L /\ text' = text
    BY <1>1, SameSetting DEF FindInv
  <1>3. CallerInv'
    BY <1>1, <1>2 DEF FindInv, CallerInv
  <1> QED BY <1>1, <1>3, AnsweredInv

LEMMA OverflowsInv ==
    ASSUME FindInv, Overflows
    PROVE  FindInv'
  <1>1. /\ pc = "answered" /\ pc' = "host" /\ scan' = NoScan
        /\ host' = [host EXCEPT !.cap = scan.total]
        /\ UNCHANGED <<fixed, gate, out, status, walk, scratch>>
    BY DEF Overflows, Answered
  <1>2. L' = L /\ text' = text
    BY <1>1, SameSetting DEF FindInv
  <1>3. CallerInv'
    <2>1. scan.total \in 0..Cardinality(Ids) /\ MaxCap \in Nat /\ Cardinality(Ids) \in Nat
      BY SettingFacts DEF FindInv, ScanInv, ScanType
    <2>2. scan.total \in 0..(MaxCap + Cardinality(Ids))
      BY <2>1
    <2> DEFINE c == MaxCap + Cardinality(Ids)
    <2> HIDE DEF c
    <2>3. scan.total \in 0..c
      BY <2>2 DEF c
    <2>4. host' \in [from : 0..(L + 1), cap : 0..c]
      BY <1>1, <2>3 DEF FindInv, CallerInv, c
    <2> QED BY <1>1, <1>2, <2>4 DEF FindInv, CallerInv, c
  <1> QED BY <1>1, <1>3, AnsweredInv

LEMMA ReportsInv ==
    ASSUME FindInv, Reports
    PROVE  FindInv'
  <1>1. /\ pc = "answered" /\ pc' = "host" /\ scan' = NoScan /\ scan.total \in 1..host.cap
        /\ host' = [host EXCEPT !.from = scan.buf[1].start + 1]
        /\ out' = out \o SubSeq(scan.buf, 1, scan.total)
        /\ UNCHANGED <<fixed, gate, status, walk, scratch>>
    BY DEF Reports, Answered
  <1>2. L' = L /\ text' = text /\ L \in Nat
    BY <1>1, SameSetting, SettingFacts DEF FindInv, L
  <1>3. 1 \in 1..scan.total
    BY <1>1
  <1>4. scan.buf[1].start + 1 \in 0..(L + 1)
    <2> DEFINE f == scan.buf[1].start
    <2>1. f \in 0..L
      BY <1>1, <1>3, Counted1
    <2> HIDE DEF f
    <2>2. f + 1 \in 0..(L + 1)
      BY <1>2, <2>1
    <2> QED BY <2>2 DEF f
  <1>5. out' \in Seq(TuplesOf(text))
    <2>1. scan.buf \in Seq(TuplesOf(text)) /\ out \in Seq(TuplesOf(text))
      BY DEF FindInv, ScanInv, ScanType, CallerInv
    <2>2. scan.total \in 1..Len(scan.buf)
      BY <1>1, <1>3, Counted1
    <2> DEFINE T == TuplesOf(text)
    <2> HIDE DEF T
    <2>3. SubSeq(scan.buf, 1, scan.total) \in Seq(T)
      <3>1. scan.buf \in Seq(T) /\ Len(scan.buf) \in Nat
        BY <2>1 DEF T
      <3>2. \A i \in 1..scan.total : scan.buf[i] \in T
        BY <2>2, <3>1, ElementOfSeq
      <3> QED BY <2>2, <3>1, <3>2
    <2> QED BY <1>1, <2>1, <2>3 DEF T
  <1>6. CallerInv'
    <2> DEFINE f == scan.buf[1].start + 1
    <2> HIDE DEF f
    <2>1. host' = [host EXCEPT !.from = f] /\ f \in 0..(L + 1)
      BY <1>1, <1>4 DEF f
    <2>2. host' \in [from : 0..(L + 1), cap : 0..(MaxCap + Cardinality(Ids))]
      BY <2>1 DEF FindInv, CallerInv
    <2> QED BY <1>1, <1>2, <1>5, <2>2 DEF FindInv, CallerInv
  <1> QED BY <1>1, <1>6, AnsweredInv

LEMMA ScanningInv ==
    ASSUME FindInv, Find \/ Visit \/ NextPosition \/ SkipGroup
    PROVE  FindInv'
  <1>1. ScanInv' /\ WalkInv'
    BY FindScans, VisitGroups, NextPositionScans, SkipGroupGoesOn
  <1>2. /\ UNCHANGED <<fixed, gate, host, out, status, scratch>>
        /\ pc # "walk" /\ pc' # "walk"
    BY DEF Find, Visit, NextPosition, SkipGroup, AtGroup, Scanning
  <1>3. MemoryInv'
    BY <1>2, MemoryKept DEF SparseNow
  <1> QED BY <1>1, <1>2, <1>3, SameSetting, SameCaller DEF FindInv

LEMMA StutterInv == ASSUME FindInv, UNCHANGED vars PROVE FindInv'
  <1> USE DEF FindInv
  <1>1. UNCHANGED <<fixed, gate, host, out, status, scan, walk, scratch, pc>>
    BY DEF vars, fixed
  <1>2. Setting' /\ CallerInv'
    BY <1>1, SameSetting, SameCaller
  <1>3. /\ L' = L /\ ScanType' = ScanType /\ scan' = scan /\ host' = host /\ pc' = pc
        /\ MaxLookback' = MaxLookback
    BY <1>1, SameSetting DEF ScanType
  <1>4. Left' = Left
    BY <1>1, <1>3, SameSetting DEF Left, Work, LiteralAt
  <1>5. Work(scan.pos)' = Work(scan.pos)
    BY <1>3, <1>1, SameSetting DEF Work, LiteralAt
  <1>6. ServedIds(scan.minStart, scan.pos, Left)' = ServedIds(scan.minStart, scan.pos, Left)
    BY <1>1, <1>3, <1>4, SameSetting DEF ServedIds, ServedAt, GroupIds
  <1>7. ScanInv'
    BY <1>1, <1>3, <1>5, <1>6 DEF ScanInv, Calling
  <1>8. /\ Turn' = Turn /\ TurnGroup' = TurnGroup /\ TurnStart' = TurnStart
        /\ AfterLiteral' = AfterLiteral /\ B' = B /\ scan' = scan
        /\ Base(TurnStart)' = Base(TurnStart) /\ Call(Turn.b)' = Call(Turn.b)
    BY <1>1, SameFront
  <1>9. WalkInv'
    BY <1>1, <1>8 DEF WalkInv, AtWalk
  <1>10. MemoryInv'
    BY <1>1, <1>8, SameSetting DEF MemoryInv, ScratchClear, Memory
  <1> QED BY <1>2, <1>7, <1>9, <1>10

LEMMA FindInvInit == ASSUME Init PROVE FindInv
  <1>1. Setting
    BY DEF Init, Setting
  <1>2. L \in Nat /\ MaxCap \in Nat /\ Cardinality(Ids) \in Nat
    BY <1>1, SettingFacts DEF L
  <1>3. CallerInv
    <2>1. PICK n \in 0..MaxCap : host = [from |-> 0, cap |-> n]
      BY DEF Init
    <2>2. host \in [from : 0..(L + 1), cap : 0..(MaxCap + Cardinality(Ids))]
      BY <1>2, <2>1
    <2>3. gate \in [Ids -> 0..(2 * L + 2)]
      BY <1>2 DEF Init
    <2>4. out \in Seq(TuplesOf(text)) /\ status \in {"driving", "done"}
      BY DEF Init
    <2> QED BY <2>2, <2>3, <2>4 DEF CallerInv
  <1>4. host.cap \in Nat
    BY <1>2, <1>3 DEF CallerInv
  <1>5. ScanInv
    <2>1. pc = "host" /\ scan = NoScan
      BY DEF Init
    <2> QED BY <1>1, <1>4, <2>1, NoScanTyped DEF ScanInv, Calling
  <1>6. WalkInv
    BY DEF Init, WalkInv
  <1>7. MemoryInv
    BY DEF Init, MemoryInv, ScratchClear, Memory, CleanScratch
  <1> QED BY <1>1, <1>3, <1>5, <1>6, <1>7 DEF FindInv

LEMMA FindInvStep == ASSUME FindInv, [Next]_vars PROVE FindInv'
  <1>1. CASE Find \/ Visit \/ NextPosition \/ SkipGroup
    BY <1>1, ScanningInv
  <1>2. CASE EnterDense
    BY <1>2, EnterDenseInv
  <1>3. CASE EnterSparse
    BY <1>3, EnterSparseInv
  <1>4. CASE DenseWalks
    BY <1>4, DenseWalksInv
  <1>5. CASE DenseReturns
    BY <1>5, DenseReturnsInv
  <1>6. CASE SparseWalks
    BY <1>6, SparseWalksInv
  <1>7. CASE SparseReturns
    BY <1>7, SparseReturnsInv
  <1>8. CASE FindReturns
    BY <1>8, FindReturnsInv
  <1>9. CASE FindEnds
    BY <1>9, FindEndsInv
  <1>10. CASE Overflows
    BY <1>10, OverflowsInv
  <1>11. CASE Reports
    BY <1>11, ReportsInv
  <1>12. CASE UNCHANGED vars
    BY <1>12, StutterInv
  <1> QED BY <1>1, <1>2, <1>3, <1>4, <1>5, <1>6, <1>7, <1>8, <1>9, <1>10, <1>11, <1>12
          DEF Next

\* A span that is not empty has a block.
LEMMA SomeBlock ==
    ASSUME NEW m \in Nat \ {0}, NEW k \in Nat \ {0}
    PROVE  BlockCount(m, k) \in Nat \ {0}
  <1> DEFINE sum == m + k - 1
             q == sum \div k
  <1>1. q \in Int /\ sum \in Nat /\ k <= sum
    OBVIOUS
  <1>2. sum = k * q + (sum % k) /\ sum % k < k
    OBVIOUS
  <1>3. CASE q <= 0
    <2>1. k * q <= 0
      BY <1>1, <1>3
    <2>2. k * q \in Int /\ sum % k \in Int
      BY <1>1
    <2> HIDE DEF q, sum
    <2> QED BY <1>1, <1>2, <2>1, <2>2
  <1> QED BY <1>1, <1>3 DEF BlockCount

LEMMA Product == ASSUME NEW x \in Nat, NEW y \in Nat PROVE x * y \in Nat
  OBVIOUS

LEMMA RegionIsNat ==
    ASSUME NEW sw, sw.cells \in Nat, Len(sw.ids) \in Nat, NEW nb \in Nat, NEW k \in Nat
    PROVE  RegionBytes(sw, nb, k) \in Nat
  <1>1. 4 * sw.cells + 4 \in Nat /\ 4 + 4 * Len(sw.ids) \in Nat
    OBVIOUS
  <1> DEFINE blocks == nb * (4 * sw.cells + 4)
             rows == k * (4 + 4 * Len(sw.ids))
  <1>2. blocks \in Nat /\ rows \in Nat
    BY <1>1, Product
  <1>3. RegionBytes(sw, nb, k) = HeaderBytes + blocks + 4 + rows
    BY DEF RegionBytes
  <1> HIDE DEF blocks, rows
  <1> QED BY <1>2, <1>3 DEF HeaderBytes
-----------------------------------------------------------------------------
(* The header. *)

LEMMA LengthIsNat == ASSUME text \in Texts PROVE LenOf(text) \in Nat
  BY CachedAssumption DEF LenOf

Fields == DOMAIN Unoffered

\* The caller's region, to the divisor: a stride is one position or more.
IsRegion(c) ==
    /\ DOMAIN c = Fields /\ c.size \in Int /\ c.stride \in Nat
    /\ c.ready \in {0, 1} => c.stride >= 1

\* What is checked of a live header, for a drive that has come to `from'.
Sound(c, from) ==
    /\ c.floor \in 0..(LenOf(text) + 1)
    /\ c.nb = IF c.floor > LenOf(text) THEN 1
              ELSE BlockCount(LenOf(text) + 1 - c.floor, c.stride)
    /\ RegionBytes(S, c.nb, c.stride) <= c.size
    /\ from >= c.floor
    /\ c.cur \in 1..c.nb /\ c.base = BlockLow(c, c.cur - 1)

\* Once the cache is live no bucket is walked, and an answer lies at or after
\* the position the sweep began at.
HeaderInv ==
    /\ text \in Texts /\ set \in Sets
    /\ host = [from |-> host.from, cap |-> host.cap]
    /\ IsRegion(cache)
    /\ cache.ready \in {0, 1} => Swept
    /\ Live => Sound(cache, host.from) /\ pc \in {"host", "answered"}
    /\ look # NoBlock => Live /\ look \in Nat
    /\ Live /\ pc = "answered" /\ scan.total \in 1..host.cap =>
            scan.buf[1].start \in Int /\ scan.buf[1].start >= cache.floor
Ranged == host.from \in 0..(LenOf(text) + 1) /\ host.cap \in Int

LEMMA SweepIsTyped ==
    ASSUME set \in Sets, Swept
    PROVE  S.cells \in Nat /\ Len(S.ids) \in Nat
  BY CachedAssumption DEF S, Swept, IsSweep

LEMMA HeaderInvInit == CachedInit => HeaderInv
  <1> SUFFICES ASSUME CachedInit PROVE HeaderInv
    OBVIOUS
  <1>1. /\ text \in Texts /\ set \in Sets /\ host = [from |-> host.from, cap |-> host.cap]
        /\ look = NoBlock
    BY DEF CachedInit, Init
  <1>2. PICK offer \in Offers : cache = Brought(offer)
    BY DEF CachedInit
  <1>3. CASE ~Swept \/ offer.stride = 0
    <2>1. cache = Unoffered
      BY <1>2, <1>3 DEF Brought
    <2> QED BY <1>1, <2>1 DEF HeaderInv, IsRegion, Live, Fields, Unoffered
  <1>4. CASE Swept /\ offer.stride # 0
    <2> DEFINE stride == Min({offer.stride, LenOf(text) + 1})
               size == OfferedBytes(S, text, offer.stride) - offer.short
    <2>1. cache = Zeroed(size, stride)
      BY <1>2, <1>4 DEF Brought
    <2>2. LenOf(text) + 1 \in Nat \ {0} /\ offer.stride \in Nat \ {0} /\ offer.short \in Nat
      BY <1>1, <1>4, LengthIsNat, CachedAssumption
    <2>3. stride \in Nat \ {0}
      <3>1. stride = IF offer.stride <= LenOf(text) + 1 THEN offer.stride ELSE LenOf(text) + 1
        BY <2>2, MinOfTwo
      <3> QED BY <2>2, <3>1
    <2>4. size \in Int
      <3>1. S.cells \in Nat /\ Len(S.ids) \in Nat
        BY <1>1, <1>4, SweepIsTyped
      <3>2. BlockCount(LenOf(text) + 1, stride) \in Nat
        BY <2>2, <2>3, SomeBlock
      <3>3. RegionBytes(S, BlockCount(LenOf(text) + 1, stride), stride) \in Nat
        BY <2>3, <3>1, <3>2, RegionIsNat
      <3> QED BY <2>2, <3>3 DEF OfferedBytes
    <2> HIDE DEF stride, size
    <2>5. IsRegion(cache) /\ cache.ready = 0
      BY <2>1, <2>3, <2>4 DEF Zeroed, Unoffered, IsRegion, Fields
    <2> QED BY <1>1, <1>4, <2>5 DEF HeaderInv, Live
  <1> QED BY <1>3, <1>4

\* A sweep is refused, or leaves a header that describes what it wrote.
LEMMA PassIsSound ==
    ASSUME text \in Texts, set \in Sets, Swept, Ranged,
           IsRegion(cache), cache.ready = 0
    PROVE  LET c == Pass(S, text, host.from, cache)
           IN  IsRegion(c) /\ (c.ready = 1 => Sound(c, host.from))
  <1> DEFINE from == host.from
             n == LenOf(text)
             m == n - from + 1
             stride == Min({cache.stride, m})
             nb == BlockCount(m, stride)
             c == Pass(S, text, from, cache)
  <1>1. n \in Nat /\ from \in 0..(n + 1)
    BY LengthIsNat DEF Ranged
  <1>2. S.cells \in Nat /\ Len(S.ids) \in Nat
    BY SweepIsTyped
  <1>3. /\ DOMAIN cache = Fields /\ cache.size \in Int /\ cache.stride \in Nat \ {0}
        /\ {"size", "stride", "ready", "floor", "nb", "cur", "base", "ckpts", "cum", "rows"}
               \subseteq Fields
    BY DEF IsRegion, Fields, Unoffered
  <1>4. \A d : DOMAIN d = Fields /\ d.size = cache.size /\ d.stride \in Nat /\ d.ready = -1
            => IsRegion(d) /\ d.ready # 1
    BY <1>3 DEF IsRegion
  <1>5. CASE cache.size < HeaderBytes
    <2>1. c = [cache EXCEPT !.ready = -1]
      BY <1>5 DEF Pass, Refused
    <2> QED BY <1>3, <1>4, <2>1
  <1>6. CASE ~(cache.size < HeaderBytes) /\ from > n
    <2>1. RegionBytes(S, 1, 1) \in Nat
      BY <1>2, RegionIsNat
    <2>2. CASE RegionBytes(S, 1, 1) > cache.size
      <3>1. c = [cache EXCEPT !.ready = -1]
        BY <1>6, <2>2 DEF Pass, Refused
      <3> QED BY <1>3, <1>4, <3>1
    <2>3. CASE ~(RegionBytes(S, 1, 1) > cache.size)
      <3>1. c = PassPastEnd(S, text, cache)
        BY <1>6, <2>3 DEF Pass
      <3>2. /\ DOMAIN c = Fields /\ c.size = cache.size /\ c.stride = 1 /\ c.nb = 1
            /\ c.floor = n + 1 /\ c.base = n + 1 /\ c.cur = 1 /\ c.ready = 1
        BY <1>3, <3>1 DEF PassPastEnd
      <3>3. RegionBytes(S, c.nb, c.stride) <= c.size
        BY <1>3, <2>1, <2>3, <3>2
      <3>4. c.base = BlockLow(c, c.cur - 1)
        BY <1>1, <3>2 DEF BlockLow
      <3> HIDE DEF c
      <3>5. IsRegion(c)
        BY <1>3, <3>2 DEF IsRegion
      <3>6. Sound(c, from)
        BY <1>1, <1>6, <3>2, <3>3, <3>4 DEF Sound
      <3> QED BY <3>5, <3>6 DEF c
    <2> QED BY <2>2, <2>3
  <1>7. CASE ~(cache.size < HeaderBytes) /\ ~(from > n)
    <2>1. m \in Nat \ {0}
      BY <1>1, <1>7
    <2>2. stride \in Nat \ {0}
      <3>1. stride = IF cache.stride <= m THEN cache.stride ELSE m
        BY <1>3, <2>1, MinOfTwo
      <3> QED BY <1>3, <2>1, <3>1
    <2>3. nb \in Nat \ {0}
      BY <2>1, <2>2, SomeBlock
    <2>4. RegionBytes(S, nb, stride) \in Nat
      BY <1>2, <2>2, <2>3, RegionIsNat
    <2>5. CASE RegionBytes(S, nb, stride) > cache.size
      <3>1. c = [[cache EXCEPT !.stride = stride] EXCEPT !.ready = -1]
        BY <1>7, <2>5 DEF Pass, Refused
      <3> HIDE DEF stride
      <3>2. DOMAIN c = Fields /\ c.size = cache.size /\ c.stride = stride /\ c.ready = -1
        BY <1>3, <3>1
      <3> HIDE DEF c
      <3>3. IsRegion(c) /\ c.ready # 1
        BY <1>4, <2>2, <3>2
      <3> QED BY <3>3 DEF c
    <2>6. CASE ~(RegionBytes(S, nb, stride) > cache.size)
      <3>1. c = PassOver(S, text, from, stride, nb, cache)
        BY <1>7, <2>6 DEF Pass
      <3>2. /\ DOMAIN c = Fields /\ c.size = cache.size /\ c.stride = stride /\ c.nb = nb
            /\ c.floor = from /\ c.base = from /\ c.cur = 1 /\ c.ready = 1
        <4> HIDE DEF stride, nb, c
        <4>1. PICK ckpts, cum, rows :
                c = [cache EXCEPT !.stride = stride, !.nb = nb, !.floor = from,
                                  !.base = from, !.cur = 1, !.ckpts = ckpts, !.cum = cum,
                                  !.rows = rows, !.ready = 1]
          BY <3>1 DEF PassOver
        <4> QED BY <1>3, <4>1
      <3>3. c.nb = BlockCount(n + 1 - c.floor, c.stride)
        <4>1. n + 1 - from = m
          BY <1>1
        <4> QED BY <3>2, <4>1
      <3> HIDE DEF c, nb, stride
      <3>4. RegionBytes(S, c.nb, c.stride) <= c.size
        BY <1>3, <2>4, <2>6, <3>2
      <3>5. c.base = BlockLow(c, c.cur - 1)
        BY <1>1, <2>2, <3>2 DEF BlockLow
      <3>6. IsRegion(c)
        BY <1>3, <2>2, <3>2 DEF IsRegion
      <3>7. Sound(c, from)
        BY <1>1, <1>7, <2>3, <3>2, <3>3, <3>4, <3>5 DEF Sound
      <3> QED BY <3>6, <3>7 DEF c
    <2> QED BY <2>5, <2>6
  <1> QED BY <1>5, <1>6, <1>7

\* While the text is walked the header only counts.
LEMMA HeaderWalked ==
    ASSUME HeaderInv, ~Live,
           \/ WalksOn \/ WalkReturns \/ Bails \/ CallReturns \/ Walking \/ Retries
    PROVE  HeaderInv'
  <1>1. /\ set' = set /\ text' = text /\ look' = look
        /\ \/ host' = host
           \/ \E n : host' = [host EXCEPT !.cap = n]
           \/ \E n : host' = [host EXCEPT !.from = n]
    BY DEF WalksOn, WalkReturns, Bails, CallReturns, Walking, Retries, Find, Visit, NextPosition,
           SkipGroup, EnterDense, EnterSparse, DenseWalks, DenseReturns, SparseWalks,
           SparseReturns, FindReturns, FindEnds, Overflows, Reports, Answered, fixed, cacheVars
  <1>2. cache' = cache \/ \E n : cache' = [cache EXCEPT !.work = n]
    BY DEF WalksOn, WalkReturns, Bails, CallReturns, Walking, Retries, cacheVars
  <1>3. IsRegion(cache') /\ cache'.ready = cache.ready
    <2>1. {"size", "stride", "ready"} \subseteq Fields
      BY DEF Fields, Unoffered
    <2> QED BY <1>2, <2>1 DEF HeaderInv, IsRegion
  <1>4. (host = [from |-> host.from, cap |-> host.cap])'
    BY <1>1 DEF HeaderInv
  <1> QED BY <1>1, <1>3, <1>4 DEF HeaderInv, Live, Swept

LEMMA HeaderSweeps == ASSUME HeaderInv, Ranged, Sweeps PROVE HeaderInv'
  <1>1. /\ cache.ready = 0 /\ cache' = Pass(S, text, host.from, cache)
        /\ set' = set /\ text' = text /\ host' = host /\ pc' = pc /\ pc = "host"
        /\ look' = NoBlock
    BY DEF Sweeps, Deciding, Due, Idle, vars
  <1>2. IsRegion(cache') /\ (cache'.ready = 1 => Sound(cache', host.from))
    BY <1>1, PassIsSound DEF HeaderInv
  <1>3. Swept' /\ (Sound(cache, host.from)' <=> Sound(cache', host.from))
    BY <1>1 DEF HeaderInv, Swept, Sound, S
  <1> QED BY <1>1, <1>2, <1>3 DEF HeaderInv, Live

\* The caller of a live cache: a position that was reported is not asked again.
LEMMA HeaderCalled ==
    ASSUME HeaderInv, Live, Ranged',
           \/ WalksOn \/ WalkReturns \/ Bails \/ CallReturns \/ Walking \/ Retries
    PROVE  HeaderInv'
  <1>1. pc \in {"host", "answered"}
    BY DEF HeaderInv
  <1>2. (Overflows \/ FindEnds \/ Reports) /\ UNCHANGED <<cache, look>>
    BY <1>1 DEF Live, WalksOn, WalkReturns, Bails, WalkOver, CallReturns, Walking, Retries,
           Find, Visit, Scanning, NextPosition, SkipGroup, AtGroup, EnterDense, EnterSparse,
           DenseWalks, DenseReturns, SparseWalks, SparseReturns, FindReturns, cacheVars
  <1>3. /\ set' = set /\ text' = text /\ cache' = cache /\ look' = look
        /\ pc = "answered" /\ pc' = "host"
    BY <1>2 DEF Overflows, FindEnds, Reports, Answered, fixed
  <1>4. /\ host'.from >= cache.floor
        /\ host' = [from |-> host'.from, cap |-> host'.cap]
    <2>1. CASE Overflows \/ FindEnds
      <3>1. host'.from = host.from /\ host' = [from |-> host'.from, cap |-> host'.cap]
        BY <2>1 DEF Overflows, FindEnds, HeaderInv
      <3> QED BY <3>1 DEF HeaderInv, Sound
    <2>2. CASE Reports
      <3>1. /\ host' = [host EXCEPT !.from = scan.buf[1].start + 1]
            /\ scan.total \in 1..host.cap
        BY <2>2 DEF Reports
      <3>2. scan.buf[1].start \in Int /\ scan.buf[1].start >= cache.floor /\ cache.floor \in Int
        BY <1>3, <3>1 DEF HeaderInv, Sound
      <3> QED BY <3>1, <3>2 DEF HeaderInv
    <2> QED BY <1>2, <2>1, <2>2
  <1>5. Sound(cache, host.from)'
    BY <1>3, <1>4 DEF HeaderInv, Sound, S
  <1> QED BY <1>3, <1>4, <1>5 DEF HeaderInv, Live, Swept, IsRegion

\* A step of an answer that leaves the header and the caller alone.
LEMMA HeaderKept ==
    ASSUME HeaderInv, Live, set' = set, text' = text, host' = host, cache' = cache,
           pc' \in {"host", "answered"}, look' = NoBlock \/ look' \in Nat,
           pc' = "answered" /\ scan'.total \in 1..host.cap =>
               scan'.buf[1].start \in Int /\ scan'.buf[1].start >= cache.floor
    PROVE  HeaderInv'
  <1>1. Sound(cache, host.from)'
    BY DEF HeaderInv, Sound, S
  <1> QED BY <1>1 DEF HeaderInv, Live, Swept, IsRegion

\* The first row that holds an answer is at or after the position asked for.
LEMMA HeaderServes == ASSUME HeaderInv, Ranged, ServesRow PROVE HeaderInv'
  <1> DEFINE r == Min(Matching)
             total == Cardinality(Hits(cache.rows[r]))
  <1>1. Live /\ Matching # {} /\ pc' = "answered" /\ look' = NoBlock
    BY DEF ServesRow, AtBlock, Looking, Answers, HeaderInv
  <1>2. /\ scan'.total = total
        /\ total <= host.cap => scan'.buf = RowTuples(r)
        /\ set' = set /\ text' = text /\ host' = host /\ cache' = cache
    BY DEF ServesRow, Answers, NoScan, fixed
  <1>3. /\ cache.base \in Int /\ cache.floor \in Int /\ host.from \in Int
        /\ host.from >= cache.floor
    <2>1. Sound(cache, host.from) /\ cache.stride \in Nat /\ cache.stride >= 1
      BY <1>1 DEF HeaderInv, IsRegion, Live
    <2>2. cache.floor \in Int /\ LenOf(text) \in Nat /\ host.from \in Int
      BY <2>1, LengthIsNat DEF HeaderInv, Sound, Ranged
    <2>3. cache.nb \in Int
      BY <2>1, <2>2 DEF Sound, BlockCount
    <2>4. (cache.cur - 1) * cache.stride \in Int
      BY <2>1, <2>3 DEF Sound
    <2>5. cache.base = cache.floor + (cache.cur - 1) * cache.stride
      BY <2>1 DEF Sound, BlockLow
    <2> QED BY <2>1, <2>2, <2>4, <2>5 DEF Sound
  <1>4. r \in Nat /\ cache.base + r >= host.from
    <2> DEFINE low == Max({host.from - cache.base, 0})
    <2>1. low \in Nat /\ low >= host.from - cache.base
      BY <1>3, MaxOfTwo
    <2> HIDE DEF low
    <2>2. Matching \subseteq Nat /\ \A x \in Matching : x >= low
      BY <2>1 DEF Matching, low
    <2>3. r \in Matching
      BY <1>1, <2>2, MinIsLeast
    <2> HIDE DEF r
    <2> QED BY <1>3, <2>1, <2>2, <2>3
  <1>5. ASSUME scan'.total \in 1..host.cap
        PROVE  scan'.buf[1].start = cache.base + r
    <2> DEFINE hits == Hits(cache.rows[r])
    <2>1. total \in Int /\ 1 <= total /\ total <= host.cap
      BY <1>2, <1>5 DEF Ranged
    <2>2. scan'.buf = RowTuples(r)
      BY <1>2, <2>1
    <2>3. 1 \in 1..Cardinality(hits)
      BY <2>1
    <2> HIDE DEF r
    <2>4. RowTuples(r)[1].start = cache.base + r
      <3>1. 1 \in DOMAIN Ascending(hits)
        BY <2>3 DEF Ascending
      <3> HIDE DEF hits
      <3>2. 1 \in DOMAIN Ascending(Hits(cache.rows[r]))
        BY <3>1 DEF hits
      <3> QED BY <3>2 DEF RowTuples
    <2> QED BY <2>2, <2>4
  <1> HIDE DEF r, total
  <1> QED BY <1>1, <1>2, <1>3, <1>4, <1>5, HeaderKept

\* An answer with nothing in it.
LEMMA HeaderEmpty ==
    ASSUME HeaderInv, Ranged, PastEnd \/ OutOfBlocks
    PROVE  HeaderInv'
  <1>1. Live /\ Answers(0, << >>)
    BY DEF PastEnd, OutOfBlocks, Looking, HeaderInv
  <1>2. /\ set' = set /\ text' = text /\ host' = host /\ cache' = cache
        /\ pc' = "answered" /\ look' = NoBlock /\ scan'.total = 0
    BY <1>1 DEF Answers, NoScan, fixed
  <1>3. 0 \notin 1..host.cap
    BY DEF Ranged
  <1> QED BY <1>1, <1>2, <1>3, HeaderKept

\* Which block is looked for.
LEMMA HeaderLooks ==
    ASSUME HeaderInv, Ranged, Locates \/ SkipsBlock \/ BlockBarren
    PROVE  HeaderInv'
  <1>1. /\ Live /\ pc = "host" /\ UNCHANGED vars /\ cache' = cache
        /\ \/ look' = Max({host.from - cache.floor, 0}) \div cache.stride
           \/ look # NoBlock /\ look' = look + 1
    BY DEF Locates, SkipsBlock, BlockBarren, NextBlock, AtBlock, Looking, Deciding, Idle,
           HeaderInv
  <1>2. /\ set' = set /\ text' = text /\ host' = host /\ pc' = "host"
    BY <1>1 DEF vars, fixed
  <1>3. look' \in Nat
    <2>1. CASE look # NoBlock /\ look' = look + 1
      BY <2>1 DEF HeaderInv
    <2>2. CASE look' = Max({host.from - cache.floor, 0}) \div cache.stride
      <3>1. host.from - cache.floor \in Int /\ cache.stride \in Nat /\ cache.stride >= 1
        BY <1>1, LengthIsNat DEF HeaderInv, Sound, IsRegion, Ranged, Live
      <3>2. Max({host.from - cache.floor, 0}) \in Nat
        BY <3>1, MaxOfTwo
      <3> QED BY <2>2, <3>1, <3>2
    <2> QED BY <1>1, <2>1, <2>2
  <1> QED BY <1>1, <1>2, <1>3, HeaderKept

\* A block swept again: the header names it, and where its first row lies.
LEMMA HeaderMade == ASSUME HeaderInv, Materialises PROVE HeaderInv'
  <1>1. /\ Live /\ pc = "host" /\ UNCHANGED <<vars, look>>
        /\ look # NoBlock /\ look < cache.nb /\ cache' = Block(S, text, cache, look)
    BY DEF Materialises, AtBlock, Looking, Idle, HeaderInv, Made
  <1>2. set' = set /\ text' = text /\ host' = host /\ pc' = "host" /\ look' = look
    BY <1>1 DEF vars, fixed
  <1>3. IsRegion(cache) /\ Sound(cache, host.from) /\ look \in Nat
    BY <1>1 DEF HeaderInv
  <1>4. /\ DOMAIN cache' = Fields /\ cache'.size = cache.size /\ cache'.stride = cache.stride
        /\ cache'.ready = cache.ready /\ cache'.floor = cache.floor /\ cache'.nb = cache.nb
        /\ cache'.cur = look + 1 /\ cache'.base = BlockLow(cache, look)
    <2>1. {"size", "stride", "ready", "floor", "nb", "cur", "base"} \subseteq Fields
      BY DEF Fields, Unoffered
    <2>2. PICK rows : cache' =
            [cache EXCEPT !.cur = look + 1, !.base = BlockLow(cache, look), !.rows = rows]
      BY <1>1 DEF Block
    <2> QED BY <1>3, <2>1, <2>2 DEF IsRegion
  <1>5. cache'.cur \in 1..cache'.nb
    <2>1. cache.cur \in 1..cache.nb /\ cache.nb \in Int
      <3>1. cache.floor \in Int /\ LenOf(text) \in Nat /\ cache.stride \in Nat
        BY <1>1, <1>3, LengthIsNat DEF HeaderInv, Sound, IsRegion
      <3>2. cache.stride >= 1
        BY <1>1, <1>3 DEF Live, IsRegion
      <3> QED BY <1>3, <3>1, <3>2 DEF Sound, BlockCount
    <2> QED BY <1>1, <1>3, <1>4, <2>1
  <1>6. cache'.base = BlockLow(cache', cache'.cur - 1)
    BY <1>3, <1>4 DEF BlockLow
  <1>7. Sound(cache', host.from)
    BY <1>3, <1>4, <1>5, <1>6 DEF Sound
  <1>8. IsRegion(cache') /\ Sound(cache, host.from)'
    BY <1>2, <1>3, <1>4, <1>7 DEF IsRegion, Sound, S
  <1> QED BY <1>1, <1>2, <1>3, <1>4, <1>8 DEF HeaderInv, Live, Swept

LEMMA HeaderStep ==
    ASSUME HeaderInv, Ranged, Ranged', [CachedNext]_<<vars, cacheVars>>
    PROVE  HeaderInv'
  <1>1. CASE WalksOn \/ WalkReturns \/ Bails \/ CallReturns \/ Walking \/ Retries
    BY <1>1, HeaderWalked, HeaderCalled
  <1>2. CASE Sweeps
    BY <1>2, HeaderSweeps
  <1>3. CASE PastEnd \/ OutOfBlocks
    BY <1>3, HeaderEmpty
  <1>4. CASE Locates \/ SkipsBlock \/ BlockBarren
    BY <1>4, HeaderLooks
  <1>5. CASE Materialises
    BY <1>5, HeaderMade
  <1>6. CASE ServesRow
    BY <1>6, HeaderServes
  <1>7. CASE UNCHANGED <<vars, cacheVars>>
    BY <1>7 DEF vars, cacheVars, fixed, HeaderInv, IsRegion, Sound, Live, Swept, S
  <1> QED BY <1>1, <1>2, <1>3, <1>4, <1>5, <1>6, <1>7 DEF CachedNext

LEMMA TuplesAreTuples ==
    ASSUME NEW list \in Seq(TuplesOf(text))
    PROVE  IsTuples(list)
  <1>1. ASSUME NEW i \in DOMAIN list PROVE list[i] \in TuplesOf(text)
    BY ElementOfSeq
  <1> QED BY <1>1 DEF IsTuples, TuplesOf

LEMMA WalkIsThere == ASSUME FindInv, pc = "walk" PROVE walk # NoWalk
  <1>1. "pos" \in DOMAIN walk
    <2>1. CASE B[Turn.b].wide
      <3>1. walk \in SparseType(Call(Turn.b))
        BY <2>1 DEF FindInv, WalkInv, AtWalk, IsSparse
      <3> QED BY <3>1 DEF SparseType
    <2>2. CASE ~B[Turn.b].wide
      <3>1. walk \in DenseType(Call(Turn.b))
        BY <2>2 DEF FindInv, WalkInv, AtWalk, IsDense
      <3> QED BY <3>1 DEF DenseType
    <2> QED BY <2>1, <2>2
  <1>2. DOMAIN NoWalk = {}
    BY DEF NoWalk
  <1> QED BY <1>1, <1>2

LEMMA FindTyped == FindInv => TypeOK
  <1> SUFFICES ASSUME FindInv PROVE TypeOK
    OBVIOUS
  <1>1. L = LenOf(text) /\ L \in Nat
    BY SettingFacts DEF FindInv, L
  <1>2. gate \in [Ids -> 0..(2 * L + 2)] /\ status \in {"driving", "done"}
        /\ host.from \in 0..(L + 1) /\ host.cap \in 0..(MaxCap + Cardinality(Ids))
    BY DEF FindInv, CallerInv
  <1>3. out \in Seq(TuplesOf(text)) /\ scan.buf \in Seq(TuplesOf(text))
    BY DEF FindInv, CallerInv, ScanInv, ScanType
  <1>4. IsTuples(out) /\ IsTuples(scan.buf)
    BY <1>3, TuplesAreTuples
  <1>5. /\ Len(scan.buf) <= host.cap /\ pc \in {"host", "scan", "group", "walk", "answered"}
        /\ scan.pos \in 0..(L + 1) /\ scan.minStart \in 0..(L + 1)
        /\ scan.total \in 0..Cardinality(Ids)
    BY DEF FindInv, ScanInv, ScanType
  <1>6. pc = "walk" <=> walk # NoWalk
    BY WalkIsThere DEF FindInv, WalkInv
  <1> QED BY <1>1, <1>2, <1>4, <1>5, <1>6 DEF TypeOK, Sentinel

\* Every variable of a set's find keeps to the values the code gives it.
THEOREM TypeCorrect == Spec => []TypeOK
  <1>1. Init => FindInv
    BY FindInvInit
  <1>2. FindInv /\ [Next]_vars => FindInv'
    BY FindInvStep
  <1>3. FindInv => TypeOK
    BY FindTyped
  <1> QED BY <1>1, <1>2, <1>3, PTL DEF Spec

\* A bucket's memory is clear between its walks.
THEOREM ScratchAlwaysClear == Spec => []ScratchClear
  <1>1. Init => FindInv
    BY FindInvInit
  <1>2. FindInv /\ [Next]_vars => FindInv'
    BY FindInvStep
  <1>3. FindInv => ScratchClear
    BY DEF FindInv, MemoryInv
  <1> QED BY <1>1, <1>2, <1>3, PTL DEF Spec
-----------------------------------------------------------------------------
(* The sweep's columns. *)

\* From 0 up, one at a time.
LEMMA CountedUpTo ==
    ASSUME NEW n \in Nat, NEW T, 0 \in T, \A k \in 0..(n - 1) : k \in T => k + 1 \in T
    PROVE  \A k \in 0..n : k \in T
  <1> DEFINE missed == {k \in 0..n : k \notin T}
  <1>1. CASE missed = {}
    BY <1>1
  <1>2. CASE missed # {}
    <2>1. missed \subseteq Nat
      OBVIOUS
    <2>2. PICK m \in missed : \A k \in missed : m <= k
      <3> HIDE DEF missed
      <3> QED BY <1>2, <2>1, MinIsLeast
    <2>3. m - 1 \in 0..(n - 1) /\ m - 1 \notin missed
      BY <2>2
    <2> QED BY <2>2, <2>3
  <1> QED BY <1>1, <1>2

\* A column is what the sweep makes of the one above it.
Descent(sw, t, low, top, column, f) ==
    f = [p \in low..top |-> IF p = top THEN column ELSE Advance(sw, t, p, f[p + 1])]

LEMMA ColumnsDescend ==
    ASSUME NEW sw, NEW t, NEW low \in Int, NEW top \in Int, NEW column, low <= top
    PROVE  Descent(sw, t, low, top, column, Columns(sw, t, low, top, column))
  <1> DEFINE n == top - low
             From(k, f) == Descent(sw, t, top - k, top, column, f)
             T == {k \in 0..n : \E f : From(k, f)}
  <1>1. n \in Nat
    OBVIOUS
  <1>2. 0 \in T
    <2>1. From(0, [p \in (top - 0)..top |-> column])
      BY DEF Descent
    <2> QED BY <1>1, <2>1
  <1>3. ASSUME NEW k \in 0..(n - 1), k \in T PROVE k + 1 \in T
    <2>1. PICK f : From(k, f)
      BY <1>3
    <2> DEFINE low1 == top - (k + 1)
               g == [p \in low1..top |-> IF p = low1 THEN Advance(sw, t, p, f[p + 1]) ELSE f[p]]
    <2>2. low1 \in Int /\ low1 < top /\ low1 + 1 = top - k /\ k + 1 \in 0..n
      OBVIOUS
    <2>3. ASSUME NEW p \in low1..top
          PROVE  g[p] = IF p = top THEN column ELSE Advance(sw, t, p, g[p + 1])
      <3>1. CASE p = low1
        <4>1. g[p + 1] = f[p + 1]
          BY <2>2, <3>1
        <4> QED BY <2>2, <3>1, <4>1
      <3>2. CASE p # low1
        <4>1. p \in (top - k)..top
          BY <2>2, <3>2
        <4>2. f[p] = IF p = top THEN column ELSE Advance(sw, t, p, f[p + 1])
          BY <2>1, <4>1 DEF Descent
        <4>3. p # top => g[p + 1] = f[p + 1]
          BY <2>2, <3>2
        <4> QED BY <3>2, <4>2, <4>3
      <3> QED BY <3>1, <3>2
    <2>4. From(k + 1, g)
      <3>1. g = [p \in low1..top |-> g[p]]
        OBVIOUS
      <3> HIDE DEF g
      <3>2. g = [p \in low1..top |-> IF p = top THEN column ELSE Advance(sw, t, p, g[p + 1])]
        BY <2>3, <3>1
      <3> QED BY <3>2 DEF Descent
    <2> HIDE DEF From
    <2> QED BY <2>2, <2>4
  <1>4. n \in T
    <2> HIDE DEF T
    <2>1. \A k \in 0..n : k \in T
      BY <1>1, <1>2, <1>3, CountedUpTo
    <2> QED BY <1>1, <2>1
  <1>5. PICK f : Descent(sw, t, low, top, column, f)
    <2>1. top - n = low
      OBVIOUS
    <2>2. PICK g : From(n, g)
      BY <1>4
    <2> QED BY <2>1, <2>2
  <1>6. Columns(sw, t, low, top, column) =
          CHOOSE g : g = [p \in low..top |-> IF p = top THEN column
                                             ELSE Advance(sw, t, p, g[p + 1])]
    BY DEF Columns
  <1> QED BY <1>5, <1>6 DEF Descent

\* Columns begun from one of others are those.
LEMMA ColumnsMeet ==
    ASSUME NEW sw, NEW t, NEW low \in Int, NEW top \in Int, NEW column, NEW f,
           Descent(sw, t, low, top, column, f),
           NEW low2 \in low..top, NEW top2 \in low2..top, NEW g,
           Descent(sw, t, low2, top2, f[top2], g)
    PROVE  \A p \in low2..top2 : g[p] = f[p]
  <1> DEFINE n == top2 - low2
             T == {k \in 0..n : g[top2 - k] = f[top2 - k]}
  <1>1. n \in Nat /\ \A p \in low2..top2 : p \in low..top
    OBVIOUS
  <1>2. \A p \in low2..top2 : g[p] = IF p = top2 THEN f[top2] ELSE Advance(sw, t, p, g[p + 1])
    BY DEF Descent
  <1>3. \A p \in low..top : p # top => f[p] = Advance(sw, t, p, f[p + 1])
    BY DEF Descent
  <1>4. 0 \in T
    <2>1. top2 - 0 = top2 /\ top2 \in low2..top2 /\ 0 \in 0..n
      OBVIOUS
    <2> QED BY <1>2, <2>1
  <1>5. ASSUME NEW k \in 0..(n - 1), k \in T PROVE k + 1 \in T
    <2> DEFINE p == top2 - (k + 1)
    <2>1. p \in low2..top2 /\ p # top2 /\ p # top /\ p + 1 = top2 - k /\ k + 1 \in 0..n
      OBVIOUS
    <2>2. g[p + 1] = f[p + 1]
      BY <1>5, <2>1
    <2> HIDE DEF p
    <2>3. g[p] = Advance(sw, t, p, g[p + 1])
      BY <1>2, <2>1
    <2>4. f[p] = Advance(sw, t, p, f[p + 1])
      BY <1>1, <1>3, <2>1
    <2>5. g[p] = f[p]
      BY <2>2, <2>3, <2>4
    <2> QED BY <2>1, <2>5 DEF p
  <1> HIDE DEF T
  <1>6. \A k \in 0..n : k \in T
    BY <1>1, <1>4, <1>5, CountedUpTo
  <1>7. ASSUME NEW p \in low2..top2 PROVE g[p] = f[p]
    <2>1. top2 - p \in 0..n /\ top2 - (top2 - p) = p
      OBVIOUS
    <2>2. top2 - p \in T
      BY <1>6, <2>1
    <2> QED BY <2>1, <2>2 DEF T
  <1> QED BY <1>7

\* What a column may hold: for each pattern and class an end at or after the
\* position, or none.
IsColumn(sw, t, p, c) ==
    \A k \in DOMAIN sw.ids : \A s \in Range(sw.cellOf[k]) :
        c[k][s] = NoMatch \/ c[k][s] \in p..LenOf(t)

LEMMA CellsAreStates ==
    ASSUME NEW sw, NEW ids, IsSweep(sw, ids), NEW k \in DOMAIN sw.ids
    PROVE  /\ \A s \in Range(sw.cellOf[k]) : s \in DOMAIN sw.table.mid
           /\ \A s \in DOMAIN sw.table.mid : sw.cellOf[k][s] \in Range(sw.cellOf[k])
  BY DEF IsSweep, Range

LEMMA AdvanceIsColumn ==
    ASSUME NEW sw, NEW ids, IsSweep(sw, ids), NEW t, t.bytes \in Seq(Bytes),
           NEW p \in Nat, p < LenOf(t), NEW above, IsColumn(sw, t, p + 1, above)
    PROVE  IsColumn(sw, t, p, Advance(sw, t, p, above))
  <1> SUFFICES ASSUME NEW k \in DOMAIN sw.ids, NEW s \in Range(sw.cellOf[k])
               PROVE  \/ Advance(sw, t, p, above)[k][s] = NoMatch
                      \/ Advance(sw, t, p, above)[k][s] \in p..LenOf(t)
    BY DEF IsColumn
  <1> DEFINE c == ByteAt(t, p)
             to == sw.cellOf[k][sw.table.next[s][c]]
             after == above[k][to]
  <1>1. Advance(sw, t, p, above)[k][s] = IF Final(sw, s, c) THEN p
             ELSE IF after # NoMatch THEN after
             ELSE IF k \in Accepted(sw.table, s, c) THEN p ELSE NoMatch
    BY DEF Advance
  <1>2. LenOf(t) \in Nat /\ c \in Bytes
    BY DEF LenOf, ByteAt
  <1>3. to \in Range(sw.cellOf[k])
    <2>1. sw.table.next[s][c] \in DOMAIN sw.table.mid
      BY <1>2, CellsAreStates DEF IsSweep, IsTable
    <2> QED BY <2>1, CellsAreStates
  <1>4. after = NoMatch \/ after \in (p + 1)..LenOf(t)
    BY <1>3 DEF IsColumn
  <1> HIDE DEF after, c
  <1> QED BY <1>1, <1>2, <1>4

LEMMA EOFIsColumn ==
    ASSUME NEW sw, NEW t, LenOf(t) \in Nat
    PROVE  IsColumn(sw, t, LenOf(t), EOFColumn(sw, t))
  BY DEF IsColumn, EOFColumn

LEMMA ColumnsAreColumns ==
    ASSUME NEW sw, NEW ids, IsSweep(sw, ids), NEW t, t.bytes \in Seq(Bytes),
           NEW low \in Nat, NEW f, low <= LenOf(t),
           Descent(sw, t, low, LenOf(t), EOFColumn(sw, t), f)
    PROVE  \A p \in low..LenOf(t) : IsColumn(sw, t, p, f[p])
  <1> DEFINE top == LenOf(t)
             n == top - low
             T == {k \in 0..n : IsColumn(sw, t, top - k, f[top - k])}
  <1>1. top \in Nat
    BY DEF LenOf
  <1> HIDE DEF top
  <1>2. n \in Nat
    BY <1>1 DEF top
  <1>3. \A p \in low..top : f[p] = IF p = top THEN EOFColumn(sw, t)
                                   ELSE Advance(sw, t, p, f[p + 1])
    BY DEF Descent, top
  <1>4. 0 \in T
    <2>1. top - 0 = top /\ top \in low..top /\ 0 \in 0..n
      BY <1>1, <1>2 DEF top
    <2>2. IsColumn(sw, t, top, f[top])
      BY <1>1, <1>3, <2>1, EOFIsColumn DEF top
    <2> QED BY <2>1, <2>2
  <1>5. ASSUME NEW k \in 0..(n - 1), k \in T PROVE k + 1 \in T
    <2> DEFINE p == top - (k + 1)
    <2>1. p \in low..top /\ p \in Nat /\ p < top /\ p + 1 = top - k /\ k + 1 \in 0..n
      BY <1>1
    <2>2. IsColumn(sw, t, p + 1, f[p + 1])
      BY <1>5, <2>1
    <2> HIDE DEF p
    <2>3. f[p] = Advance(sw, t, p, f[p + 1])
      BY <1>1, <1>3, <2>1
    <2>4. IsColumn(sw, t, p, f[p])
      BY <2>1, <2>2, <2>3, AdvanceIsColumn DEF top
    <2> QED BY <2>1, <2>4 DEF p
  <1> HIDE DEF T
  <1>6. \A k \in 0..n : k \in T
    BY <1>2, <1>4, <1>5, CountedUpTo
  <1>7. ASSUME NEW p \in low..top PROVE IsColumn(sw, t, p, f[p])
    <2>1. top - p \in 0..n /\ top - (top - p) = p
      BY <1>1
    <2>2. top - p \in T
      BY <1>6, <2>1
    <2> QED BY <2>1, <2>2 DEF T
  <1> QED BY <1>7 DEF top

\* A row of such a column: for each pattern an end at or after the position, or none.
LEMMA RowIsTyped ==
    ASSUME NEW sw, NEW ids, IsSweep(sw, ids), NEW t, NEW p, NEW c, IsColumn(sw, t, p, c)
    PROVE  /\ DOMAIN RowAt(sw, t, p, c) = DOMAIN sw.ids
           /\ \A k \in DOMAIN sw.ids : \/ RowAt(sw, t, p, c)[k] = NoMatch
                                       \/ RowAt(sw, t, p, c)[k] \in p..LenOf(t)
  <1> DEFINE s == Entry([table |-> sw.table, text |-> t], p)
  <1>1. s \in DOMAIN sw.table.mid
    BY DEF Entry, IsSweep, IsTable
  <1>2. RowAt(sw, t, p, c) = [k \in DOMAIN sw.ids |-> c[k][sw.cellOf[k][s]]]
    BY DEF RowAt
  <1> HIDE DEF s
  <1>3. \A k \in DOMAIN sw.ids : sw.cellOf[k][s] \in Range(sw.cellOf[k])
    BY <1>1, CellsAreStates
  <1> QED BY <1>2, <1>3 DEF IsColumn
-----------------------------------------------------------------------------
(* Blocks. *)

LEMMA Times ==
    ASSUME NEW x \in Int, NEW y \in Int, NEW k \in Nat, x <= y
    PROVE  x * k \in Int /\ y * k \in Int /\ x * k <= y * k
  <1>1. (y - x) * k \in Nat
    <2>1. y - x \in Nat
      OBVIOUS
    <2> QED BY <2>1, Product
  <1>2. y * k = x * k + (y - x) * k
    OBVIOUS
  <1>3. x * k \in Int /\ y * k \in Int
    OBVIOUS
  <1> DEFINE a == x * k   b == y * k   c == (y - x) * k
  <1> HIDE DEF a, b, c
  <1>4. c \in Nat /\ b = a + c /\ a \in Int /\ b \in Int
    BY <1>1, <1>2, <1>3 DEF a, b, c
  <1>5. a <= b
    BY <1>4
  <1> QED BY <1>4, <1>5 DEF a, b

LEMMA BlockBounds ==
    ASSUME NEW m \in Nat \ {0}, NEW k \in Nat \ {0}
    PROVE  LET nb == BlockCount(m, k)
           IN  nb \in Nat \ {0} /\ m <= nb * k /\ (nb - 1) * k < m
  <1> DEFINE sum == m + k - 1
             q == sum \div k
             r == sum % k
             a == q * k
             b == (q - 1) * k
  <1>1. q \in Nat \ {0} /\ q = BlockCount(m, k)
    BY SomeBlock DEF BlockCount
  <1>2. sum = k * q + r /\ r \in 0..(k - 1) /\ sum \in Nat
    OBVIOUS
  <1> HIDE DEF q, r
  <1>3. k * q = q * k /\ (q - 1) * k = q * k - k /\ q * k \in Int
    BY <1>1
  <1>4. sum = a + r /\ b = a - k /\ a \in Int
    BY <1>2, <1>3
  <1> HIDE DEF a, b
  <1>5. m <= a /\ b < m
    BY <1>2, <1>4
  <1> QED BY <1>1, <1>5 DEF a, b

\* A block that is one begins in the span; a position of the span is in one.
LEMMA BlockBegins ==
    ASSUME NEW m \in Nat \ {0}, NEW k \in Nat \ {0}, NEW j \in Nat, j < BlockCount(m, k)
    PROVE  j * k < m /\ j * k \in Nat
  <1> DEFINE nb == BlockCount(m, k)
  <1>1. nb \in Nat \ {0} /\ (nb - 1) * k < m
    BY BlockBounds
  <1> HIDE DEF nb
  <1>2. j <= nb - 1 /\ nb - 1 \in Int
    BY <1>1 DEF nb
  <1>3. j * k <= (nb - 1) * k /\ (nb - 1) * k \in Int
    BY <1>2, Times
  <1>4. j * k \in Nat
    BY Product
  <1> DEFINE a == j * k  b == (nb - 1) * k
  <1> HIDE DEF a, b
  <1>5. a <= b /\ b < m /\ a \in Nat /\ b \in Int
    BY <1>1, <1>3, <1>4 DEF a, b
  <1>6. a < m
    BY <1>5
  <1> QED BY <1>4, <1>6 DEF a

LEMMA Quotient ==
    ASSUME NEW x \in Nat, NEW k \in Nat \ {0}
    PROVE  LET q == x \div k
           IN  q \in Nat /\ q * k <= x /\ x < (q + 1) * k
  <1> DEFINE q == x \div k
             r == x % k
             a == q * k
             b == (q + 1) * k
  <1>1. x = k * q + r /\ r \in 0..(k - 1) /\ q \in Int
    OBVIOUS
  <1>2. q \in Nat
    OBVIOUS
  <1> HIDE DEF q, r
  <1>3. k * q = q * k /\ (q + 1) * k = q * k + k /\ q * k \in Int
    BY <1>1
  <1>4. x = a + r /\ b = a + k /\ a \in Int
    BY <1>1, <1>3
  <1> HIDE DEF a, b
  <1>5. a <= x /\ x < b
    BY <1>1, <1>4
  <1> QED BY <1>2, <1>5 DEF a, b, q

LEMMA BlockOf ==
    ASSUME NEW m \in Nat \ {0}, NEW k \in Nat \ {0}, NEW x \in Nat, x < m
    PROVE  x \div k \in Nat /\ x \div k < BlockCount(m, k)
  <1> DEFINE nb == BlockCount(m, k)
             q == x \div k
             a == nb * k
             b == q * k
  <1>1. nb \in Nat \ {0} /\ m <= a
    BY BlockBounds
  <1>2. q \in Nat /\ b <= x
    BY Quotient
  <1> HIDE DEF nb, q
  <1>3. CASE nb <= q
    <2>1. a <= b /\ a \in Int /\ b \in Int
      BY <1>1, <1>2, <1>3, Times
    <2> HIDE DEF a, b
    <2> QED BY <1>1, <1>2, <2>1
  <1>4. CASE q < nb
    BY <1>2, <1>4 DEF q, nb
  <1> QED BY <1>1, <1>2, <1>3, <1>4
-----------------------------------------------------------------------------
(* What the region holds. *)

FullFrom(low) == Columns(S, text, low, L, EOFColumn(S, text))

\* A region that was swept holds every stride-th of the columns from its floor
\* to the text's end, counts of the answers below them, and a block's rows.
Stored(c) ==
    /\ \A j \in 1..c.nb : c.ckpts[j] = FullFrom(c.floor)[Min({c.floor + j * c.stride, L})]
    /\ \A j \in 0..c.nb :
          c.cum[j] = Cardinality(HitsOver(S, text, FullFrom(c.floor),
                                          c.floor..Min({c.floor + j * c.stride - 1, L})))
    /\ \A p \in c.base..BlockHigh(text, c, c.cur - 1) :
          c.rows[p - c.base] = RowAt(S, text, p, FullFrom(c.floor)[p])
ContentInv ==
    /\ Live /\ cache.floor <= L => Stored(cache)
    /\ look # NoBlock => pc = "host" /\ look \in 0..cache.nb /\ host.from <= L

SweepFacts == Setting /\ Swept => IsSweep(S, Ids)

LEMMA SweepIsSweep == SweepFacts
  BY CachedAssumption DEF SweepFacts, Setting, Swept, S

LEMMA RowsAre ==
    ASSUME NEW sw, NEW t, NEW low \in Int, NEW high \in Int, NEW f, NEW rows,
           NEW p \in low..high
    PROVE  RowsOf(sw, t, low, high, f, rows)[p - low] = RowAt(sw, t, p, f[p])
  <1>1. p - low \in 0..(high - low) /\ low + (p - low) = p
    OBVIOUS
  <1> DEFINE r == p - low
  <1> HIDE DEF r
  <1>2. r \in 0..(high - low) /\ low + r = p
    BY <1>1 DEF r
  <1>3. RowsOf(sw, t, low, high, f, rows)[r] = RowAt(sw, t, low + r, f[low + r])
    BY <1>2 DEF RowsOf
  <1> QED BY <1>2, <1>3 DEF r

\* What the pass writes, over the columns `full' of the positions to n.
Written(sw, t, from, stride, nb, c, full, n, d) ==
    /\ d.stride = stride /\ d.nb = nb /\ d.floor = from /\ d.base = from /\ d.cur = 1
    /\ \A j \in 1..nb : d.ckpts[j] = full[Min({from + j * stride, n})]
    /\ \A j \in 0..nb : d.cum[j] = Cardinality(HitsOver(sw, t, full,
                                          from..Min({from + j * stride - 1, n})))
    /\ d.rows = RowsOf(sw, t, from, Min({from + stride - 1, n}), full, c.rows)

LEMMA PassOverIs ==
    ASSUME NEW sw, NEW t, NEW from, NEW stride, NEW nb, NEW c, NEW full, NEW n, n = LenOf(t),
           full = Columns(sw, t, from, n, EOFColumn(sw, t)), DOMAIN c = Fields, NEW d,
           d = PassOver(sw, t, from, stride, nb, c)
    PROVE  Written(sw, t, from, stride, nb, c, full, n, d)
  <1> DEFINE ckpts == [j \in 1..nb |-> full[Min({from + j * stride, n})]]
             cum == [j \in 0..nb |-> Cardinality(HitsOver(sw, t, full,
                                        from..Min({from + j * stride - 1, n})))]
             rows == RowsOf(sw, t, from, Min({from + stride - 1, n}), full, c.rows)
  <1>1. d = [c EXCEPT !.stride = stride, !.nb = nb, !.floor = from, !.base = from, !.cur = 1,
                      !.ckpts = ckpts, !.cum = cum, !.rows = rows, !.ready = 1]
    BY DEF PassOver
  <1>2. {"stride", "nb", "floor", "base", "cur", "ckpts", "cum", "rows", "ready"} \subseteq DOMAIN c
    BY DEF Fields, Unoffered
  <1>3. /\ d.stride = stride /\ d.nb = nb /\ d.floor = from /\ d.base = from /\ d.cur = 1
        /\ d.ckpts = ckpts /\ d.cum = cum /\ d.rows = rows
    <2> HIDE DEF ckpts, cum, rows
    <2> QED BY <1>1, <1>2
  <1> QED BY <1>3 DEF Written

\* The pass leaves a region that holds what it should.
LEMMA PassHolds ==
    ASSUME Setting, Swept, Ranged, IsRegion(cache), cache.ready = 0
    PROVE  LET c == Pass(S, text, host.from, cache)
           IN  c.ready = 1 /\ c.floor <= L => Stored(c)
  <1> DEFINE from == host.from
             m == L - from + 1
             stride == Min({cache.stride, m})
             nb == BlockCount(m, stride)
             c == Pass(S, text, from, cache)
  <1> SUFFICES ASSUME c.ready = 1, c.floor <= L PROVE Stored(c)
    OBVIOUS
  <1>1. L = LenOf(text) /\ L \in Nat /\ from \in 0..(L + 1)
    BY SettingFacts DEF L, Ranged
  <1>2. /\ DOMAIN cache = Fields /\ cache.stride \in Nat \ {0}
        /\ {"size", "stride", "ready", "floor", "nb", "cur", "base", "ckpts", "cum", "rows"}
               \subseteq Fields
    BY DEF IsRegion, Fields, Unoffered
  <1>3. c = PassOver(S, text, from, stride, nb, cache) /\ from <= L
    <2>1. CASE cache.size < HeaderBytes
      BY <1>2, <2>1 DEF Pass, Refused
    <2>2. CASE ~(cache.size < HeaderBytes) /\ from > L
      <3>1. CASE RegionBytes(S, 1, 1) > cache.size
        BY <1>1, <1>2, <2>2, <3>1 DEF Pass, Refused
      <3>2. CASE ~(RegionBytes(S, 1, 1) > cache.size)
        <4>1. c = PassPastEnd(S, text, cache)
          BY <1>1, <2>2, <3>2 DEF Pass
        <4>2. c.floor = L + 1
          BY <1>1, <1>2, <4>1 DEF PassPastEnd
        <4> QED BY <1>1, <4>2
      <3> QED BY <3>1, <3>2
    <2>3. CASE ~(cache.size < HeaderBytes) /\ ~(from > L)
      <3>1. CASE RegionBytes(S, nb, stride) > cache.size
        <4>1. c = [[cache EXCEPT !.stride = stride] EXCEPT !.ready = -1]
          BY <1>1, <2>3, <3>1 DEF Pass, Refused
        <4> HIDE DEF stride
        <4>2. c.ready = -1
          BY <1>2, <4>1
        <4> QED BY <4>2
      <3>2. CASE ~(RegionBytes(S, nb, stride) > cache.size)
        <4>1. c = PassOver(S, text, from, stride, nb, cache)
          BY <1>1, <2>3, <3>2 DEF Pass
        <4>2. from <= L
          BY <1>1, <2>3
        <4> QED BY <4>1, <4>2
      <3> QED BY <3>1, <3>2
    <2> QED BY <2>1, <2>2, <2>3
  <1>4. m \in Nat \ {0}
    BY <1>1, <1>3
  <1>5. stride \in Nat \ {0}
    <2>1. stride = IF cache.stride <= m THEN cache.stride ELSE m
      BY <1>2, <1>4, MinOfTwo
    <2> QED BY <1>2, <1>4, <2>1
  <1> DEFINE full == FullFrom(from)
             top == Min({from + stride - 1, L})
  <1>6. /\ c.stride = stride /\ c.nb = nb /\ c.floor = from /\ c.base = from /\ c.cur = 1
        /\ \A j \in 1..nb : c.ckpts[j] = full[Min({from + j * stride, L})]
        /\ \A j \in 0..nb : c.cum[j] = Cardinality(HitsOver(S, text, full,
                                              from..Min({from + j * stride - 1, L})))
        /\ c.rows = RowsOf(S, text, from, top, full, cache.rows)
    <2>1. full = Columns(S, text, from, L, EOFColumn(S, text))
      BY DEF FullFrom
    <2> HIDE DEF full, stride, nb, c
    <2>2. Written(S, text, from, stride, nb, cache, full, L, c)
      BY <1>1, <1>2, <1>3, <2>1, PassOverIs
    <2> QED BY <2>2 DEF Written
  <1> HIDE DEF c
  <1>7. c.floor = from /\ FullFrom(c.floor) = full
    BY <1>6
  <1> HIDE DEF full, stride, nb
  <1>8. \A j \in 1..c.nb : c.ckpts[j] = full[Min({c.floor + j * c.stride, L})]
    BY <1>6
  <1>9. \A j \in 0..c.nb : c.cum[j] = Cardinality(HitsOver(S, text, full,
                                       c.floor..Min({c.floor + j * c.stride - 1, L})))
    BY <1>6
  <1>10. ASSUME NEW p \in c.base..BlockHigh(text, c, c.cur - 1)
         PROVE  c.rows[p - c.base] = RowAt(S, text, p, full[p])
    <2>1. top \in Int
      <3>1. from + stride - 1 \in Int
        BY <1>1, <1>5
      <3> QED BY <1>1, <3>1, MinOfTwo
    <2>2. BlockHigh(text, c, c.cur - 1) = top
      <3>1. BlockLow(c, c.cur - 1) = from + 0 * stride
        BY <1>6 DEF BlockLow
      <3>2. from + 0 * stride + stride - 1 = from + stride - 1
        BY <1>1, <1>5
      <3> QED BY <1>1, <1>6, <3>1, <3>2 DEF BlockHigh
    <2> HIDE DEF top
    <2>3. p \in from..top
      BY <1>6, <2>2
    <2>4. RowsOf(S, text, from, top, full, cache.rows)[p - from] = RowAt(S, text, p, full[p])
      <3>1. from \in Int
        BY <1>1
      <3>2. PICK w, t, rs, low, f : w = S /\ t = text /\ rs = cache.rows /\ low = from /\ f = full
        OBVIOUS
      <3>3. low \in Int /\ p \in low..top
        BY <2>3, <3>1, <3>2
      <3>4. RowsOf(w, t, low, top, f, rs)[p - low] = RowAt(w, t, p, f[p])
        BY <2>1, <3>3, RowsAre
      <3> QED BY <3>2, <3>4
    <2> QED BY <1>6, <2>4
  <1> QED BY <1>7, <1>8, <1>9, <1>10 DEF Stored

\* A live region of a text that is not past: its blocks lie in the text.
LEMMA RegionFacts ==
    ASSUME Setting, IsRegion(cache), Live, NEW from, Sound(cache, from), cache.floor <= L
    PROVE  /\ L \in Nat /\ cache.floor \in 0..L /\ cache.stride \in Nat \ {0}
           /\ cache.nb = BlockCount(L + 1 - cache.floor, cache.stride)
           /\ cache.nb \in Nat \ {0} /\ L + 1 - cache.floor \in Nat \ {0}
           /\ DOMAIN cache = Fields
  <1>1. L \in Nat /\ L = LenOf(text)
    BY SettingFacts DEF L
  <1>2. cache.floor \in 0..L /\ cache.stride \in Nat \ {0} /\ DOMAIN cache = Fields
    BY <1>1 DEF IsRegion, Live, Sound
  <1>3. cache.nb = BlockCount(L + 1 - cache.floor, cache.stride)
    BY <1>1, <1>2 DEF Sound
  <1>4. L + 1 - cache.floor \in Nat \ {0}
    BY <1>1, <1>2
  <1>5. cache.nb \in Nat \ {0}
    BY <1>2, <1>3, <1>4, BlockBounds
  <1> QED BY <1>1, <1>2, <1>3, <1>4, <1>5

LEMMA BlockSpan ==
    ASSUME Setting, IsRegion(cache), Live, NEW from, Sound(cache, from), cache.floor <= L,
           NEW j \in Nat, j < cache.nb
    PROVE  LET low == BlockLow(cache, j)
               high == BlockHigh(text, cache, j)
           IN  /\ low \in cache.floor..L /\ high \in low..L
               /\ high = IF low + cache.stride <= L THEN low + cache.stride - 1 ELSE L
               /\ Min({high + 1, L}) = Min({cache.floor + (j + 1) * cache.stride, L})
               /\ Min({high + 1, L}) \in high..L
               /\ low = cache.floor + j * cache.stride
               /\ low + cache.stride = cache.floor + (j + 1) * cache.stride
  <1> DEFINE k == cache.stride
             f == cache.floor
             m == L + 1 - f
             a == j * k
             b == (j + 1) * k
             low == BlockLow(cache, j)
             high == BlockHigh(text, cache, j)
  <1>1. L \in Nat /\ f \in 0..L /\ k \in Nat \ {0} /\ m \in Nat \ {0}
        /\ cache.nb = BlockCount(m, k)
    BY RegionFacts
  <1>2. a \in Nat /\ a < m
    BY <1>1, BlockBegins
  <1>3. b = a + k
    BY <1>1
  <1>4. low = f + a
    BY DEF BlockLow
  <1> HIDE DEF a, b, low, k, f
  <1>5. low \in f..L /\ low + k = f + b /\ low + k - 1 \in Int /\ b \in Int
    BY <1>1, <1>2, <1>3, <1>4
  <1>6. high = IF low + k - 1 <= L THEN low + k - 1 ELSE L
    <2>1. high = Min({low + k - 1, L})
      BY DEF BlockHigh, low, k, L
    <2> HIDE DEF high
    <2> QED BY <1>1, <1>5, <2>1, MinOfTwo
  <1> HIDE DEF high
  <1>7. high \in low..L /\ high = IF low + k <= L THEN low + k - 1 ELSE L
    BY <1>1, <1>5, <1>6
  <1>8. Min({high + 1, L}) = IF high + 1 <= L THEN high + 1 ELSE L
    <2>1. high + 1 \in Int
      BY <1>1, <1>5, <1>7
    <2> QED BY <1>1, <2>1, MinOfTwo
  <1>9. Min({f + b, L}) = IF f + b <= L THEN f + b ELSE L
    <2>1. f + b \in Int
      BY <1>1, <1>5
    <2> QED BY <1>1, <2>1, MinOfTwo
  <1>10. Min({high + 1, L}) = Min({f + b, L}) /\ Min({high + 1, L}) \in high..L
    <2>1. PICK x, y : x = Min({high + 1, L}) /\ y = Min({f + b, L})
      OBVIOUS
    <2>2. x = y /\ x \in high..L
      BY <1>1, <1>5, <1>7, <1>8, <1>9, <2>1
    <2> QED BY <2>1, <2>2
  <1> QED BY <1>4, <1>5, <1>7, <1>10 DEF a, b, low, high, k, f

\* Any column a walk down from the text's end makes, for a region's floor.
LEMMA FullDescends ==
    ASSUME Setting, NEW low \in 0..L
    PROVE  Descent(S, text, low, L, EOFColumn(S, text), FullFrom(low))
  <1>1. L \in Nat
    BY SettingFacts DEF L
  <1>2. low \in Int /\ L \in Int /\ low <= L
    BY <1>1
  <1> QED BY <1>2, ColumnsDescend DEF FullFrom

LEMMA FullMeets ==
    ASSUME Setting, NEW f \in 0..L, NEW low \in f..L, NEW top \in low..L
    PROVE  \A p \in low..top :
               Columns(S, text, low, top, FullFrom(f)[top])[p] = FullFrom(f)[p]
  <1>1. L \in Nat
    BY SettingFacts DEF L
  <1>2. Descent(S, text, f, L, EOFColumn(S, text), FullFrom(f))
    BY FullDescends
  <1> DEFINE full == FullFrom(f)
             g == Columns(S, text, low, top, full[top])
  <1>3. Descent(S, text, low, top, full[top], g)
    <2>1. low \in Int /\ top \in Int /\ low <= top
      BY <1>1
    <2> HIDE DEF full
    <2> QED BY <2>1, ColumnsDescend
  <1>4. f \in Int /\ L \in Int
    BY <1>1
  <1> HIDE DEF full, g
  <1>5. \A p \in low..top : g[p] = full[p]
    <2>1. Descent(S, text, f, L, EOFColumn(S, text), full)
      BY <1>2 DEF full
    <2> QED BY <1>3, <1>4, <2>1, ColumnsMeet
  <1> QED BY <1>5 DEF full, g

\* A block made again holds what the pass left of it.
LEMMA BlockStored ==
    ASSUME Setting, IsRegion(cache), Live, NEW from, Sound(cache, from), cache.floor <= L,
           Stored(cache), NEW j \in Nat, j < cache.nb
    PROVE  Stored(Block(S, text, cache, j))
  <1> DEFINE c == cache
             low == BlockLow(c, j)
             high == BlockHigh(text, c, j)
             top == Min({high + 1, L})
             full == FullFrom(c.floor)
             columns == Columns(S, text, low, top, c.ckpts[j + 1])
             d == Block(S, text, c, j)
  <1> SUFFICES Stored(d)
    OBVIOUS
  <1>1. L \in Nat /\ c.floor \in 0..L /\ c.nb \in Nat \ {0} /\ DOMAIN c = Fields
    BY RegionFacts
  <1>2. low \in c.floor..L /\ high \in low..L /\ top \in high..L
        /\ top = Min({c.floor + (j + 1) * c.stride, L})
    BY BlockSpan
  <1>3. c.ckpts[j + 1] = full[top]
    <2>1. j + 1 \in 1..c.nb
      BY <1>1
    <2> QED BY <1>2, <2>1 DEF Stored
  <1>4. /\ d.cur = j + 1 /\ d.base = low /\ d.nb = c.nb /\ d.floor = c.floor
        /\ d.stride = c.stride /\ d.ckpts = c.ckpts /\ d.cum = c.cum
        /\ d.rows = RowsOf(S, text, low, high, columns, c.rows)
    <2>1. d = [c EXCEPT !.cur = j + 1, !.base = low,
                        !.rows = RowsOf(S, text, low, high, columns, c.rows)]
      BY DEF Block, L
    <2>2. {"cur", "base", "nb", "floor", "stride", "ckpts", "cum", "rows"} \subseteq DOMAIN c
      BY <1>1 DEF Fields, Unoffered
    <2> HIDE DEF low, high, columns, d
    <2> QED BY <2>1, <2>2
  <1> HIDE DEF d
  <1>5. \A p \in low..top : columns[p] = full[p]
    <2>1. \A p \in low..top : Columns(S, text, low, top, full[top])[p] = full[p]
      <3> HIDE DEF low, high, top
      <3>1. top \in low..L
        BY <1>1, <1>2
      <3> QED BY <1>1, <1>2, <3>1, FullMeets
    <2> QED BY <1>3, <2>1
  <1>6. BlockHigh(text, d, d.cur - 1) = high
    <2>1. j + 1 - 1 = j
      OBVIOUS
    <2> QED BY <1>4, <2>1 DEF BlockHigh, BlockLow
  <1> HIDE DEF low, high, top, columns, full
  <1>7. ASSUME NEW p \in low..high PROVE d.rows[p - low] = RowAt(S, text, p, full[p])
    <2>1. low \in Int /\ high \in Int /\ p \in low..top
      BY <1>1, <1>2
    <2>2. PICK w, t, f, rs : w = S /\ t = text /\ f = columns /\ rs = c.rows
      OBVIOUS
    <2>3. RowsOf(w, t, low, high, f, rs)[p - low] = RowAt(w, t, p, f[p])
      BY <2>1, RowsAre
    <2>4. columns[p] = full[p]
      BY <1>5, <2>1
    <2> QED BY <1>4, <2>2, <2>3, <2>4
  <1>8. FullFrom(d.floor) = full
    BY <1>4 DEF full
  <1>9. /\ \A i \in 1..d.nb : d.ckpts[i] = full[Min({d.floor + i * d.stride, L})]
        /\ \A i \in 0..d.nb : d.cum[i] = Cardinality(HitsOver(S, text, full,
                                    d.floor..Min({d.floor + i * d.stride - 1, L})))
    BY <1>4 DEF Stored, full
  <1>10. \A p \in d.base..BlockHigh(text, d, d.cur - 1) :
             d.rows[p - d.base] = RowAt(S, text, p, full[p])
    BY <1>4, <1>6, <1>7
  <1> QED BY <1>8, <1>9, <1>10 DEF Stored
-----------------------------------------------------------------------------
(* An answer from a row. *)

LEMMA FindRanged == FindInv => Ranged
  <1> SUFFICES ASSUME FindInv PROVE Ranged
    OBVIOUS
  <1>1. MaxCap + Cardinality(Ids) \in Nat
    BY SettingFacts DEF FindInv
  <1> QED BY <1>1 DEF FindInv, CallerInv, Ranged, L

\* What is looked at is the block of a position in the text.
LEMMA LookFacts ==
    ASSUME FindInv, HeaderInv, ContentInv, look # NoBlock
    PROVE  /\ Live /\ Sound(cache, host.from) /\ IsRegion(cache) /\ Swept
           /\ cache.floor <= L /\ Stored(cache) /\ look \in Nat /\ L \in Nat
           /\ host.from \in cache.floor..L /\ cache.floor \in 0..L
  <1>1. Live /\ look \in Nat /\ host.from <= L
    BY DEF HeaderInv, ContentInv
  <1>2. Sound(cache, host.from) /\ IsRegion(cache) /\ Swept
    BY <1>1 DEF HeaderInv, Live
  <1>3. L \in Nat /\ host.from \in 0..(L + 1) /\ L = LenOf(text)
    BY SettingFacts DEF FindInv, CallerInv, L
  <1>4. cache.floor \in Int /\ cache.floor <= host.from /\ 0 <= cache.floor
    BY <1>2, <1>3 DEF Sound
  <1>5. cache.floor <= L
    BY <1>1, <1>3, <1>4
  <1>6. Stored(cache)
    BY <1>1, <1>5 DEF ContentInv
  <1> QED BY <1>1, <1>2, <1>3, <1>4, <1>5, <1>6

\* A row of the block at hand that is one of the text's.
LEMMA RowFacts ==
    ASSUME FindInv, HeaderInv, ContentInv, look # NoBlock, look < cache.nb,
           cache.cur = look + 1, NEW r \in 0..(RowCount - 1)
    PROVE  /\ cache.base + r \in cache.base..BlockHigh(text, cache, look)
           /\ cache.base + r \in cache.floor..L
           /\ cache.rows[r] = RowAt(S, text, cache.base + r, FullFrom(cache.floor)[cache.base + r])
           /\ DOMAIN cache.rows[r] = DOMAIN S.ids
           /\ \A k \in DOMAIN S.ids : \/ cache.rows[r][k] = NoMatch
                                      \/ cache.rows[r][k] \in (cache.base + r)..L
  <1> DEFINE p == cache.base + r
             full == FullFrom(cache.floor)
             high == BlockHigh(text, cache, look)
  <1>1. /\ Live /\ Sound(cache, host.from) /\ IsRegion(cache) /\ Swept
        /\ cache.floor <= L /\ Stored(cache) /\ look \in Nat /\ L \in Nat
        /\ cache.floor \in 0..L /\ Setting
    BY LookFacts DEF FindInv
  <1>2. /\ cache.base = BlockLow(cache, look) /\ cache.cur - 1 = look
    <2>1. look + 1 - 1 = look
      BY <1>1
    <2> QED BY <1>1, <2>1 DEF Sound
  <1>3. /\ cache.base \in cache.floor..L /\ high \in cache.base..L
        /\ high = IF cache.base + cache.stride <= L THEN cache.base + cache.stride - 1 ELSE L
    BY <1>1, <1>2, BlockSpan
  <1>4. cache.stride \in Nat \ {0}
    BY <1>1, RegionFacts
  <1>5. RowCount = IF cache.stride <= L - cache.base + 1 THEN cache.stride ELSE L - cache.base + 1
    <2>1. L - cache.base + 1 \in Int /\ cache.stride \in Int
      BY <1>1, <1>3, <1>4
    <2>2. RowCount = Min({cache.stride, L - cache.base + 1})
      BY DEF RowCount, L
    <2> QED BY <2>1, <2>2, MinOfTwo
  <1>6. p \in cache.base..high /\ p \in cache.floor..L /\ p - cache.base = r
    BY <1>1, <1>3, <1>4, <1>5
  <1>7. cache.rows[r] = RowAt(S, text, p, full[p])
    BY <1>1, <1>2, <1>6 DEF Stored
  <1>8. IsColumn(S, text, p, full[p]) /\ IsSweep(S, Ids)
    <2>1. Descent(S, text, cache.floor, L, EOFColumn(S, text), full)
      BY <1>1, FullDescends
    <2>2. text.bytes \in Seq(Bytes) /\ L = LenOf(text)
      BY <1>1, SettingFacts DEF L
    <2>3. IsSweep(S, Ids)
      BY <1>1, SweepIsSweep DEF SweepFacts
    <2> HIDE DEF full
    <2>4. cache.floor \in Nat
      BY <1>1
    <2>5. \A q \in cache.floor..LenOf(text) : IsColumn(S, text, q, full[q])
      BY <1>1, <2>1, <2>2, <2>3, <2>4, ColumnsAreColumns
    <2> QED BY <1>6, <2>2, <2>3, <2>5
  <1> HIDE DEF p, full
  <1>9. /\ DOMAIN cache.rows[r] = DOMAIN S.ids
        /\ \A k \in DOMAIN S.ids : cache.rows[r][k] = NoMatch \/ cache.rows[r][k] \in p..L
    BY <1>7, <1>8, RowIsTyped DEF L
  <1> QED BY <1>6, <1>7, <1>9 DEF p, full

LEMMA HitsCounted ==
    ASSUME IsSweep(S, Ids), IsFiniteSet(Ids), NEW row, DOMAIN row = DOMAIN S.ids
    PROVE  /\ Hits(row) \in SUBSET DOMAIN S.ids /\ IsFiniteSet(Hits(row))
           /\ DOMAIN S.ids = 1..Len(S.ids) /\ Len(S.ids) \in Nat
           /\ Cardinality(Hits(row)) \in 0..Cardinality(Ids)
           /\ \A k \in DOMAIN S.ids : S.ids[k] \in Ids
  <1>1. Hits(row) \in SUBSET DOMAIN S.ids
    BY DEF Hits
  <1>2. S.ids \in Seq(Ids) /\ DOMAIN S.ids = 1..Len(S.ids) /\ Len(S.ids) \in Nat
    BY DEF IsSweep
  <1>3. IsFiniteSet(Hits(row)) /\ Cardinality(Hits(row)) <= Len(S.ids)
    <2>1. IsFiniteSet(1..Len(S.ids)) /\ Cardinality(1..Len(S.ids)) = Len(S.ids)
      BY <1>2, FS_Interval
    <2> QED BY <1>1, <1>2, <2>1, FS_Subset
  <1>4. Len(S.ids) <= Cardinality(Ids)
    <2>1. \A i, j \in 1..Len(S.ids) : S.ids[i] = S.ids[j] => i = j
      BY <1>2 DEF IsSweep
    <2> QED BY <1>2, <2>1, FiredOnce
  <1>5. Cardinality(Hits(row)) \in Nat /\ Cardinality(Ids) \in Nat
    BY <1>3, FS_CardinalityType
  <1>6. \A k \in DOMAIN S.ids : S.ids[k] \in Ids
    BY <1>2, ElementOfSeq
  <1> QED BY <1>1, <1>2, <1>3, <1>4, <1>5, <1>6

LEMMA RowTuplesTyped ==
    ASSUME FindInv, HeaderInv, ContentInv, look # NoBlock, look < cache.nb,
           cache.cur = look + 1, NEW r \in 0..(RowCount - 1)
    PROVE  /\ RowTuples(r) \in Seq(TuplesOf(text))
           /\ Len(RowTuples(r)) = Cardinality(Hits(cache.rows[r]))
           /\ Cardinality(Hits(cache.rows[r])) \in 0..Cardinality(Ids)
  <1> DEFINE row == cache.rows[r]
             hits == Hits(row)
             order == Ascending(hits)
             p == cache.base + r
             tuple(i) == [id |-> S.ids[order[i]], start |-> p, end |-> row[order[i]]]
  <1>1. /\ DOMAIN row = DOMAIN S.ids /\ p \in cache.floor..L
        /\ \A k \in DOMAIN S.ids : row[k] = NoMatch \/ row[k] \in p..L
    BY RowFacts
  <1>2. cache.floor \in 0..L /\ L \in Nat /\ IsSweep(S, Ids) /\ IsFiniteSet(Ids)
    BY LookFacts, SweepIsSweep, SettingFacts DEF SweepFacts, FindInv
  <1>3. /\ hits \in SUBSET DOMAIN S.ids /\ IsFiniteSet(hits)
        /\ DOMAIN S.ids = 1..Len(S.ids) /\ Len(S.ids) \in Nat
        /\ Cardinality(hits) \in 0..Cardinality(Ids)
        /\ \A k \in DOMAIN S.ids : S.ids[k] \in Ids
    <2> HIDE DEF row
    <2> QED BY <1>1, <1>2, HitsCounted
  <1>4. \A k \in hits : row[k] \in p..L
    BY <1>1, <1>3 DEF Hits
  <1> HIDE DEF row, hits, p
  <1>5. order \in [1..Cardinality(hits) -> hits]
    <2>1. hits \in SUBSET Nat
      BY <1>3
    <2> QED BY <1>3, <2>1, AscendingSorts
  <1>6. p \in 0..L
    BY <1>1, <1>2
  <1> HIDE DEF order
  <1>7. ASSUME NEW i \in 1..Cardinality(hits) PROVE tuple(i) \in TuplesOf(text)
    <2>1. order[i] \in hits
      BY <1>5
    <2>2. S.ids[order[i]] \in Ids /\ row[order[i]] \in p..L
      BY <1>3, <1>4, <2>1
    <2>3. row[order[i]] \in 0..L /\ p <= row[order[i]]
      BY <1>2, <1>6, <2>2
    <2> QED BY <1>6, <2>2, <2>3 DEF TuplesOf, L
  <1>8. RowTuples(r) = [i \in 1..Cardinality(hits) |-> tuple(i)]
    <2>1. DOMAIN order = 1..Cardinality(hits)
      BY <1>5
    <2> QED BY <2>1 DEF RowTuples, order, hits, row, p
  <1> HIDE DEF tuple
  <1>9. RowTuples(r) \in Seq(TuplesOf(text)) /\ Len(RowTuples(r)) = Cardinality(hits)
    <2>1. Cardinality(hits) \in Nat
      BY <1>3
    <2> QED BY <1>7, <1>8, <2>1
  <1> QED BY <1>3, <1>9 DEF hits, row
-----------------------------------------------------------------------------
(* The cached find keeps the walk's invariant. *)

LEMMA AnswersInv ==
    ASSUME FindInv, pc = "host", NEW total \in 0..Cardinality(Ids),
           NEW buf \in Seq(TuplesOf(text)), Len(buf) <= host.cap,
           total <= host.cap => Len(buf) >= total, Answers(total, buf)
    PROVE  FindInv'
  <1> USE DEF FindInv
  <1>1. /\ scan' = [NoScan EXCEPT !.total = total, !.buf = buf] /\ pc' = "answered"
        /\ UNCHANGED <<fixed, gate, host, out, status, walk, scratch>>
    BY DEF Answers
  <1>2. L' = L /\ text' = text /\ L \in Nat /\ host' = host /\ ScanType' = ScanType
    BY <1>1, SameSetting, SettingFacts DEF L, ScanType
  <1>3. Setting' /\ CallerInv'
    BY <1>1, SameSetting, SameCaller
  <1>4. scan' = [pos |-> 0, minStart |-> 0, total |-> total, todo |-> {}, buf |-> buf]
    BY <1>1 DEF NoScan
  <1>5. scan' \in ScanType
    <2>1. {} \in SUBSET [b : Nat, g : Nat]
      OBVIOUS
    <2> QED BY <1>2, <1>4, <2>1 DEF ScanType
  <1>6. ScanInv'
    <2>1. scan'.total = total /\ scan'.buf = buf /\ scan'.todo = {}
      BY <1>4
    <2> QED BY <1>1, <1>2, <1>5, <2>1 DEF ScanInv, Calling
  <1>7. walk' = NoWalk /\ pc' # "walk"
    BY <1>1 DEF WalkInv
  <1>8. MemoryInv'
    BY <1>1, MemoryKept DEF SparseNow
  <1> QED BY <1>3, <1>6, <1>7, <1>8, NoWalkInv

LEMMA BailsInv == ASSUME FindInv, Bails PROVE FindInv'
  <1> USE DEF FindInv
  <1>1. /\ pc = "walk" /\ pc' = "host" /\ scan' = NoScan /\ walk' = NoWalk
        /\ UNCHANGED <<fixed, gate, host, out, status>>
        /\ scratch' = IF B[Turn.b].wide
                      THEN [scratch EXCEPT ![Turn.b] =
                                SparseEnd(Call(Turn.b), walk, scratch[Turn.b]).scratch]
                      ELSE scratch
    BY DEF Bails, WalkOver
  <1>2. Setting' /\ CallerInv'
    BY <1>1, SameSetting, SameCaller
  <1>3. ScanInv' /\ WalkInv'
    BY <1>1, <1>2, AtHost
  <1>4. scan.todo # {} /\ Turn.b \in Buckets
    BY <1>1, TurnFacts DEF ScanInv
  <1>5. /\ \A b \in Buckets' : scratch'[b].seen = {}
        /\ scratch' = [b \in Buckets |-> Memory(scratch'[b])] /\ Buckets' = Buckets
    <2>0. Buckets' = Buckets
      BY <1>1, SameSetting
    <2>1. CASE ~B[Turn.b].wide
      <3>1. \A b \in Buckets : scratch[b].seen = {}
        BY <1>1, <2>1 DEF MemoryInv, ScratchClear
      <3> QED BY <1>1, <2>0, <2>1, <3>1 DEF MemoryInv
    <2>2. CASE B[Turn.b].wide
      <3> DEFINE m == SparseEnd(Call(Turn.b), walk, scratch[Turn.b]).scratch
      <3>1. m = Memory(m) /\ m.seen = {}
        <4>1. IsCall(Call(Turn.b)) /\ IsSparse(Call(Turn.b), walk, scratch[Turn.b])
          BY <1>1, <1>4, <2>2, CallIsCall DEF WalkInv, AtWalk
        <4> QED BY <4>1, SparseEndAnswers
      <3>2. scratch = [b \in Buckets |-> Memory(scratch[b])]
        BY DEF MemoryInv
      <3>3. \A b \in Buckets : b # Turn.b => scratch[b].seen = {}
        BY <1>1 DEF MemoryInv, ScratchClear
      <3>4. scratch' = [scratch EXCEPT ![Turn.b] = m]
        BY <1>1, <2>2
      <3> HIDE DEF m
      <3>5. /\ \A b \in Buckets : scratch'[b] = IF b = Turn.b THEN m ELSE scratch[b]
            /\ DOMAIN scratch' = Buckets /\ scratch' = [b \in Buckets |-> scratch'[b]]
        BY <1>4, <3>2, <3>4
      <3>6. \A b \in Buckets : scratch[b] = Memory(scratch[b])
        BY <3>2
      <3>7. \A b \in Buckets : scratch'[b] = Memory(scratch'[b])
        BY <3>1, <3>5, <3>6
      <3> QED BY <2>0, <3>1, <3>3, <3>5, <3>7
    <2> QED BY <2>1, <2>2
  <1>6. MemoryInv'
    BY <1>1, <1>5 DEF MemoryInv, ScratchClear, Memory
  <1> QED BY <1>2, <1>3, <1>6

LEMMA CachedFindStep ==
    ASSUME FindInv, HeaderInv, ContentInv, [CachedNext]_<<vars, cacheVars>>
    PROVE  FindInv'
  <1>1. CASE Sweeps \/ Locates \/ SkipsBlock \/ Materialises \/ BlockBarren
             \/ UNCHANGED <<vars, cacheVars>>
    <2>1. UNCHANGED vars
      BY <1>1 DEF Sweeps, Locates, SkipsBlock, Materialises, BlockBarren, NextBlock
    <2> QED BY <2>1, StutterInv
  <1>2. CASE WalksOn \/ WalkReturns \/ CallReturns \/ Walking \/ Retries
    <2>1. Next
      BY <1>2 DEF WalksOn, WalkReturns, CallReturns, Walking, Retries, Next
    <2> QED BY <2>1, FindInvStep
  <1>3. CASE Bails
    BY <1>3, BailsInv
  <1>4. CASE PastEnd \/ OutOfBlocks
    <2>1. Answers(0, << >>) /\ pc = "host"
      BY <1>4 DEF PastEnd, OutOfBlocks, Deciding, Looking, Idle
    <2>2. << >> \in Seq(TuplesOf(text)) /\ Len(<< >>) = 0 /\ 0 \in 0..Cardinality(Ids)
      BY SettingFacts DEF FindInv
    <2>3. host.cap \in Nat
      BY SettingFacts DEF FindInv, CallerInv
    <2>4. PICK n, b : n = 0 /\ b = << >>
      OBVIOUS
    <2>5. /\ n \in 0..Cardinality(Ids) /\ b \in Seq(TuplesOf(text)) /\ Len(b) <= host.cap
          /\ n <= host.cap => Len(b) >= n
      BY <2>2, <2>3, <2>4
    <2>6. Answers(n, b)
      BY <2>1, <2>4
    <2> QED BY <2>1, <2>5, <2>6, AnswersInv
  <1>5. CASE ServesRow
    <2> DEFINE r == Min(Matching)
               total == Cardinality(Hits(cache.rows[r]))
               buf == IF total <= host.cap THEN RowTuples(r) ELSE << >>
    <2>1. /\ Answers(total, buf) /\ pc = "host" /\ Matching # {} /\ look # NoBlock
          /\ look < cache.nb /\ cache.cur = look + 1
      BY <1>5 DEF ServesRow, AtBlock, Looking, Idle
    <2>2. r \in Matching /\ Matching \subseteq 0..(RowCount - 1)
      <3> DEFINE low == Max({host.from - cache.base, 0})
      <3>1. cache.base \in Int /\ host.from \in Int
        <4>1. Sound(cache, host.from) /\ IsRegion(cache) /\ Live /\ cache.floor <= L /\ look \in Nat
          BY <2>1, LookFacts
        <4>2. look + 1 - 1 = look /\ Setting
          BY <4>1 DEF FindInv
        <4>3. cache.base = BlockLow(cache, look) /\ BlockLow(cache, look) \in cache.floor..L
              /\ cache.floor \in 0..L /\ L \in Nat
          <5>1. cache.base = BlockLow(cache, look)
            BY <2>1, <4>1, <4>2 DEF Sound
          <5>2. BlockLow(cache, look) \in cache.floor..L
            BY <2>1, <4>1, <4>2, BlockSpan
          <5>3. cache.floor \in 0..L /\ L \in Nat
            BY <2>1, <4>1, <4>2, RegionFacts
          <5> QED BY <5>1, <5>2, <5>3
        <4> QED BY <4>3, FindRanged DEF Ranged
      <3>2. low \in Nat
        BY <3>1, MaxOfTwo
      <3> HIDE DEF low
      <3>3. Matching \subseteq Nat /\ Matching \subseteq 0..(RowCount - 1)
        BY <3>2 DEF Matching, low
      <3> QED BY <2>1, <3>3, MinIsLeast
    <2> HIDE DEF r
    <2>3. r \in 0..(RowCount - 1)
      BY <2>2
    <2>4. /\ RowTuples(r) \in Seq(TuplesOf(text)) /\ Len(RowTuples(r)) = total
          /\ total \in 0..Cardinality(Ids)
      BY <2>1, <2>3, RowTuplesTyped
    <2>5. host.cap \in Nat
      BY SettingFacts DEF FindInv, CallerInv
    <2> HIDE DEF total
    <2>6. /\ buf \in Seq(TuplesOf(text)) /\ Len(buf) <= host.cap
          /\ total <= host.cap => Len(buf) >= total
      <3>1. CASE total <= host.cap
        BY <2>4, <3>1
      <3>2. CASE ~(total <= host.cap)
        <4>1. buf = << >>
          BY <3>2
        <4>2. << >> \in Seq(TuplesOf(text)) /\ Len(<< >>) = 0
          OBVIOUS
        <4> QED BY <2>5, <3>2, <4>1, <4>2
      <3> QED BY <3>1, <3>2
    <2> HIDE DEF buf
    <2> QED BY <2>1, <2>4, <2>6, AnswersInv
  <1> QED BY <1>1, <1>2, <1>3, <1>4, <1>5 DEF CachedNext
-----------------------------------------------------------------------------
(* The content is kept. *)

LEMMA SameContent ==
    ASSUME set' = set, text' = text, cache' = cache, Stored(cache) PROVE Stored(cache)'
  BY DEF Stored, FullFrom, L, S, BlockHigh, BlockLow

LEMMA ContentSweeps == ASSUME FindInv, HeaderInv, ContentInv, Sweeps PROVE ContentInv'
  <1>1. /\ cache.ready = 0 /\ cache' = Pass(S, text, host.from, cache) /\ look' = NoBlock
        /\ set' = set /\ text' = text
    BY DEF Sweeps, Deciding, Due, vars
  <1>2. Ranged /\ Setting /\ Swept /\ IsRegion(cache)
    BY <1>1, FindRanged DEF HeaderInv, FindInv
  <1> DEFINE c == Pass(S, text, host.from, cache)
  <1>3. c.ready = 1 /\ c.floor <= L => Stored(c)
    BY <1>1, <1>2, PassHolds
  <1> HIDE DEF c
  <1>4. cache' = c
    BY <1>1 DEF c
  <1>5. Stored(c) => Stored(cache)'
    BY <1>1, <1>4 DEF Stored, FullFrom, L, S, BlockHigh, BlockLow
  <1> QED BY <1>1, <1>3, <1>4, <1>5 DEF ContentInv, Live, L

LEMMA ContentMade == ASSUME FindInv, HeaderInv, ContentInv, Materialises PROVE ContentInv'
  <1>1. /\ look # NoBlock /\ look < cache.nb /\ UNCHANGED <<vars, look>>
        /\ cache' = Block(S, text, cache, look)
    BY DEF Materialises, AtBlock, Looking, Made
  <1>2. /\ Live /\ Sound(cache, host.from) /\ IsRegion(cache) /\ Stored(cache) /\ look \in Nat
        /\ cache.floor <= L /\ Setting
    BY <1>1, LookFacts DEF FindInv
  <1> DEFINE c == Block(S, text, cache, look)
  <1>3. Stored(c)
    BY <1>1, <1>2, BlockStored
  <1>4. c.nb = cache.nb
    <2>1. "nb" \in DOMAIN cache
      BY <1>2 DEF IsRegion, Fields, Unoffered
    <2> QED BY <2>1 DEF Block
  <1> HIDE DEF c
  <1>5. cache' = c /\ set' = set /\ text' = text /\ host' = host /\ pc' = pc /\ look' = look
    BY <1>1 DEF c, vars
  <1>6. Stored(cache)'
    BY <1>3, <1>5 DEF Stored, FullFrom, L, S, BlockHigh, BlockLow
  <1> QED BY <1>1, <1>4, <1>5, <1>6 DEF ContentInv, L

LEMMA Located ==
    ASSUME FindInv, HeaderInv, ContentInv, Locates PROVE look' \in 0..cache.nb /\ host.from <= L
  <1>1. Live /\ host.from <= L /\ Setting
        /\ look' = Max({host.from - cache.floor, 0}) \div cache.stride
    BY DEF Locates, L, FindInv
  <1>2. Sound(cache, host.from) /\ IsRegion(cache)
    BY <1>1 DEF HeaderInv
  <1>3. cache.floor <= host.from /\ cache.floor \in Int /\ host.from \in Int /\ L \in Int
    BY <1>1, <1>2, SettingFacts, FindRanged DEF Sound, Ranged, L
  <1>4. cache.floor <= L
    BY <1>1, <1>3
  <1>5. /\ cache.nb = BlockCount(L + 1 - cache.floor, cache.stride) /\ cache.stride \in Nat \ {0}
        /\ L + 1 - cache.floor \in Nat \ {0} /\ cache.nb \in Nat
    BY <1>1, <1>2, <1>4, RegionFacts
  <1> DEFINE x == host.from - cache.floor
             m == L + 1 - cache.floor
  <1>6. x \in Nat /\ x < m
    BY <1>1, <1>3
  <1>7. Max({x, 0}) = x
    <2>1. x \in Int /\ x >= 0
      BY <1>6
    <2> HIDE DEF x
    <2> QED BY <2>1, MaxOfTwo
  <1> HIDE DEF x, m
  <1>8. look' = x \div cache.stride
    BY <1>1, <1>7 DEF x
  <1>9. x \div cache.stride \in Nat /\ x \div cache.stride < cache.nb
    <2>1. m \in Nat \ {0} /\ cache.nb = BlockCount(m, cache.stride)
      BY <1>5 DEF m
    <2> QED BY <1>5, <1>6, <2>1, BlockOf
  <1> QED BY <1>1, <1>5, <1>8, <1>9

LEMMA ContentInvInit == CachedInit => ContentInv
  <1> SUFFICES ASSUME CachedInit PROVE ContentInv
    OBVIOUS
  <1>1. look = NoBlock /\ \E offer \in Offers : cache = Brought(offer)
    BY DEF CachedInit
  <1>2. cache.ready # 1
    BY <1>1 DEF Brought, Unoffered, Zeroed
  <1> QED BY <1>1, <1>2 DEF ContentInv, Live

LEMMA ContentStep ==
    ASSUME FindInv, HeaderInv, ContentInv, [CachedNext]_<<vars, cacheVars>> PROVE ContentInv'
  <1>0. FindInv' /\ NoBlock \notin Nat
    BY CachedFindStep DEF NoBlock
  <1>1. CASE Sweeps
    BY <1>1, ContentSweeps
  <1>2. CASE Materialises
    BY <1>2, ContentMade
  <1>3. CASE Locates \/ SkipsBlock \/ BlockBarren \/ UNCHANGED <<vars, cacheVars>>
    <2>1. /\ set' = set /\ text' = text /\ host' = host /\ pc' = pc /\ cache' = cache
      BY <1>3 DEF Locates, SkipsBlock, BlockBarren, NextBlock, vars, cacheVars
    <2>2. look' # NoBlock => pc = "host" /\ look' \in 0..cache.nb /\ host.from <= L
      <3>1. CASE Locates
        BY <3>1, Located DEF Locates, Deciding, Idle
      <3>2. CASE SkipsBlock \/ BlockBarren
        <4>1. look # NoBlock /\ look < cache.nb /\ look' = look + 1
          BY <3>2 DEF SkipsBlock, BlockBarren, AtBlock, Looking, NextBlock
        <4>2. look \in Nat /\ pc = "host" /\ host.from <= L /\ cache.nb \in Nat
          <5>1. Live /\ Sound(cache, host.from) /\ IsRegion(cache) /\ cache.floor <= L /\ Setting
                /\ look \in Nat
            BY <4>1, LookFacts DEF FindInv
          <5> QED BY <4>1, <5>1, RegionFacts DEF ContentInv
        <4> QED BY <4>1, <4>2
      <3>3. CASE UNCHANGED <<vars, cacheVars>>
        BY <3>3 DEF cacheVars, ContentInv
      <3> QED BY <1>3, <3>1, <3>2, <3>3
    <2>3. Live' /\ (cache.floor <= L)' => Stored(cache)'
      BY <2>1, SameContent DEF ContentInv, Live, L
    <2> QED BY <2>1, <2>2, <2>3 DEF ContentInv, L
  <1>4. CASE WalksOn \/ WalkReturns \/ Bails \/ CallReturns \/ Walking \/ Retries
             \/ PastEnd \/ OutOfBlocks \/ ServesRow
    <2>1. set' = set /\ text' = text
      BY <1>4 DEF WalksOn, WalkReturns, Bails, CallReturns, Walking, Retries, Find, Visit,
           NextPosition, SkipGroup, EnterDense, EnterSparse, DenseWalks, DenseReturns,
           SparseWalks, SparseReturns, FindReturns, FindEnds, Overflows, Reports, Answered,
           PastEnd, OutOfBlocks, ServesRow, Answers, fixed
    <2>2. cache' = cache \/ (cache.ready = 0 /\ \E n : cache' = [cache EXCEPT !.work = n])
      BY <1>4 DEF WalksOn, WalkReturns, Bails, CallReturns, Walking, Retries, PastEnd,
           OutOfBlocks, ServesRow, Answers, cacheVars
    <2>3. look' = NoBlock
      <3>1. CASE PastEnd \/ OutOfBlocks \/ ServesRow
        BY <3>1 DEF PastEnd, OutOfBlocks, ServesRow, Answers
      <3>2. CASE WalksOn \/ WalkReturns \/ Bails \/ CallReturns \/ Walking \/ Retries
        <4>1. look' = look /\ (look # NoBlock => Live /\ pc = "host")
          BY <3>2 DEF WalksOn, WalkReturns, Bails, CallReturns, Walking, Retries, cacheVars,
             ContentInv, HeaderInv
        <4>2. pc # "host" \/ look = NoBlock
          BY <3>2 DEF WalksOn, Deciding, WalkReturns, Bails, WalkOver, CallReturns, Walking,
             Retries, Visit, Scanning, NextPosition, SkipGroup, AtGroup, EnterDense, EnterSparse,
             DenseWalks, DenseReturns, SparseWalks, SparseReturns, FindReturns, FindEnds,
             Overflows, Reports, Answered
        <4> QED BY <4>1, <4>2
      <3> QED BY <1>4, <3>1, <3>2
    <2>4. CASE cache' = cache
      <3>1. Live' /\ (cache.floor <= L)' => Stored(cache)'
        BY <2>1, <2>4, SameContent DEF ContentInv, Live, L
      <3> QED BY <2>3, <3>1 DEF ContentInv
    <2>5. CASE cache.ready = 0 /\ \E n : cache' = [cache EXCEPT !.work = n]
      <3>1. "ready" \in DOMAIN cache
        BY DEF HeaderInv, IsRegion, Fields, Unoffered
      <3>2. cache'.ready = 0
        BY <2>5, <3>1
      <3> QED BY <2>3, <3>2 DEF ContentInv, Live
    <2> QED BY <2>2, <2>4, <2>5
  <1> QED BY <1>1, <1>2, <1>3, <1>4 DEF CachedNext
-----------------------------------------------------------------------------
(* What the walks cost. *)

\* The meter: a call that bailed is answered by a sweep, and a call has a budget
\* only while none was made.
MeterType ==
    /\ cache.ready \in {-1, 0, 1} /\ cache.work \in Nat
    /\ meter \in [walkEnd : Nat, counter : Nat, budget : Int, dear : BOOLEAN]
    /\ DOMAIN spent = {"walked", "swept", "retries"}
    /\ spent.walked \in Nat /\ spent.retries \in Nat
    /\ meter.dear => pc = "host" /\ cache.ready = 0
    /\ Calling /\ meter.budget # NoBudget => cache.ready = 0
    /\ Calling /\ Swept /\ ~Counted => meter.walkEnd >= host.from

\* With the counter no byte is walked that is not charged, and no call outruns
\* its budget but the last.
WalkedInv ==
    Counted =>
        /\ Calling /\ cache.ready = 0 => /\ meter.budget = Threshold - cache.work
                                         /\ meter.counter <= meter.budget
        /\ cache.ready = 0 /\ ~meter.dear =>
              /\ spent.walked <= cache.work + (IF Calling THEN meter.counter ELSE 0)
              /\ spent.walked <= Threshold
        /\ cache.ready # -1 => spent.walked <= Threshold + L
MeterInv == MeterType /\ WalkedInv

LEMMA ThresholdIsNat == ASSUME Setting, Swept PROVE Threshold \in Nat
  <1>1. S.cells \in Nat /\ TriggerDiv \in Nat \ {0} /\ SetupBytes \in Nat /\ L \in Nat
    BY SweepIsSweep, SettingFacts, CachedAssumption DEF SweepFacts, IsSweep, L
  <1> DEFINE q == S.cells \div TriggerDiv
             u == Max({1, q})
             v == Max({1, S.cells})
  <1>2. q \in Int
    BY <1>1
  <1> HIDE DEF q
  <1>3. u \in Nat /\ v \in Nat
    <2>1. u = (IF 1 >= q THEN 1 ELSE q) /\ v = (IF 1 >= S.cells THEN 1 ELSE S.cells)
      BY <1>1, <1>2, MaxOfTwo
    <2> QED BY <1>1, <1>2, <2>1
  <1>4. Threshold = L * u + SetupBytes * v
    BY DEF Threshold, L, q
  <1> HIDE DEF u, v
  <1>5. L * u \in Nat /\ SetupBytes * v \in Nat
    BY <1>1, <1>3, Product
  <1> QED BY <1>4, <1>5

\* Where a walk has come to.
LEMMA WalkFacts ==
    ASSUME FindInv, pc = "walk"
    PROVE  /\ scan.pos \in Nat /\ walk.from \in Nat /\ walk.pos \in Nat /\ L \in Nat
           /\ scan.pos <= walk.from /\ walk.from <= walk.pos /\ walk.pos <= L
  <1>1. /\ scan.todo # {} /\ Turn.b \in Buckets
        /\ AfterLiteral \in scan.pos..L /\ scan.pos \in Nat /\ L \in Nat
    BY TurnFacts DEF FindInv, ScanInv
  <1>2. walk.from = AfterLiteral /\ Call(Turn.b).text = text
    BY <1>1, CallIsCall DEF FindInv, WalkInv, AtWalk
  <1>3. walk.from <= walk.pos /\ walk.pos \in 0..L
    <2>1. CASE B[Turn.b].wide
      BY <1>2, <2>1 DEF FindInv, WalkInv, AtWalk, IsSparse, SparseType, L
    <2>2. CASE ~B[Turn.b].wide
      BY <1>2, <2>2 DEF FindInv, WalkInv, AtWalk, IsDense, DenseType, L
    <2> QED BY <2>1, <2>2
  <1> QED BY <1>1, <1>2, <1>3

\* A walk is charged what it read.
LEMMA ChargeFacts ==
    ASSUME FindInv, MeterType, pc = "walk"
    PROVE  /\ WalkedTo \in Nat /\ Charge \in Nat /\ walk.pos - walk.from \in 0..L /\ L \in Nat
           /\ Counted => Charge >= meter.counter + (walk.pos - walk.from)
           /\ ~Counted => WalkedTo >= meter.walkEnd
  <1>1. /\ scan.pos \in Nat /\ walk.from \in Nat /\ walk.pos \in Nat /\ L \in Nat
        /\ scan.pos <= walk.from /\ walk.from <= walk.pos /\ walk.pos <= L
    BY WalkFacts
  <1>2. meter.walkEnd \in Nat /\ meter.counter \in Nat
    BY DEF MeterType
  <1>3. CASE Counted
    <2>1. WalkedTo = walk.pos
      BY <1>1, <1>3, MaxOfTwo DEF WalkedTo
    <2>2. Charge = meter.counter + walk.pos - scan.pos
      BY <1>3, <2>1 DEF Charge
    <2> QED BY <1>1, <1>2, <1>3, <2>1, <2>2
  <1>4. CASE ~Counted
    <2>1. WalkedTo = IF meter.walkEnd >= walk.pos THEN meter.walkEnd ELSE walk.pos
      BY <1>1, <1>2, <1>4, MaxOfTwo DEF WalkedTo
    <2>2. Charge = 0
      BY <1>4 DEF Charge
    <2> QED BY <1>1, <1>2, <1>4, <2>1, <2>2
  <1> QED BY <1>3, <1>4

\* What a step that leaves the set alone leaves of it.
LEMMA SameSweep ==
    ASSUME set' = set, text' = text
    PROVE  Swept' = Swept /\ Counted' = Counted /\ Threshold' = Threshold /\ L' = L /\ S' = S
  BY DEF Swept, Counted, Threshold, L, S

\* A step that moves neither the meter nor the header, nor into a call.
LEMMA MeterKept ==
    ASSUME MeterInv, set' = set, text' = text, cache'.ready = cache.ready,
           cache'.work = cache.work, meter' = meter,
           DOMAIN spent' = DOMAIN spent, spent'.walked = spent.walked, spent'.retries \in Nat,
           (Calling /\ Calling' /\ host' = host) \/ (~Calling /\ ~Calling'),
           meter.dear => pc' = "host"
    PROVE  MeterInv'
  <1>1. Swept' = Swept /\ Counted' = Counted /\ Threshold' = Threshold /\ L' = L
    BY SameSweep
  <1>2. (Calling' => host' = host) /\ (Calling' <=> Calling)
    OBVIOUS
  <1>3. MeterType'
    BY <1>1, <1>2 DEF MeterInv, MeterType
  <1>4. WalkedInv'
    BY <1>1, <1>2 DEF MeterInv, WalkedInv
  <1> QED BY <1>3, <1>4 DEF MeterInv
-----------------------------------------------------------------------------
(* The meter is kept. *)

LEMMA MeterInit == ASSUME CachedInit PROVE MeterInv
  <1>1. /\ Setting /\ pc = "host" /\ ~meter.dear
        /\ meter = [walkEnd |-> 0, counter |-> 0, budget |-> NoBudget, dear |-> FALSE]
        /\ spent = [walked |-> 0, swept |-> 0, retries |-> 0]
    BY DEF CachedInit, Init, Setting
  <1>2. ~Calling /\ L \in Nat
    BY <1>1, SettingFacts DEF Calling, L
  <1>3. cache.ready \in {-1, 0} /\ cache.work = 0
    <2>1. PICK offer \in Offers : cache = Brought(offer)
      BY DEF CachedInit
    <2> QED BY <2>1 DEF Brought, Zeroed, Unoffered
  <1>4. MeterType
    BY <1>1, <1>2, <1>3 DEF MeterType, NoBudget
  <1>5. WalkedInv
    <2>1. Counted => Threshold \in Nat
      BY <1>1, ThresholdIsNat DEF Counted
    <2> QED BY <1>1, <1>2, <1>3, <2>1 DEF WalkedInv
  <1> QED BY <1>4, <1>5 DEF MeterInv

\* A sweep that is refused is not tried again, and another leaves a live cache.
LEMMA PassReady ==
    ASSUME NEW sw, NEW t, NEW from, NEW c, DOMAIN c = Fields
    PROVE  Pass(sw, t, from, c).ready \in {-1, 1} /\ Pass(sw, t, from, c).work = c.work
  <1> DEFINE m == LenOf(t) - from + 1
             stride == Min({c.stride, m})
             nb == BlockCount(m, stride)
             d == Pass(sw, t, from, c)
  <1>1. {"size", "stride", "ready", "work", "floor", "nb", "cur", "base", "ckpts", "cum", "rows"}
            \subseteq DOMAIN c
    BY DEF Fields, Unoffered
  <1>2. \/ d = Refused(c) \/ d = PassPastEnd(sw, t, c) \/ d = Refused([c EXCEPT !.stride = stride])
        \/ d = PassOver(sw, t, from, stride, nb, c)
    BY DEF Pass
  <1> HIDE DEF stride, nb
  <1>3. CASE d = Refused(c)
    BY <1>1, <1>3 DEF Refused
  <1>4. CASE d = PassPastEnd(sw, t, c)
    BY <1>1, <1>4 DEF PassPastEnd
  <1>5. CASE d = Refused([c EXCEPT !.stride = stride])
    BY <1>1, <1>5 DEF Refused
  <1>6. CASE d = PassOver(sw, t, from, stride, nb, c)
    <2> HIDE DEF d
    <2>1. PICK ckpts, cum, rows :
            d = [c EXCEPT !.stride = stride, !.nb = nb, !.floor = from, !.base = from, !.cur = 1,
                          !.ckpts = ckpts, !.cum = cum, !.rows = rows, !.ready = 1]
      BY <1>6 DEF PassOver
    <2>2. d.ready = 1 /\ d.work = c.work
      BY <1>1, <2>1
    <2> QED BY <2>2 DEF d
  <1> QED BY <1>2, <1>3, <1>4, <1>5, <1>6

LEMMA MeterSweeps == ASSUME FindInv, HeaderInv, MeterInv, Sweeps PROVE MeterInv'
  <1>1. /\ cache.ready = 0 /\ cache' = Pass(S, text, host.from, cache) /\ pc' = pc /\ pc = "host"
        /\ set' = set /\ text' = text /\ meter' = [meter EXCEPT !.dear = FALSE]
        /\ \E n : spent' = [spent EXCEPT !.swept = n]
    BY DEF Sweeps, Deciding, Due, Idle, vars
  <1>2. cache'.ready \in {-1, 1} /\ cache'.work = cache.work
    BY <1>1, PassReady DEF HeaderInv, IsRegion
  <1>3. /\ DOMAIN spent' = {"walked", "swept", "retries"} /\ spent'.walked = spent.walked
        /\ spent'.retries \in Nat /\ meter'.dear = FALSE
        /\ meter' \in [walkEnd : Nat, counter : Nat, budget : Int, dear : BOOLEAN]
    BY <1>1 DEF MeterInv, MeterType
  <1>4. ~Calling' /\ Counted' = Counted /\ Threshold' = Threshold /\ L' = L
    BY <1>1, SameSweep DEF Calling
  <1>5. MeterType'
    BY <1>2, <1>3, <1>4 DEF MeterInv, MeterType
  <1>6. WalkedInv'
    BY <1>1, <1>2, <1>3, <1>4 DEF MeterInv, WalkedInv
  <1> QED BY <1>5, <1>6 DEF MeterInv

LEMMA MeterCalls == ASSUME FindInv, HeaderInv, MeterInv, WalksOn PROVE MeterInv'
  <1>1. /\ cache' = cache /\ spent' = spent /\ host' = host /\ pc' = "scan" /\ pc = "host"
        /\ set' = set /\ text' = text /\ cache.ready # 1 /\ ~Due /\ Setting
        /\ meter' = [walkEnd |-> IF Swept THEN host.from ELSE 0, counter |-> 0,
                     budget |-> Budget, dear |-> FALSE]
    BY DEF WalksOn, Find, fixed, Live, FindInv
  <1>2. Calling' /\ ~Calling
    BY <1>1 DEF Calling
  <1>3. Swept' = Swept /\ Counted' = Counted /\ Threshold' = Threshold /\ L' = L
    BY <1>1, SameSweep
  <1>4. host.from \in Nat
    BY SettingFacts DEF FindInv, CallerInv, L
  <1>5. cache.ready = 0 => cache.work <= Threshold /\ ~meter.dear
    <2>1. Swept => Threshold \in Nat
      BY <1>1, ThresholdIsNat
    <2> QED BY <1>1, <2>1 DEF Due, HeaderInv, MeterInv, MeterType
  <1>6. Swept => Threshold \in Nat
    BY <1>1, ThresholdIsNat
  <1>7. Budget \in Int /\ (Budget # NoBudget => cache.ready = 0)
    BY <1>6 DEF Budget, NoBudget, MeterInv, MeterType, Counted
  <1>8. MeterType'
    BY <1>1, <1>2, <1>3, <1>4, <1>7 DEF MeterInv, MeterType
  <1>9. WalkedInv'
    <2>1. CASE Counted
      <3>1. cache.ready = 0 => Budget = Threshold - cache.work /\ 0 <= Budget
        BY <1>5, <1>6, <2>1 DEF Budget, Counted, MeterInv, MeterType
      <3> QED BY <1>1, <1>2, <1>3, <1>5, <2>1, <3>1 DEF MeterInv, MeterType, WalkedInv
    <2>2. CASE ~Counted
      BY <1>3, <2>2 DEF WalkedInv
    <2> QED BY <2>1, <2>2
  <1> QED BY <1>8, <1>9 DEF MeterInv

LEMMA MeterReturns == ASSUME FindInv, HeaderInv, MeterInv, WalkReturns PROVE MeterInv'
  <1>1. /\ pc = "walk" /\ pc' = "group" /\ cache' = cache /\ host' = host
        /\ set' = set /\ text' = text /\ ~TooDear
        /\ meter' = IF Swept THEN [meter EXCEPT !.walkEnd = WalkedTo, !.counter = Charge,
                                                !.dear = FALSE] ELSE meter
        /\ spent' = IF Swept THEN [spent EXCEPT !.walked = @ + walk.pos - walk.from] ELSE spent
    BY DEF WalkReturns, DenseReturns, SparseReturns, Charged, fixed
  <1>2. Calling' /\ Calling
    BY <1>1 DEF Calling
  <1>3. Swept' = Swept /\ Counted' = Counted /\ Threshold' = Threshold /\ L' = L
    BY <1>1, SameSweep
  <1>4. /\ WalkedTo \in Nat /\ Charge \in Nat /\ walk.pos - walk.from \in 0..L /\ L \in Nat
        /\ Counted => Charge >= meter.counter + (walk.pos - walk.from)
        /\ ~Counted => WalkedTo >= meter.walkEnd
    BY <1>1, ChargeFacts DEF MeterInv
  <1> DEFINE d == walk.pos - walk.from
  <1>5. CASE ~Swept
    BY <1>1, <1>2, <1>3, <1>5 DEF MeterInv, MeterType, WalkedInv, Counted
  <1>6. CASE Swept
    <2>1. /\ meter' = [meter EXCEPT !.walkEnd = WalkedTo, !.counter = Charge, !.dear = FALSE]
          /\ spent' = [spent EXCEPT !.walked = @ + walk.pos - walk.from]
      BY <1>1, <1>6
    <2>2. /\ meter' \in [walkEnd : Nat, counter : Nat, budget : Int, dear : BOOLEAN]
          /\ meter'.walkEnd = WalkedTo /\ meter'.counter = Charge /\ ~meter'.dear
          /\ meter'.budget = meter.budget
      BY <1>4, <2>1 DEF MeterInv, MeterType
    <2>3. /\ DOMAIN spent' = {"walked", "swept", "retries"} /\ spent'.walked = spent.walked + d
          /\ spent'.retries = spent.retries
      <3>1. /\ DOMAIN spent' = {"walked", "swept", "retries"} /\ spent'.retries = spent.retries
            /\ spent'.walked = spent.walked + walk.pos - walk.from
        BY <2>1 DEF MeterInv, MeterType
      <3>2. walk.pos \in Nat /\ walk.from \in Nat /\ spent.walked \in Nat
        BY <1>1, WalkFacts DEF MeterInv, MeterType
      <3> QED BY <3>1, <3>2
    <2>4. d \in 0..L
      BY <1>4
    <2> HIDE DEF d
    <2>5. MeterType'
      <3>1. host.from \in Nat /\ spent.walked \in Nat /\ meter.walkEnd \in Nat
        BY SettingFacts DEF FindInv, CallerInv, L, MeterInv, MeterType
      <3>2. spent'.walked \in Nat
        BY <1>4, <2>3, <2>4, <3>1
      <3>3. ~Counted => meter'.walkEnd >= host'.from
        BY <1>1, <1>2, <1>4, <1>6, <2>2, <3>1 DEF MeterInv, MeterType
      <3>4. /\ cache.ready \in {-1, 0, 1} /\ cache.work \in Nat /\ spent.retries \in Nat
            /\ meter.budget # NoBudget => cache.ready = 0
        BY <1>2 DEF MeterInv, MeterType
      <3>5. cache' = cache
        BY <1>1
      <3> QED BY <1>3, <2>2, <2>3, <3>2, <3>3, <3>4, <3>5 DEF MeterType
    <2> SUFFICES WalkedInv'
      BY <2>5 DEF MeterInv
    <2>6. CASE Counted
      <3>1. meter.counter \in Nat /\ Charge >= meter.counter + d /\ cache.work \in Nat
            /\ spent.walked \in Nat /\ meter.budget \in Int /\ Threshold \in Nat
        BY <1>4, <1>6, <2>6, ThresholdIsNat DEF d, MeterInv, MeterType, FindInv
      <3>2. ~meter.dear /\ (meter.budget # NoBudget => Charge <= meter.budget)
        BY <1>1, <1>4, <2>6, <3>1 DEF TooDear, MeterInv, MeterType
      <3>3. cache.ready = 0 => /\ meter.budget = Threshold - cache.work
                               /\ meter.counter <= meter.budget
                               /\ spent.walked <= cache.work + meter.counter
        BY <1>2, <2>6, <3>2 DEF MeterInv, WalkedInv
      <3>4. cache.ready = 0 => /\ Charge <= meter.budget
                               /\ spent'.walked <= cache.work + Charge
                               /\ spent'.walked <= Threshold
        BY <1>4, <2>3, <2>4, <3>1, <3>2, <3>3 DEF NoBudget
      <3>5. cache.ready # 1
        BY <1>1 DEF HeaderInv, Live
      <3>6. cache.ready # -1 => cache.ready = 0
        BY <3>5 DEF MeterInv, MeterType
      <3>7. cache.ready = 0 => spent'.walked <= Threshold + L
        <4>1. spent'.walked \in Nat
          BY <1>4, <2>3, <2>4, <3>1
        <4> QED BY <1>4, <3>1, <3>4, <4>1
      <3>8. cache' = cache
        BY <1>1
      <3> QED BY <1>2, <1>3, <2>2, <2>6, <3>3, <3>4, <3>6, <3>7, <3>8 DEF WalkedInv
    <2>7. CASE ~Counted
      BY <1>3, <2>7 DEF WalkedInv
    <2> QED BY <2>6, <2>7
  <1> QED BY <1>5, <1>6

LEMMA MeterBails == ASSUME FindInv, HeaderInv, MeterInv, Bails PROVE MeterInv'
  <1>1. /\ pc = "walk" /\ pc' = "host" /\ cache' = cache
        /\ set' = set /\ text' = text /\ Counted /\ meter.budget # NoBudget /\ Swept
    BY DEF Bails, WalkOver, TooDear, Counted, fixed
  <1>2. ~Calling' /\ Calling
    BY <1>1 DEF Calling
  <1>3. Swept' = Swept /\ Counted' = Counted /\ Threshold' = Threshold /\ L' = L
    BY <1>1, SameSweep
  <1>4. /\ WalkedTo \in Nat /\ Charge \in Nat /\ walk.pos - walk.from \in 0..L /\ L \in Nat
    BY <1>1, ChargeFacts DEF MeterInv
  <1>5. cache.ready = 0 /\ ~meter.dear
    BY <1>1, <1>2 DEF MeterInv, MeterType
  <1> DEFINE d == walk.pos - walk.from
  <1>6. /\ meter' = [meter EXCEPT !.walkEnd = WalkedTo, !.counter = Charge, !.dear = TRUE]
        /\ spent' = [spent EXCEPT !.walked = @ + walk.pos - walk.from]
    BY <1>1 DEF Bails, Charged
  <1>7. /\ meter' \in [walkEnd : Nat, counter : Nat, budget : Int, dear : BOOLEAN]
        /\ meter'.dear = TRUE
    BY <1>4, <1>6 DEF MeterInv, MeterType
  <1>8. /\ DOMAIN spent' = {"walked", "swept", "retries"} /\ spent'.walked = spent.walked + d
        /\ spent'.retries = spent.retries
    <2>1. /\ DOMAIN spent' = {"walked", "swept", "retries"} /\ spent'.retries = spent.retries
          /\ spent'.walked = spent.walked + walk.pos - walk.from
      BY <1>6 DEF MeterInv, MeterType
    <2>2. walk.pos \in Nat /\ walk.from \in Nat /\ spent.walked \in Nat
      BY <1>1, WalkFacts DEF MeterInv, MeterType
    <2> QED BY <2>1, <2>2
  <1>9. d \in 0..L
    BY <1>4
  <1> HIDE DEF d
  <1>10. MeterType'
    BY <1>1, <1>2, <1>3, <1>4, <1>5, <1>7, <1>8, <1>9 DEF MeterInv, MeterType
  <1>11. WalkedInv'
    <2>1. spent.walked \in Nat /\ Threshold \in Nat
      BY <1>1, ThresholdIsNat DEF MeterInv, MeterType, FindInv
    <2>2. spent.walked <= Threshold
      BY <1>1, <1>5 DEF MeterInv, WalkedInv
    <2>3. spent'.walked <= Threshold + L
      BY <1>4, <1>8, <1>9, <2>1, <2>2
    <2> QED BY <1>2, <1>3, <1>7, <2>3 DEF WalkedInv
  <1> QED BY <1>10, <1>11 DEF MeterInv

LEMMA DeliveredIsNat == ASSUME FindInv PROVE Delivered \in Nat
  <1> DEFINE bytes == UNION {{i} \X (scan.buf[i].start..(scan.buf[i].end - 1)) : i \in 1..scan.total}
  <1>1. CASE scan.total \notin 1..host.cap
    BY <1>1 DEF Delivered
  <1>2. CASE scan.total \in 1..host.cap
    <2>1. /\ scan.buf \in Seq(TuplesOf(text)) /\ Len(scan.buf) >= scan.total /\ scan.total \in Nat
          /\ L \in Nat
      BY <1>2, SettingFacts DEF FindInv, ScanInv, ScanType, CallerInv, L
    <2>2. ASSUME NEW i \in 1..scan.total
          PROVE  scan.buf[i].start..(scan.buf[i].end - 1) \in SUBSET (0..L)
      <3>1. scan.buf[i] \in TuplesOf(text)
        BY <2>1
      <3>2. scan.buf[i].start \in 0..L /\ scan.buf[i].end \in 0..L
        BY <3>1 DEF TuplesOf, L
      <3> QED BY <2>1, <3>2
    <2>3. bytes \in SUBSET ((1..scan.total) \X (0..L))
      BY <2>2
    <2>4. IsFiniteSet(1..scan.total) /\ IsFiniteSet(0..L)
      BY <2>1, FS_Interval
    <2>5. IsFiniteSet((1..scan.total) \X (0..L))
      BY <2>4, FS_Product
    <2> HIDE DEF bytes
    <2>6. Cardinality(bytes) \in Nat
      BY <2>3, <2>5, FS_Subset, FS_CardinalityType
    <2>7. Delivered = Cardinality(bytes)
      BY <1>2 DEF Delivered, bytes
    <2> QED BY <2>6, <2>7
  <1> QED BY <1>1, <1>2

LEMMA MeterAnswered == ASSUME FindInv, HeaderInv, MeterInv, CallReturns PROVE MeterInv'
  <1>1. /\ pc = "scan" /\ pc' = "answered" /\ host' = host /\ meter' = meter /\ spent' = spent
        /\ set' = set /\ text' = text
        /\ cache' = IF cache.ready = 0 THEN [cache EXCEPT !.work = @ + Delivered + Extent] ELSE cache
    BY DEF CallReturns, FindReturns, fixed
  <1>2. ~Calling' /\ Calling /\ ~meter.dear
    BY <1>1 DEF Calling, MeterInv, MeterType
  <1>3. Swept' = Swept /\ Counted' = Counted /\ Threshold' = Threshold /\ L' = L
    BY <1>1, SameSweep
  <1>4. Delivered \in Nat /\ cache.work \in Nat /\ host.from \in Nat
        /\ meter.counter \in Nat /\ meter.walkEnd \in Nat
    BY DeliveredIsNat, SettingFacts DEF FindInv, CallerInv, L, MeterInv, MeterType
  <1>5. CASE cache.ready = 0
    <2>1. Swept
      BY <1>5 DEF HeaderInv
    <2>2. Extent \in Nat /\ (Counted => Extent = meter.counter)
      BY <1>2, <1>4, <2>1 DEF Extent, MeterInv, MeterType
    <2>3. /\ cache'.ready = 0 /\ cache'.work = cache.work + Delivered + Extent
      <3>1. "work" \in DOMAIN cache /\ "ready" \in DOMAIN cache
        BY DEF HeaderInv, IsRegion, Fields, Unoffered
      <3> QED BY <1>1, <1>5, <3>1
    <2>4. MeterType'
      BY <1>1, <1>2, <1>4, <1>5, <2>2, <2>3 DEF MeterInv, MeterType
    <2>5. WalkedInv'
      <3>1. CASE Counted
        <4>1. /\ spent.walked <= cache.work + meter.counter /\ spent.walked <= Threshold
              /\ spent.walked <= Threshold + L /\ spent.walked \in Nat
          BY <1>2, <1>5, <3>1 DEF WalkedInv, MeterInv, MeterType
        <4>2. spent.walked <= cache'.work
          BY <1>4, <2>2, <2>3, <3>1, <4>1
        <4>3. cache'.work + 0 = cache'.work
          BY <1>4, <2>2, <2>3
        <4> QED BY <1>1, <1>2, <1>3, <2>3, <3>1, <4>1, <4>2, <4>3 DEF WalkedInv
      <3>2. CASE ~Counted
        BY <1>3, <3>2 DEF WalkedInv
      <3> QED BY <3>1, <3>2
    <2> QED BY <2>4, <2>5 DEF MeterInv
  <1>6. CASE cache.ready # 0
    <2>1. cache' = cache
      BY <1>1, <1>6
    <2>2. MeterType'
      BY <1>1, <1>2, <2>1 DEF MeterInv, MeterType
    <2>3. WalkedInv'
      BY <1>1, <1>2, <1>3, <1>6, <2>1 DEF MeterInv, WalkedInv
    <2> QED BY <2>2, <2>3 DEF MeterInv
  <1> QED BY <1>5, <1>6

LEMMA MeterStep ==
    ASSUME FindInv, HeaderInv, MeterInv, [CachedNext]_<<vars, cacheVars>> PROVE MeterInv'
  <1>1. CASE Sweeps
    BY <1>1, MeterSweeps
  <1>2. CASE WalksOn
    BY <1>2, MeterCalls
  <1>3. CASE WalkReturns
    BY <1>3, MeterReturns
  <1>4. CASE Bails
    BY <1>4, MeterBails
  <1>5. CASE CallReturns
    BY <1>5, MeterAnswered
  <1>6. CASE Walking
    <2>1. /\ set' = set /\ text' = text /\ cache' = cache /\ meter' = meter /\ spent' = spent
          /\ \/ Visit \/ NextPosition \/ SkipGroup \/ EnterDense \/ EnterSparse
             \/ DenseWalks \/ SparseWalks \/ FindEnds \/ Reports
      BY <1>6 DEF Walking, cacheVars, Visit, NextPosition, SkipGroup, EnterDense, EnterSparse,
           DenseWalks, SparseWalks, FindEnds, Reports, Answered, fixed
    <2>2. /\ (Calling /\ Calling' /\ host' = host) \/ (~Calling /\ ~Calling')
          /\ pc # "host"
      BY <2>1 DEF Calling, Visit, Scanning, NextPosition, SkipGroup, AtGroup, EnterDense,
           EnterSparse, DenseWalks, SparseWalks, FindEnds, Reports, Answered
    <2> QED BY <2>1, <2>2, MeterKept DEF MeterInv, MeterType
  <1>7. CASE Retries
    <2>1. /\ set' = set /\ text' = text /\ cache' = cache /\ meter' = meter
          /\ spent' = (IF Live THEN [spent EXCEPT !.retries = @ + 1] ELSE spent)
          /\ pc = "answered" /\ pc' = "host"
      BY <1>7 DEF Retries, Overflows, Answered, fixed
    <2>2. /\ DOMAIN spent' = DOMAIN spent /\ spent'.walked = spent.walked
          /\ spent'.retries \in Nat
      BY <2>1 DEF MeterInv, MeterType
    <2>3. ~Calling /\ ~Calling' /\ ~meter.dear
      BY <2>1 DEF Calling, MeterInv, MeterType
    <2> QED BY <2>1, <2>2, <2>3, MeterKept
  <1>8. CASE PastEnd \/ OutOfBlocks \/ ServesRow
    <2>1. /\ set' = set /\ text' = text /\ cache' = cache /\ meter' = meter /\ spent' = spent
          /\ pc = "host" /\ pc' = "answered" /\ Live
      BY <1>8 DEF PastEnd, OutOfBlocks, ServesRow, Answers, Deciding, AtBlock, Looking, Idle,
           fixed, HeaderInv
    <2>2. ~Calling /\ ~Calling' /\ ~meter.dear
      BY <2>1 DEF Calling, Live, MeterInv, MeterType
    <2> QED BY <2>1, <2>2, MeterKept DEF MeterInv, MeterType
  <1>9. CASE Locates \/ SkipsBlock \/ Materialises \/ BlockBarren
             \/ UNCHANGED <<vars, cacheVars>>
    <2>1. /\ set' = set /\ text' = text /\ pc' = pc /\ host' = host /\ meter' = meter
          /\ spent' = spent \/ \E n : spent' = [spent EXCEPT !.swept = n]
      BY <1>9 DEF Locates, SkipsBlock, Materialises, BlockBarren, NextBlock, vars, cacheVars
    <2>2. cache'.ready = cache.ready /\ cache'.work = cache.work
      <3>1. CASE Materialises
        <4>1. PICK rows : cache' =
                [cache EXCEPT !.cur = look + 1, !.base = BlockLow(cache, look), !.rows = rows]
          BY <3>1 DEF Materialises, Made, Block
        <4>2. {"cur", "base", "rows", "ready", "work"} \subseteq DOMAIN cache
          BY DEF HeaderInv, IsRegion, Fields, Unoffered
        <4> QED BY <4>1, <4>2
      <3>2. CASE ~Materialises
        BY <1>9, <3>2 DEF Locates, SkipsBlock, BlockBarren, NextBlock, cacheVars
      <3> QED BY <3>1, <3>2
    <2>3. /\ DOMAIN spent' = DOMAIN spent /\ spent'.walked = spent.walked
          /\ spent'.retries = spent.retries
      BY <2>1 DEF MeterInv, MeterType
    <2>4. (Calling' <=> Calling) /\ (meter.dear => pc' = "host")
      BY <2>1 DEF Calling, MeterInv, MeterType
    <2> QED BY <2>1, <2>2, <2>3, <2>4, MeterKept DEF MeterInv, MeterType
  <1> QED BY <1>1, <1>2, <1>3, <1>4, <1>5, <1>6, <1>7, <1>8, <1>9 DEF CachedNext
-----------------------------------------------------------------------------
(* Where a position's block is, and what sweeping a block costs. *)

\* A product that is below the next one is not above.
LEMMA Before ==
    ASSUME NEW i \in Nat, NEW j \in Nat, NEW k \in Nat \ {0}, i * k < (j + 1) * k
    PROVE  i <= j
  <1>1. CASE j + 1 <= i
    <2> DEFINE a == (j + 1) * k   b == i * k
    <2>1. a <= b /\ a \in Int /\ b \in Int
      BY <1>1, Times
    <2>2. b < a
      OBVIOUS
    <2> HIDE DEF a, b
    <2> QED BY <2>1, <2>2
  <1> QED BY <1>1

\* The block a position is in is the only one, and later positions are in later
\* blocks.
LEMMA QuotientIs ==
    ASSUME NEW x \in Nat, NEW k \in Nat \ {0}, NEW j \in Nat, j * k <= x, x < (j + 1) * k
    PROVE  x \div k = j
  <1> DEFINE q == x \div k
             a == j * k
             b == (j + 1) * k
             c == q * k
             d == (q + 1) * k
  <1>1. q \in Nat /\ c <= x /\ x < d
    BY Quotient
  <1> HIDE DEF q
  <1>2. a \in Int /\ b \in Int /\ c \in Int /\ d \in Int
    BY <1>1
  <1>3. a < d /\ c < b
    <2>1. a <= x /\ x < b
      OBVIOUS
    <2> HIDE DEF a, b, c, d
    <2> QED BY <1>1, <1>2, <2>1
  <1>4. j <= q
    BY <1>1, <1>3, Before
  <1>5. q <= j
    BY <1>1, <1>3, Before
  <1> HIDE DEF a, b, c, d
  <1>6. q = j
    BY <1>1, <1>4, <1>5
  <1> QED BY <1>6 DEF q

LEMMA QuotientGrows ==
    ASSUME NEW x \in Nat, NEW y \in Nat, NEW k \in Nat \ {0}, x <= y
    PROVE  x \div k <= y \div k
  <1> DEFINE p == x \div k
             q == y \div k
             c == p * k
             d == (q + 1) * k
  <1>1. p \in Nat /\ q \in Nat /\ c <= x /\ y < d
    BY Quotient
  <1> HIDE DEF p, q
  <1>2. c \in Int /\ d \in Int
    BY <1>1
  <1>3. c < d
    <2> HIDE DEF c, d
    <2> QED BY <1>1, <1>2
  <1>4. p <= q
    BY <1>1, <1>3, Before
  <1> QED BY <1>4 DEF p, q

\* The positions of the first j blocks.
Upto(j) == Min({j * cache.stride, L + 1 - cache.floor})

LEMMA UptoFacts ==
    ASSUME cache.stride \in Nat \ {0}, L + 1 - cache.floor \in Nat \ {0}, NEW j \in Nat
    PROVE  /\ Upto(j) \in Nat /\ Upto(j) <= L + 1 - cache.floor
           /\ Upto(j + 1) \in Nat /\ Upto(j) <= Upto(j + 1)
           /\ Upto(j + 1) <= Upto(j) + cache.stride
           /\ \A i \in Nat : i <= j => Upto(i) \in Nat /\ Upto(i) <= Upto(j)
  <1> DEFINE k == cache.stride
             m == L + 1 - cache.floor
             at(i) == i * k
  <1>1. \A i \in Nat : at(i) \in Nat
    BY Product
  <1>2. \A i \in Nat : i <= j => at(i) <= at(j)
    BY Times
  <1>3. at(j + 1) = at(j) + k
    OBVIOUS
  <1>4. k \in Nat \ {0} /\ m \in Nat \ {0}
    OBVIOUS
  <1>5. \A i : Upto(i) = Min({at(i), m})
    BY DEF Upto
  <1> HIDE DEF at, k, m
  <1>6. \A i \in Nat : Upto(i) = IF at(i) <= m THEN at(i) ELSE m
    <2> SUFFICES ASSUME NEW i \in Nat PROVE Upto(i) = IF at(i) <= m THEN at(i) ELSE m
      OBVIOUS
    <2>1. at(i) \in Int /\ m \in Int /\ Upto(i) = Min({at(i), m})
      BY <1>1, <1>4, <1>5
    <2> QED BY <2>1, MinOfTwo
  <1>7. \A i \in Nat : Upto(i) \in Nat /\ Upto(i) <= m
    BY <1>1, <1>4, <1>6
  <1>8. \A i \in Nat : i <= j => Upto(i) <= Upto(j)
    BY <1>1, <1>2, <1>4, <1>6
  <1>9. Upto(j) <= Upto(j + 1) /\ Upto(j + 1) <= Upto(j) + k
    <2>1. /\ Upto(j) = (IF at(j) <= m THEN at(j) ELSE m)
          /\ Upto(j + 1) = (IF at(j) + k <= m THEN at(j) + k ELSE m)
          /\ at(j) \in Nat
      BY <1>1, <1>3, <1>6
    <2> QED BY <1>4, <2>1
  <1> QED BY <1>7, <1>8, <1>9 DEF k, m

\* A block's positions are those of the blocks up to it, less those below it.
LEMMA BlockCost ==
    ASSUME Setting, IsRegion(cache), Live, NEW from, Sound(cache, from), cache.floor <= L,
           NEW j \in Nat, j < cache.nb
    PROVE  BlockHigh(text, cache, j) + 1 - BlockLow(cache, j) = Upto(j + 1) - Upto(j)
  <1> DEFINE k == cache.stride
             f == cache.floor
             m == L + 1 - f
             a == j * k
             b == (j + 1) * k
             low == BlockLow(cache, j)
             high == BlockHigh(text, cache, j)
  <1>1. /\ L \in Nat /\ f \in 0..L /\ k \in Nat \ {0} /\ m \in Nat \ {0}
        /\ cache.nb = BlockCount(m, k)
    BY RegionFacts
  <1>2. a \in Nat /\ a < m
    BY <1>1, BlockBegins
  <1>3. b = a + k
    BY <1>1
  <1>4. low = f + a /\ high = IF low + k <= L THEN low + k - 1 ELSE L
    BY BlockSpan
  <1>5. Upto(j) = Min({a, m}) /\ Upto(j + 1) = Min({b, m})
    BY DEF Upto
  <1> HIDE DEF a, b, low, high, k, f
  <1>6. Upto(j) = a /\ Upto(j + 1) = IF b <= m THEN b ELSE m
    BY <1>1, <1>2, <1>3, <1>5, MinOfTwo
  <1>7. high + 1 - low = Upto(j + 1) - Upto(j)
    BY <1>1, <1>2, <1>3, <1>4, <1>6
  <1> QED BY <1>7 DEF low, high

\* Which block a position of the text is in.
BlockAt(p) == (p - cache.floor) \div cache.stride

LEMMA BlockAtFacts ==
    ASSUME Setting, IsRegion(cache), Live, NEW from, Sound(cache, from), cache.floor <= L,
           NEW p \in cache.floor..L
    PROVE  /\ BlockAt(p) \in Nat /\ BlockAt(p) < cache.nb
           /\ p \in BlockLow(cache, BlockAt(p))..BlockHigh(text, cache, BlockAt(p))
  <1> DEFINE k == cache.stride
             f == cache.floor
             m == L + 1 - f
             x == p - f
             j == BlockAt(p)
             a == j * k
             b == (j + 1) * k
             low == BlockLow(cache, j)
             high == BlockHigh(text, cache, j)
  <1>1. /\ L \in Nat /\ f \in 0..L /\ k \in Nat \ {0} /\ m \in Nat \ {0}
        /\ cache.nb = BlockCount(m, k)
    BY RegionFacts
  <1>2. x \in Nat /\ x < m
    BY <1>1
  <1>3. j = x \div k
    BY DEF BlockAt
  <1> HIDE DEF x
  <1>4. j \in Nat /\ j < BlockCount(m, k) /\ a <= x /\ x < b
    BY <1>1, <1>2, <1>3, BlockOf, Quotient
  <1> HIDE DEF j
  <1>5. /\ low = f + a /\ high = (IF low + k <= L THEN low + k - 1 ELSE L)
        /\ low + k = f + b
    BY <1>1, <1>4, BlockSpan
  <1>6. a \in Int /\ b \in Int
    BY <1>1, <1>4
  <1> HIDE DEF a, b, low, high, k, f
  <1>7. p \in low..high
    BY <1>1, <1>2, <1>4, <1>5, <1>6 DEF x
  <1> QED BY <1>1, <1>4, <1>7 DEF j, low, high

LEMMA BlockAtIs ==
    ASSUME Setting, IsRegion(cache), Live, NEW from, Sound(cache, from), cache.floor <= L,
           NEW j \in Nat, j < cache.nb, NEW p \in BlockLow(cache, j)..BlockHigh(text, cache, j)
    PROVE  p \in cache.floor..L /\ BlockAt(p) = j
  <1> DEFINE k == cache.stride
             f == cache.floor
             x == p - f
             a == j * k
             b == (j + 1) * k
             low == BlockLow(cache, j)
             high == BlockHigh(text, cache, j)
  <1>1. L \in Nat /\ f \in 0..L /\ k \in Nat \ {0}
    BY RegionFacts
  <1>2. /\ low = f + a /\ high = (IF low + k <= L THEN low + k - 1 ELSE L)
        /\ low + k = f + b /\ low \in f..L /\ high \in low..L
    BY BlockSpan
  <1>3. a \in Int /\ b \in Int
    BY <1>1
  <1>4. p \in low..high
    OBVIOUS
  <1> HIDE DEF a, b, low, high, k, f
  <1>5. p \in f..L /\ x \in Nat /\ a <= x /\ x < b
    BY <1>1, <1>2, <1>3, <1>4
  <1> HIDE DEF x
  <1>6. x \div k = j
    BY <1>1, <1>5, QuotientIs DEF a, b
  <1> QED BY <1>5, <1>6 DEF BlockAt, x, k, f
-----------------------------------------------------------------------------
(* What the counts and the rows tell of a block. *)

\* A position of the text that has answers.
Answering(p) == Hits(RowAt(S, text, p, FullFrom(cache.floor)[p])) # {}

LEMMA HitsAreFinite ==
    ASSUME NEW sw, sw.ids \in Seq(Ids), NEW t, NEW columns, NEW low \in Int, NEW high \in Int
    PROVE  IsFiniteSet(HitsOver(sw, t, columns, low..high))
  <1> DEFINE row(p) == RowAt(sw, t, p, columns[p])
             all == (low..high) \X (DOMAIN sw.ids)
  <1>1. ASSUME NEW p PROVE Hits(row(p)) \in SUBSET DOMAIN sw.ids
    BY DEF Hits, RowAt
  <1>2. HitsOver(sw, t, columns, low..high) = UNION {{p} \X Hits(row(p)) : p \in low..high}
    BY DEF HitsOver
  <1> HIDE DEF row
  <1>3. HitsOver(sw, t, columns, low..high) \in SUBSET all
    BY <1>1, <1>2
  <1>4. IsFiniteSet(all)
    <2>1. DOMAIN sw.ids = 1..Len(sw.ids) /\ Len(sw.ids) \in Nat
      OBVIOUS
    <2>2. IsFiniteSet(1..Len(sw.ids)) /\ IsFiniteSet(low..high)
      BY <2>1, FS_Interval
    <2> QED BY <2>1, <2>2, FS_Product
  <1> HIDE DEF all
  <1> QED BY <1>3, <1>4, FS_Subset

\* The counts of two spans differ where the rest of the longer has an answer.
Tells(sw, t, columns, low, mid, high) ==
    (Cardinality(HitsOver(sw, t, columns, low..high))
        # Cardinality(HitsOver(sw, t, columns, low..(mid - 1))))
    <=> \E p \in mid..high : Hits(RowAt(sw, t, p, columns[p])) # {}

LEMMA MoreHits ==
    ASSUME NEW sw, sw.ids \in Seq(Ids), NEW t, NEW columns,
           NEW low \in Int, NEW mid \in Int, NEW high \in Int, low <= mid, mid <= high + 1
    PROVE  Tells(sw, t, columns, low, mid, high)
  <1> DEFINE hits(p) == Hits(RowAt(sw, t, p, columns[p]))
             some == HitsOver(sw, t, columns, low..(mid - 1))
             all == HitsOver(sw, t, columns, low..high)
  <1>1. some = UNION {{p} \X hits(p) : p \in low..(mid - 1)}
        /\ all = UNION {{p} \X hits(p) : p \in low..high}
    BY DEF HitsOver
  <1>2. IsFiniteSet(all)
    BY HitsAreFinite
  <1> HIDE DEF hits, some, all
  <1>3. some \in SUBSET all
    <2>1. \A p \in low..(mid - 1) : p \in low..high
      OBVIOUS
    <2> QED BY <1>1, <2>1
  <1>4. CASE \E p \in mid..high : hits(p) # {}
    <2>1. PICK p \in mid..high : hits(p) # {}
      BY <1>4
    <2>2. PICK k \in hits(p) : TRUE
      BY <2>1
    <2>3. p \in low..high /\ p \notin low..(mid - 1)
      OBVIOUS
    <2>4. <<p, k>> \in all
      BY <1>1, <2>2, <2>3
    <2>5. <<p, k>> \notin some
      BY <1>1, <2>3
    <2>6. Cardinality(all) # Cardinality(some)
      BY <1>2, <1>3, <2>4, <2>5, FS_Subset
    <2> QED BY <1>4, <2>6 DEF hits, some, all, Tells
  <1>5. CASE \A p \in mid..high : hits(p) = {}
    <2>1. ASSUME NEW e \in all PROVE e \in some
      <3>1. PICK p \in low..high : e \in {p} \X hits(p)
        BY <1>1
      <3>2. p \in low..(mid - 1)
        BY <1>5, <3>1
      <3> QED BY <1>1, <3>1, <3>2
    <2>2. all = some
      BY <1>3, <2>1
    <2> QED BY <1>5, <2>2 DEF hits, some, all, Tells
  <1> QED BY <1>4, <1>5

\* What a find looks in: a live region of a text that is not past.
InText ==
    /\ Setting /\ Live /\ IsRegion(cache) /\ Sound(cache, host.from) /\ Swept
    /\ cache.floor <= L /\ Stored(cache)
    /\ host.from \in cache.floor..(L + 1)

\* A block's count differs from the next one's where the block has an answer.
LEMMA CountTells ==
    ASSUME InText, NEW j \in Nat, j < cache.nb
    PROVE  cache.cum[j + 1] # cache.cum[j] <=>
           \E p \in BlockLow(cache, j)..BlockHigh(text, cache, j) : Answering(p)
  <1> DEFINE low == BlockLow(cache, j)
             high == BlockHigh(text, cache, j)
             f == cache.floor
             full == FullFrom(f)
             k == cache.stride
  <1>1. /\ L \in Nat /\ f \in 0..L /\ k \in Nat \ {0} /\ cache.nb \in Nat
    BY RegionFacts DEF InText
  <1>2. /\ low \in f..L /\ high \in low..L
        /\ high = (IF low + k <= L THEN low + k - 1 ELSE L)
        /\ low = f + j * k /\ low + k = f + (j + 1) * k
    BY BlockSpan DEF InText
  <1>3. /\ cache.cum[j] = Cardinality(HitsOver(S, text, full, f..Min({f + j * k - 1, L})))
        /\ cache.cum[j + 1] = Cardinality(HitsOver(S, text, full, f..Min({f + (j + 1) * k - 1, L})))
    <2>1. j \in 0..cache.nb /\ j + 1 \in 0..cache.nb
      BY <1>1
    <2> QED BY <2>1 DEF InText, Stored
  <1>4. S.ids \in Seq(Ids)
    BY SweepIsSweep DEF InText, SweepFacts, IsSweep
  <1> DEFINE x == j * k
             y == (j + 1) * k
  <1>a. x \in Int /\ y \in Int
    BY <1>1
  <1> HIDE DEF low, high, f, full, k, x, y
  <1>b. low = f + x /\ low + k = f + y
    BY <1>2 DEF x, y
  <1>5. Min({f + j * k - 1, L}) = low - 1 /\ Min({f + (j + 1) * k - 1, L}) = high
    <2>1. PICK a, b : a = f + x - 1 /\ b = f + y - 1
      OBVIOUS
    <2>2. a = low - 1 /\ b = low + k - 1 /\ a \in Int /\ b \in Int
      BY <1>1, <1>a, <1>b, <2>1
    <2>3. low \in f..L /\ high = (IF low + k <= L THEN low + k - 1 ELSE L)
      BY <1>2
    <2>4. Min({a, L}) = low - 1 /\ Min({b, L}) = high
      <3>1. Min({a, L}) = (IF a <= L THEN a ELSE L) /\ Min({b, L}) = (IF b <= L THEN b ELSE L)
        BY <1>1, <2>2, MinOfTwo
      <3> QED BY <1>1, <2>2, <2>3, <3>1
    <2> QED BY <2>1, <2>4 DEF x, y
  <1>6. /\ cache.cum[j] = Cardinality(HitsOver(S, text, full, f..(low - 1)))
        /\ cache.cum[j + 1] = Cardinality(HitsOver(S, text, full, f..high))
    BY <1>3, <1>5
  <1>7. cache.cum[j + 1] # cache.cum[j]
        <=> \E p \in low..high : Hits(RowAt(S, text, p, full[p])) # {}
    <2>1. f \in Int /\ low \in Int /\ high \in Int /\ f <= low /\ low <= high + 1
      BY <1>1, <1>2
    <2>2. PICK sw, t, columns, a, b, c :
            sw = S /\ t = text /\ columns = full /\ a = f /\ b = low /\ c = high
      OBVIOUS
    <2>3. sw.ids \in Seq(Ids) /\ a \in Int /\ b \in Int /\ c \in Int /\ a <= b /\ b <= c + 1
      BY <1>4, <2>1, <2>2
    <2>4. Tells(sw, t, columns, a, b, c)
      BY <2>3, MoreHits
    <2> QED BY <1>6, <2>2, <2>4 DEF Tells
  <1> QED BY <1>7 DEF low, high, full, f, Answering

\* A row that is looked at has an answer where its position has one at or after
\* the one asked for.
LEMMA RowsTell ==
    ASSUME FindInv, HeaderInv, ContentInv, look # NoBlock, look < cache.nb, cache.cur = look + 1
    PROVE  /\ cache.base = BlockLow(cache, look) /\ cache.base \in Nat /\ L \in Nat
           /\ \A r \in Matching : /\ r \in 0..(RowCount - 1)
                                  /\ cache.base + r \in BlockLow(cache, look)..BlockHigh(text, cache, look)
                                  /\ cache.base + r \in host.from..L
                                  /\ Answering(cache.base + r)
           /\ \A p \in BlockLow(cache, look)..BlockHigh(text, cache, look) :
                  p >= host.from /\ Answering(p) => p - cache.base \in Matching
  <1> DEFINE low == BlockLow(cache, look)
             high == BlockHigh(text, cache, look)
             k == cache.stride
             from == Max({host.from - cache.base, 0})
  <1>1. /\ Live /\ Sound(cache, host.from) /\ IsRegion(cache) /\ Swept
        /\ cache.floor <= L /\ Stored(cache) /\ look \in Nat /\ L \in Nat
        /\ host.from \in cache.floor..L /\ cache.floor \in 0..L /\ Setting
    BY LookFacts DEF FindInv
  <1>2. cache.base = low
    <2>1. look + 1 - 1 = look
      BY <1>1
    <2> QED BY <1>1, <2>1 DEF Sound
  <1>3. /\ low \in cache.floor..L /\ high \in low..L
        /\ high = (IF low + k <= L THEN low + k - 1 ELSE L)
    BY <1>1, BlockSpan
  <1>4. k \in Nat \ {0}
    BY <1>1, RegionFacts
  <1> HIDE DEF low, high
  <1>5. RowCount = IF k <= L - low + 1 THEN k ELSE L - low + 1
    <2>1. L - low + 1 \in Int /\ k \in Int
      BY <1>1, <1>3, <1>4
    <2>2. RowCount = Min({k, L - low + 1})
      BY <1>2 DEF RowCount, L
    <2> QED BY <2>1, <2>2, MinOfTwo
  <1>6. RowCount = high - low + 1 /\ low \in Nat /\ high \in Int
    BY <1>1, <1>3, <1>4, <1>5
  <1>7. from = (IF host.from >= low THEN host.from - low ELSE 0)
    <2>1. host.from - low \in Int
      BY <1>1, <1>6
    <2>2. from = IF host.from - low >= 0 THEN host.from - low ELSE 0
      BY <1>2, <2>1, MaxOfTwo
    <2> QED BY <1>1, <1>6, <2>2
  <1>8. \A r : r \in Matching <=> r \in from..(RowCount - 1) /\ Hits(cache.rows[r]) # {}
    BY DEF Matching
  <1> HIDE DEF from
  <1>9. ASSUME NEW r \in 0..(RowCount - 1)
        PROVE  low + r \in low..high /\ (Hits(cache.rows[r]) # {} <=> Answering(low + r))
    <2>1. cache.rows[r] = RowAt(S, text, low + r, FullFrom(cache.floor)[low + r])
      BY <1>2, RowFacts
    <2>2. low + r \in low..high
      BY <1>6
    <2> QED BY <2>1, <2>2 DEF Answering
  <1>10. ASSUME NEW r \in Matching
         PROVE  /\ r \in 0..(RowCount - 1) /\ low + r \in low..high /\ low + r \in host.from..L
                /\ Answering(low + r)
    <2>1. r \in from..(RowCount - 1) /\ Hits(cache.rows[r]) # {}
      BY <1>8
    <2>2. r \in 0..(RowCount - 1)
      BY <1>1, <1>6, <1>7, <2>1
    <2>3. low + r \in host.from..L
      BY <1>1, <1>3, <1>6, <1>7, <2>1
    <2> QED BY <1>9, <2>1, <2>2, <2>3
  <1>11. ASSUME NEW p \in low..high, p >= host.from, Answering(p)
         PROVE  p - low \in Matching
    <2>1. p - low \in 0..(RowCount - 1) /\ p - low \in from..(RowCount - 1) /\ low + (p - low) = p
      BY <1>1, <1>6, <1>7, <1>11
    <2>2. PICK r : r = p - low
      OBVIOUS
    <2>3. Hits(cache.rows[r]) # {}
      BY <1>9, <1>11, <2>1, <2>2
    <2> QED BY <1>8, <2>1, <2>2, <2>3
  <1> QED BY <1>1, <1>2, <1>6, <1>10, <1>11 DEF low, high
-----------------------------------------------------------------------------
(* What the sweeps cost. *)

\* The positions whose answers the drive is still owed, the block of the one
\* asked for and the block of the next answer.
NextHits == {p \in host.from..L : Answering(p)}
FromBlock == BlockAt(host.from)
Goal == BlockAt(Min(NextHits))

\* What has been paid for: the pass, the first j blocks once each, and for each
\* call that did not fit two blocks again.
Allowed(j) == (L + 1 - cache.floor) + Upto(j) + 2 * spent.retries * cache.stride

\* No block past the one asked for was made; the next answer's block was made,
\* and its call is being answered; or its call is to be answered again, with
\* two blocks to spare, and with one.
Owing == cache.cur - 1 <= FromBlock /\ spent.swept <= Allowed(cache.cur)
Serving ==
    /\ NextHits # {} /\ cache.cur - 1 = Goal /\ (look = Goal \/ pc = "answered")
    /\ spent.swept <= Allowed(Goal + 1)
Again ==
    /\ NextHits # {} /\ cache.cur - 1 = Goal
    /\ spent.swept + 2 * cache.stride <= Allowed(Goal + 1)
Returning ==
    /\ NextHits # {} /\ cache.cur - 1 = FromBlock
    /\ spent.swept + cache.stride <= Allowed(Goal + 1)

\* No block is looked at that lies before the one asked for or past the next
\* answer's; and what is answered is the next answer.
OnTheWay == look # NoBlock => FromBlock <= look /\ (NextHits # {} => look <= Goal)
NextAnswered ==
    pc = "answered" =>
        IF scan.total = 0 THEN NextHits = {}
        ELSE /\ NextHits # {} /\ cache.cur - 1 = Goal
             /\ scan.total <= host.cap => scan.buf[1].start = Min(NextHits)

SweptInv ==
    /\ spent.swept \in Int
    /\ ~Live => spent.swept = 0 /\ look = NoBlock
    /\ Live /\ cache.floor > L => spent.swept = 0
    /\ Live /\ cache.floor <= L =>
          (Owing \/ Serving \/ Again \/ Returning) /\ OnTheWay /\ NextAnswered

LEMMA InTextHolds ==
    ASSUME FindInv, HeaderInv, ContentInv, Live, cache.floor <= L
    PROVE  InText
  <1>1. IsRegion(cache) /\ Sound(cache, host.from) /\ Swept /\ Stored(cache)
    BY DEF HeaderInv, ContentInv, Live
  <1>2. L \in Nat /\ host.from \in 0..(L + 1) /\ L = LenOf(text) /\ Setting
    BY SettingFacts DEF FindInv, CallerInv, L
  <1>3. host.from \in cache.floor..(L + 1)
    BY <1>1, <1>2 DEF Sound
  <1> QED BY <1>1, <1>2, <1>3 DEF InText

LEMMA TextFacts ==
    ASSUME InText
    PROVE  /\ L \in Nat /\ cache.floor \in 0..L /\ cache.stride \in Nat \ {0}
           /\ cache.nb \in Nat \ {0} /\ L + 1 - cache.floor \in Nat \ {0}
           /\ host.from \in Nat /\ host.from - cache.floor \in Nat
           /\ cache.cur \in 1..cache.nb /\ cache.cur - 1 \in Nat
           /\ FromBlock \in Nat
  <1>1. /\ L \in Nat /\ cache.floor \in 0..L /\ cache.stride \in Nat \ {0}
        /\ cache.nb \in Nat \ {0} /\ L + 1 - cache.floor \in Nat \ {0}
    BY RegionFacts DEF InText
  <1>2. host.from \in Nat /\ host.from - cache.floor \in Nat
    BY <1>1 DEF InText
  <1>3. cache.cur \in 1..cache.nb /\ cache.cur - 1 \in Nat
    BY <1>1 DEF InText, Sound
  <1>4. FromBlock \in Nat
    BY <1>1, <1>2, Quotient DEF FromBlock, BlockAt
  <1> QED BY <1>1, <1>2, <1>3, <1>4

LEMMA LaterBlock ==
    ASSUME InText, NEW p \in Nat, NEW q \in Nat, cache.floor <= p, p <= q
    PROVE  BlockAt(p) \in Nat /\ BlockAt(q) \in Nat /\ BlockAt(p) <= BlockAt(q)
  <1>1. cache.floor \in Nat /\ cache.stride \in Nat \ {0}
    BY TextFacts
  <1> DEFINE x == p - cache.floor   y == q - cache.floor
  <1>2. x \in Nat /\ y \in Nat /\ x <= y
    BY <1>1
  <1>3. BlockAt(p) = x \div cache.stride /\ BlockAt(q) = y \div cache.stride
    BY DEF BlockAt
  <1> HIDE DEF x, y
  <1>4. x \div cache.stride <= y \div cache.stride
    BY <1>1, <1>2, QuotientGrows
  <1>5. x \div cache.stride \in Nat /\ y \div cache.stride \in Nat
    BY <1>1, <1>2, Quotient
  <1> QED BY <1>3, <1>4, <1>5

\* The next answer.
LEMMA GoalFacts ==
    ASSUME InText, NextHits # {}
    PROVE  /\ Min(NextHits) \in host.from..L /\ Answering(Min(NextHits))
           /\ \A p \in NextHits : Min(NextHits) <= p
           /\ Goal \in Nat /\ Goal < cache.nb /\ FromBlock <= Goal /\ host.from <= L
           /\ Min(NextHits) \in BlockLow(cache, Goal)..BlockHigh(text, cache, Goal)
           /\ Min(NextHits) \in cache.floor..L
  <1>1. NextHits \subseteq Nat /\ L \in Nat /\ host.from \in Nat /\ cache.floor \in Nat
        /\ cache.floor <= host.from
    BY TextFacts DEF NextHits, InText
  <1>2. Min(NextHits) \in NextHits /\ \A p \in NextHits : Min(NextHits) <= p
    BY <1>1, MinIsLeast
  <1>3. PICK m : m = Min(NextHits)
    OBVIOUS
  <1>4. m \in host.from..L /\ Answering(m)
    BY <1>2, <1>3 DEF NextHits
  <1>5. m \in cache.floor..L /\ m \in Nat
    BY <1>1, <1>4
  <1>6. /\ BlockAt(m) \in Nat /\ BlockAt(m) < cache.nb
        /\ m \in BlockLow(cache, BlockAt(m))..BlockHigh(text, cache, BlockAt(m))
    BY <1>5, BlockAtFacts DEF InText
  <1>7. BlockAt(host.from) <= BlockAt(m)
    BY <1>1, <1>4, <1>5, LaterBlock
  <1>8. host.from <= L
    BY <1>1, <1>4
  <1> QED BY <1>2, <1>3, <1>4, <1>5, <1>6, <1>7, <1>8 DEF Goal, FromBlock

\* An answer at or after the position asked for is in the next answer's block
\* or a later one; and any answer of a block past the one asked for is such.
LEMMA LaterAnswers ==
    ASSUME InText, NEW j \in Nat, j < cache.nb,
           NEW p \in BlockLow(cache, j)..BlockHigh(text, cache, j), Answering(p),
           p >= host.from \/ FromBlock < j
    PROVE  p \in NextHits /\ NextHits # {} /\ Goal <= j
  <1>1. p \in cache.floor..L /\ BlockAt(p) = j
    BY BlockAtIs DEF InText
  <1>2. L \in Nat /\ cache.floor \in Nat /\ p \in Nat /\ host.from \in Nat /\ FromBlock \in Nat
        /\ cache.floor <= p
    BY <1>1, TextFacts
  <1>3. p >= host.from
    <2>1. CASE p < host.from
      <3>1. BlockAt(p) <= BlockAt(host.from)
        BY <1>2, <2>1, LaterBlock
      <3> QED BY <1>1, <1>2, <2>1, <3>1 DEF FromBlock
    <2> QED BY <1>2, <2>1
  <1>4. p \in NextHits
    BY <1>1, <1>2, <1>3 DEF NextHits
  <1>5. PICK m : m = Min(NextHits)
    OBVIOUS
  <1>6. m \in cache.floor..L /\ m <= p
    BY <1>4, <1>5, GoalFacts
  <1>7. m \in Nat /\ cache.floor <= m
    BY <1>2, <1>6
  <1>8. BlockAt(m) <= BlockAt(p)
    BY <1>2, <1>6, <1>7, LaterBlock
  <1> QED BY <1>1, <1>4, <1>5, <1>8 DEF Goal

LEMMA AllowedFacts ==
    ASSUME InText, NEW j \in Nat, spent.retries \in Nat
    PROVE  /\ Allowed(j) \in Int /\ Allowed(j + 1) \in Int /\ Allowed(j) <= Allowed(j + 1)
           /\ Allowed(j + 1) <= Allowed(j) + cache.stride
           /\ \A i \in Nat : i <= j => Allowed(i) \in Int /\ Allowed(i) <= Allowed(j)
           /\ Allowed(j) <= 2 * (L + 1) + 2 * spent.retries * cache.stride
           /\ 2 * spent.retries * cache.stride \in Nat
  <1> DEFINE r == 2 * spent.retries * cache.stride
             m == L + 1 - cache.floor
  <1>1. cache.stride \in Nat \ {0} /\ m \in Nat \ {0} /\ L \in Nat /\ cache.floor \in Nat
    BY TextFacts
  <1>2. r \in Nat
    <2>1. 2 * spent.retries \in Nat /\ cache.stride \in Nat
      BY <1>1
    <2> QED BY <2>1, Product
  <1>3. \A i : Allowed(i) = m + Upto(i) + r
    BY DEF Allowed
  <1>4. /\ Upto(j) \in Nat /\ Upto(j) <= m
        /\ Upto(j + 1) \in Nat /\ Upto(j) <= Upto(j + 1)
        /\ Upto(j + 1) <= Upto(j) + cache.stride
        /\ \A i \in Nat : i <= j => Upto(i) \in Nat /\ Upto(i) <= Upto(j)
    BY <1>1, UptoFacts
  <1>5. m <= L + 1
    BY <1>1
  <1> HIDE DEF r, m
  <1>6. /\ Allowed(j) \in Int /\ Allowed(j + 1) \in Int /\ Allowed(j) <= Allowed(j + 1)
        /\ Allowed(j + 1) <= Allowed(j) + cache.stride
        /\ Allowed(j) <= 2 * (L + 1) + r
    BY <1>1, <1>2, <1>3, <1>4, <1>5
  <1>7. \A i \in Nat : i <= j => Allowed(i) \in Int /\ Allowed(i) <= Allowed(j)
    BY <1>1, <1>2, <1>3, <1>4
  <1> QED BY <1>2, <1>6, <1>7 DEF r

\* Whatever the stage, the sweeps are paid for.
LEMMA SweptPaid ==
    ASSUME InText, spent.retries \in Nat, spent.swept \in Int,
           Owing \/ Serving \/ Again \/ Returning
    PROVE  spent.swept <= 2 * (L + 1) + 2 * spent.retries * cache.stride
  <1> DEFINE bound == 2 * (L + 1) + 2 * spent.retries * cache.stride
  <1>1. \A j \in Nat : Allowed(j) \in Int /\ Allowed(j) <= bound
    BY AllowedFacts
  <1>2. cache.cur \in Nat /\ cache.stride \in Nat /\ bound \in Int
    <2>1. cache.cur \in Nat /\ cache.stride \in Nat /\ L \in Nat
      BY TextFacts
    <2>2. 2 * spent.retries * cache.stride \in Nat
      <3>1. 0 \in Nat
        OBVIOUS
      <3> QED BY <3>1, AllowedFacts
    <2> QED BY <2>1, <2>2
  <1>3. NextHits # {} => Goal + 1 \in Nat
    BY GoalFacts
  <1> HIDE DEF bound
  <1>4. spent.swept <= bound
    BY <1>1, <1>2, <1>3 DEF Owing, Serving, Again, Returning
  <1> QED BY <1>4 DEF bound
-----------------------------------------------------------------------------
(* The stages of a drive, step by step. *)

LEMMA SameDrive ==
    ASSUME set' = set, text' = text, host'.from = host.from, cache'.floor = cache.floor,
           cache'.stride = cache.stride, spent'.retries = spent.retries
    PROVE  /\ NextHits' = NextHits /\ FromBlock' = FromBlock /\ Goal' = Goal /\ L' = L
           /\ \A j : Allowed(j)' = Allowed(j)
  <1>1. S' = S /\ L' = L
    BY DEF S, L
  <1>2. \A p : Answering(p)' <=> Answering(p)
    BY <1>1 DEF Answering, FullFrom
  <1>3. NextHits' = NextHits
    BY <1>1, <1>2 DEF NextHits
  <1>4. FromBlock' = FromBlock /\ Goal' = Goal
    BY <1>3 DEF FromBlock, Goal, BlockAt
  <1> QED BY <1>1, <1>3, <1>4 DEF Allowed, Upto

\* A step that sweeps nothing and leaves the caller where it is.
LEMMA SweptKept ==
    ASSUME SweptInv, Live, cache.floor <= L, set' = set, text' = text, host'.from = host.from,
           cache' = cache, spent' = spent,
           Serving => look' = Goal \/ pc' = "answered",
           look' # NoBlock => FromBlock <= look' /\ (NextHits # {} => look' <= Goal),
           pc' = "answered" => IF scan'.total = 0 THEN NextHits = {}
                               ELSE /\ NextHits # {} /\ cache.cur - 1 = Goal
                                    /\ scan'.total <= host'.cap =>
                                           scan'.buf[1].start = Min(NextHits)
    PROVE  SweptInv'
  <1>1. /\ NextHits' = NextHits /\ FromBlock' = FromBlock /\ Goal' = Goal /\ L' = L
        /\ \A j : Allowed(j)' = Allowed(j)
    BY SameDrive
  <1>2. PICK m : m = Min(NextHits)
    OBVIOUS
  <1>3. Min(NextHits)' = m
    BY <1>1, <1>2
  <1>4. OnTheWay' /\ NextAnswered'
    BY <1>1, <1>2, <1>3 DEF OnTheWay, NextAnswered
  <1>5. (Owing \/ Serving \/ Again \/ Returning)'
    <2>1. Owing => Owing'
      BY <1>1 DEF Owing
    <2>2. Serving => Serving'
      BY <1>1 DEF Serving
    <2>3. Again => Again'
      BY <1>1 DEF Again
    <2>4. Returning => Returning'
      BY <1>1 DEF Returning
    <2> QED BY <2>1, <2>2, <2>3, <2>4 DEF SweptInv
  <1>6. /\ Live' /\ (cache.floor <= L)' /\ spent'.swept \in Int
        /\ (cache.floor > L)' => spent'.swept = 0
    BY <1>1 DEF Live, SweptInv
  <1> QED BY <1>4, <1>5, <1>6 DEF SweptInv

\* Without a live cache nothing is swept, and past the text's end neither.
LEMMA SweptIdle ==
    ASSUME SweptInv, set' = set, text' = text, spent'.swept = spent.swept,
           \/ ~Live /\ ~Live' /\ look' = NoBlock
           \/ Live /\ cache.floor > L /\ L \in Nat /\ cache.floor \in Nat /\ cache' = cache
    PROVE  SweptInv'
  <1>1. L' = L
    BY DEF L
  <1>2. spent'.swept \in Int
    BY DEF SweptInv
  <1>3. CASE ~Live /\ ~Live' /\ look' = NoBlock
    BY <1>2, <1>3 DEF SweptInv
  <1>4. CASE Live /\ cache.floor > L /\ L \in Nat /\ cache.floor \in Nat /\ cache' = cache
    <2>1. Live' /\ ~(cache.floor <= L)' /\ spent'.swept = 0
      BY <1>1, <1>4 DEF Live, SweptInv
    <2> QED BY <1>2, <2>1 DEF SweptInv
  <1> QED BY <1>3, <1>4

\* The pass.
LEMMA SweptPasses ==
    ASSUME FindInv, HeaderInv, ContentInv, MeterInv, SweptInv, HeaderInv', Sweeps
    PROVE  SweptInv'
  <1>1. /\ ~Live /\ cache' = Pass(S, text, host.from, cache) /\ pc' = "host" /\ look' = NoBlock
        /\ set' = set /\ text' = text /\ host' = host
        /\ spent' = [spent EXCEPT !.swept = @ + (IF cache'.ready = 1
                                                 THEN LenOf(text) + 1 - cache'.floor ELSE 0)]
    BY DEF Sweeps, Deciding, Due, Idle, Live, vars
  <1>2. /\ DOMAIN spent = {"walked", "swept", "retries"} /\ spent.retries \in Nat
        /\ spent.swept = 0 /\ L \in Nat /\ Setting /\ host.from \in 0..(L + 1)
    BY <1>1, SettingFacts DEF MeterInv, MeterType, SweptInv, FindInv, CallerInv, L
  <1>3. L' = L
    BY <1>1 DEF L
  <1>4. CASE cache'.ready # 1
    <2>1. ~Live' /\ spent'.swept = 0
      BY <1>1, <1>2, <1>4 DEF Live
    <2> QED BY <1>1, <2>1 DEF SweptInv
  <1>5. CASE cache'.ready = 1
    <2>1. /\ Live' /\ cache'.floor \in 0..(L + 1) /\ IsRegion(cache') /\ host.from >= cache'.floor
      BY <1>1, <1>3, <1>5 DEF HeaderInv, Live, Sound, IsRegion, L
    <2>2. spent'.swept = L + 1 - cache'.floor /\ spent'.retries = spent.retries
      BY <1>1, <1>2, <1>5, <2>1 DEF L
    <2>3. cache'.floor <= L => cache'.floor = host.from /\ cache'.cur = 1
      <3> DEFINE m == LenOf(text) - host.from + 1
                 stride == Min({cache.stride, m})
                 nb == BlockCount(m, stride)
                 d == Pass(S, text, host.from, cache)
      <3>1. {"size", "stride", "ready", "floor", "nb", "cur", "base", "ckpts", "cum", "rows"}
                \subseteq DOMAIN cache
        BY DEF HeaderInv, IsRegion, Fields, Unoffered
      <3>2. \/ d = Refused(cache) \/ d = PassPastEnd(S, text, cache)
            \/ d = Refused([cache EXCEPT !.stride = stride])
            \/ d = PassOver(S, text, host.from, stride, nb, cache)
        BY DEF Pass
      <3> HIDE DEF stride, nb
      <3>3. CASE d = Refused(cache)
        BY <1>1, <1>5, <3>1, <3>3 DEF Refused
      <3>4. CASE d = PassPastEnd(S, text, cache)
        <4>1. d.floor = L + 1
          BY <3>1, <3>4 DEF PassPastEnd, L
        <4> QED BY <1>1, <1>2, <4>1
      <3>5. CASE d = Refused([cache EXCEPT !.stride = stride])
        BY <1>1, <1>5, <3>1, <3>5 DEF Refused
      <3>6. CASE d = PassOver(S, text, host.from, stride, nb, cache)
        <4> HIDE DEF d
        <4>1. PICK ckpts, cum, rows :
                d = [cache EXCEPT !.stride = stride, !.nb = nb, !.floor = host.from,
                                  !.base = host.from, !.cur = 1, !.ckpts = ckpts,
                                  !.cum = cum, !.rows = rows, !.ready = 1]
          BY <3>6 DEF PassOver
        <4>2. d.floor = host.from /\ d.cur = 1
          BY <3>1, <4>1
        <4> QED BY <1>1, <4>2 DEF d
      <3> QED BY <3>2, <3>3, <3>4, <3>5, <3>6
    <2>4. CASE cache'.floor > L
      <3>1. spent'.swept = 0 /\ ~(cache.floor <= L)'
        BY <1>2, <1>3, <2>1, <2>2, <2>4
      <3> QED BY <2>1, <3>1 DEF SweptInv
    <2>5. CASE cache'.floor <= L
      <3>1. cache'.floor = host.from /\ cache'.cur = 1 /\ cache'.stride \in Nat \ {0}
        <4>1. cache'.stride \in Nat \ {0}
          BY <1>5, <2>1 DEF IsRegion
        <4> QED BY <2>3, <2>5, <4>1
      <3>2. Owing'
        <4> DEFINE f == cache'.floor
                   k == cache'.stride
                   q == (host'.from - f) \div k
                   u == Min({1 * k, L + 1 - f})
                   r == 2 * spent'.retries * k
        <4>1. f \in 0..L /\ L + 1 - f \in Nat \ {0} /\ k \in Nat \ {0}
          BY <1>2, <2>1, <2>5, <3>1
        <4>2. q \in Nat
          <5>1. host'.from - f \in Nat
            BY <1>1, <1>2, <3>1
          <5> QED BY <4>1, <5>1, Quotient
        <4>3. u \in Nat
          <5>1. u = IF 1 * k <= L + 1 - f THEN 1 * k ELSE L + 1 - f
            BY <4>1, MinOfTwo
          <5> QED BY <4>1, <5>1
        <4>4. r \in Nat
          <5>1. 2 * spent'.retries \in Nat
            BY <1>2, <2>2
          <5> QED BY <4>1, <5>1, Product
        <4>5. FromBlock' = q /\ Allowed(1)' = (L + 1 - f) + u + r
          BY <1>3 DEF FromBlock, BlockAt, Allowed, Upto
        <4> HIDE DEF f, k, q, u, r
        <4>6. spent'.swept <= Allowed(1)'
          BY <1>2, <2>2, <4>1, <4>3, <4>4, <4>5 DEF f
        <4>7. cache'.cur - 1 <= FromBlock'
          BY <3>1, <4>2, <4>5
        <4> QED BY <3>1, <4>6, <4>7 DEF Owing
      <3>3. OnTheWay' /\ NextAnswered'
        BY <1>1 DEF OnTheWay, NextAnswered
      <3>4. spent'.swept \in Int /\ ~(cache.floor > L)'
        BY <1>2, <1>3, <2>1, <2>2, <2>5
      <3> QED BY <2>1, <3>2, <3>3, <3>4 DEF SweptInv
    <2>6. cache'.floor > L \/ cache'.floor <= L
      BY <1>2, <2>1
    <2> QED BY <2>4, <2>5, <2>6
  <1> QED BY <1>4, <1>5
-----------------------------------------------------------------------------
(* Looking for an answer. *)

LEMMA SweptLocates ==
    ASSUME FindInv, HeaderInv, ContentInv, MeterInv, SweptInv, cache.floor <= L, Locates
    PROVE  SweptInv'
  <1>1. /\ Live /\ host.from <= L /\ look = NoBlock /\ pc = "host" /\ pc' = "host"
        /\ look' = Max({host.from - cache.floor, 0}) \div cache.stride
        /\ set' = set /\ text' = text /\ host' = host /\ cache' = cache /\ spent' = spent
    BY DEF Locates, Deciding, Idle, vars, L
  <1>2. InText
    BY <1>1, InTextHolds
  <1>3. look' = FromBlock
    <2>1. host.from - cache.floor \in Nat
      BY <1>2, TextFacts
    <2>2. Max({host.from - cache.floor, 0}) = host.from - cache.floor
      <3>1. PICK x : x = host.from - cache.floor
        OBVIOUS
      <3> QED BY <2>1, <3>1, MaxOfTwo
    <2> QED BY <1>1, <2>2 DEF FromBlock, BlockAt
  <1>4. FromBlock \in Nat /\ (NextHits # {} => FromBlock <= Goal)
    BY <1>2, TextFacts, GoalFacts
  <1>5. ~Serving
    <2>1. NextHits # {} => Goal \in Nat
      BY <1>2, GoalFacts
    <2> QED BY <1>1, <2>1 DEF Serving, NoBlock
  <1> QED BY <1>1, <1>3, <1>4, <1>5, SweptKept

\* The next answer's block is neither skipped nor found without an answer.
LEMMA SweptLooksOn ==
    ASSUME FindInv, HeaderInv, ContentInv, MeterInv, SweptInv, SkipsBlock \/ BlockBarren
    PROVE  SweptInv'
  <1>1. /\ look # NoBlock /\ look < cache.nb /\ look' = look + 1 /\ pc' = "host"
        /\ set' = set /\ text' = text /\ host' = host /\ cache' = cache /\ spent' = spent
        /\ pc = "host"
    BY DEF SkipsBlock, BlockBarren, AtBlock, Looking, NextBlock, Idle, vars
  <1>2. Live /\ cache.floor <= L /\ look \in Nat
    BY <1>1, LookFacts
  <1>3. InText
    BY <1>2, InTextHolds
  <1>4. FromBlock <= look /\ (NextHits # {} => look <= Goal) /\ FromBlock \in Nat
    BY <1>1, <1>2, <1>3, TextFacts DEF SweptInv, OnTheWay
  <1>5. ASSUME NextHits # {} PROVE look # Goal /\ Goal \in Nat
    <2>1. PICK m : m = Min(NextHits)
      OBVIOUS
    <2>2. /\ m \in BlockLow(cache, Goal)..BlockHigh(text, cache, Goal) /\ Answering(m)
          /\ m \in host.from..L /\ Goal \in Nat
      BY <1>3, <1>5, <2>1, GoalFacts
    <2>3. CASE look = Goal
      <3>1. CASE SkipsBlock
        <4>1. cache.cum[look + 1] = cache.cum[look]
          BY <1>1, <3>1 DEF SkipsBlock, AtBlock, Looking
        <4> QED BY <1>1, <1>2, <1>3, <2>2, <2>3, <4>1, CountTells
      <3>2. CASE BlockBarren
        <4>1. cache.cur = look + 1 /\ Matching = {}
          BY <3>2 DEF BlockBarren
        <4>2. m >= host.from
          <5>1. host.from \in Nat /\ L \in Nat
            BY <1>3, TextFacts
          <5> QED BY <2>2, <5>1
        <4>3. m - cache.base \in Matching
          BY <1>1, <2>2, <2>3, <4>1, <4>2, RowsTell
        <4> QED BY <4>1, <4>3
      <3> QED BY <3>1, <3>2
    <2> QED BY <2>2, <2>3
  <1>6. ~Serving
    BY <1>1, <1>5 DEF Serving
  <1>7. look' # NoBlock => FromBlock <= look' /\ (NextHits # {} => look' <= Goal)
    BY <1>1, <1>2, <1>4, <1>5
  <1> QED BY <1>1, <1>2, <1>6, <1>7, SweptKept

\* No answer is left where none is given.
LEMMA SweptEmpty ==
    ASSUME FindInv, HeaderInv, ContentInv, MeterInv, SweptInv, cache.floor <= L,
           PastEnd \/ OutOfBlocks
    PROVE  SweptInv'
  <1>1. /\ Live /\ pc' = "answered" /\ look' = NoBlock /\ scan'.total = 0
        /\ set' = set /\ text' = text /\ host' = host /\ cache' = cache /\ spent' = spent
    BY DEF PastEnd, OutOfBlocks, Looking, Answers, NoScan, fixed, HeaderInv
  <1>2. InText
    BY <1>1, InTextHolds
  <1>3. NextHits = {}
    <2>1. CASE PastEnd
      <3>1. host.from > L /\ host.from \in Nat /\ L \in Nat
        BY <1>2, <2>1, TextFacts DEF PastEnd, L
      <3> QED BY <3>1 DEF NextHits
    <2>2. CASE OutOfBlocks
      <3>1. look # NoBlock /\ look >= cache.nb
        BY <2>2 DEF OutOfBlocks, Looking
      <3>2. look \in Nat
        BY <3>1, LookFacts
      <3>3. NextHits # {} => look <= Goal
        BY <1>1, <3>1 DEF SweptInv, OnTheWay
      <3>4. NextHits # {} => Goal \in Nat /\ Goal < cache.nb
        BY <1>2, GoalFacts
      <3>5. cache.nb \in Nat
        BY <1>2, TextFacts
      <3> QED BY <3>1, <3>2, <3>3, <3>4, <3>5
    <2> QED BY <2>1, <2>2
  <1> QED BY <1>1, <1>3, SweptKept

\* What is served is the next answer.
LEMMA SweptServes ==
    ASSUME FindInv, HeaderInv, ContentInv, MeterInv, SweptInv, ServesRow
    PROVE  SweptInv'
  <1> DEFINE r == Min(Matching)
             total == Cardinality(Hits(cache.rows[r]))
  <1>1. /\ look # NoBlock /\ look < cache.nb /\ cache.cur = look + 1 /\ Matching # {}
        /\ pc' = "answered" /\ look' = NoBlock /\ scan'.total = total
        /\ total <= host.cap => scan'.buf = RowTuples(r)
        /\ set' = set /\ text' = text /\ host' = host /\ cache' = cache /\ spent' = spent
    BY DEF ServesRow, AtBlock, Looking, Answers, NoScan, fixed
  <1>2. Live /\ cache.floor <= L /\ look \in Nat
    BY <1>1, LookFacts
  <1>3. InText
    BY <1>2, InTextHolds
  <1>4. /\ cache.base = BlockLow(cache, look) /\ cache.base \in Nat /\ L \in Nat
        /\ \A x \in Matching : /\ x \in 0..(RowCount - 1)
                               /\ cache.base + x \in BlockLow(cache, look)..BlockHigh(text, cache, look)
                               /\ cache.base + x \in host.from..L
                               /\ Answering(cache.base + x)
        /\ \A p \in BlockLow(cache, look)..BlockHigh(text, cache, look) :
               p >= host.from /\ Answering(p) => p - cache.base \in Matching
    BY <1>1, RowsTell
  <1>5. r \in Matching /\ \A y \in Matching : r <= y
    <2>1. Matching \subseteq Nat
      BY <1>4
    <2> QED BY <1>1, <2>1, MinIsLeast
  <1>6. r \in 0..(RowCount - 1) /\ r \in Nat
    BY <1>4, <1>5
  <1> DEFINE p == cache.base + r
  <1>7. /\ p \in BlockLow(cache, look)..BlockHigh(text, cache, look) /\ p \in host.from..L
        /\ Answering(p)
    BY <1>4, <1>5
  <1>8. total # 0
    <2>1. IsFiniteSet(Hits(cache.rows[r])) /\ Hits(cache.rows[r]) # {}
      <3>1. DOMAIN cache.rows[r] = DOMAIN S.ids
        BY <1>1, <1>6, RowFacts
      <3>2. IsSweep(S, Ids) /\ IsFiniteSet(Ids)
        BY <1>3, SweepIsSweep, SettingFacts DEF SweepFacts, InText
      <3>3. Hits(cache.rows[r]) # {}
        BY <1>5 DEF Matching
      <3> HIDE DEF r
      <3>4. PICK row : row = cache.rows[r]
        OBVIOUS
      <3>5. IsFiniteSet(Hits(row))
        BY <3>1, <3>2, <3>4, HitsCounted
      <3> QED BY <3>3, <3>4, <3>5
    <2> QED BY <2>1, FS_EmptySet
  <1> HIDE DEF r, total
  <1>9. p \in NextHits /\ NextHits # {} /\ Goal <= look
    <2>1. p >= host.from
      <3>1. host.from \in Nat
        BY <1>3, TextFacts
      <3> QED BY <1>4, <1>7, <3>1
    <2> HIDE DEF p
    <2> QED BY <1>1, <1>2, <1>3, <1>7, <2>1, LaterAnswers
  <1>10. look = Goal
    <2>1. look <= Goal /\ Goal \in Nat
      BY <1>1, <1>2, <1>3, <1>9, GoalFacts DEF SweptInv, OnTheWay
    <2> QED BY <1>2, <1>9, <2>1
  <1>11. p = Min(NextHits)
    <2>1. PICK m : m = Min(NextHits)
      OBVIOUS
    <2>2. /\ m \in BlockLow(cache, look)..BlockHigh(text, cache, look) /\ Answering(m)
          /\ m \in host.from..L /\ m <= p
      BY <1>3, <1>9, <1>10, <2>1, GoalFacts
    <2>3. m >= host.from /\ m \in Int
      <3>1. host.from \in Nat
        BY <1>3, TextFacts
      <3> QED BY <1>4, <2>2, <3>1
    <2>4. m - cache.base \in Matching
      BY <1>4, <2>2, <2>3
    <2>5. r <= m - cache.base
      BY <1>5, <2>4
    <2>6. m = p
      BY <1>4, <1>6, <2>2, <2>3, <2>5
    <2> QED BY <2>1, <2>6
  <1>12. ASSUME total <= host.cap PROVE scan'.buf[1].start = p
    <2> DEFINE hits == Hits(cache.rows[r])
    <2>1. 1 \in 1..Cardinality(hits)
      <3>1. total \in Nat
        BY <1>1, <1>6, RowTuplesTyped DEF total
      <3> QED BY <1>8, <3>1 DEF total
    <2>2. 1 \in DOMAIN Ascending(Hits(cache.rows[r]))
      <3>1. 1 \in DOMAIN Ascending(hits)
        BY <2>1 DEF Ascending
      <3> QED BY <3>1
    <2>3. RowTuples(r)[1].start = cache.base + r
      BY <2>2 DEF RowTuples
    <2> QED BY <1>1, <1>12, <2>3
  <1> HIDE DEF p
  <1>13. cache.cur - 1 = Goal
    BY <1>1, <1>2, <1>10
  <1>14. host'.cap = host.cap /\ (scan'.total <= host.cap => scan'.buf[1].start = Min(NextHits))
    BY <1>1, <1>11, <1>12
  <1> QED BY <1>1, <1>2, <1>8, <1>9, <1>13, <1>14, SweptKept

\* A block is made again for the next answer, or, once for a call that did not
\* fit, where the position asked for is.
LEMMA SweptMade ==
    ASSUME FindInv, HeaderInv, ContentInv, MeterInv, SweptInv, Materialises
    PROVE  SweptInv'
  <1> DEFINE k == cache.stride
             cost == Upto(look + 1) - Upto(look)
  <1>1. /\ look # NoBlock /\ look < cache.nb /\ cache.cum[look + 1] # cache.cum[look]
        /\ cache.cur # look + 1 /\ pc = "host" /\ pc' = "host" /\ look' = look
        /\ set' = set /\ text' = text /\ host' = host
        /\ cache' = Block(S, text, cache, look)
        /\ spent' = [spent EXCEPT !.swept = @ + BlockHigh(text, cache, look) + 1
                                              - BlockLow(cache, look)]
    BY DEF Materialises, Made, AtBlock, Looking, Idle, vars
  <1>2. Live /\ cache.floor <= L /\ look \in Nat
    BY <1>1, LookFacts
  <1>3. InText /\ spent.retries \in Nat /\ spent.swept \in Int
    BY <1>2, InTextHolds DEF MeterInv, MeterType, SweptInv
  <1>4. /\ cache'.cur = look + 1 /\ cache'.floor = cache.floor /\ cache'.stride = cache.stride
        /\ cache'.ready = cache.ready
    <2>1. {"stride", "ready", "floor", "cur", "base", "rows"} \subseteq DOMAIN cache
      BY DEF HeaderInv, IsRegion, Fields, Unoffered
    <2>2. PICK rows : cache' =
            [cache EXCEPT !.cur = look + 1, !.base = BlockLow(cache, look), !.rows = rows]
      BY <1>1 DEF Block
    <2> QED BY <2>1, <2>2
  <1>5. spent'.swept = spent.swept + cost /\ spent'.retries = spent.retries
    <2> DEFINE low == BlockLow(cache, look)
               high == BlockHigh(text, cache, look)
    <2>1. high + 1 - low = cost
      BY <1>1, <1>2, <1>3, BlockCost DEF InText
    <2>2. low \in cache.floor..L /\ high \in low..L /\ cache.floor \in Nat /\ L \in Nat
      <3>1. PICK j : j = look
        OBVIOUS
      <3>2. j \in Nat /\ j < cache.nb
        BY <1>1, <1>2, <3>1
      <3>3. /\ BlockLow(cache, j) \in cache.floor..L
            /\ BlockHigh(text, cache, j) \in BlockLow(cache, j)..L
        BY <1>3, <3>2, BlockSpan DEF InText
      <3>4. cache.floor \in Nat /\ L \in Nat
        BY <1>3, TextFacts
      <3> QED BY <3>1, <3>3, <3>4
    <2>3. spent'.swept = spent.swept + high + 1 - low /\ spent'.retries = spent.retries
      BY <1>1 DEF MeterInv, MeterType
    <2> HIDE DEF low, high, cost
    <2> QED BY <1>3, <2>1, <2>2, <2>3
  <1>6. /\ NextHits' = NextHits /\ FromBlock' = FromBlock /\ Goal' = Goal /\ L' = L
        /\ \A j : Allowed(j)' = Allowed(j)
    BY <1>1, <1>4, <1>5, SameDrive
  <1>7. /\ FromBlock <= look /\ (NextHits # {} => look <= Goal /\ Goal \in Nat)
        /\ FromBlock \in Nat /\ cache.cur \in Nat /\ k \in Nat \ {0}
    BY <1>1, <1>2, <1>3, TextFacts, GoalFacts DEF SweptInv, OnTheWay
  <1>8. FromBlock < look => NextHits # {} /\ look = Goal
    <2>1. PICK p \in BlockLow(cache, look)..BlockHigh(text, cache, look) : Answering(p)
      BY <1>1, <1>2, <1>3, CountTells
    <2>2. FromBlock < look => NextHits # {} /\ Goal <= look
      BY <1>1, <1>2, <1>3, <2>1, LaterAnswers
    <2> QED BY <1>2, <1>7, <2>2
  <1>9. /\ Allowed(look) \in Int /\ Allowed(look + 1) = Allowed(look) + cost
        /\ cost <= k /\ cost \in Int
    <2>1. /\ Upto(look) \in Nat /\ Upto(look + 1) \in Nat
          /\ Upto(look + 1) <= Upto(look) + cache.stride
      BY <1>2, <1>3, TextFacts, UptoFacts
    <2>2. Allowed(look) \in Int
      BY <1>2, <1>3, AllowedFacts
    <2> DEFINE r == 2 * spent.retries * cache.stride
               m == L + 1 - cache.floor
    <2>3. Allowed(look) = m + Upto(look) + r /\ Allowed(look + 1) = m + Upto(look + 1) + r
      BY DEF Allowed
    <2>4. m \in Int /\ r \in Int
      <3>1. m \in Int /\ k \in Int
        BY <1>3, TextFacts
      <3> QED BY <1>3, <3>1
    <2> HIDE DEF m, r
    <2> QED BY <1>7, <2>1, <2>2, <2>3, <2>4
  <1> HIDE DEF cost, k
  <1>10. (Owing \/ Serving \/ Again \/ Returning)'
    <2>1. CASE Owing
      <3>1. cache.cur - 1 <= FromBlock /\ spent.swept <= Allowed(cache.cur)
        BY <2>1 DEF Owing
      <3>2. cache.cur <= look
        BY <1>1, <1>2, <1>7, <3>1
      <3>3. Allowed(cache.cur) \in Int /\ Allowed(cache.cur) <= Allowed(look)
        BY <1>2, <1>3, <1>7, <3>2, AllowedFacts
      <3>4. spent'.swept <= Allowed(look + 1)
        BY <1>3, <1>5, <1>9, <3>1, <3>3
      <3>5. CASE look = FromBlock
        <4>1. Allowed(cache.cur)' = Allowed(look + 1)
          BY <1>4, <1>5, <1>6 DEF Allowed, Upto
        <4>2. cache'.cur - 1 = look
          BY <1>2, <1>4
        <4> QED BY <1>6, <1>7, <3>4, <3>5, <4>1, <4>2 DEF Owing
      <3>6. CASE FromBlock < look
        <4>1. Serving'
          BY <1>1, <1>2, <1>4, <1>6, <1>8, <3>4, <3>6 DEF Serving
        <4> QED BY <4>1
      <3> QED BY <1>2, <1>7, <3>5, <3>6
    <2>2. CASE Serving
      <3>1. look = Goal /\ cache.cur - 1 = Goal
        BY <1>1, <2>2 DEF Serving
      <3> QED BY <1>1, <1>7, <3>1
    <2>3. CASE Again
      <3>1. NextHits # {} /\ cache.cur - 1 = Goal /\ spent.swept + 2 * k <= Allowed(Goal + 1)
        BY <2>3 DEF Again, k
      <3>2. look # Goal
        BY <1>1, <1>7, <3>1
      <3>3. look = FromBlock
        BY <1>2, <1>7, <1>8, <3>2
      <3>4. Allowed(Goal + 1) \in Int
        BY <1>3, <1>7, <3>1, AllowedFacts
      <3>5. spent'.swept + k <= Allowed(Goal + 1)
        BY <1>3, <1>5, <1>7, <1>9, <3>1, <3>4
      <3>6. cache'.cur - 1 = look /\ cache'.stride = k
        BY <1>2, <1>4 DEF k
      <3>7. Returning'
        BY <1>6, <3>1, <3>3, <3>5, <3>6 DEF Returning
      <3> QED BY <3>7
    <2>4. CASE Returning
      <3>1. NextHits # {} /\ cache.cur - 1 = FromBlock /\ spent.swept + k <= Allowed(Goal + 1)
        BY <2>4 DEF Returning, k
      <3>2. look # FromBlock
        BY <1>1, <1>2, <1>7, <3>1
      <3>3. look = Goal
        BY <1>2, <1>7, <1>8, <3>2
      <3>4. Allowed(Goal + 1) \in Int
        BY <1>3, <1>7, <3>1, AllowedFacts
      <3>5. spent'.swept <= Allowed(Goal + 1)
        BY <1>3, <1>5, <1>7, <1>9, <3>1, <3>4
      <3>6. cache'.cur - 1 = look
        BY <1>2, <1>4
      <3>7. Serving'
        BY <1>1, <1>6, <3>1, <3>3, <3>5, <3>6 DEF Serving
      <3> QED BY <3>7
    <2> QED BY <1>2, <2>1, <2>2, <2>3, <2>4 DEF SweptInv
  <1>11. OnTheWay' /\ NextAnswered'
    BY <1>1, <1>6, <1>7 DEF OnTheWay, NextAnswered
  <1>12. Live' /\ spent'.swept \in Int /\ ~(cache.floor > L)'
    <2>1. L \in Nat /\ cache.floor \in Nat
      BY <1>3, TextFacts
    <2> QED BY <1>2, <1>3, <1>4, <1>5, <1>6, <1>9, <2>1 DEF Live
  <1> QED BY <1>10, <1>11, <1>12 DEF SweptInv

\* An answer that was given came from the next answer's block, which is paid for.
LEMMA AnsweredPaid ==
    ASSUME InText, SweptInv, spent.retries \in Nat, pc = "answered", scan.total # 0
    PROVE  /\ NextHits # {} /\ cache.cur - 1 = Goal /\ Goal \in Nat
           /\ spent.swept <= Allowed(Goal + 1) /\ Allowed(Goal + 1) \in Int
           /\ spent.swept \in Int
  <1>1. NextHits # {} /\ cache.cur - 1 = Goal /\ spent.swept \in Int
    BY DEF SweptInv, NextAnswered, InText
  <1>2. Goal \in Nat /\ cache.cur \in Nat /\ cache.stride \in Nat
    BY <1>1, GoalFacts, TextFacts
  <1>3. Allowed(Goal + 1) \in Int
    BY <1>2, AllowedFacts
  <1>4. cache.cur = Goal + 1
    BY <1>1, <1>2
  <1>5. spent.swept <= Allowed(Goal + 1)
    <2>1. Owing \/ Serving \/ Again \/ Returning
      BY DEF SweptInv, InText
    <2>2. CASE Owing
      BY <1>4, <2>2 DEF Owing
    <2>3. CASE Serving
      BY <2>3 DEF Serving
    <2>4. CASE Again
      BY <1>1, <1>2, <1>3, <2>4 DEF Again
    <2>5. CASE Returning
      BY <1>1, <1>2, <1>3, <2>5 DEF Returning
    <2> QED BY <2>1, <2>2, <2>3, <2>4, <2>5
  <1> QED BY <1>1, <1>2, <1>3, <1>5

\* The caller asks again with more room: two blocks more may be swept.
LEMMA SweptRetries ==
    ASSUME FindInv, HeaderInv, ContentInv, MeterInv, SweptInv, Live, cache.floor <= L, Retries,
           look' = NoBlock
    PROVE  SweptInv'
  <1>1. /\ pc = "answered" /\ pc' = "host" /\ scan.total > host.cap
        /\ set' = set /\ text' = text /\ cache' = cache /\ host'.from = host.from
        /\ spent' = [spent EXCEPT !.retries = @ + 1]
    BY DEF Retries, Overflows, Answered, fixed, HeaderInv
  <1>2. InText /\ spent.retries \in Nat /\ scan.total # 0
    <2>1. host.cap \in Nat /\ scan.total \in Int
      BY SettingFacts DEF FindInv, CallerInv, ScanInv, ScanType
    <2> QED BY <1>1, <2>1, InTextHolds DEF MeterInv, MeterType
  <1>3. spent'.retries = spent.retries + 1 /\ spent'.swept = spent.swept
    BY <1>1 DEF MeterInv, MeterType
  <1>4. /\ NextHits # {} /\ cache.cur - 1 = Goal /\ Goal \in Nat
        /\ spent.swept <= Allowed(Goal + 1) /\ Allowed(Goal + 1) \in Int /\ spent.swept \in Int
    BY <1>1, <1>2, AnsweredPaid
  <1>5. NextHits' = NextHits /\ Goal' = Goal /\ L' = L /\ Upto(Goal + 1)' = Upto(Goal + 1)
    <2>1. S' = S /\ L' = L
      BY <1>1 DEF S, L
    <2>2. \A p : Answering(p)' <=> Answering(p)
      BY <1>1, <2>1 DEF Answering, FullFrom
    <2>3. NextHits' = NextHits
      BY <1>1, <2>1, <2>2 DEF NextHits
    <2>4. Goal' = Goal
      BY <1>1, <2>3 DEF Goal, BlockAt
    <2> QED BY <1>1, <2>1, <2>3, <2>4 DEF Upto
  <1>6. Again'
    <2> DEFINE m == L + 1 - cache.floor
               k == cache.stride
               u == Upto(Goal + 1)
               n == spent.retries
    <2>1. m \in Int /\ k \in Nat /\ u \in Nat
      <3>1. L + 1 - cache.floor \in Nat \ {0} /\ cache.stride \in Nat \ {0} /\ Goal + 1 \in Nat
        BY <1>2, <1>4, TextFacts
      <3>2. PICK j : j = Goal + 1
        OBVIOUS
      <3>3. Upto(j) \in Nat
        BY <3>1, <3>2, UptoFacts
      <3> QED BY <3>1, <3>2, <3>3
    <2>2. Allowed(Goal + 1) = m + u + 2 * n * k
      BY DEF Allowed
    <2>3. Allowed(Goal + 1)' = m + u + 2 * (n + 1) * k
      BY <1>1, <1>3, <1>5 DEF Allowed
    <2>4. 2 * (n + 1) * k = 2 * n * k + 2 * k /\ 2 * n * k \in Int
      <3>1. n \in Nat /\ k \in Nat
        BY <1>2, <2>1
      <3> QED BY <3>1
    <2> DEFINE r == 2 * n * k
               s == 2 * (n + 1) * k
    <2>5. s = r + 2 * k /\ r \in Int
      BY <2>4
    <2>6. Allowed(Goal + 1) = m + u + r /\ Allowed(Goal + 1)' = m + u + s
      BY <2>2, <2>3
    <2> HIDE DEF m, u, n, r, s
    <2>7. spent'.swept + 2 * k <= Allowed(Goal + 1)'
      <3> HIDE DEF k
      <3> QED BY <1>3, <1>4, <2>1, <2>5, <2>6
    <2>8. cache'.stride = k /\ cache'.cur = cache.cur
      BY <1>1
    <2> HIDE DEF k
    <2> QED BY <1>4, <1>5, <2>7, <2>8 DEF Again
  <1>7. OnTheWay' /\ NextAnswered'
    BY <1>1 DEF OnTheWay, NextAnswered
  <1>8. Live' /\ spent'.swept \in Int /\ ~(cache.floor > L)'
    <2>1. L \in Nat /\ cache.floor \in Nat
      BY <1>2, TextFacts
    <2> QED BY <1>1, <1>3, <1>4, <1>5, <2>1 DEF Live
  <1> QED BY <1>6, <1>7, <1>8 DEF SweptInv

\* The caller goes on behind the answer it was given.
LEMMA SweptReports ==
    ASSUME FindInv, HeaderInv, ContentInv, MeterInv, SweptInv, Live, cache.floor <= L, Reports,
           cache' = cache, spent' = spent, look' = NoBlock
    PROVE  SweptInv'
  <1>1. /\ pc = "answered" /\ pc' = "host" /\ scan.total \in 1..host.cap
        /\ set' = set /\ text' = text
        /\ host' = [host EXCEPT !.from = scan.buf[1].start + 1]
    BY DEF Reports, Answered, fixed
  <1>2. InText /\ spent.retries \in Nat /\ scan.total # 0 /\ scan.total <= host.cap
    <2>1. host.cap \in Nat
      BY SettingFacts DEF FindInv, CallerInv
    <2> QED BY <1>1, <2>1, InTextHolds DEF MeterInv, MeterType
  <1>3. /\ NextHits # {} /\ cache.cur - 1 = Goal /\ Goal \in Nat
        /\ spent.swept <= Allowed(Goal + 1) /\ spent.swept \in Int
    BY <1>1, <1>2, AnsweredPaid
  <1>4. PICK m : m = Min(NextHits)
    OBVIOUS
  <1>5. scan.buf[1].start = m
    BY <1>1, <1>2, <1>3, <1>4 DEF SweptInv, NextAnswered, InText
  <1>6. /\ m \in Nat /\ cache.floor \in Nat /\ cache.floor <= m /\ m <= L /\ Goal = BlockAt(m)
        /\ L \in Nat /\ cache.cur \in Nat
    <2>1. m \in cache.floor..L /\ Goal = BlockAt(m)
      BY <1>2, <1>3, <1>4, GoalFacts DEF Goal
    <2>2. cache.floor \in Nat /\ L \in Nat /\ cache.cur \in Nat
      BY <1>2, TextFacts
    <2> QED BY <2>1, <2>2
  <1>7. Goal <= BlockAt(m + 1)
    BY <1>2, <1>6, LaterBlock
  <1>8. host'.from = m + 1
    BY <1>1, <1>5 DEF HeaderInv
  <1>9. FromBlock' = BlockAt(m + 1) /\ L' = L /\ \A j : Allowed(j)' = Allowed(j)
    BY <1>1, <1>8 DEF FromBlock, BlockAt, Allowed, Upto, L
  <1>10. Owing'
    <2>1. cache'.cur - 1 = Goal /\ cache.cur = Goal + 1
      BY <1>3, <1>6
    <2>2. spent'.swept <= Allowed(cache.cur)
      BY <1>3, <2>1
    <2>3. Allowed(cache.cur)' = Allowed(cache.cur)
      BY <1>1, <1>9 DEF Allowed, Upto
    <2> QED BY <1>7, <1>9, <2>1, <2>2, <2>3 DEF Owing
  <1>11. OnTheWay' /\ NextAnswered'
    BY <1>1 DEF OnTheWay, NextAnswered
  <1>12. Live' /\ spent'.swept \in Int /\ ~(cache.floor > L)'
    BY <1>3, <1>6, <1>9 DEF Live
  <1> QED BY <1>10, <1>11, <1>12 DEF SweptInv

LEMMA SweptEnds ==
    ASSUME SweptInv, Live, cache.floor <= L, FindEnds,
           cache' = cache, spent' = spent, look' = NoBlock
    PROVE  SweptInv'
  <1>1. /\ pc = "answered" /\ pc' = "host" /\ scan.total = 0
        /\ set' = set /\ text' = text /\ host' = host
    BY DEF FindEnds, Answered, fixed
  <1>2. NextHits = {}
    BY <1>1 DEF SweptInv, NextAnswered
  <1> QED BY <1>1, <1>2, SweptKept DEF Serving

LEMMA SweptInit == CachedInit => SweptInv
  <1> SUFFICES ASSUME CachedInit PROVE SweptInv
    OBVIOUS
  <1>1. look = NoBlock /\ spent.swept = 0 /\ \E offer \in Offers : cache = Brought(offer)
    BY DEF CachedInit
  <1>2. ~Live
    BY <1>1 DEF Live, Brought, Unoffered, Zeroed
  <1> QED BY <1>1, <1>2 DEF SweptInv

\* With a live cache the program only takes what it is given.
LEMMA LiveCaller ==
    ASSUME HeaderInv, ContentInv, Live,
           \/ WalksOn \/ WalkReturns \/ Bails \/ CallReturns \/ Walking \/ Retries
    PROVE  /\ FindEnds \/ Reports \/ Retries
           /\ cache' = cache /\ look' = NoBlock /\ set' = set /\ text' = text
           /\ ~Retries => spent' = spent
           /\ Retries => spent' = [spent EXCEPT !.retries = @ + 1]
  <1>1. pc \in {"host", "answered"}
    BY DEF HeaderInv
  <1>2. /\ ((FindEnds \/ Reports) /\ spent' = spent) \/ Retries
        /\ cache' = cache /\ look' = look
    BY <1>1 DEF Live, WalksOn, WalkReturns, Bails, WalkOver, CallReturns, Walking, Retries,
           Find, Visit, Scanning, NextPosition, SkipGroup, AtGroup, EnterDense, EnterSparse,
           DenseWalks, DenseReturns, SparseWalks, SparseReturns, FindReturns, cacheVars
  <1>3. pc # "host" /\ set' = set /\ text' = text
    BY <1>2 DEF FindEnds, Reports, Retries, Overflows, Answered, fixed
  <1>4. look = NoBlock
    BY <1>3 DEF ContentInv
  <1>5. Retries => spent' = [spent EXCEPT !.retries = @ + 1]
    BY DEF Retries
  <1> QED BY <1>2, <1>3, <1>4, <1>5

LEMMA SweptStep ==
    ASSUME FindInv, HeaderInv, ContentInv, MeterInv, SweptInv, HeaderInv',
           [CachedNext]_<<vars, cacheVars>>
    PROVE  SweptInv'
  <1>1. CASE Sweeps
    BY <1>1, SweptPasses
  <1>2. CASE Live /\ cache.floor <= L /\ ~Sweeps
    <2>1. CASE Locates
      BY <1>2, <2>1, SweptLocates
    <2>2. CASE SkipsBlock \/ BlockBarren
      BY <2>2, SweptLooksOn
    <2>3. CASE PastEnd \/ OutOfBlocks
      BY <1>2, <2>3, SweptEmpty
    <2>4. CASE ServesRow
      BY <2>4, SweptServes
    <2>5. CASE Materialises
      BY <2>5, SweptMade
    <2>6. CASE WalksOn \/ WalkReturns \/ Bails \/ CallReturns \/ Walking \/ Retries
      <3>1. /\ FindEnds \/ Reports \/ Retries
            /\ cache' = cache /\ look' = NoBlock /\ (~Retries => spent' = spent)
        BY <1>2, <2>6, LiveCaller
      <3>2. CASE Retries
        BY <1>2, <3>1, <3>2, SweptRetries
      <3>3. CASE ~Retries /\ FindEnds
        BY <1>2, <3>1, <3>3, SweptEnds
      <3>4. CASE ~Retries /\ Reports
        BY <1>2, <3>1, <3>4, SweptReports
      <3> QED BY <3>1, <3>2, <3>3, <3>4
    <2>7. CASE UNCHANGED <<vars, cacheVars>>
      <3>1. /\ set' = set /\ text' = text /\ host' = host /\ pc' = pc /\ scan' = scan
            /\ cache' = cache /\ look' = look /\ spent' = spent
        BY <2>7 DEF vars, cacheVars
      <3>2. /\ Serving => look' = Goal \/ pc' = "answered"
            /\ OnTheWay /\ NextAnswered
        BY <1>2, <3>1 DEF Serving, SweptInv
      <3> QED BY <1>2, <3>1, <3>2, SweptKept DEF OnTheWay, NextAnswered
    <2> QED BY <1>2, <2>1, <2>2, <2>3, <2>4, <2>5, <2>6, <2>7 DEF CachedNext
  <1>3. CASE ~(Live /\ cache.floor <= L) /\ ~Sweeps
    <2>1. ~Materialises /\ ~SkipsBlock /\ ~BlockBarren
      <3>1. look = NoBlock
        BY <1>3, LookFacts
      <3> QED BY <3>1 DEF Materialises, SkipsBlock, BlockBarren, AtBlock, Looking
    <2>2. CASE Live
      <3>1. L \in Nat /\ cache.floor \in Nat /\ cache.floor > L
        <4>1. L \in Nat /\ L = LenOf(text)
          BY SettingFacts DEF FindInv, L
        <4>2. cache.floor \in Nat
          BY <2>2, <4>1 DEF HeaderInv, Sound
        <4> QED BY <1>3, <2>2, <4>1, <4>2
      <3>2. /\ set' = set /\ text' = text /\ cache' = cache /\ spent'.swept = spent.swept
        <4>1. CASE WalksOn \/ WalkReturns \/ Bails \/ CallReturns \/ Walking \/ Retries
          <5>1. /\ cache' = cache /\ set' = set /\ text' = text
                /\ spent' = spent \/ spent' = [spent EXCEPT !.retries = @ + 1]
            BY <2>2, <4>1, LiveCaller
          <5> QED BY <5>1 DEF MeterInv, MeterType
        <4>2. CASE PastEnd \/ OutOfBlocks \/ ServesRow \/ Locates \/ UNCHANGED <<vars, cacheVars>>
          BY <4>2 DEF PastEnd, OutOfBlocks, ServesRow, Answers, Locates, vars, cacheVars, fixed
        <4> QED BY <1>3, <2>1, <4>1, <4>2 DEF CachedNext
      <3> QED BY <2>2, <3>1, <3>2, SweptIdle
    <2>3. CASE ~Live
      <3>0. look = NoBlock
        BY <2>3 DEF SweptInv
      <3>1. CASE WalksOn \/ WalkReturns \/ Bails \/ CallReturns \/ Walking \/ Retries
        <4>1. /\ set' = set /\ text' = text /\ look' = look
              /\ cache' = cache \/ \E n : cache' = [cache EXCEPT !.work = n]
              /\ spent' = spent \/ \E n : spent' = [spent EXCEPT !.walked = n]
          BY <2>3, <3>1 DEF WalksOn, WalkReturns, Bails, CallReturns, Walking, Retries, Charged,
             Find, Visit, NextPosition, SkipGroup, EnterDense, EnterSparse, DenseWalks,
             DenseReturns, SparseWalks, SparseReturns, FindReturns, FindEnds, Overflows, Reports,
             Answered, fixed, cacheVars
        <4>2. cache'.ready = cache.ready
          BY <4>1 DEF HeaderInv, IsRegion, Fields, Unoffered
        <4>3. spent'.swept = spent.swept
          BY <4>1 DEF MeterInv, MeterType
        <4> QED BY <2>3, <3>0, <4>1, <4>2, <4>3, SweptIdle DEF Live
      <3>2. CASE UNCHANGED <<vars, cacheVars>>
        BY <2>3, <3>0, <3>2, SweptIdle DEF vars, cacheVars, Live
      <3>3. ~(PastEnd \/ OutOfBlocks \/ ServesRow \/ Locates)
        BY <2>3, <3>0 DEF PastEnd, OutOfBlocks, ServesRow, Locates, AtBlock, Looking
      <3> QED BY <1>3, <2>1, <3>1, <3>2, <3>3 DEF CachedNext
    <2> QED BY <2>2, <2>3
  <1> QED BY <1>1, <1>2, <1>3
-----------------------------------------------------------------------------
(* The theorems of the cached find. *)

CachedInv == FindInv /\ HeaderInv /\ ContentInv /\ MeterInv /\ SweptInv

LEMMA CachedInvInit == CachedInit => CachedInv
  <1>1. CachedInit => Init
    BY DEF CachedInit
  <1> QED BY <1>1, FindInvInit, HeaderInvInit, ContentInvInit, MeterInit, SweptInit DEF CachedInv

LEMMA CachedInvStep == CachedInv /\ [CachedNext]_<<vars, cacheVars>> => CachedInv'
  <1> SUFFICES ASSUME CachedInv, [CachedNext]_<<vars, cacheVars>> PROVE CachedInv'
    OBVIOUS
  <1> USE DEF CachedInv
  <1>1. FindInv'
    BY CachedFindStep
  <1>2. Ranged /\ Ranged'
    <2>1. (FindInv => Ranged) /\ (FindInv => Ranged)'
      BY FindRanged, PTL
    <2> QED BY <1>1, <2>1
  <1>3. HeaderInv'
    BY <1>2, HeaderStep
  <1>4. ContentInv'
    BY ContentStep
  <1>5. MeterInv'
    BY MeterStep
  <1>6. SweptInv'
    BY <1>3, SweptStep
  <1> QED BY <1>1, <1>3, <1>4, <1>5, <1>6

LEMMA CachedIsTyped == CachedInv => CachedTypeOK
  <1> SUFFICES ASSUME CachedInv PROVE CachedTypeOK
    OBVIOUS
  <1>1. TypeOK
    BY FindTyped DEF CachedInv
  <1>2. look # NoBlock => pc = "host" /\ Live /\ look \in 0..cache.nb
    BY DEF CachedInv, HeaderInv, ContentInv
  <1>3. HeaderSound
    <2>1. Live => cache.stride >= 1
      BY DEF CachedInv, HeaderInv, IsRegion, Live
    <2> QED BY <2>1 DEF CachedInv, HeaderInv, Sound, HeaderSound
  <1>4. /\ cache.ready \in {-1, 0, 1} /\ cache.work \in Nat
        /\ meter.dear => pc = "host" /\ cache.ready = 0
    BY DEF CachedInv, MeterInv, MeterType
  <1> QED BY <1>1, <1>2, <1>3, <1>4 DEF CachedTypeOK

LEMMA CachedIsLinear == CachedInv => DriveLinear
  <1> SUFFICES ASSUME CachedInv, cache.ready # -1
      PROVE  /\ Counted => spent.walked <= Threshold + L
             /\ spent.swept <= 2 * (L + 1) + 2 * spent.retries * cache.stride
    BY DEF DriveLinear, L
  <1>1. Counted => spent.walked <= Threshold + L
    BY DEF CachedInv, MeterInv, WalkedInv
  <1>2. L \in Nat /\ spent.retries \in Nat /\ cache.stride \in Nat /\ spent.swept \in Int
    BY SettingFacts DEF CachedInv, FindInv, L, MeterInv, MeterType, HeaderInv, IsRegion, SweptInv
  <1>3. spent.swept <= 2 * (L + 1) + 2 * spent.retries * cache.stride
    <2>1. CASE Live /\ cache.floor <= L
      <3>1. InText
        BY <2>1, InTextHolds DEF CachedInv
      <3>2. Owing \/ Serving \/ Again \/ Returning
        BY <2>1 DEF CachedInv, SweptInv
      <3> QED BY <1>2, <3>1, <3>2, SweptPaid
    <2>2. CASE ~(Live /\ cache.floor <= L)
      <3>1. spent.swept = 0
        <4>1. CASE ~Live
          BY <4>1 DEF CachedInv, SweptInv
        <4>2. CASE Live
          <5>1. cache.floor \in Int
            BY <1>2, <4>2 DEF CachedInv, HeaderInv, Sound, L
          <5> QED BY <1>2, <2>2, <4>2, <5>1 DEF CachedInv, SweptInv
        <4> QED BY <4>1, <4>2
      <3> DEFINE r == 2 * spent.retries * cache.stride
      <3>2. r \in Nat
        <4>1. 2 * spent.retries \in Nat
          BY <1>2
        <4> QED BY <1>2, <4>1, Product
      <3> HIDE DEF r
      <3>3. spent.swept <= 2 * (L + 1) + r
        BY <1>2, <3>1, <3>2
      <3> QED BY <3>3 DEF r
    <2> QED BY <2>1, <2>2
  <1> QED BY <1>1, <1>3

\* Every variable of a find with an answer cache keeps to the values the code
\* gives it, and what serving checks on every call is so: a drive never meets
\* its refusals (set_overlap_dp.go emitValidateHeader, emitOutOfOrderCheck).
THEOREM CachedTypeCorrect == CachedSpec => []CachedTypeOK
  <1>1. CachedInv => CachedTypeOK
    BY CachedIsTyped
  <1> QED BY <1>1, CachedInvInit, CachedInvStep, PTL DEF CachedSpec

\* A drive costs a constant number of passes over the text, whatever it matches.
THEOREM CachedDriveLinear == CachedSpec => []DriveLinear
  <1>1. CachedInv => DriveLinear
    BY CachedIsLinear
  <1> QED BY <1>1, CachedInvInit, CachedInvStep, PTL DEF CachedSpec

\* And a bucket's memory is clear between its walks, a call that is left included.
THEOREM CachedScratchClear == CachedSpec => []ScratchClear
  <1>1. CachedInv => ScratchClear
    BY DEF CachedInv, FindInv, MemoryInv
  <1> QED BY <1>1, CachedInvInit, CachedInvStep, PTL DEF CachedSpec
=============================================================================
