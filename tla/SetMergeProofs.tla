--------------------------- MODULE SetMergeProofs ---------------------------
(***************************************************************************)
(* The merge of a split set implements the drive a set promises, for every   *)
(* set of members, text, answer tables, buffer and entry: theorems about      *)
(* SetMerge.                                                                 *)
(***************************************************************************)
EXTENDS SetMerge, TLAPS, FiniteSetTheorems, SequenceTheorems, WellFoundedInduction,
        NaturalsInduction

(* Least and greatest. *)

Below == {pair \in Nat \X Nat : pair[1] < pair[2]}

LEMMA MinOfNats ==
    ASSUME NEW T, T \subseteq Nat, T # {}
    PROVE  Min(T) \in T /\ \A y \in T : Min(T) <= y
  <1>1. OpToRel(<, Nat) = Below
    BY DEF OpToRel, Below
  <1>2. IsWellFoundedOn(Below, Nat)
    BY <1>1, NatLessThanWellFounded, Zenon
  <1>3. PICK x \in T : \A y \in T : ~(<<y, x>> \in Below)
    BY <1>2, WFMin, Zenon
  <1>4. \A y \in T : x <= y
    <2> SUFFICES ASSUME NEW y \in T PROVE x <= y
      OBVIOUS
    <2>1. x \in Nat /\ y \in Nat /\ (y < x => <<y, x>> \in Below)
      BY DEF Below
    <2> QED BY <1>3, <2>1
  <1> QED BY <1>4 DEF Min

LEMMA MaxOfTwo ==
    ASSUME NEW x \in Int, NEW y \in Int
    PROVE  Max({x, y}) = IF x >= y THEN x ELSE y
  BY DEF Max

LEMMA MinOfTwo ==
    ASSUME NEW x \in Int, NEW y \in Int
    PROVE  Min({x, y}) = IF x <= y THEN x ELSE y
  BY DEF Min
-----------------------------------------------------------------------------
(* Ids in ascending order. *)

Before(ids, k) == {j \in ids : j < k}

LEMMA RankGrows ==
    ASSUME NEW ids \in SUBSET Nat, IsFiniteSet(ids), NEW k \in ids, NEW l \in ids, k < l
    PROVE  Cardinality(Before(ids, k)) < Cardinality(Before(ids, l))
  <1> k \in Nat /\ l \in Nat
    OBVIOUS
  <1>0. k \in Before(ids, l) /\ k \notin Before(ids, k)
    BY DEF Before
  <1>a. ASSUME NEW j \in Before(ids, k) PROVE j \in Before(ids, l)
    BY DEF Before
  <1>1. Before(ids, k) \in SUBSET Before(ids, l) /\ Before(ids, k) # Before(ids, l)
    BY <1>0, <1>a
  <1>2. IsFiniteSet(Before(ids, l))
    BY FS_Subset DEF Before
  <1>3. /\ IsFiniteSet(Before(ids, k))
        /\ Cardinality(Before(ids, k)) <= Cardinality(Before(ids, l))
        /\ Cardinality(Before(ids, k)) # Cardinality(Before(ids, l))
    BY <1>1, <1>2, FS_Subset
  <1>4. Cardinality(Before(ids, k)) \in Nat /\ Cardinality(Before(ids, l)) \in Nat
    BY <1>2, <1>3, FS_CardinalityType
  <1> QED BY <1>3, <1>4

LEMMA RankTells ==
    ASSUME NEW ids \in SUBSET Nat, IsFiniteSet(ids), NEW k \in ids, NEW l \in ids,
           Cardinality(Before(ids, k)) = Cardinality(Before(ids, l))
    PROVE  k = l
  <1>1. Before(ids, k) \in SUBSET ids
    BY DEF Before
  <1>2. Cardinality(Before(ids, k)) \in Nat
    BY <1>1, FS_Subset, FS_CardinalityType
  <1>3. CASE k < l
    BY <1>2, <1>3, RankGrows
  <1>4. CASE l < k
    BY <1>2, <1>4, RankGrows
  <1> QED BY <1>3, <1>4

\* Rank by rank the ids are all there.
LEMMA Ranked ==
    ASSUME NEW ids \in SUBSET Nat, IsFiniteSet(ids)
    PROVE  /\ Cardinality(ids) \in Nat
           /\ \A k \in ids : Cardinality(Before(ids, k)) \in 0..(Cardinality(ids) - 1)
           /\ \A i \in 1..Cardinality(ids) :
                  \E k \in ids : Cardinality(Before(ids, k)) = i - 1
  <1>1. Cardinality(ids) \in Nat
    BY FS_CardinalityType
  <1>2. ASSUME NEW k \in ids
        PROVE  Cardinality(Before(ids, k)) \in 0..(Cardinality(ids) - 1)
    <2>1. Before(ids, k) \in SUBSET ids /\ Before(ids, k) # ids
      BY DEF Before
    <2>2. /\ IsFiniteSet(Before(ids, k))
          /\ Cardinality(Before(ids, k)) <= Cardinality(ids)
          /\ Cardinality(Before(ids, k)) # Cardinality(ids)
      BY <2>1, FS_Subset
    <2>3. Cardinality(Before(ids, k)) \in Nat
      BY <2>2, FS_CardinalityType
    <2> QED BY <1>1, <2>2, <2>3
  <1>3. ASSUME NEW i \in 1..Cardinality(ids)
        PROVE  \E k \in ids : Cardinality(Before(ids, k)) = i - 1
    <2> DEFINE place == [k \in ids |-> Cardinality(Before(ids, k)) + 1]
               places == 1..Cardinality(ids)
    <2>1. place \in [ids -> places]
      BY <1>1, <1>2
    <2>2. ASSUME NEW k \in ids, NEW l \in ids, place[k] = place[l] PROVE k = l
      <3>1. Cardinality(Before(ids, k)) = Cardinality(Before(ids, l))
        BY <1>1, <1>2, <2>2
      <3> QED BY <3>1, RankTells
    <2>3. place \in Injection(ids, places)
      BY <2>1, <2>2 DEF Injection, IsInjective
    <2>4. IsFiniteSet(places) /\ Cardinality(places) = Cardinality(ids)
      BY <1>1, FS_Interval
    <2>5. place \in Surjection(ids, places)
      BY <2>3, <2>4, FS_Injection
    <2>6. PICK k \in ids : place[k] = i
      BY <2>5 DEF Surjection
    <2> QED BY <1>1, <1>2, <2>6
  <1> QED BY <1>1, <1>2, <1>3

LEMMA AscendingSorts ==
    ASSUME NEW ids \in SUBSET Nat, IsFiniteSet(ids)
    PROVE  /\ Ascending(ids) \in [1..Cardinality(ids) -> ids]
           /\ \A i \in 1..Cardinality(ids) :
                  Cardinality(Before(ids, Ascending(ids)[i])) = i - 1
           /\ \A k \in ids : \E i \in 1..Cardinality(ids) : Ascending(ids)[i] = k
           /\ \A i, j \in 1..Cardinality(ids) :
                  i # j => Ascending(ids)[i] # Ascending(ids)[j]
  <1>1. \A i \in 1..Cardinality(ids) :
            /\ Ascending(ids)[i] \in ids
            /\ Cardinality(Before(ids, Ascending(ids)[i])) = i - 1
    BY Ranked DEF Ascending, Before
  <1>2. Ascending(ids) \in [1..Cardinality(ids) -> ids]
    BY <1>1 DEF Ascending
  <1>3. ASSUME NEW k \in ids
        PROVE  \E i \in 1..Cardinality(ids) : Ascending(ids)[i] = k
    <2>1. PICK r \in 0..(Cardinality(ids) - 1) : Cardinality(Before(ids, k)) = r
      BY Ranked
    <2>2. r + 1 \in 1..Cardinality(ids) /\ Cardinality(ids) \in Nat
      BY Ranked
    <2>3. Cardinality(Before(ids, Ascending(ids)[r + 1])) = r
      BY <1>1, <2>2
    <2>4. Ascending(ids)[r + 1] = k
      BY <1>1, <2>1, <2>2, <2>3, RankTells
    <2> QED BY <2>2, <2>4
  <1>4. ASSUME NEW i \in 1..Cardinality(ids), NEW j \in 1..Cardinality(ids),
               Ascending(ids)[i] = Ascending(ids)[j]
        PROVE  i = j
    BY <1>1, <1>4
  <1> QED BY <1>1, <1>2, <1>3, <1>4

\* Without its first ids.
FirstIds(order, m) == {order[i] : i \in 1..m}

LEMMA AscendingDrops ==
    ASSUME NEW ids \in SUBSET Nat, IsFiniteSet(ids), NEW m \in 0..Cardinality(ids)
    PROVE  /\ Cardinality(ids \ FirstIds(Ascending(ids), m)) = Cardinality(ids) - m
           /\ \A i \in 1..(Cardinality(ids) - m) :
                  Ascending(ids \ FirstIds(Ascending(ids), m))[i] = Ascending(ids)[m + i]
  <1> DEFINE n == Cardinality(ids)
             nth == Ascending(ids)
             first == {nth[i] : i \in 1..m}
             rest == ids \ first
  <1>1. n \in Nat /\ m \in Nat /\ m <= n
    BY FS_CardinalityType
  <1>2. /\ nth \in [1..n -> ids]
        /\ \A i \in 1..n : Cardinality(Before(ids, nth[i])) = i - 1
        /\ \A k \in ids : \E i \in 1..n : nth[i] = k
        /\ \A i, j \in 1..n : i # j => nth[i] # nth[j]
    BY AscendingSorts
  <1> HIDE DEF nth, n
  <1>3. ASSUME NEW i \in 1..n, NEW j \in 1..n, i < j PROVE nth[i] < nth[j]
    <2>1. nth[i] \in ids /\ nth[j] \in ids /\ ids \subseteq Nat /\ nth[i] # nth[j]
      BY <1>1, <1>2, <1>3
    <2>2. CASE nth[j] < nth[i]
      <3>1. Cardinality(Before(ids, nth[j])) < Cardinality(Before(ids, nth[i]))
        BY <2>1, <2>2, RankGrows
      <3> QED BY <1>1, <1>2, <1>3, <3>1
    <2>3. nth[i] \in Nat /\ nth[j] \in Nat
      BY <2>1
    <2> QED BY <2>1, <2>2, <2>3
  <1>4. first \in SUBSET ids /\ IsFiniteSet(first) /\ Cardinality(first) = m
    <2>1. first \in SUBSET ids
      BY <1>1, <1>2
    <2>2. DEFINE place == [i \in 1..m |-> nth[i]]
    <2>3. place \in Bijection(1..m, first)
      <3>1. place \in Injection(1..m, first)
        BY <1>1, <1>2 DEF Injection, IsInjective
      <3>2. place \in Surjection(1..m, first)
        BY <1>1, <1>2 DEF Surjection
      <3> QED BY <3>1, <3>2 DEF Bijection
    <2>4. IsFiniteSet(1..m) /\ Cardinality(1..m) = m
      BY <1>1, FS_Interval
    <2> HIDE DEF place
    <2>5. ExistsBijection(1..m, first)
      BY <2>3 DEF ExistsBijection
    <2> HIDE DEF first
    <2> QED BY <2>1, <2>4, <2>5, FS_Bijection
  <1>5. rest \in SUBSET ids /\ IsFiniteSet(rest) /\ Cardinality(rest) = n - m
    <2>1. ids \intersect first = first
      BY <1>4
    <2> HIDE DEF first
    <2>2. IsFiniteSet(rest) /\ Cardinality(rest) = Cardinality(ids) - Cardinality(first)
      BY <2>1, FS_Difference
    <2> QED BY <1>4, <2>2 DEF n
  <1>6. ASSUME NEW i \in 1..(n - m)
        PROVE  nth[m + i] \in rest /\ Cardinality(Before(rest, nth[m + i])) = i - 1
    <2>1. m + i \in 1..n
      BY <1>1
    <2>2. nth[m + i] \in rest
      BY <1>1, <1>2, <2>1
    <2> DEFINE lower == Before(ids, nth[m + i])
    <2>3. first \in SUBSET lower
      <3>1. ASSUME NEW j \in 1..m PROVE nth[j] \in lower
        BY <1>1, <1>2, <1>3, <2>1 DEF Before
      <3> QED BY <3>1
    <2>4. Before(rest, nth[m + i]) = lower \ first
      BY DEF Before
    <2>5. IsFiniteSet(lower) /\ Cardinality(lower) = m + i - 1
      <3>1. lower \in SUBSET ids
        BY DEF Before
      <3>2. IsFiniteSet(lower)
        BY <3>1, FS_Subset
      <3> HIDE DEF lower
      <3>3. Cardinality(lower) = (m + i) - 1
        BY <1>2, <2>1 DEF lower
      <3> QED BY <1>1, <3>2, <3>3
    <2> HIDE DEF lower, first
    <2>6. Cardinality(lower \ first) = Cardinality(lower) - Cardinality(first)
      <3>1. lower \intersect first = first
        BY <2>3
      <3>2. Cardinality(lower \ first)
                = Cardinality(lower) - Cardinality(lower \intersect first)
        BY <2>5, FS_Difference, Zenon
      <3> QED BY <3>1, <3>2
    <2> QED BY <1>1, <1>4, <2>2, <2>4, <2>5, <2>6
  <1>7. ASSUME NEW i \in 1..(n - m)
        PROVE  Ascending(rest)[i] = nth[m + i]
    <2>1. i \in 1..Cardinality(rest)
      BY <1>5
    <2> HIDE DEF rest
    <2>2. /\ Ascending(rest)[i] \in rest
          /\ Cardinality(Before(rest, Ascending(rest)[i])) = i - 1
      BY <1>5, <2>1, AscendingSorts
    <2>3. nth[m + i] \in rest /\ Cardinality(Before(rest, nth[m + i])) = i - 1
      BY <1>6
    <2>4. rest \in SUBSET Nat /\ IsFiniteSet(rest)
      BY <1>5
    <2>5. Cardinality(Before(rest, Ascending(rest)[i]))
              = Cardinality(Before(rest, nth[m + i]))
      BY <2>2, <2>3
    <2>6. \A k, l \in rest :
              Cardinality(Before(rest, k)) = Cardinality(Before(rest, l)) => k = l
      BY <2>4, RankTells
    <2> QED BY <2>2, <2>3, <2>5, <2>6, Zenon
  <1>8. first = FirstIds(nth, m)
    BY DEF FirstIds
  <1> HIDE DEF first
  <1> QED BY <1>5, <1>7, <1>8 DEF n, nth
-----------------------------------------------------------------------------
(* The order of a position: the kept ids before the split ones. *)

Order(ids) == Ascending(ids \intersect Kept) \o Ascending(ids \intersect Split)
KeptCount(ids) == Cardinality(ids \intersect Kept)

\* order has each of the ids at one place.
Lists(order, ids) ==
    /\ order \in Seq(ids)
    /\ \A k \in ids : \E i \in 1..Len(order) : order[i] = k
    /\ \A i, j \in 1..Len(order) : i # j => order[i] # order[j]

LEMMA AscendingLists ==
    ASSUME NEW ids \in SUBSET Nat, IsFiniteSet(ids)
    PROVE  Lists(Ascending(ids), ids) /\ Len(Ascending(ids)) = Cardinality(ids)
  <1>1. Cardinality(ids) \in Nat
    BY FS_CardinalityType
  <1>2. /\ Ascending(ids) \in [1..Cardinality(ids) -> ids]
        /\ \A k \in ids : \E i \in 1..Cardinality(ids) : Ascending(ids)[i] = k
        /\ \A i, j \in 1..Cardinality(ids) :
               i # j => Ascending(ids)[i] # Ascending(ids)[j]
    BY AscendingSorts
  <1>3. Ascending(ids) \in Seq(ids) /\ Len(Ascending(ids)) = Cardinality(ids)
    BY <1>1, <1>2
  <1> QED BY <1>2, <1>3 DEF Lists

LEMMA OrderLists ==
    ASSUME NEW ids \in SUBSET Members
    PROVE  /\ IsFiniteSet(ids) /\ Cardinality(ids) \in Nat
           /\ KeptCount(ids) \in Nat /\ Cardinality(ids \intersect Split) \in Nat
           /\ Cardinality(ids) = KeptCount(ids) + Cardinality(ids \intersect Split)
           /\ Lists(Order(ids), ids) /\ Len(Order(ids)) = Cardinality(ids)
           /\ \A i \in 1..Cardinality(ids) :
                  Order(ids)[i] = IF i <= KeptCount(ids)
                                  THEN Ascending(ids \intersect Kept)[i]
                                  ELSE Ascending(ids \intersect Split)[i - KeptCount(ids)]
  <1> DEFINE K == ids \intersect Kept
             P == ids \intersect Split
             s == Ascending(K)
             t == Ascending(P)
  <1>1. K \in SUBSET Nat /\ IsFiniteSet(K) /\ P \in SUBSET Nat /\ IsFiniteSet(P)
    BY MemberAssumption, FS_Intersection
  <1>a. K \union P = ids /\ K \intersect P = {}
    BY MemberAssumption DEF Members
  <1>2. /\ K \subseteq ids /\ P \subseteq ids
        /\ \A x \in ids : ~(x \in K /\ x \in P) /\ (x \in K \/ x \in P)
    BY MemberAssumption DEF Members
  <1> HIDE DEF K, P
  <1>3. Cardinality(K) \in Nat /\ Cardinality(P) \in Nat
    BY <1>1, FS_CardinalityType
  <1>4. IsFiniteSet(ids) /\ Cardinality(ids) = Cardinality(K) + Cardinality(P)
    <2>1. Cardinality({}) = 0
      BY FS_EmptySet
    <2>2. /\ IsFiniteSet(ids)
          /\ Cardinality(ids) = Cardinality(K) + Cardinality(P) - Cardinality({})
      BY <1>1, <1>a, FS_Union, Zenon
    <2> QED BY <1>3, <2>1, <2>2
  <1>5. /\ Lists(s, K) /\ Len(s) = Cardinality(K)
        /\ Lists(t, P) /\ Len(t) = Cardinality(P)
    BY <1>1, AscendingLists
  <1> HIDE DEF s, t
  <1>6. /\ s \in Seq(K) /\ \A x \in K : \E i \in 1..Len(s) : s[i] = x
        /\ \A i, j \in 1..Len(s) : i # j => s[i] # s[j]
        /\ t \in Seq(P) /\ \A x \in P : \E i \in 1..Len(t) : t[i] = x
        /\ \A i, j \in 1..Len(t) : i # j => t[i] # t[j]
    BY <1>5 DEF Lists
  <1>7. s \in Seq(ids) /\ t \in Seq(ids)
    BY <1>2, <1>6
  <1> DEFINE o == s \o t
             k == Len(s)
             p == Len(t)
  <1>8. /\ o \in Seq(ids) /\ Len(o) = k + p /\ k \in Nat /\ p \in Nat
        /\ \A i \in 1..(k + p) : o[i] = IF i <= k THEN s[i] ELSE t[i - k]
    BY <1>7, SMT
  <1>9. /\ \A i \in 1..k : s[i] \in K
        /\ \A i \in 1..p : t[i] \in P
    BY <1>6
  <1> HIDE DEF o, k, p
  <1>10. ASSUME NEW x \in ids PROVE \E i \in 1..(k + p) : o[i] = x
    <2>1. CASE x \in K
      <3>1. PICK i \in 1..k : s[i] = x
        BY <1>6, <2>1 DEF k
      <3>2. i \in 1..(k + p) /\ i <= k
        BY <1>8
      <3> QED BY <1>8, <3>1, <3>2
    <2>2. CASE x \in P
      <3>1. PICK i \in 1..p : t[i] = x
        BY <1>6, <2>2 DEF p
      <3>2. k + i \in 1..(k + p) /\ ~(k + i <= k) /\ (k + i) - k = i
        BY <1>8
      <3> QED BY <1>8, <3>1, <3>2
    <2> QED BY <1>2, <2>1, <2>2
  <1>11. ASSUME NEW i \in 1..(k + p), NEW j \in 1..(k + p), i # j PROVE o[i] # o[j]
    <2>1. CASE i <= k /\ j <= k
      <3>1. i \in 1..k /\ j \in 1..k /\ o[i] = s[i] /\ o[j] = s[j]
        BY <1>8, <2>1
      <3> QED BY <1>6, <1>11, <3>1 DEF k
    <2>2. CASE ~(i <= k) /\ ~(j <= k)
      <3>1. i - k \in 1..p /\ j - k \in 1..p /\ i - k # j - k
        BY <1>8, <1>11, <2>2
      <3>2. o[i] = t[i - k] /\ o[j] = t[j - k]
        BY <1>8, <2>2
      <3>3. t[i - k] # t[j - k]
        BY <1>6, <3>1, Zenon DEF p
      <3> QED BY <3>2, <3>3
    <2>3. ASSUME NEW a \in 1..(k + p), NEW b \in 1..(k + p), a <= k, ~(b <= k)
          PROVE  o[a] # o[b]
      <3>1. a \in 1..k /\ b - k \in 1..p /\ o[a] = s[a] /\ o[b] = t[b - k]
        BY <1>8, <2>3
      <3>2. o[a] \in K /\ o[b] \in P
        BY <1>9, <3>1
      <3> QED BY <1>2, <3>2
    <2> QED BY <2>1, <2>2, <2>3
  <1>12. Lists(o, ids)
    BY <1>8, <1>10, <1>11 DEF Lists
  <1>13. Order(ids) = o
    BY DEF Order, o, K, P, s, t
  <1>14. KeptCount(ids) = k /\ Cardinality(ids \intersect Split) = p
    BY <1>5 DEF KeptCount, k, p, K, P
  <1>15. /\ Len(o) = Cardinality(ids) /\ Cardinality(ids) = k + p
         /\ \A i \in 1..Cardinality(ids) : o[i] = IF i <= k THEN s[i] ELSE t[i - k]
    BY <1>4, <1>5, <1>8 DEF k, p
  <1>16. \A i \in 1..Cardinality(ids) :
             Order(ids)[i] = IF i <= KeptCount(ids)
                             THEN Ascending(ids \intersect Kept)[i]
                             ELSE Ascending(ids \intersect Split)[i - KeptCount(ids)]
    BY <1>13, <1>14, <1>15 DEF s, t, K, P
  <1>17. Lists(Order(ids), ids) /\ Len(Order(ids)) = Cardinality(ids)
    BY <1>12, <1>13, <1>15
  <1>18. /\ IsFiniteSet(ids) /\ Cardinality(ids) \in Nat
         /\ KeptCount(ids) \in Nat /\ Cardinality(ids \intersect Split) \in Nat
         /\ Cardinality(ids) = KeptCount(ids) + Cardinality(ids \intersect Split)
    BY <1>4, <1>8, <1>14, <1>15
  <1> QED BY <1>16, <1>17, <1>18, Zenon

LEMMA OrderDrops ==
    ASSUME NEW ids \in SUBSET Members, NEW n \in 0..Cardinality(ids)
    PROVE  /\ Cardinality(ids \ FirstIds(Order(ids), n)) = Cardinality(ids) - n
           /\ \A i \in 1..(Cardinality(ids) - n) :
                  Order(ids \ FirstIds(Order(ids), n))[i] = Order(ids)[n + i]
  <1> DEFINE K == ids \intersect Kept
             P == ids \intersect Split
             k == Cardinality(K)
             p == Cardinality(P)
             o == Order(ids)
             rest == ids \ FirstIds(o, n)
  <1>1. /\ K \in SUBSET Nat /\ IsFiniteSet(K) /\ P \in SUBSET Nat /\ IsFiniteSet(P)
        /\ \A x \in ids : (x \in K \/ x \in P) /\ ~(x \in K /\ x \in P)
        /\ rest \in SUBSET Members
    BY MemberAssumption, FS_Intersection DEF Members
  <1> HIDE DEF K, P, k, p, o, rest
  <1>2. /\ k \in Nat /\ p \in Nat /\ Cardinality(ids) = k + p /\ n \in Nat
        /\ \A i \in 1..(k + p) : o[i] = IF i <= k THEN Ascending(K)[i]
                                                   ELSE Ascending(P)[i - k]
    <2>1. KeptCount(ids) = k /\ Cardinality(ids \intersect Split) = p
      BY DEF KeptCount, K, P, k, p
    <2>2. k \in Nat /\ p \in Nat /\ Cardinality(ids) = k + p
      BY <2>1, OrderLists
    <2>3. \A i \in 1..Cardinality(ids) :
              Order(ids)[i] = IF i <= KeptCount(ids) THEN Ascending(ids \intersect Kept)[i]
                              ELSE Ascending(ids \intersect Split)[i - KeptCount(ids)]
      BY OrderLists
    <2>4. \A i \in 1..(k + p) : o[i] = IF i <= k THEN Ascending(K)[i]
                                                  ELSE Ascending(P)[i - k]
      BY <2>1, <2>2, <2>3, Zenon DEF o, K, P
    <2> QED BY <2>2, <2>4
  <1>3. /\ Lists(Ascending(K), K) /\ Len(Ascending(K)) = k
        /\ Lists(Ascending(P), P) /\ Len(Ascending(P)) = p
    BY <1>1, AscendingLists DEF k, p
  <1>4. /\ \A i \in 1..k : Ascending(K)[i] \in K
        /\ \A x \in K : \E i \in 1..k : Ascending(K)[i] = x
        /\ \A i \in 1..p : Ascending(P)[i] \in P
    BY <1>3 DEF Lists
  <1> DEFINE Dropped == /\ Cardinality(rest) = (k + p) - n
                        /\ \A i \in 1..((k + p) - n) : Order(rest)[i] = o[n + i]
  <1>5. ASSUME n <= k PROVE Dropped
    <2>1. n \in 0..k
      BY <1>2, <1>5
    <2> DEFINE F == FirstIds(Ascending(K), n)
    <2>2. /\ Cardinality(K \ F) = k - n
          /\ \A i \in 1..(k - n) : Ascending(K \ F)[i] = Ascending(K)[n + i]
      BY <1>1, <2>1, AscendingDrops DEF k
    <2>3. FirstIds(o, n) = F
      BY <1>2, <1>5, <2>1 DEF FirstIds
    <2>4. F \subseteq K
      <3>1. \A i \in 1..n : i \in 1..k
        BY <1>2, <2>1
      <3> QED BY <1>4, <3>1 DEF FirstIds
    <2> HIDE DEF F
    <2>5. rest \intersect Kept = K \ F /\ rest \intersect Split = P
      BY <1>1, <2>3, <2>4 DEF K, P, rest
    <2>6. /\ Cardinality(rest) = Cardinality(rest \intersect Kept) + Cardinality(rest \intersect Split)
          /\ \A i \in 1..Cardinality(rest) :
                 Order(rest)[i] = IF i <= Cardinality(rest \intersect Kept)
                                  THEN Ascending(rest \intersect Kept)[i]
                                  ELSE Ascending(rest \intersect Split)[i - Cardinality(rest \intersect Kept)]
      BY <1>1, OrderLists DEF KeptCount
    <2>7. /\ Cardinality(rest) = (k - n) + p
          /\ \A i \in 1..((k - n) + p) :
                 Order(rest)[i] = IF i <= k - n THEN Ascending(K \ F)[i]
                                  ELSE Ascending(P)[i - (k - n)]
      BY <2>2, <2>5, <2>6, Zenon DEF p
    <2>8. ASSUME NEW i \in 1..((k + p) - n) PROVE Order(rest)[i] = o[n + i]
      <3>1. n + i \in 1..(k + p) /\ i \in 1..((k - n) + p)
        BY <1>2, <2>1
      <3>2. CASE i <= k - n
        <4>1. i \in 1..(k - n) /\ n + i <= k
          BY <1>2, <2>1, <3>2
        <4> QED BY <1>2, <2>2, <2>7, <3>1, <3>2, <4>1
      <3>3. CASE ~(i <= k - n)
        <4>1. ~(n + i <= k) /\ (n + i) - k = i - (k - n)
          BY <1>2, <2>1, <3>3
        <4> QED BY <1>2, <2>7, <3>1, <3>3, <4>1
      <3> QED BY <3>2, <3>3
    <2> QED BY <1>2, <2>1, <2>7, <2>8
  <1>6. ASSUME n > k PROVE Dropped
    <2>1. n - k \in 0..p /\ n - k \in Nat
      BY <1>2, <1>6
    <2> DEFINE G == FirstIds(Ascending(P), n - k)
    <2>2. /\ Cardinality(P \ G) = p - (n - k)
          /\ \A i \in 1..(p - (n - k)) : Ascending(P \ G)[i] = Ascending(P)[(n - k) + i]
      BY <1>1, <2>1, AscendingDrops DEF p
    <2>3. ASSUME NEW x \in ids PROVE x \in FirstIds(o, n) <=> x \in K \/ x \in G
      <3>1. ASSUME x \in K PROVE x \in FirstIds(o, n)
        <4>1. PICK i \in 1..k : Ascending(K)[i] = x
          BY <1>4, <3>1
        <4>2. i \in 1..n /\ o[i] = x
          BY <1>2, <1>6, <4>1
        <4> QED BY <4>2 DEF FirstIds
      <3>2. ASSUME x \in G PROVE x \in FirstIds(o, n)
        <4>1. PICK i \in 1..(n - k) : Ascending(P)[i] = x
          BY <3>2 DEF FirstIds
        <4>2. k + i \in 1..n /\ k + i \in 1..(k + p) /\ ~(k + i <= k) /\ (k + i) - k = i
          BY <1>2, <2>1
        <4>3. o[k + i] = x
          BY <1>2, <4>1, <4>2
        <4> QED BY <4>2, <4>3 DEF FirstIds
      <3>3. ASSUME x \in FirstIds(o, n) PROVE x \in K \/ x \in G
        <4>1. PICK i \in 1..n : o[i] = x
          BY <3>3 DEF FirstIds
        <4>2. i \in 1..(k + p)
          BY <1>2
        <4>3. CASE i <= k
          BY <1>2, <1>4, <4>1, <4>2, <4>3
        <4>4. CASE ~(i <= k)
          <5>1. i - k \in 1..(n - k) /\ Ascending(P)[i - k] = x
            BY <1>2, <4>1, <4>2, <4>4
          <5> QED BY <5>1 DEF FirstIds
        <4> QED BY <4>3, <4>4
      <3> QED BY <3>1, <3>2, <3>3
    <2> HIDE DEF G
    <2>5. rest \intersect Kept = {} /\ rest \intersect Split = P \ G
      BY <1>1, <2>3, MemberAssumption DEF K, P, rest
    <2>6. /\ Cardinality(rest) = Cardinality(rest \intersect Kept) + Cardinality(rest \intersect Split)
          /\ \A i \in 1..Cardinality(rest) :
                 Order(rest)[i] = IF i <= Cardinality(rest \intersect Kept)
                                  THEN Ascending(rest \intersect Kept)[i]
                                  ELSE Ascending(rest \intersect Split)[i - Cardinality(rest \intersect Kept)]
      BY <1>1, OrderLists DEF KeptCount
    <2>7. Cardinality({}) = 0
      BY FS_EmptySet
    <2>8. /\ Cardinality(rest) = 0 + (p - (n - k))
          /\ \A i \in 1..(0 + (p - (n - k))) :
                 Order(rest)[i] = IF i <= 0 THEN Ascending({})[i] ELSE Ascending(P \ G)[i - 0]
      BY <2>2, <2>5, <2>6, <2>7, Zenon
    <2>9. ASSUME NEW i \in 1..((k + p) - n) PROVE Order(rest)[i] = o[n + i]
      <3>1. /\ n + i \in 1..(k + p) /\ i \in 1..(0 + (p - (n - k))) /\ ~(i <= 0)
            /\ i \in 1..(p - (n - k)) /\ i - 0 = i
            /\ ~(n + i <= k) /\ (n - k) + i = (n + i) - k
        BY <1>2, <1>6, <2>1
      <3>2. Order(rest)[i] = Ascending(P \ G)[i]
        BY <2>8, <3>1
      <3>3. Ascending(P \ G)[i] = Ascending(P)[(n + i) - k]
        BY <2>2, <3>1
      <3> QED BY <1>2, <3>1, <3>2, <3>3
    <2> QED BY <1>2, <2>1, <2>8, <2>9
  <1>7. Dropped
    <2> HIDE DEF Dropped
    <2> QED BY <1>2, <1>5, <1>6
  <1> QED BY <1>2, <1>7, Zenon DEF rest, o
-----------------------------------------------------------------------------
(* What the drive still owes, and what the caller was promised.             *)

\* The matches left to member k: an overlapping set owes a position whole
\* until it has been left.
Owing(k) == {s \in host.from..Length :
                /\ ends[k][s] # NoMatch
                /\ shape.gated => s \in Given!Pending(k)}
Due(s) == {k \in Members : s \in Owing(k)}
Skipped == FirstIds(Order(Due(host.from)), host.skip)

AllOwing(ids) == UNION {Owing(k) : k \in ids}
Earliest(T) == IF T = {} THEN Never ELSE Min(T)
\* The matches of the next position, skipped ones included.
PositionOf(s, ids) == [i \in 1..Cardinality(ids) |-> Tuple(Order(ids)[i], s)]
Whole == LET all == AllOwing(Members) IN
         IF all = {} THEN << >> ELSE PositionOf(Min(all), Due(Min(all)))
KeptPart == LET all == AllOwing(Kept) IN
            IF all = {} THEN << >> ELSE TuplesAt(Min(all), Due(Min(all)) \intersect Kept)

\* A gate lets through what is owed and nothing else.
Exact(g, k) == \A s \in host.from..Length :
    ends[k][s] # NoMatch => (s \in Owing(k) <=> Lets(g, k, s))

\* Gated ahead of their delivery: the members of the answer being made.
Promised == IdsOf(Gated(call.list)) \union IdsOf(Gated(call.answer))
-----------------------------------------------------------------------------
(* The inductive invariant. *)

Matches == {Tuple(p[1], p[2]) : p \in {p \in Members \X Starts : ends[p[1]][p[2]] # NoMatch}}

TypeInv ==
    /\ ends \in [Members -> Tables] /\ shape \in Shapes /\ origin \in Origins
    /\ gate \in [Members -> 0..Dead]
    /\ host \in [from : 0..(Length + 1), skip : Nat, cap : Nat]
    /\ out \in Seq(Matches) /\ buf \in Seq(Matches) /\ offered \in Seq(Matches)
    /\ status \in {"driving", "done", "unknown"}
    /\ pc \in {"host", "walk", "merge", "answered"}
    /\ call \in [bound : [Candidates -> 0..(Length + 1)],
                 starts : [Candidates -> Starts \union {Never}],
                 asked : SUBSET Candidates,
                 list : Seq(Matches), answer : Seq(Matches)]
    /\ reached \in [Split -> NoMatch..(Length + 1)]
    /\ refused \subseteq Candidates

\* What each mode and each program counter allows.
ModeInv ==
    /\ ~shape.batch => pc # "walk" /\ buf = << >> /\ host.skip = 0
    /\ shape.batch /\ pc # "host" => host.cap >= host.skip
    /\ shape.batch /\ pc \in {"merge", "answered"} => host.cap > host.skip
    /\ shape.gated => host.skip = 0
    /\ pc # "host" => status = "driving"
    /\ pc = "host" => buf = << >>
    /\ pc = "merge" => host.from <= Length
    /\ offered # << >> => ~shape.batch
    /\ buf # << >> => host.from > 0

\* The merge's locals, whatever the answers are worth.
CallInv ==
    /\ pc \in {"host", "walk"} => call = NoCall
    /\ pc = "answered" => call.list = << >> /\ call.asked = {}
    /\ pc = "merge" =>
          /\ call.answer = << >>
          /\ \A c \in Candidates \ call.asked :
                call.bound[c] = Bound(c) /\ call.starts[c] = Never
          /\ \A k \in Split : call.starts[k] # Never => ends[k][call.starts[k]] # NoMatch
          /\ \A i \in DOMAIN call.list :
                /\ KeptBody \in call.asked
                /\ call.list[i].id \in Kept /\ call.list[i].start = call.starts[KeptBody]
          /\ KeptBody \in call.asked /\ call.list = << >> => call.starts[KeptBody] = Never

\* Where a member was last searched from, its gate remembers.
ReachInv == \A k \in Split :
    /\ gate[k] >= 2 * reached[k]
    /\ pc = "merge" /\ k \in call.asked => reached[k] <= call.starts[k]

PendingInv ==
    /\ \A k \in Members :
          Given!Pending(k) = {s \in Owing(k) : ~(s = host.from /\ k \in Skipped)}
    /\ host.skip > 0 => /\ host.from <= Length
                        /\ host.skip < Cardinality(Due(host.from))

\* What the candidates asked have answered, and the answer of all.
AnswerInv ==
    /\ pc = "merge" =>
          /\ \A k \in Split \intersect call.asked :
                call.starts[k] = Earliest(Owing(k))
          /\ KeptBody \in call.asked =>
                call.starts[KeptBody] = Earliest(AllOwing(Kept)) /\ call.list = KeptPart
    /\ pc = "answered" => reply = Whole
    /\ offered # << >> => offered = Whole

GateInv ==
    /\ \A list \in {call.list, call.answer} : \A i \in DOMAIN Gated(list) :
          gate[Gated(list)[i].id] = Reported(Gated(list)[i])
    /\ \A k \in Members \ Promised : Exact(gate, k)

\* Nothing before the candidate that gave up, which no call will get past.
Stuck(k) ==
    /\ Bound(k) <= Length
    /\ \A j \in Members : \A s \in host.from..(Bound(k) - 1) :
          ends[j][s] # NoMatch => ~Lets(gate, j, s)
    /\ pc = "merge" => k \notin call.asked /\ \A c \in call.asked : call.starts[c] >= Bound(k)
StuckInv ==
    /\ shape.batch /\ buf = << >>
    /\ pc \in {"host", "walk", "merge"}
    /\ \E k \in refused : Stuck(k)

Inv ==
    /\ TypeInv /\ ModeInv /\ CallInv /\ ReachInv
    /\ shape.gated /\ refused # {} /\ status = "driving" => StuckInv
    /\ ~(shape.gated /\ refused # {}) => PendingInv /\ AnswerInv /\ GateInv

-----------------------------------------------------------------------------
(* Positions as lists of matches. *)

AllAt(s) == {Tuple(k, s) : k \in Members}

LEMMA TuplesAtLists ==
    ASSUME NEW ids \in SUBSET Members, IsFiniteSet(ids), NEW s
    PROVE  /\ TuplesAt(s, ids) \in Seq(AllAt(s)) /\ Len(TuplesAt(s, ids)) = Cardinality(ids)
           /\ Cardinality(ids) \in Nat
           /\ \A i \in 1..Cardinality(ids) :
                  /\ TuplesAt(s, ids)[i] = Tuple(Ascending(ids)[i], s)
                  /\ Ascending(ids)[i] \in ids
  <1>1. Cardinality(ids) \in Nat
    BY FS_CardinalityType
  <1>2. ids \in SUBSET Nat
    BY MemberAssumption DEF Members
  <1>3. DOMAIN Ascending(ids) = 1..Cardinality(ids)
    BY DEF Ascending
  <1>4. \A i \in 1..Cardinality(ids) : Ascending(ids)[i] \in ids
    BY <1>2, AscendingSorts
  <1>5. TuplesAt(s, ids) = [i \in 1..Cardinality(ids) |-> Tuple(Ascending(ids)[i], s)]
    BY <1>3 DEF TuplesAt
  <1>6. TuplesAt(s, ids) \in [1..Cardinality(ids) -> AllAt(s)]
    BY <1>4, <1>5 DEF AllAt
  <1> QED BY <1>1, <1>4, <1>5, <1>6

LEMMA PositionLists ==
    ASSUME NEW ids \in SUBSET Members, NEW s
    PROVE  /\ PositionOf(s, ids) \in Seq(AllAt(s))
           /\ Len(PositionOf(s, ids)) = Cardinality(ids) /\ Cardinality(ids) \in Nat
           /\ \A i \in 1..Cardinality(ids) :
                  /\ PositionOf(s, ids)[i] = Tuple(Order(ids)[i], s)
                  /\ Order(ids)[i] \in ids
           /\ \A k \in ids : \E i \in 1..Cardinality(ids) : Order(ids)[i] = k
           /\ \A i, j \in 1..Cardinality(ids) : i # j => Order(ids)[i] # Order(ids)[j]
  <1>1. /\ Lists(Order(ids), ids) /\ Len(Order(ids)) = Cardinality(ids)
        /\ Cardinality(ids) \in Nat
    BY OrderLists
  <1>2. \A i \in 1..Cardinality(ids) : Order(ids)[i] \in ids
    BY <1>1 DEF Lists
  <1>3. PositionOf(s, ids) \in [1..Cardinality(ids) -> AllAt(s)]
    BY <1>2 DEF AllAt, PositionOf
  <1>4. /\ PositionOf(s, ids) \in Seq(AllAt(s))
        /\ Len(PositionOf(s, ids)) = Cardinality(ids)
    BY <1>1, <1>3
  <1>5. \A i \in 1..Cardinality(ids) : PositionOf(s, ids)[i] = Tuple(Order(ids)[i], s)
    BY DEF PositionOf
  <1>6. /\ \A k \in ids : \E i \in 1..Cardinality(ids) : Order(ids)[i] = k
        /\ \A i, j \in 1..Cardinality(ids) : i # j => Order(ids)[i] # Order(ids)[j]
    BY <1>1 DEF Lists
  <1> QED BY <1>1, <1>2, <1>4, <1>5, <1>6

\* The kept body's matches and the members' are a position.
LEMMA PositionJoins ==
    ASSUME NEW ids \in SUBSET Members, NEW s
    PROVE  TuplesAt(s, ids \intersect Kept) \o TuplesAt(s, ids \intersect Split)
               = PositionOf(s, ids)
  <1> DEFINE K == ids \intersect Kept
             P == ids \intersect Split
             a == TuplesAt(s, K)
             b == TuplesAt(s, P)
             w == PositionOf(s, ids)
  <1>1. K \in SUBSET Members /\ P \in SUBSET Members /\ IsFiniteSet(K) /\ IsFiniteSet(P)
    BY MemberAssumption, FS_Intersection
  <1>2. Cardinality(K) = KeptCount(ids) /\ Cardinality(ids) = Cardinality(K) + Cardinality(P)
    BY OrderLists DEF KeptCount
  <1>3. \A i \in 1..Cardinality(ids) :
            Order(ids)[i] = IF i <= Cardinality(K) THEN Ascending(K)[i]
                            ELSE Ascending(P)[i - Cardinality(K)]
    BY <1>2, OrderLists, Zenon
  <1> HIDE DEF K, P
  <1>4. /\ a \in Seq(AllAt(s)) /\ Len(a) = Cardinality(K) /\ Cardinality(K) \in Nat
        /\ \A i \in 1..Cardinality(K) : a[i] = Tuple(Ascending(K)[i], s)
    BY <1>1, TuplesAtLists
  <1>5. /\ b \in Seq(AllAt(s)) /\ Len(b) = Cardinality(P) /\ Cardinality(P) \in Nat
        /\ \A i \in 1..Cardinality(P) : b[i] = Tuple(Ascending(P)[i], s)
    BY <1>1, TuplesAtLists
  <1>6. /\ w \in Seq(AllAt(s)) /\ Len(w) = Cardinality(ids)
        /\ \A i \in 1..Cardinality(ids) : w[i] = Tuple(Order(ids)[i], s)
    BY PositionLists
  <1> DEFINE j == a \o b
  <1> HIDE DEF a, b, w
  <1>7. /\ j \in Seq(AllAt(s)) /\ Len(j) = Cardinality(K) + Cardinality(P)
        /\ \A i \in 1..(Cardinality(K) + Cardinality(P)) :
               j[i] = IF i <= Cardinality(K) THEN a[i] ELSE b[i - Cardinality(K)]
    BY <1>4, <1>5, SMT
  <1> HIDE DEF j
  <1>8. ASSUME NEW i \in 1..Len(j) PROVE j[i] = w[i]
    <2>1. i \in 1..(Cardinality(K) + Cardinality(P)) /\ i \in 1..Cardinality(ids)
      BY <1>2, <1>7
    <2>2. CASE i <= Cardinality(K)
      <3>1. i \in 1..Cardinality(K)
        BY <1>4, <2>1, <2>2
      <3> QED BY <1>3, <1>4, <1>6, <1>7, <2>1, <2>2, <3>1
    <2>3. CASE ~(i <= Cardinality(K))
      <3>1. i - Cardinality(K) \in 1..Cardinality(P)
        BY <1>4, <1>5, <2>1, <2>3
      <3> QED BY <1>3, <1>5, <1>6, <1>7, <2>1, <2>3, <3>1
    <2> QED BY <2>2, <2>3
  <1>9. j = w
    BY <1>2, <1>6, <1>7, <1>8, SeqEqual, Zenon
  <1> QED BY <1>9 DEF j, a, b, w, K, P

\* What a split position has left.
LEMMA PositionDrops ==
    ASSUME NEW ids \in SUBSET Members, NEW n \in 0..Cardinality(ids), NEW s
    PROVE  PositionOf(s, ids \ FirstIds(Order(ids), n))
               = SubSeq(PositionOf(s, ids), n + 1, Cardinality(ids))
  <1> DEFINE rest == ids \ FirstIds(Order(ids), n)
             a == PositionOf(s, rest)
             w == PositionOf(s, ids)
             c == Cardinality(ids)
  <1>1. /\ Cardinality(rest) = c - n
        /\ \A i \in 1..(c - n) : Order(rest)[i] = Order(ids)[n + i]
    BY OrderDrops
  <1>2. rest \in SUBSET Members
    OBVIOUS
  <1> HIDE DEF rest
  <1>3. /\ a \in Seq(AllAt(s)) /\ Len(a) = c - n
        /\ \A i \in 1..(c - n) : a[i] = Tuple(Order(rest)[i], s)
    <2>1. /\ a \in Seq(AllAt(s)) /\ Len(a) = Cardinality(rest)
          /\ \A i \in 1..Cardinality(rest) : a[i] = Tuple(Order(rest)[i], s)
      BY <1>2, PositionLists
    <2> QED BY <1>1, <2>1, Zenon
  <1>4. /\ w \in Seq(AllAt(s)) /\ Len(w) = c /\ c \in Nat
        /\ \A i \in 1..c : w[i] = Tuple(Order(ids)[i], s)
    BY PositionLists
  <1> HIDE DEF a, w, c
  <1>5. n \in Nat /\ n <= c
    BY <1>4 DEF c
  <1> DEFINE t == SubSeq(w, n + 1, c)
  <1>6. /\ t \in Seq(AllAt(s)) /\ Len(t) = c - n
        /\ \A i \in 1..(c - n) : t[i] = w[n + i]
    BY <1>4, <1>5, SMT
  <1> HIDE DEF t
  <1>7. ASSUME NEW i \in 1..(c - n) PROVE a[i] = t[i]
    <2>1. n + i \in 1..c
      BY <1>4, <1>5
    <2> QED BY <1>1, <1>3, <1>4, <1>6, <2>1
  <1>8. a = t
    <2>1. \A i \in 1..Len(a) : a[i] = t[i]
      BY <1>3, <1>7
    <2> QED BY <1>3, <1>6, <2>1, SeqEqual, Zenon
  <1> QED BY <1>8 DEF a, t, w, c, rest

\* The drive counts and sorts as the merge does.
LEMMA SameCardinality == ASSUME NEW S PROVE Given!Cardinality(S) = Cardinality(S)
  BY DEF Given!Cardinality, Cardinality, Given!IsFiniteSet, IsFiniteSet

LEMMA SameAscending ==
    ASSUME NEW ids \in SUBSET Nat, IsFiniteSet(ids)
    PROVE  Given!Ascending(ids) = Ascending(ids)
  <1> DEFINE n == Cardinality(ids)
             nth == Given!Ascending(ids)
  <1>1. Given!Cardinality(ids) = n
    BY SameCardinality
  <1>2. \A k : Given!Cardinality({j \in ids : j < k}) = Cardinality(Before(ids, k))
    BY SameCardinality, Zenon DEF Before
  <1>3. DOMAIN nth = 1..n
    BY <1>1 DEF Given!Ascending
  <1>4. ASSUME NEW i \in 1..n PROVE nth[i] \in ids /\ Cardinality(Before(ids, nth[i])) = i - 1
    <2>1. nth[i] = CHOOSE k \in ids : Given!Cardinality({j \in ids : j < k}) = i - 1
      BY <1>1 DEF Given!Ascending
    <2>2. \E k \in ids : Given!Cardinality({j \in ids : j < k}) = i - 1
      BY <1>2, Ranked
    <2>3. nth[i] \in ids /\ Given!Cardinality({j \in ids : j < nth[i]}) = i - 1
      <3> HIDE DEF nth
      <3> QED BY <2>1, <2>2
    <2> HIDE DEF nth
    <2> QED BY <1>2, <2>3, Zenon
  <1> HIDE DEF nth
  <1>5. ASSUME NEW i \in 1..n PROVE nth[i] = Ascending(ids)[i]
    <2>1. Ascending(ids)[i] \in ids /\ Cardinality(Before(ids, Ascending(ids)[i])) = i - 1
      BY AscendingSorts
    <2>2. \A k, l \in ids : Cardinality(Before(ids, k)) = Cardinality(Before(ids, l)) => k = l
      BY RankTells
    <2> QED BY <1>4, <2>1, <2>2
  <1>6. Ascending(ids) \in [1..n -> ids]
    BY AscendingSorts
  <1>7. nth = [i \in 1..n |-> nth[i]]
    BY <1>1 DEF nth, Given!Ascending
  <1> QED BY <1>5, <1>6, <1>7 DEF nth

\* What the drive owes next is a position.
Awaiting(s) == {k \in Members : s \in Given!Pending(k)}
AllAwaiting == UNION {Given!Pending(k) : k \in Members}

LEMMA OwedIsPosition ==
    Given!Owed = IF AllAwaiting = {} THEN << >>
                 ELSE PositionOf(Min(AllAwaiting), Awaiting(Min(AllAwaiting)))
  <1> DEFINE a == Min(AllAwaiting)
             ids == Awaiting(a)
             there == Ascending({k \in Kept : a \in Given!Pending(k)})
                          \o Ascending({k \in Split : a \in Given!Pending(k)})
  <1>0. /\ Given!Ascending({k \in Kept : a \in Given!Pending(k)})
               = Ascending({k \in Kept : a \in Given!Pending(k)})
        /\ Given!Ascending({k \in Split : a \in Given!Pending(k)})
               = Ascending({k \in Split : a \in Given!Pending(k)})
    <2>1. \A T \in {Kept, Split} : \A part \in SUBSET T :
              part \in SUBSET Nat /\ IsFiniteSet(part)
      <3> SUFFICES ASSUME NEW T \in {Kept, Split}, NEW part \in SUBSET T
                   PROVE  part \in SUBSET Nat /\ IsFiniteSet(part)
        OBVIOUS
      <3> T \in SUBSET Nat /\ IsFiniteSet(T)
        BY MemberAssumption
      <3> QED BY FS_Subset
    <2> HIDE DEF a
    <2> QED BY <2>1, SameAscending
  <1>1. Given!Owed = IF AllAwaiting = {} THEN << >>
                     ELSE [i \in DOMAIN there |-> Tuple(there[i], a)]
    BY <1>0 DEF Given!Owed, AllAwaiting, Min, Members, Given!Tuple, Tuple
  <1>2. there = Order(ids)
    <2>1. /\ {k \in Kept : a \in Given!Pending(k)} = ids \intersect Kept
          /\ {k \in Split : a \in Given!Pending(k)} = ids \intersect Split
      BY DEF Awaiting, Members
    <2> HIDE DEF ids, a
    <2> QED BY <2>1 DEF Order
  <1>3. DOMAIN Order(ids) = 1..Cardinality(ids)
    <2>1. ids \in SUBSET Members
      BY DEF Awaiting
    <2> HIDE DEF ids
    <2>2. Order(ids) \in Seq(ids) /\ Len(Order(ids)) = Cardinality(ids)
      BY <2>1, OrderLists DEF Lists
    <2> QED BY <2>2
  <1> HIDE DEF there, ids, a
  <1>4. [i \in DOMAIN there |-> Tuple(there[i], a)] = PositionOf(a, ids)
    BY <1>2, <1>3 DEF PositionOf
  <1> QED BY <1>1, <1>4 DEF a, ids

-----------------------------------------------------------------------------
(* Gates. *)

LEMMA Sizes == Length \in Nat /\ Dead \in Nat /\ Never \in Nat /\ 0 \in Starts
  BY TextAssumption DEF Dead, Never, Starts

LEMMA EndsTyped ==
    ASSUME TypeInv, NEW k \in Members, NEW s \in Starts
    PROVE  /\ s \in Nat /\ s <= Length
           /\ ends[k][s] # NoMatch => ends[k][s] \in Starts /\ ends[k][s] >= s
  <1>1. ends[k] \in Tables
    BY DEF TypeInv
  <1> QED BY <1>1, TableAssumption, TextAssumption DEF Starts

\* After a report the gate lets through what is past it.
LEMMA ReportedGates ==
    ASSUME TypeInv, NEW k \in Members, NEW a \in Starts, ends[k][a] # NoMatch
    PROVE  /\ Reported(Tuple(k, a)) \in 0..Dead
           /\ Reported(Tuple(k, a)) >= 2 * a + 1
           /\ \A g : \A s \in Starts :
                 g[k] = Reported(Tuple(k, a)) /\ ends[k][s] # NoMatch /\ shape.gated
                     => (Lets(g, k, s) <=> Given!Past(s, ends[k][s], Tuple(k, a)))
  <1> DEFINE e == ends[k][a]
             r == Reported(Tuple(k, a))
  <1>1. e \in Nat /\ a \in Nat /\ e >= a /\ e <= Length
    BY EndsTyped, TextAssumption DEF Starts
  <1>2. r = 2 * e + (IF e > a THEN 1 ELSE 2)
    BY DEF Reported, Tuple
  <1>3. r \in 0..Dead /\ r >= 2 * a + 1
    <2> HIDE DEF r, e
    <2> QED BY <1>1, <1>2, TextAssumption DEF Dead
  <1>4. ASSUME NEW g, NEW s \in Starts, g[k] = r, ends[k][s] # NoMatch, shape.gated
        PROVE  Lets(g, k, s) <=> Given!Past(s, ends[k][s], Tuple(k, a))
    <2>1. s \in Nat
      BY EndsTyped
    <2>2. Lets(g, k, s) <=> 2 * s + 1 >= r /\ (ends[k][s] = s => 2 * s >= r)
      BY <1>4 DEF Lets
    <2>3. Given!Past(s, ends[k][s], Tuple(k, a)) <=> s >= e /\ ~(s = ends[k][s] /\ s = e)
      BY <1>4 DEF Given!Past, Tuple
    <2>4. s = a => ends[k][s] = e
      OBVIOUS
    <2> HIDE DEF r, e
    <2>5. CASE e > a
      BY <1>1, <1>2, <2>1, <2>2, <2>3, <2>5
    <2>6. CASE ~(e > a)
      <3>1. e = a /\ r = 2 * e + 2
        BY <1>1, <1>2, <2>6
      <3> QED BY <1>1, <2>1, <2>2, <2>3, <2>4, <3>1
    <2> QED BY <2>5, <2>6
  <1> QED BY <1>3, <1>4

LEMMA MatchTyped ==
    ASSUME TypeInv, NEW m \in Matches
    PROVE  /\ m.id \in Members /\ m.start \in Starts /\ ends[m.id][m.start] # NoMatch
           /\ m = Tuple(m.id, m.start) /\ m.end = ends[m.id][m.start]
           /\ m.start \in Nat /\ m.end \in Nat /\ m.start <= m.end /\ m.end <= Length
  <1>1. PICK p \in Members \X Starts : ends[p[1]][p[2]] # NoMatch /\ m = Tuple(p[1], p[2])
    BY DEF Matches
  <1>2. /\ m.id = p[1] /\ m.start = p[2] /\ m.end = ends[p[1]][p[2]]
        /\ p[1] \in Members /\ p[2] \in Starts
    BY <1>1 DEF Tuple
  <1>3. /\ m.id \in Members /\ m.start \in Starts /\ ends[m.id][m.start] # NoMatch
        /\ m = Tuple(m.id, m.start) /\ m.end = ends[m.id][m.start]
    BY <1>1, <1>2
  <1> QED BY <1>3, EndsTyped, TextAssumption DEF Starts

LEMMA TupleMatches ==
    ASSUME NEW k \in Members, NEW s \in Starts, ends[k][s] # NoMatch
    PROVE  Tuple(k, s) \in Matches
  <1>1. <<k, s>> \in Members \X Starts
    OBVIOUS
  <1> QED BY <1>1 DEF Matches

\* What the caller was given, in the terms of the drive.
LEMMA PendingIs ==
    ASSUME TypeInv, NEW k \in Members
    PROVE  /\ out \o buf \in Seq(Matches)
           /\ Given!Pending(k) =
                  {s \in origin..Length :
                      /\ ends[k][s] # NoMatch
                      /\ \A i \in 1..Len(out \o buf) : (out \o buf)[i].id = k
                            => Given!Past(s, ends[k][s], (out \o buf)[i])}
           /\ Given!Pending(k) \in SUBSET Starts
  <1>1. out \in Seq(Matches) /\ buf \in Seq(Matches)
    BY DEF TypeInv
  <1>2. out \o buf \in Seq(Matches)
    BY <1>1
  <1>3. DOMAIN (out \o buf) = 1..Len(out \o buf)
    BY <1>2
  <1>4. origin \in Nat
    BY TextAssumption DEF TypeInv, Starts
  <1>5. Given!Pending(k) =
            {s \in origin..Length :
                /\ ends[k][s] # NoMatch
                /\ \A i \in 1..Len(out \o buf) : (out \o buf)[i].id = k
                      => Given!Past(s, ends[k][s], (out \o buf)[i])}
    BY <1>3 DEF Given!Pending, Given!NoMatch, NoMatch
  <1> QED BY <1>2, <1>4, <1>5, TextAssumption DEF Starts

\* What is past a match still owed is still owed.
LEMMA PendingCloses ==
    ASSUME TypeInv, shape.gated, NEW k \in Members, NEW a \in Given!Pending(k),
           NEW s \in Starts, ends[k][s] # NoMatch,
           Given!Past(s, ends[k][s], Tuple(k, a))
    PROVE  s \in Given!Pending(k)
  <1>1. /\ a \in origin..Length /\ ends[k][a] # NoMatch /\ a \in Starts
        /\ \A i \in 1..Len(out \o buf) : (out \o buf)[i].id = k
               => Given!Past(a, ends[k][a], (out \o buf)[i])
    BY PendingIs
  <1>2. /\ a \in Nat /\ ends[k][a] \in Nat /\ ends[k][a] >= a
        /\ s \in Nat /\ s <= Length /\ origin \in Nat
    BY <1>1, EndsTyped, TextAssumption DEF Starts, TypeInv
  <1>3. s >= ends[k][a] /\ ~(s = ends[k][s] /\ s = ends[k][a])
    BY DEF Given!Past, Tuple
  <1>4. s \in origin..Length
    BY <1>1, <1>2, <1>3, TextAssumption
  <1>5. ASSUME NEW i \in 1..Len(out \o buf), (out \o buf)[i].id = k
        PROVE  Given!Past(s, ends[k][s], (out \o buf)[i])
    <2> DEFINE m == (out \o buf)[i]
    <2>1. m \in Matches
      BY PendingIs
    <2>2. m.end \in Nat
      BY <2>1, MatchTyped
    <2>3. a >= m.end /\ ~(a = ends[k][a] /\ a = m.end)
      BY <1>1, <1>5 DEF Given!Past
    <2> HIDE DEF m
    <2>4. s >= m.end /\ ~(s = ends[k][s] /\ s = m.end)
      BY <1>2, <1>3, <2>2, <2>3
    <2> QED BY <2>4 DEF Given!Past, m
  <1> QED BY <1>4, <1>5, PendingIs

-----------------------------------------------------------------------------
(* A delivery. *)

LEMMA DeliverPending ==
    ASSUME TypeInv, NEW D, D \in Seq(Matches), UNCHANGED fixed,
           out' \o buf' = (out \o buf) \o D, NEW k \in Members
    PROVE  Given!Pending(k)' =
               {s \in Given!Pending(k) : \A i \in 1..Len(D) :
                    D[i].id = k => Given!Past(s, ends[k][s], D[i])}
  <1> DEFINE g == out \o buf
             h == g \o D
  <1>1. /\ g \in Seq(Matches)
        /\ Given!Pending(k) = {s \in origin..Length :
                /\ ends[k][s] # NoMatch
                /\ \A i \in 1..Len(g) : g[i].id = k => Given!Past(s, ends[k][s], g[i])}
    BY PendingIs
  <1> HIDE DEF g
  <1>2. /\ h \in Seq(Matches) /\ Len(h) = Len(g) + Len(D)
        /\ Len(g) \in Nat /\ Len(D) \in Nat
        /\ \A i \in 1..(Len(g) + Len(D)) : h[i] = IF i <= Len(g) THEN g[i] ELSE D[i - Len(g)]
    BY <1>1, SMT
  <1> HIDE DEF h
  <1>3. DOMAIN h = 1..(Len(g) + Len(D))
    BY <1>2
  <1>4. Given!Pending(k)' = {s \in origin..Length :
                /\ ends[k][s] # NoMatch
                /\ \A i \in DOMAIN h : h[i].id = k => Given!Past(s, ends[k][s], h[i])}
    BY DEF Given!Pending, Given!NoMatch, NoMatch, Given!Past, fixed, g, h
  <1>5. ASSUME NEW s
        PROVE  (\A i \in DOMAIN h : h[i].id = k => Given!Past(s, ends[k][s], h[i]))
                   <=> /\ \A i \in 1..Len(g) : g[i].id = k => Given!Past(s, ends[k][s], g[i])
                       /\ \A i \in 1..Len(D) : D[i].id = k => Given!Past(s, ends[k][s], D[i])
    <2>1. \A i \in 1..Len(g) : i \in DOMAIN h /\ h[i] = g[i]
      BY <1>2, <1>3
    <2>2. ASSUME NEW i \in 1..Len(D) PROVE Len(g) + i \in DOMAIN h /\ h[Len(g) + i] = D[i]
      <3>1. /\ Len(g) + i \in 1..(Len(g) + Len(D)) /\ ~(Len(g) + i <= Len(g))
            /\ (Len(g) + i) - Len(g) = i
        BY <1>2
      <3> QED BY <1>2, <1>3, <3>1
    <2>3. \A i \in DOMAIN h : \/ i \in 1..Len(g) /\ h[i] = g[i]
                              \/ i - Len(g) \in 1..Len(D) /\ h[i] = D[i - Len(g)]
      BY <1>2, <1>3
    <2> QED BY <2>1, <2>2, <2>3, Zenon
  <1> QED BY <1>1, <1>4, <1>5

\* The matches of a position after the m-th, up to the n-th.
Delivers(a, ids, m, n) ==
    /\ UNCHANGED fixed
    /\ a \in Starts /\ ids \in SUBSET Members /\ \A k \in ids : ends[k][a] # NoMatch
    /\ m \in Nat /\ n \in Nat /\ m <= n /\ n <= Cardinality(ids)
    /\ out' \o buf' = (out \o buf) \o SubSeq(PositionOf(a, ids), m + 1, n)

LEMMA DeliverPosition ==
    ASSUME TypeInv, NEW a, NEW ids, NEW m, NEW n, Delivers(a, ids, m, n),
           NEW k \in Members
    PROVE  Given!Pending(k)' =
               {s \in Given!Pending(k) :
                    (\E i \in (m + 1)..n : Order(ids)[i] = k)
                        => Given!Past(s, ends[k][s], Tuple(k, a))}
  <1> DEFINE w == PositionOf(a, ids)
             D == SubSeq(w, m + 1, n)
  <1>0. /\ UNCHANGED fixed /\ a \in Starts /\ ids \in SUBSET Members
        /\ \A l \in ids : ends[l][a] # NoMatch
        /\ m \in Nat /\ n \in Nat /\ m <= n /\ n <= Cardinality(ids)
    BY DEF Delivers
  <1>1. /\ w \in Seq(AllAt(a)) /\ Len(w) = Cardinality(ids) /\ Cardinality(ids) \in Nat
        /\ \A i \in 1..Cardinality(ids) : w[i] = Tuple(Order(ids)[i], a) /\ Order(ids)[i] \in ids
    BY <1>0, PositionLists
  <1> HIDE DEF w
  <1>2. w \in Seq(Matches)
    <2>1. \A i \in 1..Cardinality(ids) : w[i] \in Matches
      BY <1>0, <1>1, TupleMatches
    <2>2. w \in [1..Cardinality(ids) -> Matches]
      BY <1>1, <2>1
    <2> QED BY <1>1, <2>2
  <1>3. /\ D \in Seq(Matches) /\ Len(D) = n - m
        /\ \A i \in 1..(n - m) : D[i] = w[m + i]
    BY <1>0, <1>1, <1>2, SMT
  <1>4. out' \o buf' = (out \o buf) \o D
    BY DEF w, Delivers
  <1> HIDE DEF D
  <1>5. Given!Pending(k)' =
            {s \in Given!Pending(k) : \A i \in 1..Len(D) :
                 D[i].id = k => Given!Past(s, ends[k][s], D[i])}
    BY <1>0, <1>3, <1>4, DeliverPending
  <1>6. ASSUME NEW s
        PROVE  (\A i \in 1..Len(D) : D[i].id = k => Given!Past(s, ends[k][s], D[i]))
                   <=> ((\E i \in (m + 1)..n : Order(ids)[i] = k)
                            => Given!Past(s, ends[k][s], Tuple(k, a)))
    <2>1. ASSUME NEW i \in 1..Len(D)
          PROVE  D[i] = Tuple(Order(ids)[m + i], a) /\ D[i].id = Order(ids)[m + i]
      <3>1. i \in 1..(n - m) /\ m + i \in 1..Cardinality(ids)
        BY <1>0, <1>1, <1>3
      <3>2. D[i] = Tuple(Order(ids)[m + i], a)
        BY <1>1, <1>3, <3>1, Zenon
      <3> QED BY <3>2 DEF Tuple
    <2>2. \A i \in (m + 1)..n : i - m \in 1..Len(D) /\ m + (i - m) = i
      BY <1>0, <1>3
    <2>3. \A i \in 1..Len(D) : m + i \in (m + 1)..n
      BY <1>0, <1>3
    <2>4. ASSUME NEW i \in (m + 1)..n, Order(ids)[i] = k,
                 \A l \in 1..Len(D) : D[l].id = k => Given!Past(s, ends[k][s], D[l])
          PROVE  Given!Past(s, ends[k][s], Tuple(k, a))
      <3>1. D[i - m] = Tuple(k, a) /\ D[i - m].id = k
        BY <2>1, <2>2, <2>4
      <3> QED BY <2>2, <2>4, <3>1, Zenon
    <2>5. ASSUME NEW i \in 1..Len(D), D[i].id = k,
                 (\E l \in (m + 1)..n : Order(ids)[l] = k)
                     => Given!Past(s, ends[k][s], Tuple(k, a))
          PROVE  Given!Past(s, ends[k][s], D[i])
      <3>1. Order(ids)[m + i] = k /\ D[i] = Tuple(k, a)
        BY <2>1, <2>5
      <3> QED BY <2>3, <2>5, <3>1, Zenon
    <2> QED BY <2>4, <2>5, Zenon
  <1> QED BY <1>5, <1>6

-----------------------------------------------------------------------------
(* What is owed, and its next position. *)

LEMMA MinIs ==
    ASSUME NEW T, T \subseteq Nat, NEW x \in T, \A y \in T : x <= y
    PROVE  Min(T) = x
  <1>1. Min(T) \in T /\ Min(T) <= x
    BY MinOfNats
  <1>2. Min(T) \in Nat /\ x \in Nat /\ x <= Min(T)
    BY <1>1
  <1> QED BY <1>1, <1>2

LEMMA OwingTyped ==
    ASSUME TypeInv
    PROVE  /\ host.from \in Nat /\ host.skip \in Nat /\ host.from <= Length + 1
           /\ \A k \in Members : \A s \in Owing(k) :
                  s \in Starts /\ s \in Nat /\ s >= host.from /\ ends[k][s] # NoMatch
           /\ \A ids \in SUBSET Members : AllOwing(ids) \subseteq Nat
           /\ \A s : Due(s) \in SUBSET Members
           /\ \A s : \A k \in Due(s) : s \in Starts /\ ends[k][s] # NoMatch
  <1>1. host.from \in Nat /\ host.skip \in Nat /\ host.from <= Length + 1
    BY TextAssumption DEF TypeInv
  <1>2. \A k \in Members : \A s \in Owing(k) :
            s \in Starts /\ s \in Nat /\ s >= host.from /\ ends[k][s] # NoMatch
    BY <1>1, TextAssumption DEF Owing, Starts
  <1>3. \A ids \in SUBSET Members : AllOwing(ids) \subseteq Nat
    BY <1>2 DEF AllOwing
  <1> QED BY <1>1, <1>2, <1>3 DEF Due

LEMMA WholeIs ==
    ASSUME TypeInv
    PROVE  /\ AllOwing(Members) = {} => Whole = << >>
           /\ AllOwing(Members) # {} =>
                 LET a == Min(AllOwing(Members)) IN
                 /\ Whole = PositionOf(a, Due(a)) /\ Due(a) # {}
                 /\ a \in Starts /\ a \in Nat /\ a >= host.from /\ a <= Length
                 /\ Len(Whole) = Cardinality(Due(a)) /\ Len(Whole) \in Nat \ {0}
                 /\ \A k \in Members : \A s \in Owing(k) : a <= s
  <1>1. AllOwing(Members) = {} => Whole = << >>
    BY DEF Whole
  <1>2. ASSUME AllOwing(Members) # {}
        PROVE  LET a == Min(AllOwing(Members)) IN
               /\ Whole = PositionOf(a, Due(a)) /\ Due(a) # {}
               /\ a \in Starts /\ a \in Nat /\ a >= host.from /\ a <= Length
               /\ Len(Whole) = Cardinality(Due(a)) /\ Len(Whole) \in Nat \ {0}
               /\ \A k \in Members : \A s \in Owing(k) : a <= s
    <2> DEFINE all == AllOwing(Members)
               a == Min(all)
    <2>1. a \in all /\ \A s \in all : a <= s
      BY <1>2, OwingTyped, MinOfNats
    <2>2. PICK k \in Members : a \in Owing(k)
      BY <2>1 DEF AllOwing
    <2>3. k \in Due(a)
      BY <2>2 DEF Due
    <2>4. a \in Starts /\ a \in Nat /\ a >= host.from /\ a <= Length
      BY <2>2, OwingTyped, TextAssumption DEF Starts
    <2>5. Whole = PositionOf(a, Due(a))
      BY <1>2 DEF Whole
    <2>6. \A l \in Members : \A s \in Owing(l) : a <= s
      BY <2>1 DEF AllOwing
    <2> HIDE DEF a
    <2>7. Due(a) \in SUBSET Members
      BY OwingTyped
    <2>8. Len(Whole) = Cardinality(Due(a)) /\ Cardinality(Due(a)) \in Nat
      BY <2>5, <2>7, PositionLists
    <2>9. Cardinality(Due(a)) # 0
      BY <2>3, <2>7, OrderLists, FS_EmptySet
    <2> QED BY <2>3, <2>4, <2>5, <2>6, <2>8, <2>9 DEF a
  <1> QED BY <1>1, <1>2

LEMMA NoneSkipped == ASSUME NEW order PROVE FirstIds(order, 0) = {}
  BY DEF FirstIds

\* The drive owes what is not yet skipped of the next position.
LEMMA OwedIsLeft ==
    ASSUME TypeInv, PendingInv
    PROVE  /\ Given!Owed = SubSeq(Whole, host.skip + 1, Len(Whole))
           /\ host.skip > 0 => /\ AllOwing(Members) # {}
                               /\ Min(AllOwing(Members)) = host.from
           /\ AllOwing(Members) = {} => Given!Owed = << >>
           /\ host.skip <= Len(Whole)
           /\ AllOwing(Members) # {} => host.skip < Len(Whole)
  <1> DEFINE all == AllOwing(Members)
  <1>0. host.skip \in Nat
    BY OwingTyped
  <1>1. CASE host.skip = 0
    <2>1. Skipped = {}
      BY <1>1, NoneSkipped DEF Skipped
    <2>2. \A k \in Members : Given!Pending(k) = Owing(k)
      BY <2>1 DEF PendingInv
    <2>3. AllAwaiting = all
      BY <2>2 DEF AllAwaiting, AllOwing
    <2>4. \A s : Awaiting(s) = Due(s)
      BY <2>2 DEF Awaiting, Due
    <2>5. Given!Owed = Whole
      BY <2>3, <2>4, OwedIsPosition DEF Whole
    <2>6. CASE all = {}
      <3>1. Whole = << >> /\ Len(Whole) = 0
        BY <2>6, WholeIs
      <3>2. SubSeq(Whole, 1, 0) = << >>
        BY <3>1
      <3> QED BY <1>1, <2>5, <2>6, <3>1, <3>2
    <2>7. CASE all # {}
      <3>1. PICK a, ids : ids \in SUBSET Members /\ Whole = PositionOf(a, ids)
        BY <2>7, WholeIs, OwingTyped
      <3>2. Whole \in Seq(AllAt(a)) /\ Len(Whole) \in Nat \ {0}
        BY <2>7, <3>1, PositionLists, WholeIs
      <3>3. SubSeq(Whole, 1, Len(Whole)) = Whole
        BY <3>2
      <3> QED BY <1>1, <2>5, <2>7, <3>2, <3>3
    <2> QED BY <2>6, <2>7
  <1>2. CASE host.skip > 0
    <2> DEFINE a == host.from
               ids == Due(a)
               order == Order(ids)
    <2>1. /\ a \in Nat /\ host.skip \in 0..Cardinality(ids) /\ host.skip < Cardinality(ids)
          /\ ids \in SUBSET Members /\ Cardinality(ids) \in Nat
      <3>1. ids \in SUBSET Members /\ a \in Nat
        BY OwingTyped
      <3>2. Cardinality(ids) \in Nat
        BY <3>1, OrderLists
      <3> QED BY <1>0, <1>2, <3>1, <3>2 DEF PendingInv
    <2> DEFINE rest == ids \ Skipped
    <2>2. Skipped = FirstIds(order, host.skip)
      BY DEF Skipped
    <2>3. Cardinality(rest) = Cardinality(ids) - host.skip
      BY <2>1, <2>2, OrderDrops
    <2>4. rest # {}
      <3> HIDE DEF rest, ids
      <3> QED BY <2>1, <2>3, FS_EmptySet
    <2>5. Awaiting(a) = rest
      BY DEF Awaiting, PendingInv, Due
    <2>6. ids # {}
      BY <2>4
    <2>7. a \in all /\ \A s \in all : a <= s
      <3>1. a \in all
        BY <2>6 DEF Due, AllOwing
      <3> QED BY <3>1, OwingTyped DEF AllOwing
    <2>8. all # {} /\ Min(all) = a
      BY <2>7, OwingTyped, MinIs
    <2>9. a \in AllAwaiting /\ AllAwaiting \subseteq all
      <3>1. a \in AllAwaiting
        BY <2>4, <2>5 DEF Awaiting, AllAwaiting
      <3>2. \A k \in Members : Given!Pending(k) \subseteq Owing(k)
        BY DEF PendingInv
      <3> QED BY <3>1, <3>2 DEF AllAwaiting, AllOwing
    <2>10. AllAwaiting # {} /\ Min(AllAwaiting) = a
      <3>1. AllAwaiting \subseteq Nat /\ \A s \in AllAwaiting : a <= s
        BY <2>7, <2>9, OwingTyped
      <3> QED BY <2>9, <3>1, MinIs
    <2>11. Given!Owed = PositionOf(a, rest)
      BY <2>5, <2>10, OwedIsPosition
    <2>12. PositionOf(a, rest)
               = SubSeq(PositionOf(a, ids), host.skip + 1, Cardinality(ids))
      BY <2>1, <2>2, PositionDrops
    <2>13. Whole = PositionOf(a, ids) /\ Len(Whole) = Cardinality(ids)
      BY <2>8, WholeIs
    <2> HIDE DEF a, ids, rest
    <2> QED BY <2>1, <2>8, <2>11, <2>12, <2>13 DEF a
  <1> QED BY <1>0, <1>1, <1>2

-----------------------------------------------------------------------------
(* What a delivery leaves owed. *)

PastReport(k, a, s) == Given!Past(s, ends[k][s], Tuple(k, a))

\* The position at a was left behind.
LEMMA MovedOn ==
    ASSUME TypeInv, PendingInv, shape.gated => host.skip = 0,
           AllOwing(Members) # {}, NEW a, a = Min(AllOwing(Members)),
           UNCHANGED fixed, host'.from = a + 1, host'.skip = 0,
           out' \o buf' = (out \o buf) \o SubSeq(Whole, host.skip + 1, Len(Whole))
    PROVE  /\ PendingInv'
           /\ \A k \in Members : Owing(k)' =
                  {s \in Owing(k) :
                      s > a /\ (shape.gated /\ k \in Due(a) => PastReport(k, a, s))}
  <1> DEFINE ids == Due(a)
             order == Order(ids)
             n == Cardinality(ids)
             m == host.skip
  <1>1. /\ Whole = PositionOf(a, ids) /\ Len(Whole) = n
        /\ a \in Starts /\ a \in Nat /\ a >= host.from
        /\ \A k \in Members : \A s \in Owing(k) : a <= s
    BY WholeIs
  <1>2. /\ m \in Nat /\ host.from \in Nat /\ m <= n
        /\ ids \in SUBSET Members /\ \A k \in ids : ends[k][a] # NoMatch
    BY <1>1, OwingTyped, OwedIsLeft
  <1>3. /\ n \in Nat
        /\ \A k \in ids : \E i \in 1..n : order[i] = k
        /\ \A i \in 1..n : order[i] \in ids
    BY <1>2, PositionLists
  <1> HIDE DEF ids, order, n, m
  <1>4. ASSUME NEW k \in Members
        PROVE  Given!Pending(k)' =
                   {s \in Given!Pending(k) :
                       (\E i \in (m + 1)..n : order[i] = k) => PastReport(k, a, s)}
    <2>1. out' \o buf' = (out \o buf) \o SubSeq(PositionOf(a, ids), m + 1, n)
      BY <1>1 DEF m
    <2>2. Delivers(a, ids, m, n)
      <3>1. n <= Cardinality(ids)
        BY <1>3 DEF n
      <3> QED BY <1>1, <1>2, <1>3, <2>1, <3>1 DEF Delivers
    <2>3. Given!Pending(k)' =
              {s \in Given!Pending(k) :
                  (\E i \in (m + 1)..n : Order(ids)[i] = k)
                      => Given!Past(s, ends[k][s], Tuple(k, a))}
      BY <2>2, DeliverPosition
    <2> QED BY <2>3 DEF order, PastReport
  <1>5. ASSUME NEW k \in Members, NEW s \in Owing(k)
        PROVE  /\ s \in Nat /\ s >= a /\ s <= Length /\ (k \in ids <=> a \in Owing(k))
               /\ ends[k][s] # NoMatch
               /\ (k \in ids /\ s = a => ~PastReport(k, a, s))
               /\ ~shape.gated /\ k \in ids => (PastReport(k, a, s) <=> s > a)
    <2>1. s \in Nat /\ s >= a /\ s <= Length /\ (k \in ids <=> a \in Owing(k)) /\ s \in Starts
      BY <1>1, OwingTyped, TextAssumption DEF Starts, ids, Due
    <2>2. ends[k][s] # NoMatch
      BY OwingTyped
    <2>3. ASSUME k \in ids, s = a PROVE ~PastReport(k, a, s)
      <3>1. ends[k][a] \in Nat /\ ends[k][a] >= a
        BY <1>1, <1>2, <2>3, EndsTyped, TextAssumption DEF Starts
      <3> QED BY <1>1, <2>3, <3>1 DEF PastReport, Given!Past, Tuple
    <2>4. ~shape.gated => (PastReport(k, a, s) <=> s > a)
      BY DEF PastReport, Given!Past, Tuple
    <2> QED BY <2>1, <2>2, <2>3, <2>4
  <1>6. ASSUME NEW k \in Members
        PROVE  Owing(k)' = {s \in (a + 1)..Length :
                                ends[k][s] # NoMatch /\ (shape.gated => s \in Given!Pending(k)')}
    BY DEF Owing, fixed
  <1>7. ASSUME NEW k \in Members
        PROVE  Given!Pending(k) = {s \in Owing(k) : ~(s = host.from /\ k \in Skipped)}
    BY DEF PendingInv
  <1>8. CASE shape.gated
    <2>1. m = 0 /\ Skipped = {}
      BY <1>8, NoneSkipped DEF Skipped, m
    <2>2. ASSUME NEW k \in Members
          PROVE  Given!Pending(k)' = {s \in Owing(k) : k \in ids => PastReport(k, a, s)}
      <3>1. Given!Pending(k) = Owing(k)
        BY <1>7, <2>1
      <3>2. (\E i \in (m + 1)..n : order[i] = k) <=> k \in ids
        BY <1>3, <2>1
      <3> QED BY <1>4, <3>1, <3>2
    <2>3. ASSUME NEW k \in Members, NEW s \in Given!Pending(k)' PROVE s > a
      <3>1. s \in Owing(k) /\ (k \in ids => PastReport(k, a, s))
        BY <2>2
      <3> QED BY <1>1, <1>5, <3>1
    <2>4. ASSUME NEW k \in Members
          PROVE  /\ Owing(k)' = Given!Pending(k)'
                 /\ Owing(k)' = {s \in Owing(k) :
                        s > a /\ (shape.gated /\ k \in Due(a) => PastReport(k, a, s))}
      <3>1. \A s \in Given!Pending(k)' : s \in (a + 1)..Length /\ ends[k][s] # NoMatch
        BY <1>1, <1>5, <2>2, <2>3, TextAssumption
      <3>2. Owing(k)' = Given!Pending(k)'
        BY <1>6, <1>8, <3>1
      <3> QED BY <1>8, <2>2, <2>3, <3>2 DEF ids
    <2> QED BY <2>4, NoneSkipped DEF PendingInv, Skipped
  <1>9. CASE ~shape.gated
    <2>1. ASSUME NEW k \in Members
          PROVE  /\ Owing(k)' = {s \in Owing(k) :
                        s > a /\ (shape.gated /\ k \in Due(a) => PastReport(k, a, s))}
                 /\ Given!Pending(k)' = Owing(k)'
      <3>1. Owing(k) = {s \in host.from..Length : ends[k][s] # NoMatch}
        BY <1>9 DEF Owing
      <3>2. Owing(k)' = {s \in (a + 1)..Length : ends[k][s] # NoMatch}
        BY <1>6, <1>9
      <3>3. Owing(k)' = {s \in Owing(k) : s > a}
        BY <1>1, <1>2, <3>1, <3>2, TextAssumption
      <3>4. ASSUME NEW s \in Owing(k), s > a PROVE s \in Given!Pending(k)'
        <4>1. s \in Given!Pending(k)
          BY <1>1, <1>2, <1>5, <1>7, <3>4
        <4>2. (\E i \in (m + 1)..n : order[i] = k) => k \in ids
          BY <1>2, <1>3
        <4>3. (\E i \in (m + 1)..n : order[i] = k) => PastReport(k, a, s)
          BY <1>5, <1>9, <3>4, <4>2
        <4> QED BY <1>4, <4>1, <4>3
      <3>5. ASSUME NEW s \in Given!Pending(k)' PROVE s \in Owing(k) /\ s > a
        <4>1. /\ s \in Owing(k) /\ ~(s = host.from /\ k \in Skipped)
              /\ (\E i \in (m + 1)..n : order[i] = k) => PastReport(k, a, s)
          BY <1>4, <1>7
        <4>2. CASE s = a
          <5>1. k \in ids
            BY <1>5, <4>1, <4>2
          <5>2. PICK i \in 1..n : order[i] = k
            BY <1>3, <5>1
          <5>3. ~PastReport(k, a, s)
            BY <1>5, <4>1, <4>2, <5>1
          <5>4. i <= m
            BY <1>2, <1>3, <4>1, <5>2, <5>3
          <5>5. a = host.from
            BY <1>2, <1>3, <5>4, OwedIsLeft DEF m
          <5>6. k \in Skipped
            <6>1. i \in 1..m
              BY <1>2, <1>3, <5>4
            <6>2. Skipped = FirstIds(order, m)
              BY <5>5 DEF Skipped, order, ids, m
            <6> QED BY <5>2, <6>1, <6>2 DEF FirstIds
          <5> QED BY <4>1, <4>2, <5>5, <5>6
        <4> QED BY <1>1, <1>5, <4>1, <4>2
      <3> QED BY <1>9, <3>3, <3>4, <3>5
    <2> QED BY <2>1, NoneSkipped DEF PendingInv, Skipped
  <1> QED BY <1>8, <1>9

\* The position at a was written as far as its n-th match.
LEMMA SplitThere ==
    ASSUME TypeInv, PendingInv, shape.gated => host.skip = 0,
           AllOwing(Members) # {}, NEW a, a = Min(AllOwing(Members)),
           NEW n \in Nat, host.skip < n, n < Len(Whole),
           UNCHANGED fixed, host'.from = a, host'.skip = IF shape.gated THEN 0 ELSE n,
           out' \o buf' = (out \o buf) \o SubSeq(Whole, host.skip + 1, n)
    PROVE  /\ PendingInv'
           /\ \A k \in Members : Owing(k)' =
                  {s \in Owing(k) :
                      shape.gated /\ k \in FirstIds(Order(Due(a)), n)
                          => PastReport(k, a, s)}
  <1> DEFINE ids == Due(a)
             order == Order(ids)
             m == host.skip
             given == FirstIds(order, n)
  <1>1. /\ Whole = PositionOf(a, ids) /\ Len(Whole) = Cardinality(ids)
        /\ a \in Starts /\ a \in Nat /\ a >= host.from /\ a <= Length
        /\ \A k \in Members : \A s \in Owing(k) : a <= s
    BY WholeIs
  <1>2. /\ m \in Nat /\ host.from \in Nat /\ m < n
        /\ ids \in SUBSET Members /\ \A k \in ids : ends[k][a] # NoMatch
        /\ n < Cardinality(ids)
    BY <1>1, OwingTyped
  <1>3. m > 0 => a = host.from
    BY OwedIsLeft
  <1> HIDE DEF ids, order, m
  <1>4. ASSUME NEW k \in Members
        PROVE  Given!Pending(k)' =
                   {s \in Given!Pending(k) :
                       (\E i \in (m + 1)..n : order[i] = k) => PastReport(k, a, s)}
    <2>1. out' \o buf' = (out \o buf) \o SubSeq(PositionOf(a, ids), m + 1, n)
      BY <1>1 DEF m
    <2>2. Delivers(a, ids, m, n)
      <3>1. m <= n /\ n <= Cardinality(ids)
        <4>1. Cardinality(ids) \in Nat
          BY <1>2, OrderLists
        <4> QED BY <1>2, <4>1
      <3> QED BY <1>1, <1>2, <2>1, <3>1 DEF Delivers
    <2>3. Given!Pending(k)' =
              {s \in Given!Pending(k) :
                  (\E i \in (m + 1)..n : Order(ids)[i] = k)
                      => Given!Past(s, ends[k][s], Tuple(k, a))}
      BY <2>2, DeliverPosition
    <2> QED BY <2>3 DEF order, PastReport
  <1>5. ASSUME NEW k \in Members, NEW s \in Owing(k)
        PROVE  s \in Nat /\ s >= a /\ s <= Length /\ ends[k][s] # NoMatch
    BY <1>1, OwingTyped, TextAssumption DEF Starts
  <1>6. ASSUME NEW k \in Members
        PROVE  Owing(k)' = {s \in a..Length :
                                ends[k][s] # NoMatch /\ (shape.gated => s \in Given!Pending(k)')}
    BY DEF Owing, fixed
  <1>7. ASSUME NEW k \in Members
        PROVE  Given!Pending(k) = {s \in Owing(k) : ~(s = host.from /\ k \in Skipped)}
    BY DEF PendingInv
  <1>8. CASE shape.gated
    <2>1. m = 0 /\ Skipped = {}
      BY <1>8, NoneSkipped DEF Skipped, m
    <2>2. ASSUME NEW k \in Members
          PROVE  /\ Owing(k)' = Given!Pending(k)'
                 /\ Owing(k)' = {s \in Owing(k) : k \in given => PastReport(k, a, s)}
      <3>1. Given!Pending(k) = Owing(k)
        BY <1>7, <2>1
      <3>2. (\E i \in (m + 1)..n : order[i] = k) <=> k \in given
        BY <2>1 DEF FirstIds
      <3> HIDE DEF given
      <3>3. Given!Pending(k)' = {s \in Owing(k) : k \in given => PastReport(k, a, s)}
        BY <1>4, <3>1, <3>2
      <3>4. \A s \in Given!Pending(k)' : s \in a..Length /\ ends[k][s] # NoMatch
        BY <1>1, <1>5, <3>3, TextAssumption
      <3>5. Owing(k)' = Given!Pending(k)'
        BY <1>6, <1>8, <3>4
      <3> QED BY <3>3, <3>5
    <2>3. host'.skip = 0
      BY <1>8
    <2>4. PendingInv'
      BY <2>2, <2>3, NoneSkipped DEF PendingInv, Skipped
    <2> QED BY <1>8, <2>2, <2>4 DEF order, ids
  <1>9. CASE ~shape.gated
    <2>1. ASSUME NEW k \in Members PROVE Owing(k)' = Owing(k)
      <3>1. Owing(k) = {s \in host.from..Length : ends[k][s] # NoMatch}
        BY <1>9 DEF Owing
      <3>2. Owing(k)' = {s \in a..Length : ends[k][s] # NoMatch}
        BY <1>6, <1>9
      <3> QED BY <1>1, <1>2, <1>5, <3>1, <3>2, TextAssumption
    <2>2. Due(a)' = ids
      BY <2>1 DEF Due, ids
    <2>3. Skipped' = given
      <3>1. host'.skip = n /\ host'.from = a
        BY <1>9
      <3>2. Due(host.from)' = Due(a)'
        BY <3>1 DEF Due
      <3> QED BY <2>2, <3>1, <3>2 DEF Skipped, order
    <2>4. ASSUME NEW k \in Members, NEW s \in Owing(k)
          PROVE  s \in Given!Pending(k)' <=> ~(s = a /\ k \in given)
      <3>1. PastReport(k, a, s) <=> s > a
        BY <1>9 DEF PastReport, Given!Past, Tuple
      <3>2. s \in Given!Pending(k)'
                <=> /\ ~(s = host.from /\ k \in Skipped)
                    /\ (\E i \in (m + 1)..n : order[i] = k) => s > a
        BY <1>4, <1>7, <3>1
      <3>3. Skipped = IF m > 0 THEN FirstIds(order, m) ELSE {}
        <4>1. Skipped = FirstIds(Order(Due(host.from)), m)
          BY DEF Skipped, m
        <4>2. CASE m > 0
          <5>1. Due(host.from) = ids
            BY <1>3, <4>2 DEF ids
          <5> QED BY <4>1, <4>2, <5>1 DEF order
        <4>3. CASE ~(m > 0)
          <5>1. m = 0
            BY <1>2, <4>3
          <5> QED BY <4>1, <4>3, <5>1, NoneSkipped
        <4> QED BY <4>2, <4>3
      <3>4. ASSUME s = a, k \in given PROVE s \notin Given!Pending(k)'
        <4>1. PICK i \in 1..n : order[i] = k
          BY <3>4 DEF FirstIds
        <4>2. CASE i <= m
          <5>1. m > 0 /\ i \in 1..m
            BY <1>2, <4>2
          <5>2. k \in Skipped
            BY <3>3, <4>1, <5>1 DEF FirstIds
          <5> QED BY <1>3, <3>2, <3>4, <5>1, <5>2
        <4>3. CASE ~(i <= m)
          <5>1. i \in (m + 1)..n
            BY <1>2, <4>3
          <5> QED BY <1>1, <3>2, <3>4, <4>1, <5>1
        <4> QED BY <4>2, <4>3
      <3>5. ASSUME ~(s = a /\ k \in given) PROVE s \in Given!Pending(k)'
        <4>1. (\E i \in (m + 1)..n : order[i] = k) => k \in given
          <5>1. \A i \in (m + 1)..n : i \in 1..n
            BY <1>2
          <5> QED BY <5>1 DEF FirstIds
        <4>2. k \in Skipped => m > 0 /\ k \in given
          <5>1. \A i \in 1..m : i \in 1..n
            BY <1>2
          <5> QED BY <3>3, <5>1 DEF FirstIds
        <4>3. s # a => s > a
          BY <1>1, <1>5
        <4> QED BY <1>3, <3>2, <3>5, <4>1, <4>2, <4>3
      <3> QED BY <3>4, <3>5
    <2>5. ASSUME NEW k \in Members
          PROVE  Given!Pending(k)' = {s \in Owing(k)' : ~(s = host'.from /\ k \in Skipped')}
      <3>1. Given!Pending(k)' \subseteq Owing(k)
        BY <1>4, <1>7
      <3> QED BY <2>1, <2>3, <2>4, <3>1
    <2>6. host'.from <= Length /\ host'.skip < Cardinality(Due(host.from)')
      <3>1. Due(host.from)' = Due(a)'
        BY DEF Due
      <3> QED BY <1>1, <1>2, <1>9, <2>2, <3>1
    <2>7. PendingInv'
      BY <2>5, <2>6 DEF PendingInv
    <2> QED BY <1>9, <2>1, <2>7
  <1> QED BY <1>8, <1>9

-----------------------------------------------------------------------------
(* Gates and what is owed. *)

LEMMA OwingIs ==
    ASSUME TypeInv, NEW k \in Members, NEW s
    PROVE  s \in Owing(k) <=> /\ s \in host.from..Length /\ ends[k][s] # NoMatch
                              /\ shape.gated => s \in Given!Pending(k)
  BY DEF Owing

\* A member owes everything after what it owes.
LEMMA OwingGoesOn ==
    ASSUME TypeInv, NEW k \in Members, NEW a \in Owing(k), NEW s \in host.from..Length,
           s > a, ends[k][s] # NoMatch
    PROVE  s \in Owing(k)
  <1>1. CASE ~shape.gated
    BY <1>1, OwingIs
  <1>2. CASE shape.gated
    <2>1. a \in Given!Pending(k)
      BY <1>2, OwingIs
    <2>2. /\ a \in origin..Length
          /\ \A i \in 1..Len(out \o buf) : (out \o buf)[i].id = k
                 => Given!Past(a, ends[k][a], (out \o buf)[i])
      BY <2>1, PendingIs
    <2>3. origin \in Nat /\ s \in Nat /\ s <= Length /\ a \in Nat
      BY <2>2, OwingTyped, TextAssumption DEF TypeInv, Starts
    <2>4. ASSUME NEW i \in 1..Len(out \o buf), (out \o buf)[i].id = k
          PROVE  Given!Past(s, ends[k][s], (out \o buf)[i])
      <3> DEFINE m == (out \o buf)[i]
      <3>1. m \in Matches
        BY PendingIs
      <3>2. m.end \in Nat
        BY <3>1, MatchTyped
      <3>3. a >= m.end
        BY <1>2, <2>2, <2>4 DEF Given!Past
      <3> HIDE DEF m
      <3>4. s >= m.end /\ ~(s = m.end)
        BY <2>3, <3>2, <3>3
      <3> QED BY <1>2, <3>4 DEF Given!Past, m
    <2>5. s \in origin..Length
      BY <2>2, <2>3
    <2>6. s \in Given!Pending(k)
      BY <2>4, <2>5, PendingIs
    <2> QED BY <2>6, OwingIs
  <1> QED BY <1>1, <1>2

LEMMA GateTyped ==
    ASSUME TypeInv, NEW k \in Members
    PROVE  gate[k] \in Nat /\ gate[k] <= Dead
  <1>1. gate[k] \in 0..Dead
    BY DEF TypeInv
  <1> QED BY <1>1, Sizes

LEMMA ExactSame ==
    ASSUME NEW g, NEW h, NEW k, g[k] = h[k], Exact(g, k)
    PROVE  Exact(h, k)
  BY DEF Exact, Lets

LEMMA ExactDead ==
    ASSUME TypeInv, NEW g, NEW k \in Members, g[k] = Dead, Owing(k) = {}
    PROVE  Exact(g, k)
  <1> SUFFICES ASSUME NEW s \in host.from..Length, ends[k][s] # NoMatch
               PROVE  ~Lets(g, k, s)
    BY DEF Exact
  <1>1. s \in Nat /\ s <= Length
    BY OwingTyped, TextAssumption
  <1> QED BY <1>1, TextAssumption DEF Lets, Dead

LEMMA ExactRaised ==
    ASSUME TypeInv, NEW k \in Members, Exact(gate, k), NEW a \in Nat,
           \A s \in Owing(k) : a <= s, NEW g, g[k] = Max({gate[k], 2 * a})
    PROVE  Exact(g, k)
  <1> SUFFICES ASSUME NEW s \in host.from..Length, ends[k][s] # NoMatch
               PROVE  s \in Owing(k) <=> Lets(g, k, s)
    BY DEF Exact
  <1>1. s \in Nat /\ gate[k] \in Nat
    BY OwingTyped, TextAssumption, GateTyped
  <1>2. s \in Owing(k) <=> Lets(gate, k, s)
    BY DEF Exact
  <1>3. g[k] = IF gate[k] >= 2 * a THEN gate[k] ELSE 2 * a
    BY <1>1, MaxOfTwo
  <1>4. a <= s => (Lets(gate, k, s) <=> Lets(g, k, s))
    BY <1>1, <1>3 DEF Lets
  <1>5. ~(a <= s) => ~Lets(g, k, s)
    BY <1>1, <1>3 DEF Lets
  <1> QED BY <1>2, <1>4, <1>5

LEMMA ExactFrom ==
    ASSUME TypeInv, NEW k \in Members, NEW a \in Owing(k),
           \A s \in Owing(k) : a <= s, NEW g, g[k] = 2 * a
    PROVE  Exact(g, k)
  <1> SUFFICES ASSUME NEW s \in host.from..Length, ends[k][s] # NoMatch
               PROVE  s \in Owing(k) <=> Lets(g, k, s)
    BY DEF Exact
  <1>1. s \in Nat /\ a \in Nat
    BY OwingTyped, TextAssumption
  <1>2. Lets(g, k, s) <=> a <= s
    BY <1>1 DEF Lets
  <1>3. s > a => s \in Owing(k)
    BY OwingGoesOn
  <1> QED BY <1>1, <1>2, <1>3

\* The members a candidate stands for.
Served(c) == IF c = KeptBody THEN Kept ELSE {c}

LEMMA ServedMembers ==
    /\ KeptBody \notin Members /\ Split \subseteq Candidates /\ Split \subseteq Members
    /\ Kept \subseteq Members
    /\ \A c \in Candidates : Served(c) \subseteq Members /\ (c # KeptBody => c \in Split)
    /\ \A k \in Members : \E c \in Candidates : k \in Served(c)
    /\ Kept # {} <=> KeptBody \in Candidates
    /\ \A k \in Split : Served(k) = {k} /\ k # KeptBody /\ k \notin Kept
    /\ Candidates \subseteq Int
  <1>1. KeptBody \notin Members
    BY MemberAssumption DEF KeptBody, Members
  <1>2. KeptBody \notin Split
    BY <1>1 DEF Members
  <1>3. /\ Split \subseteq Candidates /\ Split \subseteq Members
        /\ Kept \subseteq Members
    BY MemberAssumption DEF Candidates, Members
  <1>4. Kept # {} <=> KeptBody \in Candidates
    BY <1>2 DEF Candidates
  <1>5. \A k \in Split : Served(k) = {k} /\ k # KeptBody /\ k \notin Kept
    BY <1>2, MemberAssumption DEF Served
  <1>6. \A c \in Candidates : c = KeptBody \/ c \in Split
    BY DEF Candidates
  <1>7. \A c \in Candidates : Served(c) \subseteq Members /\ (c # KeptBody => c \in Split)
    BY <1>6 DEF Served, Members
  <1>8. \A k \in Members : \E c \in Candidates : k \in Served(c)
    <2> SUFFICES ASSUME NEW k \in Members PROVE \E c \in Candidates : k \in Served(c)
      OBVIOUS
    <2>1. CASE k \in Kept
      BY <1>4, <2>1 DEF Served
    <2>2. CASE k \in Split
      BY <1>3, <1>5, <2>2
    <2> QED BY <2>1, <2>2 DEF Members
  <1>9. Candidates \subseteq Int
    <2> SUFFICES ASSUME NEW c \in Candidates PROVE c \in Int
      OBVIOUS
    <2>1. KeptBody \in Int
      BY DEF KeptBody
    <2>2. Split \subseteq Int
      BY MemberAssumption
    <2> QED BY <1>6, <2>1, <2>2
  <1> QED BY <1>1, <1>3, <1>4, <1>5, <1>7, <1>8, <1>9

LEMMA BoundIs ==
    ASSUME TypeInv, NEW c \in Candidates
    PROVE  /\ Bound(c) \in 0..(Length + 1) /\ Bound(c) \in Nat /\ Bound(c) >= host.from
           /\ \A k \in Served(c) : Bound(c) = host.from \/ Bound(c) <= gate[k] \div 2
           /\ c \in Split => Bound(c) >= gate[c] \div 2
  <1>0. host.from \in Nat /\ host.from <= Length + 1 /\ Length \in Nat
    BY OwingTyped, TextAssumption
  <1> DEFINE lowest == IF c = KeptBody THEN Min({gate[k] \div 2 : k \in Kept})
                       ELSE gate[c] \div 2
  <1>1. \A k \in Members : gate[k] \div 2 \in Nat /\ gate[k] \div 2 <= Length + 1
    <2> SUFFICES ASSUME NEW k \in Members
                 PROVE  gate[k] \div 2 \in Nat /\ gate[k] \div 2 <= Length + 1
      OBVIOUS
    <2>1. gate[k] \in Nat /\ gate[k] <= 2 * Length + 2
      BY GateTyped DEF Dead
    <2> QED BY <1>0, <2>1
  <1>2. /\ lowest \in Nat /\ lowest <= Length + 1
        /\ \A k \in Served(c) : lowest <= gate[k] \div 2
        /\ c \in Split => lowest = gate[c] \div 2
    <2>1. CASE c = KeptBody
      <3> DEFINE T == {gate[k] \div 2 : k \in Kept}
      <3>1. T \subseteq Nat
        BY <1>1, ServedMembers
      <3>2. Kept # {}
        BY <2>1, ServedMembers
      <3>3. T # {}
        BY <3>2
      <3>4. lowest = Min(T)
        BY <2>1
      <3>5. Min(T) \in T /\ \A y \in T : Min(T) <= y
        BY <3>1, <3>3, MinOfNats
      <3>6. Served(c) = Kept /\ c \notin Split
        BY <2>1, ServedMembers DEF Served, Members
      <3>7. \A k \in Kept : lowest <= gate[k] \div 2
        BY <3>4, <3>5
      <3>8. lowest \in Nat /\ lowest <= Length + 1
        <4>1. PICK k \in Kept : lowest = gate[k] \div 2
          BY <3>4, <3>5
        <4> HIDE DEF lowest
        <4> QED BY <1>1, <4>1, ServedMembers
      <3> HIDE DEF lowest
      <3> QED BY <3>6, <3>7, <3>8
    <2>2. CASE c # KeptBody
      <3>1. c \in Split /\ c \in Members
        BY <2>2, ServedMembers
      <3> QED BY <1>1, <2>2, <3>1 DEF Served
    <2> QED BY <2>1, <2>2
  <1>3. Bound(c) = Max({host.from, lowest})
    BY DEF Bound
  <1> HIDE DEF lowest
  <1>4. Bound(c) = IF host.from >= lowest THEN host.from ELSE lowest
    BY <1>0, <1>2, <1>3, MaxOfTwo
  <1> QED BY <1>0, <1>1, <1>2, <1>4, ServedMembers

LEMMA LetsFromBound ==
    ASSUME TypeInv, NEW c \in Candidates, NEW k \in Served(c), NEW s \in host.from..Length,
           Lets(gate, k, s)
    PROVE  s >= Bound(c)
  <1>1. k \in Members
    BY ServedMembers
  <1>2. gate[k] \in Nat /\ s \in Nat /\ s >= host.from
    BY <1>1, GateTyped, OwingTyped, TextAssumption
  <1>3. 2 * s + 1 >= gate[k]
    BY DEF Lets
  <1>4. gate[k] \div 2 <= s
    BY <1>2, <1>3
  <1>5. gate[k] \div 2 \in Nat
    BY <1>2
  <1> QED BY <1>2, <1>4, <1>5, BoundIs

LEMMA BoundLets ==
    ASSUME TypeInv, NEW k \in Split, NEW s \in Nat, s >= Bound(k)
    PROVE  2 * s + 1 >= gate[k]
  <1>1. gate[k] \in Nat /\ k \in Candidates
    BY GateTyped, ServedMembers
  <1>2. Bound(k) \in Nat /\ Bound(k) >= gate[k] \div 2
    BY <1>1, BoundIs
  <1> QED BY <1>1, <1>2
-----------------------------------------------------------------------------
(* What a step leaves alone. *)

Still == UNCHANGED fixed /\ out' \o buf' = out \o buf /\ host'.from = host.from

LEMMA StillOwing ==
    ASSUME Still
    PROVE  /\ \A k : Given!Pending(k)' = Given!Pending(k)
           /\ \A k : Owing(k)' = Owing(k)
           /\ \A s : Due(s)' = Due(s)
           /\ \A ids : AllOwing(ids)' = AllOwing(ids)
  <1>1. ASSUME NEW k PROVE Given!Pending(k)' = Given!Pending(k)
    BY DEF Given!Pending, Given!NoMatch, Given!Past, Still, fixed
  <1>2. ASSUME NEW k PROVE Owing(k)' = Owing(k)
    BY <1>1 DEF Owing, Still, fixed
  <1>3. \A s : Due(s)' = Due(s)
    BY <1>2 DEF Due
  <1>4. \A ids : AllOwing(ids)' = AllOwing(ids)
    BY <1>2 DEF AllOwing
  <1> QED BY <1>1, <1>2, <1>3, <1>4

LEMMA StillWhole ==
    ASSUME Still
    PROVE  Whole' = Whole /\ KeptPart' = KeptPart
  <1>1. \A s, ids : PositionOf(s, ids)' = PositionOf(s, ids)
    BY DEF PositionOf, Tuple, Still, fixed
  <1>2. \A s, ids : TuplesAt(s, ids)' = TuplesAt(s, ids)
    BY DEF TuplesAt, Tuple, Still, fixed
  <1>3. Whole' = Whole
    <2>1. AllOwing(Members)' = AllOwing(Members)
      BY StillOwing
    <2>2. Due(Min(AllOwing(Members)))' = Due(Min(AllOwing(Members)))
      BY StillOwing DEF Due
    <2> QED BY <1>1, <2>1, <2>2 DEF Whole
  <1>4. KeptPart' = KeptPart
    <2>1. AllOwing(Kept)' = AllOwing(Kept)
      BY StillOwing
    <2>2. Due(Min(AllOwing(Kept)))' = Due(Min(AllOwing(Kept)))
      BY StillOwing DEF Due
    <2> QED BY <1>2, <2>1, <2>2 DEF KeptPart
  <1> QED BY <1>3, <1>4

LEMMA StillPending ==
    ASSUME Still, host'.skip = host.skip, PendingInv
    PROVE  PendingInv'
  <1>1. Due(host.from)' = Due(host.from)
    BY StillOwing DEF Due, Still
  <1>2. Skipped' = Skipped
    BY <1>1 DEF Skipped
  <1> QED BY <1>1, <1>2, StillOwing DEF PendingInv, Still

LEMMA StillExact ==
    ASSUME UNCHANGED fixed, host'.from = host.from, NEW k, Owing(k)' = Owing(k)
    PROVE  Exact(gate, k)' <=> Exact(gate', k)
  BY DEF Exact, Lets, fixed
-----------------------------------------------------------------------------
(* The matches a call gates. *)

LEMMA GatedIs ==
    ASSUME TypeInv, NEW list \in Seq(Matches)
    PROVE  /\ Gated(list) \in Seq(Matches) /\ DOMAIN Gated(list) = 1..Len(Gated(list))
           /\ Len(Gated(list)) \in Nat /\ Len(list) \in Nat /\ host.cap \in Nat
           /\ DOMAIN list = 1..Len(list)
           /\ Len(Gated(list)) <= Len(list)
           /\ \A i \in 1..Len(Gated(list)) : Gated(list)[i] = list[i]
           /\ ~shape.gated => Gated(list) = << >>
           /\ shape.gated /\ shape.batch =>
                  /\ Gated(list) = FirstOf(list, host.cap)
                  /\ Len(Gated(list)) = IF Len(list) <= host.cap THEN Len(list) ELSE host.cap
           /\ shape.gated /\ ~shape.batch =>
                  Gated(list) = IF Len(list) <= host.cap THEN list ELSE << >>
           /\ shape.gated /\ Len(list) <= host.cap => Gated(list) = list
  <1>1. host.cap \in Nat /\ Len(list) \in Nat /\ DOMAIN list = 1..Len(list)
    BY DEF TypeInv
  <1> DEFINE n == IF Len(list) <= host.cap THEN Len(list) ELSE host.cap
             f == SubSeq(list, 1, n)
  <1>2. n \in Nat /\ n <= Len(list)
    BY <1>1
  <1>3. FirstOf(list, host.cap) = f
    <2>1. Min({host.cap, Len(list)}) = n
      BY <1>1, MinOfTwo
    <2> QED BY <2>1 DEF FirstOf
  <1>4. n = Len(list) => f = list
    <2> HIDE DEF n
    <2> QED BY <1>1
  <1> HIDE DEF n
  <1>5. f \in Seq(Matches) /\ Len(f) = n /\ \A i \in 1..n : f[i] = list[i]
    BY <1>1, <1>2
  <1> HIDE DEF f
  <1>6. CASE ~shape.gated
    BY <1>1, <1>6 DEF Gated
  <1>7. CASE shape.gated /\ shape.batch
    <2>1. Gated(list) = f
      BY <1>3, <1>7 DEF Gated
    <2> QED BY <1>1, <1>2, <1>3, <1>4, <1>5, <1>7, <2>1 DEF n
  <1>8. CASE shape.gated /\ ~shape.batch
    BY <1>1, <1>8 DEF Gated
  <1> QED BY <1>6, <1>7, <1>8

LEMMA GatedNone == ASSUME TypeInv PROVE Gated(<< >>) = << >> /\ IdsOf(<< >>) = {}
  <1>0. << >> \in Seq(Matches)
    OBVIOUS
  <1>1. PICK none \in Seq(Matches) : none = << >>
    BY <1>0, Zenon
  <1>2. Len(none) = 0
    BY <1>1
  <1>3. Gated(none) \in Seq(Matches) /\ Len(Gated(none)) = 0
    <2>1. /\ Gated(none) \in Seq(Matches) /\ Len(Gated(none)) \in Nat
          /\ Len(Gated(none)) <= Len(none)
      BY GatedIs
    <2> QED BY <1>2, <2>1
  <1>4. Gated(none) = << >>
    BY <1>3
  <1> QED BY <1>1, <1>4 DEF IdsOf

LEMMA IdsTyped ==
    ASSUME TypeInv, NEW list \in Seq(Matches)
    PROVE  /\ IdsOf(list) \subseteq Members
           /\ \A k : k \in IdsOf(list) <=> \E i \in 1..Len(list) : list[i].id = k
           /\ IdsOf(Gated(list)) \subseteq IdsOf(list)
           /\ \A k : k \in IdsOf(Gated(list))
                        <=> \E i \in 1..Len(Gated(list)) : list[i].id = k
  <1>1. \A i \in 1..Len(list) : list[i] \in Matches
    OBVIOUS
  <1>2. /\ DOMAIN list = 1..Len(list) /\ DOMAIN Gated(list) = 1..Len(Gated(list))
        /\ Len(Gated(list)) \in Nat /\ Len(list) \in Nat /\ Len(Gated(list)) <= Len(list)
        /\ \A i \in 1..Len(Gated(list)) : Gated(list)[i] = list[i]
    BY GatedIs
  <1>3. \A k : k \in IdsOf(list) <=> \E i \in 1..Len(list) : list[i].id = k
    BY <1>2 DEF IdsOf
  <1>4. \A k : k \in IdsOf(Gated(list)) <=> \E i \in 1..Len(Gated(list)) : list[i].id = k
    BY <1>2 DEF IdsOf
  <1>5. IdsOf(list) \subseteq Members
    BY <1>1, <1>3, MatchTyped
  <1>6. \A i \in 1..Len(Gated(list)) : i \in 1..Len(list)
    BY <1>2
  <1> QED BY <1>3, <1>4, <1>5, <1>6

\* A position's matches: one a member.
OnePosition(list) == \A i, j \in 1..Len(list) : list[i].start = list[j].start

LEMMA Recorded ==
    ASSUME TypeInv, NEW list \in Seq(Matches), OnePosition(list), NEW ids, NEW g
    PROVE  /\ \A i \in 1..Len(list) : list[i].id \in ids
                  => RecordAll(g, list, ids)[list[i].id] = Reported(list[i])
           /\ \A k \in Members : ~(k \in ids /\ k \in IdsOf(list))
                  => RecordAll(g, list, ids)[k] = g[k]
  <1>1. DOMAIN list = 1..Len(list)
    OBVIOUS
  <1>2. ASSUME NEW i \in 1..Len(list), NEW j \in 1..Len(list), list[i].id = list[j].id
        PROVE  list[i] = list[j]
    <2>1. list[i] \in Matches /\ list[j] \in Matches
      OBVIOUS
    <2>2. list[i] = Tuple(list[i].id, list[i].start) /\ list[j] = Tuple(list[j].id, list[j].start)
      BY <2>1, MatchTyped
    <2> QED BY <1>2, <2>2 DEF OnePosition
  <1>3. ASSUME NEW i \in 1..Len(list), list[i].id \in ids
        PROVE  RecordAll(g, list, ids)[list[i].id] = Reported(list[i])
    <2> DEFINE k == list[i].id
               j == CHOOSE l \in DOMAIN list : list[l].id = k
    <2>1. k \in Members /\ k \in IdsOf(list)
      BY <1>1, IdsTyped
    <2>2. j \in 1..Len(list) /\ list[j].id = k
      BY <1>1
    <2>3. RecordAll(g, list, ids)[k] = Reported(list[j])
      BY <1>3, <2>1 DEF RecordAll
    <2> HIDE DEF j
    <2> QED BY <1>2, <2>2, <2>3
  <1>4. \A k \in Members : ~(k \in ids /\ k \in IdsOf(list))
            => RecordAll(g, list, ids)[k] = g[k]
    BY DEF RecordAll
  <1> QED BY <1>3, <1>4
-----------------------------------------------------------------------------
(* What a candidate answers. *)

LEMMA EarliestIs ==
    ASSUME TypeInv, NEW ids \in SUBSET Members
    PROVE  /\ Earliest(AllOwing(ids)) = Never => \A k \in ids : Owing(k) = {}
           /\ Earliest(AllOwing(ids)) # Never =>
                 /\ Earliest(AllOwing(ids)) = Min(AllOwing(ids))
                 /\ Earliest(AllOwing(ids)) \in Starts /\ AllOwing(ids) # {}
                 /\ \E k \in ids : Earliest(AllOwing(ids)) \in Owing(k)
           /\ Earliest(AllOwing(ids)) \in Nat
           /\ \A k \in ids : \A s \in Owing(k) : Earliest(AllOwing(ids)) <= s
  <1> DEFINE all == AllOwing(ids)
  <1>1. all \subseteq Nat
    BY OwingTyped
  <1>2. CASE all = {}
    <2>1. Earliest(all) = Never
      BY <1>2 DEF Earliest
    <2>2. \A k \in ids : Owing(k) = {}
      BY <1>2 DEF AllOwing
    <2> QED BY <2>1, <2>2, Sizes
  <1>3. CASE all # {}
    <2>1. Earliest(all) = Min(all)
      BY <1>3 DEF Earliest
    <2>2. Min(all) \in all /\ \A y \in all : Min(all) <= y
      BY <1>1, <1>3, MinOfNats
    <2>3. PICK k \in ids : Min(all) \in Owing(k)
      BY <2>2 DEF AllOwing
    <2>4. Min(all) \in Starts
      BY <2>3, OwingTyped
    <2>5. Min(all) # Never
      BY <2>4, TextAssumption DEF Starts, Never
    <2>6. \A l \in ids : \A s \in Owing(l) : Min(all) <= s
      BY <2>2 DEF AllOwing
    <2>7. Min(all) \in Nat
      BY <1>1, <2>2
    <2> QED BY <1>3, <2>1, <2>3, <2>4, <2>5, <2>6, <2>7
  <1> QED BY <1>2, <1>3

LEMMA OneOwing == ASSUME NEW k PROVE AllOwing({k}) = Owing(k)
  BY DEF AllOwing

LEMMA SearchFinds ==
    ASSUME TypeInv, NEW k \in Split, Exact(gate, k)
    PROVE  SearchFrom(k, Bound(k)) = Earliest(Owing(k))
  <1> DEFINE q == Bound(k)
             hits == {s \in q..Length :
                        /\ ends[k][s] # NoMatch
                        /\ ends[k][s] = s /\ shape.gated => 2 * s >= gate[k]}
  <1>0. k \in Members /\ k \in Candidates /\ Served(k) = {k}
    BY ServedMembers
  <1>1. q \in Nat /\ q >= host.from /\ host.from \in Nat /\ Length \in Nat
    BY <1>0, BoundIs, OwingTyped, TextAssumption
  <1>2. ASSUME NEW s \in hits PROVE s \in Owing(k)
    <2>1. s \in Nat /\ s >= q /\ s \in host.from..Length /\ ends[k][s] # NoMatch
      BY <1>1
    <2>2. 2 * s + 1 >= gate[k]
      BY <2>1, BoundLets
    <2>3. Lets(gate, k, s)
      BY <2>2 DEF Lets
    <2> QED BY <2>1, <2>3 DEF Exact
  <1>3. ASSUME NEW s \in Owing(k) PROVE s \in hits
    <2>1. s \in host.from..Length /\ ends[k][s] # NoMatch
      BY <1>0, OwingIs
    <2>2. Lets(gate, k, s)
      BY <2>1 DEF Exact
    <2>3. s >= q
      BY <1>0, <2>1, <2>2, LetsFromBound
    <2>4. s \in q..Length
      BY <1>1, <2>1, <2>3
    <2> QED BY <2>1, <2>2, <2>4 DEF Lets
  <1>4. SearchFrom(k, q) = IF hits = {} THEN Never ELSE Min(hits)
    BY DEF SearchFrom
  <1>5. hits = Owing(k)
    BY <1>2, <1>3
  <1> HIDE DEF hits, q
  <1>6. SearchFrom(k, q) = Earliest(Owing(k))
    BY <1>4, <1>5, Zenon DEF Earliest
  <1> QED BY <1>6 DEF q

LEMMA PreflightIs ==
    ASSUME TypeInv, NEW q
    PROVE  LET g == Preflight(q) IN
           /\ \A k \in Split : g[k] = gate[k]
           /\ \A k \in Kept : \/ g[k] = gate[k]
                              \/ g[k] = Dead /\ \A s \in q..Length : ends[k][s] = NoMatch
                              \/ g[k] = 1 /\ ~shape.gated
  <1>1. \A k \in Members : k \in Split => k \notin Kept
    BY MemberAssumption
  <1>2. Split \subseteq Members /\ Kept \subseteq Members
    BY ServedMembers
  <1> DEFINE absent == {k \in Kept : \A s \in q..Length : ends[k][s] = NoMatch}
             rest == IF shape.gated THEN {} ELSE Kept \ absent
  <1>3. CASE ~(shape.preflight /\ FirstCall(q))
    BY <1>3 DEF Preflight
  <1>4. CASE shape.preflight /\ FirstCall(q)
    <2>1. Preflight(q) = SetAll(SetAll(gate, absent, Dead), rest, 1)
      BY <1>4 DEF Preflight
    <2>2. \A k \in Members : Preflight(q)[k] = IF k \in rest THEN 1
                                               ELSE IF k \in absent THEN Dead ELSE gate[k]
      BY <2>1 DEF SetAll
    <2>3. rest \subseteq Kept /\ absent \subseteq Kept /\ (shape.gated => rest = {})
      OBVIOUS
    <2>4. \A k \in absent : \A s \in q..Length : ends[k][s] = NoMatch
      OBVIOUS
    <2> HIDE DEF rest, absent
    <2> QED BY <1>1, <1>2, <2>2, <2>3, <2>4
  <1> QED BY <1>3, <1>4

LEMMA PreflightTyped ==
    ASSUME TypeInv, NEW q
    PROVE  Preflight(q) \in [Members -> 0..Dead]
  <1>1. gate \in [Members -> 0..Dead] /\ Dead \in Nat /\ 1 <= Dead
    BY Sizes, TextAssumption DEF TypeInv, Dead
  <1>2. Preflight(q) = [k \in Members |-> Preflight(q)[k]]
    <2>1. CASE Preflight(q) = gate
      BY <1>1, <2>1
    <2>2. CASE Preflight(q) # gate
      BY <2>2 DEF Preflight, SetAll
    <2> QED BY <2>1, <2>2
  <1>3. \A k \in Members : Preflight(q)[k] \in 0..Dead
    <2>1. /\ \A k \in Split : Preflight(q)[k] = gate[k]
          /\ \A k \in Kept : \/ Preflight(q)[k] = gate[k]
                             \/ Preflight(q)[k] = Dead
                             \/ Preflight(q)[k] = 1
      BY PreflightIs
    <2>2. \A k \in Members : gate[k] \in 0..Dead
      BY <1>1
    <2>3. 1 \in 0..Dead /\ Dead \in 0..Dead
      BY <1>1
    <2> QED BY <2>1, <2>2, <2>3 DEF Members
  <1> QED BY <1>2, <1>3

\* The preflight tells no less and no more.
LEMMA PreflightExact ==
    ASSUME TypeInv, KeptBody \in Candidates, NEW k \in Members, Exact(gate, k)
    PROVE  Exact(Preflight(Bound(KeptBody)), k)
  <1> DEFINE q == Bound(KeptBody)
             g == Preflight(q)
  <1>1. CASE g[k] = gate[k]
    BY <1>1, ExactSame
  <1>2. CASE k \in Kept /\ g[k] = Dead /\ \A s \in q..Length : ends[k][s] = NoMatch
    <2>1. Owing(k) = {}
      <3> SUFFICES ASSUME NEW s \in Owing(k) PROVE FALSE
        OBVIOUS
      <3>1. s \in host.from..Length /\ ends[k][s] # NoMatch
        BY OwingIs
      <3>2. Lets(gate, k, s)
        BY <3>1 DEF Exact
      <3>3. k \in Served(KeptBody)
        BY <1>2 DEF Served
      <3>4. s >= q
        BY <3>1, <3>2, <3>3, LetsFromBound
      <3>5. q \in Nat /\ host.from \in Nat /\ Length \in Nat
        BY BoundIs, OwingTyped, TextAssumption
      <3>6. s \in q..Length
        BY <3>1, <3>4, <3>5
      <3> QED BY <1>2, <3>1, <3>6
    <2> QED BY <1>2, <2>1, ExactDead
  <1>3. CASE g[k] = 1 /\ ~shape.gated
    <2> SUFFICES ASSUME NEW s \in host.from..Length, ends[k][s] # NoMatch
                 PROVE  s \in Owing(k) <=> Lets(g, k, s)
      BY DEF Exact
    <2>1. s \in Nat
      BY OwingTyped, TextAssumption
    <2>2. s \in Owing(k)
      BY <1>3, OwingIs
    <2> QED BY <1>3, <2>1, <2>2 DEF Lets
  <1>4. \/ g[k] = gate[k]
        \/ k \in Kept /\ g[k] = Dead /\ \A s \in q..Length : ends[k][s] = NoMatch
        \/ g[k] = 1 /\ ~shape.gated
    BY PreflightIs DEF Members
  <1> QED BY <1>1, <1>2, <1>3, <1>4

LEMMA KeptFinds ==
    ASSUME TypeInv, KeptBody \in Candidates, \A k \in Kept : Exact(gate, k)
    PROVE  LET q == Bound(KeptBody) IN KeptList(Preflight(q), q) = KeptPart
  <1> DEFINE q == Bound(KeptBody)
             g == Preflight(q)
             Eligible(s) == {k \in Kept : /\ ends[k][s] # NoMatch
                                          /\ shape.gated \/ shape.preflight => Lets(g, k, s)}
             hits == {s \in q..Length : Eligible(s) # {}}
  <1>1. q \in Nat /\ q >= host.from /\ host.from \in Nat /\ Length \in Nat
    BY BoundIs, OwingTyped, TextAssumption
  <1>2. \A k \in Kept : k \in Members /\ Exact(g, k)
    BY PreflightExact, ServedMembers
  <1> HIDE DEF g
  <1>3. ASSUME NEW s \in q..Length, NEW k \in Kept
        PROVE  k \in Eligible(s) <=> s \in Owing(k)
    <2>1. s \in host.from..Length
      BY <1>1
    <2>2. k \in Members
      BY <1>2
    <2>3. ends[k][s] # NoMatch => (s \in Owing(k) <=> Lets(g, k, s))
      BY <1>2, <2>1 DEF Exact
    <2>4. ~shape.gated => (s \in Owing(k) <=> ends[k][s] # NoMatch)
      BY <2>1, <2>2, OwingIs
    <2>5. s \in Owing(k) => ends[k][s] # NoMatch
      BY <2>2, OwingIs
    <2> QED BY <2>3, <2>4, <2>5
  <1>4. ASSUME NEW s \in q..Length PROVE Eligible(s) = Due(s) \intersect Kept
    BY <1>2, <1>3 DEF Due
  <1>5. ASSUME NEW k \in Kept, NEW s \in Owing(k) PROVE s \in q..Length
    <2>1. k \in Members /\ k \in Served(KeptBody)
      BY <1>2 DEF Served
    <2>2. s \in host.from..Length /\ ends[k][s] # NoMatch
      BY <2>1, OwingIs
    <2>3. Lets(gate, k, s)
      BY <2>2 DEF Exact
    <2>4. s >= q
      BY <2>1, <2>2, <2>3, LetsFromBound
    <2> QED BY <1>1, <2>2, <2>4
  <1>6. KeptList(g, q) = IF hits = {} THEN << >> ELSE TuplesAt(Min(hits), Eligible(Min(hits)))
    BY DEF KeptList
  <1>7. hits = AllOwing(Kept)
    BY <1>3, <1>5 DEF AllOwing
  <1>8. hits # {} => Min(hits) \in q..Length
    <2>1. hits \subseteq Nat /\ \A s \in hits : s \in q..Length
      BY <1>1
    <2> HIDE DEF hits
    <2> QED BY <2>1, MinOfNats
  <1> HIDE DEF hits, Eligible, q
  <1>9. KeptList(g, q) = KeptPart
    BY <1>4, <1>6, <1>7, <1>8 DEF KeptPart
  <1> QED BY <1>9 DEF g, q

LEMMA KeptPartIs ==
    ASSUME TypeInv
    PROVE  LET e == Earliest(AllOwing(Kept)) IN
           /\ KeptPart \in Seq(Matches) /\ Len(KeptPart) \in Nat
           /\ DOMAIN KeptPart = 1..Len(KeptPart)
           /\ KeptPart = << >> <=> e = Never
           /\ KeptPart # << >> => KeptPart = TuplesAt(e, Due(e) \intersect Kept)
           /\ KeptPart # << >> => Len(KeptPart) > 0
           /\ \A i \in 1..Len(KeptPart) :
                  /\ KeptPart[i].id \in Kept /\ KeptPart[i].start = e
                  /\ e \in Owing(KeptPart[i].id)
  <1> DEFINE all == AllOwing(Kept)
             e == Earliest(all)
             ids == Due(e) \intersect Kept
  <1>0. Kept \in SUBSET Members
    BY ServedMembers
  <1>1. CASE all = {}
    <2>1. KeptPart = << >> /\ e = Never
      BY <1>1 DEF KeptPart, Earliest
    <2> QED BY <2>1
  <1>2. CASE all # {}
    <2>1. KeptPart = TuplesAt(e, ids) /\ e = Min(all)
      BY <1>2 DEF KeptPart, Earliest
    <2>2. e # Never /\ e \in Starts /\ \E k \in Kept : e \in Owing(k)
      <3>1. e \in all /\ e \in Nat
        BY <1>0, <1>2, <2>1, OwingTyped, MinOfNats
      <3>2. PICK k \in Kept : e \in Owing(k)
        BY <3>1 DEF AllOwing
      <3>3. e \in Starts
        BY <1>0, <3>2, OwingTyped
      <3>4. e # Never
        BY <3>3, TextAssumption DEF Starts, Never
      <3> QED BY <3>2, <3>3, <3>4
    <2> HIDE DEF e
    <2>3. \A k \in ids : k \in Members /\ k \in Kept /\ e \in Owing(k) /\ ends[k][e] # NoMatch
      BY <1>0, OwingTyped DEF Due
    <2>4. ids # {}
      BY <1>0, <2>2 DEF Due
    <2>5. ids \in SUBSET Members /\ IsFiniteSet(ids)
      BY <2>3, MemberAssumption, FS_Subset
    <2> HIDE DEF ids
    <2>6. /\ Len(KeptPart) = Cardinality(ids) /\ Cardinality(ids) \in Nat
          /\ KeptPart \in Seq(AllAt(e))
          /\ \A i \in 1..Cardinality(ids) :
                 KeptPart[i] = Tuple(Ascending(ids)[i], e) /\ Ascending(ids)[i] \in ids
      BY <2>1, <2>5, TuplesAtLists
    <2>7. Cardinality(ids) # 0
      BY <2>4, <2>5, FS_EmptySet
    <2>8. DOMAIN KeptPart = 1..Cardinality(ids)
      BY <2>6
    <2>9. ASSUME NEW i \in 1..Cardinality(ids)
          PROVE  /\ KeptPart[i].id \in Kept /\ KeptPart[i].start = e
                 /\ e \in Owing(KeptPart[i].id) /\ KeptPart[i] \in Matches
      <3>1. KeptPart[i] = Tuple(Ascending(ids)[i], e) /\ Ascending(ids)[i] \in ids
        BY <2>6
      <3>2. KeptPart[i].id = Ascending(ids)[i] /\ KeptPart[i].start = e
        BY <3>1 DEF Tuple
      <3>3. KeptPart[i] \in Matches
        BY <2>2, <2>3, <3>1, TupleMatches
      <3> QED BY <2>3, <3>1, <3>2, <3>3
    <2>10. KeptPart \in Seq(Matches)
      BY <2>6, <2>8, <2>9
    <2>11. KeptPart # << >>
      BY <2>6, <2>7
    <2>12. Len(KeptPart) \in Nat /\ Len(KeptPart) > 0 /\ DOMAIN KeptPart = 1..Len(KeptPart)
      BY <2>6, <2>7, <2>8
    <2>13. \A i \in 1..Len(KeptPart) : /\ KeptPart[i].id \in Kept /\ KeptPart[i].start = e
                                       /\ e \in Owing(KeptPart[i].id)
      BY <2>6, <2>9
    <2>14. KeptPart = TuplesAt(e, Due(e) \intersect Kept)
      BY <2>1 DEF ids
    <2> QED BY <2>2, <2>10, <2>11, <2>12, <2>13, <2>14 DEF e
  <1> QED BY <1>1, <1>2
-----------------------------------------------------------------------------
(* The kept body is asked. *)

LEMMA KeptListIs ==
    ASSUME TypeInv, NEW g, NEW q \in Nat
    PROVE  LET list == KeptList(g, q) IN
           /\ list \in Seq(Matches) /\ OnePosition(list)
           /\ list # << >> => Len(list) \in Nat \ {0} /\ list[1].start \in Starts
           /\ \A i \in 1..Len(list) :
                  /\ list[i].id \in Kept /\ list[i].start = list[1].start
                  /\ list[i].start >= q /\ list[i].start \in Nat
                  /\ shape.gated => Lets(g, list[i].id, list[i].start)
  <1> DEFINE list == KeptList(g, q)
             Eligible(s) == {k \in Kept : /\ ends[k][s] # NoMatch
                                          /\ shape.gated \/ shape.preflight => Lets(g, k, s)}
             hits == {s \in q..Length : Eligible(s) # {}}
             s == Min(hits)
             ids == Eligible(s)
  <1>1. list = IF hits = {} THEN << >> ELSE TuplesAt(s, ids)
    BY DEF KeptList
  <1>2. CASE hits = {}
    <2>1. list = << >>
      BY <1>1, <1>2
    <2> HIDE DEF list
    <2>2. list \in Seq(Matches) /\ Len(list) = 0
      BY <2>1
    <2>3. 1..Len(list) = {}
      BY <2>2
    <2> QED BY <2>1, <2>2, <2>3 DEF OnePosition, list
  <1>3. CASE hits # {}
    <2>1. hits \subseteq Nat
      BY TextAssumption
    <2>2. s \in hits
      BY <1>3, <2>1, MinOfNats
    <2>3. s \in q..Length /\ ids # {} /\ s \in Starts /\ s \in Nat /\ s >= q
      <3>1. s \in q..Length /\ ids # {}
        BY <2>2
      <3> QED BY <3>1, TextAssumption DEF Starts
    <2> HIDE DEF s
    <2>4. \A k \in ids : /\ k \in Kept /\ k \in Members /\ ends[k][s] # NoMatch
                         /\ shape.gated => Lets(g, k, s)
      BY ServedMembers
    <2>5. ids \in SUBSET Members /\ IsFiniteSet(ids)
      BY <2>4, MemberAssumption, FS_Subset
    <2>6. list = TuplesAt(s, ids)
      BY <1>1, <1>3 DEF s
    <2> HIDE DEF list, ids
    <2>7. /\ Len(list) = Cardinality(ids) /\ Cardinality(ids) \in Nat
          /\ list \in Seq(AllAt(s))
          /\ \A i \in 1..Cardinality(ids) :
                 list[i] = Tuple(Ascending(ids)[i], s) /\ Ascending(ids)[i] \in ids
      BY <2>5, <2>6, TuplesAtLists
    <2>8. Cardinality(ids) # 0
      BY <2>3, <2>5, FS_EmptySet
    <2>9. ASSUME NEW i \in 1..Len(list)
          PROVE  /\ list[i] \in Matches /\ list[i].id \in ids /\ list[i].start = s
      <3>1. list[i] = Tuple(Ascending(ids)[i], s) /\ Ascending(ids)[i] \in ids
        BY <2>7
      <3>2. list[i].id = Ascending(ids)[i] /\ list[i].start = s
        BY <3>1 DEF Tuple
      <3>3. list[i] \in Matches
        BY <2>3, <2>4, <3>1, TupleMatches
      <3> QED BY <3>1, <3>2, <3>3
    <2>10. list \in Seq(Matches)
      BY <2>7, <2>9
    <2>11. 1 \in 1..Len(list)
      BY <2>7, <2>8
    <2>12. list[1].start = s /\ Len(list) \in Nat \ {0}
      BY <2>7, <2>8, <2>9, <2>11
    <2>13. OnePosition(list)
      BY <2>9 DEF OnePosition
    <2>14. \A i \in 1..Len(list) :
              /\ list[i].id \in Kept /\ list[i].start = list[1].start
              /\ list[i].start >= q /\ list[i].start \in Nat
              /\ shape.gated => Lets(g, list[i].id, list[i].start)
      BY <2>3, <2>4, <2>9, <2>12
    <2> QED BY <2>3, <2>10, <2>12, <2>13, <2>14 DEF list
  <1> QED BY <1>2, <1>3

\* The merge is asking.
LEMMA Merging ==
    ASSUME Inv, pc = "merge"
    PROVE  /\ TypeInv /\ call.answer = << >> /\ call.list \in Seq(Matches)
           /\ host.from <= Length /\ status = "driving"
           /\ KeptBody \notin call.asked => call.list = << >>
           /\ Promised = IdsOf(Gated(call.list))
           /\ Promised \subseteq Kept
           /\ KeptBody \notin call.asked => Promised = {}
           /\ \A c \in Candidates \ call.asked :
                  call.bound[c] = Bound(c) /\ call.starts[c] = Never
           /\ ~(shape.gated /\ refused # {}) => \A k \in Split : Exact(gate, k)
  <1>1. /\ TypeInv /\ call.answer = << >> /\ call.list \in Seq(Matches)
        /\ host.from <= Length /\ status = "driving"
        /\ \A c \in Candidates \ call.asked :
               call.bound[c] = Bound(c) /\ call.starts[c] = Never
    BY DEF Inv, CallInv, ModeInv, TypeInv
  <1>2. KeptBody \notin call.asked => call.list = << >>
    <2> SUFFICES ASSUME KeptBody \notin call.asked, call.list # << >> PROVE FALSE
      OBVIOUS
    <2>1. 1 \in DOMAIN call.list
      BY <1>1
    <2> QED BY <2>1 DEF Inv, CallInv
  <1>3. Promised = IdsOf(Gated(call.list))
    BY <1>1, GatedNone DEF Promised
  <1>4. Promised \subseteq Kept
    <2> SUFFICES ASSUME NEW k \in Promised PROVE k \in Kept
      OBVIOUS
    <2>1. PICK i \in 1..Len(call.list) : call.list[i].id = k
      BY <1>1, <1>3, IdsTyped
    <2>2. i \in DOMAIN call.list
      BY <1>1, <2>1
    <2> QED BY <2>1, <2>2 DEF Inv, CallInv
  <1>5. KeptBody \notin call.asked => Promised = {}
    BY <1>1, <1>2, <1>3, GatedNone
  <1>6. ~(shape.gated /\ refused # {}) => \A k \in Split : Exact(gate, k)
    BY <1>4, ServedMembers DEF Inv, GateInv
  <1> QED BY <1>1, <1>2, <1>3, <1>4, <1>5, <1>6

LEMMA AskedKept ==
    ASSUME Inv, AskKept
    PROVE  LET q == Bound(KeptBody)
               g == Preflight(q)
               list == KeptList(g, q) IN
           /\ pc = "merge" /\ KeptBody \in Candidates /\ KeptBody \notin call.asked
           /\ q \in Nat /\ call.bound[KeptBody] = q
           /\ gate' = RecordAll(g, Gated(list), Kept)
           /\ call' = [call EXCEPT !.asked = @ \union {KeptBody}, !.list = list,
                          !.starts[KeptBody] = IF list = << >> THEN Never
                                               ELSE list[1].start]
           /\ UNCHANGED <<fixed, host, out, buf, status, pc, reached, offered, refused>>
           /\ Still
  <1>1. pc = "merge" /\ KeptBody \in Candidates /\ KeptBody \notin call.asked
    BY DEF AskKept, IsTurn, Turns
  <1>2. call.bound[KeptBody] = Bound(KeptBody) /\ TypeInv
    BY <1>1, Merging
  <1>3. Bound(KeptBody) \in Nat
    BY <1>1, <1>2, BoundIs
  <1>4. UNCHANGED <<fixed, host, out, buf, status, pc, reached, offered, refused>> /\ Still
    BY DEF AskKept, Still, fixed
  <1> QED BY <1>1, <1>2, <1>3, <1>4 DEF AskKept

\* An answer's gates are not below those it was found with.
LEMMA KeptGates ==
    ASSUME Inv, AskKept
    PROVE  /\ gate' \in [Members -> 0..Dead]
           /\ \A k \in Split : gate'[k] = gate[k]
           /\ shape.gated => \A k \in Members : gate'[k] >= gate[k]
           /\ \A i \in 1..Len(Gated(call'.list)) :
                  gate'[call'.list[i].id] = Reported(call'.list[i])
           /\ call'.list \in Seq(Matches) /\ call'.list = KeptList(Preflight(Bound(KeptBody)), Bound(KeptBody))
           /\ \A k \in Members \ IdsOf(Gated(call'.list)) :
                  gate'[k] = Preflight(Bound(KeptBody))[k]
  <1> DEFINE q == Bound(KeptBody)
             g == Preflight(q)
             list == KeptList(g, q)
             some == Gated(list)
  <1>1. /\ pc = "merge" /\ KeptBody \in Candidates /\ q \in Nat
        /\ gate' = RecordAll(g, some, Kept) /\ call'.list = list /\ TypeInv
    <2>1. call \in [bound : [Candidates -> 0..(Length + 1)],
                    starts : [Candidates -> Starts \union {Never}],
                    asked : SUBSET Candidates,
                    list : Seq(Matches), answer : Seq(Matches)]
      BY DEF Inv, TypeInv
    <2> QED BY <2>1, AskedKept DEF Inv
  <1> HIDE DEF q
  <1>0. /\ \A k \in Split : g[k] = gate[k]
        /\ \A k \in Kept : \/ g[k] = gate[k]
                           \/ g[k] = Dead /\ \A s \in q..Length : ends[k][s] = NoMatch
                           \/ g[k] = 1 /\ ~shape.gated
    BY <1>1, PreflightIs, Zenon
  <1> HIDE DEF g
  <1>2. \A k \in Split : g[k] = gate[k] /\ k \in Members /\ k \notin Kept
    BY <1>0, ServedMembers
  <1>3. \A k \in Kept : \/ g[k] = gate[k]
                        \/ g[k] = Dead
                        \/ g[k] = 1 /\ ~shape.gated
    BY <1>0
  <1>a. /\ list \in Seq(Matches) /\ OnePosition(list)
        /\ \A i \in 1..Len(list) :
               /\ list[i].id \in Kept
               /\ list[i].start \in Nat
               /\ shape.gated => Lets(g, list[i].id, list[i].start)
    BY <1>1, KeptListIs
  <1> HIDE DEF list
  <1>4. \A k \in Members : gate[k] \in Nat /\ gate[k] <= Dead
    BY <1>1, GateTyped
  <1>5. \A k \in Members : /\ g[k] \in 0..Dead
                           /\ shape.gated => g[k] >= gate[k]
    <2>1. 1 <= Dead /\ Dead \in Nat
      BY Sizes, TextAssumption DEF Dead
    <2> QED BY <1>2, <1>3, <1>4, <2>1 DEF Members
  <1>6. /\ some \in Seq(Matches) /\ DOMAIN some = 1..Len(some)
        /\ \A i \in 1..Len(some) : i \in 1..Len(list) /\ some[i] = list[i]
    <2>1. /\ some \in Seq(Matches) /\ DOMAIN some = 1..Len(some)
          /\ Len(some) <= Len(list) /\ Len(some) \in Nat /\ Len(list) \in Nat
          /\ \A i \in 1..Len(some) : some[i] = list[i]
      BY <1>1, <1>a, GatedIs
    <2> QED BY <2>1
  <1>b. ~shape.gated => some = << >>
    BY <1>1, <1>a, GatedIs
  <1> HIDE DEF some
  <1>7. OnePosition(some)
    BY <1>6, <1>a DEF OnePosition
  <1>8. /\ \A i \in 1..Len(some) : gate'[some[i].id] = Reported(some[i])
        /\ \A k \in Members : ~(k \in Kept /\ k \in IdsOf(some)) => gate'[k] = g[k]
    <2>1. /\ \A i \in 1..Len(some) : some[i].id \in Kept
                => RecordAll(g, some, Kept)[some[i].id] = Reported(some[i])
          /\ \A k \in Members : ~(k \in Kept /\ k \in IdsOf(some))
                => RecordAll(g, some, Kept)[k] = g[k]
      BY <1>1, <1>6, <1>7, Recorded
    <2> QED BY <1>1, <1>6, <1>a, <2>1
  <1>9. \A k \in Split : gate'[k] = gate[k]
    BY <1>2, <1>8
  <1>10. ASSUME NEW i \in 1..Len(some)
         PROVE  /\ some[i].id \in Members /\ Reported(some[i]) \in 0..Dead
                /\ shape.gated => Reported(some[i]) >= gate[some[i].id]
    <2>1. some[i] \in Matches
      BY <1>6
    <2>2. /\ some[i].id \in Members /\ some[i].start \in Starts
          /\ ends[some[i].id][some[i].start] # NoMatch
          /\ some[i] = Tuple(some[i].id, some[i].start) /\ some[i].start \in Nat
      BY <1>1, <2>1, MatchTyped
    <2>3. Reported(some[i]) \in 0..Dead /\ Reported(some[i]) >= 2 * some[i].start + 1
      BY <1>1, <2>2, ReportedGates, Zenon
    <2>4. shape.gated => 2 * some[i].start + 1 >= g[some[i].id]
      BY <1>6, <1>a DEF Lets
    <2>5. shape.gated => Reported(some[i]) >= gate[some[i].id]
      <3> DEFINE r == Reported(some[i])
      <3>1. g[some[i].id] \in Nat /\ gate[some[i].id] \in Nat /\ r \in Nat
        BY <1>4, <1>5, <2>2, <2>3, Sizes
      <3>2. shape.gated => g[some[i].id] >= gate[some[i].id]
        BY <1>5, <2>2
      <3> HIDE DEF r
      <3>3. r >= 2 * some[i].start + 1
        BY <2>3 DEF r
      <3> QED BY <2>2, <2>4, <3>1, <3>2, <3>3 DEF r
    <2> QED BY <2>2, <2>3, <2>5
  <1>11. ASSUME NEW k \in Members
         PROVE  gate'[k] \in 0..Dead /\ (shape.gated => gate'[k] >= gate[k])
    <2>1. CASE k \in IdsOf(some)
      <3>1. PICK i \in 1..Len(some) : some[i].id = k
        BY <1>6, <2>1 DEF IdsOf
      <3> QED BY <1>8, <1>10, <3>1
    <2>2. CASE k \notin IdsOf(some)
      BY <1>5, <1>8, <2>2
    <2> QED BY <2>1, <2>2
  <1>12. gate' \in [Members -> 0..Dead]
    <2>1. gate' = [k \in Members |-> gate'[k]]
      BY <1>1 DEF RecordAll
    <2> QED BY <1>11, <2>1
  <1>13. \A i \in 1..Len(some) : gate'[list[i].id] = Reported(list[i])
    BY <1>6, <1>8
  <1> QED BY <1>1, <1>8, <1>9, <1>11, <1>12, <1>13, <1>a DEF some, list, g, q
-----------------------------------------------------------------------------
(* Behind a member that gave up. *)

\* A caller that goes on after -2 with the gates as they are, on a host that
\* gives the memory after all: the case the gates say nothing of.
GoesOnRegardless == shape.gated /\ shape.batch /\ shape.recovers /\ refused # {}

LEMMA LetsLess ==
    ASSUME NEW g, NEW h, NEW k, NEW s \in Nat, g[k] \in Nat, h[k] \in Nat, h[k] >= g[k],
           Lets(h, k, s)
    PROVE  Lets(g, k, s)
  BY DEF Lets

LEMMA BoundStays ==
    ASSUME NEW k \in Split, gate'[k] = gate[k], host'.from = host.from
    PROVE  Bound(k)' = Bound(k)
  <1>1. k # KeptBody
    BY ServedMembers
  <1> QED BY <1>1 DEF Bound

\* The bound of a candidate none of whose gates moved.
LEMMA BoundKept ==
    ASSUME NEW c \in Candidates, \A k \in Served(c) : gate'[k] = gate[k],
           host'.from = host.from
    PROVE  Bound(c)' = Bound(c)
  <1>1. CASE c = KeptBody
    <2>1. \A k \in Kept : gate'[k] = gate[k]
      BY <1>1 DEF Served
    <2>2. {gate'[k] \div 2 : k \in Kept} = {gate[k] \div 2 : k \in Kept}
      BY <2>1
    <2> QED BY <1>1, <2>2 DEF Bound
  <1>2. CASE c # KeptBody
    BY <1>2 DEF Bound, Served
  <1> QED BY <1>1, <1>2

LEMMA StuckStays ==
    ASSUME TypeInv, gate' \in [Members -> 0..Dead], UNCHANGED fixed,
           host'.from = host.from, NEW k \in Candidates,
           \A j \in Served(k) : gate'[j] = gate[j],
           \A j \in Members : gate'[j] >= gate[j], Stuck(k),
           pc' = "merge" => /\ k \notin call'.asked
                            /\ \A c \in call'.asked : call'.starts[c] >= Bound(k)
    PROVE  Stuck(k)'
  <1>1. Bound(k)' = Bound(k)
    BY BoundKept
  <1>2. ASSUME NEW j \in Members, NEW s \in host.from..(Bound(k) - 1), ends[j][s] # NoMatch
        PROVE  ~Lets(gate', j, s)
    <2>2. Bound(k) \in Nat /\ host.from \in Nat
      BY BoundIs, OwingTyped
    <2>3. s \in Nat
      BY <2>2
    <2>4. gate[j] \in Nat /\ gate'[j] \in Nat
      BY GateTyped, Sizes
    <2>5. ~Lets(gate, j, s)
      BY <1>2 DEF Stuck
    <2> QED BY <2>3, <2>4, <2>5, LetsLess
  <1>3. Bound(k) <= Length
    BY DEF Stuck
  <1>4. ASSUME NEW j \in Members, NEW s \in (host.from..(Bound(k) - 1))', ends'[j][s] # NoMatch
        PROVE  ~Lets(gate, j, s)'
    <2>1. s \in host.from..(Bound(k) - 1) /\ ends[j][s] # NoMatch
      BY <1>1, <1>4 DEF fixed
    <2>2. ~Lets(gate', j, s)
      BY <1>2, <2>1
    <2> QED BY <2>2 DEF Lets, fixed
  <1> QED BY <1>1, <1>3, <1>4 DEF Stuck

LEMMA StuckStarts ==
    ASSUME TypeInv, NEW k \in Candidates, Stuck(k), NEW j \in Members, NEW s \in Nat,
           s >= host.from, ends[j][s] # NoMatch, Lets(gate, j, s)
    PROVE  s >= Bound(k)
  <1>2. Bound(k) \in Nat /\ host.from \in Nat
    BY BoundIs, OwingTyped
  <1>3. s < Bound(k) => s \in host.from..(Bound(k) - 1)
    BY <1>2
  <1> QED BY <1>2, <1>3 DEF Stuck

LEMMA StuckIs ==
    ASSUME Inv, shape.gated, refused # {}, status = "driving"
    PROVE  /\ shape.batch /\ buf = << >> /\ pc \in {"host", "walk", "merge"}
           /\ \E k \in refused : Stuck(k) /\ k \in Candidates
  BY DEF Inv, StuckInv, TypeInv
-----------------------------------------------------------------------------
(* The kept body is asked: the invariant. *)

LEMMA AskKeptShape ==
    ASSUME Inv, AskKept
    PROVE  TypeInv' /\ ModeInv' /\ CallInv' /\ ReachInv'
  <1> DEFINE list == KeptList(Preflight(Bound(KeptBody)), Bound(KeptBody))
             start == IF list = << >> THEN Never ELSE list[1].start
  <1>1. /\ pc = "merge" /\ KeptBody \in Candidates /\ KeptBody \notin call.asked
        /\ Bound(KeptBody) \in Nat
        /\ call' = [call EXCEPT !.asked = @ \union {KeptBody}, !.list = list,
                       !.starts[KeptBody] = start]
        /\ UNCHANGED <<fixed, host, out, buf, status, pc, reached, offered, refused>>
    BY AskedKept
  <1>2. /\ gate' \in [Members -> 0..Dead]
        /\ \A k \in Split : gate'[k] = gate[k]
        /\ list \in Seq(Matches)
    BY KeptGates
  <1>3. TypeInv /\ ModeInv /\ CallInv /\ ReachInv
    BY DEF Inv
  <1>4. /\ list # << >> => Len(list) \in Nat \ {0} /\ list[1].start \in Starts
        /\ \A i \in 1..Len(list) : list[i].id \in Kept /\ list[i].start = list[1].start
    BY <1>1, <1>3, KeptListIs
  <1> HIDE DEF list
  <1>5. start \in Starts \union {Never}
    BY <1>4
  <1>6. call \in [bound : [Candidates -> 0..(Length + 1)],
                  starts : [Candidates -> Starts \union {Never}],
                  asked : SUBSET Candidates,
                  list : Seq(Matches), answer : Seq(Matches)]
    BY <1>3 DEF TypeInv
  <1>a. DOMAIN list = 1..Len(list) /\ (list = << >> => Len(list) = 0)
    BY <1>2
  <1>b. \A i \in DOMAIN list : /\ list # << >>
                               /\ list[i].id \in Kept /\ list[i].start = list[1].start
    BY <1>4, <1>a
  <1> DEFINE starts == [call.starts EXCEPT ![KeptBody] = start]
  <1>7. /\ call'.bound = call.bound /\ call'.answer = call.answer
        /\ call'.asked = call.asked \union {KeptBody}
        /\ call'.list = list /\ call'.starts = starts
        /\ starts \in [Candidates -> Starts \union {Never}]
        /\ starts[KeptBody] = start
        /\ \A c \in Candidates : c # KeptBody => starts[c] = call.starts[c]
    <2>1. starts \in [Candidates -> Starts \union {Never}]
      BY <1>5, <1>6
    <2>2. starts[KeptBody] = start
      BY <1>1, <1>6
    <2>3. \A c \in Candidates : c # KeptBody => starts[c] = call.starts[c]
      BY <1>6
    <2> QED BY <1>1, <1>6, <2>1, <2>2, <2>3
  <1>8. call' \in [bound : [Candidates -> 0..(Length + 1)],
                   starts : [Candidates -> Starts \union {Never}],
                   asked : SUBSET Candidates,
                   list : Seq(Matches), answer : Seq(Matches)]
    <2> HIDE DEF starts, start
    <2>1. call' = [bound |-> call.bound, starts |-> starts,
                   asked |-> call.asked \union {KeptBody},
                   list |-> list, answer |-> call.answer]
      BY <1>1, <1>6 DEF starts
    <2>2. call.asked \union {KeptBody} \in SUBSET Candidates
      BY <1>1, <1>6
    <2> QED BY <1>2, <1>6, <1>7, <2>1, <2>2
  <1> HIDE DEF starts
  <1>9. TypeInv'
    <2>1. Matches' = Matches
      BY <1>1 DEF Matches, Tuple, fixed
    <2> QED BY <1>1, <1>2, <1>3, <1>8, <2>1 DEF TypeInv, fixed
  <1>10. ModeInv'
    BY <1>1, <1>3 DEF ModeInv, fixed
  <1>11. CallInv'
    <2>1. ASSUME NEW c \in Candidates \ call'.asked
          PROVE  call'.bound[c] = Bound(c)' /\ call'.starts[c] = Never
      <3>1. c \in Candidates \ call.asked /\ c # KeptBody
        BY <1>7
      <3>2. c \in Split
        BY <3>1, ServedMembers
      <3>3. Bound(c)' = Bound(c)
        BY <1>1, <1>2, <3>2, BoundStays
      <3>4. call.bound[c] = Bound(c) /\ call.starts[c] = Never
        BY <1>1, <1>3, <3>1 DEF CallInv
      <3> QED BY <1>7, <3>1, <3>3, <3>4
    <2>2. ASSUME NEW k \in Split, call'.starts[k] # Never
          PROVE  ends'[k][call'.starts[k]] # NoMatch
      <3>1. k # KeptBody /\ k \in Candidates
        BY ServedMembers
      <3> QED BY <1>1, <1>3, <1>7, <2>2, <3>1 DEF CallInv, fixed
    <2>3. \A i \in DOMAIN call'.list :
              /\ KeptBody \in call'.asked
              /\ call'.list[i].id \in Kept /\ call'.list[i].start = call'.starts[KeptBody]
      BY <1>7, <1>b
    <2>4. call'.list = << >> => call'.starts[KeptBody] = Never
      BY <1>7
    <2>5. pc' = "merge" /\ call'.answer = << >>
      BY <1>1, <1>3, <1>7 DEF CallInv
    <2> QED BY <2>1, <2>2, <2>3, <2>4, <2>5 DEF CallInv
  <1>12. ReachInv'
    <2> SUFFICES ASSUME NEW k \in Split
                 PROVE  /\ gate'[k] >= 2 * reached'[k]
                        /\ pc' = "merge" /\ k \in call'.asked
                               => reached'[k] <= call'.starts[k]
      BY DEF ReachInv
    <2>1. k # KeptBody /\ k \in Candidates
      BY ServedMembers
    <2> QED BY <1>1, <1>2, <1>3, <1>7, <2>1 DEF ReachInv
  <1> QED BY <1>9, <1>10, <1>11, <1>12

\* The rest of a call's locals after the kept body answered.
LEMMA AskedKeptCall ==
    ASSUME Inv, AskKept
    PROVE  LET list == KeptList(Preflight(Bound(KeptBody)), Bound(KeptBody)) IN
           /\ call'.asked = call.asked \union {KeptBody} /\ call'.answer = << >>
           /\ call'.list = list
           /\ call'.starts[KeptBody] = IF list = << >> THEN Never ELSE list[1].start
           /\ \A c \in Candidates : c # KeptBody => call'.starts[c] = call.starts[c]
           /\ pc = "merge" /\ pc' = "merge" /\ Still /\ UNCHANGED <<fixed, host, offered, refused>>
  <1> DEFINE list == KeptList(Preflight(Bound(KeptBody)), Bound(KeptBody))
             start == IF list = << >> THEN Never ELSE list[1].start
  <1>1. /\ KeptBody \in Candidates /\ pc = "merge"
        /\ call' = [call EXCEPT !.asked = @ \union {KeptBody}, !.list = list,
                       !.starts[KeptBody] = start]
        /\ UNCHANGED <<fixed, host, out, buf, status, pc, reached, offered, refused>> /\ Still
    BY AskedKept
  <1>2. call \in [bound : [Candidates -> 0..(Length + 1)],
                  starts : [Candidates -> Starts \union {Never}],
                  asked : SUBSET Candidates,
                  list : Seq(Matches), answer : Seq(Matches)]
    BY DEF Inv, TypeInv
  <1>3. call.answer = << >>
    BY <1>1, Merging
  <1> HIDE DEF list, start
  <1> QED BY <1>1, <1>2, <1>3 DEF list, start

LEMMA AskKeptLost ==
    ASSUME Inv, AskKept, shape.gated, refused # {}, ~GoesOnRegardless
    PROVE  StuckInv'
  <1> DEFINE q == Bound(KeptBody)
             g == Preflight(q)
             list == KeptList(g, q)
  <1>1. /\ pc = "merge" /\ TypeInv /\ status = "driving"
        /\ KeptBody \in Candidates /\ q \in Nat
        /\ UNCHANGED <<fixed, host, out, buf, status, pc, reached, offered, refused>>
    BY AskedKept, Merging
  <1>2. PICK k \in refused : Stuck(k) /\ k \in Candidates
    BY <1>1, StuckIs
  <1>a. k \in Split /\ k \in Members /\ Served(k) = {k}
    <2>1. k # KeptBody
      BY <1>1, <1>2, StuckIs DEF AskKept, GoesOnRegardless
    <2> QED BY <1>2, <2>1, ServedMembers
  <1>3. /\ gate' \in [Members -> 0..Dead] /\ gate'[k] = gate[k]
        /\ \A j \in Members : gate'[j] >= gate[j]
    BY <1>a, KeptGates
  <1>4. /\ call'.asked = call.asked \union {KeptBody}
        /\ call'.starts[KeptBody] = IF list = << >> THEN Never ELSE list[1].start
        /\ \A c \in Candidates : c # KeptBody => call'.starts[c] = call.starts[c]
    BY AskedKeptCall
  <1>5. /\ list # << >> => Len(list) \in Nat \ {0}
        /\ list \in Seq(Matches)
        /\ \A i \in 1..Len(list) :
               /\ list[i].id \in Kept
               /\ list[i].start >= q /\ list[i].start \in Nat
               /\ shape.gated => Lets(g, list[i].id, list[i].start)
    BY <1>1, KeptListIs
  <1>6. q >= host.from /\ host.from \in Nat /\ Bound(k) \in Nat /\ Bound(k) <= Length
    <2>1. Bound(k) <= Length
      BY <1>2 DEF Stuck
    <2> QED BY <1>1, <1>2, <2>1, BoundIs, OwingTyped
  <1> HIDE DEF q
  <1>7. \A j \in Kept : \/ g[j] = gate[j]
                        \/ g[j] = Dead /\ \A s \in q..Length : ends[j][s] = NoMatch
                        \/ g[j] = 1 /\ ~shape.gated
    BY <1>1, PreflightIs, Zenon
  <1> HIDE DEF g, list
  <1>8. call'.starts[KeptBody] >= Bound(k)
    <2>1. CASE list = << >>
      BY <1>4, <1>6, <2>1, TextAssumption DEF Never
    <2>2. CASE list # << >>
      <3> DEFINE m == list[1]
      <3>1. /\ m \in Matches /\ m.id \in Kept /\ m.start >= q /\ m.start \in Nat
            /\ Lets(g, m.id, m.start)
        <4>1. 1 \in 1..Len(list)
          BY <1>5, <2>2
        <4> QED BY <1>5, <4>1
      <3>2. m.id \in Members /\ ends[m.id][m.start] # NoMatch
        BY <1>1, <3>1, MatchTyped
      <3> HIDE DEF m
      <3>3. gate[m.id] \in Nat /\ gate[m.id] <= Dead /\ Dead \in Nat
        BY <1>1, <3>2, GateTyped, Sizes
      <3>4. g[m.id] \in Nat /\ g[m.id] >= gate[m.id]
        BY <1>7, <3>1, <3>3
      <3>5. Lets(gate, m.id, m.start)
        BY <3>1, <3>3, <3>4, LetsLess
      <3>6. m.start >= host.from
        BY <1>1, <1>6, <3>1
      <3>7. m.start >= Bound(k)
        BY <1>1, <1>2, <3>1, <3>2, <3>5, <3>6, StuckStarts
      <3> QED BY <1>4, <2>2, <3>7 DEF m
    <2> QED BY <2>1, <2>2
  <1>9. k # KeptBody /\ k \notin call.asked /\ \A c \in call.asked : call.starts[c] >= Bound(k)
    BY <1>1, <1>2, <1>a, ServedMembers DEF Stuck
  <1>10. k \notin call'.asked /\ \A c \in call'.asked : call'.starts[c] >= Bound(k)
    <2>1. call.asked \subseteq Candidates
      BY <1>1 DEF TypeInv
    <2> QED BY <1>4, <1>8, <1>9, <2>1
  <1>11. Stuck(k)'
    BY <1>1, <1>2, <1>3, <1>10, <1>a, StuckStays
  <1>12. shape.batch /\ buf = << >>
    BY <1>1, StuckIs
  <1> QED BY <1>1, <1>2, <1>11, <1>12 DEF StuckInv, fixed

LEMMA AskKeptSound ==
    ASSUME Inv, AskKept, ~(shape.gated /\ refused # {})
    PROVE  PendingInv' /\ AnswerInv' /\ GateInv'
  <1> DEFINE list == KeptList(Preflight(Bound(KeptBody)), Bound(KeptBody))
  <1>1. /\ TypeInv /\ PendingInv /\ AnswerInv /\ GateInv /\ TypeInv'
    BY AskKeptShape DEF Inv
  <1>2. /\ KeptBody \in Candidates /\ KeptBody \notin call.asked /\ pc = "merge"
        /\ Promised = {}
    BY AskedKept, Merging
  <1>3. \A k \in Members : Exact(gate, k)
    BY <1>1, <1>2 DEF GateInv
  <1>4. list = KeptPart
    BY <1>1, <1>2, <1>3, KeptFinds, ServedMembers
  <1>5. /\ call'.asked = call.asked \union {KeptBody} /\ call'.answer = << >>
        /\ call'.list = list
        /\ call'.starts[KeptBody] = IF list = << >> THEN Never ELSE list[1].start
        /\ \A c \in Candidates : c # KeptBody => call'.starts[c] = call.starts[c]
        /\ pc = "merge" /\ pc' = "merge" /\ Still /\ UNCHANGED <<fixed, host, offered, refused>>
    BY AskedKeptCall
  <1> HIDE DEF list
  <1>6. /\ \A k : Owing(k)' = Owing(k) /\ AllOwing(Kept)' = AllOwing(Kept)
        /\ Whole' = Whole /\ KeptPart' = KeptPart
    BY <1>5, StillOwing, StillWhole
  <1>7. PendingInv'
    BY <1>1, <1>5, StillPending
  <1>8. call'.starts[KeptBody] = Earliest(AllOwing(Kept))
    <2>1. /\ KeptPart = << >> <=> Earliest(AllOwing(Kept)) = Never
          /\ KeptPart # << >> => Len(KeptPart) > 0
          /\ Len(KeptPart) \in Nat
          /\ \A i \in 1..Len(KeptPart) : KeptPart[i].start = Earliest(AllOwing(Kept))
      BY <1>1, KeptPartIs
    <2>2. KeptPart # << >> => 1 \in 1..Len(KeptPart)
      BY <2>1
    <2> QED BY <1>4, <1>5, <2>1, <2>2
  <1>9. AnswerInv'
    <2>1. ASSUME NEW k \in Split \intersect call'.asked
          PROVE  call'.starts[k] = Earliest(Owing(k)')
      <3>1. k # KeptBody /\ k \in Candidates
        BY ServedMembers
      <3>2. k \in Split \intersect call.asked
        BY <1>5, <3>1
      <3> QED BY <1>1, <1>2, <1>5, <1>6, <3>1, <3>2 DEF AnswerInv
    <2>2. call'.starts[KeptBody] = Earliest(AllOwing(Kept)') /\ call'.list = KeptPart'
      BY <1>4, <1>5, <1>6, <1>8
    <2>3. offered' # << >> => offered' = Whole'
      BY <1>1, <1>5, <1>6 DEF AnswerInv
    <2>4. pc' # "answered"
      BY <1>5
    <2>5. Earliest(AllOwing(Kept))' = Earliest(AllOwing(Kept)')
      BY DEF Earliest
    <2>6. \A k : Earliest(Owing(k))' = Earliest(Owing(k)')
      BY DEF Earliest
    <2> QED BY <2>1, <2>2, <2>3, <2>4, <2>5, <2>6 DEF AnswerInv
  <1>10. GateInv'
    <2> DEFINE some == Gated(call'.list)
    <2>1. /\ \A i \in 1..Len(some) : gate'[call'.list[i].id] = Reported(call'.list[i])
          /\ call'.list \in Seq(Matches)
          /\ \A k \in Members \ IdsOf(some) : gate'[k] = Preflight(Bound(KeptBody))[k]
      BY KeptGates
    <2>2. Gated(call.list)' = some /\ Gated(call.answer)' = Gated(<< >>)
      BY <1>5 DEF Gated, FirstOf, fixed
    <2>3. Gated(<< >>) = << >> /\ IdsOf(<< >>) = {}
      BY <1>1, GatedNone
    <2>4. /\ DOMAIN some = 1..Len(some)
          /\ \A i \in 1..Len(some) : some[i] = call'.list[i]
      BY <1>1, <2>1, GatedIs
    <2> HIDE DEF some
    <2>5. ASSUME NEW k \in Members \ IdsOf(some) PROVE Exact(gate, k)'
      <3>1. Exact(Preflight(Bound(KeptBody)), k)
        BY <1>1, <1>2, <1>3, PreflightExact
      <3>2. Exact(gate', k)
        BY <2>1, <2>5, <3>1, ExactSame
      <3> QED BY <1>5, <1>6, <3>2, StillExact DEF Still
    <2>6. Promised' = IdsOf(some)
      BY <2>2, <2>3 DEF Promised, IdsOf
    <2>7. ASSUME NEW x \in {call'.list, call'.answer}, NEW i \in DOMAIN Gated(x)'
          PROVE  gate'[Gated(x)'[i].id] = Reported(Gated(x)'[i])
      <3>1. Gated(x)' = Gated(x)
        BY <1>5 DEF Gated, FirstOf, fixed
      <3>2. CASE x = call'.list
        <4>1. Gated(x)' = some
          BY <3>1, <3>2 DEF some
        <4> QED BY <2>1, <2>4, <2>7, <4>1
      <3>3. CASE x = << >>
        <4>1. Gated(x)' = << >>
          BY <2>3, <3>1, <3>3
        <4> QED BY <2>7, <4>1
      <3> QED BY <1>5, <3>2, <3>3
    <2> QED BY <2>5, <2>6, <2>7 DEF GateInv, Reported
  <1> QED BY <1>7, <1>9, <1>10
-----------------------------------------------------------------------------
(* A member is asked. *)

LEMMA AskedMember ==
    ASSUME Inv, NEW k \in Split, AskMember(k)
    PROVE  LET found == SearchFrom(k, Bound(k)) IN
           /\ pc = "merge" /\ pc' = "merge" /\ k \notin call.asked /\ k \in Candidates
           /\ k # KeptBody /\ k \in Members
           /\ call.bound[k] = Bound(k) /\ Bound(k) \in Nat
           /\ found \in Starts \union {Never} /\ found \in Nat
           /\ found # Never => /\ ends[k][found] # NoMatch /\ found >= Bound(k)
                               /\ Lets(gate, k, found)
           /\ gate' \in [Members -> 0..Dead]
           /\ gate'[k] = IF found = Never THEN Dead ELSE Max({gate[k], 2 * found})
           /\ gate'[k] >= gate[k] /\ gate'[k] >= 2 * Min({found, Length + 1})
           /\ \A j \in Members : j # k => gate'[j] = gate[j]
           /\ call'.asked = call.asked \union {k} /\ call'.bound = call.bound
           /\ call'.answer = << >> /\ call'.list = call.list
           /\ call'.starts[k] = found
           /\ \A c \in Candidates : c # k => call'.starts[c] = call.starts[c]
           /\ call' \in [bound : [Candidates -> 0..(Length + 1)],
                         starts : [Candidates -> Starts \union {Never}],
                         asked : SUBSET Candidates,
                         list : Seq(Matches), answer : Seq(Matches)]
           /\ reached' = [reached EXCEPT ![k] = Min({found, Length + 1})]
           /\ Still /\ UNCHANGED <<fixed, host, out, buf, status, offered, refused>>
  <1> DEFINE found == SearchFrom(k, Bound(k))
             hits == {s \in Bound(k)..Length :
                        /\ ends[k][s] # NoMatch
                        /\ ends[k][s] = s /\ shape.gated => 2 * s >= gate[k]}
  <1>1. /\ pc = "merge" /\ pc' = "merge" /\ k \notin call.asked /\ k \in Candidates
        /\ k # KeptBody /\ k \in Members
    BY ServedMembers DEF AskMember, IsTurn, Turns
  <1>2. call.bound[k] = Bound(k) /\ TypeInv
    BY <1>1, Merging
  <1>3. Bound(k) \in Nat /\ Length \in Nat /\ gate[k] \in Nat /\ gate[k] <= Dead
    BY <1>1, <1>2, BoundIs, GateTyped, TextAssumption
  <1>4. /\ found \in Starts \union {Never} /\ found \in Nat
        /\ found # Never => found \in hits /\ found >= Bound(k) /\ found <= Length
    <2>1. found = IF hits = {} THEN Never ELSE Min(hits)
      BY DEF SearchFrom
    <2>2. \A s \in hits : s \in Nat /\ s >= Bound(k) /\ s <= Length
      BY <1>3
    <2>3. CASE hits = {}
      BY <2>1, <2>3, Sizes
    <2>4. CASE hits # {}
      <3>1. hits \subseteq Nat
        BY <2>2
      <3> HIDE DEF hits
      <3>2. Min(hits) \in hits
        BY <2>4, <3>1, MinOfNats
      <3> QED BY <1>3, <2>1, <2>2, <2>4, <3>2 DEF Starts
    <2> QED BY <2>3, <2>4
  <1>5. found # Never => /\ ends[k][found] # NoMatch /\ found >= Bound(k)
                         /\ Lets(gate, k, found)
    <2> SUFFICES ASSUME found # Never
                 PROVE  /\ ends[k][found] # NoMatch /\ found >= Bound(k)
                        /\ Lets(gate, k, found)
      OBVIOUS
    <2>1. /\ ends[k][found] # NoMatch /\ found >= Bound(k)
          /\ ends[k][found] = found /\ shape.gated => 2 * found >= gate[k]
      BY <1>4
    <2>2. 2 * found + 1 >= gate[k]
      BY <1>2, <1>4, <2>1, BoundLets
    <2> QED BY <2>1, <2>2 DEF Lets
  <1> DEFINE value == IF found = Never THEN Dead ELSE Max({gate[k], 2 * found})
  <1>6. gate' = [j \in Members |-> IF j = k THEN value ELSE gate[j]]
    <2>1. gate' = IF found = Never THEN SetAll(gate, {k}, Dead)
                  ELSE RaiseAll(gate, {k}, LowerBound(found))
      BY <1>2 DEF AskMember
    <2> HIDE DEF found
    <2>2. \A j : j \in {k} <=> j = k
      OBVIOUS
    <2> QED BY <2>1, <2>2 DEF SetAll, RaiseAll, LowerBound
  <1> HIDE DEF found, hits
  <1>7. value \in 0..Dead /\ value >= gate[k] /\ value >= 2 * Min({found, Length + 1})
    <2>1. Min({found, Length + 1}) = IF found <= Length + 1 THEN found ELSE Length + 1
      BY <1>3, <1>4, MinOfTwo
    <2>2. CASE found = Never
      BY <1>3, <1>4, <2>1, <2>2 DEF Dead, Never
    <2>3. CASE found # Never
      <3>1. value = IF gate[k] >= 2 * found THEN gate[k] ELSE 2 * found
        BY <1>3, <1>4, <2>3, MaxOfTwo
      <3> QED BY <1>3, <1>4, <2>1, <2>3, <3>1 DEF Dead
    <2> QED BY <2>2, <2>3
  <1> HIDE DEF value
  <1>8. /\ gate' \in [Members -> 0..Dead] /\ gate'[k] = value
        /\ \A j \in Members : j # k => gate'[j] = gate[j]
    <2>1. gate \in [Members -> 0..Dead]
      BY <1>2 DEF TypeInv
    <2> QED BY <1>1, <1>6, <1>7, <2>1
  <1>9. /\ call' = [call EXCEPT !.asked = @ \union {k}, !.starts[k] = found]
        /\ reached' = [reached EXCEPT ![k] = Min({found, Length + 1})]
    BY <1>2 DEF AskMember, found
  <1>10. Still /\ UNCHANGED <<fixed, host, out, buf, status, offered, refused>>
    BY DEF AskMember, Still, fixed
  <1>11. call \in [bound : [Candidates -> 0..(Length + 1)],
                   starts : [Candidates -> Starts \union {Never}],
                   asked : SUBSET Candidates,
                   list : Seq(Matches), answer : Seq(Matches)]
    BY <1>2 DEF TypeInv
  <1> DEFINE starts == [call.starts EXCEPT ![k] = found]
  <1>12. /\ starts \in [Candidates -> Starts \union {Never}] /\ starts[k] = found
         /\ \A c \in Candidates : c # k => starts[c] = call.starts[c]
    BY <1>1, <1>4, <1>11
  <1>13. call' = [bound |-> call.bound, starts |-> starts, asked |-> call.asked \union {k},
                  list |-> call.list, answer |-> call.answer]
    BY <1>9, <1>11
  <1> HIDE DEF starts
  <1>14. /\ call'.asked = call.asked \union {k} /\ call'.bound = call.bound
         /\ call'.answer = << >> /\ call'.list = call.list
         /\ call'.starts = starts
    BY <1>1, <1>13, Merging
  <1>15. call' \in [bound : [Candidates -> 0..(Length + 1)],
                    starts : [Candidates -> Starts \union {Never}],
                    asked : SUBSET Candidates,
                    list : Seq(Matches), answer : Seq(Matches)]
    <2>1. call.asked \union {k} \in SUBSET Candidates
      BY <1>1, <1>11
    <2> QED BY <1>11, <1>12, <1>13, <2>1
  <1> QED BY <1>1, <1>2, <1>3, <1>4, <1>5, <1>7, <1>8, <1>9, <1>10, <1>12, <1>14, <1>15
          DEF value, found

LEMMA AskMemberShape ==
    ASSUME Inv, NEW k \in Split, AskMember(k)
    PROVE  TypeInv' /\ ModeInv' /\ CallInv' /\ ReachInv'
  <1> DEFINE found == SearchFrom(k, Bound(k))
  <1>1. /\ pc = "merge" /\ pc' = "merge" /\ k \in Candidates /\ k # KeptBody /\ k \in Members
        /\ found \in Starts \union {Never} /\ found \in Nat
        /\ found # Never => ends[k][found] # NoMatch
        /\ gate' \in [Members -> 0..Dead]
        /\ gate'[k] >= 2 * Min({found, Length + 1})
        /\ \A j \in Members : j # k => gate'[j] = gate[j]
    BY AskedMember
  <1>2. /\ call'.asked = call.asked \union {k} /\ call'.bound = call.bound
        /\ call'.answer = << >> /\ call'.list = call.list
        /\ call'.starts[k] = found
        /\ \A c \in Candidates : c # k => call'.starts[c] = call.starts[c]
        /\ call' \in [bound : [Candidates -> 0..(Length + 1)],
                      starts : [Candidates -> Starts \union {Never}],
                      asked : SUBSET Candidates,
                      list : Seq(Matches), answer : Seq(Matches)]
        /\ reached' = [reached EXCEPT ![k] = Min({found, Length + 1})]
        /\ UNCHANGED <<fixed, host, out, buf, status, offered, refused>>
    BY AskedMember
  <1> HIDE DEF found
  <1>3. TypeInv /\ ModeInv /\ CallInv /\ ReachInv
    BY DEF Inv
  <1>a. Min({found, Length + 1}) = IF found <= Length + 1 THEN found ELSE Length + 1
    BY <1>1, TextAssumption, MinOfTwo
  <1> DEFINE end == Min({found, Length + 1})
  <1>b. end \in 0..(Length + 1) /\ end <= found
    BY <1>1, <1>a, TextAssumption
  <1> HIDE DEF end
  <1>c. reached' = [reached EXCEPT ![k] = end] /\ gate'[k] >= 2 * end
    BY <1>1, <1>2 DEF end
  <1>4. TypeInv'
    <2>1. Matches' = Matches
      BY <1>2 DEF Matches, Tuple, fixed
    <2>2. reached' \in [Split -> NoMatch..(Length + 1)]
      <3>1. end \in NoMatch..(Length + 1)
        BY <1>b, TextAssumption DEF NoMatch
      <3> QED BY <1>3, <1>c, <3>1 DEF TypeInv
    <2> QED BY <1>1, <1>2, <1>3, <2>1, <2>2 DEF TypeInv, fixed
  <1>5. ModeInv'
    BY <1>1, <1>2, <1>3 DEF ModeInv, fixed
  <1>6. CallInv'
    <2>1. ASSUME NEW c \in Candidates \ call'.asked
          PROVE  call'.bound[c] = Bound(c)' /\ call'.starts[c] = Never
      <3>1. c \in Candidates \ call.asked /\ c # k
        BY <1>2
      <3>2. call.bound[c] = Bound(c) /\ call.starts[c] = Never
        BY <1>1, <1>3, <3>1 DEF CallInv
      <3>3. Bound(c)' = Bound(c)
        <4>1. CASE c = KeptBody
          <5>1. \A j \in Kept : gate'[j] = gate[j]
            BY <1>1, ServedMembers
          <5>2. {gate'[j] \div 2 : j \in Kept} = {gate[j] \div 2 : j \in Kept}
            BY <5>1
          <5> QED BY <1>2, <4>1, <5>2 DEF Bound
        <4>2. CASE c # KeptBody
          <5>1. c \in Split /\ c \in Members
            BY <3>1, <4>2, ServedMembers
          <5> QED BY <1>1, <1>2, <3>1, <5>1, BoundStays
        <4> QED BY <4>1, <4>2
      <3> QED BY <1>2, <3>1, <3>2, <3>3
    <2>2. ASSUME NEW j \in Split, call'.starts[j] # Never
          PROVE  ends'[j][call'.starts[j]] # NoMatch
      <3>1. j \in Candidates
        BY ServedMembers
      <3> QED BY <1>1, <1>2, <1>3, <2>2, <3>1 DEF CallInv, fixed
    <2>3. call'.starts[KeptBody] = call.starts[KeptBody] \/ KeptBody \notin Candidates
      BY <1>1, <1>2
    <2>4. /\ \A i \in DOMAIN call.list :
                /\ KeptBody \in call.asked
                /\ call.list[i].id \in Kept /\ call.list[i].start = call.starts[KeptBody]
          /\ KeptBody \in call.asked /\ call.list = << >> => call.starts[KeptBody] = Never
          /\ call.asked \subseteq Candidates
      BY <1>1, <1>3 DEF CallInv, TypeInv
    <2>5. \A i \in DOMAIN call'.list :
              /\ KeptBody \in call'.asked
              /\ call'.list[i].id \in Kept /\ call'.list[i].start = call'.starts[KeptBody]
      BY <1>2, <2>3, <2>4
    <2>6. KeptBody \in call'.asked /\ call'.list = << >> => call'.starts[KeptBody] = Never
      BY <1>1, <1>2, <2>3, <2>4
    <2>7. pc' = "merge" /\ call'.answer = << >>
      BY <1>1, <1>2
    <2> QED BY <2>1, <2>2, <2>5, <2>6, <2>7 DEF CallInv
  <1>7. ReachInv'
    <2> SUFFICES ASSUME NEW j \in Split
                 PROVE  /\ gate'[j] >= 2 * reached'[j]
                        /\ pc' = "merge" /\ j \in call'.asked
                               => reached'[j] <= call'.starts[j]
      BY DEF ReachInv
    <2>1. j \in Members /\ j \in Candidates
      BY ServedMembers
    <2>2. reached \in [Split -> NoMatch..(Length + 1)]
      BY <1>3 DEF TypeInv
    <2>3. CASE j = k
      <3>1. reached'[j] = end
        BY <1>c, <2>2, <2>3
      <3> QED BY <1>2, <1>b, <1>c, <2>3, <3>1
    <2>4. CASE j # k
      <3>1. reached'[j] = reached[j]
        BY <1>c, <2>2, <2>4
      <3> QED BY <1>1, <1>2, <1>3, <2>1, <2>4, <3>1 DEF ReachInv
    <2> QED BY <2>3, <2>4
  <1> QED BY <1>4, <1>5, <1>6, <1>7

LEMMA AskMemberLost ==
    ASSUME Inv, NEW k \in Split, AskMember(k), shape.gated, refused # {}, ~GoesOnRegardless
    PROVE  StuckInv'
  <1> DEFINE found == SearchFrom(k, Bound(k))
  <1>1. /\ pc = "merge" /\ pc' = "merge" /\ TypeInv /\ status = "driving"
        /\ k \in Members /\ k # KeptBody /\ call.bound[k] = Bound(k)
        /\ found \in Starts \union {Never} /\ found \in Nat
        /\ found # Never => /\ ends[k][found] # NoMatch /\ found >= Bound(k)
                            /\ Lets(gate, k, found)
        /\ gate' \in [Members -> 0..Dead]
        /\ gate'[k] >= gate[k]
        /\ \A j \in Members : j # k => gate'[j] = gate[j]
        /\ UNCHANGED <<fixed, host, out, buf, status, offered, refused>>
    BY AskedMember, Merging
  <1>2. /\ call'.asked = call.asked \union {k}
        /\ call'.starts[k] = found
        /\ \A c \in Candidates : c # k => call'.starts[c] = call.starts[c]
    BY AskedMember
  <1> HIDE DEF found
  <1>3. shape.batch /\ buf = << >>
    BY <1>1, StuckIs
  <1>4. PICK b \in refused : Stuck(b) /\ b \in Candidates
    BY <1>1, StuckIs
  <1>5. b # k
    BY <1>3, <1>4 DEF AskMember, GoesOnRegardless
  <1>6. \A j \in Served(b) : gate'[j] = gate[j]
    <2>1. Served(b) \subseteq Members /\ k \notin Served(b)
      BY <1>4, <1>5, ServedMembers DEF Served
    <2> QED BY <1>1, <2>1
  <1>7. \A j \in Members : gate'[j] >= gate[j]
    <2>1. \A j \in Members : gate[j] \in Nat
      BY <1>1, GateTyped
    <2> QED BY <1>1, <2>1
  <1>8. found >= Bound(b)
    <2>1. Bound(b) \in Nat /\ Bound(b) <= Length /\ host.from \in Nat
      BY <1>1, <1>4, BoundIs, OwingTyped DEF Stuck
    <2>2. CASE found = Never
      BY <2>1, <2>2, TextAssumption DEF Never
    <2>3. CASE found # Never
      <3>1. k \in Candidates
        BY ServedMembers
      <3>2. Bound(k) \in Nat /\ Bound(k) >= host.from
        BY <1>1, <3>1, BoundIs
      <3>3. found >= host.from
        BY <1>1, <2>1, <2>3, <3>2
      <3> QED BY <1>1, <1>4, <2>3, <3>3, StuckStarts
    <2> QED BY <2>2, <2>3
  <1>9. b \notin call.asked /\ \A c \in call.asked : call.starts[c] >= Bound(b)
    BY <1>1, <1>4 DEF Stuck
  <1>10. b \notin call'.asked /\ \A c \in call'.asked : call'.starts[c] >= Bound(b)
    <2>1. call.asked \subseteq Candidates
      BY <1>1 DEF TypeInv
    <2> QED BY <1>2, <1>5, <1>8, <1>9, <2>1
  <1>11. Stuck(b)'
    BY <1>1, <1>4, <1>6, <1>7, <1>10, StuckStays
  <1> QED BY <1>1, <1>3, <1>4, <1>11 DEF StuckInv, fixed

LEMMA AskMemberSound ==
    ASSUME Inv, NEW k \in Split, AskMember(k), ~(shape.gated /\ refused # {})
    PROVE  PendingInv' /\ AnswerInv' /\ GateInv'
  <1> DEFINE found == SearchFrom(k, Bound(k))
  <1>1. /\ TypeInv /\ PendingInv /\ AnswerInv /\ GateInv /\ pc = "merge" /\ pc' = "merge"
        /\ k \in Members /\ k # KeptBody /\ k \in Candidates /\ k \notin call.asked
        /\ gate'[k] = IF found = Never THEN Dead ELSE Max({gate[k], 2 * found})
        /\ \A j \in Members : j # k => gate'[j] = gate[j]
        /\ Still /\ UNCHANGED <<fixed, host, out, buf, status, offered, refused>>
    BY AskedMember DEF Inv
  <1>2. /\ call'.asked = call.asked \union {k}
        /\ call'.answer = << >> /\ call'.list = call.list
        /\ call'.starts[k] = found
        /\ \A c \in Candidates : c # k => call'.starts[c] = call.starts[c]
    BY AskedMember
  <1>3. /\ Promised \subseteq Kept /\ Promised = IdsOf(Gated(call.list))
        /\ call.list \in Seq(Matches) /\ call.answer = << >>
        /\ \A j \in Split : Exact(gate, j)
    BY <1>1, Merging
  <1>4. found = Earliest(Owing(k))
    BY <1>1, <1>3, SearchFinds
  <1>5. /\ \A j : Owing(j)' = Owing(j) /\ AllOwing(Kept)' = AllOwing(Kept)
        /\ Whole' = Whole /\ KeptPart' = KeptPart
    BY <1>1, StillOwing, StillWhole
  <1>6. PendingInv'
    BY <1>1, StillPending
  <1>7. AnswerInv'
    <2>1. ASSUME NEW j \in Split \intersect call'.asked
          PROVE  call'.starts[j] = Earliest(Owing(j)')
      <3>1. j \in Candidates
        BY ServedMembers
      <3>2. CASE j = k
        BY <1>2, <1>4, <1>5, <3>2
      <3>3. CASE j # k
        <4>1. j \in Split \intersect call.asked
          BY <1>2, <3>3
        <4> QED BY <1>1, <1>2, <1>5, <3>1, <3>3, <4>1 DEF AnswerInv
      <3> QED BY <3>2, <3>3
    <2>2. KeptBody \in call'.asked =>
              call'.starts[KeptBody] = Earliest(AllOwing(Kept)') /\ call'.list = KeptPart'
      <3>1. call.asked \subseteq Candidates
        BY <1>1 DEF TypeInv
      <3> QED BY <1>1, <1>2, <1>5, <3>1 DEF AnswerInv
    <2>3. offered' # << >> => offered' = Whole'
      BY <1>1, <1>5 DEF AnswerInv
    <2>5. Earliest(AllOwing(Kept))' = Earliest(AllOwing(Kept)')
      BY DEF Earliest
    <2>6. \A j : Earliest(Owing(j))' = Earliest(Owing(j)')
      BY DEF Earliest
    <2> QED BY <1>1, <2>1, <2>2, <2>3, <2>5, <2>6 DEF AnswerInv
  <1> HIDE DEF found
  <1>8. GateInv'
    <2> DEFINE some == Gated(call.list)
    <2>1. \A x : Gated(x)' = Gated(x)
      BY <1>1 DEF Gated, FirstOf, fixed
    <2>2. Gated(<< >>) = << >> /\ IdsOf(<< >>) = {}
      BY <1>1, GatedNone
    <2>3. Promised' = Promised
      BY <1>2, <1>3, <2>1 DEF Promised, IdsOf
    <2>4. ASSUME NEW x \in {call'.list, call'.answer}, NEW i \in DOMAIN Gated(x)'
          PROVE  gate'[Gated(x)'[i].id] = Reported(Gated(x)'[i])
      <3>1. Gated(x)' = Gated(x)
        BY <2>1
      <3>2. CASE x = call.list
        <4>1. i \in DOMAIN Gated(call.list)
          BY <2>4, <3>1, <3>2
        <4>2. gate[Gated(call.list)[i].id] = Reported(Gated(call.list)[i])
          BY <1>1, <4>1 DEF GateInv
        <4>3. Gated(call.list)[i].id \in Promised
          BY <1>3, <4>1 DEF IdsOf
        <4>4. Gated(call.list)[i].id \in Members /\ Gated(call.list)[i].id # k
          BY <1>3, <4>3, ServedMembers
        <4> QED BY <1>1, <3>1, <3>2, <4>2, <4>4
      <3>3. CASE x = << >>
        <4>1. Gated(x)' = << >>
          BY <2>2, <3>1, <3>3
        <4> QED BY <2>4, <4>1
      <3> QED BY <1>2, <3>2, <3>3
    <2>5. ASSUME NEW j \in Members \ Promised PROVE Exact(gate, j)'
      <3>1. Exact(gate, j)
        BY <1>1, <2>5 DEF GateInv
      <3>2. CASE j # k
        <4>1. Exact(gate', j)
          BY <1>1, <3>1, <3>2, ExactSame
        <4> QED BY <1>1, <1>5, <4>1, StillExact DEF Still
      <3>3. CASE j = k
        <4>1. /\ Earliest(Owing(k)) = Never => Owing(k) = {}
              /\ Earliest(Owing(k)) \in Nat
              /\ \A s \in Owing(k) : Earliest(Owing(k)) <= s
          <5>1. {k} \in SUBSET Members
            BY <1>1
          <5> QED BY <1>1, <5>1, OneOwing, EarliestIs
        <4>2. CASE found = Never
          <5>1. Exact(gate', k)
            BY <1>1, <1>4, <4>1, <4>2, ExactDead
          <5> QED BY <1>1, <1>5, <3>3, <5>1, StillExact DEF Still
        <4>3. CASE found # Never
          <5>1. gate'[k] = Max({gate[k], 2 * found})
            BY <1>1, <4>3
          <5>2. Exact(gate', k)
            BY <1>1, <1>4, <3>1, <3>3, <4>1, <5>1, ExactRaised
          <5> QED BY <1>1, <1>5, <3>3, <5>2, StillExact DEF Still
        <4> QED BY <4>2, <4>3
      <3> QED BY <3>2, <3>3
    <2> QED BY <2>3, <2>4, <2>5 DEF GateInv, Reported
  <1> QED BY <1>6, <1>7, <1>8
-----------------------------------------------------------------------------
(* The merge returns. *)

LEMMA BestIs ==
    ASSUME TypeInv
    PROVE  /\ Best \in Starts \union {Never} /\ Best \in Nat
           /\ \A c \in Candidates : Best <= call.starts[c]
           /\ \E c \in Candidates : call.starts[c] = Best
  <1> DEFINE all == {call.starts[c] : c \in Candidates}
  <1>1. call.starts \in [Candidates -> Starts \union {Never}]
    BY DEF TypeInv
  <1>2. Starts \union {Never} \subseteq Nat
    BY Sizes DEF Starts
  <1>3. all \subseteq Starts \union {Never} /\ all \subseteq Nat
    BY <1>1, <1>2
  <1>4. all # {}
    <2>1. Candidates # {}
      BY MemberAssumption DEF Candidates
    <2> QED BY <2>1
  <1>5. Min(all) \in all /\ \A y \in all : Min(all) <= y
    BY <1>3, <1>4, MinOfNats
  <1>6. Best = Min(all)
    BY DEF Best
  <1> QED BY <1>3, <1>5, <1>6

\* Nobody who gave up is left behind.
LEMMA SettlingSound ==
    ASSUME Inv, Settling
    PROVE  ~(shape.gated /\ refused # {})
  <1> SUFFICES ASSUME shape.gated, refused # {} PROVE FALSE
    OBVIOUS
  <1>1. pc = "merge" /\ Turns = {} /\ TypeInv /\ status = "driving"
    BY Merging DEF Settling
  <1>2. PICK k \in refused : Stuck(k) /\ k \in Candidates
    BY <1>1, StuckIs
  <1>3. /\ k \notin call.asked /\ \A c \in call.asked : call.starts[c] >= Bound(k)
        /\ Bound(k) <= Length
    BY <1>1, <1>2 DEF Stuck
  <1>4. call.bound[k] = Bound(k) /\ Bound(k) \in Nat
    BY <1>1, <1>2, <1>3, Merging, BoundIs
  <1>5. ~(Bound(k) <= Best)
    BY <1>1, <1>2, <1>3, <1>4 DEF Turns
  <1>6. PICK c \in Candidates : call.starts[c] = Best
    BY <1>1, BestIs
  <1>7. Best \in Nat /\ Length \in Nat
    BY <1>1, BestIs, TextAssumption
  <1>8. CASE c \in call.asked
    BY <1>3, <1>4, <1>5, <1>6, <1>7, <1>8
  <1>9. CASE c \notin call.asked
    <2>1. Best = Length + 2
      BY <1>1, <1>6, <1>9, Merging DEF Never
    <2> QED BY <1>3, <1>4, <1>5, <1>7, <2>1
  <1> QED BY <1>8, <1>9

LEMMA Settled ==
    ASSUME Inv, Settling
    PROVE  /\ TypeInv /\ PendingInv /\ AnswerInv /\ GateInv /\ pc = "merge"
           /\ \A k \in Members : \A s \in Owing(k) : Best <= s
           /\ \A k \in Split : k \in Due(Best) <=> Best # Never /\ call.starts[k] = Best
           /\ \A k \in Kept : k \in Due(Best) =>
                  /\ KeptBody \in call.asked /\ call.starts[KeptBody] = Best
                  /\ KeptPart # << >>
           /\ KeptBody \in call.asked =>
                  /\ call.starts[KeptBody] = Earliest(AllOwing(Kept))
                  /\ call.list = KeptPart
           /\ KeptBody \in Candidates => (call.starts[KeptBody] # Never => KeptBody \in call.asked)
           /\ Best # Never => \E k \in Members : Best \in Owing(k)
  <1>1. /\ TypeInv /\ PendingInv /\ AnswerInv /\ GateInv /\ pc = "merge" /\ Turns = {}
        /\ CallInv
    BY SettlingSound DEF Inv, Settling
  <1>2. /\ \A c \in Candidates \ call.asked :
               call.bound[c] = Bound(c) /\ call.starts[c] = Never
        /\ \A j \in Split : Exact(gate, j)
        /\ KeptBody \notin call.asked => Promised = {}
        /\ call.asked \subseteq Candidates
    BY <1>1, Merging, SettlingSound DEF TypeInv
  <1>3. /\ Best \in Starts \union {Never} /\ Best \in Nat
        /\ \A c \in Candidates : Best <= call.starts[c]
        /\ \E c \in Candidates : call.starts[c] = Best
    BY <1>1, BestIs
  <1>4. \A c \in Candidates \ call.asked : Bound(c) \in Nat /\ Bound(c) > Best
    <2> SUFFICES ASSUME NEW c \in Candidates \ call.asked
                 PROVE  Bound(c) \in Nat /\ Bound(c) > Best
      OBVIOUS
    <2>1. Bound(c) \in Nat /\ call.bound[c] = Bound(c)
      BY <1>1, <1>2, BoundIs
    <2>2. ~(call.bound[c] <= Best)
      BY <1>1 DEF Turns
    <2> QED BY <1>3, <2>1, <2>2
  <1>5. /\ \A k \in Split \intersect call.asked : call.starts[k] = Earliest(Owing(k))
        /\ KeptBody \in call.asked =>
              call.starts[KeptBody] = Earliest(AllOwing(Kept)) /\ call.list = KeptPart
    BY <1>1 DEF AnswerInv
  <1>6. ASSUME NEW c \in Candidates, NEW k \in Served(c), NEW s \in Owing(k)
        PROVE  /\ Best <= s /\ s \in Nat
               /\ s = Best => c \in call.asked /\ call.starts[c] = Best
    <2>1. k \in Members
      BY ServedMembers
    <2>2. s \in Nat /\ s \in host.from..Length /\ ends[k][s] # NoMatch
      BY <1>1, <2>1, OwingIs, OwingTyped
    <2>3. CASE c \in call.asked
      <3>1. call.starts[c] <= s
        <4>1. CASE c = KeptBody
          <5>1. Kept \in SUBSET Members /\ k \in Kept
            BY <4>1, ServedMembers DEF Served
          <5>2. Earliest(AllOwing(Kept)) <= s
            BY <1>1, <5>1, EarliestIs
          <5> QED BY <1>5, <2>3, <4>1, <5>2
        <4>2. CASE c # KeptBody
          <5>1. c \in Split /\ k = c
            BY <4>2, ServedMembers DEF Served
          <5>2. Earliest(Owing(k)) <= s
            <6>1. {k} \in SUBSET Members
              BY <2>1
            <6> QED BY <1>1, <6>1, OneOwing, EarliestIs
          <5> QED BY <1>5, <2>3, <5>1, <5>2
        <4> QED BY <4>1, <4>2
      <3>2. call.starts[c] \in Nat
        <4>1. call.starts[c] \in Starts \union {Never}
          BY <1>1 DEF TypeInv
        <4> QED BY <4>1, Sizes DEF Starts
      <3> QED BY <1>3, <2>2, <2>3, <3>1, <3>2
    <2>4. CASE c \notin call.asked
      <3>1. Exact(gate, k)
        <4>1. CASE c = KeptBody
          BY <1>1, <1>2, <2>1, <2>4, <4>1 DEF GateInv
        <4>2. CASE c # KeptBody
          BY <1>2, <4>2, ServedMembers DEF Served
        <4> QED BY <4>1, <4>2
      <3>2. Lets(gate, k, s)
        BY <2>2, <3>1 DEF Exact
      <3>3. s >= Bound(c)
        BY <1>1, <2>2, <3>2, LetsFromBound
      <3> QED BY <1>3, <1>4, <2>2, <2>4, <3>3
    <2> QED BY <2>3, <2>4
  <1>7. \A k \in Members : \A s \in Owing(k) : Best <= s
    BY <1>6, ServedMembers
  <1>8. ASSUME NEW k \in Split
        PROVE  k \in Due(Best) <=> Best # Never /\ call.starts[k] = Best
    <2>1. k \in Candidates /\ k \in Served(k) /\ k \in Members
      BY ServedMembers
    <2>2. ASSUME k \in Due(Best) PROVE Best # Never /\ call.starts[k] = Best
      <3>1. Best \in Owing(k)
        BY <2>2 DEF Due
      <3>2. Best \in Starts
        BY <1>1, <2>1, <3>1, OwingTyped
      <3>3. Best # Never
        BY <3>2, TextAssumption DEF Starts, Never
      <3> QED BY <1>6, <2>1, <3>1, <3>3
    <2>3. ASSUME Best # Never, call.starts[k] = Best PROVE k \in Due(Best)
      <3>1. k \in call.asked
        BY <1>2, <2>1, <2>3
      <3>2. Earliest(Owing(k)) # Never /\ Earliest(Owing(k)) = Best
        BY <1>5, <2>3, <3>1
      <3>3. Best \in Owing(k)
        <4>1. {k} \in SUBSET Members
          BY <2>1
        <4> QED BY <1>1, <3>2, <4>1, OneOwing, EarliestIs
      <3> QED BY <2>1, <3>3 DEF Due
    <2> QED BY <2>2, <2>3
  <1>9. ASSUME NEW k \in Kept, k \in Due(Best)
        PROVE  /\ KeptBody \in call.asked /\ call.starts[KeptBody] = Best
               /\ KeptPart # << >>
    <2>1. Best \in Owing(k) /\ k \in Served(KeptBody) /\ KeptBody \in Candidates
      BY <1>9, ServedMembers DEF Due, Served
    <2>2. KeptBody \in call.asked /\ call.starts[KeptBody] = Best
      BY <1>6, <2>1
    <2>3. Best # Never
      <3>1. Best \in Starts
        BY <1>1, <2>1, OwingTyped, ServedMembers
      <3> QED BY <3>1, TextAssumption DEF Starts, Never
    <2> QED BY <1>1, <1>5, <2>2, <2>3, KeptPartIs
  <1>10. KeptBody \in Candidates => (call.starts[KeptBody] # Never => KeptBody \in call.asked)
    BY <1>2
  <1>11. ASSUME Best # Never PROVE \E k \in Members : Best \in Owing(k)
    <2>1. PICK c \in Candidates : call.starts[c] = Best
      BY <1>3
    <2>2. c \in call.asked
      BY <1>2, <1>11, <2>1
    <2>3. CASE c = KeptBody
      <3>1. Earliest(AllOwing(Kept)) = Best /\ Kept \in SUBSET Members
        BY <1>5, <2>1, <2>2, <2>3, ServedMembers
      <3> QED BY <1>1, <1>11, <3>1, EarliestIs
    <2>4. CASE c # KeptBody
      <3>1. c \in Split /\ c \in Members
        BY <2>4, ServedMembers
      <3> QED BY <1>8, <1>11, <2>1, <3>1 DEF Due
    <2> QED BY <2>3, <2>4
  <1> QED BY <1>1, <1>5, <1>7, <1>8, <1>9, <1>10, <1>11

LEMMA NoTuples == ASSUME NEW s PROVE TuplesAt(s, {}) = << >>
  <1>1. IsFiniteSet({}) /\ Cardinality({}) = 0 /\ {} \in SUBSET Members
    BY FS_EmptySet
  <1>2. PICK ids \in SUBSET Members : ids = {} /\ IsFiniteSet(ids) /\ Cardinality(ids) = 0
    BY <1>1
  <1>3. TuplesAt(s, ids) \in Seq(AllAt(s)) /\ Len(TuplesAt(s, ids)) = 0
    BY <1>2, TuplesAtLists
  <1>4. TuplesAt(s, ids) = << >>
    BY <1>3
  <1> QED BY <1>2, <1>4

LEMMA WinnersAre ==
    ASSUME Inv, Settling
    PROVE  /\ Winners = Due(Best) \intersect Split
           /\ KeptWon <=> Due(Best) \intersect Kept # {}
           /\ KeptWon => /\ call.list = TuplesAt(Best, Due(Best) \intersect Kept)
                         /\ call.list = KeptPart /\ call.list # << >>
                         /\ KeptBody \in call.asked /\ call.starts[KeptBody] = Best
                         /\ Best # Never
  <1>1. /\ TypeInv /\ CallInv /\ pc = "merge"
        /\ \A k \in Split : k \in Due(Best) <=> Best # Never /\ call.starts[k] = Best
        /\ \A k \in Kept : k \in Due(Best) =>
                  /\ KeptBody \in call.asked /\ call.starts[KeptBody] = Best
                  /\ KeptPart # << >>
        /\ KeptBody \in call.asked =>
                  /\ call.starts[KeptBody] = Earliest(AllOwing(Kept))
                  /\ call.list = KeptPart
    BY Settled DEF Inv
  <1>2. Winners = Due(Best) \intersect Split
    BY <1>1 DEF Winners
  <1>3. ASSUME KeptWon
        PROVE  /\ Due(Best) \intersect Kept # {}
               /\ call.list = TuplesAt(Best, Due(Best) \intersect Kept)
               /\ call.list = KeptPart /\ call.list # << >>
               /\ KeptBody \in call.asked /\ call.starts[KeptBody] = Best
               /\ Best # Never
    <2>1. call.list # << >> /\ call.starts[KeptBody] = Best
      BY <1>3 DEF KeptWon
    <2>2. KeptBody \in call.asked
      BY <1>1, <2>1, Merging
    <2>3. call.list = KeptPart /\ Earliest(AllOwing(Kept)) = Best
      BY <1>1, <2>1, <2>2
    <2>4. /\ KeptPart = TuplesAt(Best, Due(Best) \intersect Kept) /\ Best # Never
      BY <1>1, <2>1, <2>3, KeptPartIs
    <2>5. Due(Best) \intersect Kept # {}
      <3> SUFFICES ASSUME Due(Best) \intersect Kept = {} PROVE FALSE
        OBVIOUS
      <3>1. KeptPart = TuplesAt(Best, {})
        BY <2>4
      <3> QED BY <2>1, <2>3, <3>1, NoTuples
    <2> QED BY <2>1, <2>2, <2>3, <2>4, <2>5
  <1>4. ASSUME Due(Best) \intersect Kept # {} PROVE KeptWon
    <2>1. PICK k \in Kept : k \in Due(Best)
      BY <1>4
    <2> QED BY <1>1, <2>1 DEF KeptWon
  <1> QED BY <1>2, <1>3, <1>4

LEMMA AnswerIs ==
    ASSUME Inv, Settling
    PROVE  /\ Answer = Whole /\ Answer \in Seq(Matches) /\ OnePosition(Answer)
           /\ \A i \in 1..Len(Answer) : /\ Answer[i].start = Best
                                        /\ Best \in Owing(Answer[i].id)
                                        /\ Answer[i].id \in Members
           /\ KeptWon => /\ Len(call.list) <= Len(Answer) /\ Answer # << >>
                         /\ \A i \in 1..Len(call.list) : Answer[i] = call.list[i]
           /\ \A i \in 1..Len(Answer) :
                  Answer[i].id \in Kept => KeptWon /\ i <= Len(call.list)
           /\ Best = Never => Answer = << >>
  <1> DEFINE ids == Due(Best)
             K == ids \intersect Kept
             P == ids \intersect Split
             a == TuplesAt(Best, K)
             b == TuplesAt(Best, P)
  <1>1. /\ TypeInv
        /\ \A k \in Members : \A s \in Owing(k) : Best <= s
        /\ Best # Never => \E k \in Members : Best \in Owing(k)
    BY Settled
  <1>2. /\ Winners = P
        /\ KeptWon <=> K # {}
        /\ KeptWon => call.list = a
        /\ KeptWon => call.list # << >>
    BY WinnersAre
  <1>3. ids \in SUBSET Members /\ \A k \in ids : Best \in Starts /\ ends[k][Best] # NoMatch
    BY <1>1, OwingTyped
  <1>4. Answer = a \o b
    <2>1. ~KeptWon => a = << >>
      BY <1>2, NoTuples
    <2>2. KeptWon => call.list = a
      BY <1>2
    <2>3. TuplesAt(Best, Winners) = b
      <3> HIDE DEF P
      <3> QED BY <1>2, Zenon
    <2> HIDE DEF a, b
    <2>4. Answer = (IF KeptWon THEN call.list ELSE << >>) \o b
      BY <2>3, Zenon DEF Answer
    <2> QED BY <2>1, <2>2, <2>4, Zenon
  <1>5. Answer = PositionOf(Best, ids)
    BY <1>3, <1>4, PositionJoins
  <1>6. Answer = Whole /\ (Best = Never => Answer = << >>)
    <2>1. CASE Best = Never
      <3>1. \A k \in Members : Owing(k) = {}
        <4> SUFFICES ASSUME NEW k \in Members, NEW s \in Owing(k) PROVE FALSE
          OBVIOUS
        <4>1. s \in Nat /\ s <= Length
          BY <1>1, OwingTyped, TextAssumption DEF Starts
        <4> QED BY <1>1, <2>1, <4>1, TextAssumption DEF Never
      <3>2. AllOwing(Members) = {}
        BY <3>1 DEF AllOwing
      <3>3. ids = {}
        BY <3>1 DEF Due
      <3>4. a = << >> /\ b = << >>
        BY <3>3, NoTuples
      <3> HIDE DEF a, b
      <3> QED BY <1>1, <1>4, <3>2, <3>4, WholeIs
    <2>2. CASE Best # Never
      <3>1. PICK k \in Members : Best \in Owing(k)
        BY <1>1, <2>2
      <3>2. Best \in AllOwing(Members) /\ \A s \in AllOwing(Members) : Best <= s
        BY <1>1, <3>1 DEF AllOwing
      <3>3. AllOwing(Members) # {} /\ Min(AllOwing(Members)) = Best
        BY <1>1, <3>2, OwingTyped, MinIs
      <3> QED BY <1>1, <1>5, <2>2, <3>3, WholeIs
    <2> QED BY <2>1, <2>2
  <1>7. ASSUME NEW i \in 1..Len(Answer)
        PROVE  /\ Answer[i].start = Best /\ Answer[i].id \in ids /\ Answer[i] \in Matches
    <2> HIDE DEF ids
    <2>1. /\ Len(PositionOf(Best, ids)) = Cardinality(ids)
          /\ \A j \in 1..Cardinality(ids) :
                 /\ PositionOf(Best, ids)[j] = Tuple(Order(ids)[j], Best)
                 /\ Order(ids)[j] \in ids
      BY <1>3, PositionLists
    <2>2. Answer[i] = Tuple(Order(ids)[i], Best) /\ Order(ids)[i] \in ids
      BY <1>5, <2>1
    <2>3. Answer[i] \in Matches
      BY <1>3, <2>2, TupleMatches
    <2> QED BY <2>2, <2>3 DEF Tuple
  <1>8. Answer \in Seq(Matches)
    <2>1. Answer \in Seq(AllAt(Best))
      BY <1>3, <1>5, PositionLists
    <2>2. Answer \in [1..Len(Answer) -> Matches] /\ Len(Answer) \in Nat
      BY <1>7, <2>1
    <2> QED BY <2>2
  <1>9. OnePosition(Answer)
    BY <1>7 DEF OnePosition
  <1>10. \A k \in ids : Best \in Owing(k) /\ k \in Members
    BY DEF Due
  <1>11. /\ a \in Seq(AllAt(Best)) /\ b \in Seq(AllAt(Best))
         /\ \A i \in 1..Len(b) : b[i].id \in Split
    <2>1. /\ K \in SUBSET Members /\ IsFiniteSet(K)
          /\ P \in SUBSET Members /\ IsFiniteSet(P) /\ P \subseteq Split
      BY <1>3, MemberAssumption, FS_Intersection
    <2> HIDE DEF K, P
    <2>2. /\ b \in Seq(AllAt(Best)) /\ Len(b) = Cardinality(P)
          /\ \A i \in 1..Cardinality(P) :
                 b[i] = Tuple(Ascending(P)[i], Best) /\ Ascending(P)[i] \in P
      BY <2>1, TuplesAtLists
    <2>3. a \in Seq(AllAt(Best))
      BY <2>1, TuplesAtLists
    <2> QED BY <2>1, <2>2, <2>3 DEF Tuple
  <1>12. ASSUME KeptWon
         PROVE  /\ Len(call.list) <= Len(Answer) /\ Answer # << >>
                /\ \A i \in 1..Len(call.list) : Answer[i] = call.list[i]
    <2>1. call.list = a /\ a # << >>
      BY <1>2, <1>12
    <2> HIDE DEF a, b
    <2> QED BY <1>4, <1>11, <2>1
  <1>13. ASSUME NEW i \in 1..Len(Answer), Answer[i].id \in Kept
         PROVE  KeptWon /\ i <= Len(call.list)
    <2>1. Answer[i].id \in K /\ Answer[i].id \notin Split
      BY <1>7, <1>13, MemberAssumption
    <2>2. KeptWon /\ call.list = a
      BY <1>2, <2>1
    <2> HIDE DEF a, b, K
    <2>3. ~(i <= Len(a)) => i - Len(a) \in 1..Len(b) /\ Answer[i] = b[i - Len(a)]
      BY <1>4, <1>11
    <2> QED BY <1>11, <2>1, <2>2, <2>3
  <1> HIDE DEF ids, a, b, K, P
  <1> QED BY <1>6, <1>7, <1>8, <1>9, <1>10, <1>12, <1>13

LEMMA KeptSettledIs ==
    ASSUME Inv, Settling
    PROVE  /\ KeptWon => KeptSettled = gate
           /\ ~KeptWon => \A k \in Members : Exact(KeptSettled, k)
           /\ KeptSettled \in [Members -> 0..Dead]
           /\ \A k \in Split : KeptSettled[k] = gate[k]
  <1> DEFINE a == call.starts[KeptBody]
             some == IdsOf(Gated(call.list))
             g == KeptSettled
  <1>1. /\ TypeInv /\ GateInv /\ pc = "merge" /\ CallInv
        /\ KeptBody \in call.asked =>
                  /\ a = Earliest(AllOwing(Kept))
                  /\ call.list = KeptPart
    BY Settled DEF Inv
  <1>2. /\ Promised = some /\ some \subseteq Kept /\ call.list \in Seq(Matches)
        /\ KeptBody \notin call.asked => Promised = {} /\ call.list = << >>
    BY <1>1, Merging
  <1>3. /\ gate \in [Members -> 0..Dead] /\ \A k \in Members : gate[k] \in Nat /\ gate[k] <= Dead
        /\ Dead \in Nat /\ \A k \in Split : k \notin Kept
        /\ Kept \in SUBSET Members
    BY <1>1, GateTyped, Sizes, ServedMembers DEF TypeInv
  <1>4. CASE KeptWon
    <2>1. call.list # << >> /\ ~KeptLost
      BY <1>4 DEF KeptWon, KeptLost
    <2>2. g = gate
      BY <2>1 DEF KeptSettled
    <2> QED BY <1>3, <1>4, <2>2
  <1>5. CASE ~KeptWon /\ KeptBody \in call.asked /\ call.list = << >>
    <2>1. g = SetAll(gate, Kept, Dead)
      BY <1>5 DEF KeptSettled
    <2>2. \A k \in Members : g[k] = IF k \in Kept THEN Dead ELSE gate[k]
      BY <2>1 DEF SetAll
    <2>3. some = {}
      BY <1>1, <1>5, GatedNone
    <2>4. \A k \in Kept : Owing(k) = {}
      <3>1. Earliest(AllOwing(Kept)) = Never
        BY <1>1, <1>5, KeptPartIs
      <3> QED BY <1>1, <1>3, <3>1, EarliestIs
    <2> HIDE DEF g
    <2>5. ASSUME NEW k \in Members PROVE Exact(g, k)
      <3>1. CASE k \in Kept
        BY <1>1, <2>2, <2>4, <3>1, ExactDead
      <3>2. CASE k \notin Kept
        <4>1. Exact(gate, k)
          BY <1>1, <1>2, <2>3 DEF GateInv
        <4> QED BY <2>2, <3>2, <4>1, ExactSame
      <3> QED BY <3>1, <3>2
    <2>6. g \in [Members -> 0..Dead]
      BY <1>3, <2>1, <2>2 DEF SetAll
    <2>7. \A k \in Split : g[k] = gate[k]
      BY <1>3, <2>2, ServedMembers
    <2> QED BY <1>5, <2>5, <2>6, <2>7 DEF g
  <1>6. CASE KeptLost
    <2>1. call.list # << >> /\ KeptBody \in call.asked /\ ~KeptWon
      BY <1>2, <1>6 DEF KeptLost, KeptWon
    <2>2. /\ a = Earliest(AllOwing(Kept)) /\ call.list = KeptPart /\ a # Never
      BY <1>1, <2>1, KeptPartIs
    <2>3. /\ a \in Starts /\ a \in Nat /\ a <= Length
          /\ \A k \in Kept : \A s \in Owing(k) : a <= s
      <3>1. a \in Starts /\ \A k \in Kept : \A s \in Owing(k) : a <= s
        BY <1>1, <1>3, <2>2, EarliestIs
      <3> QED BY <3>1, TextAssumption DEF Starts
    <2>4. \A k \in some : a \in Owing(k)
      <3> SUFFICES ASSUME NEW k \in some PROVE a \in Owing(k)
        OBVIOUS
      <3>1. k \in IdsOf(call.list)
        BY <1>1, <1>2, IdsTyped
      <3>2. PICK i \in 1..Len(call.list) : call.list[i].id = k
        BY <1>1, <1>2, <3>1, IdsTyped
      <3> QED BY <1>1, <2>2, <3>2, KeptPartIs
    <2> HIDE DEF some
    <2>5. g = RaiseAll(SetAll(gate, some, 2 * a), Kept, 2 * a)
      BY <1>6, <2>1 DEF KeptSettled, LowerBound, some
    <2> HIDE DEF a, g
    <2>6. ASSUME NEW k \in Members
          PROVE  g[k] = IF k \in some THEN 2 * a
                        ELSE IF k \in Kept THEN Max({gate[k], 2 * a}) ELSE gate[k]
      <3>1. SetAll(gate, some, 2 * a)[k] = IF k \in some THEN 2 * a ELSE gate[k]
        BY DEF SetAll
      <3>2. g[k] = IF k \in Kept THEN Max({SetAll(gate, some, 2 * a)[k], 2 * a})
                   ELSE SetAll(gate, some, 2 * a)[k]
        BY <2>5 DEF RaiseAll
      <3>3. Max({2 * a, 2 * a}) = 2 * a
        BY <2>3, MaxOfTwo
      <3> QED BY <1>2, <3>1, <3>2, <3>3
    <2>7. ASSUME NEW k \in Members PROVE Exact(g, k)
      <3>1. CASE k \in some
        BY <1>1, <1>2, <2>3, <2>4, <2>6, <3>1, ExactFrom
      <3>2. CASE k \notin some
        <4>1. Exact(gate, k)
          BY <1>1, <1>2, <3>2 DEF GateInv
        <4>2. CASE k \in Kept
          BY <1>1, <2>3, <2>6, <3>2, <4>1, <4>2, ExactRaised
        <4>3. CASE k \notin Kept
          BY <2>6, <3>2, <4>1, <4>3, ExactSame
        <4> QED BY <4>2, <4>3
      <3> QED BY <3>1, <3>2
    <2>8. g \in [Members -> 0..Dead]
      <3>1. ASSUME NEW k \in Members PROVE g[k] \in 0..Dead
        <4>1. 2 * a \in 0..Dead
          BY <2>3, TextAssumption DEF Dead
        <4>2. Max({gate[k], 2 * a}) = IF gate[k] >= 2 * a THEN gate[k] ELSE 2 * a
          BY <1>3, <2>3, MaxOfTwo
        <4> QED BY <1>3, <2>6, <4>1, <4>2
      <3>2. g = [k \in Members |-> g[k]]
        BY <2>5 DEF RaiseAll
      <3> QED BY <3>1, <3>2
    <2>9. \A k \in Split : g[k] = gate[k]
      BY <1>2, <1>3, <2>6, ServedMembers
    <2> QED BY <2>1, <2>7, <2>8, <2>9 DEF g
  <1>7. CASE ~KeptWon /\ ~(KeptBody \in call.asked /\ call.list = << >>) /\ ~KeptLost
    <2>1. call.list = << >>
      BY <1>7 DEF KeptWon, KeptLost
    <2>2. KeptBody \notin call.asked
      BY <1>7, <2>1
    <2>3. g = gate
      BY <1>7 DEF KeptSettled
    <2>4. \A k \in Members : Exact(gate, k)
      BY <1>1, <1>2, <2>2 DEF GateInv
    <2> QED BY <1>3, <1>7, <2>3, <2>4
  <1> QED BY <1>4, <1>5, <1>6, <1>7 DEF KeptLost, KeptWon

LEMMA GatesSettledAre ==
    ASSUME Inv, Settling
    PROVE  LET g == GatesSettled(Answer) IN
           /\ g \in [Members -> 0..Dead]
           /\ \A k \in Split : g[k] >= 2 * reached[k]
           /\ \A i \in 1..Len(Gated(Answer)) : g[Answer[i].id] = Reported(Answer[i])
           /\ \A k \in Members \ IdsOf(Gated(Answer)) : Exact(g, k)
  <1> DEFINE h == KeptSettled
             g == GatesSettled(Answer)
             some == Gated(Answer)
             kept == Gated(call.list)
  <1>1. /\ TypeInv /\ GateInv /\ ReachInv /\ pc = "merge" /\ call.list \in Seq(Matches)
        /\ Promised = IdsOf(kept) /\ Promised \subseteq Kept
    BY Settled, Merging DEF Inv
  <1>2. /\ KeptWon => h = gate
        /\ ~KeptWon => \A k \in Members : Exact(h, k)
        /\ h \in [Members -> 0..Dead]
        /\ \A k \in Split : h[k] = gate[k]
    BY KeptSettledIs
  <1>3. /\ Answer \in Seq(Matches) /\ OnePosition(Answer)
        /\ \A i \in 1..Len(Answer) : /\ Answer[i].start = Best
                                     /\ Best \in Owing(Answer[i].id)
                                     /\ Answer[i].id \in Members
        /\ KeptWon => /\ Len(call.list) <= Len(Answer) /\ Answer # << >>
                      /\ \A i \in 1..Len(call.list) : Answer[i] = call.list[i]
        /\ \A i \in 1..Len(Answer) :
               Answer[i].id \in Kept => KeptWon /\ i <= Len(call.list)
    BY AnswerIs
  <1>4. \A k \in Members : \A s \in Owing(k) : Best <= s
    BY Settled
  <1>5. \A k \in Members : Exact(gate, k) \/ k \in IdsOf(kept)
    BY <1>1 DEF GateInv
  <1>6. /\ some \in Seq(Matches) /\ DOMAIN some = 1..Len(some) /\ Len(some) \in Nat
        /\ Len(some) <= Len(Answer) /\ Len(Answer) \in Nat /\ host.cap \in Nat
        /\ \A i \in 1..Len(some) : some[i] = Answer[i]
        /\ ~shape.gated => some = << >>
        /\ shape.gated /\ shape.batch =>
               /\ some = FirstOf(Answer, host.cap)
               /\ Len(some) = IF Len(Answer) <= host.cap THEN Len(Answer) ELSE host.cap
        /\ shape.gated /\ ~shape.batch =>
               some = IF Len(Answer) <= host.cap THEN Answer ELSE << >>
    BY <1>1, <1>3, GatedIs
  <1>7. /\ kept \in Seq(Matches) /\ DOMAIN kept = 1..Len(kept) /\ Len(kept) \in Nat
        /\ Len(kept) <= Len(call.list) /\ Len(call.list) \in Nat
        /\ \A i \in 1..Len(kept) : kept[i] = call.list[i]
        /\ ~shape.gated => kept = << >>
        /\ shape.gated /\ shape.batch =>
               Len(kept) = IF Len(call.list) <= host.cap THEN Len(call.list) ELSE host.cap
        /\ shape.gated /\ ~shape.batch =>
               kept = IF Len(call.list) <= host.cap THEN call.list ELSE << >>
    BY <1>1, GatedIs
  <1>8. \A i \in 1..Len(kept) : gate[call.list[i].id] = Reported(call.list[i])
    BY <1>1, <1>7 DEF GateInv
  <1>9. \A i \in 1..Len(Answer) : /\ Reported(Answer[i]) \in 0..Dead
                                  /\ Reported(Answer[i]) >= 2 * Best + 1
    <2> SUFFICES ASSUME NEW i \in 1..Len(Answer)
                 PROVE  /\ Reported(Answer[i]) \in 0..Dead
                        /\ Reported(Answer[i]) >= 2 * Best + 1
      OBVIOUS
    <2>1. Answer[i] \in Matches /\ Answer[i].start = Best
      BY <1>3
    <2>2. /\ Answer[i].id \in Members /\ Best \in Starts /\ ends[Answer[i].id][Best] # NoMatch
          /\ Answer[i] = Tuple(Answer[i].id, Best)
      BY <1>1, <2>1, MatchTyped
    <2> QED BY <1>1, <2>2, ReportedGates, Zenon
  <1>a. Best \in Nat
    BY <1>1, BestIs
  <1>b. IdsOf(<< >>) = {}
    BY <1>1, GatedNone
  <1>10. /\ \A k \in Split : gate[k] >= 2 * reached[k]
         /\ \A i \in 1..Len(Answer) : Answer[i].id \in Split => reached[Answer[i].id] <= Best
    <2>1. \A k \in Split : gate[k] >= 2 * reached[k]
      BY <1>1 DEF ReachInv
    <2>2. ASSUME NEW i \in 1..Len(Answer), Answer[i].id \in Split
          PROVE  reached[Answer[i].id] <= Best
      <3>1. Answer[i].id \in Due(Best)
        BY <1>3 DEF Due
      <3>2. call.starts[Answer[i].id] = Best /\ Best # Never
        BY <2>2, <3>1, Settled
      <3>3. Answer[i].id \in call.asked
        BY <1>1, <2>2, <3>2, Merging, ServedMembers
      <3> QED BY <1>1, <2>2, <3>2, <3>3 DEF ReachInv
    <2> QED BY <2>1, <2>2
  <1> HIDE DEF h, g, some, kept
  <1>11. CASE ~shape.gated \/ Answer = << >>
    <2>1. g = h
      BY <1>11 DEF GatesSettled, g, h
    <2>2. some = << >>
      <3>1. Answer = << >> => Len(Answer) = 0
        OBVIOUS
      <3> QED BY <1>6, <1>11, <3>1
    <2>3. ASSUME NEW k \in Members PROVE Exact(h, k)
      <3>1. CASE ~KeptWon
        BY <1>2, <3>1
      <3>2. CASE KeptWon
        <4>1. kept = << >>
          BY <1>3, <1>7, <1>11, <3>2
        <4> QED BY <1>2, <1>5, <1>b, <3>2, <4>1
      <3> QED BY <3>1, <3>2
    <2>4. Len(some) = 0
      BY <2>2
    <2> QED BY <1>2, <1>10, <2>1, <2>3, <2>4 DEF g, some
  <1>12. CASE shape.gated /\ Answer # << >> /\ (shape.batch \/ Len(Answer) <= host.cap)
    <2>1. g = RecordAll(h, some, Split)
      <3>1. CASE shape.batch
        BY <1>6, <1>12, <3>1 DEF GatesSettled, g, h
      <3>2. CASE ~shape.batch
        BY <1>6, <1>12, <3>2 DEF GatesSettled, g, h
      <3> QED BY <3>1, <3>2
    <2>2. OnePosition(some)
      BY <1>3, <1>6 DEF OnePosition
    <2>3. /\ \A i \in 1..Len(some) : some[i].id \in Split => g[some[i].id] = Reported(some[i])
          /\ \A k \in Members : ~(k \in Split /\ k \in IdsOf(some)) => g[k] = h[k]
      BY <1>1, <1>6, <2>1, <2>2, Recorded
    <2>4. KeptWon => /\ Len(kept) <= Len(some)
                     /\ \A i \in 1..Len(kept) : Answer[i] = call.list[i]
                     /\ \A i \in 1..Len(some) : i <= Len(call.list) => i \in 1..Len(kept)
      BY <1>3, <1>6, <1>7, <1>12
    <2>5. ASSUME NEW i \in 1..Len(some)
          PROVE  g[Answer[i].id] = Reported(Answer[i])
      <3>1. i \in 1..Len(Answer) /\ some[i] = Answer[i]
        BY <1>6
      <3>2. CASE Answer[i].id \in Split
        BY <2>3, <3>1, <3>2
      <3>3. CASE Answer[i].id \notin Split
        <4>1. Answer[i].id \in Kept /\ Answer[i].id \in Members
          BY <1>3, <3>1, <3>3 DEF Members
        <4>2. KeptWon /\ i \in 1..Len(kept)
          BY <1>3, <2>4, <3>1, <4>1
        <4>3. g[Answer[i].id] = gate[Answer[i].id]
          BY <1>2, <2>3, <3>3, <4>1, <4>2
        <4>4. Answer[i] = call.list[i]
          BY <2>4, <4>2
        <4> QED BY <1>8, <4>2, <4>3, <4>4
      <3> QED BY <3>2, <3>3
    <2>6. ASSUME NEW k \in Members \ IdsOf(some) PROVE Exact(g, k)
      <3>1. g[k] = h[k]
        BY <2>3, <2>6
      <3>2. Exact(h, k)
        <4>1. CASE ~KeptWon
          BY <1>2, <4>1
        <4>2. CASE KeptWon
          <5>1. k \notin IdsOf(kept)
            <6> SUFFICES ASSUME k \in IdsOf(kept) PROVE FALSE
              OBVIOUS
            <6>1. PICK i \in 1..Len(kept) : kept[i].id = k
              BY <1>7 DEF IdsOf
            <6>2. i \in 1..Len(some) /\ some[i] = call.list[i] /\ kept[i] = call.list[i]
              BY <1>6, <1>7, <2>4, <4>2, <6>1
            <6>3. k \in IdsOf(some)
              BY <1>6, <6>1, <6>2 DEF IdsOf
            <6> QED BY <2>6, <6>3
          <5> QED BY <1>2, <1>5, <4>2, <5>1
        <4> QED BY <4>1, <4>2
      <3> QED BY <3>1, <3>2, ExactSame
    <2>7. ASSUME NEW k \in Split PROVE g[k] \in 0..Dead /\ g[k] >= 2 * reached[k]
      <3>1. k \in Members
        BY ServedMembers
      <3>2. CASE k \in IdsOf(some)
        <4>1. PICK i \in 1..Len(some) : some[i].id = k
          BY <1>6, <3>2 DEF IdsOf
        <4>2. i \in 1..Len(Answer) /\ Answer[i].id = k
          BY <1>6, <4>1
        <4>3. g[k] = Reported(Answer[i])
          BY <2>5, <4>1, <4>2
        <4>4. reached[k] <= Best /\ reached[k] \in Int
          BY <1>1, <1>10, <4>2, TextAssumption DEF TypeInv, NoMatch
        <4>5. g[k] \in 0..Dead /\ g[k] >= 2 * Best + 1
          BY <1>9, <4>2, <4>3
        <4> QED BY <1>a, <4>4, <4>5, Sizes
      <3>3. CASE k \notin IdsOf(some)
        BY <1>2, <1>10, <2>3, <3>1, <3>3
      <3> QED BY <3>2, <3>3
    <2>8. g \in [Members -> 0..Dead]
      <3>1. \A k \in Members : k \notin Split => g[k] = h[k]
        BY <2>3
      <3>2. g = [k \in Members |-> g[k]]
        BY <2>1 DEF RecordAll
      <3>3. \A k \in Members : g[k] \in 0..Dead
        BY <1>2, <2>7, <3>1
      <3> QED BY <3>2, <3>3
    <2> QED BY <2>5, <2>6, <2>7, <2>8 DEF g, some
  <1>13. CASE /\ shape.gated /\ Answer # << >> /\ ~shape.batch /\ ~(Len(Answer) <= host.cap)
              /\ KeptWon /\ Len(call.list) <= host.cap
    <2>1. g = SetAll(h, IdsOf(call.list), 2 * Best)
      BY <1>13 DEF GatesSettled, OverflowUndone, LowerBound, g, h
    <2>2. some = << >> /\ kept = call.list /\ h = gate
      BY <1>2, <1>6, <1>7, <1>13
    <2>3. Len(some) = 0 /\ IdsOf(some) = {}
      BY <1>b, <2>2
    <2>4. \A k \in IdsOf(call.list) : Best \in Owing(k) /\ k \in Kept /\ k \in Members
      <3> SUFFICES ASSUME NEW k \in IdsOf(call.list)
                   PROVE  Best \in Owing(k) /\ k \in Kept /\ k \in Members
        OBVIOUS
      <3>1. PICK i \in 1..Len(call.list) : call.list[i].id = k
        BY <1>1, IdsTyped
      <3>2. i \in 1..Len(Answer) /\ Answer[i] = call.list[i]
        BY <1>3, <1>6, <1>7, <1>13, <3>1
      <3>3. k \in Kept
        BY <1>1, <2>2
      <3> QED BY <1>3, <3>1, <3>2, <3>3
    <2>5. \A k \in Members : g[k] = IF k \in IdsOf(call.list) THEN 2 * Best ELSE gate[k]
      BY <2>1, <2>2 DEF SetAll
    <2>6. ASSUME NEW k \in Members PROVE Exact(g, k)
      <3>1. CASE k \in IdsOf(call.list)
        BY <1>1, <1>4, <2>4, <2>5, <3>1, ExactFrom
      <3>2. CASE k \notin IdsOf(call.list)
        BY <1>5, <2>2, <2>5, <3>2, ExactSame
      <3> QED BY <3>1, <3>2
    <2>7. g \in [Members -> 0..Dead]
      <3>1. 2 * Best \in 0..Dead
        <4>1. Best \in Starts
          <5>1. Best # Never
            BY <1>13, WinnersAre
          <5> QED BY <1>1, <5>1, BestIs
        <4> QED BY <4>1, TextAssumption DEF Starts, Dead
      <3>2. g = [k \in Members |-> g[k]]
        BY <2>1 DEF SetAll
      <3>3. gate \in [Members -> 0..Dead]
        BY <1>1 DEF TypeInv
      <3> QED BY <2>5, <3>1, <3>2, <3>3
    <2>8. \A k \in Split : g[k] = gate[k]
      BY <2>4, <2>5, ServedMembers
    <2> QED BY <1>10, <2>3, <2>6, <2>7, <2>8 DEF g, some
  <1>14. CASE /\ shape.gated /\ Answer # << >> /\ ~shape.batch /\ ~(Len(Answer) <= host.cap)
              /\ ~(KeptWon /\ Len(call.list) <= host.cap)
    <2>1. g = h
      BY <1>14 DEF GatesSettled, g, h
    <2>2. some = << >>
      BY <1>6, <1>14
    <2>3. ASSUME NEW k \in Members PROVE Exact(h, k)
      <3>1. CASE ~KeptWon
        BY <1>2, <3>1
      <3>2. CASE KeptWon
        <4>1. kept = << >>
          BY <1>7, <1>14, <3>2
        <4> QED BY <1>2, <1>5, <1>b, <3>2, <4>1
      <3> QED BY <3>1, <3>2
    <2>4. Len(some) = 0
      BY <2>2
    <2> QED BY <1>2, <1>10, <2>1, <2>3, <2>4 DEF g, some
  <1> QED BY <1>11, <1>12, <1>13, <1>14

LEMMA NoCallTyped ==
    /\ NoCall \in [bound : [Candidates -> 0..(Length + 1)],
                   starts : [Candidates -> Starts \union {Never}],
                   asked : SUBSET Candidates,
                   list : Seq(Matches), answer : Seq(Matches)]
    /\ NoCall.asked = {} /\ NoCall.list = << >> /\ NoCall.answer = << >>
    /\ \A c \in Candidates : NoCall.starts[c] = Never
  <1>1. [c \in Candidates |-> 0] \in [Candidates -> 0..(Length + 1)]
    BY TextAssumption
  <1>2. [c \in Candidates |-> Never] \in [Candidates -> Starts \union {Never}]
    OBVIOUS
  <1>3. << >> \in Seq(Matches)
    OBVIOUS
  <1>4. {} \in SUBSET Candidates
    OBVIOUS
  <1> QED BY <1>1, <1>2, <1>3, <1>4 DEF NoCall

LEMMA GatedNoneNext == ASSUME TypeInv' PROVE Gated(<< >>)' = << >>
  <1>1. host'.cap \in Nat
    BY DEF TypeInv
  <1>2. Min({host'.cap, 0}) = 0
    BY <1>1, MinOfTwo
  <1>3. Len(<< >>) = 0 /\ SubSeq(<< >>, 1, 0) = << >>
    OBVIOUS
  <1>4. SubSeq(<< >>, 1, Min({host'.cap, Len(<< >>)})) = << >>
    BY <1>2, <1>3, Zenon
  <1>5. Gated(<< >>)' \in {<< >>, SubSeq(<< >>, 1, Min({host'.cap, Len(<< >>)}))}
    BY DEF Gated, FirstOf
  <1> QED BY <1>4, <1>5

LEMMA MergeReturnsStep ==
    ASSUME Inv, MergeReturns
    PROVE  Inv'
  <1>1. /\ Settling /\ pc' = "answered" /\ gate' = GatesSettled(Answer)
        /\ call' = [NoCall EXCEPT !.answer = Answer]
        /\ UNCHANGED <<fixed, host, out, buf, status, reached, offered, refused>>
        /\ Still
    BY DEF MergeReturns, Still, fixed
  <1>2. /\ TypeInv /\ PendingInv /\ AnswerInv /\ pc = "merge" /\ ModeInv /\ ReachInv
        /\ ~(shape.gated /\ refused # {})
    BY <1>1, Settled, SettlingSound DEF Inv
  <1>3. /\ gate' \in [Members -> 0..Dead]
        /\ \A k \in Split : gate'[k] >= 2 * reached[k]
        /\ \A i \in 1..Len(Gated(Answer)) : gate'[Answer[i].id] = Reported(Answer[i])
        /\ \A k \in Members \ IdsOf(Gated(Answer)) : Exact(gate', k)
    BY <1>1, GatesSettledAre
  <1>4. Answer = Whole /\ Answer \in Seq(Matches)
    BY <1>1, AnswerIs
  <1>5. /\ call' \in [bound : [Candidates -> 0..(Length + 1)],
                      starts : [Candidates -> Starts \union {Never}],
                      asked : SUBSET Candidates,
                      list : Seq(Matches), answer : Seq(Matches)]
        /\ call'.answer = Answer /\ call'.list = << >> /\ call'.asked = {}
    BY <1>1, <1>4, NoCallTyped
  <1>6. TypeInv'
    <2>1. Matches' = Matches
      BY <1>1 DEF Matches, Tuple, fixed
    <2> QED BY <1>1, <1>2, <1>3, <1>5, <2>1 DEF TypeInv, fixed
  <1>7. ModeInv'
    BY <1>1, <1>2 DEF ModeInv, fixed
  <1>8. CallInv' /\ ReachInv'
    BY <1>1, <1>3, <1>5 DEF CallInv, ReachInv
  <1>9. PendingInv'
    BY <1>1, <1>2, StillPending
  <1>10. AnswerInv'
    <2>1. Whole' = Whole
      BY <1>1, StillWhole
    <2> QED BY <1>1, <1>2, <1>4, <1>5, <2>1 DEF AnswerInv, reply
  <1>11. GateInv'
    <2> DEFINE some == Gated(Answer)
    <2>1. \A x : Gated(x)' = Gated(x)
      BY <1>1 DEF Gated, FirstOf, fixed
    <2>2. Gated(<< >>) = << >> /\ IdsOf(<< >>) = {}
      BY <1>2, GatedNone
    <2>3. Promised' = IdsOf(some)
      BY <1>5, <2>1, <2>2 DEF Promised, IdsOf
    <2>4. /\ DOMAIN some = 1..Len(some) /\ \A i \in 1..Len(some) : some[i] = Answer[i]
      BY <1>2, <1>4, GatedIs
    <2> HIDE DEF some
    <2>5. ASSUME NEW x \in {call'.list, call'.answer}, NEW i \in DOMAIN Gated(x)'
          PROVE  gate'[Gated(x)'[i].id] = Reported(Gated(x)'[i])
      <3>1. Gated(x)' = Gated(x)
        BY <2>1
      <3>2. CASE x = Answer
        <4>1. Gated(x)' = some
          BY <3>1, <3>2 DEF some
        <4> QED BY <1>3, <2>4, <2>5, <4>1 DEF some
      <3>3. CASE x = << >>
        <4>1. Gated(x)' = << >>
          BY <2>2, <3>1, <3>3
        <4> QED BY <2>5, <4>1
      <3> QED BY <1>5, <3>2, <3>3
    <2>6. ASSUME NEW k \in Members \ Promised' PROVE Exact(gate, k)'
      <3>1. Exact(gate', k)
        BY <1>3, <2>3, <2>6 DEF some
      <3>2. Owing(k)' = Owing(k)
        BY <1>1, StillOwing
      <3> QED BY <1>1, <3>1, <3>2, StillExact DEF Still
    <2> QED BY <2>5, <2>6 DEF GateInv, Reported
  <1>12. ~(shape.gated /\ refused # {})'
    BY <1>1, <1>2 DEF fixed
  <1> QED BY <1>6, <1>7, <1>8, <1>9, <1>10, <1>11, <1>12 DEF Inv
-----------------------------------------------------------------------------
(* The caller has the answer. *)

\* The gates after a delivery: those given moved past their match.
LEMMA GatesAfter ==
    ASSUME TypeInv, PendingInv, shape.gated => host.skip = 0, UNCHANGED <<fixed, gate>>,
           NEW k \in Members, NEW a \in Starts, NEW given,
           host'.from \in Nat, host'.from >= host.from,
           Owing(k)' = {s \in Owing(k) : s >= host'.from
                            /\ (shape.gated /\ k \in given => PastReport(k, a, s))},
           ~(shape.gated /\ k \in given) => Exact(gate, k),
           shape.gated /\ k \in given =>
               /\ a \in Owing(k) /\ gate[k] = Reported(Tuple(k, a))
    PROVE  Exact(gate, k)'
  <1>0. host.from \in Nat /\ Length \in Nat
    BY OwingTyped, TextAssumption
  <1> SUFFICES ASSUME NEW s \in host'.from..Length, ends[k][s] # NoMatch
               PROVE  s \in Owing(k)' <=> Lets(gate, k, s)
    BY DEF Exact, Lets, fixed
  <1>1. s \in host.from..Length /\ s \in Nat /\ s >= host'.from /\ s \in Starts
    BY <1>0 DEF Starts
  <1>2. CASE ~(shape.gated /\ k \in given)
    BY <1>1, <1>2 DEF Exact
  <1>3. CASE shape.gated /\ k \in given
    <2>1. Lets(gate, k, s) <=> PastReport(k, a, s)
      <3>1. ends[k][a] # NoMatch
        BY <1>3, OwingTyped
      <3> QED BY <1>1, <1>3, <3>1, ReportedGates DEF PastReport
    <2>2. Given!Pending(k) = Owing(k)
      <3>1. Skipped = {}
        BY <1>3, NoneSkipped DEF Skipped
      <3> QED BY <3>1 DEF PendingInv
    <2>3. PastReport(k, a, s) => s \in Owing(k)
      <3>1. a \in Given!Pending(k)
        BY <1>3, <2>2
      <3> QED BY <1>1, <1>3, <2>2, <3>1, PendingCloses DEF PastReport
    <2> QED BY <1>1, <1>3, <2>1, <2>3
  <1> QED BY <1>2, <1>3

LEMMA NoCallGates ==
    ASSUME TypeInv', call' = NoCall, \A k \in Members : Exact(gate, k)'
    PROVE  GateInv'
  <1>1. call'.list = << >> /\ call'.answer = << >>
    BY NoCallTyped
  <1>2. Gated(<< >>)' = << >>
    BY GatedNoneNext
  <1>3. Gated(call.list)' = << >> /\ Gated(call.answer)' = << >>
    BY <1>1, <1>2 DEF Gated, FirstOf
  <1>4. \A list \in {call'.list, call'.answer} : \A i \in DOMAIN Gated(list)' :
            gate'[Gated(list)'[i].id] = Reported(Gated(list)'[i])
    <2> SUFFICES ASSUME NEW list \in {call'.list, call'.answer}
                 PROVE  \A i \in DOMAIN Gated(list)' :
                            gate'[Gated(list)'[i].id] = Reported(Gated(list)'[i])
      OBVIOUS
    <2>1. list = << >>
      BY <1>1
    <2>2. Gated(list)' = << >>
      BY <1>2, <2>1
    <2> QED BY <2>2
  <1> QED BY <1>4 DEF GateInv, Reported

LEMMA AnsweredIs ==
    ASSUME Inv, pc = "answered"
    PROVE  /\ TypeInv /\ PendingInv /\ GateInv /\ status = "driving"
           /\ ~(shape.gated /\ refused # {}) /\ reply = Whole /\ reply \in Seq(Matches)
           /\ Len(reply) \in Nat /\ host.skip \in Nat /\ host.cap \in Nat
           /\ shape.gated => host.skip = 0
           /\ ~shape.batch => host.skip = 0 /\ buf = << >>
           /\ shape.batch => host.cap > host.skip
           /\ host.skip <= Len(reply)
           /\ Promised = IdsOf(Gated(reply))
           /\ \A k \in Members \ IdsOf(Gated(reply)) : Exact(gate, k)
           /\ \A i \in 1..Len(Gated(reply)) : gate[reply[i].id] = Reported(reply[i])
           /\ reply = << >> => AllOwing(Members) = {}
           /\ reply # << >> =>
                 /\ AllOwing(Members) # {} /\ at = Min(AllOwing(Members))
                 /\ at \in Starts /\ at \in Nat /\ at >= host.from
                 /\ host.skip < Len(reply) /\ Len(reply) = Cardinality(Due(at))
                 /\ \A i \in 1..Len(reply) : reply[i] = Tuple(Order(Due(at))[i], at)
                 /\ \A k \in Due(at) : \E i \in 1..Len(reply) : Order(Due(at))[i] = k
                 /\ \A i \in 1..Len(reply) : Order(Due(at))[i] \in Due(at)
  <1>1. /\ TypeInv /\ ModeInv /\ status = "driving" /\ ~(shape.gated /\ refused # {})
        /\ PendingInv /\ GateInv /\ CallInv
        /\ reply = Whole /\ reply \in Seq(Matches) /\ host.cap \in Nat /\ host.skip \in Nat
    <2>1. TypeInv /\ ModeInv /\ status = "driving" /\ CallInv
      BY DEF Inv, ModeInv
    <2>2. ~(shape.gated /\ refused # {})
      BY <2>1 DEF Inv, StuckInv
    <2>3. PendingInv /\ GateInv /\ reply = Whole
      BY <2>2 DEF Inv, AnswerInv
    <2>4. reply \in Seq(Matches) /\ host.cap \in Nat /\ host.skip \in Nat
      BY <2>1 DEF TypeInv, reply
    <2> QED BY <2>1, <2>2, <2>3, <2>4
  <1>2. /\ shape.gated => host.skip = 0
        /\ ~shape.batch => host.skip = 0 /\ buf = << >>
        /\ shape.batch => host.cap > host.skip
    BY <1>1 DEF ModeInv
  <1>3. call.list = << >>
    BY <1>1 DEF CallInv
  <1>4. Promised = IdsOf(Gated(reply))
    BY <1>1, <1>3, GatedNone DEF Promised, reply
  <1>5. \A i \in 1..Len(Gated(reply)) : gate[reply[i].id] = Reported(reply[i])
    <2>1. /\ DOMAIN Gated(reply) = 1..Len(Gated(reply))
          /\ \A i \in 1..Len(Gated(reply)) : Gated(reply)[i] = reply[i]
      BY <1>1, GatedIs
    <2>2. \A i \in DOMAIN Gated(reply) : gate[Gated(reply)[i].id] = Reported(Gated(reply)[i])
      BY <1>1 DEF GateInv, reply
    <2> QED BY <2>1, <2>2
  <1>6. \A k \in Members \ IdsOf(Gated(reply)) : Exact(gate, k)
    BY <1>1, <1>4 DEF GateInv
  <1>7. host.skip <= Len(reply) /\ Len(reply) \in Nat
    BY <1>1, OwedIsLeft
  <1>8. ASSUME reply = << >> PROVE AllOwing(Members) = {}
    <2>1. Len(Whole) = 0
      BY <1>1, <1>8
    <2> QED BY <1>1, <2>1, WholeIs
  <1>9. ASSUME reply # << >>
        PROVE  /\ AllOwing(Members) # {} /\ at = Min(AllOwing(Members))
               /\ at \in Starts /\ at \in Nat /\ at >= host.from
               /\ host.skip < Len(reply) /\ Len(reply) = Cardinality(Due(at))
               /\ \A i \in 1..Len(reply) : reply[i] = Tuple(Order(Due(at))[i], at)
               /\ \A k \in Due(at) : \E i \in 1..Len(reply) : Order(Due(at))[i] = k
               /\ \A i \in 1..Len(reply) : Order(Due(at))[i] \in Due(at)
    <2> DEFINE a == Min(AllOwing(Members))
               ids == Due(a)
    <2>1. AllOwing(Members) # {}
      BY <1>1, <1>9, WholeIs
    <2>2. /\ reply = PositionOf(a, ids) /\ a \in Starts /\ a \in Nat /\ a >= host.from
          /\ Len(reply) = Cardinality(ids) /\ Len(reply) \in Nat \ {0}
          /\ ids \in SUBSET Members /\ host.skip < Len(reply)
      BY <1>1, <2>1, WholeIs, OwingTyped, OwedIsLeft
    <2> HIDE DEF ids
    <2>3. /\ \A i \in 1..Cardinality(ids) :
                 /\ PositionOf(a, ids)[i] = Tuple(Order(ids)[i], a)
                 /\ Order(ids)[i] \in ids
          /\ \A k \in ids : \E i \in 1..Cardinality(ids) : Order(ids)[i] = k
      BY <2>2, PositionLists
    <2> HIDE DEF a
    <2>4. at = a
      <3>1. 1 \in 1..Cardinality(ids)
        BY <2>2
      <3>2. reply[1] = Tuple(Order(ids)[1], a)
        BY <2>2, <2>3, <3>1
      <3> QED BY <3>2 DEF at, Tuple
    <2>5. \A i \in 1..Len(reply) : reply[i] = Tuple(Order(ids)[i], a) /\ Order(ids)[i] \in ids
      BY <2>2, <2>3
    <2>6. \A k \in ids : \E i \in 1..Len(reply) : Order(ids)[i] = k
      BY <2>2, <2>3
    <2> QED BY <2>1, <2>2, <2>4, <2>5, <2>6 DEF a, ids
  <1> QED BY <1>1, <1>2, <1>4, <1>5, <1>6, <1>7, <1>8, <1>9

LEMMA MovesOn ==
    ASSUME Inv, pc = "answered", reply # << >>, Len(reply) <= host.cap, TypeInv',
           UNCHANGED <<fixed, gate>>, call' = NoCall,
           host'.from = at + 1, host'.skip = 0,
           out' \o buf' = (out \o buf) \o SubSeq(reply, host.skip + 1, Len(reply))
    PROVE  PendingInv' /\ GateInv'
  <1>1. /\ TypeInv /\ PendingInv /\ reply = Whole /\ reply \in Seq(Matches)
        /\ shape.gated => host.skip = 0
        /\ \A k \in Members \ IdsOf(Gated(reply)) : Exact(gate, k)
        /\ \A i \in 1..Len(Gated(reply)) : gate[reply[i].id] = Reported(reply[i])
        /\ AllOwing(Members) # {} /\ at = Min(AllOwing(Members))
        /\ at \in Starts /\ at \in Nat /\ at >= host.from
        /\ \A i \in 1..Len(reply) : reply[i] = Tuple(Order(Due(at))[i], at)
        /\ \A k \in Due(at) : \E i \in 1..Len(reply) : Order(Due(at))[i] = k
        /\ \A i \in 1..Len(reply) : Order(Due(at))[i] \in Due(at)
    BY AnsweredIs
  <1>2. /\ PendingInv'
        /\ \A k \in Members : Owing(k)' =
               {s \in Owing(k) : s > at /\ (shape.gated /\ k \in Due(at) => PastReport(k, at, s))}
    <2>1. out' \o buf' = (out \o buf) \o SubSeq(Whole, host.skip + 1, Len(Whole))
      BY <1>1
    <2> QED BY <1>1, <2>1, MovedOn
  <1>3. /\ shape.gated => Gated(reply) = reply
        /\ ~shape.gated => Gated(reply) = << >>
    BY <1>1, GatedIs
  <1>4. \A k \in Due(at) : shape.gated => gate[k] = Reported(Tuple(k, at)) /\ at \in Owing(k)
    <2> SUFFICES ASSUME NEW k \in Due(at), shape.gated
                 PROVE  gate[k] = Reported(Tuple(k, at)) /\ at \in Owing(k)
      OBVIOUS
    <2>1. PICK i \in 1..Len(reply) : Order(Due(at))[i] = k
      BY <1>1
    <2>2. reply[i] = Tuple(k, at) /\ reply[i].id = k
      <3>1. reply[i] = Tuple(Order(Due(at))[i], at)
        BY <1>1
      <3>2. reply[i] = Tuple(k, at)
        BY <2>1, <3>1, Zenon
      <3> QED BY <3>2 DEF Tuple
    <2>3. gate[k] = Reported(Tuple(k, at))
      BY <1>1, <1>3, <2>2
    <2> QED BY <2>3 DEF Due
  <1>5. \A k \in Members : k \notin Due(at) \/ ~shape.gated => Exact(gate, k)
    <2> SUFFICES ASSUME NEW k \in Members, k \notin Due(at) \/ ~shape.gated
                 PROVE  k \notin IdsOf(Gated(reply))
      BY <1>1
    <2>1. CASE ~shape.gated
      BY <1>1, <1>3, <2>1, GatedNone
    <2>2. CASE shape.gated
      <3>1. k \notin Due(at)
        BY <2>2
      <3>2. ASSUME NEW i \in 1..Len(reply) PROVE reply[i].id # k
        <4>1. reply[i] = Tuple(Order(Due(at))[i], at) /\ Order(Due(at))[i] \in Due(at)
          BY <1>1
        <4>2. reply[i].id = Order(Due(at))[i]
          BY <4>1 DEF Tuple
        <4> QED BY <3>1, <4>1, <4>2
      <3>3. k \notin IdsOf(reply)
        <4>1. k \in IdsOf(reply) => \E i \in 1..Len(reply) : reply[i].id = k
          BY <1>1, IdsTyped, Zenon
        <4> QED BY <3>2, <4>1
      <3> QED BY <1>3, <2>2, <3>3
    <2> QED BY <2>1, <2>2
  <1>6. ASSUME NEW k \in Members PROVE Exact(gate, k)'
    <2>1. host'.from \in Nat /\ host'.from >= host.from
      BY <1>1, OwingTyped
    <2>2. Owing(k)' = {s \in Owing(k) : s >= host'.from
                          /\ (shape.gated /\ k \in Due(at) => PastReport(k, at, s))}
      <3>1. \A s \in Owing(k) : s > at <=> s >= host'.from
        BY <1>1, OwingTyped
      <3>2. Owing(k)' = {s \in Owing(k) : s > at
                            /\ (shape.gated /\ k \in Due(at) => PastReport(k, at, s))}
        BY <1>2
      <3> QED BY <3>1, <3>2
    <2> DEFINE given == Due(at)
               a == at
    <2>3. /\ ~(shape.gated /\ k \in given) => Exact(gate, k)
          /\ shape.gated /\ k \in given => a \in Owing(k) /\ gate[k] = Reported(Tuple(k, a))
      BY <1>4, <1>5
    <2>4. Owing(k)' = {s \in Owing(k) : s >= host'.from
                          /\ (shape.gated /\ k \in given => PastReport(k, a, s))}
      BY <2>2
    <2>5. a \in Starts
      BY <1>1
    <2> HIDE DEF given, a
    <2> QED BY <1>1, <2>1, <2>3, <2>4, <2>5, GatesAfter
  <1> QED BY <1>2, <1>6, NoCallGates

LEMMA SplitsThere ==
    ASSUME Inv, pc = "answered", Len(reply) > host.cap, shape.batch, TypeInv',
           UNCHANGED <<fixed, gate>>, call' = NoCall,
           host'.from = at, host'.skip = IF shape.gated THEN 0 ELSE host.cap,
           out' \o buf' = (out \o buf) \o SubSeq(reply, host.skip + 1, host.cap)
    PROVE  PendingInv' /\ GateInv'
  <1>0. reply # << >>
    <2>1. Len(reply) > 0
      BY AnsweredIs
    <2> QED BY <2>1
  <1>1. /\ TypeInv /\ PendingInv /\ reply = Whole /\ reply \in Seq(Matches)
        /\ shape.gated => host.skip = 0
        /\ host.cap \in Nat /\ host.cap > host.skip
        /\ \A k \in Members \ IdsOf(Gated(reply)) : Exact(gate, k)
        /\ \A i \in 1..Len(Gated(reply)) : gate[reply[i].id] = Reported(reply[i])
        /\ AllOwing(Members) # {} /\ at = Min(AllOwing(Members))
        /\ at \in Starts /\ at \in Nat /\ at >= host.from
        /\ \A i \in 1..Len(reply) : reply[i] = Tuple(Order(Due(at))[i], at)
        /\ \A i \in 1..Len(reply) : Order(Due(at))[i] \in Due(at)
    BY <1>0, AnsweredIs
  <1> DEFINE n == host.cap
             given == FirstIds(Order(Due(at)), n)
  <1>2. /\ PendingInv'
        /\ \A k \in Members : Owing(k)' =
               {s \in Owing(k) : shape.gated /\ k \in given => PastReport(k, at, s)}
    <2>1. out' \o buf' = (out \o buf) \o SubSeq(Whole, host.skip + 1, n)
      BY <1>1
    <2>2. n \in Nat /\ host.skip < n /\ n < Len(Whole)
      BY <1>1
    <2> HIDE DEF n
    <2> QED BY <1>1, <2>1, <2>2, SplitThere DEF n
  <1>3. /\ shape.gated => Len(Gated(reply)) = n
        /\ ~shape.gated => Gated(reply) = << >>
        /\ Len(reply) \in Nat
    <2>1. /\ shape.gated => Len(Gated(reply)) = IF Len(reply) <= n THEN Len(reply) ELSE n
          /\ ~shape.gated => Gated(reply) = << >>
          /\ Len(reply) \in Nat
      BY <1>1, GatedIs
    <2> QED BY <1>1, <2>1
  <1>4. \A i \in 1..n : i \in 1..Len(reply)
    BY <1>1, <1>3
  <1>5. \A k \in given : shape.gated => gate[k] = Reported(Tuple(k, at)) /\ at \in Owing(k)
    <2> SUFFICES ASSUME NEW k \in given, shape.gated
                 PROVE  gate[k] = Reported(Tuple(k, at)) /\ at \in Owing(k)
      OBVIOUS
    <2>1. PICK i \in 1..n : Order(Due(at))[i] = k
      BY DEF FirstIds
    <2>2. reply[i] = Tuple(k, at) /\ reply[i].id = k /\ k \in Due(at)
      BY <1>1, <1>4, <2>1 DEF Tuple
    <2>3. gate[k] = Reported(Tuple(k, at))
      BY <1>1, <1>3, <2>1, <2>2
    <2> QED BY <2>2, <2>3 DEF Due
  <1>6. \A k \in Members : k \notin given \/ ~shape.gated => Exact(gate, k)
    <2> SUFFICES ASSUME NEW k \in Members, k \notin given \/ ~shape.gated
                 PROVE  k \notin IdsOf(Gated(reply))
      BY <1>1
    <2>1. CASE ~shape.gated
      BY <1>1, <1>3, <2>1, GatedNone
    <2>2. CASE shape.gated
      <3>1. k \in IdsOf(Gated(reply))
                => \E i \in 1..Len(Gated(reply)) : reply[i].id = k
        BY <1>1, IdsTyped, Zenon
      <3>2. ASSUME NEW i \in 1..n PROVE reply[i].id # k
        <4>0. reply[i] = Tuple(Order(Due(at))[i], at)
          BY <1>1, <1>4
        <4>1. reply[i].id = Order(Due(at))[i]
          BY <4>0 DEF Tuple
        <4>2. Order(Due(at))[i] \in given
          BY DEF FirstIds
        <4> QED BY <2>2, <4>1, <4>2
      <3> QED BY <1>3, <2>2, <3>1, <3>2
    <2> QED BY <2>1, <2>2
  <1> HIDE DEF given
  <1>7. ASSUME NEW k \in Members PROVE Exact(gate, k)'
    <2>1. host'.from \in Nat /\ host'.from >= host.from
      BY <1>1, OwingTyped
    <2> DEFINE a == at
    <2>2. Owing(k)' = {s \in Owing(k) : s >= host'.from
                          /\ (shape.gated /\ k \in given => PastReport(k, a, s))}
      <3>1. \A s \in Owing(k) : s >= host'.from
        BY <1>1, WholeIs
      <3>2. Owing(k)' = {s \in Owing(k) : shape.gated /\ k \in given => PastReport(k, at, s)}
        BY <1>2
      <3> QED BY <3>1, <3>2
    <2>3. /\ ~(shape.gated /\ k \in given) => Exact(gate, k)
          /\ shape.gated /\ k \in given => a \in Owing(k) /\ gate[k] = Reported(Tuple(k, a))
      BY <1>5, <1>6
    <2>4. a \in Starts
      BY <1>1
    <2> HIDE DEF a
    <2> QED BY <1>1, <2>1, <2>2, <2>3, <2>4, GatesAfter
  <1> QED BY <1>2, <1>7, NoCallGates
-----------------------------------------------------------------------------
(* The caller's steps: the invariant. *)

\* A step between calls that delivers nothing.
LEMMA HostStill ==
    ASSUME Inv, pc \in {"host", "walk"}, UNCHANGED <<fixed, gate, offered, refused>>, Still,
           host'.skip = host.skip, TypeInv', call' = NoCall, ~(shape.gated /\ refused # {}),
           pc' \in {"host", "walk"}
    PROVE  PendingInv' /\ AnswerInv' /\ GateInv'
  <1>1. TypeInv /\ PendingInv /\ AnswerInv /\ GateInv /\ call = NoCall
    BY DEF Inv, CallInv
  <1>2. PendingInv'
    BY <1>1, StillPending
  <1>3. Whole' = Whole /\ \A k : Owing(k)' = Owing(k)
    BY StillWhole, StillOwing
  <1>4. AnswerInv'
    BY <1>1, <1>3 DEF AnswerInv
  <1>5. Promised = {}
    BY <1>1, NoCallTyped, GatedNone DEF Promised
  <1>6. \A k \in Members : Exact(gate, k)'
    <2> SUFFICES ASSUME NEW k \in Members PROVE Exact(gate, k)'
      OBVIOUS
    <2>1. Exact(gate', k)
      BY <1>1, <1>5 DEF GateInv
    <2> QED BY <1>3, <2>1, StillExact DEF Still
  <1>7. GateInv'
    BY <1>6, NoCallGates
  <1> QED BY <1>2, <1>4, <1>7

LEMMA HostStuck ==
    ASSUME Inv, status = "driving", shape.gated, refused # {},
           UNCHANGED <<fixed, gate, buf, refused>>,
           host'.from = host.from, pc' \in {"host", "walk", "merge"},
           pc' = "merge" => call'.asked = {}
    PROVE  StuckInv'
  <1>1. /\ shape.batch /\ buf = << >>
    BY StuckIs
  <1>2. PICK k \in refused : Stuck(k) /\ k \in Candidates
    BY StuckIs
  <1>3. TypeInv /\ gate \in [Members -> 0..Dead] /\ \A j \in Members : gate[j] \in Nat
    BY GateTyped DEF Inv, TypeInv
  <1>4. gate' \in [Members -> 0..Dead] /\ \A j \in Members : gate'[j] >= gate[j]
    BY <1>3
  <1>5. Stuck(k)'
    BY <1>2, <1>3, <1>4, StuckStays
  <1> QED BY <1>1, <1>5 DEF StuckInv, fixed

LEMMA StartMergeStep ==
    ASSUME Inv, pc \in {"host", "walk"}, StartMerge, host.from <= Length, status = "driving",
           shape.batch => pc = "walk" /\ host.cap > host.skip,
           UNCHANGED <<fixed, gate, host, out, buf, status, reached, offered, refused>>
    PROVE  Inv'
  <1>1. TypeInv /\ ModeInv /\ ReachInv /\ Still
    BY DEF Inv, Still, fixed
  <1>2. /\ call' = [NoCall EXCEPT !.bound = [c \in Candidates |-> Bound(c)]]
        /\ pc' = "merge"
    BY DEF StartMerge
  <1>3. /\ call' \in [bound : [Candidates -> 0..(Length + 1)],
                      starts : [Candidates -> Starts \union {Never}],
                      asked : SUBSET Candidates,
                      list : Seq(Matches), answer : Seq(Matches)]
        /\ call'.asked = {} /\ call'.list = << >> /\ call'.answer = << >>
        /\ \A c \in Candidates : call'.starts[c] = Never /\ call'.bound[c] = Bound(c)
    <2> DEFINE bound == [c \in Candidates |-> Bound(c)]
    <2>1. bound \in [Candidates -> 0..(Length + 1)]
      BY <1>1, BoundIs
    <2>2. \A c \in Candidates : bound[c] = Bound(c)
      OBVIOUS
    <2> HIDE DEF bound
    <2>3. call' = [NoCall EXCEPT !.bound = bound]
      BY <1>2 DEF bound
    <2> QED BY <2>1, <2>2, <2>3, NoCallTyped
  <1>4. TypeInv'
    <2>1. Matches' = Matches
      BY DEF Matches, Tuple, fixed
    <2> QED BY <1>1, <1>2, <1>3, <2>1 DEF TypeInv, fixed
  <1>5. ModeInv'
    BY <1>1, <1>2 DEF ModeInv, fixed
  <1>6. CallInv'
    <2>1. \A c \in Candidates : Bound(c)' = Bound(c)
      BY DEF Bound
    <2>2. \A k \in Split : k \in Candidates
      BY ServedMembers
    <2> QED BY <1>2, <1>3, <2>1, <2>2 DEF CallInv
  <1>7. ReachInv'
    BY <1>1, <1>2, <1>3 DEF ReachInv
  <1>8. ASSUME shape.gated, refused # {} PROVE StuckInv'
    BY <1>2, <1>3, <1>8, HostStuck
  <1>9. ASSUME ~(shape.gated /\ refused # {}) PROVE PendingInv' /\ AnswerInv' /\ GateInv'
    <2>1. PendingInv /\ AnswerInv /\ GateInv /\ call = NoCall
      BY <1>9 DEF Inv, CallInv
    <2>2. PendingInv'
      BY <1>1, <2>1, StillPending
    <2>3. Whole' = Whole /\ \A k : Owing(k)' = Owing(k)
      BY <1>1, StillWhole, StillOwing
    <2>4. AnswerInv'
      BY <1>2, <1>3, <2>1, <2>3 DEF AnswerInv
    <2>5. Promised = {}
      BY <1>1, <2>1, NoCallTyped, GatedNone DEF Promised
    <2>6. \A k \in Members : Exact(gate, k)'
      <3> SUFFICES ASSUME NEW k \in Members PROVE Exact(gate, k)'
        OBVIOUS
      <3>1. Exact(gate', k)
        BY <2>1, <2>5 DEF GateInv
      <3> QED BY <2>3, <3>1, StillExact
    <2>7. \A x : Gated(x)' = Gated(x)
      BY DEF Gated, FirstOf, fixed
    <2>8. Gated(<< >>) = << >>
      BY <1>1, GatedNone
    <2>9. GateInv'
      <3>1. ASSUME NEW x \in {call'.list, call'.answer} PROVE Gated(x)' = << >>
        BY <1>3, <2>7, <2>8
      <3>2. \A x \in {call'.list, call'.answer} : \A i \in DOMAIN Gated(x)' :
                gate'[Gated(x)'[i].id] = Reported(Gated(x)'[i])
        BY <3>1
      <3> QED BY <2>6, <3>2 DEF GateInv, Reported
    <2> QED BY <2>2, <2>4, <2>9
  <1> QED BY <1>4, <1>5, <1>6, <1>7, <1>8, <1>9 DEF Inv, fixed

LEMMA FindStep == ASSUME Inv, Find PROVE Inv'
  BY StartMergeStep DEF Find, fixed

LEMMA AskWorkerStep == ASSUME Inv, AskWorker PROVE Inv'
  <1>1. TypeInv /\ ModeInv
    BY DEF Inv
  <1>2. /\ pc = "walk" /\ status = "driving" /\ host.from <= Length
        /\ room > 0
    BY <1>1 DEF AskWorker, ModeInv
  <1>3. host.cap > host.skip
    BY <1>1, <1>2 DEF room, TypeInv
  <1> QED BY <1>2, <1>3, StartMergeStep DEF AskWorker, fixed

\* The drive's end, past the text.
LEMMA FindPastEndStep == ASSUME Inv, FindPastEnd PROVE Inv'
  <1>1. TypeInv /\ ModeInv /\ CallInv /\ ReachInv
    BY DEF Inv
  <1>2. TypeInv'
    <2>1. Matches' = Matches
      BY DEF Matches, Tuple, FindPastEnd, fixed
    <2> QED BY <1>1, <2>1 DEF TypeInv, FindPastEnd, fixed
  <1>3. ModeInv' /\ CallInv' /\ ReachInv'
    BY <1>1 DEF ModeInv, CallInv, ReachInv, FindPastEnd, fixed
  <1>4. ASSUME ~(shape.gated /\ refused # {}) PROVE PendingInv' /\ AnswerInv' /\ GateInv'
    <2>1. call' = NoCall /\ Still /\ pc' = "host" /\ pc = "host"
      BY <1>1 DEF CallInv, FindPastEnd, Still, fixed
    <2> QED BY <1>2, <1>4, <2>1, HostStill DEF FindPastEnd, fixed
  <1>5. status' = "done"
    BY DEF FindPastEnd
  <1> QED BY <1>2, <1>3, <1>4, <1>5 DEF Inv, FindPastEnd, fixed

LEMMA FindBatchStep == ASSUME Inv, FindBatch PROVE Inv'
  <1>1. TypeInv /\ ModeInv /\ CallInv /\ ReachInv
    BY DEF Inv
  <1>2. PICK left \in 1..MaxCap : host' = [host EXCEPT !.cap = WorkerRoom(left)]
    BY DEF FindBatch
  <1>3. /\ host'.from = host.from /\ host'.skip = host.skip /\ host'.cap = left + host.skip
        /\ host' \in [from : 0..(Length + 1), skip : Nat, cap : Nat]
        /\ host'.cap >= host'.skip
    <2>1. host \in [from : 0..(Length + 1), skip : Nat, cap : Nat] /\ left \in Nat
      BY <1>1, CapAssumption DEF TypeInv
    <2> QED BY <1>2, <2>1 DEF WorkerRoom
  <1>4. TypeInv'
    <2>1. Matches' = Matches
      BY DEF Matches, Tuple, FindBatch, fixed
    <2> QED BY <1>1, <1>3, <2>1 DEF TypeInv, FindBatch, fixed
  <1>5. ModeInv'
    BY <1>1, <1>3 DEF ModeInv, FindBatch, fixed
  <1>6. CallInv' /\ ReachInv'
    BY <1>1 DEF CallInv, ReachInv, FindBatch
  <1>7. ASSUME ~(shape.gated /\ refused # {}) PROVE PendingInv' /\ AnswerInv' /\ GateInv'
    <2>1. call' = NoCall /\ Still /\ pc' = "walk" /\ pc = "host"
      BY <1>1, <1>3 DEF CallInv, FindBatch, Still, fixed
    <2> QED BY <1>3, <1>4, <1>7, <2>1, HostStill DEF FindBatch, fixed
  <1>8. ASSUME shape.gated, refused # {} PROVE StuckInv'
    BY <1>3, <1>8, HostStuck DEF FindBatch, fixed
  <1> QED BY <1>4, <1>5, <1>6, <1>7, <1>8 DEF Inv, FindBatch, fixed

\* The call hands what it wrote to the caller.
LEMMA Handed ==
    ASSUME TypeInv, Hand
    PROVE  /\ out' \o buf' = out \o buf /\ out' \in Seq(Matches) /\ buf' \in Seq(Matches)
           /\ buf' = << >>
  <1>1. out \in Seq(Matches) /\ buf \in Seq(Matches)
    BY DEF TypeInv
  <1>2. out' = out \o buf /\ buf' = << >>
    BY DEF Hand
  <1>3. out \o buf \in Seq(Matches)
    BY <1>1
  <1> DEFINE both == out \o buf
  <1> HIDE DEF both
  <1>4. both \in Seq(Matches) => both \o << >> = both
    OBVIOUS
  <1> QED BY <1>2, <1>3, <1>4 DEF both

LEMMA BatchFullStep == ASSUME Inv, BatchFull PROVE Inv'
  <1>1. TypeInv /\ ModeInv /\ CallInv /\ ReachInv
    BY DEF Inv
  <1>2. /\ out' \o buf' = out \o buf /\ out' \in Seq(Matches) /\ buf' = << >>
        /\ pc' = "host" /\ pc = "walk" /\ Still
        /\ UNCHANGED <<fixed, gate, host, status, call, reached, offered, refused>>
    BY <1>1, Handed DEF BatchFull, Hand, Still, fixed
  <1>3. TypeInv'
    <2>1. Matches' = Matches
      BY <1>2 DEF Matches, Tuple, fixed
    <2>2. buf' \in Seq(Matches)
      BY <1>2
    <2> QED BY <1>1, <1>2, <2>1, <2>2 DEF TypeInv, fixed
  <1>4. ModeInv' /\ CallInv' /\ ReachInv'
    BY <1>1, <1>2 DEF ModeInv, CallInv, ReachInv, fixed
  <1>5. ASSUME ~(shape.gated /\ refused # {}) PROVE PendingInv' /\ AnswerInv' /\ GateInv'
    <2>1. call' = NoCall
      BY <1>1, <1>2 DEF CallInv
    <2> QED BY <1>2, <1>3, <1>5, <2>1, HostStill
  <1>6. ASSUME shape.gated, refused # {}, status = "driving" PROVE StuckInv'
    <2>1. buf' = buf
      BY <1>2, <1>6, StuckIs
    <2> QED BY <1>2, <1>6, <2>1, HostStuck
  <1> QED BY <1>2, <1>3, <1>4, <1>5, <1>6 DEF Inv, fixed

LEMMA BatchPastEndStep == ASSUME Inv, BatchPastEnd PROVE Inv'
  <1>1. TypeInv /\ ModeInv /\ CallInv /\ ReachInv
    BY DEF Inv
  <1>2. /\ out' \o buf' = out \o buf /\ out' \in Seq(Matches) /\ buf' = << >>
        /\ pc' = "host" /\ pc = "walk" /\ Still /\ status' = "done"
        /\ UNCHANGED <<fixed, gate, host, call, reached, offered, refused>>
    BY <1>1, Handed DEF BatchPastEnd, Hand, Still, fixed
  <1>3. TypeInv'
    <2>1. Matches' = Matches
      BY <1>2 DEF Matches, Tuple, fixed
    <2>2. buf' \in Seq(Matches)
      BY <1>2
    <2> QED BY <1>1, <1>2, <2>1, <2>2 DEF TypeInv, fixed
  <1>4. ModeInv' /\ CallInv' /\ ReachInv'
    BY <1>1, <1>2 DEF ModeInv, CallInv, ReachInv, fixed
  <1>5. ASSUME ~(shape.gated /\ refused # {}) PROVE PendingInv' /\ AnswerInv' /\ GateInv'
    <2>1. call' = NoCall
      BY <1>1, <1>2 DEF CallInv
    <2> QED BY <1>2, <1>3, <1>5, <2>1, HostStill
  <1> QED BY <1>2, <1>3, <1>4, <1>5 DEF Inv, fixed

\* The caller took the answer.
LEMMA AnswerTaken ==
    ASSUME Inv, Answered, UNCHANGED <<fixed, reached, refused>>, pc' \in {"host", "walk"},
           status' \in {"driving", "done"},
           host' \in [from : 0..(Length + 1), skip : Nat, cap : Nat],
           out' \in Seq(Matches), buf' \in Seq(Matches), offered' \in Seq(Matches)
    PROVE  TypeInv' /\ CallInv' /\ ReachInv'
  <1>1. TypeInv /\ ReachInv /\ call' = NoCall /\ gate' = gate
    BY DEF Inv, Answered
  <1>2. Matches' = Matches
    BY DEF Matches, Tuple, fixed
  <1>3. TypeInv'
    BY <1>1, <1>2, NoCallTyped DEF TypeInv, fixed
  <1>4. CallInv'
    BY <1>1, NoCallTyped DEF CallInv
  <1>5. ReachInv'
    BY <1>1 DEF ReachInv
  <1> QED BY <1>3, <1>4, <1>5

\* Nothing of the answer was delivered, and nothing of it is gated.
LEMMA NothingTaken ==
    ASSUME Inv, Answered, UNCHANGED fixed, Still, host'.skip = host.skip, TypeInv',
           pc' # "answered", pc' # "merge", offered' \in {offered, reply},
           Gated(reply) = << >>
    PROVE  PendingInv' /\ AnswerInv' /\ GateInv'
  <1>1. /\ TypeInv /\ PendingInv /\ reply = Whole
        /\ \A k \in Members \ IdsOf(Gated(reply)) : Exact(gate, k)
        /\ call' = NoCall /\ gate' = gate
    BY AnsweredIs DEF Answered
  <1>2. PendingInv'
    BY <1>1, StillPending
  <1>3. Whole' = Whole /\ \A k : Owing(k)' = Owing(k)
    BY StillWhole, StillOwing
  <1>4. AnswerInv'
    <2>1. offered # << >> => offered = Whole
      BY AnsweredIs DEF Inv, AnswerInv, Answered
    <2> QED BY <1>1, <1>3, <2>1 DEF AnswerInv
  <1>5. \A k \in Members : Exact(gate, k)'
    <2> SUFFICES ASSUME NEW k \in Members PROVE Exact(gate, k)'
      OBVIOUS
    <2>1. Exact(gate', k)
      BY <1>1, GatedNone
    <2> QED BY <1>3, <2>1, StillExact DEF Still
  <1> QED BY <1>1, <1>2, <1>4, <1>5, NoCallGates

LEMMA FindEndsStep == ASSUME Inv, FindEnds PROVE Inv'
  <1>1. /\ Answered /\ ~shape.batch /\ reply = << >> /\ pc = "answered" /\ pc' = "host"
        /\ status' = "done"
        /\ UNCHANGED <<fixed, host, out, buf, reached, offered, refused>> /\ Still
    BY DEF FindEnds, Answered, Still, fixed
  <1>2. TypeInv /\ ModeInv /\ ~(shape.gated /\ refused # {})
    BY <1>1, AnsweredIs DEF Inv
  <1>3. TypeInv' /\ CallInv' /\ ReachInv'
    BY <1>1, <1>2, AnswerTaken DEF TypeInv
  <1>4. ModeInv'
    BY <1>1, <1>2 DEF ModeInv, fixed
  <1>5. Gated(reply) = << >>
    BY <1>1, <1>2, GatedNone
  <1>6. PendingInv' /\ AnswerInv' /\ GateInv'
    BY <1>1, <1>3, <1>5, NothingTaken
  <1> QED BY <1>1, <1>2, <1>3, <1>4, <1>6 DEF Inv, fixed

LEMMA FindOverflowsStep == ASSUME Inv, FindOverflows PROVE Inv'
  <1>1. /\ Answered /\ ~shape.batch /\ Len(reply) > host.cap /\ pc = "answered"
        /\ pc' = "host" /\ host' = [host EXCEPT !.cap = Len(reply)] /\ offered' = reply
        /\ UNCHANGED <<fixed, out, buf, status, reached, refused>>
    BY DEF FindOverflows, Answered
  <1>2. /\ TypeInv /\ ModeInv /\ ~(shape.gated /\ refused # {}) /\ status = "driving"
        /\ reply \in Seq(Matches) /\ Len(reply) \in Nat
        /\ host \in [from : 0..(Length + 1), skip : Nat, cap : Nat]
    BY <1>1, AnsweredIs DEF Inv, TypeInv
  <1>3. /\ host' \in [from : 0..(Length + 1), skip : Nat, cap : Nat]
        /\ host'.from = host.from /\ host'.skip = host.skip
    BY <1>1, <1>2
  <1>4. TypeInv' /\ CallInv' /\ ReachInv'
    BY <1>1, <1>2, <1>3, AnswerTaken DEF TypeInv
  <1>5. ModeInv'
    BY <1>1, <1>2, <1>3 DEF ModeInv, fixed
  <1>6. Gated(reply) = << >>
    <2>1. ~(Len(reply) <= host.cap)
      BY <1>1, <1>2
    <2> QED BY <1>1, <1>2, <2>1, GatedIs
  <1>7. PendingInv' /\ AnswerInv' /\ GateInv'
    BY <1>1, <1>3, <1>4, <1>6, NothingTaken DEF Still
  <1> QED BY <1>1, <1>2, <1>4, <1>5, <1>7 DEF Inv, fixed

LEMMA BatchEndsStep == ASSUME Inv, BatchEnds PROVE Inv' /\ reply = << >>
  <1>1. /\ Answered /\ shape.batch /\ pc = "answered" /\ Hand /\ pc' = "host"
        /\ status' = "done" /\ Len(reply) <= host.skip
        /\ UNCHANGED <<fixed, host, reached, offered, refused>>
    BY DEF BatchEnds, Answered, Hand
  <1>2. /\ TypeInv /\ ModeInv /\ ~(shape.gated /\ refused # {})
        /\ Len(reply) \in Nat /\ host.skip \in Nat
        /\ reply # << >> => host.skip < Len(reply)
    BY <1>1, AnsweredIs DEF Inv
  <1>3. /\ Still /\ out' \in Seq(Matches) /\ buf' \in Seq(Matches) /\ buf' = << >>
    BY <1>1, <1>2, Handed DEF Still
  <1>4. TypeInv' /\ CallInv' /\ ReachInv'
    BY <1>1, <1>2, <1>3, AnswerTaken DEF TypeInv
  <1>5. ModeInv'
    BY <1>1, <1>2, <1>3 DEF ModeInv, fixed
  <1>6. reply = << >>
    BY <1>1, <1>2
  <1>7. Gated(reply) = << >>
    BY <1>2, <1>6, GatedNone
  <1>8. PendingInv' /\ AnswerInv' /\ GateInv'
    BY <1>1, <1>3, <1>4, <1>7, NothingTaken
  <1> QED BY <1>1, <1>2, <1>4, <1>5, <1>6, <1>8 DEF Inv, fixed

\* What each delivery appends.
LEMMA Appended ==
    ASSUME Inv, pc = "answered", NEW m \in Nat, NEW n \in Nat, n <= Len(reply)
    PROVE  LET D == SubSeq(reply, m + 1, n) IN
           /\ D \in Seq(Matches)
           /\ (out \o buf \o D) \o << >> = (out \o buf) \o D
           /\ out \o (buf \o D) = (out \o buf) \o D
           /\ buf \o D \in Seq(Matches) /\ out \o buf \o D \in Seq(Matches)
  <1> DEFINE D == SubSeq(reply, m + 1, n)
  <1>1. out \in Seq(Matches) /\ buf \in Seq(Matches) /\ reply \in Seq(Matches)
        /\ Len(reply) \in Nat
    BY AnsweredIs DEF TypeInv
  <1>2. D \in Seq(Matches)
    BY <1>1
  <1> HIDE DEF D
  <1>3. /\ buf \o D \in Seq(Matches) /\ out \o buf \in Seq(Matches)
        /\ (out \o buf) \o D \in Seq(Matches)
    BY <1>1, <1>2
  <1>4. (out \o buf \o D) \o << >> = (out \o buf) \o D
    <2> DEFINE all == out \o buf \o D
    <2>1. all \in Seq(Matches)
      BY <1>3
    <2> HIDE DEF all
    <2>2. all \o << >> = all
      BY <2>1
    <2> QED BY <2>2 DEF all
  <1>5. out \o (buf \o D) = (out \o buf) \o D
    BY <1>1, <1>2, SMT
  <1> QED BY <1>2, <1>3, <1>4, <1>5 DEF D

\* A position reported whole, by find.
LEMMA FindReportsStep ==
    ASSUME Inv, FindReports
    PROVE  /\ Inv' /\ reply # << >>
           /\ out' \o buf' = (out \o buf) \o SubSeq(reply, host.skip + 1, Len(reply))
  <1>1. /\ Answered /\ ~shape.batch /\ pc = "answered" /\ pc' = "host"
        /\ Len(reply) >= 1 /\ Len(reply) <= host.cap
        /\ out' = out \o reply /\ host' = [host EXCEPT !.from = at + 1]
        /\ offered' = << >> /\ call' = NoCall /\ gate' = gate
        /\ UNCHANGED <<fixed, buf, status, reached, refused>>
    <2>1. Len(reply) \in Nat /\ host.cap \in Nat
      BY AnsweredIs DEF FindReports, Answered
    <2> QED BY <2>1 DEF FindReports, Answered, NextStart
  <1>2. reply # << >>
    BY <1>1
  <1>3. /\ TypeInv /\ ModeInv /\ ~(shape.gated /\ refused # {}) /\ status = "driving"
        /\ reply \in Seq(Matches) /\ Len(reply) \in Nat /\ at \in Starts /\ at \in Nat
        /\ host.skip = 0 /\ buf = << >>
        /\ host \in [from : 0..(Length + 1), skip : Nat, cap : Nat]
    BY <1>1, <1>2, AnsweredIs DEF Inv, TypeInv
  <1>4. /\ host' \in [from : 0..(Length + 1), skip : Nat, cap : Nat]
        /\ host'.from = at + 1 /\ host'.skip = 0
    <2>1. at + 1 \in 0..(Length + 1)
      BY <1>3, EndsTyped, TextAssumption DEF Starts
    <2> HIDE DEF at
    <2> QED BY <1>1, <1>3, <2>1
  <1>5. out \in Seq(Matches) /\ out' \in Seq(Matches) /\ buf' = << >> /\ buf' \in Seq(Matches)
    BY <1>1, <1>3 DEF TypeInv
  <1>6. out' \o buf' = (out \o buf) \o SubSeq(reply, host.skip + 1, Len(reply))
    <2>1. SubSeq(reply, host.skip + 1, Len(reply)) = reply
      BY <1>3
    <2>2. (out \o buf) \o reply = out'
      BY <1>1, <1>3, <1>5
    <2>3. out' \o buf' = out'
      BY <1>5
    <2> QED BY <2>1, <2>2, <2>3
  <1>7. TypeInv' /\ CallInv' /\ ReachInv'
    BY <1>1, <1>3, <1>4, <1>5, AnswerTaken
  <1>8. ModeInv'
    BY <1>1, <1>3, <1>4, <1>5 DEF ModeInv, fixed
  <1>9. PendingInv' /\ GateInv'
    BY <1>1, <1>2, <1>4, <1>6, <1>7, MovesOn
  <1>10. AnswerInv'
    BY <1>1 DEF AnswerInv
  <1>11. Inv'
    BY <1>1, <1>2, <1>3, <1>7, <1>8, <1>9, <1>10 DEF Inv, fixed
  <1> QED BY <1>2, <1>3, <1>6, <1>11, Zenon

\* And by find_batch.
LEMMA BatchReportsStep ==
    ASSUME Inv, BatchReports
    PROVE  /\ Inv' /\ reply # << >>
           /\ out' \o buf' = (out \o buf) \o SubSeq(reply, host.skip + 1, Len(reply))
  <1>1. /\ Answered /\ shape.batch /\ pc = "answered" /\ pc' = "walk"
        /\ Len(reply) >= host.skip + 1 /\ Len(reply) <= host.cap
        /\ buf' = buf \o SubSeq(reply, host.skip + 1, Len(reply))
        /\ host' = [from |-> at + 1, skip |-> 0, cap |-> host.cap - Len(reply)]
        /\ call' = NoCall /\ gate' = gate
        /\ UNCHANGED <<fixed, out, status, reached, offered, refused>>
    <2>1. Len(reply) \in Nat /\ host.cap \in Nat /\ host.skip \in Nat
      BY AnsweredIs DEF BatchReports, Answered
    <2> QED BY <2>1 DEF BatchReports, Answered, NextStart
  <1>2. /\ TypeInv /\ ModeInv /\ ~(shape.gated /\ refused # {}) /\ status = "driving"
        /\ reply \in Seq(Matches) /\ Len(reply) \in Nat
        /\ host.skip \in Nat /\ host.cap \in Nat
    BY <1>1, AnsweredIs DEF Inv
  <1>3. reply # << >>
    BY <1>1, <1>2
  <1>4. at \in Starts /\ at \in Nat
    BY <1>1, <1>3, AnsweredIs
  <1>5. /\ host' \in [from : 0..(Length + 1), skip : Nat, cap : Nat]
        /\ host'.from = at + 1 /\ host'.skip = 0
    <2>1. at + 1 \in 0..(Length + 1)
      BY <1>4, TextAssumption DEF Starts
    <2>2. host.cap - Len(reply) \in Nat
      BY <1>1, <1>2
    <2> HIDE DEF at, reply
    <2> QED BY <1>1, <2>1, <2>2
  <1>6. /\ out' \in Seq(Matches) /\ buf' \in Seq(Matches)
        /\ out' \o buf' = (out \o buf) \o SubSeq(reply, host.skip + 1, Len(reply))
    <2> DEFINE D == SubSeq(reply, host.skip + 1, Len(reply))
    <2>0. Len(reply) <= Len(reply)
      BY <1>2
    <2>1. buf \o D \in Seq(Matches) /\ out \o (buf \o D) = (out \o buf) \o D
      BY <1>1, <1>2, <2>0, Appended, Zenon
    <2>2. out \in Seq(Matches)
      BY <1>2 DEF TypeInv
    <2>3. buf' = buf \o D /\ out' = out
      BY <1>1
    <2> HIDE DEF D
    <2>4. out' \in Seq(Matches) /\ buf' \in Seq(Matches) /\ out' \o buf' = (out \o buf) \o D
      BY <2>1, <2>2, <2>3
    <2> QED BY <2>4 DEF D
  <1>7. TypeInv' /\ CallInv' /\ ReachInv'
    BY <1>1, <1>2, <1>5, <1>6, AnswerTaken DEF TypeInv
  <1>8. ModeInv'
    <2>1. host'.from > 0
      <3> HIDE DEF at
      <3> QED BY <1>4, <1>5
    <2> QED BY <1>1, <1>2, <1>5, <2>1 DEF ModeInv, fixed
  <1>9. PendingInv' /\ GateInv'
    BY <1>1, <1>3, <1>5, <1>6, <1>7, MovesOn
  <1>10. AnswerInv'
    <2>1. offered' = << >>
      BY <1>1, <1>2 DEF ModeInv
    <2> QED BY <1>1, <2>1 DEF AnswerInv
  <1>11. Inv'
    BY <1>1, <1>2, <1>3, <1>7, <1>8, <1>9, <1>10 DEF Inv, fixed
  <1> QED BY <1>2, <1>3, <1>6, <1>11, Zenon

\* Part of a position, by find_batch.
LEMMA BatchSplitsStep ==
    ASSUME Inv, BatchSplits
    PROVE  /\ Inv' /\ reply # << >>
           /\ out' \o buf' = (out \o buf) \o SubSeq(reply, host.skip + 1, host.cap)
  <1>1. /\ Answered /\ shape.batch /\ pc = "answered" /\ pc' = "host"
        /\ Len(reply) > host.cap
        /\ out' = out \o buf \o SubSeq(reply, host.skip + 1, host.cap) /\ buf' = << >>
        /\ host' = [host EXCEPT !.from = at, !.skip = IF shape.gated THEN 0 ELSE host.cap]
        /\ call' = NoCall /\ gate' = gate
        /\ UNCHANGED <<fixed, status, reached, offered, refused>>
    BY DEF BatchSplits, Answered
  <1>2. /\ TypeInv /\ ModeInv /\ ~(shape.gated /\ refused # {}) /\ status = "driving"
        /\ reply \in Seq(Matches) /\ Len(reply) \in Nat
        /\ host.skip \in Nat /\ host.cap \in Nat
    BY <1>1, AnsweredIs DEF Inv
  <1>3. reply # << >>
    BY <1>1, <1>2
  <1>4. at \in Starts /\ at \in Nat
    BY <1>1, <1>3, AnsweredIs
  <1>5. /\ host' \in [from : 0..(Length + 1), skip : Nat, cap : Nat]
        /\ host'.from = at /\ host'.skip = IF shape.gated THEN 0 ELSE host.cap
    <2>1. at \in 0..(Length + 1)
      BY <1>4, TextAssumption DEF Starts
    <2>2. host \in [from : 0..(Length + 1), skip : Nat, cap : Nat]
      BY <1>2 DEF TypeInv
    <2> HIDE DEF at, reply
    <2> QED BY <1>1, <2>1, <2>2
  <1>6. /\ out' \in Seq(Matches) /\ buf' \in Seq(Matches)
        /\ out' \o buf' = (out \o buf) \o SubSeq(reply, host.skip + 1, host.cap)
    <2> DEFINE D == SubSeq(reply, host.skip + 1, host.cap)
    <2>1. (out \o buf \o D) \o << >> = (out \o buf) \o D /\ out \o buf \o D \in Seq(Matches)
      BY <1>1, <1>2, Appended
    <2>2. out' = out \o buf \o D
      BY <1>1
    <2> HIDE DEF D
    <2>3. buf' \in Seq(Matches)
      BY <1>1
    <2>4. out' \in Seq(Matches)
      BY <2>1, <2>2, Zenon
    <2>5. out' \o buf' = (out \o buf) \o D
      BY <1>1, <2>1, <2>2, Zenon
    <2> QED BY <2>3, <2>4, <2>5 DEF D
  <1>7. TypeInv' /\ CallInv' /\ ReachInv'
    BY <1>1, <1>2, <1>5, <1>6, AnswerTaken DEF TypeInv
  <1>8. ModeInv'
    BY <1>1, <1>2, <1>5 DEF ModeInv, fixed
  <1>9. PendingInv' /\ GateInv'
    BY <1>1, <1>5, <1>6, <1>7, SplitsThere
  <1>10. AnswerInv'
    <2>1. offered' = << >>
      BY <1>1, <1>2 DEF ModeInv
    <2> QED BY <1>1, <2>1 DEF AnswerInv
  <1>11. Inv'
    BY <1>1, <1>2, <1>3, <1>7, <1>8, <1>9, <1>10 DEF Inv, fixed
  <1> QED BY <1>2, <1>3, <1>6, <1>11, Zenon
-----------------------------------------------------------------------------
(* A candidate gives up. *)

\* It was the candidate's turn: no gate lets anything through before its bound.
LEMMA NothingBefore ==
    ASSUME Inv, NEW k \in Candidates, IsTurn(k), ~(shape.gated /\ refused # {}),
           NEW j \in Members, NEW s \in host.from..Length, ends[j][s] # NoMatch,
           Lets(gate, j, s)
    PROVE  s >= Bound(k)
  <1>1. /\ pc = "merge" /\ TypeInv /\ GateInv /\ AnswerInv /\ CallInv
        /\ k \in Turns /\ \A d \in Turns : call.bound[k] <= call.bound[d]
        /\ k \in Candidates /\ k \notin call.asked
    <2>1. pc = "merge" /\ TypeInv /\ GateInv /\ AnswerInv /\ CallInv /\ k \in Turns
      BY DEF IsTurn, Inv
    <2>2. \A d \in Turns : call.bound[k] <= call.bound[d]
      <3> SUFFICES ASSUME NEW d \in Turns PROVE call.bound[k] <= call.bound[d]
        OBVIOUS
      <3>1. call.bound[k] \in 0..(Length + 1) /\ call.bound[d] \in 0..(Length + 1)
        BY <2>1 DEF Turns, TypeInv
      <3>2. call.bound[k] < call.bound[d] \/ call.bound[k] = call.bound[d]
        BY DEF IsTurn
      <3> QED BY <3>1, <3>2, TextAssumption
    <2> QED BY <2>1, <2>2 DEF Turns
  <1>2. /\ call.bound[k] = Bound(k) /\ Bound(k) \in Nat
        /\ Best \in Nat /\ Bound(k) <= Best
        /\ \A c \in Candidates : Best <= call.starts[c]
    <2>1. call.bound[k] = Bound(k) /\ Bound(k) \in Nat
      BY <1>1, Merging, BoundIs
    <2>2. Best \in Nat /\ \A c \in Candidates : Best <= call.starts[c]
      BY <1>1, BestIs
    <2>3. call.bound[k] <= Best
      BY <1>1 DEF Turns
    <2> QED BY <2>1, <2>2, <2>3
  <1>3. s \in Nat /\ s \in Starts /\ s <= Length /\ host.from \in Nat
    <2>1. host.from \in Nat /\ Length \in Nat
      BY <1>1, OwingTyped, TextAssumption
    <2> QED BY <2>1 DEF Starts
  <1>4. PICK c \in Candidates : j \in Served(c)
    BY ServedMembers
  <1>5. CASE c \notin call.asked
    <2>1. call.bound[c] = Bound(c) /\ Bound(c) \in Nat /\ s >= Bound(c)
      BY <1>1, <1>4, <1>5, Merging, BoundIs, LetsFromBound
    <2>2. CASE Bound(c) <= Best
      <3>1. c \in Turns
        BY <1>5, <2>1, <2>2 DEF Turns
      <3> QED BY <1>1, <1>2, <1>3, <2>1, <3>1
    <2>3. CASE ~(Bound(c) <= Best)
      BY <1>2, <1>3, <2>1, <2>3
    <2> QED BY <2>2, <2>3
  <1>6. CASE c \in call.asked
    <2>1. call.starts[c] \in Nat /\ Bound(k) <= call.starts[c]
      <3>1. call.starts[c] \in Starts \union {Never}
        BY <1>1 DEF TypeInv
      <3>2. call.starts[c] \in Nat
        BY <3>1, Sizes DEF Starts
      <3> QED BY <1>2, <3>2
    <2>2. CASE j \in Promised
      <3>1. call.list \in Seq(Matches) /\ j \in IdsOf(Gated(call.list)) /\ j \in Kept
        BY <1>1, <2>2, Merging
      <3>2. PICK i \in 1..Len(Gated(call.list)) : call.list[i].id = j
        BY <1>1, <3>1, IdsTyped
      <3>3. /\ i \in DOMAIN Gated(call.list) /\ Gated(call.list)[i] = call.list[i]
            /\ i \in 1..Len(call.list) /\ i \in DOMAIN call.list
        BY <1>1, <3>1, <3>2, GatedIs
      <3>4. call.list[i] \in Matches /\ call.list[i].start = call.starts[KeptBody]
        BY <1>1, <3>1, <3>3 DEF CallInv
      <3>5. gate[j] = Reported(call.list[i])
        BY <1>1, <3>2, <3>3 DEF GateInv
      <3>6. c = KeptBody
        BY <1>4, <3>1, ServedMembers DEF Served
      <3>7. /\ call.list[i] = Tuple(j, call.list[i].start)
            /\ call.list[i].start \in Starts /\ ends[j][call.list[i].start] # NoMatch
        BY <1>1, <3>2, <3>4, MatchTyped
      <3>8. gate[j] >= 2 * call.starts[c] + 1 /\ gate[j] \in Nat
        <4>1. Reported(Tuple(j, call.list[i].start)) >= 2 * call.list[i].start + 1
          BY <1>1, <3>7, ReportedGates
        <4> QED BY <1>1, <3>4, <3>5, <3>6, <3>7, <4>1, GateTyped
      <3>9. 2 * s + 1 >= gate[j]
        BY DEF Lets
      <3> QED BY <1>2, <1>3, <2>1, <3>8, <3>9
    <2>3. CASE j \notin Promised
      <3>1. s \in Owing(j)
        BY <1>1, <2>3 DEF GateInv, Exact
      <3>2. call.starts[c] <= s
        <4>1. CASE c = KeptBody
          <5>1. Kept \in SUBSET Members /\ j \in Kept
            BY <1>4, <4>1, ServedMembers DEF Served
          <5>2. Earliest(AllOwing(Kept)) <= s
            BY <1>1, <3>1, <5>1, EarliestIs
          <5> QED BY <1>1, <1>6, <4>1, <5>2 DEF AnswerInv
        <4>2. CASE c # KeptBody
          <5>1. c \in Split /\ j = c
            BY <1>4, <4>2, ServedMembers DEF Served
          <5>2. Earliest(Owing(j)) <= s
            <6>1. {j} \in SUBSET Members
              OBVIOUS
            <6> QED BY <1>1, <3>1, <6>1, OneOwing, EarliestIs
          <5> QED BY <1>1, <1>6, <5>1, <5>2 DEF AnswerInv
        <4> QED BY <4>1, <4>2
      <3> QED BY <1>2, <1>3, <2>1, <3>2
    <2> QED BY <2>2, <2>3
  <1> QED BY <1>5, <1>6

\* What the gates are to be where a candidate gives up: no split member's has
\* moved, and what they say of the matches owed is what they said.
LEMMA GivesUpStep ==
    ASSUME Inv, NEW k \in Candidates, IsTurn(k), call.bound[k] <= Length, GivesUp(k),
           gate' \in [Members -> 0..Dead], \A j \in Split : gate'[j] = gate[j],
           shape.gated /\ buf # << >> => gate' = gate,
           ~shape.gated => \A j \in Members : Exact(gate, j) => Exact(gate', j)
    PROVE  Inv' /\ out' \o buf' = out \o buf
  <1>1. /\ IsTurn(k) /\ call.bound[k] <= Length
        /\ status' = (IF buf = << >> THEN "unknown" ELSE status)
        /\ Hand /\ pc' = "host" /\ call' = NoCall /\ refused' = refused \union {k}
        /\ UNCHANGED <<fixed, host, reached, offered>>
    BY DEF GivesUp, GaveUp, Hand
  <1>2. /\ TypeInv /\ ModeInv /\ CallInv /\ ReachInv /\ pc = "merge" /\ status = "driving"
    <2>1. pc = "merge"
      BY <1>1 DEF IsTurn
    <2> QED BY <2>1, Merging DEF Inv
  <1>3. /\ out' \o buf' = out \o buf /\ out' \in Seq(Matches) /\ buf' \in Seq(Matches)
        /\ buf' = << >> /\ Still
    BY <1>1, <1>2, Handed DEF Still
  <1>4. TypeInv'
    <2>1. Matches' = Matches
      BY <1>1 DEF Matches, Tuple, fixed
    <2> QED BY <1>1, <1>2, <1>3, <2>1, NoCallTyped DEF TypeInv, fixed
  <1>5. ModeInv'
    BY <1>1, <1>2, <1>3 DEF ModeInv, fixed
  <1>6. CallInv' /\ ReachInv'
    BY <1>1, <1>2 DEF CallInv, ReachInv
  <1>7. ASSUME shape.gated, status' = "driving" PROVE StuckInv'
    <2>1. buf # << >> /\ shape.batch /\ gate' = gate
      BY <1>1, <1>2, <1>7 DEF ModeInv
    <2>2. ~(shape.gated /\ refused # {})
      BY <1>2, <2>1, StuckIs
    <2>3. k \in Candidates /\ call.bound[k] = Bound(k) /\ Bound(k) <= Length
      BY <1>1, <1>2, Merging DEF IsTurn, Turns
    <2>4. ASSUME NEW j \in Members, NEW s \in host.from..(Bound(k) - 1), ends[j][s] # NoMatch
          PROVE  ~Lets(gate, j, s)
      <3>1. Bound(k) \in Nat /\ host.from \in Nat /\ Length \in Nat
        BY <1>2, BoundIs, OwingTyped, TextAssumption
      <3>2. s \in host.from..Length /\ ~(s >= Bound(k))
        BY <2>3, <3>1
      <3> QED BY <1>1, <2>2, <2>4, <3>2, NothingBefore
    <2>5. Bound(k)' = Bound(k)
      BY <1>1, <2>1 DEF Bound
    <2>6. Stuck(k)'
      BY <1>1, <2>1, <2>3, <2>4, <2>5 DEF Stuck, Lets, fixed
    <2> QED BY <1>1, <1>3, <2>1, <2>6 DEF StuckInv, fixed
  <1>8. ASSUME ~shape.gated PROVE PendingInv' /\ AnswerInv' /\ GateInv'
    <2>1. PendingInv /\ AnswerInv /\ GateInv
      BY <1>8 DEF Inv
    <2>2. PendingInv'
      BY <1>1, <1>3, <2>1, StillPending
    <2>3. Whole' = Whole /\ \A j : Owing(j)' = Owing(j)
      BY <1>3, StillWhole, StillOwing
    <2>4. AnswerInv'
      BY <1>1, <2>1, <2>3 DEF AnswerInv
    <2>5. Promised = {}
      <3>1. call.list \in Seq(Matches)
        BY <1>2, Merging
      <3>2. Gated(call.list) = << >>
        BY <1>2, <1>8, <3>1, GatedIs
      <3> QED BY <1>2, <3>2, Merging, GatedNone
    <2>6. \A j \in Members : Exact(gate, j)'
      <3> SUFFICES ASSUME NEW j \in Members PROVE Exact(gate, j)'
        OBVIOUS
      <3>1. Exact(gate', j)
        BY <1>8, <2>1, <2>5 DEF GateInv
      <3> QED BY <1>1, <2>3, <3>1, StillExact
    <2> QED BY <1>1, <1>4, <2>2, <2>4, <2>6, NoCallGates
  <1> QED BY <1>1, <1>3, <1>4, <1>5, <1>6, <1>7, <1>8 DEF Inv, fixed

LEMMA MemberGivesUpStep ==
    ASSUME Inv, NEW k \in Split, MemberGivesUp(k)
    PROVE  Inv' /\ out' \o buf' = out \o buf
  <1>1. k \in Candidates /\ IsTurn(k) /\ call.bound[k] <= Length /\ GivesUp(k) /\ gate' = gate
    BY ServedMembers DEF MemberGivesUp
  <1>2. gate \in [Members -> 0..Dead]
    BY DEF Inv, TypeInv
  <1> QED BY <1>1, <1>2, GivesUpStep

\* A call that has written matches is past the first position, where the
\* preflight of a gated set runs.
LEMMA KeptGivesUpStep ==
    ASSUME Inv, KeptGivesUp
    PROVE  Inv' /\ out' \o buf' = out \o buf
  <1> DEFINE q == Bound(KeptBody)
  <1>1. /\ IsTurn(KeptBody) /\ GivesUp(KeptBody) /\ pc = "merge"
        /\ KeptBody \in Candidates /\ KeptBody \notin call.asked
    BY ServedMembers DEF KeptGivesUp, IsTurn, Turns
  <1>2. call.bound[KeptBody] = q /\ TypeInv /\ ModeInv /\ q \in Nat /\ q >= host.from
    BY <1>1, Merging, BoundIs DEF Inv
  <1>3. gate' = Preflight(q) /\ q <= Length
    <2>1. gate' = Preflight(q) /\ \E s \in q..Length : TRUE
      BY <1>2 DEF KeptGivesUp
    <2> QED BY <1>2, <2>1, TextAssumption
  <1>4. gate' \in [Members -> 0..Dead] /\ \A j \in Split : gate'[j] = gate[j]
    BY <1>2, <1>3, PreflightTyped, PreflightIs
  <1>5. ASSUME shape.gated, buf # << >> PROVE gate' = gate
    <2>1. host.from \in Nat /\ host.from > 0
      BY <1>2, <1>5, OwingTyped DEF ModeInv
    <2>2. q # 0
      BY <1>2, <2>1
    <2> HIDE DEF q
    <2> QED BY <1>3, <1>5, <2>2 DEF Preflight, FirstCall
  <1>6. ASSUME NEW j \in Members, Exact(gate, j) PROVE Exact(gate', j)
    BY <1>1, <1>2, <1>3, <1>6, PreflightExact
  <1> HIDE DEF q
  <1> QED BY <1>1, <1>2, <1>3, <1>4, <1>5, <1>6, GivesUpStep
-----------------------------------------------------------------------------
(* The invariant is inductive. *)

LEMMA InitInv == ASSUME Init PROVE Inv
  <1>1. /\ ends \in [Members -> Tables] /\ shape \in Shapes /\ origin \in Origins
        /\ gate = [k \in Members |-> 0]
        /\ out = << >> /\ buf = << >> /\ offered = << >>
        /\ status = "driving" /\ pc = "host" /\ call = NoCall /\ refused = {}
        /\ reached = [k \in Split |-> NoMatch]
    BY DEF Init
  <1>2. /\ host \in [from : 0..(Length + 1), skip : Nat, cap : Nat]
        /\ host.from = origin /\ host.skip = 0
    <2>1. PICK n \in Nat : host = [from |-> origin, skip |-> 0, cap |-> n]
      BY CapAssumption DEF Init
    <2>2. origin \in 0..(Length + 1)
      BY <1>1, TextAssumption DEF Starts
    <2> QED BY <2>1, <2>2
  <1>3. TypeInv
    <2>1. gate \in [Members -> 0..Dead]
      BY <1>1, Sizes
    <2>2. reached \in [Split -> NoMatch..(Length + 1)]
      BY <1>1, TextAssumption DEF NoMatch
    <2>3. << >> \in Seq(Matches)
      OBVIOUS
    <2> QED BY <1>1, <1>2, <2>1, <2>2, <2>3, NoCallTyped DEF TypeInv
  <1>4. ModeInv /\ CallInv
    BY <1>1, <1>2 DEF ModeInv, CallInv
  <1>5. ReachInv
    BY <1>1, ServedMembers DEF ReachInv, NoMatch
  <1>6. \A k \in Members : /\ Given!Pending(k) = Owing(k)
                           /\ Owing(k) = {s \in origin..Length : ends[k][s] # NoMatch}
    <2> SUFFICES ASSUME NEW k \in Members
                 PROVE  /\ Given!Pending(k) = Owing(k)
                        /\ Owing(k) = {s \in origin..Length : ends[k][s] # NoMatch}
      OBVIOUS
    <2>1. out \o buf = << >>
      BY <1>1
    <2>2. Len(out \o buf) = 0
      BY <2>1
    <2>3. Given!Pending(k) = {s \in origin..Length : ends[k][s] # NoMatch}
      BY <1>3, <2>2, PendingIs
    <2> QED BY <1>2, <2>3 DEF Owing
  <1>7. PendingInv
    <2>1. Skipped = {}
      BY <1>2, NoneSkipped DEF Skipped
    <2> QED BY <1>2, <1>6, <2>1 DEF PendingInv
  <1>8. AnswerInv
    BY <1>1 DEF AnswerInv
  <1>9. GateInv
    <2>1. call.list = << >> /\ call.answer = << >>
      BY <1>1, NoCallTyped
    <2>2. Gated(<< >>) = << >> /\ IdsOf(<< >>) = {}
      BY <1>3, GatedNone
    <2>3. ASSUME NEW list \in {call.list, call.answer}, NEW i \in DOMAIN Gated(list)
          PROVE  gate[Gated(list)[i].id] = Reported(Gated(list)[i])
      <3>1. list = << >>
        BY <2>1
      <3>2. Gated(list) = << >>
        BY <2>2, <3>1
      <3> QED BY <2>3, <3>2
    <2>4. ASSUME NEW k \in Members PROVE Exact(gate, k)
      <3> SUFFICES ASSUME NEW s \in host.from..Length, ends[k][s] # NoMatch
                   PROVE  s \in Owing(k) /\ Lets(gate, k, s)
        BY DEF Exact
      <3>1. s \in Nat /\ gate[k] = 0
        BY <1>1, <1>3, OwingTyped, TextAssumption
      <3>2. Lets(gate, k, s)
        BY <3>1 DEF Lets
      <3>3. s \in Owing(k)
        BY <1>2, <1>6
      <3> QED BY <3>2, <3>3
    <2> QED BY <2>3, <2>4 DEF GateInv
  <1> QED BY <1>1, <1>3, <1>4, <1>5, <1>7, <1>8, <1>9 DEF Inv

\* A step that changes nothing the invariant is about.
LEMMA StutterStep == ASSUME Inv, UNCHANGED vars PROVE Inv'
  <1>1. /\ UNCHANGED <<ends, shape, origin>>
        /\ UNCHANGED <<gate, host, out, buf, status, pc, call, reached, offered, refused>>
        /\ Still
    BY DEF vars, fixed, Still
  <1>2. \A c : Bound(c)' = Bound(c)
    BY <1>1 DEF Bound
  <1>3. \A x : Gated(x)' = Gated(x)
    BY <1>1 DEF Gated, FirstOf
  <1>4. /\ \A k : Owing(k)' = Owing(k)
        /\ Whole' = Whole /\ KeptPart' = KeptPart
        /\ \A ids : AllOwing(ids)' = AllOwing(ids)
    BY <1>1, StillOwing, StillWhole
  <1>5. Matches' = Matches /\ \A g : \A k : \A s : Lets(g, k, s)' = Lets(g, k, s)
    BY <1>1 DEF Matches, Tuple, Lets
  <1>6. TypeInv' /\ ModeInv' /\ CallInv' /\ ReachInv'
    BY <1>1, <1>2, <1>5 DEF Inv, TypeInv, ModeInv, CallInv, ReachInv
  <1>7. ASSUME shape.gated, refused # {}, status = "driving" PROVE StuckInv'
    BY <1>1, <1>2, <1>7 DEF Inv, StuckInv, Stuck, Lets
  <1>8. ASSUME ~(shape.gated /\ refused # {}) PROVE PendingInv' /\ AnswerInv' /\ GateInv'
    <2>1. PendingInv /\ AnswerInv /\ GateInv
      BY <1>8 DEF Inv
    <2>2. PendingInv'
      BY <1>1, <2>1, StillPending
    <2>3. AnswerInv'
      BY <1>1, <1>4, <2>1 DEF AnswerInv, reply
    <2>4. Promised' = Promised
      BY <1>1, <1>3 DEF Promised, IdsOf
    <2>5. \A list \in {call'.list, call'.answer} : \A i \in DOMAIN Gated(list)' :
              gate'[Gated(list)'[i].id] = Reported(Gated(list)'[i])
      BY <1>1, <1>3, <2>1 DEF GateInv
    <2>6. \A k \in Members \ Promised' : Exact(gate, k)'
      <3> SUFFICES ASSUME NEW k \in Members \ Promised' PROVE Exact(gate, k)'
        OBVIOUS
      <3>1. Exact(gate', k)
        BY <1>1, <2>1, <2>4 DEF GateInv
      <3>2. UNCHANGED fixed
        BY <1>1 DEF fixed
      <3> QED BY <1>1, <1>4, <3>1, <3>2, StillExact
    <2> QED BY <2>2, <2>3, <2>5, <2>6 DEF GateInv, Reported
  <1> QED BY <1>1, <1>6, <1>7, <1>8 DEF Inv

LEMMA AskKeptStep == ASSUME Inv, ~GoesOnRegardless, AskKept PROVE Inv'
  <1>1. UNCHANGED <<shape, refused, status>>
    BY DEF AskKept, fixed
  <1> QED BY <1>1, AskKeptShape, AskKeptLost, AskKeptSound DEF Inv

LEMMA AskMemberStep ==
    ASSUME Inv, ~GoesOnRegardless, NEW k \in Split, AskMember(k)
    PROVE  Inv'
  <1>1. UNCHANGED <<shape, refused, status>>
    BY DEF AskMember, fixed
  <1> QED BY <1>1, AskMemberShape, AskMemberLost, AskMemberSound DEF Inv

LEMMA NextInv == ASSUME Inv, ~GoesOnRegardless, [Next]_vars PROVE Inv'
  <1>1. CASE UNCHANGED vars
    BY <1>1, StutterStep
  <1>2. CASE Find \/ FindPastEnd \/ FindEnds \/ FindOverflows \/ FindReports
    BY <1>2, FindStep, FindPastEndStep, FindEndsStep, FindOverflowsStep, FindReportsStep
  <1>3. CASE FindBatch \/ BatchFull \/ BatchPastEnd \/ AskWorker
    BY <1>3, FindBatchStep, BatchFullStep, BatchPastEndStep, AskWorkerStep
  <1>4. CASE BatchEnds \/ BatchSplits \/ BatchReports
    BY <1>4, BatchEndsStep, BatchSplitsStep, BatchReportsStep
  <1>5. CASE AskKept \/ KeptGivesUp \/ MergeReturns
    BY <1>5, AskKeptStep, KeptGivesUpStep, MergeReturnsStep
  <1>6. ASSUME NEW k \in Split, AskMember(k) PROVE Inv'
    BY <1>6, AskMemberStep
  <1>7. ASSUME NEW k \in Split, MemberGivesUp(k) PROVE Inv'
    BY <1>7, MemberGivesUpStep
  <1> QED BY <1>1, <1>2, <1>3, <1>4, <1>5, <1>6, <1>7 DEF Next

\* What is fixed stays, and memory once refused has been refused.
LEMMA NextKeeps == ASSUME [Next]_vars PROVE UNCHANGED fixed /\ (refused # {} => refused' # {})
  <1>1. CASE UNCHANGED vars
    BY <1>1 DEF vars, fixed
  <1>2. CASE Find \/ FindPastEnd \/ FindEnds \/ FindOverflows \/ FindReports
    BY <1>2 DEF Find, FindPastEnd, FindEnds, FindOverflows, FindReports, fixed
  <1>3. CASE FindBatch \/ BatchFull \/ BatchPastEnd \/ AskWorker
    BY <1>3 DEF FindBatch, BatchFull, BatchPastEnd, AskWorker, fixed
  <1>4. CASE BatchEnds \/ BatchSplits \/ BatchReports
    BY <1>4 DEF BatchEnds, BatchSplits, BatchReports, fixed
  <1>5. CASE AskKept \/ KeptGivesUp \/ MergeReturns
    BY <1>5 DEF AskKept, KeptGivesUp, GivesUp, MergeReturns, fixed
  <1>6. ASSUME NEW k \in Split, AskMember(k) \/ MemberGivesUp(k)
        PROVE  UNCHANGED fixed /\ (refused # {} => refused' # {})
    BY <1>6 DEF AskMember, MemberGivesUp, GivesUp, fixed
  <1> QED BY <1>1, <1>2, <1>3, <1>4, <1>5, <1>6 DEF Next

LEMMA Invariant == Spec => [](GoesOnRegardless \/ Inv)
  <1>1. Init => GoesOnRegardless \/ Inv
    BY InitInv
  <1>2. (GoesOnRegardless \/ Inv) /\ [Next]_vars => (GoesOnRegardless \/ Inv)'
    BY NextInv, NextKeeps DEF GoesOnRegardless, fixed
  <1> QED BY <1>1, <1>2, PTL DEF Spec
-----------------------------------------------------------------------------
(* The theorems. *)

\* Between positions the gate array says of every member exactly which matches
\* it still owes: what one call of the merge leaves there, report gates undone
\* or taken back included, is what the next needs (set_split.go, "the merge").
THEOREM GatesStayHonest == Spec => []GatesHonest
  <1>1. ASSUME Inv, pc \in {"host", "walk"}, host.skip = 0, refused = {} PROVE HonestGates
    <2>1. TypeInv /\ PendingInv /\ GateInv /\ call = NoCall
      BY <1>1 DEF Inv, CallInv
    <2>2. Promised = {} /\ Skipped = {}
      BY <1>1, <2>1, NoCallTyped, GatedNone, NoneSkipped DEF Promised, Skipped
    <2> SUFFICES ASSUME NEW k \in Members PROVE Left(k) = Given!Pending(k)
      BY DEF HonestGates
    <2>3. Given!Pending(k) = Owing(k)
      BY <2>1, <2>2 DEF PendingInv
    <2>4. \A s \in host.from..Length : ends[k][s] # NoMatch => (s \in Owing(k) <=> Lets(gate, k, s))
      BY <2>1, <2>2 DEF GateInv, Exact
    <2>5. \A s \in Owing(k) : s \in host.from..Length /\ ends[k][s] # NoMatch
      BY DEF Owing
    <2> QED BY <2>3, <2>4, <2>5 DEF Left
  <1>2. GoesOnRegardless \/ Inv => GatesHonest
    BY <1>1 DEF GatesHonest, GoesOnRegardless
  <1> QED BY <1>2, Invariant, PTL

\* A position that did not fit find's buffer is answered the same when it is
\* asked for with the room it needs: the call that overflowed left the gates as
\* if it had not been made (set_split.go, "the transactional rule").
THEOREM RetriesAnswerTheSame == Spec => []RetryAnswersTheSame
  <1> DEFINE OnlyFind == shape.batch => offered = << >>
  <1>1. Init => OnlyFind
    BY DEF Init
  <1>2. OnlyFind /\ [Next]_vars => OnlyFind'
    <2> SUFFICES ASSUME OnlyFind, [Next]_vars PROVE OnlyFind'
      OBVIOUS
    <2>1. CASE UNCHANGED vars
      BY <2>1 DEF vars
    <2>2. CASE Find \/ FindPastEnd \/ FindEnds \/ FindOverflows \/ FindReports
      BY <2>2 DEF Find, FindPastEnd, FindEnds, FindOverflows, FindReports, fixed
    <2>3. CASE FindBatch \/ BatchFull \/ BatchPastEnd \/ AskWorker
      BY <2>3 DEF FindBatch, BatchFull, BatchPastEnd, AskWorker, fixed
    <2>4. CASE BatchEnds \/ BatchSplits \/ BatchReports
      BY <2>4 DEF BatchEnds, BatchSplits, BatchReports, fixed
    <2>5. CASE AskKept \/ KeptGivesUp \/ MergeReturns
      BY <2>5 DEF AskKept, KeptGivesUp, GivesUp, MergeReturns, fixed
    <2>6. ASSUME NEW k \in Split, AskMember(k) \/ MemberGivesUp(k) PROVE OnlyFind'
      BY <2>6 DEF AskMember, MemberGivesUp, GivesUp, fixed
    <2> QED BY <2>1, <2>2, <2>3, <2>4, <2>5, <2>6 DEF Next
  <1>3. ASSUME Inv, pc = "answered", offered # << >> PROVE reply = offered
    <2>1. reply = Whole /\ ~(shape.gated /\ refused # {})
      BY <1>3, AnsweredIs
    <2> QED BY <1>3, <2>1 DEF Inv, AnswerInv
  <1>4. OnlyFind /\ (GoesOnRegardless \/ Inv) => RetryAnswersTheSame
    BY <1>3 DEF RetryAnswersTheSame, GoesOnRegardless
  <1> HIDE DEF OnlyFind
  <1> QED BY <1>1, <1>2, <1>4, Invariant, PTL DEF Spec

\* In a batch of a gated set the memory that was refused stays refused: the
\* host's answer, and a caller that stops at -2 never asks again.
StaysRefused == \A s \in Shapes : s.gated /\ s.batch => ~s.recovers

LEMMA AlwaysInv == ASSUME StaysRefused PROVE Spec => []Inv
  <1>1. Init => shape \in Shapes
    BY DEF Init
  <1>2. shape \in Shapes /\ [Next]_vars => (shape \in Shapes)'
    BY NextKeeps DEF fixed
  <1>3. shape \in Shapes /\ (GoesOnRegardless \/ Inv) => Inv
    BY DEF GoesOnRegardless, StaysRefused
  <1> QED BY <1>1, <1>2, <1>3, Invariant, PTL DEF Spec

\* Every variable keeps the values the code gives it, the gates their encoding:
\* no gate passes Dead, no skip the matches of a position (set_find.go, the
\* header of set_split.go).
THEOREM TypesHold == ASSUME StaysRefused PROVE Spec => []TypeOK
  <1>1. ASSUME Inv PROVE TypeOK
    <2>1. TypeInv /\ ModeInv
      BY <1>1 DEF Inv
    <2>2. ASSUME NEW list \in Seq(Matches) PROVE IsTuples(list)
      <3> SUFFICES ASSUME NEW i \in DOMAIN list
                   PROVE  /\ list[i].id \in Members /\ list[i].start \in Starts
                          /\ list[i].end = ends[list[i].id][list[i].start]
        BY DEF IsTuples
      <3>1. list[i] \in Matches
        OBVIOUS
      <3> QED BY <2>1, <3>1, MatchTyped
    <2>3. host.skip \in 0..Cardinality(Members)
      <3>1. IsFiniteSet(Members) /\ Cardinality(Members) \in Nat
        BY MemberAssumption, FS_Union, FS_CardinalityType DEF Members
      <3>2. CASE host.skip = 0
        BY <3>1, <3>2
      <3>3. CASE host.skip > 0
        <4>1. PendingInv
          BY <1>1, <2>1, <3>3 DEF Inv, ModeInv
        <4>2. host.skip < Cardinality(Due(host.from))
          BY <3>3, <4>1 DEF PendingInv
        <4>3. Due(host.from) \in SUBSET Members
          BY <2>1, OwingTyped
        <4>4. /\ Cardinality(Due(host.from)) <= Cardinality(Members)
              /\ Cardinality(Due(host.from)) \in Nat
          BY <3>1, <4>3, FS_Subset, FS_CardinalityType
        <4>5. host.skip \in Nat
          BY <2>1, OwingTyped
        <4> QED BY <3>1, <4>2, <4>4, <4>5
      <3>4. host.skip \in Nat
        BY <2>1, OwingTyped
      <3> QED BY <3>2, <3>3, <3>4
    <2> QED BY <2>1, <2>2, <2>3 DEF TypeOK, TypeInv
  <1> QED BY <1>1, AlwaysInv, PTL

\* No member is searched from before where its last search ended: its gate, or
\* the drive's position, is past it (set_split.go, "each byte is walked a
\* bounded number of times").
THEOREM GroundCoveredOnce == ASSUME StaysRefused PROVE Spec => NoGroundTwice
  <1> DEFINE Forward == \A k \in Split :
                 k \in call'.asked \ call.asked => call.bound[k] >= reached[k]
  <1>1. ASSUME Inv, [Next]_vars PROVE [Forward]_vars
    <2>1. CASE UNCHANGED vars
      BY <2>1
    <2>2. CASE Find \/ AskWorker
      <3>1. call'.asked = {}
        BY <2>2 DEF Find, AskWorker, StartMerge, NoCall
      <3> QED BY <3>1
    <2>3. CASE FindPastEnd \/ FindBatch \/ BatchFull \/ BatchPastEnd
      <3>1. call' = call
        BY <2>3 DEF FindPastEnd, FindBatch, BatchFull, BatchPastEnd
      <3> QED BY <3>1
    <2>4. CASE FindEnds \/ FindOverflows \/ FindReports \/ BatchEnds \/ BatchSplits
                   \/ BatchReports
      <3>1. call' = NoCall
        BY <2>4 DEF FindEnds, FindOverflows, FindReports, BatchEnds, BatchSplits,
                    BatchReports, Answered
      <3> QED BY <3>1, NoCallTyped
    <2>5. CASE AskKept
      <3>1. call'.asked = call.asked \union {KeptBody}
        BY <1>1, <2>5, AskedKeptCall
      <3> QED BY <3>1, ServedMembers
    <2>6. CASE MergeReturns
      <3>1. call'.asked = {}
        BY <2>6 DEF MergeReturns, NoCall
      <3> QED BY <3>1
    <2>7. ASSUME NEW k \in Split, AskMember(k) PROVE Forward
      <3>1. call'.asked = call.asked \union {k} /\ call.bound[k] = Bound(k)
        BY <1>1, <2>7, AskedMember
      <3>2. TypeInv /\ gate[k] >= 2 * reached[k]
        BY <1>1 DEF Inv, ReachInv
      <3>3. k \in Candidates /\ k \in Members
        BY ServedMembers
      <3>4. Bound(k) >= gate[k] \div 2 /\ Bound(k) \in Nat /\ gate[k] \in Nat
        BY <3>2, <3>3, BoundIs, GateTyped
      <3>5. reached[k] \in Int
        BY <3>2, TextAssumption DEF TypeInv, NoMatch
      <3>6. Bound(k) >= reached[k]
        BY <3>2, <3>4, <3>5
      <3> QED BY <3>1, <3>6
    <2>8. ASSUME NEW k \in Split, MemberGivesUp(k) PROVE Forward
      <3>1. call' = NoCall
        BY <2>8 DEF MemberGivesUp, GivesUp
      <3> QED BY <3>1, NoCallTyped
    <2>9. CASE KeptGivesUp
      <3>1. call' = NoCall
        BY <2>9 DEF KeptGivesUp, GivesUp
      <3> QED BY <3>1, NoCallTyped
    <2> QED BY <1>1, <2>1, <2>2, <2>3, <2>4, <2>5, <2>6, <2>7, <2>8, <2>9 DEF Next
  <1> QED BY <1>1, AlwaysInv, PTL DEF Spec, NoGroundTwice
-----------------------------------------------------------------------------
(* The merge implements the drive a set promises. *)

LEMMA FirstOfRest ==
    ASSUME NEW list \in Seq(Matches), NEW m \in Nat, NEW n \in Nat, m < n, n <= Len(list),
           NEW rest, rest = SubSeq(list, m + 1, Len(list))
    PROVE  /\ SubSeq(rest, 1, n - m) = SubSeq(list, m + 1, n)
           /\ n - m \in 1..Len(rest)
           /\ n = Len(list) => n - m = Len(rest)
  <1>1. Len(list) \in Nat
    OBVIOUS
  <1>2. Len(rest) = Len(list) - m
    BY <1>1
  <1>3. SubSeq(rest, 1, n - m) = SubSeq(list, m + 1, n)
    BY <1>1
  <1> QED BY <1>1, <1>2, <1>3

\* What is given of an answer is given of what is owed.
LEMMA GivesOwed ==
    ASSUME Inv, pc = "answered", reply # << >>, UNCHANGED <<fixed, status>>,
           NEW n \in Nat, host.skip < n, n <= Len(reply), shape.batch \/ n = Len(reply),
           out' \o buf' = (out \o buf) \o SubSeq(reply, host.skip + 1, n)
    PROVE  Given!Give
  <1>1. /\ TypeInv /\ PendingInv /\ status = "driving" /\ reply = Whole
        /\ reply \in Seq(Matches) /\ Len(reply) \in Nat /\ host.skip \in Nat
    BY AnsweredIs
  <1>2. Given!Owed = SubSeq(reply, host.skip + 1, Len(reply))
    BY <1>1, OwedIsLeft
  <1> DEFINE m == host.skip
             owed == Given!Owed
             list == reply
  <1>3. owed = SubSeq(list, m + 1, Len(list))
    BY <1>2
  <1>4. list \in Seq(Matches) /\ m \in Nat /\ m < n /\ n <= Len(list)
    BY <1>1
  <1> HIDE DEF m, owed, list
  <1>5. /\ SubSeq(owed, 1, n - m) = SubSeq(list, m + 1, n)
        /\ n - m \in 1..Len(owed)
        /\ n = Len(list) => n - m = Len(owed)
    BY <1>3, <1>4, FirstOfRest
  <1>6. PICK l \in 1..Len(owed) : /\ SubSeq(owed, 1, l) = SubSeq(list, m + 1, n)
                                  /\ shape.batch \/ l = Len(owed)
    BY <1>5 DEF list
  <1>7. out' \o buf' = (out \o buf) \o SubSeq(owed, 1, l)
    BY <1>6 DEF list, m
  <1>8. UNCHANGED <<ends, shape, origin, status>>
    BY DEF fixed
  <1> QED BY <1>1, <1>6, <1>7, <1>8 DEF Given!Give, owed

LEMMA EndsOwed ==
    ASSUME TypeInv, PendingInv, AllOwing(Members) = {}, status = "driving",
           status' = "done", Still
    PROVE  Given!End
  <1>1. Given!Owed = << >>
    BY OwedIsLeft
  <1> QED BY <1>1 DEF Given!End, Still, fixed

LEMMA NothingPastTheEnd ==
    ASSUME TypeInv, host.from > Length
    PROVE  AllOwing(Members) = {}
  <1>1. host.from \in Nat /\ Length \in Nat
    BY OwingTyped, TextAssumption
  <1>2. \A k \in Members : Owing(k) = {}
    BY <1>1 DEF Owing
  <1> QED BY <1>2 DEF AllOwing

LEMMA DrivesStep ==
    ASSUME Inv, [Next]_vars
    PROVE  [Given!Next]_(Given!vars)
  <1> DEFINE Quiet == Still /\ UNCHANGED status
  <1>1. Quiet => [Given!Next]_(Given!vars)
    BY DEF Still, fixed, Given!vars
  <1>2. TypeInv /\ ModeInv
    BY DEF Inv
  <1>3. CASE UNCHANGED vars
    BY <1>1, <1>3 DEF vars, Still, fixed
  <1>4. CASE Find \/ FindOverflows \/ FindBatch \/ AskWorker \/ AskKept \/ MergeReturns
    <2>1. UNCHANGED <<fixed, out, buf, status>> /\ host'.from = host.from
      <3>1. host \in [from : 0..(Length + 1), skip : Nat, cap : Nat]
        BY <1>2 DEF TypeInv
      <3> QED BY <1>4, <3>1 DEF Find, FindOverflows, FindBatch, AskWorker, AskKept, MergeReturns, fixed
    <2> QED BY <1>1, <2>1 DEF Still
  <1>5. CASE BatchFull
    <2>1. out' \o buf' = out \o buf /\ UNCHANGED <<fixed, host, status>>
      BY <1>2, <1>5, Handed DEF BatchFull, fixed
    <2> QED BY <1>1, <2>1 DEF Still
  <1>6. CASE FindPastEnd
    <2>1. /\ ~(shape.gated /\ refused # {}) /\ status = "driving" /\ status' = "done"
          /\ host.from > Length /\ Still
      BY <1>6, StuckIs DEF FindPastEnd, Still, fixed
    <2>2. Given!End
      BY <1>2, <2>1, NothingPastTheEnd, EndsOwed DEF Inv
    <2> QED BY <2>2 DEF Given!Next
  <1>7. CASE BatchPastEnd
    <2>1. /\ host.from > Length /\ status' = "done" /\ status = "driving" /\ Still
      BY <1>2, <1>7, Handed DEF BatchPastEnd, Still, fixed, ModeInv
    <2>2. ~(shape.gated /\ refused # {})
      <3> SUFFICES ASSUME shape.gated, refused # {} PROVE FALSE
        OBVIOUS
      <3>1. PICK k \in refused : Stuck(k) /\ k \in Candidates
        BY <2>1, StuckIs
      <3>2. Bound(k) <= Length /\ Bound(k) >= host.from /\ Bound(k) \in Nat
        BY <1>2, <3>1, BoundIs DEF Stuck
      <3> QED BY <1>2, <2>1, <3>2, OwingTyped, TextAssumption
    <2>3. Given!End
      BY <1>2, <2>1, <2>2, NothingPastTheEnd, EndsOwed DEF Inv
    <2> QED BY <2>3 DEF Given!Next
  <1>8. CASE FindEnds
    <2>1. reply = << >> /\ pc = "answered" /\ status' = "done" /\ Still
      BY <1>8 DEF FindEnds, Answered, Still, fixed
    <2>2. PendingInv /\ AllOwing(Members) = {} /\ status = "driving"
      BY <2>1, AnsweredIs
    <2>3. Given!End
      BY <1>2, <2>1, <2>2, EndsOwed
    <2> QED BY <2>3 DEF Given!Next
  <1>9. CASE BatchEnds
    <2>1. reply = << >> /\ pc = "answered" /\ status' = "done" /\ Still
      <3>1. reply = << >>
        BY <1>9, BatchEndsStep
      <3>2. out' \o buf' = out \o buf
        BY <1>2, <1>9, Handed DEF BatchEnds
      <3> QED BY <1>9, <3>1, <3>2 DEF BatchEnds, Answered, Still, fixed
    <2>2. PendingInv /\ AllOwing(Members) = {} /\ status = "driving"
      BY <2>1, AnsweredIs
    <2>3. Given!End
      BY <1>2, <2>1, <2>2, EndsOwed
    <2> QED BY <2>3 DEF Given!Next
  <1>10. CASE FindReports \/ BatchReports
    <2>1. /\ pc = "answered" /\ reply # << >> /\ UNCHANGED <<fixed, status>>
          /\ out' \o buf' = (out \o buf) \o SubSeq(reply, host.skip + 1, Len(reply))
      BY <1>10, FindReportsStep, BatchReportsStep DEF FindReports, BatchReports, Answered, fixed
    <2>2. Len(reply) \in Nat /\ host.skip < Len(reply)
      BY <2>1, AnsweredIs
    <2>3. Len(reply) <= Len(reply)
      BY <2>2
    <2>4. Given!Give
      BY <2>1, <2>2, <2>3, GivesOwed
    <2> QED BY <2>4 DEF Given!Next
  <1>11. CASE BatchSplits
    <2>1. /\ pc = "answered" /\ reply # << >> /\ UNCHANGED <<fixed, status>> /\ shape.batch
          /\ Len(reply) > host.cap
          /\ out' \o buf' = (out \o buf) \o SubSeq(reply, host.skip + 1, host.cap)
      BY <1>11, BatchSplitsStep DEF BatchSplits, Answered, fixed
    <2>2. Len(reply) \in Nat /\ host.skip < host.cap /\ host.cap \in Nat /\ host.skip \in Nat
      BY <2>1, AnsweredIs
    <2>3. host.cap <= Len(reply)
      BY <2>1, <2>2
    <2>4. Given!Give
      BY <2>1, <2>2, <2>3, GivesOwed
    <2> QED BY <2>4 DEF Given!Next
  <1>12. ASSUME NEW k \in Split, AskMember(k) PROVE [Given!Next]_(Given!vars)
    BY <1>1, <1>12 DEF AskMember, Still, fixed
  <1>13. ASSUME NEW k \in Split, MemberGivesUp(k) PROVE [Given!Next]_(Given!vars)
    <2>1. /\ out' \o buf' = out \o buf /\ UNCHANGED <<fixed, host>> /\ pc = "merge"
          /\ status' = "unknown" \/ status' = status
      BY <1>13, MemberGivesUpStep DEF MemberGivesUp, GivesUp, GaveUp, fixed, IsTurn
    <2>2. status = "driving"
      BY <2>1, Merging
    <2>3. CASE status' = "unknown"
      <3>1. Given!GiveUp
        BY <2>1, <2>2, <2>3 DEF Given!GiveUp, fixed
      <3> QED BY <3>1 DEF Given!Next
    <2>4. CASE status' = status
      BY <1>1, <2>1, <2>4 DEF Still
    <2> QED BY <2>1, <2>3, <2>4
  <1>14. CASE KeptGivesUp
    <2>1. /\ out' \o buf' = out \o buf /\ UNCHANGED <<fixed, host>> /\ pc = "merge"
          /\ status' = "unknown" \/ status' = status
      BY <1>14, KeptGivesUpStep DEF KeptGivesUp, GivesUp, GaveUp, fixed, IsTurn
    <2>2. status = "driving"
      BY <2>1, Merging
    <2>3. CASE status' = "unknown"
      <3>1. Given!GiveUp
        BY <2>1, <2>2, <2>3 DEF Given!GiveUp, fixed
      <3> QED BY <3>1 DEF Given!Next
    <2>4. CASE status' = status
      BY <1>1, <2>1, <2>4 DEF Still
    <2> QED BY <2>1, <2>3, <2>4
  <1> QED BY <1>3, <1>4, <1>5, <1>6, <1>7, <1>8, <1>9, <1>10, <1>11, <1>12, <1>13, <1>14 DEF Next

\* The caller gets every member's matches, position by position, whatever the
\* merge left unasked, wherever a batch stopped and however often a position
\* was asked for again: every step of the merge is a step of the drive a set
\* promises, or none.
THEOREM ImplementsDrive == ASSUME StaysRefused PROVE Spec => DrivesSet
  <1>1. Init => Given!Init
    <2>1. Init => out = << >> /\ buf = << >> /\ status = "driving"
      BY DEF Init
    <2>2. out = << >> /\ buf = << >> => out \o buf = << >>
      OBVIOUS
    <2> QED BY <2>1, <2>2 DEF Given!Init
  <1>2. Inv /\ [Next]_vars => [Given!Next]_(Given!vars)
    BY DrivesStep
  <1> QED BY <1>1, <1>2, AlwaysInv, PTL DEF Spec, DrivesSet, Given!Spec

=============================================================================
