------------------------ MODULE FindAutomatonProofs ------------------------
(***************************************************************************)
(* What FindAutomaton defines by recursion, and what the compiler derives    *)
(* from an automaton: that the recursions are defined, that iterating over a *)
(* finite set ends, and that a derived skip loses no match.                  *)
(*                                                                          *)
(* Induction is by the least natural number of a set, so that no fact about  *)
(* an operator has to be instantiated.                                       *)
(***************************************************************************)
EXTENDS FindAutomaton, NaturalsInduction, WellFoundedInduction, FiniteSetTheorems, TLAPS
-----------------------------------------------------------------------------
(* Induction over data. *)

\* The order of the naturals, as a relation.
LessThan == {ss \in Nat \X Nat : ss[1] < ss[2]}

\* A nonempty set of naturals has a least element.
LEMMA LeastNat ==
    ASSUME NEW T, T \subseteq Nat, T # {}
    PROVE  \E x \in T : \A y \in T : x <= y
<1>1. OpToRel(<, Nat) = LessThan
    BY DEF OpToRel, LessThan
<1>2. IsWellFoundedOn(LessThan, Nat)
    BY <1>1, NatLessThanWellFounded, Zenon
<1>3. PICK x \in T : \A y \in T : ~(<<y, x>> \in LessThan)
    BY <1>2, WFMin, Zenon
<1>4. ASSUME NEW y \in T PROVE x <= y
    <2>1. x \in Nat /\ y \in Nat /\ (y < x => <<y, x>> \in LessThan)
        BY DEF LessThan
    <2> QED BY <1>3, <2>1
<1> QED BY <1>4

\* What holds of 0, and of k + 1 where it holds of k, holds up to N.
LEMMA UpTo ==
    ASSUME NEW N \in Nat, NEW T, 0 \in T,
           \A k \in 0..N : k \in T /\ k < N => k + 1 \in T
    PROVE  \A k \in 0..N : k \in T
<1> SUFFICES ASSUME \E k \in 0..N : k \notin T PROVE FALSE
    OBVIOUS
<1> DEFINE Out == {k \in 0..N : k \notin T}
<1>0. Out \subseteq Nat /\ Out # {} /\ \A k : k \in Out <=> k \in 0..N /\ k \notin T
    OBVIOUS
<1> HIDE DEF Out
<1>1. PICK k \in Out : \A j \in Out : k <= j
    BY <1>0, LeastNat, Zenon
<1>2. k \in 0..N /\ k # 0 /\ k \notin T
    BY <1>0, <1>1
<1>3. k - 1 \in 0..N /\ ~(k <= k - 1) /\ k - 1 < N /\ k - 1 + 1 = k
    BY <1>2
<1>4. k - 1 \in T
    BY <1>0, <1>1, <1>3
<1> QED BY <1>2, <1>3, <1>4

\* What a function gives, applied again and again.
Iteration(S, x, G, N) ==
    {f \in [0..N -> S] : f[0] = x /\ \A k \in 1..N : f[k] = G[f[k - 1]]}

LEMMA Iterates ==
    ASSUME NEW S, NEW x \in S, NEW G \in [S -> S], NEW N \in Nat
    PROVE  Iteration(S, x, G, N) # {}
<1> DEFINE Good(m) == \E f \in [0..m -> S] : f[0] = x /\ \A k \in 1..m : f[k] = G[f[k - 1]]
           T == {m \in 0..N : Good(m)}
<1>1. 0 \in T
    <2> DEFINE f == [k \in 0..0 |-> x]
    <2>1. f \in [0..0 -> S] /\ f[0] = x /\ 1..0 = {}
        OBVIOUS
    <2> HIDE DEF f
    <2>2. Good(0)
        BY <2>1
    <2> QED BY <2>2
<1>2. ASSUME NEW m \in 0..N, m \in T, m < N PROVE m + 1 \in T
    <2>1. PICK f \in [0..m -> S] : f[0] = x /\ \A k \in 1..m : f[k] = G[f[k - 1]]
        BY <1>2
    <2> DEFINE g == [k \in 0..(m + 1) |-> IF k = m + 1 THEN G[f[m]] ELSE f[k]]
    <2>2. /\ m \in Nat /\ m \in 0..m /\ m + 1 \in 0..N /\ 0 \in 0..(m + 1) /\ 0 # m + 1
          /\ \A k \in 0..(m + 1) : k # m + 1 => k \in 0..m
          /\ \A k \in 1..(m + 1) : /\ k \in 0..(m + 1) /\ k - 1 \in 0..(m + 1) /\ k - 1 # m + 1
                                   /\ k # m + 1 => k \in 1..m
          /\ m + 1 - 1 = m
        BY <1>2
    <2>3. f[m] \in S /\ G[f[m]] \in S
        BY <2>1, <2>2
    <2>4. g \in [0..(m + 1) -> S]
        BY <2>1, <2>2, <2>3
    <2>5. g[0] = x
        BY <2>1, <2>2
    <2>6. \A k \in 1..(m + 1) : g[k] = G[g[k - 1]]
        BY <2>1, <2>2
    <2> HIDE DEF g
    <2>7. Good(m + 1)
        BY <2>4, <2>5, <2>6
    <2> QED BY <2>2, <2>7
<1> HIDE DEF Good
<1>3. \A m \in 0..N : m \in T
    BY <1>1, <1>2, UpTo
<1>4. Good(N)
    BY <1>3
<1> QED BY <1>4 DEF Good, Iteration

\* A growing chain of subsets of a finite set, as long as the set has elements
\* to add, has stopped growing.
Climbs(F, G, N) ==
    {f \in [0..N -> SUBSET F] : /\ \A k \in 1..N : f[k] = G[f[k - 1]]
                                /\ \A k \in 0..N : f[k] \subseteq G[f[k]]
                                /\ Cardinality(f[0]) + N >= Cardinality(F)}

LEMMA ChainStops ==
    ASSUME NEW F, IsFiniteSet(F), NEW G \in [SUBSET F -> SUBSET F], NEW N \in Nat,
           NEW f \in Climbs(F, G, N)
    PROVE  G[f[N]] = f[N]
<1>0. /\ f \in [0..N -> SUBSET F]
      /\ \A k \in 1..N : f[k] = G[f[k - 1]]
      /\ \A k \in 0..N : f[k] \subseteq G[f[k]]
      /\ Cardinality(f[0]) + N >= Cardinality(F)
    BY DEF Climbs
<1> SUFFICES ASSUME G[f[N]] # f[N] PROVE FALSE
    OBVIOUS
<1>1. \A k \in 0..N : f[k] \in SUBSET F /\ G[f[k]] \in SUBSET F
    BY <1>0
<1>2. \A k \in 0..N : G[f[k]] # f[k]
    <2> SUFFICES ASSUME NEW m \in 0..N, G[f[m]] = f[m] PROVE FALSE
        OBVIOUS
    <2> DEFINE T == {j \in 0..(N - m) : f[m + j] = f[m]}
    <2>1. N - m \in Nat /\ m + (N - m) = N /\ m + 0 = m /\ 0 \in 0..(N - m) /\ N - m \in 0..(N - m)
        OBVIOUS
    <2>2. 0 \in T
        BY <2>1
    <2>3. ASSUME NEW j \in 0..(N - m), j \in T, j < N - m PROVE j + 1 \in T
        <3>1. m + j + 1 \in 1..N /\ m + j + 1 - 1 = m + j /\ m + (j + 1) = m + j + 1
              /\ j + 1 \in 0..(N - m)
            BY <2>1, <2>3
        <3>2. f[m + j + 1] = G[f[m + j]]
            BY <1>0, <3>1
        <3>3. f[m + j] = f[m]
            BY <2>3
        <3> QED BY <3>1, <3>2, <3>3
    <2> HIDE DEF T
    <2>4. N - m \in T
        BY <2>1, <2>2, <2>3, UpTo
    <2> QED BY <2>1, <2>4 DEF T
<1> DEFINE C == {k \in 0..N : Cardinality(f[k]) >= Cardinality(f[0]) + k}
<1>3. \A k \in 0..N : IsFiniteSet(f[k]) /\ Cardinality(f[k]) \in Nat
    BY <1>1, FS_Subset, FS_CardinalityType
<1>4. 0 \in C
    BY <1>3
<1>5. ASSUME NEW k \in 0..N, k \in C, k < N PROVE k + 1 \in C
    <2>1. k + 1 \in 1..N /\ k + 1 \in 0..N /\ k + 1 - 1 = k /\ 0 \in 0..N
        BY <1>5
    <2>2. f[k + 1] = G[f[k]]
        BY <1>0, <2>1
    <2>3. f[k] \subseteq f[k + 1] /\ f[k] # f[k + 1]
        BY <1>0, <1>2, <2>2
    <2>4. f[k] \in SUBSET f[k + 1] /\ IsFiniteSet(f[k + 1])
        BY <1>3, <2>1, <2>3
    <2>5. Cardinality(f[k]) <= Cardinality(f[k + 1]) /\ Cardinality(f[k]) # Cardinality(f[k + 1])
        BY <2>3, <2>4, FS_Subset
    <2>6. Cardinality(f[k]) \in Nat /\ Cardinality(f[k + 1]) \in Nat /\ Cardinality(f[0]) \in Nat
        BY <1>3, <2>1
    <2>7. Cardinality(f[k]) >= Cardinality(f[0]) + k
        BY <1>5
    <2> QED BY <2>1, <2>5, <2>6, <2>7
<1> HIDE DEF C
<1>6. N \in C
    <2>1. \A k \in 0..N : k \in C
        BY <1>4, <1>5, UpTo
    <2>2. N \in 0..N
        OBVIOUS
    <2> QED BY <2>1, <2>2
<1>7. Cardinality(f[N]) >= Cardinality(F)
    <2>1. N \in 0..N /\ 0 \in 0..N
        OBVIOUS
    <2>2. Cardinality(f[N]) \in Nat /\ Cardinality(f[0]) \in Nat /\ Cardinality(F) \in Nat
        BY <1>3, <2>1, FS_CardinalityType
    <2> QED BY <1>0, <1>6, <2>2 DEF C
<1>8. f[N] = F
    <2>1. f[N] \in SUBSET F
        BY <1>1
    <2>2. Cardinality(f[N]) <= Cardinality(F) /\ (Cardinality(F) = Cardinality(f[N]) => F = f[N])
        BY <2>1, FS_Subset
    <2>3. Cardinality(f[N]) \in Nat /\ Cardinality(F) \in Nat
        BY <1>3, FS_CardinalityType
    <2> QED BY <1>7, <2>2, <2>3
<1>9. f[N] \subseteq G[f[N]] /\ G[f[N]] \subseteq F
    <2>1. N \in 0..N
        OBVIOUS
    <2> QED BY <1>0, <1>1, <2>1
<1> QED BY <1>8, <1>9

\* A function on 0..N defined by recursion from the value before.
Recursive(S, x, G, N) ==
    {f \in [0..N -> S] : f = [k \in 0..N |-> IF k = 0 THEN x ELSE G[f[k - 1]]]}

LEMMA Recursion ==
    ASSUME NEW S, NEW x \in S, NEW G \in [S -> S], NEW N \in Nat
    PROVE  Recursive(S, x, G, N) # {}
<1>0. PICK f : f \in Iteration(S, x, G, N)
    BY Iterates
<1>1. f \in [0..N -> S] /\ f[0] = x /\ \A i \in 1..N : f[i] = G[f[i - 1]]
    BY <1>0 DEF Iteration
<1>2. \A k \in 0..N : f[k] = IF k = 0 THEN x ELSE G[f[k - 1]]
    <2> TAKE k \in 0..N
    <2>1. k # 0 => k \in 1..N
        OBVIOUS
    <2> QED BY <1>1, <2>1
<1>3. f = [k \in 0..N |-> f[k]]
    BY <1>1
<1>4. [k \in 0..N |-> f[k]] = [k \in 0..N |-> IF k = 0 THEN x ELSE G[f[k - 1]]]
    BY <1>2
<1> QED BY <1>1, <1>3, <1>4 DEF Recursive

\* Such a function keeps to a set that its values lead back into.
LEMMA RecursionStays ==
    ASSUME NEW S, NEW N \in Nat, NEW f, f[0] \in S,
           \A k \in 1..N : f[k - 1] \in S => f[k] \in S
    PROVE  \A k \in 0..N : f[k] \in S
<1> DEFINE T == {k \in 0..N : f[k] \in S}
<1>1. 0 \in T
    OBVIOUS
<1>2. ASSUME NEW k \in 0..N, k \in T, k < N PROVE k + 1 \in T
    <2>1. k + 1 \in 1..N /\ k + 1 \in 0..N /\ k + 1 - 1 = k
        BY <1>2
    <2> QED BY <1>2, <2>1
<1> HIDE DEF T
<1>3. \A k \in 0..N : k \in T
    BY <1>1, <1>2, UpTo
<1> QED BY <1>3 DEF T
-----------------------------------------------------------------------------
(* The match of a walk, read directly. *)

\* Where a walk may stand, with its last accept; and the step of WalkEnd.
Spots(t) == (0..LenOf(t)) \X All \X (-1..LenOf(t))

WalkOn(d, t, f, x) ==
    LET p == x[1]
        q == x[2]
        last == x[3]
        c == ByteAt(t, p)
        here == IF c \in d.pre[q] THEN p ELSE last
        r == d.delta[q][c]
    IN  IF p = LenOf(t) THEN IF q \in d.eof THEN LenOf(t) ELSE last
        ELSE IF r = Dead \/ c \in d.pre[q] \cap d.dom[q] THEN here
        ELSE IF r \in d.imm THEN p + 1
        ELSE f[<<p + 1, r, IF r \in d.acc THEN p + 1 ELSE here>>]

\* A text's length is a number and its bytes are bytes.
Readable(t) == LenOf(t) \in Nat /\ \A p \in Nat : p < LenOf(t) => ByteAt(t, p) \in Bytes

\* What the step does at the end of the text, and before it.
LEMMA WalkOnLast ==
    ASSUME NEW d, NEW t, NEW f, NEW q, NEW last
    PROVE  WalkOn(d, t, f, <<LenOf(t), q, last>>) = IF q \in d.eof THEN LenOf(t) ELSE last
BY DEF WalkOn

LEMMA WalkOnIs ==
    ASSUME NEW d, NEW t, NEW f, NEW p, NEW q, NEW last, p # LenOf(t)
    PROVE  LET c == ByteAt(t, p)
               here == IF c \in d.pre[q] THEN p ELSE last
               r == d.delta[q][c]
           IN  WalkOn(d, t, f, <<p, q, last>>) =
                   IF r = Dead \/ c \in d.pre[q] \cap d.dom[q] THEN here
                   ELSE IF r \in d.imm THEN p + 1
                   ELSE f[<<p + 1, r, IF r \in d.acc THEN p + 1 ELSE here>>]
BY DEF WalkOn

\* Where the step goes on, it goes on at a spot.
LEMMA NextSpot ==
    ASSUME NEW d \in Automaton, NEW t, Readable(t), NEW p \in 0..LenOf(t), NEW q \in All,
           NEW last \in -1..LenOf(t), p # LenOf(t)
    PROVE  LET c == ByteAt(t, p)
               here == IF c \in d.pre[q] THEN p ELSE last
               r == d.delta[q][c]
               next == <<p + 1, r, IF r \in d.acc THEN p + 1 ELSE here>>
           IN  /\ next \in Spots(t) /\ next[1] = p + 1
               /\ here \in -1..LenOf(t) /\ p + 1 \in 0..LenOf(t) /\ p + 1 \in -1..LenOf(t)
               /\ c \in Bytes /\ r \in All
<1> DEFINE N == LenOf(t)
           c == ByteAt(t, p)
           here == IF c \in d.pre[q] THEN p ELSE last
           r == d.delta[q][c]
           last2 == IF r \in d.acc THEN p + 1 ELSE here
<1>1. N \in Nat /\ p \in Nat /\ p < N
    BY DEF Readable
<1>2. c \in Bytes
    BY <1>1 DEF Readable
<1>3. r \in All
    BY <1>2 DEF Automaton
<1> HIDE DEF c, r
<1>4. here \in -1..N /\ p + 1 \in 0..N /\ p + 1 \in -1..N
    BY <1>1
<1> HIDE DEF here
<1>5. last2 \in -1..N
    BY <1>4
<1> HIDE DEF last2, N
<1>6. <<p + 1, r, last2>> \in Spots(t) /\ <<p + 1, r, last2>>[1] = p + 1
    BY <1>3, <1>4, <1>5 DEF Spots, N
<1> QED BY <1>2, <1>3, <1>4, <1>6 DEF N, c, here, r, last2

\* The step asks f only about the next position.
LEMMA WalkOnTyped ==
    ASSUME NEW d \in Automaton, NEW t, Readable(t), NEW f, NEW x \in Spots(t),
           \A y \in Spots(t) : y[1] = x[1] + 1 => f[y] \in -1..LenOf(t)
    PROVE  WalkOn(d, t, f, x) \in -1..LenOf(t)
<1> DEFINE N == LenOf(t)
<1>0. PICK p \in 0..N, q \in All, last \in -1..N : x = <<p, q, last>>
    BY DEF Spots
<1>1. x[1] = p /\ N \in Nat /\ N \in -1..N
    BY <1>0 DEF Readable
<1>2. CASE p = N
    <2>1. WalkOn(d, t, f, <<p, q, last>>) = IF q \in d.eof THEN N ELSE last
        BY <1>2, WalkOnLast
    <2> QED BY <2>1, <1>0, <1>1
<1>3. CASE p # N
    <2> DEFINE c == ByteAt(t, p)
               here == IF c \in d.pre[q] THEN p ELSE last
               r == d.delta[q][c]
               next == <<p + 1, r, IF r \in d.acc THEN p + 1 ELSE here>>
    <2>1. next \in Spots(t) /\ next[1] = p + 1 /\ here \in -1..N /\ p + 1 \in -1..N
        BY <1>3, NextSpot
    <2>2. WalkOn(d, t, f, <<p, q, last>>) =
                        IF r = Dead \/ c \in d.pre[q] \cap d.dom[q] THEN here
                        ELSE IF r \in d.imm THEN p + 1
                        ELSE f[next]
        BY <1>3 DEF WalkOn
    <2> HIDE DEF c, here, r, next
    <2>3. f[next] \in -1..N
        BY <2>1, <1>1
    <2> QED BY <2>1, <2>2, <2>3, <1>0
<1> QED BY <1>2, <1>3

LEMMA WalkOnAgrees ==
    ASSUME NEW d \in Automaton, NEW t, Readable(t), NEW f, NEW g, NEW x \in Spots(t),
           \A y \in Spots(t) : y[1] = x[1] + 1 => f[y] = g[y]
    PROVE  WalkOn(d, t, f, x) = WalkOn(d, t, g, x)
<1> DEFINE N == LenOf(t)
<1>0. PICK p \in 0..N, q \in All, last \in -1..N : x = <<p, q, last>>
    BY DEF Spots
<1>1. x[1] = p
    BY <1>0
<1>2. CASE p = N
    <2>1. /\ WalkOn(d, t, f, <<p, q, last>>) = IF q \in d.eof THEN N ELSE last
          /\ WalkOn(d, t, g, <<p, q, last>>) = IF q \in d.eof THEN N ELSE last
        BY <1>2, WalkOnLast
    <2> QED BY <2>1, <1>0
<1>3. CASE p # N
    <2> DEFINE c == ByteAt(t, p)
               here == IF c \in d.pre[q] THEN p ELSE last
               r == d.delta[q][c]
               next == <<p + 1, r, IF r \in d.acc THEN p + 1 ELSE here>>
    <2>1. next \in Spots(t) /\ next[1] = p + 1
        BY <1>3, NextSpot
    <2>2. /\ WalkOn(d, t, f, <<p, q, last>>) =
                        IF r = Dead \/ c \in d.pre[q] \cap d.dom[q] THEN here
                        ELSE IF r \in d.imm THEN p + 1
                        ELSE f[next]
          /\ WalkOn(d, t, g, <<p, q, last>>) =
                        IF r = Dead \/ c \in d.pre[q] \cap d.dom[q] THEN here
                        ELSE IF r \in d.imm THEN p + 1
                        ELSE g[next]
        BY <1>3 DEF WalkOn
    <2> HIDE DEF c, here, r, next
    <2>3. f[next] = g[next]
        BY <2>1, <1>1
    <2> QED BY <2>2, <2>3, <1>0
<1> QED BY <1>2, <1>3

\* The recursion of WalkEnd has a value: the step asks only about the next
\* position, so it is built from the end of the text backwards.
LEMMA WalkBuilt ==
    ASSUME NEW d \in Automaton, NEW t, Readable(t)
    PROVE  \E f : f = [x \in Spots(t) |-> WalkOn(d, t, f, x)]
<1> DEFINE N == LenOf(t)
           R == [Spots(t) -> -1..N]
           Good(k) == \E f \in R : \A x \in Spots(t) : x[1] >= N - k => f[x] = WalkOn(d, t, f, x)
           T == {k \in 0..N : Good(k)}
<1>0. /\ N \in Nat /\ -1 \in -1..N
      /\ \A x \in Spots(t) : x[1] \in Nat /\ x[1] <= N
    BY DEF Readable, Spots
<1>1. 0 \in T
    <2> DEFINE f0 == [x \in Spots(t) |-> -1]
               f == [x \in Spots(t) |-> IF x[1] = N THEN WalkOn(d, t, f0, x) ELSE -1]
    <2>1. f0 \in R
        BY <1>0
    <2>2. \A x \in Spots(t) : WalkOn(d, t, f0, x) \in -1..N
        <3> TAKE x \in Spots(t)
        <3>1. \A y \in Spots(t) : f0[y] \in -1..N
            BY <2>1
        <3> HIDE DEF f0
        <3> QED BY <3>1, WalkOnTyped
    <2>3. f \in R
        BY <1>0, <2>2
    <2>4. ASSUME NEW x \in Spots(t), x[1] >= N - 0 PROVE f[x] = WalkOn(d, t, f, x)
        <3>1. x[1] = N
            BY <1>0, <2>4
        <3>2. f[x] = WalkOn(d, t, f0, x)
            BY <3>1
        <3>3. \A y \in Spots(t) : y[1] = x[1] + 1 => f0[y] = f[y]
            BY <1>0, <3>1
        <3> HIDE DEF f, f0
        <3>4. WalkOn(d, t, f0, x) = WalkOn(d, t, f, x)
            BY <3>3, WalkOnAgrees
        <3> QED BY <3>2, <3>4
    <2> HIDE DEF f, R
    <2>5. Good(0)
        BY <2>3, <2>4
    <2>6. 0 \in 0..N
        BY <1>0
    <2> QED BY <2>5, <2>6
<1>2. ASSUME NEW k \in 0..N, k \in T, k < N PROVE k + 1 \in T
    <2>1. PICK f \in R : \A x \in Spots(t) : x[1] >= N - k => f[x] = WalkOn(d, t, f, x)
        BY <1>2
    <2> DEFINE g == [x \in Spots(t) |-> IF x[1] = N - k - 1 THEN WalkOn(d, t, f, x) ELSE f[x]]
    <2>2. \A x \in Spots(t) : f[x] \in -1..N
        BY <2>1
    <2>3. \A x \in Spots(t) : WalkOn(d, t, f, x) \in -1..N
        BY <2>2, WalkOnTyped
    <2>4. g \in R
        BY <2>2, <2>3
    <2>5. ASSUME NEW x \in Spots(t), x[1] >= N - (k + 1) PROVE g[x] = WalkOn(d, t, g, x)
        <3>1. x[1] = N - k - 1 \/ (x[1] # N - k - 1 /\ x[1] >= N - k)
            BY <1>0, <1>2, <2>5
        <3>2. g[x] = WalkOn(d, t, f, x)
            BY <2>1, <3>1
        <3>3. \A y \in Spots(t) : y[1] = x[1] + 1 => f[y] = g[y]
            BY <1>0, <1>2, <2>5
        <3> HIDE DEF g
        <3>4. WalkOn(d, t, f, x) = WalkOn(d, t, g, x)
            BY <3>3, WalkOnAgrees
        <3> QED BY <3>2, <3>4
    <2> HIDE DEF g, R
    <2>6. Good(k + 1)
        BY <2>4, <2>5
    <2>7. k + 1 \in 0..N
        BY <1>0, <1>2
    <2> QED BY <2>6, <2>7
<1> HIDE DEF Good
<1>3. \A k \in 0..N : k \in T
    BY <1>0, <1>1, <1>2, UpTo
<1>4. Good(N)
    BY <1>0, <1>3
<1>5. PICK f \in R : \A x \in Spots(t) : x[1] >= N - N => f[x] = WalkOn(d, t, f, x)
    BY <1>4 DEF Good
<1>6. \A x \in Spots(t) : f[x] = WalkOn(d, t, f, x)
    BY <1>0, <1>5
<1>7. f = [x \in Spots(t) |-> f[x]]
    BY <1>5
<1>8. [x \in Spots(t) |-> f[x]] = [x \in Spots(t) |-> WalkOn(d, t, f, x)]
    BY <1>6
<1> QED BY <1>7, <1>8

\* So WalkEnd is what its step says, and ends within the text.
LEMMA WalkDefined ==
    ASSUME NEW d \in Automaton, NEW t, Readable(t)
    PROVE  \A x \in Spots(t) : /\ WalkEnd(d, t)[x] = WalkOn(d, t, WalkEnd(d, t), x)
                               /\ WalkEnd(d, t)[x] \in -1..LenOf(t)
<1> DEFINE N == LenOf(t)
           E == WalkEnd(d, t)
<1>1. E = CHOOSE f : f = [x \in Spots(t) |-> WalkOn(d, t, f, x)]
    BY DEF WalkEnd, WalkOn, Spots
<1>2. E = [x \in Spots(t) |-> WalkOn(d, t, E, x)]
    <2> HIDE DEF E
    <2> QED BY <1>1, WalkBuilt
<1> HIDE DEF E
<1>3. \A x \in Spots(t) : E[x] = WalkOn(d, t, E, x)
    BY <1>2
<1> DEFINE T == {k \in 0..N : \A x \in Spots(t) : x[1] >= N - k => E[x] \in -1..N}
<1>0. N \in Nat /\ \A x \in Spots(t) : x[1] \in Nat /\ x[1] <= N
    BY DEF Readable, Spots
<1>4. 0 \in T
    <2>1. ASSUME NEW x \in Spots(t), x[1] >= N - 0 PROVE E[x] \in -1..N
        <3>1. \A y \in Spots(t) : y[1] # x[1] + 1
            BY <1>0, <2>1
        <3>2. WalkOn(d, t, E, x) \in -1..N
            BY <3>1, WalkOnTyped
        <3> QED BY <1>3, <3>2
    <2> QED BY <1>0, <2>1
<1>5. ASSUME NEW k \in 0..N, k \in T, k < N PROVE k + 1 \in T
    <2>1. ASSUME NEW x \in Spots(t), x[1] >= N - (k + 1) PROVE E[x] \in -1..N
        <3>1. \A y \in Spots(t) : y[1] = x[1] + 1 => y[1] >= N - k
            BY <1>0, <1>5, <2>1
        <3>2. \A y \in Spots(t) : y[1] = x[1] + 1 => E[y] \in -1..N
            BY <1>5, <3>1
        <3>3. WalkOn(d, t, E, x) \in -1..N
            BY <3>2, WalkOnTyped
        <3> QED BY <1>3, <3>3
    <2>2. k + 1 \in 0..N
        BY <1>0, <1>5
    <2> QED BY <2>1, <2>2
<1> HIDE DEF T
<1>6. N \in T
    <2>1. \A k \in 0..N : k \in T
        BY <1>0, <1>4, <1>5, UpTo
    <2> QED BY <1>0, <2>1
<1>7. \A x \in Spots(t) : E[x] \in -1..N
    BY <1>0, <1>6 DEF T
<1> QED BY <1>3, <1>7 DEF E

\* The end of a walk at the text's end, and before it.
LEMMA EndsLast ==
    ASSUME NEW d \in Automaton, NEW t, Readable(t), NEW q \in All, NEW last \in -1..LenOf(t)
    PROVE  WalkEnd(d, t)[<<LenOf(t), q, last>>] = IF q \in d.eof THEN LenOf(t) ELSE last
<1>1. <<LenOf(t), q, last>> \in Spots(t)
    BY DEF Spots, Readable
<1>2. WalkEnd(d, t)[<<LenOf(t), q, last>>] = WalkOn(d, t, WalkEnd(d, t), <<LenOf(t), q, last>>)
    BY <1>1, WalkDefined
<1> QED BY <1>2, WalkOnLast

LEMMA EndsOn ==
    ASSUME NEW d \in Automaton, NEW t, Readable(t), NEW p \in 0..LenOf(t), NEW q \in All,
           NEW last \in -1..LenOf(t), p # LenOf(t)
    PROVE  LET c == ByteAt(t, p)
               here == IF c \in d.pre[q] THEN p ELSE last
               r == d.delta[q][c]
           IN  WalkEnd(d, t)[<<p, q, last>>] =
                   IF r = Dead \/ c \in d.pre[q] \cap d.dom[q] THEN here
                   ELSE IF r \in d.imm THEN p + 1
                   ELSE WalkEnd(d, t)[<<p + 1, r, IF r \in d.acc THEN p + 1 ELSE here>>]
<1>1. <<p, q, last>> \in Spots(t)
    BY DEF Spots
<1>2. WalkEnd(d, t)[<<p, q, last>>] = WalkOn(d, t, WalkEnd(d, t), <<p, q, last>>)
    BY <1>1, WalkDefined
<1> DEFINE E == WalkEnd(d, t)
<1>3. E[<<p, q, last>>] = WalkOn(d, t, E, <<p, q, last>>)
    BY <1>2
<1> HIDE DEF E
<1> SUFFICES
        LET c == ByteAt(t, p)
            here == IF c \in d.pre[q] THEN p ELSE last
            r == d.delta[q][c]
        IN  E[<<p, q, last>>] =
                IF r = Dead \/ c \in d.pre[q] \cap d.dom[q] THEN here
                ELSE IF r \in d.imm THEN p + 1
                ELSE E[<<p + 1, r, IF r \in d.acc THEN p + 1 ELSE here>>]
    BY DEF E
<1> QED BY <1>3 DEF WalkOn

\* Two of its cases: a walk that dies, and one that goes on unaccepting.
LEMMA EndsDead ==
    ASSUME NEW d \in Automaton, NEW t, Readable(t), NEW p \in 0..LenOf(t), NEW q \in All,
           NEW last \in -1..LenOf(t), p # LenOf(t),
           d.delta[q][ByteAt(t, p)] = Dead, ByteAt(t, p) \notin d.pre[q]
    PROVE  WalkEnd(d, t)[<<p, q, last>>] = last
<1> DEFINE E == WalkEnd(d, t)
<1>1. <<p, q, last>> \in Spots(t)
    BY DEF Spots
<1>2. E[<<p, q, last>>] = WalkOn(d, t, E, <<p, q, last>>)
    BY <1>1, WalkDefined
<1> HIDE DEF E
<1>3. WalkOn(d, t, E, <<p, q, last>>) = last
    BY DEF WalkOn
<1> QED BY <1>2, <1>3 DEF E

LEMMA EndsNext ==
    ASSUME NEW d \in Automaton, d.imm \subseteq d.acc, NEW t, Readable(t),
           NEW p \in 0..LenOf(t), NEW q \in All,
           NEW last \in -1..LenOf(t), p # LenOf(t), ByteAt(t, p) \notin d.pre[q],
           NEW r, r = d.delta[q][ByteAt(t, p)], r # Dead, r \notin d.acc
    PROVE  WalkEnd(d, t)[<<p, q, last>>] = WalkEnd(d, t)[<<p + 1, r, last>>]
<1> DEFINE E == WalkEnd(d, t)
<1>1. <<p, q, last>> \in Spots(t)
    BY DEF Spots
<1>2. E[<<p, q, last>>] = WalkOn(d, t, E, <<p, q, last>>)
    BY <1>1, WalkDefined
<1> HIDE DEF E
<1>3. WalkOn(d, t, E, <<p, q, last>>) = E[<<p + 1, r, last>>]
    BY DEF WalkOn
<1> QED BY <1>2, <1>3 DEF E

\* Points none of which accepts, and which a walk leaves only by dying.
Fruitless(d, t, S) ==
    \A pt \in S :
        /\ pt[1] \notin d.acc
        /\ pt[2] = LenOf(t) => pt[1] \notin d.eof
        /\ pt[2] < LenOf(t) => ByteAt(t, pt[2]) \notin d.pre[pt[1]]
        /\ pt[2] < LenOf(t) =>
              LET r == d.delta[pt[1]][ByteAt(t, pt[2])]
              IN  r = Dead \/ <<r, pt[2] + 1>> \in S

\* A walk at such a point ends with the accept it brought there.
LEMMA FruitlessEnds ==
    ASSUME NEW d \in Automaton, d.imm \subseteq d.acc, NEW t, Readable(t),
           NEW S, Fruitless(d, t, S),
           NEW p \in 0..LenOf(t), NEW q \in All, NEW last \in -1..LenOf(t), <<q, p>> \in S
    PROVE  WalkEnd(d, t)[<<p, q, last>>] = last
<1> DEFINE N == LenOf(t)
           E == WalkEnd(d, t)
           T == {k \in 0..N : \A u \in 0..N, s \in All, l \in -1..N :
                                 u >= N - k /\ <<s, u>> \in S => E[<<u, s, l>>] = l}
<1>0. N \in Nat
    BY DEF Readable
<1>1. ASSUME NEW s \in All, NEW l \in -1..N, <<s, N>> \in S PROVE E[<<N, s, l>>] = l
    <2>1. s \notin d.eof
        BY <1>1 DEF Fruitless
    <2> QED BY <2>1, EndsLast
<1>2. 0 \in T
    <2>1. \A u \in 0..N : u >= N - 0 => u = N
        BY <1>0
    <2> HIDE DEF E
    <2> QED BY <1>0, <1>1, <2>1
<1>3. ASSUME NEW k \in 0..N, k \in T, k < N PROVE k + 1 \in T
    <2>1. ASSUME NEW u \in 0..N, NEW s \in All, NEW l \in -1..N, u >= N - (k + 1), <<s, u>> \in S
          PROVE  E[<<u, s, l>>] = l
        <3>1. CASE u = N
            BY <1>1, <2>1, <3>1
        <3>2. CASE u # N
            <4> DEFINE c == ByteAt(t, u)
                       r == d.delta[s][c]
            <4>1. u < N /\ u + 1 \in 0..N /\ u + 1 >= N - k
                BY <1>0, <1>3, <2>1, <3>2
            <4>2. c \in Bytes /\ r \in All
                BY <3>2, NextSpot
            <4>3. c \notin d.pre[s] /\ (r = Dead \/ <<r, u + 1>> \in S)
                <5>1. <<s, u>>[1] = s /\ <<s, u>>[2] = u
                    OBVIOUS
                <5> QED BY <2>1, <4>1, <5>1 DEF Fruitless
            <4>4. E[<<u, s, l>>] =
                   IF r = Dead \/ c \in d.pre[s] \cap d.dom[s] THEN l
                   ELSE IF r \in d.imm THEN u + 1
                   ELSE E[<<u + 1, r, IF r \in d.acc THEN u + 1 ELSE l>>]
                BY <3>2, <4>3, EndsOn
            <4> HIDE DEF c, r, E
            <4>5. CASE r = Dead
                BY <4>4, <4>5
            <4>6. CASE r # Dead
                <5>1. <<r, u + 1>> \in S
                    BY <4>3, <4>6
                <5>2. r \notin d.acc
                    BY <5>1 DEF Fruitless
                <5>3. E[<<u, s, l>>] = E[<<u + 1, r, l>>]
                    BY <4>3, <4>4, <4>6, <5>2
                <5>4. E[<<u + 1, r, l>>] = l
                    BY <1>3, <4>1, <4>2, <5>1
                <5> QED BY <5>3, <5>4
            <4> QED BY <4>5, <4>6
        <3> QED BY <3>1, <3>2
    <2>2. k + 1 \in 0..N
        BY <1>0, <1>3
    <2> HIDE DEF E
    <2> QED BY <2>1, <2>2
<1> HIDE DEF T
<1>4. N \in T
    <2>1. \A k \in 0..N : k \in T
        BY <1>0, <1>2, <1>3, UpTo
    <2> QED BY <1>0, <2>1
<1> HIDE DEF E
<1>5. \A u \in 0..N, s \in All, l \in -1..N :
            u >= N - N /\ <<s, u>> \in S => E[<<u, s, l>>] = l
    BY <1>4 DEF T
<1>6. p >= N - N
    BY <1>0
<1> QED BY <1>5, <1>6 DEF E

\* An accept once found is never lost.
LEMMA AcceptKept ==
    ASSUME NEW d \in Automaton, NEW t, Readable(t),
           NEW p \in 0..LenOf(t), NEW q \in All, NEW last \in 0..LenOf(t)
    PROVE  WalkEnd(d, t)[<<p, q, last>>] >= 0
<1> DEFINE N == LenOf(t)
           E == WalkEnd(d, t)
           T == {k \in 0..N : \A u \in 0..N, s \in All, l \in 0..N : u >= N - k => E[<<u, s, l>>] >= 0}
<1>0. N \in Nat /\ \A l \in 0..N : l \in -1..N /\ l >= 0
    BY DEF Readable
<1>1. ASSUME NEW s \in All, NEW l \in 0..N PROVE E[<<N, s, l>>] >= 0
    <2>1. E[<<N, s, l>>] = IF s \in d.eof THEN N ELSE l
        BY <1>0, EndsLast
    <2> HIDE DEF E, N
    <2> QED BY <1>0, <2>1
<1>2. 0 \in T
    <2>1. \A u \in 0..N : u >= N - 0 => u = N
        BY <1>0
    <2> HIDE DEF E
    <2> QED BY <1>0, <1>1, <2>1
<1>3. ASSUME NEW k \in 0..N, k \in T, k < N PROVE k + 1 \in T
    <2>1. ASSUME NEW u \in 0..N, NEW s \in All, NEW l \in 0..N, u >= N - (k + 1)
          PROVE  E[<<u, s, l>>] >= 0
        <3>1. CASE u = N
            BY <1>1, <3>1
        <3>2. CASE u # N
            <4> DEFINE c == ByteAt(t, u)
                       here == IF c \in d.pre[s] THEN u ELSE l
                       r == d.delta[s][c]
                       l2 == IF r \in d.acc THEN u + 1 ELSE here
            <4>1. u < N /\ u + 1 \in 0..N /\ u + 1 >= N - k
                BY <1>0, <1>3, <2>1, <3>2
            <4>2. r \in All
                BY <1>0, <3>2, NextSpot
            <4>3. here \in 0..N
                BY <1>0
            <4>4. E[<<u, s, l>>] =
                   IF r = Dead \/ c \in d.pre[s] \cap d.dom[s] THEN here
                   ELSE IF r \in d.imm THEN u + 1
                   ELSE E[<<u + 1, r, l2>>]
                BY <1>0, <3>2, EndsOn
            <4> HIDE DEF c, here, r, E
            <4>5. l2 \in 0..N
                BY <4>1, <4>3
            <4> HIDE DEF l2
            <4>6. E[<<u + 1, r, l2>>] >= 0
                BY <1>3, <4>1, <4>2, <4>5
            <4>7. here >= 0 /\ u + 1 >= 0
                BY <1>0, <4>1, <4>3
            <4> QED BY <4>4, <4>6, <4>7
        <3> QED BY <3>1, <3>2
    <2>2. k + 1 \in 0..N
        BY <1>0, <1>3
    <2> HIDE DEF E
    <2> QED BY <2>1, <2>2
<1> HIDE DEF T
<1>4. N \in T
    <2>1. \A k \in 0..N : k \in T
        BY <1>0, <1>2, <1>3, UpTo
    <2> QED BY <1>0, <2>1
<1> HIDE DEF E
<1>5. \A u \in 0..N, s \in All, l \in 0..N : u >= N - N => E[<<u, s, l>>] >= 0
    BY <1>4 DEF T
<1>6. p >= N - N
    BY <1>0
<1> QED BY <1>5, <1>6 DEF E

\* A walk begins in an entry state, and its match lies in the text.
LEMMA BeginsEntry ==
    ASSUME NEW d \in Automaton, NEW t, Readable(t), NEW s \in 0..LenOf(t)
    PROVE  /\ Begins(d, t, s) \in Entries(d) /\ Begins(d, t, s) \in All
           /\ s > 0 => ByteAt(t, s - 1) \in Bytes /\ Begins(d, t, s) = d.mid[ByteAt(t, s - 1)]
<1>1. d.start \in All /\ d.mid \in [Bytes -> All]
    BY DEF Automaton
<1>2. CASE s = 0
    BY <1>1, <1>2 DEF Begins, Entries
<1>3. CASE s # 0
    <2>1. s - 1 \in Nat /\ s - 1 < LenOf(t) /\ s > 0
        BY <1>3 DEF Readable
    <2>2. ByteAt(t, s - 1) \in Bytes
        BY <2>1 DEF Readable
    <2> QED BY <1>1, <1>3, <2>1, <2>2 DEF Begins, Entries
<1> QED BY <1>2, <1>3

LEMMA RawTyped ==
    ASSUME NEW d \in Automaton, NEW t, Readable(t), NEW s \in 0..LenOf(t)
    PROVE  Raw(d, t, s) \in -1..LenOf(t)
<1> DEFINE q == Begins(d, t, s)
           last == IF q \in d.acc \/ (d.begin /\ s = 0) THEN s ELSE NoMatch
<1>1. q \in All
    BY BeginsEntry
<1>2. LenOf(t) \in Nat /\ s \in -1..LenOf(t)
    BY DEF Readable
<1>3. last \in -1..LenOf(t)
    BY <1>2 DEF NoMatch
<1>4. Raw(d, t, s) = IF q \in d.imm THEN s ELSE WalkEnd(d, t)[<<s, q, last>>]
    BY DEF Raw
<1> HIDE DEF q, last
<1>5. <<s, q, last>> \in Spots(t)
    BY <1>1, <1>3 DEF Spots
<1>6. WalkEnd(d, t)[<<s, q, last>>] \in -1..LenOf(t)
    BY <1>5, WalkDefined
<1> QED BY <1>2, <1>4, <1>6

\* From a state that does not accept, after position 0 or where the start of the
\* text is no accept, the match is the walk's with no accept so far.
LEMMA RawPlain ==
    ASSUME NEW d \in Automaton, d.imm \subseteq d.acc, NEW t, NEW s,
           Begins(d, t, s) \notin d.acc, ~(d.begin /\ s = 0)
    PROVE  Raw(d, t, s) = WalkEnd(d, t)[<<s, Begins(d, t, s), NoMatch>>]
BY DEF Raw

\* Such a walk that dies on its first byte matches nothing.
LEMMA RawDies ==
    ASSUME NEW d \in Automaton, d.imm \subseteq d.acc, NEW t, Readable(t),
           NEW s \in 0..LenOf(t), s # LenOf(t),
           Begins(d, t, s) \notin d.acc, ~(d.begin /\ s = 0),
           ByteAt(t, s) \notin d.pre[Begins(d, t, s)],
           d.delta[Begins(d, t, s)][ByteAt(t, s)] = Dead
    PROVE  Raw(d, t, s) = NoMatch
<1>1. Begins(d, t, s) \in All /\ NoMatch \in -1..LenOf(t)
    BY BeginsEntry DEF NoMatch, Readable
<1>2. Raw(d, t, s) = WalkEnd(d, t)[<<s, Begins(d, t, s), NoMatch>>]
    BY RawPlain
<1> DEFINE q == Begins(d, t, s)
<1> HIDE DEF q
<1>3. q \in All /\ ByteAt(t, s) \notin d.pre[q] /\ d.delta[q][ByteAt(t, s)] = Dead
    BY <1>1 DEF q
<1>4. WalkEnd(d, t)[<<s, q, NoMatch>>] = NoMatch
    BY <1>1, <1>3, EndsDead
<1> QED BY <1>2, <1>4 DEF q

\* The candidate scan skips no match: at a byte it has no flag for, nothing begins.
LEMMA ScanSkipsNothing ==
    ASSUME NEW d \in Automaton, d.imm \subseteq d.acc, d.begin => d.start \in d.eof,
           NEW t, Readable(t), NEW s \in 0..LenOf(t), s # LenOf(t),
           ByteAt(t, s) \notin FirstBytes(d)
    PROVE  Raw(d, t, s) = NoMatch
<1>1. ByteAt(t, s) \in Bytes
    BY DEF Readable
<1>2. FirstBytes(d) # Bytes
    BY <1>1
<1>3. d.start \notin d.eof /\ Entries(d) \cap d.acc = {}
    BY <1>2 DEF FirstBytes
<1>4. \A e \in Entries(d) : d.delta[e][ByteAt(t, s)] = Dead /\ ByteAt(t, s) \notin d.pre[e]
    BY <1>1, <1>2 DEF FirstBytes
<1>5. Begins(d, t, s) \in Entries(d)
    BY BeginsEntry
<1> QED BY <1>3, <1>4, <1>5, RawDies

\* What detectSkipSafeOnDead shows of a pattern: whatever a walk enters by, its
\* first byte is one of the class and leads to one state that loops on it, or the
\* walk dies.
SkipClass(d) == Class(d, d.midStart)

SkipShape(d, succ) ==
    /\ succ # Dead /\ succ \notin d.acc
    /\ \A c \in Bytes : IF c \in SkipClass(d) THEN d.delta[succ][c] = succ
                        ELSE d.delta[succ][c] \in d.acc \union {Dead}
    /\ \A e \in Entries(d) :
          /\ e \notin d.acc /\ d.pre[e] = {}
          /\ \/ \A c \in Bytes : d.delta[e][c] = Dead
             \/ \A c \in Bytes : d.delta[e][c] = IF c \in SkipClass(d) THEN succ ELSE Dead
SkipTo(d) == CHOOSE succ \in States : SkipShape(d, succ)

LEMMA SkipShaped ==
    ASSUME NEW d \in Automaton, Dead \notin States, SkipSafeOnDead(d)
    PROVE  SkipTo(d) \in States /\ SkipShape(d, SkipTo(d))
<1> DEFINE m == d.midStart
           C == SkipClass(d)
<1>1. m \notin d.acc /\ d.pre[m] = {}
    BY DEF SkipSafeOnDead, AnyAccept
<1>2. PICK succ \in States :
              /\ {d.delta[m][c] : c \in C} = {succ} /\ succ \notin d.acc
              /\ \A c \in C : d.delta[succ][c] = succ
              /\ ExitsAccepting(d, succ, C)
              /\ \A e \in Entries(d) \ {m} :
                    /\ ~AnyAccept(d, e)
                    /\ \/ Class(d, e) = {}
                       \/ \A c \in Bytes :
                             d.delta[e][c] = IF c \in C THEN succ ELSE Dead
    BY DEF SkipSafeOnDead, SkipClass
<1>3. \A c \in Bytes : d.delta[m][c] = IF c \in C THEN succ ELSE Dead
    <2> TAKE c \in Bytes
    <2>1. CASE c \in C
        <3>1. d.delta[m][c] \in {succ}
            BY <1>2, <2>1
        <3> QED BY <2>1, <3>1
    <2>2. CASE c \notin C
        BY <2>2 DEF SkipClass, Class
    <2> QED BY <2>1, <2>2
<1> HIDE DEF C
<1>4. ASSUME NEW e \in Entries(d)
      PROVE  /\ e \notin d.acc /\ d.pre[e] = {}
             /\ \/ \A c \in Bytes : d.delta[e][c] = Dead
                \/ \A c \in Bytes : d.delta[e][c] = IF c \in C THEN succ ELSE Dead
    <2>1. CASE e = m
        BY <1>1, <1>3, <2>1
    <2>2. CASE e # m
        <3>1. ~AnyAccept(d, e) /\ (\/ Class(d, e) = {}
                                   \/ \A c \in Bytes : d.delta[e][c] = IF c \in C THEN succ ELSE Dead)
            BY <1>2, <2>2
        <3>2. Class(d, e) = {} => \A c \in Bytes : d.delta[e][c] = Dead
            BY DEF Class
        <3> QED BY <3>1, <3>2 DEF AnyAccept
    <2> QED BY <2>1, <2>2
<1>5. \A c \in Bytes : IF c \in C THEN d.delta[succ][c] = succ
                       ELSE d.delta[succ][c] \in d.acc \union {Dead}
    BY <1>2 DEF ExitsAccepting
<1>6. succ # Dead
    BY <1>2
<1>7. SkipShape(d, succ)
    BY <1>2, <1>4, <1>5, <1>6 DEF SkipShape, C
<1> QED BY <1>7 DEF SkipTo

\* What detectEOFSkipSafe shows: a walk that dies nowhere stays in states that
\* accept neither there nor at the end of the text.
ChainShape(d, S) ==
    /\ d.midStart \in S /\ S \cap (d.acc \union d.eof \union {Dead}) = {}
    /\ \A s \in S : \A c \in Bytes :
          IF c \in SkipClass(d) THEN d.delta[s][c] \in S
          ELSE d.delta[s][c] \in d.acc \union {Dead}
    /\ d.start = d.midStart \/ \A c \in Bytes : d.delta[d.start][c] = Dead
ChainOf(d) == CHOOSE S \in SUBSET All : ChainShape(d, S)

LEMMA ChainShaped ==
    ASSUME NEW d \in Automaton, IsFiniteSet(States), EofSkipSafe(d)
    PROVE  ~d.bound /\ ChainOf(d) \in SUBSET All /\ ChainShape(d, ChainOf(d))
<1> DEFINE m == d.midStart
           C == Class(d, m)
           N == Cardinality(All)
           Hop(S) == S \union {d.delta[s][c] : s \in S, c \in C}
           G == [S \in SUBSET All |-> Hop(S)]
           E == {m}
           f == CHOOSE g : g = [k \in 0..N |-> IF k = 0 THEN {m} ELSE Hop(g[k - 1])]
<1>1. IsFiniteSet(All)
    BY FS_AddElement DEF All
<1>2. N \in Nat
    BY <1>1, FS_CardinalityType
<1>3. m \in All /\ C \subseteq Bytes /\ \A s \in All : \A c \in C : d.delta[s][c] \in All
    BY DEF Automaton, Class
<1>4. G \in [SUBSET All -> SUBSET All] /\ \A S \in SUBSET All : G[S] = Hop(S) /\ Hop(S) \in SUBSET All
    <2>1. \A S \in SUBSET All : Hop(S) \in SUBSET All
        BY <1>3
    <2> HIDE DEF Hop
    <2> QED BY <2>1
<1>5. /\ ~d.bound
      /\ d.start = m \/ Class(d, d.start) = {}
      /\ f[N] \cap (d.acc \union d.eof \union {Dead}) = {}
      /\ \A s \in f[N] : ExitsAccepting(d, s, C)
    <2>1. Chain(d, m) = f[N]
        BY DEF Chain
    <2>2. /\ ~d.bound
          /\ d.start = m \/ Class(d, d.start) = {}
          /\ Chain(d, m) \cap (d.acc \union d.eof \union {Dead}) = {}
          /\ \A s \in Chain(d, m) : ExitsAccepting(d, s, C)
        BY DEF EofSkipSafe
    <2> HIDE DEF f
    <2> QED BY <2>1, <2>2
<1> HIDE DEF G, C, m, N
<1>6. PICK g : g \in Recursive(SUBSET All, E, G, N)
    <2>1. E \in SUBSET All /\ G \in [SUBSET All -> SUBSET All]
        BY <1>3, <1>4
    <2> HIDE DEF E
    <2>2. Recursive(SUBSET All, E, G, N) # {}
        BY <1>2, <2>1, Recursion, Zenon
    <2> QED BY <2>2
<1>7. g \in [0..N -> SUBSET All] /\ g = [k \in 0..N |-> IF k = 0 THEN E ELSE G[g[k - 1]]]
    <2> HIDE DEF E
    <2> QED BY <1>6 DEF Recursive
<1>8. g = [k \in 0..N |-> IF k = 0 THEN {m} ELSE Hop(g[k - 1])]
    <2>1. ASSUME NEW k \in 0..N PROVE g[k] = IF k = 0 THEN {m} ELSE Hop(g[k - 1])
        <3>1. CASE k = 0
            BY <1>7, <3>1
        <3>2. CASE k # 0
            <4>1. k - 1 \in 0..N
                BY <1>2, <3>2
            <4>2. g[k] = G[g[k - 1]] /\ g[k - 1] \in SUBSET All
                <5> HIDE DEF E
                <5> QED BY <1>7, <3>2, <4>1
            <4>3. g[k] = Hop(g[k - 1])
                <5> HIDE DEF Hop
                <5> QED BY <1>4, <4>2
            <4> QED BY <3>2, <4>3
        <3> QED BY <3>1, <3>2
    <2>2. g = [k \in 0..N |-> g[k]]
        <3> HIDE DEF E
        <3> QED BY <1>7
    <2> HIDE DEF Hop
    <2> QED BY <2>1, <2>2
<1>9. f = [k \in 0..N |-> IF k = 0 THEN {m} ELSE Hop(f[k - 1])]
    <2> HIDE DEF Hop
    <2> QED BY <1>8
<1> HIDE DEF f
<1>10. f[0] = {m} /\ \A k \in 1..N : f[k] = Hop(f[k - 1])
    <2> HIDE DEF Hop
    <2>1. 0 \in 0..N /\ \A k \in 1..N : k \in 0..N /\ k # 0
        BY <1>2
    <2> QED BY <1>9, <2>1
<1>11. \A k \in 0..N : f[k] \in {S \in SUBSET All : m \in S}
    <2>1. f[0] \in {S \in SUBSET All : m \in S}
        BY <1>3, <1>10
    <2>2. ASSUME NEW k \in 1..N, f[k - 1] \in {S \in SUBSET All : m \in S}
          PROVE  f[k] \in {S \in SUBSET All : m \in S}
        <3>1. Hop(f[k - 1]) \in SUBSET All
            <4> HIDE DEF Hop
            <4> QED BY <1>4, <2>2
        <3>2. m \in Hop(f[k - 1])
            BY <2>2
        <3> HIDE DEF Hop
        <3> QED BY <1>10, <2>2, <3>1, <3>2
    <2> HIDE DEF Hop
    <2> QED BY <1>2, <2>1, <2>2, RecursionStays
<1>12. f \in Climbs(All, G, N)
    <2>1. \A k \in 0..N : f[k] \in SUBSET All /\ G[f[k]] = Hop(f[k])
        BY <1>4, <1>11
    <2>2. \A k \in 0..N : f[k] \subseteq G[f[k]]
        BY <2>1
    <2>3. \A k \in 1..N : k - 1 \in 0..N
        BY <1>2
    <2>4. \A k \in 1..N : f[k] = G[f[k - 1]]
        <3> HIDE DEF Hop
        <3> QED BY <1>10, <2>1, <2>3
    <2>5. f \in [0..N -> SUBSET All]
        <3>1. f = [k \in 0..N |-> f[k]]
            <4> HIDE DEF Hop
            <4> QED BY <1>9
        <3> QED BY <2>1, <3>1
    <2>6. Cardinality(f[0]) = 1
        BY <1>10, FS_Singleton
    <2>7. Cardinality(f[0]) + N >= Cardinality(All)
        BY <1>2, <2>6 DEF N
    <2> HIDE DEF Hop
    <2> QED BY <2>2, <2>4, <2>5, <2>7 DEF Climbs
<1>13. G[f[N]] = f[N]
    <2>1. G \in [SUBSET All -> SUBSET All]
        BY <1>4
    <2> HIDE DEF Hop
    <2> QED BY <1>1, <1>2, <1>12, <2>1, ChainStops
<1>14. f[N] \in SUBSET All /\ m \in f[N]
    BY <1>2, <1>11
<1>15. Hop(f[N]) = f[N]
    <2> HIDE DEF Hop
    <2> QED BY <1>4, <1>13, <1>14
<1>16. \A s \in f[N] : \A c \in C : d.delta[s][c] \in f[N]
    BY <1>15
<1>17. \A s \in f[N] : \A c \in Bytes :
            IF c \in C THEN d.delta[s][c] \in f[N] ELSE d.delta[s][c] \in d.acc \union {Dead}
    BY <1>5, <1>16 DEF ExitsAccepting
<1>18. d.start = m \/ \A c \in Bytes : d.delta[d.start][c] = Dead
    BY <1>5 DEF Class
<1> DEFINE S == f[N]
<1>19. S \in SUBSET All /\ ChainShape(d, S)
    <2> HIDE DEF Hop
    <2> QED BY <1>5, <1>14, <1>17, <1>18 DEF ChainShape, C, m, SkipClass
<1> HIDE DEF S
<1>20. ChainOf(d) \in SUBSET All /\ ChainShape(d, ChainOf(d))
    BY <1>19 DEF ChainOf
<1> QED BY <1>5, <1>20

\* The seed rule: where a match would begin inside a character, one begins at the
\* character, because nothing else begins inside one.
LEMMA SeedRuled ==
    ASSUME NEW d \in Automaton, d.imm \subseteq d.acc, NEW t, Readable(t),
           NEW s \in 0..LenOf(t), Inside(t, s),
           \A l \in Lead : \A c \in Cont :
               \/ \A e \in Entries(d) : e \in d.acc \/ l \in d.pre[e]
               \/ /\ d.mid[l] \notin d.acc /\ c \notin d.pre[d.mid[l]]
                  /\ d.delta[d.mid[l]][c] = Dead
    PROVE  /\ s - 1 \in 0..LenOf(t) /\ ~Inside(t, s - 1)
           /\ Raw(d, t, s) = NoMatch \/ Raw(d, t, s - 1) >= 0
<1> DEFINE l == ByteAt(t, s - 1)
           c == ByteAt(t, s)
<1>1. s > 0 /\ s # LenOf(t) /\ c \in Cont /\ l \in Lead
    BY DEF Inside
<1>2. s - 1 \in 0..LenOf(t) /\ s - 1 # LenOf(t)
    BY <1>1 DEF Readable
<1>3. ~Inside(t, s - 1)
    BY <1>1, ByteAssumption DEF Inside
<1>4. CASE \A e \in Entries(d) : e \in d.acc \/ l \in d.pre[e]
    <2> DEFINE k == s - 1
               q == Begins(d, t, k)
               last == IF q \in d.acc \/ (d.begin /\ k = 0) THEN k ELSE NoMatch
    <2>1. q \in Entries(d) /\ q \in All
        BY <1>2, BeginsEntry
    <2>2. q \in d.acc \/ l \in d.pre[q]
        BY <1>4, <2>1
    <2>3. Raw(d, t, k) = IF q \in d.imm THEN k ELSE WalkEnd(d, t)[<<k, q, last>>]
        BY DEF Raw
    <2>4. k \in 0..LenOf(t) /\ k # LenOf(t) /\ k >= 0 /\ k \in -1..LenOf(t)
        BY <1>2
    <2>5. last \in -1..LenOf(t) /\ (q \in d.acc => last = k)
        <3> HIDE DEF k, q
        <3>1. -1 \in -1..LenOf(t)
            BY DEF Readable
        <3> QED BY <2>4, <3>1 DEF NoMatch
    <2>6. l = ByteAt(t, k)
        OBVIOUS
    <2> HIDE DEF k, q, last, l
    <2>7. WalkEnd(d, t)[<<k, q, last>>] >= 0
        <3>1. CASE q \in d.acc
            BY <2>1, <2>4, <2>5, <3>1, AcceptKept
        <3>2. CASE l \in d.pre[q]
            <4> DEFINE r == d.delta[q][l]
                       l2 == IF r \in d.acc THEN k + 1 ELSE k
                       E == WalkEnd(d, t)
            <4>1. <<k, q, last>> \in Spots(t)
                BY <2>1, <2>4, <2>5 DEF Spots
            <4>2. E[<<k, q, last>>] = WalkOn(d, t, E, <<k, q, last>>)
                BY <4>1, WalkDefined
            <4>3. WalkOn(d, t, E, <<k, q, last>>) =
                     IF r = Dead \/ l \in d.pre[q] \cap d.dom[q] THEN k
                     ELSE IF r \in d.imm THEN k + 1
                     ELSE E[<<k + 1, r, l2>>]
                <5> HIDE DEF E
                <5> QED BY <2>4, <2>6, <3>2 DEF WalkOn
            <4>4. k + 1 \in 0..LenOf(t) /\ k + 1 >= 0
                BY <2>4 DEF Readable
            <4>5. r \in All
                BY <2>1, <2>4, <2>5, <2>6, NextSpot
            <4>6. l2 \in 0..LenOf(t)
                BY <2>4, <4>4
            <4> HIDE DEF r, l2
            <4>7. E[<<k + 1, r, l2>>] >= 0
                BY <4>4, <4>5, <4>6, AcceptKept
            <4> HIDE DEF E
            <4>8. E[<<k, q, last>>] >= 0
                BY <2>4, <4>2, <4>3, <4>4, <4>7
            <4> QED BY <4>8 DEF E
        <3> QED BY <2>2, <3>1, <3>2
    <2>8. Raw(d, t, k) >= 0
        BY <2>3, <2>4, <2>7
    <2> QED BY <1>2, <1>3, <2>8 DEF k
<1>5. CASE /\ d.mid[l] \notin d.acc /\ c \notin d.pre[d.mid[l]]
           /\ d.delta[d.mid[l]][c] = Dead
    <2>1. Begins(d, t, s) = d.mid[l]
        BY <1>1, BeginsEntry
    <2>2. Raw(d, t, s) = NoMatch
        BY <1>1, <1>5, <2>1, RawDies
    <2> QED BY <1>2, <1>3, <2>2
<1> QED BY <1>1, <1>4, <1>5
=============================================================================
