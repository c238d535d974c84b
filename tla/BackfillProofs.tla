--------------------------- MODULE BackfillProofs ---------------------------
(* Theorems about Backfill: how far the paged walk is from the mailbox, for *)
(* lists of any length, any page size and any number of arrivals, deletions *)
(* and attempts.                                                            *)
EXTENDS Backfill, FiniteSetTheorems, SequenceTheorems, TLAPS

-----------------------------------------------------------------------------
(* Elements in order.                                                      *)

StrictOrder(S, before) ==
    /\ \A x \in S : <<x, x>> \notin before
    /\ \A x, y, z \in S : <<x, y>> \in before /\ <<y, z>> \in before => <<x, z>> \in before
    /\ \A x, y \in S : x = y \/ <<x, y>> \in before \/ <<y, x>> \in before

Below(S, before, i) == {j \in S : <<j, i>> \in before}

\* An element has as many below it as its place says, less one.
LEMMA RankGrows ==
  ASSUME NEW S, IsFiniteSet(S), NEW before, StrictOrder(S, before)
  PROVE  /\ \A i \in S : Cardinality(Below(S, before, i)) \in 0..(Cardinality(S) - 1)
         /\ \A i, j \in S : <<i, j>> \in before =>
              Cardinality(Below(S, before, i)) < Cardinality(Below(S, before, j))
<1>1. ASSUME NEW i \in S
      PROVE  Cardinality(Below(S, before, i)) \in 0..(Cardinality(S) - 1)
  <2>1. Below(S, before, i) \in SUBSET (S \ {i})
    BY DEF Below, StrictOrder
  <2>2. IsFiniteSet(S \ {i}) /\ Cardinality(S \ {i}) = Cardinality(S) - 1
    BY FS_RemoveElement
  <2>3. /\ IsFiniteSet(Below(S, before, i))
        /\ Cardinality(Below(S, before, i)) <= Cardinality(S \ {i})
    BY <2>1, <2>2, FS_Subset
  <2>4. Cardinality(Below(S, before, i)) \in Nat /\ Cardinality(S) \in Nat
    BY <2>3, FS_CardinalityType
  <2> QED BY <2>2, <2>3, <2>4
<1>2. ASSUME NEW i \in S, NEW j \in S, <<i, j>> \in before
      PROVE  Cardinality(Below(S, before, i)) < Cardinality(Below(S, before, j))
  <2>1. Below(S, before, i) \in SUBSET Below(S, before, j)
    BY <1>2 DEF Below, StrictOrder
  <2>2. i \in Below(S, before, j) /\ i \notin Below(S, before, i)
    BY <1>2 DEF Below, StrictOrder
  <2>3. Below(S, before, j) \in SUBSET S
    BY DEF Below
  <2>4. IsFiniteSet(Below(S, before, j))
    BY <2>3, FS_Subset
  <2>5. /\ IsFiniteSet(Below(S, before, i))
        /\ Cardinality(Below(S, before, i)) <= Cardinality(Below(S, before, j))
        /\ Cardinality(Below(S, before, i)) # Cardinality(Below(S, before, j))
    BY <2>1, <2>2, <2>4, FS_Subset
  <2>6. /\ Cardinality(Below(S, before, i)) \in Nat
        /\ Cardinality(Below(S, before, j)) \in Nat
    BY <2>4, <2>5, FS_CardinalityType
  <2> QED BY <2>5, <2>6
<1> QED BY <1>1, <1>2

LEMMA InOrderIs ==
  ASSUME NEW S, IsFiniteSet(S), NEW before, StrictOrder(S, before)
  PROVE  LET q == InOrder(S, before)
         IN  /\ q \in Seq(S) /\ DOMAIN q = 1..Cardinality(S) /\ Cardinality(S) \in Nat
             /\ \A x \in S : \E k \in DOMAIN q : q[k] = x
             /\ \A k, l \in DOMAIN q : k < l => <<q[k], q[l]>> \in before
             /\ \A k, l \in DOMAIN q : q[k] = q[l] => k = l
<1> DEFINE n == Cardinality(S)
           q == InOrder(S, before)
           rank == [i \in S |-> Cardinality(Below(S, before, i)) + 1]
<1>1. n \in Nat
  BY FS_CardinalityType
<1>2. rank \in [S -> 1..n]
  BY <1>1, RankGrows
<1>3. \A i, j \in S : <<i, j>> \in before => rank[i] < rank[j]
  <2> SUFFICES ASSUME NEW i \in S, NEW j \in S, <<i, j>> \in before PROVE rank[i] < rank[j]
    OBVIOUS
  <2>1. /\ Cardinality(Below(S, before, i)) < Cardinality(Below(S, before, j))
        /\ Cardinality(Below(S, before, i)) \in 0..(n - 1)
        /\ Cardinality(Below(S, before, j)) \in 0..(n - 1)
    BY RankGrows
  <2> QED BY <1>1, <2>1
<1>4. \A i \in S : rank[i] \in 1..n /\ rank[i] - 1 = Cardinality(Below(S, before, i))
  <2>1. \A i \in S : Cardinality(Below(S, before, i)) \in 0..(n - 1)
    BY RankGrows
  <2> QED BY <1>2, <2>1
<1> DEFINE At(k) == CHOOSE i \in S : Cardinality(Below(S, before, i)) = k - 1
<1>5. q = [k \in 1..n |-> At(k)]
  BY DEF InOrder, Below
<1> HIDE DEF rank, q, n
<1>6. DOMAIN q = 1..n
  <2> HIDE DEF At
  <2> QED BY <1>5
<1>7. \A i, j \in S : rank[i] = rank[j] => i = j
  <2> SUFFICES ASSUME NEW i \in S, NEW j \in S, rank[i] = rank[j], i # j PROVE FALSE
    OBVIOUS
  <2>1. <<i, j>> \in before \/ <<j, i>> \in before
    BY DEF StrictOrder
  <2>2. rank[i] < rank[j] \/ rank[j] < rank[i]
    BY <1>3, <2>1
  <2>3. rank[i] \in 1..n /\ rank[j] \in 1..n
    BY <1>4
  <2> QED BY <2>2, <2>3
<1>8. \A k \in 1..n : \E i \in S : rank[i] = k
  <2>1. rank \in Injection(S, 1..n)
    BY <1>2, <1>7 DEF Injection, IsInjective
  <2>2. IsFiniteSet(1..n) /\ Cardinality(1..n) = n
    BY <1>1, FS_Interval
  <2>3. rank \in Surjection(S, 1..n)
    BY <2>1, <2>2, FS_Injection DEF n
  <2> QED BY <2>3 DEF Surjection
<1>9. \A k \in 1..n : q[k] \in S /\ rank[q[k]] = k
  <2> SUFFICES ASSUME NEW k \in 1..n PROVE q[k] \in S /\ rank[q[k]] = k
    OBVIOUS
  <2>1. PICK i \in S : rank[i] = k
    BY <1>8
  <2>2. Cardinality(Below(S, before, i)) = k - 1
    BY <1>4, <2>1
  <2>3. q[k] \in S /\ Cardinality(Below(S, before, q[k])) = k - 1
    <3>1. At(k) \in S /\ Cardinality(Below(S, before, At(k))) = k - 1
      BY <2>2
    <3>2. q[k] = At(k)
      <4> HIDE DEF At
      <4> QED BY <1>5
    <3> HIDE DEF At
    <3> QED BY <3>1, <3>2
  <2>4. rank[q[k]] \in 1..n /\ rank[q[k]] - 1 = k - 1
    BY <1>4, <2>3
  <2> QED BY <1>1, <2>3, <2>4
<1>10. q \in Seq(S)
  <2>1. \A N \in Nat : \A f \in [1..N -> S] : f \in Seq(S)
    OBVIOUS
  <2>2. q \in [1..n -> S]
    <3> HIDE DEF At
    <3> QED BY <1>5, <1>6, <1>9
  <2> QED BY <1>1, <2>1, <2>2, Zenon
<1>11. \A x \in S : \E k \in DOMAIN q : q[k] = x
  BY <1>4, <1>6, <1>7, <1>9
<1>12. \A k, l \in DOMAIN q : q[k] = q[l] => k = l
  BY <1>6, <1>9
<1>13. \A k, l \in DOMAIN q : k < l => <<q[k], q[l]>> \in before
  <2> SUFFICES ASSUME NEW k \in 1..n, NEW l \in 1..n, k < l PROVE <<q[k], q[l]>> \in before
    BY <1>6
  <2>1. q[k] \in S /\ q[l] \in S /\ rank[q[k]] = k /\ rank[q[l]] = l
    BY <1>9
  <2>2. q[k] # q[l] /\ ~(rank[q[l]] < rank[q[k]])
    BY <1>1, <2>1
  <2>3. <<q[l], q[k]>> \notin before
    BY <1>3, <2>1, <2>2
  <2> QED BY <2>1, <2>2, <2>3 DEF StrictOrder
<1> QED BY <1>1, <1>6, <1>10, <1>11, <1>12, <1>13 DEF n, q

\* A sequence read at places of another.
LEMMA AtPlacesIs ==
  ASSUME NEW T, NEW s \in Seq(T), NEW S \in SUBSET (DOMAIN s), NEW q \in Seq(S),
         \A x \in S : \E k \in DOMAIN q : q[k] = x
  PROVE  LET r == AtPlaces(s, q)
         IN  /\ r \in Seq(T) /\ DOMAIN r = DOMAIN q /\ Len(r) = Len(q)
             /\ \A k \in DOMAIN r : q[k] \in S /\ r[k] = s[q[k]]
             /\ ToSet(r) = {s[i] : i \in S}
<1> DEFINE r == AtPlaces(s, q)
<1>1. DOMAIN q = 1..Len(q) /\ Len(q) \in Nat /\ \A k \in DOMAIN q : q[k] \in S
  BY LenProperties, ElementOfSeq
<1>2. \A i \in DOMAIN s : s[i] \in T
  BY LenProperties, ElementOfSeq
<1>3. DOMAIN r = DOMAIN q /\ \A k \in DOMAIN q : r[k] = s[q[k]]
  BY DEF AtPlaces
<1>4. r \in [1..Len(q) -> T]
  <2>1. \A k \in DOMAIN q : s[q[k]] \in T
    BY <1>1, <1>2
  <2> QED BY <1>1, <2>1 DEF AtPlaces
<1> HIDE DEF r
<1>5. r \in Seq(T)
  <2>1. \A N \in Nat : \A f \in [1..N -> T] : f \in Seq(T)
    OBVIOUS
  <2> QED BY <1>1, <1>4, <2>1, Zenon
<1>6. Len(r) = Len(q)
  <2>1. DOMAIN r = 1..Len(r) /\ Len(r) \in Nat
    BY <1>5, LenProperties
  <2> QED BY <1>1, <1>3, <2>1
<1>7. ToSet(r) = {s[i] : i \in S}
  BY <1>1, <1>3 DEF ToSet
<1> QED BY <1>1, <1>3, <1>5, <1>6, <1>7 DEF r

LEMMA PlacesFinite ==
  ASSUME NEW n \in Nat
  PROVE  IsFiniteSet(1..n) /\ Cardinality(1..n) = n
  BY FS_Interval

LEMMA SetOfSeq ==
  ASSUME NEW T, NEW s \in Seq(T)
  PROVE  /\ DOMAIN s = 1..Len(s) /\ Len(s) \in Nat
         /\ ToSet(s) = {s[i] : i \in 1..Len(s)} /\ ToSet(s) \subseteq T
         /\ IsFiniteSet(ToSet(s)) /\ Cardinality(ToSet(s)) \in 0..Len(s)
         /\ IsInjective(s) => Cardinality(ToSet(s)) = Len(s)
<1>1. DOMAIN s = 1..Len(s) /\ Len(s) \in Nat /\ \A i \in 1..Len(s) : s[i] \in T
  BY LenProperties, ElementOfSeq
<1>2. ToSet(s) = {s[i] : i \in 1..Len(s)} /\ ToSet(s) \subseteq T
  BY <1>1 DEF ToSet
<1>3. s \in Surjection(1..Len(s), ToSet(s))
  <2>1. s \in [1..Len(s) -> T]
    BY <1>1
  <2> QED BY <1>1, <1>2, <2>1 DEF Surjection
<1>4. IsFiniteSet(1..Len(s)) /\ Cardinality(1..Len(s)) = Len(s)
  BY <1>1, PlacesFinite
<1>5. /\ IsFiniteSet(ToSet(s)) /\ Cardinality(ToSet(s)) <= Len(s)
      /\ Cardinality(ToSet(s)) = Len(s) <=> s \in Injection(1..Len(s), ToSet(s))
  BY <1>3, <1>4, FS_Surjection
<1>6. IsInjective(s) => s \in Injection(1..Len(s), ToSet(s))
  BY <1>3, <1>1 DEF Surjection, Injection, IsInjective
<1>7. Cardinality(ToSet(s)) \in Nat
  BY <1>5, FS_CardinalityType
<1> QED BY <1>1, <1>2, <1>5, <1>6, <1>7

\* What a page gives: its messages of the window, each once.
LEMMA RetainedIs ==
  ASSUME NEW metas \in Seq(Msgs), IsInjective(metas)
  PROVE  LET r == Retained(metas)
         IN  /\ r \in Seq({m \in Msgs : InWindow(m)})
             /\ ToSet(r) = {m \in ToSet(metas) : InWindow(m)}
             /\ Len(r) = Cardinality(ToSet(r)) /\ IsFiniteSet(ToSet(r))
<1> DEFINE S == {i \in DOMAIN metas : InWindow(metas[i])}
           q == InOrder(S, Earlier(metas))
           r == Retained(metas)
           W == {m \in Msgs : InWindow(m)}
<1>1. /\ DOMAIN metas = 1..Len(metas) /\ Len(metas) \in Nat /\ ToSet(metas) \subseteq Msgs
      /\ \A i \in DOMAIN metas : metas[i] \in Msgs
  BY LenProperties, ElementOfSeq DEF ToSet
<1>2. IsFiniteSet(S)
  <2>1. IsFiniteSet(1..Len(metas)) /\ S \in SUBSET (1..Len(metas))
    BY <1>1, PlacesFinite
  <2> HIDE DEF S
  <2> QED BY <2>1, FS_Subset
<1>3. StrictOrder(S, Earlier(metas))
  BY <1>1 DEF StrictOrder, Earlier
<1>4. /\ q \in Seq(S)
      /\ \A x \in S : \E k \in DOMAIN q : q[k] = x
      /\ \A k, l \in DOMAIN q : q[k] = q[l] => k = l
  <2> HIDE DEF S
  <2> QED BY <1>2, <1>3, InOrderIs
<1>5. S \in SUBSET (DOMAIN metas)
  OBVIOUS
<1>6. r = AtPlaces(metas, q)
  BY DEF Retained
<1> HIDE DEF q, r
<1>7. /\ r \in Seq(Msgs) /\ DOMAIN r = DOMAIN q /\ Len(r) = Len(q)
      /\ \A k \in DOMAIN r : q[k] \in S /\ r[k] = metas[q[k]]
      /\ ToSet(r) = {metas[i] : i \in S}
  <2> HIDE DEF S
  <2> QED BY <1>4, <1>5, <1>6, AtPlacesIs
<1>8. IsInjective(r)
  BY <1>4, <1>7 DEF IsInjective
<1>9. ToSet(r) = {m \in ToSet(metas) : InWindow(m)}
  BY <1>7 DEF ToSet
<1>10. r \in Seq(W)
  <2>1. \A k \in DOMAIN r : r[k] \in W
    BY <1>1, <1>7
  <2>2. DOMAIN r = 1..Len(r) /\ Len(r) \in Nat /\ r \in [1..Len(r) -> Msgs]
    BY <1>7, LenProperties
  <2> HIDE DEF W
  <2>3. r \in [1..Len(r) -> W]
    BY <2>1, <2>2
  <2>4. \A N \in Nat : \A f \in [1..N -> W] : f \in Seq(W)
    OBVIOUS
  <2> QED BY <2>2, <2>3, <2>4, Zenon
<1>11. IsFiniteSet(ToSet(r)) /\ Len(r) = Cardinality(ToSet(r))
  BY <1>7, <1>8, SetOfSeq
<1> QED BY <1>9, <1>10, <1>11 DEF r

LEMMA SortedIs ==
  ASSUME NEW W \in SUBSET Msgs, NEW ids \in Seq(W)
  PROVE  LET r == Sorted(ids)
         IN  /\ r \in Seq(W) /\ Len(r) = Len(ids) /\ ToSet(r) = ToSet(ids)
             /\ \A k \in 1..(Len(r) - 1) : Time[r[k]] <= Time[r[k + 1]]
<1> DEFINE S == DOMAIN ids
           q == InOrder(S, Older(ids))
           r == Sorted(ids)
<1>1. /\ S = 1..Len(ids) /\ Len(ids) \in Nat
      /\ \A i \in S : ids[i] \in W /\ ids[i] \in Nat /\ Time[ids[i]] \in Nat
  <2>1. S = 1..Len(ids) /\ Len(ids) \in Nat /\ \A i \in S : ids[i] \in W
    BY LenProperties, ElementOfSeq
  <2>2. \A m \in W : m \in Nat /\ Time[m] \in Nat
    BY BackfillConstants
  <2> QED BY <2>1, <2>2
<1>2. IsFiniteSet(S) /\ Cardinality(S) = Len(ids)
  BY <1>1, PlacesFinite
<1> DEFINE Puts(i, j) == \/ Time[ids[i]] < Time[ids[j]]
                         \/ Time[ids[i]] = Time[ids[j]] /\ ids[i] < ids[j]
                         \/ ids[i] = ids[j] /\ i < j
<1>3. \A i, j \in S : <<i, j>> \in Older(ids) <=> Puts(i, j)
  BY DEF Older
<1>4. StrictOrder(S, Older(ids))
  <2>1. \A x \in S : ~Puts(x, x)
    BY <1>1
  <2>2. \A x, y, z \in S : Puts(x, y) /\ Puts(y, z) => Puts(x, z)
    BY <1>1
  <2>3. \A x, y \in S : x = y \/ Puts(x, y) \/ Puts(y, x)
    BY <1>1
  <2> HIDE DEF Puts, S
  <2> QED BY <1>3, <2>1, <2>2, <2>3 DEF StrictOrder
<1>5. /\ q \in Seq(S) /\ DOMAIN q = 1..Len(ids)
      /\ \A x \in S : \E k \in DOMAIN q : q[k] = x
      /\ \A k, l \in DOMAIN q : k < l => <<q[k], q[l]>> \in Older(ids)
  <2> HIDE DEF S
  <2> QED BY <1>2, <1>4, InOrderIs
<1>6. r = AtPlaces(ids, q)
  BY DEF Sorted
<1>7. S \in SUBSET (DOMAIN ids) /\ ToSet(ids) = {ids[i] : i \in S}
  BY DEF ToSet
<1> HIDE DEF q, r, S
<1>8. /\ r \in Seq(W) /\ DOMAIN r = DOMAIN q /\ Len(r) = Len(q)
      /\ \A k \in DOMAIN r : q[k] \in S /\ r[k] = ids[q[k]]
      /\ ToSet(r) = {ids[i] : i \in S}
  <2>1. q \in Seq(S) /\ \A x \in S : \E k \in DOMAIN q : q[k] = x
    BY <1>5
  <2>2. ids \in Seq(W) /\ S \in SUBSET (DOMAIN ids)
    BY <1>7
  <2> HIDE DEF Puts
  <2> QED BY <1>6, <2>1, <2>2, AtPlacesIs
<1>9. Len(r) = Len(ids)
  <2>1. DOMAIN r = 1..Len(r) /\ Len(r) \in Nat
    BY <1>8, LenProperties
  <2> QED BY <1>1, <1>5, <1>8, <2>1
<1>10. ASSUME NEW k \in 1..(Len(r) - 1) PROVE Time[r[k]] <= Time[r[k + 1]]
  <2>1. k \in DOMAIN q /\ k + 1 \in DOMAIN q /\ k < k + 1
    BY <1>1, <1>5, <1>9
  <2>2. q[k] \in S /\ q[k + 1] \in S /\ <<q[k], q[k + 1]>> \in Older(ids)
    BY <1>5, <1>8, <2>1
  <2>3. Puts(q[k], q[k + 1])
    BY <1>3, <2>2
  <2>4. r[k] = ids[q[k]] /\ r[k + 1] = ids[q[k + 1]]
    BY <1>8, <2>1
  <2>5. Time[ids[q[k]]] \in Nat /\ Time[ids[q[k + 1]]] \in Nat
    BY <1>1, <2>2
  <2> QED BY <2>3, <2>4, <2>5
<1> QED BY <1>7, <1>8, <1>9, <1>10 DEF r

-----------------------------------------------------------------------------
(* The list, cut where the walk stands.                                    *)

Passed(l, read) == {l[i] : i \in {j \in 1..Len(l) : j <= read}}
Ahead(l, read) == {l[i] : i \in {j \in 1..Len(l) : j > read}}

LEMMA InsertAtIs ==
  ASSUME NEW T, NEW s \in Seq(T), NEW i \in 1..(Len(s) + 1), NEW x \in T
  PROVE  LET r == InsertAt(s, i, x)
         IN  /\ r \in Seq(T) /\ Len(r) = Len(s) + 1
             /\ \A k \in 1..Len(r) :
                  \/ k < i /\ k \in 1..Len(s) /\ r[k] = s[k]
                  \/ k = i /\ r[k] = x
                  \/ k > i /\ k - 1 \in 1..Len(s) /\ r[k] = s[k - 1]
<1> DEFINE A == SubSeq(s, 1, i - 1)
           B == SubSeq(s, i, Len(s))
           C == A \o <<x>>
           r == InsertAt(s, i, x)
<1>1. Len(s) \in Nat /\ i \in Nat /\ i - 1 \in Int /\ \A k \in 1..Len(s) : s[k] \in T
  BY LenProperties, ElementOfSeq
<1>2. A \in Seq(T) /\ Len(A) = i - 1 /\ \A k \in 1..(i - 1) : A[k] = s[k]
  <2>1. \A k \in 1..(i - 1) : s[k] \in T /\ 1 + k - 1 = k
    BY <1>1
  <2>2. /\ A \in Seq(T) /\ Len(A) = IF 1 <= i - 1 THEN i - 1 - 1 + 1 ELSE 0
        /\ \A k \in 1..(i - 1 - 1 + 1) : A[k] = s[1 + k - 1]
    BY <1>1, <2>1, SubSeqProperties
  <2> HIDE DEF A
  <2> QED BY <1>1, <2>1, <2>2
<1>3. B \in Seq(T) /\ Len(B) = Len(s) - i + 1 /\ \A k \in 1..(Len(s) - i + 1) : B[k] = s[i + k - 1]
  <2>1. \A k \in i..Len(s) : s[k] \in T
    BY <1>1
  <2>2. /\ B \in Seq(T) /\ Len(B) = IF i <= Len(s) THEN Len(s) - i + 1 ELSE 0
        /\ \A k \in 1..(Len(s) - i + 1) : B[k] = s[i + k - 1]
    BY <1>1, <2>1, SubSeqProperties
  <2> HIDE DEF B
  <2> QED BY <1>1, <2>2
<1> HIDE DEF A, B
<1>4. /\ C \in Seq(T) /\ Len(C) = i /\ C[i] = x
      /\ \A k \in 1..(i - 1) : C[k] = s[k]
  <2>1. <<x>> \in Seq(T) /\ Len(<<x>>) = 1 /\ <<x>>[1] = x
    OBVIOUS
  <2>2. /\ C \in Seq(T) /\ Len(C) = Len(A) + Len(<<x>>)
        /\ \A k \in 1..(Len(A) + Len(<<x>>)) : C[k] =
             IF k <= Len(A) THEN A[k] ELSE <<x>>[k - Len(A)]
    BY <1>2, <2>1, ConcatProperties
  <2> HIDE DEF C
  <2>3. C[i] = x
    <3>1. i \in 1..(Len(A) + Len(<<x>>)) /\ ~(i <= Len(A)) /\ i - Len(A) = 1
      BY <1>1, <1>2, <2>1
    <3> QED BY <2>1, <2>2, <3>1
  <2>4. \A k \in 1..(i - 1) : k \in 1..(Len(A) + Len(<<x>>)) /\ k <= Len(A)
    BY <1>1, <1>2, <2>1
  <2>5. Len(C) = i
    BY <1>1, <1>2, <2>1, <2>2
  <2> QED BY <1>2, <2>2, <2>3, <2>4, <2>5
<1>5. r = C \o B
  BY DEF InsertAt, A, B
<1> HIDE DEF C, r
<1>6. /\ r \in Seq(T) /\ Len(r) = Len(C) + Len(B)
      /\ \A k \in 1..(Len(C) + Len(B)) : r[k] = IF k <= Len(C) THEN C[k] ELSE B[k - Len(C)]
  BY <1>3, <1>4, <1>5, ConcatProperties
<1>7. Len(r) = Len(s) + 1
  BY <1>1, <1>3, <1>4, <1>6
<1>8. ASSUME NEW k \in 1..Len(r)
      PROVE  \/ k < i /\ k \in 1..Len(s) /\ r[k] = s[k]
             \/ k = i /\ r[k] = x
             \/ k > i /\ k - 1 \in 1..Len(s) /\ r[k] = s[k - 1]
  <2>1. r[k] = IF k <= i THEN C[k] ELSE B[k - i]
    BY <1>4, <1>6
  <2>2. CASE k <= i
    BY <1>1, <1>4, <2>1, <2>2
  <2>3. CASE ~(k <= i)
    <3>1. k - i \in 1..(Len(s) - i + 1) /\ i + (k - i) - 1 = k - 1 /\ k - 1 \in 1..Len(s) /\ k > i
      BY <1>1, <1>7, <2>3
    <3>2. B[k - i] = s[k - 1]
      BY <1>3, <3>1
    <3> QED BY <2>1, <2>3, <3>1, <3>2
  <2> QED BY <2>2, <2>3
<1> QED BY <1>6, <1>7, <1>8 DEF r

LEMMA RemoveAtIs ==
  ASSUME NEW T, NEW s \in Seq(T), NEW i \in 1..Len(s)
  PROVE  LET r == RemoveAt(s, i)
         IN  /\ r \in Seq(T) /\ Len(r) = Len(s) - 1
             /\ \A k \in 1..Len(r) :
                  \/ k < i /\ k \in 1..Len(s) /\ r[k] = s[k]
                  \/ k >= i /\ k + 1 \in 1..Len(s) /\ r[k] = s[k + 1]
<1> DEFINE A == SubSeq(s, 1, i - 1)
           B == SubSeq(s, i + 1, Len(s))
           r == RemoveAt(s, i)
<1>1. Len(s) \in Nat /\ i \in Nat /\ i - 1 \in Int /\ \A k \in 1..Len(s) : s[k] \in T
  BY LenProperties, ElementOfSeq
<1>2. A \in Seq(T) /\ Len(A) = i - 1 /\ \A k \in 1..(i - 1) : A[k] = s[k]
  <2>1. \A k \in 1..(i - 1) : s[k] \in T /\ 1 + k - 1 = k
    BY <1>1
  <2>2. /\ A \in Seq(T) /\ Len(A) = IF 1 <= i - 1 THEN i - 1 - 1 + 1 ELSE 0
        /\ \A k \in 1..(i - 1 - 1 + 1) : A[k] = s[1 + k - 1]
    BY <1>1, <2>1, SubSeqProperties
  <2> HIDE DEF A
  <2> QED BY <1>1, <2>1, <2>2
<1>3. B \in Seq(T) /\ Len(B) = Len(s) - i /\ \A k \in 1..(Len(s) - i) : B[k] = s[i + k]
  <2>1. \A k \in (i + 1)..Len(s) : s[k] \in T
    BY <1>1
  <2>2. /\ B \in Seq(T) /\ Len(B) = IF i + 1 <= Len(s) THEN Len(s) - (i + 1) + 1 ELSE 0
        /\ \A k \in 1..(Len(s) - (i + 1) + 1) : B[k] = s[(i + 1) + k - 1]
    BY <1>1, <2>1, SubSeqProperties
  <2>3. \A k \in 1..(Len(s) - i) : k \in 1..(Len(s) - (i + 1) + 1) /\ (i + 1) + k - 1 = i + k
    BY <1>1
  <2> HIDE DEF B
  <2> QED BY <1>1, <2>2, <2>3
<1>4. r = A \o B
  BY DEF RemoveAt
<1> HIDE DEF A, B, r
<1>5. /\ r \in Seq(T) /\ Len(r) = Len(A) + Len(B)
      /\ \A k \in 1..(Len(A) + Len(B)) : r[k] = IF k <= Len(A) THEN A[k] ELSE B[k - Len(A)]
  BY <1>2, <1>3, <1>4, ConcatProperties
<1>6. Len(r) = Len(s) - 1
  BY <1>1, <1>2, <1>3, <1>5
<1>7. ASSUME NEW k \in 1..Len(r)
      PROVE  \/ k < i /\ k \in 1..Len(s) /\ r[k] = s[k]
             \/ k >= i /\ k + 1 \in 1..Len(s) /\ r[k] = s[k + 1]
  <2>1. r[k] = IF k <= i - 1 THEN A[k] ELSE B[k - (i - 1)]
    BY <1>2, <1>5
  <2>2. CASE k < i
    BY <1>1, <1>2, <2>1, <2>2
  <2>3. CASE ~(k < i)
    <3>1. /\ k - (i - 1) \in 1..(Len(s) - i) /\ i + (k - (i - 1)) = k + 1
          /\ k + 1 \in 1..Len(s) /\ k >= i /\ ~(k <= i - 1)
      BY <1>1, <1>6, <2>3
    <3>2. B[k - (i - 1)] = s[k + 1]
      BY <1>3, <3>1
    <3> QED BY <2>1, <3>1, <3>2
  <2> QED BY <2>2, <2>3
<1> QED BY <1>5, <1>6, <1>7 DEF r

\* An arrival moves at most one message from the pages read to those to come.
LEMMA ArrivalMoves ==
  ASSUME NEW s \in Seq(Msgs), NEW i \in 1..(Len(s) + 1), NEW x \in Msgs, x \notin ToSet(s),
         IsInjective(s), NEW read \in Nat, NEW r, r = InsertAt(s, i, x)
  PROVE  /\ r \in Seq(Msgs) /\ IsInjective(r) /\ ToSet(r) \subseteq ToSet(s) \cup {x}
         /\ Passed(r, read) \subseteq Passed(s, read) \cup {x}
         /\ i > read => Ahead(r, read) \subseteq Ahead(s, read) \cup {x}
         /\ Ahead(r, read) \subseteq Ahead(s, read) \cup {x, s[read]}
<1>1. /\ r \in Seq(Msgs) /\ Len(r) = Len(s) + 1
      /\ \A k \in 1..Len(r) :
           \/ k < i /\ k \in 1..Len(s) /\ r[k] = s[k]
           \/ k = i /\ r[k] = x
           \/ k > i /\ k - 1 \in 1..Len(s) /\ r[k] = s[k - 1]
  <2> DEFINE q == InsertAt(s, i, x)
  <2>1. /\ q \in Seq(Msgs) /\ Len(q) = Len(s) + 1
        /\ \A k \in 1..Len(q) :
             \/ k < i /\ k \in 1..Len(s) /\ q[k] = s[k]
             \/ k = i /\ q[k] = x
             \/ k > i /\ k - 1 \in 1..Len(s) /\ q[k] = s[k - 1]
    BY InsertAtIs, ZenonT(60)
  <2>2. q = r
    OBVIOUS
  <2> HIDE DEF q
  <2> QED BY <2>1, <2>2
<1>2. /\ DOMAIN r = 1..Len(r) /\ ToSet(r) = {r[k] : k \in 1..Len(r)}
      /\ DOMAIN s = 1..Len(s) /\ ToSet(s) = {s[k] : k \in 1..Len(s)}
      /\ Len(s) \in Nat /\ Len(r) \in Nat
  BY <1>1, SetOfSeq
<1>3. \A k, l \in 1..Len(s) : s[k] = s[l] => k = l
  BY <1>2 DEF IsInjective
<1>4. \A k \in 1..Len(s) : s[k] # x
  BY <1>2
<1>5. IsInjective(r)
  <2> SUFFICES ASSUME NEW k \in 1..Len(r), NEW l \in 1..Len(r), r[k] = r[l] PROVE k = l
    BY <1>2 DEF IsInjective
  <2>1. /\ \/ k < i /\ k \in 1..Len(s) /\ r[k] = s[k]
           \/ k = i /\ r[k] = x
           \/ k > i /\ k - 1 \in 1..Len(s) /\ r[k] = s[k - 1]
        /\ \/ l < i /\ l \in 1..Len(s) /\ r[l] = s[l]
           \/ l = i /\ r[l] = x
           \/ l > i /\ l - 1 \in 1..Len(s) /\ r[l] = s[l - 1]
    BY <1>1
  <2>2. i \in Int /\ k \in Int /\ l \in Int
    BY <1>2
  <2>3. CASE k = i
    BY <1>4, <2>1, <2>3
  <2>4. CASE k < i
    <3>1. s[k] # x /\ k \in 1..Len(s) /\ r[k] = s[k]
      BY <1>4, <2>1, <2>2, <2>4
    <3>2. l # i /\ (l > i => k = l - 1) /\ (l < i => k = l)
      BY <1>3, <2>1, <2>2, <3>1
    <3> QED BY <2>2, <2>4, <3>2
  <2>5. CASE k > i
    <3>1. s[k - 1] # x /\ k - 1 \in 1..Len(s) /\ r[k] = s[k - 1]
      BY <1>4, <2>1, <2>2, <2>5
    <3>2. l # i /\ (l > i => k - 1 = l - 1) /\ (l < i => k - 1 = l)
      BY <1>3, <2>1, <2>2, <3>1
    <3> QED BY <2>2, <2>5, <3>2
  <2> QED BY <2>2, <2>3, <2>4, <2>5
<1>6. ToSet(r) \subseteq ToSet(s) \cup {x}
  BY <1>1, <1>2
<1>7. Passed(r, read) \subseteq Passed(s, read) \cup {x}
  <2> SUFFICES ASSUME NEW k \in 1..Len(r), k <= read, r[k] # x
               PROVE  \E j \in 1..Len(s) : j <= read /\ r[k] = s[j]
    BY DEF Passed
  <2>1. \/ k < i /\ k \in 1..Len(s) /\ r[k] = s[k]
        \/ k > i /\ k - 1 \in 1..Len(s) /\ r[k] = s[k - 1] /\ k - 1 <= read
    BY <1>1, <1>2
  <2> QED BY <2>1
<1>8. ASSUME i > read PROVE Ahead(r, read) \subseteq Ahead(s, read) \cup {x}
  <2> SUFFICES ASSUME NEW k \in 1..Len(r), k > read, r[k] # x
               PROVE  \E j \in 1..Len(s) : j > read /\ r[k] = s[j]
    BY DEF Ahead
  <2>1. \/ k < i /\ k \in 1..Len(s) /\ r[k] = s[k]
        \/ k > i /\ k - 1 \in 1..Len(s) /\ r[k] = s[k - 1] /\ k - 1 > read
    BY <1>1, <1>2, <1>8
  <2> QED BY <2>1
<1>9. Ahead(r, read) \subseteq Ahead(s, read) \cup {x, s[read]}
  <2> SUFFICES ASSUME NEW k \in 1..Len(r), k > read, r[k] # x, r[k] # s[read]
               PROVE  \E j \in 1..Len(s) : j > read /\ r[k] = s[j]
    BY DEF Ahead
  <2>1. \/ k < i /\ k \in 1..Len(s) /\ r[k] = s[k]
        \/ k > i /\ k - 1 \in 1..Len(s) /\ r[k] = s[k - 1]
    BY <1>1
  <2>2. k - 1 = read \/ k - 1 > read
    BY <1>2
  <2> QED BY <2>1, <2>2
<1> QED BY <1>1, <1>5, <1>6, <1>7, <1>8, <1>9

\* A deletion moves at most one message from the pages to come to those read.
LEMMA DeletionMoves ==
  ASSUME NEW T, NEW s \in Seq(T), NEW i \in 1..Len(s), IsInjective(s), NEW read \in Nat
  PROVE  LET r == RemoveAt(s, i)
         IN  /\ r \in Seq(T) /\ IsInjective(r) /\ ToSet(r) \subseteq ToSet(s)
             /\ Ahead(r, read) \subseteq Ahead(s, read)
             /\ i > read => Passed(r, read) \subseteq Passed(s, read)
             /\ \E y : Passed(r, read) \subseteq Passed(s, read) \cup {y}
<1> DEFINE r == RemoveAt(s, i)
<1>1. /\ r \in Seq(T) /\ Len(r) = Len(s) - 1
      /\ \A k \in 1..Len(r) :
           \/ k < i /\ k \in 1..Len(s) /\ r[k] = s[k]
           \/ k >= i /\ k + 1 \in 1..Len(s) /\ r[k] = s[k + 1]
  BY RemoveAtIs
<1> HIDE DEF r
<1>2. /\ DOMAIN r = 1..Len(r) /\ ToSet(r) = {r[k] : k \in 1..Len(r)}
      /\ DOMAIN s = 1..Len(s) /\ ToSet(s) = {s[k] : k \in 1..Len(s)}
      /\ Len(s) \in Nat /\ Len(r) \in Nat
  BY <1>1, SetOfSeq
<1>3. \A k, l \in 1..Len(s) : s[k] = s[l] => k = l
  BY <1>2 DEF IsInjective
<1>4. IsInjective(r)
  <2> SUFFICES ASSUME NEW k \in 1..Len(r), NEW l \in 1..Len(r), r[k] = r[l] PROVE k = l
    BY <1>2 DEF IsInjective
  <2>1. /\ \/ k < i /\ k \in 1..Len(s) /\ r[k] = s[k]
           \/ k >= i /\ k + 1 \in 1..Len(s) /\ r[k] = s[k + 1]
        /\ \/ l < i /\ l \in 1..Len(s) /\ r[l] = s[l]
           \/ l >= i /\ l + 1 \in 1..Len(s) /\ r[l] = s[l + 1]
    BY <1>1
  <2> QED BY <1>3, <2>1
<1>5. ToSet(r) \subseteq ToSet(s)
  BY <1>1, <1>2
<1>6. Ahead(r, read) \subseteq Ahead(s, read)
  <2> SUFFICES ASSUME NEW k \in 1..Len(r), k > read
               PROVE  \E j \in 1..Len(s) : j > read /\ r[k] = s[j]
    BY DEF Ahead
  <2>1. \/ k \in 1..Len(s) /\ r[k] = s[k]
        \/ k + 1 \in 1..Len(s) /\ r[k] = s[k + 1] /\ k + 1 > read
    BY <1>1
  <2> QED BY <2>1
<1>7. ASSUME i > read PROVE Passed(r, read) \subseteq Passed(s, read)
  <2> SUFFICES ASSUME NEW k \in 1..Len(r), k <= read
               PROVE  \E j \in 1..Len(s) : j <= read /\ r[k] = s[j]
    BY DEF Passed
  <2>1. k \in 1..Len(s) /\ r[k] = s[k]
    BY <1>1, <1>7
  <2> QED BY <2>1
<1>8. Passed(r, read) \subseteq Passed(s, read) \cup {s[read + 1]}
  <2> SUFFICES ASSUME NEW k \in 1..Len(r), k <= read, r[k] # s[read + 1]
               PROVE  \E j \in 1..Len(s) : j <= read /\ r[k] = s[j]
    BY DEF Passed
  <2>1. \/ k \in 1..Len(s) /\ r[k] = s[k]
        \/ k + 1 \in 1..Len(s) /\ r[k] = s[k + 1]
    BY <1>1
  <2>2. k + 1 = read + 1 \/ k + 1 <= read
    BY <1>2
  <2> QED BY <2>1, <2>2
<1> QED BY <1>1, <1>4, <1>5, <1>6, <1>7, <1>8 DEF r

\* Reading a page moves its messages from those to come to those read; a short
\* page is the last of the list.
LEMMA PageIs ==
  ASSUME NEW l \in Seq(Msgs), list = l, IsInjective(l), NEW p \in Nat
  PROVE  LET metas == GetMessageMetadataPage(p)
             read == p * PageSize
             next == (p + 1) * PageSize
         IN  /\ read \in Nat /\ next \in Nat
             /\ metas \in Seq(Msgs) /\ IsInjective(metas)
             /\ Passed(l, next) \subseteq Passed(l, read) \cup ToSet(metas)
             /\ Ahead(l, next) \subseteq Ahead(l, read) \ ToSet(metas)
             /\ ToSet(metas) \subseteq Ahead(l, read)
             /\ LastPage(metas) => ToSet(l) \subseteq Passed(l, next)
<1> DEFINE metas == GetMessageMetadataPage(p)
           read == p * PageSize
           next == (p + 1) * PageSize
           last == Smaller(next, Len(l))
<1>1. PageSize \in Nat /\ PageSize > 0
  BY BackfillConstants
<1>2. read \in Nat /\ next \in Nat /\ next = read + PageSize
  BY <1>1
<1>3. /\ DOMAIN l = 1..Len(l) /\ Len(l) \in Nat /\ ToSet(l) = {l[i] : i \in 1..Len(l)}
      /\ \A i \in 1..Len(l) : l[i] \in Msgs
  BY SetOfSeq, ElementOfSeq
<1>4. \A i, j \in 1..Len(l) : l[i] = l[j] => i = j
  BY <1>3 DEF IsInjective
<1>5. metas = SubSeq(l, read + 1, last)
  BY DEF GetMessageMetadataPage
<1> HIDE DEF metas, read, next
<1>6. last \in Nat /\ last <= Len(l) /\ last <= next /\ (last = Len(l) \/ last = next)
  BY <1>2, <1>3 DEF Smaller
<1> HIDE DEF last
<1>6a. Len(l) \in Nat
  BY <1>3
<1>6b. \A i \in (read + 1)..last : i \in 1..Len(l)
  BY <1>2, <1>6, <1>6a
<1>6c. \A j \in 1..Len(l) : j <= next /\ j > read => j \in (read + 1)..last
  BY <1>2, <1>6, <1>6a
<1>7. /\ metas \in Seq(Msgs) /\ Len(metas) = IF read + 1 <= last THEN last - read ELSE 0
      /\ \A i \in 1..(last - read) : metas[i] = l[read + i]
  <2>1. \A i \in (read + 1)..last : l[i] \in Msgs
    BY <1>3, <1>6b
  <2>2. /\ SubSeq(l, read + 1, last) \in Seq(Msgs)
        /\ Len(SubSeq(l, read + 1, last)) = IF read + 1 <= last THEN last - (read + 1) + 1 ELSE 0
        /\ \A i \in 1..(last - (read + 1) + 1) :
             SubSeq(l, read + 1, last)[i] = l[(read + 1) + i - 1]
    BY <1>2, <1>6, <2>1, SubSeqProperties
  <2>3. \A i \in 1..(last - read) :
          i \in 1..(last - (read + 1) + 1) /\ (read + 1) + i - 1 = read + i
    BY <1>2, <1>6
  <2>4. last - (read + 1) + 1 = last - read
    BY <1>2, <1>6
  <2> QED BY <1>5, <2>2, <2>3, <2>4
<1>8. /\ DOMAIN metas = 1..Len(metas) /\ Len(metas) \in Nat
      /\ ToSet(metas) = {metas[i] : i \in 1..Len(metas)}
  BY <1>7, SetOfSeq
<1>9. \A i \in 1..Len(metas) : read + i \in (read + 1)..last /\ metas[i] = l[read + i]
  BY <1>2, <1>6, <1>7, <1>8
<1>10. \A j \in (read + 1)..last : j - read \in 1..Len(metas) /\ metas[j - read] = l[j]
  <2> SUFFICES ASSUME NEW j \in (read + 1)..last
               PROVE  j - read \in 1..Len(metas) /\ metas[j - read] = l[j]
    OBVIOUS
  <2>1. j - read \in 1..(last - read) /\ read + (j - read) = j /\ read + 1 <= last
    BY <1>2, <1>6
  <2> QED BY <1>7, <2>1
<1>11. IsInjective(metas)
  <2> SUFFICES ASSUME NEW i \in 1..Len(metas), NEW j \in 1..Len(metas), metas[i] = metas[j]
               PROVE  i = j
    BY <1>8 DEF IsInjective
  <2>1. read + i \in 1..Len(l) /\ read + j \in 1..Len(l) /\ l[read + i] = l[read + j]
    BY <1>2, <1>6, <1>9, SMTT(30)
  <2>2. read + i = read + j
    BY <1>4, <2>1
  <2> QED BY <1>2, <2>2
<1>12. Passed(l, next) \subseteq Passed(l, read) \cup ToSet(metas)
  <2> SUFFICES ASSUME NEW j \in 1..Len(l), j <= next, j > read
               PROVE  l[j] \in ToSet(metas)
    BY <1>2 DEF Passed
  <2>1. j \in (read + 1)..last
    BY <1>6c
  <2> QED BY <1>8, <1>10, <2>1
<1>13. Ahead(l, next) \subseteq Ahead(l, read) \ ToSet(metas)
  <2> SUFFICES ASSUME NEW j \in 1..Len(l), j > next
               PROVE  j > read /\ \A i \in 1..Len(metas) : metas[i] # l[j]
    BY <1>8 DEF Ahead
  <2>1. j > read
    BY <1>1, <1>2
  <2>2. ASSUME NEW i \in 1..Len(metas), metas[i] = l[j] PROVE FALSE
    <3>1. read + i \in 1..Len(l) /\ l[read + i] = l[j] /\ read + i <= next
      BY <1>2, <1>6, <1>9, <2>2
    <3>2. read + i = j
      BY <1>4, <3>1
    <3> QED BY <1>2, <3>1, <3>2
  <2> QED BY <2>1, <2>2
<1>14. ToSet(metas) \subseteq Ahead(l, read)
  <2> SUFFICES ASSUME NEW i \in 1..Len(metas)
               PROVE  \E j \in 1..Len(l) : j > read /\ metas[i] = l[j]
    BY <1>8 DEF Ahead
  <2>1. read + i \in 1..Len(l) /\ read + i > read /\ metas[i] = l[read + i]
    BY <1>2, <1>6, <1>9
  <2> QED BY <2>1
<1>15. ASSUME LastPage(metas) PROVE ToSet(l) \subseteq Passed(l, next)
  <2>1. Len(metas) < PageSize
    BY <1>15 DEF LastPage
  <2>2. Len(metas) = IF read + 1 <= last THEN last - read ELSE 0
    BY <1>7
  <2>3. Len(l) <= next
    <3>1. CASE read + 1 <= last
      BY <1>1, <1>2, <1>6, <1>6a, <2>1, <2>2, <3>1
    <3>2. CASE ~(read + 1 <= last)
      BY <1>1, <1>2, <1>6, <1>6a, <3>2
    <3> QED BY <3>1, <3>2
  <2> QED BY <1>2, <1>3, <2>3 DEF Passed
<1> QED BY <1>2, <1>7, <1>11, <1>12, <1>13, <1>14, <1>15 DEF metas, read, next

-----------------------------------------------------------------------------
(* The inductive invariant: while the walk goes on, the deletions behind it *)
(* are as many as what they hid, and the arrivals as many as what was named *)
(* twice or is going to be.                                                 *)

Owed == {m \in ToSet(Initial) : InWindow(m)}
Hidden == (Passed(list, page * PageSize) \cap Owed) \ ToSet(kept)
Again == Ahead(list, page * PageSize) \cap ToSet(kept)
Extra(ids) == Len(ids) - Cardinality(ToSet(ids))

WalkInv ==
    /\ TypeOK
    /\ IsInjective(list)
    /\ ToSet(list) \cup ToSet(kept) \cup ToSet(Initial) \subseteq known
    /\ walk = "reading" =>
        /\ Cardinality(Hidden) <= slips
        /\ Extra(kept) + Cardinality(Again) <= pushes
    /\ EachDeletionHidesAtMostOne /\ NamedOnceInOrder

LEMMA WalkSets ==
  ASSUME NEW l \in Seq(Msgs), NEW read, NEW ids \in Seq(Msgs)
  PROVE  /\ IsFiniteSet(Passed(l, read)) /\ IsFiniteSet(Ahead(l, read)) /\ IsFiniteSet(ToSet(ids))
         /\ Passed(l, read) \subseteq ToSet(l) /\ Ahead(l, read) \subseteq ToSet(l)
         /\ Cardinality(ToSet(ids)) \in 0..Len(ids) /\ Len(ids) \in Nat
<1>1. IsFiniteSet(ToSet(l)) /\ ToSet(l) = {l[i] : i \in 1..Len(l)}
  BY SetOfSeq
<1>2. Passed(l, read) \subseteq ToSet(l) /\ Ahead(l, read) \subseteq ToSet(l)
  BY <1>1 DEF Passed, Ahead
<1>3. IsFiniteSet(Passed(l, read)) /\ IsFiniteSet(Ahead(l, read))
  BY <1>1, <1>2, FS_Subset
<1> QED BY <1>2, <1>3, SetOfSeq

\* Naming a page's messages hides none of them, and names twice only those that
\* were to be named again.
LEMMA NamingBalance ==
  ASSUME NEW K, NEW R, NEW A, NEW B, IsFiniteSet(K), IsFiniteSet(R), IsFiniteSet(A),
         B \subseteq A \ R, R \cap K \subseteq A
  PROVE  /\ IsFiniteSet(B \cap (K \cup R)) /\ IsFiniteSet(K \cup R)
         /\ Cardinality(R) - Cardinality(K \cup R) + Cardinality(B \cap (K \cup R))
              <= Cardinality(A \cap K) - Cardinality(K)
<1> DEFINE X == B \cap (K \cup R)
           Y == R \cap K
           Z == A \cap K
<1>1. IsFiniteSet(Z) /\ X \cup Y \in SUBSET Z /\ X \cap Y = {}
  <2>1. Z \in SUBSET A
    OBVIOUS
  <2> QED BY <2>1, FS_Subset
<1>2. IsFiniteSet(X) /\ IsFiniteSet(Y)
  BY <1>1, FS_Subset
<1>3. /\ IsFiniteSet(K \cup R)
      /\ Cardinality(K \cup R) = Cardinality(K) + Cardinality(R) - Cardinality(K \cap R)
  BY FS_Union
<1>4. K \cap R = Y
  OBVIOUS
<1> HIDE DEF X, Y, Z
<1>5. Cardinality(X \cup Y) = Cardinality(X) + Cardinality(Y) - Cardinality({})
  BY <1>1, <1>2, FS_Union
<1>6. Cardinality(X \cup Y) <= Cardinality(Z)
  BY <1>1, FS_Subset
<1>7. /\ Cardinality({}) = 0 /\ Cardinality(K) \in Nat /\ Cardinality(R) \in Nat
      /\ Cardinality(X) \in Nat /\ Cardinality(Y) \in Nat /\ Cardinality(Z) \in Nat
      /\ Cardinality(K \cup R) \in Nat
  BY <1>1, <1>2, <1>3, FS_CardinalityType, FS_EmptySet
<1>8. Cardinality(R) - Cardinality(K \cup R) + Cardinality(X) <= Cardinality(Z) - Cardinality(K)
  BY <1>3, <1>4, <1>5, <1>6, <1>7
<1> QED BY <1>2, <1>3, <1>8 DEF X, Z

LEMMA WalkTypes ==
  ASSUME WalkInv
  PROVE  /\ list \in Seq(Msgs) /\ kept \in Seq(Msgs) /\ page \in Nat /\ PageSize \in Nat
         /\ page * PageSize \in Nat /\ slips \in Nat /\ pushes \in Nat
         /\ IsFiniteSet(Hidden) /\ Cardinality(Hidden) \in Nat
         /\ IsFiniteSet(Again) /\ Cardinality(Again) \in Nat /\ Extra(kept) \in Nat
<1>1. /\ list \in Seq(Msgs) /\ page \in Nat /\ slips \in Nat /\ pushes \in Nat
      /\ kept \in Seq({m \in Msgs : InWindow(m)})
  BY DEF WalkInv, TypeOK
<1>2. kept \in Seq(Msgs)
  <2>1. {m \in Msgs : InWindow(m)} \subseteq Msgs
    OBVIOUS
  <2> QED BY <1>1, <2>1, SeqMonotonic
<1>3. PageSize \in Nat /\ page * PageSize \in Nat
  BY <1>1, BackfillConstants
<1>4. /\ IsFiniteSet(Passed(list, page * PageSize)) /\ IsFiniteSet(Ahead(list, page * PageSize))
      /\ Cardinality(ToSet(kept)) \in 0..Len(kept) /\ Len(kept) \in Nat
  BY <1>1, <1>2, WalkSets
<1>5. /\ Hidden \in SUBSET Passed(list, page * PageSize)
      /\ Again \in SUBSET Ahead(list, page * PageSize)
  BY DEF Hidden, Again
<1>6. /\ IsFiniteSet(Hidden) /\ Cardinality(Hidden) \in Nat
      /\ IsFiniteSet(Again) /\ Cardinality(Again) \in Nat
  BY <1>4, <1>5, FS_Subset, FS_CardinalityType
<1>7. Extra(kept) \in Nat
  BY <1>4 DEF Extra
<1> QED BY <1>1, <1>2, <1>3, <1>6, <1>7

\* What the steps that leave the walk's answer alone have to show.
LEMMA StillReading ==
  ASSUME WalkInv, TypeOK', IsInjective(list'), walk' # "done",
         ToSet(list') \cup ToSet(kept') \subseteq known', known \subseteq known',
         walk' = "reading" =>
           /\ Cardinality(Hidden') <= slips'
           /\ Extra(kept') + Cardinality(Again') <= pushes'
  PROVE  WalkInv'
<1>1. EachDeletionHidesAtMostOne' /\ NamedOnceInOrder'
  BY DEF EachDeletionHidesAtMostOne, NamedOnceInOrder
<1>2. ToSet(Initial) \subseteq known'
  BY DEF WalkInv
<1> QED BY <1>1, <1>2 DEF WalkInv

LEMMA PageKeeps ==
  ASSUME WalkInv, ReadPage
  PROVE  WalkInv'
<1> DEFINE W == {m \in Msgs : InWindow(m)}
           metas == GetMessageMetadataPage(page)
           read == page * PageSize
           next == (page + 1) * PageSize
           R == Retained(metas)
           all == kept \o R
           K == ToSet(kept)
           A == Ahead(list, read)
           B == Ahead(list, next)
<1>1. /\ list' = list /\ known' = known /\ page' = page + 1 /\ attempt' = attempt
      /\ slips' = slips /\ pushes' = pushes
      /\ walk = "reading"
      /\ \/ LastPage(metas) /\ kept' = Sorted(all) /\ walk' = "done"
         \/ ~LastPage(metas) /\ kept' = all /\ walk' = walk
  BY DEF ReadPage
<1>2. /\ list \in Seq(Msgs) /\ kept \in Seq(Msgs) /\ page \in Nat
      /\ IsFiniteSet(Hidden) /\ Cardinality(Hidden) \in Nat
      /\ slips \in Nat /\ pushes \in Nat /\ Extra(kept) \in Nat
  BY WalkTypes
<1>3. kept \in Seq(W) /\ attempt \in 1..MaxAttempts /\ known \subseteq Msgs
  BY DEF WalkInv, TypeOK
<1>4. IsInjective(list) /\ ToSet(list) \cup K \cup ToSet(Initial) \subseteq known
      /\ Cardinality(Hidden) <= slips /\ Extra(kept) + Cardinality(Again) <= pushes
  BY <1>1 DEF WalkInv
<1>5. /\ metas \in Seq(Msgs) /\ IsInjective(metas)
      /\ Passed(list, next) \subseteq Passed(list, read) \cup ToSet(metas)
      /\ B \subseteq A \ ToSet(metas)
      /\ ToSet(metas) \subseteq A
      /\ LastPage(metas) => ToSet(list) \subseteq Passed(list, next)
  BY <1>2, <1>4, PageIs
<1>6. /\ R \in Seq(W) /\ ToSet(R) = {m \in ToSet(metas) : InWindow(m)}
      /\ Len(R) = Cardinality(ToSet(R)) /\ IsFiniteSet(ToSet(R))
  <2> HIDE DEF metas, W
  <2> QED BY <1>5, RetainedIs DEF W
<1>7. /\ IsFiniteSet(A) /\ IsFiniteSet(K) /\ A \subseteq ToSet(list)
      /\ Cardinality(K) \in 0..Len(kept) /\ Len(kept) \in Nat
  BY <1>2, WalkSets
<1> HIDE DEF W, R
<1>8. all \in Seq(W) /\ Len(all) = Len(kept) + Len(R) /\ ToSet(all) = K \cup ToSet(R)
  <2>1. /\ all \in Seq(W) /\ Len(all) = Len(kept) + Len(R)
        /\ \A k \in 1..(Len(kept) + Len(R)) : all[k] =
             IF k <= Len(kept) THEN kept[k] ELSE R[k - Len(kept)]
    BY <1>3, <1>6, ConcatProperties
  <2>2. /\ Len(kept) \in Nat /\ Len(R) \in Nat
        /\ ToSet(kept) = {kept[i] : i \in 1..Len(kept)} /\ ToSet(R) = {R[i] : i \in 1..Len(R)}
    BY <1>3, <1>6, SetOfSeq
  <2>3. ToSet(all) = {all[i] : i \in 1..Len(all)}
    BY <2>1, SetOfSeq
  <2> HIDE DEF all
  <2>4. \A k \in 1..Len(kept) : k \in 1..Len(all) /\ all[k] = kept[k]
    BY <2>1, <2>2
  <2>5. \A k \in 1..Len(R) : Len(kept) + k \in 1..Len(all) /\ all[Len(kept) + k] = R[k]
    <3> SUFFICES ASSUME NEW k \in 1..Len(R)
                 PROVE  Len(kept) + k \in 1..Len(all) /\ all[Len(kept) + k] = R[k]
      OBVIOUS
    <3>1. /\ Len(kept) + k \in 1..(Len(kept) + Len(R)) /\ ~(Len(kept) + k <= Len(kept))
          /\ (Len(kept) + k) - Len(kept) = k
      BY <2>2
    <3> QED BY <2>1, <3>1
  <2>6. \A k \in 1..Len(all) :
          \/ k \in 1..Len(kept) /\ all[k] = kept[k]
          \/ k - Len(kept) \in 1..Len(R) /\ all[k] = R[k - Len(kept)]
    BY <2>1, <2>2
  <2>7. ToSet(all) \subseteq K \cup ToSet(R)
    BY <2>2, <2>3, <2>6
  <2>8. K \cup ToSet(R) \subseteq ToSet(all)
    BY <2>2, <2>3, <2>4, <2>5
  <2> QED BY <2>1, <2>7, <2>8
<1> HIDE DEF all
<1>9. (Passed(list, next) \cap Owed) \ ToSet(all) \in SUBSET Hidden
  <2> SUFFICES ASSUME NEW m \in Passed(list, next), m \in Owed, m \notin ToSet(all)
               PROVE  m \in Hidden
    OBVIOUS
  <2>1. m \notin ToSet(metas)
    BY <1>6, <1>8 DEF Owed
  <2> QED BY <1>5, <1>8, <2>1 DEF Hidden
<1>10. Cardinality((Passed(list, next) \cap Owed) \ ToSet(all)) <= slips
  <2> DEFINE H == (Passed(list, next) \cap Owed) \ ToSet(all)
  <2>1. H \in SUBSET Hidden
    BY <1>9
  <2> HIDE DEF H
  <2>2. IsFiniteSet(H) /\ Cardinality(H) <= Cardinality(Hidden) /\ Cardinality(H) \in Nat
    BY <1>2, <2>1, FS_Subset, FS_CardinalityType
  <2>3. Cardinality(H) <= slips
    BY <1>2, <1>4, <2>2
  <2> QED BY <2>3 DEF H
<1>11. Extra(all) + Cardinality(B \cap ToSet(all)) <= pushes
       /\ Cardinality(B \cap ToSet(all)) \in Nat /\ Extra(all) \in Int
  <2> DEFINE r == ToSet(R)
             X == B \cap (K \cup r)
  <2>1. B \subseteq A \ r /\ r \cap K \subseteq A
    BY <1>5, <1>6
  <2>2. Again = A \cap K
    BY DEF Again
  <2> HIDE DEF r, K, A, B
  <2>3. /\ IsFiniteSet(X) /\ IsFiniteSet(K \cup r)
        /\ Cardinality(r) - Cardinality(K \cup r) + Cardinality(X)
              <= Cardinality(A \cap K) - Cardinality(K)
    BY <1>6, <1>7, <2>1, NamingBalance DEF r
  <2>4. /\ Cardinality(X) \in Nat /\ Cardinality(K \cup r) \in Nat /\ Cardinality(r) \in Nat
        /\ Cardinality(K) \in Nat /\ Cardinality(A \cap K) \in Nat
    <3>1. A \cap K \in SUBSET A
      OBVIOUS
    <3>2. IsFiniteSet(A \cap K)
      BY <1>7, <3>1, FS_Subset
    <3> QED BY <1>6, <1>7, <2>3, <3>2, FS_CardinalityType DEF r
  <2>5. Extra(all) = (Len(kept) + Cardinality(r)) - Cardinality(K \cup r)
    <3>1. ToSet(all) = K \cup r /\ Len(all) = Len(kept) + Len(R)
      BY <1>8 DEF r, K
    <3>2. Len(R) = Cardinality(r)
      BY <1>6 DEF r
    <3>3. Extra(all) = Len(all) - Cardinality(ToSet(all))
      BY DEF Extra
    <3> QED BY <3>1, <3>2, <3>3, Zenon
  <2>6. Len(kept) - Cardinality(K) + Cardinality(A \cap K) <= pushes
    BY <1>4, <2>2 DEF Extra, K
  <2>7. X = B \cap ToSet(all)
    BY <1>8 DEF r
  <2> HIDE DEF X
  <2>8. Extra(all) + Cardinality(X) <= pushes /\ Extra(all) \in Int
    <3>1. Len(kept) \in Nat /\ pushes \in Nat
      BY <1>2, <1>7
    <3>2. Cardinality(r) - Cardinality(K \cup r) + Cardinality(X)
            <= Cardinality(A \cap K) - Cardinality(K)
      BY <2>3
    <3> QED BY <2>4, <2>5, <2>6, <3>1, <3>2
  <2> QED BY <2>4, <2>7, <2>8
<1>12. page + 1 \in Nat /\ ToSet(all) \subseteq known
  <2>1. ToSet(R) \subseteq ToSet(list)
    BY <1>5, <1>6, <1>7
  <2> QED BY <1>2, <1>4, <1>8, <2>1
<1>13. CASE LastPage(metas) /\ kept' = Sorted(all) /\ walk' = "done"
  <2>1. /\ kept' \in Seq(W) /\ Len(kept') = Len(all) /\ ToSet(kept') = ToSet(all)
        /\ \A k \in 1..(Len(kept') - 1) : Time[kept'[k]] <= Time[kept'[k + 1]]
    <3>1. W \in SUBSET Msgs
      BY DEF W
    <3> QED BY <1>8, <1>13, <3>1, SortedIs
  <2>2. TypeOK'
    BY <1>1, <1>2, <1>3, <1>12, <1>13, <2>1 DEF TypeOK, W, InWindow
  <2>3. Missed' \in SUBSET ((Passed(list, next) \cap Owed) \ ToSet(all))
    BY <1>1, <1>5, <1>13, <2>1 DEF Missed, Owed, InWindow
  <2>4. EachDeletionHidesAtMostOne'
    <3> DEFINE H == (Passed(list, next) \cap Owed) \ ToSet(all)
    <3>1. IsFiniteSet(H) /\ Cardinality(H) <= slips
      BY <1>2, <1>9, <1>10, FS_Subset
    <3>2. Missed' \in SUBSET H
      BY <2>3
    <3> HIDE DEF H
    <3>3. IsFiniteSet(Missed') /\ Cardinality(Missed') <= Cardinality(H)
      BY <3>1, <3>2, FS_Subset
    <3>4. Cardinality(Missed') \in Nat /\ Cardinality(H) \in Nat
      BY <3>1, <3>3, FS_CardinalityType
    <3>5. Cardinality(Missed') <= slips'
      BY <1>1, <1>2, <3>1, <3>3, <3>4
    <3> QED BY <3>5 DEF EachDeletionHidesAtMostOne
  <2>5. NamedOnceInOrder'
    <3>1. Len(kept') - Cardinality(ToSet(kept')) <= pushes'
      BY <1>1, <1>2, <1>11, <2>1 DEF Extra
    <3> QED BY <2>1, <3>1 DEF NamedOnceInOrder
  <2>6. walk' # "reading"
    BY <1>13
  <2> QED BY <1>1, <1>4, <1>12, <2>1, <2>2, <2>4, <2>5, <2>6 DEF WalkInv
<1>14. CASE ~LastPage(metas) /\ kept' = all /\ walk' = walk
  <2>1. TypeOK'
    BY <1>1, <1>2, <1>3, <1>8, <1>12, <1>14 DEF TypeOK, W, InWindow
  <2>2. page' * PageSize = next
    BY <1>1
  <2>3. Hidden' = (Passed(list, next) \cap Owed) \ ToSet(all)
    BY <1>1, <1>14, <2>2 DEF Hidden, Owed, InWindow
  <2>4. Again' = B \cap ToSet(all)
    BY <1>1, <1>14, <2>2 DEF Again
  <2>5. /\ Cardinality(Hidden') <= slips'
        /\ Extra(kept') + Cardinality(Again') <= pushes'
    BY <1>1, <1>10, <1>11, <1>14, <2>3, <2>4
  <2>6. walk' # "done" /\ ToSet(list') \cup ToSet(kept') \subseteq known' /\ known \subseteq known'
    BY <1>1, <1>4, <1>12, <1>14
  <2> QED BY <1>1, <1>4, <2>1, <2>5, <2>6, StillReading
<1> QED BY <1>1, <1>13, <1>14

LEMMA ArriveKeeps ==
  ASSUME WalkInv, Arrive
  PROVE  WalkInv'
<1> DEFINE read == page * PageSize
           K == ToSet(kept)
<1>1. PICK m \in Msgs \ known, i \in 1..(Len(list) + 1) :
        /\ list' = InsertAt(list, i, m)
        /\ known' = known \cup {m}
        /\ pushes' = IF Behind(i) THEN pushes + 1 ELSE pushes
  BY DEF Arrive
<1>2. /\ page' = page /\ kept' = kept /\ attempt' = attempt /\ walk' = walk /\ slips' = slips
      /\ walk = "reading"
  BY DEF Arrive, walkVars
<1>3. /\ list \in Seq(Msgs) /\ kept \in Seq(Msgs) /\ read \in Nat
      /\ slips \in Nat /\ pushes \in Nat
      /\ IsFiniteSet(Hidden) /\ Cardinality(Hidden) \in Nat
      /\ IsFiniteSet(Again) /\ Cardinality(Again) \in Nat /\ Extra(kept) \in Nat
  BY WalkTypes
<1>4. /\ IsInjective(list) /\ ToSet(list) \cup K \cup ToSet(Initial) \subseteq known
      /\ Cardinality(Hidden) <= slips /\ Extra(kept) + Cardinality(Again) <= pushes
      /\ known \subseteq Msgs /\ TypeOK
  BY <1>2 DEF WalkInv, TypeOK
<1>5. m \in Msgs \ ToSet(list) /\ m \notin K /\ m \notin Owed
  BY <1>1, <1>4 DEF Owed
<1> HIDE DEF read
<1>6. /\ list' \in Seq(Msgs) /\ IsInjective(list') /\ ToSet(list') \subseteq ToSet(list) \cup {m}
      /\ Passed(list', read) \subseteq Passed(list, read) \cup {m}
      /\ i > read => Ahead(list', read) \subseteq Ahead(list, read) \cup {m}
      /\ \E y : Ahead(list', read) \subseteq Ahead(list, read) \cup {m, y}
  <2> DEFINE x == m
  <2>1. /\ list \in Seq(Msgs) /\ IsInjective(list) /\ read \in Nat
        /\ x \in Msgs /\ x \notin ToSet(list) /\ i \in 1..(Len(list) + 1)
        /\ list' = InsertAt(list, i, x)
    BY <1>1, <1>3, <1>4, <1>5
  <2> HIDE DEF x, K
  <2>2. /\ list' \in Seq(Msgs) /\ IsInjective(list') /\ ToSet(list') \subseteq ToSet(list) \cup {x}
    BY <2>1, ArrivalMoves
  <2>3. Passed(list', read) \subseteq Passed(list, read) \cup {x}
    BY <2>1, ArrivalMoves
  <2>4. i > read => Ahead(list', read) \subseteq Ahead(list, read) \cup {x}
    BY <2>1, ArrivalMoves
  <2>5. Ahead(list', read) \subseteq Ahead(list, read) \cup {x, list[read]}
    BY <2>1, ArrivalMoves
  <2> QED BY <2>2, <2>3, <2>4, <2>5 DEF x
<1>7. Hidden' = (Passed(list', read) \cap Owed) \ K /\ Again' = Ahead(list', read) \cap K
  BY <1>2 DEF Hidden, Again, Owed, InWindow, read
<1>8. Cardinality(Hidden') <= slips'
  <2>1. Hidden' \in SUBSET Hidden
    BY <1>5, <1>6, <1>7 DEF Hidden, read
  <2>2. IsFiniteSet(Hidden') /\ Cardinality(Hidden') <= Cardinality(Hidden)
    BY <1>3, <2>1, FS_Subset
  <2>3. Cardinality(Hidden') \in Nat
    BY <2>2, FS_CardinalityType
  <2> QED BY <1>2, <1>3, <1>4, <2>2, <2>3
<1>9. /\ Cardinality(Again') \in Nat
      /\ Cardinality(Again') <= Cardinality(Again) + (IF Behind(i) THEN 1 ELSE 0)
  <2>1. CASE Behind(i)
    <3>1. PICK y : Ahead(list', read) \subseteq Ahead(list, read) \cup {m, y}
      BY <1>6
    <3>2. Again' \in SUBSET (Again \cup {y})
      BY <1>5, <1>7, <3>1 DEF Again, read
    <3>3. /\ IsFiniteSet(Again \cup {y})
          /\ Cardinality(Again \cup {y}) =
               IF y \in Again THEN Cardinality(Again) ELSE Cardinality(Again) + 1
      BY <1>3, FS_AddElement
    <3>4. IsFiniteSet(Again') /\ Cardinality(Again') <= Cardinality(Again \cup {y})
      BY <3>2, <3>3, FS_Subset
    <3>5. Cardinality(Again') \in Nat
      BY <3>4, FS_CardinalityType
    <3> QED BY <1>3, <2>1, <3>3, <3>4, <3>5
  <2>2. CASE ~Behind(i)
    <3>1. i > read
      BY <1>3, <2>2 DEF Behind, read
    <3>2. Again' \in SUBSET Again
      BY <1>5, <1>6, <1>7, <3>1 DEF Again, read
    <3>3. IsFiniteSet(Again') /\ Cardinality(Again') <= Cardinality(Again)
      BY <1>3, <3>2, FS_Subset
    <3>4. Cardinality(Again') \in Nat
      BY <3>3, FS_CardinalityType
    <3> QED BY <1>3, <2>2, <3>3, <3>4
  <2> QED BY <2>1, <2>2
<1>10. Extra(kept') + Cardinality(Again') <= pushes' /\ pushes' \in Nat
  BY <1>1, <1>2, <1>3, <1>4, <1>9
<1>11. ToSet(list') \cup ToSet(kept') \subseteq known' /\ known \subseteq known' /\ known' \subseteq Msgs
  BY <1>1, <1>2, <1>4, <1>6
<1>12. TypeOK'
  BY <1>2, <1>4, <1>6, <1>10, <1>11 DEF TypeOK, InWindow
<1> QED BY <1>2, <1>6, <1>8, <1>10, <1>11, <1>12, StillReading

LEMMA DeleteKeeps ==
  ASSUME WalkInv, Delete
  PROVE  WalkInv'
<1> DEFINE read == page * PageSize
           K == ToSet(kept)
<1>1. PICK i \in 1..Len(list) :
        /\ list' = RemoveAt(list, i)
        /\ slips' = IF Behind(i) THEN slips + 1 ELSE slips
  BY DEF Delete
<1>2. /\ page' = page /\ kept' = kept /\ attempt' = attempt /\ walk' = walk /\ pushes' = pushes
      /\ known' = known /\ walk = "reading"
  BY DEF Delete, walkVars
<1>3. /\ list \in Seq(Msgs) /\ kept \in Seq(Msgs) /\ read \in Nat
      /\ slips \in Nat /\ pushes \in Nat
      /\ IsFiniteSet(Hidden) /\ Cardinality(Hidden) \in Nat
      /\ IsFiniteSet(Again) /\ Cardinality(Again) \in Nat /\ Extra(kept) \in Nat
  BY WalkTypes
<1>4. /\ IsInjective(list) /\ ToSet(list) \cup K \cup ToSet(Initial) \subseteq known
      /\ Cardinality(Hidden) <= slips /\ Extra(kept) + Cardinality(Again) <= pushes
      /\ known \subseteq Msgs /\ TypeOK
  BY <1>2 DEF WalkInv, TypeOK
<1> HIDE DEF read
<1>5. /\ list' \in Seq(Msgs) /\ IsInjective(list') /\ ToSet(list') \subseteq ToSet(list)
      /\ Ahead(list', read) \subseteq Ahead(list, read)
      /\ i > read => Passed(list', read) \subseteq Passed(list, read)
      /\ \E y : Passed(list', read) \subseteq Passed(list, read) \cup {y}
  BY <1>1, <1>3, <1>4, DeletionMoves
<1>6. Hidden' = (Passed(list', read) \cap Owed) \ K /\ Again' = Ahead(list', read) \cap K
  BY <1>2 DEF Hidden, Again, Owed, InWindow, read
<1>7. Extra(kept') + Cardinality(Again') <= pushes'
  <2>1. Again' \in SUBSET Again
    BY <1>5, <1>6 DEF Again, read
  <2>2. IsFiniteSet(Again') /\ Cardinality(Again') <= Cardinality(Again)
    BY <1>3, <2>1, FS_Subset
  <2>3. Cardinality(Again') \in Nat
    BY <2>2, FS_CardinalityType
  <2> QED BY <1>2, <1>3, <1>4, <2>2, <2>3
<1>8. /\ Cardinality(Hidden') \in Nat
      /\ Cardinality(Hidden') <= Cardinality(Hidden) + (IF Behind(i) THEN 1 ELSE 0)
  <2>1. CASE Behind(i)
    <3>1. PICK y : Passed(list', read) \subseteq Passed(list, read) \cup {y}
      BY <1>5
    <3>2. Hidden' \in SUBSET (Hidden \cup {y})
      BY <1>6, <3>1 DEF Hidden, read
    <3>3. /\ IsFiniteSet(Hidden \cup {y})
          /\ Cardinality(Hidden \cup {y}) =
               IF y \in Hidden THEN Cardinality(Hidden) ELSE Cardinality(Hidden) + 1
      BY <1>3, FS_AddElement
    <3>4. IsFiniteSet(Hidden') /\ Cardinality(Hidden') <= Cardinality(Hidden \cup {y})
      BY <3>2, <3>3, FS_Subset
    <3>5. Cardinality(Hidden') \in Nat
      BY <3>4, FS_CardinalityType
    <3> QED BY <1>3, <2>1, <3>3, <3>4, <3>5
  <2>2. CASE ~Behind(i)
    <3>1. i > read
      BY <1>3, <2>2 DEF Behind, read
    <3>2. Hidden' \in SUBSET Hidden
      BY <1>5, <1>6, <3>1 DEF Hidden, read
    <3>3. IsFiniteSet(Hidden') /\ Cardinality(Hidden') <= Cardinality(Hidden)
      BY <1>3, <3>2, FS_Subset
    <3>4. Cardinality(Hidden') \in Nat
      BY <3>3, FS_CardinalityType
    <3> QED BY <1>3, <2>2, <3>3, <3>4
  <2> QED BY <2>1, <2>2
<1>9. Cardinality(Hidden') <= slips' /\ slips' \in Nat
  BY <1>1, <1>3, <1>4, <1>8
<1>10. ToSet(list') \cup ToSet(kept') \subseteq known' /\ known \subseteq known'
  BY <1>2, <1>4, <1>5
<1>11. TypeOK'
  BY <1>2, <1>4, <1>5, <1>9 DEF TypeOK, InWindow
<1> QED BY <1>2, <1>5, <1>7, <1>9, <1>10, <1>11, StillReading

\* Nothing is behind a walk that starts.
LEMMA FreshWalk ==
  ASSUME NEW l \in Seq(Msgs)
  PROVE  /\ Passed(l, 0 * PageSize) = {} /\ ToSet(<<>>) = {} /\ Len(<<>>) = 0
         /\ Extra(<<>>) = 0 /\ Cardinality({}) = 0
         /\ \A W : <<>> \in Seq(W)
<1>1. 0 * PageSize = 0
  BY BackfillConstants
<1>2. Passed(l, 0) = {}
  BY DEF Passed
<1>3. ToSet(<<>>) = {} /\ Len(<<>>) = 0 /\ \A W : <<>> \in Seq(W)
  BY DEF ToSet
<1>4. Cardinality({}) = 0
  BY FS_EmptySet
<1>5. Extra(<<>>) = 0
  <2>1. Extra(<<>>) = Len(<<>>) - Cardinality(ToSet(<<>>))
    BY DEF Extra
  <2>2. Extra(<<>>) = 0 - 0
    BY <1>3, <1>4, <2>1
  <2> QED BY <2>2
<1> QED BY <1>1, <1>2, <1>3, <1>4, <1>5

LEMMA RetryKeeps ==
  ASSUME WalkInv, Retry
  PROVE  WalkInv'
<1>1. /\ page' = 0 /\ kept' = <<>> /\ attempt' = attempt + 1 /\ attempt < MaxAttempts
      /\ slips' = 0 /\ pushes' = 0 /\ list' = list /\ known' = known /\ walk' = walk
      /\ walk = "reading"
  BY DEF Retry, StartOver
<1>2. /\ list \in Seq(Msgs) /\ IsInjective(list) /\ known \subseteq Msgs
      /\ ToSet(list) \subseteq known /\ attempt \in 1..MaxAttempts
  BY DEF WalkInv, TypeOK
<1>3. /\ Passed(list, 0 * PageSize) = {} /\ ToSet(<<>>) = {} /\ Len(<<>>) = 0
      /\ Extra(<<>>) = 0 /\ Cardinality({}) = 0
      /\ <<>> \in Seq({m \in Msgs : InWindow(m)})
  BY <1>2, FreshWalk
<1>4. Hidden' = {} /\ Again' = {}
  BY <1>1, <1>3 DEF Hidden, Again
<1>5. Extra(kept') = 0
  BY <1>1, <1>3
<1>6. attempt' \in 1..MaxAttempts
  BY <1>1, <1>2, BackfillConstants
<1>7. TypeOK'
  BY <1>1, <1>2, <1>3, <1>6 DEF TypeOK, InWindow
<1>8. /\ ToSet(list') \cup ToSet(kept') \subseteq known' /\ known \subseteq known'
      /\ Cardinality(Hidden') <= slips' /\ Extra(kept') + Cardinality(Again') <= pushes'
  BY <1>1, <1>2, <1>3, <1>4, <1>5
<1> QED BY <1>1, <1>2, <1>7, <1>8, StillReading

LEMMA FailKeeps ==
  ASSUME WalkInv, Fail
  PROVE  WalkInv'
<1>1. /\ walk' = "failed" /\ kept' = <<>> /\ list' = list /\ known' = known
      /\ page' = page /\ attempt' = attempt /\ slips' = slips /\ pushes' = pushes
  BY DEF Fail
<1>2. list \in Seq(Msgs) /\ IsInjective(list) /\ ToSet(list) \subseteq known /\ TypeOK
  BY DEF WalkInv, TypeOK
<1>3. ToSet(<<>>) = {} /\ <<>> \in Seq({m \in Msgs : InWindow(m)})
  BY <1>2, FreshWalk
<1>4. TypeOK'
  BY <1>1, <1>2, <1>3 DEF TypeOK, InWindow
<1>5. ToSet(list') \cup ToSet(kept') \subseteq known' /\ known \subseteq known'
  BY <1>1, <1>2, <1>3
<1> QED BY <1>1, <1>2, <1>4, <1>5, StillReading

LEMMA WalkInvInit == Init => WalkInv
<1> SUFFICES ASSUME Init PROVE WalkInv
  OBVIOUS
<1>1. /\ list = Initial /\ known = ToSet(Initial) /\ page = 0 /\ kept = <<>> /\ attempt = 1
      /\ walk = "reading" /\ slips = 0 /\ pushes = 0
  BY DEF Init
<1>2. Initial \in Seq(Msgs) /\ IsInjective(Initial) /\ 1 \in 1..MaxAttempts
  BY BackfillConstants
<1>3. /\ Passed(list, 0 * PageSize) = {} /\ ToSet(<<>>) = {} /\ Len(<<>>) = 0
      /\ Extra(<<>>) = 0 /\ Cardinality({}) = 0
      /\ <<>> \in Seq({m \in Msgs : InWindow(m)})
  BY <1>1, <1>2, FreshWalk
<1>4. ToSet(Initial) \subseteq Msgs
  BY <1>2, SetOfSeq
<1>5. TypeOK
  BY <1>1, <1>2, <1>3, <1>4 DEF TypeOK
<1>6. Hidden = {} /\ Again = {} /\ Extra(kept) = 0
  BY <1>1, <1>3 DEF Hidden, Again
<1>7. EachDeletionHidesAtMostOne /\ NamedOnceInOrder
  BY <1>1 DEF EachDeletionHidesAtMostOne, NamedOnceInOrder
<1> QED BY <1>1, <1>2, <1>3, <1>5, <1>6, <1>7 DEF WalkInv

LEMMA WalkInvNext == WalkInv /\ [Next]_vars => WalkInv'
<1> SUFFICES ASSUME WalkInv, [Next]_vars PROVE WalkInv'
  OBVIOUS
<1>1. CASE ReadPage
  BY <1>1, PageKeeps
<1>2. CASE Retry
  BY <1>2, RetryKeeps
<1>3. CASE Fail
  BY <1>3, FailKeeps
<1>4. CASE Arrive
  BY <1>4, ArriveKeeps
<1>5. CASE Delete
  BY <1>5, DeleteKeeps
<1>6. CASE UNCHANGED vars
  BY <1>6 DEF vars, walkVars, WalkInv, TypeOK, Hidden, Again, Extra, Owed, InWindow, Missed,
              EachDeletionHidesAtMostOne, NamedOnceInOrder
<1> QED BY <1>1, <1>2, <1>3, <1>4, <1>5, <1>6 DEF Next

\* The balance the walk keeps, page by page, while others add and delete.
THEOREM WalkInvHolds == Spec => []WalkInv
<1> QED BY WalkInvInit, WalkInvNext, PTL DEF Spec

-----------------------------------------------------------------------------
(* What the balance comes to when collectBackfillIDs returns.              *)

\* Every id the walk keeps is of the window, in each attempt and in the answer.
THEOREM WalkTyped == Spec => []TypeOK
<1>1. WalkInv => TypeOK
  BY DEF WalkInv
<1> QED BY <1>1, WalkInvHolds, PTL

\* The backfill misses at most one message of its window for each deletion behind
\* the page it had reached: paging by number never skips without one.
THEOREM DeletionsBoundMisses == Spec => []EachDeletionHidesAtMostOne
<1>1. WalkInv => EachDeletionHidesAtMostOne
  BY DEF WalkInv
<1> QED BY <1>1, WalkInvHolds, PTL

\* The backfill names at most one message twice for each arrival behind the page
\* it had reached, and its answer is oldest first.
THEOREM ArrivalsBoundRepeats == Spec => []NamedOnceInOrder
<1>1. WalkInv => NamedOnceInOrder
  BY DEF WalkInv
<1> QED BY <1>1, WalkInvHolds, PTL

=============================================================================
