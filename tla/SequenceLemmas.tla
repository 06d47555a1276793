---------------------------- MODULE SequenceLemmas ----------------------------
(***************************************************************************)
(* What the operators on queues (the offers of ClassQuota, the entries of  *)
(* PlayerScores) leave in a sequence, for sequences over any set.          *)
(***************************************************************************)
EXTENDS SequencesExt, Integers, FiniteSetTheorems, SequenceTheorems, WellFoundedInduction, TLAPS

\* A non-empty set of natural numbers has a least element.
LEMMA LeastElement ==
    ASSUME NEW S \in SUBSET Nat, S # {}
    PROVE  Min(S) \in S /\ \A m \in S : Min(S) <= m
<1> DEFINE Below == OpToRel(<, Nat)
<1>1. IsWellFoundedOn(Below, Nat)
  BY NatLessThanWellFounded
<1> HIDE DEF Below
<1>2. PICK n \in S : \A m \in S : ~(<<m, n>> \in Below)
  BY <1>1, WFMin
<1>3. ASSUME NEW m \in S
      PROVE  n <= m
  <2>1. m < n => <<m, n>> \in Below
    BY DEF Below, OpToRel
  <2>2. ~(m < n)
    BY <1>2, <2>1
  <2> QED
    BY <2>2
<1> QED
  BY <1>3 DEF Min

\* The sequence q without its k-th element.
LEMMA RemoveAtIs ==
    ASSUME NEW S, NEW q \in Seq(S), NEW k \in 1..Len(q)
    PROVE  /\ RemoveAt(q, k) \in Seq(S)
           /\ Len(RemoveAt(q, k)) = Len(q) - 1
           /\ \A i \in 1..Len(q) - 1 : RemoveAt(q, k)[i] = IF i < k THEN q[i] ELSE q[i + 1]
<1> DEFINE front == SubSeq(q, 1, k - 1)
           rest == SubSeq(q, k + 1, Len(q))
           left == RemoveAt(q, k)
<1>1. Len(q) \in Nat /\ k \in Nat /\ 1 <= k /\ k <= Len(q)
  BY LenProperties
<1>2. (\A i \in 1..k - 1 : q[i] \in S) /\ (\A i \in k + 1..Len(q) : q[i] \in S)
  BY <1>1, ElementOfSeq
<1>3. /\ front \in Seq(S) /\ Len(front) = k - 1
      /\ \A i \in 1..k - 1 : front[i] = q[i]
  <2>1. /\ front \in Seq(S) /\ Len(front) = IF 1 <= k - 1 THEN (k - 1) - 1 + 1 ELSE 0
        /\ \A i \in 1..(k - 1) - 1 + 1 : front[i] = q[1 + i - 1]
    BY <1>1, <1>2, SubSeqProperties
  <2> HIDE DEF front
  <2>2. Len(front) = IF 1 <= k - 1 THEN (k - 1) - 1 + 1 ELSE 0
    BY <2>1
  <2>3. Len(front) = k - 1
    BY <1>1, <2>2
  <2>4. ASSUME NEW i \in 1..k - 1
        PROVE  front[i] = q[i]
    <3>1. i \in 1..(k - 1) - 1 + 1 /\ 1 + i - 1 = i
      BY <1>1
    <3>. QED
      BY <2>1, <3>1
  <2>. QED
    BY <2>1, <2>3, <2>4
<1>4. /\ rest \in Seq(S) /\ Len(rest) = Len(q) - k
      /\ \A i \in 1..Len(q) - k : rest[i] = q[k + i]
  <2>1. /\ rest \in Seq(S)
        /\ Len(rest) = IF k + 1 <= Len(q) THEN Len(q) - (k + 1) + 1 ELSE 0
        /\ \A i \in 1..Len(q) - (k + 1) + 1 : rest[i] = q[k + 1 + i - 1]
    BY <1>1, <1>2, SubSeqProperties
  <2> HIDE DEF rest
  <2>2. Len(rest) = IF k + 1 <= Len(q) THEN Len(q) - (k + 1) + 1 ELSE 0
    BY <2>1
  <2>3. Len(rest) = Len(q) - k
    BY <1>1, <2>2
  <2>4. ASSUME NEW i \in 1..Len(q) - k
        PROVE  rest[i] = q[k + i]
    <3>1. i \in 1..Len(q) - (k + 1) + 1 /\ k + 1 + i - 1 = k + i
      BY <1>1
    <3>. QED
      BY <2>1, <3>1
  <2>. QED
    BY <2>1, <2>3, <2>4
<1>5. left = front \o rest
  BY DEF RemoveAt
<1> HIDE DEF front, rest, left
<1>6. /\ left \in Seq(S) /\ Len(left) = Len(front) + Len(rest)
      /\ \A i \in 1..Len(front) + Len(rest) :
            left[i] = IF i <= Len(front) THEN front[i] ELSE rest[i - Len(front)]
  BY <1>3, <1>4, <1>5, ConcatProperties
<1>7. Len(left) = Len(q) - 1
  BY <1>1, <1>3, <1>4, <1>6
<1>8. ASSUME NEW i \in 1..Len(q) - 1, i < k
      PROVE  left[i] = q[i]
  <2>1. i \in 1..k - 1 /\ i \in 1..Len(front) + Len(rest) /\ i <= Len(front)
    BY <1>1, <1>3, <1>4, <1>8
  <2>. QED
    BY <1>3, <1>6, <2>1
<1>9. ASSUME NEW i \in 1..Len(q) - 1, ~(i < k)
      PROVE  left[i] = q[i + 1]
  <2>1. left[i] = rest[i - (k - 1)] /\ i - (k - 1) \in 1..Len(q) - k
    <3>1. i \in 1..Len(front) + Len(rest) /\ ~(i <= Len(front))
          /\ i - (k - 1) \in 1..Len(q) - k
      BY <1>1, <1>3, <1>4, <1>9
    <3>2. left[i] = rest[i - Len(front)]
      BY <1>6, <3>1
    <3>. QED
      BY <1>3, <3>1, <3>2
  <2>2. rest[i - (k - 1)] = q[k + (i - (k - 1))] /\ k + (i - (k - 1)) = i + 1
    BY <1>1, <1>4, <2>1
  <2>. QED
    BY <2>1, <2>2
<1>. QED
  BY <1>6, <1>7, <1>8, <1>9 DEF left
-------------------------------------------------------------------------------
(***************************************************************************)
(* How often a sequence contains an element.                               *)
(***************************************************************************)
Places(q, c) == {i \in DOMAIN q : q[i] = c}
Count(q, c) == Cardinality(Places(q, c))

LEMMA PlacesType ==
    ASSUME NEW S, NEW q \in Seq(S), NEW c
    PROVE  /\ Places(q, c) \subseteq 1..Len(q) /\ IsFiniteSet(Places(q, c))
           /\ Count(q, c) \in Nat
<1>1. Len(q) \in Nat /\ Places(q, c) \subseteq 1..Len(q)
  BY LenProperties DEF Places
<1>2. IsFiniteSet(1..Len(q))
  BY <1>1, FS_Interval
<1>3. IsFiniteSet(Places(q, c))
  BY <1>1, <1>2, FS_Subset
<1>. QED
  BY <1>1, <1>3, FS_CardinalityType DEF Count

\* One more of e at the end of the sequence
LEMMA AppendCount ==
    ASSUME NEW S, NEW q \in Seq(S), NEW e \in S, NEW c
    PROVE  Count(Append(q, e), c) = Count(q, c) + (IF c = e THEN 1 ELSE 0)
<1>1. /\ Append(q, e) \in Seq(S) /\ Len(Append(q, e)) = Len(q) + 1
      /\ \A i \in 1..Len(q) : Append(q, e)[i] = q[i]
      /\ Append(q, e)[Len(q) + 1] = e
      /\ Len(q) \in Nat /\ DOMAIN q = 1..Len(q) /\ DOMAIN Append(q, e) = 1..Len(q) + 1
  BY AppendProperties, LenProperties
<1>2. Places(Append(q, e), c) = Places(q, c) \cup (IF c = e THEN {Len(q) + 1} ELSE {})
  BY <1>1 DEF Places
<1>3. IsFiniteSet(Places(q, c)) /\ Len(q) + 1 \notin Places(q, c) /\ Count(q, c) \in Nat
  BY <1>1, PlacesType
<1>4. Cardinality(Places(q, c) \cup {Len(q) + 1}) = Cardinality(Places(q, c)) + 1
  BY <1>3, FS_AddElement
<1>5. Places(q, c) \cup {} = Places(q, c)
  OBVIOUS
<1>6. CASE c = e
  BY <1>2, <1>4, <1>6 DEF Count
<1>7. CASE c # e
  BY <1>2, <1>3, <1>5, <1>7 DEF Count
<1>. QED
  BY <1>6, <1>7

\* The first e taken out of the sequence, if there is one
LEMMA RemoveFirstCount ==
    ASSUME NEW S, NEW q \in Seq(S), NEW e, NEW c
    PROVE  /\ RemoveFirst(q, e) \in Seq(S)
           /\ Count(RemoveFirst(q, e), c) \in Nat
           /\ Count(RemoveFirst(q, e), c) <= Count(q, c)
           /\ c = e /\ Count(q, c) > 0 => Count(RemoveFirst(q, e), c) < Count(q, c)
<1>1. Count(q, c) \in Nat /\ IsFiniteSet(Places(q, c))
  BY PlacesType
<1> DEFINE at == {i \in 1..Len(q) : q[i] = e}
<1>2. CASE at = {}
  <2>1. RemoveFirst(q, e) = q
    BY <1>2 DEF RemoveFirst
  <2>2. c = e => Places(q, c) = {}
    BY <1>2, LenProperties DEF Places
  <2>3. c = e => Count(q, c) = 0
    BY <2>2, FS_EmptySet DEF Count
  <2>. QED
    BY <1>1, <2>1, <2>3
<1>3. CASE at # {}
  <2> DEFINE k == Min(at)
             left == RemoveFirst(q, e)
             back == [i \in Places(left, c) |-> IF i < k THEN i ELSE i + 1]
  <2>1. k \in at
    <3>1. at \in SUBSET Nat
      OBVIOUS
    <3>. QED
      BY <1>3, <3>1, LeastElement
  <2>2. left = RemoveAt(q, k)
    BY <1>3 DEF RemoveFirst, SelectInSeq
  <2>3. Len(q) \in Nat /\ k \in 1..Len(q) /\ q[k] = e /\ DOMAIN q = 1..Len(q)
    BY <2>1, LenProperties
  <2> HIDE DEF k, at
  <2>4. /\ left \in Seq(S) /\ Len(left) = Len(q) - 1
        /\ \A i \in 1..Len(q) - 1 : left[i] = IF i < k THEN q[i] ELSE q[i + 1]
    BY <2>2, <2>3, RemoveAtIs
  <2> HIDE DEF left
  <2>5. DOMAIN left = 1..Len(q) - 1
    BY <2>4, LenProperties
  <2>6. back \in Injection(Places(left, c), Places(q, c) \ {k})
    <3>1. \A i \in Places(left, c) : back[i] \in Places(q, c) \ {k}
      BY <2>3, <2>4, <2>5 DEF Places
    <3>2. \A i, j \in Places(left, c) : back[i] = back[j] => i = j
      BY <2>3, <2>4, <2>5 DEF Places
    <3>. QED
      BY <3>1, <3>2 DEF Injection, IsInjective
  <2>7. /\ IsFiniteSet(Places(q, c) \ {k})
        /\ Cardinality(Places(q, c) \ {k})
             = IF k \in Places(q, c) THEN Count(q, c) - 1 ELSE Count(q, c)
    BY <1>1, FS_RemoveElement DEF Count
  <2>8. Count(left, c) <= Cardinality(Places(q, c) \ {k})
    BY <2>6, <2>7, FS_Injection DEF Count
  <2>9. c = e => k \in Places(q, c)
    BY <2>3 DEF Places
  <2>10. Count(left, c) \in Nat
    BY <2>4, PlacesType
  <2>. QED
    BY <1>1, <2>4, <2>7, <2>8, <2>9, <2>10 DEF left
<1>. QED
  BY <1>2, <1>3
-------------------------------------------------------------------------------
(***************************************************************************)
(* r is what stands in q at the places K, in the same order: its i-th      *)
(* element comes from the place f[i].                                      *)
(***************************************************************************)
Picks(f, r, q, K) ==
    /\ K \subseteq DOMAIN q /\ f \in [DOMAIN r -> K]
    /\ \A k \in K : \E i \in DOMAIN r : f[i] = k
    /\ \A i, j \in DOMAIN r : i < j => f[i] < f[j]
    /\ \A i \in DOMAIN r : r[i] = q[f[i]]

\* Erasing an element picks the others.
LEMMA RemoveAtPicks ==
    ASSUME NEW S, NEW q \in Seq(S), NEW k \in 1..Len(q)
    PROVE  \E f : Picks(f, RemoveAt(q, k), q, DOMAIN q \ {k})
<1> DEFINE r == RemoveAt(q, k)
           f == [i \in 1..Len(q) - 1 |-> IF i < k THEN i ELSE i + 1]
<1>1. /\ r \in Seq(S) /\ Len(r) = Len(q) - 1
      /\ \A i \in 1..Len(q) - 1 : r[i] = IF i < k THEN q[i] ELSE q[i + 1]
  BY RemoveAtIs
<1> HIDE DEF r
<1>2. DOMAIN r = 1..Len(q) - 1 /\ DOMAIN q = 1..Len(q) /\ Len(q) \in Nat
  BY <1>1, LenProperties
<1>3. f \in [DOMAIN r -> DOMAIN q \ {k}]
  BY <1>2
<1>4. ASSUME NEW m \in DOMAIN q \ {k}
      PROVE  \E i \in DOMAIN r : f[i] = m
  <2>1. CASE m < k
    <3>1. m \in DOMAIN r /\ f[m] = m
      BY <1>2, <2>1
    <3>. QED
      BY <3>1
  <2>2. CASE ~(m < k)
    <3>1. m - 1 \in DOMAIN r /\ f[m - 1] = m
      BY <1>2, <2>2
    <3>. QED
      BY <3>1
  <2>. QED
    BY <2>1, <2>2
<1>5. \A i, j \in DOMAIN r : i < j => f[i] < f[j]
  BY <1>2
<1>6. \A i \in DOMAIN r : r[i] = q[f[i]]
  BY <1>1, <1>2
<1> HIDE DEF f
<1>7. Picks(f, r, q, DOMAIN q \ {k})
  BY <1>3, <1>4, <1>5, <1>6 DEF Picks
<1>. QED
  BY <1>7 DEF r

\* Erasing the first n elements picks the ones after them.
LEMMA RestPicks ==
    ASSUME NEW S, NEW q \in Seq(S), NEW n \in 0..Len(q)
    PROVE  /\ SubSeq(q, n + 1, Len(q)) \in Seq(S)
           /\ Len(SubSeq(q, n + 1, Len(q))) = Len(q) - n
           /\ \E f : Picks(f, SubSeq(q, n + 1, Len(q)), q, DOMAIN q \ (1..n))
<1> DEFINE r == SubSeq(q, n + 1, Len(q))
           f == [i \in 1..Len(q) - n |-> i + n]
<1>1. Len(q) \in Nat /\ n \in Nat /\ n <= Len(q) /\ DOMAIN q = 1..Len(q)
  BY LenProperties
<1>2. /\ r \in Seq(S) /\ Len(r) = Len(q) - n
      /\ \A i \in 1..Len(q) - n : r[i] = q[i + n]
  <2>1. \A i \in n + 1..Len(q) : q[i] \in S
    BY <1>1, ElementOfSeq
  <2>2. /\ r \in Seq(S)
        /\ Len(r) = IF n + 1 <= Len(q) THEN Len(q) - (n + 1) + 1 ELSE 0
        /\ \A i \in 1..Len(q) - (n + 1) + 1 : r[i] = q[n + 1 + i - 1]
    BY <1>1, <2>1, SubSeqProperties
  <2> HIDE DEF r
  <2>3. Len(r) = IF n + 1 <= Len(q) THEN Len(q) - (n + 1) + 1 ELSE 0
    BY <2>2
  <2>4. Len(r) = Len(q) - n
    <3>1. Len(q) \in Nat /\ n \in Nat /\ n <= Len(q)
      BY <1>1
    <3>2. CASE n = Len(q)
      BY <2>3, <3>1, <3>2
    <3>3. CASE n # Len(q)
      BY <2>3, <3>1, <3>3
    <3>. QED
      BY <3>2, <3>3
  <2>5. ASSUME NEW i \in 1..Len(q) - n
        PROVE  r[i] = q[i + n]
    <3>1. i \in 1..Len(q) - (n + 1) + 1 /\ n + 1 + i - 1 = i + n
      BY <1>1
    <3>. QED
      BY <2>2, <3>1
  <2>. QED
    BY <2>2, <2>4, <2>5
<1> HIDE DEF r
<1>3. DOMAIN r = 1..Len(q) - n
  BY <1>2, LenProperties
<1>4. f \in [DOMAIN r -> DOMAIN q \ (1..n)]
  BY <1>1, <1>3
<1>5. ASSUME NEW m \in DOMAIN q \ (1..n)
      PROVE  \E i \in DOMAIN r : f[i] = m
  <2>1. m - n \in DOMAIN r /\ f[m - n] = m
    BY <1>1, <1>3
  <2>. QED
    BY <2>1
<1>6. \A i, j \in DOMAIN r : i < j => f[i] < f[j]
  BY <1>1, <1>3
<1>7. \A i \in DOMAIN r : r[i] = q[f[i]]
  BY <1>2, <1>3
<1> HIDE DEF f
<1>8. Picks(f, r, q, DOMAIN q \ (1..n))
  BY <1>4, <1>5, <1>6, <1>7 DEF Picks
<1>. QED
  BY <1>2, <1>8 DEF r
===============================================================================
