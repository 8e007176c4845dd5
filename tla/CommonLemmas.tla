---------------------------- MODULE CommonLemmas ----------------------------
(* Facts that the proof modules share: division with remainder, the least    *)
(* element of a set, induction and definitions by recursion without          *)
(* operators as parameters, and counting in sequences.                       *)
EXTENDS Integers, Sequences, FiniteSets, FiniteSetTheorems, SequenceTheorems,
        WellFoundedInduction, TLAPS

(* Division with remainder. *)
LEMMA Division ==
  ASSUME NEW a \in Int, NEW n \in Int, n > 0
  PROVE  \E q \in Int, r \in Int : a = q * n + r /\ 0 <= r /\ r < n /\ a % n = r
<1>1. a % n \in 0 .. n - 1
  OBVIOUS
<1>2. a \div n \in Int
  OBVIOUS
<1>3. a = (a \div n) * n + (a % n)
  OBVIOUS
<1>. DEFINE q == a \div n
            r == a % n
<1>4. q \in Int /\ r \in Int /\ 0 <= r /\ r < n /\ a % n = r
  BY <1>1, <1>2
<1>5. a = q * n + r
  BY <1>3
<1>. HIDE DEF q, r
<1>. QED
  BY <1>4, <1>5

(* A remainder is determined by its quotient and its range. *)
LEMMA Remainder ==
  ASSUME NEW a \in Int, NEW n \in Int, n > 0, NEW q \in Int, NEW r \in Int, 0 <= r, r < n,
         a = q * n + r
  PROVE  a % n = r
OBVIOUS

(* Products over sums, for terms the provers do not multiply out. *)
LEMMA Distributive ==
  ASSUME NEW n \in Int, NEW p \in Int, NEW q \in Int
  PROVE  /\ (p - q) * n = p * n - q * n
         /\ (p + q) * n = p * n + q * n
         /\ p * n \in Int /\ q * n \in Int
OBVIOUS

(* Numbers are congruent when they differ by a multiple. *)
LEMMA Congruent ==
  ASSUME NEW a \in Int, NEW b \in Int, NEW n \in Int, n > 0
  PROVE  a % n = b % n <=> \E k \in Int : a = b + k * n
<1>1. PICK p \in Int, r \in Int : a = p * n + r /\ 0 <= r /\ r < n /\ a % n = r
  BY Division
<1>2. PICK q \in Int, s \in Int : b = q * n + s /\ 0 <= s /\ s < n /\ b % n = s
  BY Division
<1>4. ASSUME r = s
      PROVE  \E k \in Int : a = b + k * n
  <2>1. p - q \in Int /\ p * n \in Int /\ q * n \in Int /\ (p - q) * n = p * n - q * n
    BY Distributive
  <2>2. a = b + (p - q) * n
    BY <1>1, <1>2, <1>4, <2>1
  <2>. QED
    BY <2>1, <2>2
<1>5. ASSUME NEW k \in Int, a = b + k * n
      PROVE  r = s
  <2>1. q + k \in Int /\ q * n \in Int /\ k * n \in Int /\ (q + k) * n = q * n + k * n
    BY Distributive
  <2>2. a = (q + k) * n + s
    BY <1>2, <1>5, <2>1
  <2>3. a % n = s
    BY <1>2, <2>1, <2>2, Remainder
  <2>. QED
    BY <1>1, <2>3
<1>. QED
  BY <1>1, <1>2, <1>4, <1>5

(* Reducing a part of a sum changes nothing. *)
LEMMA ReducedSum ==
  ASSUME NEW a \in Int, NEW b \in Int, NEW n \in Int, n > 0
  PROVE  ((a % n) + b) % n = (a + b) % n
<1>1. PICK q \in Int, r \in Int : a = q * n + r /\ 0 <= r /\ r < n /\ a % n = r
  BY Division
<1>2. q * n \in Int
  OBVIOUS
<1>3. a + b = (r + b) + q * n
  BY <1>1, <1>2
<1>4. (a + b) % n = (r + b) % n
  <2>. DEFINE x == a + b
              y == r + b
  <2>1. x \in Int /\ y \in Int /\ x = y + q * n
    BY <1>3
  <2>. HIDE DEF x, y
  <2>2. x % n = y % n
    BY <2>1, Congruent
  <2>. QED
    BY <2>2 DEF x, y
<1>5. a % n = r
  BY <1>1
<1>. QED
  BY ONLY <1>4, <1>5, Zenon

-----------------------------------------------------------------------------
(* A non-empty set of naturals has a least element: its initial segments are *)
(* finite, and strict inclusion among finite sets is well-founded.           *)
LEMMA LeastOf ==
  ASSUME NEW S, S \in SUBSET Nat, S # {}
  PROVE  \E x \in S : \A j \in S : x <= j
<1>. DEFINE Below(k) == {j \in S : j <= k}
            Segments == {Below(k) : k \in S}
<1>1. Segments \subseteq FiniteSubsetsOf(Nat)
  <2>. SUFFICES ASSUME NEW k \in S
                PROVE  IsFiniteSet(Below(k)) /\ Below(k) \subseteq Nat
    BY DEF FiniteSubsetsOf
  <2>. QED
    BY FS_BoundedSetOfNaturals
<1>2. Segments # {}
  OBVIOUS
<1>3. \E U \in Segments : \A T \in Segments : ~ (<<T, U>> \in StrictSubsetOrdering(Nat))
  <2>. HIDE DEF Segments
  <2>. QED
    BY <1>1, <1>2, FS_StrictSubsetOrderingWellFounded, WFMin
<1>4. PICK x \in S : \A k \in S : ~ (<<Below(k), Below(x)>> \in StrictSubsetOrdering(Nat))
  BY <1>3
<1>5. ASSUME NEW k \in S, k < x
      PROVE  FALSE
  <2>0. k \in Nat /\ x \in Nat /\ \A j \in S : j \in Nat
    OBVIOUS
  <2>1. \A j \in S : j <= k => j <= x
    BY <1>5, <2>0
  <2>2. x <= x /\ ~ (x <= k)
    BY <1>5, <2>0
  <2>3. Below(k) \subseteq Below(x) /\ x \in Below(x) /\ x \notin Below(k)
    BY <2>1, <2>2
  <2>4. <<Below(k), Below(x)>> \in StrictSubsetOrdering(Nat)
    BY <2>3 DEF StrictSubsetOrdering
  <2>. QED
    BY <1>4, <2>4
<1>6. \A k \in S : x <= k
  BY <1>5
<1>. QED
  BY <1>6

(* Induction: a set that holds 0 and with every number its successor.        *)
LEMMA AllNaturals ==
  ASSUME NEW S, S \in SUBSET Nat, 0 \in S, \A k \in S : k + 1 \in S
  PROVE  S = Nat
<1>. DEFINE R == Nat \ S
<1>1. SUFFICES ASSUME R # {} PROVE FALSE
  OBVIOUS
<1>2. PICK x \in R : \A j \in R : x <= j
  BY <1>1, LeastOf
<1>3. x \in Nat /\ x # 0
  OBVIOUS
<1>4. x - 1 \in Nat /\ x - 1 \in S /\ (x - 1) + 1 = x
  <2>1. x - 1 \in Nat /\ ~(x <= x - 1) /\ (x - 1) + 1 = x
    BY <1>3
  <2>. QED
    BY <1>2, <2>1
<1>. QED
  BY <1>4

(* The values of a recursion on 0 .. n that begins with b: h is one step.     *)
StepsFrom(f, b, h, n) ==
  f[0] = b /\ \A k \in 0 .. n : k # 0 => f[k] = h[<<f[k - 1], k>>]

(* Recursion over an initial segment of the naturals.                         *)
LEMMA Recursion ==
  ASSUME NEW X, NEW b \in X, NEW h \in [X \X Nat -> X], NEW n \in Nat
  PROVE  \E f \in [0 .. n -> X] : StepsFrom(f, b, h, n)
<1>. DEFINE Solves(f, m) == \A k \in 0 .. m : f[k] = IF k = 0 THEN b ELSE h[<<f[k - 1], k>>]
            S == {m \in Nat : \E f \in [0 .. m -> X] : Solves(f, m)}
<1>1. 0 \in S
  <2>1. [k \in 0 .. 0 |-> b] \in [0 .. 0 -> X] /\ Solves([k \in 0 .. 0 |-> b], 0)
    OBVIOUS
  <2>. QED
    BY <2>1
<1>2. ASSUME NEW m \in S
      PROVE  m + 1 \in S
  <2>1. PICK f \in [0 .. m -> X] : Solves(f, m)
    BY <1>2
  <2>. DEFINE g == [k \in 0 .. m + 1 |-> IF k <= m THEN f[k] ELSE h[<<f[m], m + 1>>]]
  <2>2. m \in Nat /\ m + 1 \in Nat
    OBVIOUS
  <2>3. f[m] \in X /\ h[<<f[m], m + 1>>] \in X
    BY <2>2
  <2>4. g \in [0 .. m + 1 -> X]
    BY <2>2, <2>3
  <2>5. \A k \in 0 .. m : g[k] = f[k]
    BY <2>2
  <2>6. g[m + 1] = h[<<f[m], m + 1>>]
    BY <2>2
  <2>. HIDE DEF g
  <2>7. ASSUME NEW k \in 0 .. m + 1
        PROVE  g[k] = IF k = 0 THEN b ELSE h[<<g[k - 1], k>>]
    <3>1. CASE k = m + 1
      <4>1. k # 0 /\ k - 1 = m /\ m \in 0 .. m
        BY <2>2, <3>1
      <4>. QED
        BY <2>5, <2>6, <3>1, <4>1
    <3>2. CASE k \in 0 .. m /\ k = 0
      BY <2>1, <2>5, <3>2
    <3>3. CASE k \in 0 .. m /\ k # 0
      <4>1. k - 1 \in 0 .. m
        BY <2>2, <3>3
      <4>. QED
        BY <2>1, <2>5, <3>3, <4>1
    <3>. QED
      BY <2>2, <3>1, <3>2, <3>3
  <2>. QED
    BY <2>2, <2>4, <2>7
<1>3. n \in S
  <2>. HIDE DEF S
  <2>1. S \subseteq Nat
    BY DEF S
  <2>. QED
    BY <1>1, <1>2, <2>1, AllNaturals
<1>4. PICK f \in [0 .. n -> X] : Solves(f, n)
  BY <1>3
<1>5. StepsFrom(f, b, h, n)
  <2>1. f[0] = b
    <3>1. 0 \in 0 .. n
      OBVIOUS
    <3>2. \A k \in 0 .. n : k = 0 => f[k] = b
      BY <1>4
    <3>. QED
      BY <3>1, <3>2
  <2>2. ASSUME NEW k \in 0 .. n, k # 0
        PROVE  f[k] = h[<<f[k - 1], k>>]
    BY <1>4, <2>2
  <2>. QED
    BY <2>1, <2>2 DEF StepsFrom
<1>. QED
  BY <1>5

-----------------------------------------------------------------------------
(* How many places of a sequence hold an element of S.                       *)
Hits(q, S) == Cardinality({k \in DOMAIN q : q[k] \in S})

(* The places are finitely many.                                             *)
LEMMA HitsFacts ==
  ASSUME NEW X, NEW q \in Seq(X), NEW S
  PROVE  /\ IsFiniteSet({k \in DOMAIN q : q[k] \in S})
         /\ Hits(q, S) \in Nat
         /\ Hits(q, S) = 0 <=> \A k \in DOMAIN q : q[k] \notin S
         /\ q = <<>> => Hits(q, S) = 0
<1>. DEFINE P == {k \in DOMAIN q : q[k] \in S}
<1>1. Len(q) \in Nat /\ DOMAIN q = 1 .. Len(q)
  OBVIOUS
<1>2. IsFiniteSet(1 .. Len(q)) /\ P \in SUBSET (1 .. Len(q))
  BY <1>1, FS_Interval
<1>3. IsFiniteSet(P)
  BY ONLY <1>2, FS_Subset
<1>4. Cardinality(P) \in Nat /\ (Cardinality(P) = 0 <=> P = {})
  BY <1>3, FS_CardinalityType, FS_EmptySet
<1>5. P = {} <=> \A k \in DOMAIN q : q[k] \notin S
  OBVIOUS
<1>6. q = <<>> => P = {}
  OBVIOUS
<1>. QED
  BY <1>3, <1>4, <1>5, <1>6 DEF Hits

(* One element is added at the end.                                          *)
LEMMA HitsAppend ==
  ASSUME NEW X, NEW q \in Seq(X), NEW m \in X, NEW S
  PROVE  Hits(Append(q, m), S) = Hits(q, S) + (IF m \in S THEN 1 ELSE 0)
<1>. DEFINE P == {k \in DOMAIN q : q[k] \in S}
            s == Append(q, m)
            R == {k \in DOMAIN s : s[k] \in S}
            n == Len(q)
<1>1. n \in Nat /\ DOMAIN q = 1 .. n /\ DOMAIN s = 1 .. n + 1 /\ s[n + 1] = m
      /\ \A k \in 1 .. n : s[k] = q[k]
  OBVIOUS
<1>. HIDE DEF s, n
<1>2. R = IF m \in S THEN P \cup {n + 1} ELSE P
  BY <1>1
<1>3. n + 1 \notin P
  BY <1>1
<1>4. IsFiniteSet(P) /\ Cardinality(P) \in Nat
  BY HitsFacts DEF Hits
<1>. HIDE DEF P, R
<1>5. Cardinality(R) = Cardinality(P) + (IF m \in S THEN 1 ELSE 0)
  <2>1. IsFiniteSet(P) => Cardinality(P \cup {n + 1}) = IF n + 1 \in P THEN Cardinality(P) ELSE Cardinality(P) + 1
    BY FS_AddElement
  <2>. QED
    BY <1>2, <1>3, <1>4, <2>1
<1>. QED
  BY <1>5 DEF Hits, P, R, s

(* The first element is taken.                                               *)
LEMMA HitsTail ==
  ASSUME NEW X, NEW q \in Seq(X), q # <<>>, NEW S
  PROVE  Hits(q, S) = Hits(Tail(q), S) + (IF Head(q) \in S THEN 1 ELSE 0)
<1>. DEFINE P == {k \in DOMAIN q : q[k] \in S}
            t == Tail(q)
            R == {k \in DOMAIN t : t[k] \in S}
            B == {k \in P : k > 1}
            f == [k \in R |-> k + 1]
            n == Len(q)
<1>1. n \in Nat /\ n > 0 /\ DOMAIN q = 1 .. n /\ t \in Seq(X) /\ DOMAIN t = 1 .. n - 1
      /\ Head(q) = q[1] /\ \A k \in 1 .. n - 1 : t[k] = q[k + 1]
  OBVIOUS
<1>. HIDE DEF t, n
<1>2. f \in Bijection(R, B)
  <2>1. \A k \in R : k \in Nat /\ k + 1 \in B
    BY <1>1
  <2>2. \A k \in B : k - 1 \in R /\ (k - 1) + 1 = k
    <3>. SUFFICES ASSUME NEW k \in B
                  PROVE  k - 1 \in R /\ (k - 1) + 1 = k
      OBVIOUS
    <3>1. k - 1 \in 1 .. n - 1 /\ (k - 1) + 1 = k
      BY <1>1
    <3>. QED
      BY <1>1, <3>1
  <2>. HIDE DEF R, B
  <2>3. f \in [R -> B] /\ \A k \in R : f[k] = k + 1
    BY <2>1
  <2>4. \A j, k \in R : f[j] = f[k] => j = k
    BY <2>1, <2>3
  <2>5. \A k \in B : \E j \in R : f[j] = k
    BY <2>2, <2>3
  <2>. HIDE DEF f
  <2>. QED
    BY <2>3, <2>4, <2>5 DEF Bijection, Injection, Surjection, IsInjective
<1>3. IsFiniteSet(R) /\ Cardinality(R) \in Nat
  BY <1>1, HitsFacts DEF Hits
<1>4. P = IF Head(q) \in S THEN B \cup {1} ELSE B
  BY <1>1
<1>5. 1 \notin B
  OBVIOUS
<1>. HIDE DEF P, R, B, f
<1>6. IsFiniteSet(B) /\ Cardinality(B) = Cardinality(R)
  BY <1>2, <1>3, FS_Bijection DEF ExistsBijection
<1>7. Cardinality(P) = Cardinality(R) + (IF Head(q) \in S THEN 1 ELSE 0)
  <2>1. IsFiniteSet(B) => Cardinality(B \cup {1}) = IF 1 \in B THEN Cardinality(B) ELSE Cardinality(B) + 1
    BY FS_AddElement
  <2>. QED
    BY <1>3, <1>4, <1>5, <1>6, <2>1
<1>. QED
  BY <1>7 DEF Hits, P, R, t

(* The end is cut off.                                                       *)
LEMMA HitsPrefix ==
  ASSUME NEW X, NEW q \in Seq(X), NEW n \in 0 .. Len(q), NEW S
  PROVE  SubSeq(q, 1, n) \in Seq(X) /\ Hits(SubSeq(q, 1, n), S) <= Hits(q, S)
<1>. DEFINE P == {k \in DOMAIN q : q[k] \in S}
            t == SubSeq(q, 1, n)
            R == {k \in DOMAIN t : t[k] \in S}
<1>1. Len(q) \in Nat /\ n \in Nat /\ n <= Len(q) /\ DOMAIN q = 1 .. Len(q)
      /\ t \in Seq(X) /\ DOMAIN t = 1 .. n /\ \A k \in 1 .. n : t[k] = q[k]
  OBVIOUS
<1>. HIDE DEF t
<1>2. R \in SUBSET P
  BY <1>1
<1>3. IsFiniteSet(P)
  BY HitsFacts
<1>4. Cardinality(R) <= Cardinality(P)
  BY ONLY <1>2, <1>3, FS_Subset
<1>. QED
  BY <1>1, <1>4 DEF Hits, t
=============================================================================
