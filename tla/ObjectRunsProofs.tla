------------------------- MODULE ObjectRunsProofs ---------------------------
(***************************************************************************)
(* Lemmas the proofs of several components share: runs of object numbers   *)
(* and counting over disjoint sets; induction on naturals, on sequences    *)
(* and on finite sets, stated for sets in place of predicates; sequences   *)
(* cut, joined and flattened; ranks among numbers; and sums over finite    *)
(* sets.                                                                   *)
(***************************************************************************)
EXTENDS ObjectRuns, Integers, SequencesExt, Functions, SequenceTheorems,
        FiniteSetTheorems, WellFoundedInduction, TLAPS

-----------------------------------------------------------------------------
(* Runs of object numbers, and counting *)

\* A run continued by the run after it is one run.
LEMMA RunConcat ==
  ASSUME NEW j \in Nat, NEW k \in Nat, j <= k
  PROVE  Run(1, j) \o Run(j + 1, k) = Run(1, k)
BY DEF Run, SaturatingSub

\* A run of naturals is a sequence of naturals.
LEMMA RunType ==
  ASSUME NEW a \in Nat, NEW b \in Nat, a >= 1
  PROVE  Run(a, b) \in Seq(Nat)
<1>1. SaturatingSub(b + 1, a) \in Nat
  BY DEF SaturatingSub
<1>2. \A i \in 1..SaturatingSub(b + 1, a) : a + i - 1 \in Nat
  BY <1>1
<1>3. QED
  BY <1>1, <1>2 DEF Run

\* Appending the next number extends a run by one.
LEMMA RunAppend ==
  ASSUME NEW k \in Nat
  PROVE  Append(Run(1, k), k + 1) = Run(1, k + 1)
BY DEF Run, SaturatingSub

\* The cardinality of a disjoint union is the sum of the cardinalities.
LEMMA DisjointUnion ==
  ASSUME NEW S, NEW T, IsFiniteSet(S), IsFiniteSet(T), S \cap T = {}
  PROVE  /\ IsFiniteSet(S \cup T)
         /\ Cardinality(S \cup T) = Cardinality(S) + Cardinality(T)
<1> DEFINE m == Cardinality(S)
           n == Cardinality(T)
<1>1. m \in Nat /\ n \in Nat
  BY FS_CardinalityType
<1>2. PICK f : f \in Bijection(1..m, S)
  BY FS_CardinalityType DEF ExistsBijection
<1>3. PICK g : g \in Bijection(1..n, T)
  BY FS_CardinalityType DEF ExistsBijection
<1> DEFINE h == [i \in 1..(m + n) |-> IF i <= m THEN f[i] ELSE g[i - m]]
<1> HIDE DEF m, n
<1>4. f \in [1..m -> S] /\ (\A i, j \in 1..m : f[i] = f[j] => i = j)
      /\ (\A s \in S : \E i \in 1..m : f[i] = s)
  BY <1>2 DEF Bijection, Injection, IsInjective, Surjection
<1>5. g \in [1..n -> T] /\ (\A i, j \in 1..n : g[i] = g[j] => i = j)
      /\ (\A t \in T : \E i \in 1..n : g[i] = t)
  BY <1>3 DEF Bijection, Injection, IsInjective, Surjection
<1>6. h \in [1..(m + n) -> S \cup T]
  BY <1>1, <1>4, <1>5
<1>7. \A i, j \in 1..(m + n) : h[i] = h[j] => i = j
  BY <1>1, <1>4, <1>5
<1>8. \A x \in S \cup T : \E i \in 1..(m + n) : h[i] = x
  <2>1. ASSUME NEW s \in S PROVE \E i \in 1..(m + n) : h[i] = s
    BY <1>1, <1>4
  <2>2. ASSUME NEW t \in T PROVE \E i \in 1..(m + n) : h[i] = t
    <3>1. PICK j \in 1..n : g[j] = t
      BY <1>5
    <3>2. j + m \in 1..(m + n) /\ ~(j + m <= m) /\ (j + m) - m = j
      BY <1>1
    <3>3. QED
      BY <3>1, <3>2
  <2>3. QED
    BY <2>1, <2>2
<1>9. h \in Bijection(1..(m + n), S \cup T)
  BY <1>6, <1>7, <1>8 DEF Bijection, Injection, IsInjective, Surjection
<1>10. IsFiniteSet(1..(m + n)) /\ Cardinality(1..(m + n)) = m + n
  <2>1. 1 \in Int /\ m + n \in Int /\ m + n \in Nat
    BY <1>1
  <2>2. /\ IsFiniteSet(1..(m + n))
        /\ Cardinality(1..(m + n)) = IF 1 > m + n THEN 0 ELSE (m + n) - 1 + 1
    BY <2>1, FS_Interval, Zenon
  <2>3. QED
    BY <2>1, <2>2
<1>11. ExistsBijection(1..(m + n), S \cup T)
  BY <1>9 DEF ExistsBijection
<1>12. QED
  BY <1>10, <1>11, FS_Bijection DEF m, n

\* Intervals are finite.
LEMMA IntervalFinite == \A a, b \in Int : IsFiniteSet(a..b)
BY FS_Interval, Zenon

\* Numbers up to n paired with numbers up to k form a finite set.
LEMMA NumberPairsFinite ==
  ASSUME NEW n \in Nat, NEW k \in Nat
  PROVE  IsFiniteSet((0..n) \X (1..k))
<1> DEFINE P == (0..n) \X (1..k)
           R == 0..(n * (k + 1) + k)
           f == [p \in P |-> p[1] * (k + 1) + p[2]]
<1>1. \A i \in 0..n : \A j \in 1..k : i * (k + 1) + j \in R
  <2> SUFFICES ASSUME NEW i \in 0..n, NEW j \in 1..k
               PROVE  i * (k + 1) + j \in R
    OBVIOUS
  <2>1. i * (k + 1) \in Nat /\ n * (k + 1) \in Nat
    OBVIOUS
  <2>2. (n - i) * (k + 1) >= 0
    OBVIOUS
  <2>3. i * (k + 1) <= n * (k + 1)
    BY <2>2
  <2>4. QED
    BY <2>1, <2>3
<1>2. \A i, x \in 0..n : \A j, y \in 1..k :
         i * (k + 1) + j = x * (k + 1) + y => i = x /\ j = y
  <2>1. \A i, x \in 0..n : i < x => i * (k + 1) + (k + 1) <= x * (k + 1)
    <3> SUFFICES ASSUME NEW i \in 0..n, NEW x \in 0..n, i < x
                 PROVE  i * (k + 1) + (k + 1) <= x * (k + 1)
      OBVIOUS
    <3>1. x - i - 1 \in Nat
      OBVIOUS
    <3>2. (x - i - 1) * (k + 1) >= 0
      BY <3>1
    <3>3. QED
      BY <3>2
  <2> SUFFICES ASSUME NEW i \in 0..n, NEW x \in 0..n, NEW j \in 1..k, NEW y \in 1..k,
                      i * (k + 1) + j = x * (k + 1) + y
               PROVE  i = x /\ j = y
    OBVIOUS
  <2>2. i * (k + 1) \in Nat /\ x * (k + 1) \in Nat
    OBVIOUS
  <2>3. ~(i < x) /\ ~(x < i)
    BY <2>1, <2>2
  <2>4. i = x
    BY <2>3
  <2>5. QED
    BY <2>2, <2>4
<1>3. f \in [P -> R]
  BY <1>1
<1>4. \A p, q \in P : f[p] = f[q] => p = q
  <2> SUFFICES ASSUME NEW p \in P, NEW q \in P, f[p] = f[q]
               PROVE  p = q
    OBVIOUS
  <2>1. /\ p = <<p[1], p[2]>> /\ q = <<q[1], q[2]>>
        /\ p[1] \in 0..n /\ q[1] \in 0..n /\ p[2] \in 1..k /\ q[2] \in 1..k
    OBVIOUS
  <2>2. p[1] * (k + 1) + p[2] = q[1] * (k + 1) + q[2]
    OBVIOUS
  <2>3. p[1] = q[1] /\ p[2] = q[2]
    BY <1>2, <2>1, <2>2
  <2>4. QED
    BY <2>1, <2>3
<1>5. f \in Injection(P, R)
  BY <1>3, <1>4 DEF Injection, IsInjective
<1>6. IsFiniteSet(R)
  <2>1. 0 \in Int /\ n * (k + 1) + k \in Int
    OBVIOUS
  <2>2. QED
    BY <2>1, FS_Interval, Zenon
<1>7. QED
  BY <1>5, <1>6, FS_Injection, Zenon

\* Pairing the members of a finite set with numbers up to k gives a finite set.
LEMMA PairsFinite ==
  ASSUME NEW S, IsFiniteSet(S), NEW k \in Nat
  PROVE  IsFiniteSet(S \X (1..k))
<1> DEFINE c == Cardinality(S)
<1>1. c \in Nat
  BY FS_CardinalityType
<1>2. PICK f : f \in Bijection(1..c, S)
  BY FS_CardinalityType DEF ExistsBijection
<1> HIDE DEF c
<1>3. f \in [1..c -> S] /\ (\A s \in S : \E i \in 1..c : f[i] = s)
  BY <1>2 DEF Bijection, Injection, Surjection
<1> DEFINE P == (0..c) \X (1..k)
           D == (1..c) \X (1..k)
           R == S \X (1..k)
           g == [p \in D |-> <<f[p[1]], p[2]>>]
<1>4. IsFiniteSet(D)
  <2>1. IsFiniteSet(P)
    BY <1>1, NumberPairsFinite
  <2>2. D \in SUBSET P
    BY <1>1
  <2>3. QED
    BY <2>1, <2>2, FS_Subset, Zenon
<1>5. g \in [D -> R]
  BY <1>3
<1>6. ASSUME NEW r \in R
      PROVE  \E p \in D : g[p] = r
  <2>1. r = <<r[1], r[2]>> /\ r[1] \in S /\ r[2] \in 1..k
    OBVIOUS
  <2>2. PICK i \in 1..c : f[i] = r[1]
    BY <1>3, <2>1
  <2>3. <<i, r[2]>> \in D /\ g[<<i, r[2]>>] = <<f[i], r[2]>>
    BY <2>1
  <2>4. QED
    BY <2>1, <2>2, <2>3
<1>7. g \in Surjection(D, R)
  BY <1>5, <1>6 DEF Surjection
<1>8. IsFiniteSet(R)
  <2> HIDE DEF D, R, g
  <2>1. QED
    BY <1>4, <1>7, FS_Surjection
<1>9. QED
  BY <1>8

-----------------------------------------------------------------------------
(* Induction on the naturals *)

\* Induction on the naturals, for a set in place of a predicate.
LEMMA NatInd ==
  ASSUME NEW S, 0 \in S, \A n \in Nat : n \in S => n + 1 \in S
  PROVE  \A n \in Nat : n \in S
<1> DEFINE T == Nat \ S
           R == OpToRel(<, Nat)
<1>1. IsWellFoundedOn(OpToRel(<, Nat), Nat)
  BY NatLessThanWellFounded, Zenon
<1>2. SUFFICES ASSUME T # {} PROVE FALSE
  OBVIOUS
<1>4. \A x, y \in Nat : x < y => <<x, y>> \in R
  BY DEF OpToRel
<1>3. \E x \in T : \A y \in T : ~ (<<y, x>> \in R)
  <2> HIDE DEF R
  <2>1. IsWellFoundedOn(R, Nat)
    BY <1>1, Zenon DEF R
  <2>2. T \subseteq Nat
    OBVIOUS
  <2> HIDE DEF T
  <2>3. QED BY WFMin, <2>1, <2>2, <1>2
<1> HIDE DEF R
<1>5. PICK x \in T : \A y \in T : ~ (<<y, x>> \in R)
  BY <1>3
<1>6. x \in Nat /\ x # 0 /\ x - 1 \in Nat /\ x - 1 < x /\ (x - 1) + 1 = x
  OBVIOUS
<1>7. <<x - 1, x>> \in R
  BY <1>4, <1>6
<1>8. x - 1 \in S
  BY <1>5, <1>6, <1>7
<1>9. x \in S
  BY <1>6, <1>8
<1>10. QED BY <1>9

-----------------------------------------------------------------------------
(* Sequences *)

\* What is left of a concatenation when its first n elements are dropped.
LEMMA DropOfConcat ==
  ASSUME NEW S, NEW s \in Seq(S), NEW t \in Seq(S), NEW n \in Nat
  PROVE  SubSeq(s \o t, n + 1, Len(s \o t)) =
           IF n <= Len(s) THEN SubSeq(s, n + 1, Len(s)) \o t
                          ELSE SubSeq(t, n - Len(s) + 1, Len(t))
<1>1. /\ Len(s) \in Nat /\ Len(t) \in Nat /\ s \o t \in Seq(S)
      /\ Len(s \o t) = Len(s) + Len(t)
      /\ \A i \in 1..(Len(s) + Len(t)) :
           (s \o t)[i] = IF i <= Len(s) THEN s[i] ELSE t[i - Len(s)]
      /\ \A i \in 1..Len(s) : s[i] \in S
      /\ \A i \in 1..Len(t) : t[i] \in S
  BY ConcatProperties, ElementOfSeq, LenProperties
<1> DEFINE u == s \o t
           left == SubSeq(u, n + 1, Len(u))
<1>2. /\ left \in Seq(S) /\ Len(left) \in Nat
      /\ Len(left) = IF n <= Len(u) THEN Len(u) - n ELSE 0
      /\ \A i \in 1..Len(left) : left[i] = u[n + i]
  <2>1. \A i \in (n + 1)..Len(u) : u[i] \in S
    BY <1>1
  <2> HIDE DEF u
  <2>2. n + 1 \in Int /\ Len(u) \in Nat
    BY <1>1 DEF u
  <2>3. /\ left \in Seq(S)
        /\ Len(left) = IF n + 1 <= Len(u) THEN Len(u) - (n + 1) + 1 ELSE 0
        /\ \A i \in 1..(Len(u) - (n + 1) + 1) : left[i] = u[n + 1 + i - 1]
    BY <2>1, <2>2, SubSeqProperties
  <2> HIDE DEF left
  <2>4. ASSUME NEW i \in 1..Len(left)
        PROVE  left[i] = u[n + i]
    <3>1. i \in 1..(Len(u) - (n + 1) + 1) /\ n + 1 + i - 1 = n + i
      BY <2>2, <2>3
    <3>2. QED
      BY <2>3, <3>1
  <2>5. QED
    BY <2>2, <2>3, <2>4
<1>u. Len(u) = Len(s) + Len(t)
  BY <1>1
<1>3. CASE n <= Len(s)
  <2> DEFINE p == SubSeq(s, n + 1, Len(s))
  <2>1. /\ p \in Seq(S)
        /\ Len(p) = IF n + 1 <= Len(s) THEN Len(s) - (n + 1) + 1 ELSE 0
        /\ \A i \in 1..(Len(s) - (n + 1) + 1) : p[i] = s[n + 1 + i - 1]
    <3>1. \A i \in (n + 1)..Len(s) : s[i] \in S
      BY <1>1
    <3>2. n + 1 \in Int /\ Len(s) \in Int
      BY <1>1
    <3>3. QED
      BY <3>1, <3>2, SubSeqProperties
  <2> HIDE DEF left, p
  <2>2. /\ p \o t \in Seq(S) /\ Len(p \o t) = Len(p) + Len(t)
        /\ \A i \in 1..(Len(p) + Len(t)) :
             (p \o t)[i] = IF i <= Len(p) THEN p[i] ELSE t[i - Len(p)]
    BY <2>1, ConcatProperties
  <2>3. Len(left) = Len(p \o t) /\ Len(p) = Len(s) - n
    BY <1>1, <1>u, <1>2, <1>3, <2>1, <2>2
  <2>4. ASSUME NEW i \in 1..Len(left)
        PROVE  left[i] = (p \o t)[i]
    <3>1. left[i] = u[n + i]
      BY <1>2
    <3>2. CASE i <= Len(p)
      <4>1. (p \o t)[i] = s[n + i] /\ u[n + i] = s[n + i]
        BY <1>1, <1>2, <1>3, <2>1, <2>2, <2>3, <3>2
      <4>2. QED
        BY <3>1, <4>1
    <3>3. CASE i > Len(p)
      <4>1. (p \o t)[i] = t[i - Len(p)]
        BY <1>1, <1>3, <2>2, <2>3, <3>3
      <4>2. u[n + i] = t[n + i - Len(s)]
        BY <1>1, <1>3, <2>2, <2>3, <3>3
      <4>3. n + i - Len(s) = i - Len(p)
        BY <1>1, <2>3
      <4>4. QED
        BY <3>1, <4>1, <4>2, <4>3
    <3>4. QED
      BY <1>1, <2>3, <3>2, <3>3
  <2>5. left = p \o t
    BY <1>2, <2>2, <2>3, <2>4, SeqEqual
  <2>6. QED
    BY <1>3, <2>5 DEF left, p
<1>4. CASE n > Len(s)
  <2> DEFINE m == n - Len(s)
             q == SubSeq(t, m + 1, Len(t))
  <2>1. m \in Nat
    BY <1>1, <1>4
  <2>2. /\ q \in Seq(S)
        /\ Len(q) = IF m + 1 <= Len(t) THEN Len(t) - (m + 1) + 1 ELSE 0
        /\ \A i \in 1..(Len(t) - (m + 1) + 1) : q[i] = t[m + 1 + i - 1]
    <3> HIDE DEF m
    <3>1. \A i \in (m + 1)..Len(t) : t[i] \in S
      BY <1>1, <2>1
    <3>2. m + 1 \in Int /\ Len(t) \in Int
      BY <1>1, <2>1
    <3>3. QED
      BY <3>1, <3>2, SubSeqProperties
  <2> HIDE DEF left, q
  <2>3. Len(left) = Len(q)
    BY <1>1, <1>u, <1>2, <1>4, <2>2
  <2>4. ASSUME NEW i \in 1..Len(left)
        PROVE  left[i] = q[i]
    <3>1. left[i] = u[n + i]
      BY <1>2
    <3>2. u[n + i] = t[n + i - Len(s)] /\ q[i] = t[m + i]
      BY <1>1, <1>2, <1>4, <2>2, <2>3
    <3>3. QED
      BY <1>1, <3>1, <3>2
  <2>5. left = q
    BY <1>2, <2>2, <2>3, <2>4, SeqEqual
  <2>6. ~(n <= Len(s))
    BY <1>1, <1>4
  <2>7. QED
    BY <2>5, <2>6 DEF left, q
<1>5. QED
  <2>1. n <= Len(s) \/ n > Len(s)
    BY <1>1
  <2>2. QED
    BY <2>1, <1>3, <1>4

\* Without its last element.
LEMMA FrontOfConcat ==
  ASSUME NEW S, NEW s \in Seq(S), NEW t \in Seq(S), t # << >>
  PROVE  SubSeq(s \o t, 1, Len(s \o t) - 1) = s \o SubSeq(t, 1, Len(t) - 1)
<1>1. /\ Len(s) \in Nat /\ Len(t) \in Nat /\ Len(t) > 0 /\ s \o t \in Seq(S)
      /\ Len(s \o t) = Len(s) + Len(t)
      /\ \A i \in 1..(Len(s) + Len(t)) :
           (s \o t)[i] = IF i <= Len(s) THEN s[i] ELSE t[i - Len(s)]
      /\ \A i \in 1..Len(t) : t[i] \in S
      /\ \A i \in 1..Len(s) : s[i] \in S
  BY ConcatProperties, ElementOfSeq, LenProperties, EmptySeq
<1> DEFINE u == s \o t
           l == Len(s) + Len(t) - 1
           k == Len(t) - 1
           left == SubSeq(u, 1, l)
           f == SubSeq(t, 1, k)
<1>2. /\ left \in Seq(S) /\ Len(left) = l
      /\ \A i \in 1..l : left[i] = u[i]
  <2>1. \A i \in 1..l : u[i] \in S
    BY <1>1
  <2>2. 1 \in Int /\ l \in Nat
    BY <1>1
  <2> HIDE DEF u, l
  <2>3. /\ left \in Seq(S) /\ Len(left) = (IF 1 <= l THEN l - 1 + 1 ELSE 0)
        /\ \A i \in 1..(l - 1 + 1) : left[i] = u[1 + i - 1]
    BY <2>1, <2>2, SubSeqProperties
  <2>4. QED
    BY <2>2, <2>3
<1>3. /\ f \in Seq(S) /\ Len(f) = k
      /\ \A i \in 1..k : f[i] = t[i]
  <2>1. \A i \in 1..k : t[i] \in S
    BY <1>1
  <2>2. 1 \in Int /\ k \in Nat
    BY <1>1
  <2> HIDE DEF k
  <2>3. /\ f \in Seq(S) /\ Len(f) = (IF 1 <= k THEN k - 1 + 1 ELSE 0)
        /\ \A i \in 1..(k - 1 + 1) : f[i] = t[1 + i - 1]
    BY <2>1, <2>2, SubSeqProperties
  <2>4. QED
    BY <2>2, <2>3
<1> HIDE DEF left, f
<1>4. /\ s \o f \in Seq(S) /\ Len(s \o f) = Len(s) + Len(f)
      /\ \A i \in 1..(Len(s) + Len(f)) :
           (s \o f)[i] = IF i <= Len(s) THEN s[i] ELSE f[i - Len(s)]
  BY <1>3, ConcatProperties
<1>5. Len(left) = Len(s \o f)
  BY <1>1, <1>2, <1>3, <1>4
<1>6. ASSUME NEW i \in 1..Len(left)
      PROVE  left[i] = (s \o f)[i]
  <2>1. left[i] = (s \o t)[i] /\ i \in 1..(Len(s) + Len(t)) /\ i \in 1..(Len(s) + Len(f))
    BY <1>1, <1>2, <1>3
  <2>2. CASE i <= Len(s)
    BY <1>1, <1>4, <2>1, <2>2
  <2>3. CASE ~(i <= Len(s))
    <3>1. i - Len(s) \in 1..k
      BY <1>1, <1>2, <2>3
    <3>2. f[i - Len(s)] = t[i - Len(s)]
      BY <1>3, <3>1
    <3>3. QED
      BY <1>1, <1>4, <2>1, <2>3, <3>2
  <2>4. QED
    BY <2>2, <2>3
<1>7. left = s \o f
  BY <1>2, <1>4, <1>5, <1>6, SeqEqual
<1>8. Len(s \o t) - 1 = l
  BY <1>1
<1>9. QED
  BY <1>7, <1>8 DEF left, f

-----------------------------------------------------------------------------
(* Induction on sequences, and sequences of sequences made one *)

\* Induction on sequences that grow at their end.
LEMMA SequenceInduction ==
  ASSUME NEW A, NEW S, << >> \in S,
         \A s \in Seq(A), e \in A : s \in S => Append(s, e) \in S
  PROVE  \A s \in Seq(A) : s \in S
<1> DEFINE T == {n \in Nat : \A s \in Seq(A) : Len(s) = n => s \in S}
<1>1. 0 \in T
  BY EmptySeq
<1>2. ASSUME NEW n \in Nat, n \in T PROVE n + 1 \in T
  <2> SUFFICES ASSUME NEW s \in Seq(A), Len(s) = n + 1 PROVE s \in S
    BY <1>2
  <2> DEFINE f == SubSeq(s, 1, n)
  <2>1. f \in Seq(A) /\ Len(f) = n /\ s = Append(f, s[n + 1]) /\ s[n + 1] \in A
    <3>1. \A i \in 1..n : s[i] \in A
      BY ElementOfSeq
    <3>2. /\ f \in Seq(A) /\ Len(f) = n
          /\ \A i \in 1..n : f[i] = s[i]
      <4>1. 1 \in Int /\ n \in Int
        OBVIOUS
      <4>2. /\ f \in Seq(A) /\ Len(f) = IF 1 <= n THEN n - 1 + 1 ELSE 0
            /\ \A i \in 1..(n - 1 + 1) : f[i] = s[1 + i - 1]
        BY <3>1, <4>1, SubSeqProperties
      <4> HIDE DEF f
      <4>3. QED
        BY <4>2
    <3> HIDE DEF f
    <3>3. s[n + 1] \in A
      BY ElementOfSeq
    <3> DEFINE a == Append(f, s[n + 1])
    <3>4. /\ a \in Seq(A) /\ Len(a) = n + 1
          /\ \A i \in 1..(n + 1) : a[i] = s[i]
      BY <3>2, <3>3
    <3>5. s = a
      BY <3>4, SeqEqual
    <3>6. QED
      BY <3>2, <3>3, <3>5
  <2>2. f \in S
    BY <1>2, <2>1
  <2>3. QED
    BY <2>1, <2>2
<1> HIDE DEF T
<1>3. \A n \in Nat : n \in T
  BY <1>1, <1>2, NatInd
<1>4. QED
  BY <1>3, LenProperties DEF T

Joined(s, t) == s \o t

\* f holds the concatenations of the first sequences of p.
Flattening(p, f) ==
  f = [i \in 1..Len(p) |-> IF i = 1 THEN p[i] ELSE Joined(f[i - 1], p[i])]

\* Its value at each position.
LEMMA FlatteningAt ==
  ASSUME NEW p, NEW f, Flattening(p, f)
  PROVE  \A i \in 1..Len(p) : f[i] = IF i = 1 THEN p[i] ELSE Joined(f[i - 1], p[i])
BY Zenon DEF Flattening

UpTo(p, n, f) ==
  /\ f = [i \in 1..n |-> f[i]]
  /\ \A i \in 1..n : f[i] = IF i = 1 THEN p[i] ELSE Joined(f[i - 1], p[i])

\* There is such a function for every sequence of sequences,
LEMMA FlatteningExists ==
  ASSUME NEW S, NEW p \in Seq(Seq(S))
  PROVE  \E f : Flattening(p, f)
<1> DEFINE T == {n \in Nat : n <= Len(p) => \E f : UpTo(p, n, f)}
<1>1. 0 \in T
  <2> DEFINE f == [i \in 1..0 |-> p[i]]
  <2>1. f = [i \in 1..0 |-> f[i]]
    OBVIOUS
  <2> HIDE DEF f
  <2>2. UpTo(p, 0, f)
    BY <2>1 DEF UpTo
  <2>3. QED
    BY <2>2
<1>2. ASSUME NEW n \in Nat, n \in T PROVE n + 1 \in T
  <2> SUFFICES ASSUME n + 1 <= Len(p)
               PROVE  \E f : UpTo(p, n + 1, f)
    OBVIOUS
  <2>1. PICK f : UpTo(p, n, f)
    BY <1>2, LenProperties
  <2>a. \A i \in 1..n : f[i] = IF i = 1 THEN p[i] ELSE Joined(f[i - 1], p[i])
    BY <2>1, Zenon DEF UpTo
  <2> DEFINE g == [i \in 1..(n + 1) |-> IF i <= n THEN f[i]
                                        ELSE IF i = 1 THEN p[i] ELSE Joined(f[n], p[i])]
  <2>2. \A i \in 1..(n + 1) : g[i] = IF i = 1 THEN p[i] ELSE Joined(g[i - 1], p[i])
    <3> SUFFICES ASSUME NEW i \in 1..(n + 1)
                 PROVE  g[i] = IF i = 1 THEN p[i] ELSE Joined(g[i - 1], p[i])
      OBVIOUS
    <3>1. CASE i <= n
      <4>1. g[i] = f[i]
        BY <3>1
      <4>2. f[i] = IF i = 1 THEN p[i] ELSE Joined(f[i - 1], p[i])
        BY <2>a, <3>1
      <4>3. i # 1 => g[i - 1] = f[i - 1]
        BY <3>1
      <4> HIDE DEF g
      <4>4. QED
        BY <4>1, <4>2, <4>3
    <3>2. CASE i = n + 1
      <4>1. i # 1 => g[i - 1] = f[n]
        BY <3>2
      <4>2. g[i] = IF i = 1 THEN p[i] ELSE Joined(f[n], p[i])
        BY <3>2
      <4> HIDE DEF g
      <4>3. QED
        BY <4>1, <4>2
    <3>3. QED
      BY <3>1, <3>2
  <2>3. g = [i \in 1..(n + 1) |-> g[i]]
    BY Zenon
  <2> HIDE DEF g
  <2>4. UpTo(p, n + 1, g)
    BY <2>2, <2>3 DEF UpTo
  <2>5. QED
    BY <2>4
<1> HIDE DEF T
<1>3. \A n \in Nat : n \in T
  BY <1>1, <1>2, NatInd
<1>4. Len(p) \in Nat
  BY LenProperties
<1>5. PICK f : UpTo(p, Len(p), f)
  BY <1>3, <1>4 DEF T
<1> DEFINE g == [i \in 1..Len(p) |-> IF i = 1 THEN p[i] ELSE Joined(f[i - 1], p[i])]
<1>6. [i \in 1..Len(p) |-> f[i]] = g
  BY <1>5 DEF UpTo
<1>7. f = g
  BY <1>5, <1>6 DEF UpTo
<1>8. QED
  BY <1>7 DEF Flattening

\* and only one.
LEMMA FlatteningUnique ==
  ASSUME NEW p, NEW q, NEW f, NEW g, Flattening(p, f), Flattening(q, g),
         Len(p) \in Nat, Len(q) \in Nat,
         NEW n \in Nat, n <= Len(p), n <= Len(q), \A i \in 1..n : p[i] = q[i]
  PROVE  \A i \in 1..n : f[i] = g[i]
<1> DEFINE T == {k \in Nat : k \in 1..n => f[k] = g[k]}
<1>1. 0 \in T
  OBVIOUS
<1>2. ASSUME NEW k \in Nat, k \in T PROVE k + 1 \in T
  <2> SUFFICES ASSUME k + 1 \in 1..n PROVE f[k + 1] = g[k + 1]
    OBVIOUS
  <2>1. f[k + 1] = IF k + 1 = 1 THEN p[k + 1] ELSE Joined(f[k + 1 - 1], p[k + 1])
    BY FlatteningAt
  <2>2. g[k + 1] = IF k + 1 = 1 THEN q[k + 1] ELSE Joined(g[k + 1 - 1], q[k + 1])
    BY FlatteningAt
  <2>3. CASE k = 0
    BY <2>1, <2>2, <2>3
  <2>4. CASE k # 0
    <3>1. k + 1 - 1 = k /\ f[k] = g[k]
      BY <1>2, <2>4
    <3>2. QED
      BY <2>1, <2>2, <2>4, <3>1
  <2>5. QED
    BY <2>3, <2>4
<1> HIDE DEF T
<1>3. \A k \in Nat : k \in T
  BY <1>1, <1>2, NatInd
<1>4. QED
  BY <1>3 DEF T

\* FlattenSeq is the last of these concatenations.
LEMMA FlattenIsLast ==
  ASSUME NEW S, NEW p \in Seq(Seq(S)), p # << >>
  PROVE  \E f : Flattening(p, f) /\ FlattenSeq(p) = f[Len(p)]
<1>1. Len(p) # 0
  BY EmptySeq
<1> DEFINE f == CHOOSE f : f = [i \in 1..Len(p) |-> IF i = 1 THEN p[i] ELSE Joined(f[i - 1], p[i])]
<1>2. FlattenSeq(p) = f[Len(p)]
  BY <1>1 DEF FlattenSeq, Joined
<1>3. \E g : g = [i \in 1..Len(p) |-> IF i = 1 THEN p[i] ELSE Joined(g[i - 1], p[i])]
  BY FlatteningExists DEF Flattening
<1>4. f = [i \in 1..Len(p) |-> IF i = 1 THEN p[i] ELSE Joined(f[i - 1], p[i])]
  BY <1>3
<1> HIDE DEF f
<1>5. QED
  BY <1>2, <1>4 DEF Flattening

\* Flattening no sequence gives no element.
LEMMA FlattenEmpty == FlattenSeq(<< >>) = << >>
BY DEF FlattenSeq

\* Appending a sequence extends the function by one value.
LEMMA FlatteningLonger ==
  ASSUME NEW p, NEW q, NEW f, NEW g, Flattening(p, f), Flattening(q, g),
         NEW n \in Nat, n # 0, Len(p) = n, Len(q) = n + 1, \A i \in 1..n : p[i] = q[i]
  PROVE  g[n + 1] = Joined(f[n], q[n + 1])
<1>1. n <= Len(p) /\ n <= Len(q) /\ Len(p) \in Nat /\ Len(q) \in Nat
  OBVIOUS
<1>2. \A i \in 1..n : f[i] = g[i]
  BY <1>1, FlatteningUnique
<1>3. \A i \in 1..(n + 1) : g[i] = IF i = 1 THEN q[i] ELSE Joined(g[i - 1], q[i])
  BY FlatteningAt
<1>4. n \in 1..n /\ n + 1 \in 1..(n + 1) /\ n + 1 # 1 /\ n + 1 - 1 = n
  OBVIOUS
<1>5. g[n + 1] = Joined(g[n + 1 - 1], q[n + 1])
  BY <1>3, <1>4
<1>6. g[n + 1 - 1] = f[n]
  BY <1>2, <1>4
<1>7. QED
  BY <1>5, <1>6, Zenon

\* One more sequence is concatenated to what the others flatten to.
LEMMA FlattenLonger ==
  ASSUME NEW S, NEW p \in Seq(Seq(S)), NEW q \in Seq(Seq(S)), NEW n \in Nat,
         Len(p) = n, Len(q) = n + 1, \A i \in 1..n : p[i] = q[i],
         p # << >>
  PROVE  FlattenSeq(q) = FlattenSeq(p) \o q[n + 1]
<1>1. n # 0 /\ q # << >>
  BY EmptySeq
<1>2. PICK g : Flattening(q, g) /\ FlattenSeq(q) = g[n + 1]
  BY <1>1, FlattenIsLast
<1>3. PICK f : Flattening(p, f) /\ FlattenSeq(p) = f[n]
  BY FlattenIsLast
<1>4. g[n + 1] = Joined(f[n], q[n + 1])
  <2>1. \A i \in 1..n : p[i] = q[i]
    OBVIOUS
  <2>2. Flattening(p, f) /\ Flattening(q, g) /\ n # 0 /\ Len(p) = n /\ Len(q) = n + 1
    BY <1>1, <1>2, <1>3
  <2> HIDE DEF Flattening
  <2>3. QED
    BY <2>1, <2>2, FlatteningLonger
<1>5. QED
  BY <1>2, <1>3, <1>4 DEF Joined

\* Appending a sequence to those that are flattened continues the result by it.
LEMMA FlattenAppend ==
  ASSUME NEW S, NEW p \in Seq(Seq(S)), NEW x \in Seq(S)
  PROVE  FlattenSeq(Append(p, x)) = FlattenSeq(p) \o x
<1> DEFINE q == Append(p, x)
<1>1. /\ q \in Seq(Seq(S)) /\ Len(q) = Len(p) + 1 /\ Len(p) \in Nat
      /\ q[Len(p) + 1] = x
      /\ \A i \in 1..Len(p) : p[i] = q[i]
  OBVIOUS
<1> HIDE DEF q
<1>2. CASE p = << >>
  <2>1. Len(q) = 1 /\ q[1] = x /\ q # << >>
    <3>1. Len(p) = 0
      BY <1>2
    <3>2. Len(q) = 1 /\ q[1] = x
      BY <1>1, <3>1
    <3>3. q # << >>
      <4>1. Len(<< >>) = 0 /\ Len(q) # 0
        BY <3>2, EmptySeq
      <4>2. QED
        BY <4>1, Zenon
    <3>4. QED
      BY <3>2, <3>3
  <2>2. PICK g : Flattening(q, g) /\ FlattenSeq(q) = g[Len(q)]
    BY <1>1, <2>1, FlattenIsLast
  <2>3. \A i \in 1..Len(q) : g[i] = IF i = 1 THEN q[i] ELSE Joined(g[i - 1], q[i])
    BY <2>2, FlatteningAt
  <2>4. 1 \in 1..Len(q)
    BY <2>1
  <2>5. FlattenSeq(q) = x
    BY <2>1, <2>2, <2>3, <2>4
  <2>6. << >> \o x = x
    BY ConcatEmptySeq
  <2>7. QED
    BY <1>2, <2>5, <2>6, FlattenEmpty DEF q
<1>3. CASE p # << >>
  <2>1. FlattenSeq(q) = FlattenSeq(p) \o q[Len(p) + 1]
    BY <1>1, <1>3, FlattenLonger
  <2>2. QED
    BY <1>1, <2>1 DEF q
<1>4. QED
  BY <1>2, <1>3

\* Flattening sequences over S gives a sequence over S.
LEMMA FlattenType ==
  ASSUME NEW S, NEW p \in Seq(Seq(S))
  PROVE  FlattenSeq(p) \in Seq(S)
<1> DEFINE T == {s \in Seq(Seq(S)) : FlattenSeq(s) \in Seq(S)}
<1>1. << >> \in T
  BY FlattenEmpty, EmptySeq
<1>2. ASSUME NEW s \in Seq(Seq(S)), NEW x \in Seq(S), s \in T
      PROVE  Append(s, x) \in T
  <2>1. FlattenSeq(Append(s, x)) = FlattenSeq(s) \o x
    BY <1>2, FlattenAppend
  <2>2. FlattenSeq(s) \o x \in Seq(S)
    BY <1>2, ConcatProperties
  <2>3. Append(s, x) \in Seq(Seq(S))
    OBVIOUS
  <2>4. QED
    BY <2>1, <2>2, <2>3, Zenon
<1> HIDE DEF T
<1>3. \A s \in Seq(Seq(S)) : s \in T
  BY <1>1, <1>2, SequenceInduction
<1>4. QED
  BY <1>3 DEF T

\* Flattening distributes over concatenation.
LEMMA FlattenConcat ==
  ASSUME NEW S, NEW p \in Seq(Seq(S)), NEW q \in Seq(Seq(S))
  PROVE  FlattenSeq(p \o q) = FlattenSeq(p) \o FlattenSeq(q)
<1> DEFINE T == {s \in Seq(Seq(S)) : FlattenSeq(p \o s) = FlattenSeq(p) \o FlattenSeq(s)}
<1>1. << >> \in T
  <2>1. p \o << >> = p
    BY ConcatEmptySeq
  <2>2. FlattenSeq(p) \in Seq(S)
    BY FlattenType
  <2>3. FlattenSeq(p) \o << >> = FlattenSeq(p)
    BY <2>2, ConcatEmptySeq
  <2>4. QED
    BY <2>1, <2>3, FlattenEmpty, EmptySeq
<1>2. ASSUME NEW s \in Seq(Seq(S)), NEW x \in Seq(S), s \in T
      PROVE  Append(s, x) \in T
  <2>1. Append(s, x) = s \o <<x>> /\ <<x>> \in Seq(Seq(S)) /\ Append(s, x) \in Seq(Seq(S))
    OBVIOUS
  <2>2. p \o Append(s, x) = Append(p \o s, x) /\ p \o s \in Seq(Seq(S))
    <3>1. p \o (s \o <<x>>) = (p \o s) \o <<x>>
      BY <2>1, ConcatAssociative
    <3>2. p \o s \in Seq(Seq(S))
      BY ConcatProperties
    <3>3. (p \o s) \o <<x>> = Append(p \o s, x)
      BY <3>2
    <3>4. QED
      BY <2>1, <3>1, <3>2, <3>3
  <2>3. FlattenSeq(p \o Append(s, x)) = FlattenSeq(p \o s) \o x
    BY <2>2, FlattenAppend
  <2>4. FlattenSeq(Append(s, x)) = FlattenSeq(s) \o x
    BY FlattenAppend
  <2>5. (FlattenSeq(p) \o FlattenSeq(s)) \o x = FlattenSeq(p) \o (FlattenSeq(s) \o x)
    <3>1. FlattenSeq(p) \in Seq(S) /\ FlattenSeq(s) \in Seq(S)
      BY FlattenType
    <3>2. QED
      BY <3>1, ConcatAssociative
  <2>6. QED
    BY <1>2, <2>1, <2>3, <2>4, <2>5
<1> HIDE DEF T
<1>3. \A s \in Seq(Seq(S)) : s \in T
  BY <1>1, <1>2, SequenceInduction
<1>4. QED
  BY <1>3 DEF T

\* Flattening one sequence gives it back.
LEMMA FlattenOne ==
  ASSUME NEW S, NEW x \in Seq(S)
  PROVE  FlattenSeq(<<x>>) = x
<1>1. <<x>> = Append(<< >>, x) /\ << >> \in Seq(Seq(S))
  BY EmptySeq
<1>2. FlattenSeq(<< >>) \in Seq(S)
  BY FlattenEmpty, EmptySeq
<1>3. FlattenSeq(Append(<< >>, x)) = FlattenSeq(<< >>) \o x
  BY <1>1, <1>2, FlattenAppend
<1>4. QED
  BY <1>1, <1>3, FlattenEmpty, ConcatEmptySeq

-----------------------------------------------------------------------------
(* Sequences mapped and flattened *)

\* Flattening what a function m gives for each element of a sequence.
Mapped(m, s) == [i \in DOMAIN s |-> m[s[i]]]

\* What is flattened is of the type of the parts,
LEMMA FlattenMapType ==
  ASSUME NEW A, NEW S, NEW m \in [A -> Seq(S)], NEW s \in Seq(A)
  PROVE  /\ Mapped(m, s) \in Seq(Seq(S)) /\ Len(Mapped(m, s)) = Len(s)
         /\ FlattenSeq(Mapped(m, s)) \in Seq(S)
<1>1. DOMAIN s = 1..Len(s) /\ Len(s) \in Nat /\ \A i \in 1..Len(s) : s[i] \in A
  BY LenProperties, ElementOfSeq
<1>2. Mapped(m, s) \in Seq(Seq(S)) /\ Len(Mapped(m, s)) = Len(s)
  BY <1>1 DEF Mapped
<1>3. QED
  BY <1>2, FlattenType

\* and appending an element appends its part.
LEMMA FlattenMapAppend ==
  ASSUME NEW A, NEW S, NEW m \in [A -> Seq(S)], NEW s \in Seq(A), NEW e \in A
  PROVE  FlattenSeq(Mapped(m, Append(s, e))) = FlattenSeq(Mapped(m, s)) \o m[e]
<1> DEFINE p == Mapped(m, s)
           t == Append(s, e)
           q == Mapped(m, t)
           r == Append(p, m[e])
<1>1. /\ t \in Seq(A) /\ Len(t) = Len(s) + 1 /\ DOMAIN t = 1..(Len(s) + 1)
      /\ \A i \in 1..(Len(s) + 1) : t[i] = IF i <= Len(s) THEN s[i] ELSE e
      /\ Len(s) \in Nat /\ DOMAIN s = 1..Len(s)
  BY LenProperties
<1> HIDE DEF t
<1>2. /\ q \in Seq(Seq(S)) /\ Len(q) = Len(s) + 1
      /\ \A i \in 1..(Len(s) + 1) : q[i] = m[t[i]]
  BY <1>1, FlattenMapType DEF Mapped
<1>3. /\ p \in Seq(Seq(S)) /\ Len(p) = Len(s)
      /\ \A i \in 1..Len(s) : p[i] = m[s[i]]
  BY <1>1, FlattenMapType DEF Mapped
<1>4. m[e] \in Seq(S)
  OBVIOUS
<1> HIDE DEF p, q
<1>5. /\ r \in Seq(Seq(S)) /\ Len(r) = Len(s) + 1
      /\ \A i \in 1..(Len(s) + 1) : r[i] = IF i <= Len(s) THEN p[i] ELSE m[e]
  BY <1>1, <1>3, <1>4
<1> HIDE DEF r
<1>6. ASSUME NEW i \in 1..(Len(s) + 1) PROVE q[i] = r[i]
  <2>1. CASE i <= Len(s)
    <3>1. i \in 1..Len(s) /\ t[i] = s[i]
      BY <1>1, <2>1
    <3>2. q[i] = m[s[i]] /\ r[i] = p[i] /\ p[i] = m[s[i]]
      BY <1>2, <1>3, <1>5, <2>1, <3>1
    <3>3. QED
      BY <3>2
  <2>2. CASE ~(i <= Len(s))
    <3>1. t[i] = e /\ r[i] = m[e]
      BY <1>1, <1>5, <2>2
    <3>2. QED
      BY <1>2, <3>1
  <2>3. QED
    BY <2>1, <2>2
<1>7. q = r
  BY <1>1, <1>2, <1>5, <1>6, SeqEqual
<1>8. FlattenSeq(r) = FlattenSeq(p) \o m[e]
  BY <1>3, <1>4, FlattenAppend DEF r
<1>9. QED
  BY <1>7, <1>8 DEF p, q, t

-----------------------------------------------------------------------------
(* Ranks *)

\* Finitely many numbers have a bound.
LEMMA BoundExists ==
  ASSUME NEW n \in Nat, NEW f \in [1..n -> Nat]
  PROVE  \E b \in Nat : \A j \in 1..n : f[j] < b
<1> DEFINE Bounded(m) == \E b \in Nat : \A j \in 1..m : f[j] < b
           T == {m \in Nat : m <= n => Bounded(m)}
<1>1. 0 \in T
  OBVIOUS
<1>2. ASSUME NEW m \in Nat, m \in T PROVE m + 1 \in T
  <2> SUFFICES ASSUME m + 1 <= n PROVE \E b \in Nat : \A j \in 1..(m + 1) : f[j] < b
    OBVIOUS
  <2>1. PICK b \in Nat : \A j \in 1..m : f[j] < b
    BY <1>2
  <2>2. f[m + 1] \in Nat
    OBVIOUS
  <2>3. PICK c \in Nat : b <= c /\ f[m + 1] < c
    <3>1. b <= b + f[m + 1] + 1 /\ f[m + 1] < b + f[m + 1] + 1 /\ b + f[m + 1] + 1 \in Nat
      BY <2>2
    <3>2. QED
      BY <3>1
  <2>4. \A j \in 1..m : f[j] \in Nat
    OBVIOUS
  <2>5. \A j \in 1..(m + 1) : f[j] < c
    BY <2>1, <2>2, <2>3, <2>4
  <2>6. QED
    BY <2>5
<1> HIDE DEF T
<1>3. \A m \in Nat : m \in T
  BY <1>1, <1>2, NatInd
<1>4. n \in T /\ n <= n
  BY <1>3
<1> HIDE DEF Bounded
<1>5. Bounded(n)
  BY <1>4 DEF T
<1>6. QED
  BY <1>5 DEF Bounded

\* Of n numbers the k-th highest exists, and is one number.
LEMMA RankExists ==
  ASSUME NEW n \in Nat, NEW f \in [1..n -> Nat], NEW k \in 1..n
  PROVE  \E i \in 1..n : /\ Cardinality({j \in 1..n : f[j] > f[i]}) < k
                         /\ Cardinality({j \in 1..n : f[j] >= f[i]}) >= k
<1> DEFINE From(v) == {j \in 1..n : f[j] >= v}
           C == {v \in Nat : Cardinality(From(v)) >= k}
<1>1. ASSUME NEW v \in Nat
      PROVE  IsFiniteSet(From(v)) /\ Cardinality(From(v)) \in Nat
  <2>1. IsFiniteSet(1..n)
    BY IntervalFinite
  <2>2. From(v) \in SUBSET (1..n)
    OBVIOUS
  <2>3. QED
    BY <2>1, <2>2, FS_Subset, FS_CardinalityType, Zenon
<1>2. 0 \in C
  <2>1. From(0) = 1..n
    OBVIOUS
  <2>2. 1 \in Int /\ n \in Int
    OBVIOUS
  <2>3. Cardinality(1..n) = IF 1 > n THEN 0 ELSE n - 1 + 1
    BY <2>2, FS_Interval, Zenon
  <2> HIDE DEF From
  <2>4. Cardinality(1..n) = n
    BY <2>3
  <2>5. Cardinality(From(0)) = n
    BY <2>1, <2>4
  <2>6. QED
    BY <2>5
<1>3. PICK b \in Nat : \A j \in 1..n : f[j] < b
  BY BoundExists
<1>4. b \notin C
  <2>1. From(b) = {}
    BY <1>3
  <2>2. Cardinality(From(b)) = 0
    BY <2>1, FS_EmptySet
  <2>3. QED
    BY <2>2
<1>5. PICK v \in Nat : v \in C /\ v + 1 \notin C
  <2> HIDE DEF C
  <2>1. (\A v \in Nat : v \in C => v + 1 \in C) => \A v \in Nat : v \in C
    BY <1>2, NatInd
  <2>2. QED
    BY <1>4, <2>1
<1>6. Cardinality(From(v)) >= k /\ Cardinality(From(v + 1)) < k
  <2> HIDE DEF From
  <2>1. QED
    BY <1>1, <1>5
<1>7. PICK i \in 1..n : f[i] = v
  <2>1. SUFFICES ASSUME \A i \in 1..n : f[i] # v PROVE FALSE
    OBVIOUS
  <2>2. From(v) = From(v + 1)
    BY <2>1
  <2> HIDE DEF From
  <2>3. v + 1 \in Nat
    OBVIOUS
  <2>4. QED
    BY <1>1, <1>6, <2>2, <2>3
<1>8. /\ {j \in 1..n : f[j] > f[i]} = From(v + 1)
      /\ {j \in 1..n : f[j] >= f[i]} = From(v)
  BY <1>7
<1>9. QED
  BY <1>6, <1>8

\* The k-th highest is not less than any number that k of them reach.
LEMMA RankUnique ==
  ASSUME NEW n \in Nat, NEW f \in [1..n -> Nat], NEW k \in 1..n, NEW v \in Nat, NEW w \in Nat,
         Cardinality({j \in 1..n : f[j] > v}) < k, Cardinality({j \in 1..n : f[j] >= w}) >= k
  PROVE  ~(v < w)
<1> SUFFICES ASSUME v < w PROVE FALSE
  OBVIOUS
<1> DEFINE G == {j \in 1..n : f[j] > v}
           H == {j \in 1..n : f[j] >= w}
<1>1. IsFiniteSet(1..n)
  BY IntervalFinite
<1>2. IsFiniteSet(G) /\ IsFiniteSet(H)
  <2>1. G \in SUBSET (1..n) /\ H \in SUBSET (1..n)
    OBVIOUS
  <2>2. QED
    BY <1>1, <2>1, FS_Subset, Zenon
<1>3. H \in SUBSET G
  OBVIOUS
<1>4. Cardinality(H) <= Cardinality(G)
  BY <1>2, <1>3, FS_Subset, Zenon
<1>5. Cardinality(H) \in Nat /\ Cardinality(G) \in Nat
  BY <1>2, FS_CardinalityType, Zenon
<1>6. QED
  BY <1>4, <1>5

-----------------------------------------------------------------------------
(* Sums over finite sets *)

\* Induction over the subsets of a finite set, by their size.
LEMMA SizeInduction ==
  ASSUME NEW S, IsFiniteSet(S), NEW T,
         \A s \in SUBSET S : (\A x \in s : s \ {x} \in T) => s \in T
  PROVE  \A s \in SUBSET S : s \in T
<1> DEFINE U == {n \in Nat : \A s \in SUBSET S : Cardinality(s) = n => s \in T}
<1>0. \A s \in SUBSET S : IsFiniteSet(s) /\ Cardinality(s) \in Nat
  BY FS_Subset, FS_CardinalityType
<1>1. 0 \in U
  <2> SUFFICES ASSUME NEW s \in SUBSET S, Cardinality(s) = 0 PROVE s \in T
    OBVIOUS
  <2>1. s = {}
    BY <1>0, FS_EmptySet
  <2>2. QED
    BY <2>1
<1>2. ASSUME NEW n \in Nat, n \in U PROVE n + 1 \in U
  <2> SUFFICES ASSUME NEW s \in SUBSET S, Cardinality(s) = n + 1 PROVE s \in T
    OBVIOUS
  <2>1. ASSUME NEW x \in s PROVE s \ {x} \in T
    <3>1. s \ {x} \in SUBSET S /\ Cardinality(s \ {x}) = Cardinality(s) - 1
      BY <1>0, FS_RemoveElement
    <3>2. Cardinality(s \ {x}) = n
      BY <3>1
    <3>3. QED
      BY <1>2, <3>1, <3>2
  <2>2. QED
    BY <2>1
<1> HIDE DEF U
<1>3. \A n \in Nat : n \in U
  BY <1>1, <1>2, NatInd
<1>4. QED
  BY <1>0, <1>3 DEF U

Pick(s) == CHOOSE x \in s : TRUE

\* g adds up f over the subsets of S, the way SumFunctionOnSet does.
SumOf(f, g, s) == IF s = {} THEN 0 ELSE f[Pick(s)] + g[s \ {Pick(s)}]
Sums(f, S, g) == g = [s \in SUBSET S |-> SumOf(f, g, s)]

\* The recursive function that sums over subsets exists,
LEMMA SumsExist ==
  ASSUME NEW f, NEW S, IsFiniteSet(S)
  PROVE  \E g : Sums(f, S, g)
<1> DEFINE Up(n, g) == /\ g = [s \in SUBSET S |-> g[s]]
                       /\ \A s \in SUBSET S : Cardinality(s) <= n => g[s] = SumOf(f, g, s)
           U == {n \in Nat : \E g : Up(n, g)}
<1>0. \A s \in SUBSET S : IsFiniteSet(s) /\ Cardinality(s) \in Nat
  BY FS_Subset, FS_CardinalityType
<1>1. ASSUME NEW s \in SUBSET S, s # {}
      PROVE  /\ Pick(s) \in s /\ s \ {Pick(s)} \in SUBSET S
             /\ Cardinality(s \ {Pick(s)}) = Cardinality(s) - 1
  <2>1. Pick(s) \in s
    BY <1>1 DEF Pick
  <2>2. QED
    BY <1>0, <2>1, FS_RemoveElement
<1>2. 0 \in U
  <2> DEFINE g == [s \in SUBSET S |-> 0]
  <2>1. \A s \in SUBSET S : Cardinality(s) <= 0 => s = {}
    BY <1>0, FS_EmptySet
  <2>2. Up(0, g)
    BY <2>1 DEF SumOf
  <2>3. QED
    BY <2>2
<1>3. ASSUME NEW n \in Nat, n \in U PROVE n + 1 \in U
  <2>1. PICK g : Up(n, g)
    BY <1>3
  <2> DEFINE h == [s \in SUBSET S |-> IF Cardinality(s) <= n THEN g[s] ELSE SumOf(f, g, s)]
  <2>2. ASSUME NEW s \in SUBSET S, Cardinality(s) <= n + 1
        PROVE  h[s] = SumOf(f, h, s)
    <3>1. h[s] = SumOf(f, g, s)
      BY <2>1
    <3>2. SumOf(f, g, s) = SumOf(f, h, s)
      <4>1. CASE s = {}
        BY <4>1 DEF SumOf
      <4>2. CASE s # {}
        <5>1. s \ {Pick(s)} \in SUBSET S /\ Cardinality(s \ {Pick(s)}) <= n
          BY <1>0, <1>1, <2>2, <4>2
        <5>2. h[s \ {Pick(s)}] = g[s \ {Pick(s)}]
          BY <5>1
        <5> HIDE DEF h
        <5>3. QED
          BY <5>2 DEF SumOf
      <4>3. QED
        BY <4>1, <4>2
    <3>3. QED
      BY <3>1, <3>2
  <2>3. h = [s \in SUBSET S |-> h[s]]
    OBVIOUS
  <2> HIDE DEF h
  <2>4. Up(n + 1, h)
    BY <2>2, <2>3
  <2> HIDE DEF Up
  <2>5. \E k : Up(n + 1, k)
    BY <2>4
  <2>6. QED
    BY <2>5
<1> HIDE DEF U
<1>4. \A n \in Nat : n \in U
  BY <1>2, <1>3, NatInd
<1>5. Cardinality(S) \in U
  BY <1>0, <1>4, FS_CardinalityType
<1>6. PICK g : Up(Cardinality(S), g)
  BY <1>5 DEF U
<1>7. \A s \in SUBSET S : Cardinality(s) <= Cardinality(S)
  BY FS_Subset
<1>8. \A s \in SUBSET S : g[s] = SumOf(f, g, s)
  BY <1>6, <1>7
<1>9. g = [s \in SUBSET S |-> g[s]]
  BY <1>6
<1>10. [s \in SUBSET S |-> g[s]] = [s \in SUBSET S |-> SumOf(f, g, s)]
  BY <1>8
<1>11. QED
  BY <1>9, <1>10 DEF Sums

\* Sums depend on nothing but the values that are added up.
LEMMA SumsSame ==
  ASSUME NEW f, NEW S, IsFiniteSet(S), NEW g, Sums(f, S, g),
         NEW h, NEW R, NEW k, Sums(h, R, k), S \subseteq R, \A x \in S : f[x] = h[x]
  PROVE  g[S] = k[S]
<1> DEFINE T == {s \in SUBSET S : g[s] = k[s]}
<1>1. /\ \A s \in SUBSET S : g[s] = SumOf(f, g, s)
      /\ \A s \in SUBSET S : k[s] = SumOf(h, k, s)
  <2>1. g = [s \in SUBSET S |-> SumOf(f, g, s)] /\ k = [s \in SUBSET R |-> SumOf(h, k, s)]
    BY DEF Sums
  <2>2. \A s \in SUBSET S : g[s] = SumOf(f, g, s)
    BY <2>1, Zenon
  <2>3. \A s \in SUBSET R : k[s] = SumOf(h, k, s)
    BY <2>1, Zenon
  <2>4. QED
    BY <2>2, <2>3
<1>2. ASSUME NEW s \in SUBSET S, \A x \in s : s \ {x} \in T PROVE s \in T
  <2>1. CASE s = {}
    BY <1>1, <2>1 DEF SumOf
  <2>2. CASE s # {}
    <3>1. Pick(s) \in s /\ f[Pick(s)] = h[Pick(s)]
      BY <2>2 DEF Pick
    <3>2. g[s \ {Pick(s)}] = k[s \ {Pick(s)}]
      BY <1>2, <3>1
    <3>3. QED
      BY <1>1, <3>1, <3>2 DEF SumOf
  <2>3. QED
    BY <2>1, <2>2
<1> HIDE DEF T
<1>3. \A s \in SUBSET S : s \in T
  BY <1>2, SizeInduction
<1>4. QED
  BY <1>3 DEF T

\* and it is what SumFunctionOnSet takes its value from.
LEMMA SumIs ==
  ASSUME NEW f, NEW S, IsFiniteSet(S)
  PROVE  \E g : Sums(f, S, g) /\ SumFunctionOnSet(f, S) = g[S]
<1> DEFINE g == CHOOSE g : Sums(f, S, g)
<1>1. Sums(f, S, g)
  BY SumsExist
<1>2. SumFunctionOnSet(f, S) = g[S]
  BY DEF SumFunctionOnSet, FoldFunctionOnSet, MapThenFoldSet, Sums, SumOf, Pick
<1>3. QED
  BY <1>1, <1>2

\* Summing equal functions.
LEMMA SumSame ==
  ASSUME NEW f, NEW h, NEW S, IsFiniteSet(S), \A x \in S : f[x] = h[x]
  PROVE  SumFunctionOnSet(f, S) = SumFunctionOnSet(h, S)
<1>1. PICK g : Sums(f, S, g) /\ SumFunctionOnSet(f, S) = g[S]
  BY SumIs
<1>2. PICK k : Sums(h, S, k) /\ SumFunctionOnSet(h, S) = k[S]
  BY SumIs
<1>3. g[S] = k[S]
  BY <1>1, <1>2, SumsSame
<1>4. QED
  BY <1>1, <1>2, <1>3

\* The sum over nothing.
LEMMA SumEmpty == \A f : SumFunctionOnSet(f, {}) = 0
<1> SUFFICES ASSUME NEW f PROVE SumFunctionOnSet(f, {}) = 0
  OBVIOUS
<1>1. PICK g : Sums(f, {}, g) /\ SumFunctionOnSet(f, {}) = g[{}]
  BY SumIs, FS_EmptySet
<1>2. g[{}] = SumOf(f, g, {})
  BY <1>1, Zenon DEF Sums
<1>3. QED
  BY <1>1, <1>2 DEF SumOf

\* The sum over a set that is not empty takes one element out.
LEMMA SumPick ==
  ASSUME NEW f, NEW S, IsFiniteSet(S), S # {}
  PROVE  /\ Pick(S) \in S
         /\ SumFunctionOnSet(f, S) = f[Pick(S)] + SumFunctionOnSet(f, S \ {Pick(S)})
<1> DEFINE R == S \ {Pick(S)}
<1>1. Pick(S) \in S /\ IsFiniteSet(R) /\ R \subseteq S
  BY FS_RemoveElement DEF Pick
<1>2. PICK g : Sums(f, S, g) /\ SumFunctionOnSet(f, S) = g[S]
  BY SumIs
<1>3. PICK k : Sums(f, R, k) /\ SumFunctionOnSet(f, R) = k[R]
  BY <1>1, SumIs
<1>4. k[R] = g[R]
  BY <1>1, <1>2, <1>3, SumsSame
<1>5. g[S] = SumOf(f, g, S)
  BY <1>2, Zenon DEF Sums
<1>6. SumOf(f, g, S) = f[Pick(S)] + g[R]
  BY DEF SumOf
<1>7. QED
  BY <1>1, <1>2, <1>3, <1>4, <1>5, <1>6

\* A sum of naturals is a natural.
LEMMA SumType ==
  ASSUME NEW f, NEW S, IsFiniteSet(S), \A x \in S : f[x] \in Nat
  PROVE  SumFunctionOnSet(f, S) \in Nat
<1> DEFINE T == {s \in SUBSET S : SumFunctionOnSet(f, s) \in Nat}
<1>1. ASSUME NEW s \in SUBSET S, \A x \in s : s \ {x} \in T PROVE s \in T
  <2>1. IsFiniteSet(s)
    BY FS_Subset
  <2>2. CASE s = {}
    BY <2>2, SumEmpty
  <2>3. CASE s # {}
    <3>1. /\ Pick(s) \in s
          /\ SumFunctionOnSet(f, s) = f[Pick(s)] + SumFunctionOnSet(f, s \ {Pick(s)})
      BY <2>1, <2>3, SumPick
    <3>2. f[Pick(s)] \in Nat /\ SumFunctionOnSet(f, s \ {Pick(s)}) \in Nat
      BY <1>1, <3>1
    <3>3. QED
      BY <3>1, <3>2
  <2>4. QED
    BY <2>2, <2>3
<1> HIDE DEF T
<1>2. \A s \in SUBSET S : s \in T
  BY <1>1, SizeInduction
<1>3. QED
  BY <1>2 DEF T

\* Any element can be taken out of a sum.
LEMMA SumRemove ==
  ASSUME NEW f, NEW S, IsFiniteSet(S), \A x \in S : f[x] \in Nat
  PROVE  \A y \in S : SumFunctionOnSet(f, S) = f[y] + SumFunctionOnSet(f, S \ {y})
<1> DEFINE Fine(s) == \A y \in s :
                        SumFunctionOnSet(f, s) = f[y] + SumFunctionOnSet(f, s \ {y})
           T == {s \in SUBSET S : Fine(s)}
<1>0. ASSUME NEW s \in SUBSET S
      PROVE  IsFiniteSet(s) /\ SumFunctionOnSet(f, s) \in Nat
  <2>1. IsFiniteSet(s) /\ \A x \in s : f[x] \in Nat
    BY FS_Subset
  <2>2. QED
    BY <2>1, SumType
<1>1. ASSUME NEW s \in SUBSET S, \A x \in s : s \ {x} \in T PROVE s \in T
  <2> SUFFICES ASSUME NEW y \in s
               PROVE  SumFunctionOnSet(f, s) = f[y] + SumFunctionOnSet(f, s \ {y})
    OBVIOUS
  <2> DEFINE p == Pick(s)
  <2>1. p \in s /\ SumFunctionOnSet(f, s) = f[p] + SumFunctionOnSet(f, s \ {p})
    BY <1>0, SumPick
  <2> HIDE DEF p
  <2>2. CASE y = p
    BY <2>1, <2>2
  <2>3. CASE y # p
    <3> DEFINE a == SumFunctionOnSet(f, s \ {p})
               b == SumFunctionOnSet(f, s \ {y})
               c == SumFunctionOnSet(f, (s \ {p}) \ {y})
    <3>1. y \in s \ {p} /\ p \in s \ {y} /\ (s \ {p}) \ {y} = (s \ {y}) \ {p}
      BY <2>1, <2>3
    <3>2. Fine(s \ {p}) /\ Fine(s \ {y})
      BY <1>1, <2>1
    <3>3. a = f[y] + c
      BY <3>1, <3>2
    <3>4. b = f[p] + c
      <4>1. b = f[p] + SumFunctionOnSet(f, (s \ {y}) \ {p})
        BY <3>1, <3>2
      <4>2. QED
        BY <3>1, <4>1
    <3>5. c \in Nat /\ f[y] \in Nat /\ f[p] \in Nat
      <4>1. (s \ {p}) \ {y} \in SUBSET S
        OBVIOUS
      <4>2. QED
        BY <1>0, <2>1, <4>1
    <3> HIDE DEF a, b, c
    <3>6. f[p] + a = f[y] + b
      BY <3>3, <3>4, <3>5
    <3>7. QED
      BY <2>1, <3>6 DEF a, b
  <2>4. QED
    BY <2>2, <2>3
<1> HIDE DEF T
<1>2. \A s \in SUBSET S : s \in T
  BY <1>1, SizeInduction
<1>3. QED
  BY <1>2 DEF T

\* The sum over a disjoint union.
LEMMA SumUnion ==
  ASSUME NEW f, NEW S, NEW R, IsFiniteSet(S), IsFiniteSet(R), S \cap R = {},
         \A x \in S \cup R : f[x] \in Nat
  PROVE  SumFunctionOnSet(f, S \cup R) = SumFunctionOnSet(f, S) + SumFunctionOnSet(f, R)
<1> DEFINE T == {s \in SUBSET R : SumFunctionOnSet(f, S \cup s)
                                    = SumFunctionOnSet(f, S) + SumFunctionOnSet(f, s)}
<1>0. ASSUME NEW s \in SUBSET (S \cup R)
      PROVE  /\ IsFiniteSet(s) /\ SumFunctionOnSet(f, s) \in Nat
             /\ \A x \in s : f[x] \in Nat
             /\ \A x \in s : SumFunctionOnSet(f, s) = f[x] + SumFunctionOnSet(f, s \ {x})
  <2>1. IsFiniteSet(s) /\ \A x \in s : f[x] \in Nat
    BY FS_Subset, FS_Union
  <2>2. QED
    BY <2>1, SumType, SumRemove
<1>1. ASSUME NEW s \in SUBSET R, \A x \in s : s \ {x} \in T PROVE s \in T
  <2>1. CASE s = {}
    <3>1. S \cup s = S /\ SumFunctionOnSet(f, s) = 0 /\ SumFunctionOnSet(f, S) \in Nat
      BY <1>0, <2>1, SumEmpty
    <3>2. SumFunctionOnSet(f, S \cup s) = SumFunctionOnSet(f, S)
      BY <3>1
    <3>3. SumFunctionOnSet(f, S) = SumFunctionOnSet(f, S) + SumFunctionOnSet(f, s)
      BY <3>1
    <3>4. QED
      BY <3>2, <3>3
  <2>2. CASE s # {}
    <3>1. PICK x \in s : TRUE
      BY <2>2
    <3> DEFINE a == SumFunctionOnSet(f, S \cup s)
               b == SumFunctionOnSet(f, (S \cup s) \ {x})
               c == SumFunctionOnSet(f, s)
               d == SumFunctionOnSet(f, s \ {x})
               e == SumFunctionOnSet(f, S)
    <3>2. a = f[x] + b /\ c = f[x] + d /\ f[x] \in Nat
      <4>1. S \cup s \in SUBSET (S \cup R) /\ s \in SUBSET (S \cup R) /\ x \in S \cup s
        OBVIOUS
      <4>2. QED
        BY <1>0, <4>1
    <3>3. (S \cup s) \ {x} = S \cup (s \ {x})
      OBVIOUS
    <3>4. b = e + d
      BY <1>1, <3>3
    <3>5. d \in Nat /\ e \in Nat
      <4>1. s \ {x} \in SUBSET (S \cup R) /\ S \in SUBSET (S \cup R)
        OBVIOUS
      <4>2. QED
        BY <1>0, <4>1
    <3> HIDE DEF a, b, c, d, e
    <3>6. a = e + c
      BY <3>2, <3>4, <3>5
    <3>7. QED
      BY <3>6 DEF a, c, e
  <2>3. QED
    BY <2>1, <2>2
<1> HIDE DEF T
<1>2. \A s \in SUBSET R : s \in T
  BY <1>1, SizeInduction
<1>3. QED
  BY <1>2 DEF T
=============================================================================
