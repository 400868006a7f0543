-------------------------- MODULE TaikoGradualProofs --------------------------
(***************************************************************************)
(* What one call does to an osu!taiko calculator, for every map, odd ones  *)
(* included, and any mix of calls.  AnyGradualProofs draws the theorems    *)
(* from it.                                                                *)
(***************************************************************************)
EXTENDS TaikoGradual, ObjectRunsProofs

\* What AnyGradual assumes of its constants.
Given == /\ Maps \subseteq Seq(BOOLEAN) /\ MaxCall \in Nat
         /\ USizeSpan \in Nat /\ \A m \in Maps : USizeSpan > Len(m)
         /\ None \notin [max_combo : Nat, seen : Seq(Nat)]

-----------------------------------------------------------------------------
(* The k-th member of a finite set of numbers *)

Below(S, j) == {h \in S : h <= j}

\* The members up to the next number.
LEMMA BelowNext ==
  ASSUME NEW S, \A h \in S : h \in Nat /\ 1 <= h
  PROVE  /\ Below(S, 0) = {}
         /\ \A m \in Nat : Below(S, m + 1) =
              IF m + 1 \in S THEN Below(S, m) \cup {m + 1} ELSE Below(S, m)
         /\ \A m \in Nat : m + 1 \notin Below(S, m)
         /\ \A m \in Nat : (\A h \in S : h <= m) => Below(S, m) = S
<1>1. /\ \A h \in S : ~(h <= 0)
      /\ \A h \in S, m \in Nat : h <= m + 1 <=> h <= m \/ h = m + 1
      /\ \A m \in Nat : ~(m + 1 <= m) /\ m + 1 <= m + 1
  OBVIOUS
<1>2. QED
  BY <1>1 DEF Below

\* A set of k or more numbers has a k-th member.
LEMMA KthExists ==
  ASSUME NEW n \in Nat, NEW S \in SUBSET (1..n), NEW k \in 1..Cardinality(S)
  PROVE  \E j \in S : Cardinality(Below(S, j)) = k
<1> DEFINE B(m) == Below(S, m)
           T == {m \in Nat : \A c \in 1..Cardinality(B(m)) :
                               \E j \in S : Cardinality(Below(S, j)) = c}
<1>0. IsFiniteSet(S)
  <2>1. IsFiniteSet(1..n)
    BY IntervalFinite
  <2>2. QED
    BY <2>1, FS_Subset, Zenon
<1>a. \A h \in S : h \in Nat /\ 1 <= h /\ h <= n
  OBVIOUS
<1>1. 0 \in T
  <2>1. B(0) = {}
    BY <1>a, BelowNext
  <2>2. Cardinality(B(0)) = 0
    BY <2>1, FS_EmptySet
  <2>3. QED
    BY <2>2
<1>2. ASSUME NEW m \in Nat, m \in T PROVE m + 1 \in T
  <2>1. CASE m + 1 \notin S
    <3>1. B(m + 1) = B(m)
      BY <1>a, <2>1, BelowNext
    <3>2. QED
      BY <1>2, <3>1
  <2>2. CASE m + 1 \in S
    <3>1. B(m + 1) = B(m) \cup {m + 1} /\ m + 1 \notin B(m)
      BY <1>a, <2>2, BelowNext
    <3>2. IsFiniteSet(B(m))
      BY <1>0, FS_Subset DEF Below
    <3>3. Cardinality(B(m + 1)) = Cardinality(B(m)) + 1 /\ Cardinality(B(m)) \in Nat
      <4> HIDE DEF B
      <4>1. QED
        BY <3>1, <3>2, FS_AddElement, FS_CardinalityType
    <3>4. ASSUME NEW c \in 1..Cardinality(B(m + 1))
          PROVE  \E j \in S : Cardinality(Below(S, j)) = c
      <4>1. CASE c = Cardinality(B(m + 1))
        BY <2>2, <4>1
      <4>2. CASE c # Cardinality(B(m + 1))
        <5>1. c \in 1..Cardinality(B(m))
          BY <3>3, <4>2
        <5>2. QED
          BY <1>2, <5>1
      <4>3. QED
        BY <4>1, <4>2
    <3>5. QED
      BY <3>4
  <2>3. QED
    BY <2>1, <2>2
<1>3. \A m \in Nat : m \in T
  <2> HIDE DEF T
  <2>1. QED
    BY <1>1, <1>2, NatInd
<1>4. Below(S, n) = S
  BY <1>a, BelowNext
<1>5. QED
  BY <1>3, <1>4

-----------------------------------------------------------------------------
(* Counting hits *)

\* The hits among the difficulty objects S.
HitObjects(m, S) == {j \in S : m[j + 2]}
\* The hits among the first i objects, of which two at most have no difficulty object.
Early(m, i) == Cardinality(Hits(m, 1..Least(i, 2)))

\* Selecting from a finite set gives a finite set.
LEMMA HitsFinite ==
  ASSUME NEW m, NEW S, IsFiniteSet(S)
  PROVE  /\ IsFiniteSet(Hits(m, S)) /\ Cardinality(Hits(m, S)) \in Nat
         /\ Cardinality(Hits(m, S)) <= Cardinality(S)
         /\ IsFiniteSet(HitObjects(m, S)) /\ Cardinality(HitObjects(m, S)) \in Nat
<1>1. Hits(m, S) \in SUBSET S /\ HitObjects(m, S) \in SUBSET S
  BY DEF Hits, HitObjects
<1>2. QED
  BY <1>1, FS_Subset, FS_CardinalityType, Zenon

\* Hits of disjoint sets add up.
LEMMA HitsAdd ==
  ASSUME NEW m, NEW S, NEW T, IsFiniteSet(S), IsFiniteSet(T), S \cap T = {}
  PROVE  /\ Cardinality(Hits(m, S \cup T)) = Cardinality(Hits(m, S)) + Cardinality(Hits(m, T))
         /\ Cardinality(HitObjects(m, S \cup T))
              = Cardinality(HitObjects(m, S)) + Cardinality(HitObjects(m, T))
<1>1. /\ Hits(m, S \cup T) = Hits(m, S) \cup Hits(m, T)
      /\ Hits(m, S) \cap Hits(m, T) = {}
  BY DEF Hits
<1>2. /\ HitObjects(m, S \cup T) = HitObjects(m, S) \cup HitObjects(m, T)
      /\ HitObjects(m, S) \cap HitObjects(m, T) = {}
  BY DEF HitObjects
<1>3. QED
  BY <1>1, <1>2, HitsFinite, DisjointUnion, Zenon

\* The hits of one object.
LEMMA HitsOne ==
  ASSUME NEW m, NEW x
  PROVE  Cardinality(Hits(m, {x})) = IF m[x] THEN 1 ELSE 0
<1>1. CASE m[x]
  <2>1. Hits(m, {x}) = {x}
    BY <1>1 DEF Hits
  <2>2. QED
    BY <1>1, <2>1, FS_Singleton
<1>2. CASE ~m[x]
  <2>1. Hits(m, {x}) = {}
    BY <1>2 DEF Hits
  <2>2. QED
    BY <1>2, <2>1, FS_EmptySet
<1>3. QED
  BY <1>1, <1>2

\* The hits up to object j + 2 are those of the first two and of the difficulty
\* objects up to j.
LEMMA HitsSplit ==
  ASSUME NEW m, NEW j \in Nat
  PROVE  /\ Cardinality(Hits(m, 1..(j + 2))) = Early(m, 2) + Cardinality(HitObjects(m, 1..j))
         /\ Early(m, 2) \in Nat /\ Cardinality(HitObjects(m, 1..j)) \in Nat
<1>1. Early(m, 2) = Cardinality(Hits(m, 1..2))
  BY DEF Early, Least
<1>2. 1..(j + 2) = 1..2 \cup 3..(j + 2) /\ 1..2 \cap 3..(j + 2) = {}
  OBVIOUS
<1>3. IsFiniteSet(1..2) /\ IsFiniteSet(3..(j + 2)) /\ IsFiniteSet(1..j)
  <2>1. {1, 2, 3, j, j + 2} \subseteq Int
    OBVIOUS
  <2> HIDE DEF Early
  <2>2. QED
    BY <2>1, IntervalFinite
<1>4. Cardinality(Hits(m, 1..(j + 2))) = Cardinality(Hits(m, 1..2)) + Cardinality(Hits(m, 3..(j + 2)))
  BY <1>2, <1>3, HitsAdd
<1>5. Cardinality(Hits(m, 3..(j + 2))) = Cardinality(HitObjects(m, 1..j))
  <2> DEFINE A == HitObjects(m, 1..j)
             B == Hits(m, 3..(j + 2))
             f == [a \in A |-> a + 2]
  <2>1. f \in [A -> B] /\ \A a \in A : f[a] = a + 2 /\ a \in Nat
    BY DEF HitObjects, Hits
  <2>2. \A a, b \in A : f[a] = f[b] => a = b
    BY <2>1
  <2>3. \A b \in B : \E a \in A : f[a] = b
    <3> SUFFICES ASSUME NEW b \in B PROVE \E a \in A : f[a] = b
      OBVIOUS
    <3>1. b - 2 \in A /\ (b - 2) + 2 = b
      BY DEF Hits, HitObjects
    <3>2. QED
      BY <2>1, <3>1
  <2>4. f \in Bijection(A, B)
    <3> HIDE DEF f, A, B
    <3>1. f \in Injection(A, B)
      BY <2>1, <2>2 DEF Injection, IsInjective
    <3>2. f \in Surjection(A, B)
      BY <2>1, <2>3 DEF Surjection
    <3>3. QED
      BY <3>1, <3>2 DEF Bijection
  <2>5. IsFiniteSet(A)
    BY <1>3, HitsFinite
  <2> HIDE DEF f, A, B
  <2>6. QED
    <3>1. Cardinality(B) = Cardinality(A)
      BY <2>4, <2>5, FS_Bijection DEF ExistsBijection
    <3>2. QED
      BY <3>1 DEF A, B
<1>6. QED
  BY <1>1, <1>3, <1>4, <1>5, HitsFinite

\* What was counted for the first two objects.
LEMMA EarlyValues ==
  ASSUME NEW m
  PROVE  /\ Early(m, 0) = 0
         /\ Early(m, 1) = IF m[1] THEN 1 ELSE 0
         /\ Early(m, 2) = (IF m[1] THEN 1 ELSE 0) + (IF m[2] THEN 1 ELSE 0)
         /\ \A i \in Nat : i >= 2 => Early(m, i) = Early(m, 2)
         /\ \A i \in Nat : Early(m, i) \in Nat
<1>1. 1..0 = {} /\ 1..1 = {1} /\ 1..2 = {1} \cup {2} /\ {1} \cap {2} = {}
  OBVIOUS
<1>2. Least(0, 2) = 0 /\ Least(1, 2) = 1 /\ Least(2, 2) = 2 /\ \A i \in Nat : i >= 2 => Least(i, 2) = 2
  BY DEF Least
<1>3. Hits(m, {}) = {} /\ Cardinality({}) = 0
  BY FS_EmptySet DEF Hits
<1>4. Early(m, 0) = 0
  BY <1>1, <1>2, <1>3 DEF Early
<1>5. Early(m, 1) = IF m[1] THEN 1 ELSE 0
  BY <1>1, <1>2, HitsOne DEF Early
<1>6. Cardinality(Hits(m, {1} \cup {2})) = Cardinality(Hits(m, {1})) + Cardinality(Hits(m, {2}))
  <2> DEFINE A == {1}
             B == {2}
  <2>1. IsFiniteSet(A) /\ IsFiniteSet(B) /\ A \cap B = {}
    BY <1>1, FS_Singleton
  <2> HIDE DEF A, B
  <2>2. Cardinality(Hits(m, A \cup B)) = Cardinality(Hits(m, A)) + Cardinality(Hits(m, B))
    BY <2>1, HitsAdd
  <2>3. QED
    BY <2>2 DEF A, B
<1>7. Early(m, 2) = (IF m[1] THEN 1 ELSE 0) + (IF m[2] THEN 1 ELSE 0)
  BY <1>1, <1>2, <1>6, HitsOne DEF Early
<1>8. \A i \in Nat : i >= 2 => Early(m, i) = Early(m, 2)
  BY <1>2 DEF Early
<1>9. \A i \in Nat : i = 0 \/ i = 1 \/ i >= 2
  OBVIOUS
<1>10. Early(m, 0) \in Nat /\ Early(m, 1) \in Nat /\ Early(m, 2) \in Nat
  BY <1>4, <1>5, <1>7
<1>11. QED
  BY <1>4, <1>5, <1>7, <1>8, <1>9, <1>10

-----------------------------------------------------------------------------
(* The sizes of a map *)

N == n_diff_objects(map)
Total == total_hits(map)
\* The hits among the difficulty objects up to it.
HitsTo(it) == Cardinality(HitObjects(map, 1..it))

LEMMA Sizes ==
  ASSUME Given, map \in Maps
  PROVE  /\ Len(map) \in Nat /\ N \in Nat /\ Total \in Nat /\ Total <= Len(map)
         /\ Len(map) < USizeSpan /\ USizeSpan \in Nat /\ MaxCall \in Nat
         /\ \A i \in 1..Len(map) : map[i] \in BOOLEAN
         /\ N > 0 => N = Len(map) - 2
         /\ N = 0 => Len(map) <= 2
         /\ Len(map) >= 2 => Total = Early(map, 2) + HitsTo(N)
<1>1. map \in Seq(BOOLEAN) /\ Len(map) < USizeSpan /\ USizeSpan \in Nat /\ MaxCall \in Nat
  BY DEF Given
<1>2. Len(map) \in Nat /\ \A i \in 1..Len(map) : map[i] \in BOOLEAN
  BY <1>1
<1>3. IsFiniteSet(1..Len(map)) /\ Cardinality(1..Len(map)) = Len(map)
  <2>1. 1 \in Int /\ Len(map) \in Int
    BY <1>2
  <2>2. QED
    BY <1>2, <2>1, FS_Interval
<1>4. Total \in Nat /\ Total <= Len(map)
  BY <1>3, HitsFinite DEF Total, total_hits
<1>5. N \in Nat /\ (N > 0 => N = Len(map) - 2) /\ (N = 0 => Len(map) <= 2)
      /\ (Len(map) >= 2 => N + 2 = Len(map))
  <2>1. \A l \in Nat : LET d == SaturatingSub(l, 2)
                      IN  /\ d \in Nat /\ (d > 0 => d = l - 2) /\ (d = 0 => l <= 2)
                          /\ (l >= 2 => d + 2 = l)
    BY DEF SaturatingSub
  <2>2. QED
    BY <1>2, <2>1 DEF N, n_diff_objects
<1>6. Len(map) >= 2 => Total = Early(map, 2) + HitsTo(N)
  BY <1>5, HitsSplit DEF Total, total_hits, HitsTo
<1>7. QED
  BY <1>1, <1>2, <1>4, <1>5, <1>6

\* Hits up to it and those ahead of it.
LEMMA HitsToAdds ==
  ASSUME NEW it \in Nat, NEW to \in Nat, it <= to
  PROVE  /\ HitsTo(to) = HitsTo(it) + Cardinality(HitObjects(map, (it + 1)..to))
         /\ HitsTo(it) \in Nat /\ HitsTo(to) \in Nat /\ HitsTo(0) = 0
         /\ Cardinality(HitObjects(map, (it + 1)..to)) \in Nat
<1>1. 1..to = 1..it \cup (it + 1)..to /\ 1..it \cap (it + 1)..to = {}
  OBVIOUS
<1>2. IsFiniteSet(1..it) /\ IsFiniteSet((it + 1)..to)
  <2>1. {1, it, it + 1, to} \subseteq Int
    OBVIOUS
  <2>2. QED
    BY <2>1, IntervalFinite
<1>3. Cardinality(HitObjects(map, 1..it \cup (it + 1)..to))
        = HitsTo(it) + Cardinality(HitObjects(map, (it + 1)..to))
  <2> DEFINE A == 1..it
             B == (it + 1)..to
  <2>1. IsFiniteSet(A) /\ IsFiniteSet(B) /\ A \cap B = {}
    BY <1>1, <1>2
  <2> HIDE DEF A, B
  <2>2. Cardinality(HitObjects(map, A \cup B))
          = Cardinality(HitObjects(map, A)) + Cardinality(HitObjects(map, B))
    BY <2>1, HitsAdd
  <2>3. QED
    BY <2>2 DEF A, B, HitsTo
<1>4. HitsTo(it) \in Nat /\ Cardinality(HitObjects(map, (it + 1)..to)) \in Nat
  BY <1>2, HitsFinite DEF HitsTo
<1>5. HitsTo(0) = 0
  <2>1. HitObjects(map, 1..0) = {}
    BY DEF HitObjects
  <2>2. QED
    BY <2>1, FS_EmptySet DEF HitsTo
<1>6. HitsTo(to) = HitsTo(it) + Cardinality(HitObjects(map, (it + 1)..to))
  BY <1>1, <1>3 DEF HitsTo
<1> HIDE DEF HitsTo
<1>7. QED
  BY <1>4, <1>5, <1>6

\* The k-th hit ahead.
LEMMA KthHitIs ==
  ASSUME Given, map \in Maps, NEW it \in 0..N,
         NEW k \in Nat, 0 < k, k <= Cardinality(HitsAhead(it))
  PROVE  LET to == KthHit(it, k)
         IN  /\ to \in (it + 1)..N /\ map[to + 2]
             /\ HitsTo(to) = HitsTo(it) + k
             /\ Cardinality(HitsAhead(to)) = Cardinality(HitsAhead(it)) - k
<1> DEFINE S == HitsAhead(it)
           to == KthHit(it, k)
<1>1. N \in Nat /\ it \in Nat /\ it <= N
  BY Sizes
<1>2. S \in SUBSET (1..N) /\ \A h \in S : h \in (it + 1)..N /\ map[h + 2]
  BY <1>1 DEF HitsAhead, N
<1>3. IsFiniteSet(1..N)
  <2>1. 1 \in Int /\ N \in Int
    BY <1>1
  <2>2. QED
    BY <2>1, IntervalFinite
<1>4. Cardinality(S) \in Nat
  BY <1>2, <1>3, FS_Subset, FS_CardinalityType, Zenon
<1>5. k \in 1..Cardinality(S)
  BY <1>4
<1>6. \E j \in S : Cardinality(Below(S, j)) = k
  <2> HIDE DEF S
  <2>1. QED
    BY <1>1, <1>2, <1>5, KthExists
<1>7. to = CHOOSE j \in S : Cardinality(Below(S, j)) = k
  BY DEF KthHit, Below
<1>8. to \in S /\ Cardinality(Below(S, to)) = k
  <2> HIDE DEF S, to
  <2>1. QED
    BY <1>6, <1>7, Zenon
<1> HIDE DEF to
<1>9. to \in (it + 1)..N /\ map[to + 2]
  BY <1>2, <1>8
<1>10. Below(S, to) = HitObjects(map, (it + 1)..to)
  BY <1>1, <1>9 DEF Below, HitsAhead, HitObjects, N
<1>11. \A i \in Nat : HitsAhead(i) = HitObjects(map, (i + 1)..N)
  BY DEF HitsAhead, HitObjects, N
<1>12. to \in Nat /\ it <= to /\ to <= N
  BY <1>1, <1>9
<1>13. /\ HitsTo(to) = HitsTo(it) + Cardinality(HitObjects(map, (it + 1)..to))
       /\ HitsTo(N) = HitsTo(it) + Cardinality(HitsAhead(it))
       /\ HitsTo(N) = HitsTo(to) + Cardinality(HitsAhead(to))
       /\ HitsTo(it) \in Nat /\ HitsTo(to) \in Nat /\ HitsTo(N) \in Nat
       /\ Cardinality(HitsAhead(it)) \in Nat /\ Cardinality(HitsAhead(to)) \in Nat
  <2> HIDE DEF S
  <2>1. /\ HitsTo(to) = HitsTo(it) + Cardinality(HitObjects(map, (it + 1)..to))
        /\ HitsTo(it) \in Nat /\ HitsTo(to) \in Nat
    BY <1>1, <1>12, HitsToAdds
  <2>2. /\ HitsTo(N) = HitsTo(it) + Cardinality(HitObjects(map, (it + 1)..N))
        /\ Cardinality(HitObjects(map, (it + 1)..N)) \in Nat /\ HitsTo(N) \in Nat
    BY <1>1, HitsToAdds
  <2>3. /\ HitsTo(N) = HitsTo(to) + Cardinality(HitObjects(map, (to + 1)..N))
        /\ Cardinality(HitObjects(map, (to + 1)..N)) \in Nat
    BY <1>1, <1>12, HitsToAdds
  <2>4. QED
    BY <1>1, <1>11, <1>12, <2>1, <2>2, <2>3
<1>14. HitsTo(to) = HitsTo(it) + k
  BY <1>8, <1>10, <1>13
<1>15. Cardinality(HitsAhead(to)) = Cardinality(HitsAhead(it)) - k
  BY <1>13, <1>14
<1>16. QED
  BY <1>9, <1>14, <1>15 DEF to

-----------------------------------------------------------------------------
(* A calculator that passed i objects *)

\* The combo c and the skills s of a calculator whose idx is i and whose iterator was
\* advanced to difficulty object `it`.
Passed(i, c, it, s) ==
  /\ i \in Nat /\ it \in 0..N
  /\ s = Run(1, it) /\ c = Early(map, i) + HitsTo(it)
  /\ i < 2 => it = 0
  /\ i >= 2 => N > 0 /\ i = 2 + HitsTo(it)
  /\ N = 0 => i = 0 \/ i < Total

\* The table of the first two objects gives the hits among them, if they exist.
LEMMA ComboTable ==
  ASSUME Given, map \in Maps, NEW n \in 1..2, n <= Len(map), NEW i \in 0..n
  PROVE  ComboAfter(n, Early(map, i)) = Early(map, n)
<1>1. /\ Early(map, 0) = 0
      /\ Early(map, 1) = IF map[1] THEN 1 ELSE 0
      /\ Early(map, 2) = (IF map[1] THEN 1 ELSE 0) + (IF map[2] THEN 1 ELSE 0)
  BY EarlyValues
<1>2. Len(map) \in Nat
  BY Sizes
<1> DEFINE a == Len(map) >= 1 /\ map[1]
           b == Len(map) >= 2 /\ map[2]
<1>3. FirstTwoCombos = CASE a /\ b -> "Both" [] a /\ ~b -> "OnlyFirst"
                         [] ~a /\ b -> "OnlySecond" [] OTHER -> "None"
  BY DEF FirstTwoCombos
<1>4. /\ n = 1 \/ n = 2
      /\ i = n \/ i = 0 \/ i = 1
      /\ n = 1 => (i = 0 \/ i = 1)
      /\ a <=> map[1]
      /\ n = 2 => (b <=> map[2])
  BY <1>2
<1>5. CASE a /\ b
  <2>1. FirstTwoCombos = "Both"
    BY <1>3, <1>5
  <2>2. Early(map, n) = n
    <3>1. map[1] /\ map[2]
      BY <1>5
    <3>2. Early(map, 1) = 1 /\ Early(map, 2) = 2
      BY <1>1, <3>1
    <3>3. QED
      BY <1>4, <3>2
  <2>3. QED
    BY <2>1, <2>2 DEF ComboAfter
<1>6. CASE a /\ ~b
  <2>1. FirstTwoCombos = "OnlyFirst"
    BY <1>3, <1>6
  <2>2. Early(map, n) = 1
    BY <1>1, <1>4, <1>6
  <2>3. QED
    BY <2>1, <2>2 DEF ComboAfter
<1>7. CASE ~a /\ b
  <2>1. FirstTwoCombos = "OnlySecond"
    BY <1>3, <1>7
  <2>2. Early(map, 0) = 0 /\ Early(map, 1) = 0 /\ Early(map, 2) = 1
    <3>1. ~map[1] /\ map[2]
      BY <1>4, <1>7
    <3>2. QED
      BY <1>1, <3>1
  <2>3. CASE n = 2
    BY <2>1, <2>2, <2>3 DEF ComboAfter
  <2>4. CASE n = 1
    BY <1>4, <2>1, <2>2, <2>4 DEF ComboAfter
  <2>5. QED
    BY <1>4, <2>3, <2>4
<1>8. CASE ~a /\ ~b
  <2>1. FirstTwoCombos = "None"
    BY <1>3, <1>8
  <2>2. Early(map, n) = 0 /\ Early(map, i) = 0
    BY <1>1, <1>4, <1>8
  <2>3. QED
    BY <2>1, <2>2 DEF ComboAfter
<1>9. QED
  BY <1>5, <1>6, <1>7, <1>8

\* Where next() finds an object to answer for.
Serves(i, it) == IF i < 2 THEN N > 0 ELSE HitsAhead(it) # {}

\* Advancing the iterator processes what lies in between.
LEMMA ProcessRun ==
  ASSUME NEW it \in Nat, NEW to \in Nat, it <= to, NEW s, s = Run(1, it)
  PROVE  s \o Run(it + 1, to) = Run(1, to)
BY RunConcat

\* The difficulty objects ahead are as many as there are hits to come.
LEMMA AheadIs ==
  ASSUME Given, map \in Maps, NEW it \in 0..N
  PROVE  /\ HitsTo(N) = HitsTo(it) + Cardinality(HitsAhead(it))
         /\ Cardinality(HitsAhead(it)) \in Nat /\ HitsTo(it) \in Nat /\ HitsTo(N) \in Nat
         /\ HitsAhead(it) = {} <=> Cardinality(HitsAhead(it)) = 0
<1>1. N \in Nat /\ it \in Nat /\ it <= N
  BY Sizes
<1>2. HitsAhead(it) = HitObjects(map, (it + 1)..N)
  BY DEF HitsAhead, HitObjects, N
<1>3. IsFiniteSet(HitsAhead(it))
  <2>1. it + 1 \in Int /\ N \in Int
    BY <1>1
  <2>2. QED
    BY <1>2, <2>1, IntervalFinite, HitsFinite
<1>4. HitsAhead(it) = {} <=> Cardinality(HitsAhead(it)) = 0
  BY <1>3, FS_EmptySet
<1>5. /\ HitsTo(N) = HitsTo(it) + Cardinality(HitObjects(map, (it + 1)..N))
      /\ HitsTo(it) \in Nat /\ HitsTo(N) \in Nat /\ Cardinality(HitObjects(map, (it + 1)..N)) \in Nat
  BY <1>1, HitsToAdds
<1>6. QED
  BY <1>2, <1>4, <1>5

\* next() answers for one object more, if there is one.
LEMMA ServeCorrect ==
  ASSUME Given, map \in Maps, NEW i, NEW c, NEW it, NEW s,
         Passed(i, c, it, s), Serve(i, c, it, s)
  PROVE  /\ Passed(idx', max_combo', iter', skills')
         /\ IF Serves(i, it)
            THEN /\ idx' = i + 1 /\ answer' = Attributes(max_combo', skills')
                 /\ i < 2 => iter' = 0
                 /\ i >= 2 => iter' \in 1..N /\ map[iter' + 2]
            ELSE /\ idx' = i /\ answer' = None
                 /\ i >= 2 => iter' = N
<1>1. /\ Len(map) \in Nat /\ N \in Nat /\ Total \in Nat
      /\ N > 0 => N = Len(map) - 2
  BY Sizes
<1>2. /\ i \in Nat /\ it \in 0..N /\ it \in Nat /\ it <= N
      /\ s = Run(1, it) /\ c = Early(map, i) + HitsTo(it)
      /\ i < 2 => it = 0
      /\ i >= 2 => N > 0 /\ i = 2 + HitsTo(it)
      /\ N = 0 => i = 0 \/ i < Total
  BY <1>1 DEF Passed
<1>3. /\ HitsTo(N) = HitsTo(it) + Cardinality(HitsAhead(it))
      /\ Cardinality(HitsAhead(it)) \in Nat /\ HitsTo(it) \in Nat
      /\ HitsAhead(it) = {} <=> Cardinality(HitsAhead(it)) = 0
  BY <1>2, AheadIs
<1>4. CASE i >= 2 /\ HitsAhead(it) # {}
  <2> DEFINE to == KthHit(it, 1)
  <2>1. 1 \in Nat /\ 0 < 1 /\ 1 <= Cardinality(HitsAhead(it))
    BY <1>3, <1>4
  <2>2. to \in (it + 1)..N /\ map[to + 2] /\ HitsTo(to) = HitsTo(it) + 1
    BY <1>2, <2>1, KthHitIs
  <2> HIDE DEF to
  <2>3. /\ iter' = to /\ skills' = s \o Run(it + 1, to) /\ max_combo' = c + 1
        /\ idx' = i + 1 /\ answer' = Attributes(max_combo', skills')
    <3>1. ~(i < 2)
      BY <1>2, <1>4
    <3>2. QED
      BY <1>4, <3>1, Zenon DEF Serve, Process, to
  <2>4. to \in Nat /\ it <= to /\ to \in 0..N /\ to \in 1..N
    BY <1>2, <2>2
  <2>5. skills' = Run(1, to)
    BY <1>2, <2>3, <2>4, ProcessRun
  <2>6. Early(map, i + 1) = Early(map, i) /\ Early(map, i) \in Nat
    <3>1. i + 1 \in Nat /\ i + 1 >= 2
      BY <1>2, <1>4
    <3>2. QED
      BY <1>2, <1>4, <3>1, EarlyValues
  <2>7. max_combo' = Early(map, i + 1) + HitsTo(to)
    BY <1>2, <1>3, <2>2, <2>3, <2>6
  <2>8. Passed(i + 1, max_combo', to, skills')
    BY <1>1, <1>2, <1>3, <1>4, <2>2, <2>4, <2>5, <2>7 DEF Passed
  <2>9. ~(i < 2) /\ Serves(i, it)
    BY <1>2, <1>4 DEF Serves
  <2>10. QED
    BY <2>2, <2>3, <2>4, <2>8, <2>9
<1>5. CASE i >= 2 /\ HitsAhead(it) = {}
  <2>1. /\ ~(i < 2) /\ ~Serves(i, it)
    BY <1>2, <1>5 DEF Serves
  <2>2. Exhausted(i, c, it, s)
    BY <1>5, <2>1 DEF Serve
  <2>3. /\ iter' = N /\ skills' = s \o Run(it + 1, N) /\ max_combo' = c
        /\ idx' = i /\ answer' = None
    BY <2>2 DEF Exhausted, Process, N
  <2>4. skills' = Run(1, N)
    BY <1>1, <1>2, <2>3, ProcessRun
  <2>5. HitsTo(N) = HitsTo(it)
    BY <1>3, <1>5
  <2>6. Passed(i, c, N, skills')
    BY <1>1, <1>2, <1>5, <2>4, <2>5 DEF Passed
  <2>7. QED
    BY <2>1, <2>3, <2>6
<1>6. CASE i < 2 /\ N = 0
  <2>1. idx' = i /\ max_combo' = c /\ iter' = it /\ skills' = s /\ answer' = None
    BY <1>2, <1>6 DEF Serve, N
  <2>2. ~Serves(i, it) /\ ~(i >= 2)
    BY <1>2, <1>6 DEF Serves
  <2>3. QED
    BY <2>1, <2>2
<1>7. CASE i < 2 /\ N > 0
  <2>1. /\ max_combo' = ComboAfter(i + 1, c) /\ idx' = i + 1 /\ iter' = it /\ skills' = s
        /\ answer' = Attributes(max_combo', skills')
    <3>0. ~(i >= 2) /\ ~(N = 0)
      BY <1>1, <1>2, <1>7
    <3>1. ~(i >= 2) /\ ~(n_diff_objects(map) = 0)
      BY <3>0, Zenon DEF N
    <3>2. QED
      BY <1>7, <3>1, Zenon DEF Serve
  <2>2. it = 0 /\ HitsTo(0) = 0
    <3>1. 0 \in Nat /\ 0 <= 0
      OBVIOUS
    <3>2. QED
      BY <1>2, <1>7, <3>1, HitsToAdds
  <2>3. c = Early(map, i) /\ Early(map, i + 1) \in Nat
    <3>1. i + 1 \in Nat
      BY <1>2
    <3>2. Early(map, i) \in Nat /\ Early(map, i + 1) \in Nat
      BY <1>2, <3>1, EarlyValues
    <3>3. QED
      BY <1>2, <2>2, <3>2
  <2>4. ComboAfter(i + 1, c) = Early(map, i + 1)
    <3>1. i + 1 \in 1..2 /\ i + 1 <= Len(map) /\ i \in 0..(i + 1)
      BY <1>1, <1>2, <1>7
    <3>2. QED
      BY <2>3, <3>1, ComboTable
  <2>5. Passed(i + 1, max_combo', it, s)
    BY <1>1, <1>2, <1>7, <2>1, <2>2, <2>3, <2>4 DEF Passed
  <2>6. Serves(i, it) /\ ~(i >= 2)
    BY <1>2, <1>7 DEF Serves
  <2>7. QED
    BY <2>1, <2>2, <2>5, <2>6
<1>8. QED
  BY <1>1, <1>2, <1>4, <1>5, <1>6, <1>7

-----------------------------------------------------------------------------
(* The inductive invariant *)

Now == Passed(idx, max_combo, iter, skills)

IInv == /\ map \in Maps /\ checked \in BOOLEAN /\ panicked \in BOOLEAN
        /\ call \in 0..MaxCall
        /\ Now
        /\ answer = None /\ idx >= 2 => iter = N
        /\ panicked => FirstTwoCombos # "Both"

\* What len() gives, where it underflows and where not.
LEMMA LenIs ==
  ASSUME Given, map \in Maps, Now
  PROVE  /\ idx \in Nat /\ iter \in 0..N
         /\ LenUnderflows => N > 0 /\ FirstTwoCombos # "Both"
         /\ ~LenUnderflows => len = Total - idx /\ idx <= Total
         /\ len \in Nat
<1>1. /\ Len(map) \in Nat /\ N \in Nat /\ Total \in Nat /\ Total <= Len(map)
      /\ Len(map) < USizeSpan /\ USizeSpan \in Nat
      /\ N > 0 => N = Len(map) - 2
      /\ Len(map) >= 2 => Total = Early(map, 2) + HitsTo(N)
  BY Sizes
<1>2. /\ idx \in Nat /\ iter \in 0..N
      /\ idx < 2 => iter = 0
      /\ idx >= 2 => N > 0 /\ idx = 2 + HitsTo(iter)
      /\ N = 0 => idx = 0 \/ idx < Total
  BY DEF Now, Passed
<1>3. /\ HitsTo(N) = HitsTo(iter) + Cardinality(HitsAhead(iter))
      /\ Cardinality(HitsAhead(iter)) \in Nat /\ HitsTo(iter) \in Nat /\ HitsTo(N) \in Nat
  BY <1>2, AheadIs
<1>4. Early(map, 2) \in Nat
  <2>1. 2 \in Nat
    OBVIOUS
  <2>2. QED
    BY <2>1, EarlyValues
<1>5. LenUnderflows <=> idx > Total
  BY DEF LenUnderflows, Total
<1>6. idx > Total => N > 0 /\ idx <= Total + 2
  BY <1>1, <1>2, <1>3, <1>4
<1>7. CASE LenUnderflows
  <2>1. N > 0 /\ idx <= Total + 2 /\ idx > Total
    BY <1>5, <1>6, <1>7
  <2>2. len = USizeSpan + Total - idx
    BY <1>7 DEF len, Total
  <2>3. len \in Nat
    BY <1>1, <1>2, <2>1, <2>2
  <2>4. FirstTwoCombos # "Both"
    <3> SUFFICES ASSUME FirstTwoCombos = "Both" PROVE FALSE
      OBVIOUS
    <3>1. map[1] /\ map[2]
      <4> DEFINE a == Len(map) >= 1 /\ map[1]
                 b == Len(map) >= 2 /\ map[2]
      <4>1. FirstTwoCombos = CASE a /\ b -> "Both" [] a /\ ~b -> "OnlyFirst"
                               [] ~a /\ b -> "OnlySecond" [] OTHER -> "None"
        BY DEF FirstTwoCombos
      <4> HIDE DEF a, b
      <4>2. a /\ b
        BY <4>1
      <4>3. QED
        BY <4>2 DEF a, b
    <3>2. Early(map, 2) = 2
      <4>1. /\ Early(map, 2) = (IF map[1] THEN 1 ELSE 0) + (IF map[2] THEN 1 ELSE 0)
        BY EarlyValues
      <4>2. QED
        BY <3>1, <4>1
    <3>3. QED
      BY <1>1, <1>2, <1>3, <2>1, <3>2
  <2>5. QED
    BY <1>2, <1>7, <2>1, <2>3, <2>4
<1>8. CASE ~LenUnderflows
  <2>1. len = Total - idx /\ idx <= Total
    BY <1>1, <1>2, <1>5, <1>8 DEF len, Total
  <2>2. QED
    BY <1>1, <1>2, <1>8, <2>1
<1>9. QED
  BY <1>7, <1>8

\* nth(n) skips n answers or the ones that are left but one, those of the first two
\* objects first.
LEMMA SkipFirst ==
  ASSUME Given, map \in Maps, Now, NEW n \in 0..MaxCall
  PROVE  LET i == idx + FirstSkipped(n)
             k == LaterSkipped(n)
         IN  /\ Passed(i, ComboSkipped(n), iter, skills)
             /\ k \in Nat /\ i \in Nat /\ i + k = idx + Wanted(n) /\ idx <= i
             /\ k > 0 => i >= 2
             /\ Wanted(n) = Least(n, SaturatingSub(len, 1)) /\ Wanted(n) \in Nat
<1> DEFINE i == idx + FirstSkipped(n)
           k == LaterSkipped(n)
           w == Wanted(n)
<1>1. /\ Len(map) \in Nat /\ N \in Nat /\ Total \in Nat /\ Total <= Len(map)
      /\ N > 0 => N = Len(map) - 2
      /\ N = 0 => Len(map) <= 2
  BY Sizes
<1>2. /\ idx \in Nat /\ iter \in 0..N
      /\ LenUnderflows => N > 0
      /\ ~LenUnderflows => len = Total - idx /\ idx <= Total
      /\ len \in Nat
  BY LenIs
<1>3. /\ skills = Run(1, iter) /\ max_combo = Early(map, idx) + HitsTo(iter)
      /\ idx < 2 => iter = 0
      /\ idx >= 2 => N > 0 /\ idx = 2 + HitsTo(iter)
      /\ N = 0 => idx = 0 \/ idx < Total
  BY DEF Now, Passed
<1>4. n \in Nat
  BY <1>1 DEF Given
<1>5. \A a, b \in Nat : Least(a, b) \in Nat /\ Least(a, b) <= a /\ Least(a, b) <= b
                        /\ (Least(a, b) = a \/ Least(a, b) = b)
  BY DEF Least
<1>6. \A a, b \in Nat : /\ SaturatingSub(a, b) \in Nat
                        /\ SaturatingSub(a, b) = IF a > b THEN a - b ELSE 0
  BY DEF SaturatingSub
<1>7. /\ w = Least(n, SaturatingSub(len, 1)) /\ w \in Nat
      /\ w <= n /\ w <= SaturatingSub(len, 1) /\ SaturatingSub(len, 1) \in Nat
  BY <1>2, <1>4, <1>5, <1>6 DEF Wanted
<1>8. /\ FirstSkipped(n) \in Nat /\ FirstSkipped(n) <= w
      /\ FirstSkipped(n) <= SaturatingSub(2, idx)
      /\ FirstSkipped(n) = w \/ FirstSkipped(n) = SaturatingSub(2, idx)
  <2>1. FirstSkipped(n) = Least(w, SaturatingSub(2, idx)) /\ SaturatingSub(2, idx) \in Nat
    BY <1>2, <1>6 DEF FirstSkipped
  <2> HIDE DEF w
  <2>2. QED
    BY <1>5, <1>7, <2>1
<1>9. SaturatingSub(2, idx) = IF 2 > idx THEN 2 - idx ELSE 0
  BY <1>2, <1>6
<1>10. k = w - FirstSkipped(n)
  BY DEF LaterSkipped
<1> HIDE DEF w, k
<1>11. /\ k \in Nat /\ i \in Nat /\ i + k = idx + w /\ idx <= i
       /\ k > 0 => i >= 2
  BY <1>2, <1>7, <1>8, <1>9, <1>10
<1>12. N = 0 => i = 0 \/ i < Total
  <2> SUFFICES ASSUME N = 0 PROVE i = 0 \/ i < Total
    OBVIOUS
  <2>1. len = Total - idx /\ idx <= Total
    BY <1>2
  <2>2. SaturatingSub(len, 1) = IF len > 1 THEN len - 1 ELSE 0
    BY <1>2, <1>6
  <2>3. QED
    BY <1>1, <1>2, <1>3, <1>7, <1>8, <2>1, <2>2
<1>13. CASE FirstSkipped(n) = 0
  <2>1. i = idx /\ ComboSkipped(n) = max_combo
    BY <1>2, <1>13 DEF ComboSkipped
  <2>2. Passed(i, ComboSkipped(n), iter, skills)
    BY <2>1 DEF Now
  <2>3. QED
    BY <1>7, <1>11, <2>2 DEF w, k
<1>14. CASE FirstSkipped(n) # 0
  <2>1. idx < 2 /\ i \in 1..2 /\ i <= Len(map) /\ idx \in 0..i /\ iter = 0
    BY <1>1, <1>2, <1>3, <1>8, <1>9, <1>12, <1>14
  <2>2. HitsTo(0) = 0
    <3>1. 0 \in Nat /\ 0 <= 0
      OBVIOUS
    <3>2. QED
      BY <3>1, HitsToAdds
  <2>3. max_combo = Early(map, idx)
    <3>1. Early(map, idx) \in Nat
      BY <1>2, EarlyValues
    <3>2. QED
      BY <1>3, <2>1, <2>2, <3>1
  <2>4. ComboSkipped(n) = ComboAfter(i, max_combo)
    BY <1>14 DEF ComboSkipped
  <2>5. ComboSkipped(n) = Early(map, i)
    <3> HIDE DEF i
    <3>1. QED
      BY <2>1, <2>3, <2>4, ComboTable
  <2>6. Early(map, i) \in Nat
    BY <1>11, EarlyValues
  <2>7. i >= 2 => N > 0 /\ i = 2
    BY <1>1, <2>1, <1>12
  <2>8. Passed(i, ComboSkipped(n), iter, skills)
    <3> HIDE DEF i
    <3>1. ComboSkipped(n) = Early(map, i) + HitsTo(iter)
      BY <2>1, <2>2, <2>5, <2>6
    <3>2. i >= 2 => N > 0 /\ i = 2 + HitsTo(iter)
      BY <2>1, <2>2, <2>7
    <3>3. QED
      BY <1>2, <1>3, <1>11, <1>12, <2>1, <3>1, <3>2 DEF Passed
  <2>9. QED
    BY <1>7, <1>11, <2>8 DEF w, k
<1>15. QED
  BY <1>13, <1>14

-----------------------------------------------------------------------------
(* What one call does *)

\* An answer was given for a hit, or for one of the first two objects.
AtHit(i, it) == \/ it = 0 /\ i \in 1..2
                \/ it \in 1..N /\ map[it + 2] /\ i > 2

\* An answer is a record, so it is told apart from None.
LEMMA AnswerIsNotNone ==
  ASSUME Given, map \in Maps, NEW i, NEW c, NEW it, NEW s, Passed(i, c, it, s)
  PROVE  /\ c \in Nat /\ s \in Seq(Nat)
         /\ Attributes(c, s) # None
<1>1. N \in Nat
  BY Sizes
<1>2. i \in Nat /\ it \in Nat /\ s = Run(1, it) /\ c = Early(map, i) + HitsTo(it)
  BY <1>1 DEF Passed
<1>3. Early(map, i) \in Nat
  BY <1>2, EarlyValues
<1>4. HitsTo(it) \in Nat
  <2>1. it <= it
    BY <1>2
  <2>2. QED
    BY <1>2, <2>1, HitsToAdds
<1>5. s \in Seq(Nat)
  <2>1. 1 \in Nat /\ 1 >= 1
    OBVIOUS
  <2>2. QED
    BY <1>2, <2>1, RunType
<1>6. c \in Nat
  BY <1>2, <1>3, <1>4
<1>7. Attributes(c, s) \in [max_combo : Nat, seen : Seq(Nat)]
  BY <1>5, <1>6 DEF Attributes
<1>8. QED
  BY <1>5, <1>6, <1>7 DEF Given

\* next() entered with a calculator that passed i objects.
LEMMA ServeMore ==
  ASSUME Given, map \in Maps, NEW i, NEW c, NEW it, NEW s,
         Passed(i, c, it, s), Serve(i, c, it, s)
  PROVE  /\ Passed(idx', max_combo', iter', skills')
         /\ answer' = None /\ idx' >= 2 => iter' = N
         /\ IF Serves(i, it)
            THEN idx' = i + 1 /\ answer' = Attributes(max_combo', skills') /\ AtHit(idx', iter')
            ELSE idx' = i /\ answer' = None
<1>1. /\ Passed(idx', max_combo', iter', skills')
      /\ IF Serves(i, it)
         THEN /\ idx' = i + 1 /\ answer' = Attributes(max_combo', skills')
              /\ i < 2 => iter' = 0
              /\ i >= 2 => iter' \in 1..N /\ map[iter' + 2]
         ELSE /\ idx' = i /\ answer' = None
              /\ i >= 2 => iter' = N
  BY ServeCorrect
<1>2. i \in Nat
  BY DEF Passed
<1>3. CASE Serves(i, it)
  <2>1. AtHit(i + 1, iter')
    BY <1>1, <1>2, <1>3 DEF AtHit
  <2>2. Attributes(max_combo', skills') # None
    BY <1>1, AnswerIsNotNone
  <2>3. QED
    BY <1>1, <1>3, <2>1, <2>2
<1>4. CASE ~Serves(i, it)
  BY <1>1, <1>4
<1>5. QED
  BY <1>3, <1>4

\* nth(n) ends in a next(), unless the hits ran out before.
LEMMA NthCorrect ==
  ASSUME Given, map \in Maps, Now, NEW n \in 0..MaxCall, CallNth(n)
  PROVE  \/ \E c, it, s : Passed(idx + Wanted(n), c, it, s) /\ Serve(idx + Wanted(n), c, it, s)
         \/ /\ Passed(idx', max_combo', iter', skills')
            /\ answer' = None /\ iter' = N
            /\ idx' = 2 + HitsTo(N) /\ idx' < idx + Wanted(n)
<1> DEFINE i == idx + FirstSkipped(n)
           k == LaterSkipped(n)
           c == ComboSkipped(n)
           ahead == Cardinality(HitsAhead(iter))
           j == idx + Wanted(n)
<1>1. /\ Passed(i, c, iter, skills)
      /\ k \in Nat /\ i \in Nat /\ i + k = j
      /\ k > 0 => i >= 2
  BY SkipFirst
<1>2. N \in Nat
  BY Sizes
<1>3. /\ iter \in 0..N /\ iter \in Nat /\ iter <= N
      /\ skills = Run(1, iter) /\ c = Early(map, i) + HitsTo(iter)
      /\ i >= 2 => N > 0 /\ i = 2 + HitsTo(iter)
  <2> HIDE DEF i, c
  <2>1. QED
    BY <1>1, <1>2 DEF Passed
<1>4. /\ HitsTo(N) = HitsTo(iter) + ahead
      /\ ahead \in Nat /\ HitsTo(iter) \in Nat /\ HitsTo(N) \in Nat
  BY <1>3, AheadIs
<1>5. Early(map, i) \in Nat
  <2> HIDE DEF i
  <2>1. QED
    BY <1>1, EarlyValues
<1>6. \/ k = 0 /\ Serve(i, c, iter, skills)
      \/ /\ 0 < k /\ k <= ahead
         /\ Serve(i + k, c + k, KthHit(iter, k), skills \o Run(iter + 1, KthHit(iter, k)))
      \/ k > ahead /\ Exhausted(i + ahead, c + ahead, iter, skills)
  BY Zenon DEF CallNth
<1> HIDE DEF i, k, c, j
<1>7. CASE k = 0 /\ Serve(i, c, iter, skills)
  <2>1. i = j
    BY <1>1, <1>7
  <2>2. QED
    BY <1>1, <1>7, <2>1 DEF j
<1>8. CASE /\ 0 < k /\ k <= ahead
           /\ Serve(i + k, c + k, KthHit(iter, k), skills \o Run(iter + 1, KthHit(iter, k)))
  <2> DEFINE to == KthHit(iter, k)
  <2>1. to \in (iter + 1)..N /\ HitsTo(to) = HitsTo(iter) + k
    BY <1>1, <1>3, <1>8, KthHitIs
  <2> HIDE DEF to
  <2>2. to \in Nat /\ iter <= to /\ to \in 0..N
    BY <1>2, <1>3, <2>1
  <2>3. skills \o Run(iter + 1, to) = Run(1, to)
    BY <1>3, <2>2, ProcessRun
  <2>4. j >= 2 /\ j \in Nat /\ i >= 2 /\ N > 0 /\ j = 2 + HitsTo(to)
    BY <1>1, <1>3, <1>4, <1>8, <2>1
  <2>5. c + k = Early(map, j) + HitsTo(to)
    <3>1. Early(map, i) = Early(map, 2) /\ Early(map, j) = Early(map, 2)
      BY <1>1, <2>4, EarlyValues
    <3>2. QED
      BY <1>1, <1>3, <1>4, <1>5, <2>1, <3>1
  <2>6. Passed(j, c + k, to, skills \o Run(iter + 1, to))
    BY <1>2, <2>2, <2>3, <2>4, <2>5 DEF Passed
  <2>7. Serve(j, c + k, to, skills \o Run(iter + 1, to))
    BY <1>1, <1>8 DEF to
  <2>8. QED
    BY <2>6, <2>7 DEF j
<1>9. CASE k > ahead /\ Exhausted(i + ahead, c + ahead, iter, skills)
  <2> DEFINE e == i + ahead
  <2>1. /\ iter' = N /\ skills' = skills \o Run(iter + 1, N)
        /\ idx' = e /\ max_combo' = c + ahead /\ answer' = None
    BY <1>9, Zenon DEF Exhausted, Process, N
  <2>2. skills' = Run(1, N)
    BY <1>2, <1>3, <2>1, ProcessRun
  <2>3. i >= 2 /\ N > 0 /\ i = 2 + HitsTo(iter)
    BY <1>1, <1>3, <1>4, <1>9
  <2>4. e = 2 + HitsTo(N) /\ e \in Nat /\ e >= 2 /\ e < j
    BY <1>1, <1>4, <1>9, <2>3
  <2> HIDE DEF e
  <2>5. max_combo' = Early(map, e) + HitsTo(N)
    <3>1. Early(map, i) = Early(map, 2) /\ Early(map, e) = Early(map, 2)
      BY <1>1, <2>3, <2>4, EarlyValues
    <3>2. QED
      BY <1>3, <1>4, <1>5, <2>1, <3>1
  <2>6. Passed(e, max_combo', N, skills')
    BY <1>2, <2>2, <2>3, <2>4, <2>5 DEF Passed
  <2>7. QED
    BY <2>1, <2>4, <2>6 DEF j
<1>10. QED
  BY <1>6, <1>7, <1>8, <1>9

\* After every call the calculator passed idx objects, and one that gave no answer past
\* the second object has passed them all.
LEMMA CallCorrect ==
  ASSUME Given, IInv, CallNext \/ \E n \in 0..MaxCall : CallNth(n)
  PROVE  /\ map' = map /\ checked' = checked /\ panicked' = panicked /\ call' \in 0..MaxCall
         /\ Passed(idx', max_combo', iter', skills')
         /\ answer' = None /\ idx' >= 2 => iter' = N
<1>1. map \in Maps /\ Now /\ MaxCall \in Nat
  BY DEF IInv, Given
<1>2. CASE CallNext
  <2>1. /\ map' = map /\ checked' = checked /\ panicked' = panicked /\ call' = 0
        /\ Serve(idx, max_combo, iter, skills)
    BY <1>2 DEF CallNext
  <2>2. QED
    BY <1>1, <2>1, ServeMore DEF Now
<1>3. ASSUME NEW n \in 0..MaxCall, CallNth(n)
      PROVE  /\ map' = map /\ checked' = checked /\ panicked' = panicked /\ call' \in 0..MaxCall
             /\ Passed(idx', max_combo', iter', skills')
             /\ answer' = None /\ idx' >= 2 => iter' = N
  <2>1. map' = map /\ checked' = checked /\ panicked' = panicked /\ call' = n
    BY <1>3 DEF CallNth
  <2>2. CASE \E c, it, s : Passed(idx + Wanted(n), c, it, s) /\ Serve(idx + Wanted(n), c, it, s)
    BY <1>1, <2>1, <2>2, ServeMore
  <2>3. QED
    BY <1>1, <1>3, <2>1, <2>2, NthCorrect
<1>4. QED
  BY <1>2, <1>3

-----------------------------------------------------------------------------
(* The invariant holds, and what it says *)

LEMMA InitIInv ==
  ASSUME Given, Init
  PROVE  IInv
<1>1. /\ map \in Maps /\ checked \in BOOLEAN
      /\ idx = 0 /\ max_combo = 0 /\ iter = 0 /\ skills = << >>
      /\ panicked = FALSE /\ call = 0 /\ answer = None
  BY DEF Init
<1>2. N \in Nat /\ MaxCall \in Nat
  BY <1>1, Sizes DEF Given
<1>3. Run(1, 0) = << >>
  BY DEF Run, SaturatingSub
<1>4. HitsTo(0) = 0 /\ Early(map, 0) = 0
  <2>1. 0 \in Nat /\ 0 <= 0
    OBVIOUS
  <2>2. QED
    BY <2>1, HitsToAdds, EarlyValues
<1>5. Now
  BY <1>1, <1>2, <1>3, <1>4 DEF Now, Passed
<1>6. call \in 0..MaxCall /\ ~(idx >= 2)
  BY <1>1, <1>2
<1>7. panicked \in BOOLEAN /\ ~panicked
  BY <1>1, Zenon
<1>8. QED
  BY <1>1, <1>5, <1>6, <1>7, Zenon DEF IInv

LEMMA StepIInv ==
  ASSUME Given, IInv, [Next]_vars
  PROVE  IInv'
<1>1. map \in Maps /\ Now /\ MaxCall \in Nat
  BY DEF IInv, Given
<1>2. CASE CallNext \/ \E n \in 0..MaxCall : CallNth(n)
  <2>1. /\ map' = map /\ checked' = checked /\ panicked' = panicked /\ call' \in 0..MaxCall
        /\ Passed(idx', max_combo', iter', skills')
        /\ answer' = None /\ idx' >= 2 => iter' = N
    BY <1>2, CallCorrect
  <2>2. N' = N /\ FirstTwoCombos' = FirstTwoCombos
    BY <2>1 DEF N, FirstTwoCombos
  <2>3. Now'
    BY <2>1 DEF Now, Passed, N, Total, HitsTo
  <2>4. QED
    BY <2>1, <2>2, <2>3 DEF IInv
<1>3. CASE NthPanics
  <2>1. LenUnderflows /\ panicked' = TRUE
        /\ UNCHANGED <<map, checked, idx, max_combo, iter, skills, call, answer>>
    BY <1>3 DEF NthPanics
  <2>2. FirstTwoCombos # "Both"
    BY <1>1, <2>1, LenIs
  <2>3. N' = N /\ FirstTwoCombos' = FirstTwoCombos /\ Now'
    BY <1>1, <2>1 DEF N, FirstTwoCombos, Now, Passed, Total, HitsTo
  <2>4. QED
    BY <2>1, <2>2, <2>3 DEF IInv
<1>4. CASE Poisoned \/ UNCHANGED vars
  BY <1>4 DEF Poisoned, vars, IInv, N, FirstTwoCombos, Now, Passed, Total, HitsTo
<1>5. QED
  BY <1>2, <1>3, <1>4 DEF Next

\* The properties of the calculator.
LEMMA Consequences ==
  ASSUME Given, IInv
  PROVE  Fed /\ OnlyOddMapsPanic /\ DrainedIsWhole
<1>1. map \in Maps /\ Now
  BY DEF IInv
<1>2. /\ idx \in Nat /\ iter \in 0..N
      /\ skills = Run(1, iter) /\ max_combo = Early(map, idx) + HitsTo(iter)
      /\ idx >= 2 => N > 0
  BY <1>1 DEF Now, Passed
<1>3. Fed
  BY <1>2 DEF Fed, Early, HitsTo, HitObjects
<1>4. OnlyOddMapsPanic
  BY <1>1, LenIs DEF OnlyOddMapsPanic, IInv
<1>5. DrainedIsWhole
  <2> SUFFICES ASSUME answer = None, idx >= 2
               PROVE  max_combo = total_hits(map) /\ skills = Run(1, n_diff_objects(map))
    BY DEF DrainedIsWhole
  <2>1. iter = N
    BY DEF IInv
  <2>2. Early(map, idx) = Early(map, 2)
    BY <1>2, EarlyValues
  <2>3. Total = Early(map, 2) + HitsTo(N)
    BY <1>1, <1>2, Sizes
  <2>4. QED
    BY <1>2, <2>1, <2>2, <2>3 DEF N, Total
<1>6. QED
  BY <1>3, <1>4, <1>5

-----------------------------------------------------------------------------
(* The contract, on the maps it is for *)

\* Where the first two objects are hits there is an answer for each hit.
LEMMA ServesPlain ==
  ASSUME Given, map \in Maps, Plain, NEW i, NEW c, NEW it, NEW s, Passed(i, c, it, s)
  PROVE  /\ i \in Nat /\ i <= Total /\ Total >= 2
         /\ Serves(i, it) <=> i < Total
         /\ Early(map, 1) = 1 /\ Early(map, 2) = 2 /\ Total = 2 + HitsTo(N)
<1>1. /\ Len(map) \in Nat /\ N \in Nat /\ Len(map) >= 3
      /\ N = 0 => Len(map) <= 2
      /\ Len(map) >= 2 => Total = Early(map, 2) + HitsTo(N)
  BY Sizes DEF Plain
<1>2. map[1] /\ map[2]
  BY DEF Plain
<1>3. Early(map, 1) = 1 /\ Early(map, 2) = 2
  <2>1. /\ Early(map, 1) = IF map[1] THEN 1 ELSE 0
        /\ Early(map, 2) = (IF map[1] THEN 1 ELSE 0) + (IF map[2] THEN 1 ELSE 0)
    BY EarlyValues
  <2>2. QED
    BY <1>2, <2>1
<1>4. i \in Nat /\ it \in 0..N /\ (i >= 2 => i = 2 + HitsTo(it))
  BY DEF Passed
<1>5. /\ HitsTo(N) = HitsTo(it) + Cardinality(HitsAhead(it))
      /\ Cardinality(HitsAhead(it)) \in Nat /\ HitsTo(it) \in Nat /\ HitsTo(N) \in Nat
      /\ HitsAhead(it) = {} <=> Cardinality(HitsAhead(it)) = 0
  BY <1>4, AheadIs
<1>6. Total = 2 + HitsTo(N) /\ N > 0
  BY <1>1, <1>3, <1>5
<1>7. Serves(i, it) <=> i < Total
  <2>1. CASE i < 2
    BY <1>4, <1>5, <1>6, <2>1 DEF Serves
  <2>2. CASE i >= 2
    BY <1>4, <1>5, <1>6, <2>2 DEF Serves
  <2>3. QED
    BY <1>4, <2>1, <2>2
<1>8. QED
  BY <1>3, <1>4, <1>5, <1>6, <1>7

\* A one-shot calculation inspects a map up to the hit that was asked for.
LEMMA InspectedTo ==
  ASSUME NEW m \in Seq(BOOLEAN), NEW p \in 1..Len(m), m[p]
  PROVE  LET k == Cardinality(Hits(m, 1..p))
         IN  Inspected(m, k) = p
<1> DEFINE H(i) == Cardinality(Hits(m, 1..i))
           k == H(p)
           S == {i \in 1..Len(m) : H(i - 1) < k}
<1>1. Len(m) \in Nat /\ p \in Nat /\ p <= Len(m) /\ 1 <= p
  OBVIOUS
<1>2. \A i \in Nat : IsFiniteSet(Hits(m, 1..i)) /\ H(i) \in Nat
  <2> SUFFICES ASSUME NEW i \in Nat PROVE IsFiniteSet(Hits(m, 1..i)) /\ H(i) \in Nat
    OBVIOUS
  <2>1. 1 \in Int /\ i \in Int
    OBVIOUS
  <2>2. QED
    BY <2>1, IntervalFinite, HitsFinite
<1>3. \A i, j \in Nat : i <= j => H(i) <= H(j)
  <2> SUFFICES ASSUME NEW i \in Nat, NEW j \in Nat, i <= j PROVE H(i) <= H(j)
    OBVIOUS
  <2>1. Hits(m, 1..i) \in SUBSET Hits(m, 1..j)
    BY DEF Hits
  <2>2. QED
    BY <1>2, <2>1, FS_Subset
<1>4. H(p) = H(p - 1) + 1
  <2>1. Hits(m, 1..p) = Hits(m, 1..(p - 1)) \cup {p} /\ p \notin Hits(m, 1..(p - 1))
    BY <1>1 DEF Hits
  <2>2. p - 1 \in Nat
    BY <1>1
  <2>3. IsFiniteSet(Hits(m, 1..(p - 1)))
    BY <1>2, <2>2
  <2>4. QED
    BY <2>1, <2>3, FS_AddElement
<1>5. S = 1..p
  <2>1. ASSUME NEW i \in 1..Len(m)
        PROVE  H(i - 1) < k <=> i <= p
    <3> HIDE DEF H
    <3>1. i - 1 \in Nat /\ p - 1 \in Nat /\ i \in Nat
      BY <1>1
    <3>2. H(i - 1) \in Nat /\ H(p) \in Nat /\ H(p - 1) \in Nat
      BY <1>1, <1>2, <3>1
    <3>3. CASE i <= p
      <4>1. i - 1 <= p - 1
        BY <1>1, <3>1, <3>3
      <4>2. H(i - 1) <= H(p - 1)
        BY <1>3, <3>1, <4>1
      <4>3. QED
        BY <1>4, <3>2, <3>3, <4>2
    <3>4. CASE ~(i <= p)
      <4>1. p <= i - 1
        BY <1>1, <3>1, <3>4
      <4>2. H(p) <= H(i - 1)
        BY <1>1, <1>3, <3>1, <4>1
      <4>3. QED
        BY <3>2, <3>4, <4>2
    <3>5. QED
      BY <3>3, <3>4
  <2> HIDE DEF H, k
  <2>2. QED
    BY <1>1, <2>1
<1>6. Cardinality(1..p) = p
  <2>1. 1 \in Int /\ p \in Int
    BY <1>1
  <2>2. QED
    BY <1>1, <2>1, FS_Interval
<1>7. Inspected(m, k) = Cardinality(S)
  BY DEF Inspected
<1>8. QED
  BY <1>5, <1>6, <1>7

\* What was counted and processed at a hit is what the one-shot calculation gives.
LEMMA PassedIsPromised ==
  ASSUME Given, map \in Maps, Plain, NEW i, NEW c, NEW it, NEW s,
         Passed(i, c, it, s), AtHit(i, it)
  PROVE  Attributes(c, s) = Calculate(map, i)
<1> DEFINE p == IF it = 0 THEN i ELSE it + 2
<1>1. /\ Len(map) \in Nat /\ N \in Nat /\ Len(map) >= 3
      /\ N > 0 => N = Len(map) - 2
      /\ N = 0 => Len(map) <= 2
  BY Sizes DEF Plain
<1>2. /\ i \in Nat /\ Early(map, 1) = 1 /\ Early(map, 2) = 2
  BY ServesPlain
<1>3. /\ it \in 0..N /\ it \in Nat /\ it <= N /\ s = Run(1, it)
      /\ c = Early(map, i) + HitsTo(it) /\ (i >= 2 => i = 2 + HitsTo(it))
  BY <1>1 DEF Passed
<1>4. HitsTo(0) = 0 /\ HitsTo(it) \in Nat
  <2>1. 0 \in Nat /\ 0 <= it
    BY <1>3
  <2>2. QED
    BY <1>3, <2>1, HitsToAdds
<1>5. c = i
  <2>1. CASE i >= 2
    <3>1. Early(map, i) = 2
      BY <1>2, <2>1, EarlyValues
    <3>2. QED
      BY <1>3, <1>4, <2>1, <3>1
  <2>2. CASE ~(i >= 2)
    <3>1. i = 1 /\ it = 0
      BY <1>2, <2>2 DEF AtHit
    <3>2. QED
      BY <1>2, <1>3, <1>4, <3>1
  <2>3. QED
    BY <2>1, <2>2
<1>6. p \in 1..Len(map) /\ map[p]
  <2>1. CASE it = 0 /\ i \in 1..2
    <3>1. p = 1 \/ p = 2
      BY <2>1
    <3>2. QED
      BY <1>1, <3>1 DEF Plain
  <2>2. CASE it \in 1..N /\ map[it + 2] /\ i > 2
    <3>1. p = it + 2
      BY <2>2
    <3>2. QED
      BY <1>1, <1>3, <2>2, <3>1
  <2>3. QED
    BY <2>1, <2>2 DEF AtHit
<1>7. Cardinality(Hits(map, 1..p)) = i
  <2>1. CASE it = 0 /\ i \in 1..2
    <3>1. p = i /\ Least(i, 2) = i
      BY <2>1 DEF Least
    <3>2. Cardinality(Hits(map, 1..p)) = Early(map, i)
      BY <3>1 DEF Early
    <3>3. i = 1 \/ i = 2
      BY <2>1
    <3>4. QED
      BY <1>2, <3>2, <3>3
  <2>2. CASE it \in 1..N /\ map[it + 2] /\ i > 2
    <3>1. p = it + 2
      BY <2>2
    <3>2. Cardinality(Hits(map, 1..(it + 2))) = Early(map, 2) + HitsTo(it)
      BY <1>3, HitsSplit DEF HitsTo
    <3>3. QED
      BY <1>2, <1>3, <2>2, <3>1, <3>2
  <2>3. QED
    BY <2>1, <2>2 DEF AtHit
<1>8. map \in Seq(BOOLEAN)
  BY DEF Given
<1> HIDE DEF p
<1>9. Inspected(map, i) = p
  BY <1>6, <1>7, <1>8, InspectedTo
<1>10. Least(N, SaturatingSub(p, 2)) = it
  <2>1. CASE it = 0 /\ i \in 1..2
    <3>1. SaturatingSub(p, 2) = 0
      BY <2>1 DEF p, SaturatingSub
    <3>2. QED
      BY <1>1, <2>1, <3>1 DEF Least
  <2>2. CASE it \in 1..N /\ map[it + 2] /\ i > 2
    <3>1. SaturatingSub(p, 2) = it
      BY <1>3, <2>2 DEF p, SaturatingSub
    <3>2. QED
      BY <1>1, <1>3, <2>2, <3>1 DEF Least
  <2>3. QED
    BY <2>1, <2>2 DEF AtHit
<1>11. Calculate(map, i) = [max_combo |-> i, seen |-> Run(1, it)]
  BY <1>7, <1>9, <1>10 DEF Calculate, N
<1>12. QED
  BY <1>3, <1>5, <1>11 DEF Attributes

\* On those maps each call answers as the contract asks.
LEMMA PlainCall ==
  ASSUME Given, IInv, Plain, CallNext \/ \E n \in 0..MaxCall : CallNth(n)
  PROVE  /\ idx \in Nat /\ idx <= Total /\ Total \in Nat /\ call' \in Nat
         /\ idx < Total => /\ idx' = Least(idx + call' + 1, Total) /\ idx' \in 1..Total
                           /\ answer' = Calculate(map, idx') /\ answer' # None
         /\ idx = Total => idx' = idx /\ answer' = None
<1>1. map \in Maps /\ Now /\ MaxCall \in Nat /\ Total \in Nat
  BY Sizes DEF IInv, Given
<1>2. idx \in Nat /\ idx <= Total
  BY <1>1, ServesPlain DEF Now
<1>3. \A a, b \in Nat : Least(a, b) = IF a < b THEN a ELSE b
  BY DEF Least
<1>4. ASSUME NEW j \in Nat, NEW c, NEW it, NEW s, Passed(j, c, it, s), Serve(j, c, it, s)
      PROVE  IF j < Total
             THEN /\ idx' = j + 1 /\ answer' = Calculate(map, idx') /\ answer' # None
             ELSE idx' = j /\ answer' = None
  <2>1. /\ Passed(idx', max_combo', iter', skills')
        /\ IF Serves(j, it)
           THEN idx' = j + 1 /\ answer' = Attributes(max_combo', skills') /\ AtHit(idx', iter')
           ELSE idx' = j /\ answer' = None
    BY <1>1, <1>4, ServeMore
  <2>2. Serves(j, it) <=> j < Total
    BY <1>1, <1>4, ServesPlain
  <2>3. AtHit(idx', iter') => Attributes(max_combo', skills') = Calculate(map, idx')
    BY <1>1, <2>1, PassedIsPromised
  <2>4. Attributes(max_combo', skills') # None
    BY <1>1, <2>1, AnswerIsNotNone
  <2>5. QED
    BY <2>1, <2>2, <2>3, <2>4
<1>5. CASE CallNext
  <2>1. call' = 0 /\ Serve(idx, max_combo, iter, skills)
    BY <1>5 DEF CallNext
  <2>2. IF idx < Total
        THEN /\ idx' = idx + 1 /\ answer' = Calculate(map, idx') /\ answer' # None
        ELSE idx' = idx /\ answer' = None
    BY <1>1, <1>2, <1>4, <2>1 DEF Now
  <2>3. idx < Total => idx + 1 = Least(idx + 0 + 1, Total)
    BY <1>1, <1>2, <1>3
  <2>4. QED
    BY <1>1, <1>2, <2>1, <2>2, <2>3
<1>6. ASSUME NEW n \in 0..MaxCall, CallNth(n)
      PROVE  /\ call' = n
             /\ idx < Total => /\ idx' = Least(idx + n + 1, Total) /\ idx' \in 1..Total
                               /\ answer' = Calculate(map, idx') /\ answer' # None
             /\ idx = Total => idx' = idx /\ answer' = None
  <2> DEFINE j == idx + Wanted(n)
  <2>1. call' = n /\ n \in Nat
    BY <1>1, <1>6 DEF CallNth
  <2>2. Wanted(n) = Least(n, SaturatingSub(len, 1)) /\ Wanted(n) \in Nat
    BY <1>1, SkipFirst
  <2>3. len = Total - idx
    <3>1. ~LenUnderflows
      BY <1>1, <1>2 DEF LenUnderflows, Total
    <3>2. QED
      BY <1>1, <3>1, LenIs
  <2>4. SaturatingSub(len, 1) = (IF len > 1 THEN len - 1 ELSE 0)
    BY DEF SaturatingSub
  <2>5. SaturatingSub(len, 1) \in Nat
    BY <1>1, <1>2, <2>3, <2>4
  <2>6. Wanted(n) = IF n < SaturatingSub(len, 1) THEN n ELSE SaturatingSub(len, 1)
    BY <1>3, <2>1, <2>2, <2>5
  <2>7. /\ idx < Total => j < Total /\ j + 1 = Least(idx + n + 1, Total) /\ j + 1 \in 1..Total
        /\ idx = Total => j = idx
    BY <1>1, <1>2, <1>3, <2>1, <2>2, <2>3, <2>4, <2>5, <2>6
  <2>8. j \in Nat /\ j <= Total
    BY <1>1, <1>2, <2>2, <2>7
  <2>9. CASE \E c, it, s : Passed(j, c, it, s) /\ Serve(j, c, it, s)
    <3>1. IF j < Total
          THEN /\ idx' = j + 1 /\ answer' = Calculate(map, idx') /\ answer' # None
          ELSE idx' = j /\ answer' = None
      <4> HIDE DEF j
      <4>1. QED
        BY <1>4, <2>8, <2>9
    <3>2. QED
      BY <1>1, <1>2, <2>1, <2>7, <3>1
  <2>10. CASE idx' = 2 + HitsTo(N) /\ idx' < j
    <3>1. Total = 2 + HitsTo(N)
      BY <1>1, ServesPlain DEF Now
    <3>2. QED
      BY <1>1, <2>8, <2>10, <3>1
  <2>11. QED
    BY <1>1, <1>6, <2>9, <2>10, NthCorrect
<1>7. QED
  BY <1>1, <1>2, <1>5, <1>6

=============================================================================
