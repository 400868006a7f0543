-------------------------- MODULE OsuGradualProofs --------------------------
(***************************************************************************)
(* Theorems about OsuGradual, for maps of any length and any mix of calls. *)
(***************************************************************************)
EXTENDS OsuGradual, ObjectRunsProofs

USE DEF Least, SaturatingSub

\* The counting operators select from finite sets.
LEMMA CountedFinite ==
  ASSUME NEW m, NEW S, IsFiniteSet(S)
  PROVE  /\ \A k : IsFiniteSet(OfKind(m, S, k))
         /\ IsFiniteSet(LargeTicks(m, S))
<1>1. \A k : OfKind(m, S, k) \in SUBSET S
  BY DEF OfKind
<1>2. \A k : IsFiniteSet(OfKind(m, S, k))
  BY <1>1, FS_Subset, Zenon
<1>3. LargeTicks(m, S) \in SUBSET (S \X (1..MaxTicks))
  BY DEF LargeTicks
<1>4. IsFiniteSet(S \X (1..MaxTicks))
  BY PairsFinite, MaxTicksAssumption
<1>5. QED
  BY <1>2, <1>3, <1>4, FS_Subset, Zenon

\* What the constructor and the one-shot calculation count are numbers.
LEMMA InspectedType ==
  ASSUME NEW m, NEW S, IsFiniteSet(S)
  PROVE  Inspected(m, S) \in Counters
<1>1. /\ Cardinality(S) \in Nat
      /\ \A k : Cardinality(OfKind(m, S, k)) \in Nat
      /\ Cardinality(LargeTicks(m, S)) \in Nat
  BY CountedFinite, FS_CardinalityType, Zenon
<1>2. QED
  BY <1>1 DEF Inspected, Counters

\* Counting object by object adds up to counting them together.
LEMMA CountAdds ==
  ASSUME NEW m, NEW S, NEW T, IsFiniteSet(S), IsFiniteSet(T), S \cap T = {}
  PROVE  IncrementCombo(m, Inspected(m, S), T) = Inspected(m, S \cup T)
<1>1. Cardinality(S \cup T) = Cardinality(S) + Cardinality(T)
  BY CountedFinite, DisjointUnion, Zenon
<1>2. ASSUME NEW k
      PROVE  Cardinality(OfKind(m, S \cup T, k))
               = Cardinality(OfKind(m, S, k)) + Cardinality(OfKind(m, T, k))
  <2>1. /\ OfKind(m, S \cup T, k) = OfKind(m, S, k) \cup OfKind(m, T, k)
        /\ OfKind(m, S, k) \cap OfKind(m, T, k) = {}
    BY DEF OfKind
  <2>2. QED
    BY <2>1, CountedFinite, DisjointUnion, Zenon
<1>3. Cardinality(LargeTicks(m, S \cup T))
        = Cardinality(LargeTicks(m, S)) + Cardinality(LargeTicks(m, T))
  <2>1. /\ LargeTicks(m, S \cup T) = LargeTicks(m, S) \cup LargeTicks(m, T)
        /\ LargeTicks(m, S) \cap LargeTicks(m, T) = {}
    BY DEF LargeTicks
  <2>2. QED
    BY <2>1, CountedFinite, DisjointUnion, Zenon
<1>4. /\ Cardinality(S) \in Nat /\ Cardinality(T) \in Nat
      /\ \A k : /\ Cardinality(OfKind(m, S, k)) \in Nat
                /\ Cardinality(OfKind(m, T, k)) \in Nat
      /\ Cardinality(LargeTicks(m, S)) \in Nat
      /\ Cardinality(LargeTicks(m, T)) \in Nat
  BY CountedFinite, FS_CardinalityType, Zenon
<1>5. /\ Cardinality(OfKind(m, S \cup T, "circle"))
           = Cardinality(OfKind(m, S, "circle")) + Cardinality(OfKind(m, T, "circle"))
      /\ Cardinality(OfKind(m, S \cup T, "slider"))
           = Cardinality(OfKind(m, S, "slider")) + Cardinality(OfKind(m, T, "slider"))
      /\ Cardinality(OfKind(m, S \cup T, "spinner"))
           = Cardinality(OfKind(m, S, "spinner")) + Cardinality(OfKind(m, T, "spinner"))
  BY <1>2
<1>6. QED
  BY <1>1, <1>3, <1>4, <1>5 DEF IncrementCombo, Inspected

\* The empty count is the count of no object.
LEMMA NothingCounted ==
  ASSUME NEW m
  PROVE  NoCount = Inspected(m, {})
<1>1. /\ \A k : OfKind(m, {}, k) = {}
      /\ LargeTicks(m, {}) = {}
  BY DEF OfKind, LargeTicks
<1>2. Cardinality({}) = 0
  BY FS_EmptySet
<1>3. QED
  BY <1>1, <1>2 DEF NoCount, Inspected

-----------------------------------------------------------------------------
(* The state of a calculator fed with i objects. *)

Sane == /\ map \in Maps /\ passed \in PassedObjects
        /\ idx \in 0..(n_diff_objects + 1)

\* The sizes involved are numbers, and a map with difficulty objects has one
\* hit object more.
LEMMA Sizes ==
  ASSUME map \in Maps, passed \in PassedObjects
  PROVE  /\ Len(map) \in Nat /\ n_diff_objects \in Nat /\ Total \in Nat
         /\ DOMAIN map = 1..Len(map)
         /\ Len(map) > 0 => n_diff_objects + 1 <= Len(map) /\ Total = n_diff_objects + 1
         /\ Len(map) = 0 => n_diff_objects = 0 /\ Total = 0
<1>1. map \in Seq(HitObjects) /\ passed \in Nat
  BY MapsAssumption, PassedAssumption
<1>2. Len(map) \in Nat /\ DOMAIN map = 1..Len(map)
  BY <1>1
<1>3. QED
  BY <1>1, <1>2 DEF n_diff_objects, DiffObjects, Total

\* A calculator fed with i objects has well-typed counters and skills.
LEMMA FedType ==
  ASSUME map \in Maps, passed \in PassedObjects,
         NEW i \in 0..(n_diff_objects + 1), NEW a, NEW s, Fed(i, a, s)
  PROVE  a \in Counters /\ s \in [Skills -> Seq(Nat)]
<1>1. Len(map) \in Nat /\ n_diff_objects \in Nat
  BY Sizes
<1>2. SaturatingSub(i, 1) \in Nat /\ i \in Nat
  BY <1>1
<1>3. Run(1, SaturatingSub(i, 1)) \in Seq(Nat)
  BY <1>2, RunType DEF SaturatingSub
<1>4. s \in [Skills -> Seq(Nat)]
  BY <1>3 DEF Fed
<1> DEFINE n == IF i = 0 THEN Least(1, Len(map)) ELSE i
<1>5. IsFiniteSet(1..n)
  <2>1. n \in Int
    BY <1>1, <1>2
  <2>2. QED
    BY <2>1, IntervalFinite
<1>6. Inspected(map, 1..n) \in Counters
  BY <1>5, InspectedType
<1>7. QED
  BY <1>4, <1>6 DEF Fed

\* What one more object adds to a calculator fed with i objects.
LEMMA FeedOne ==
  ASSUME NEW i \in Nat, i > 0, NEW a, NEW s, Fed(i, a, s)
  PROVE  Fed(i + 1, IncrementCombo(map, a, {i + 1}),
             [k \in Skills |-> Append(s[k], i)])
<1>1. /\ a = Inspected(map, 1..i)
      /\ s = [k \in Skills |-> Run(1, i - 1)]
  BY DEF Fed
<1>2. IncrementCombo(map, a, {i + 1}) = Inspected(map, 1..(i + 1))
  <2> DEFINE S == 1..i
             T == {i + 1}
  <2>1. S \cap T = {} /\ S \cup T = 1..(i + 1) /\ IsFiniteSet(S) /\ IsFiniteSet(T)
    BY IntervalFinite, FS_Singleton
  <2>2. a = Inspected(map, S)
    BY <1>1
  <2> HIDE DEF S
  <2>3. IncrementCombo(map, Inspected(map, S), T) = Inspected(map, S \cup T)
    <3> HIDE DEF T
    <3>1. QED
      BY <2>1, CountAdds
  <2>4. QED
    BY <2>1, <2>2, <2>3
<1>3. Append(Run(1, i - 1), i) = Run(1, i)
  <2>1. i - 1 \in Nat /\ (i - 1) + 1 = i
    OBVIOUS
  <2>2. QED
    BY <2>1, RunAppend
<1>4. QED
  BY <1>1, <1>2, <1>3 DEF Fed

\* What nth's loop over the difficulty objects i..j-1 adds, for i > 0.
LEMMA FeedMany ==
  ASSUME NEW i \in Nat, NEW j \in Nat, 0 < i, i <= j, NEW a, NEW s, Fed(i, a, s)
  PROVE  Fed(j, IncrementCombo(map, a, (i + 1)..j),
             [k \in Skills |-> s[k] \o Run(i, j - 1)])
<1>1. /\ a = Inspected(map, 1..i)
      /\ s = [k \in Skills |-> Run(1, i - 1)]
  BY DEF Fed
<1>2. IncrementCombo(map, a, (i + 1)..j) = Inspected(map, 1..j)
  <2> DEFINE S == 1..i
             T == (i + 1)..j
  <2>1. S \cap T = {} /\ S \cup T = 1..j /\ IsFiniteSet(S) /\ IsFiniteSet(T)
    BY IntervalFinite
  <2>2. a = Inspected(map, S)
    BY <1>1
  <2> HIDE DEF S
  <2>3. IncrementCombo(map, Inspected(map, S), T) = Inspected(map, S \cup T)
    <3> HIDE DEF T
    <3>1. QED
      BY <2>1, CountAdds
  <2>4. QED
    BY <2>1, <2>2, <2>3
<1>3. Run(1, i - 1) \o Run(i, j - 1) = Run(1, j - 1)
  <2>1. i - 1 \in Nat /\ j - 1 \in Nat /\ i - 1 <= j - 1 /\ (i - 1) + 1 = i
    OBVIOUS
  <2>2. QED
    BY <2>1, RunConcat
<1>4. SaturatingSub(j, 1) = j - 1 /\ ~(j = 0)
  OBVIOUS
<1> HIDE DEF SaturatingSub
<1>5. QED
  BY <1>1, <1>2, <1>3, <1>4 DEF Fed

\* An iterator fed with nothing counts the first object already.
LEMMA FedFirst ==
  ASSUME NEW a, NEW s, Len(map) \in Nat, Len(map) > 0
  PROVE  Fed(0, a, s) <=> Fed(1, a, s)
<1>1. \A n \in Nat : n > 0 => Least(1, n) = 1
  OBVIOUS
<1>2. Least(1, Len(map)) = 1
  BY <1>1, Zenon
<1>3. SaturatingSub(0, 1) = 0 /\ SaturatingSub(1, 1) = 0
  OBVIOUS
<1> HIDE DEF Least, SaturatingSub
<1>4. QED
  BY <1>2, <1>3 DEF Fed

\* next() on a calculator fed with i objects feeds and answers one object
\* more, as long as there is one.
LEMMA ServeCorrect ==
  ASSUME map \in Maps, passed \in PassedObjects, UNCHANGED <<map, passed>>,
         NEW i \in 0..(n_diff_objects + 1), NEW a, NEW s,
         Len(map) = 0 => i = 0, Fed(i, a, s), Serve(i, a, s)
  PROVE  /\ Fed(idx', attrs', skills')
         /\ IF i < Total
            THEN idx' = i + 1 /\ answer' = Attributes(attrs', skills')
            ELSE idx' = i /\ answer' = None
<1> USE Sizes
<1>1. CASE FirstObject(i, a, s)
  BY <1>1, FedFirst DEF FirstObject
<1>2. CASE LaterObject(i, a, s)
  <2>1. i \in Nat /\ i > 0 /\ i < Total
    BY <1>2 DEF LaterObject
  <2>2. Fed(i + 1, IncrementCombo(map, a, {i + 1}), [k \in Skills |-> Append(s[k], i)])
    BY <2>1, FeedOne
  <2>3. QED
    BY <1>2, <2>1, <2>2 DEF LaterObject
<1>3. CASE NoObject(i, a, s)
  BY <1>3 DEF NoObject
<1>4. QED
  BY <1>1, <1>2, <1>3 DEF Serve

\* Counting or processing nothing changes nothing.
LEMMA FeedNone ==
  ASSUME NEW a \in Counters, NEW s \in [Skills -> Seq(Nat)]
  PROVE  /\ IncrementCombo(map, a, {}) = a
         /\ [k \in Skills |-> s[k] \o Run(1, 0)] = s
<1>1. /\ \A k : OfKind(map, {}, k) = {}
      /\ LargeTicks(map, {}) = {}
  BY DEF OfKind, LargeTicks
<1>2. Cardinality({}) = 0
  BY FS_EmptySet
<1>3. IncrementCombo(map, a, {}) = a
  <2>1. /\ Cardinality(OfKind(map, {}, "circle")) = 0
        /\ Cardinality(OfKind(map, {}, "slider")) = 0
        /\ Cardinality(OfKind(map, {}, "spinner")) = 0
        /\ Cardinality(LargeTicks(map, {})) = 0
    BY <1>1, <1>2
  <2>2. QED
    BY <1>2, <2>1 DEF IncrementCombo, Counters
<1>4. Run(1, 0) = << >>
  BY DEF Run
<1>5. \A k \in Skills : s[k] \o << >> = s[k]
  OBVIOUS
<1>6. QED
  BY <1>3, <1>4, <1>5

\* What next() is entered with after nth(n) has skipped its objects.
Skipped(n) == (IF Lone(n) THEN 1 ELSE idx) + (To(n) + 1 - From)
CountsAfter(n) == IncrementCombo(map, attrs, (From + 1) .. (To(n) + 1))
SkillsAfter(n) == [k \in Skills |-> skills[k] \o Run(From, To(n))]

\* nth(n) skips min(n, len - 1) objects, each of them fed once.
LEMMA SkipCorrect ==
  ASSUME Sane, Prefix, Len(map) = 0 => idx = 0, NEW n \in Nat
  PROVE  /\ Skipped(n) = idx + Wanted(n)
         /\ Wanted(n) \in Nat /\ Wanted(n) <= n
         /\ Skipped(n) \in 0..(n_diff_objects + 1)
         /\ Len(map) = 0 => Skipped(n) = 0
         /\ idx < Total => Skipped(n) < Total
         /\ idx + n < Total => Wanted(n) = n
         /\ idx + n >= Total /\ idx < Total => Skipped(n) = Total - 1
         /\ idx = Total => Wanted(n) = 0
         /\ Fed(Skipped(n), CountsAfter(n), SkillsAfter(n))
<1>1. /\ Len(map) \in Nat /\ n_diff_objects \in Nat /\ Total \in Nat
      /\ Len(map) > 0 => n_diff_objects + 1 <= Len(map) /\ Total = n_diff_objects + 1
      /\ Len(map) = 0 => n_diff_objects = 0 /\ Total = 0
      /\ idx \in 0..(n_diff_objects + 1)
  BY Sizes DEF Sane
<1>2. /\ Wanted(n) \in Nat /\ Wanted(n) <= n /\ Wanted(n) + idx <= n_diff_objects + 1
      /\ idx < Total => Wanted(n) + idx < Total
      /\ idx + n < Total => Wanted(n) = n
      /\ idx + n >= Total /\ idx < Total => idx + Wanted(n) = Total - 1
      /\ Len(map) = 0 => Wanted(n) = 0
      /\ idx = Total => Wanted(n) = 0
  BY <1>1 DEF Wanted, len
<1>3. CASE idx = 0 /\ Wanted(n) = 0
  <2>1. From = 1 /\ To(n) = 0 /\ Skipped(n) = 0
    BY <1>1, <1>3 DEF From, To, Lone, Skipped
  <2>2. attrs \in Counters /\ skills \in [Skills -> Seq(Nat)]
    BY <1>1, FedType DEF Prefix, Sane
  <2>3. (From + 1) .. (To(n) + 1) = {}
    BY <2>1
  <2>4. CountsAfter(n) = attrs /\ SkillsAfter(n) = skills
    BY <2>1, <2>2, <2>3, FeedNone DEF CountsAfter, SkillsAfter
  <2>5. QED
    BY <1>1, <1>2, <1>3, <2>1, <2>4 DEF Prefix
<1>4. CASE idx = 0 /\ Wanted(n) > 0
  <2>1. From = 1 /\ To(n) = Wanted(n) - 1 /\ Skipped(n) = Wanted(n)
    BY <1>1, <1>2, <1>4 DEF From, To, Lone, Skipped
  <2>2. Len(map) > 0
    BY <1>1, <1>2, <1>4
  <2>3. Fed(1, attrs, skills)
    BY <1>1, <1>4, <2>2, FedFirst DEF Prefix
  <2>4. Fed(Wanted(n), IncrementCombo(map, attrs, (1 + 1)..Wanted(n)),
            [k \in Skills |-> skills[k] \o Run(1, Wanted(n) - 1)])
    <3> DEFINE one == 1
               w == Wanted(n)
    <3>1. one \in Nat /\ w \in Nat /\ 0 < one /\ one <= w
      BY <1>2, <1>4
    <3>2. Fed(one, attrs, skills)
      BY <2>3
    <3> HIDE DEF one, w
    <3>3. Fed(w, IncrementCombo(map, attrs, (one + 1)..w),
              [k \in Skills |-> skills[k] \o Run(one, w - 1)])
      BY <3>1, <3>2, FeedMany
    <3>4. QED
      BY <3>3 DEF one, w
  <2>5. (From + 1) .. (To(n) + 1) = (1 + 1)..Wanted(n)
    BY <1>2, <2>1
  <2>6. Fed(Skipped(n), CountsAfter(n), SkillsAfter(n))
    BY <2>1, <2>4, <2>5 DEF CountsAfter, SkillsAfter
  <2>7. QED
    BY <1>1, <1>2, <1>4, <2>1, <2>6
<1>5. CASE idx > 0
  <2> DEFINE j == idx + Wanted(n)
  <2>1. From = idx /\ To(n) = j - 1 /\ Skipped(n) = j
    BY <1>1, <1>2, <1>5 DEF From, To, Lone, Skipped
  <2>2. idx \in Nat /\ j \in Nat /\ idx <= j /\ (j - 1) + 1 = j
    BY <1>1, <1>2
  <2>3. Fed(idx, attrs, skills)
    BY DEF Prefix
  <2> HIDE DEF j
  <2>4. Fed(j, IncrementCombo(map, attrs, (idx + 1)..j),
            [k \in Skills |-> skills[k] \o Run(idx, j - 1)])
    BY <1>5, <2>2, <2>3, FeedMany
  <2>5. Fed(Skipped(n), CountsAfter(n), SkillsAfter(n))
    BY <2>1, <2>2, <2>4 DEF CountsAfter, SkillsAfter
  <2>6. QED
    BY <1>1, <1>2, <1>5, <2>1, <2>5 DEF j
<1>6. \/ idx = 0 /\ Wanted(n) = 0
      \/ idx = 0 /\ Wanted(n) > 0
      \/ idx > 0
  BY <1>1, <1>2
<1>7. QED
  BY <1>3, <1>4, <1>5, <1>6

-----------------------------------------------------------------------------
(* The inductive invariant and what follows from it. *)

IInv == TypeOK /\ Prefix

\* The invariant gives the lemmas what they ask for.
LEMMA IInvSane ==
  ASSUME IInv
  PROVE  Sane /\ (Len(map) = 0 => idx = 0) /\ idx \in Nat /\ idx <= Total
<1>1. map \in Maps /\ passed \in PassedObjects /\ idx \in 0..Total
  BY DEF IInv, TypeOK
<1>2. QED
  BY <1>1, Sizes DEF Sane

\* The constructor establishes the invariant.
LEMMA InitIInv == Init => IInv
<1> SUFFICES ASSUME Init PROVE IInv
  OBVIOUS
<1>1. /\ map \in Maps /\ passed \in PassedObjects /\ idx = 0 /\ call = 0
      /\ attrs = IncrementCombo(map, NoCount, {i \in DOMAIN map : i = 1})
      /\ skills = [s \in Skills |-> << >>]
  BY DEF Init
<1>2. Len(map) \in Nat /\ n_diff_objects \in Nat /\ Total \in Nat /\ DOMAIN map = 1..Len(map)
  BY <1>1, Sizes
<1> DEFINE T == {i \in DOMAIN map : i = 1}
<1>3. T = 1..Least(1, Len(map))
  BY <1>2
<1>4. attrs = Inspected(map, T)
  <2>1. IsFiniteSet({}) /\ IsFiniteSet(T) /\ {} \cap T = {} /\ {} \cup T = T
    <3>1. Least(1, Len(map)) \in Int
      BY <1>2
    <3>2. IsFiniteSet(1..Least(1, Len(map)))
      BY <3>1, IntervalFinite
    <3>3. IsFiniteSet(T)
      BY <1>3, <3>2
    <3> HIDE DEF T
    <3>4. QED
      BY <3>3, FS_EmptySet
  <2> HIDE DEF T
  <2>2. IncrementCombo(map, Inspected(map, {}), T) = Inspected(map, {} \cup T)
    BY <2>1, CountAdds
  <2>3. QED
    BY <1>1, <2>1, <2>2, NothingCounted DEF T
<1>5. Run(1, 0) = << >>
  BY DEF Run
<1>6. Prefix
  <2>1. SaturatingSub(idx, 1) = 0
    BY <1>1
  <2> HIDE DEF T, SaturatingSub, Least
  <2>2. QED
    BY <1>1, <1>3, <1>4, <1>5, <2>1 DEF Prefix, Fed
<1>7. attrs \in Counters /\ skills \in [Skills -> Seq(Nat)]
  BY <1>1, <1>2, <1>6, FedType DEF Prefix
<1>8. QED
  BY <1>1, <1>2, <1>6, <1>7, MaxCallAssumption DEF IInv, TypeOK

\* What one call does, next being nth(0).
LEMMA CallCorrect ==
  ASSUME IInv, Next
  PROVE  /\ map' = map /\ passed' = passed /\ call' \in 0..MaxCall
         /\ Fed(idx', attrs', skills')
         /\ idx' \in 0..Total
         /\ idx < Total => /\ idx' = Least(idx + call' + 1, Total)
                           /\ answer' = Attributes(attrs', skills')
         /\ idx = Total => idx' = idx /\ answer' = None
<1> USE MaxCallAssumption
<1>1. /\ Sane /\ Prefix /\ (Len(map) = 0 => idx = 0) /\ idx \in Nat /\ idx <= Total
      /\ map \in Maps /\ passed \in PassedObjects /\ idx \in 0..(n_diff_objects + 1)
  BY IInvSane DEF IInv, Sane
<1>2. /\ Len(map) \in Nat /\ n_diff_objects \in Nat /\ Total \in Nat
      /\ Len(map) > 0 => Total = n_diff_objects + 1
      /\ Len(map) = 0 => Total = 0
  BY <1>1, Sizes
<1>3. CASE CallNext
  <2>1. Serve(idx, attrs, skills) /\ UNCHANGED <<map, passed>> /\ call' = 0
    BY <1>3 DEF CallNext
  <2>2. Fed(idx, attrs, skills)
    BY <1>1 DEF Prefix
  <2>3. /\ Fed(idx', attrs', skills')
        /\ IF idx < Total
           THEN idx' = idx + 1 /\ answer' = Attributes(attrs', skills')
           ELSE idx' = idx /\ answer' = None
    BY <1>1, <2>1, <2>2, ServeCorrect
  <2>4. idx < Total => idx + 1 = Least(idx + 0 + 1, Total)
    BY <1>1, <1>2
  <2>5. QED
    BY <1>1, <1>2, <2>1, <2>3, <2>4
<1>4. ASSUME NEW n \in 0..MaxCall, CallNth(n)
      PROVE  /\ map' = map /\ passed' = passed /\ call' \in 0..MaxCall
             /\ Fed(idx', attrs', skills')
             /\ idx' \in 0..Total
             /\ idx < Total => /\ idx' = Least(idx + call' + 1, Total)
                               /\ answer' = Attributes(attrs', skills')
             /\ idx = Total => idx' = idx /\ answer' = None
  <2>1. /\ Serve(Skipped(n), CountsAfter(n), SkillsAfter(n))
        /\ UNCHANGED <<map, passed>> /\ call' = n
    BY <1>4 DEF CallNth, Skipped, CountsAfter, SkillsAfter
  <2>2. /\ Skipped(n) = idx + Wanted(n)
        /\ Wanted(n) \in Nat /\ Wanted(n) <= n
        /\ Skipped(n) \in 0..(n_diff_objects + 1)
        /\ Len(map) = 0 => Skipped(n) = 0
        /\ idx < Total => Skipped(n) < Total
        /\ idx + n < Total => Wanted(n) = n
        /\ idx + n >= Total /\ idx < Total => Skipped(n) = Total - 1
        /\ idx = Total => Wanted(n) = 0
        /\ Fed(Skipped(n), CountsAfter(n), SkillsAfter(n))
    <3>1. n \in Nat
      OBVIOUS
    <3>2. QED
      BY <1>1, <3>1, SkipCorrect
  <2>3. /\ Fed(idx', attrs', skills')
        /\ IF Skipped(n) < Total
           THEN idx' = Skipped(n) + 1 /\ answer' = Attributes(attrs', skills')
           ELSE idx' = Skipped(n) /\ answer' = None
    BY <1>1, <2>1, <2>2, ServeCorrect
  <2>4. idx < Total => Skipped(n) + 1 = Least(idx + n + 1, Total)
    BY <1>1, <1>2, <2>2
  <2>5. QED
    BY <1>1, <1>2, <2>1, <2>2, <2>3, <2>4
<1>5. QED
  BY <1>3, <1>4 DEF Next

\* Every call preserves the invariant.
LEMMA StepIInv == IInv /\ [Next]_vars => IInv'
<1> SUFFICES ASSUME IInv, [Next]_vars PROVE IInv'
  OBVIOUS
<1>1. CASE Next
  <2>1. /\ map' = map /\ passed' = passed /\ call' \in 0..MaxCall
        /\ Fed(idx', attrs', skills') /\ idx' \in 0..Total
    BY <1>1, CallCorrect
  <2>2. /\ map \in Maps /\ passed \in PassedObjects
    BY DEF IInv, TypeOK
  <2>3. idx' \in 0..(n_diff_objects + 1)
    BY <2>1, <2>2, Sizes
  <2>4. attrs' \in Counters /\ skills' \in [Skills -> Seq(Nat)]
    BY <2>1, <2>2, <2>3, FedType
  <2>5. Prefix'
    BY <2>1 DEF Prefix, Fed
  <2>6. Total' = Total
    BY <2>1 DEF Total, n_diff_objects
  <2>7. QED
    BY <2>1, <2>2, <2>4, <2>5, <2>6 DEF IInv, TypeOK
<1>2. CASE UNCHANGED vars
  BY <1>2 DEF vars, IInv, TypeOK, Prefix, Fed, Total, n_diff_objects
<1>3. QED
  BY <1>1, <1>2

\* Type correctness: idx stays within the map's answers, so `len` and the
\* index idx - 1 of the difficulty objects never underflow.
THEOREM TypeCorrect == Spec => []TypeOK
<1>1. IInv => TypeOK
  BY DEF IInv
<1>2. QED
  BY <1>1, InitIInv, StepIInv, PTL DEF Spec

\* Every skill has processed each difficulty object up to idx exactly once and
\* in order, whatever mix of next and nth was called.
THEOREM PrefixCorrect == Spec => []Prefix
<1>1. IInv => Prefix
  BY DEF IInv
<1>2. QED
  BY <1>1, InitIInv, StepIInv, PTL DEF Spec

\* What a calculator fed with i > 0 objects answers is what a calculation
\* with passed_objects(i) counts and processes.
LEMMA FedIsPromised ==
  ASSUME map \in Maps, passed \in PassedObjects,
         NEW i \in 1..Total, NEW a, NEW s, Fed(i, a, s)
  PROVE  [count |-> a, seen |-> s] = PromisedAnswer(i)
<1>1. Len(map) \in Nat /\ n_diff_objects \in Nat /\ Total \in Nat /\ Total <= Len(map)
  BY Sizes
<1>2. /\ i \in Nat /\ i > 0 /\ i <= Len(map)
      /\ Least(i, Len(map)) = i /\ Least(Len(map), i) = i
      /\ SaturatingSub(i, 1) = i - 1
      /\ DiffObjects(map, i) = Len(map) - 1
  <2>1. \A l \in Nat : i \in 1..l =>
          /\ Least(i, l) = i /\ Least(l, i) = i
          /\ SaturatingSub(i, 1) = i - 1 /\ SaturatingSub(l, 1) = l - 1
    OBVIOUS
  <2>2. i \in 1..Len(map) /\ i \in Nat /\ i > 0 /\ i <= Len(map) /\ i # 0
    BY <1>1
  <2> HIDE DEF Least, SaturatingSub
  <2>3. QED
    BY <1>1, <2>1, <2>2 DEF DiffObjects
<1>3. Least(Len(map) - 1, i - 1) = i - 1
  BY <1>1, <1>2
<1> HIDE DEF Least, SaturatingSub
<1>4. a = Inspected(map, 1..i) /\ s = [k \in Skills |-> Run(1, i - 1)]
  BY <1>2 DEF Fed
<1>5. Calculate(map, i).count = Inspected(map, 1..i)
  BY <1>2 DEF Calculate
<1>6. ProcessedBy(map, i) = Run(1, i - 1)
  BY <1>2, <1>3 DEF ProcessedBy
<1>7. Calculate(map, i).seen = [k \in Skills |-> Run(1, i - 1)]
  BY <1>6 DEF Calculate
<1>8. QED
  BY <1>4, <1>5, <1>7 DEF PromisedAnswer

\* An answer is a record, so it is told apart from None.
LEMMA AnswerIsNotNone ==
  ASSUME NEW a \in Counters, NEW s \in [Skills -> Seq(Nat)]
  PROVE  Attributes(a, s) # None
<1>1. << >> \in Seq(Nat)
  OBVIOUS
<1>2. Attributes(a, s) \in [count: Counters, seen: [Skills -> Seq(Nat)], ccv3: Seq(Nat)]
  BY <1>1 DEF Attributes
<1>3. QED
  BY <1>2, NoneAssumption, Zenon

\* The calculator implements the contract of the gradual calculators: for
\* every map and every mix of calls, the k-th answer counts and processes what
\* a one-shot calculation with passed_objects(k) does, nth lands where it
\* should, and a drained calculator answers None for good.
THEOREM ContractKept == Spec => KeepsContract
<1> DEFINE Promised == [k \in 1..Total |-> PromisedAnswer(k)]
           Shown == IF answer = None THEN None
                    ELSE [count |-> answer.count, seen |-> answer.seen]
<1>1. Init => Contract!Init
  BY DEF Init, Contract!Init
<1>2. IInv /\ [Next]_vars => [Contract!Next]_Contract!vars
  <2> SUFFICES ASSUME IInv, [Next]_vars
               PROVE  [Contract!Next]_Contract!vars
    OBVIOUS
  <2>1. CASE UNCHANGED vars
    <3>1. Promised' = Promised
      BY <2>1 DEF vars, Total, n_diff_objects, PromisedAnswer
    <3>2. Shown' = Shown /\ idx' = idx /\ call' = call
      BY <2>1 DEF vars
    <3>3. QED
      BY <3>1, <3>2 DEF Contract!vars
  <2>2. CASE Next
    <3>1. /\ map' = map /\ passed' = passed /\ call' \in 0..MaxCall
          /\ Fed(idx', attrs', skills')
          /\ idx' \in 0..Total
          /\ idx < Total => /\ idx' = Least(idx + call' + 1, Total)
                            /\ answer' = Attributes(attrs', skills')
          /\ idx = Total => idx' = idx /\ answer' = None
      BY <2>2, CallCorrect
    <3>2. /\ map \in Maps /\ passed \in PassedObjects
          /\ idx \in Nat /\ idx <= Total /\ Total \in Nat /\ call' \in Nat
      BY <3>1, IInvSane, Sizes, MaxCallAssumption DEF IInv, TypeOK
    <3>3. Promised' = Promised
      BY <3>1 DEF Total, n_diff_objects, PromisedAnswer
    <3>4. Len(Promised) = Total
      BY <3>2
    <3>5. CASE idx < Total
      <4>1. /\ idx' = Least(idx + call' + 1, Total)
            /\ answer' = Attributes(attrs', skills')
        BY <3>1, <3>5
      <4>2. idx' \in 1..Total
        <5>1. \A i, c, t \in Nat : i < t => Least(i + c + 1, t) \in 1..t
          OBVIOUS
        <5>2. QED
          BY <3>2, <3>5, <4>1, <5>1
      <4>3. [count |-> attrs', seen |-> skills'] = PromisedAnswer(idx')
        BY <3>1, <3>2, <4>2, FedIsPromised
      <4>4. attrs' \in Counters /\ skills' \in [Skills -> Seq(Nat)]
        <5>1. idx' \in 0..(n_diff_objects + 1)
          BY <3>1, <3>2, Sizes
        <5>2. QED
          BY <3>1, <3>2, <5>1, FedType
      <4>5. answer' # None
        BY <4>1, <4>4, AnswerIsNotNone
      <4>6. Shown' = PromisedAnswer(idx')
        BY <4>1, <4>3, <4>5 DEF Attributes
      <4>7. Promised'[idx'] = PromisedAnswer(idx') /\ Promised[idx'] = PromisedAnswer(idx')
        BY <3>3, <4>2
      <4>8. Contract!Give
        BY <3>4, <3>5, <4>1, <4>6, <4>7 DEF Contract!Give, Contract!Least
      <4>9. QED
        BY <3>2, <3>3, <4>8 DEF Contract!Next
    <3>6. CASE idx = Total
      <4>1. idx' = idx /\ answer' = None
        BY <3>1, <3>6
      <4>2. Contract!Drained
        BY <3>4, <3>6, <4>1 DEF Contract!Drained
      <4>3. QED
        BY <3>2, <3>3, <4>2 DEF Contract!Next
    <3>7. QED
      BY <3>2, <3>5, <3>6
  <2>3. QED
    BY <2>1, <2>2
<1>3. QED
  BY <1>1, <1>2, InitIInv, StepIInv, PTL DEF Spec, KeepsContract, Contract!Spec
=============================================================================
