-------------------------- MODULE ManiaGradualProofs --------------------------
(***************************************************************************)
(* What one call does to an osu!mania calculator, for every map, clock     *)
(* rate and limit, and any mix of calls.  The combo is right where the     *)
(* clock rate keeps the ticks of hold notes (KeepsTicks); all else is at   *)
(* any rate.  AnyGradualProofs draws the theorems from it.                 *)
(***************************************************************************)
EXTENDS ManiaGradual, ObjectRunsProofs

\* What AnyGradual assumes of its constants.
Given == /\ Maps \subseteq Seq([start : Nat, duration : Nat])
         /\ PassedObjects \subseteq Nat /\ MaxCall \in Nat
         /\ TickLen \in Nat \ {0} /\ 2 ^ FractionBits \in Nat \ {0}
         /\ \A m \in Maps, r \in ClockRates : \A i \in 2..Len(m) : LateTicks(m[i], r) \in Nat
         /\ None \notin [max_combo : Nat, n_hold_notes : Nat, n_objects : Nat, strain : Seq(Nat)]

-----------------------------------------------------------------------------
(* The ticks of hold notes *)

\* Integer division does not see a common factor.
LEMMA DivideBoth ==
  ASSUME NEW d \in Nat, NEW t \in Nat \ {0}, NEW f \in Nat \ {0}
  PROVE  (d * f) \div (t * f) = d \div t
<1> DEFINE q == d \div t
           r == d % t
<1>1. q \in Nat /\ r \in Nat /\ r < t /\ d = t * q + r
  OBVIOUS
<1> HIDE DEF q, r
<1>2. r * f \in Nat /\ r * f < t * f /\ t * f \in Nat \ {0} /\ d * f \in Nat
  BY <1>1
<1>3. d * f = (t * f) * q + r * f
  BY <1>1
<1>4. \A a, b, m, n \in Nat : b > 0 /\ a = b * m + n /\ n < b => a \div b = m
  OBVIOUS
<1> DEFINE a == d * f
           b == t * f
           n == r * f
<1> HIDE DEF a, b, n
<1>5. a \div b = q
  BY <1>1, <1>2, <1>3, <1>4 DEF a, b, n
<1>6. QED
  BY <1>5 DEF a, b, q

\* Times that were not scaled give the ticks of the duration.
LEMMA UnscaledTicks ==
  ASSUME Given, NEW s \in Nat, NEW d \in Nat
  PROVE  TicksBetween(Float(s), Float(s + d)) = d \div TickLen
<1> DEFINE f == 2 ^ FractionBits
<1>1. f \in Nat \ {0} /\ TickLen \in Nat \ {0}
  BY DEF Given
<1>2. \A t : Float(t) = t * f
  BY DEF Float
<1> HIDE DEF f
<1>3. (s + d) * f - s * f = d * f
  BY <1>1
<1>4. Float(s + d) - Float(s) = d * f /\ Float(TickLen) = TickLen * f
  BY <1>2, <1>3
<1>5. (d * f) \div (TickLen * f) = d \div TickLen
  BY <1>1, DivideBoth
<1>6. QED
  BY <1>4, <1>5 DEF TicksBetween

\* The ticks of an object are a number, and a circle has none.
LEMMA TicksType ==
  ASSUME Given, NEW o \in [start : Nat, duration : Nat]
  PROVE  Ticks(o) \in Nat /\ (IsCircle(o) => Ticks(o) = 0)
<1>1. o.duration \in Nat /\ TickLen \in Nat \ {0}
  BY DEF Given
<1>2. o.duration \div TickLen \in Nat /\ (o.duration = 0 => o.duration \div TickLen = 0)
  BY <1>1
<1>3. QED
  BY <1>2 DEF Ticks, IsCircle

-----------------------------------------------------------------------------
(* The counts of a set of objects *)

TicksOf(m, S) == SumFunction([i \in S |-> Ticks(m[i])])
HoldsOf(m, S) == Cardinality({i \in S : ~IsCircle(m[i])})
ComboOf(m, S) == Cardinality(S) + TicksOf(m, S)

\* Counts of disjoint sets of objects add up.
LEMMA CountsAdd ==
  ASSUME Given, NEW m \in Maps, NEW A, NEW B, A \cup B \subseteq 1..Len(m),
         IsFiniteSet(A), IsFiniteSet(B), A \cap B = {}
  PROVE  /\ HoldsOf(m, A \cup B) = HoldsOf(m, A) + HoldsOf(m, B)
         /\ ComboOf(m, A \cup B) = ComboOf(m, A) + Cardinality(B) + TicksOf(m, B)
         /\ ComboOf(m, A) \in Nat /\ HoldsOf(m, A) \in Nat
         /\ TicksOf(m, B) \in Nat /\ Cardinality(B) \in Nat
<1> DEFINE H(S) == {i \in S : ~IsCircle(m[i])}
           f == [i \in A \cup B |-> Ticks(m[i])]
<1>1. \A i \in A \cup B : m[i] \in [start : Nat, duration : Nat]
  <2>1. m \in Seq([start : Nat, duration : Nat])
    BY DEF Given
  <2> DEFINE Obj == [start : Nat, duration : Nat]
  <2>2. m \in Seq(Obj)
    BY <2>1
  <2> HIDE DEF Obj
  <2>3. \A i \in 1..Len(m) : m[i] \in Obj
    BY <2>2, ElementOfSeq
  <2>4. \A i \in A \cup B : m[i] \in Obj
    BY <2>3, Zenon
  <2>5. QED
    BY <2>4 DEF Obj
<1>2. \A i \in A \cup B : f[i] \in Nat /\ f[i] = Ticks(m[i])
  BY <1>1, TicksType
<1>3. HoldsOf(m, A \cup B) = HoldsOf(m, A) + HoldsOf(m, B) /\ HoldsOf(m, A) \in Nat
  <2>1. H(A \cup B) = H(A) \cup H(B) /\ H(A) \cap H(B) = {}
    BY Zenon
  <2>2. IsFiniteSet(H(A)) /\ IsFiniteSet(H(B))
    BY FS_Subset
  <2>3. \A S : HoldsOf(m, S) = Cardinality(H(S))
    BY DEF HoldsOf
  <2> DEFINE X == H(A)
             Y == H(B)
             Z == H(A \cup B)
  <2>4. Z = X \cup Y /\ X \cap Y = {} /\ IsFiniteSet(X) /\ IsFiniteSet(Y)
    BY <2>1, <2>2
  <2>5. /\ HoldsOf(m, A \cup B) = Cardinality(Z)
        /\ HoldsOf(m, A) = Cardinality(X) /\ HoldsOf(m, B) = Cardinality(Y)
    BY <2>3
  <2> HIDE DEF X, Y, Z, f
  <2>6. Cardinality(X \cup Y) = Cardinality(X) + Cardinality(Y) /\ Cardinality(X) \in Nat
    BY <2>4, DisjointUnion, FS_CardinalityType
  <2>7. QED
    BY <2>4, <2>5, <2>6
<1> HIDE DEF f
<1>4. ASSUME NEW S, S \subseteq A \cup B, IsFiniteSet(S)
      PROVE  TicksOf(m, S) = SumFunctionOnSet(f, S)
  <2> DEFINE g == [i \in S |-> Ticks(m[i])]
  <2>1. DOMAIN g = S /\ \A i \in S : g[i] = f[i]
    BY <1>2, <1>4
  <2>2. TicksOf(m, S) = SumFunctionOnSet(g, DOMAIN g)
    BY DEF TicksOf, SumFunction
  <2> HIDE DEF g
  <2>3. SumFunctionOnSet(g, S) = SumFunctionOnSet(f, S)
    BY <1>4, <2>1, SumSame
  <2>4. QED
    BY <2>1, <2>2, <2>3
<1>5. /\ SumFunctionOnSet(f, A \cup B) = SumFunctionOnSet(f, A) + SumFunctionOnSet(f, B)
      /\ SumFunctionOnSet(f, A) \in Nat /\ SumFunctionOnSet(f, B) \in Nat
  BY <1>2, SumUnion, SumType
<1>6. IsFiniteSet(A \cup B) /\ Cardinality(A \cup B) = Cardinality(A) + Cardinality(B)
      /\ Cardinality(A) \in Nat /\ Cardinality(B) \in Nat
  BY DisjointUnion, FS_CardinalityType
<1>7. /\ TicksOf(m, A \cup B) = SumFunctionOnSet(f, A \cup B)
      /\ TicksOf(m, A) = SumFunctionOnSet(f, A) /\ TicksOf(m, B) = SumFunctionOnSet(f, B)
  BY <1>4, <1>6
<1>8. QED
  BY <1>3, <1>5, <1>6, <1>7 DEF ComboOf

\* The first object alone.
LEMMA FirstCounts ==
  ASSUME Given, NEW m \in Maps, m # << >>
  PROVE  /\ HoldsOf(m, 1..1) = IF IsCircle(m[1]) THEN 0 ELSE 1
         /\ ComboOf(m, 1..1) = 1 + Ticks(m[1])
         /\ m[1] \in [start : Nat, duration : Nat] /\ Len(m) \in Nat /\ Len(m) >= 1
<1>1. m \in Seq([start : Nat, duration : Nat])
  BY DEF Given
<1>2. Len(m) \in Nat /\ Len(m) >= 1 /\ m[1] \in [start : Nat, duration : Nat]
  <2> DEFINE Obj == [start : Nat, duration : Nat]
  <2>1. m \in Seq(Obj)
    BY <1>1
  <2> HIDE DEF Obj
  <2>2. Len(m) \in Nat /\ Len(m) # 0
    BY <2>1, EmptySeq, LenProperties
  <2>3. 1 \in 1..Len(m) /\ Len(m) >= 1
    BY <2>2
  <2>4. m[1] \in Obj
    BY <2>1, <2>3, ElementOfSeq
  <2>5. QED
    BY <2>2, <2>3, <2>4 DEF Obj
<1>3. 1..1 = {1} /\ Cardinality({1}) = 1 /\ IsFiniteSet({1})
  <2>1. 1..1 = {1}
    OBVIOUS
  <2>2. Cardinality({1}) = 1 /\ IsFiniteSet({1})
    BY FS_Singleton, Zenon
  <2>3. QED
    BY <2>1, <2>2
<1>4. HoldsOf(m, {1}) = IF IsCircle(m[1]) THEN 0 ELSE 1
  <2>1. CASE IsCircle(m[1])
    <3>1. {i \in {1} : ~IsCircle(m[i])} = {}
      BY <2>1
    <3>2. QED
      BY <2>1, <3>1, FS_EmptySet DEF HoldsOf
  <2>2. CASE ~IsCircle(m[1])
    <3>1. {i \in {1} : ~IsCircle(m[i])} = {1}
      BY <2>2
    <3>2. QED
      BY <1>3, <2>2, <3>1 DEF HoldsOf
  <2>3. QED
    BY <2>1, <2>2
<1>5. TicksOf(m, {1}) = Ticks(m[1])
  <2> DEFINE g == [i \in {1} |-> Ticks(m[i])]
  <2>1. DOMAIN g = {1} /\ g[1] = Ticks(m[1]) /\ \A i \in {1} : g[i] \in Nat
    BY <1>2, TicksType
  <2>2. TicksOf(m, {1}) = SumFunctionOnSet(g, DOMAIN g)
    BY DEF TicksOf, SumFunction
  <2> HIDE DEF g
  <2>3. SumFunctionOnSet(g, {1}) = g[1] + SumFunctionOnSet(g, {1} \ {1})
    BY <1>3, <2>1, SumRemove
  <2>4. SumFunctionOnSet(g, {1} \ {1}) = 0
    <3>1. {1} \ {1} = {}
      OBVIOUS
    <3>2. QED
      BY <3>1, SumEmpty
  <2>5. Ticks(m[1]) \in Nat
    BY <1>2, TicksType
  <2>6. QED
    BY <2>1, <2>2, <2>3, <2>4, <2>5
<1>6. QED
  BY <1>2, <1>3, <1>4, <1>5 DEF ComboOf

-----------------------------------------------------------------------------
(* A calculator that passed i objects *)

N == Len(diff_objects)

\* What the conversion of the map left.
Converted == /\ map \in Maps /\ rate \in ClockRates /\ passed \in PassedObjects
             /\ diff_objects = DiffObjects(map, passed, rate)

\* The objects that are counted by then; the first one is from the start.
Counted(i) == 1..(IF i = 0 THEN Least(1, Len(map)) ELSE i)

CountsOf(i, s) == /\ s.n_hold_notes = HoldsOf(map, Counted(i))
                  /\ KeepsTicks(map, rate) => s.curr_combo = ComboOf(map, Counted(i))
                  /\ s.curr_combo \in Nat

Passed(i, s, st) == /\ i \in 0..Total
                    /\ CountsOf(i, s) /\ st = Run(1, SaturatingSub(i, 1))

Now == Passed(idx, note_state, strain)

IInv == Converted /\ Now /\ call \in 0..MaxCall

\* The tables of a calculator.
LEMMA Sizes ==
  ASSUME Given, Converted
  PROVE  /\ N \in Nat /\ Total \in Nat /\ Len(map) \in Nat /\ MaxCall \in Nat
         /\ map # << >> => N + 1 <= Len(map) /\ Total = N + 1 /\ Len(map) > 0
         /\ map = << >> => N = 0 /\ Total = 0 /\ Len(map) = 0
         /\ Total <= Len(map)
         /\ \A i \in 1..N : diff_objects[i] =
              [start_time |-> Divided(Float(map[i + 1].start), rate),
               end_time   |-> Divided(Float(map[i + 1].start + map[i + 1].duration), rate)]
<1> DEFINE k == SaturatingSub(Least(passed, Len(map)), 1)
           D(i) == [start_time |-> Divided(Float(map[i + 1].start), rate),
                    end_time   |-> Divided(Float(map[i + 1].start + map[i + 1].duration), rate)]
           Obj == [start : Nat, duration : Nat]
<1>1. map \in Seq(Obj) /\ passed \in Nat /\ MaxCall \in Nat
  BY DEF Given, Converted
<1> HIDE DEF Obj
<1>2. Len(map) \in Nat /\ (map = << >> <=> Len(map) = 0)
  BY <1>1, LenProperties, EmptySeq
<1>3. \A a, b \in Nat : /\ SaturatingSub(Least(a, b), 1) \in Nat
                        /\ b > 0 => SaturatingSub(Least(a, b), 1) + 1 <= b
                        /\ b = 0 => SaturatingSub(Least(a, b), 1) = 0
  BY DEF SaturatingSub, Least
<1>4. k \in Nat /\ (Len(map) > 0 => k + 1 <= Len(map)) /\ (Len(map) = 0 => k = 0)
  BY <1>1, <1>2, <1>3
<1>5. diff_objects = [i \in 1..k |-> D(i)]
  BY DEF Converted, DiffObjects
<1> HIDE DEF k, D
<1>6. N = k /\ \A i \in 1..N : diff_objects[i] = D(i)
  BY <1>4, <1>5 DEF N
<1>7. Total = IF map = << >> THEN 0 ELSE N + 1
  BY DEF Total, N
<1>8. QED
  BY <1>1, <1>2, <1>4, <1>6, <1>7 DEF D

\* The counts of the objects passed are numbers.
LEMMA CountedType ==
  ASSUME Given, Converted, NEW i \in 0..Total
  PROVE  /\ HoldsOf(map, Counted(i)) \in Nat /\ ComboOf(map, Counted(i)) \in Nat
         /\ Counted(i) \subseteq 1..Len(map) /\ IsFiniteSet(Counted(i))
<1> DEFINE A == Counted(i)
           B == {} \cap A
<1>1. Total <= Len(map) /\ Len(map) \in Nat /\ Total \in Nat /\ map \in Maps /\ i \in Nat /\ i <= Total
  BY Sizes DEF Converted
<1>2. \A n \in Nat : Least(1, n) \in Nat /\ Least(1, n) <= n
  BY DEF Least
<1> DEFINE n == IF i = 0 THEN Least(1, Len(map)) ELSE i
<1>3. n \in Nat /\ n <= Len(map)
  BY <1>1, <1>2
<1>4. A = 1..n
  BY DEF Counted
<1> HIDE DEF n
<1>5. A \subseteq 1..Len(map)
  BY <1>1, <1>3, <1>4
<1>6. IsFiniteSet(A)
  <2>1. 1 \in Int /\ n \in Int
    BY <1>3
  <2>2. QED
    BY <1>4, <2>1, IntervalFinite
<1> HIDE DEF A
<1>7. B = {} /\ IsFiniteSet(B) /\ A \cup B = A /\ A \cap B = {}
  BY FS_EmptySet
<1> HIDE DEF B
<1>8. ComboOf(map, A) \in Nat /\ HoldsOf(map, A) \in Nat
  BY <1>1, <1>5, <1>6, <1>7, CountsAdd
<1>9. QED
  BY <1>5, <1>6, <1>8 DEF A

\* Objects counted from their difficulty objects.
LEMMA CountMore ==
  ASSUME Given, Converted, NEW i \in Nat, NEW j \in Nat, 1 <= i, i <= j, j <= Total,
         NEW s, CountsOf(i, s)
  PROVE  CountsOf(j, IncrementCombo(s, (i + 1)..j))
<1> DEFINE A == 1..i
           B == (i + 1)..j
           T(k) == IF IsCircle(map[k]) THEN 0 ELSE GradualTicks(diff_objects[k - 1], rate)
<1>1. Total <= Len(map) /\ Len(map) \in Nat /\ Total \in Nat /\ N \in Nat /\ map \in Maps
      /\ Total <= N + 1
  BY Sizes DEF Converted
<1>2. A \cap B = {} /\ A \cup B = 1..j /\ A \cup B \subseteq 1..Len(map)
  BY <1>1
<1>3. IsFiniteSet(A) /\ IsFiniteSet(B)
  <2>1. {1, i, i + 1, j} \subseteq Int
    OBVIOUS
  <2>2. QED
    BY <2>1, IntervalFinite
<1>4. Counted(i) = A /\ Counted(j) = A \cup B
  BY <1>2 DEF Counted
<1>5. ASSUME NEW k \in B
      PROVE  T(k) \in Nat /\ (KeepsTicks(map, rate) => T(k) = Ticks(map[k]))
  <2>1. k \in 2..Len(map) /\ k - 1 \in 1..N /\ (k - 1) + 1 = k
    BY <1>1
  <2>2. diff_objects[k - 1] =
          [start_time |-> Divided(Float(map[(k - 1) + 1].start), rate),
           end_time   |-> Divided(Float(map[(k - 1) + 1].start + map[(k - 1) + 1].duration), rate)]
    BY <2>1, Sizes
  <2>3. GradualTicks(diff_objects[k - 1], rate) = LateTicks(map[k], rate)
    BY <2>1, <2>2 DEF LateTicks
  <2>4. LateTicks(map[k], rate) \in Nat
    BY <2>1 DEF Given, Converted
  <2>5. KeepsTicks(map, rate) /\ ~IsCircle(map[k]) => LateTicks(map[k], rate) = Ticks(map[k])
    BY <2>1, Zenon DEF KeepsTicks
  <2>6. IsCircle(map[k]) => Ticks(map[k]) = 0
    <3> DEFINE Obj == [start : Nat, duration : Nat]
    <3>1. map \in Seq(Obj) /\ k \in 1..Len(map)
      BY <1>1, <2>1 DEF Given
    <3> HIDE DEF Obj
    <3>2. map[k] \in Obj
      BY <3>1, ElementOfSeq
    <3>3. QED
      BY <3>2, TicksType DEF Obj
  <2>7. QED
    BY <2>3, <2>4, <2>5, <2>6
<1> DEFINE h == [k \in B |-> T(k)]
           s2 == IncrementCombo(s, B)
<1>6. /\ s2.curr_combo = s.curr_combo + Cardinality(B) + SumFunction(h)
      /\ s2.n_hold_notes = s.n_hold_notes + HoldsOf(map, B)
  BY DEF IncrementCombo, HoldsOf
<1>7. KeepsTicks(map, rate) => SumFunction(h) = TicksOf(map, B)
  <2> SUFFICES ASSUME KeepsTicks(map, rate) PROVE SumFunction(h) = TicksOf(map, B)
    OBVIOUS
  <2>1. \A k \in B : T(k) = Ticks(map[k])
    BY <1>5
  <2> HIDE DEF T, B
  <2>2. h = [k \in B |-> Ticks(map[k])]
    BY <2>1
  <2>3. QED
    BY <2>2 DEF TicksOf
<1>12. SumFunction(h) \in Nat /\ Cardinality(B) \in Nat
  <2>1. DOMAIN h = B /\ \A k \in B : h[k] \in Nat
    BY <1>5
  <2>2. SumFunction(h) = SumFunctionOnSet(h, DOMAIN h)
    BY DEF SumFunction
  <2> HIDE DEF h, B
  <2>3. QED
    BY <1>3, <2>1, <2>2, SumType, FS_CardinalityType
<1> HIDE DEF A, B, h, s2, T
<1>8. /\ HoldsOf(map, A \cup B) = HoldsOf(map, A) + HoldsOf(map, B)
      /\ ComboOf(map, A \cup B) = ComboOf(map, A) + Cardinality(B) + TicksOf(map, B)
  BY <1>1, <1>2, <1>3, CountsAdd
<1>9. /\ s.n_hold_notes = HoldsOf(map, A)
      /\ KeepsTicks(map, rate) => s.curr_combo = ComboOf(map, A)
      /\ s.curr_combo \in Nat
  BY <1>4 DEF CountsOf
<1>10. CountsOf(j, s2)
  BY <1>4, <1>6, <1>7, <1>8, <1>9, <1>12 DEF CountsOf
<1>11. QED
  BY <1>10 DEF s2, B

\* Nothing more is counted of no objects.
LEMMA CountNone ==
  ASSUME Given, Converted, NEW i \in 0..Total, NEW s, CountsOf(i, s), NEW a \in Int, NEW b \in Int, a > b
  PROVE  CountsOf(i, IncrementCombo(s, a..b))
<1> DEFINE S == a..b
           T(k) == IF IsCircle(map[k]) THEN 0 ELSE GradualTicks(diff_objects[k - 1], rate)
           h == [k \in S |-> T(k)]
<1>1. S = {}
  OBVIOUS
<1>2. /\ IncrementCombo(s, S).curr_combo = s.curr_combo + Cardinality(S) + SumFunction(h)
      /\ IncrementCombo(s, S).n_hold_notes = s.n_hold_notes + HoldsOf(map, S)
  BY DEF IncrementCombo, HoldsOf
<1>3. SumFunction(h) = 0
  <2>1. DOMAIN h = {}
    BY <1>1
  <2>2. SumFunction(h) = SumFunctionOnSet(h, DOMAIN h)
    BY DEF SumFunction
  <2> HIDE DEF h
  <2>3. QED
    BY <2>1, <2>2, SumEmpty
<1> HIDE DEF S, h
<1>4. Cardinality(S) = 0 /\ HoldsOf(map, S) = 0
  <2>1. {k \in {} : ~IsCircle(map[k])} = {}
    OBVIOUS
  <2>2. QED
    BY <1>1, <2>1, FS_EmptySet DEF HoldsOf
<1>5. /\ HoldsOf(map, Counted(i)) \in Nat /\ ComboOf(map, Counted(i)) \in Nat
  BY CountedType
<1>6. CountsOf(i, IncrementCombo(s, S))
  BY <1>2, <1>3, <1>4, <1>5 DEF CountsOf
<1>7. QED
  BY <1>6 DEF S

\* The first object counts from the start.
LEMMA CountsFirst ==
  ASSUME Given, Converted, map # << >>, NEW s
  PROVE  CountsOf(0, s) <=> CountsOf(1, s)
<1>1. Len(map) \in Nat /\ Len(map) > 0
  BY Sizes
<1>2. Least(1, Len(map)) = 1
  <2>1. \A n \in Nat : n > 0 => Least(1, n) = 1
    BY DEF Least
  <2>2. QED
    BY <1>1, <2>1
<1>3. Counted(0) = Counted(1)
  BY <1>2 DEF Counted
<1>4. QED
  BY <1>3 DEF CountsOf

\* next() passes one object more, if there is one.
LEMMA ServeCorrect ==
  ASSUME Given, Converted, NEW i, NEW s, NEW st, Passed(i, s, st), Serve(i, s, st)
  PROVE  /\ Passed(idx', note_state', strain')
         /\ IF i < Total THEN idx' = i + 1 /\ answer' = Attributes(idx', note_state', strain')
                         ELSE idx' = i /\ answer' = None
<1>1. /\ N \in Nat /\ Total \in Nat /\ (map # << >> => Total = N + 1)
      /\ (map = << >> => N = 0 /\ Total = 0)
  BY Sizes
<1>2. /\ i \in Nat /\ i <= Total /\ i \in 0..Total /\ CountsOf(i, s)
      /\ st = Run(1, SaturatingSub(i, 1))
  BY <1>1 DEF Passed
<1>3. /\ i > 0 => (i <= N <=> i < Total)
      /\ i = 0 => (map # << >> <=> i < Total)
      /\ i > 0 => SaturatingSub(i, 1) = i - 1 /\ SaturatingSub(i + 1, 1) = i
      /\ i = 0 => SaturatingSub(i, 1) = 0 /\ SaturatingSub(i + 1, 1) = 0
  BY <1>1, <1>2 DEF SaturatingSub
<1>4. CASE i < Total
  <2>1. /\ strain' = IF i > 0 THEN Append(st, i) ELSE st
        /\ note_state' = IF i > 0 THEN IncrementCombo(s, {i + 1}) ELSE s
        /\ idx' = i + 1 /\ answer' = Attributes(idx', note_state', strain')
    <3>1. ~(IF i > 0 THEN i > Len(diff_objects) ELSE map = << >>)
      BY <1>1, <1>2, <1>3, <1>4 DEF N
    <3>2. QED
      BY <3>1, Zenon DEF Serve
  <2>2. (i + 1)..(i + 1) = {i + 1} /\ i + 1 \in Nat /\ i <= i + 1 /\ i + 1 <= Total
    BY <1>1, <1>2, <1>4
  <2>3. CountsOf(i + 1, note_state')
    <3>1. CASE i > 0
      <4>0. i \in Nat /\ 1 <= i /\ CountsOf(i, s)
        BY <1>2, <3>1
      <4>1. CountsOf(i + 1, IncrementCombo(s, (i + 1)..(i + 1)))
        BY <2>2, <4>0, CountMore, Zenon
      <4>2. note_state' = IncrementCombo(s, {i + 1})
        BY <2>1, <3>1
      <4>3. QED
        BY <2>2, <4>1, <4>2
    <3>2. CASE i = 0
      <4>1. map # << >> /\ CountsOf(0, s)
        BY <1>2, <1>3, <1>4, <3>2
      <4>2. CountsOf(1, s)
        BY <4>1, CountsFirst
      <4>3. note_state' = s /\ i + 1 = 1
        BY <2>1, <3>2
      <4>4. QED
        BY <4>2, <4>3
    <3>3. QED
      BY <1>2, <3>1, <3>2
  <2>4. strain' = Run(1, SaturatingSub(i + 1, 1))
    <3>1. CASE i > 0
      <4>1. i - 1 \in Nat /\ (i - 1) + 1 = i
        BY <1>2, <3>1
      <4>2. Append(Run(1, i - 1), i) = Run(1, i)
        BY <4>1, RunAppend
      <4>3. QED
        BY <1>2, <1>3, <2>1, <3>1, <4>2
    <3>2. CASE i = 0
      BY <1>2, <1>3, <2>1, <3>2
    <3>3. QED
      BY <1>2, <3>1, <3>2
  <2>5. i + 1 \in 0..Total
    BY <1>1, <1>2, <1>4
  <2>6. QED
    BY <1>4, <2>1, <2>3, <2>4, <2>5 DEF Passed
<1>5. CASE ~(i < Total)
  <2>1. strain' = st /\ note_state' = s /\ idx' = i /\ answer' = None
    <3>1. ~(IF i > 0 THEN i <= Len(diff_objects) ELSE map # << >>)
      BY <1>1, <1>2, <1>3, <1>5 DEF N
    <3>2. QED
      BY <3>1, Zenon DEF Serve
  <2>2. QED
    BY <1>2, <1>5, <2>1 DEF Passed
<1>6. QED
  BY <1>4, <1>5

\* Where nth(n) lands before it calls next().
Reach(n) == (IF Lone(n) THEN 1 ELSE idx) + (To(n) + 1 - From)
CountsAt(n) == IncrementCombo(note_state, (From + 1)..(To(n) + 1))

LEMMA SkipCorrect ==
  ASSUME Given, Converted, Now, NEW n \in 0..MaxCall
  PROVE  /\ Passed(Reach(n), CountsAt(n), strain \o Run(From, To(n)))
         /\ Reach(n) \in Nat
         /\ idx < Total => Reach(n) < Total /\ Reach(n) + 1 = Least(idx + n + 1, Total)
         /\ idx = Total => Reach(n) = Total
<1>1. /\ N \in Nat /\ Total \in Nat /\ Len(map) \in Nat /\ MaxCall \in Nat
      /\ (map # << >> => Total = N + 1 /\ N + 1 <= Len(map) /\ Len(map) > 0)
      /\ (map = << >> => N = 0 /\ Total = 0 /\ Len(map) = 0)
  BY Sizes
<1>2. idx \in Nat /\ idx <= Total /\ idx \in 0..Total /\ CountsOf(idx, note_state)
      /\ strain = Run(1, SaturatingSub(idx, 1)) /\ n \in Nat
  BY <1>1 DEF Now, Passed
<1> DEFINE w == Wanted(n)
<1>3. w = Least(n, SaturatingSub(N + 1 - idx, 1))
  BY DEF Wanted, len, N
<1>4. Least(N, SaturatingSub(Len(map), 1)) = N
  BY <1>1 DEF Least, SaturatingSub
<1>5. To(n) = Least(From - 1 + w - (IF Lone(n) THEN 1 ELSE 0), N)
  BY <1>4 DEF To, N
<1> HIDE DEF w
<1>6. /\ w \in Nat
      /\ map # << >> /\ idx < Total => w < Total - idx /\ idx + w + 1 = Least(idx + n + 1, Total)
      /\ map # << >> /\ idx = Total => w = 0
      /\ map = << >> => w = 0 /\ idx = 0
  <2>1. CASE map = << >>
    BY <1>1, <1>2, <1>3, <2>1 DEF Least, SaturatingSub
  <2>2. CASE map # << >>
    BY <1>1, <1>2, <1>3, <2>2 DEF Least, SaturatingSub
  <2>3. QED
    BY <2>1, <2>2
<1>7. Lone(n) <=> idx = 0 /\ w > 0
  BY DEF Lone, w
<1>8. idx + w \in Nat /\ idx + w <= Total /\ idx <= idx + w /\ idx + w \in 0..Total
      /\ (idx < Total => idx + w < Total)
  BY <1>1, <1>2, <1>6
<1>9. /\ Reach(n) = idx + w
      /\ CountsOf(idx + w, CountsAt(n))
      /\ strain \o Run(From, To(n)) = Run(1, SaturatingSub(idx + w, 1))
  <2>1. CASE idx = 0 /\ w = 0
    <3>1. From = 1 /\ To(n) = 0 /\ Reach(n) = 0
      <4>1. From = 1 /\ ~Lone(n)
        BY <1>7, <2>1 DEF From, SaturatingSub
      <4>2. To(n) = 0
        <5>1. To(n) = Least(0, N)
          <6>1. From - 1 + w - 0 = 0
            BY <2>1, <4>1
          <6>2. QED
            BY <1>5, <4>1, <6>1
        <5>2. Least(0, N) = 0
          BY <1>1 DEF Least
        <5>3. QED
          BY <5>1, <5>2
      <4>3. QED
        BY <2>1, <4>1, <4>2 DEF Reach
    <3>2. SaturatingSub(idx, 1) = 0 /\ SaturatingSub(idx + w, 1) = 0
      BY <2>1 DEF SaturatingSub
    <3>3. Run(1, 0) \o Run(1, 0) = Run(1, 0)
      BY DEF Run, SaturatingSub
    <3>4. CountsOf(idx, CountsAt(n))
      <4>1. From + 1 \in Int /\ To(n) + 1 \in Int /\ From + 1 > To(n) + 1
        BY <3>1
      <4>2. QED
        BY <1>2, <4>1, CountNone DEF CountsAt
    <3>5. QED
      BY <1>2, <2>1, <3>1, <3>2, <3>3, <3>4
  <2>2. CASE idx = 0 /\ w > 0
    <3>0. w <= N /\ map # << >> /\ 1 <= w
      BY <1>1, <1>6, <1>8, <2>2
    <3>1. From = 1 /\ To(n) = w - 1 /\ Reach(n) = w
      BY <1>1, <1>5, <1>6, <1>7, <2>2, <3>0 DEF From, Reach, Least, SaturatingSub
    <3>2. SaturatingSub(idx, 1) = 0 /\ SaturatingSub(idx + w, 1) = w - 1 /\ w - 1 \in Nat
      BY <1>6, <2>2 DEF SaturatingSub
    <3>3. Run(1, 0) \o Run(0 + 1, w - 1) = Run(1, w - 1)
      <4>1. 0 \in Nat /\ 0 <= w - 1
        BY <3>2
      <4>2. QED
        BY <3>2, <4>1, RunConcat, Zenon
    <3>4. 0 + 1 = 1 /\ idx + w = w
      BY <1>6, <2>2
    <3>5. CountsOf(w, CountsAt(n))
      <4>1. CountsOf(1, note_state)
        BY <1>2, <2>2, <3>0, CountsFirst
      <4>2. 1 \in Nat /\ 1 <= w /\ w <= Total /\ 1 <= 1
        BY <1>8, <3>0, <3>4
      <4>3. CountsOf(w, IncrementCombo(note_state, (1 + 1)..w))
        BY <1>6, <4>1, <4>2, CountMore
      <4>4. From + 1 = 1 + 1 /\ To(n) + 1 = w
        BY <1>6, <3>1
      <4>5. QED
        BY <4>3, <4>4 DEF CountsAt
    <3>6. QED
      BY <1>2, <3>1, <3>2, <3>3, <3>4, <3>5
  <2>3. CASE idx > 0
    <3>1. From = idx /\ To(n) = idx + w - 1 /\ Reach(n) = idx + w
      <4>1. idx + w <= N + 1 /\ map # << >>
        BY <1>1, <1>2, <1>8, <2>3
      <4>2. From = idx
        BY <1>2, <2>3 DEF From, SaturatingSub
      <4>3. To(n) = idx + w - 1
        BY <1>1, <1>2, <1>5, <1>6, <1>7, <2>3, <4>1, <4>2 DEF Least
      <4>4. QED
        BY <1>2, <1>6, <1>7, <2>3, <4>2, <4>3 DEF Reach
    <3>2. /\ SaturatingSub(idx, 1) = idx - 1 /\ SaturatingSub(idx + w, 1) = idx + w - 1
          /\ idx - 1 \in Nat /\ idx + w - 1 \in Nat /\ idx - 1 <= idx + w - 1
          /\ (idx - 1) + 1 = idx
      BY <1>2, <1>6, <2>3 DEF SaturatingSub
    <3>3. Run(1, idx - 1) \o Run((idx - 1) + 1, idx + w - 1) = Run(1, idx + w - 1)
      BY <3>2, RunConcat
    <3>4. CountsOf(idx + w, CountsAt(n))
      <4>1. CountsOf(idx + w, IncrementCombo(note_state, (idx + 1)..(idx + w)))
        BY <1>2, <1>8, <2>3, CountMore
      <4>2. From + 1 = idx + 1 /\ To(n) + 1 = idx + w
        BY <1>2, <1>6, <3>1
      <4>3. QED
        BY <4>1, <4>2 DEF CountsAt
    <3>5. QED
      BY <1>2, <3>1, <3>2, <3>3, <3>4
  <2>4. QED
    BY <1>2, <1>6, <2>1, <2>2, <2>3
<1>10. Passed(Reach(n), CountsAt(n), strain \o Run(From, To(n)))
  BY <1>8, <1>9 DEF Passed
<1>11. idx < Total => Reach(n) + 1 = Least(idx + n + 1, Total)
  BY <1>1, <1>2, <1>6, <1>9
<1>12. idx = Total => Reach(n) = Total
  BY <1>1, <1>2, <1>6, <1>9
<1>13. QED
  BY <1>8, <1>9, <1>10, <1>11, <1>12

\* Each call answers as the contract asks.
LEMMA CallCorrect ==
  ASSUME Given, IInv, CallNext \/ \E n \in 0..MaxCall : CallNth(n)
  PROVE  /\ UNCHANGED settings /\ call' \in 0..MaxCall /\ call' \in Nat
         /\ Passed(idx', note_state', strain')
         /\ idx \in Nat /\ idx <= Total /\ Total \in Nat
         /\ idx < Total => /\ idx' = Least(idx + call' + 1, Total) /\ idx' \in 1..Total
                           /\ answer' = Attributes(idx', note_state', strain')
         /\ idx = Total => idx' = idx /\ answer' = None
<1>1. Converted /\ Now /\ Total \in Nat /\ MaxCall \in Nat
  BY Sizes DEF IInv
<1>2. idx \in Nat /\ idx <= Total
  BY <1>1 DEF Now, Passed
<1>3. CASE CallNext
  <2>1. UNCHANGED settings /\ call' = 0 /\ Serve(idx, note_state, strain)
    BY <1>3 DEF CallNext
  <2>2. /\ Passed(idx', note_state', strain')
        /\ IF idx < Total
           THEN idx' = idx + 1 /\ answer' = Attributes(idx', note_state', strain')
           ELSE idx' = idx /\ answer' = None
    BY <1>1, <2>1, ServeCorrect DEF Now
  <2>3. idx < Total => idx + 1 = Least(idx + 0 + 1, Total) /\ idx + 1 \in 1..Total
    BY <1>1, <1>2 DEF Least
  <2>4. QED
    BY <1>1, <1>2, <2>1, <2>2, <2>3
<1>4. ASSUME NEW n \in 0..MaxCall, CallNth(n)
      PROVE  /\ UNCHANGED settings /\ call' = n /\ n \in Nat
             /\ Passed(idx', note_state', strain')
             /\ idx < Total => /\ idx' = Least(idx + n + 1, Total) /\ idx' \in 1..Total
                               /\ answer' = Attributes(idx', note_state', strain')
             /\ idx = Total => idx' = idx /\ answer' = None
  <2>1. /\ UNCHANGED settings /\ call' = n /\ n \in Nat
        /\ Serve(Reach(n), CountsAt(n), strain \o Run(From, To(n)))
    BY <1>1, <1>4 DEF CallNth, Reach, CountsAt
  <2>2. /\ Passed(Reach(n), CountsAt(n), strain \o Run(From, To(n)))
        /\ Reach(n) \in Nat
        /\ idx < Total => Reach(n) < Total /\ Reach(n) + 1 = Least(idx + n + 1, Total)
        /\ idx = Total => Reach(n) = Total
    BY <1>1, SkipCorrect
  <2>3. /\ Passed(idx', note_state', strain')
        /\ IF Reach(n) < Total
           THEN idx' = Reach(n) + 1 /\ answer' = Attributes(idx', note_state', strain')
           ELSE idx' = Reach(n) /\ answer' = None
    BY <1>1, <2>1, <2>2, ServeCorrect
  <2>4. idx < Total => Reach(n) + 1 \in 1..Total
    BY <1>1, <2>2
  <2>5. QED
    BY <1>1, <1>2, <2>1, <2>2, <2>3, <2>4
<1>5. QED
  BY <1>1, <1>2, <1>3, <1>4

-----------------------------------------------------------------------------
(* The invariant holds, and what it says *)

LEMMA InitIInv ==
  ASSUME Given, Init
  PROVE  IInv
<1>1. /\ Converted /\ idx = 0 /\ note_state = FirstCombo(map) /\ strain = << >> /\ call = 0
  BY DEF Init, Converted
<1>2. Total \in Nat /\ MaxCall \in Nat /\ Len(map) \in Nat /\ map \in Maps
      /\ (map = << >> => Len(map) = 0)
  BY <1>1, Sizes DEF Converted
<1>3. Run(1, 0) = << >> /\ SaturatingSub(0, 1) = 0 /\ 0 \in 0..Total /\ 0 \in 0..MaxCall
  BY <1>2 DEF Run, SaturatingSub
<1>4. CountsOf(0, FirstCombo(map))
  <2>1. CASE map = << >>
    <3>1. Least(1, Len(map)) = 0
      BY <1>2, <2>1 DEF Least
    <3>2. Counted(0) = {}
      BY <3>1 DEF Counted
    <3>3. HoldsOf(map, {}) = 0 /\ ComboOf(map, {}) = 0
      <4> DEFINE g == [i \in {} |-> Ticks(map[i])]
      <4>1. {i \in {} : ~IsCircle(map[i])} = {} /\ DOMAIN g = {}
        OBVIOUS
      <4>2. TicksOf(map, {}) = SumFunctionOnSet(g, DOMAIN g)
        BY DEF TicksOf, SumFunction
      <4> HIDE DEF g
      <4>3. TicksOf(map, {}) = 0 /\ Cardinality({}) = 0
        BY <4>1, <4>2, SumEmpty, FS_EmptySet
      <4>4. QED
        BY <4>1, <4>3 DEF HoldsOf, ComboOf
    <3>4. FirstCombo(map).curr_combo = 0 /\ FirstCombo(map).n_hold_notes = 0
      BY <2>1 DEF FirstCombo
    <3>5. QED
      BY <3>2, <3>3, <3>4 DEF CountsOf
  <2>2. CASE map # << >>
    <3>1. /\ HoldsOf(map, 1..1) = IF IsCircle(map[1]) THEN 0 ELSE 1
          /\ ComboOf(map, 1..1) = 1 + Ticks(map[1])
          /\ map[1] \in [start : Nat, duration : Nat]
      BY <1>2, <2>2, FirstCounts
    <3>2. Counted(1) = 1..1
      BY DEF Counted
    <3>3. CASE IsCircle(map[1])
      <4>1. FirstCombo(map).curr_combo = 1 /\ FirstCombo(map).n_hold_notes = 0
        BY <2>2, <3>3 DEF FirstCombo
      <4>2. Ticks(map[1]) = 0
        BY <3>1, <3>3, TicksType
      <4>3. CountsOf(1, FirstCombo(map))
        BY <3>1, <3>2, <3>3, <4>1, <4>2 DEF CountsOf
      <4>4. QED
        BY <1>1, <2>2, <4>3, CountsFirst
    <3>4. CASE ~IsCircle(map[1])
      <4>1. /\ FirstCombo(map).n_hold_notes = 1
            /\ FirstCombo(map).curr_combo
                 = 1 + TicksBetween(Float(map[1].start), Float(map[1].start + map[1].duration))
        BY <2>2, <3>4 DEF FirstCombo
      <4>2. map[1].start \in Nat /\ map[1].duration \in Nat
        BY <3>1
      <4>3. TicksBetween(Float(map[1].start), Float(map[1].start + map[1].duration)) = Ticks(map[1])
        BY <4>2, UnscaledTicks DEF Ticks
      <4>4. CountsOf(1, FirstCombo(map))
        <5>1. Ticks(map[1]) \in Nat
          BY <3>1, TicksType
        <5>2. QED
          BY <3>1, <3>2, <3>4, <4>1, <4>3, <5>1 DEF CountsOf
      <4>5. QED
        BY <1>1, <2>2, <4>4, CountsFirst
    <3>5. QED
      BY <3>3, <3>4
  <2>3. QED
    BY <2>1, <2>2
<1>5. QED
  BY <1>1, <1>3, <1>4 DEF IInv, Now, Passed

LEMMA StepIInv ==
  ASSUME Given, IInv, [Next]_vars
  PROVE  IInv'
<1>1. CASE CallNext \/ \E n \in 0..MaxCall : CallNth(n)
  <2>1. UNCHANGED settings /\ call' \in 0..MaxCall /\ Passed(idx', note_state', strain')
    BY <1>1, CallCorrect
  <2>2. QED
    BY <2>1 DEF IInv, Now, Converted, Passed, CountsOf, Counted, Total, settings
<1>2. CASE UNCHANGED vars
  BY <1>2 DEF vars, settings, IInv, Now, Converted, Passed, CountsOf, Counted, Total
<1>3. QED
  BY <1>1, <1>2 DEF Next

\* Holds are those of the objects up to the position, as a one-shot calculation counts.
LEMMA Consequences ==
  ASSUME Given, IInv
  PROVE  Prefix
<1>1. Converted /\ Now
  BY DEF IInv
<1>2. Total \in Nat /\ Len(map) \in Nat /\ Total <= Len(map)
  BY <1>1, Sizes
<1>3. /\ idx \in Nat /\ idx <= Total /\ strain = Run(1, SaturatingSub(idx, 1))
      /\ note_state.n_hold_notes = HoldsOf(map, Counted(idx))
  BY <1>1, <1>2 DEF Now, Passed, CountsOf
<1> DEFINE k == IF idx = 0 THEN 1 ELSE idx
<1>4. 1..Least(k, Len(map)) = Counted(idx)
  <2>1. CASE idx = 0
    BY <2>1 DEF Counted
  <2>2. CASE idx # 0
    <3>1. Least(idx, Len(map)) = idx
      BY <1>2, <1>3 DEF Least
    <3>2. QED
      BY <2>2, <3>1 DEF Counted
  <2>3. QED
    BY <2>1, <2>2
<1> HIDE DEF k
<1>5. Calculate(map, k).n_hold_notes = HoldsOf(map, 1..Least(k, Len(map)))
  BY DEF Calculate, HoldsOf
<1>6. QED
  BY <1>3, <1>4, <1>5 DEF Prefix, k

\* What was counted and processed is what the one-shot calculation gives; the combo, and
\* so all of it, where the clock rate keeps the ticks.
LEMMA PassedIsPromised ==
  ASSUME Given, Converted, NEW i \in 1..Total, NEW s, NEW st, Passed(i, s, st)
  PROVE  /\ Attributes(i, s, st).n_objects = Calculate(map, i).n_objects
         /\ Attributes(i, s, st).n_hold_notes = Calculate(map, i).n_hold_notes
         /\ Attributes(i, s, st) # None
         /\ KeepsTicks(map, rate) => Attributes(i, s, st) = Calculate(map, i)
<1>1. Total \in Nat /\ Len(map) \in Nat /\ Total <= Len(map)
  BY Sizes
<1>2. /\ i \in Nat /\ i <= Len(map) /\ i # 0 /\ i \in 0..Total
      /\ st = Run(1, SaturatingSub(i, 1))
      /\ s.n_hold_notes = HoldsOf(map, 1..i)
      /\ KeepsTicks(map, rate) => s.curr_combo = ComboOf(map, 1..i)
      /\ s.curr_combo \in Nat
      /\ Counted(i) = 1..i
  BY <1>1 DEF Passed, CountsOf, Counted
<1>3. Least(i, Len(map)) = i
  BY <1>1, <1>2 DEF Least
<1>4. /\ Calculate(map, i) = [max_combo    |-> ComboOf(map, 1..i),
                             n_hold_notes |-> HoldsOf(map, 1..i),
                             n_objects    |-> i,
                             strain       |-> Run(1, SaturatingSub(i, 1))]
  BY <1>3, Zenon DEF Calculate, ComboOf, HoldsOf, TicksOf
<1>5. HoldsOf(map, 1..i) \in Nat /\ ComboOf(map, 1..i) \in Nat
  BY <1>2, CountedType
<1>6. Run(1, SaturatingSub(i, 1)) \in Seq(Nat)
  <2>1. SaturatingSub(i, 1) \in Nat /\ 1 \in Nat /\ 1 >= 1
    BY <1>2 DEF SaturatingSub
  <2>2. QED
    BY <2>1, RunType
<1>7. Attributes(i, s, st) # None
  <2>1. Attributes(i, s, st)
          \in [max_combo : Nat, n_hold_notes : Nat, n_objects : Nat, strain : Seq(Nat)]
    BY <1>2, <1>5, <1>6 DEF Attributes
  <2>2. QED
    BY <2>1 DEF Given
<1>8. /\ Attributes(i, s, st).n_objects = i /\ Attributes(i, s, st).n_hold_notes = s.n_hold_notes
      /\ Calculate(map, i).n_objects = i /\ Calculate(map, i).n_hold_notes = HoldsOf(map, 1..i)
  BY <1>4 DEF Attributes
<1>9. KeepsTicks(map, rate) => Attributes(i, s, st) = Calculate(map, i)
  BY <1>2, <1>4 DEF Attributes
<1>10. QED
  BY <1>2, <1>7, <1>8, <1>9

=============================================================================
