-------------------------- MODULE CatchGradualProofs --------------------------
(***************************************************************************)
(* What one call does to an osu!catch calculator, for every map and any    *)
(* mix of calls, and that the lists of deltas and of palpable objects,     *)
(* which are built apart, line up.  AnyGradualProofs draws the theorems    *)
(* from it.                                                                *)
(***************************************************************************)
EXTENDS CatchGradual, ObjectRunsProofs

-----------------------------------------------------------------------------
(* The calls on a builder *)

Record == {Fruit, Droplet} \cup {Tiny(n) : n \in Nat}

\* The calls of an ObjectCountBuilder are told apart by their kind.
LEMMA RecordTypes ==
  /\ Fruit \in Record /\ ~IsTiny(Fruit) /\ Droplet \in Record /\ ~IsTiny(Droplet)
  /\ Fruit # Droplet
  /\ \A n \in Nat : Tiny(n) \in Record /\ IsTiny(Tiny(n)) /\ Tiny(n).n = n
  /\ \A r \in Record : ~IsTiny(r) => r = Fruit \/ r = Droplet
  /\ \A r \in Record : IsTiny(r) => r.n \in Nat /\ r # Fruit /\ r # Droplet
<1>1. Fruit.record = "fruit" /\ Droplet.record = "droplet"
  BY DEF Fruit, Droplet
<1>2. \A n \in Nat : Tiny(n).record = "tiny_droplets" /\ Tiny(n).n = n
  BY DEF Tiny
<1>3. QED
  BY <1>1, <1>2 DEF Record, IsTiny

\* The number of palpable objects that were recorded.
Palps(rs) == Cardinality(PalpableCalls(rs, Len(rs)))

\* The palpable calls are finitely many.
LEMMA PalpsFinite ==
  ASSUME NEW rs, NEW i \in Nat
  PROVE  /\ IsFiniteSet(PalpableCalls(rs, i)) /\ Cardinality(PalpableCalls(rs, i)) \in Nat
         /\ \A j \in Nat : j <= i =>
              /\ PalpableCalls(rs, j) \subseteq PalpableCalls(rs, i)
              /\ Cardinality(PalpableCalls(rs, j)) <= Cardinality(PalpableCalls(rs, i))
<1>1. IsFiniteSet(1..i)
  BY FS_Interval
<1>2. IsFiniteSet(PalpableCalls(rs, i)) /\ Cardinality(PalpableCalls(rs, i)) \in Nat
  BY <1>1, FS_Subset, FS_CardinalityType DEF PalpableCalls
<1>3. ASSUME NEW j \in Nat, j <= i
      PROVE  /\ PalpableCalls(rs, j) \subseteq PalpableCalls(rs, i)
             /\ Cardinality(PalpableCalls(rs, j)) <= Cardinality(PalpableCalls(rs, i))
  <2>1. PalpableCalls(rs, j) \subseteq PalpableCalls(rs, i)
    BY <1>3 DEF PalpableCalls
  <2>2. QED
    BY <1>2, <2>1, FS_Subset
<1>4. QED
  BY <1>2, <1>3

\* What one more call does to the palpable objects.
LEMMA PalpsAppend ==
  ASSUME NEW rs \in Seq(Record), NEW r \in Record
  PROVE  LET t == Append(rs, r)
             n == Len(rs)
         IN  /\ t \in Seq(Record) /\ Len(t) = n + 1 /\ n \in Nat /\ DOMAIN t = 1..(n + 1)
             /\ DOMAIN rs = 1..n
             /\ t[n + 1] = r /\ \A i \in 1..n : t[i] = rs[i] /\ rs[i] \in Record
             /\ \A i \in 0..n : PalpableCalls(t, i) = PalpableCalls(rs, i)
             /\ PalpableCalls(t, n + 1) =
                  IF IsTiny(r) THEN PalpableCalls(rs, n) ELSE PalpableCalls(rs, n) \cup {n + 1}
             /\ Palps(rs) \in Nat
             /\ Palps(t) = IF IsTiny(r) THEN Palps(rs) ELSE Palps(rs) + 1
<1> DEFINE t == Append(rs, r)
           n == Len(rs)
<1>1. /\ t \in Seq(Record) /\ Len(t) = n + 1 /\ n \in Nat /\ DOMAIN t = 1..(n + 1)
      /\ DOMAIN rs = 1..n
      /\ t[n + 1] = r /\ \A i \in 1..n : t[i] = rs[i] /\ rs[i] \in Record
  OBVIOUS
<1> HIDE DEF t, n
<1>2. \A i \in 0..n : PalpableCalls(t, i) = PalpableCalls(rs, i)
  <2> SUFFICES ASSUME NEW i \in 0..n PROVE PalpableCalls(t, i) = PalpableCalls(rs, i)
    OBVIOUS
  <2>1. \A j \in 1..i : t[j] = rs[j]
    BY <1>1
  <2>2. QED
    BY <2>1 DEF PalpableCalls
<1>3. PalpableCalls(t, n + 1) =
        IF IsTiny(r) THEN PalpableCalls(rs, n) ELSE PalpableCalls(rs, n) \cup {n + 1}
  <2>1. \A j \in 1..(n + 1) : j = n + 1 \/ (j \in 1..n /\ t[j] = rs[j])
    BY <1>1
  <2>2. n + 1 \in 1..(n + 1) /\ 1..n \subseteq 1..(n + 1)
    BY <1>1
  <2>3. QED
    BY <1>1, <2>1, <2>2 DEF PalpableCalls
<1>4. Palps(rs) \in Nat /\ Palps(rs) = Cardinality(PalpableCalls(rs, n))
      /\ IsFiniteSet(PalpableCalls(rs, n)) /\ n + 1 \notin PalpableCalls(rs, n)
  <2>1. n + 1 \notin PalpableCalls(rs, n)
    BY <1>1 DEF PalpableCalls
  <2>2. QED
    BY <1>1, <2>1, PalpsFinite DEF Palps, n
<1>5. Palps(t) = IF IsTiny(r) THEN Palps(rs) ELSE Palps(rs) + 1
  <2>1. Palps(t) = Cardinality(PalpableCalls(t, n + 1))
    BY <1>1 DEF Palps
  <2>2. Cardinality(PalpableCalls(rs, n) \cup {n + 1}) = Palps(rs) + 1
    BY <1>4, FS_AddElement
  <2>3. QED
    BY <1>3, <1>4, <2>1, <2>2
<1>6. QED
  BY <1>1, <1>2, <1>3, <1>4, <1>5 DEF t, n

\* The sum of the tiny droplets among the calls in S.
LEMMA TinySumType ==
  ASSUME NEW rs \in Seq(Record), NEW S, S \subseteq DOMAIN rs
  PROVE  TinySum(rs, S) \in Nat /\ IsFiniteSet(S)
<1> DEFINE D == {i \in S : IsTiny(rs[i])}
           f == [j \in D |-> rs[j].n]
<1>1. DOMAIN rs = 1..Len(rs) /\ Len(rs) \in Nat
  BY LenProperties
<1>2. IsFiniteSet(S) /\ IsFiniteSet(D)
  <2>1. IsFiniteSet(DOMAIN rs)
    BY <1>1, IntervalFinite
  <2>2. QED
    BY <2>1, FS_Subset
<1>3. \A i \in D : rs[i] \in Record /\ IsTiny(rs[i])
  BY <1>1, ElementOfSeq
<1>4. \A i \in D : f[i] \in Nat
  BY <1>3, RecordTypes
<1>5. DOMAIN f = D
  OBVIOUS
<1>6. TinySum(rs, S) = SumFunctionOnSet(f, D)
  BY <1>5 DEF TinySum, SumFunction
<1> HIDE DEF f, D
<1>7. QED
  BY <1>2, <1>4, <1>6, SumType

\* One more call adds its own tiny droplets.
LEMMA TinySumAppend ==
  ASSUME NEW rs \in Seq(Record), NEW r \in Record, NEW S, S \subseteq DOMAIN rs
  PROVE  /\ TinySum(Append(rs, r), S) = TinySum(rs, S)
         /\ TinySum(Append(rs, r), S \cup {Len(rs) + 1})
              = TinySum(rs, S) + IF IsTiny(r) THEN r.n ELSE 0
<1> DEFINE t == Append(rs, r)
           n == Len(rs)
           D == {i \in S : IsTiny(rs[i])}
           E == {i \in S : IsTiny(t[i])}
           S2 == S \cup {n + 1}
           F == {i \in S2 : IsTiny(t[i])}
           d == [j \in D |-> rs[j].n]
           e == [j \in E |-> t[j].n]
           f == [j \in F |-> t[j].n]
<1>1. /\ t \in Seq(Record) /\ n \in Nat /\ DOMAIN t = 1..(n + 1) /\ DOMAIN rs = 1..n
      /\ t[n + 1] = r /\ \A i \in 1..n : t[i] = rs[i] /\ rs[i] \in Record
  BY PalpsAppend
<1> HIDE DEF t, n
<1>2. \A i \in S : t[i] = rs[i]
  BY <1>1
<1>3. E = D /\ e = d
  BY <1>2
<1>4. F = IF IsTiny(r) THEN D \cup {n + 1} ELSE D
  BY <1>1, <1>2
<1>5. /\ IsFiniteSet(D) /\ n + 1 \notin D
      /\ \A i \in D : d[i] \in Nat /\ f[i] = d[i]
  <2>1. IsFiniteSet(D)
    <3>1. IsFiniteSet(DOMAIN rs)
      BY <1>1, IntervalFinite
    <3>2. QED
      BY <3>1, FS_Subset
  <2>2. n + 1 \notin D
    BY <1>1
  <2>3. ASSUME NEW i \in D PROVE d[i] \in Nat /\ f[i] = d[i]
    <3>1. i \in F /\ rs[i] \in Record /\ IsTiny(rs[i]) /\ t[i] = rs[i]
      BY <1>1, <1>2
    <3>2. QED
      BY <3>1, RecordTypes
  <2>4. QED
    BY <2>1, <2>2, <2>3
<1>6. /\ TinySum(rs, S) = SumFunctionOnSet(d, D)
      /\ TinySum(t, S) = SumFunctionOnSet(e, E)
      /\ TinySum(t, S2) = SumFunctionOnSet(f, F)
  <2>1. DOMAIN d = D /\ DOMAIN e = E /\ DOMAIN f = F
    OBVIOUS
  <2>2. QED
    BY <2>1 DEF TinySum, SumFunction
<1>7. TinySum(rs, S) \in Nat
  BY TinySumType
<1>8. IsTiny(r) => f[n + 1] = r.n /\ r.n \in Nat
  BY <1>1, <1>4, RecordTypes
<1> HIDE DEF D, E, F, d, e, f
<1>9. TinySum(t, S) = TinySum(rs, S)
  BY <1>3, <1>6
<1>10. SumFunctionOnSet(f, D) = TinySum(rs, S)
  BY <1>5, <1>6, SumSame
<1>11. TinySum(t, S2) = TinySum(rs, S) + IF IsTiny(r) THEN r.n ELSE 0
  <2>1. CASE IsTiny(r)
    <3>1. F = D \cup {n + 1} /\ F \ {n + 1} = D /\ n + 1 \in F
      BY <1>4, <1>5, <2>1
    <3>2. IsFiniteSet(F)
      BY <1>5, <3>1, FS_AddElement
    <3>3. \A x \in F : f[x] \in Nat
      BY <1>5, <1>8, <2>1, <3>1
    <3>4. SumFunctionOnSet(f, F) = f[n + 1] + SumFunctionOnSet(f, D)
      BY <3>1, <3>2, <3>3, SumRemove
    <3>5. QED
      BY <1>6, <1>7, <1>8, <1>10, <2>1, <3>4
  <2>2. CASE ~IsTiny(r)
    BY <1>4, <1>6, <1>7, <1>10, <2>2
  <2>3. QED
    BY <2>1, <2>2
<1>12. QED
  BY <1>9, <1>11 DEF t, n, S2

\* The calls that count for `take` palpable objects.
Taken(rs, take) == {i \in DOMAIN rs : Cardinality(PalpableCalls(rs, i - 1)) < take}

\* A call is counted as long as fewer than `take` palpable ones came before it.
LEMMA TakenAppend ==
  ASSUME NEW rs \in Seq(Record), NEW r \in Record, NEW take \in Nat
  PROVE  /\ Taken(rs, take) \subseteq DOMAIN rs /\ IsFiniteSet(Taken(rs, take))
         /\ Taken(Append(rs, r), take) =
              IF Palps(rs) < take THEN Taken(rs, take) \cup {Len(rs) + 1} ELSE Taken(rs, take)
<1> DEFINE t == Append(rs, r)
           n == Len(rs)
<1>1. /\ DOMAIN t = 1..(n + 1) /\ n \in Nat /\ DOMAIN rs = 1..n
      /\ \A i \in 0..n : PalpableCalls(t, i) = PalpableCalls(rs, i)
  BY PalpsAppend
<1> HIDE DEF t
<1>2. Taken(rs, take) \subseteq DOMAIN rs /\ IsFiniteSet(Taken(rs, take))
  <2>1. IsFiniteSet(1..n)
    BY <1>1, IntervalFinite
  <2>2. QED
    BY <1>1, <2>1, FS_Subset DEF Taken
<1>3. ASSUME NEW i \in 1..n
      PROVE  PalpableCalls(t, i - 1) = PalpableCalls(rs, i - 1)
  <2>1. i - 1 \in 0..n
    BY <1>1
  <2>2. QED
    BY <1>1, <2>1
<1>4. PalpableCalls(t, (n + 1) - 1) = PalpableCalls(rs, n)
  <2>1. (n + 1) - 1 = n /\ n \in 0..n
    BY <1>1
  <2>2. QED
    BY <1>1, <2>1
<1>5. Cardinality(PalpableCalls(rs, n)) = Palps(rs)
  BY DEF Palps
<1>6. 1..(n + 1) = (1..n) \cup {n + 1}
  BY <1>1
<1>7. Taken(t, take) = {i \in (1..n) \cup {n + 1} : Cardinality(PalpableCalls(t, i - 1)) < take}
  BY <1>1, <1>6 DEF Taken
<1>8. n + 1 \in Taken(t, take) <=> Palps(rs) < take
  BY <1>4, <1>5, <1>7
<1>9. \A i \in 1..n : i \in Taken(t, take) <=> i \in Taken(rs, take)
  BY <1>1, <1>3, <1>7 DEF Taken
<1>10. QED
  BY <1>1, <1>2, <1>7, <1>8, <1>9 DEF t

CatchCount == [fruits : Nat, droplets : Nat, tiny_droplets : Nat]

\* A count with one more call.
Counting(c, r) ==
  [fruits        |-> c.fruits + IF r = Fruit THEN 1 ELSE 0,
   droplets      |-> c.droplets + IF r = Droplet THEN 1 ELSE 0,
   tiny_droplets |-> c.tiny_droplets + IF IsTiny(r) THEN r.n ELSE 0]

\* The number of calls x among those in S.
Calls(rs, S, x) == Cardinality({i \in S : rs[i] = x})

\* Calls before the last one are counted alike with and without it.
LEMMA CallsSame ==
  ASSUME NEW rs \in Seq(Record), NEW r \in Record, NEW S, S \subseteq DOMAIN rs, NEW x
  PROVE  Calls(Append(rs, r), S, x) = Calls(rs, S, x)
<1> DEFINE t == Append(rs, r)
<1>1. DOMAIN rs = 1..Len(rs) /\ \A i \in 1..Len(rs) : t[i] = rs[i]
  BY PalpsAppend
<1> HIDE DEF t
<1>2. {i \in S : t[i] = x} = {i \in S : rs[i] = x}
  BY <1>1
<1>3. QED
  BY <1>2 DEF Calls, t

\* The last call counts for its own kind.
LEMMA CallsCount ==
  ASSUME NEW rs \in Seq(Record), NEW r \in Record, NEW S, S \subseteq DOMAIN rs, NEW x
  PROVE  /\ Calls(rs, S, x) \in Nat
         /\ Calls(Append(rs, r), S, x) = Calls(rs, S, x)
         /\ Calls(Append(rs, r), S \cup {Len(rs) + 1}, x)
              = Calls(rs, S, x) + IF r = x THEN 1 ELSE 0
<1> DEFINE t == Append(rs, r)
           n == Len(rs)
           D == {i \in S : rs[i] = x}
           E == {i \in S : t[i] = x}
           F == {i \in S \cup {n + 1} : t[i] = x}
<1>1. /\ n \in Nat /\ DOMAIN rs = 1..n
      /\ t[n + 1] = r /\ \A i \in 1..n : t[i] = rs[i]
  BY PalpsAppend
<1> HIDE DEF t, n
<1>2. IsFiniteSet(D) /\ n + 1 \notin D
  <2>1. IsFiniteSet(DOMAIN rs)
    BY <1>1, IntervalFinite
  <2>2. QED
    BY <1>1, <2>1, FS_Subset
<1>3. E = D /\ F = IF r = x THEN D \cup {n + 1} ELSE D
  BY <1>1
<1> HIDE DEF D, E, F
<1>4. Cardinality(D) \in Nat /\ Cardinality(D \cup {n + 1}) = Cardinality(D) + 1
  BY <1>2, FS_AddElement, FS_CardinalityType
<1>5. Cardinality(E) = Cardinality(D) /\ Cardinality(F) = Cardinality(D) + IF r = x THEN 1 ELSE 0
  BY <1>3, <1>4
<1>6. QED
  BY <1>4, <1>5 DEF Calls, D, E, F, t, n

\* The Regular count with one more call.
LEMMA RegularAppend ==
  ASSUME NEW rs \in Seq(Record), NEW r \in Record, NEW take \in Nat
  PROVE  /\ RegularCount(rs, take) \in CatchCount
         /\ RegularCount(Append(rs, r), take) =
              IF Palps(rs) < take THEN Counting(RegularCount(rs, take), r)
              ELSE RegularCount(rs, take)
<1> DEFINE t == Append(rs, r)
           S == Taken(rs, take)
           S2 == Taken(t, take)
           CountIn(q, U) == [fruits        |-> Calls(q, U, Fruit),
                             droplets      |-> Calls(q, U, Droplet),
                             tiny_droplets |-> TinySum(q, U)]
<1>1. RegularCount(rs, take) = CountIn(rs, S) /\ RegularCount(t, take) = CountIn(t, S2)
  BY DEF RegularCount, Taken, Calls
<1>2. S \subseteq DOMAIN rs /\ S2 = IF Palps(rs) < take THEN S \cup {Len(rs) + 1} ELSE S
  BY TakenAppend
<1> HIDE DEF S, S2
<1>3. CountIn(rs, S) \in CatchCount
  <2>1. TinySum(rs, S) \in Nat
    BY <1>2, TinySumType
  <2>2. QED
    BY <1>2, <2>1, CallsCount DEF CatchCount
<1>4. CountIn(t, S) = CountIn(rs, S)
  <2>1. TinySum(t, S) = TinySum(rs, S)
    BY <1>2, TinySumAppend
  <2>2. /\ Calls(t, S, Fruit) = Calls(rs, S, Fruit)
        /\ Calls(t, S, Droplet) = Calls(rs, S, Droplet)
    <3>1. S \subseteq DOMAIN rs
      BY <1>2
    <3>2. Calls(t, S, Fruit) = Calls(rs, S, Fruit)
      BY <3>1, CallsSame
    <3>3. Calls(t, S, Droplet) = Calls(rs, S, Droplet)
      BY <3>1, CallsSame
    <3>4. QED
      BY <3>2, <3>3
  <2>3. QED
    BY <2>1, <2>2
<1>5. CountIn(t, S \cup {Len(rs) + 1}) = Counting(CountIn(rs, S), r)
  <2>1. TinySum(t, S \cup {Len(rs) + 1}) = TinySum(rs, S) + IF IsTiny(r) THEN r.n ELSE 0
    BY <1>2, TinySumAppend
  <2>2. /\ Calls(t, S \cup {Len(rs) + 1}, Fruit)
             = Calls(rs, S, Fruit) + IF r = Fruit THEN 1 ELSE 0
        /\ Calls(t, S \cup {Len(rs) + 1}, Droplet)
             = Calls(rs, S, Droplet) + IF r = Droplet THEN 1 ELSE 0
    BY <1>2, CallsCount
  <2>3. QED
    BY <2>1, <2>2 DEF Counting
<1> HIDE DEF CountIn
<1>6. QED
  BY <1>1, <1>2, <1>3, <1>4, <1>5 DEF t

\* The tiny droplets that wait for a palpable object, with one more call.
Waiting(rs) == {i \in DOMAIN rs : \A j \in PalpableCalls(rs, Len(rs)) : j < i}

\* Tiny droplets wait for the next palpable call.
LEMMA PendingAppend ==
  ASSUME NEW rs \in Seq(Record), NEW r \in Record
  PROVE  /\ Pending(rs) \in Nat
         /\ Pending(Append(rs, r)) = IF IsTiny(r) THEN Pending(rs) + r.n ELSE 0
<1> DEFINE t == Append(rs, r)
           n == Len(rs)
<1>1. /\ Len(t) = n + 1 /\ n \in Nat /\ DOMAIN t = 1..(n + 1) /\ DOMAIN rs = 1..n
      /\ t[n + 1] = r /\ PalpableCalls(t, n + 1) =
           IF IsTiny(r) THEN PalpableCalls(rs, n) ELSE PalpableCalls(rs, n) \cup {n + 1}
  BY PalpsAppend
<1> HIDE DEF t
<1>2. Pending(rs) = TinySum(rs, Waiting(rs)) /\ Pending(t) = TinySum(t, Waiting(t))
  BY DEF Pending, Waiting
<1>3. Pending(rs) \in Nat
  <2>1. Waiting(rs) \subseteq DOMAIN rs
    BY DEF Waiting
  <2>2. QED
    BY <1>2, <2>1, TinySumType
<1>4. CASE IsTiny(r)
  <2>1. \A j \in PalpableCalls(rs, n) : j \in 1..n
    BY DEF PalpableCalls
  <2>2. 1..(n + 1) = (1..n) \cup {n + 1}
    BY <1>1
  <2>3. Waiting(t) = Waiting(rs) \cup {n + 1}
    BY <1>1, <1>4, <2>1, <2>2 DEF Waiting
  <2>4. TinySum(t, Waiting(rs) \cup {n + 1}) = TinySum(rs, Waiting(rs)) + r.n
    <3>1. Waiting(rs) \subseteq DOMAIN rs
      BY DEF Waiting
    <3>2. TinySum(t, Waiting(rs) \cup {n + 1})
            = TinySum(rs, Waiting(rs)) + IF IsTiny(r) THEN r.n ELSE 0
      BY <3>1, TinySumAppend DEF t
    <3>3. QED
      BY <1>4, <3>2
  <2>5. QED
    BY <1>2, <1>3, <1>4, <2>3, <2>4 DEF t
<1>5. CASE ~IsTiny(r)
  <2>1. n + 1 \in PalpableCalls(t, n + 1)
    BY <1>1, <1>5
  <2>2. Waiting(t) = {}
    BY <1>1, <2>1 DEF Waiting
  <2>3. TinySum(t, {}) = 0
    <3> DEFINE f == [j \in {i \in {} : IsTiny(t[i])} |-> t[j].n]
    <3>1. DOMAIN f = {}
      OBVIOUS
    <3> HIDE DEF f
    <3>2. SumFunctionOnSet(f, DOMAIN f) = 0
      BY <3>1, SumEmpty
    <3>3. QED
      BY <3>2 DEF TinySum, SumFunction, f
  <2>4. QED
    BY <1>2, <1>3, <1>5, <2>2, <2>3 DEF t
<1>6. QED
  BY <1>4, <1>5

-----------------------------------------------------------------------------
(* The deltas of the gradual count *)

Delta == [fruit : BOOLEAN, tiny_droplets : Nat]

\* The position of the k-th palpable object, and the calls its delta takes in.
IsAt(rs, k, i) == i \in PalpableCalls(rs, Len(rs)) /\ Cardinality(PalpableCalls(rs, i)) = k
At(rs, k) == CHOOSE i \in PalpableCalls(rs, Len(rs)) : Cardinality(PalpableCalls(rs, i)) = k
Before(rs, k) == {i \in 1..(At(rs, k) - 1) : Cardinality(PalpableCalls(rs, i)) = k - 1}

\* The deltas, with the names of this module.
LEMMA GradualCountIs ==
  ASSUME NEW rs
  PROVE  GradualCount(rs) = [k \in 1..Palps(rs) |->
           [fruit |-> rs[At(rs, k)] = Fruit, tiny_droplets |-> TinySum(rs, Before(rs, k))]]
BY DEF GradualCount, Palps, At, Before

\* Two palpable objects are not the k-th both.
LEMMA AtUnique ==
  ASSUME NEW rs \in Seq(Record), NEW k, NEW i, NEW j, IsAt(rs, k, i), IsAt(rs, k, j)
  PROVE  ~(i < j)
<1> SUFFICES ASSUME i < j PROVE FALSE
  OBVIOUS
<1>1. i \in Nat /\ j \in Nat /\ i \in 1..Len(rs) /\ j \in 1..Len(rs) /\ Len(rs) \in Nat
      /\ ~IsTiny(rs[j])
  BY LenProperties DEF IsAt, PalpableCalls
<1>2. /\ IsFiniteSet(PalpableCalls(rs, j)) /\ PalpableCalls(rs, i) \subseteq PalpableCalls(rs, j)
  BY <1>1, PalpsFinite
<1>3. Cardinality(PalpableCalls(rs, j)) = Cardinality(PalpableCalls(rs, i))
  BY DEF IsAt
<1>4. PalpableCalls(rs, j) = PalpableCalls(rs, i)
  BY <1>2, <1>3, FS_Subset
<1>5. j \in PalpableCalls(rs, j) /\ j \notin PalpableCalls(rs, i)
  BY <1>1 DEF PalpableCalls
<1>6. QED
  BY <1>4, <1>5

\* At(rs, k) is the one position of the k-th palpable call.
LEMMA AtIs ==
  ASSUME NEW rs \in Seq(Record), NEW k, NEW i, IsAt(rs, k, i)
  PROVE  At(rs, k) = i
<1>1. IsAt(rs, k, At(rs, k))
  BY DEF IsAt, At
<1>2. ~(i < At(rs, k)) /\ ~(At(rs, k) < i)
  BY <1>1, AtUnique
<1>3. i \in Nat /\ At(rs, k) \in Nat
  BY <1>1 DEF IsAt, PalpableCalls
<1>4. QED
  BY <1>2, <1>3

\* The k-th palpable object stays the k-th.
LEMMA IsAtAppend ==
  ASSUME NEW rs \in Seq(Record), NEW r \in Record, NEW k, NEW i, IsAt(rs, k, i)
  PROVE  IsAt(Append(rs, r), k, i)
<1> DEFINE t == Append(rs, r)
           n == Len(rs)
<1>1. /\ Len(t) = n + 1 /\ n \in Nat
      /\ \A j \in 0..n : PalpableCalls(t, j) = PalpableCalls(rs, j)
      /\ PalpableCalls(t, n + 1) =
           IF IsTiny(r) THEN PalpableCalls(rs, n) ELSE PalpableCalls(rs, n) \cup {n + 1}
  BY PalpsAppend
<1> HIDE DEF t
<1>2. i \in 0..n /\ i \in PalpableCalls(rs, n) /\ Cardinality(PalpableCalls(rs, i)) = k
  BY <1>1 DEF IsAt, PalpableCalls
<1>3. i \in PalpableCalls(t, Len(t)) /\ Cardinality(PalpableCalls(t, i)) = k
  BY <1>1, <1>2
<1>4. QED
  BY <1>3 DEF IsAt, t

\* Each of the palpable calls has its position.
LEMMA AtExists ==
  ASSUME NEW rs \in Seq(Record)
  PROVE  \A k \in 1..Palps(rs) : \E i : IsAt(rs, k, i)
<1> DEFINE T == {s \in Seq(Record) : \A k \in 1..Palps(s) : \E i : IsAt(s, k, i)}
<1>1. << >> \in T
  <2>1. Palps(<< >>) = 0
    <3>1. PalpableCalls(<< >>, 0) = {}
      BY DEF PalpableCalls
    <3>2. QED
      BY <3>1, FS_EmptySet DEF Palps
  <2>2. QED
    BY <2>1, EmptySeq
<1>2. ASSUME NEW s \in Seq(Record), NEW r \in Record, s \in T
      PROVE  Append(s, r) \in T
  <2> DEFINE t == Append(s, r)
             n == Len(s)
  <2>1. /\ t \in Seq(Record) /\ Len(t) = n + 1 /\ n \in Nat
        /\ PalpableCalls(t, n + 1) =
             IF IsTiny(r) THEN PalpableCalls(s, n) ELSE PalpableCalls(s, n) \cup {n + 1}
        /\ Palps(s) \in Nat
        /\ Palps(t) = IF IsTiny(r) THEN Palps(s) ELSE Palps(s) + 1
    BY PalpsAppend
  <2>2. ASSUME NEW k \in 1..Palps(s) PROVE \E i : IsAt(t, k, i)
    BY <1>2, IsAtAppend
  <2>3. ASSUME ~IsTiny(r) PROVE IsAt(t, Palps(s) + 1, n + 1)
    <3> HIDE DEF t, n
    <3>1. n + 1 \in PalpableCalls(t, n + 1)
      BY <2>1, <2>3
    <3>2. Cardinality(PalpableCalls(t, n + 1)) = Palps(s) + 1
      BY <2>1, <2>3 DEF Palps
    <3>3. QED
      BY <2>1, <3>1, <3>2 DEF IsAt
  <2> HIDE DEF t
  <2>4. ASSUME NEW k \in 1..Palps(t) PROVE \E i : IsAt(t, k, i)
    <3>1. k \in 1..Palps(s) \/ (~IsTiny(r) /\ k = Palps(s) + 1)
      BY <2>1
    <3>2. QED
      BY <2>2, <2>3, <3>1
  <2>5. QED
    BY <2>1, <2>4 DEF t
<1> HIDE DEF T
<1>3. \A s \in Seq(Record) : s \in T
  BY <1>1, <1>2, SequenceInduction
<1>4. QED
  BY <1>3 DEF T

\* The delta of a palpable object does not change any more ...
LEMMA DeltaStays ==
  ASSUME NEW rs \in Seq(Record), NEW r \in Record, NEW k \in 1..Palps(rs)
  PROVE  /\ At(rs, k) \in 1..Len(rs)
         /\ At(Append(rs, r), k) = At(rs, k)
         /\ Before(rs, k) \subseteq DOMAIN rs
         /\ Before(Append(rs, r), k) = Before(rs, k)
<1> DEFINE t == Append(rs, r)
           n == Len(rs)
<1>1. PICK i : IsAt(rs, k, i)
  BY AtExists
<1>2. IsAt(t, k, i) /\ t \in Seq(Record)
  BY <1>1, IsAtAppend
<1>3. At(rs, k) = i /\ At(t, k) = i
  BY <1>1, <1>2, AtIs
<1>4. i \in 1..n
  BY <1>1 DEF IsAt, PalpableCalls
<1>5. /\ n \in Nat /\ DOMAIN rs = 1..n
      /\ \A j \in 0..n : PalpableCalls(t, j) = PalpableCalls(rs, j)
  BY PalpsAppend
<1> HIDE DEF t
<1>6. \A j \in 1..(i - 1) : j \in 0..n /\ j \in 1..n
  BY <1>4, <1>5
<1>7. Before(t, k) = Before(rs, k) /\ Before(rs, k) \subseteq DOMAIN rs
  BY <1>3, <1>5, <1>6 DEF Before
<1>8. QED
  BY <1>3, <1>4, <1>7 DEF t

\* ... and that of a new one takes in what was waiting.
LEMMA DeltaNew ==
  ASSUME NEW rs \in Seq(Record), NEW r \in Record, ~IsTiny(r)
  PROVE  /\ At(Append(rs, r), Palps(rs) + 1) = Len(rs) + 1
         /\ TinySum(Append(rs, r), Before(Append(rs, r), Palps(rs) + 1)) = Pending(rs)
<1> DEFINE t == Append(rs, r)
           n == Len(rs)
           k == Palps(rs) + 1
           B == Before(t, k)
<1>1. /\ t \in Seq(Record) /\ Len(t) = n + 1 /\ n \in Nat /\ DOMAIN rs = 1..n
      /\ \A j \in 0..n : PalpableCalls(t, j) = PalpableCalls(rs, j)
      /\ \A i \in 1..n : t[i] = rs[i]
      /\ PalpableCalls(t, n + 1) = PalpableCalls(rs, n) \cup {n + 1}
      /\ Palps(rs) \in Nat /\ Palps(t) = Palps(rs) + 1
  BY PalpsAppend
<1> HIDE DEF t
<1>2. IsAt(t, k, n + 1)
  BY <1>1 DEF IsAt, Palps
<1>3. At(t, k) = n + 1
  BY <1>1, <1>2, AtIs
<1>4. B = {i \in 1..n : Cardinality(PalpableCalls(rs, i)) = Palps(rs)}
  <2>1. (n + 1) - 1 = n /\ k - 1 = Palps(rs)
    BY <1>1
  <2>2. \A i \in 1..n : PalpableCalls(t, i) = PalpableCalls(rs, i)
    BY <1>1
  <2>3. B = {i \in 1..((n + 1) - 1) : Cardinality(PalpableCalls(t, i)) = k - 1}
    BY <1>3 DEF Before
  <2> HIDE DEF B, k
  <2>4. QED
    BY <2>1, <2>2, <2>3
<1>5. {i \in B : IsTiny(rs[i])} = {i \in Waiting(rs) : IsTiny(rs[i])}
  <2>1. ASSUME NEW i \in 1..n, IsTiny(rs[i])
        PROVE  Cardinality(PalpableCalls(rs, i)) = Palps(rs)
                 <=> \A j \in PalpableCalls(rs, n) : j < i
    <3>1. /\ IsFiniteSet(PalpableCalls(rs, n))
          /\ PalpableCalls(rs, i) \subseteq PalpableCalls(rs, n)
      BY <1>1, PalpsFinite
    <3>2. Cardinality(PalpableCalls(rs, i)) = Palps(rs)
            <=> PalpableCalls(rs, i) = PalpableCalls(rs, n)
      BY <3>1, FS_Subset DEF Palps
    <3>3. PalpableCalls(rs, i) = PalpableCalls(rs, n)
            <=> \A j \in PalpableCalls(rs, n) : j < i
      BY <1>1, <2>1 DEF PalpableCalls
    <3>4. QED
      BY <3>2, <3>3
  <2>2. Waiting(rs) = {i \in 1..n : \A j \in PalpableCalls(rs, n) : j < i}
    BY <1>1 DEF Waiting
  <2> HIDE DEF B
  <2>3. QED
    BY <1>4, <2>1, <2>2
<1>6. TinySum(rs, B) = Pending(rs)
  <2> HIDE DEF B
  <2>1. QED
    BY <1>5 DEF TinySum, Pending, Waiting
<1>7. TinySum(t, B) = TinySum(rs, B)
  <2>1. B \subseteq DOMAIN rs
    BY <1>1, <1>4
  <2> HIDE DEF B
  <2>2. QED
    BY <2>1, TinySumAppend DEF t
<1>8. QED
  BY <1>3, <1>6, <1>7 DEF t

\* The Gradual count with one more call.
LEMMA GradualAppend ==
  ASSUME NEW rs \in Seq(Record), NEW r \in Record
  PROVE  LET g == GradualCount(rs)
             h == GradualCount(Append(rs, r))
             n == Palps(rs)
         IN  /\ g \in [1..n -> Delta] /\ n \in Nat
             /\ IsTiny(r) => h = g
             /\ ~IsTiny(r) =>
                  h = [k \in 1..(n + 1) |->
                         IF k <= n THEN g[k]
                         ELSE [fruit |-> r = Fruit, tiny_droplets |-> Pending(rs)]]
<1> DEFINE t == Append(rs, r)
           g == GradualCount(rs)
           h == GradualCount(t)
           n == Palps(rs)
           D(s, k) == [fruit |-> s[At(s, k)] = Fruit, tiny_droplets |-> TinySum(s, Before(s, k))]
<1>1. /\ t[Len(rs) + 1] = r /\ \A i \in 1..Len(rs) : t[i] = rs[i]
      /\ n \in Nat /\ Palps(t) = IF IsTiny(r) THEN n ELSE n + 1
  BY PalpsAppend
<1> HIDE DEF t
<1>2. g = [k \in 1..n |-> D(rs, k)] /\ h = [k \in 1..Palps(t) |-> D(t, k)]
  BY GradualCountIs
<1>3. ASSUME NEW k \in 1..n PROVE D(rs, k) \in Delta /\ D(t, k) = D(rs, k)
  <2>1. /\ At(rs, k) \in 1..Len(rs) /\ At(t, k) = At(rs, k)
        /\ Before(rs, k) \subseteq DOMAIN rs /\ Before(t, k) = Before(rs, k)
    BY DeltaStays DEF t
  <2>2. TinySum(t, Before(t, k)) = TinySum(rs, Before(rs, k))
    <3> DEFINE B == Before(rs, k)
    <3>1. B \subseteq DOMAIN rs
      BY <2>1
    <3> HIDE DEF B
    <3>2. TinySum(t, B) = TinySum(rs, B)
      BY <3>1, TinySumAppend DEF t
    <3>3. QED
      BY <2>1, <3>2 DEF B
  <2>3. t[At(t, k)] = rs[At(rs, k)]
    BY <1>1, <2>1
  <2>4. TinySum(rs, Before(rs, k)) \in Nat
    BY <2>1, TinySumType
  <2>5. QED
    BY <2>2, <2>3, <2>4 DEF Delta
<1>4. ~IsTiny(r) => D(t, n + 1) = [fruit |-> r = Fruit, tiny_droplets |-> Pending(rs)]
  BY <1>1, DeltaNew DEF t
<1> HIDE DEF D, g, h, n
<1>5. g \in [1..n -> Delta]
  BY <1>2, <1>3
<1>6. IsTiny(r) => h = g
  BY <1>1, <1>2, <1>3
<1>7. ASSUME ~IsTiny(r)
      PROVE  h = [k \in 1..(n + 1) |-> IF k <= n THEN g[k]
                         ELSE [fruit |-> r = Fruit, tiny_droplets |-> Pending(rs)]]
  <2>1. h = [k \in 1..(n + 1) |-> D(t, k)]
    BY <1>1, <1>2, <1>7
  <2>2. ASSUME NEW k \in 1..(n + 1)
        PROVE  D(t, k) = IF k <= n THEN g[k]
                         ELSE [fruit |-> r = Fruit, tiny_droplets |-> Pending(rs)]
    <3>1. CASE k <= n
      <4>1. k \in 1..n
        BY <1>1, <3>1
      <4>2. g[k] = D(rs, k) /\ D(t, k) = D(rs, k)
        BY <1>2, <1>3, <4>1
      <4>3. QED
        BY <3>1, <4>2
    <3>2. CASE ~(k <= n)
      <4>1. k = n + 1
        BY <1>1, <3>2
      <4>2. QED
        BY <1>4, <1>7, <3>2, <4>1
    <3>3. QED
      BY <3>1, <3>2
  <2>3. QED
    BY <2>1, <2>2
<1>8. QED
  BY <1>1, <1>5, <1>6, <1>7 DEF g, h, n, t

-----------------------------------------------------------------------------
(* Sums of deltas *)

AddCounts(a, b) == [fruits        |-> a.fruits + b.fruits,
                    droplets      |-> a.droplets + b.droplets,
                    tiny_droplets |-> a.tiny_droplets + b.tiny_droplets]

CountOf(d) == [fruits        |-> IF d.fruit THEN 1 ELSE 0,
               droplets      |-> IF d.fruit THEN 0 ELSE 1,
               tiny_droplets |-> d.tiny_droplets]

\* The fields of a sum of deltas.
FruitsOf(g, S) == Cardinality({k \in S : g[k].fruit})
DropletsOf(g, S) == Cardinality({k \in S : ~g[k].fruit})
TinyOf(g, S) == SumFunction([k \in S |-> g[k].tiny_droplets])

\* What the fields of a sum of deltas are sums of.
LEMMA DeltaSums ==
  \A g, S : SumOfDeltas(g, S) = [fruits |-> FruitsOf(g, S), droplets |-> DropletsOf(g, S),
                                 tiny_droplets |-> TinyOf(g, S)]
BY DEF SumOfDeltas, FruitsOf, DropletsOf, TinyOf

\* Tiny droplets over disjoint sets add up.
LEMMA TinyOfUnion ==
  ASSUME NEW S, NEW R, IsFiniteSet(S), IsFiniteSet(R), S \cap R = {}, NEW g,
         \A k \in S \cup R : g[k] \in Delta
  PROVE  /\ TinyOf(g, S) \in Nat
         /\ TinyOf(g, S \cup R) = TinyOf(g, S) + TinyOf(g, R)
<1> DEFINE U == S \cup R
           s == [k \in S |-> g[k].tiny_droplets]
           r == [k \in R |-> g[k].tiny_droplets]
           u == [k \in U |-> g[k].tiny_droplets]
<1>1. /\ TinyOf(g, S) = SumFunctionOnSet(s, S) /\ TinyOf(g, R) = SumFunctionOnSet(r, R)
      /\ TinyOf(g, U) = SumFunctionOnSet(u, U)
  <2>1. DOMAIN s = S /\ DOMAIN r = R /\ DOMAIN u = U
    OBVIOUS
  <2>2. QED
    BY <2>1 DEF TinyOf, SumFunction
<1>2. \A k \in U : u[k] \in Nat
  BY DEF Delta
<1>3. \A k \in S : s[k] = u[k] /\ s[k] \in Nat
  BY <1>2
<1>4. \A k \in R : r[k] = u[k]
  OBVIOUS
<1> HIDE DEF s, r, u
<1>5. SumFunctionOnSet(u, S) = SumFunctionOnSet(s, S)
  BY <1>3, SumSame
<1>6. SumFunctionOnSet(u, R) = SumFunctionOnSet(r, R)
  BY <1>4, SumSame
<1>7. SumFunctionOnSet(u, U) = SumFunctionOnSet(u, S) + SumFunctionOnSet(u, R)
  BY <1>2, SumUnion
<1>8. SumFunctionOnSet(s, S) \in Nat
  BY <1>3, SumType
<1>9. QED
  BY <1>1, <1>5, <1>6, <1>7, <1>8

\* Sums of deltas add up.
LEMMA DeltasUnion ==
  ASSUME NEW S, NEW R, IsFiniteSet(S), IsFiniteSet(R), S \cap R = {}, NEW g,
         \A k \in S \cup R : g[k] \in Delta
  PROVE  /\ SumOfDeltas(g, S) \in CatchCount
         /\ SumOfDeltas(g, S \cup R) = AddCounts(SumOfDeltas(g, S), SumOfDeltas(g, R))
<1> DEFINE F(T) == {k \in T : g[k].fruit}
           D(T) == {k \in T : ~g[k].fruit}
<1>1. /\ IsFiniteSet(F(S)) /\ IsFiniteSet(F(R)) /\ IsFiniteSet(D(S)) /\ IsFiniteSet(D(R))
  BY FS_Subset
<1>2. F(S) \cap F(R) = {} /\ D(S) \cap D(R) = {}
  OBVIOUS
<1>3. F(S \cup R) = F(S) \cup F(R) /\ D(S \cup R) = D(S) \cup D(R)
  OBVIOUS
<1>4. /\ FruitsOf(g, S \cup R) = FruitsOf(g, S) + FruitsOf(g, R)
      /\ DropletsOf(g, S \cup R) = DropletsOf(g, S) + DropletsOf(g, R)
  <2>1. /\ FruitsOf(g, S \cup R) = Cardinality(F(S \cup R))
        /\ FruitsOf(g, S) = Cardinality(F(S)) /\ FruitsOf(g, R) = Cardinality(F(R))
        /\ DropletsOf(g, S \cup R) = Cardinality(D(S \cup R))
        /\ DropletsOf(g, S) = Cardinality(D(S)) /\ DropletsOf(g, R) = Cardinality(D(R))
    BY DEF FruitsOf, DropletsOf
  <2> HIDE DEF F, D
  <2>2. Cardinality(F(S) \cup F(R)) = Cardinality(F(S)) + Cardinality(F(R))
    BY <1>1, <1>2, DisjointUnion
  <2>3. Cardinality(D(S) \cup D(R)) = Cardinality(D(S)) + Cardinality(D(R))
    BY <1>1, <1>2, DisjointUnion
  <2>4. QED
    BY <1>3, <2>1, <2>2, <2>3
<1>5. FruitsOf(g, S) \in Nat /\ DropletsOf(g, S) \in Nat
  BY <1>1, FS_CardinalityType DEF FruitsOf, DropletsOf
<1>6. TinyOf(g, S) \in Nat /\ TinyOf(g, S \cup R) = TinyOf(g, S) + TinyOf(g, R)
  BY TinyOfUnion
<1>7. QED
  BY <1>4, <1>5, <1>6, DeltaSums DEF AddCounts, CatchCount

\* Only the deltas at the positions summed matter.
LEMMA DeltasSame ==
  ASSUME NEW S, IsFiniteSet(S), NEW g, NEW h, \A k \in S : g[k] = h[k]
  PROVE  SumOfDeltas(g, S) = SumOfDeltas(h, S)
<1>1. {k \in S : g[k].fruit} = {k \in S : h[k].fruit}
      /\ {k \in S : ~g[k].fruit} = {k \in S : ~h[k].fruit}
  OBVIOUS
<1>2. [k \in S |-> g[k].tiny_droplets] = [k \in S |-> h[k].tiny_droplets]
  OBVIOUS
<1>3. QED
  BY <1>1, <1>2 DEF SumOfDeltas

\* No deltas, no count.
LEMMA DeltasEmpty == \A g : SumOfDeltas(g, {}) = NoCount
<1> SUFFICES ASSUME NEW g PROVE SumOfDeltas(g, {}) = NoCount
  OBVIOUS
<1> DEFINE f == [k \in {} |-> g[k].tiny_droplets]
<1>1. DOMAIN f = {}
  OBVIOUS
<1> HIDE DEF f
<1>2. SumFunctionOnSet(f, DOMAIN f) = 0
  BY <1>1, SumEmpty
<1>3. {k \in {} : g[k].fruit} = {} /\ {k \in {} : ~g[k].fruit} = {}
  OBVIOUS
<1>4. TinyOf(g, {}) = 0
  BY <1>2 DEF TinyOf, SumFunction, f
<1>5. FruitsOf(g, {}) = 0 /\ DropletsOf(g, {}) = 0
  BY <1>3, FS_EmptySet DEF FruitsOf, DropletsOf
<1>6. QED
  BY <1>4, <1>5, DeltaSums DEF NoCount

\* The sum of one delta is its count.
LEMMA DeltasOne ==
  ASSUME NEW g, NEW k, g[k] \in Delta
  PROVE  SumOfDeltas(g, {k}) = CountOf(g[k])
<1> DEFINE f == [j \in {k} |-> g[j].tiny_droplets]
<1>1. DOMAIN f = {k} /\ f[k] = g[k].tiny_droplets /\ f[k] \in Nat
  BY DEF Delta
<1> HIDE DEF f
<1>2. SumFunctionOnSet(f, {k}) = f[k]
  <2>1. IsFiniteSet({k}) /\ {k} \ {k} = {} /\ \A x \in {k} : f[x] \in Nat
    BY <1>1, FS_Singleton
  <2>2. SumFunctionOnSet(f, {k}) = f[k] + SumFunctionOnSet(f, {k} \ {k})
    BY <2>1, SumRemove
  <2>3. SumFunctionOnSet(f, {k} \ {k}) = 0
    BY <2>1, SumEmpty
  <2>4. QED
    BY <1>1, <2>2, <2>3
<1>3. TinyOf(g, {k}) = g[k].tiny_droplets
  BY <1>1, <1>2 DEF TinyOf, SumFunction, f
<1>4. FruitsOf(g, {k}) = IF g[k].fruit THEN 1 ELSE 0
  <2>1. {j \in {k} : g[j].fruit} = IF g[k].fruit THEN {k} ELSE {}
    OBVIOUS
  <2>2. QED
    BY <2>1, FS_EmptySet, FS_Singleton DEF FruitsOf
<1>5. DropletsOf(g, {k}) = IF g[k].fruit THEN 0 ELSE 1
  <2>1. {j \in {k} : ~g[j].fruit} = IF g[k].fruit THEN {} ELSE {k}
    OBVIOUS
  <2>2. QED
    BY <2>1, FS_EmptySet, FS_Singleton DEF DropletsOf
<1>6. QED
  BY <1>3, <1>4, <1>5, DeltaSums DEF CountOf

WithTiny(c, n) == [c EXCEPT !.tiny_droplets = @ + n]

\* Nothing is counted before the first call.
LEMMA CountsEmpty ==
  ASSUME NEW take \in Nat
  PROVE  /\ Palps(<< >>) = 0 /\ Pending(<< >>) = 0 /\ GradualCount(<< >>) = << >>
         /\ RegularCount(<< >>, take) = NoCount
<1>1. Palps(<< >>) = 0
  <2>1. PalpableCalls(<< >>, 0) = {}
    BY DEF PalpableCalls
  <2>2. QED
    BY <2>1, FS_EmptySet DEF Palps
<1>2. TinySum(<< >>, {}) = 0
  <2> DEFINE f == [j \in {i \in {} : IsTiny(<< >>[i])} |-> << >>[j].n]
  <2>1. DOMAIN f = {}
    OBVIOUS
  <2> HIDE DEF f
  <2>2. SumFunctionOnSet(f, DOMAIN f) = 0
    BY <2>1, SumEmpty
  <2>3. QED
    BY <2>2 DEF TinySum, SumFunction, f
<1>3. Pending(<< >>) = 0
  <2>1. {i \in DOMAIN << >> : \A j \in PalpableCalls(<< >>, Len(<< >>)) : j < i} = {}
    OBVIOUS
  <2>2. QED
    BY <1>2, <2>1 DEF Pending
<1>4. RegularCount(<< >>, take) = NoCount
  <2>1. {i \in DOMAIN << >> : Cardinality(PalpableCalls(<< >>, i - 1)) < take} = {}
    OBVIOUS
  <2>2. {i \in {} : << >>[i] = Fruit} = {} /\ {i \in {} : << >>[i] = Droplet} = {}
    OBVIOUS
  <2>3. QED
    BY <1>2, <2>1, <2>2, FS_EmptySet DEF RegularCount, NoCount
<1>5. GradualCount(<< >>) = << >>
  BY <1>1, GradualCountIs
<1>6. QED
  BY <1>1, <1>3, <1>4, <1>5

\* The builders agree: the first `take` deltas are what is counted for `take` palpable
\* objects; past the last of them, the tiny droplets that wait are counted as well.
LEMMA CountsOfPrefix ==
  ASSUME NEW rs \in Seq(Record), NEW take \in Nat
  PROVE  RegularCount(rs, take) =
           IF take <= Palps(rs) THEN SumOfDeltas(GradualCount(rs), 1..take)
           ELSE WithTiny(SumOfDeltas(GradualCount(rs), 1..Palps(rs)), Pending(rs))
<1> DEFINE Agree(s) == RegularCount(s, take) =
                         IF take <= Palps(s) THEN SumOfDeltas(GradualCount(s), 1..take)
                         ELSE WithTiny(SumOfDeltas(GradualCount(s), 1..Palps(s)), Pending(s))
           T == {s \in Seq(Record) : Agree(s)}
<1>1. << >> \in T
  <2>1. WithTiny(NoCount, 0) = NoCount
    BY DEF WithTiny, NoCount
  <2>2. /\ Palps(<< >>) = 0 /\ Pending(<< >>) = 0 /\ GradualCount(<< >>) = << >>
        /\ RegularCount(<< >>, take) = NoCount
    BY CountsEmpty
  <2>3. take <= 0 => 1..take = {}
    OBVIOUS
  <2>4. Agree(<< >>)
    BY <2>1, <2>2, <2>3, DeltasEmpty
  <2>5. QED
    BY <2>4, EmptySeq
<1>2. ASSUME NEW s \in Seq(Record), NEW r \in Record, s \in T
      PROVE  Append(s, r) \in T
  <2> DEFINE t == Append(s, r)
             n == Palps(s)
             g == GradualCount(s)
             h == GradualCount(t)
             p == Pending(s)
             a == SumOfDeltas(g, 1..n)
             c == RegularCount(s, take)
  <2>1. t \in Seq(Record) /\ n \in Nat /\ Palps(t) = IF IsTiny(r) THEN n ELSE n + 1
    BY PalpsAppend
  <2>2. /\ p \in Nat /\ Pending(t) = IF IsTiny(r) THEN p + r.n ELSE 0
    BY PendingAppend
  <2>3. /\ c \in CatchCount
        /\ RegularCount(t, take) = IF n < take THEN Counting(c, r) ELSE c
    BY RegularAppend
  <2>4. /\ g \in [1..n -> Delta]
        /\ IsTiny(r) => h = g
        /\ ~IsTiny(r) => h = [k \in 1..(n + 1) |->
             IF k <= n THEN g[k] ELSE [fruit |-> r = Fruit, tiny_droplets |-> p]]
    BY GradualAppend
  <2>5. c = IF take <= n THEN SumOfDeltas(g, 1..take) ELSE WithTiny(a, p)
    BY <1>2
  <2>6. IsFiniteSet(1..n) /\ IsFiniteSet(1..take)
    BY <2>1, IntervalFinite
  <2> HIDE DEF t, n, g, h, p, a, c
  <2>7. a \in CatchCount
    <3>1. IsFiniteSet({}) /\ (1..n) \cap {} = {} /\ (1..n) \cup {} = 1..n
      BY FS_EmptySet
    <3>2. \A k \in 1..n : g[k] \in Delta
      BY <2>4
    <3>3. QED
      BY <2>6, <3>1, <3>2, DeltasUnion DEF a
  <2>8. CASE IsTiny(r)
    <3>1. h = g /\ Palps(t) = n /\ Pending(t) = p + r.n /\ r.n \in Nat
          /\ r # Fruit /\ r # Droplet
      BY <2>1, <2>2, <2>4, <2>8, RecordTypes
    <3>2. ~(take <= n) => Counting(WithTiny(a, p), r) = WithTiny(a, p + r.n)
      BY <2>2, <2>7, <2>8, <3>1 DEF Counting, WithTiny, CatchCount
    <3>3. (take <= n) <=> ~(n < take)
      BY <2>1
    <3>4. RegularCount(t, take) = IF take <= n THEN SumOfDeltas(h, 1..take)
                                  ELSE WithTiny(SumOfDeltas(h, 1..n), p + r.n)
      BY <2>3, <2>5, <3>1, <3>2, <3>3 DEF a
    <3>5. QED
      BY <2>1, <3>1, <3>4 DEF t, h
  <2>9. CASE ~IsTiny(r)
    <3> DEFINE d == [fruit |-> r = Fruit, tiny_droplets |-> p]
    <3>1. /\ h = [k \in 1..(n + 1) |-> IF k <= n THEN g[k] ELSE d]
          /\ Palps(t) = n + 1 /\ Pending(t) = 0
          /\ (r = Fruit \/ r = Droplet) /\ Fruit # Droplet
      BY <2>1, <2>2, <2>4, <2>9, RecordTypes
    <3>2. d \in Delta
      BY <2>2 DEF Delta
    <3> HIDE DEF d
    <3>3. \A k \in 1..n : h[k] = g[k] /\ h[k] \in Delta
      BY <2>1, <2>4, <3>1
    <3>4. h[n + 1] = d
      BY <2>1, <3>1
    <3>5. SumOfDeltas(h, 1..n) = a
      BY <2>6, <3>3, DeltasSame DEF a
    <3>6. SumOfDeltas(h, 1..(n + 1)) = AddCounts(a, CountOf(d))
      <4>1. (1..n) \cup {n + 1} = 1..(n + 1) /\ (1..n) \cap {n + 1} = {}
        BY <2>1
      <4>2. IsFiniteSet({n + 1}) /\ \A k \in (1..n) \cup {n + 1} : h[k] \in Delta
        BY <3>2, <3>3, <3>4, FS_Singleton
      <4>3. SumOfDeltas(h, (1..n) \cup {n + 1})
              = AddCounts(SumOfDeltas(h, 1..n), SumOfDeltas(h, {n + 1}))
        BY <2>6, <4>1, <4>2, DeltasUnion
      <4>4. SumOfDeltas(h, {n + 1}) = CountOf(d)
        BY <3>2, <3>4, DeltasOne
      <4>5. QED
        BY <3>5, <4>1, <4>3, <4>4
    <3>7. CASE take <= n
      <4>1. SumOfDeltas(h, 1..take) = SumOfDeltas(g, 1..take)
        <5>1. \A k \in 1..take : h[k] = g[k]
          BY <2>1, <3>3, <3>7
        <5>2. QED
          BY <2>6, <5>1, DeltasSame
      <4>2. take <= n + 1 /\ ~(n < take)
        BY <2>1, <3>7
      <4>3. RegularCount(t, take) = SumOfDeltas(h, 1..take)
        BY <2>3, <2>5, <3>7, <4>1, <4>2
      <4>4. QED
        BY <2>1, <3>1, <4>2, <4>3 DEF t, h
    <3>8. CASE ~(take <= n)
      <4>1. n < take /\ ((take <= n + 1) => take = n + 1)
        BY <2>1, <3>8
      <4>2. RegularCount(t, take) = Counting(WithTiny(a, p), r)
        BY <2>3, <2>5, <3>8, <4>1
      <4>3. d.fruit = (r = Fruit) /\ d.tiny_droplets = p
        BY DEF d
      <4>4. Counting(WithTiny(a, p), r) = AddCounts(a, CountOf(d))
        <5>1. a.fruits \in Nat /\ a.droplets \in Nat /\ a.tiny_droplets \in Nat /\ p \in Nat
          BY <2>2, <2>7 DEF CatchCount
        <5>2. WithTiny(a, p) = [fruits |-> a.fruits, droplets |-> a.droplets,
                                tiny_droplets |-> a.tiny_droplets + p]
          BY <2>7 DEF WithTiny, CatchCount
        <5>3. CASE r = Fruit
          <6>1. d.fruit /\ r # Droplet
            BY <3>1, <5>3 DEF d
          <6>2. CountOf(d) = [fruits |-> 1, droplets |-> 0, tiny_droplets |-> p]
            BY <4>3, <6>1 DEF CountOf
          <6>3. QED
            BY <2>9, <5>1, <5>2, <5>3, <6>1, <6>2 DEF Counting, AddCounts
        <5>4. CASE r = Droplet
          <6>1. ~d.fruit /\ r # Fruit
            BY <3>1, <5>4 DEF d
          <6>2. CountOf(d) = [fruits |-> 0, droplets |-> 1, tiny_droplets |-> p]
            BY <4>3, <6>1 DEF CountOf
          <6>3. QED
            BY <2>9, <5>1, <5>2, <5>4, <6>1, <6>2 DEF Counting, AddCounts
        <5>5. QED
          BY <3>1, <5>3, <5>4
      <4>5. RegularCount(t, take) = SumOfDeltas(h, 1..(n + 1))
        BY <3>6, <4>2, <4>4
      <4>6. WithTiny(SumOfDeltas(h, 1..(n + 1)), 0) = SumOfDeltas(h, 1..(n + 1))
        BY <2>2, <2>7, <3>6, <4>3 DEF WithTiny, AddCounts, CountOf, CatchCount
      <4>7. Agree(t)
        BY <3>1, <4>1, <4>5, <4>6 DEF h
      <4>8. QED
        BY <2>1, <4>7 DEF t
    <3>9. QED
      BY <3>7, <3>8
  <2>10. QED
    BY <2>8, <2>9
<1> HIDE DEF T
<1>3. \A s \in Seq(Record) : s \in T
  BY <1>1, <1>2, SequenceInduction
<1>4. QED
  BY <1>3 DEF T

-----------------------------------------------------------------------------
(* Tiny droplets *)

\* The parts a gap is cut into are found by doubling their number.
Doubling(gap, f) == f = [p \in 1..gap |-> IF gap <= 100 * p THEN p ELSE f[2 * p]]

LEMMA DoublingExists ==
  ASSUME NEW gap \in Nat
  PROVE  \E f \in [1..gap -> Nat \ {0}] : Doubling(gap, f)
<1> DEFINE Highest(n) == (gap - n + 1)..gap
           Up(n, f) == \A p \in Highest(n) : f[p] = IF gap <= 100 * p THEN p ELSE f[2 * p]
           U == {n \in Nat : n <= gap => \E f \in [Highest(n) -> Nat \ {0}] : Up(n, f)}
<1>1. 0 \in U
  <2> DEFINE f == [p \in Highest(0) |-> 1]
  <2>1. Highest(0) = {}
    OBVIOUS
  <2>2. f \in [Highest(0) -> Nat \ {0}] /\ Up(0, f)
    BY <2>1
  <2>3. QED
    BY <2>2
<1>2. ASSUME NEW n \in Nat, n \in U PROVE n + 1 \in U
  <2> SUFFICES ASSUME n + 1 <= gap PROVE \E g \in [Highest(n + 1) -> Nat \ {0}] : Up(n + 1, g)
    OBVIOUS
  <2>1. PICK f \in [Highest(n) -> Nat \ {0}] : Up(n, f)
    BY <1>2
  <2> DEFINE m == gap - n
             v == IF gap <= 100 * m THEN m ELSE f[2 * m]
             g == [p \in Highest(n + 1) |-> IF p = m THEN v ELSE f[p]]
  <2>2. /\ m \in Nat \ {0} /\ m \in Highest(n + 1)
        /\ \A p \in Highest(n + 1) : p = m \/ p \in Highest(n)
        /\ \A p \in Highest(n) : p # m /\ p \in Highest(n + 1) /\ p \in Nat
    OBVIOUS
  <2>3. ASSUME NEW p \in Highest(n + 1), ~(gap <= 100 * p)
        PROVE  2 * p \in Highest(n)
    <3>1. p \in Int /\ p >= gap - n /\ p <= gap /\ p >= 1
      OBVIOUS
    <3>2. 2 * p >= gap - n + 1 /\ 2 * p <= gap
      BY <3>1, <2>3
    <3>3. QED
      BY <3>1, <3>2
  <2> HIDE DEF m, Highest
  <2>4. v \in Nat \ {0}
    BY <2>2, <2>3
  <2>5. g \in [Highest(n + 1) -> Nat \ {0}]
    BY <2>2, <2>4
  <2>6. \A p \in Highest(n) : g[p] = f[p]
    BY <2>2
  <2>7. g[m] = v
    BY <2>2
  <2> HIDE DEF g
  <2>8. \A p \in Highest(n + 1) : g[p] = IF gap <= 100 * p THEN p ELSE g[2 * p]
    BY <2>1, <2>2, <2>3, <2>6, <2>7
  <2>9. QED
    BY <2>5, <2>8
<1> HIDE DEF U
<1>3. \A n \in Nat : n \in U
  BY <1>1, <1>2, NatInd
<1>4. gap \in U /\ Highest(gap) = 1..gap
  BY <1>3
<1>5. PICK f \in [1..gap -> Nat \ {0}] : Up(gap, f)
  BY <1>4 DEF U
<1>6. f = [p \in 1..gap |-> f[p]]
  OBVIOUS
<1>7. [p \in 1..gap |-> f[p]] = [p \in 1..gap |-> IF gap <= 100 * p THEN p ELSE f[2 * p]]
  BY <1>4, <1>5
<1>8. Doubling(gap, f)
  BY <1>6, <1>7 DEF Doubling
<1>9. QED
  BY <1>8

\* The value at each place is a number, whichever such function it is.
LEMMA DoublingType ==
  ASSUME NEW gap \in Nat, NEW f, Doubling(gap, f)
  PROVE  \A p \in 1..gap : f[p] \in Nat \ {0}
<1> DEFINE U == {n \in Nat : \A p \in (gap - n + 1)..gap : p \in 1..gap => f[p] \in Nat \ {0}}
<1>1. \A p \in 1..gap : f[p] = IF gap <= 100 * p THEN p ELSE f[2 * p]
  BY Zenon DEF Doubling
<1>2. 0 \in U
  OBVIOUS
<1>3. ASSUME NEW n \in Nat, n \in U PROVE n + 1 \in U
  <2> SUFFICES ASSUME NEW p \in (gap - (n + 1) + 1)..gap, p \in 1..gap PROVE f[p] \in Nat \ {0}
    OBVIOUS
  <2>1. CASE gap <= 100 * p
    BY <1>1, <2>1
  <2>2. CASE ~(gap <= 100 * p)
    <3>1. 2 * p \in (gap - n + 1)..gap /\ 2 * p \in 1..gap
      BY <2>2
    <3>2. f[2 * p] \in Nat \ {0}
      BY <1>3, <3>1
    <3>3. QED
      BY <1>1, <2>2, <3>2
  <2>3. QED
    BY <2>1, <2>2
<1> HIDE DEF U
<1>4. \A n \in Nat : n \in U
  BY <1>2, <1>3, NatInd
<1>5. gap \in U
  BY <1>4
<1>6. QED
  BY <1>5 DEF U

\* There are no fewer than zero tiny droplets in a gap.
LEMMA TinyDropletsType ==
  ASSUME NEW gap \in Int
  PROVE  TinyDroplets(gap) \in Nat
<1>1. CASE gap <= 80
  BY <1>1 DEF TinyDroplets
<1>2. CASE ~(gap <= 80)
  <2> DEFINE f == CHOOSE f : Doubling(gap, f)
  <2>1. gap \in Nat /\ 1 \in 1..gap
    BY <1>2
  <2>2. Doubling(gap, f)
    BY <2>1, DoublingExists
  <2> HIDE DEF f
  <2>3. f[1] \in Nat \ {0}
    BY <2>1, <2>2, DoublingType
  <2>4. TinyDroplets(gap) = f[1] - 1
    BY <1>2, Zenon DEF TinyDroplets, f, Doubling
  <2>5. QED
    BY <2>3, <2>4
<1>3. QED
  BY <1>1, <1>2

-----------------------------------------------------------------------------
(* The records and the palpable objects of a map *)

\* What AnyGradual assumes of its constants: every list of slider events ends in a
\* palpable one, the tail of the slider.
Given == /\ Maps \subseteq Seq(Seq(Event)) /\ MaxCall \in Nat
         /\ \A m \in Maps : \A i \in DOMAIN m : m[i] # << >> => Palpable(m[i][Len(m[i])])
         /\ None \notin [count : CatchCount, seen : Seq(Nat)]

\* Palpable objects of two lists of calls add up.
LEMMA PalpsConcat ==
  ASSUME NEW rs \in Seq(Record), NEW xs \in Seq(Record)
  PROVE  /\ rs \o xs \in Seq(Record)
         /\ Palps(rs \o xs) = Palps(rs) + Palps(xs)
         /\ Palps(rs) \in Nat /\ Palps(xs) \in Nat
<1> DEFINE T == {s \in Seq(Record) : rs \o s \in Seq(Record)
                                      /\ Palps(rs \o s) = Palps(rs) + Palps(s)}
<1>1. << >> \in T
  <2>1. rs \o << >> = rs /\ << >> \in Seq(Record)
    BY ConcatEmptySeq
  <2>2. Palps(<< >>) = 0 /\ Palps(rs) \in Nat
    <3>1. 0 \in Nat /\ Fruit \in Record
      BY RecordTypes
    <3>2. QED
      BY <3>1, CountsEmpty, PalpsAppend
  <2>3. QED
    BY <2>1, <2>2
<1>2. ASSUME NEW s \in Seq(Record), NEW r \in Record, s \in T PROVE Append(s, r) \in T
  <2>1. rs \o s \in Seq(Record) /\ Palps(rs \o s) = Palps(rs) + Palps(s)
    BY <1>2
  <2>2. rs \o Append(s, r) = Append(rs \o s, r)
    BY <1>2, AppendIsConcat, ConcatAssociative
  <2>3. /\ Palps(Append(s, r)) = IF IsTiny(r) THEN Palps(s) ELSE Palps(s) + 1
        /\ Append(s, r) \in Seq(Record) /\ Palps(s) \in Nat
    BY PalpsAppend
  <2>4. /\ Palps(Append(rs \o s, r)) = IF IsTiny(r) THEN Palps(rs \o s) ELSE Palps(rs \o s) + 1
        /\ Append(rs \o s, r) \in Seq(Record)
    BY <2>1, PalpsAppend
  <2>5. Palps(rs) \in Nat
    BY RecordTypes, PalpsAppend
  <2>6. Palps(Append(rs \o s, r)) = Palps(rs) + Palps(Append(s, r))
    BY <2>1, <2>3, <2>4, <2>5
  <2> QED
    BY <2>2, <2>3, <2>4, <2>6
<1>3. xs \in T
  <2> HIDE DEF T
  <2>1. QED
    BY <1>1, <1>2, SequenceInduction
<1>4. Palps(rs) \in Nat /\ Palps(xs) \in Nat
  BY RecordTypes, PalpsAppend
<1>5. QED
  BY <1>3, <1>4

\* No tiny droplet waits after a palpable object.
Closed(rs) == rs = << >> \/ ~IsTiny(rs[Len(rs)])

LEMMA ClosedConcat ==
  ASSUME NEW rs \in Seq(Record), NEW xs \in Seq(Record), Closed(rs), Closed(xs)
  PROVE  Closed(rs \o xs)
<1>1. CASE xs = << >>
  BY <1>1, ConcatEmptySeq
<1>2. CASE xs # << >>
  <2>1. Len(rs \o xs) = Len(rs) + Len(xs) /\ (rs \o xs)[Len(rs) + Len(xs)] = xs[Len(xs)]
    BY <1>2, ConcatProperties, LenProperties, EmptySeq
  <2>2. QED
    BY <1>2, <2>1 DEF Closed
<1>3. QED
  BY <1>1, <1>2

LEMMA ClosedPends ==
  ASSUME NEW rs \in Seq(Record), Closed(rs)
  PROVE  Pending(rs) = 0
<1> DEFINE T == {s \in Seq(Record) : Closed(s) => Pending(s) = 0}
<1>1. << >> \in T
  <2>1. << >> \in Seq(Record) /\ 0 \in Nat
    OBVIOUS
  <2>2. QED
    BY <2>1, CountsEmpty
<1>2. ASSUME NEW s \in Seq(Record), NEW r \in Record, s \in T PROVE Append(s, r) \in T
  <2>1. Pending(Append(s, r)) = IF IsTiny(r) THEN Pending(s) + r.n ELSE 0
    BY PendingAppend
  <2>2. /\ Append(s, r) \in Seq(Record) /\ Append(s, r) # << >>
        /\ Append(s, r)[Len(Append(s, r))] = r
    BY PalpsAppend, AppendProperties
  <2>3. QED
    BY <2>1, <2>2 DEF Closed
<1>3. rs \in T
  <2> HIDE DEF T
  <2>1. QED
    BY <1>1, <1>2, SequenceInduction
<1>4. QED
  BY <1>3

\* The calls an event makes after those before it.
StreamPiece(es, i) ==
  (IF i = 1 THEN << >> ELSE <<Tiny(TinyDroplets(es[i].time - es[i - 1].time))>>)
    \o RecordEvent(es[i])
PalpPiece(e) == IF Palpable(e) THEN <<e>> ELSE << >>

LEMMA StreamPieceIs ==
  ASSUME NEW es \in Seq(Event), NEW i \in 1..Len(es)
  PROVE  /\ StreamPiece(es, i) \in Seq(Record)
         /\ Palps(StreamPiece(es, i)) = Len(PalpPiece(es[i])) /\ Len(PalpPiece(es[i])) \in Nat
         /\ PalpPiece(es[i]) \in Seq(Event)
         /\ Palpable(es[i]) => Closed(StreamPiece(es, i)) /\ StreamPiece(es, i) # << >>
<1> DEFINE a == IF i = 1 THEN << >> ELSE <<Tiny(TinyDroplets(es[i].time - es[i - 1].time))>>
           e == es[i]
<1>1. Len(es) \in Nat /\ e \in Event
  OBVIOUS
<1>2. a \in Seq(Record) /\ Palps(a) = 0
  <2>1. CASE i = 1
    <3>1. a = << >> /\ 0 \in Nat
      BY <2>1
    <3>2. QED
      BY <3>1, CountsEmpty
  <2>2. CASE i # 1
    <3> DEFINE x == Tiny(TinyDroplets(es[i].time - es[i - 1].time))
    <3>1. es[i].time - es[i - 1].time \in Int
      <4>1. es[i] \in Event /\ es[i - 1] \in Event
        BY <2>2
      <4>2. QED
        BY <4>1 DEF Event
    <3>2. x \in Record /\ IsTiny(x)
      BY <3>1, TinyDropletsType, RecordTypes
    <3> HIDE DEF x
    <3>3. a = <<x>>
      BY <2>2 DEF x
    <3>4. << >> \in Seq(Record) /\ <<x>> = Append(<< >>, x) /\ 0 \in Nat
      OBVIOUS
    <3>5. Palps(<< >>) = 0
      BY <3>4, CountsEmpty
    <3>6. Append(<< >>, x) \in Seq(Record) /\ Palps(Append(<< >>, x)) = 0
      BY <3>2, <3>4, <3>5, PalpsAppend
    <3>7. QED
      BY <3>3, <3>4, <3>6
  <2>3. QED
    BY <2>1, <2>2
<1> HIDE DEF a
<1>3. StreamPiece(es, i) = a \o RecordEvent(e)
  BY DEF StreamPiece, a
<1>4. CASE ~Palpable(e)
  <2>1. RecordEvent(e) = << >> /\ PalpPiece(e) = << >>
    BY <1>4 DEF RecordEvent, PalpPiece
  <2>2. a \o << >> = a
    BY <1>2, ConcatEmptySeq
  <2>3. QED
    BY <1>2, <1>3, <1>4, <2>1, <2>2
<1>5. CASE Palpable(e)
  <2> DEFINE r == IF IsFruit(e) THEN Fruit ELSE Droplet
  <2>1. RecordEvent(e) = <<r>> /\ PalpPiece(e) = <<e>>
    BY <1>5 DEF RecordEvent, PalpPiece
  <2>2. r \in Record /\ ~IsTiny(r)
    BY RecordTypes
  <2> HIDE DEF r, e
  <2>3. a \o <<r>> = Append(a, r)
    BY <1>2, <2>2, AppendIsConcat
  <2>4. Append(a, r) \in Seq(Record) /\ Palps(Append(a, r)) = 0 + 1
        /\ Append(a, r) # << >> /\ Append(a, r)[Len(Append(a, r))] = r
    <3>1. Append(a, r) \in Seq(Record) /\ Palps(Append(a, r)) = 0 + 1
      BY <1>2, <2>2, PalpsAppend
    <3>2. Append(a, r) # << >> /\ Append(a, r)[Len(Append(a, r))] = r
      BY <1>2, <2>2, AppendProperties
    <3>3. QED
      BY <3>1, <3>2
  <2>5. Closed(Append(a, r))
    BY <2>2, <2>4 DEF Closed
  <2>6. <<e>> \in Seq(Event) /\ Len(<<e>>) = 1
    BY <1>1
  <2>7. QED
    <3>1. StreamPiece(es, i) = Append(a, r)
      BY <1>3, <2>1, <2>3
    <3>2. PalpPiece(es[i]) = <<e>>
      BY <2>1 DEF e
    <3>3. QED
      BY <2>4, <2>5, <2>6, <3>1, <3>2
<1>6. QED
  BY <1>4, <1>5

\* The calls and the palpable objects of one list of events.
LEMMA StreamIs ==
  ASSUME NEW es \in Seq(Event)
  PROVE  /\ RecordStream(es) \in Seq(Record) /\ PalpablesOf(es) \in Seq(Event)
         /\ Palps(RecordStream(es)) = Len(PalpablesOf(es))
         /\ es # << >> /\ Palpable(es[Len(es)]) => Closed(RecordStream(es))
<1> DEFINE P(s) == [i \in DOMAIN s |-> StreamPiece(s, i)]
           Q(s) == [i \in DOMAIN s |-> PalpPiece(s[i])]
           T == {s \in Seq(Event) :
                   /\ RecordStream(s) \in Seq(Record) /\ PalpablesOf(s) \in Seq(Event)
                   /\ Palps(RecordStream(s)) = Len(PalpablesOf(s))
                   /\ s # << >> /\ Palpable(s[Len(s)]) => Closed(RecordStream(s))}
<1>1. \A s : RecordStream(s) = FlattenSeq(P(s)) /\ PalpablesOf(s) = FlattenSeq(Q(s))
  BY DEF RecordStream, StreamPiece, PalpablesOf, PalpPiece
<1>2. ASSUME NEW s \in Seq(Event)
      PROVE  /\ P(s) \in Seq(Seq(Record)) /\ Len(P(s)) = Len(s)
             /\ Q(s) \in Seq(Seq(Event)) /\ Len(Q(s)) = Len(s)
  <2>1. Len(s) \in Nat /\ DOMAIN s = 1..Len(s)
    BY <1>2, LenProperties
  <2>2. \A i \in 1..Len(s) : StreamPiece(s, i) \in Seq(Record) /\ PalpPiece(s[i]) \in Seq(Event)
    BY <1>2, StreamPieceIs
  <2>3. QED
    BY <2>1, <2>2
<1>3. << >> \in T
  <2>1. P(<< >>) = << >> /\ Q(<< >>) = << >>
    OBVIOUS
  <2>2. RecordStream(<< >>) = << >> /\ PalpablesOf(<< >>) = << >>
    BY <1>1, <2>1, FlattenEmpty
  <2>3. 0 \in Nat /\ << >> \in Seq(Event) /\ << >> \in Seq(Record) /\ Len(<< >>) = 0
    OBVIOUS
  <2>4. Palps(<< >>) = 0
    BY <2>3, CountsEmpty
  <2>5. QED
    BY <2>2, <2>3, <2>4
<1>4. ASSUME NEW s \in Seq(Event), NEW e \in Event, s \in T PROVE Append(s, e) \in T
  <2> DEFINE t == Append(s, e)
             n == Len(s) + 1
             x == StreamPiece(t, n)
             y == PalpPiece(t[n])
  <2>1. /\ t \in Seq(Event) /\ Len(t) = n /\ n \in Nat /\ Len(s) \in Nat
        /\ \A i \in 1..Len(s) : t[i] = s[i]
        /\ t # << >> /\ DOMAIN t = 1..n /\ n \in 1..n /\ DOMAIN s = 1..Len(s)
        /\ n = Len(s) + 1
    BY <1>4, AppendProperties, LenProperties
  <2> HIDE DEF t, n
  <2>2. /\ x \in Seq(Record) /\ Palps(x) = Len(y) /\ Len(y) \in Nat /\ y \in Seq(Event)
        /\ Palpable(t[n]) => Closed(x) /\ x # << >>
    BY <2>1, StreamPieceIs
  <2> HIDE DEF x, y
  <2>3. \A i \in 1..Len(s) : StreamPiece(t, i) = StreamPiece(s, i) /\ PalpPiece(t[i]) = PalpPiece(s[i])
    <3> SUFFICES ASSUME NEW i \in 1..Len(s)
                 PROVE  StreamPiece(t, i) = StreamPiece(s, i) /\ PalpPiece(t[i]) = PalpPiece(s[i])
      OBVIOUS
    <3>1. t[i] = s[i]
      BY <2>1
    <3>2. i # 1 => t[i - 1] = s[i - 1]
      <4>1. i # 1 => i - 1 \in 1..Len(s)
        BY <2>1
      <4>2. QED
        BY <2>1, <4>1
    <3>3. QED
      BY <3>1, <3>2, Zenon DEF StreamPiece
  <2>4. P(t) = Append(P(s), x) /\ Q(t) = Append(Q(s), y)
    <3>1. /\ P(s) \in Seq(Seq(Record)) /\ Len(P(s)) = Len(s)
          /\ Q(s) \in Seq(Seq(Event)) /\ Len(Q(s)) = Len(s)
          /\ P(t) \in Seq(Seq(Record)) /\ Len(P(t)) = n
          /\ Q(t) \in Seq(Seq(Event)) /\ Len(Q(t)) = n
      BY <1>2, <2>1
    <3>2. \A i \in 1..Len(s) : P(t)[i] = P(s)[i] /\ Q(t)[i] = Q(s)[i]
      <4>1. \A i \in 1..Len(s) : i \in DOMAIN s /\ i \in DOMAIN t
        <5>1. \A i \in 1..Len(s) : i \in 1..n
          BY <2>1
        <5>2. QED
          BY <2>1, <5>1, Zenon
      <4> HIDE DEF T
      <4>2. QED
        BY <2>3, <4>1
    <3>3. P(t)[n] = x /\ Q(t)[n] = y
      BY <2>1 DEF x, y
    <3> HIDE DEF P, Q
    <3>4. P(t) = Append(P(s), x)
      <4>1. /\ Append(P(s), x) \in Seq(Seq(Record)) /\ Len(Append(P(s), x)) = Len(s) + 1
            /\ \A i \in 1..Len(s) : Append(P(s), x)[i] = P(s)[i]
            /\ Append(P(s), x)[Len(s) + 1] = x
        BY <2>2, <3>1, AppendProperties
      <4> DEFINE a == Append(P(s), x)
      <4>2. \A i \in 1..n : i \in 1..Len(s) \/ i = Len(s) + 1
        BY <2>1 DEF n
      <4>3. n = Len(s) + 1
        BY DEF n
      <4>4. \A i \in 1..n : P(t)[i] = a[i]
        BY <3>2, <3>3, <4>1, <4>2, <4>3
      <4> HIDE DEF a
      <4>5. P(t) = a
        BY <3>1, <4>1, <4>3, <4>4, SeqEqual DEF a
      <4>6. QED
        BY <4>5 DEF a
    <3>5. Q(t) = Append(Q(s), y)
      <4>1. /\ Append(Q(s), y) \in Seq(Seq(Event)) /\ Len(Append(Q(s), y)) = Len(s) + 1
            /\ \A i \in 1..Len(s) : Append(Q(s), y)[i] = Q(s)[i]
            /\ Append(Q(s), y)[Len(s) + 1] = y
        BY <2>2, <3>1, AppendProperties
      <4> DEFINE a == Append(Q(s), y)
      <4>2. \A i \in 1..n : i \in 1..Len(s) \/ i = Len(s) + 1
        BY <2>1 DEF n
      <4>3. n = Len(s) + 1
        BY DEF n
      <4>4. \A i \in 1..n : Q(t)[i] = a[i]
        BY <3>2, <3>3, <4>1, <4>2, <4>3
      <4> HIDE DEF a
      <4>5. Q(t) = a
        BY <3>1, <4>1, <4>3, <4>4, SeqEqual DEF a
      <4>6. QED
        BY <4>5 DEF a
    <3>6. QED
      BY <3>4, <3>5
  <2>5. RecordStream(t) = RecordStream(s) \o x /\ PalpablesOf(t) = PalpablesOf(s) \o y
    <3>1. P(s) \in Seq(Seq(Record)) /\ Q(s) \in Seq(Seq(Event))
      BY <1>2
    <3> HIDE DEF P, Q
    <3>2. FlattenSeq(P(t)) = FlattenSeq(P(s)) \o x
      BY <2>2, <2>4, <3>1, FlattenAppend
    <3>3. FlattenSeq(Q(t)) = FlattenSeq(Q(s)) \o y
      BY <2>2, <2>4, <3>1, FlattenAppend
    <3>4. QED
      BY <1>1, <3>2, <3>3
  <2>6. /\ RecordStream(s) \in Seq(Record) /\ PalpablesOf(s) \in Seq(Event)
        /\ Palps(RecordStream(s)) = Len(PalpablesOf(s))
    BY <1>4
  <2>7. RecordStream(t) \in Seq(Record) /\ Palps(RecordStream(t)) = Palps(RecordStream(s)) + Palps(x)
    BY <2>2, <2>5, <2>6, PalpsConcat
  <2>8. /\ PalpablesOf(t) \in Seq(Event)
        /\ Len(PalpablesOf(t)) = Len(PalpablesOf(s)) + Len(y)
    BY <2>2, <2>5, <2>6, ConcatProperties
  <2>9. Palpable(t[n]) => Closed(RecordStream(t))
    <3> SUFFICES ASSUME Palpable(t[n]) PROVE Closed(RecordStream(t))
      OBVIOUS
    <3> DEFINE r == RecordStream(s)
    <3>1. Closed(x) /\ x # << >> /\ r \in Seq(Record)
      BY <2>2, <2>6
    <3> HIDE DEF r
    <3>2. Len(r \o x) = Len(r) + Len(x) /\ (r \o x)[Len(r) + Len(x)] = x[Len(x)]
      BY <2>2, <3>1, ConcatProperties, LenProperties, EmptySeq
    <3>3. Closed(r \o x)
      BY <3>1, <3>2 DEF Closed
    <3>4. QED
      BY <2>5, <3>3 DEF r
  <2>10. t \in T
    BY <2>1, <2>2, <2>6, <2>7, <2>8, <2>9
  <2>11. QED
    BY <2>10 DEF t
<1>5. es \in T
  <2> HIDE DEF T
  <2>1. QED
    BY <1>3, <1>4, SequenceInduction
<1>6. QED
  BY <1>5

\* The palpable objects of a map, in map order.
AllPalpables(m) == FlattenSeq([i \in DOMAIN m |-> PalpablesOf(m[i])])

\* Converting a map records as many palpable objects as it hands over, and no tiny
\* droplet after the last of them.
LEMMA ConversionIs ==
  ASSUME Given, NEW m \in Maps
  PROVE  /\ Recorded(m) \in Seq(Record) /\ Closed(Recorded(m))
         /\ Palps(Recorded(m)) = Len(Palpables(m)) /\ Len(Palpables(m)) \in Nat
<1> DEFINE Ends(es) == es # << >> => Palpable(es[Len(es)])
           Ok == {es \in Seq(Event) : Ends(es)}
           P == [es \in Ok |-> RecordStream(es)]
           Q == [es \in Ok |-> PalpablesOf(es)]
           F(s) == FlattenSeq(Mapped(P, s))
           G(s) == FlattenSeq(Mapped(Q, s))
           T == {s \in Seq(Ok) : /\ F(s) \in Seq(Record) /\ Closed(F(s))
                                 /\ G(s) \in Seq(Event) /\ Palps(F(s)) = Len(G(s))}
<1>1. ASSUME NEW es \in Ok
      PROVE  /\ RecordStream(es) \in Seq(Record) /\ PalpablesOf(es) \in Seq(Event)
             /\ Palps(RecordStream(es)) = Len(PalpablesOf(es))
             /\ Closed(RecordStream(es))
  <2>1. es \in Seq(Event) /\ Ends(es)
    OBVIOUS
  <2>2. CASE es # << >>
    BY <2>1, <2>2, StreamIs
  <2>3. CASE es = << >>
    <3>1. [i \in DOMAIN es |-> StreamPiece(es, i)] = << >>
      BY <2>3
    <3>2. RecordStream(es) = << >>
      BY <3>1, FlattenEmpty DEF RecordStream, StreamPiece
    <3>3. QED
      BY <2>1, <3>2, StreamIs DEF Closed
  <2>4. QED
    BY <2>2, <2>3
<1>2. P \in [Ok -> Seq(Record)] /\ Q \in [Ok -> Seq(Event)]
  <2> HIDE DEF Ok
  <2>1. QED
    BY <1>1
<1>3. << >> \in T
  <2>1. Mapped(P, << >>) = << >> /\ Mapped(Q, << >>) = << >>
    BY DEF Mapped
  <2>2. F(<< >>) = << >> /\ G(<< >>) = << >>
    <3> HIDE DEF P, Q
    <3>1. QED
      BY <2>1, FlattenEmpty
  <2>3. 0 \in Nat /\ << >> \in Seq(Ok) /\ << >> \in Seq(Record) /\ << >> \in Seq(Event)
        /\ Len(<< >>) = 0
    OBVIOUS
  <2>4. Palps(<< >>) = 0
    BY <2>3, CountsEmpty
  <2> HIDE DEF F, G, Ok
  <2>5. QED
    BY <2>2, <2>3, <2>4 DEF Closed
<1>4. ASSUME NEW s \in Seq(Ok), NEW e \in Ok, s \in T PROVE Append(s, e) \in T
  <2>1. P[e] = RecordStream(e) /\ Q[e] = PalpablesOf(e)
    OBVIOUS
  <2>2. /\ P[e] \in Seq(Record) /\ Q[e] \in Seq(Event)
        /\ Palps(P[e]) = Len(Q[e]) /\ Closed(P[e])
    BY <1>1, <2>1
  <2> HIDE DEF P, Q, Ok
  <2>3. F(Append(s, e)) = F(s) \o P[e] /\ G(Append(s, e)) = G(s) \o Q[e]
    <3>1. F(Append(s, e)) = F(s) \o P[e]
      BY <1>2, FlattenMapAppend
    <3>2. G(Append(s, e)) = G(s) \o Q[e]
      BY <1>2, FlattenMapAppend
    <3>3. QED
      BY <3>1, <3>2
  <2>4. Append(s, e) \in Seq(Ok)
    BY AppendProperties
  <2>5. F(s) \in Seq(Record) /\ Closed(F(s)) /\ G(s) \in Seq(Event) /\ Palps(F(s)) = Len(G(s))
    BY <1>4
  <2> HIDE DEF F, G
  <2>6. /\ F(s) \o P[e] \in Seq(Record) /\ Palps(F(s) \o P[e]) = Palps(F(s)) + Palps(P[e])
    BY <2>2, <2>5, PalpsConcat
  <2>7. Closed(F(s) \o P[e])
    BY <2>2, <2>5, ClosedConcat
  <2>8. G(s) \o Q[e] \in Seq(Event) /\ Len(G(s) \o Q[e]) = Len(G(s)) + Len(Q[e])
    BY <2>2, <2>5, ConcatProperties
  <2>9. QED
    BY <2>2, <2>3, <2>4, <2>5, <2>6, <2>7, <2>8
<1>5. m \in Seq(Ok)
  <2>1. m \in Seq(Seq(Event)) /\ \A i \in DOMAIN m : Ends(m[i])
    BY DEF Given
  <2>2. Len(m) \in Nat /\ DOMAIN m = 1..Len(m) /\ \A i \in 1..Len(m) : m[i] \in Seq(Event)
    BY <2>1, LenProperties, ElementOfSeq
  <2>3. \A i \in 1..Len(m) : m[i] \in Ok
    BY <2>1, <2>2
  <2>4. m = [i \in 1..Len(m) |-> m[i]]
    BY <2>1, <2>2
  <2> HIDE DEF Ok
  <2>5. QED
    BY <2>2, <2>3, <2>4
<1>6. m \in T
  <2> HIDE DEF T, Ok
  <2>1. QED
    BY <1>3, <1>4, <1>5, SequenceInduction
<1>7. F(m) = Recorded(m) /\ G(m) = AllPalpables(m)
  <2>1. Len(m) \in Nat /\ DOMAIN m = 1..Len(m) /\ \A i \in 1..Len(m) : m[i] \in Ok
    <3> HIDE DEF Ok
    <3>1. QED
      BY <1>5, LenProperties, ElementOfSeq
  <2>2. Mapped(P, m) = [i \in DOMAIN m |-> RecordStream(m[i])]
    <3> HIDE DEF Ok
    <3>1. QED
      BY <2>1 DEF Mapped
  <2>3. Mapped(Q, m) = [i \in DOMAIN m |-> PalpablesOf(m[i])]
    <3> HIDE DEF Ok
    <3>1. QED
      BY <2>1 DEF Mapped
  <2> HIDE DEF P, Q
  <2>4. QED
    BY <2>2, <2>3 DEF Recorded, AllPalpables
<1>8. Len(Palpables(m)) = Len(AllPalpables(m)) /\ Len(AllPalpables(m)) \in Nat
  <2> DEFINE all == AllPalpables(m)
  <2>1. all \in Seq(Event)
    BY <1>6, <1>7
  <2>2. Len(all) \in Nat /\ DOMAIN all = 1..Len(all)
    BY <2>1, LenProperties
  <2>3. \E o : Palpables(m) = [i \in DOMAIN all |-> all[o[i]]]
    BY Zenon DEF Palpables, AllPalpables
  <2> HIDE DEF all
  <2>4. QED
    BY <2>2, <2>3 DEF all
<1>9. QED
  BY <1>6, <1>7, <1>8

-----------------------------------------------------------------------------
(* A calculator that passed i palpable objects *)

P == Len(palpables)

\* What the conversion of the map left.
Converted == /\ map \in Maps /\ recorded = Recorded(map) /\ palpables = Palpables(map)
             /\ count = GradualCount(recorded)

Passed(i, a, m) == /\ i \in 0..P
                   /\ a = SumOfDeltas(count, 1..i) /\ m = Run(1, SaturatingSub(i, 1))

Now == Passed(idx, attrs, movement)

IInv == Converted /\ Now /\ call \in 0..MaxCall

\* There is a delta for each palpable object.
LEMMA Sizes ==
  ASSUME Given, Converted
  PROVE  /\ P \in Nat /\ count \in [1..P -> Delta] /\ recorded \in Seq(Record)
         /\ Len(count) = P /\ (count = << >> <=> P = 0)
         /\ Palps(recorded) = P /\ Pending(recorded) = 0
         /\ diff_objects = SaturatingSub(P, 1) /\ MaxCall \in Nat
<1>1. /\ recorded \in Seq(Record) /\ Closed(recorded) /\ Palps(recorded) = P /\ P \in Nat
  BY ConversionIs DEF Converted, P
<1>2. count \in [1..P -> Delta]
  BY <1>1, RecordTypes, GradualAppend DEF Converted
<1>3. Pending(recorded) = 0
  BY <1>1, ClosedPends
<1>4. Len(count) = P
  <2>1. count = [k \in 1..P |-> [fruit |-> recorded[At(recorded, k)] = Fruit,
                                  tiny_droplets |-> TinySum(recorded, Before(recorded, k))]]
    BY <1>1, GradualCountIs DEF Converted
  <2>2. QED
    BY <1>1, <2>1
<1>5. count = << >> <=> P = 0
  <2>1. DOMAIN count = 1..P
    BY <1>2
  <2>2. CASE P = 0
    <3>1. count = [k \in 1..0 |-> [fruit |-> recorded[At(recorded, k)] = Fruit,
                                    tiny_droplets |-> TinySum(recorded, Before(recorded, k))]]
      BY <1>1, <2>2, GradualCountIs DEF Converted
    <3>2. count = << >>
      BY <3>1
    <3>3. QED
      BY <2>2, <3>2
  <2>3. CASE P # 0
    <3>1. 1 \in DOMAIN count
      BY <1>1, <2>1, <2>3
    <3>2. count # << >>
      BY <3>1
    <3>3. QED
      BY <2>3, <3>2
  <2>4. QED
    BY <2>2, <2>3
<1>6. diff_objects = SaturatingSub(P, 1) /\ MaxCall \in Nat
  BY DEF diff_objects, DiffObjects, P, Given
<1>7. QED
  BY <1>1, <1>2, <1>3, <1>4, <1>5, <1>6

\* Adding the deltas that follow those that were added.
LEMMA AddMore ==
  ASSUME Given, Converted, NEW i \in Nat, NEW j \in Nat, i <= j, j <= P
  PROVE  /\ AddObjectCount(SumOfDeltas(count, 1..i), (i + 1)..j) = SumOfDeltas(count, 1..j)
         /\ SumOfDeltas(count, 1..i) \in CatchCount
<1> DEFINE A == 1..i
           B == (i + 1)..j
<1>1. P \in Nat /\ count \in [1..P -> Delta]
  BY Sizes
<1>2. A \cap B = {} /\ A \cup B = 1..j /\ A \cup B \subseteq 1..P
  BY <1>1
<1>3. IsFiniteSet(A) /\ IsFiniteSet(B)
  <2>1. {1, i, i + 1, j} \subseteq Int
    OBVIOUS
  <2>2. QED
    BY <2>1, IntervalFinite
<1>4. \A k \in A \cup B : count[k] \in Delta
  <2> HIDE DEF A, B
  <2>1. QED
    BY <1>1, <1>2
<1> HIDE DEF A, B
<1>5. /\ SumOfDeltas(count, A) \in CatchCount
      /\ SumOfDeltas(count, A \cup B) = AddCounts(SumOfDeltas(count, A), SumOfDeltas(count, B))
  BY <1>2, <1>3, <1>4, DeltasUnion
<1>6. AddObjectCount(SumOfDeltas(count, A), B)
        = AddCounts(SumOfDeltas(count, A), SumOfDeltas(count, B))
  BY DEF AddObjectCount, AddCounts
<1>7. QED
  BY <1>2, <1>5, <1>6 DEF A, B

\* next() passes one object more, if there is one.
LEMMA ServeCorrect ==
  ASSUME Given, Converted, NEW i, NEW a, NEW m, Passed(i, a, m), Serve(i, a, m)
  PROVE  /\ Passed(idx', attrs', movement')
         /\ IF i < P THEN idx' = i + 1 /\ answer' = Attributes(attrs', movement')
                     ELSE idx' = i /\ answer' = None
<1>1. P \in Nat /\ (count = << >> <=> P = 0) /\ diff_objects = SaturatingSub(P, 1)
  BY Sizes
<1>2. i \in Nat /\ i <= P /\ i \in 0..P /\ a = SumOfDeltas(count, 1..i)
      /\ m = Run(1, SaturatingSub(i, 1))
  BY <1>1 DEF Passed
<1>3. /\ i > 0 => (i <= diff_objects <=> i < P)
      /\ i = 0 => (count # << >> <=> i < P)
      /\ i > 0 => SaturatingSub(i, 1) = i - 1 /\ SaturatingSub(i + 1, 1) = i
      /\ i = 0 => SaturatingSub(i, 1) = 0 /\ SaturatingSub(i + 1, 1) = 0
  BY <1>1, <1>2 DEF SaturatingSub
<1>4. CASE i < P
  <2>1. /\ movement' = IF i > 0 THEN Append(m, i) ELSE m
        /\ attrs' = AddObjectCount(a, {i + 1})
        /\ idx' = i + 1 /\ answer' = Attributes(attrs', movement')
    <3>0. SaturatingSub(P, 1) \in Nat
      BY <1>1 DEF SaturatingSub
    <3>1. ~(IF i > 0 THEN i > diff_objects ELSE count = << >>)
      BY <1>1, <1>2, <1>3, <1>4, <3>0
    <3>2. QED
      BY <3>1, Zenon DEF Serve
  <2>2. (i + 1)..(i + 1) = {i + 1} /\ i + 1 \in Nat /\ i <= i + 1 /\ i + 1 <= P
    BY <1>1, <1>2, <1>4
  <2>3. AddObjectCount(SumOfDeltas(count, 1..i), (i + 1)..(i + 1))
          = SumOfDeltas(count, 1..(i + 1))
    BY <1>2, <2>2, AddMore
  <2>4. attrs' = SumOfDeltas(count, 1..(i + 1))
    BY <1>2, <2>1, <2>2, <2>3
  <2>5. movement' = Run(1, SaturatingSub(i + 1, 1))
    <3>1. CASE i > 0
      <4>1. i - 1 \in Nat /\ (i - 1) + 1 = i
        BY <1>2, <3>1
      <4>2. Append(Run(1, i - 1), i) = Run(1, i)
        BY <4>1, RunAppend
      <4>3. QED
        BY <1>2, <1>3, <2>1, <3>1, <4>2
    <3>2. CASE i = 0
      BY <1>2, <1>3, <2>1, <3>2
    <3>3. QED
      BY <1>2, <3>1, <3>2
  <2>6. i + 1 \in 0..P
    BY <1>1, <1>2, <1>4
  <2>7. QED
    BY <1>4, <2>1, <2>4, <2>5, <2>6 DEF Passed
<1>5. CASE ~(i < P)
  <2>1. movement' = m /\ attrs' = a /\ idx' = i /\ answer' = None
    <3>1. ~(IF i > 0 THEN i <= diff_objects ELSE count # << >>)
      BY <1>1, <1>2, <1>3, <1>5
    <3>2. QED
      BY <3>1, Zenon DEF Serve
  <2>2. QED
    BY <1>2, <1>5, <2>1 DEF Passed
<1>6. QED
  BY <1>4, <1>5

\* Where nth(n) lands before it calls next().
LEMMA SkipCorrect ==
  ASSUME Given, Converted, Now, NEW n \in 0..MaxCall
  PROVE  /\ Passed(Reach(n), AddObjectCount(attrs, (idx + 1)..Reach(n)), movement \o Run(From, To(n)))
         /\ Reach(n) \in Nat
         /\ idx < P => Reach(n) < P /\ Reach(n) + 1 = Least(idx + n + 1, P)
         /\ idx = P => Reach(n) = P
<1>1. P \in Nat /\ diff_objects = SaturatingSub(P, 1) /\ MaxCall \in Nat
  BY Sizes
<1>2. idx \in Nat /\ idx <= P /\ attrs = SumOfDeltas(count, 1..idx)
      /\ movement = Run(1, SaturatingSub(idx, 1)) /\ n \in Nat
  BY <1>1 DEF Now, Passed
<1> DEFINE w == Wanted(n)
<1>3. /\ w \in Nat /\ (P > 0 => diff_objects = P - 1) /\ (P = 0 => diff_objects = 0)
      /\ idx < P => w < P - idx /\ idx + w + 1 = Least(idx + n + 1, P)
      /\ idx = P => w = 0
  BY <1>1, <1>2 DEF Wanted, len, Least, SaturatingSub
<1> HIDE DEF w
<1>4. /\ Reach(n) = idx + w
      /\ movement \o Run(From, To(n)) = Run(1, SaturatingSub(idx + w, 1))
  <2>1. CASE idx = 0 /\ w = 0
    <3>1. From = 1 /\ To(n) = 0 /\ Reach(n) = 0
      BY <1>1, <1>3, <2>1 DEF From, To, Lone, Reach, w, Least, SaturatingSub
    <3>2. SaturatingSub(idx, 1) = 0 /\ SaturatingSub(idx + w, 1) = 0
      BY <2>1 DEF SaturatingSub
    <3>3. Run(1, 0) \o Run(1, 0) = Run(1, 0)
      BY DEF Run, SaturatingSub
    <3>4. QED
      BY <1>2, <2>1, <3>1, <3>2, <3>3
  <2>2. CASE idx = 0 /\ w > 0
    <3>1. From = 1 /\ To(n) = w - 1 /\ Reach(n) = w
      BY <1>1, <1>3, <2>2 DEF From, To, Lone, Reach, w, Least, SaturatingSub
    <3>2. SaturatingSub(idx, 1) = 0 /\ SaturatingSub(idx + w, 1) = w - 1 /\ w - 1 \in Nat
      BY <1>3, <2>2 DEF SaturatingSub
    <3>3. Run(1, 0) \o Run(0 + 1, w - 1) = Run(1, w - 1)
      <4>1. 0 \in Nat /\ 0 <= w - 1
        BY <3>2
      <4>2. QED
        BY <3>2, <4>1, RunConcat, Zenon
    <3>4. 0 + 1 = 1 /\ idx + w = w
      BY <1>3, <2>2
    <3>5. QED
      BY <1>2, <3>1, <3>2, <3>3, <3>4
  <2>3. CASE idx > 0
    <3>1. From = idx /\ To(n) = idx + w - 1 /\ Reach(n) = idx + w
      BY <1>1, <1>2, <1>3, <2>3 DEF From, To, Lone, Reach, w, Least, SaturatingSub
    <3>2. /\ SaturatingSub(idx, 1) = idx - 1 /\ SaturatingSub(idx + w, 1) = idx + w - 1
          /\ idx - 1 \in Nat /\ idx + w - 1 \in Nat /\ idx - 1 <= idx + w - 1
          /\ (idx - 1) + 1 = idx
      BY <1>2, <1>3, <2>3 DEF SaturatingSub
    <3>3. Run(1, idx - 1) \o Run((idx - 1) + 1, idx + w - 1) = Run(1, idx + w - 1)
      BY <3>2, RunConcat
    <3>4. QED
      BY <1>2, <3>1, <3>2, <3>3
  <2>4. QED
    BY <1>2, <1>3, <2>1, <2>2, <2>3
<1>5. idx + w \in Nat /\ idx + w <= P /\ idx <= idx + w /\ idx + w \in 0..P
  BY <1>1, <1>2, <1>3
<1>6. AddObjectCount(attrs, (idx + 1)..Reach(n)) = SumOfDeltas(count, 1..Reach(n))
  BY <1>2, <1>4, <1>5, AddMore
<1>7. QED
  BY <1>1, <1>2, <1>3, <1>4, <1>5, <1>6 DEF Passed

\* Each call answers as the contract asks.
LEMMA CallCorrect ==
  ASSUME Given, IInv, CallNext \/ \E n \in 0..MaxCall : CallNth(n)
  PROVE  /\ UNCHANGED conversion /\ call' \in 0..MaxCall /\ call' \in Nat
         /\ Passed(idx', attrs', movement')
         /\ idx \in Nat /\ idx <= P /\ P \in Nat
         /\ idx < P => /\ idx' = Least(idx + call' + 1, P) /\ idx' \in 1..P
                       /\ answer' = Attributes(attrs', movement')
         /\ idx = P => idx' = idx /\ answer' = None
<1>1. Converted /\ Now /\ P \in Nat /\ MaxCall \in Nat
  BY Sizes DEF IInv
<1>2. idx \in Nat /\ idx <= P
  BY <1>1 DEF Now, Passed
<1>3. CASE CallNext
  <2>1. UNCHANGED conversion /\ call' = 0 /\ Serve(idx, attrs, movement)
    BY <1>3 DEF CallNext
  <2>2. /\ Passed(idx', attrs', movement')
        /\ IF idx < P THEN idx' = idx + 1 /\ answer' = Attributes(attrs', movement')
                      ELSE idx' = idx /\ answer' = None
    BY <1>1, <2>1, ServeCorrect DEF Now
  <2>3. idx < P => idx + 1 = Least(idx + 0 + 1, P) /\ idx + 1 \in 1..P
    BY <1>1, <1>2 DEF Least
  <2>4. QED
    BY <1>1, <1>2, <2>1, <2>2, <2>3
<1>4. ASSUME NEW n \in 0..MaxCall, CallNth(n)
      PROVE  /\ UNCHANGED conversion /\ call' = n /\ n \in Nat
             /\ Passed(idx', attrs', movement')
             /\ idx < P => /\ idx' = Least(idx + n + 1, P) /\ idx' \in 1..P
                           /\ answer' = Attributes(attrs', movement')
             /\ idx = P => idx' = idx /\ answer' = None
  <2>1. /\ UNCHANGED conversion /\ call' = n /\ n \in Nat
        /\ Serve(Reach(n), AddObjectCount(attrs, (idx + 1)..Reach(n)), movement \o Run(From, To(n)))
    BY <1>1, <1>4 DEF CallNth
  <2>2. /\ Passed(Reach(n), AddObjectCount(attrs, (idx + 1)..Reach(n)), movement \o Run(From, To(n)))
        /\ Reach(n) \in Nat
        /\ idx < P => Reach(n) < P /\ Reach(n) + 1 = Least(idx + n + 1, P)
        /\ idx = P => Reach(n) = P
    BY <1>1, SkipCorrect
  <2>3. /\ Passed(idx', attrs', movement')
        /\ IF Reach(n) < P THEN idx' = Reach(n) + 1 /\ answer' = Attributes(attrs', movement')
                           ELSE idx' = Reach(n) /\ answer' = None
    BY <1>1, <2>1, <2>2, ServeCorrect
  <2>4. idx < P => Reach(n) + 1 \in 1..P
    BY <1>1, <2>2
  <2>5. QED
    BY <1>1, <1>2, <2>1, <2>2, <2>3, <2>4
<1>5. QED
  BY <1>1, <1>2, <1>3, <1>4

-----------------------------------------------------------------------------
(* The invariant holds, and what it says *)

LEMMA InitIInv ==
  ASSUME Given, Init
  PROVE  IInv
<1>1. Converted /\ idx = 0 /\ attrs = NoCount /\ movement = << >> /\ call = 0 /\ answer = None
  BY DEF Init, Converted
<1>2. P \in Nat /\ MaxCall \in Nat
  BY <1>1, Sizes
<1>3. 1..0 = {} /\ Run(1, 0) = << >> /\ SaturatingSub(0, 1) = 0 /\ 0 \in 0..P /\ 0 \in 0..MaxCall
  BY <1>2 DEF Run, SaturatingSub
<1>4. SumOfDeltas(count, {}) = NoCount
  BY DeltasEmpty
<1>5. QED
  BY <1>1, <1>3, <1>4 DEF IInv, Now, Passed

LEMMA StepIInv ==
  ASSUME Given, IInv, [Next]_vars
  PROVE  IInv'
<1>1. CASE CallNext \/ \E n \in 0..MaxCall : CallNth(n)
  <2>1. UNCHANGED conversion /\ call' \in 0..MaxCall /\ Passed(idx', attrs', movement')
    BY <1>1, CallCorrect
  <2>2. QED
    BY <2>1 DEF IInv, Now, Converted, Passed, P, conversion
<1>2. CASE UNCHANGED vars
  BY <1>2 DEF vars, IInv, Now, Converted, Passed, P
<1>3. QED
  BY <1>1, <1>2 DEF Next

\* The properties of the calculator.
LEMMA Consequences ==
  ASSUME Given, IInv
  PROVE  Prefix /\ CountsLineUp /\ NothingLeft
<1>1. Converted /\ Now
  BY DEF IInv
<1>2. /\ P \in Nat /\ recorded \in Seq(Record)
      /\ Len(count) = P /\ Palps(recorded) = P /\ Pending(recorded) = 0
      /\ count = GradualCount(recorded) /\ count \in [1..P -> Delta]
  BY <1>1, Sizes DEF Converted
<1>3. idx \in Nat /\ idx <= P /\ attrs = SumOfDeltas(count, 1..idx)
      /\ movement = Run(1, SaturatingSub(idx, 1))
  BY <1>1, <1>2 DEF Now, Passed
<1>4. attrs = RegularCount(recorded, idx)
  BY <1>2, <1>3, CountsOfPrefix
<1>5. CountsLineUp
  BY <1>2 DEF CountsLineUp, P
<1>6. NothingLeft
  <2> SUFFICES ASSUME idx = P PROVE attrs = RegularCount(recorded, Len(recorded) + 1)
    BY DEF NothingLeft, P
  <2> DEFINE n == Len(recorded) + 1
             c == SumOfDeltas(count, 1..P)
  <2>1. Len(recorded) \in Nat /\ Palps(recorded) <= Len(recorded)
    <3>1. Len(recorded) \in Nat
      BY <1>2, LenProperties
    <3>2. PalpableCalls(recorded, Len(recorded)) \in SUBSET (1..Len(recorded))
      BY DEF PalpableCalls
    <3>3. IsFiniteSet(1..Len(recorded)) /\ Cardinality(1..Len(recorded)) = Len(recorded)
      <4>1. ASSUME NEW l \in Nat
            PROVE  IsFiniteSet(1..l) /\ Cardinality(1..l) = l
        <5>1. 1 \in Int /\ l \in Int /\ l >= 0
          OBVIOUS
        <5>2. /\ IsFiniteSet(1..l)
              /\ Cardinality(1..l) = IF 1 > l THEN 0 ELSE l - 1 + 1
          BY <5>1, FS_Interval
        <5>3. QED
          BY <5>1, <5>2
      <4>2. QED
        BY <3>1, <4>1
    <3>4. QED
      BY <3>1, <3>2, <3>3, FS_Subset DEF Palps
  <2>2. n \in Nat /\ ~(n <= Palps(recorded))
    BY <1>2, <2>1
  <2> HIDE DEF n
  <2>3. RegularCount(recorded, n) = WithTiny(c, 0)
    BY <1>2, <2>2, CountsOfPrefix
  <2>4. c \in CatchCount
    BY <1>1, <1>2, AddMore
  <2> HIDE DEF c
  <2>5. WithTiny(c, 0) = c
    BY <2>4 DEF WithTiny, CatchCount
  <2>6. QED
    BY <1>3, <2>3, <2>5 DEF n, c
<1>7. QED
  BY <1>3, <1>4, <1>5, <1>6 DEF Prefix

\* What was counted and processed is what the one-shot calculation gives, a record.
LEMMA PassedIsPromised ==
  ASSUME Given, Converted, NEW i, NEW a, NEW m, Passed(i, a, m)
  PROVE  /\ Attributes(a, m) = Calculate(recorded, palpables, i)
         /\ Attributes(a, m) # None
<1>1. /\ P \in Nat /\ recorded \in Seq(Record) /\ Palps(recorded) = P
      /\ count = GradualCount(recorded)
  BY Sizes DEF Converted
<1>2. i \in Nat /\ i <= P /\ a = SumOfDeltas(count, 1..i) /\ m = Run(1, SaturatingSub(i, 1))
  BY <1>1 DEF Passed
<1>3. a = RegularCount(recorded, i)
  BY <1>1, <1>2, CountsOfPrefix
<1>4. Least(i, P) = i
  BY <1>1, <1>2 DEF Least
<1>5. Attributes(a, m) = Calculate(recorded, palpables, i)
  BY <1>2, <1>3, <1>4 DEF Attributes, Calculate, P
<1>6. a \in CatchCount
  <2>1. i <= i
    BY <1>2
  <2>2. QED
    BY <1>2, <2>1, AddMore
<1>7. m \in Seq(Nat)
  <2>1. SaturatingSub(i, 1) \in Nat /\ 1 \in Nat /\ 1 >= 1
    BY <1>2 DEF SaturatingSub
  <2>2. QED
    BY <1>2, <2>1, RunType
<1>8. Attributes(a, m) \in [count : CatchCount, seen : Seq(Nat)]
  BY <1>6, <1>7 DEF Attributes
<1>9. QED
  BY <1>5, <1>8 DEF Given

=============================================================================
