---------------------------- MODULE ManiaGradual ----------------------------
(***************************************************************************)
(* ManiaGradualDifficulty: the gradual difficulty of an osu!mania map.     *)
(* The difficulty objects are limited by Difficulty::passed_objects, the   *)
(* table of object kinds is not; the first object is counted when the      *)
(* calculator is made.                                                     *)
(*                                                                         *)
(* A hold note adds one per 100 ms to the combo; the one-shot calculation  *)
(* takes that from the duration, the gradual one from times that were      *)
(* divided by the clock rate and are multiplied with it again.  Times are  *)
(* binary floating point numbers of Mantissa bits here, multiples of       *)
(* 1 / 2^FractionBits.  An object is [start, duration], a duration of 0    *)
(* standing for a circle.  Difficulty object i (from 1) belongs to object  *)
(* i + 1.                                                                  *)
(***************************************************************************)
EXTENDS ObjectRuns, Integers, FiniteSets, Functions

CONSTANTS Maps,            \* the maps considered
          ClockRates,      \* the clock rates considered
          PassedObjects,   \* values of Difficulty::passed_objects
          MaxCall,         \* bound on the n of nth(n); stands for usize::MAX too
          Mantissa,        \* 53 in the program
          FractionBits,    \* so many that nothing below is subnormal
          TickLen,         \* 100 ms in the program
          None

-----------------------------------------------------------------------------
(* Floating point *)

\* The distance of neighbours around n / d.
Ulp(n, d) == LET k == CHOOSE k \in 0..30 : n < 2 ^ (Mantissa + k) * d
                        /\ \A j \in 0..(k - 1) : n >= 2 ^ (Mantissa + j) * d
             IN 2 ^ k

\* The float nearest n / d, ties to the even neighbour.
Round(n, d) ==
  LET u    == Ulp(n, d)
      down == n \div (d * u)
      rest == 2 * (n - down * d * u)
      up   == rest > d * u \/ (rest = d * u /\ down % 2 = 1)
  IN (IF up THEN down + 1 ELSE down) * u

Float(t) == t * 2 ^ FractionBits

\* A clock rate is a float too, given as the fraction rate[1] / rate[2].
Divided(x, rate) == Round(x * rate[2], rate[1])
Multiplied(x, rate) == Round(x * rate[1], rate[2])

-----------------------------------------------------------------------------
(* The combo of a hold note *)

\* ManiaObject::new
Ticks(o) == o.duration \div TickLen

\* increment_combo_raw, from a start and an end time
TicksBetween(start, end) == (end - start) \div Float(TickLen)

\* increment_combo, from the times of a difficulty object
GradualTicks(d, rate) ==
  TicksBetween(Multiplied(d.start_time, rate), Multiplied(d.end_time, rate))

IsCircle(o) == o.duration = 0

-----------------------------------------------------------------------------
(* The one-shot calculation of a play that passed `take` objects *)

\* create_difficulty_objects, of the first `take` objects
DiffObjects(m, take, rate) ==
  [i \in 1..SaturatingSub(Least(take, Len(m)), 1) |->
    [start_time |-> Divided(Float(m[i + 1].start), rate),
     end_time   |-> Divided(Float(m[i + 1].start + m[i + 1].duration), rate)]]

Calculate(m, take) ==
  LET seen == 1..Least(take, Len(m))
  IN [max_combo    |-> Cardinality(seen) + SumFunction([i \in seen |-> Ticks(m[i])]),
      n_hold_notes |-> Cardinality({i \in seen : ~IsCircle(m[i])}),
      n_objects    |-> Least(take, Len(m)),
      strain       |-> Run(1, SaturatingSub(Least(take, Len(m)), 1))]

-----------------------------------------------------------------------------
(* The gradual calculator *)

VARIABLES map, rate,
          passed,       \* difficulty.passed_objects at construction
          diff_objects, \* their times, divided by the clock rate
          idx, note_state,
          strain,       \* the difficulty objects the skill processed, in order
          call, answer

settings == <<map, rate, passed, diff_objects>>
vars == <<map, rate, passed, diff_objects, idx, note_state, strain, call, answer>>

\* ExactSizeIterator::len
len == Len(diff_objects) + 1 - idx

\* increment_combo for each of the objects at the positions in S; object i has
\* difficulty object i - 1
IncrementCombo(s, S) ==
  LET ticks == [i \in S |-> IF IsCircle(map[i]) THEN 0
                            ELSE GradualTicks(diff_objects[i - 1], rate)]
  IN [curr_combo   |-> s.curr_combo + Cardinality(S) + SumFunction(ticks),
      n_hold_notes |-> s.n_hold_notes + Cardinality({i \in S : ~IsCircle(map[i])})]

\* The first object is counted from its own times, which were not scaled.
FirstCombo(m) ==
  IF m = << >> THEN [curr_combo |-> 0, n_hold_notes |-> 0]
  ELSE IF IsCircle(m[1]) THEN [curr_combo |-> 1, n_hold_notes |-> 0]
  ELSE [curr_combo |-> 1 + TicksBetween(Float(m[1].start),
                                        Float(m[1].start + m[1].duration)),
        n_hold_notes |-> 1]

Attributes(i, s, st) == [max_combo |-> s.curr_combo, n_hold_notes |-> s.n_hold_notes,
                         n_objects |-> i, strain |-> st]

Init == /\ map \in Maps /\ rate \in ClockRates /\ passed \in PassedObjects
        /\ diff_objects = DiffObjects(map, passed, rate)
        /\ idx = 0 /\ note_state = FirstCombo(map) /\ strain = << >>
        /\ call = 0 /\ answer = None

\* Variant of Serve that leaves the last difficulty object out.
ServeOneShort(i, s, st) ==
  \/ /\ IF i > 0 THEN i < Len(diff_objects) ELSE map # << >>
     /\ strain' = IF i > 0 THEN Append(st, i) ELSE st
     /\ note_state' = IF i > 0 THEN IncrementCombo(s, {i + 1}) ELSE s
     /\ idx' = i + 1
     /\ answer' = Attributes(idx', note_state', strain')
  \/ /\ IF i > 0 THEN i >= Len(diff_objects) ELSE map = << >>
     /\ strain' = st /\ note_state' = s /\ idx' = i
     /\ answer' = None

\* next(), entered with the counter i, the counts s and the processed objects st
Serve(i, s, st) ==
  \/ /\ IF i > 0 THEN i <= Len(diff_objects) ELSE map # << >>
     /\ strain' = IF i > 0 THEN Append(st, i) ELSE st
     /\ note_state' = IF i > 0 THEN IncrementCombo(s, {i + 1}) ELSE s
     /\ idx' = i + 1
     /\ answer' = Attributes(idx', note_state', strain')
  \/ /\ IF i > 0 THEN i > Len(diff_objects) ELSE map = << >>
     /\ strain' = st /\ note_state' = s /\ idx' = i
     /\ answer' = None

CallNext == /\ call' = 0
            /\ Serve(idx, note_state, strain)
            /\ UNCHANGED settings

\* nth(n): the difficulty objects From..To(n) are processed, then next().  The
\* iterator zips them with the object kinds.
Wanted(n) == Least(n, SaturatingSub(len, 1))
\* Variant of Lone that takes the first object for one with a difficulty object.
LoneForgotten(n) == FALSE

Lone(n) == idx = 0 /\ Wanted(n) > 0
From == SaturatingSub(idx, 1) + 1
To(n) == Least(From - 1 + Wanted(n) - (IF Lone(n) THEN 1 ELSE 0),
               Least(Len(diff_objects), SaturatingSub(Len(map), 1)))

CallNth(n) ==
  /\ call' = n
  /\ Serve((IF Lone(n) THEN 1 ELSE idx) + (To(n) + 1 - From),
           IncrementCombo(note_state, (From + 1)..(To(n) + 1)),
           strain \o Run(From, To(n)))
  /\ UNCHANGED settings

Next == CallNext \/ \E n \in 0..MaxCall : CallNth(n)

Spec == Init /\ [][Next]_vars

-----------------------------------------------------------------------------
(* Properties *)

\* The number of answers a map has.
Total == IF map = << >> THEN 0 ELSE Len(diff_objects) + 1

\* The strain skill has processed each difficulty object up to idx once, in map
\* order; hold notes are counted up to idx (the first object from the start).
Prefix ==
  /\ strain = Run(1, SaturatingSub(idx, 1))
  /\ note_state.n_hold_notes =
       Calculate(map, IF idx = 0 THEN 1 ELSE idx).n_hold_notes

\* The ticks of a hold note that the gradual calculator counts.
LateTicks(o, r) ==
  GradualTicks([start_time |-> Divided(Float(o.start), r),
                end_time   |-> Divided(Float(o.start + o.duration), r)], r)

\* Whether the combo of each hold note outlives the division of its times by the clock
\* rate and their multiplication with it.
KeepsTicks(m, r) ==
  \A i \in 2..Len(m) : ~IsCircle(m[i]) => LateTicks(m[i], r) = Ticks(m[i])

\* The test's assert_eq!(next_gradual, expected)
\* (mania/difficulty/gradual.rs:267): an answer is equal to the attributes of a
\* calculation with passed_objects(idx).
GradualEqualsPassed == answer # None => answer = Calculate(map, idx)
=============================================================================
