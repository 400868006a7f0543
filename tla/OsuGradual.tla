------------------------------ MODULE OsuGradual ------------------------------
(***************************************************************************)
(* OsuGradualDifficulty: an iterator that yields the difficulty attributes *)
(* of an osu!standard map after 1, 2, 3, ... hit objects.  It keeps one    *)
(* set of skills and of counters and feeds them one difficulty object at a *)
(* time; nth(n) feeds n objects without answering and then calls next().   *)
(***************************************************************************)
EXTENDS OsuDifficulty

CONSTANTS Maps,            \* the maps considered, sequences of HitObjects
          PassedObjects,   \* values of Difficulty::passed_objects
          MaxCall,         \* bound on the n of nth(n); stands for usize::MAX too
          None

ASSUME MapsAssumption == Maps \subseteq Seq(HitObjects)
ASSUME PassedAssumption == PassedObjects \subseteq Nat
ASSUME MaxCallAssumption == MaxCall \in Nat
ASSUME NoneAssumption == None \notin [count: Counters, seen: [Skills -> Seq(Nat)],
                                      ccv3: Seq(Nat)]

VARIABLES map,      \* the map the calculator was built from
          passed,   \* difficulty.passed_objects at construction
          idx, attrs, skills,
          call,     \* the n of the latest call (0 for next)
          answer    \* what the latest call returned

vars == <<map, passed, idx, attrs, skills, call, answer>>

n_diff_objects == DiffObjects(map, passed)

\* ExactSizeIterator::len
len == n_diff_objects + 1 - idx

\* Variant of IncrementCombo that leaves the tails of sliders out of the combo.
IncrementComboNoTail(m, a, S) ==
  [n_circles     |-> a.n_circles + Cardinality(OfKind(m, S, "circle")),
   n_sliders     |-> a.n_sliders + Cardinality(OfKind(m, S, "slider")),
   n_spinners    |-> a.n_spinners + Cardinality(OfKind(m, S, "spinner")),
   n_large_ticks |-> a.n_large_ticks + Cardinality(LargeTicks(m, S)),
   max_combo     |-> a.max_combo + Cardinality(S) + Cardinality(LargeTicks(m, S))]

\* increment_combo, applied to each of the objects at the positions in S
IncrementCombo(m, a, S) ==
  [n_circles     |-> a.n_circles + Cardinality(OfKind(m, S, "circle")),
   n_sliders     |-> a.n_sliders + Cardinality(OfKind(m, S, "slider")),
   n_spinners    |-> a.n_spinners + Cardinality(OfKind(m, S, "spinner")),
   n_large_ticks |-> a.n_large_ticks + Cardinality(LargeTicks(m, S)),
   max_combo     |-> a.max_combo + Cardinality(S) + Cardinality(LargeTicks(m, S))
                       + Cardinality(OfKind(m, S, "slider"))]

\* The CC V3 fields keep their Default in a gradual answer.
Attributes(a, s) == [count |-> a, seen |-> s, ccv3 |-> << >>]

Init == /\ map \in Maps
        /\ passed \in PassedObjects
        /\ idx = 0
        /\ attrs = IncrementCombo(map, NoCount, {i \in DOMAIN map : i = 1})
        /\ skills = [s \in Skills |-> << >>]
        /\ call = 0
        /\ answer = None

-----------------------------------------------------------------------------
(* next(), entered with the counter i, the counts a and the skills s *)

\* Variant of FirstObject without the check for an empty map.
FirstObjectUnchecked(i, a, s) ==
  /\ i = 0
  /\ idx' = 1 /\ attrs' = a /\ skills' = s
  /\ answer' = Attributes(a, s)

FirstObject(i, a, s) ==
  /\ i = 0 /\ Len(map) > 0
  /\ idx' = 1 /\ attrs' = a /\ skills' = s
  /\ answer' = Attributes(a, s)

LaterObject(i, a, s) ==
  /\ i > 0 /\ i - 1 < n_diff_objects
  /\ skills' = [k \in Skills |-> Append(s[k], i)]
  /\ attrs' = IncrementCombo(map, a, {i + 1})
  /\ idx' = i + 1
  /\ answer' = Attributes(attrs', skills')

NoObject(i, a, s) ==
  /\ IF i = 0 THEN Len(map) = 0 ELSE i - 1 >= n_diff_objects
  /\ idx' = i /\ attrs' = a /\ skills' = s
  /\ answer' = None

Serve(i, a, s) == \/ FirstObject(i, a, s)
                  \/ LaterObject(i, a, s)
                  \/ NoObject(i, a, s)

CallNext == /\ call' = 0
            /\ Serve(idx, attrs, skills)
            /\ UNCHANGED <<map, passed>>

-----------------------------------------------------------------------------
(* nth(n): skip the objects in between, then next() *)

Wanted(n) == Least(n, SaturatingSub(len, 1))
\* Variant of Lone that takes the first object for one with a difficulty object.
LoneForgotten(n) == FALSE

\* The first note has no difficulty object.
Lone(n) == idx = 0 /\ Wanted(n) > 0
\* The difficulty objects From..To(n) are processed.
From == SaturatingSub(idx, 1) + 1
To(n) == Least(From - 1 + (IF Lone(n) THEN Wanted(n) - 1 ELSE Wanted(n)), n_diff_objects)

CallNth(n) ==
  /\ call' = n
  /\ Serve((IF Lone(n) THEN 1 ELSE idx) + (To(n) + 1 - From),
           IncrementCombo(map, attrs, (From + 1) .. (To(n) + 1)),
           [k \in Skills |-> skills[k] \o Run(From, To(n))])
  /\ UNCHANGED <<map, passed>>

Next == CallNext \/ \E n \in 0..MaxCall : CallNth(n)

Spec == Init /\ [][Next]_vars

-----------------------------------------------------------------------------
(* Properties *)

\* The number of answers a map has.
Total == IF Len(map) = 0 THEN 0 ELSE n_diff_objects + 1

\* Every counter is a number, and idx never runs ahead of the answers the map
\* has, so that `len` and the index idx - 1 do not underflow.
TypeOK == /\ map \in Maps /\ passed \in PassedObjects
          /\ idx \in 0..Total
          /\ attrs \in Counters
          /\ skills \in [Skills -> Seq(Nat)]
          /\ call \in 0..MaxCall

\* Whatever mix of next and nth was called, every skill has processed each of
\* the difficulty objects up to idx once, in map order, and the counters hold
\* the objects up to idx (the first one is counted by the constructor).
Fed(i, a, s) ==
  /\ s = [k \in Skills |-> Run(1, SaturatingSub(i, 1))]
  /\ a = Inspected(map, 1 .. (IF i = 0 THEN Least(1, Len(map)) ELSE i))

Prefix == Fed(idx, attrs, skills)

\* The calculator keeps the contract: the k-th answer is what a one-shot
\* calculation of a play that passed k objects counts and processes
\* (the assertion of the module's own test, without the CC V3 fields).
PromisedAnswer(k) ==
  [count |-> Calculate(map, k).count, seen |-> Calculate(map, k).seen]

Contract == INSTANCE GradualContract WITH
  promised <- [k \in 1..Total |-> PromisedAnswer(k)],
  pos      <- idx,
  answer   <- IF answer = None THEN None
              ELSE [count |-> answer.count, seen |-> answer.seen]

KeepsContract == Contract!Spec

\* The test's assert_eq!(next_gradual, expected)
\* (osu/difficulty/gradual.rs:310): the k-th gradual answer is
\* equal to the attributes of a calculation with passed_objects(k).
GradualEqualsPassed == answer # None => answer = Calculate(map, idx)
=============================================================================
