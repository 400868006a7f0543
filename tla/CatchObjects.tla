---------------------------- MODULE CatchObjects ----------------------------
(***************************************************************************)
(* The conversion of a map to osu!catch objects and the counting of those  *)
(* objects.  Converting an object calls the record_* methods of an         *)
(* ObjectCountBuilder, in map order, and hands over the palpable objects   *)
(* (fruits and droplets), which are sorted by time afterwards.             *)
(*                                                                         *)
(* A map is a sequence of objects: a circle, a slider with the list of its *)
(* slider events, or a spinner.  Times are integers (milliseconds).        *)
(***************************************************************************)
EXTENDS ObjectRuns, Integers, SequencesExt

NoCount == [fruits |-> 0, droplets |-> 0, tiny_droplets |-> 0]

-----------------------------------------------------------------------------
(* JuiceStream::new *)

\* The kinds of slider events; the legacy last tick does not become an object.
EventKinds == {"Circle", "Head", "Tick", "Repeat", "LastTick", "Tail"}
Event == [kind : EventKinds, time : Int]

\* The tiny droplets between two slider events: the gap is halved until the parts are
\* 100 ms long or less, and each multiple of a part below the gap holds a tiny droplet.
TinyDroplets(gap) ==
  LET parts[p \in 1..gap] == IF gap <= 100 * p THEN p ELSE parts[2 * p]
  IN IF gap <= 80 THEN 0 ELSE parts[1] - 1

Palpable(e) == e.kind # "LastTick"
IsFruit(e) == e.kind \in {"Circle", "Head", "Repeat", "Tail"}

Tiny(n) == [record |-> "tiny_droplets", n |-> n]
Fruit == [record |-> "fruit"]
Droplet == [record |-> "droplet"]

\* Variant of RecordEvent that counts the legacy last tick as a droplet.
RecordEventLastTick(e) == IF IsFruit(e) THEN <<Fruit>> ELSE <<Droplet>>

RecordEvent(e) == IF ~Palpable(e) THEN << >>
                  ELSE IF IsFruit(e) THEN <<Fruit>> ELSE <<Droplet>>

\* The record_* calls a list of slider events makes.
RecordStream(es) ==
  FlattenSeq([i \in DOMAIN es |->
    (IF i = 1 THEN << >> ELSE <<Tiny(TinyDroplets(es[i].time - es[i - 1].time))>>)
      \o RecordEvent(es[i])])

-----------------------------------------------------------------------------
(* convert_objects *)

\* A circle is one event, a spinner (a banana shower) none.
Recorded(m) == FlattenSeq([i \in DOMAIN m |-> RecordStream(m[i])])

PalpablesOf(es) ==
  FlattenSeq([i \in DOMAIN es |-> IF Palpable(es[i]) THEN <<es[i]>> ELSE << >>])

Palpables(m) ==
  LET all == FlattenSeq([i \in DOMAIN m |-> PalpablesOf(m[i])])
      Earlier(i, j) == \/ all[i].time < all[j].time
                       \/ all[i].time = all[j].time /\ i < j
      order == SortSeq([i \in DOMAIN all |-> i], Earlier)
  IN  [i \in DOMAIN all |-> all[order[i]]]

-----------------------------------------------------------------------------
(* What an ObjectCountBuilder makes of the calls `rs` (see CatchObjectCount) *)

IsTiny(r) == r.record = "tiny_droplets"

\* The palpable objects recorded by the first i calls.
PalpableCalls(rs, i) == {j \in 1..i : ~IsTiny(rs[j])}

TinySum(rs, S) == SumFunction([j \in {i \in S : IsTiny(rs[i])} |-> rs[j].n])

\* Regular: calls count as long as fewer than `take` palpable objects were recorded.
RegularCount(rs, take) ==
  LET taken == {i \in DOMAIN rs : Cardinality(PalpableCalls(rs, i - 1)) < take}
  IN [fruits        |-> Cardinality({i \in taken : rs[i] = Fruit}),
      droplets      |-> Cardinality({i \in taken : rs[i] = Droplet}),
      tiny_droplets |-> TinySum(rs, taken)]

\* Variant of GradualCount that keeps only the latest call's tiny droplets.
GradualCountLatest(rs) ==
  LET palp == PalpableCalls(rs, Len(rs))
      At(k) == CHOOSE i \in palp : Cardinality(PalpableCalls(rs, i)) = k
      Latest(k) == {At(k) - 1} \intersect DOMAIN rs
  IN [k \in 1..Cardinality(palp) |->
        [fruit |-> rs[At(k)] = Fruit, tiny_droplets |-> TinySum(rs, Latest(k))]]

\* Gradual: one delta per palpable object, tiny droplets going to the next one.
GradualCount(rs) ==
  LET palp == PalpableCalls(rs, Len(rs))
      At(k) == CHOOSE i \in palp : Cardinality(PalpableCalls(rs, i)) = k
      Before(k) == {i \in 1..(At(k) - 1) : Cardinality(PalpableCalls(rs, i)) = k - 1}
  IN [k \in 1..Cardinality(palp) |->
        [fruit |-> rs[At(k)] = Fruit, tiny_droplets |-> TinySum(rs, Before(k))]]

\* The tiny droplets after the last palpable object, not in any delta.
Pending(rs) == LET palp == PalpableCalls(rs, Len(rs))
               IN TinySum(rs, {i \in DOMAIN rs : \A j \in palp : j < i})

\* What the deltas at the positions in S amount to.
SumOfDeltas(deltas, S) ==
  [fruits        |-> Cardinality({k \in S : deltas[k].fruit}),
   droplets      |-> Cardinality({k \in S : ~deltas[k].fruit}),
   tiny_droplets |-> SumFunction([k \in S |-> deltas[k].tiny_droplets])]

-----------------------------------------------------------------------------
(* The one-shot calculation of a play that passed `take` palpable objects, from *)
(* what converting the map recorded and handed over                          *)

DiffObjects(palps) == SaturatingSub(Len(palps), 1)

Calculate(rs, palps, take) ==
  [count |-> RegularCount(rs, take),
   seen  |-> Run(1, SaturatingSub(Least(take, Len(palps)), 1))]
=============================================================================
