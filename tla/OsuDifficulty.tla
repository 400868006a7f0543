---------------------------- MODULE OsuDifficulty ----------------------------
(***************************************************************************)
(* The one-shot difficulty calculation of an osu!standard map, reduced to  *)
(* what it consumes: which hit objects the counters cover, and which       *)
(* difficulty objects each skill processes, in which order.  The star      *)
(* rating is a function of exactly that.                                   *)
(*                                                                         *)
(* A map is a sequence of hit objects.  A slider contributes its large     *)
(* ticks (ticks and repeats) and its tail as nested objects.               *)
(* Difficulty object i (from 1) belongs to hit object i + 1.               *)
(***************************************************************************)
EXTENDS ObjectRuns, FiniteSets

CONSTANT MaxTicks        \* bound on the large ticks of one slider
ASSUME MaxTicksAssumption == MaxTicks \in Nat

Skills == {"aim", "aim_no_sliders", "speed", "flashlight"}

Circle == [kind |-> "circle", ticks |-> 0]
Spinner == [kind |-> "spinner", ticks |-> 0]
Slider(t) == [kind |-> "slider", ticks |-> t]

HitObjects == {Circle, Spinner} \union {Slider(t) : t \in 0..MaxTicks}

-----------------------------------------------------------------------------
(* Counting the objects whose positions are in S. *)

OfKind(m, S, k) == {i \in S : m[i].kind = k}
LargeTicks(m, S) ==
  {p \in S \X (1..MaxTicks) : m[p[1]].kind = "slider" /\ p[2] <= m[p[1]].ticks}

Counters == [n_circles: Nat, n_sliders: Nat, n_spinners: Nat,
             n_large_ticks: Nat, max_combo: Nat]

NoCount == [n_circles |-> 0, n_sliders |-> 0, n_spinners |-> 0,
            n_large_ticks |-> 0, max_combo |-> 0]

\* nested_objects.len(): the large ticks and one tail per slider
Inspected(m, S) ==
  [n_circles     |-> Cardinality(OfKind(m, S, "circle")),
   n_sliders     |-> Cardinality(OfKind(m, S, "slider")),
   n_spinners    |-> Cardinality(OfKind(m, S, "spinner")),
   n_large_ticks |-> Cardinality(LargeTicks(m, S)),
   max_combo     |-> Cardinality(S) + Cardinality(LargeTicks(m, S))
                       + Cardinality(OfKind(m, S, "slider"))]

-----------------------------------------------------------------------------
(* The attributes of a play that passed `take` objects. *)

DiffObjects(m, take) == IF take = 0 THEN 0 ELSE SaturatingSub(Len(m), 1)

ProcessedBy(m, take) ==
  Run(1, Least(DiffObjects(m, take), SaturatingSub(Least(Len(m), take), 1)))

\* speed_object_data, and with it the CC V3 fields, covers every difficulty
\* object of the map, whatever `take` is.
SpeedObjectData(m, take) == Run(1, DiffObjects(m, take))

Calculate(m, take) ==
  [count |-> Inspected(m, 1..Least(take, Len(m))),
   seen  |-> [s \in Skills |-> ProcessedBy(m, take)],
   ccv3  |-> SpeedObjectData(m, take)]
=============================================================================
