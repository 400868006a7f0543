-------------------------- MODULE CatchObjectCount --------------------------
(***************************************************************************)
(* ObjectCountBuilder: how the conversion of an osu!catch map counts its   *)
(* objects.  The Regular builder of a one-shot calculation stops after     *)
(* `take` palpable objects; the Gradual builder keeps one delta per        *)
(* palpable object.  Converting the same map makes the same record_* calls *)
(* on either, so both are fed side by side here.                           *)
(***************************************************************************)
EXTENDS CatchObjects

CONSTANTS Takes,     \* values of Difficulty::passed_objects
          MaxTiny,   \* bound on the n of one record_tiny_droplets(n)
          MaxCalls   \* bound on the number of calls

VARIABLES take0,     \* the `take` the Regular builder was made with
          regular,   \* Self::Regular { count, take }
          gradual,   \* Self::Gradual { count, all }
          recorded   \* the calls so far (history)

vars == <<take0, regular, gradual, recorded>>

NoDelta == [fruit |-> FALSE, tiny_droplets |-> 0]

Init == /\ take0 \in Takes
        /\ regular = [take |-> take0, count |-> NoCount]
        /\ gradual = [count |-> NoDelta, all |-> << >>]
        /\ recorded = << >>

\* A palpable object, counted by `field` of the Regular builder.
Palp(field) ==
  regular' = IF regular.take = 0 THEN regular
             ELSE [take  |-> regular.take - 1,
                   count |-> [regular.count EXCEPT ![field] = @ + 1]]

record_fruit ==
  /\ Palp("fruits")
  /\ gradual' = [count |-> NoDelta,
                 all   |-> Append(gradual.all, [gradual.count EXCEPT !.fruit = TRUE])]
  /\ recorded' = Append(recorded, Fruit)
  /\ UNCHANGED take0

record_droplet ==
  /\ Palp("droplets")
  /\ gradual' = [count |-> NoDelta, all |-> Append(gradual.all, gradual.count)]
  /\ recorded' = Append(recorded, Droplet)
  /\ UNCHANGED take0

\* Variant of record_tiny_droplets that counts tiny droplets past `take`.
record_tiny_droplets_always(n) ==
  /\ regular' = [regular EXCEPT !.count.tiny_droplets = @ + n]
  /\ gradual' = [gradual EXCEPT !.count.tiny_droplets = @ + n]
  /\ recorded' = Append(recorded, Tiny(n))
  /\ UNCHANGED take0

record_tiny_droplets(n) ==
  /\ regular' = IF regular.take = 0 THEN regular
                ELSE [regular EXCEPT !.count.tiny_droplets = @ + n]
  /\ gradual' = [gradual EXCEPT !.count.tiny_droplets = @ + n]
  /\ recorded' = Append(recorded, Tiny(n))
  /\ UNCHANGED take0

Next == /\ Len(recorded) < MaxCalls
        /\ \/ record_fruit
           \/ record_droplet
           \/ \E n \in 0..MaxTiny : record_tiny_droplets(n)

Spec == Init /\ [][Next]_vars

-----------------------------------------------------------------------------
(* Properties *)

\* What the builders hold is what CatchObjects defines from the calls alone.
HoldsCounts == /\ regular.count = RegularCount(recorded, take0)
               /\ gradual.all = GradualCount(recorded)
               /\ gradual.count = [fruit |-> FALSE, tiny_droplets |-> Pending(recorded)]

\* The counts of the two builders agree: the first `take` deltas amount to the
\* Regular counts, and a Regular builder with room left also counted the tiny
\* droplets that still wait in the Gradual one.
BuildersAgree ==
  LET n   == Len(gradual.all)
      sum == SumOfDeltas(gradual.all, 1..Least(take0, n))
  IN regular.count = IF take0 <= n THEN sum
                     ELSE [sum EXCEPT !.tiny_droplets = @ + gradual.count.tiny_droplets]
=============================================================================
