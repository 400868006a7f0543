---------------------------- MODULE CatchGradual ----------------------------
(***************************************************************************)
(* CatchGradualDifficulty: the gradual difficulty of an osu!catch map, one *)
(* answer per fruit or droplet.  The object counts come from the gradual   *)
(* count builder, the difficulty objects from the sorted palpable objects; *)
(* idx is used in both.                                                    *)
(***************************************************************************)
EXTENDS CatchObjects

CONSTANTS Maps,      \* the maps considered, sequences of event sequences
          MaxCall,   \* bound on the n of nth(n); stands for usize::MAX too
          None

VARIABLES map,
          recorded,  \* the record_* calls the conversion of the map made
          palpables, \* the palpable objects it handed over, sorted by time
          count,     \* the delta of object counts of each palpable object
          idx, attrs,
          movement,  \* the difficulty objects the skill processed, in order
          call, answer

conversion == <<map, recorded, palpables, count>>
vars == <<map, recorded, palpables, count, idx, attrs, movement, call, answer>>

diff_objects == DiffObjects(palpables)

\* Variant of len that leaves the first object out.
LenFirstLess == diff_objects - idx

\* ExactSizeIterator::len
len == diff_objects + 1 - idx

\* add_object_count of the deltas at the positions in S
AddObjectCount(a, S) ==
  LET sum == SumOfDeltas(count, S)
  IN [fruits        |-> a.fruits + sum.fruits,
      droplets      |-> a.droplets + sum.droplets,
      tiny_droplets |-> a.tiny_droplets + sum.tiny_droplets]

Attributes(a, m) == [count |-> a, seen |-> m]

Init == /\ map \in Maps
        /\ recorded = Recorded(map) /\ palpables = Palpables(map)
        /\ count = GradualCount(recorded)
        /\ idx = 0 /\ attrs = NoCount /\ movement = << >>
        /\ call = 0 /\ answer = None

\* next(), entered with the counter i, the counts a and the processed objects m
Serve(i, a, m) ==
  \/ /\ IF i > 0 THEN i <= diff_objects ELSE count # << >>
     /\ movement' = IF i > 0 THEN Append(m, i) ELSE m
     /\ attrs' = AddObjectCount(a, {i + 1})
     /\ idx' = i + 1
     /\ answer' = Attributes(attrs', movement')
  \/ /\ IF i > 0 THEN i > diff_objects ELSE count = << >>
     /\ movement' = m /\ attrs' = a /\ idx' = i
     /\ answer' = None

CallNext == /\ call' = 0
            /\ Serve(idx, attrs, movement)
            /\ UNCHANGED conversion

\* nth(n): the palpable objects idx + 1 .. Reach(n) are skipped, the first of a
\* map without a difficulty object, then next().
Wanted(n) == Least(n, SaturatingSub(len, 1))
\* Variant of Lone that takes the first object for one with a difficulty object.
LoneForgotten(n) == FALSE

Lone(n) == idx = 0 /\ Wanted(n) > 0
From == SaturatingSub(idx, 1) + 1
To(n) == Least(From - 1 + Wanted(n) - (IF Lone(n) THEN 1 ELSE 0), diff_objects)
Reach(n) == (IF Lone(n) THEN 1 ELSE idx) + (To(n) + 1 - From)

CallNth(n) == /\ call' = n
              /\ Serve(Reach(n), AddObjectCount(attrs, (idx + 1)..Reach(n)),
                       movement \o Run(From, To(n)))
              /\ UNCHANGED conversion

Next == CallNext \/ \E n \in 0..MaxCall : CallNth(n)

Spec == Init /\ [][Next]_vars

-----------------------------------------------------------------------------
(* Properties *)

\* Two lists built apart line up: there is one delta per palpable object, so
\* that count[idx] is in range whenever a difficulty object idx - 1 exists.
CountsLineUp == Len(count) = Len(palpables)

\* After any mix of next and nth the deltas that were added amount to what the
\* other counting mode counts for `idx` palpable objects, tiny droplets between
\* them included, and the movement skill has seen each difficulty object once.
Prefix == /\ attrs = RegularCount(recorded, idx)
          /\ movement = Run(1, SaturatingSub(idx, 1))

\* A drained calculator has counted all that a full calculation counts: no tiny
\* droplet is left waiting for a palpable object.
NothingLeft == answer = None /\ idx = Len(palpables) =>
                 attrs = RegularCount(recorded, Len(recorded) + 1)

=============================================================================
