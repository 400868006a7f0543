---------------------------- MODULE ObjectSorting ----------------------------
(***************************************************************************)
(* Where the program sorts hit objects, from the list it has to the list   *)
(* the calculators read:                                                   *)
(*   decode            a map's objects and, in tandem, their sounds        *)
(*   decode mania      the same, then the objects again by osu_legacy      *)
(*   convert to taiko  sliders become hits, then in tandem as in decode    *)
(*   convert to mania  a stable sort, then osu_legacy; sounds are dropped  *)
(*   nested objects    the ticks, repeats and tail of a slider, by csharp  *)
(*                                                                         *)
(* An element of `file` is an object as it is read or generated: its time, *)
(* and if it is a slider that turns into taiko hits their spacing (else 0),*)
(* its duration and how many sounds of its own (nodes) it has.             *)
(*                                                                         *)
(* TandemSorter sorts several lists by the order of the first.  A sort     *)
(* follows the cycles of its permutation and marks, in the top bit of each *)
(* index, the places that are done; the next sort has to unmark them.      *)
(***************************************************************************)
EXTENDS InPlaceSorts

CONSTANTS TopBit, \* 2^63 of the program: above every index
          Files   \* the pairs of a job and a list of objects considered

ASSUME TopBitAssumption == TopBit \in Nat

-----------------------------------------------------------------------------
(* TandemSorter *)

VARIABLES indices,       \* for each place the one its element comes from, with marks
          should_reset,
          cycle          \* the sort's i and j; none between sorts

sorterVars == <<indices, should_reset, cycle>>

NoCycle == [i |-> 0, j |-> 0, sorting |-> FALSE]

idx_is_marked(idx) == idx >= TopBit
toggle_mark_idx(idx) == IF idx_is_marked(idx) THEN idx - TopBit ELSE idx + TopBit

\* The places of a slice by time, those of one time in their order (a stable sort).
StableOrder(slice) ==
  LET Before(a, b) == Less(slice[a], slice[b]) \/ (~Less(slice[b], slice[a]) /\ a < b)
      Rank(a) == Cardinality({b \in DOMAIN slice : Before(b, a)})
  IN [k \in DOMAIN slice |-> CHOOSE a \in DOMAIN slice : Rank(a) = k]

\* Variant of StableSorted that sorts nothing.
Unsorted(slice) == slice

StableSorted(slice) == [k \in DOMAIN slice |-> slice[StableOrder(slice)[k]]]

new_stable(slice) == /\ indices' = StableOrder(slice)
                     /\ should_reset' = FALSE
                     /\ cycle' = NoCycle

\* Variant of Reset that leaves the marks there.
NoReset(marked) == marked

\* The marks of the previous sort at the beginning of the next one.
Reset(marked) == IF should_reset THEN [k \in DOMAIN marked |-> toggle_mark_idx(marked[k])]
                 ELSE marked

BeginSort == /\ ~panicked /\ ~cycle.sorting
             /\ indices' = Reset(indices)
             /\ should_reset' = FALSE
             /\ cycle' = [i |-> 0, j |-> 0, sorting |-> TRUE]
             /\ UNCHANGED sortVars

AtPlace == ~panicked /\ cycle.sorting /\ cycle.i < Length(indices)
AtStart == cycle.j = cycle.i
NextPlace == cycle' = [cycle EXCEPT !.i = @ + 1, !.j = cycle.i + 1]

\* The outer loop goes past a place that an earlier cycle has reached.
SkipMarked == /\ AtPlace /\ AtStart
              /\ idx_is_marked(indices[cycle.i])
              /\ NextPlace
              /\ UNCHANGED <<indices, should_reset, keys, calls, panicked>>

\* Only the outer loop looks at marks: a marked index inside a cycle is out of bounds.
Follow == /\ AtPlace
          /\ AtStart => ~idx_is_marked(indices[cycle.i])
          /\ indices[cycle.j] # cycle.i
          /\ indices' = [indices EXCEPT ![cycle.j] = toggle_mark_idx(@)]
          /\ IF indices[cycle.j] \notin DOMAIN keys
             THEN Panic /\ UNCHANGED cycle
             ELSE /\ keys' = Swapped(keys, cycle.j, indices[cycle.j])
                  /\ cycle' = [cycle EXCEPT !.j = indices[cycle.j]]
                  /\ UNCHANGED <<calls, panicked>>
          /\ UNCHANGED should_reset

CloseCycle == /\ AtPlace
              /\ indices[cycle.j] = cycle.i
              /\ indices' = [indices EXCEPT ![cycle.j] = toggle_mark_idx(@)]
              /\ NextPlace
              /\ UNCHANGED <<should_reset, keys, calls, panicked>>

Placed == cycle.sorting /\ cycle.i = Length(indices)

\* What the sort leaves behind when its caller goes on.
EndSort == Placed /\ should_reset' = TRUE /\ cycle' = NoCycle /\ UNCHANGED indices

TandemSortStep == SkipMarked \/ Follow \/ CloseCycle

-----------------------------------------------------------------------------
(* Its callers *)

VARIABLES job, file,
          phase,    \* what is being done
          objects,  \* the list of objects; its elements are told apart by `of` and `nth`
          sounds,   \* the list of their sounds
          idx       \* the object the conversion to taiko has come to

sortingVars == <<job, file, phase, objects, sounds, idx, sortVars, sorterVars>>

Slice(list) == [k \in 0..(Len(list) - 1) |-> list[k + 1]]
Listed(slice) == [k \in 1..Length(slice) |-> slice[k - 1]]

\* The hits that the object n of the file becomes, and the sound of each: a slider's own
\* in turns, as far as it has any.
Hits(n) ==
  LET o == file[n]
  IN [k \in 1..(IF o.spacing = 0 THEN 1 ELSE 1 + ((8 * o.duration + o.spacing) \div (8 * o.spacing)))
        |-> [time |-> o.time + (k - 1) * o.spacing, of |-> n, nth |-> k]]

SoundsOf(n) ==
  LET o == file[n]
  IN [k \in DOMAIN Hits(n) |->
        [of |-> n, node |-> IF o.spacing = 0 \/ o.nodes = 0 THEN 0 ELSE 1 + ((k - 1) % o.nodes)]]

-----------------------------------------------------------------------------
(* The steps from list to list *)

\* One round of taiko's convert: the hits of a slider replace it in both lists.
ConvertNext ==
  /\ phase = "convert" /\ idx < Len(objects)
  /\ LET n == objects[idx + 1].of
         Spliced(list, new) == SubSeq(list, 1, idx) \o new \o SubSeq(list, idx + 2, Len(list))
     IN /\ objects' = Spliced(objects, Hits(n))
        /\ sounds' = Spliced(sounds, SoundsOf(n))
        /\ idx' = idx + Len(Hits(n))
  /\ UNCHANGED <<job, file, phase, sortVars, sorterVars>>

BeginTandem ==
  /\ \/ phase = "begin" /\ job \in {"decode", "decode mania"}
     \/ phase = "convert" /\ idx = Len(objects)
  /\ phase' = "objects"
  /\ keys' = Slice(objects)
  /\ new_stable(Slice(objects))
  /\ UNCHANGED <<job, file, objects, sounds, idx, calls, panicked>>

\* Of the sort of one list, that begins by itself.
SortTandem == /\ phase \in {"objects", "sounds"}
              /\ TandemSortStep \/ BeginSort
              /\ UNCHANGED <<job, file, phase, objects, sounds, idx>>

\* The same sorter goes on to the sounds.
ObjectsPlaced == /\ phase = "objects" /\ EndSort
                 /\ phase' = "sounds"
                 /\ objects' = Listed(keys)
                 /\ keys' = Slice(sounds)
                 /\ UNCHANGED <<job, file, sounds, idx, calls, panicked>>

SoundsPlaced == /\ phase = "sounds" /\ EndSort
                /\ sounds' = Listed(keys)
                /\ LET legacy == job = "decode mania"
                   IN /\ phase' = IF legacy THEN "legacy" ELSE "done"
                      /\ keys' = IF legacy THEN Slice(objects) ELSE <<>>
                      /\ calls' = IF legacy THEN LegacyCalls(Slice(objects)) ELSE <<>>
                /\ UNCHANGED <<job, file, objects, idx, panicked>>

\* The end of mania's convert, from its list of new objects.
BeginMania == /\ phase = "begin" /\ job = "convert to mania"
              /\ phase' = "legacy"
              /\ keys' = StableSorted(Slice(objects))
              /\ calls' = LegacyCalls(Slice(objects))
              /\ sounds' = <<>>
              /\ UNCHANGED <<job, file, objects, idx, panicked, sorterVars>>

BeginNested == /\ phase = "begin" /\ job = "nested objects"
               /\ phase' = "csharp"
               /\ keys' = Slice(objects)
               /\ calls' = CSharpCalls(Slice(objects))
               /\ UNCHANGED <<job, file, objects, sounds, idx, panicked, sorterVars>>

SortInPlace == /\ \/ phase = "legacy" /\ LegacySortStep
                  \/ phase = "csharp" /\ CSharpSortStep
               /\ UNCHANGED <<job, file, phase, objects, sounds, idx, sorterVars>>

Sorted == /\ phase \in {"legacy", "csharp"} /\ calls = <<>>
          /\ phase' = "done"
          /\ objects' = Listed(keys)
          /\ keys' = <<>>
          /\ UNCHANGED <<job, file, sounds, idx, calls, panicked, sorterVars>>

-----------------------------------------------------------------------------
(* The whole of it *)

\* The lists that are sorted for a job, from the elements of `list`.
ObjectsOf(list) == [n \in DOMAIN list |-> [time |-> list[n].time, of |-> n, nth |-> 1]]
SoundsIn(list) == [n \in DOMAIN list |-> [of |-> n, node |-> 0]]

SortingInit == /\ \E f \in Files : job = f.job /\ file = f.objects
               /\ phase = IF job = "convert to taiko" THEN "convert" ELSE "begin"
               /\ objects = ObjectsOf(file)
               /\ sounds = SoundsIn(file)
               /\ idx = 0

NoSort == /\ keys = <<>> /\ calls = <<>> /\ panicked = FALSE
          /\ indices = <<>> /\ should_reset = FALSE /\ cycle = NoCycle

SortingNext == \/ ConvertNext \/ BeginTandem \/ SortTandem \/ ObjectsPlaced \/ SoundsPlaced
               \/ BeginMania \/ BeginNested \/ SortInPlace \/ Sorted

-----------------------------------------------------------------------------
(* Properties *)

Made(n) == IF job = "convert to taiko" THEN Hits(n) ELSE <<[time |-> file[n].time, of |-> n, nth |-> 1]>>

\* Every list ends up with exactly the objects it is made of, in the order of their
\* times; objects of one time keep their order wherever the sort is meant to be stable.
\* osu_legacy alone does not sort every list: it leans on the stable sort before it.
InTimeOrder ==
  phase = "done" =>
    /\ ToSet(objects) = UNION {ToSet(Made(n)) : n \in DOMAIN file}
    /\ IsInjective(objects)
    /\ \A a, b \in DOMAIN objects : a < b =>
         LET x == objects[a]
             y == objects[b]
         IN \/ Less(x, y)
            \/ /\ x.time = y.time
               /\ job \in {"decode", "convert to taiko"} =>
                    x.of < y.of \/ (x.of = y.of /\ x.nth < y.nth)

\* Each object has its own sound next to it where the calculators read the two lists side
\* by side: TandemSorter::sort on the second list does what it did on the first, and the
\* hits of a converted slider take its sounds in turns.
SoundsFollow ==
  phase = "done" /\ job \in {"decode", "convert to taiko"} =>
    /\ Len(sounds) = Len(objects)
    /\ \A i \in DOMAIN objects :
         sounds[i] = IF job = "decode" THEN [of |-> objects[i].of, node |-> 0]
                     ELSE SoundsOf(objects[i].of)[objects[i].nth]

\* No sort reads past its slice or subtracts below zero: the inner loops of the quick sorts
\* check no bounds and rely on the median of three, the cycles rely on unmarked indices.
NeverPanics == ~panicked

\* Every sort comes to an end, the scans that stop at one element from both sides and the
\* parts that a split leaves included.
Terminates == <>(phase = "done")
=============================================================================
