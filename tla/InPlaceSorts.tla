--------------------------- MODULE InPlaceSorts -----------------------------
(***************************************************************************)
(* The sorts of util/sort that work on one slice: the quick sort that      *)
(* mania maps are sorted with for the order it leaves objects of one time  *)
(* in (osu_legacy), the introspective sort of the nested objects of a      *)
(* slider (csharp), and the heap sort that both end in once their calls    *)
(* are nested too deeply.                                                  *)
(*                                                                         *)
(* Slices are indexed from 0 as in the program.  An element is a record    *)
(* with the time that it is sorted by.  A call is a record of the function *)
(* (fn) and its local variables; the innermost call is the first of calls. *)
(***************************************************************************)
EXTENDS Integers, SequencesExt, FiniteSetsExt

CONSTANTS QuickSortDepthThreshold,  \* calls and rounds before the heap sort takes over
          IntroSortSizeThreshold    \* 16 in the program: up to here, insertion sort

ASSUME DepthAssumption == QuickSortDepthThreshold \in Nat
ASSUME SizeAssumption == IntroSortSizeThreshold \in Nat /\ IntroSortSizeThreshold >= 3

VARIABLES keys,     \* the slice that is being sorted
          calls,    \* the stack of unfinished calls
          panicked  \* an index was out of bounds or a subtraction underflowed

sortVars == <<keys, calls, panicked>>

Length(slice) == Cardinality(DOMAIN slice)

Less(a, b) == a.time < b.time

Swapped(slice, a, b) == [slice EXCEPT ![a] = slice[b], ![b] = slice[a]]
SwappedIfGreater(slice, a, b) == IF Less(slice[b], slice[a]) THEN Swapped(slice, a, b) ELSE slice

\* Both quick sorts begin with the median of three.
MedianOfThree(slice, a, mid, b) ==
  SwappedIfGreater(SwappedIfGreater(SwappedIfGreater(slice, a, mid), a, b), mid, b)

In(fn) == ~panicked /\ calls # <<>> /\ Head(calls).fn = fn
Become(cs) == calls' = cs \o Tail(calls)  \* the innermost call goes on as the calls cs
Return == Become(<<>>)
Panic == panicked' = TRUE /\ UNCHANGED <<keys, calls>>

-----------------------------------------------------------------------------
(* heap_sort *)

\* A heap sort of keys[lo..hi] about to begin; `left` is the outer loop's next i.
HeapCall(lo, hi) == LET n == hi - lo + 1 IN
  [fn |-> "heapify", lo |-> lo, n |-> n, left |-> n \div 2]

\* The element i sinks into a heap of the first `size` before the call goes on as `then`.
DownCall(i, size, then) == [fn |-> "down_heap", i |-> i, size |-> size, lo |-> then.lo]

\* The first loop: build the heap from the last parent up.
Heapify == /\ In("heapify")
           /\ LET c == Head(calls) IN
              Become(IF c.left >= 1
                     THEN LET then == [c EXCEPT !.left = @ - 1]
                          IN <<DownCall(c.left, c.n, then), then>>
                     ELSE <<[c EXCEPT !.fn = "extract", !.left = c.n]>>)
           /\ UNCHANGED <<keys, panicked>>

\* The second loop: the greatest goes to the end of what is left.
Extract == /\ In("extract")
           /\ LET c == Head(calls)
                  then == [c EXCEPT !.left = @ - 1]
              IN IF c.left >= 2
                 THEN /\ keys' = Swapped(keys, c.lo, c.lo + c.left - 1)
                      /\ Become(<<DownCall(1, c.left - 1, then), then>>)
                 ELSE Return /\ UNCHANGED keys
           /\ UNCHANGED panicked

\* One round of down_heap; parents and children count from 1.
DownHeap ==
  /\ In("down_heap")
  /\ LET c == Head(calls)
         At(i) == keys[c.lo + i - 1]
         child == IF 2 * c.i < c.size /\ Less(At(2 * c.i), At(2 * c.i + 1)) THEN 2 * c.i + 1
                                                                            ELSE 2 * c.i
     IN IF c.i <= c.size \div 2 /\ Less(At(c.i), At(child))
        THEN /\ keys' = Swapped(keys, c.lo + c.i - 1, c.lo + child - 1)
             /\ Become(<<[c EXCEPT !.i = child]>>)
        ELSE Return /\ UNCHANGED keys
  /\ UNCHANGED panicked

HeapSortStep == Heapify \/ Extract \/ DownHeap

-----------------------------------------------------------------------------
(* osu_legacy, which compares with keys[mid] itself, not with a copy; its swaps may replace
   that element *)

QuickCall(left, right, depth) ==
  [fn |-> "quick_sort", left |-> left, right |-> right, depth_limit |-> depth]

\* The calls with which a sort of the slice begins.
LegacyCalls(slice) ==
  IF Length(slice) < 2 THEN <<>>
  ELSE <<QuickCall(0, Length(slice) - 1, QuickSortDepthThreshold)>>

\* The end of a round, or of a call whose part is too small for another one.
QuickReturn == /\ In("quick_sort")
               /\ Head(calls).left >= Head(calls).right
               /\ Return
               /\ UNCHANGED <<keys, panicked>>

QuickRound ==
  /\ In("quick_sort")
  /\ LET c == Head(calls)
         mid == c.left + (c.right - c.left) \div 2
     IN /\ c.left < c.right
        /\ IF c.depth_limit = 0
           THEN Become(<<HeapCall(c.left, c.right)>>) /\ UNCHANGED keys
           ELSE /\ keys' = MedianOfThree(keys, c.left, mid, c.right)
                /\ Become(<<[fn |-> "scan", of |-> c, i |-> c.left, j |-> c.right, mid |-> mid]>>)
  /\ UNCHANGED panicked

\* Where the two inner while loops stop, if they stop within the slice.
StopsUp(c)   == {i \in c.i..(Length(keys) - 1) : ~Less(keys[i], keys[c.mid])}
StopsDown(c) == {j \in 0..c.j : ~Less(keys[c.mid], keys[j])}

\* Variant of Scanned that goes on past i and j only if they were swapped.
ScannedApart(c, i, j) ==
  IF i > j THEN [c EXCEPT !.fn = "split", !.i = i, !.j = j]
  ELSE IF i = j THEN [c EXCEPT !.i = i, !.j = j]
  ELSE [c EXCEPT !.fn = IF i + 1 > j - 1 THEN "split" ELSE "scan", !.i = i + 1, !.j = j - 1]

\* The scan after it stopped at i and j, with those two swapped.  It goes on past both.
Scanned(c, i, j) ==
  IF i > j THEN [c EXCEPT !.fn = "split", !.i = i, !.j = j]
  ELSE LET jj == IF j = 0 THEN 0 ELSE j - 1
       IN [c EXCEPT !.fn = IF i + 1 > jj THEN "split" ELSE "scan", !.i = i + 1, !.j = jj]

\* One round of the scan from both ends.
Scan ==
  /\ In("scan")
  /\ LET c == Head(calls) IN
     IF StopsUp(c) = {} \/ StopsDown(c) = {} THEN Panic
     ELSE LET i == Min(StopsUp(c))
              j == Max(StopsDown(c))
          IN /\ keys' = IF i < j THEN Swapped(keys, i, j) ELSE keys
             /\ Become(<<Scanned(c, i, j)>>)
             /\ UNCHANGED panicked

\* A call for the smaller part, then another round for the other; right - i must not
\* underflow.
Split ==
  /\ In("split")
  /\ LET c     == Head(calls)
         left  == c.of.left
         right == c.of.right
         depth == c.of.depth_limit - 1
         Call(a, b) == IF a < b THEN <<QuickCall(a, b, depth)>> ELSE <<>>
     IN IF c.i > right THEN Panic
        ELSE /\ IF c.j - left <= right - c.i
                THEN Become(Call(left, c.j) \o <<QuickCall(c.i, right, depth)>>)
                ELSE Become(Call(c.i, right) \o <<QuickCall(left, c.j, depth)>>)
             /\ UNCHANGED <<keys, panicked>>

LegacySortStep == QuickReturn \/ QuickRound \/ Scan \/ Split \/ HeapSortStep

-----------------------------------------------------------------------------
(* csharp *)

IntroCall(lo, hi, depth) == [fn |-> "intro_sort", lo |-> lo, hi |-> hi, depth_limit |-> depth]

ilog2(n) == Max({k \in 0..n : 2 ^ k <= n})

\* The calls with which a sort of the slice begins.
CSharpCalls(slice) ==
  LET len == Length(slice)
  IN IF len < 2 THEN <<>> ELSE <<IntroCall(0, len - 1, 2 * ilog2(len))>>

\* keys[i + 1] moves before all greater ones of keys[lo..i], which end where the first
\* one that is not greater is found from the right.
Inserted(slice, lo, i) ==
  LET kept  == {k \in lo..i : ~Less(slice[i + 1], slice[k])}
      place == IF kept = {} THEN lo ELSE Max(kept) + 1
  IN [k \in DOMAIN slice |-> CASE k = place -> slice[i + 1]
                               [] k \in (place + 1)..(i + 1) -> slice[k - 1]
                               [] OTHER -> slice[k]]

InsertionSorted(slice, lo, hi) ==
  FoldLeft(LAMBDA s, i : Inserted(s, lo, i), slice, [k \in 1..(hi - lo) |-> lo + k - 1])

\* Two and three elements are compared in place.
SmallSorted(slice, lo, hi) ==
  CASE hi - lo = 1 -> SwappedIfGreater(slice, lo, hi)
    [] hi - lo = 2 -> MedianOfThree(slice, lo, hi - 1, hi)
    [] OTHER       -> InsertionSorted(slice, lo, hi)

IntroReturn == /\ In("intro_sort")
               /\ LET c == Head(calls) IN
                  /\ c.hi - c.lo < IntroSortSizeThreshold
                  /\ keys' = IF c.hi > c.lo THEN SmallSorted(keys, c.lo, c.hi) ELSE keys
               /\ Return
               /\ UNCHANGED panicked

\* The pivot waits at hi - 1 while the elements before it are partitioned.
IntroRound ==
  /\ In("intro_sort")
  /\ LET c == Head(calls)
         mid == c.lo + (c.hi - c.lo) \div 2
     IN /\ c.hi - c.lo >= IntroSortSizeThreshold
        /\ IF c.depth_limit = 0
           THEN Become(<<HeapCall(c.lo, c.hi)>>) /\ UNCHANGED keys
           ELSE /\ keys' = Swapped(MedianOfThree(keys, c.lo, mid, c.hi), mid, c.hi - 1)
                /\ Become(<<[fn |-> "partition", of |-> c, left |-> c.lo, right |-> c.hi - 1]>>)
  /\ UNCHANGED panicked

\* Variant of LeftStops that passes elements equal to the pivot.
LeftStopsAfter(c) == {i \in (c.left + 1)..(Length(keys) - 1) : Less(keys[c.of.hi - 1], keys[i])}

\* Both inner loops step before they compare.
LeftStops(c)  == {i \in (c.left + 1)..(Length(keys) - 1) : ~Less(keys[i], keys[c.of.hi - 1])}
RightStops(c) == {i \in 0..(c.right - 1) : ~Less(keys[c.of.hi - 1], keys[i])}

Partition ==
  /\ In("partition")
  /\ LET c == Head(calls) IN
     IF LeftStops(c) = {} \/ RightStops(c) = {} THEN Panic
     ELSE LET left  == Min(LeftStops(c))
              right == Max(RightStops(c))
              depth == c.of.depth_limit - 1
          IN /\ IF left < right
                THEN /\ keys' = Swapped(keys, left, right)
                     /\ Become(<<[c EXCEPT !.left = left, !.right = right]>>)
                ELSE /\ keys' = Swapped(keys, left, c.of.hi - 1)
                     /\ Become(<<IntroCall(left + 1, c.of.hi, depth),
                                 IntroCall(c.of.lo, left - 1, depth)>>)
             /\ UNCHANGED panicked

CSharpSortStep == IntroReturn \/ IntroRound \/ Partition \/ HeapSortStep
=============================================================================
