----------------------------- MODULE StrainsVec -----------------------------
(***************************************************************************)
(* StrainsVec: the list of section peaks every skill fills.  An entry is a *)
(* positive value or a number of consecutive zeros (told apart by the sign *)
(* bit), which keeps maps with hours of nothing small.  Iterating expands  *)
(* the runs of zeros again.                                                *)
(***************************************************************************)
EXTENDS Naturals, FiniteSets, SequencesExt

CONSTANTS Strains,     \* the strain values considered
          ReducedCount,\* how many of the highest peaks are reduced
          MaxLen,      \* bound on the number of pushes
          None

VARIABLES inner,       \* the entries
          len,
          iterating,
          it           \* StrainsIter: the current entry, the rest of inner, len

vars == <<inner, len, iterating, it>>

Value(v) == [is_zero |-> FALSE, n |-> v]
Zeros(k) == [is_zero |-> TRUE, n |-> k]

IsValue(e) == ~e.is_zero
Higher(e, f) == e.n > f.n

\* The reduction of a peak by the osu! skills, a factor between 0.75 and 1.
Scaled(v) == (3 * v + 3) \div 4

NoIter == [curr |-> None, rest |-> << >>, len |-> 0, out |-> None]

Init == inner = << >> /\ len = 0 /\ iterating = FALSE /\ it = NoIter

\* Variant of push that does not count a merged zero.
push_uncounted(v) ==
  /\ ~iterating /\ len < MaxLen
  /\ IF v = 0 /\ inner # << >> /\ inner[Len(inner)].is_zero
     THEN inner' = [inner EXCEPT ![Len(inner)].n = @ + 1] /\ len' = len
     ELSE inner' = Append(inner, IF v > 0 THEN Value(v) ELSE Zeros(1)) /\ len' = len + 1
  /\ UNCHANGED <<iterating, it>>

push(v) ==
  /\ ~iterating /\ len < MaxLen
  /\ inner' = IF v > 0 THEN Append(inner, Value(v))
              ELSE IF inner # << >> /\ inner[Len(inner)].is_zero
              THEN [inner EXCEPT ![Len(inner)].n = @ + 1]
              ELSE Append(inner, Zeros(1))
  /\ len' = len + 1
  /\ UNCHANGED <<iterating, it>>

\* Sorted in descending order: the k-th entry has less than k higher ones.
Descending(s) ==
  [k \in DOMAIN s |->
     CHOOSE e \in Range(s) : /\ Cardinality({j \in DOMAIN s : Higher(s[j], e)}) < k
                             /\ Cardinality({j \in DOMAIN s : ~Higher(e, s[j])}) >= k]

\* Sorting asserts that there are no zeros.
sort_desc ==
  /\ ~iterating
  /\ \A i \in DOMAIN inner : IsValue(inner[i])
  /\ inner' = Descending(inner)
  /\ UNCHANGED <<len, iterating, it>>

NonZero(s) == FlattenSeq([i \in DOMAIN s |-> IF IsValue(s[i]) THEN <<s[i]>> ELSE << >>])

\* retain_non_zero leaves len alone.
RetainedAndSorted == Descending(NonZero(inner))

retain_non_zero_and_sort ==
  /\ ~iterating
  /\ inner' = RetainedAndSorted
  /\ UNCHANGED <<len, iterating, it>>

\* ... and the caller reduces the first values through the mutable iterator.
sorted_non_zero_iter_mut ==
  /\ ~iterating
  /\ inner' = [i \in DOMAIN RetainedAndSorted |->
                 IF i <= ReducedCount THEN Value(Scaled(RetainedAndSorted[i].n))
                                      ELSE RetainedAndSorted[i]]
  /\ UNCHANGED <<len, iterating, it>>

-----------------------------------------------------------------------------
(* StrainsIter *)

Following(s) == IF s = << >> THEN None ELSE Head(s)
Rest(s) == IF s = << >> THEN << >> ELSE Tail(s)

iter == /\ ~iterating /\ iterating' = TRUE
        /\ it' = [curr |-> Following(inner), rest |-> Rest(inner), len |-> len,
                  out |-> None]
        /\ UNCHANGED <<inner, len>>

\* next() at an entry `curr`, `rest` following: a used-up run of zeros is
\* skipped, a run gives one of its zeros, a value gives way to its successor.
Yield(curr, rest, v) ==
  it' = [curr |-> curr, rest |-> rest, len |-> it.len - 1, out |-> v]

\* Variant of NextFrom that gives a run of zeros as a single zero.
NextFromOnce(curr, rest) ==
  \/ curr = None /\ it' = [it EXCEPT !.curr = None, !.rest = << >>, !.out = None]
  \/ curr # None /\ IsValue(curr) /\ Yield(Following(rest), Rest(rest), curr.n)
  \/ curr # None /\ ~IsValue(curr) /\ curr.n > 0 /\ Yield(Following(rest), Rest(rest), 0)

NextFrom(curr, rest) ==
  \/ curr = None /\ it' = [it EXCEPT !.curr = None, !.rest = << >>, !.out = None]
  \/ curr # None /\ IsValue(curr) /\ Yield(Following(rest), Rest(rest), curr.n)
  \/ curr # None /\ ~IsValue(curr) /\ curr.n > 0 /\ Yield(Zeros(curr.n - 1), rest, 0)

UsedUp(e) == e # None /\ e.is_zero /\ e.n = 0

next ==
  /\ iterating
  /\ IF UsedUp(it.curr) THEN NextFrom(Following(it.rest), Rest(it.rest))
                        ELSE NextFrom(it.curr, it.rest)
  /\ UNCHANGED <<inner, len, iterating>>

finish == /\ iterating
          /\ iterating' = FALSE /\ it' = NoIter
          /\ UNCHANGED <<inner, len>>

Next == \/ \E v \in Strains : push(v)
        \/ sort_desc \/ retain_non_zero_and_sort \/ sorted_non_zero_iter_mut
        \/ iter \/ next \/ finish

Spec == Init /\ [][Next]_vars

-----------------------------------------------------------------------------
(* Properties *)

\* The list an entry list stands for.
ZeroRun(k) == [i \in 1..k |-> 0]
Expand(s) ==
  FlattenSeq([i \in DOMAIN s |-> IF IsValue(s[i]) THEN <<s[i].n>> ELSE ZeroRun(s[i].n)])

ToYield == IF it.curr = None THEN << >> ELSE Expand(<<it.curr>> \o it.rest)

\* No matter how zeros and values alternate, a run of zeros is one entry: the
\* list is as short as it can be.
Compact == \A i \in DOMAIN inner :
             /\ inner[i].n > 0
             /\ i > 1 /\ inner[i].is_zero => IsValue(inner[i - 1])

\* The iterator's count is enough for what it yields, so that `len -= 1` cannot
\* underflow, also after zeros were removed behind the count's back.
LenNeverShort == /\ len >= Len(Expand(inner))
                 /\ it.len >= Len(ToYield)

\* The compact list does what the plain list of the feature raw_strains does.
Raw == INSTANCE RawStrains WITH
  list <- Expand(inner), rest <- ToYield, out <- it.out
IsRawStrains == Raw!Spec
=============================================================================
