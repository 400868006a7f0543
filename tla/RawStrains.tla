----------------------------- MODULE RawStrains -----------------------------
(***************************************************************************)
(* The list of section peaks as the feature `raw_strains` keeps it: a      *)
(* plain Vec<f64>, zeros included.  The compact list of the default build  *)
(* stands in for it.                                                       *)
(***************************************************************************)
EXTENDS Naturals, FiniteSets, SequencesExt

CONSTANTS Strains,    \* the strain values considered, numbers
          Scaled(_),  \* what a value becomes when it is reduced
          None

VARIABLES list,
          iterating, rest,  \* an open iterator and what it has still to yield
          out               \* the result of its latest next()

vars == <<list, iterating, rest, out>>

\* Sorted in descending order: the k-th value has less than k higher ones.
SortedDesc(s) ==
  [k \in DOMAIN s |-> CHOOSE v \in Range(s) : /\ Cardinality({j \in DOMAIN s : s[j] > v}) < k
                                             /\ Cardinality({j \in DOMAIN s : s[j] >= v}) >= k]

NonZero(s) == FlattenSeq([i \in DOMAIN s |-> IF s[i] > 0 THEN <<s[i]>> ELSE << >>])

Init == list = << >> /\ iterating = FALSE /\ rest = << >> /\ out = None

push(v) == /\ ~iterating
           /\ list' = Append(list, v)
           /\ UNCHANGED <<iterating, rest, out>>

sort_desc == /\ ~iterating
             /\ list' = SortedDesc(list)
             /\ UNCHANGED <<iterating, rest, out>>

retain_non_zero_and_sort ==
  /\ ~iterating
  /\ list' = SortedDesc(NonZero(list))
  /\ UNCHANGED <<iterating, rest, out>>

\* The caller of sorted_non_zero_iter_mut reduces the first n values.
sorted_non_zero_iter_mut(n) ==
  /\ ~iterating
  /\ LET s == SortedDesc(NonZero(list))
     IN  list' = [i \in DOMAIN s |-> IF i <= n THEN Scaled(s[i]) ELSE s[i]]
  /\ UNCHANGED <<iterating, rest, out>>

iter == /\ ~iterating
        /\ iterating' = TRUE /\ rest' = list /\ out' = None
        /\ UNCHANGED list

next == /\ iterating
        /\ IF rest = << >> THEN out' = None /\ rest' = rest
           ELSE out' = Head(rest) /\ rest' = Tail(rest)
        /\ UNCHANGED <<list, iterating>>

finish == /\ iterating
          /\ iterating' = FALSE /\ rest' = << >> /\ out' = None
          /\ UNCHANGED list

Next == \/ \E v \in Strains : push(v)
        \/ sort_desc \/ retain_non_zero_and_sort
        \/ \E n \in 0..Len(list) : sorted_non_zero_iter_mut(n)
        \/ iter \/ next \/ finish

Spec == Init /\ [][Next]_vars
=============================================================================
