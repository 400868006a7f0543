----------------------------- MODULE ObjectRuns -----------------------------
(* Small arithmetic shared by the calculators, and runs of object numbers. *)
EXTENDS Naturals, Sequences

Least(a, b) == IF a < b THEN a ELSE b

\* usize::saturating_sub
SaturatingSub(a, b) == IF a > b THEN a - b ELSE 0

\* The consecutive object numbers a..b, in order.
Run(a, b) == [i \in 1..SaturatingSub(b + 1, a) |-> a + i - 1]
=============================================================================
