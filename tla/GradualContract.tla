--------------------------- MODULE GradualContract ---------------------------
(***************************************************************************)
(* What the crate's gradual calculators promise, whatever the game mode.   *)
(* A calculator walks a map and holds one answer per object of the map;    *)
(* nth(n) skips n answers and gives the next one, and a request past the   *)
(* end gives the last answer that is left, which is how `last` is built    *)
(* (nth(usize::MAX)).  A drained calculator answers None for good.         *)
(***************************************************************************)
EXTENDS Naturals, Sequences

CONSTANT None

VARIABLES promised,   \* promised[k] is the answer after k objects
          pos,        \* the answers given or skipped so far
          call,       \* the n of the latest call
          answer      \* what the latest call returned

vars == <<promised, pos, call, answer>>

Least(a, b) == IF a < b THEN a ELSE b

Init == pos = 0 /\ answer = None

Give == /\ pos < Len(promised)
        /\ pos' = Least(pos + call' + 1, Len(promised))
        /\ answer' = promised[pos']

Drained == /\ pos = Len(promised)
           /\ pos' = pos
           /\ answer' = None

Next == /\ call' \in Nat
        /\ UNCHANGED promised
        /\ Give \/ Drained

Spec == Init /\ [][Next]_vars
=============================================================================
