---------------------------- MODULE SlidingWindow ----------------------------
(***************************************************************************)
(* What an indexed queue of limited capacity promises: it holds the last   *)
(* Capacity elements that were pushed, oldest first, and an iterator over  *)
(* it hands those out from either end, each once.                          *)
(***************************************************************************)
EXTENDS Naturals, Sequences

CONSTANTS Values, Capacity, None

VARIABLES window,   \* the elements held, oldest first
          iterating,
          rest,     \* what an open iterator has not handed out yet
          out       \* the result of the latest call

vars == <<window, iterating, rest, out>>

Newest(s, n) == SubSeq(s, IF Len(s) > n THEN Len(s) - n + 1 ELSE 1, Len(s))
Drop(s, n) == SubSeq(s, n + 1, Len(s))

Init == window = << >> /\ ~iterating /\ rest = << >> /\ out = None

Push(v) == /\ ~iterating
           /\ window' = Newest(Append(window, v), Capacity)
           /\ UNCHANGED <<iterating, rest, out>>

Iterate == /\ iterating' /\ rest' = window /\ out' = None
           /\ UNCHANGED window

\* nth(n): n elements are thrown away, and the next one is handed out (any n past
\* the end does what Len(rest) does).
TakeFront(n) == /\ iterating
                /\ out' = IF n < Len(rest) THEN rest[n + 1] ELSE None
                /\ rest' = Drop(rest, n + 1)
                /\ UNCHANGED <<window, iterating>>

TakeBack == /\ iterating
            /\ out' = IF rest = << >> THEN None ELSE rest[Len(rest)]
            /\ rest' = SubSeq(rest, 1, Len(rest) - 1)
            /\ UNCHANGED <<window, iterating>>

Finish == /\ iterating /\ ~iterating' /\ rest' = << >> /\ out' = None
          /\ UNCHANGED window

Next == \/ \E v \in Values : Push(v)
        \/ Iterate \/ (\E n \in 0..Len(rest) : TakeFront(n)) \/ TakeBack \/ Finish

Spec == Init /\ [][Next]_vars
=============================================================================
