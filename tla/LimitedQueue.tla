---------------------------- MODULE LimitedQueue ----------------------------
(***************************************************************************)
(* LimitedQueue<T, N>: a ring buffer on the stack that keeps the last N    *)
(* elements, and its double-ended iterator over two slices of the buffer.  *)
(* It is the note history of the mania conversion and the rhythm history   *)
(* of a taiko skill.  An iterator borrows the queue: no push while one is  *)
(* open.                                                                   *)
(***************************************************************************)
EXTENDS Integers, Sequences

CONSTANTS Values, N, Default, None,
          MaxNth       \* bound on the n of nth(n)

VARIABLES queue,       \* [T; N], indexed from 0
          end, len,
          iterating, head, tail,  \* LimitedQueueIter's slices
          out,         \* the result of the latest iterator call
          window       \* the last N elements pushed (history)

vars == <<queue, end, len, iterating, head, tail, out, window>>

Init == /\ queue = [i \in 0..(N - 1) |-> Default]
        /\ end = N - 1 /\ len = 0
        /\ iterating = FALSE /\ head = << >> /\ tail = << >> /\ out = None
        /\ window = << >>

push(v) ==
  /\ ~iterating
  /\ end' = (end + 1) % N
  /\ queue' = [queue EXCEPT ![end'] = v]
  /\ len' = IF len < N THEN len + 1 ELSE len
  /\ window' = LET w == Append(window, v)
               IN IF Len(w) > N THEN Tail(w) ELSE w
  /\ UNCHANGED <<iterating, head, tail, out>>

\* queue[from..to] as a sequence, `to` excluded
Slice(from, to) == [i \in 1..(to - from) |-> queue[from + i - 1]]

\* as_slices
HeadSlice == IF len = N THEN Slice(end + 1, N) ELSE << >>
TailSlice == IF len = N THEN Slice(0, end + 1) ELSE Slice(0, len)

iter == /\ iterating' = TRUE /\ head' = HeadSlice /\ tail' = TailSlice /\ out' = None
        /\ UNCHANGED <<queue, end, len, window>>

Drop(s, n) == SubSeq(s, n + 1, Len(s))
Nth(s, n) == IF n < Len(s) THEN s[n + 1] ELSE None
Front(s) == SubSeq(s, 1, Len(s) - 1)

\* Iterator::next: an empty head is swapped with the tail.
iter_next ==
  /\ iterating
  /\ LET h == IF head = << >> THEN tail ELSE head
     IN  out' = Nth(h, 0) /\ head' = Drop(h, 1)
  /\ tail' = IF head = << >> THEN head ELSE tail
  /\ UNCHANGED <<queue, end, len, iterating, window>>

\* Variant of iter_nth that keeps the used-up tail.
iter_nth_keeps_tail(n) ==
  /\ iterating
  /\ LET short == Len(head) <= n
         h     == IF short THEN tail ELSE head
         k     == IF short THEN n - Len(head) ELSE n
     IN  out' = Nth(h, k) /\ head' = Drop(h, k + 1)
  /\ UNCHANGED <<queue, end, len, iterating, tail, window>>

\* Iterator::nth: when the head is too short it is left behind for the tail.
iter_nth(n) ==
  /\ iterating
  /\ LET short == Len(head) <= n
         h     == IF short THEN tail ELSE head
         k     == IF short THEN n - Len(head) ELSE n
     IN  out' = Nth(h, k) /\ head' = Drop(h, k + 1)
         /\ tail' = IF short THEN << >> ELSE tail
  /\ UNCHANGED <<queue, end, len, iterating, window>>

\* DoubleEndedIterator::next_back (and last)
iter_next_back ==
  /\ iterating
  /\ LET t == IF tail = << >> THEN head ELSE tail
     IN  out' = (IF t = << >> THEN None ELSE t[Len(t)]) /\ tail' = Front(t)
  /\ head' = IF tail = << >> THEN tail ELSE head
  /\ UNCHANGED <<queue, end, len, iterating, window>>

iter_drop ==
  /\ iterating
  /\ iterating' = FALSE /\ head' = << >> /\ tail' = << >> /\ out' = None
  /\ UNCHANGED <<queue, end, len, window>>

Next == \/ \E v \in Values : push(v)
        \/ iter \/ iter_next \/ (\E n \in 0..MaxNth : iter_nth(n))
        \/ iter_next_back \/ iter_drop

Spec == Init /\ [][Next]_vars

\* Variant of At that starts at the newest element of a full queue.
AtNewest(idx) == queue[(idx + (IF len = N THEN end ELSE 0)) % N]

\* Index::index; an index past the end of a queue that is not full wraps or
\* reads a slot that was never pushed.
At(idx) == queue[(idx + (IF len = N THEN end + 1 ELSE 0)) % N]

-----------------------------------------------------------------------------
(* Properties *)

\* The ring holds the window: `len` elements that end at `end`, wherever the
\* ring has wrapped to, and indexing counts from the oldest one.
HoldsWindow == /\ len = Len(window)
               /\ \A i \in 0..(len - 1) : At(i) = window[i + 1]

\* The queue and its iterator are the window of the last N pushes and an
\* iterator over that, however calls from both ends and skips are mixed.
Window == INSTANCE SlidingWindow WITH Capacity <- N, rest <- head \o tail
IsSlidingWindow == Window!Spec
=============================================================================
