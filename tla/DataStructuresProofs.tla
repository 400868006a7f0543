----------------------- MODULE DataStructuresProofs -------------------------
(***************************************************************************)
(* The shared data structures, for every size and every element: the ring  *)
(* of LimitedQueue is a sliding window, the compact list of StrainsVec is  *)
(* the plain list of raw_strains, and the two builders of osu!catch count  *)
(* alike.  Inv, the invariant that all of it follows from, is a            *)
(* disjunction over the structure in use.                                  *)
(***************************************************************************)
EXTENDS DataStructures, ObjectRunsProofs

\* The lemmas on counting osu!catch objects.
CO == INSTANCE CatchGradualProofs
        WITH Maps <- {}, MaxCall <- 0, map <- None, palpables <- None, count <- None,
             idx <- None, attrs <- None, movement <- None, call <- None, answer <- None

-----------------------------------------------------------------------------
(* LimitedQueue *)

\* A sum of less than two rounds wraps around the ring at most once.
LEMMA Wraps ==
  ASSUME NEW a \in 0..(2 * N - 1)
  PROVE  a % N = IF a < N THEN a ELSE a - N
<1>1. N \in Nat /\ N > 0
  BY NAssumption
<1>2. CASE a < N
  BY <1>1, <1>2
<1>3. CASE a >= N
  <2>1. (a - N) % N = a - N
    BY <1>1, <1>3
  <2>2. a % N = (a - N) % N
    BY <1>1, <1>3
  <2>3. QED
    BY <1>1, <1>3, <2>1, <2>2
<1>4. QED
  BY <1>1, <1>2, <1>3

Element == Values \cup {Default}

\* The ring holds the window of the last pushes.
QueueInv ==
  /\ queue \in [0..(N - 1) -> Element]
  /\ end \in 0..(N - 1) /\ len \in 0..N
  /\ window \in Seq(Element) /\ Len(window) = len
  /\ len < N => end = IF len = 0 THEN N - 1 ELSE len - 1
  /\ \A i \in 1..len : window[i] = queue[IF len = N /\ i + end < N THEN i + end
                                         ELSE IF len = N THEN i + end - N
                                         ELSE i - 1]
  /\ iterating \in BOOLEAN
  /\ head \in Seq(Element) /\ tail \in Seq(Element)

\* The ring reads as its window.
LEMMA QueueHoldsWindow == QueueInv => Queue!HoldsWindow
<1> SUFFICES ASSUME QueueInv PROVE Queue!HoldsWindow
  OBVIOUS
<1>1. N \in Nat /\ N > 0
  BY NAssumption
<1>2. len = Len(window) /\ len \in 0..N /\ end \in 0..(N - 1)
  BY DEF QueueInv
<1>3. ASSUME NEW i \in 0..(len - 1)
      PROVE  Queue!At(i) = window[i + 1]
  <2>1. CASE len = N
    <3>1. (i + (end + 1)) % N = IF i + (end + 1) < N THEN i + (end + 1) ELSE i + (end + 1) - N
      <4> DEFINE a == i + (end + 1)
      <4>1. a \in 0..(2 * N - 1)
        BY <1>1, <1>2, <2>1
      <4> HIDE DEF a
      <4>2. a % N = IF a < N THEN a ELSE a - N
        BY <4>1, Wraps, Zenon
      <4>3. QED
        BY <1>1, <1>2, <4>1, <4>2 DEF a
    <3>2. window[i + 1] = queue[IF i + 1 + end < N THEN i + 1 + end ELSE i + 1 + end - N]
      BY <1>1, <1>2, <2>1 DEF QueueInv
    <3>3. QED
      BY <1>1, <1>2, <2>1, <3>1, <3>2 DEF Queue!At
  <2>2. CASE len # N
    <3>1. i % N = i
      BY <1>1, <1>2, <2>2
    <3>2. window[i + 1] = queue[i]
      BY <1>1, <1>2, <2>2 DEF QueueInv
    <3>3. QED
      BY <1>1, <1>2, <2>2, <3>1, <3>2 DEF Queue!At
  <2>3. QED
    BY <2>1, <2>2
<1>4. QED
  BY <1>2, <1>3 DEF Queue!HoldsWindow

\* A new queue is empty.
LEMMA QueueInit == Queue!Init => QueueInv
BY NAssumption DEF Queue!Init, QueueInv, Element

\* Pushing a value evicts the oldest one from a ring that is full.
LEMMA PushInv ==
  ASSUME QueueInv, NEW v \in Values, Queue!push(v)
  PROVE  QueueInv'
<1>1. N \in Nat /\ N > 0
  BY NAssumption
<1>2. /\ queue \in [0..(N - 1) -> Element] /\ end \in 0..(N - 1) /\ len \in 0..N
      /\ window \in Seq(Element) /\ Len(window) = len
      /\ len < N => end = IF len = 0 THEN N - 1 ELSE len - 1
  BY DEF QueueInv
<1>3. end' = IF end = N - 1 THEN 0 ELSE end + 1
  <2>1. (end + 1) \in 0..(2 * N - 1)
    BY <1>1, <1>2
  <2>2. end' = (end + 1) % N
    BY DEF Queue!push
  <2>3. QED
    BY <1>1, <1>2, <2>1, <2>2, Wraps
<1>4. /\ queue' = [queue EXCEPT ![end'] = v]
      /\ len' = IF len < N THEN len + 1 ELSE len
      /\ UNCHANGED <<iterating, head, tail>>
  BY DEF Queue!push
<1>5. window' = IF len < N THEN Append(window, v) ELSE Tail(Append(window, v))
  BY <1>1, <1>2 DEF Queue!push
<1>6. v \in Element
  BY DEF Element
<1>7. /\ queue' \in [0..(N - 1) -> Element] /\ end' \in 0..(N - 1) /\ len' \in 0..N
      /\ len' < N => end' = IF len' = 0 THEN N - 1 ELSE len' - 1
  BY <1>1, <1>2, <1>3, <1>4, <1>6
<1>8. CASE len < N
  <2>1. /\ window' = Append(window, v) /\ window' \in Seq(Element)
        /\ Len(window') = len'
        /\ \A i \in 1..len : window'[i] = window[i]
        /\ window'[len + 1] = v
    BY <1>2, <1>4, <1>5, <1>6, <1>8
  <2>2. end' = len /\ len' = len + 1
    BY <1>1, <1>2, <1>3, <1>4, <1>8
  <2>3. \A i \in 1..len : window[i] = queue[i - 1]
    BY <1>1, <1>2, <1>8 DEF QueueInv
  <2>4. \A i \in 1..len : window'[i] = queue'[i - 1]
    BY <1>1, <1>2, <1>4, <2>1, <2>2, <2>3
  <2>5. window'[len'] = queue'[len' - 1]
    BY <1>1, <1>2, <1>4, <2>1, <2>2
  <2>6. \A i \in 1..len' : window'[i] = queue'[i - 1]
    BY <1>2, <2>2, <2>4, <2>5
  <2>7. \A i \in 1..len' : window'[i] = queue'[IF len' = N /\ i + end' < N THEN i + end'
                                                ELSE IF len' = N THEN i + end' - N
                                                ELSE i - 1]
    <3> SUFFICES ASSUME NEW i \in 1..len'
                 PROVE  (IF len' = N /\ i + end' < N THEN i + end'
                         ELSE IF len' = N THEN i + end' - N ELSE i - 1) = i - 1
      BY <2>6
    <3>1. QED
      BY <1>1, <1>2, <2>2
  <2>8. QED
    BY <1>2, <1>4, <1>7, <2>1, <2>7 DEF QueueInv
<1>9. CASE len = N
  <2>1. /\ window' \in Seq(Element) /\ Len(window') = N
        /\ \A i \in 1..(N - 1) : window'[i] = window[i + 1]
        /\ window'[N] = v
    BY <1>1, <1>2, <1>5, <1>6, <1>9
  <2>2. \A i \in 1..N : window[i] = queue[IF i + end < N THEN i + end ELSE i + end - N]
    BY <1>9 DEF QueueInv
  <2>3. len' = N
    BY <1>1, <1>4, <1>9
  <2>4. ASSUME NEW i \in 1..N
        PROVE  window'[i] = queue'[IF i + end' < N THEN i + end' ELSE i + end' - N]
    <3>1. CASE i = N
      BY <1>1, <1>2, <1>4, <1>7, <2>1, <3>1
    <3>2. CASE i < N
      <4>1. window'[i] = queue[IF i + 1 + end < N THEN i + 1 + end ELSE i + 1 + end - N]
        BY <1>1, <2>1, <2>2, <3>2
      <4>2. CASE end = N - 1
        BY <1>1, <1>2, <1>3, <1>4, <3>2, <4>1, <4>2
      <4>3. CASE end # N - 1
        BY <1>1, <1>2, <1>3, <1>4, <3>2, <4>1, <4>3
      <4>4. QED
        BY <4>2, <4>3
    <3>3. QED
      BY <1>1, <3>1, <3>2
  <2>5. QED
    BY <1>2, <1>4, <1>7, <2>1, <2>3, <2>4 DEF QueueInv
<1>10. QED
  BY <1>1, <1>2, <1>8, <1>9

\* as_slices splits the window where the ring wraps.
LEMMA SlicesAreWindow ==
  ASSUME QueueInv
  PROVE  /\ Queue!HeadSlice \in Seq(Element) /\ Queue!TailSlice \in Seq(Element)
         /\ Queue!HeadSlice \o Queue!TailSlice = window
<1>1. N \in Nat /\ N > 0
  BY NAssumption
<1>2. /\ queue \in [0..(N - 1) -> Element] /\ end \in 0..(N - 1) /\ len \in 0..N
      /\ window \in Seq(Element) /\ Len(window) = len
  BY DEF QueueInv
<1>3. ASSUME NEW from \in 0..N, NEW to \in 0..N, from <= to
      PROVE  /\ Queue!Slice(from, to) \in Seq(Element)
             /\ Len(Queue!Slice(from, to)) = to - from
             /\ \A i \in 1..(to - from) : Queue!Slice(from, to)[i] = queue[from + i - 1]
  BY <1>1, <1>2 DEF Queue!Slice
<1>4. CASE len = N
  <2> DEFINE h == Queue!Slice(end + 1, N)
             t == Queue!Slice(0, end + 1)
  <2>1. /\ h \in Seq(Element) /\ Len(h) = N - (end + 1)
        /\ \A i \in 1..(N - (end + 1)) : h[i] = queue[end + 1 + i - 1]
    <3>1. end + 1 \in 0..N /\ N \in 0..N /\ end + 1 <= N
      BY <1>1, <1>2
    <3>2. QED
      BY <1>3, <3>1
  <2>2. /\ t \in Seq(Element) /\ Len(t) = end + 1
        /\ \A i \in 1..(end + 1) : t[i] = queue[0 + i - 1]
    <3>1. end + 1 \in 0..N /\ 0 \in 0..N /\ 0 <= end + 1 /\ (end + 1) - 0 = end + 1
      BY <1>1, <1>2
    <3>2. QED
      BY <1>3, <3>1
  <2>3. Queue!HeadSlice = h /\ Queue!TailSlice = t
    BY <1>4 DEF Queue!HeadSlice, Queue!TailSlice
  <2> HIDE DEF h, t
  <2>4. \A i \in 1..N : window[i] = queue[IF i + end < N THEN i + end ELSE i + end - N]
    BY <1>4 DEF QueueInv
  <2>5. /\ h \o t \in Seq(Element) /\ Len(h \o t) = N
        /\ \A i \in 1..N : (h \o t)[i] = IF i <= Len(h) THEN h[i] ELSE t[i - Len(h)]
    <3>1. /\ h \o t \in Seq(Element) /\ Len(h \o t) = Len(h) + Len(t)
          /\ \A i \in 1..(Len(h) + Len(t)) :
               (h \o t)[i] = IF i <= Len(h) THEN h[i] ELSE t[i - Len(h)]
      BY <2>1, <2>2, ConcatProperties
    <3>2. Len(h) + Len(t) = N
      BY <1>1, <1>2, <2>1, <2>2
    <3>3. QED
      BY <3>1, <3>2
  <2>6. \A i \in 1..N : (h \o t)[i] = window[i]
    <3> SUFFICES ASSUME NEW i \in 1..N
                 PROVE  (h \o t)[i] = window[i]
      OBVIOUS
    <3>1. CASE i <= Len(h)
      <4>1. (h \o t)[i] = h[i] /\ i \in 1..(N - (end + 1))
        BY <2>1, <2>5, <3>1
      <4>2. h[i] = queue[end + i] /\ i + end < N
        BY <1>1, <1>2, <2>1, <4>1
      <4>3. QED
        BY <1>1, <1>2, <2>4, <4>1, <4>2
    <3>2. CASE ~(i <= Len(h))
      <4>1. (h \o t)[i] = t[i - Len(h)]
        BY <1>1, <1>2, <2>1, <2>5, <3>2
      <4>2. i - Len(h) \in 1..(end + 1)
        BY <1>1, <1>2, <2>1, <2>2, <3>2
      <4>3. t[i - Len(h)] = queue[i - Len(h) - 1]
        BY <2>2, <4>2
      <4>4. i - Len(h) - 1 = i + end - N /\ ~(i + end < N)
        BY <1>1, <1>2, <2>1, <3>2
      <4>5. window[i] = queue[i + end - N]
        BY <2>4, <4>4
      <4>6. QED
        BY <4>1, <4>3, <4>4, <4>5
    <3>3. QED
      BY <3>1, <3>2
  <2>7. h \o t = window
    BY <1>2, <1>4, <2>5, <2>6, SeqEqual
  <2>8. QED
    BY <2>1, <2>2, <2>3, <2>7
<1>5. CASE len < N
  <2>1. /\ Queue!Slice(0, len) \in Seq(Element) /\ Len(Queue!Slice(0, len)) = len
        /\ \A i \in 1..len : Queue!Slice(0, len)[i] = queue[0 + i - 1]
    <3>1. len \in 0..N /\ 0 \in 0..N /\ 0 <= len /\ len - 0 = len
      BY <1>1, <1>2
    <3>2. QED
      BY <1>3, <3>1
  <2>2. Queue!HeadSlice = << >> /\ Queue!TailSlice = Queue!Slice(0, len)
    BY <1>1, <1>5 DEF Queue!HeadSlice, Queue!TailSlice
  <2>3. \A i \in 1..len : window[i] = queue[i - 1]
    BY <1>1, <1>2, <1>5 DEF QueueInv
  <2>4. Queue!Slice(0, len) = window
    <3> DEFINE t == Queue!Slice(0, len)
    <3>1. /\ t \in Seq(Element) /\ Len(t) = len
          /\ \A i \in 1..len : t[i] = window[i]
      BY <1>2, <2>1, <2>3
    <3> HIDE DEF t
    <3>2. t = window
      BY <1>2, <3>1
    <3>3. QED
      BY <3>2 DEF t
  <2>5. QED
    BY <1>2, <2>2, <2>4
<1>6. QED
  BY <1>1, <1>2, <1>4, <1>5

\* An iterator hands out what is left of it from either end, whatever was
\* taken from its two slices before.
LEMMA QueueStep ==
  ASSUME QueueInv, Queue!Next
  PROVE  /\ QueueInv'
         /\ Queue!Window!Next
<1> USE DEF Queue!Drop, Queue!Front, Queue!Nth
<1>1. /\ N \in Nat /\ N > 0 /\ len \in 0..N
      /\ window \in Seq(Element) /\ Len(window) = len
      /\ iterating \in BOOLEAN
      /\ head \in Seq(Element) /\ tail \in Seq(Element)
  BY NAssumption DEF QueueInv
<1>2. ASSUME NEW v \in Values, Queue!push(v)
      PROVE  QueueInv' /\ Queue!Window!Next
  <2>1. QueueInv'
    BY <1>2, PushInv
  <2>2. Queue!Window!Push(v)
    <3>1. v \in Element
      BY DEF Element
    <3> DEFINE w == Append(window, v)
    <3>2. w \in Seq(Element) /\ Len(w) = len + 1
      BY <1>1, <3>1
    <3>3. window' = IF Len(w) > N THEN Tail(w) ELSE w
      BY <1>2 DEF Queue!push
    <3>4. Queue!Window!Newest(w, N) = IF Len(w) > N THEN Tail(w) ELSE w
      <4> HIDE DEF w
      <4>1. CASE Len(w) > N
        <5>1. Len(w) - N + 1 = 2
          BY <1>1, <3>2, <4>1
        <5>2. Queue!Window!Newest(w, N) = SubSeq(w, 2, Len(w))
          BY <4>1, <5>1 DEF Queue!Window!Newest
        <5>3. SubSeq(w, 2, Len(w)) = Tail(w)
          BY <1>1, <3>2, <4>1
        <5>4. QED
          BY <4>1, <5>2, <5>3
      <4>2. CASE ~(Len(w) > N)
        <5>1. SubSeq(w, 1, Len(w)) = w
          BY <1>1, <3>2
        <5>2. QED
          BY <4>2, <5>1 DEF Queue!Window!Newest
      <4>3. QED
        BY <4>1, <4>2
    <3>5. ~iterating /\ UNCHANGED <<iterating, head, tail, out>>
      BY <1>2 DEF Queue!push
    <3>6. QED
      BY <3>3, <3>4, <3>5 DEF Queue!Window!Push
  <2>3. QED
    BY <2>1, <2>2 DEF Queue!Window!Next
<1>3. CASE Queue!iter
  <2>1. /\ Queue!HeadSlice \in Seq(Element) /\ Queue!TailSlice \in Seq(Element)
        /\ Queue!HeadSlice \o Queue!TailSlice = window
    BY SlicesAreWindow
  <2>2. QueueInv'
    BY <1>3, <2>1 DEF Queue!iter, QueueInv
  <2>3. Queue!Window!Iterate
    BY <1>3, <2>1 DEF Queue!iter, Queue!Window!Iterate
  <2>4. QED
    BY <2>2, <2>3 DEF Queue!Window!Next
<1>4. CASE Queue!iter_next
  <2> DEFINE h == IF head = << >> THEN tail ELSE head
  <2>1. /\ iterating
        /\ out' = IF 0 < Len(h) THEN h[0 + 1] ELSE None
        /\ head' = SubSeq(h, 1 + 1, Len(h))
        /\ tail' = IF head = << >> THEN head ELSE tail
        /\ UNCHANGED <<queue, end, len, iterating, window>>
    BY <1>4 DEF Queue!iter_next
  <2>2. h \in Seq(Element) /\ head' \in Seq(Element) /\ tail' \in Seq(Element)
    BY <1>1, <2>1
  <2>3. QueueInv'
    BY <2>1, <2>2 DEF QueueInv
  <2>4. out' = IF 0 < Len(head \o tail) THEN (head \o tail)[0 + 1] ELSE None
    BY <1>1, <2>1
  <2>5. head' \o tail' = SubSeq(head \o tail, 0 + 1 + 1, Len(head \o tail))
    <3>1. CASE head = << >>
      <4>1. head' = SubSeq(tail, 2, Len(tail)) /\ tail' = << >> /\ head \o tail = tail
        BY <1>1, <2>1, <3>1, ConcatEmptySeq
      <4>2. QED
        BY <2>2, <4>1, ConcatEmptySeq
    <3>2. CASE head # << >>
      <4>1. 1 <= Len(head) /\ 1 \in Nat
        BY <1>1, <3>2, EmptySeq
      <4>2. SubSeq(head \o tail, 1 + 1, Len(head \o tail)) = SubSeq(head, 1 + 1, Len(head)) \o tail
        BY <1>1, <4>1, DropOfConcat
      <4>3. 0 + 1 + 1 = 1 + 1
        OBVIOUS
      <4>4. head' = SubSeq(head, 1 + 1, Len(head)) /\ tail' = tail
        BY <2>1, <3>2
      <4>5. QED
        BY <4>2, <4>3, <4>4, Zenon
    <3>3. QED
      BY <3>1, <3>2
  <2>6. Queue!Window!TakeFront(0)
    BY <2>1, <2>4, <2>5 DEF Queue!Window!TakeFront, Queue!Window!Drop
  <2>7. 0 \in 0..Len(head \o tail)
    BY <1>1
  <2>8. QED
    BY <2>3, <2>6, <2>7 DEF Queue!Window!Next
<1>5. ASSUME NEW n \in 0..MaxNth, Queue!iter_nth(n)
      PROVE  QueueInv' /\ Queue!Window!Next
  <2> DEFINE rest == head \o tail
             h == IF Len(head) <= n THEN tail ELSE head
             k == IF Len(head) <= n THEN n - Len(head) ELSE n
             m == IF n < Len(rest) THEN n ELSE Len(rest)
  <2>1. /\ iterating
        /\ out' = IF k < Len(h) THEN h[k + 1] ELSE None
        /\ head' = SubSeq(h, k + 1 + 1, Len(h))
        /\ tail' = IF Len(head) <= n THEN << >> ELSE tail
        /\ UNCHANGED <<queue, end, len, iterating, window>>
    BY <1>5 DEF Queue!iter_nth
  <2>2. n \in Nat /\ k \in Nat /\ h \in Seq(Element)
    BY <1>1
  <2>3. head' \in Seq(Element) /\ tail' \in Seq(Element)
    BY <1>1, <2>1, <2>2
  <2>4. QueueInv'
    BY <2>1, <2>3 DEF QueueInv
  <2>5. Len(rest) = Len(head) + Len(tail) /\ rest \in Seq(Element)
    BY <1>1
  <2>6. out' = IF m < Len(rest) THEN rest[m + 1] ELSE None
    BY <1>1, <2>1, <2>2
  <2>7. head' \o tail' = SubSeq(rest, m + 1 + 1, Len(rest))
    <3>1. SubSeq(rest, n + 1 + 1, Len(rest)) =
            IF n + 1 <= Len(head) THEN SubSeq(head, n + 1 + 1, Len(head)) \o tail
                                  ELSE SubSeq(tail, (n + 1) - Len(head) + 1, Len(tail))
      <4> DEFINE p == n + 1
      <4>1. p \in Nat
        BY <2>2
      <4> HIDE DEF p
      <4>2. SubSeq(rest, p + 1, Len(rest)) =
              IF p <= Len(head) THEN SubSeq(head, p + 1, Len(head)) \o tail
                                ELSE SubSeq(tail, p - Len(head) + 1, Len(tail))
        BY <1>1, <4>1, DropOfConcat
      <4>3. QED
        BY <4>2 DEF p
    <3>2. SubSeq(rest, m + 1 + 1, Len(rest)) = SubSeq(rest, n + 1 + 1, Len(rest))
      <4>1. CASE n < Len(rest)
        BY <4>1
      <4>2. CASE ~(n < Len(rest))
        <5> HIDE DEF rest
        <5>1. /\ SubSeq(rest, n + 1 + 1, Len(rest)) = << >>
              /\ SubSeq(rest, Len(rest) + 1 + 1, Len(rest)) = << >>
          BY <2>2, <2>5, <4>2, SubSeqEmpty
        <5>2. QED
          BY <4>2, <5>1
      <4>3. QED
        BY <4>1, <4>2
    <3>3. CASE Len(head) <= n
      <4>1. head' = SubSeq(tail, n - Len(head) + 1 + 1, Len(tail)) /\ tail' = << >>
        BY <2>1, <3>3
      <4>2. n - Len(head) + 1 + 1 = (n + 1) - Len(head) + 1 /\ ~(n + 1 <= Len(head))
        BY <1>1, <2>2, <3>3
      <4>3. head' \o tail' = head'
        BY <2>3, <4>1, ConcatEmptySeq
      <4>4. QED
        BY <3>1, <3>2, <4>1, <4>2, <4>3
    <3>4. CASE ~(Len(head) <= n)
      <4>1. head' = SubSeq(head, n + 1 + 1, Len(head)) /\ tail' = tail
        BY <2>1, <3>4
      <4>2. n + 1 <= Len(head)
        BY <1>1, <2>2, <3>4
      <4>3. QED
        BY <3>1, <3>2, <4>1, <4>2
    <3>5. QED
      BY <3>3, <3>4
  <2>8. m \in 0..Len(rest)
    BY <2>2, <2>5
  <2>9. Queue!Window!TakeFront(m)
    BY <2>1, <2>6, <2>7 DEF Queue!Window!TakeFront, Queue!Window!Drop
  <2>10. QED
    BY <2>4, <2>8, <2>9 DEF Queue!Window!Next
<1>6. CASE Queue!iter_next_back
  <2> DEFINE t == IF tail = << >> THEN head ELSE tail
             rest == head \o tail
  <2>1. /\ iterating
        /\ out' = (IF t = << >> THEN None ELSE t[Len(t)])
        /\ tail' = SubSeq(t, 1, Len(t) - 1)
        /\ head' = IF tail = << >> THEN tail ELSE head
        /\ UNCHANGED <<queue, end, len, iterating, window>>
    BY <1>6 DEF Queue!iter_next_back
  <2>2. t \in Seq(Element) /\ head' \in Seq(Element) /\ tail' \in Seq(Element)
    BY <1>1, <2>1
  <2>3. QueueInv'
    BY <2>1, <2>2 DEF QueueInv
  <2>4. out' = IF rest = << >> THEN None ELSE rest[Len(rest)]
    BY <1>1, <2>1
  <2>5. head' \o tail' = SubSeq(rest, 1, Len(rest) - 1)
    <3>1. CASE tail = << >>
      <4>1. rest = head /\ tail' = SubSeq(head, 1, Len(head) - 1) /\ head' = << >>
        BY <1>1, <2>1, <3>1, ConcatEmptySeq
      <4>2. head' \o tail' = tail'
        BY <2>2, <4>1, ConcatEmptySeq
      <4>3. QED
        BY <4>1, <4>2
    <3>2. CASE tail # << >>
      <4>1. tail' = SubSeq(tail, 1, Len(tail) - 1) /\ head' = head
        BY <2>1, <3>2
      <4>2. QED
        BY <1>1, <3>2, <4>1, FrontOfConcat
    <3>3. QED
      BY <3>1, <3>2
  <2>6. Queue!Window!TakeBack
    BY <2>1, <2>4, <2>5 DEF Queue!Window!TakeBack
  <2>7. QED
    BY <2>3, <2>6 DEF Queue!Window!Next
<1>7. CASE Queue!iter_drop
  <2>1. QueueInv'
    <3>1. /\ iterating' = FALSE /\ head' = << >> /\ tail' = << >>
          /\ UNCHANGED <<queue, end, len, window>>
      BY <1>7 DEF Queue!iter_drop
    <3>2. << >> \in Seq(Element)
      BY EmptySeq
    <3>3. QED
      BY <3>1, <3>2 DEF QueueInv
  <2>2. Queue!Window!Finish
    BY <1>7 DEF Queue!iter_drop, Queue!Window!Finish
  <2>3. QED
    BY <2>1, <2>2 DEF Queue!Window!Next
<1>8. QED
  BY <1>2, <1>3, <1>4, <1>5, <1>6, <1>7 DEF Queue!Next

-----------------------------------------------------------------------------
(* StrainsVec: what the entries stand for *)

\* The instances of FlattenSeq and Cardinality are those of this module.
LEMMA VecFlatten ==
  /\ \A p : Vec!FlattenSeq(p) = FlattenSeq(p)
  /\ \A p : Vec!Raw!FlattenSeq(p) = FlattenSeq(p)
BY DEF Vec!FlattenSeq, Vec!Raw!FlattenSeq, FlattenSeq

Entry == [is_zero : BOOLEAN, n : Nat \ {0}]
ValueEntry == {e \in Entry : ~e.is_zero}
AnyEntry == [is_zero : BOOLEAN, n : Nat]

\* What one entry stands for.
Piece(e) == IF Vec!IsValue(e) THEN <<e.n>> ELSE Vec!ZeroRun(e.n)

\* A run of k zeros.
LEMMA ZeroRunType ==
  ASSUME NEW k \in Nat
  PROVE  /\ Vec!ZeroRun(k) \in Seq(Nat) /\ Len(Vec!ZeroRun(k)) = k
         /\ \A i \in 1..k : Vec!ZeroRun(k)[i] = 0
BY DEF Vec!ZeroRun

\* What an entry stands for is a list of values.
LEMMA PieceType ==
  ASSUME NEW e \in AnyEntry
  PROVE  Piece(e) \in Seq(Nat)
<1>1. e.n \in Nat
  BY DEF AnyEntry
<1>2. <<e.n>> \in Seq(Nat)
  BY <1>1
<1>3. QED
  BY <1>1, <1>2, ZeroRunType DEF Piece

Pieces(s) == [i \in DOMAIN s |-> Piece(s[i])]

\* The pieces of a list of entries.
LEMMA PiecesType ==
  ASSUME NEW s \in Seq(AnyEntry)
  PROVE  Pieces(s) \in Seq(Seq(Nat)) /\ Len(Pieces(s)) = Len(s) /\ DOMAIN s = 1..Len(s)
<1>1. DOMAIN s = 1..Len(s) /\ Len(s) \in Nat
  BY LenProperties
<1>2. \A i \in 1..Len(s) : Piece(s[i]) \in Seq(Nat)
  BY ElementOfSeq, PieceType
<1>3. QED
  BY <1>1, <1>2 DEF Pieces

\* A list of entries stands for its pieces, one after the other.
LEMMA ExpandIsPieces == \A s : Vec!Expand(s) = FlattenSeq(Pieces(s))
BY VecFlatten DEF Vec!Expand, Pieces, Piece

\* What a list of entries stands for is a list of values.
LEMMA ExpandType ==
  ASSUME NEW s \in Seq(AnyEntry)
  PROVE  Vec!Expand(s) \in Seq(Nat)
BY PiecesType, ExpandIsPieces, FlattenType

\* No entries stand for no values.
LEMMA ExpandEmpty == Vec!Expand(<< >>) = << >>
<1>1. Pieces(<< >>) = << >>
  BY DEF Pieces
<1>2. QED
  BY <1>1, ExpandIsPieces, FlattenEmpty

\* Expanding distributes over concatenation.
LEMMA ExpandConcat ==
  ASSUME NEW s \in Seq(AnyEntry), NEW t \in Seq(AnyEntry)
  PROVE  Vec!Expand(s \o t) = Vec!Expand(s) \o Vec!Expand(t)
<1>1. /\ s \o t \in Seq(AnyEntry) /\ Len(s \o t) = Len(s) + Len(t)
      /\ \A i \in 1..(Len(s) + Len(t)) :
           (s \o t)[i] = IF i <= Len(s) THEN s[i] ELSE t[i - Len(s)]
  BY ConcatProperties
<1>2. /\ Pieces(s) \in Seq(Seq(Nat)) /\ Len(Pieces(s)) = Len(s) /\ DOMAIN s = 1..Len(s)
      /\ Pieces(t) \in Seq(Seq(Nat)) /\ Len(Pieces(t)) = Len(t) /\ DOMAIN t = 1..Len(t)
      /\ Pieces(s \o t) \in Seq(Seq(Nat)) /\ Len(Pieces(s \o t)) = Len(s \o t)
      /\ DOMAIN (s \o t) = 1..Len(s \o t)
      /\ Len(s) \in Nat /\ Len(t) \in Nat
  BY <1>1, PiecesType, LenProperties
<1>3. /\ Pieces(s) \o Pieces(t) \in Seq(Seq(Nat))
      /\ Len(Pieces(s) \o Pieces(t)) = Len(s) + Len(t)
      /\ \A i \in 1..(Len(s) + Len(t)) :
           (Pieces(s) \o Pieces(t))[i] =
             IF i <= Len(s) THEN Pieces(s)[i] ELSE Pieces(t)[i - Len(s)]
  <2>1. /\ Pieces(s) \o Pieces(t) \in Seq(Seq(Nat))
        /\ Len(Pieces(s) \o Pieces(t)) = Len(Pieces(s)) + Len(Pieces(t))
        /\ \A i \in 1..(Len(Pieces(s)) + Len(Pieces(t))) :
             (Pieces(s) \o Pieces(t))[i] =
               IF i <= Len(Pieces(s)) THEN Pieces(s)[i] ELSE Pieces(t)[i - Len(Pieces(s))]
    <3>1. Pieces(s) \in Seq(Seq(Nat)) /\ Pieces(t) \in Seq(Seq(Nat))
      BY <1>2
    <3>2. QED
      BY <3>1, ConcatProperties, Zenon
  <2>2. Len(Pieces(s)) = Len(s) /\ Len(Pieces(t)) = Len(t)
    BY <1>2
  <2>3. QED
    BY <2>1, <2>2, Zenon
<1>4. ASSUME NEW i \in 1..(Len(s) + Len(t))
      PROVE  Pieces(s \o t)[i] = (Pieces(s) \o Pieces(t))[i]
  <2>1. Pieces(s \o t)[i] = Piece((s \o t)[i])
    BY <1>1, <1>2 DEF Pieces
  <2>2. CASE i <= Len(s)
    <3>1. Pieces(s)[i] = Piece(s[i])
      BY <1>2, <2>2 DEF Pieces
    <3>2. QED
      BY <1>1, <1>3, <2>1, <2>2, <3>1
  <2>3. CASE ~(i <= Len(s))
    <3>1. i - Len(s) \in 1..Len(t)
      BY <1>2, <2>3
    <3>2. Pieces(t)[i - Len(s)] = Piece(t[i - Len(s)])
      BY <1>2, <3>1 DEF Pieces
    <3>3. QED
      BY <1>1, <1>3, <2>1, <2>3, <3>2
  <2>4. QED
    BY <2>2, <2>3
<1>5. Pieces(s \o t) = Pieces(s) \o Pieces(t)
  BY <1>1, <1>2, <1>3, <1>4, SeqEqual
<1>6. QED
  BY <1>2, <1>5, ExpandIsPieces, FlattenConcat

\* A single entry stands for its piece.
LEMMA ExpandOne ==
  ASSUME NEW e \in AnyEntry
  PROVE  Vec!Expand(<<e>>) = Piece(e)
<1>1. Pieces(<<e>>) = <<Piece(e)>>
  BY DEF Pieces
<1>2. QED
  BY <1>1, ExpandIsPieces, FlattenOne, PieceType

\* A list of values stands for their numbers.
LEMMA ExpandValues ==
  ASSUME NEW s \in Seq(ValueEntry)
  PROVE  Vec!Expand(s) = [i \in 1..Len(s) |-> s[i].n]
<1> DEFINE T == {u \in Seq(ValueEntry) : Vec!Expand(u) = [i \in 1..Len(u) |-> u[i].n]}
<1>1. << >> \in T
  <2>1. [i \in 1..Len(<< >>) |-> << >>[i].n] = << >>
    OBVIOUS
  <2>2. QED
    BY <2>1, ExpandEmpty, EmptySeq
<1>2. ASSUME NEW u \in Seq(ValueEntry), NEW e \in ValueEntry, u \in T
      PROVE  Append(u, e) \in T
  <2>1. /\ Append(u, e) = u \o <<e>> /\ Append(u, e) \in Seq(ValueEntry)
        /\ Len(Append(u, e)) = Len(u) + 1 /\ Len(u) \in Nat
        /\ \A i \in 1..(Len(u) + 1) : Append(u, e)[i] = IF i <= Len(u) THEN u[i] ELSE e
    OBVIOUS
  <2>2. u \in Seq(AnyEntry) /\ e \in AnyEntry /\ <<e>> \in Seq(AnyEntry) /\ e.n \in Nat
        /\ \A i \in 1..Len(u) : u[i].n \in Nat
    <3>1. ValueEntry \subseteq AnyEntry
      BY DEF ValueEntry, Entry, AnyEntry
    <3>2. e \in AnyEntry /\ u \in Seq(AnyEntry) /\ <<e>> \in Seq(AnyEntry)
      BY <3>1, SeqMonotonic
    <3>3. \A d \in AnyEntry : d.n \in Nat
      BY DEF AnyEntry
    <3>4. QED
      BY <3>2, <3>3, ElementOfSeq
  <2>3. Piece(e) = <<e.n>>
    BY DEF Piece, Vec!IsValue, ValueEntry
  <2>4. Vec!Expand(Append(u, e)) = Vec!Expand(u) \o <<e.n>>
    BY <2>1, <2>2, <2>3, ExpandConcat, ExpandOne
  <2> DEFINE f == [i \in 1..Len(u) |-> u[i].n]
             g == [i \in 1..(Len(u) + 1) |-> Append(u, e)[i].n]
  <2>5. f \in Seq(Nat) /\ Len(f) = Len(u) /\ \A i \in 1..Len(u) : f[i] = u[i].n
    BY <2>1, <2>2
  <2>6. g \in Seq(Nat) /\ Len(g) = Len(u) + 1
        /\ \A i \in 1..(Len(u) + 1) : g[i] = IF i <= Len(u) THEN u[i].n ELSE e.n
    <3>1. \A i \in 1..(Len(u) + 1) :
            Append(u, e)[i].n = IF i <= Len(u) THEN u[i].n ELSE e.n
      BY <2>1
    <3>2. \A i \in 1..(Len(u) + 1) : Append(u, e)[i].n \in Nat
      BY <2>1, <2>2, <3>1
    <3>3. g \in [1..(Len(u) + 1) -> Nat]
      BY <3>2
    <3>4. QED
      BY <2>1, <3>1, <3>3
  <2>7. f \o <<e.n>> = g
    <3> HIDE DEF f, g
    <3> DEFINE h == Append(f, e.n)
    <3>1. f \o <<e.n>> = h
      BY <2>2, <2>5
    <3>2. /\ h \in Seq(Nat) /\ Len(h) = Len(u) + 1
          /\ \A i \in 1..(Len(u) + 1) : h[i] = IF i <= Len(u) THEN u[i].n ELSE e.n
      BY <2>1, <2>2, <2>5
    <3> HIDE DEF h
    <3>3. \A i \in 1..(Len(u) + 1) : h[i] = g[i]
      BY <2>6, <3>2
    <3>4. h = g
      BY <2>1, <2>6, <3>2, <3>3, SeqEqual
    <3>5. QED
      BY <3>1, <3>4
  <2>8. Vec!Expand(u) = f
    BY <1>2
  <2>9. Vec!Expand(Append(u, e)) = g
    BY <2>4, <2>7, <2>8
  <2>10. QED
    BY <2>1, <2>9
<1> HIDE DEF T
<1>3. \A u \in Seq(ValueEntry) : u \in T
  BY <1>1, <1>2, SequenceInduction
<1>4. QED
  BY <1>3 DEF T

\* Counting and ranges are the same in the instances.
LEMMA VecInstances ==
  /\ \A S : Vec!Cardinality(S) = Cardinality(S)
  /\ \A S : Vec!Raw!Cardinality(S) = Cardinality(S)
  /\ \A f : Vec!Range(f) = {f[x] : x \in DOMAIN f}
  /\ \A f : Vec!Raw!Range(f) = {f[x] : x \in DOMAIN f}
<1>1. \A S : Vec!Cardinality(S) = Cardinality(S)
  BY DEF Vec!Cardinality, Cardinality
<1>2. \A S : Vec!Raw!Cardinality(S) = Cardinality(S)
  BY DEF Vec!Raw!Cardinality, Cardinality
<1>3. QED
  BY <1>1, <1>2 DEF Vec!Range, Vec!Raw!Range

\* Sorting the entries of a list without zeros sorts the numbers they stand for.
LEMMA DescendingEntries ==
  ASSUME NEW s \in Seq(ValueEntry)
  PROVE  /\ Vec!Descending(s) \in Seq(ValueEntry)
         /\ Len(Vec!Descending(s)) = Len(s)
         /\ Vec!Raw!SortedDesc(Vec!Expand(s)) = Vec!Expand(Vec!Descending(s))
<1> DEFINE n == Len(s)
           f == [i \in 1..n |-> s[i].n]
           d == Vec!Descending(s)
           Ranked(k, e) == /\ Cardinality({j \in 1..n : f[j] > e.n}) < k
                           /\ Cardinality({j \in 1..n : f[j] >= e.n}) >= k
<1>1. /\ n \in Nat /\ DOMAIN s = 1..n
      /\ \A i \in 1..n : s[i] \in ValueEntry
      /\ \A e \in ValueEntry : e = [is_zero |-> FALSE, n |-> e.n] /\ e.n \in Nat
  <2>1. \A e \in ValueEntry : e = [is_zero |-> FALSE, n |-> e.n] /\ e.n \in Nat
    BY DEF ValueEntry, Entry
  <2>2. QED
    BY <2>1, LenProperties, ElementOfSeq
<1>2. f \in [1..n -> Nat]
  BY <1>1
<1>3. Vec!Expand(s) = f
  BY ExpandValues
<1>4. Vec!Range(s) = {s[i] : i \in 1..n} /\ Vec!Raw!Range(f) = {f[i] : i \in 1..n}
  <2>1. DOMAIN f = 1..n
    OBVIOUS
  <2>2. QED
    BY <1>1, <2>1, VecInstances
<1> HIDE DEF n, f
<1>5. ASSUME NEW k \in 1..n
      PROVE  /\ d[k] \in {s[i] : i \in 1..n}
             /\ Ranked(k, d[k])
  <2> DEFINE P(e) == /\ Vec!Cardinality({j \in DOMAIN s : Vec!Higher(s[j], e)}) < k
                     /\ Vec!Cardinality({j \in DOMAIN s : ~Vec!Higher(e, s[j])}) >= k
  <2>1. d[k] = CHOOSE e \in {s[i] : i \in 1..n} : P(e)
    BY <1>1, <1>4 DEF Vec!Descending
  <2>2. ASSUME NEW e \in {s[i] : i \in 1..n}
        PROVE  P(e) <=> Ranked(k, e)
    <3>1. e.n \in Nat /\ \A j \in 1..n : f[j] = s[j].n /\ f[j] \in Nat
      BY <1>1, <1>2 DEF f
    <3>2. {j \in DOMAIN s : Vec!Higher(s[j], e)} = {j \in 1..n : f[j] > e.n}
      BY <1>1, <3>1 DEF Vec!Higher
    <3>3. {j \in DOMAIN s : ~Vec!Higher(e, s[j])} = {j \in 1..n : f[j] >= e.n}
      BY <1>1, <3>1 DEF Vec!Higher
    <3>4. QED
      BY <3>2, <3>3, VecInstances
  <2>3. \E e \in {s[i] : i \in 1..n} : Ranked(k, e)
    <3>1. PICK i \in 1..n : /\ Cardinality({j \in 1..n : f[j] > f[i]}) < k
                            /\ Cardinality({j \in 1..n : f[j] >= f[i]}) >= k
      BY <1>1, <1>2, RankExists
    <3>2. f[i] = s[i].n
      BY DEF f
    <3>3. Ranked(k, s[i])
      BY <3>1, <3>2
    <3>4. QED
      BY <3>3
  <2>4. \E e \in {s[i] : i \in 1..n} : P(e)
    BY <2>2, <2>3
  <2> HIDE DEF P, Ranked
  <2>5. d[k] \in {s[i] : i \in 1..n} /\ P(d[k])
    BY <2>1, <2>4, Zenon
  <2>6. QED
    BY <2>2, <2>5
<1>6. d = [k \in 1..n |-> d[k]]
  <2> DEFINE b(k) == CHOOSE e \in Vec!Range(s) :
                       /\ Vec!Cardinality({j \in DOMAIN s : Vec!Higher(s[j], e)}) < k
                       /\ Vec!Cardinality({j \in DOMAIN s : ~Vec!Higher(e, s[j])}) >= k
             c == [k \in 1..n |-> b(k)]
  <2>1. d = c
    BY <1>1 DEF Vec!Descending
  <2> HIDE DEF b
  <2>2. c = [k \in 1..n |-> c[k]]
    BY Zenon
  <2> HIDE DEF c, d
  <2>3. QED
    BY <2>1, <2>2
<1>7. \A k \in 1..n : d[k] \in ValueEntry
  BY <1>1, <1>5
<1>8. d \in Seq(ValueEntry) /\ Len(d) = n
  <2> HIDE DEF d
  <2>1. d \in [1..n -> ValueEntry]
    BY <1>6, <1>7
  <2>2. QED
    BY <1>1, <2>1
<1>9. Vec!Expand(d) = [k \in 1..n |-> d[k].n]
  BY <1>8, ExpandValues
<1>10. ASSUME NEW k \in 1..n
       PROVE  d[k].n = CHOOSE v \in Vec!Raw!Range(f) :
                         /\ Vec!Raw!Cardinality({j \in DOMAIN f : f[j] > v}) < k
                         /\ Vec!Raw!Cardinality({j \in DOMAIN f : f[j] >= v}) >= k
  <2> DEFINE Q(v) == /\ Vec!Raw!Cardinality({j \in DOMAIN f : f[j] > v}) < k
                     /\ Vec!Raw!Cardinality({j \in DOMAIN f : f[j] >= v}) >= k
             R == {f[i] : i \in 1..n}
  <2>1. DOMAIN f = 1..n
    BY DEF f
  <2>2. \A v : Q(v) <=> /\ Cardinality({j \in 1..n : f[j] > v}) < k
                        /\ Cardinality({j \in 1..n : f[j] >= v}) >= k
    BY <2>1, VecInstances
  <2>3. Q(d[k].n)
    BY <1>5, <2>2
  <2>4. d[k].n \in R
    <3>1. PICK i \in 1..n : d[k] = s[i]
      BY <1>5
    <3>2. f[i] = s[i].n
      BY DEF f
    <3>3. QED
      BY <3>1, <3>2
  <2>5. \A v \in R : v \in Nat
    BY <1>2
  <2>6. ASSUME NEW v \in R, Q(v)
        PROVE  v = d[k].n
    <3>1. v \in Nat /\ d[k].n \in Nat
      BY <2>4, <2>5
    <3> DEFINE w == d[k].n
    <3>2. ~(v < w) /\ ~(w < v)
      <4>1. /\ Cardinality({j \in 1..n : f[j] > v}) < k
            /\ Cardinality({j \in 1..n : f[j] >= v}) >= k
            /\ Cardinality({j \in 1..n : f[j] > w}) < k
            /\ Cardinality({j \in 1..n : f[j] >= w}) >= k
        BY <2>2, <2>3, <2>6
      <4>2. w \in Nat
        BY <3>1
      <4> HIDE DEF w
      <4>3. QED
        BY <1>1, <1>2, <3>1, <4>1, <4>2, RankUnique
    <3>3. QED
      BY <3>1, <3>2
  <2> HIDE DEF Q, R
  <2>7. d[k].n = CHOOSE v \in R : Q(v)
    BY <2>3, <2>4, <2>6, Zenon
  <2>8. QED
    BY <1>4, <2>7 DEF Q, R
<1>11. Vec!Raw!SortedDesc(f) = [k \in 1..n |-> d[k].n]
  <2>1. DOMAIN f = 1..n
    BY DEF f
  <2> HIDE DEF d
  <2>2. QED
    BY <1>10, <2>1 DEF Vec!Raw!SortedDesc
<1>12. QED
  BY <1>3, <1>8, <1>9, <1>11 DEF n

\* Removing zeros from the plain list ...
LEMMA RawNonZero ==
  ASSUME NEW l \in Seq(Nat)
  PROVE  /\ Vec!Raw!NonZero(l) \in Seq(Nat)
         /\ \A v \in Nat : Vec!Raw!NonZero(Append(l, v))
                             = IF v > 0 THEN Vec!Raw!NonZero(l) \o <<v>> ELSE Vec!Raw!NonZero(l)
<1> DEFINE m == [v \in Nat |-> IF v > 0 THEN <<v>> ELSE << >>]
           F(k) == FlattenSeq(Mapped(m, k))
<1>1. m \in [Nat -> Seq(Nat)]
  <2>1. << >> \in Seq(Nat) /\ \A v \in Nat : <<v>> \in Seq(Nat)
    BY EmptySeq
  <2>2. QED
    BY <2>1
<1>2. ASSUME NEW k \in Seq(Nat) PROVE Vec!Raw!NonZero(k) = F(k)
  <2>1. \A i \in DOMAIN k : k[i] \in Nat
    BY LenProperties, ElementOfSeq
  <2>2. [i \in DOMAIN k |-> IF k[i] > 0 THEN <<k[i]>> ELSE << >>]
          = [i \in DOMAIN k |-> m[k[i]]]
    BY <2>1
  <2> HIDE DEF m
  <2>3. QED
    BY <2>2, VecFlatten DEF Vec!Raw!NonZero, Mapped
<1> DEFINE fl == F(l)
<1>3. /\ fl \in Seq(Nat)
      /\ \A v \in Nat : F(Append(l, v)) = fl \o m[v]
  <2> HIDE DEF m
  <2>1. fl \in Seq(Nat)
    BY <1>1, FlattenMapType
  <2>2. ASSUME NEW v \in Nat PROVE F(Append(l, v)) = fl \o m[v]
    BY <1>1, FlattenMapAppend
  <2>3. QED
    BY <2>1, <2>2
<1>4. ASSUME NEW v \in Nat
      PROVE  Vec!Raw!NonZero(Append(l, v)) = IF v > 0 THEN fl \o <<v>> ELSE fl
  <2>1. m[v] = IF v > 0 THEN <<v>> ELSE << >>
    OBVIOUS
  <2>2. fl \o << >> = fl
    <3> HIDE DEF fl
    <3>1. QED
      BY <1>3, ConcatEmptySeq
  <2>3. Append(l, v) \in Seq(Nat)
    OBVIOUS
  <2>4. Vec!Raw!NonZero(Append(l, v)) = fl \o m[v]
    <3> HIDE DEF m, F, fl
    <3>1. QED
      BY <1>2, <1>3, <2>3, Zenon
  <2> HIDE DEF m, fl
  <2>5. QED
    BY <2>1, <2>2, <2>4
<1>5. QED
  <2> HIDE DEF m, F
  <2>1. QED
    BY <1>2, <1>3, <1>4

\* A run of zeros grows at its end.
LEMMA ZeroRunLonger ==
  ASSUME NEW l \in Seq(Nat), NEW k \in Nat
  PROVE  /\ l \o Vec!ZeroRun(k + 1) = Append(l \o Vec!ZeroRun(k), 0)
         /\ l \o Vec!ZeroRun(k) \in Seq(Nat)
<1> DEFINE z == Vec!ZeroRun(k)
           y == Vec!ZeroRun(k + 1)
<1>1. z \in Seq(Nat) /\ Len(z) = k /\ \A i \in 1..k : z[i] = 0
  BY ZeroRunType
<1>2. y \in Seq(Nat) /\ Len(y) = k + 1 /\ \A i \in 1..(k + 1) : y[i] = 0
  BY ZeroRunType
<1> HIDE DEF y, z
<1>3. y = Append(z, 0)
  <2> DEFINE a == Append(z, 0)
  <2>1. a \in Seq(Nat) /\ Len(a) = k + 1 /\ \A i \in 1..(k + 1) : a[i] = 0
    BY <1>1
  <2> HIDE DEF a
  <2>2. y = a
    BY <1>2, <2>1, SeqEqual
  <2>3. QED
    BY <2>2 DEF a
<1>4. l \o y = Append(l \o z, 0) /\ l \o z \in Seq(Nat)
  <2>1. y = z \o <<0>> /\ <<0>> \in Seq(Nat)
    BY <1>1, <1>3
  <2>2. l \o (z \o <<0>>) = (l \o z) \o <<0>>
    BY <1>1, <2>1, ConcatAssociative
  <2>3. l \o z \in Seq(Nat)
    BY <1>1, ConcatProperties
  <2>4. (l \o z) \o <<0>> = Append(l \o z, 0)
    BY <2>3
  <2>5. QED
    BY <2>1, <2>2, <2>3, <2>4
<1>5. QED
  BY <1>4 DEF y, z

\* Nothing is left of a run of zeros.
LEMMA RawNonZeroOfZeros ==
  ASSUME NEW l \in Seq(Nat), NEW k \in Nat
  PROVE  Vec!Raw!NonZero(l \o Vec!ZeroRun(k)) = Vec!Raw!NonZero(l)
<1> DEFINE T == {j \in Nat : Vec!Raw!NonZero(l \o Vec!ZeroRun(j)) = Vec!Raw!NonZero(l)}
<1>1. 0 \in T
  <2>1. Vec!ZeroRun(0) = << >>
    BY DEF Vec!ZeroRun
  <2>2. l \o << >> = l
    BY ConcatEmptySeq
  <2>3. QED
    BY <2>1, <2>2
<1>2. ASSUME NEW j \in Nat, j \in T PROVE j + 1 \in T
  <2> DEFINE z == Vec!ZeroRun(j)
             y == Vec!ZeroRun(j + 1)
  <2>4. l \o y = Append(l \o z, 0) /\ l \o z \in Seq(Nat)
    BY ZeroRunLonger
  <2> HIDE DEF y, z
  <2>5. Vec!Raw!NonZero(Append(l \o z, 0)) = Vec!Raw!NonZero(l \o z)
    <3> DEFINE lz == l \o z
    <3>1. lz \in Seq(Nat)
      BY <2>4
    <3> HIDE DEF lz
    <3>2. 0 \in Nat /\ ~(0 > 0)
      OBVIOUS
    <3>3. Vec!Raw!NonZero(Append(lz, 0)) = Vec!Raw!NonZero(lz)
      BY <3>1, <3>2, RawNonZero, Zenon
    <3>4. QED
      BY <3>3 DEF lz
  <2>6. Vec!Raw!NonZero(l \o y) = Vec!Raw!NonZero(l \o z)
    BY <2>4, <2>5, Zenon
  <2>7. Vec!Raw!NonZero(l \o z) = Vec!Raw!NonZero(l)
    BY <1>2 DEF z
  <2>8. QED
    BY <2>6, <2>7 DEF y
<1> HIDE DEF T
<1>3. \A j \in Nat : j \in T
  BY <1>1, <1>2, NatInd
<1>4. QED
  BY <1>3 DEF T

\* ... and from the entries.
LEMMA NonZeroEntries ==
  ASSUME NEW s \in Seq(Entry)
  PROVE  /\ Vec!NonZero(s) \in Seq(ValueEntry)
         /\ \A e \in Entry : Vec!NonZero(Append(s, e))
                               = IF Vec!IsValue(e) THEN Vec!NonZero(s) \o <<e>> ELSE Vec!NonZero(s)
<1> DEFINE m == [e \in Entry |-> IF Vec!IsValue(e) THEN <<e>> ELSE << >>]
           F(k) == FlattenSeq(Mapped(m, k))
<1>1. m \in [Entry -> Seq(ValueEntry)]
  <2>1. << >> \in Seq(ValueEntry)
    BY EmptySeq
  <2>2. ASSUME NEW e \in Entry, Vec!IsValue(e) PROVE <<e>> \in Seq(ValueEntry)
    <3>1. e \in ValueEntry
      BY <2>2 DEF ValueEntry, Vec!IsValue
    <3>2. QED
      BY <3>1
  <2>3. QED
    BY <2>1, <2>2
<1>2. ASSUME NEW k \in Seq(Entry) PROVE Vec!NonZero(k) = F(k)
  <2>1. \A i \in DOMAIN k : k[i] \in Entry
    BY LenProperties, ElementOfSeq
  <2>2. [i \in DOMAIN k |-> IF Vec!IsValue(k[i]) THEN <<k[i]>> ELSE << >>]
          = [i \in DOMAIN k |-> m[k[i]]]
    BY <2>1
  <2> HIDE DEF m
  <2>3. QED
    BY <2>2, VecFlatten DEF Vec!NonZero, Mapped
<1> DEFINE fs == F(s)
<1>3. /\ fs \in Seq(ValueEntry)
      /\ \A e \in Entry : F(Append(s, e)) = fs \o m[e]
  <2> HIDE DEF m
  <2>1. fs \in Seq(ValueEntry)
    BY <1>1, FlattenMapType
  <2>2. ASSUME NEW e \in Entry PROVE F(Append(s, e)) = fs \o m[e]
    BY <1>1, FlattenMapAppend
  <2>3. QED
    BY <2>1, <2>2
<1>4. ASSUME NEW e \in Entry
      PROVE  Vec!NonZero(Append(s, e)) = IF Vec!IsValue(e) THEN fs \o <<e>> ELSE fs
  <2>1. m[e] = IF Vec!IsValue(e) THEN <<e>> ELSE << >>
    OBVIOUS
  <2>2. fs \o << >> = fs
    <3> HIDE DEF fs
    <3>1. QED
      BY <1>3, ConcatEmptySeq
  <2>3. Append(s, e) \in Seq(Entry)
    OBVIOUS
  <2>4. Vec!NonZero(Append(s, e)) = fs \o m[e]
    <3> HIDE DEF m, F, fs
    <3>1. QED
      BY <1>2, <1>3, <2>3, Zenon
  <2> HIDE DEF m, fs
  <2>5. QED
    BY <2>1, <2>2, <2>4
<1>5. QED
  <2> HIDE DEF m, F
  <2>1. QED
    BY <1>2, <1>3, <1>4

\* How the types of entries are nested.
LEMMA EntryTypes ==
  /\ Entry \subseteq AnyEntry /\ ValueEntry \subseteq Entry /\ ValueEntry \subseteq AnyEntry
  /\ \A e \in AnyEntry : e.n \in Nat /\ e.is_zero \in BOOLEAN
  /\ \A e \in Entry : e.n > 0
BY DEF Entry, ValueEntry, AnyEntry

\* Entries without zeros stand for the list without zeros.
LEMMA NonZeroExpands ==
  ASSUME NEW s \in Seq(Entry)
  PROVE  /\ Vec!Expand(Vec!NonZero(s)) = Vec!Raw!NonZero(Vec!Expand(s))
         /\ Len(Vec!NonZero(s)) <= Len(Vec!Expand(s))
<1> DEFINE T == {t \in Seq(Entry) :
                   /\ Vec!Expand(Vec!NonZero(t)) = Vec!Raw!NonZero(Vec!Expand(t))
                   /\ Len(Vec!NonZero(t)) <= Len(Vec!Expand(t))}
<1>1. << >> \in T
  <2>1. Vec!NonZero(<< >>) = << >>
    <3>1. [i \in DOMAIN << >> |-> IF Vec!IsValue(<< >>[i]) THEN << <<>>[i] >> ELSE << >>] = << >>
      OBVIOUS
    <3>2. QED
      BY <3>1, VecFlatten, FlattenEmpty DEF Vec!NonZero
  <2>2. Vec!Raw!NonZero(<< >>) = << >>
    <3>1. [i \in DOMAIN << >> |-> IF << >>[i] > 0 THEN << <<>>[i] >> ELSE << >>] = << >>
      OBVIOUS
    <3>2. QED
      BY <3>1, VecFlatten, FlattenEmpty DEF Vec!Raw!NonZero
  <2>3. QED
    BY <2>1, <2>2, ExpandEmpty, EmptySeq
<1>2. ASSUME NEW t \in Seq(Entry), NEW e \in Entry, t \in T
      PROVE  Append(t, e) \in T
  <2>1. /\ Append(t, e) \in Seq(Entry) /\ Append(t, e) = t \o <<e>>
        /\ t \in Seq(AnyEntry) /\ e \in AnyEntry /\ <<e>> \in Seq(AnyEntry)
    <3>1. t \in Seq(AnyEntry) /\ e \in AnyEntry
      BY EntryTypes, SeqMonotonic
    <3>2. QED
      BY <3>1
  <2>2. Vec!Expand(Append(t, e)) = Vec!Expand(t) \o Piece(e)
    BY <2>1, ExpandConcat, ExpandOne
  <2>3. /\ Vec!Expand(t) \in Seq(Nat) /\ Vec!NonZero(t) \in Seq(ValueEntry)
        /\ Vec!NonZero(t) \in Seq(AnyEntry)
    BY <2>1, ExpandType, NonZeroEntries, EntryTypes, SeqMonotonic
  <2>4. Vec!NonZero(Append(t, e))
          = IF Vec!IsValue(e) THEN Vec!NonZero(t) \o <<e>> ELSE Vec!NonZero(t)
    BY NonZeroEntries
  <2>5. e.n \in Nat /\ e.n > 0
    BY <2>1, EntryTypes
  <2>6. CASE Vec!IsValue(e)
    <3>1. Piece(e) = <<e.n>>
      BY <2>6 DEF Piece
    <3>2. Vec!Expand(Append(t, e)) = Append(Vec!Expand(t), e.n)
      BY <2>2, <2>3, <2>5, <3>1
    <3>3. Vec!Raw!NonZero(Vec!Expand(Append(t, e))) = Vec!Raw!NonZero(Vec!Expand(t)) \o <<e.n>>
      BY <2>3, <2>5, <3>2, RawNonZero
    <3>4. Vec!Expand(Vec!NonZero(Append(t, e))) = Vec!Expand(Vec!NonZero(t)) \o <<e.n>>
      BY <2>1, <2>3, <2>4, <2>6, <3>1, ExpandConcat, ExpandOne
    <3>5. /\ Len(Vec!Expand(Append(t, e))) = Len(Vec!Expand(t)) + 1
          /\ Len(Vec!NonZero(Append(t, e))) = Len(Vec!NonZero(t)) + 1
          /\ Len(Vec!Expand(t)) \in Nat /\ Len(Vec!NonZero(t)) \in Nat
      <4>1. Vec!NonZero(Append(t, e)) = Append(Vec!NonZero(t), e)
        <5> DEFINE nz == Vec!NonZero(t)
        <5>1. nz \in Seq(AnyEntry)
          BY <2>3
        <5>2. Vec!NonZero(Append(t, e)) = nz \o <<e>>
          BY <2>4, <2>6, Zenon
        <5> HIDE DEF nz
        <5>3. nz \o <<e>> = Append(nz, e)
          BY <2>1, <5>1
        <5>4. QED
          BY <5>2, <5>3, Zenon DEF nz
      <4>2. QED
        <5> DEFINE x == Vec!Expand(t)
                   nz == Vec!NonZero(t)
        <5>1. x \in Seq(Nat) /\ nz \in Seq(AnyEntry)
          BY <2>3
        <5> HIDE DEF x, nz
        <5>2. /\ Len(Append(x, e.n)) = Len(x) + 1 /\ Len(Append(nz, e)) = Len(nz) + 1
              /\ Len(x) \in Nat /\ Len(nz) \in Nat
          BY <2>1, <2>5, <5>1
        <5>3. QED
          BY <3>2, <4>1, <5>2, Zenon DEF x, nz
    <3>6. /\ Vec!Expand(Vec!NonZero(t)) = Vec!Raw!NonZero(Vec!Expand(t))
          /\ Len(Vec!NonZero(t)) <= Len(Vec!Expand(t))
      BY <1>2
    <3>7. Vec!Expand(Vec!NonZero(Append(t, e))) = Vec!Raw!NonZero(Vec!Expand(Append(t, e)))
      BY <3>3, <3>4, <3>6, Zenon
    <3>8. Len(Vec!NonZero(Append(t, e))) <= Len(Vec!Expand(Append(t, e)))
      BY <3>5, <3>6
    <3>9. QED
      BY <2>1, <3>7, <3>8, Zenon
  <2>7. CASE ~Vec!IsValue(e)
    <3>1. Piece(e) = Vec!ZeroRun(e.n)
      BY <2>7 DEF Piece
    <3>2. Vec!Raw!NonZero(Vec!Expand(Append(t, e))) = Vec!Raw!NonZero(Vec!Expand(t))
      BY <2>2, <2>3, <2>5, <3>1, RawNonZeroOfZeros
    <3>3. Len(Vec!Expand(Append(t, e))) >= Len(Vec!Expand(t))
      <4>1. Piece(e) \in Seq(Nat)
        BY <2>1, PieceType
      <4>2. Len(Vec!Expand(t) \o Piece(e)) = Len(Vec!Expand(t)) + Len(Piece(e))
        BY <2>3, <4>1, ConcatProperties
      <4>3. Len(Piece(e)) \in Nat /\ Len(Vec!Expand(t)) \in Nat
        BY <2>3, <4>1, LenProperties
      <4>4. QED
        BY <2>2, <4>2, <4>3
    <3>4. Len(Vec!Expand(t)) \in Nat /\ Len(Vec!NonZero(t)) \in Nat
          /\ Len(Vec!Expand(Append(t, e))) \in Nat
      <4>1. Vec!Expand(Append(t, e)) \in Seq(Nat)
        BY <2>1, EntryTypes, SeqMonotonic, ExpandType
      <4>2. QED
        BY <2>3, <4>1, LenProperties
    <3>5. QED
      BY <1>2, <2>1, <2>4, <2>7, <3>2, <3>3, <3>4
  <2>8. QED
    BY <2>6, <2>7
<1> HIDE DEF T
<1>3. \A t \in Seq(Entry) : t \in T
  BY <1>1, <1>2, SequenceInduction
<1>4. QED
  BY <1>3 DEF T

-----------------------------------------------------------------------------
(* StrainsVec: the iterator *)

\* What an iterator at entry c, with the entries r to follow, has still to yield.
YetToYield(c, r) == IF c = None THEN << >> ELSE Vec!Expand(<<c>> \o r)

IterType == [curr : AnyEntry \cup {None}, rest : Seq(Entry), len : Nat, out : Nat \cup {None}]

VecInv ==
  /\ inner \in Seq(Entry)
  /\ \A i \in 2..Len(inner) : inner[i].is_zero => Vec!IsValue(inner[i - 1])
  /\ len \in Nat /\ len >= Len(Vec!Expand(inner))
  /\ iterating \in BOOLEAN
  /\ ~iterating => it = Vec!NoIter
  /\ it \in IterType
  /\ it.curr # None => it.curr.is_zero \/ it.curr \in Entry
  /\ it.len >= Len(Vec!ToYield)

\* What the iterator of the list yields, in the words of YetToYield.
LEMMA YieldIs == Vec!ToYield = YetToYield(it.curr, it.rest)
BY DEF Vec!ToYield, YetToYield

\* What is left to yield is a list of values that starts with the current entry's.
LEMMA YieldType ==
  ASSUME NEW c \in AnyEntry \cup {None}, NEW r \in Seq(Entry)
  PROVE  /\ YetToYield(c, r) \in Seq(Nat) /\ Len(YetToYield(c, r)) \in Nat
         /\ c # None => YetToYield(c, r) = Piece(c) \o Vec!Expand(r)
<1>1. CASE c = None
  BY <1>1, EmptySeq, LenProperties DEF YetToYield
<1>2. CASE c # None
  <2>1. c \in AnyEntry /\ <<c>> \in Seq(AnyEntry) /\ r \in Seq(AnyEntry)
    BY <1>2, EntryTypes, SeqMonotonic
  <2>2. YetToYield(c, r) = Vec!Expand(<<c>>) \o Vec!Expand(r)
    BY <1>2, <2>1, ExpandConcat DEF YetToYield
  <2>3. YetToYield(c, r) = Piece(c) \o Vec!Expand(r)
    BY <2>1, <2>2, ExpandOne
  <2>4. YetToYield(c, r) \in Seq(Nat)
    BY <2>1, <2>3, PieceType, ExpandType, ConcatProperties
  <2>5. QED
    BY <2>3, <2>4, LenProperties
<1>3. QED
  BY <1>1, <1>2

\* At the next entry, the iterator has the rest of the entries to yield.
LEMMA YieldNext ==
  ASSUME NEW r \in Seq(Entry)
  PROVE  /\ Vec!Following(r) \in Entry \cup {None} /\ Vec!Rest(r) \in Seq(Entry)
         /\ Vec!Following(r) = None <=> r = << >>
         /\ YetToYield(Vec!Following(r), Vec!Rest(r)) = Vec!Expand(r)
<1>0. None \notin Entry
  BY NoneAssumption DEF Entry
<1>1. CASE r = << >>
  BY <1>1, ExpandEmpty, EmptySeq DEF Vec!Following, Vec!Rest, YetToYield
<1>2. CASE r # << >>
  <2>1. Head(r) \in Entry /\ Tail(r) \in Seq(Entry)
    BY <1>2
  <2>2. <<Head(r)>> \o Tail(r) = r
    <3> DEFINE h == <<Head(r)>>
               t == Tail(r)
               u == h \o t
    <3>1. /\ h \in Seq(Entry) /\ Len(h) = 1 /\ h[1] = r[1]
          /\ t \in Seq(Entry) /\ Len(t) = Len(r) - 1
          /\ \A i \in 1..(Len(r) - 1) : t[i] = r[i + 1]
          /\ Len(r) \in Nat /\ Len(r) >= 1
      BY <1>2, <2>1
    <3> HIDE DEF h, t
    <3>2. /\ u \in Seq(Entry) /\ Len(u) = Len(h) + Len(t)
          /\ \A i \in 1..(Len(h) + Len(t)) :
               u[i] = IF i <= Len(h) THEN h[i] ELSE t[i - Len(h)]
      <4>1. h \in Seq(Entry) /\ t \in Seq(Entry)
        BY <3>1
      <4>2. QED
        BY <4>1, ConcatProperties, Zenon
    <3> HIDE DEF u
    <3>3. Len(u) = Len(r)
      BY <3>1, <3>2
    <3>4. ASSUME NEW i \in 1..Len(u) PROVE u[i] = r[i]
      <4>1. CASE i = 1
        BY <3>1, <3>2, <4>1
      <4>2. CASE i # 1
        <5>1. i \in 1..(Len(h) + Len(t)) /\ ~(i <= Len(h)) /\ i - Len(h) \in 1..(Len(r) - 1)
              /\ (i - Len(h)) + 1 = i
          BY <3>1, <3>2, <4>2
        <5>2. u[i] = t[i - Len(h)]
          BY <3>2, <5>1
        <5>3. t[i - Len(h)] = r[i]
          BY <3>1, <5>1
        <5>4. QED
          BY <5>2, <5>3
      <4>3. QED
        BY <4>1, <4>2
    <3>5. u = r
      BY <3>2, <3>3, <3>4, SeqEqual
    <3>6. QED
      BY <3>5 DEF u, h, t
  <2>3. QED
    BY <1>0, <1>2, <2>1, <2>2 DEF Vec!Following, Vec!Rest, YetToYield
<1>3. QED
  BY <1>1, <1>2

\* One element from the front of a concatenation.
LEMMA HeadOfConcat ==
  ASSUME NEW v \in Nat, NEW l \in Seq(Nat)
  PROVE  /\ <<v>> \o l \in Seq(Nat) /\ <<v>> \o l # << >> /\ Len(<<v>> \o l) = Len(l) + 1
         /\ Head(<<v>> \o l) = v /\ Tail(<<v>> \o l) = l
<1> DEFINE h == <<v>>
           u == h \o l
           t == Tail(u)
<1>1. h \in Seq(Nat) /\ Len(h) = 1 /\ h[1] = v /\ Len(l) \in Nat
  OBVIOUS
<1> HIDE DEF h
<1>2. /\ u \in Seq(Nat) /\ Len(u) = Len(h) + Len(l)
      /\ \A i \in 1..(Len(h) + Len(l)) :
           u[i] = IF i <= Len(h) THEN h[i] ELSE l[i - Len(h)]
  BY <1>1, ConcatProperties, Zenon
<1> HIDE DEF u
<1>3. Len(u) = Len(l) + 1 /\ u[1] = v /\ u # << >>
  BY <1>1, <1>2
<1>4. /\ t \in Seq(Nat) /\ Len(t) = Len(l) /\ Head(u) = v
      /\ \A i \in 1..Len(l) : t[i] = u[i + 1]
  BY <1>1, <1>2, <1>3
<1> HIDE DEF t
<1>5. ASSUME NEW i \in 1..Len(l) PROVE t[i] = l[i]
  <2>1. i + 1 \in 1..(Len(h) + Len(l)) /\ ~(i + 1 <= Len(h)) /\ (i + 1) - Len(h) = i
    BY <1>1
  <2>2. u[i + 1] = l[(i + 1) - Len(h)]
    BY <1>2, <2>1
  <2>3. QED
    BY <1>4, <2>1, <2>2
<1>6. t = l
  BY <1>4, <1>5, SeqEqual
<1>7. QED
  BY <1>2, <1>3, <1>4, <1>6 DEF u, h, t

\* A run of zeros gives one of them.
LEMMA ZeroRunHead ==
  ASSUME NEW k \in Nat, k > 0
  PROVE  Vec!ZeroRun(k) = <<0>> \o Vec!ZeroRun(k - 1)
<1>0. k - 1 \in Nat
  OBVIOUS
<1> DEFINE z == Vec!ZeroRun(k - 1)
           y == Vec!ZeroRun(k)
           h == <<0>>
           u == h \o z
<1>1. z \in Seq(Nat) /\ Len(z) = k - 1 /\ \A i \in 1..(k - 1) : z[i] = 0
  BY <1>0, ZeroRunType
<1>2. y \in Seq(Nat) /\ Len(y) = k /\ \A i \in 1..k : y[i] = 0
  BY ZeroRunType
<1>3. h \in Seq(Nat) /\ Len(h) = 1 /\ h[1] = 0
  OBVIOUS
<1> HIDE DEF z, y, h
<1>4. /\ u \in Seq(Nat) /\ Len(u) = Len(h) + Len(z)
      /\ \A i \in 1..(Len(h) + Len(z)) :
           u[i] = IF i <= Len(h) THEN h[i] ELSE z[i - Len(h)]
  BY <1>1, <1>3, ConcatProperties, Zenon
<1> HIDE DEF u
<1>5. ASSUME NEW i \in 1..k PROVE y[i] = u[i]
  BY <1>0, <1>1, <1>2, <1>3, <1>4
<1>6. y = u
  BY <1>1, <1>2, <1>3, <1>4, <1>5, SeqEqual
<1>7. QED
  BY <1>6 DEF y, u, h, z

\* The step of an iterator over the plain list l, of which l2 is left.
TakesHead(l, l2, o2) ==
  IF l = << >> THEN o2 = None /\ l2 = l ELSE o2 = Head(l) /\ l2 = Tail(l)

IterInv(i) == /\ i \in IterType
              /\ i.curr # None => i.curr.is_zero \/ i.curr \in Entry
              /\ i.len >= Len(YetToYield(i.curr, i.rest))

\* StrainsIter::next takes the head of what is left to yield, and its count stays enough.
LEMMA NextFromStep ==
  ASSUME NEW c \in Entry \cup {None}, NEW r \in Seq(Entry), it \in IterType,
         it.len >= Len(YetToYield(c, r)), Vec!NextFrom(c, r)
  PROVE  /\ IterInv(it')
         /\ TakesHead(YetToYield(c, r), YetToYield(it'.curr, it'.rest), it'.out)
<1>0. c \in AnyEntry \cup {None} /\ None \notin AnyEntry /\ it.len \in Nat
  BY EntryTypes, NoneAssumption DEF AnyEntry, IterType
<1>1. CASE c = None
  <2>1. it' = [it EXCEPT !.curr = None, !.rest = << >>, !.out = None]
    BY <1>1 DEF Vec!NextFrom
  <2>2. it' \in IterType /\ it'.curr = None /\ it'.rest = << >> /\ it'.out = None
        /\ it'.len = it.len
    BY <2>1, EmptySeq DEF IterType
  <2>3. YetToYield(c, r) = << >> /\ YetToYield(it'.curr, it'.rest) = << >>
    BY <1>1, <2>2 DEF YetToYield
  <2>4. QED
    BY <1>0, <2>2, <2>3, EmptySeq DEF IterInv, TakesHead
<1>2. ASSUME NEW d \in AnyEntry \cup {None}, NEW q \in Seq(Entry), NEW v \in Nat,
             d # None => d.is_zero \/ d \in Entry, Vec!Yield(d, q, v),
             YetToYield(c, r) = <<v>> \o YetToYield(d, q)
      PROVE  /\ IterInv(it')
             /\ TakesHead(YetToYield(c, r), YetToYield(it'.curr, it'.rest), it'.out)
  <2>1. /\ YetToYield(c, r) # << >> /\ Len(YetToYield(c, r)) = Len(YetToYield(d, q)) + 1
        /\ Head(YetToYield(c, r)) = v /\ Tail(YetToYield(c, r)) = YetToYield(d, q)
        /\ Len(YetToYield(d, q)) \in Nat
    <3> DEFINE p == YetToYield(d, q)
               w == YetToYield(c, r)
    <3>1. p \in Seq(Nat) /\ Len(p) \in Nat
      BY <1>2, YieldType
    <3>2. w = <<v>> \o p
      BY <1>2
    <3> HIDE DEF p, w
    <3>3. /\ <<v>> \o p # << >> /\ Len(<<v>> \o p) = Len(p) + 1
          /\ Head(<<v>> \o p) = v /\ Tail(<<v>> \o p) = p
      BY <3>1, <1>2, HeadOfConcat, Zenon
    <3>4. w # << >> /\ Len(w) = Len(p) + 1 /\ Head(w) = v /\ Tail(w) = p
      BY <3>2, <3>3, Zenon
    <3>5. QED
      BY <3>1, <3>4 DEF p, w
  <2>2. it' = [curr |-> d, rest |-> q, len |-> it.len - 1, out |-> v]
    BY <1>2 DEF Vec!Yield
  <2>3. it.len - 1 \in Nat /\ it.len - 1 >= Len(YetToYield(d, q))
    BY <1>0, <2>1
  <2>4. it' \in IterType
    BY <1>2, <2>2, <2>3 DEF IterType
  <2>5. it'.curr = d /\ it'.rest = q /\ it'.len = it.len - 1 /\ it'.out = v
    BY <2>2
  <2>6. QED
    BY <1>2, <2>1, <2>3, <2>4, <2>5 DEF IterInv, TakesHead
<1>3. CASE c # None /\ Vec!IsValue(c)
  <2>1. c \in AnyEntry /\ c.n \in Nat
    BY <1>0, <1>3, EntryTypes
  <2>2. Vec!Yield(Vec!Following(r), Vec!Rest(r), c.n)
    BY <1>3 DEF Vec!NextFrom
  <2>3. YetToYield(c, r) = <<c.n>> \o Vec!Expand(r)
    BY <1>3, <2>1, YieldType DEF Piece
  <2>4. /\ Vec!Following(r) \in AnyEntry \cup {None} /\ Vec!Rest(r) \in Seq(Entry)
        /\ Vec!Following(r) # None => Vec!Following(r) \in Entry
        /\ YetToYield(c, r) = <<c.n>> \o YetToYield(Vec!Following(r), Vec!Rest(r))
    BY <2>3, YieldNext, EntryTypes
  <2>5. QED
    BY <1>2, <2>1, <2>2, <2>4
<1>4. CASE c # None /\ ~Vec!IsValue(c)
  <2>1. c \in AnyEntry /\ c.n \in Nat /\ c.n > 0 /\ c.n - 1 \in Nat
    BY <1>0, <1>4, EntryTypes
  <2> DEFINE d == Vec!Zeros(c.n - 1)
  <2>2. Vec!Yield(d, r, 0)
    BY <1>4 DEF Vec!NextFrom
  <2>3. d \in AnyEntry /\ d.is_zero /\ d.n = c.n - 1 /\ ~Vec!IsValue(d) /\ d # None
    <3>1. d \in AnyEntry /\ d.is_zero /\ d.n = c.n - 1 /\ ~Vec!IsValue(d)
      BY <2>1 DEF Vec!Zeros, AnyEntry, Vec!IsValue
    <3>2. QED
      BY <1>0, <3>1
  <2> HIDE DEF d
  <2>4. /\ YetToYield(c, r) = Vec!ZeroRun(c.n) \o Vec!Expand(r)
        /\ YetToYield(d, r) = Vec!ZeroRun(c.n - 1) \o Vec!Expand(r)
    <3>1. YetToYield(c, r) = Piece(c) \o Vec!Expand(r)
      BY <1>4, <2>1, YieldType
    <3>2. YetToYield(d, r) = Piece(d) \o Vec!Expand(r)
      BY <2>3, YieldType
    <3>3. Piece(c) = Vec!ZeroRun(c.n) /\ Piece(d) = Vec!ZeroRun(c.n - 1)
      BY <1>4, <2>3 DEF Piece
    <3>4. QED
      BY <3>1, <3>2, <3>3
  <2>5. YetToYield(c, r) = <<0>> \o YetToYield(d, r)
    <3> DEFINE z == Vec!ZeroRun(c.n - 1)
               x == Vec!Expand(r)
    <3>1. Vec!ZeroRun(c.n) = <<0>> \o z
      BY <2>1, ZeroRunHead
    <3>2. z \in Seq(Nat) /\ x \in Seq(Nat) /\ <<0>> \in Seq(Nat)
      <4>1. c.n - 1 \in Nat
        BY <2>1
      <4>2. z \in Seq(Nat)
        BY <4>1, ZeroRunType
      <4>3. r \in Seq(AnyEntry)
        BY EntryTypes, SeqMonotonic
      <4>4. x \in Seq(Nat)
        BY <4>3, ExpandType
      <4>5. QED
        BY <4>2, <4>4
    <3> HIDE DEF z, x
    <3>3. (<<0>> \o z) \o x = <<0>> \o (z \o x)
      BY <3>2, ConcatAssociative
    <3>4. QED
      BY <2>4, <3>1, <3>3, Zenon DEF z, x
  <2>6. 0 \in Nat /\ d \in AnyEntry \cup {None} /\ (d # None => d.is_zero \/ d \in Entry)
    BY <2>3
  <2>7. QED
    BY <1>2, <2>2, <2>5, <2>6
<1>5. QED
  BY <1>3, <1>4, <1>1

\* The iterator's next implements that of the plain list.
LEMMA NextStep ==
  ASSUME VecInv, Vec!next
  PROVE  VecInv' /\ Vec!Raw!next
<1>1. /\ it \in IterType /\ it.len >= Len(YetToYield(it.curr, it.rest))
      /\ it.curr \in AnyEntry \cup {None} /\ it.rest \in Seq(Entry)
      /\ it.curr # None => it.curr.is_zero \/ it.curr \in Entry
      /\ iterating /\ UNCHANGED <<inner, len, iterating>>
  BY YieldIs DEF VecInv, IterType, Vec!next
<1>2. /\ IterInv(it')
      /\ TakesHead(YetToYield(it.curr, it.rest), YetToYield(it'.curr, it'.rest), it'.out)
  <2>1. CASE Vec!UsedUp(it.curr)
    <3> DEFINE c == Vec!Following(it.rest)
               r == Vec!Rest(it.rest)
    <3>1. Vec!NextFrom(c, r)
      BY <2>1 DEF Vec!next
    <3>2. c \in Entry \cup {None} /\ r \in Seq(Entry) /\ YetToYield(c, r) = Vec!Expand(it.rest)
      BY <1>1, YieldNext
    <3>3. YetToYield(it.curr, it.rest) = YetToYield(c, r)
      <4>1. it.curr # None /\ Piece(it.curr) = << >>
        BY <2>1 DEF Vec!UsedUp, Piece, Vec!IsValue, Vec!ZeroRun
      <4>2. YetToYield(it.curr, it.rest) = << >> \o Vec!Expand(it.rest)
        BY <1>1, <4>1, YieldType
      <4>3. Vec!Expand(it.rest) \in Seq(Nat)
        BY <1>1, ExpandType, EntryTypes, SeqMonotonic
      <4> DEFINE x == Vec!Expand(it.rest)
      <4> HIDE DEF x
      <4>4. << >> \o x = x
        BY <4>3, ConcatEmptySeq DEF x
      <4>5. QED
        BY <3>2, <4>2, <4>4, Zenon DEF x
    <3> HIDE DEF c, r
    <3>4. QED
      BY <1>1, <3>1, <3>2, <3>3, NextFromStep
  <2>2. CASE ~Vec!UsedUp(it.curr)
    <3>1. Vec!NextFrom(it.curr, it.rest)
      BY <2>2 DEF Vec!next
    <3>2. it.curr \in Entry \cup {None}
      BY <1>1, <2>2 DEF Vec!UsedUp, AnyEntry, Entry
    <3>3. QED
      BY <1>1, <3>1, <3>2, NextFromStep
  <2>3. QED
    BY <2>1, <2>2
<1>3. Vec!ToYield' = YetToYield(it'.curr, it'.rest)
  BY DEF Vec!ToYield, YetToYield
<1>4. VecInv'
  BY <1>1, <1>2, <1>3 DEF VecInv, IterInv
<1>5. Vec!Raw!next
  BY <1>1, <1>2, <1>3, YieldIs DEF Vec!Raw!next, TakesHead
<1>6. QED
  BY <1>4, <1>5

-----------------------------------------------------------------------------
(* StrainsVec: the methods *)

\* The entry list with its last entry e, and with a longer one.
LEMMA LongerLast ==
  ASSUME NEW s \in Seq(Entry), s # << >>
  PROVE  \E f \in Seq(Entry) :
           /\ s = Append(f, s[Len(s)])
           /\ [s EXCEPT ![Len(s)].n = @ + 1] = Append(f, [s[Len(s)] EXCEPT !.n = @ + 1])
<1> DEFINE n == Len(s)
           f == SubSeq(s, 1, n - 1)
           e == s[n]
           e2 == [e EXCEPT !.n = @ + 1]
           s2 == [s EXCEPT ![n].n = @ + 1]
           a == Append(f, e)
           b == Append(f, e2)
<1>1. n \in Nat /\ n >= 1 /\ e \in Entry /\ DOMAIN s = 1..n /\ s \in [1..n -> Entry]
  OBVIOUS
<1>2. e2 \in Entry
  BY <1>1 DEF Entry
<1>3. s2 = [s EXCEPT ![n] = e2]
  OBVIOUS
<1> HIDE DEF e, e2
<1>4. /\ s2 \in Seq(Entry) /\ Len(s2) = n
      /\ \A i \in 1..n : s2[i] = IF i = n THEN e2 ELSE s[i]
  <2>1. s2 \in [1..n -> Entry] /\ \A i \in 1..n : s2[i] = IF i = n THEN e2 ELSE s[i]
    BY <1>1, <1>2, <1>3
  <2> HIDE DEF s2, n
  <2>2. QED
    BY <1>1, <2>1
<1> HIDE DEF s2
<1>5. f \in Seq(Entry) /\ Len(f) = n - 1 /\ \A i \in 1..(n - 1) : f[i] = s[i]
  <2>1. \A i \in 1..(n - 1) : s[i] \in Entry
    BY <1>1
  <2>2. QED
    BY <1>1, <2>1, SubSeqProperties
<1> HIDE DEF f
<1>6. /\ a \in Seq(Entry) /\ Len(a) = n
      /\ \A i \in 1..n : a[i] = IF i = n THEN e ELSE s[i]
  <2> HIDE DEF n
  <2>1. QED
    BY <1>1, <1>5
<1>7. /\ b \in Seq(Entry) /\ Len(b) = n
      /\ \A i \in 1..n : b[i] = IF i = n THEN e2 ELSE s[i]
  <2> HIDE DEF n
  <2>1. QED
    BY <1>1, <1>2, <1>5
<1> HIDE DEF a, b
<1>8. s = a
  <2>1. \A i \in 1..n : s[i] = a[i]
    BY <1>6 DEF e
  <2>2. QED
    BY <1>6, <2>1, SeqEqual
<1>9. s2 = b
  <2>1. \A i \in 1..n : s2[i] = b[i]
    BY <1>4, <1>7
  <2>2. Len(s2) = Len(b)
    BY <1>4, <1>7
  <2>3. QED
    BY <1>4, <1>7, <2>1, <2>2, SeqEqual
<1>10. /\ s = Append(f, s[Len(s)])
       /\ [s EXCEPT ![Len(s)].n = @ + 1] = Append(f, [s[Len(s)] EXCEPT !.n = @ + 1])
  BY <1>8, <1>9, Zenon DEF a, b, s2, e, e2, n
<1>11. QED
  BY <1>5, <1>10

\* Pushing appends to the list that the entries stand for.
LEMMA ExpandAppend ==
  ASSUME NEW s \in Seq(Entry), NEW e \in Entry
  PROVE  /\ Append(s, e) \in Seq(Entry)
         /\ Vec!Expand(Append(s, e)) = Vec!Expand(s) \o Piece(e)
<1>1. Append(s, e) \in Seq(Entry) /\ Append(s, e) = s \o <<e>>
  OBVIOUS
<1>2. s \in Seq(AnyEntry) /\ <<e>> \in Seq(AnyEntry) /\ e \in AnyEntry
  BY EntryTypes, SeqMonotonic
<1>3. QED
  BY <1>1, <1>2, ExpandConcat, ExpandOne

\* A push appends the value, and keeps runs of zeros apart.
LEMMA ExpandPush ==
  ASSUME VecInv, NEW v \in Nat, Vec!push(v)
  PROVE  /\ inner' \in Seq(Entry)
         /\ \A i \in 2..Len(inner') : inner'[i].is_zero => Vec!IsValue(inner'[i - 1])
         /\ Vec!Expand(inner') = Append(Vec!Expand(inner), v)
<1>0. /\ inner \in Seq(Entry) /\ inner \in Seq(AnyEntry) /\ Vec!Expand(inner) \in Seq(Nat)
      /\ \A i \in 2..Len(inner) : inner[i].is_zero => Vec!IsValue(inner[i - 1])
      /\ Len(inner) \in Nat
  <2>1. inner \in Seq(Entry) /\ Len(inner) \in Nat
        /\ \A i \in 2..Len(inner) : inner[i].is_zero => Vec!IsValue(inner[i - 1])
    BY LenProperties DEF VecInv
  <2>2. inner \in Seq(AnyEntry)
    BY <2>1, EntryTypes, SeqMonotonic
  <2>3. QED
    BY <2>1, <2>2, ExpandType
<1> DEFINE x == Vec!Expand(inner)
<1>1. x \o <<v>> = Append(x, v)
  <2>1. x \in Seq(Nat)
    BY <1>0
  <2> HIDE DEF x
  <2>2. QED
    BY <2>1
<1>2. ASSUME NEW e \in Entry, Piece(e) = <<v>>, inner' = Append(inner, e),
             e.is_zero => inner = << >> \/ Vec!IsValue(inner[Len(inner)])
      PROVE  /\ inner' \in Seq(Entry)
             /\ \A i \in 2..Len(inner') : inner'[i].is_zero => Vec!IsValue(inner'[i - 1])
             /\ Vec!Expand(inner') = Append(x, v)
  <2>1. inner' \in Seq(Entry) /\ Vec!Expand(inner') = Append(x, v)
    BY <1>0, <1>1, <1>2, ExpandAppend, Zenon
  <2>2. Len(inner') = Len(inner) + 1
        /\ \A i \in 1..(Len(inner) + 1) : inner'[i] = IF i <= Len(inner) THEN inner[i] ELSE e
    BY <1>0, <1>2
  <2>3. ASSUME NEW i \in 2..Len(inner'), inner'[i].is_zero
        PROVE  Vec!IsValue(inner'[i - 1])
    <3>1. CASE i <= Len(inner)
      BY <1>0, <2>2, <2>3, <3>1
    <3>2. CASE ~(i <= Len(inner))
      <4>1. i = Len(inner) + 1 /\ inner'[i] = e /\ inner'[i - 1] = inner[Len(inner)]
            /\ inner # << >>
        BY <1>0, <2>2, <3>2
      <4>2. QED
        BY <1>2, <2>3, <4>1
    <3>3. QED
      BY <3>1, <3>2
  <2>4. QED
    BY <2>1, <2>3
<1>3. CASE v > 0
  <2>1. inner' = Append(inner, Vec!Value(v))
    BY <1>3 DEF Vec!push
  <2>2. Vec!Value(v) \in Entry /\ ~Vec!Value(v).is_zero /\ Piece(Vec!Value(v)) = <<v>>
    BY <1>3 DEF Vec!Value, Entry, Piece, Vec!IsValue
  <2>3. QED
    BY <1>2, <2>1, <2>2
<1>4. CASE v = 0 /\ ~(inner # << >> /\ inner[Len(inner)].is_zero)
  <2>1. inner' = Append(inner, Vec!Zeros(1))
    BY <1>4 DEF Vec!push
  <2>2. Vec!Zeros(1) \in Entry /\ ~Vec!IsValue(Vec!Zeros(1)) /\ Vec!Zeros(1).n = 1
    BY DEF Vec!Zeros, Entry, Vec!IsValue
  <2>3. Piece(Vec!Zeros(1)) = <<v>>
    <3>1. Vec!ZeroRun(1) = <<0>>
      BY DEF Vec!ZeroRun
    <3>2. QED
      BY <1>4, <2>2, <3>1 DEF Piece
  <2>4. inner = << >> \/ Vec!IsValue(inner[Len(inner)])
    BY <1>4 DEF Vec!IsValue
  <2>5. QED
    BY <1>2, <2>1, <2>2, <2>3, <2>4
<1>5. CASE v = 0 /\ inner # << >> /\ inner[Len(inner)].is_zero
  <2> DEFINE e == inner[Len(inner)]
             e2 == [e EXCEPT !.n = @ + 1]
  <2>1. inner' = [inner EXCEPT ![Len(inner)].n = @ + 1]
    BY <1>5 DEF Vec!push
  <2>2. PICK f \in Seq(Entry) : inner = Append(f, e) /\ inner' = Append(f, e2)
    BY <1>0, <1>5, <2>1, LongerLast, Zenon
  <2>3. /\ e \in Entry /\ e.is_zero /\ e2 \in Entry /\ e2.is_zero = e.is_zero
        /\ e.n \in Nat /\ e2.n = e.n + 1
    <3>1. e \in Entry /\ e.is_zero
      BY <1>0, <1>5
    <3> HIDE DEF e
    <3>2. e2 \in Entry
      BY <3>1 DEF Entry
    <3>3. e.n \in Nat
      BY <3>1 DEF Entry
    <3>4. e2.n = e.n + 1
      BY <3>1 DEF Entry
    <3>5. e2.is_zero = e.is_zero
      BY <3>1 DEF Entry
    <3>6. QED
      BY <3>1, <3>2, <3>3, <3>4, <3>5
  <2> HIDE DEF e, e2
  <2>4. Vec!Expand(inner') = Append(x, v)
    <3>1. x = Vec!Expand(f) \o Piece(e) /\ Vec!Expand(inner') = Vec!Expand(f) \o Piece(e2)
          /\ inner' \in Seq(Entry)
      BY <2>2, <2>3, ExpandAppend, Zenon
    <3>2. Piece(e) = Vec!ZeroRun(e.n) /\ Piece(e2) = Vec!ZeroRun(e.n + 1)
      BY <2>3 DEF Piece, Vec!IsValue
    <3> DEFINE xf == Vec!Expand(f)
    <3>3. xf \in Seq(Nat)
      BY ExpandType, EntryTypes, SeqMonotonic
    <3> HIDE DEF xf
    <3>4. xf \o Vec!ZeroRun(e.n + 1) = Append(xf \o Vec!ZeroRun(e.n), 0)
      BY <2>3, <3>3, ZeroRunLonger
    <3>5. QED
      BY <1>5, <3>1, <3>2, <3>4, Zenon DEF xf
  <2>5. Len(inner') = Len(inner) /\ \A i \in 1..Len(inner) :
          inner'[i].is_zero = inner[i].is_zero
    <3>1. /\ Len(Append(f, e)) = Len(f) + 1 /\ Len(Append(f, e2)) = Len(f) + 1
          /\ \A i \in 1..(Len(f) + 1) :
               /\ Append(f, e)[i] = IF i <= Len(f) THEN f[i] ELSE e
               /\ Append(f, e2)[i] = IF i <= Len(f) THEN f[i] ELSE e2
      BY <2>2, <2>3
    <3>2. \A i \in 1..(Len(f) + 1) :
               Append(f, e2)[i].is_zero = Append(f, e)[i].is_zero
      <4> DEFINE a == Append(f, e)
                 b == Append(f, e2)
      <4> HIDE DEF a, b
      <4>1. \A i \in 1..(Len(f) + 1) : /\ a[i] = IF i <= Len(f) THEN f[i] ELSE e
                                       /\ b[i] = IF i <= Len(f) THEN f[i] ELSE e2
        BY <3>1, Zenon DEF a, b
      <4>2. ASSUME NEW i \in 1..(Len(f) + 1) PROVE b[i].is_zero = a[i].is_zero
        <5>1. CASE i <= Len(f)
          <6>1. a[i] = f[i] /\ b[i] = f[i]
            BY <4>1, <5>1, Zenon
          <6>2. QED
            BY <6>1, Zenon
        <5>2. CASE ~(i <= Len(f))
          <6>1. a[i] = e /\ b[i] = e2
            BY <4>1, <5>2, Zenon
          <6>2. QED
            BY <2>3, <6>1, Zenon
        <5>3. QED
          BY <5>1, <5>2
      <4>3. QED
        BY <4>2, Zenon DEF a, b
    <3>3. QED
      BY <2>2, <3>1, <3>2, Zenon
  <2>6. inner' \in Seq(Entry)
    BY <2>2, <2>3
  <2>7. ASSUME NEW i \in 2..Len(inner'), inner'[i].is_zero
        PROVE  Vec!IsValue(inner'[i - 1])
    <3>1. i \in 2..Len(inner) /\ i \in 1..Len(inner) /\ i - 1 \in 1..Len(inner)
      BY <1>0, <2>5
    <3>2. inner[i].is_zero
      BY <2>5, <2>7, <3>1
    <3>3. Vec!IsValue(inner[i - 1])
      BY <1>0, <3>1, <3>2
    <3>4. QED
      BY <2>5, <3>1, <3>3 DEF Vec!IsValue
  <2>8. QED
    BY <2>4, <2>6, <2>7
<1>6. QED
  BY <1>3, <1>4, <1>5 

\* The empty list.
LEMMA VecInit ==
  ASSUME Vec!Init
  PROVE  VecInv /\ Vec!Raw!Init
<1>1. it = Vec!NoIter /\ it.curr = None /\ it.rest = << >> /\ it.len = 0 /\ it.out = None
  BY DEF Vec!Init, Vec!NoIter
<1>2. it \in IterType
  BY <1>1, EmptySeq DEF Vec!NoIter, IterType
<1>3. Vec!ToYield = << >> /\ Vec!Expand(inner) = << >> /\ inner = << >> /\ len = 0
      /\ iterating = FALSE
  BY <1>1, ExpandEmpty DEF Vec!ToYield, Vec!Init
<1>4. VecInv
  <2>1. Len(<< >>) = 0 /\ 0 \in Nat /\ 0 >= 0 /\ 2..0 = {} /\ << >> \in Seq(Entry)
    BY EmptySeq
  <2>2. QED
    BY <1>1, <1>2, <1>3, <2>1, Zenon DEF VecInv
<1>5. QED
  BY <1>1, <1>3, <1>4 DEF Vec!Raw!Init

\* What a step that leaves the iterator closed has to show.
LEMMA ClosedStep ==
  ASSUME VecInv, ~iterating, UNCHANGED <<iterating, it>>, inner' \in Seq(Entry),
         \A i \in 2..Len(inner') : inner'[i].is_zero => Vec!IsValue(inner'[i - 1]),
         len' \in Nat, len' >= Len(Vec!Expand(inner'))
  PROVE  VecInv' /\ Vec!ToYield' = Vec!ToYield
<1>1. it' = it /\ iterating' = iterating
  OBVIOUS
<1>2. Vec!ToYield' = Vec!ToYield
  BY <1>1 DEF Vec!ToYield
<1>3. QED
  BY <1>1, <1>2 DEF VecInv, Vec!NoIter

\* push implements the plain list's.
LEMMA PushStep ==
  ASSUME VecInv, NEW v \in Strains, Vec!push(v)
  PROVE  VecInv' /\ Vec!Raw!push(v)
<1>1. v \in Nat /\ ~iterating /\ UNCHANGED <<iterating, it>> /\ len' = len + 1
      /\ len \in Nat /\ len >= Len(Vec!Expand(inner))
  BY StrainsAssumption DEF Vec!push, VecInv
<1>2. /\ inner' \in Seq(Entry)
      /\ \A i \in 2..Len(inner') : inner'[i].is_zero => Vec!IsValue(inner'[i - 1])
      /\ Vec!Expand(inner') = Append(Vec!Expand(inner), v)
  BY <1>1, ExpandPush
<1> DEFINE x == Vec!Expand(inner)
<1>3. x \in Seq(Nat)
  BY ExpandType, EntryTypes, SeqMonotonic DEF VecInv
<1>4. Len(Append(x, v)) = Len(x) + 1 /\ Len(x) \in Nat
  <2> HIDE DEF x
  <2>1. QED
    BY <1>1, <1>3
<1>5. len' \in Nat /\ len' >= Len(Vec!Expand(inner'))
  <2>1. Len(Vec!Expand(inner')) = Len(x) + 1
    BY <1>2, <1>4, Zenon
  <2>2. QED
    BY <1>1, <1>4, <2>1
<1>6. VecInv' /\ Vec!ToYield' = Vec!ToYield
  BY <1>1, <1>2, <1>5, ClosedStep
<1>7. Vec!Raw!push(v)
  BY <1>1, <1>2, <1>6 DEF Vec!Raw!push
<1>8. QED
  BY <1>6, <1>7

\* A list of values is compact, and as long as what it stands for.
LEMMA ValuesFit ==
  ASSUME NEW s \in Seq(ValueEntry)
  PROVE  /\ s \in Seq(Entry)
         /\ \A i \in 2..Len(s) : s[i].is_zero => Vec!IsValue(s[i - 1])
         /\ Len(Vec!Expand(s)) = Len(s)
<1>1. s \in Seq(Entry)
  BY EntryTypes, SeqMonotonic
<1>2. \A i \in 1..Len(s) : ~s[i].is_zero /\ s[i].n \in Nat
  BY ElementOfSeq, EntryTypes DEF ValueEntry
<1>3. Len(s) \in Nat
  BY LenProperties
<1>4. Len([i \in 1..Len(s) |-> s[i].n]) = Len(s)
  BY <1>2, <1>3
<1>5. QED
  BY <1>1, <1>2, <1>3, <1>4, ExpandValues

\* sort_desc implements the plain list's.
LEMMA SortStep ==
  ASSUME VecInv, Vec!sort_desc
  PROVE  VecInv' /\ Vec!Raw!sort_desc
<1>1. /\ ~iterating /\ UNCHANGED <<len, iterating, it>> /\ inner' = Vec!Descending(inner)
      /\ inner \in Seq(Entry) /\ \A i \in 1..Len(inner) : Vec!IsValue(inner[i])
      /\ len \in Nat /\ len >= Len(Vec!Expand(inner))
  BY LenProperties DEF VecInv, Vec!sort_desc
<1>2. inner \in Seq(ValueEntry)
  <2>1. \A i \in 1..Len(inner) : inner[i] \in ValueEntry
    BY <1>1, ElementOfSeq DEF ValueEntry, Vec!IsValue
  <2>2. QED
    BY <1>1, <2>1, IsASeq, LenProperties
<1>3. /\ inner' \in Seq(ValueEntry) /\ Len(inner') = Len(inner)
      /\ Vec!Expand(inner') = Vec!Raw!SortedDesc(Vec!Expand(inner))
  BY <1>1, <1>2, DescendingEntries
<1>4. len' \in Nat /\ len' >= Len(Vec!Expand(inner'))
  <2>1. Len(Vec!Expand(inner')) = Len(Vec!Expand(inner))
    BY <1>2, <1>3, ValuesFit
  <2>2. QED
    BY <1>1, <2>1
<1>5. VecInv' /\ Vec!ToYield' = Vec!ToYield
  BY <1>1, <1>3, <1>4, ValuesFit, ClosedStep
<1>6. Vec!Raw!sort_desc
  BY <1>1, <1>3, <1>5 DEF Vec!Raw!sort_desc
<1>7. QED
  BY <1>5, <1>6

\* The values that are left, in descending order.
LEMMA RetainedFit ==
  ASSUME NEW s \in Seq(Entry)
  PROVE  /\ Vec!Descending(Vec!NonZero(s)) \in Seq(ValueEntry)
         /\ Len(Vec!Descending(Vec!NonZero(s))) <= Len(Vec!Expand(s))
         /\ Vec!Expand(Vec!Descending(Vec!NonZero(s)))
              = Vec!Raw!SortedDesc(Vec!Raw!NonZero(Vec!Expand(s)))
<1>1. /\ Vec!NonZero(s) \in Seq(ValueEntry)
      /\ Vec!Expand(Vec!NonZero(s)) = Vec!Raw!NonZero(Vec!Expand(s))
      /\ Len(Vec!NonZero(s)) <= Len(Vec!Expand(s))
  BY NonZeroEntries, NonZeroExpands
<1>2. QED
  BY <1>1, DescendingEntries

\* retain_non_zero_and_sort implements the plain list's.
LEMMA RetainStep ==
  ASSUME VecInv, Vec!retain_non_zero_and_sort
  PROVE  VecInv' /\ Vec!Raw!retain_non_zero_and_sort
<1>1. /\ ~iterating /\ UNCHANGED <<len, iterating, it>>
      /\ inner' = Vec!Descending(Vec!NonZero(inner)) /\ inner \in Seq(Entry)
      /\ len \in Nat /\ len >= Len(Vec!Expand(inner))
  BY DEF VecInv, Vec!retain_non_zero_and_sort, Vec!RetainedAndSorted
<1>2. /\ inner' \in Seq(ValueEntry) /\ Len(inner') <= Len(Vec!Expand(inner))
      /\ Vec!Expand(inner') = Vec!Raw!SortedDesc(Vec!Raw!NonZero(Vec!Expand(inner)))
  BY <1>1, RetainedFit
<1>3. len' \in Nat /\ len' >= Len(Vec!Expand(inner'))
  <2>1. Len(Vec!Expand(inner')) = Len(inner') /\ Len(inner') \in Nat
    BY <1>2, ValuesFit, LenProperties
  <2>2. Len(Vec!Expand(inner)) \in Nat
    BY <1>1, ExpandType, EntryTypes, SeqMonotonic, LenProperties
  <2>3. QED
    BY <1>1, <1>2, <2>1, <2>2
<1>4. VecInv' /\ Vec!ToYield' = Vec!ToYield
  BY <1>1, <1>2, <1>3, ValuesFit, ClosedStep
<1>5. Vec!Raw!retain_non_zero_and_sort
  BY <1>1, <1>2, <1>4 DEF Vec!Raw!retain_non_zero_and_sort
<1>6. QED
  BY <1>4, <1>5

\* A reduced peak is still a peak.
LEMMA ScaledPositive ==
  ASSUME NEW v \in Nat, v > 0
  PROVE  Vec!Scaled(v) \in Nat /\ Vec!Scaled(v) > 0
BY DEF Vec!Scaled

\* The reduction of the highest peaks, which every osu! skill ends with.
LEMMA ReduceStep ==
  ASSUME VecInv, Vec!sorted_non_zero_iter_mut
  PROVE  VecInv' /\ \E n \in 0..Len(Vec!Expand(inner)) : Vec!Raw!sorted_non_zero_iter_mut(n)
<1> DEFINE s == Vec!Descending(Vec!NonZero(inner))
           l == Len(Vec!Expand(inner))
           n == IF ReducedCount <= l THEN ReducedCount ELSE l
           red(i) == IF i <= ReducedCount THEN Vec!Value(Vec!Scaled(s[i].n)) ELSE s[i]
<1>1. /\ ~iterating /\ UNCHANGED <<len, iterating, it>> /\ inner \in Seq(Entry)
      /\ inner' = [i \in DOMAIN s |-> red(i)] /\ len \in Nat /\ len >= l
  BY DEF VecInv, Vec!sorted_non_zero_iter_mut, Vec!RetainedAndSorted
<1>2. /\ s \in Seq(ValueEntry) /\ Len(s) <= l /\ Len(s) \in Nat /\ DOMAIN s = 1..Len(s)
      /\ Vec!Expand(s) = Vec!Raw!SortedDesc(Vec!Raw!NonZero(Vec!Expand(inner)))
  BY <1>1, RetainedFit, LenProperties
<1>3. l \in Nat
  BY <1>1, ExpandType, EntryTypes, SeqMonotonic, LenProperties
<1> HIDE DEF s, l
<1>4. ASSUME NEW i \in 1..Len(s)
      PROVE  s[i] \in ValueEntry /\ s[i].n \in Nat /\ s[i].n > 0
  BY <1>2, ElementOfSeq, EntryTypes DEF ValueEntry
<1>5. ASSUME NEW i \in 1..Len(s)
      PROVE  /\ red(i) \in ValueEntry
             /\ red(i).n = IF i <= n THEN Vec!Scaled(s[i].n) ELSE s[i].n
  <2>1. i <= ReducedCount <=> i <= n
    BY <1>2, <1>3, ReducedCountAssumption
  <2>2. \A v \in Nat : v > 0 => Vec!Value(v) \in ValueEntry /\ Vec!Value(v).n = v
    BY DEF Vec!Value, ValueEntry, Entry
  <2>3. QED
    BY <1>4, <2>1, <2>2, ScaledPositive
<1> HIDE DEF red, n
<1>6. /\ inner' \in Seq(ValueEntry) /\ Len(inner') = Len(s)
      /\ \A i \in 1..Len(s) : inner'[i] = red(i)
  BY <1>1, <1>2, <1>5
<1>7. Vec!Expand(inner') = [i \in 1..Len(s) |-> red(i).n]
  <2>1. Vec!Expand(inner') = [i \in 1..Len(inner') |-> inner'[i].n]
    BY <1>6, ExpandValues
  <2>2. QED
    BY <1>6, <2>1
<1> DEFINE xs == Vec!Expand(s)
<1>8. xs = [i \in 1..Len(s) |-> s[i].n]
  BY <1>2, ExpandValues
<1>9. DOMAIN xs = 1..Len(s) /\ \A i \in 1..Len(s) : xs[i] = s[i].n
  BY <1>8
<1> HIDE DEF xs
<1>10. Vec!Expand(inner') = [i \in DOMAIN xs |-> IF i <= n THEN Vec!Scaled(xs[i]) ELSE xs[i]]
  BY <1>5, <1>7, <1>9
<1>11. len' \in Nat /\ len' >= Len(Vec!Expand(inner'))
  <2>1. Len(Vec!Expand(inner')) = Len(s)
    BY <1>6, ValuesFit
  <2>2. QED
    BY <1>1, <1>2, <1>3, <2>1
<1>12. VecInv' /\ Vec!ToYield' = Vec!ToYield
  BY <1>1, <1>6, <1>11, ValuesFit, ClosedStep
<1>13. xs = Vec!Raw!SortedDesc(Vec!Raw!NonZero(Vec!Expand(inner)))
  BY <1>2 DEF xs
<1>14. Vec!Raw!sorted_non_zero_iter_mut(n)
  BY <1>1, <1>10, <1>12, <1>13 DEF Vec!Raw!sorted_non_zero_iter_mut
<1>15. n \in 0..l
  BY <1>3, ReducedCountAssumption DEF n
<1>16. QED
  BY <1>12, <1>14, <1>15 DEF l

\* iter implements the plain list's.
LEMMA IterStep ==
  ASSUME VecInv, Vec!iter
  PROVE  VecInv' /\ Vec!Raw!iter
<1>1. /\ ~iterating /\ iterating' = TRUE /\ UNCHANGED <<inner, len>> /\ inner \in Seq(Entry)
      /\ len \in Nat /\ len >= Len(Vec!Expand(inner))
      /\ it' = [curr |-> Vec!Following(inner), rest |-> Vec!Rest(inner), len |-> len,
                out |-> None]
  BY DEF VecInv, Vec!iter
<1>2. /\ Vec!Following(inner) \in Entry \cup {None} /\ Vec!Rest(inner) \in Seq(Entry)
      /\ YetToYield(Vec!Following(inner), Vec!Rest(inner)) = Vec!Expand(inner)
  BY <1>1, YieldNext
<1>3. it' \in IterType /\ it'.curr = Vec!Following(inner) /\ it'.rest = Vec!Rest(inner)
      /\ it'.len = len /\ it'.out = None
  BY <1>1, <1>2, EntryTypes DEF IterType
<1>4. Vec!ToYield' = Vec!Expand(inner)
  BY <1>2, <1>3 DEF Vec!ToYield, YetToYield
<1>5. VecInv'
  BY <1>1, <1>2, <1>3, <1>4 DEF VecInv
<1>6. QED
  BY <1>1, <1>3, <1>4, <1>5 DEF Vec!Raw!iter

\* Dropping the iterator.
LEMMA FinishStep ==
  ASSUME VecInv, Vec!finish
  PROVE  VecInv' /\ Vec!Raw!finish
<1>1. /\ iterating /\ iterating' = FALSE /\ UNCHANGED <<inner, len>> /\ it' = Vec!NoIter
  BY DEF Vec!finish
<1>2. it' \in IterType /\ it'.curr = None /\ it'.rest = << >> /\ it'.out = None /\ it'.len = 0
  BY <1>1, EmptySeq DEF IterType, Vec!NoIter
<1>3. Vec!ToYield' = << >>
  BY <1>2 DEF Vec!ToYield
<1>4. VecInv'
  <2>1. it'.len >= Len(Vec!ToYield')
    BY <1>2, <1>3, EmptySeq
  <2>2. it' = Vec!NoIter' /\ Vec!Expand(inner)' = Vec!Expand(inner)
    BY <1>1 DEF Vec!NoIter, Vec!finish
  <2>3. QED
    BY <1>1, <1>2, <2>1, <2>2 DEF VecInv
<1>5. QED
  BY <1>1, <1>2, <1>3, <1>4 DEF Vec!Raw!finish

\* Every method of StrainsVec keeps the invariant and implements the plain list's.
LEMMA VecStep ==
  ASSUME VecInv, Vec!Next
  PROVE  VecInv' /\ Vec!Raw!Next
<1>1. ASSUME NEW v \in Strains, Vec!push(v) PROVE VecInv' /\ Vec!Raw!Next
  BY <1>1, PushStep DEF Vec!Raw!Next
<1>2. CASE Vec!sort_desc
  BY <1>2, SortStep DEF Vec!Raw!Next
<1>3. CASE Vec!retain_non_zero_and_sort
  BY <1>3, RetainStep DEF Vec!Raw!Next
<1>4. CASE Vec!sorted_non_zero_iter_mut
  BY <1>4, ReduceStep DEF Vec!Raw!Next
<1>5. CASE Vec!iter
  BY <1>5, IterStep DEF Vec!Raw!Next
<1>6. CASE Vec!next
  BY <1>6, NextStep DEF Vec!Raw!Next
<1>7. CASE Vec!finish
  BY <1>7, FinishStep DEF Vec!Raw!Next
<1>8. QED
  BY <1>1, <1>2, <1>3, <1>4, <1>5, <1>6, <1>7 DEF Vec!Next

-----------------------------------------------------------------------------
(* ObjectCountBuilder *)

\* The operators of the instance are those of CatchObjects.
LEMMA CountsInstances ==
  /\ \A rs, take : Counts!RegularCount(rs, take) = CO!RegularCount(rs, take)
  /\ \A rs : Counts!GradualCount(rs) = CO!GradualCount(rs)
  /\ \A rs : Counts!Pending(rs) = CO!Pending(rs)
  /\ \A g, S : Counts!SumOfDeltas(g, S) = CO!SumOfDeltas(g, S)
  /\ Counts!NoCount = CO!NoCount /\ Counts!Fruit = CO!Fruit /\ Counts!Droplet = CO!Droplet
  /\ \A n : Counts!Tiny(n) = CO!Tiny(n)
  /\ \A a, b : Counts!Least(a, b) = CO!Least(a, b)
<1>1. \A S : Counts!Cardinality(S) = CO!Cardinality(S)
  BY DEF Counts!Cardinality, CO!Cardinality
<1>2. \A f : Counts!SumFunction(f) = CO!SumFunction(f)
  BY DEF Counts!SumFunction, Counts!SumFunctionOnSet, Counts!FoldFunctionOnSet,
         Counts!MapThenFoldSet, CO!SumFunction, CO!SumFunctionOnSet, CO!FoldFunctionOnSet,
         CO!MapThenFoldSet
<1>3. /\ Counts!NoCount = CO!NoCount /\ Counts!Fruit = CO!Fruit /\ Counts!Droplet = CO!Droplet
      /\ \A n : Counts!Tiny(n) = CO!Tiny(n)
      /\ \A r : Counts!IsTiny(r) = CO!IsTiny(r)
      /\ \A a, b : Counts!Least(a, b) = CO!Least(a, b)
  BY DEF Counts!NoCount, CO!NoCount, Counts!Fruit, CO!Fruit, Counts!Droplet, CO!Droplet,
         Counts!Tiny, CO!Tiny, Counts!IsTiny, CO!IsTiny, Counts!Least, CO!Least
<1>4. \A rs, i : Counts!PalpableCalls(rs, i) = CO!PalpableCalls(rs, i)
  BY <1>3 DEF Counts!PalpableCalls, CO!PalpableCalls
<1>5. \A rs, S : Counts!TinySum(rs, S) = CO!TinySum(rs, S)
  BY <1>2, <1>3 DEF Counts!TinySum, CO!TinySum
<1>6. ASSUME NEW rs, NEW take PROVE Counts!RegularCount(rs, take) = CO!RegularCount(rs, take)
  <2> DEFINE T1 == {i \in DOMAIN rs : Counts!Cardinality(Counts!PalpableCalls(rs, i - 1)) < take}
             T2 == {i \in DOMAIN rs : CO!Cardinality(CO!PalpableCalls(rs, i - 1)) < take}
  <2>1. T1 = T2
    BY <1>1, <1>4
  <2>2. /\ {i \in T1 : rs[i] = Counts!Fruit} = {i \in T2 : rs[i] = CO!Fruit}
        /\ {i \in T1 : rs[i] = Counts!Droplet} = {i \in T2 : rs[i] = CO!Droplet}
    BY <1>3, <2>1
  <2> HIDE DEF T1, T2
  <2>3. Counts!RegularCount(rs, take) =
          [fruits        |-> Counts!Cardinality({i \in T1 : rs[i] = Counts!Fruit}),
           droplets      |-> Counts!Cardinality({i \in T1 : rs[i] = Counts!Droplet}),
           tiny_droplets |-> Counts!TinySum(rs, T1)]
    BY DEF Counts!RegularCount, T1
  <2>4. CO!RegularCount(rs, take) =
          [fruits        |-> CO!Cardinality({i \in T2 : rs[i] = CO!Fruit}),
           droplets      |-> CO!Cardinality({i \in T2 : rs[i] = CO!Droplet}),
           tiny_droplets |-> CO!TinySum(rs, T2)]
    BY DEF CO!RegularCount, T2
  <2>5. QED
    BY <1>1, <1>5, <2>1, <2>2, <2>3, <2>4
<1>7. ASSUME NEW rs PROVE Counts!GradualCount(rs) = CO!GradualCount(rs)
  <2> DEFINE palp1 == Counts!PalpableCalls(rs, Len(rs))
             palp2 == CO!PalpableCalls(rs, Len(rs))
             At1(k) == CHOOSE i \in palp1 : Counts!Cardinality(Counts!PalpableCalls(rs, i)) = k
             At2(k) == CHOOSE i \in palp2 : CO!Cardinality(CO!PalpableCalls(rs, i)) = k
             Before1(k) == {i \in 1..(At1(k) - 1) :
                              Counts!Cardinality(Counts!PalpableCalls(rs, i)) = k - 1}
             Before2(k) == {i \in 1..(At2(k) - 1) :
                              CO!Cardinality(CO!PalpableCalls(rs, i)) = k - 1}
  <2>1. palp1 = palp2
    BY <1>4
  <2>2. \A i : Counts!Cardinality(Counts!PalpableCalls(rs, i))
                = CO!Cardinality(CO!PalpableCalls(rs, i))
    BY <1>1, <1>4
  <2>3. \A k : At1(k) = At2(k)
    BY <2>1, <2>2
  <2> HIDE DEF At1, At2
  <2>4. \A k : Before1(k) = Before2(k)
    BY <2>2, <2>3
  <2> HIDE DEF palp1, palp2, Before1, Before2
  <2>5. Counts!GradualCount(rs) =
          [k \in 1..Counts!Cardinality(palp1) |->
             [fruit |-> rs[At1(k)] = Counts!Fruit,
              tiny_droplets |-> Counts!TinySum(rs, Before1(k))]]
    BY DEF Counts!GradualCount, palp1, At1, Before1
  <2>6. CO!GradualCount(rs) =
          [k \in 1..CO!Cardinality(palp2) |->
             [fruit |-> rs[At2(k)] = CO!Fruit, tiny_droplets |-> CO!TinySum(rs, Before2(k))]]
    BY DEF CO!GradualCount, palp2, At2, Before2
  <2>7. QED
    BY <1>1, <1>3, <1>5, <2>1, <2>3, <2>4, <2>5, <2>6
<1>8. \A rs : Counts!Pending(rs) = CO!Pending(rs)
  BY <1>4, <1>5 DEF Counts!Pending, CO!Pending
<1>9. \A g, S : Counts!SumOfDeltas(g, S) = CO!SumOfDeltas(g, S)
  BY <1>1, <1>2 DEF Counts!SumOfDeltas, CO!SumOfDeltas
<1>10. QED
  BY <1>3, <1>6, <1>7, <1>8, <1>9

CountsInv ==
  /\ take0 \in Nat /\ recorded \in Seq(CO!Record)
  /\ regular = [take  |-> SaturatingSub(take0, CO!Palps(recorded)),
                count |-> CO!RegularCount(recorded, take0)]
  /\ gradual = [count |-> [fruit |-> FALSE, tiny_droplets |-> CO!Pending(recorded)],
                all   |-> CO!GradualCount(recorded)]

\* The builders agree, by CountsOfPrefix.
LEMMA CountsInvAgree ==
  ASSUME CountsInv
  PROVE  Counts!HoldsCounts /\ Counts!BuildersAgree
<1> DEFINE n == CO!Palps(recorded)
           g == CO!GradualCount(recorded)
<1>1. n \in Nat /\ g \in [1..n -> CO!Delta]
  <2>1. CO!Fruit \in CO!Record
    BY CO!RecordTypes
  <2>2. QED
    BY <2>1, CO!GradualAppend DEF CountsInv
<1>2. Counts!HoldsCounts
  BY CountsInstances DEF Counts!HoldsCounts, CountsInv
<1>3. Len(g) = n
  BY <1>1
<1>4. /\ gradual.all = g /\ gradual.count.tiny_droplets = CO!Pending(recorded)
      /\ regular.count = CO!RegularCount(recorded, take0) /\ take0 \in Nat
  BY DEF CountsInv
<1>5. CO!RegularCount(recorded, take0) =
        IF take0 <= n THEN CO!SumOfDeltas(g, 1..take0)
        ELSE CO!WithTiny(CO!SumOfDeltas(g, 1..n), CO!Pending(recorded))
  BY CO!CountsOfPrefix DEF CountsInv
<1> HIDE DEF n, g
<1>6. Counts!SumOfDeltas(g, 1..Counts!Least(take0, n)) = CO!SumOfDeltas(g, 1..CO!Least(take0, n))
  BY CountsInstances
<1>7. CO!Least(take0, n) = IF take0 <= n THEN take0 ELSE n
  BY <1>1, <1>4 DEF CO!Least
<1>8. Counts!BuildersAgree
  BY <1>3, <1>4, <1>5, <1>6, <1>7 DEF Counts!BuildersAgree, CO!WithTiny
<1>9. QED
  BY <1>2, <1>8

\* Both builders start empty.
LEMMA CountsInit ==
  ASSUME Counts!Init
  PROVE  CountsInv
<1>1. /\ take0 \in Nat /\ recorded = << >>
      /\ regular = [take |-> take0, count |-> CO!NoCount]
      /\ gradual = [count |-> [fruit |-> FALSE, tiny_droplets |-> 0], all |-> << >>]
  BY CallsAssumption, CountsInstances DEF Counts!Init, Counts!NoDelta
<1>2. /\ CO!Palps(<< >>) = 0 /\ CO!Pending(<< >>) = 0 /\ CO!GradualCount(<< >>) = << >>
      /\ CO!RegularCount(<< >>, take0) = CO!NoCount
  BY <1>1, CO!CountsEmpty
<1>3. SaturatingSub(take0, 0) = take0
  BY <1>1 DEF SaturatingSub
<1>4. QED
  BY <1>1, <1>2, <1>3, EmptySeq DEF CountsInv

\* One more call, whichever it was.
LEMMA RecordStep ==
  ASSUME CountsInv, NEW r \in CO!Record, recorded' = Append(recorded, r), take0' = take0,
         regular' = IF regular.take = 0 THEN regular
                    ELSE [take  |-> regular.take - (IF CO!IsTiny(r) THEN 0 ELSE 1),
                          count |-> CO!Counting(regular.count, r)],
         gradual' = IF CO!IsTiny(r)
                    THEN [count |-> [fruit |-> FALSE,
                                     tiny_droplets |-> gradual.count.tiny_droplets + r.n],
                          all   |-> gradual.all]
                    ELSE [count |-> [fruit |-> FALSE, tiny_droplets |-> 0],
                          all   |-> Append(gradual.all,
                                      [fruit |-> r = CO!Fruit,
                                       tiny_droplets |-> gradual.count.tiny_droplets])]
  PROVE  CountsInv'
<1> DEFINE n == CO!Palps(recorded)
           m == CO!Palps(recorded')
           g == CO!GradualCount(recorded)
           h == CO!GradualCount(recorded')
           p == CO!Pending(recorded)
           c == CO!RegularCount(recorded, take0)
           d == [fruit |-> r = CO!Fruit, tiny_droplets |-> p]
<1>1. /\ take0 \in Nat /\ recorded \in Seq(CO!Record)
      /\ regular = [take |-> SaturatingSub(take0, n), count |-> c]
      /\ gradual = [count |-> [fruit |-> FALSE, tiny_droplets |-> p], all |-> g]
  BY DEF CountsInv
<1>2. /\ recorded' \in Seq(CO!Record) /\ n \in Nat /\ m = IF CO!IsTiny(r) THEN n ELSE n + 1
  BY <1>1, CO!PalpsAppend
<1>3. /\ p \in Nat /\ CO!Pending(recorded') = IF CO!IsTiny(r) THEN p + r.n ELSE 0
  BY <1>1, CO!PendingAppend
<1>4. /\ CO!RegularCount(recorded', take0) = IF n < take0 THEN CO!Counting(c, r) ELSE c
  BY <1>1, CO!RegularAppend
<1>5. /\ g \in [1..n -> CO!Delta]
      /\ CO!IsTiny(r) => h = g
      /\ ~CO!IsTiny(r) => h = [k \in 1..(n + 1) |-> IF k <= n THEN g[k] ELSE d]
  BY <1>1, CO!GradualAppend
<1>6. d \in CO!Delta
  BY <1>3 DEF CO!Delta
<1> HIDE DEF n, m, g, h, p, c, d
<1>7. ~CO!IsTiny(r) => h = Append(g, d)
  <2> SUFFICES ASSUME ~CO!IsTiny(r) PROVE h = Append(g, d)
    OBVIOUS
  <2> DEFINE a == Append(g, d)
  <2>1. g \in Seq(CO!Delta) /\ Len(g) = n
    BY <1>2, <1>5
  <2>2. /\ a \in Seq(CO!Delta) /\ Len(a) = n + 1
        /\ \A k \in 1..(n + 1) : a[k] = IF k <= n THEN g[k] ELSE d
    BY <1>2, <1>6, <2>1
  <2> HIDE DEF a
  <2>3. \A k \in 1..(n + 1) : h[k] = IF k <= n THEN g[k] ELSE d
    BY <1>5
  <2>4. h \in [1..(n + 1) -> CO!Delta]
    <3>1. \A k \in 1..(n + 1) : (IF k <= n THEN g[k] ELSE d) \in CO!Delta
      BY <1>2, <1>5, <1>6
    <3>2. QED
      BY <1>5, <3>1
  <2>5. h \in Seq(CO!Delta) /\ Len(h) = n + 1
    BY <1>2, <2>4
  <2>6. h = a
    BY <2>2, <2>3, <2>5, SeqEqual
  <2>7. QED
    BY <2>6 DEF a
<1>8. regular' = [take |-> SaturatingSub(take0, m), count |-> CO!RegularCount(recorded', take0)]
  <2>1. CASE n < take0
    <3>1. regular.take = take0 - n /\ regular.take # 0 /\ regular.count = c
      BY <1>1, <1>2, <2>1 DEF SaturatingSub
    <3>2. SaturatingSub(take0, m) = regular.take - (IF CO!IsTiny(r) THEN 0 ELSE 1)
      BY <1>1, <1>2, <2>1, <3>1 DEF SaturatingSub
    <3>3. QED
      BY <1>4, <2>1, <3>1, <3>2
  <2>2. CASE ~(n < take0)
    <3>1. regular.take = 0 /\ SaturatingSub(take0, m) = 0
      BY <1>1, <1>2, <2>2 DEF SaturatingSub
    <3>2. QED
      BY <1>1, <1>4, <2>2, <3>1
  <2>3. QED
    BY <2>1, <2>2
<1>9. gradual' = [count |-> [fruit |-> FALSE, tiny_droplets |-> CO!Pending(recorded')], all |-> h]
  <2>1. gradual.count.tiny_droplets = p /\ gradual.all = g
    BY <1>1
  <2>2. CASE CO!IsTiny(r)
    BY <1>3, <1>5, <2>1, <2>2
  <2>3. CASE ~CO!IsTiny(r)
    BY <1>3, <1>7, <2>1, <2>3 DEF d
  <2>4. QED
    BY <2>2, <2>3
<1>10. QED
  BY <1>1, <1>2, <1>8, <1>9 DEF CountsInv, m, h

\* Updating the delta in hand,
LEMMA CountWith ==
  ASSUME NEW x, NEW t \in Nat, NEW b, NEW c, x = [fruit |-> b, tiny_droplets |-> t]
  PROVE  [x EXCEPT !.fruit = c] = [fruit |-> c, tiny_droplets |-> t]
OBVIOUS

\* and the delta in hand of a builder.
LEMMA GradualWith ==
  ASSUME NEW y, NEW t \in Nat, NEW a, NEW n \in Nat, NEW b,
         y = [count |-> [fruit |-> b, tiny_droplets |-> t], all |-> a]
  PROVE  [y EXCEPT !.count.tiny_droplets = y.count.tiny_droplets + n]
           = [count |-> [fruit |-> b, tiny_droplets |-> t + n], all |-> a]
OBVIOUS

\* Every call on the pair of builders keeps the invariant.
LEMMA CountsStep ==
  ASSUME CountsInv, Counts!Next
  PROVE  CountsInv'
<1>1. /\ regular = [take |-> regular.take, count |-> regular.count]
      /\ gradual = [count |-> [fruit |-> FALSE, tiny_droplets |-> gradual.count.tiny_droplets],
                    all |-> gradual.all]
      /\ regular.count \in CO!CatchCount
      /\ gradual.count.tiny_droplets \in Nat
  <2>1. CO!Fruit \in CO!Record /\ recorded \in Seq(CO!Record) /\ take0 \in Nat
    BY CO!RecordTypes DEF CountsInv
  <2>2. CO!RegularCount(recorded, take0) \in CO!CatchCount /\ CO!Pending(recorded) \in Nat
    BY <2>1, CO!RegularAppend, CO!PendingAppend
  <2>3. QED
    BY <2>2 DEF CountsInv
<1> DEFINE c == regular.count
<1>2. c = [fruits |-> c.fruits, droplets |-> c.droplets, tiny_droplets |-> c.tiny_droplets]
      /\ c.fruits \in Nat /\ c.droplets \in Nat /\ c.tiny_droplets \in Nat
  BY <1>1 DEF CO!CatchCount
<1> DEFINE x == gradual.count
           t == gradual.count.tiny_droplets
<1>7. x = [fruit |-> FALSE, tiny_droplets |-> t]
  BY DEF CountsInv
<1>8. gradual = [count |-> x, all |-> gradual.all]
  BY DEF CountsInv
<1>3. CASE Counts!record_fruit
  <2>1. CO!Fruit \in CO!Record /\ ~CO!IsTiny(CO!Fruit) /\ CO!Fruit # CO!Droplet
    BY CO!RecordTypes
  <2>2. CO!Counting(c, CO!Fruit) = [c EXCEPT !["fruits"] = @ + 1]
    BY <1>2, <2>1 DEF CO!Counting
  <2>3. /\ recorded' = Append(recorded, CO!Fruit) /\ take0' = take0
        /\ regular' = IF regular.take = 0 THEN regular
                      ELSE [take |-> regular.take - 1, count |-> [c EXCEPT !["fruits"] = @ + 1]]
        /\ gradual' = [count |-> [fruit |-> FALSE, tiny_droplets |-> 0],
                       all   |-> Append(gradual.all, [gradual.count EXCEPT !.fruit = TRUE])]
    BY <1>3, CountsInstances DEF Counts!record_fruit, Counts!Palp, Counts!NoDelta
  <2>4. [gradual.count EXCEPT !.fruit = TRUE]
          = [fruit |-> CO!Fruit = CO!Fruit, tiny_droplets |-> gradual.count.tiny_droplets]
    <3>1. [x EXCEPT !.fruit = TRUE] = [fruit |-> TRUE, tiny_droplets |-> t]
      BY <1>1, <1>7, CountWith, Zenon DEF t
    <3>2. (CO!Fruit = CO!Fruit) = TRUE
      OBVIOUS
    <3>3. QED
      BY <3>1, <3>2, Zenon DEF x, t
  <2> HIDE DEF c
  <2>5. regular' = IF regular.take = 0 THEN regular
                   ELSE [take  |-> regular.take - (IF CO!IsTiny(CO!Fruit) THEN 0 ELSE 1),
                         count |-> CO!Counting(c, CO!Fruit)]
    BY <2>1, <2>2, <2>3
  <2>6. QED
    BY <2>1, <2>3, <2>4, <2>5, RecordStep DEF c
<1>4. CASE Counts!record_droplet
  <2>1. CO!Droplet \in CO!Record /\ ~CO!IsTiny(CO!Droplet) /\ CO!Fruit # CO!Droplet
    BY CO!RecordTypes
  <2>2. CO!Counting(c, CO!Droplet) = [c EXCEPT !["droplets"] = @ + 1]
    BY <1>2, <2>1 DEF CO!Counting
  <2>3. /\ recorded' = Append(recorded, CO!Droplet) /\ take0' = take0
        /\ regular' = IF regular.take = 0 THEN regular
                      ELSE [take |-> regular.take - 1, count |-> [c EXCEPT !["droplets"] = @ + 1]]
        /\ gradual' = [count |-> [fruit |-> FALSE, tiny_droplets |-> 0],
                       all   |-> Append(gradual.all, gradual.count)]
    BY <1>4, CountsInstances DEF Counts!record_droplet, Counts!Palp, Counts!NoDelta
  <2>4. gradual.count
          = [fruit |-> CO!Droplet = CO!Fruit, tiny_droplets |-> gradual.count.tiny_droplets]
    <3>1. (CO!Droplet = CO!Fruit) = FALSE
      BY <2>1
    <3>2. QED
      BY <1>7, <3>1, Zenon DEF x, t
  <2> HIDE DEF c
  <2>5. regular' = IF regular.take = 0 THEN regular
                   ELSE [take  |-> regular.take - (IF CO!IsTiny(CO!Droplet) THEN 0 ELSE 1),
                         count |-> CO!Counting(c, CO!Droplet)]
    BY <2>1, <2>2, <2>3
  <2>6. QED
    BY <2>1, <2>3, <2>4, <2>5, RecordStep DEF c
<1>5. ASSUME NEW n \in 0..MaxTiny, Counts!record_tiny_droplets(n) PROVE CountsInv'
  <2>1. CO!Tiny(n) \in CO!Record /\ CO!IsTiny(CO!Tiny(n)) /\ CO!Tiny(n).n = n /\ n \in Nat
        /\ CO!Tiny(n) # CO!Fruit /\ CO!Tiny(n) # CO!Droplet
    <3>1. n \in Nat
      BY CallsAssumption
    <3>2. QED
      BY <3>1, CO!RecordTypes
  <2>2. /\ recorded' = Append(recorded, CO!Tiny(n)) /\ take0' = take0
        /\ regular' = IF regular.take = 0 THEN regular
                      ELSE [regular EXCEPT !.count.tiny_droplets = @ + n]
        /\ gradual' = [gradual EXCEPT !.count.tiny_droplets = @ + n]
    BY <1>5, CountsInstances DEF Counts!record_tiny_droplets
  <2>3. CO!Counting(c, CO!Tiny(n)) = [c EXCEPT !.tiny_droplets = @ + n]
    BY <1>2, <2>1 DEF CO!Counting
  <2>4. [regular EXCEPT !.count.tiny_droplets = @ + n]
          = [take |-> regular.take - (IF CO!IsTiny(CO!Tiny(n)) THEN 0 ELSE 1),
             count |-> CO!Counting(c, CO!Tiny(n))]
    <3>1. regular.take - 0 = regular.take
      <4>1. CO!Palps(recorded) \in Nat /\ take0 \in Nat
        BY CO!PalpsAppend, <2>1 DEF CountsInv
      <4>2. regular.take \in Nat
        BY <4>1 DEF CountsInv, SaturatingSub
      <4>3. QED
        BY <4>2
    <3>2. [regular EXCEPT !.count.tiny_droplets = @ + n]
            = [take |-> regular.take, count |-> [c EXCEPT !.tiny_droplets = @ + n]]
      BY <1>1
    <3>3. QED
      BY <2>1, <2>3, <3>1, <3>2
  <2>5. [gradual EXCEPT !.count.tiny_droplets = @ + n]
          = [count |-> [fruit |-> FALSE, tiny_droplets |-> gradual.count.tiny_droplets + n],
             all   |-> gradual.all]
    <3>1. gradual = [count |-> [fruit |-> FALSE, tiny_droplets |-> t], all |-> gradual.all]
      BY <1>7, <1>8, Zenon
    <3> DEFINE a == gradual.all
    <3>2. t \in Nat /\ n \in Nat
      BY <1>1, <2>1
    <3> HIDE DEF t, a
    <3>3. \A b : gradual = [count |-> [fruit |-> b, tiny_droplets |-> t], all |-> a]
            => [gradual EXCEPT !.count.tiny_droplets = @ + n]
                 = [count |-> [fruit |-> b, tiny_droplets |-> t + n], all |-> a]
      BY <3>2, GradualWith
    <3>4. QED
      BY <3>1, <3>3, Zenon DEF t, a
  <2> HIDE DEF c
  <2>6. QED
    BY <2>1, <2>2, <2>4, <2>5, RecordStep DEF c
<1>6. QED
  BY <1>3, <1>4, <1>5 DEF Counts!Next

-----------------------------------------------------------------------------
(* The theorems *)

\* One of the structures is used from the start on, and its invariant holds.
Inv ==
  \/ structure = "LimitedQueue" /\ QueueInv
  \/ structure = "StrainsVec" /\ VecInv
  \/ structure = "ObjectCountBuilder" /\ CountsInv

\* Whichever structure is picked, its invariant holds to begin with.
LEMMA InvInit == Init => Inv
<1> SUFFICES ASSUME Init PROVE Inv
  OBVIOUS
<1>1. CASE structure = "LimitedQueue" /\ Queue!Init
  BY <1>1, QueueInit DEF Inv
<1>2. CASE structure = "StrainsVec" /\ Vec!Init
  BY <1>2, VecInit DEF Inv
<1>3. CASE structure = "ObjectCountBuilder" /\ Counts!Init
  BY <1>3, CountsInit DEF Inv
<1>4. QED
  BY <1>1, <1>2, <1>3 DEF Init

\* A step of the structure in use keeps its invariant, and leaves it the structure in use.
LEMMA InvStep == Inv /\ [Next]_vars => Inv'
<1> SUFFICES ASSUME Inv, [Next]_vars PROVE Inv'
  OBVIOUS
<1>1. CASE UseQueue /\ UNCHANGED structure
  <2>1. structure = "LimitedQueue" /\ Queue!Next /\ structure' = "LimitedQueue"
    BY <1>1 DEF UseQueue
  <2>2. QueueInv
    BY <2>1 DEF Inv
  <2>3. QueueInv'
    BY <2>1, <2>2, QueueStep
  <2>4. QED
    BY <2>1, <2>3 DEF Inv
<1>2. CASE UseVec /\ UNCHANGED structure
  <2>1. structure = "StrainsVec" /\ Vec!Next /\ structure' = "StrainsVec"
    BY <1>2 DEF UseVec
  <2>2. VecInv
    BY <2>1 DEF Inv
  <2>3. VecInv'
    BY <2>1, <2>2, VecStep
  <2>4. QED
    BY <2>1, <2>3 DEF Inv
<1>3. CASE UseCounts /\ UNCHANGED structure
  <2>1. structure = "ObjectCountBuilder" /\ Counts!Next /\ structure' = "ObjectCountBuilder"
    BY <1>3 DEF UseCounts
  <2>2. CountsInv
    BY <2>1 DEF Inv
  <2>3. CountsInv'
    BY <2>1, <2>2, CountsStep
  <2>4. QED
    BY <2>1, <2>3 DEF Inv
<1>4. CASE UNCHANGED vars
  <2>1. UNCHANGED <<structure, len, iterating, queue, end, head, tail, out, window,
                    inner, it, take0, regular, gradual, recorded>>
    BY <1>4 DEF vars, only_queue, only_vec, only_counts
  <2>2. QueueInv => QueueInv'
    BY <2>1 DEF QueueInv
  <2>3. VecInv => VecInv'
    BY <2>1 DEF VecInv, Vec!NoIter, Vec!ToYield
  <2>4. CountsInv => CountsInv'
    BY <2>1 DEF CountsInv
  <2>5. QED
    BY <2>1, <2>2, <2>3, <2>4 DEF Inv
<1>5. QED
  BY <1>1, <1>2, <1>3, <1>4 DEF Next

\* The inductive invariant holds in every state, for every size, limit and element set.
THEOREM InvHolds == Spec => []Inv
<1>1. Init => Inv
  BY InvInit
<1>2. Inv /\ [Next]_vars => Inv'
  BY InvStep
<1>3. QED
  BY <1>1, <1>2, PTL DEF Spec

\* LimitedQueue (util/limited_queue.rs): the ring holds the window of the last N pushes,
\* and indexing counts from the oldest one, for every N.
THEOREM RingHoldsWindow == Spec => []HoldsWindow
<1>1. Inv => HoldsWindow
  BY QueueHoldsWindow DEF Inv, HoldsWindow
<1>2. QED
  BY <1>1, InvHolds, PTL

\* LimitedQueue and its double-ended iterator implement a sliding window and an iterator
\* over it, however the calls are mixed.
THEOREM QueueImplementsWindow == Spec => IsSlidingWindow
<1> DEFINE Starts == structure = "LimitedQueue" => Queue!Window!Init
           Steps  == structure = "LimitedQueue"
                       => Queue!Window!Next \/ UNCHANGED Queue!Window!vars
<1>1. Init => Starts
  BY ConcatEmptySeq, EmptySeq DEF Init, Queue!Init, Queue!Window!Init
<1>2. Inv /\ [Next]_vars => [Steps]_vars
  <2> SUFFICES ASSUME Inv, Next, structure = "LimitedQueue" PROVE Queue!Window!Next
    OBVIOUS
  <2>1. Queue!Next /\ QueueInv
    BY DEF Next, UseQueue, UseVec, UseCounts, Inv
  <2>2. QED
    BY <2>1, QueueStep
<1>3. QED
  BY <1>1, <1>2, InvHolds, PTL DEF Spec, IsSlidingWindow

\* StrainsVec (util/strains_vec.rs): runs of zeros are single entries, and the length field
\* never falls short of what an iterator yields, so that its decrement cannot underflow.
THEOREM VecStaysCompact == Spec => []LenNeverShort
<1>1. Inv => LenNeverShort
  <2> SUFFICES ASSUME VecInv PROVE Vec!Compact /\ Vec!LenNeverShort
    BY DEF Inv, LenNeverShort
  <2>1. Vec!Compact
    <3>1. ASSUME NEW i \in DOMAIN inner PROVE inner[i] \in Entry /\ i \in 1..Len(inner)
      BY ElementOfSeq, LenProperties DEF VecInv
    <3>2. ASSUME NEW i \in DOMAIN inner, i > 1, inner[i].is_zero
          PROVE  Vec!IsValue(inner[i - 1])
      <4>1. i \in 2..Len(inner)
        BY <3>1, <3>2
      <4>2. QED
        BY <3>2, <4>1 DEF VecInv
    <3>3. \A e \in Entry : e.n > 0
      BY DEF Entry
    <3>4. QED
      BY <3>1, <3>2, <3>3 DEF Vec!Compact
  <2>2. Vec!LenNeverShort
    BY DEF VecInv, Vec!LenNeverShort
  <2>3. QED
    BY <2>1, <2>2
<1>2. QED
  BY <1>1, InvHolds, PTL

\* StrainsVec implements the plain list of the feature raw_strains, step by step.
THEOREM VecImplementsRawStrains == Spec => IsRawStrains
<1> DEFINE Starts == structure = "StrainsVec" => Vec!Raw!Init
           Steps  == structure = "StrainsVec" => Vec!Raw!Next \/ UNCHANGED Vec!Raw!vars
<1>1. Init => Starts
  BY VecInit DEF Init
<1>2. Inv /\ [Next]_vars => [Steps]_vars
  <2> SUFFICES ASSUME Inv, Next, structure = "StrainsVec" PROVE Vec!Raw!Next
    OBVIOUS
  <2>1. Vec!Next /\ VecInv
    BY DEF Next, UseQueue, UseVec, UseCounts, Inv
  <2>2. QED
    BY <2>1, VecStep
<1>3. QED
  BY <1>1, <1>2, InvHolds, PTL DEF Spec, IsRawStrains

\* ObjectCountBuilder (catch/attributes.rs): the Regular and the Gradual builder amount to
\* what was recorded, and the first `take` deltas add up to the Regular count.
THEOREM BuildersCountAlike == Spec => []CountsAgree
<1>1. Inv => CountsAgree
  BY CountsInvAgree DEF Inv, CountsAgree
<1>2. QED
  BY <1>1, InvHolds, PTL
=============================================================================
