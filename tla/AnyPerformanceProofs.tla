------------------------ MODULE AnyPerformanceProofs ------------------------
(***************************************************************************)
(* Theorems about AnyPerformance, for every map, all settings and any mix  *)
(* of calls.                                                               *)
(***************************************************************************)
EXTENDS AnyPerformance, ObjectRunsProofs

USE DEF Osu!Least, Osu!SaturatingSub, Osu!OrFull, Osu!OrZero

-----------------------------------------------------------------------------
(* osu!standard *)

Count == Nat \cup {None}

\* None is not a number.
LEMMA NoneIsNoNumber == None \notin Nat
BY NoneAssumption

\* Quotients of naturals are naturals.
LEMMA QuotientType == \A n \in Nat, d \in Nat \ {0} : n \div d \in Nat
OBVIOUS

OsuOpts(o) ==
  /\ DOMAIN o = DOMAIN Osu!NoOpts(NoLimit)
  /\ \A f \in {"combo", "large_tick_hits", "slider_end_hits", "n300", "n100", "n50",
               "misses", "acc"} : o[f] \in Count
  /\ o.passed \in Nat /\ o.priority \in Priorities /\ o.lazer \in BOOLEAN /\ o.classic \in BOOLEAN

OsuCount == [n_circles: Nat, n_sliders: Nat, n_spinners: Nat, n_large_ticks: Nat, max_combo: Nat]

OsuSetups == {s \in [total: Nat, misses: Nat, remaining: Nat, ticks: Nat, ends: Nat,
                     slider: Nat, max_points: Nat] :
                s.misses + s.remaining = s.total}

\* The totals are naturals, and misses are part of them.
LEMMA OsuSetupType ==
  ASSUME NEW o, OsuOpts(o), NEW c \in OsuCount
  PROVE  Osu!Setup(o, c) \in OsuSetups
<1>1. Osu!n_objects(o, c) \in Nat
  BY DEF OsuOpts, OsuCount, Osu!n_objects
<1>2. Osu!MaxLargeTicks(o, c) \in Nat /\ Osu!MaxSliderEnds(o, c) \in Nat
  BY DEF OsuOpts, OsuCount, Osu!MaxLargeTicks, Osu!MaxSliderEnds
<1>3. o.misses \in Count /\ o.large_tick_hits \in Count /\ o.slider_end_hits \in Count
  BY DEF OsuOpts
<1>4. \A m \in Count : \A n \in Nat : Osu!OrFull(m, n) \in Nat /\ Osu!OrZero(m) \in Nat
  BY NoneIsNoNumber DEF Count
<1>5. \A a, b \in Nat : Osu!SliderValue(o, a, b) \in Nat
  BY DEF Osu!SliderValue
<1> DEFINE total  == Osu!n_objects(o, c)
           misses == Osu!Least(Osu!OrZero(o.misses), total)
           ticks  == Osu!OrFull(o.large_tick_hits, Osu!MaxLargeTicks(o, c))
           ends   == Osu!OrFull(o.slider_end_hits, Osu!MaxSliderEnds(o, c))
           most   == Osu!SliderValue(o, Osu!MaxLargeTicks(o, c), Osu!MaxSliderEnds(o, c))
<1>6. /\ total \in Nat /\ misses \in Nat /\ total - misses \in Nat
      /\ misses + (total - misses) = total
  BY <1>1, <1>3, <1>4
<1>7. ticks \in Nat /\ ends \in Nat
  BY <1>2, <1>3, <1>4
<1>8. Osu!SliderValue(o, ticks, ends) \in Nat /\ most \in Nat
  BY <1>2, <1>5, <1>7, Zenon
<1> HIDE DEF total, misses, ticks, ends, most
<1>9. 30 * total + most \in Nat
  BY <1>6, <1>8
<1>10. Osu!Setup(o, c) =
         [total |-> total, misses |-> misses, remaining |-> total - misses,
          ticks |-> ticks, ends |-> ends, slider |-> Osu!SliderValue(o, ticks, ends),
          max_points |-> 30 * total + most]
  BY DEF Osu!Setup, total, misses, ticks, ends, most
<1>11. QED
  BY <1>6, <1>7, <1>8, <1>9, <1>10 DEF OsuSetups

\* A number of results around a fraction is between none and all of them.
LEMMA OsuAround ==
  ASSUME NEW num \in Int, NEW unit \in Nat \ {0}, NEW max \in Nat, play.den \in Nat \ {0}
  PROVE  Osu!Around(num, unit, max) \subseteq 0..max
<1> DEFINE d == play.den * unit
<1>1. d \in Nat \ {0}
  OBVIOUS
<1> HIDE DEF d
<1>2. Osu!Floor(num, d) \in Nat
  BY <1>1, QuotientType DEF Osu!Floor
<1>3. Osu!Ceil(num, d) \in Nat
  <2>1. num >= 0 => num + d - 1 \in Nat
    BY <1>1
  <2>2. QED
    BY <1>1, <2>1, QuotientType DEF Osu!Ceil
<1>4. QED
  BY <1>2, <1>3 DEF Osu!Around, d

OsuHits == [n300: Nat, n100: Nat, n50: Nat]
OsuGivens(o, s) == Osu!Given(o, s, "n300") + Osu!Given(o, s, "n100") + Osu!Given(o, s, "n50")

\* A given count is limited to the results that are left.
LEMMA OsuGivenType ==
  ASSUME NEW o, OsuOpts(o), NEW s \in OsuSetups, NEW f \in {"n300", "n100", "n50"}
  PROVE  /\ Osu!Given(o, s, f) \in 0..s.remaining
         /\ o[f] = None => Osu!Given(o, s, f) = 0
<1>1. s.remaining \in Nat
  BY DEF OsuSetups
<1>2. o[f] \in Count
  BY DEF OsuOpts
<1>3. QED
  BY <1>1, <1>2, NoneIsNoNumber DEF Osu!Given, Count

\* With an accuracy and at most one count, what is tried are splits of the results that
\* are left which respect the count.
LEMMA OsuCandidates ==
  ASSUME NEW o, OsuOpts(o), NEW s \in OsuSetups, play.den \in Nat \ {0}, o.acc # None,
         \E f, g \in Osu!Open(o) : f # g,
         NEW h \in Osu!Candidates(o, s)
  PROVE  h \in OsuHits /\ h.n300 + h.n100 + h.n50 = s.remaining
<1> DEFINE target == o.acc * s.max_points
           Left(base) == target - play.den * (base + s.slider)
           n300 == Osu!Given(o, s, "n300")
           n100 == Osu!Given(o, s, "n100")
           n50  == Osu!Given(o, s, "n50")
           free == s.remaining - n300 - n100 - n50
<1>1. /\ s.remaining \in Nat /\ s.max_points \in Nat /\ s.slider \in Nat
      /\ s.total \in Nat /\ s.misses \in Nat /\ o.acc \in Nat
  BY NoneIsNoNumber DEF OsuSetups, OsuOpts, Count
<1>0. \/ o.n300 = None /\ o.n100 = None
      \/ o.n300 = None /\ o.n50 = None
      \/ o.n100 = None /\ o.n50 = None
  BY DEF Osu!Open
<1>2. /\ n300 \in Nat /\ n100 \in Nat /\ n50 \in Nat /\ free \in Nat
      /\ o.n300 # None => n100 = 0 /\ n50 = 0
      /\ o.n100 # None => n300 = 0 /\ n50 = 0
      /\ o.n50 # None => n300 = 0 /\ n100 = 0
      /\ (o.n300 = None /\ o.n100 = None /\ o.n50 = None) => n300 = 0 /\ n100 = 0 /\ n50 = 0
  <2>1. /\ n300 \in 0..s.remaining /\ n100 \in 0..s.remaining /\ n50 \in 0..s.remaining
        /\ o.n300 = None => n300 = 0
        /\ o.n100 = None => n100 = 0
        /\ o.n50 = None => n50 = 0
    BY OsuGivenType
  <2>2. QED
    BY <1>0, <1>1, <2>1
<1>3. \A b \in Int : Left(b) \in Int
  <2>1. target \in Int
    BY <1>1
  <2>2. QED
    BY <1>1, <2>1
<1> DEFINE A == {Osu!Hits(n300, k, free - k) :
                   k \in Osu!Around(Left(5 * free + 30 * n300), 5, free)}
           B == {Osu!Hits(k, n100, free - k) :
                   k \in Osu!Around(Left(5 * free + 10 * n100), 25, free)}
           C == {Osu!Hits(k, free - k, n50) :
                   k \in Osu!Around(Left(10 * s.total - 10 * s.misses - 5 * n50), 20, free)}
           D == UNION {{Osu!Hits(k, j, free - k - j) :
                          j \in Osu!Around(Left(5 * free + 25 * k), 5, free - k)} :
                        k \in Osu!Around(Left(5 * free), 25, free)}
<1>4. Osu!Candidates(o, s) =
        CASE o.n300 # None -> A [] o.n100 # None -> B [] o.n50 # None -> C [] OTHER -> D
  BY DEF Osu!Candidates
<1> HIDE DEF target, Left, n300, n100, n50, A, B, C, D
<1>5. CASE o.n300 # None
  <2>1. Left(5 * free + 30 * n300) \in Int
    BY <1>2, <1>3
  <2> HIDE DEF free
  <2>2. Osu!Around(Left(5 * free + 30 * n300), 5, free) \subseteq 0..free
    BY <1>2, <2>1, OsuAround
  <2>3. PICK k \in 0..free : h = Osu!Hits(n300, k, free - k)
    <3>1. h \in A
      BY <1>0, <1>4, <1>5
    <3>2. QED
      BY <2>2, <3>1 DEF A
  <2>4. QED
    BY <1>1, <1>2, <1>5, <2>3 DEF Osu!Hits, OsuHits, free
<1>6. CASE o.n300 = None /\ o.n100 # None
  <2>1. Left(5 * free + 10 * n100) \in Int
    BY <1>2, <1>3
  <2> HIDE DEF free
  <2>2. Osu!Around(Left(5 * free + 10 * n100), 25, free) \subseteq 0..free
    BY <1>2, <2>1, OsuAround
  <2>3. PICK k \in 0..free : h = Osu!Hits(k, n100, free - k)
    <3>1. h \in B
      BY <1>0, <1>4, <1>6
    <3>2. QED
      BY <2>2, <3>1 DEF B
  <2>4. QED
    BY <1>1, <1>2, <1>6, <2>3 DEF Osu!Hits, OsuHits, free
<1>7. CASE o.n300 = None /\ o.n100 = None /\ o.n50 # None
  <2>1. Left(10 * s.total - 10 * s.misses - 5 * n50) \in Int
    BY <1>1, <1>2, <1>3
  <2> HIDE DEF free
  <2>2. Osu!Around(Left(10 * s.total - 10 * s.misses - 5 * n50), 20, free) \subseteq 0..free
    BY <1>2, <2>1, OsuAround
  <2>3. PICK k \in 0..free : h = Osu!Hits(k, free - k, n50)
    <3>1. h \in C
      BY <1>0, <1>4, <1>7
    <3>2. QED
      BY <2>2, <3>1 DEF C
  <2>4. QED
    BY <1>1, <1>2, <1>7, <2>3 DEF Osu!Hits, OsuHits, free
<1>8. CASE o.n300 = None /\ o.n100 = None /\ o.n50 = None
  <2>1. Left(5 * free) \in Int
    BY <1>2, <1>3
  <2> HIDE DEF free
  <2>2. PICK k \in Osu!Around(Left(5 * free), 25, free) :
          h \in {Osu!Hits(k, j, free - k - j) :
                   j \in Osu!Around(Left(5 * free + 25 * k), 5, free - k)}
    BY <1>4, <1>8 DEF D
  <2>3. k \in 0..free
    BY <1>2, <2>1, <2>2, OsuAround
  <2>4. free - k \in Nat /\ Left(5 * free + 25 * k) \in Int
    BY <1>2, <1>3, <2>3
  <2>5. PICK j \in 0..(free - k) : h = Osu!Hits(k, j, free - k - j)
    BY <2>2, <2>4, OsuAround
  <2>6. QED
    BY <1>1, <1>2, <1>8, <2>3, <2>5 DEF Osu!Hits, OsuHits, free
<1>9. QED
  BY <1>5, <1>6, <1>7, <1>8

Judged(h) == h.n300 + h.n100 + h.n50

\* The shift by priority trades results, it makes and loses none.
LEMMA OsuShift ==
  ASSUME NEW o, NEW h \in OsuHits
  PROVE  Osu!Shifted(o, h) \in OsuHits /\ Judged(Osu!Shifted(o, h)) = Judged(h)
<1>1. h.n300 \in Nat /\ h.n100 \in Nat /\ h.n50 \in Nat
  BY DEF OsuHits
<1>2. CASE o.priority = "BestCase"
  <2> DEFINE n == Osu!Least(h.n300, h.n50 \div 4)
  <2>1. n \in Nat /\ n <= h.n300 /\ 4 * n <= h.n50
    BY <1>1
  <2>2. Osu!Shifted(o, h) = Osu!Hits(h.n300 - n, h.n100 + 5 * n, h.n50 - 4 * n)
    BY <1>2 DEF Osu!Shifted
  <2> HIDE DEF n
  <2>3. QED
    BY <1>1, <2>1, <2>2 DEF Osu!Hits, OsuHits, Judged
<1>3. CASE o.priority # "BestCase"
  <2> DEFINE n == h.n100 \div 5
  <2>1. n \in Nat /\ 5 * n <= h.n100
    BY <1>1
  <2>2. Osu!Shifted(o, h) = Osu!Hits(h.n300 + n, h.n100 - 5 * n, h.n50 + 4 * n)
    BY <1>3 DEF Osu!Shifted
  <2> HIDE DEF n
  <2>3. QED
    BY <1>1, <2>1, <2>2 DEF Osu!Hits, OsuHits, Judged
<1>4. QED
  BY <1>2, <1>3

\* The first of three places that is open.
LEMMA FirstOfThree ==
  ASSUME NEW S \in SUBSET (1..3), S # {}
  PROVE  Osu!Min(S) \in 1..3
<1>1. \E x \in S : \A y \in S : x <= y
  <2>1. CASE 1 \in S
    BY <2>1
  <2>2. CASE 1 \notin S /\ 2 \in S
    BY <2>2
  <2>3. CASE 1 \notin S /\ 2 \notin S
    <3>1. \A y \in S : y = 3
      BY <2>3
    <3>2. PICK x \in S : TRUE
      BY Zenon
    <3>3. QED
      BY <3>1, <3>2
  <2>4. QED
    BY <2>1, <2>2, <2>3
<1>2. Osu!Min(S) \in S
  BY <1>1, Zenon DEF Osu!Min
<1>3. QED
  BY <1>2, Zenon

\* The rest goes to one of the three counts.
LEMMA OsuRestTo == \A o : Osu!RestTo(o) \in {"n300", "n100", "n50"}
<1> SUFFICES ASSUME NEW o PROVE Osu!RestTo(o) \in {"n300", "n100", "n50"}
  OBVIOUS
<1> DEFINE order == IF o.priority = "BestCase" THEN <<"n300", "n100", "n50">>
                                               ELSE <<"n50", "n100", "n300">>
           open == {i \in 1..3 : order[i] \in Osu!Open(o)}
<1>1. \A i \in 1..3 : order[i] \in {"n300", "n100", "n50"}
  OBVIOUS
<1>2. Osu!RestTo(o) = order[IF open = {} THEN 1 ELSE Osu!Min(open)]
  BY DEF Osu!RestTo
<1>3. open \in SUBSET (1..3)
  OBVIOUS
<1> HIDE DEF order, open
<1>4. (IF open = {} THEN 1 ELSE Osu!Min(open)) \in 1..3
  BY <1>3, FirstOfThree
<1>5. QED
  BY <1>1, <1>2, <1>4

\* Every result that is left is a 300, 100 or 50, and no more than that unless the three
\* counts were given and exceed it.
LEMMA OsuResults ==
  ASSUME NEW o, OsuOpts(o), NEW s \in OsuSetups, play.den \in Nat \ {0},
         NEW h \in Osu!Results(o, s)
  PROVE  /\ h \in OsuHits
         /\ h.n300 <= s.remaining /\ h.n100 <= s.remaining /\ h.n50 <= s.remaining
         /\ Judged(h) = IF OsuGivens(o, s) > s.remaining THEN OsuGivens(o, s) ELSE s.remaining
<1> DEFINE n300 == Osu!Given(o, s, "n300")
           n100 == Osu!Given(o, s, "n100")
           n50  == Osu!Given(o, s, "n50")
<1>1. s.remaining \in Nat /\ s.total \in Nat /\ s.misses \in Nat /\ s.misses + s.remaining = s.total
  BY DEF OsuSetups
<1>2. /\ n300 \in 0..s.remaining /\ n100 \in 0..s.remaining /\ n50 \in 0..s.remaining
      /\ o.n300 = None => n300 = 0
      /\ o.n100 = None => n100 = 0
      /\ o.n50 = None => n50 = 0
  BY OsuGivenType
<1>3. OsuGivens(o, s) = n300 + n100 + n50
  BY DEF OsuGivens
<1> HIDE DEF n300, n100, n50
<1>4. CASE o.acc # None /\ (\E f, g \in Osu!Open(o) : f # g)
  <2> DEFINE C == Osu!Closest(o, s, Osu!Candidates(o, s))
  <2>1. \A g \in C : g \in OsuHits /\ Judged(g) = s.remaining
    BY <1>4, OsuCandidates DEF Osu!Closest, Judged
  <2>2. h \in C \/ \E g \in C : h = Osu!Shifted(o, g)
    <3>1. Osu!Results(o, s) = IF Osu!Open(o) = {"n300", "n100", "n50"}
                              THEN {Osu!Shifted(o, g) : g \in C} ELSE C
      BY <1>4 DEF Osu!Results
    <3> HIDE DEF C
    <3>2. QED
      BY <3>1
  <2>3. h \in OsuHits /\ Judged(h) = s.remaining
    <3> HIDE DEF C
    <3>1. QED
      BY <2>1, <2>2, OsuShift
  <2>4. n300 + n100 + n50 <= s.remaining
    <3>1. \/ o.n300 = None /\ o.n100 = None
          \/ o.n300 = None /\ o.n50 = None
          \/ o.n100 = None /\ o.n50 = None
      BY <1>4 DEF Osu!Open
    <3>2. QED
      BY <1>1, <1>2, <3>1
  <2>5. QED
    BY <1>1, <1>2, <1>3, <2>3, <2>4 DEF OsuHits, Judged
<1>5. CASE ~(o.acc # None /\ (\E f, g \in Osu!Open(o) : f # g))
  <2> DEFINE g == Osu!Hits(n300, n100, n50)
             rest == Osu!Rest(s, g)
             f == Osu!RestTo(o)
  <2>1. Osu!Results(o, s) = {[g EXCEPT ![f] = @ + rest]}
    BY <1>5 DEF Osu!Results, n300, n100, n50
  <2>2. g = [n300 |-> n300, n100 |-> n100, n50 |-> n50]
    BY DEF Osu!Hits
  <2>3. rest = IF s.total > n300 + n100 + n50 + s.misses
               THEN s.total - (n300 + n100 + n50 + s.misses) ELSE 0
    BY <2>2 DEF Osu!Rest
  <2>4. f \in {"n300", "n100", "n50"}
    BY OsuRestTo
  <2> HIDE DEF f, g, rest
  <2>5. h = [g EXCEPT ![f] = @ + rest]
    BY <2>1
  <2>6. QED
    BY <1>1, <1>2, <1>3, <2>2, <2>3, <2>4, <2>5 DEF OsuHits, Judged
<1>6. QED
  BY <1>4, <1>5

OsuState == [combo: Nat, large_tick_hits: Nat, slider_end_hits: Nat,
             n300: Nat, n100: Nat, n50: Nat, misses: Nat]

\* A generated state counts in naturals, keeps what Setup fixes, and judges every result.
LEMMA OsuStates ==
  ASSUME NEW o, OsuOpts(o), NEW c \in OsuCount, play.den \in Nat \ {0},
         NEW st \in Osu!States(o, c)
  PROVE  LET s == Osu!Setup(o, c)
         IN  /\ st \in OsuState /\ s \in OsuSetups
             /\ st.misses = s.misses /\ st.large_tick_hits = s.ticks
             /\ st.slider_end_hits = s.ends /\ st.combo = Osu!ComboOf(o, c, s.misses)
             /\ st.n300 <= s.remaining /\ st.n100 <= s.remaining /\ st.n50 <= s.remaining
             /\ Judged(st) = IF OsuGivens(o, s) > s.remaining THEN OsuGivens(o, s)
                                                              ELSE s.remaining
             /\ st.combo <= Osu!SaturatingSub(c.max_combo, s.misses)
<1> DEFINE s == Osu!Setup(o, c)
<1>1. s \in OsuSetups
  BY OsuSetupType
<1> HIDE DEF s
<1>2. PICK h \in Osu!Results(o, s) :
        st = [n300 |-> h.n300, n100 |-> h.n100, n50 |-> h.n50, misses |-> s.misses,
              combo |-> Osu!ComboOf(o, c, s.misses), large_tick_hits |-> s.ticks,
              slider_end_hits |-> s.ends]
  BY DEF Osu!States, s
<1>3. /\ h \in OsuHits
      /\ h.n300 <= s.remaining /\ h.n100 <= s.remaining /\ h.n50 <= s.remaining
      /\ Judged(h) = IF OsuGivens(o, s) > s.remaining THEN OsuGivens(o, s) ELSE s.remaining
  BY <1>1, OsuResults
<1>4. s.misses \in Nat /\ s.ticks \in Nat /\ s.ends \in Nat
  BY <1>1 DEF OsuSetups
<1>5. /\ Osu!ComboOf(o, c, s.misses) \in Nat
      /\ Osu!ComboOf(o, c, s.misses) <= Osu!SaturatingSub(c.max_combo, s.misses)
  <2>1. o.combo \in Count /\ c.max_combo \in Nat
    BY DEF OsuOpts, OsuCount
  <2>2. QED
    BY <1>4, <2>1 DEF Osu!ComboOf, Count
<1>6. st \in OsuState /\ Judged(st) = Judged(h)
  BY <1>2, <1>3, <1>4, <1>5 DEF OsuState, OsuHits, Judged
<1>7. QED
  BY <1>1, <1>2, <1>3, <1>5, <1>6 DEF s

\* The settings with the counts of a state are settings, and what they generate is that
\* state again.
LEMMA OsuAgain ==
  ASSUME NEW o, OsuOpts(o), NEW c \in OsuCount, play.den \in Nat \ {0},
         NEW st \in Osu!States(o, c)
  PROVE  /\ OsuOpts(Osu!Written(o, st))
         /\ \A f \in DOMAIN st : Osu!Written(o, st)[f] = st[f]
         /\ Osu!Written(o, st).passed = o.passed
         /\ Osu!States(Osu!Written(o, st), c) = {st}
<1> DEFINE s == Osu!Setup(o, c)
           w == Osu!Written(o, st)
<1>1. /\ st \in OsuState /\ s \in OsuSetups
      /\ st.misses = s.misses /\ st.large_tick_hits = s.ticks
      /\ st.slider_end_hits = s.ends /\ st.combo = Osu!ComboOf(o, c, s.misses)
      /\ st.n300 <= s.remaining /\ st.n100 <= s.remaining /\ st.n50 <= s.remaining
      /\ st.n300 + st.n100 + st.n50 >= s.remaining
  <2>1. /\ st \in OsuState /\ s \in OsuSetups
        /\ st.misses = s.misses /\ st.large_tick_hits = s.ticks
        /\ st.slider_end_hits = s.ends /\ st.combo = Osu!ComboOf(o, c, s.misses)
        /\ st.n300 <= s.remaining /\ st.n100 <= s.remaining /\ st.n50 <= s.remaining
        /\ Judged(st) = IF OsuGivens(o, s) > s.remaining THEN OsuGivens(o, s) ELSE s.remaining
    BY OsuStates
  <2>2. OsuGivens(o, s) \in Nat
    BY <2>1, OsuGivenType DEF OsuGivens, OsuSetups
  <2>3. QED
    BY <2>1, <2>2 DEF Judged, OsuSetups, OsuState
<1>2. /\ DOMAIN w = DOMAIN o
      /\ w.passed = o.passed /\ w.priority = o.priority /\ w.lazer = o.lazer
      /\ w.classic = o.classic /\ w.acc = o.acc
      /\ w.combo = st.combo /\ w.large_tick_hits = st.large_tick_hits
      /\ w.slider_end_hits = st.slider_end_hits /\ w.misses = st.misses
      /\ w.n300 = st.n300 /\ w.n100 = st.n100 /\ w.n50 = st.n50
  <2>1. DOMAIN o = {"combo", "large_tick_hits", "slider_end_hits", "n300", "n100", "n50",
                    "misses", "acc", "priority", "lazer", "classic", "passed"}
    BY DEF OsuOpts, Osu!NoOpts, Osu!NewSettings, Osu!CountFields
  <2>2. DOMAIN st = {"combo", "large_tick_hits", "slider_end_hits", "n300", "n100", "n50",
                     "misses"}
    BY <1>1 DEF OsuState
  <2>3. w = [f \in DOMAIN o |-> IF f \in DOMAIN st THEN st[f] ELSE o[f]]
    BY DEF Osu!Written, Osu!Overwritten
  <2> HIDE DEF w
  <2>4. QED
    BY <2>1, <2>2, <2>3
<1> HIDE DEF s, w
<1>3. /\ s.total \in Nat /\ s.misses \in Nat /\ s.remaining \in Nat /\ s.ticks \in Nat
      /\ s.ends \in Nat /\ s.misses + s.remaining = s.total
      /\ st.n300 \in Nat /\ st.n100 \in Nat /\ st.n50 \in Nat /\ st.combo \in Nat
  BY <1>1 DEF OsuSetups, OsuState
<1>4. Osu!Setup(w, c) = s
  <2>1. /\ Osu!n_objects(w, c) = Osu!n_objects(o, c)
        /\ Osu!MaxLargeTicks(w, c) = Osu!MaxLargeTicks(o, c)
        /\ Osu!MaxSliderEnds(w, c) = Osu!MaxSliderEnds(o, c)
        /\ \A a, b : Osu!SliderValue(w, a, b) = Osu!SliderValue(o, a, b)
    BY <1>2 DEF Osu!n_objects, Osu!MaxLargeTicks, Osu!MaxSliderEnds, Osu!SliderValue
  <2>2. /\ s.total = Osu!n_objects(o, c)
        /\ s.misses = Osu!Least(Osu!OrZero(o.misses), Osu!n_objects(o, c))
        /\ s.ticks = Osu!OrFull(o.large_tick_hits, Osu!MaxLargeTicks(o, c))
        /\ s.ends = Osu!OrFull(o.slider_end_hits, Osu!MaxSliderEnds(o, c))
    BY DEF Osu!Setup, s
  <2>3. /\ Osu!MaxLargeTicks(o, c) \in Nat /\ Osu!MaxSliderEnds(o, c) \in Nat
        /\ o.large_tick_hits \in Count /\ o.slider_end_hits \in Count
    BY DEF OsuOpts, OsuCount, Osu!MaxLargeTicks, Osu!MaxSliderEnds
  <2>4. Osu!Least(Osu!OrZero(w.misses), s.total) = s.misses
    BY <1>1, <1>2, <1>3, NoneIsNoNumber
  <2>5. /\ Osu!OrFull(w.large_tick_hits, Osu!MaxLargeTicks(o, c)) = s.ticks
        /\ Osu!OrFull(w.slider_end_hits, Osu!MaxSliderEnds(o, c)) = s.ends
    BY <1>1, <1>2, <1>3, <2>2, <2>3, NoneIsNoNumber DEF Count
  <2>6. Osu!Setup(w, c) =
          [total |-> s.total, misses |-> s.misses, remaining |-> s.total - s.misses,
           ticks |-> s.ticks, ends |-> s.ends, slider |-> Osu!SliderValue(o, s.ticks, s.ends),
           max_points |-> 30 * s.total + Osu!SliderValue(o, Osu!MaxLargeTicks(o, c),
                                                            Osu!MaxSliderEnds(o, c))]
    BY <2>1, <2>2, <2>4, <2>5 DEF Osu!Setup
  <2>7. s = [total |-> s.total, misses |-> s.misses, remaining |-> s.total - s.misses,
             ticks |-> s.ticks, ends |-> s.ends, slider |-> Osu!SliderValue(o, s.ticks, s.ends),
             max_points |-> 30 * s.total + Osu!SliderValue(o, Osu!MaxLargeTicks(o, c),
                                                              Osu!MaxSliderEnds(o, c))]
    BY DEF Osu!Setup, s
  <2>8. QED
    BY <2>6, <2>7
<1>5. OsuOpts(w)
  BY <1>1, <1>2 DEF OsuOpts, OsuState, Count
<1>6. w.n300 # None /\ w.n100 # None /\ w.n50 # None
  BY <1>2, <1>3, NoneIsNoNumber
<1>7. Osu!Results(w, s) = {Osu!Hits(st.n300, st.n100, st.n50)}
  <2> DEFINE h == Osu!Hits(Osu!Given(w, s, "n300"), Osu!Given(w, s, "n100"),
                           Osu!Given(w, s, "n50"))
             f == Osu!RestTo(w)
  <2>1. ~\E g, k \in Osu!Open(w) : g # k
    BY <1>6 DEF Osu!Open
  <2>2. Osu!Results(w, s) = {[h EXCEPT ![f] = @ + Osu!Rest(s, h)]}
    BY <2>1 DEF Osu!Results
  <2>3. h = Osu!Hits(st.n300, st.n100, st.n50)
    <3>1. \A n \in Nat : n <= s.remaining =>
            Osu!Least(Osu!OrZero(n), s.remaining) = n
      BY <1>3, NoneIsNoNumber
    <3>2. QED
      BY <1>1, <1>2, <1>3, <3>1 DEF Osu!Given
  <2>4. Osu!Rest(s, h) = 0
    BY <1>1, <1>3, <2>3 DEF Osu!Rest, Osu!Hits
  <2>5. f \in {"n300", "n100", "n50"}
    BY OsuRestTo
  <2> HIDE DEF f
  <2>6. [h EXCEPT ![f] = @ + Osu!Rest(s, h)] = h
    BY <1>3, <2>3, <2>4, <2>5 DEF Osu!Hits
  <2>7. QED
    BY <2>2, <2>3, <2>6
<1>8. Osu!ComboOf(w, c, s.misses) = st.combo
  <2>1. o.combo \in Count /\ c.max_combo \in Nat
    BY DEF OsuOpts, OsuCount
  <2>2. QED
    BY <1>1, <1>2, <1>3, <2>1, NoneIsNoNumber DEF Osu!ComboOf, Count
<1>9. Osu!States(w, c) = {st}
  <2>1. st = [n300 |-> st.n300, n100 |-> st.n100, n50 |-> st.n50, misses |-> s.misses,
              combo |-> st.combo, large_tick_hits |-> s.ticks, slider_end_hits |-> s.ends]
    BY <1>1 DEF OsuState
  <2>2. Osu!States(w, c) =
          {[n300 |-> h.n300, n100 |-> h.n100, n50 |-> h.n50, misses |-> s.misses,
            combo |-> st.combo, large_tick_hits |-> s.ticks, slider_end_hits |-> s.ends] :
             h \in Osu!Results(w, s)}
    BY <1>4, <1>8 DEF Osu!States
  <2>3. QED
    BY <1>7, <2>1, <2>2 DEF Osu!Hits
<1>10. DOMAIN st = {"combo", "large_tick_hits", "slider_end_hits", "n300", "n100", "n50",
                    "misses"}
  BY <1>1 DEF OsuState
<1>11. QED
  BY <1>2, <1>5, <1>9, <1>10 DEF w

\* The instance counts as the module it instantiates does.
LEMMA OsuCardinality == \A S : Osu!Cardinality(S) = Cardinality(S)
BY DEF Osu!Cardinality, Cardinality

\* What the attributes of an osu!standard map count: each of the n objects they are
\* calculated for is of one kind.
LEMMA OsuAttrs ==
  ASSUME play \in Plays, NEW p \in Nat
  PROVE  LET c == Osu!Attrs(p).count
         IN  /\ c \in OsuCount
             /\ c.n_circles + c.n_sliders + c.n_spinners = Least(p, Len(play.objects))
             /\ c.max_combo = Least(p, Len(play.objects)) + c.n_large_ticks + c.n_sliders
<1> DEFINE m == play.objects
           n == Least(p, Len(m))
           S == 1..n
           K(k) == Osu!OfKind(m, S, k)
           c == Osu!Attrs(p).count
<1>1. m \in Seq(Osu!HitObjects)
  BY PlaysAssumption
<1>2. /\ Len(m) \in Nat /\ n \in Nat /\ n <= Len(m)
      /\ Osu!Least(p, Osu!Len(m)) = n
  <2>1. Len(m) \in Nat
    BY <1>1
  <2>2. QED
    BY <2>1 DEF Least
<1>3. IsFiniteSet(S) /\ Cardinality(S) = n
  <2> HIDE DEF n
  <2>1. QED
    BY <1>2, FS_Interval
<1>4. ASSUME NEW i \in S PROVE m[i].kind \in {"circle", "slider", "spinner"}
  <2>1. m[i] \in Osu!HitObjects
    BY <1>1, <1>2, <1>4, ElementOfSeq
  <2>2. QED
    BY <2>1 DEF Osu!HitObjects, Osu!Circle, Osu!Spinner, Osu!Slider
<1> HIDE DEF m, n, S
<1>5. \A k : IsFiniteSet(K(k)) /\ Cardinality(K(k)) \in Nat
  <2>1. \A k : K(k) \in SUBSET S
    BY DEF Osu!OfKind
  <2>2. QED
    BY <1>3, <2>1, FS_Subset, FS_CardinalityType
<1>6. K("circle") \cap K("slider") = {} /\ (K("circle") \cup K("slider")) \cap K("spinner") = {}
  BY DEF Osu!OfKind
<1>7. (K("circle") \cup K("slider")) \cup K("spinner") = S
  BY <1>4 DEF Osu!OfKind
<1>8. Cardinality(K("circle")) + Cardinality(K("slider")) + Cardinality(K("spinner")) = n
  <2> HIDE DEF K
  <2>1. /\ IsFiniteSet(K("circle") \cup K("slider"))
        /\ Cardinality(K("circle") \cup K("slider"))
             = Cardinality(K("circle")) + Cardinality(K("slider"))
    BY <1>5, <1>6, DisjointUnion, Zenon
  <2>2. Cardinality((K("circle") \cup K("slider")) \cup K("spinner"))
          = Cardinality(K("circle") \cup K("slider")) + Cardinality(K("spinner"))
    BY <1>5, <1>6, <2>1, DisjointUnion, Zenon
  <2>3. QED
    BY <1>3, <1>7, <2>1, <2>2
<1>9. Cardinality(Osu!LargeTicks(m, S)) \in Nat
  <2>1. Osu!LargeTicks(m, S) \in SUBSET (S \X (1..MaxTicks))
    BY DEF Osu!LargeTicks
  <2>2. IsFiniteSet(S \X (1..MaxTicks))
    BY <1>3, PairsFinite, BoundAssumption
  <2>3. QED
    BY <2>1, <2>2, FS_Subset, FS_CardinalityType
<1>10. c = [n_circles     |-> Cardinality(K("circle")),
            n_sliders     |-> Cardinality(K("slider")),
            n_spinners    |-> Cardinality(K("spinner")),
            n_large_ticks |-> Cardinality(Osu!LargeTicks(m, S)),
            max_combo     |-> Cardinality(S) + Cardinality(Osu!LargeTicks(m, S))
                                + Cardinality(K("slider"))]
  <2>1. c = Osu!Inspected(m, S)
    BY <1>2 DEF Osu!Attrs, Osu!Attributes, m, S
  <2>2. QED
    BY <2>1, OsuCardinality DEF Osu!Inspected
<1> HIDE DEF c, K
<1>11. /\ c \in OsuCount
       /\ c.n_circles + c.n_sliders + c.n_spinners = n
       /\ c.max_combo = n + c.n_large_ticks + c.n_sliders
  BY <1>2, <1>3, <1>5, <1>8, <1>9, <1>10 DEF OsuCount
<1>12. QED
  BY <1>11 DEF c, m, n

\* A state generated from the attributes of the objects that the play passed has a combo its
\* results can have made.
LEMMA OsuComboFits ==
  ASSUME play \in Plays, NEW o, OsuOpts(o), NEW c, c = Osu!Attrs(o.passed).count,
         NEW st \in Osu!States(o, c)
  PROVE  st.combo <= st.n300 + st.n100 + st.n50 + c.n_large_ticks + c.n_sliders
<1> DEFINE s == Osu!Setup(o, c)
           n == Least(o.passed, Len(play.objects))
<1>1. o.passed \in Nat /\ play.den \in Nat \ {0} /\ Len(play.objects) \in Nat
  BY PlaysAssumption DEF OsuOpts
<1>2. n \in Nat /\ n <= o.passed
  BY <1>1 DEF Least
<1> HIDE DEF n
<1>3. /\ c \in OsuCount /\ c.n_circles + c.n_sliders + c.n_spinners = n
      /\ c.max_combo = n + c.n_large_ticks + c.n_sliders
  BY <1>1, OsuAttrs DEF n
<1>4. s.total = n
  BY <1>1, <1>2, <1>3 DEF Osu!Setup, Osu!n_objects
<1> HIDE DEF s
<1>5. /\ st \in OsuState /\ s \in OsuSetups
      /\ Judged(st) = IF OsuGivens(o, s) > s.remaining THEN OsuGivens(o, s) ELSE s.remaining
      /\ st.combo <= Osu!SaturatingSub(c.max_combo, s.misses)
  BY <1>1, <1>3, OsuStates DEF s
<1>6. OsuGivens(o, s) \in Nat
  BY <1>5, OsuGivenType DEF OsuGivens, OsuSetups
<1>7. QED
  BY <1>2, <1>3, <1>4, <1>5, <1>6 DEF Judged, OsuSetups, OsuState, OsuCount

-----------------------------------------------------------------------------
(* osu!taiko *)

USE DEF Taiko!Least, Taiko!SaturatingSub, Taiko!OrFull, Taiko!OrZero

TaikoOpts(o) ==
  /\ DOMAIN o = DOMAIN Taiko!NoOpts(NoLimit)
  /\ \A f \in {"combo", "n300", "n100", "misses", "acc"} : o[f] \in Count
  /\ o.passed \in Nat /\ o.priority \in Priorities

TaikoCount == [max_combo: Nat]
TaikoState == [combo: Nat, n300: Nat, n100: Nat, misses: Nat]

\* The numbers of 300s tried are between none and all of the results that are left.
LEMMA TaikoCandidates ==
  ASSUME NEW acc \in Nat, NEW total \in Nat, NEW remaining \in Nat, play.den \in Nat \ {0}
  PROVE  Taiko!Closest(acc, total, remaining) \subseteq 0..remaining
<1> DEFINE raw == acc * 2 * total - remaining * play.den
<1>1. raw \in Int
  <2>1. acc * 2 * total \in Int /\ remaining * play.den \in Int
    OBVIOUS
  <2>2. QED
    BY <2>1
<1>2. Taiko!Candidates(acc, total, remaining) =
        Taiko!Least(remaining, Taiko!Floor(raw, play.den))
          .. Taiko!Least(remaining, Taiko!Ceil(raw, play.den))
  BY DEF Taiko!Candidates
<1> HIDE DEF raw
<1>3. Taiko!Floor(raw, play.den) \in Nat
  BY <1>1, QuotientType DEF Taiko!Floor
<1>4. Taiko!Ceil(raw, play.den) \in Nat
  <2>1. raw >= 0 => raw + play.den - 1 \in Nat
    BY <1>1
  <2>2. QED
    BY <1>1, <2>1, QuotientType DEF Taiko!Ceil
<1>5. Taiko!Candidates(acc, total, remaining) \subseteq 0..remaining
  BY <1>2, <1>3, <1>4
<1>6. Taiko!Closest(acc, total, remaining) \subseteq Taiko!Candidates(acc, total, remaining)
  BY DEF Taiko!Closest
<1>7. QED
  BY <1>5, <1>6

\* The 300s and 100s are all results that are left, and no more than that unless both
\* counts were given.
LEMMA TaikoResults ==
  ASSUME NEW o, TaikoOpts(o), NEW total \in Nat, NEW misses \in 0..total,
         play.den \in Nat \ {0}, NEW r \in Taiko!Results(o, total, misses)
  PROVE  /\ r[1] \in 0..(total - misses) /\ r[2] \in 0..(total - misses)
         /\ r[1] + r[2] + misses >= total
         /\ o.n300 = None \/ o.n100 = None => r[1] + r[2] + misses = total
<1> DEFINE remaining == total - misses
           n300 == Taiko!Least(Taiko!OrZero(o.n300), remaining)
           n100 == Taiko!Least(Taiko!OrZero(o.n100), remaining)
           rest == Taiko!Rest(total, n300, n100, misses)
<1>1. remaining \in Nat /\ misses \in Nat /\ misses + remaining = total
  OBVIOUS
<1> HIDE DEF remaining
<1>2. /\ n300 \in 0..remaining /\ n100 \in 0..remaining
      /\ o.n300 = None => n300 = 0
      /\ o.n100 = None => n100 = 0
  <2>1. o.n300 \in Count /\ o.n100 \in Count
    BY DEF TaikoOpts
  <2>2. QED
    BY <1>1, <2>1, NoneIsNoNumber DEF Count
<1> HIDE DEF n300, n100
<1>3. CASE o.acc # None /\ o.n300 = None /\ o.n100 = None
  <2>1. o.acc \in Nat
    BY <1>3 DEF TaikoOpts, Count
  <2>2. PICK n \in Taiko!Closest(o.acc, total, remaining) : r = <<n, remaining - n>>
    BY <1>3 DEF Taiko!Results, remaining
  <2>3. n \in 0..remaining
    BY <1>1, <2>1, <2>2, TaikoCandidates
  <2>4. QED
    BY <1>1, <2>2, <2>3 DEF remaining
<1>4. CASE ~(o.acc # None /\ o.n300 = None /\ o.n100 = None)
  <2>1. r = IF Taiko!RestTo300(o) THEN <<n300 + rest, n100>> ELSE <<n300, n100 + rest>>
    BY <1>4 DEF Taiko!Results, remaining, n300, n100
  <2>2. rest = IF total > n300 + n100 + misses THEN total - (n300 + n100 + misses) ELSE 0
    BY DEF Taiko!Rest
  <2> HIDE DEF rest
  <2>3. QED
    BY <1>1, <1>2, <2>1, <2>2 DEF remaining
<1>5. QED
  BY <1>3, <1>4

\* A generated state counts in naturals and judges every object.
LEMMA TaikoStates ==
  ASSUME NEW o, TaikoOpts(o), NEW c \in TaikoCount, play.den \in Nat \ {0},
         NEW st \in Taiko!States(o, c)
  PROVE  LET total == Taiko!TotalResults(o, c)
         IN  /\ st \in TaikoState /\ total \in Nat
             /\ st.misses = Taiko!Misses(o, total) /\ st.misses <= total
             /\ st.n300 <= total - st.misses /\ st.n100 <= total - st.misses
             /\ st.combo = Taiko!ComboOf(o, c, st.misses)
             /\ st.combo <= Taiko!SaturatingSub(c.max_combo, st.misses)
             /\ st.n300 + st.n100 + st.misses >= total
             /\ o.n300 = None \/ o.n100 = None => st.n300 + st.n100 + st.misses = total
<1> DEFINE total == Taiko!TotalResults(o, c)
           misses == Taiko!Misses(o, total)
<1>1. /\ o.passed \in Nat /\ c.max_combo \in Nat /\ o.misses \in Count /\ o.combo \in Count
  BY DEF TaikoOpts, TaikoCount
<1>2. total \in Nat
  BY <1>1 DEF Taiko!TotalResults
<1> HIDE DEF total
<1>3. misses \in 0..total
  BY <1>1, <1>2, NoneIsNoNumber DEF Taiko!Misses, Count
<1> HIDE DEF misses
<1>4. PICK r \in Taiko!Results(o, total, misses) :
        st = [combo |-> Taiko!ComboOf(o, c, misses), n300 |-> r[1], n100 |-> r[2],
              misses |-> misses]
  BY DEF Taiko!States, total, misses
<1>5. /\ r[1] \in 0..(total - misses) /\ r[2] \in 0..(total - misses)
      /\ r[1] + r[2] + misses >= total
      /\ o.n300 = None \/ o.n100 = None => r[1] + r[2] + misses = total
  BY <1>2, <1>3, TaikoResults
<1>6. /\ Taiko!ComboOf(o, c, misses) \in Nat
      /\ Taiko!ComboOf(o, c, misses) <= Taiko!SaturatingSub(c.max_combo, misses)
  BY <1>1, <1>2, <1>3, NoneIsNoNumber DEF Taiko!ComboOf, Count
<1>7. QED
  BY <1>2, <1>3, <1>4, <1>5, <1>6 DEF TaikoState, total, misses

\* Generating from the settings with the counts of a state yields that state again.
LEMMA TaikoAgain ==
  ASSUME NEW o, TaikoOpts(o), NEW c \in TaikoCount, play.den \in Nat \ {0},
         NEW st \in Taiko!States(o, c)
  PROVE  /\ TaikoOpts(Taiko!Written(o, st))
         /\ \A f \in DOMAIN st : Taiko!Written(o, st)[f] = st[f]
         /\ Taiko!Written(o, st).passed = o.passed
         /\ Taiko!States(Taiko!Written(o, st), c) = {st}
<1> DEFINE total == Taiko!TotalResults(o, c)
           w == Taiko!Written(o, st)
<1>1. /\ st \in TaikoState /\ total \in Nat
      /\ st.misses = Taiko!Misses(o, total) /\ st.misses <= total
      /\ st.n300 <= total - st.misses /\ st.n100 <= total - st.misses
      /\ st.combo = Taiko!ComboOf(o, c, st.misses)
      /\ st.combo <= Taiko!SaturatingSub(c.max_combo, st.misses)
      /\ st.n300 + st.n100 + st.misses >= total
  BY TaikoStates
<1>2. DOMAIN st = {"combo", "n300", "n100", "misses"}
  BY <1>1 DEF TaikoState
<1>3. /\ DOMAIN w = DOMAIN o
      /\ w.passed = o.passed /\ w.priority = o.priority /\ w.acc = o.acc
      /\ w.combo = st.combo /\ w.misses = st.misses /\ w.n300 = st.n300 /\ w.n100 = st.n100
  <2>1. DOMAIN o = {"combo", "n300", "n100", "misses", "acc", "priority", "passed"}
    BY DEF TaikoOpts, Taiko!NoOpts, Taiko!NewSettings, Taiko!CountFields
  <2>2. w = [f \in DOMAIN o |-> IF f \in DOMAIN st THEN st[f] ELSE o[f]]
    BY DEF Taiko!Written, Taiko!Overwritten
  <2> HIDE DEF w
  <2>3. QED
    BY <1>2, <2>1, <2>2
<1>4. Taiko!TotalResults(w, c) = total
  BY <1>3 DEF Taiko!TotalResults
<1> HIDE DEF total, w
<1>5. st.n300 \in Nat /\ st.n100 \in Nat /\ st.misses \in Nat /\ st.combo \in Nat
  BY <1>1 DEF TaikoState
<1>6. TaikoOpts(w)
  BY <1>3, <1>5 DEF TaikoOpts, Count
<1>7. Taiko!Misses(w, total) = st.misses
  BY <1>1, <1>3, <1>5, NoneIsNoNumber DEF Taiko!Misses
<1>8. Taiko!Results(w, total, st.misses) = {<<st.n300, st.n100>>}
  <2> DEFINE n300 == Taiko!Least(Taiko!OrZero(w.n300), total - st.misses)
             n100 == Taiko!Least(Taiko!OrZero(w.n100), total - st.misses)
             rest == Taiko!Rest(total, n300, n100, st.misses)
  <2>1. n300 = st.n300 /\ n100 = st.n100 /\ w.n300 # None
    BY <1>1, <1>3, <1>5, NoneIsNoNumber
  <2>2. rest = 0
    BY <1>1, <1>5, <2>1 DEF Taiko!Rest
  <2>3. Taiko!Results(w, total, st.misses) =
          {IF Taiko!RestTo300(w) THEN <<n300 + rest, n100>> ELSE <<n300, n100 + rest>>}
    BY <2>1 DEF Taiko!Results
  <2> HIDE DEF n300, n100, rest
  <2>4. QED
    BY <1>5, <2>1, <2>2, <2>3
<1>9. Taiko!ComboOf(w, c, st.misses) = st.combo
  BY <1>1, <1>3, <1>5, NoneIsNoNumber DEF Taiko!ComboOf, TaikoCount
<1>10. Taiko!States(w, c) = {st}
  <2>1. st = [combo |-> st.combo, n300 |-> st.n300, n100 |-> st.n100, misses |-> st.misses]
    BY <1>1 DEF TaikoState
  <2>2. Taiko!States(w, c) =
          {[combo |-> st.combo, n300 |-> r[1], n100 |-> r[2], misses |-> st.misses] :
             r \in Taiko!Results(w, total, st.misses)}
    BY <1>4, <1>7, <1>9 DEF Taiko!States
  <2>3. QED
    BY <1>8, <2>1, <2>2
<1>11. QED
  BY <1>2, <1>3, <1>6, <1>10 DEF w

\* What the attributes of an osu!taiko map count.
LEMMA TaikoAttrs ==
  ASSUME play \in Plays, NEW p \in Nat
  PROVE  Taiko!Attrs(p).count \in TaikoCount /\ Taiko!Attrs(p).count.max_combo <= p
<1>1. play.hits \in Nat
  BY PlaysAssumption
<1>2. QED
  BY <1>1 DEF Taiko!Attrs, Taiko!Attributes, TaikoCount

\* A state generated from the attributes of the objects that the play passed has a combo its
\* 300s and 100s can have made.
LEMMA TaikoComboFits ==
  ASSUME play \in Plays, NEW o, TaikoOpts(o), NEW c, c = Taiko!Attrs(o.passed).count,
         NEW st \in Taiko!States(o, c)
  PROVE  st.combo <= st.n300 + st.n100
<1>1. o.passed \in Nat /\ play.den \in Nat \ {0}
  BY PlaysAssumption DEF TaikoOpts
<1>2. c \in TaikoCount /\ c.max_combo <= o.passed /\ c.max_combo \in Nat
  BY <1>1, TaikoAttrs DEF TaikoCount
<1>3. Taiko!TotalResults(o, c) = c.max_combo
  BY <1>1, <1>2 DEF Taiko!TotalResults
<1>4. /\ st \in TaikoState /\ st.misses <= c.max_combo
      /\ st.combo <= Taiko!SaturatingSub(c.max_combo, st.misses)
      /\ st.n300 + st.n100 + st.misses >= c.max_combo
  BY <1>1, <1>2, <1>3, TaikoStates
<1>5. QED
  BY <1>2, <1>4 DEF TaikoState

-----------------------------------------------------------------------------
(* osu!catch *)

USE DEF Catch!Least, Catch!SaturatingSub, Catch!OrZero

CatchOpts(o) ==
  /\ DOMAIN o = DOMAIN Catch!NoOpts(NoLimit)
  /\ \A f \in {"combo", "fruits", "droplets", "tiny_droplets", "tiny_droplet_misses",
               "misses", "acc"} : o[f] \in Count
  /\ o.passed \in Nat

CatchCount == [fruits: Nat, droplets: Nat, tiny_droplets: Nat]
CatchState == [combo: Nat, fruits: Nat, droplets: Nat, tiny_droplets: Nat,
               tiny_droplet_misses: Nat, misses: Nat]

\* Every fruit and droplet is caught or missed, and unless both counts were given none is
\* caught that is not there.
LEMMA CatchFruits ==
  ASSUME NEW o, CatchOpts(o), NEW c \in CatchCount, NEW misses \in 0..Catch!Palps(c)
  PROVE  LET r == Catch!FruitsAndDroplets(o, c, misses)
         IN  /\ r = <<r[1], r[2]>> /\ r[1] \in Nat /\ r[2] \in Nat
             /\ r[1] + r[2] + misses = Catch!Palps(c)
             /\ None \in {o.fruits, o.droplets} => r[1] <= c.fruits /\ r[2] <= c.droplets
<1> DEFINE P == Catch!Palps(c)
           F == c.fruits
           D == c.droplets
           Spared(x, other, n) ==
             Catch!SaturatingSub(x, Catch!SaturatingSub(misses, Catch!SaturatingSub(other, n)))
           r == Catch!FruitsAndDroplets(o, c, misses)
<1>1. /\ F \in Nat /\ D \in Nat /\ P = F + D /\ misses \in Nat /\ misses <= P
      /\ o.fruits \in Count /\ o.droplets \in Count
  BY SMTT(30) DEF CatchCount, CatchOpts, Catch!Palps
<1>2. CASE o.fruits # None /\ o.droplets # None
  <2> DEFINE rest  == Catch!SaturatingSub(P, o.fruits + o.droplets + misses)
             extra == Catch!Least(rest, Catch!SaturatingSub(D, o.droplets))
             fruits == Catch!Least(o.fruits + rest - extra,
                                   Catch!SaturatingSub(P, o.droplets + extra + misses))
             droplets == Catch!Least(o.droplets + extra, P - fruits - misses)
  <2>1. r = <<fruits, droplets>>
    BY <1>2 DEF Catch!FruitsAndDroplets, Catch!BothGiven
  <2>2. o.fruits \in Nat /\ o.droplets \in Nat
    BY <1>1, <1>2 DEF Count
  <2>3. rest \in Nat /\ extra \in Nat /\ extra <= rest
        /\ rest = IF P > o.fruits + o.droplets + misses
                  THEN P - (o.fruits + o.droplets + misses) ELSE 0
    BY <1>1, <2>2
  <2> HIDE DEF rest, extra
  <2>4. fruits \in Nat /\ droplets \in Nat /\ fruits + droplets + misses = P
    BY <1>1, <2>2, <2>3
  <2> HIDE DEF fruits, droplets, r, P
  <2>5. QED
    BY <1>2, <2>1, <2>4, SMTT(30) DEF r, P
<1>3. CASE o.droplets # None /\ o.fruits = None
  <2> DEFINE fruits == Spared(F, D, o.droplets)
  <2>1. r = <<fruits, P - misses - fruits>>
    BY <1>3 DEF Catch!FruitsAndDroplets
  <2>2. o.droplets \in Nat
    BY <1>1, <1>3 DEF Count
  <2>3. fruits \in Nat /\ fruits <= F /\ P - misses - fruits \in 0..D
    BY <1>1, <2>2
  <2> HIDE DEF fruits, r, P
  <2>4. QED
    BY <1>1, <2>1, <2>3 DEF r, P
<1>4. CASE o.droplets = None
  <2> DEFINE droplets == IF o.fruits # None THEN Spared(D, F, o.fruits)
                                            ELSE Catch!SaturatingSub(D, misses)
  <2>1. r = <<P - misses - droplets, droplets>>
    BY <1>4 DEF Catch!FruitsAndDroplets
  <2>2. droplets \in Nat /\ droplets <= D /\ P - misses - droplets \in 0..F
    BY <1>1 DEF Count
  <2> HIDE DEF droplets, r, P
  <2>3. QED
    BY <1>1, <2>1, <2>2 DEF r, P
<1>5. QED
  BY <1>2, <1>3, <1>4

\* Every tiny droplet is caught or missed, and none twice unless both counts were given.
LEMMA CatchTiny ==
  ASSUME NEW o, CatchOpts(o), NEW c \in CatchCount, NEW caught \in Nat,
         play.den \in Nat \ {0}, NEW t \in Catch!TinyResults(o, c, caught)
  PROVE  /\ t[1] \in Nat /\ t[2] \in Nat
         /\ t[1] + t[2] >= c.tiny_droplets
         /\ None \in {o.tiny_droplets, o.tiny_droplet_misses} \/ o.acc # None =>
              t[1] + t[2] = c.tiny_droplets
<1> DEFINE T == c.tiny_droplets
<1>1. T \in Nat /\ o.tiny_droplets \in Count /\ o.tiny_droplet_misses \in Count /\ o.acc \in Count
      /\ Catch!Palps(c) \in Nat
  BY DEF CatchCount, CatchOpts, Catch!Palps
<1>2. CASE Catch!Searched(o, c)
  <2> DEFINE raw == o.acc * (Catch!Palps(c) + T) - play.den * caught
             tried == Catch!Least(T, Catch!Floor(raw, play.den))
                        .. Catch!Least(T, Catch!Ceil(raw, play.den))
  <2>1. o.acc \in Nat
    BY <1>1, <1>2 DEF Catch!Searched, Count
  <2>2. raw \in Int
    <3>1. o.acc * (Catch!Palps(c) + T) \in Int /\ play.den * caught \in Int
      BY <1>1, <2>1
    <3>2. QED
      BY <3>1
  <2>3. PICK n \in Catch!BestTiny(o.acc, c, caught) : t = <<n, T - n>>
    BY <1>2 DEF Catch!TinyResults
  <2>4. n \in tried
    BY <2>3 DEF Catch!BestTiny
  <2> HIDE DEF raw
  <2>5. Catch!Floor(raw, play.den) \in Nat
    BY <2>2, QuotientType DEF Catch!Floor
  <2>6. Catch!Ceil(raw, play.den) \in Nat
    <3>1. raw >= 0 => raw + play.den - 1 \in Nat
      BY <2>2
    <3>2. QED
      BY <2>2, <3>1, QuotientType DEF Catch!Ceil
  <2>7. n \in 0..T
    BY <1>1, <2>4, <2>5, <2>6
  <2>8. QED
    BY <1>1, <2>3, <2>7
<1>3. CASE ~Catch!Searched(o, c)
  <2>1. t = Catch!GivenTiny(o, c)
    BY <1>3 DEF Catch!TinyResults
  <2>2. CASE o.tiny_droplets # None /\ o.tiny_droplet_misses # None
    <3>1. t = <<o.tiny_droplets
                  + Catch!SaturatingSub(T, o.tiny_droplets + o.tiny_droplet_misses),
                o.tiny_droplet_misses>>
      BY <2>1, <2>2 DEF Catch!GivenTiny
    <3>2. o.tiny_droplets \in Nat /\ o.tiny_droplet_misses \in Nat
      BY <1>1, <2>2 DEF Count
    <3>3. o.acc # None => o.tiny_droplets + o.tiny_droplet_misses = T
      BY <1>3, <2>2 DEF Catch!Searched
    <3>4. QED
      BY <1>1, <2>2, <3>1, <3>2, <3>3
  <2>3. CASE o.tiny_droplets # None /\ o.tiny_droplet_misses = None
    <3>1. t = <<Catch!Least(T, o.tiny_droplets), Catch!SaturatingSub(T, o.tiny_droplets)>>
      BY <2>1, <2>3 DEF Catch!GivenTiny
    <3>2. QED
      BY <1>1, <2>3, <3>1 DEF Count
  <2>4. CASE o.tiny_droplets = None
    <3>1. t = <<Catch!SaturatingSub(T, Catch!OrZero(o.tiny_droplet_misses)),
                Catch!Least(T, Catch!OrZero(o.tiny_droplet_misses))>>
      BY <2>1, <2>4 DEF Catch!GivenTiny
    <3>2. Catch!OrZero(o.tiny_droplet_misses) \in Nat
      BY <1>1 DEF Count
    <3>3. QED
      BY <1>1, <3>1, <3>2
  <2>5. QED
    BY <2>2, <2>3, <2>4
<1>4. QED
  BY <1>2, <1>3

\* A generated state counts in naturals and judges every object.
LEMMA CatchStates ==
  ASSUME NEW o, CatchOpts(o), NEW c \in CatchCount, play.den \in Nat \ {0},
         NEW st \in Catch!States(o, c)
  PROVE  /\ st \in CatchState
         /\ st.misses = Catch!Misses(o, c) /\ st.misses <= Catch!Palps(c)
         /\ st.combo = Catch!ComboOf(o, c, st.misses)
         /\ st.fruits + st.droplets + st.misses = Catch!Palps(c)
         /\ None \in {o.fruits, o.droplets} => st.fruits <= c.fruits /\ st.droplets <= c.droplets
         /\ st.tiny_droplets + st.tiny_droplet_misses >= c.tiny_droplets
         /\ None \in {o.tiny_droplets, o.tiny_droplet_misses} \/ o.acc # None =>
              st.tiny_droplets + st.tiny_droplet_misses = c.tiny_droplets
<1> DEFINE misses == Catch!Misses(o, c)
           r == Catch!FruitsAndDroplets(o, c, misses)
<1>1. Catch!Palps(c) \in Nat /\ o.misses \in Count /\ o.combo \in Count
  BY DEF CatchCount, CatchOpts, Catch!Palps
<1>2. misses \in 0..Catch!Palps(c)
  BY <1>1 DEF Catch!Misses, Count
<1> HIDE DEF misses
<1>3. /\ r[1] \in Nat /\ r[2] \in Nat
      /\ r[1] + r[2] + misses = Catch!Palps(c)
      /\ None \in {o.fruits, o.droplets} => r[1] <= c.fruits /\ r[2] <= c.droplets
  BY <1>2, CatchFruits
<1>4. PICK t \in Catch!TinyResults(o, c, r[1] + r[2]) :
        st = [combo |-> Catch!ComboOf(o, c, misses), fruits |-> r[1], droplets |-> r[2],
              tiny_droplets |-> t[1], tiny_droplet_misses |-> t[2], misses |-> misses]
  BY DEF Catch!States, misses
<1> HIDE DEF r
<1>5. r[1] + r[2] \in Nat
  BY <1>3
<1>6. /\ t[1] \in Nat /\ t[2] \in Nat
      /\ t[1] + t[2] >= c.tiny_droplets
      /\ None \in {o.tiny_droplets, o.tiny_droplet_misses} \/ o.acc # None =>
           t[1] + t[2] = c.tiny_droplets
  BY <1>5, CatchTiny
<1>7. Catch!ComboOf(o, c, misses) \in Nat
  BY <1>1, <1>2 DEF Catch!ComboOf, Count
<1>8. QED
  BY <1>1, <1>2, <1>3, <1>4, <1>6, <1>7 DEF CatchState, misses

\* Generating from the settings with the counts of a state yields that state again.
LEMMA CatchAgain ==
  ASSUME NEW o, CatchOpts(o), NEW c \in CatchCount, play.den \in Nat \ {0},
         NEW st \in Catch!States(o, c)
  PROVE  /\ CatchOpts(Catch!Written(o, st))
         /\ \A f \in DOMAIN st : Catch!Written(o, st)[f] = st[f]
         /\ Catch!Written(o, st).passed = o.passed
         /\ Catch!States(Catch!Written(o, st), c) = {st}
<1> DEFINE w == Catch!Written(o, st)
           P == Catch!Palps(c)
           T == c.tiny_droplets
<1>1. /\ st \in CatchState
      /\ st.misses <= P
      /\ st.fruits + st.droplets + st.misses = P
      /\ st.tiny_droplets + st.tiny_droplet_misses >= T
      /\ o.acc # None => st.tiny_droplets + st.tiny_droplet_misses = T
  BY CatchStates
<1>2. DOMAIN st = {"combo", "fruits", "droplets", "tiny_droplets", "tiny_droplet_misses",
                   "misses"}
  BY <1>1 DEF CatchState
<1>3. /\ DOMAIN w = DOMAIN o
      /\ w.passed = o.passed /\ w.acc = o.acc /\ w.combo = st.combo /\ w.misses = st.misses
      /\ w.fruits = st.fruits /\ w.droplets = st.droplets
      /\ w.tiny_droplets = st.tiny_droplets
      /\ w.tiny_droplet_misses = st.tiny_droplet_misses
  <2>1. DOMAIN o = {"combo", "fruits", "droplets", "tiny_droplets", "tiny_droplet_misses",
                    "misses", "acc", "passed"}
    BY DEF CatchOpts, Catch!NoOpts, Catch!NewSettings, Catch!CountFields
  <2>2. w = [f \in DOMAIN o |-> IF f \in DOMAIN st THEN st[f] ELSE o[f]]
    BY DEF Catch!Written, Catch!Overwritten
  <2> HIDE DEF w
  <2>3. QED
    BY <1>2, <2>1, <2>2
<1> HIDE DEF w
<1>4. /\ st.fruits \in Nat /\ st.droplets \in Nat /\ st.misses \in Nat /\ st.combo \in Nat
      /\ st.tiny_droplets \in Nat /\ st.tiny_droplet_misses \in Nat
      /\ P \in Nat /\ T \in Nat /\ c.droplets \in Nat
  BY <1>1 DEF CatchState, CatchCount, Catch!Palps
<1> HIDE DEF P
<1>5. CatchOpts(w)
  BY <1>3, <1>4 DEF CatchOpts, Count
<1>6. Catch!Misses(w, c) = st.misses
  BY <1>1, <1>3, <1>4, NoneIsNoNumber DEF Catch!Misses, P
<1>7. Catch!FruitsAndDroplets(w, c, st.misses) = <<st.fruits, st.droplets>>
  <2> DEFINE rest  == Catch!SaturatingSub(P, st.fruits + st.droplets + st.misses)
             extra == Catch!Least(rest, Catch!SaturatingSub(c.droplets, st.droplets))
             fruits == Catch!Least(st.fruits + rest - extra,
                                   Catch!SaturatingSub(P, st.droplets + extra + st.misses))
             droplets == Catch!Least(st.droplets + extra, P - fruits - st.misses)
  <2>1. Catch!FruitsAndDroplets(w, c, st.misses) = <<fruits, droplets>>
    BY <1>3, <1>4, NoneIsNoNumber DEF Catch!FruitsAndDroplets, Catch!BothGiven, P
  <2>2. rest = 0 /\ extra = 0
    BY <1>1, <1>4
  <2> HIDE DEF rest, extra
  <2>3. fruits = st.fruits /\ droplets = st.droplets
    BY <1>1, <1>4, <2>2
  <2> HIDE DEF fruits, droplets
  <2>4. QED
    BY <2>1, <2>3, SMTT(30)
<1>8. \A n : Catch!TinyResults(w, c, n) = {<<st.tiny_droplets, st.tiny_droplet_misses>>}
  <2>1. ~Catch!Searched(w, c)
    BY <1>1, <1>3, <1>4, NoneIsNoNumber DEF Catch!Searched
  <2>2. Catch!GivenTiny(w, c) =
          <<st.tiny_droplets
              + Catch!SaturatingSub(T, st.tiny_droplets + st.tiny_droplet_misses),
            st.tiny_droplet_misses>>
    BY <1>3, <1>4, NoneIsNoNumber DEF Catch!GivenTiny
  <2>3. st.tiny_droplets + Catch!SaturatingSub(T, st.tiny_droplets + st.tiny_droplet_misses)
          = st.tiny_droplets
    BY <1>1, <1>4
  <2>4. QED
    BY <2>1, <2>2, <2>3 DEF Catch!TinyResults
<1>9. Catch!ComboOf(w, c, st.misses) = st.combo
  BY <1>3, <1>4, NoneIsNoNumber DEF Catch!ComboOf
<1>10. Catch!States(w, c) = {st}
  <2>1. st = [combo |-> st.combo, fruits |-> st.fruits, droplets |-> st.droplets,
              tiny_droplets |-> st.tiny_droplets,
              tiny_droplet_misses |-> st.tiny_droplet_misses, misses |-> st.misses]
    BY <1>1 DEF CatchState
  <2> DEFINE r == Catch!FruitsAndDroplets(w, c, st.misses)
  <2>2. Catch!States(w, c) =
          {[combo |-> st.combo, fruits |-> r[1], droplets |-> r[2],
            tiny_droplets |-> t[1], tiny_droplet_misses |-> t[2], misses |-> st.misses] :
             t \in Catch!TinyResults(w, c, r[1] + r[2])}
    BY <1>6, <1>9 DEF Catch!States
  <2>3. r[1] = st.fruits /\ r[2] = st.droplets
    BY <1>7
  <2> HIDE DEF r
  <2>4. Catch!TinyResults(w, c, r[1] + r[2]) = {<<st.tiny_droplets, st.tiny_droplet_misses>>}
    BY <1>8
  <2>5. Catch!States(w, c) =
          {[combo |-> st.combo, fruits |-> st.fruits, droplets |-> st.droplets,
            tiny_droplets |-> t[1], tiny_droplet_misses |-> t[2], misses |-> st.misses] :
             t \in {<<st.tiny_droplets, st.tiny_droplet_misses>>}}
    BY <2>2, <2>3, <2>4
  <2>6. QED
    BY <2>1, <2>5
<1>11. QED
  BY <1>2, <1>3, <1>5, <1>10 DEF w

\* What the attributes of an osu!catch map count.
LEMMA CatchAttrs ==
  ASSUME play \in Plays, NEW p \in Nat
  PROVE  Catch!Attrs(p).count \in CatchCount
<1> DEFINE rs == play.recorded
           taken == {i \in DOMAIN rs :
                       Catch!Cardinality(Catch!PalpableCalls(rs, i - 1)) < p}
           N(x) == {i \in taken : rs[i] = x}
           tiny == {i \in taken : Catch!IsTiny(rs[i])}
           f == [i \in tiny |-> rs[i].n]
<1>1. \A S : Catch!Cardinality(S) = Cardinality(S)
  BY DEF Catch!Cardinality, Cardinality
<1>2. \A g : Catch!SumFunction(g) = SumFunction(g)
  BY DEF Catch!SumFunction, Catch!SumFunctionOnSet, Catch!FoldFunctionOnSet,
         Catch!MapThenFoldSet, SumFunction, SumFunctionOnSet, FoldFunctionOnSet, MapThenFoldSet
<1>3. rs \in Seq(RecordCalls)
  BY PlaysAssumption
<1> HIDE DEF rs
<1>4. DOMAIN rs = 1..Len(rs) /\ Len(rs) \in Nat
  BY <1>3
<1>5. IsFiniteSet(DOMAIN rs)
  BY <1>4, FS_Interval
<1>6. taken \in SUBSET DOMAIN rs
  OBVIOUS
<1> HIDE DEF taken
<1>7. IsFiniteSet(taken) /\ \A i \in taken : rs[i] \in RecordCalls
  BY <1>3, <1>4, <1>5, <1>6, FS_Subset, ElementOfSeq
<1>8. \A x : Cardinality(N(x)) \in Nat
  <2>1. \A x : N(x) \in SUBSET taken
    OBVIOUS
  <2>2. QED
    BY <1>7, <2>1, FS_Subset, FS_CardinalityType
<1>9. \A i \in tiny : f[i] \in Nat
  BY <1>7 DEF RecordCalls, Catch!IsTiny, Catch!Fruit, Catch!Droplet
<1>10. SumFunction(f) \in Nat
  <2>1. DOMAIN f = tiny /\ tiny \in SUBSET taken
    OBVIOUS
  <2>2. IsFiniteSet(tiny)
    BY <1>7, <2>1, FS_Subset
  <2> HIDE DEF f, tiny
  <2>3. QED
    BY <1>9, <2>1, <2>2, SumType DEF SumFunction
<1>11. Catch!Attrs(p).count =
         [fruits |-> Cardinality(N(Catch!Fruit)), droplets |-> Cardinality(N(Catch!Droplet)),
          tiny_droplets |-> SumFunction(f)]
  <2>1. Catch!Attrs(p).count = Catch!RegularCount(rs, p)
    BY DEF Catch!Attrs, Catch!Attributes, rs
  <2>2. Catch!TinySum(rs, taken) = SumFunction(f)
    BY <1>2 DEF Catch!TinySum
  <2>3. Catch!RegularCount(rs, p) =
          [fruits        |-> Catch!Cardinality(N(Catch!Fruit)),
           droplets      |-> Catch!Cardinality(N(Catch!Droplet)),
           tiny_droplets |-> Catch!TinySum(rs, taken)]
    BY DEF Catch!RegularCount, taken
  <2>4. QED
    BY <1>1, <2>1, <2>2, <2>3
<1> HIDE DEF N, f
<1>12. QED
  BY <1>8, <1>10, <1>11 DEF CatchCount

-----------------------------------------------------------------------------
(* osu!mania *)

USE DEF Mania!Least, Mania!SaturatingSub, Mania!OrZero

ManiaOpts(o) ==
  /\ DOMAIN o = DOMAIN Mania!NoOpts(NoLimit)
  /\ \A f \in {"n320", "n300", "n200", "n100", "n50", "misses", "acc"} : o[f] \in Count
  /\ o.passed \in Nat /\ o.priority \in Priorities /\ o.lazer \in BOOLEAN

ManiaCount == [n_objects: Nat, n_hold_notes: Nat]

ManiaSetups == {s \in [total: Nat, misses: Nat, remaining: Nat] :
                  s.misses + s.remaining = s.total}

LowJudgements == {"n200", "n100", "n50"}

\* The totals are naturals, and misses are part of them.
LEMMA ManiaSetupType ==
  ASSUME NEW o, ManiaOpts(o), NEW c \in ManiaCount
  PROVE  Mania!Setup(o, c) \in ManiaSetups
<1> DEFINE passed == Mania!Least(o.passed, c.n_objects)
           misses == Mania!Least(Mania!OrZero(o.misses), passed)
           total  == passed + (IF o.lazer THEN c.n_hold_notes ELSE 0)
<1>1. o.passed \in Nat /\ c.n_objects \in Nat /\ c.n_hold_notes \in Nat /\ o.misses \in Count
  BY DEF ManiaOpts, ManiaCount
<1>2. passed \in Nat
  BY <1>1
<1> HIDE DEF passed
<1>3. misses \in Nat /\ misses <= passed
  BY <1>1, <1>2, NoneIsNoNumber DEF Count
<1>4. total \in Nat /\ passed <= total
  BY <1>1, <1>2
<1> HIDE DEF misses, total
<1>5. Mania!Setup(o, c) = [total |-> total, misses |-> misses, remaining |-> total - misses]
  BY DEF Mania!Setup, passed, misses, total
<1>6. QED
  BY <1>2, <1>3, <1>4, <1>5 DEF ManiaSetups

\* A given count is limited to the results that are left.
LEMMA ManiaGivenType ==
  ASSUME NEW o, ManiaOpts(o), NEW s \in ManiaSetups, NEW f \in Mania!Judgements
  PROVE  /\ Mania!Given(o, s, f) \in 0..s.remaining
         /\ o[f] = None => Mania!Given(o, s, f) = 0
<1>1. s.remaining \in Nat
  BY DEF ManiaSetups
<1>2. o[f] \in Count
  BY DEF ManiaOpts, Mania!Judgements
<1>3. QED
  BY <1>1, <1>2, NoneIsNoNumber DEF Mania!Given, Count

\* Short sequences joined.
LEMMA TwoJoined ==
  ASSUME NEW a, NEW b PROVE <<a>> \o <<b>> = <<a, b>>
<1> DEFINE s == <<a>> \o <<b>>
           t == <<a, b>>
           S == {a, b}
<1>1. s \in Seq(S) /\ t \in Seq(S)
  <2>1. <<a>> \in Seq(S) /\ <<b>> \in Seq(S)
    OBVIOUS
  <2>2. s \in Seq(S)
    BY <2>1, ConcatProperties
  <2>3. QED
    BY <2>2
<1>2. Len(s) = 2 /\ s[1] = a /\ s[2] = b
  <2>1. <<a>> \in Seq(S) /\ <<b>> \in Seq(S) /\ Len(<<a>>) = 1 /\ Len(<<b>>) = 1
    OBVIOUS
  <2>2. QED
    BY <2>1, ConcatProperties
<1>3. Len(t) = 2 /\ t[1] = a /\ t[2] = b
  OBVIOUS
<1> HIDE DEF s, t, S
<1>4. \A i \in 1..Len(s) : s[i] = t[i]
  BY <1>2, <1>3
<1>5. QED
  BY <1>1, <1>2, <1>3, <1>4, SeqEqual, Zenon DEF s, t

LEMMA PairLength == \A a, b : Len(<<a, b>>) = 2
OBVIOUS

LEMMA ThreeJoined ==
  ASSUME NEW a, NEW b, NEW c PROVE <<a, b>> \o <<c>> = <<a, b, c>>
<1> DEFINE s == <<a, b>> \o <<c>>
           t == <<a, b, c>>
           S == {a, b, c}
<1>1. s \in Seq(S) /\ t \in Seq(S)
  <2>1. <<a, b>> \in Seq(S) /\ <<c>> \in Seq(S)
    OBVIOUS
  <2>2. s \in Seq(S)
    BY <2>1, ConcatProperties
  <2>3. QED
    BY <2>2
<1>2. Len(s) = 3 /\ s[1] = a /\ s[2] = b /\ s[3] = c
  <2>1. /\ <<a, b>> \in Seq(S) /\ <<c>> \in Seq(S) /\ Len(<<a, b>>) = 2 /\ Len(<<c>>) = 1
    OBVIOUS
  <2>2. QED
    BY <2>1, ConcatProperties
<1>3. Len(t) = 3 /\ t[1] = a /\ t[2] = b /\ t[3] = c
  OBVIOUS
<1> HIDE DEF s, t, S
<1>4. \A i \in 1..Len(s) : s[i] = t[i]
  BY <1>2, <1>3
<1>5. QED
  BY <1>1, <1>2, <1>3, <1>4, SeqEqual, Zenon DEF s, t

\* The low judgements that are not given, from the best to the worst.
LEMMA ManiaLows ==
  ASSUME NEW o
  PROVE  LET L == Mania!Lows(o)
         IN  /\ L \in Seq(LowJudgements) /\ Len(L) \in 0..3
             /\ \A i \in 1..Len(L) : L[i] \in LowJudgements /\ o[L[i]] = None
             /\ \A i, j \in 1..Len(L) :
                  i < j => Mania!Value[L[i]] > Mania!Value[L[j]] /\ L[i] # L[j]
             /\ \A f \in LowJudgements : o[f] = None => \E i \in 1..Len(L) : L[i] = f
<1> DEFINE L == Mania!Lows(o)
           G(f) == IF o[f] = None THEN <<f>> ELSE << >>
<1>1. L = G("n200") \o G("n100") \o G("n50")
  BY DEF Mania!Lows
<1>2. Mania!Value["n200"] = 4 /\ Mania!Value["n100"] = 2 /\ Mania!Value["n50"] = 1
  BY DEF Mania!Value
<1> HIDE DEF L
<1>3. CASE o["n200"] = None /\ o["n100"] = None /\ o["n50"] = None
  <2>1. L = <<"n200">> \o <<"n100">> \o <<"n50">>
    BY <1>1, <1>3
  <2>2. L = <<"n200", "n100", "n50">>
    <3>1. <<"n200">> \o <<"n100">> = <<"n200", "n100">>
      BY TwoJoined
    <3>2. QED
      BY <2>1, <3>1, ThreeJoined, Zenon
  <2>3. L \in Seq(LowJudgements)
    BY <2>2 DEF LowJudgements
  <2>4. Len(L) = 3 /\ L[1] = "n200" /\ L[2] = "n100" /\ L[3] = "n50"
    BY <2>2
  <2>5. \A i \in 1..Len(L) : i = 1 \/ i = 2 \/ i = 3
    BY <2>4
  <2>6. \A i, j \in 1..Len(L) :
          i < j => Mania!Value[L[i]] > Mania!Value[L[j]] /\ L[i] # L[j]
    BY <1>2, <2>4, <2>5
  <2>7. QED
    BY <1>3, <2>3, <2>4, <2>5, <2>6 DEF LowJudgements, L
<1>4. CASE o["n200"] = None /\ o["n100"] = None /\ o["n50"] # None
  <2>1. L = <<"n200">> \o <<"n100">> \o << >>
    BY <1>1, <1>4
  <2>2. L = <<"n200", "n100">>
    <3>1. L = <<"n200">> \o <<"n100">>
      BY <2>1
    <3>2. QED
      BY <3>1, TwoJoined
  <2>3. L \in Seq(LowJudgements)
    BY <2>2 DEF LowJudgements
  <2>4. Len(L) = 2 /\ L[1] = "n200" /\ L[2] = "n100"
    BY <2>2
  <2>5. \A i \in 1..Len(L) : i = 1 \/ i = 2
    BY <2>4
  <2>6. \A i, j \in 1..Len(L) :
          i < j => Mania!Value[L[i]] > Mania!Value[L[j]] /\ L[i] # L[j]
    BY <1>2, <2>4, <2>5
  <2>7. QED
    BY <1>4, <2>3, <2>4, <2>5, <2>6 DEF LowJudgements, L
<1>5. CASE o["n200"] = None /\ o["n100"] # None /\ o["n50"] = None
  <2>1. L = <<"n200">> \o << >> \o <<"n50">>
    BY <1>1, <1>5
  <2>2. L = <<"n200", "n50">>
    <3>1. L = <<"n200">> \o <<"n50">>
      BY <2>1
    <3>2. QED
      BY <3>1, TwoJoined
  <2>3. L \in Seq(LowJudgements)
    BY <2>2 DEF LowJudgements
  <2>4. Len(L) = 2 /\ L[1] = "n200" /\ L[2] = "n50"
    BY <2>2
  <2>5. \A i \in 1..Len(L) : i = 1 \/ i = 2
    BY <2>4
  <2>6. \A i, j \in 1..Len(L) :
          i < j => Mania!Value[L[i]] > Mania!Value[L[j]] /\ L[i] # L[j]
    BY <1>2, <2>4, <2>5
  <2>7. QED
    BY <1>5, <2>3, <2>4, <2>5, <2>6 DEF LowJudgements, L
<1>6. CASE o["n200"] = None /\ o["n100"] # None /\ o["n50"] # None
  <2>1. L = <<"n200">> \o << >> \o << >>
    BY <1>1, <1>6
  <2>2. L = <<"n200">>
    BY <2>1
  <2>3. QED
    BY <1>2, <1>6, <2>2 DEF LowJudgements, L
<1>7. CASE o["n200"] # None /\ o["n100"] = None /\ o["n50"] = None
  <2>1. L = << >> \o <<"n100">> \o <<"n50">>
    BY <1>1, <1>7
  <2>2. L = <<"n100", "n50">>
    <3>1. L = <<"n100">> \o <<"n50">>
      BY <2>1
    <3>2. QED
      BY <3>1, TwoJoined
  <2>3. L \in Seq(LowJudgements)
    BY <2>2 DEF LowJudgements
  <2>4. Len(L) = 2 /\ L[1] = "n100" /\ L[2] = "n50"
    BY <2>2
  <2>5. \A i \in 1..Len(L) : i = 1 \/ i = 2
    BY <2>4
  <2>6. \A i, j \in 1..Len(L) :
          i < j => Mania!Value[L[i]] > Mania!Value[L[j]] /\ L[i] # L[j]
    BY <1>2, <2>4, <2>5
  <2>7. QED
    BY <1>7, <2>3, <2>4, <2>5, <2>6 DEF LowJudgements, L
<1>8. CASE o["n200"] # None /\ o["n100"] = None /\ o["n50"] # None
  <2>1. L = << >> \o <<"n100">> \o << >>
    BY <1>1, <1>8
  <2>2. L = <<"n100">>
    BY <2>1
  <2>3. QED
    BY <1>2, <1>8, <2>2 DEF LowJudgements, L
<1>9. CASE o["n200"] # None /\ o["n100"] # None /\ o["n50"] = None
  <2>1. L = << >> \o << >> \o <<"n50">>
    BY <1>1, <1>9
  <2>2. L = <<"n50">>
    BY <2>1
  <2>3. QED
    BY <1>2, <1>9, <2>2 DEF LowJudgements, L
<1>10. CASE o["n200"] # None /\ o["n100"] # None /\ o["n50"] # None
  <2>1. L = << >> \o << >> \o << >>
    BY <1>1, <1>10
  <2>2. L = << >>
    BY <2>1
  <2>3. QED
    BY <1>2, <1>10, <2>2 DEF LowJudgements, L
<1>11. QED
  BY <1>3, <1>4, <1>5, <1>6, <1>7, <1>8, <1>9, <1>10

\* The maximum of two numbers.
LEMMA ManiaMax == \A a, b \in Int : Mania!Max({a, b}) = IF a < b THEN b ELSE a
<1> SUFFICES ASSUME NEW a \in Int, NEW b \in Int
             PROVE  Mania!Max({a, b}) = IF a < b THEN b ELSE a
  OBVIOUS
<1>1. \E x \in {a, b} : \A y \in {a, b} : x >= y
  OBVIOUS
<1>2. /\ Mania!Max({a, b}) \in {a, b}
      /\ \A y \in {a, b} : Mania!Max({a, b}) >= y
  BY <1>1 DEF Mania!Max
<1>3. QED
  BY <1>2

\* Products and differences of integers are integers.
LEMMA ProductType == \A a, b \in Int : a * b \in Int /\ a - b \in Int
OBVIOUS

\* What the judgements are worth.
LEMMA ManiaValues ==
  /\ Mania!Value["n3x0"] = 6 /\ Mania!Value["n200"] = 4
  /\ Mania!Value["n100"] = 2 /\ Mania!Value["n50"] = 1
  /\ Mania!Value.n3x0 = 6
BY DEF Mania!Value

Tries == [n3x0: Nat, n200: Nat, n100: Nat, n50: Nat]

\* A number of results, rounded down or up, is between none and what is left.
LEMMA ManiaNeeded ==
  ASSUME NEW o, ManiaOpts(o), o.acc # None, NEW s \in ManiaSetups, NEW h \in Tries,
         play.den \in Nat \ {0},
         NEW f \in LowJudgements \cup {"n3x0"}, NEW g \in LowJudgements,
         Mania!Value[f] > Mania!Value[g]
  PROVE  /\ Mania!NeededDown(o, s, h, f, g) \in 0..Mania!Left(s, h)
         /\ Mania!NeededUp(o, s, h, f, g) \in 0..Mania!Left(s, h)
<1> DEFINE short == Mania!Short(o, s, h, g)
           adds  == Mania!Adds(f, g)
<1>1. /\ o.acc \in Nat /\ s.total \in Nat /\ s.remaining \in Nat
      /\ h.n3x0 \in Nat /\ h.n200 \in Nat /\ h.n100 \in Nat /\ h.n50 \in Nat
  BY DEF ManiaOpts, Count, ManiaSetups, Tries
<1>2. Mania!Judged(h) \in Nat /\ Mania!Points(h) \in Nat /\ Mania!Left(s, h) \in Nat
  BY <1>1 DEF Mania!Judged, Mania!Points, Mania!Left
<1>3. /\ Mania!Value[f] \in Nat /\ Mania!Value[g] \in Nat
      /\ Mania!Value[f] - Mania!Value[g] \in Nat \ {0}
  BY ManiaValues DEF LowJudgements
<1>4. adds \in Nat \ {0}
  BY <1>3 DEF Mania!Adds
<1>5. short \in Int
  <2>1. Mania!Target(o, s) \in Int
    BY <1>1 DEF Mania!Target
  <2>2. Mania!Points(h) + Mania!Value[g] * Mania!Left(s, h) \in Nat
    BY <1>2, <1>3
  <2>3. play.den * (Mania!Points(h) + Mania!Value[g] * Mania!Left(s, h)) \in Int
    BY <2>2
  <2>4. QED
    BY <2>1, <2>3 DEF Mania!Short
<1> HIDE DEF short, adds
<1>6. Mania!Floor(short, adds) \in Nat
  BY <1>4, <1>5, QuotientType DEF Mania!Floor
<1>7. Mania!Ceil(short, adds) \in Nat
  <2>1. short >= 0 => short + adds - 1 \in Nat
    BY <1>4, <1>5
  <2>2. QED
    BY <1>4, <1>5, <2>1, QuotientType DEF Mania!Ceil
<1>8. QED
  BY <1>2, <1>6, <1>7 DEF Mania!NeededDown, Mania!NeededUp, short, adds

LowGivens(o, s) == Mania!Given(o, s, "n200") + Mania!Given(o, s, "n100") + Mania!Given(o, s, "n50")
HighGivens(o, s) == Mania!Given(o, s, "n320") + Mania!Given(o, s, "n300")

\* The 320s and 300s tried are at least those that are given, and more only as far as the
\* results that are left by the other counts allow.
Top(o, s, k) ==
  IF o.n320 # None /\ o.n300 # None
  THEN k = Mania!Least(s.remaining, HighGivens(o, s))
  ELSE /\ k >= HighGivens(o, s)
       /\ k = HighGivens(o, s) \/ k + LowGivens(o, s) <= s.remaining

\* The numbers of 320s and 300s tried are between what is given and what is left.
LEMMA ManiaTop ==
  ASSUME NEW o, ManiaOpts(o), o.acc # None, NEW s \in ManiaSetups, play.den \in Nat \ {0},
         Mania!Lows(o) # << >>, NEW h \in Tries, h.n3x0 = 0,
         h.n200 = Mania!Given(o, s, "n200"), h.n100 = Mania!Given(o, s, "n100"),
         h.n50 = Mania!Given(o, s, "n50"),
         NEW k \in Mania!CountsOf3x0(o, s, h)
  PROVE  k \in Nat /\ Top(o, s, k)
<1> DEFINE L == Mania!Lows(o)
           r == s.remaining
           given == HighGivens(o, s)
           lo == CASE L = <<"n200", "n50">> ->
                        Mania!Least(Mania!Left(s, h), Mania!Floor(o.acc * 3 * r - play.den * (2 * r - h.n100), play.den))
                   [] Len(L) = 3 -> Mania!Least(r, Mania!Floor(Mania!Target(o, s) - play.den * 4 * r, play.den * 5))
                   [] OTHER -> Mania!NeededDown(o, s, h, "n3x0", Head(L))
           most == Mania!NeededUp(o, s, h, "n3x0", Mania!Last(L))
           hi == IF Len(L) < 3 THEN most
                 ELSE Mania!Least(most, Mania!Ceil(o.acc * 3 * s.total - play.den * r, play.den))
<1>1. /\ r \in Nat /\ s.total \in Nat /\ o.acc \in Nat /\ h.n100 \in Nat /\ h.n3x0 = 0
      /\ h.n200 \in Nat /\ h.n50 \in Nat
  BY Zenon DEF ManiaOpts, Count, ManiaSetups, Tries
<1>2. Mania!Given(o, s, "n320") \in Nat /\ Mania!Given(o, s, "n300") \in Nat /\ given \in Nat
  BY <1>1, ManiaGivenType DEF HighGivens, Mania!Judgements
<1>3. Mania!Left(s, h) = Mania!SaturatingSub(r, LowGivens(o, s)) /\ LowGivens(o, s) \in Nat
      /\ Mania!Left(s, h) \in Nat
  <2>1. Mania!Judged(h) = LowGivens(o, s)
    <3>1. Mania!Judged(h) = h.n200 + h.n100 + h.n50
      BY <1>1 DEF Mania!Judged
    <3>2. LowGivens(o, s) = h.n200 + h.n100 + h.n50
      BY DEF LowGivens
    <3>3. QED
      BY <3>1, <3>2
  <2>2. LowGivens(o, s) \in Nat
    BY <1>1 DEF LowGivens
  <2>3. QED
    BY <1>1, <2>1, <2>2 DEF Mania!Left
<1>4. /\ Len(L) \in 1..3 /\ L[1] \in LowJudgements /\ L[Len(L)] \in LowJudgements
      /\ Head(L) = L[1] /\ Mania!Last(L) = L[Len(L)]
  <2>1. L \in Seq(LowJudgements) /\ Len(L) \in 0..3 /\ \A i \in 1..Len(L) : L[i] \in LowJudgements
    BY ManiaLows
  <2>2. Len(L) # 0
    BY <2>1, EmptySeq
  <2>3. QED
    BY <2>1, <2>2 DEF Mania!Last
<1> HIDE DEF L
<1>5. /\ Mania!Value["n3x0"] > Mania!Value[Head(L)]
      /\ Mania!Value["n3x0"] > Mania!Value[Mania!Last(L)]
  BY <1>4, ManiaValues DEF LowJudgements
<1>6. most \in 0..Mania!Left(s, h) /\ Mania!NeededDown(o, s, h, "n3x0", Head(L)) \in Nat
  BY <1>3, <1>4, <1>5, ManiaNeeded
<1>7. lo \in Nat
  <2>1. \A x \in Int : \A d \in Nat \ {0} : Mania!Floor(x, d) \in Nat
    BY QuotientType DEF Mania!Floor
  <2>2. o.acc * 3 * r - play.den * (2 * r - h.n100) \in Int
    <3>1. o.acc * 3 \in Int /\ 2 * r - h.n100 \in Int /\ r \in Int
      BY <1>1, ProductType
    <3>2. o.acc * 3 * r \in Int /\ play.den * (2 * r - h.n100) \in Int
      BY <3>1, ProductType, SMTT(30)
    <3>3. QED
      BY <3>2, ProductType
  <2>3. Mania!Target(o, s) - play.den * 4 * r \in Int /\ play.den * 5 \in Nat \ {0}
    <3>1. /\ o.acc \in Int /\ 6 \in Int /\ play.den \in Int /\ 4 \in Int
          /\ r \in Int /\ s.total \in Int
      BY <1>1
    <3> HIDE DEF r
    <3>4. o.acc * 6 \in Int /\ play.den * 4 \in Int
      BY <3>1, ProductType
    <3>2. o.acc * 6 * s.total \in Int /\ play.den * 4 * r \in Int
      BY <3>1, <3>4, ProductType, Zenon
    <3>3. Mania!Target(o, s) - play.den * 4 * r \in Int
      BY <3>2, ProductType DEF Mania!Target
    <3>5. play.den * 5 \in Nat \ {0}
      OBVIOUS
    <3>6. QED
      BY <3>3, <3>5
  <2>4. /\ Mania!Floor(o.acc * 3 * r - play.den * (2 * r - h.n100), play.den) \in Nat
        /\ Mania!Floor(Mania!Target(o, s) - play.den * 4 * r, play.den * 5) \in Nat
    BY <2>1, <2>2, <2>3, Zenon
  <2>5. /\ Mania!Least(Mania!Left(s, h), Mania!Floor(o.acc * 3 * r - play.den * (2 * r - h.n100), play.den)) \in Nat
        /\ Mania!Least(r, Mania!Floor(Mania!Target(o, s) - play.den * 4 * r, play.den * 5)) \in Nat
    BY <1>1, <1>3, <2>4
  <2>6. ~(L = <<"n200", "n50">> /\ Len(L) = 3)
    <3>1. L = <<"n200", "n50">> => Len(L) = 2
      BY PairLength, Zenon
    <3>2. 2 # 3
      OBVIOUS
    <3>3. QED
      BY <3>1, <3>2, Zenon
  <2>7. QED
    BY <1>6, <2>5, <2>6
<1>8. hi \in Int /\ hi <= most
  <2>1. o.acc * 3 * s.total - play.den * r \in Int
    <3>1. o.acc * 3 \in Int /\ s.total \in Int /\ r \in Int
      BY <1>1
    <3>2. o.acc * 3 * s.total \in Int /\ play.den * r \in Int
      BY <3>1, ProductType
    <3>3. QED
      BY <3>2, ProductType
  <2> DEFINE x == o.acc * 3 * s.total - play.den * r
  <2>2. Mania!Ceil(x, play.den) \in Nat
    <3> HIDE DEF x
    <3>1. x >= 0 => x + play.den - 1 \in Nat
      BY <2>1 DEF x
    <3>2. QED
      BY <2>1, <3>1, QuotientType DEF Mania!Ceil, x
  <2> HIDE DEF x, most
  <2>3. QED
    BY <1>3, <1>6, <2>2 DEF x
<1>9. Mania!CountsOf3x0(o, s, h) =
        IF o.n320 # None /\ o.n300 # None THEN {Mania!Least(r, given)}
        ELSE Mania!Max({lo, given}) .. Mania!Max({hi, given})
  BY DEF Mania!CountsOf3x0, HighGivens, L
<1> HIDE DEF lo, hi, most, r
<1>10. CASE o.n320 # None /\ o.n300 # None
  <2>1. k = Mania!Least(r, given)
    BY <1>9, <1>10
  <2>2. QED
    BY <1>1, <1>2, <1>10, <2>1 DEF Top, r
<1>11. CASE ~(o.n320 # None /\ o.n300 # None)
  <2>1. k \in Mania!Max({lo, given}) .. Mania!Max({hi, given})
    BY <1>9, <1>11
  <2>2. /\ Mania!Max({lo, given}) = IF lo < given THEN given ELSE lo
        /\ Mania!Max({hi, given}) = IF hi < given THEN given ELSE hi
    BY <1>2, <1>7, <1>8, ManiaMax
  <2> DEFINE from == Mania!Max({lo, given})
             to   == Mania!Max({hi, given})
             left == Mania!Left(s, h)
  <2> HIDE DEF given, from, to, left
  <2>3. k \in Nat /\ k >= given /\ (k = given \/ k <= Mania!Left(s, h))
    <3>1. from \in Nat /\ from >= given
      BY <1>2, <1>7, <2>2 DEF from
    <3>2. to \in Int /\ left \in Nat /\ (to = given \/ to <= left)
      <4>1. most \in 0..left /\ left \in Nat
        BY <1>3, <1>6 DEF left
      <4>2. QED
        BY <1>2, <1>8, <2>2, <4>1 DEF to
    <3>3. k \in from..to
      BY <2>1 DEF from, to
    <3>4. QED
      BY <1>2, <3>1, <3>2, <3>3 DEF left
  <2>4. k = given \/ k + LowGivens(o, s) <= r
    BY <1>1, <1>2, <1>3, <2>3
  <2>5. QED
    BY <1>11, <2>3, <2>4 DEF Top, given, r
<1>12. QED
  BY <1>10, <1>11

\* A combination of the search, before the i-th of the low judgements that are not given is
\* set: those that are given are as they were given, and as soon as more is judged than
\* there are results left, nothing is added.
Partial(o, s, i, h) ==
  /\ h \in Tries
  /\ \A f \in LowJudgements : o[f] # None => h[f] = Mania!Given(o, s, f)
  /\ \A j \in 1..Len(Mania!Lows(o)) : j >= i => h[Mania!Lows(o)[j]] = 0
  /\ Top(o, s, h.n3x0)
  /\ \/ Mania!Judged(h) <= s.remaining
     \/ \A f \in LowJudgements : o[f] = None => h[f] = 0

\* The same of a whole combination.
Whole(o, s, h) ==
  /\ h \in Tries
  /\ \A f \in LowJudgements : o[f] # None => h[f] = Mania!Given(o, s, f)
  /\ Top(o, s, h.n3x0)
  /\ \/ Mania!Judged(h) = s.remaining
     \/ /\ Mania!Judged(h) > s.remaining
        /\ \A f \in LowJudgements : o[f] = None => h[f] = 0

\* What a partial combination has judged so far.
LEMMA ManiaJudged ==
  ASSUME NEW h \in Tries, NEW f \in LowJudgements, NEW n \in Nat, h[f] = 0
  PROVE  /\ Mania!Judged(h) \in Nat /\ [h EXCEPT ![f] = n] \in Tries
         /\ Mania!Judged([h EXCEPT ![f] = n]) = Mania!Judged(h) + n
         /\ [h EXCEPT ![f] = n].n3x0 = h.n3x0
         /\ \A g \in LowJudgements : [h EXCEPT ![f] = n][g] = IF g = f THEN n ELSE h[g]
<1>1. CASE f = "n200"
  BY <1>1 DEF LowJudgements, Tries, Mania!Judged
<1>2. CASE f = "n100"
  BY <1>2 DEF LowJudgements, Tries, Mania!Judged
<1>3. CASE f = "n50"
  BY <1>3 DEF LowJudgements, Tries, Mania!Judged
<1>4. QED
  BY <1>1, <1>2, <1>3 DEF LowJudgements

\* Setting one of the low judgements, other than the last.
LEMMA ManiaExtend ==
  ASSUME NEW o, ManiaOpts(o), o.acc # None, NEW s \in ManiaSetups, play.den \in Nat \ {0},
         NEW i \in 1..3, i < Len(Mania!Lows(o)), NEW h, Partial(o, s, i, h),
         NEW k \in Mania!CountsOf(o, s, h, Mania!Lows(o)[i],
                     SubSeq(Mania!Lows(o), i + 1, Len(Mania!Lows(o))))
  PROVE  Partial(o, s, i + 1, [h EXCEPT ![Mania!Lows(o)[i]] = k])
<1> DEFINE L == Mania!Lows(o)
           later == SubSeq(L, i + 1, Len(L))
           t == [h EXCEPT ![L[i]] = k]
<1>1. /\ L \in Seq(LowJudgements) /\ Len(L) \in 0..3
      /\ \A j \in 1..Len(L) : L[j] \in LowJudgements /\ o[L[j]] = None
      /\ \A j, n \in 1..Len(L) :
           j < n => Mania!Value[L[j]] > Mania!Value[L[n]] /\ L[j] # L[n]
  BY ManiaLows
<1> HIDE DEF L
<1>2. i \in 1..Len(L) /\ i + 1 \in 1..Len(L) /\ Len(L) \in 1..Len(L)
  BY <1>1 DEF L
<1>3. Head(later) = L[i + 1] /\ Mania!Last(later) = L[Len(L)]
  <2>1. later \in Seq(LowJudgements) /\ Len(later) = Len(L) - i
        /\ \A j \in 1..(Len(L) - i) : later[j] = L[i + j]
    BY <1>1, <1>2
  <2>2. later # << >> /\ 1 \in 1..(Len(L) - i) /\ Len(L) - i \in 1..(Len(L) - i)
    BY <1>1, <1>2, <2>1
  <2> HIDE DEF later
  <2>3. Head(later) = later[1] /\ Mania!Last(later) = later[Len(later)]
    BY <2>1, <2>2 DEF Mania!Last
  <2>4. later[1] = L[i + 1] /\ later[Len(later)] = L[i + (Len(L) - i)]
    BY <2>1, <2>2
  <2>5. i + (Len(L) - i) = Len(L)
    BY <1>1
  <2>6. QED
    BY <2>3, <2>4, <2>5
<1>4. /\ h \in Tries /\ h[L[i]] = 0 /\ L[i] \in LowJudgements
      /\ \A f \in LowJudgements : o[f] # None => h[f] = Mania!Given(o, s, f)
      /\ \A j \in 1..Len(L) : j >= i => h[L[j]] = 0
      /\ Top(o, s, h.n3x0)
      /\ \/ Mania!Judged(h) <= s.remaining
         \/ \A f \in LowJudgements : o[f] = None => h[f] = 0
  <2>1. i >= i
    OBVIOUS
  <2>2. QED
    BY <1>1, <1>2, <2>1 DEF Partial, L
<1>5. k \in 0..Mania!Left(s, h)
  <2>1. /\ Mania!NeededDown(o, s, h, L[i], Head(later)) \in 0..Mania!Left(s, h)
        /\ Mania!NeededUp(o, s, h, L[i], Mania!Last(later)) \in 0..Mania!Left(s, h)
    <3>1. /\ Mania!Value[L[i]] > Mania!Value[L[i + 1]] /\ L[i + 1] \in LowJudgements
          /\ Mania!Value[L[i]] > Mania!Value[L[Len(L)]] /\ L[Len(L)] \in LowJudgements
      <4>1. i < i + 1 /\ i < Len(L)
        BY DEF L
      <4>2. QED
        BY <1>1, <1>2, <4>1
    <3>2. QED
      BY <1>3, <1>4, <3>1, ManiaNeeded, Zenon
  <2>2. k \in Mania!NeededDown(o, s, h, L[i], Head(later))
               .. Mania!NeededUp(o, s, h, L[i], Mania!Last(later))
    BY DEF Mania!CountsOf, L
  <2> DEFINE left == Mania!Left(s, h)
             down == Mania!NeededDown(o, s, h, L[i], Head(later))
             up   == Mania!NeededUp(o, s, h, L[i], Mania!Last(later))
  <2>3. left \in Nat
    BY <1>4 DEF Mania!Left, Mania!Judged, Tries, ManiaSetups
  <2>4. down \in 0..left /\ up \in 0..left /\ k \in down..up
    BY <2>1, <2>2, Zenon
  <2> HIDE DEF left, down, up
  <2>5. k \in 0..left
    BY <2>3, <2>4
  <2>6. QED
    BY <2>5 DEF left
<1>6. k \in Nat /\ s.remaining \in Nat /\ Mania!Judged(h) \in Nat
      /\ k <= Mania!SaturatingSub(s.remaining, Mania!Judged(h))
  <2>1. s.remaining \in Nat /\ Mania!Judged(h) \in Nat
    BY <1>4, ManiaJudged, Zenon DEF ManiaSetups
  <2>2. QED
    BY <1>5, <2>1 DEF Mania!Left
<1>7. /\ t \in Tries /\ Mania!Judged(t) = Mania!Judged(h) + k /\ t.n3x0 = h.n3x0
      /\ \A g \in LowJudgements : t[g] = IF g = L[i] THEN k ELSE h[g]
  BY <1>4, <1>6, ManiaJudged
<1> HIDE DEF t
<1>8. \A f \in LowJudgements : o[f] # None => t[f] = Mania!Given(o, s, f)
  BY <1>1, <1>2, <1>4, <1>7
<1>9. \A j \in 1..Len(L) : j >= i + 1 => t[L[j]] = 0
  <2> SUFFICES ASSUME NEW j \in 1..Len(L), j >= i + 1 PROVE t[L[j]] = 0
    OBVIOUS
  <2>1. i < j /\ j >= i
    BY <1>1
  <2>2. L[i] # L[j] /\ L[j] \in LowJudgements
    BY <1>1, <1>2, <2>1
  <2>3. QED
    BY <1>4, <1>7, <2>1, <2>2
<1>10. \/ Mania!Judged(t) <= s.remaining
       \/ \A f \in LowJudgements : o[f] = None => t[f] = 0
  <2>1. CASE Mania!Judged(h) <= s.remaining
    BY <1>6, <1>7, <2>1
  <2>2. CASE ~(Mania!Judged(h) <= s.remaining)
    <3>1. k = 0
      BY <1>6, <2>2
    <3>2. QED
      BY <1>4, <1>7, <2>2, <3>1
  <2>3. QED
    BY <2>1, <2>2
<1>11. Partial(o, s, i + 1, t)
  BY <1>4, <1>7, <1>8, <1>9, <1>10 DEF Partial, L
<1>12. QED
  BY <1>11 DEF t, L

\* Every combination the search tries.
LEMMA ManiaTried ==
  ASSUME NEW o, ManiaOpts(o), o.acc # None, NEW s \in ManiaSetups, play.den \in Nat \ {0},
         Mania!Lows(o) # << >>, NEW h \in Mania!Tried(o, s)
  PROVE  Whole(o, s, h)
<1> DEFINE L == Mania!Lows(o)
           none == [n3x0 |-> 0, n200 |-> Mania!Given(o, s, "n200"),
                    n100 |-> Mania!Given(o, s, "n100"), n50 |-> Mania!Given(o, s, "n50")]
           Counts(i, g) == Mania!CountsOf(o, s, g, L[i], SubSeq(L, i + 1, Len(L)))
           Extended(H, i) == IF i >= Len(L) THEN H ELSE
                             UNION {{[g EXCEPT ![L[i]] = k] : k \in Counts(i, g)} : g \in H}
           top == {[none EXCEPT !.n3x0 = k] : k \in Mania!CountsOf3x0(o, s, none)}
<1>1. /\ L \in Seq(LowJudgements) /\ Len(L) \in 1..3
      /\ \A j \in 1..Len(L) : L[j] \in LowJudgements /\ o[L[j]] = None
      /\ \A f \in LowJudgements : o[f] = None => \E j \in 1..Len(L) : L[j] = f
      /\ Mania!Last(L) = L[Len(L)]
  <2>1. /\ L \in Seq(LowJudgements) /\ Len(L) \in 0..3
        /\ \A j \in 1..Len(L) : L[j] \in LowJudgements /\ o[L[j]] = None
        /\ \A f \in LowJudgements : o[f] = None => \E j \in 1..Len(L) : L[j] = f
    BY ManiaLows
  <2>2. Len(L) # 0
    BY <2>1, EmptySeq
  <2> HIDE DEF L
  <2>3. QED
    BY <2>1, <2>2 DEF Mania!Last
<1>2. Mania!Tried(o, s) = {[g EXCEPT ![Mania!Last(L)] = Mania!Left(s, g)] :
                             g \in Extended(Extended(top, 1), 2)}
  BY DEF Mania!Tried
<1>3. /\ Mania!Given(o, s, "n200") \in Nat /\ Mania!Given(o, s, "n100") \in Nat
      /\ Mania!Given(o, s, "n50") \in Nat /\ s.remaining \in Nat
      /\ Mania!Given(o, s, "n320") \in Nat /\ Mania!Given(o, s, "n300") \in Nat
      /\ \A f \in LowJudgements : o[f] = None => Mania!Given(o, s, f) = 0
  <2>1. s.remaining \in Nat
    BY DEF ManiaSetups
  <2>2. QED
    BY <2>1, ManiaGivenType DEF Mania!Judgements, LowJudgements
<1> HIDE DEF L
<1>4. none \in Tries /\ none.n3x0 = 0 /\ \A f \in LowJudgements : none[f] = Mania!Given(o, s, f)
  BY <1>3 DEF Tries, LowJudgements
<1>5. \A g \in top : Partial(o, s, 1, g)
  <2> SUFFICES ASSUME NEW g \in top PROVE Partial(o, s, 1, g)
    OBVIOUS
  <2>1. PICK k \in Mania!CountsOf3x0(o, s, none) : g = [none EXCEPT !.n3x0 = k]
    OBVIOUS
  <2>2. k \in Nat /\ Top(o, s, k)
    <3>1. /\ none.n200 = Mania!Given(o, s, "n200") /\ none.n100 = Mania!Given(o, s, "n100")
          /\ none.n50 = Mania!Given(o, s, "n50")
      OBVIOUS
    <3> HIDE DEF none
    <3>2. QED
      BY <1>4, <2>1, <3>1, ManiaTop
  <2>3. g = [n3x0 |-> k, n200 |-> Mania!Given(o, s, "n200"),
             n100 |-> Mania!Given(o, s, "n100"), n50 |-> Mania!Given(o, s, "n50")]
    BY <2>1
  <2> HIDE DEF none, top
  <2>4. g \in Tries /\ g.n3x0 = k /\ \A f \in LowJudgements : g[f] = Mania!Given(o, s, f)
    BY <1>3, <2>2, <2>3 DEF Tries, LowJudgements
  <2>5. Mania!Judged(g) = k + LowGivens(o, s)
    BY <1>3, <2>2, <2>3 DEF Mania!Judged, LowGivens
  <2>6. \A j \in 1..Len(L) : g[L[j]] = 0
    BY <1>1, <1>3, <2>4
  <2>7. \A f \in LowJudgements : o[f] = None => g[f] = 0
    BY <1>3, <2>4
  <2>8. QED
    BY <2>2, <2>4, <2>6, <2>7 DEF Partial, L
<1> HIDE DEF none, top, Counts
<1>6. ASSUME NEW H, NEW i \in 1..2, \A g \in H : Partial(o, s, Least(i, Len(L)), g)
      PROVE  \A g \in Extended(H, i) : Partial(o, s, Least(i + 1, Len(L)), g)
  <2> SUFFICES ASSUME NEW g \in Extended(H, i) PROVE Partial(o, s, Least(i + 1, Len(L)), g)
    OBVIOUS
  <2>1. CASE i >= Len(L)
    <3>1. g \in H /\ Least(i + 1, Len(L)) = Least(i, Len(L))
      BY <1>1, <2>1 DEF Least
    <3>2. QED
      BY <1>6, <3>1
  <2>2. CASE i < Len(L)
    <3>1. ~(i >= Len(L)) /\ Least(i, Len(L)) = i /\ Least(i + 1, Len(L)) = i + 1
      BY <1>1, <2>2 DEF Least
    <3>2. PICK q \in H : g \in {[q EXCEPT ![L[i]] = k] : k \in Counts(i, q)}
      BY <3>1
    <3>3. PICK k \in Counts(i, q) : g = [q EXCEPT ![L[i]] = k]
      BY <3>2
    <3>4. Partial(o, s, i, q)
      BY <1>6, <3>1
    <3>5. Partial(o, s, i + 1, g)
      <4>1. i \in 1..3
        OBVIOUS
      <4>2. QED
        BY <2>2, <3>3, <3>4, <4>1, ManiaExtend, Zenon DEF Counts, L
    <3>6. QED
      BY <3>1, <3>5
  <2>3. QED
    BY <1>1, <2>1, <2>2
<1> HIDE DEF Extended
<1>7. \A g \in Extended(top, 1) : Partial(o, s, Least(2, Len(L)), g)
  <2>1. Least(1, Len(L)) = 1
    BY <1>1, SMTT(30) DEF Least
  <2>2. 1 + 1 = 2 /\ 1 \in 1..2
    OBVIOUS
  <2>3. \A g \in Extended(top, 1) : Partial(o, s, Least(1 + 1, Len(L)), g)
    BY <1>5, <1>6, <2>1, <2>2
  <2>4. QED
    BY <2>2, <2>3
<1>8. \A g \in Extended(Extended(top, 1), 2) : Partial(o, s, Len(L), g)
  <2>1. 2 + 1 = 3 /\ 2 \in 1..2
    OBVIOUS
  <2>2. Least(3, Len(L)) = Len(L)
    BY <1>1 DEF Least
  <2>3. \A g \in Extended(Extended(top, 1), 2) : Partial(o, s, Least(2 + 1, Len(L)), g)
    BY <1>6, <1>7, <2>1
  <2>4. QED
    BY <2>1, <2>2, <2>3
<1>9. PICK g \in Extended(Extended(top, 1), 2) : h = [g EXCEPT ![L[Len(L)]] = Mania!Left(s, g)]
  BY <1>1, <1>2
<1>10. /\ g \in Tries /\ g[L[Len(L)]] = 0 /\ L[Len(L)] \in LowJudgements
       /\ o[L[Len(L)]] = None
       /\ \A f \in LowJudgements : o[f] # None => g[f] = Mania!Given(o, s, f)
       /\ Top(o, s, g.n3x0)
       /\ \/ Mania!Judged(g) <= s.remaining
          \/ \A f \in LowJudgements : o[f] = None => g[f] = 0
  <2>1. Len(L) \in 1..Len(L) /\ Len(L) >= Len(L)
    <3>1. \A n \in 1..3 : n \in 1..n /\ n >= n
      OBVIOUS
    <3>2. QED
      BY <1>1, <3>1, Zenon
  <2>2. Partial(o, s, Len(L), g)
    BY <1>8, <1>9
  <2>3. QED
    BY <1>1, <2>1, <2>2 DEF Partial, L
<1> DEFINE left == Mania!Left(s, g)
<1>11. /\ Mania!Judged(g) \in Nat /\ left \in Nat
       /\ left = Mania!SaturatingSub(s.remaining, Mania!Judged(g))
  <2>1. Mania!Judged(g) \in Nat
    BY <1>10 DEF Mania!Judged, Tries
  <2>2. QED
    BY <1>3, <2>1 DEF Mania!Left
<1> DEFINE last == L[Len(L)]
<1>12. /\ h \in Tries /\ Mania!Judged(h) = Mania!Judged(g) + left /\ h.n3x0 = g.n3x0
       /\ \A f \in LowJudgements : h[f] = IF f = L[Len(L)] THEN left ELSE g[f]
  <2>1. g \in Tries /\ last \in LowJudgements /\ left \in Nat /\ g[last] = 0
    BY <1>10, <1>11
  <2>2. h = [g EXCEPT ![last] = left]
    BY <1>9
  <2> HIDE DEF last, left
  <2>3. /\ [g EXCEPT ![last] = left] \in Tries
        /\ Mania!Judged([g EXCEPT ![last] = left]) = Mania!Judged(g) + left
        /\ [g EXCEPT ![last] = left].n3x0 = g.n3x0
        /\ \A f \in LowJudgements :
             [g EXCEPT ![last] = left][f] = IF f = last THEN left ELSE g[f]
    BY <2>1, ManiaJudged
  <2>4. /\ h \in Tries /\ Mania!Judged(h) = Mania!Judged(g) + left /\ h.n3x0 = g.n3x0
        /\ \A f \in LowJudgements : h[f] = IF f = last THEN left ELSE g[f]
    BY <2>2, <2>3, Zenon
  <2>5. QED
    BY <2>4 DEF last
<1> HIDE DEF left
<1>13. \A f \in LowJudgements : o[f] # None => h[f] = Mania!Given(o, s, f)
  BY <1>10, <1>12
<1>14. \/ Mania!Judged(h) = s.remaining
       \/ /\ Mania!Judged(h) > s.remaining
          /\ \A f \in LowJudgements : o[f] = None => h[f] = 0
  <2>1. CASE Mania!Judged(g) <= s.remaining
    BY <1>3, <1>11, <1>12, <2>1
  <2>2. CASE ~(Mania!Judged(g) <= s.remaining)
    <3>1. left = 0
      BY <1>3, <1>11, <2>2
    <3>2. QED
      BY <1>3, <1>10, <1>11, <1>12, <2>2, <3>1
  <2>3. QED
    BY <2>1, <2>2
<1>15. QED
  BY <1>10, <1>12, <1>13, <1>14 DEF Whole

ManiaHits == [n320: Nat, n300: Nat, n200: Nat, n100: Nat, n50: Nat]

ManiaJudged5(r) == r.n320 + r.n300 + r.n200 + r.n100 + r.n50

ManiaGivens(o, s) == Mania!Given(o, s, "n320") + Mania!Given(o, s, "n300") + LowGivens(o, s)

\* Counts that judge every result that is left and keep what is given, or are just what is
\* given, if that is as much or more.
Fits(o, s, r) ==
  /\ r \in ManiaHits
  /\ \A f \in Mania!Judgements : r[f] >= Mania!Given(o, s, f)
  /\ \/ ManiaJudged5(r) = s.remaining
     \/ /\ ManiaJudged5(r) >= s.remaining
        /\ \A f \in Mania!Judgements : r[f] = Mania!Given(o, s, f)

\* Telling 320s from 300s keeps what is given of both.
LEMMA ManiaToldApart ==
  ASSUME NEW o, ManiaOpts(o), NEW s \in ManiaSetups, NEW h, Whole(o, s, h)
  PROVE  Fits(o, s, Mania!ToldApart(o, s, h))
<1> DEFINE r  == s.remaining
           G(f) == Mania!Given(o, s, f)
           k  == h.n3x0
           n320 == CASE o.n320 # None -> Mania!Given(o, s, "n320")
                     [] o.n320 = None /\ o.n300 # None -> h.n3x0 - Mania!Given(o, s, "n300")
                     [] OTHER -> IF o.priority = "BestCase" THEN h.n3x0 ELSE 0
           n300 == IF o.n300 # None THEN Mania!Given(o, s, "n300") ELSE h.n3x0 - n320
           t == Mania!ToldApart(o, s, h)
<1>1. /\ k \in Nat /\ h.n200 \in Nat /\ h.n100 \in Nat /\ h.n50 \in Nat /\ r \in Nat
      /\ Mania!Judged(h) = k + h.n200 + h.n100 + h.n50
  BY DEF Whole, Tries, ManiaSetups, Mania!Judged
<1>2. \A f \in Mania!Judgements : G(f) \in 0..r /\ (o[f] = None => G(f) = 0)
  BY ManiaGivenType
<1>3. /\ G("n320") \in 0..r /\ G("n300") \in 0..r /\ G("n200") \in 0..r /\ G("n100") \in 0..r
      /\ G("n50") \in 0..r
      /\ o.n320 = None => G("n320") = 0
      /\ o.n300 = None => G("n300") = 0
      /\ o.n200 = None => G("n200") = 0
      /\ o.n100 = None => G("n100") = 0
      /\ o.n50 = None => G("n50") = 0
  BY <1>2 DEF Mania!Judgements
<1>4. /\ o.n200 # None => h.n200 = G("n200")
      /\ o.n100 # None => h.n100 = G("n100")
      /\ o.n50 # None => h.n50 = G("n50")
  BY DEF Whole, LowJudgements
<1>5. \/ Mania!Judged(h) = r
      \/ /\ Mania!Judged(h) > r
         /\ o.n200 = None => h.n200 = 0
         /\ o.n100 = None => h.n100 = 0
         /\ o.n50 = None => h.n50 = 0
  BY DEF Whole, LowJudgements
<1>6. IF o.n320 # None /\ o.n300 # None
      THEN k = IF r < G("n320") + G("n300") THEN r ELSE G("n320") + G("n300")
      ELSE /\ k >= G("n320") + G("n300")
           /\ k = G("n320") + G("n300") \/ k + (G("n200") + G("n100") + G("n50")) <= r
  <2>1. Top(o, s, k)
    BY DEF Whole
  <2> HIDE DEF k, r
  <2>2. QED
    BY <2>1 DEF Top, HighGivens, LowGivens, r
<1>7. t = [n320 |-> n320, n300 |-> n300, n200 |-> h.n200, n100 |-> h.n100, n50 |-> h.n50]
  BY DEF Mania!ToldApart
<1>8. /\ o.n320 # None => n320 = G("n320")
      /\ o.n320 = None /\ o.n300 # None => n320 = k - G("n300")
      /\ o.n320 = None /\ o.n300 = None => n320 = k \/ n320 = 0
      /\ o.n300 # None => n300 = G("n300")
      /\ o.n300 = None => n300 = k - n320
  <2>1. CASE o.n320 # None
    BY <2>1
  <2>2. CASE o.n320 = None /\ o.n300 # None
    BY <2>2
  <2>3. CASE o.n320 = None /\ o.n300 = None
    BY <2>3
  <2>4. QED
    BY <2>1, <2>2, <2>3
<1> HIDE DEF n320, n300, t, k, r, G
<1>9. /\ n320 \in Nat /\ n300 \in Nat /\ n320 >= G("n320") /\ n300 >= G("n300")
      /\ ~(o.n320 # None /\ o.n300 # None) => n320 + n300 = k
  BY <1>1, <1>3, <1>6, <1>8
<1>10. /\ t \in ManiaHits
       /\ t.n320 = n320 /\ t.n300 = n300 /\ t.n200 = h.n200 /\ t.n100 = h.n100 /\ t.n50 = h.n50
       /\ ManiaJudged5(t) = n320 + n300 + h.n200 + h.n100 + h.n50
  BY <1>1, <1>7, <1>9 DEF ManiaHits, ManiaJudged5
<1>11. h.n200 >= G("n200") /\ h.n100 >= G("n100") /\ h.n50 >= G("n50")
  BY <1>1, <1>3, <1>4
<1>12. \/ n320 + n300 + h.n200 + h.n100 + h.n50 = r
       \/ /\ n320 + n300 + h.n200 + h.n100 + h.n50 >= r
          /\ n320 = G("n320") /\ n300 = G("n300") /\ h.n200 = G("n200") /\ h.n100 = G("n100")
          /\ h.n50 = G("n50")
  <2>1. CASE Mania!Judged(h) = r /\ ~(o.n320 # None /\ o.n300 # None)
    BY <1>1, <1>9, <2>1
  <2>2. CASE Mania!Judged(h) = r /\ o.n320 # None /\ o.n300 # None
    <3>1. n320 = G("n320") /\ n300 = G("n300")
      BY <1>8, <2>2
    <3>2. CASE r < G("n320") + G("n300")
      <4>1. h.n200 = 0 /\ h.n100 = 0 /\ h.n50 = 0
        BY <1>1, <1>6, <2>2, <3>2
      <4>2. QED
        BY <1>1, <1>3, <1>11, <3>1, <3>2, <4>1
    <3>3. CASE ~(r < G("n320") + G("n300"))
      BY <1>1, <1>6, <2>2, <3>1, <3>3
    <3>4. QED
      BY <3>2, <3>3
  <2>3. CASE Mania!Judged(h) > r
    <3>1. h.n200 = G("n200") /\ h.n100 = G("n100") /\ h.n50 = G("n50")
      BY <1>1, <1>3, <1>4, <1>5, <2>3
    <3>2. n320 = G("n320") /\ n300 = G("n300")
      <4>1. CASE o.n320 # None /\ o.n300 # None
        BY <1>8, <4>1
      <4>2. CASE ~(o.n320 # None /\ o.n300 # None)
        <5>1. k = G("n320") + G("n300")
          BY <1>1, <1>3, <1>6, <2>3, <3>1, <4>2
        <5>2. QED
          BY <1>3, <1>8, <1>9, <4>2, <5>1
      <4>3. QED
        BY <4>1, <4>2
    <3>3. QED
      BY <1>1, <1>3, <1>6, <1>8, <2>3, <3>1, <3>2
  <2>4. QED
    BY <1>1, <1>5, <2>1, <2>2, <2>3
<1>13. \A f \in Mania!Judgements : t[f] >= G(f)
  BY <1>9, <1>10, <1>11 DEF Mania!Judgements
<1>14. \/ ManiaJudged5(t) = r
       \/ ManiaJudged5(t) >= r /\ \A f \in Mania!Judgements : t[f] = G(f)
  BY <1>10, <1>12 DEF Mania!Judgements
<1>15. QED
  BY <1>10, <1>13, <1>14 DEF Fits, t, r, G

\* The shift by priority trades results that are not given.
LEMMA ManiaShift ==
  ASSUME NEW o, ManiaOpts(o), NEW s \in ManiaSetups, NEW r, Fits(o, s, r)
  PROVE  Fits(o, s, Mania!Shifted(o, r))
<1> DEFINE n == r.n200 \div 2
           t == [r EXCEPT !.n320 = @ + n, !.n200 = @ - 2 * n, !.n100 = @ + n]
<1>1. /\ r \in ManiaHits
      /\ r.n320 \in Nat /\ r.n300 \in Nat /\ r.n200 \in Nat /\ r.n100 \in Nat /\ r.n50 \in Nat
  BY DEF Fits, ManiaHits
<1>2. n \in Nat /\ 2 * n <= r.n200
  BY <1>1
<1>3. CASE ~(o.priority = "BestCase" /\ {o.n320, o.n200, o.n100} = {None})
  BY <1>3 DEF Mania!Shifted
<1>4. CASE o.priority = "BestCase" /\ {o.n320, o.n200, o.n100} = {None}
  <2>1. Mania!Shifted(o, r) = t
    BY <1>4 DEF Mania!Shifted
  <2>2. o.n320 = None /\ o.n200 = None /\ o.n100 = None
    BY <1>4
  <2>3. /\ Mania!Given(o, s, "n320") = 0 /\ Mania!Given(o, s, "n200") = 0
        /\ Mania!Given(o, s, "n100") = 0
    BY <2>2, ManiaGivenType DEF Mania!Judgements
  <2> HIDE DEF n
  <2>4. /\ t \in ManiaHits /\ t.n320 = r.n320 + n /\ t.n300 = r.n300
        /\ t.n200 = r.n200 - 2 * n /\ t.n100 = r.n100 + n /\ t.n50 = r.n50
    <3>1. /\ DOMAIN r = {"n320", "n300", "n200", "n100", "n50"}
          /\ r = [f \in DOMAIN r |-> r[f]]
      BY <1>1 DEF ManiaHits
    <3>2. t = [f \in DOMAIN r |-> CASE f = "n320" -> r.n320 + n
                                  [] f = "n200" -> r.n200 - 2 * n
                                  [] f = "n100" -> r.n100 + n
                                  [] OTHER -> r[f]]
      BY <3>1, Zenon
    <3>3. r.n320 + n \in Nat /\ r.n200 - 2 * n \in Nat /\ r.n100 + n \in Nat
      BY <1>1, <1>2
    <3> HIDE DEF t
    <3>4. QED
      BY <1>1, <3>1, <3>2, <3>3 DEF ManiaHits
  <2> HIDE DEF t
  <2>5. ManiaJudged5(t) = ManiaJudged5(r)
    BY <1>1, <1>2, <2>4 DEF ManiaJudged5
  <2>6. \A f \in Mania!Judgements : t[f] >= Mania!Given(o, s, f)
    <3>1. /\ r.n300 >= Mania!Given(o, s, "n300") /\ r.n50 >= Mania!Given(o, s, "n50")
      BY DEF Fits, Mania!Judgements
    <3>2. QED
      BY <1>1, <1>2, <2>3, <2>4, <3>1 DEF Mania!Judgements
  <2>7. ASSUME \A f \in Mania!Judgements : r[f] = Mania!Given(o, s, f)
        PROVE  \A f \in Mania!Judgements : t[f] = Mania!Given(o, s, f)
    <3>1. /\ r.n320 = Mania!Given(o, s, "n320") /\ r.n300 = Mania!Given(o, s, "n300")
          /\ r.n200 = Mania!Given(o, s, "n200") /\ r.n100 = Mania!Given(o, s, "n100")
          /\ r.n50 = Mania!Given(o, s, "n50")
      BY <2>7 DEF Mania!Judgements
    <3>2. n = 0
      BY <1>1, <1>2, <2>3, <3>1
    <3>3. QED
      BY <1>1, <2>4, <3>1, <3>2 DEF Mania!Judgements
  <2>8. QED
    BY <2>1, <2>4, <2>5, <2>6, <2>7 DEF Fits
<1>5. QED
  BY <1>3, <1>4

\* The first of five places that is open.
LEMMA FirstOfFive ==
  ASSUME NEW S \in SUBSET (1..5), S # {}
  PROVE  \E x \in S : \A y \in S : x <= y
<1>1. CASE 1 \in S
  BY <1>1
<1>2. CASE 1 \notin S /\ 2 \in S
  BY <1>2
<1>3. CASE 1 \notin S /\ 2 \notin S /\ 3 \in S
  BY <1>3
<1>4. CASE 1 \notin S /\ 2 \notin S /\ 3 \notin S /\ 4 \in S
  BY <1>4
<1>5. CASE 1 \notin S /\ 2 \notin S /\ 3 \notin S /\ 4 \notin S
  <2>1. \A y \in S : y = 5
    BY <1>5
  <2>2. PICK x \in S : TRUE
    BY Zenon
  <2>3. QED
    BY <2>1, <2>2
<1>6. QED
  BY <1>1, <1>2, <1>3, <1>4, <1>5

\* The place that takes what is left.
LEMMA ManiaRestTo == \A o : Mania!RestTo(o) \in Mania!Judgements
<1> SUFFICES ASSUME NEW o PROVE Mania!RestTo(o) \in Mania!Judgements
  OBVIOUS
<1> DEFINE best  == <<"n320", "n300", "n200", "n100", "n50">>
           worst == <<"n50", "n100", "n200", "n300", "n320">>
           order == IF o.priority = "BestCase" THEN best ELSE Mania!Reverse(best)
           open  == {i \in 1..5 : order[i] \in Mania!Open(o)}
<1>1. Mania!Reverse(best) = [i \in 1..5 |-> best[(5 - i) + 1]]
  <2>1. Len(best) = 5
    OBVIOUS
  <2> HIDE DEF best
  <2>2. QED
    BY <2>1 DEF Mania!Reverse
<1>2. \A i \in 1..5 : best[i] \in Mania!Judgements
  BY DEF Mania!Judgements
<1> HIDE DEF best
<1>3. \A i \in 1..5 : order[i] \in Mania!Judgements
  <2>1. \A i \in 1..5 : (5 - i) + 1 \in 1..5
    OBVIOUS
  <2>2. QED
    BY <1>1, <1>2, <2>1
<1>4. Mania!RestTo(o) = order[IF open = {} THEN 1 ELSE Mania!Min(open)]
  BY DEF Mania!RestTo, best
<1>5. (IF open = {} THEN 1 ELSE Mania!Min(open)) \in 1..5
  <2>1. CASE open = {}
    BY <2>1
  <2>2. CASE open # {}
    <3>1. open \in SUBSET (1..5)
      OBVIOUS
    <3> HIDE DEF open
    <3>2. \E x \in open : \A y \in open : x <= y
      BY <2>2, <3>1, FirstOfFive
    <3>3. Mania!Min(open) \in open
      BY <3>2, Zenon DEF Mania!Min
    <3>4. QED
      BY <2>2, <3>1, <3>3, Zenon
  <2>3. QED
    BY <2>1, <2>2
<1> HIDE DEF order, open
<1>6. QED
  BY <1>3, <1>4, <1>5

\* Every result of the five counts that may be generated.
LEMMA ManiaResults ==
  ASSUME NEW o, ManiaOpts(o), NEW s \in ManiaSetups, play.den \in Nat \ {0},
         NEW r \in Mania!Results(o, s)
  PROVE  Fits(o, s, r)
<1>1. CASE Mania!Searched(o)
  <2>1. o.acc # None /\ Mania!Lows(o) # << >>
    BY <1>1 DEF Mania!Searched
  <2>2. PICK h \in Mania!Closest(o, s, Mania!Tried(o, s)) :
          r = Mania!Shifted(o, Mania!ToldApart(o, s, h))
    BY <1>1 DEF Mania!Results
  <2>3. h \in Mania!Tried(o, s)
    BY <2>2 DEF Mania!Closest
  <2>4. Whole(o, s, h)
    BY <2>1, <2>3, ManiaTried
  <2>5. QED
    BY <2>2, <2>4, ManiaToldApart, ManiaShift
<1>2. CASE ~Mania!Searched(o)
  <2> DEFINE g == [f \in Mania!Judgements |-> Mania!Given(o, s, f)]
             rest == Mania!SaturatingSub(s.remaining, g.n320 + g.n300 + g.n200 + g.n100 + g.n50)
             to == Mania!RestTo(o)
  <2>1. r = [g EXCEPT ![to] = @ + rest]
    BY <1>2 DEF Mania!Results
  <2>2. s.remaining \in Nat
    BY DEF ManiaSetups
  <2>3. g \in ManiaHits /\ \A f \in Mania!Judgements : g[f] = Mania!Given(o, s, f)
    <3>1. \A f \in Mania!Judgements : Mania!Given(o, s, f) \in Nat
      BY <2>2, ManiaGivenType
    <3>2. QED
      BY <3>1 DEF ManiaHits, Mania!Judgements
  <2>4. to \in Mania!Judgements
    BY ManiaRestTo
  <2>5. rest = IF ManiaJudged5(g) > s.remaining THEN 0 ELSE s.remaining - ManiaJudged5(g)
    <3>1. ManiaJudged5(g) \in Nat /\ ManiaJudged5(g) = g.n320 + g.n300 + g.n200 + g.n100 + g.n50
      <4> HIDE DEF g
      <4>1. QED
        BY <2>3 DEF ManiaHits, ManiaJudged5
    <3> HIDE DEF g
    <3>2. QED
      BY <2>2, <3>1
  <2> HIDE DEF g, rest, to
  <2>6. /\ g.n320 \in Nat /\ g.n300 \in Nat /\ g.n200 \in Nat /\ g.n100 \in Nat /\ g.n50 \in Nat
        /\ ManiaJudged5(g) \in Nat /\ rest \in Nat
    BY <2>2, <2>3, <2>5 DEF ManiaHits, ManiaJudged5
  <2>7. /\ r \in ManiaHits /\ ManiaJudged5(r) = ManiaJudged5(g) + rest
        /\ \A f \in Mania!Judgements : r[f] = IF f = to THEN g[f] + rest ELSE g[f]
    <3>1. CASE to = "n320"
      BY <2>1, <2>3, <2>6, <3>1 DEF ManiaHits, ManiaJudged5, Mania!Judgements
    <3>2. CASE to = "n300"
      BY <2>1, <2>3, <2>6, <3>2 DEF ManiaHits, ManiaJudged5, Mania!Judgements
    <3>3. CASE to = "n200"
      BY <2>1, <2>3, <2>6, <3>3 DEF ManiaHits, ManiaJudged5, Mania!Judgements
    <3>4. CASE to = "n100"
      BY <2>1, <2>3, <2>6, <3>4 DEF ManiaHits, ManiaJudged5, Mania!Judgements
    <3>5. CASE to = "n50"
      BY <2>1, <2>3, <2>6, <3>5 DEF ManiaHits, ManiaJudged5, Mania!Judgements
    <3>6. QED
      BY <2>4, <3>1, <3>2, <3>3, <3>4, <3>5 DEF Mania!Judgements
  <2>8. \A f \in Mania!Judgements : r[f] >= Mania!Given(o, s, f) /\ Mania!Given(o, s, f) \in Nat
    BY <2>2, <2>3, <2>6, <2>7, ManiaGivenType
  <2>9. CASE ManiaJudged5(g) > s.remaining
    <3>1. rest = 0
      BY <2>5, <2>9
    <3>2. \A f \in Mania!Judgements : r[f] = Mania!Given(o, s, f)
      BY <2>3, <2>7, <2>8, <3>1
    <3>3. QED
      BY <2>2, <2>6, <2>7, <2>8, <2>9, <3>1, <3>2 DEF Fits
  <2>10. CASE ~(ManiaJudged5(g) > s.remaining)
    BY <2>2, <2>5, <2>6, <2>7, <2>8, <2>10 DEF Fits
  <2>11. QED
    BY <2>9, <2>10
<1>3. QED
  BY <1>1, <1>2

\* As many results as are left, or what is given if that is more.
LEMMA ManiaFits ==
  ASSUME NEW o, ManiaOpts(o), NEW s \in ManiaSetups, NEW r, Fits(o, s, r)
  PROVE  /\ \A f \in Mania!Judgements : r[f] \in 0..s.remaining
         /\ ManiaJudged5(r) >= s.remaining
         /\ ManiaJudged5(r) = IF ManiaGivens(o, s) > s.remaining THEN ManiaGivens(o, s)
                                                                ELSE s.remaining
<1>1. /\ s.remaining \in Nat
      /\ r.n320 \in Nat /\ r.n300 \in Nat /\ r.n200 \in Nat /\ r.n100 \in Nat /\ r.n50 \in Nat
      /\ ManiaJudged5(r) = r.n320 + r.n300 + r.n200 + r.n100 + r.n50
  BY DEF Fits, ManiaHits, ManiaSetups, ManiaJudged5
<1>2. \A f \in Mania!Judgements : Mania!Given(o, s, f) \in 0..s.remaining
  BY ManiaGivenType
<1>3. /\ Mania!Given(o, s, "n320") \in 0..s.remaining /\ r.n320 >= Mania!Given(o, s, "n320")
      /\ Mania!Given(o, s, "n300") \in 0..s.remaining /\ r.n300 >= Mania!Given(o, s, "n300")
      /\ Mania!Given(o, s, "n200") \in 0..s.remaining /\ r.n200 >= Mania!Given(o, s, "n200")
      /\ Mania!Given(o, s, "n100") \in 0..s.remaining /\ r.n100 >= Mania!Given(o, s, "n100")
      /\ Mania!Given(o, s, "n50") \in 0..s.remaining /\ r.n50 >= Mania!Given(o, s, "n50")
  BY <1>2 DEF Fits, Mania!Judgements
<1>4. CASE ManiaJudged5(r) = s.remaining
  <2>1. ManiaGivens(o, s) \in Nat /\ ManiaGivens(o, s) <= s.remaining
    BY <1>1, <1>3, <1>4 DEF ManiaGivens, LowGivens
  <2>2. /\ r.n320 \in 0..s.remaining /\ r.n300 \in 0..s.remaining /\ r.n200 \in 0..s.remaining
        /\ r.n100 \in 0..s.remaining /\ r.n50 \in 0..s.remaining
    BY <1>1, <1>4
  <2>3. QED
    BY <1>1, <1>4, <2>1, <2>2 DEF Mania!Judgements
<1>5. CASE ManiaJudged5(r) # s.remaining
  <2>1. /\ ManiaJudged5(r) >= s.remaining
        /\ \A f \in Mania!Judgements : r[f] = Mania!Given(o, s, f)
    BY <1>5 DEF Fits
  <2>2. /\ r.n320 = Mania!Given(o, s, "n320") /\ r.n300 = Mania!Given(o, s, "n300")
        /\ r.n200 = Mania!Given(o, s, "n200") /\ r.n100 = Mania!Given(o, s, "n100")
        /\ r.n50 = Mania!Given(o, s, "n50")
    BY <2>1 DEF Mania!Judgements
  <2>3. ManiaJudged5(r) = ManiaGivens(o, s) /\ ManiaGivens(o, s) > s.remaining
    BY <1>1, <1>3, <1>5, <2>1, <2>2 DEF ManiaGivens, LowGivens
  <2>4. QED
    BY <1>2, <2>1, <2>3
<1>6. QED
  BY <1>4, <1>5

ManiaState == [misses: Nat, n320: Nat, n300: Nat, n200: Nat, n100: Nat, n50: Nat]

\* A generated state counts in naturals and judges every result.
LEMMA ManiaStates ==
  ASSUME NEW o, ManiaOpts(o), NEW c \in ManiaCount, play.den \in Nat \ {0},
         NEW st \in Mania!States(o, c)
  PROVE  LET s == Mania!Setup(o, c)
         IN  /\ st \in ManiaState /\ s \in ManiaSetups /\ st.misses = s.misses
             /\ \A f \in Mania!Judgements : st[f] \in 0..s.remaining
             /\ ManiaJudged5(st) >= s.remaining
             /\ ManiaJudged5(st) = IF ManiaGivens(o, s) > s.remaining THEN ManiaGivens(o, s)
                                                                     ELSE s.remaining
<1> DEFINE s == Mania!Setup(o, c)
<1>1. s \in ManiaSetups
  BY ManiaSetupType
<1> HIDE DEF s
<1>2. PICK r \in Mania!Results(o, s) :
        st = [f \in Mania!CountFields |-> IF f = "misses" THEN s.misses ELSE r[f]]
  BY DEF Mania!States, s
<1>3. Fits(o, s, r)
  BY <1>1, ManiaResults
<1>4. /\ \A f \in Mania!Judgements : r[f] \in 0..s.remaining
      /\ ManiaJudged5(r) >= s.remaining
      /\ ManiaJudged5(r) = IF ManiaGivens(o, s) > s.remaining THEN ManiaGivens(o, s)
                                                             ELSE s.remaining
  BY <1>1, <1>3, ManiaFits
<1>5. s.misses \in Nat /\ s.remaining \in Nat
  BY <1>1 DEF ManiaSetups
<1>6. /\ DOMAIN st = {"n320", "n300", "n200", "n100", "n50", "misses"}
      /\ st = [f \in DOMAIN st |-> st[f]]
      /\ st.misses = s.misses /\ \A f \in Mania!Judgements : st[f] = r[f]
  BY <1>2 DEF Mania!CountFields, Mania!Judgements
<1>7. /\ st.n320 = r.n320 /\ st.n300 = r.n300 /\ st.n200 = r.n200 /\ st.n100 = r.n100
      /\ st.n50 = r.n50
      /\ r.n320 \in Nat /\ r.n300 \in Nat /\ r.n200 \in Nat /\ r.n100 \in Nat /\ r.n50 \in Nat
  BY <1>4, <1>5, <1>6 DEF Mania!Judgements
<1>8. st \in ManiaState /\ ManiaJudged5(st) = ManiaJudged5(r)
  BY <1>5, <1>6, <1>7 DEF ManiaState, ManiaJudged5
<1>9. QED
  BY <1>1, <1>4, <1>6, <1>8 DEF s

\* Generating from the settings with the counts of a state yields that state again.
LEMMA ManiaAgain ==
  ASSUME NEW o, ManiaOpts(o), NEW c \in ManiaCount, play.den \in Nat \ {0},
         NEW st \in Mania!States(o, c)
  PROVE  /\ ManiaOpts(Mania!Written(o, st))
         /\ \A f \in DOMAIN st : Mania!Written(o, st)[f] = st[f]
         /\ Mania!Written(o, st).passed = o.passed
         /\ Mania!States(Mania!Written(o, st), c) = {st}
<1> DEFINE s == Mania!Setup(o, c)
           w == Mania!Written(o, st)
<1>1. /\ st \in ManiaState /\ s \in ManiaSetups /\ st.misses = s.misses
      /\ \A f \in Mania!Judgements : st[f] \in 0..s.remaining
      /\ ManiaJudged5(st) >= s.remaining
  BY ManiaStates
<1>2. DOMAIN st = {"n320", "n300", "n200", "n100", "n50", "misses"}
  BY <1>1 DEF ManiaState
<1>3. /\ DOMAIN w = DOMAIN o
      /\ w.passed = o.passed /\ w.priority = o.priority /\ w.acc = o.acc /\ w.lazer = o.lazer
      /\ w.misses = st.misses /\ w.n320 = st.n320 /\ w.n300 = st.n300 /\ w.n200 = st.n200
      /\ w.n100 = st.n100 /\ w.n50 = st.n50
  <2>1. DOMAIN o = {"n320", "n300", "n200", "n100", "n50", "misses", "acc", "priority", "lazer",
                    "passed"}
    BY DEF ManiaOpts, Mania!NoOpts, Mania!NewSettings, Mania!CountFields, Mania!Judgements
  <2>2. w = [f \in DOMAIN o |-> IF f \in DOMAIN st THEN st[f] ELSE o[f]]
    BY DEF Mania!Written, Mania!Overwritten
  <2> HIDE DEF w
  <2>3. QED
    BY <1>2, <2>1, <2>2
<1> HIDE DEF w
<1>4. /\ st.misses \in Nat /\ st.n320 \in Nat /\ st.n300 \in Nat /\ st.n200 \in Nat
      /\ st.n100 \in Nat /\ st.n50 \in Nat
  BY <1>1 DEF ManiaState
<1>5. ManiaOpts(w)
  BY <1>3, <1>4 DEF ManiaOpts, Count
<1>6. Mania!Setup(w, c) = s
  <2>1. w.misses = s.misses /\ s.misses = Mania!Least(Mania!OrZero(o.misses),
                                                     Mania!Least(o.passed, c.n_objects))
    BY <1>1, <1>3 DEF Mania!Setup
  <2>2. o.passed \in Nat /\ c.n_objects \in Nat /\ o.misses \in Count
    BY DEF ManiaOpts, ManiaCount
  <2>3. Mania!Least(Mania!OrZero(w.misses), Mania!Least(o.passed, c.n_objects)) = s.misses
    BY <2>1, <2>2, NoneIsNoNumber DEF Count
  <2>4. QED
    BY <1>3, <2>1, <2>3 DEF Mania!Setup
<1> HIDE DEF s
<1>7. s.remaining \in Nat
  BY <1>1 DEF ManiaSetups
<1>8. \A f \in Mania!Judgements : w[f] = st[f] /\ w[f] # None
  BY <1>3, <1>4, NoneIsNoNumber DEF Mania!Judgements
<1>9. \A f \in Mania!Judgements : Mania!Given(w, s, f) = st[f]
  <2> SUFFICES ASSUME NEW f \in Mania!Judgements PROVE Mania!Given(w, s, f) = st[f]
    OBVIOUS
  <2>1. st[f] \in Nat /\ st[f] <= s.remaining /\ w[f] = st[f] /\ w[f] # None
    BY <1>1, <1>7, <1>8
  <2>2. QED
    BY <1>7, <2>1 DEF Mania!Given
<1>10. ~Mania!Searched(w)
  <2>1. Mania!Open(w) = {}
    BY <1>8 DEF Mania!Open
  <2>2. QED
    BY <2>1 DEF Mania!Searched
<1>11. Mania!Results(w, s) = {[f \in Mania!Judgements |-> st[f]]}
  <2> DEFINE g == [f \in Mania!Judgements |-> Mania!Given(w, s, f)]
             rest == Mania!SaturatingSub(s.remaining, g.n320 + g.n300 + g.n200 + g.n100 + g.n50)
             to == Mania!RestTo(w)
  <2>1. Mania!Results(w, s) = {[g EXCEPT ![to] = @ + rest]}
    BY <1>10 DEF Mania!Results
  <2>2. g = [f \in Mania!Judgements |-> st[f]]
    BY <1>9
  <2>3. /\ g.n320 = st.n320 /\ g.n300 = st.n300 /\ g.n200 = st.n200 /\ g.n100 = st.n100
        /\ g.n50 = st.n50
    BY <2>2 DEF Mania!Judgements
  <2>4. rest = 0
    BY <1>1, <1>4, <1>7, <2>3 DEF ManiaJudged5
  <2>5. to \in Mania!Judgements /\ st[to] \in Nat
    BY <1>1, <1>7, ManiaRestTo
  <2> HIDE DEF g, rest, to
  <2>6. [g EXCEPT ![to] = @ + rest] = g
    BY <2>2, <2>4, <2>5
  <2>7. QED
    BY <2>1, <2>2, <2>6
<1>12. Mania!States(w, c) = {st}
  <2> DEFINE r == [f \in Mania!Judgements |-> st[f]]
  <2>1. Mania!States(w, c) =
          {[f \in Mania!CountFields |-> IF f = "misses" THEN s.misses ELSE r[f]]}
    BY <1>6, <1>11 DEF Mania!States
  <2>2. st = [f \in Mania!CountFields |-> st[f]]
    <3>1. Mania!CountFields = DOMAIN st /\ st = [f \in DOMAIN st |-> st[f]]
      BY <1>1, <1>2 DEF Mania!CountFields, Mania!Judgements, ManiaState
    <3>2. QED
      BY <3>1
  <2>3. \A f \in Mania!CountFields : (IF f = "misses" THEN s.misses ELSE r[f]) = st[f]
    BY <1>1 DEF Mania!CountFields
  <2> HIDE DEF r
  <2>4. QED
    BY <2>1, <2>2, <2>3
<1>13. QED
  BY <1>2, <1>3, <1>5, <1>12 DEF w

\* What the attributes of an osu!mania map count.
LEMMA ManiaAttrs ==
  ASSUME play \in Plays, NEW p \in Nat
  PROVE  Mania!Attrs(p).count \in ManiaCount
<1> DEFINE n == Least(p, Len(play.notes))
           S == {i \in 1..n : play.notes[i]}
<1>1. n \in Nat
  BY PlaysAssumption DEF Least
<1>2. Cardinality(S) \in Nat
  <2>1. IsFiniteSet(1..n)
    <3> HIDE DEF n
    <3>1. QED
      BY <1>1, FS_Interval
  <2>2. QED
    BY <2>1, FS_Subset, FS_CardinalityType, Zenon
<1>3. Mania!Attrs(p).count = [n_objects |-> n, n_hold_notes |-> Cardinality(S)]
  <2>1. Mania!Cardinality(S) = Cardinality(S)
    BY DEF Mania!Cardinality, Cardinality
  <2>2. Mania!Least(p, Mania!Len(play.notes)) = n
    BY DEF Least
  <2>3. QED
    BY <2>1, <2>2, Zenon DEF Mania!Attrs, Mania!Attributes
<1> HIDE DEF n, S
<1>4. QED
  BY <1>1, <1>2, <1>3 DEF ManiaCount

-----------------------------------------------------------------------------
(* The builder of any mode *)

OptsOf(m, o) == /\ m = "Osu"   => OsuOpts(o)
                /\ m = "Taiko" => TaikoOpts(o)
                /\ m = "Catch" => CatchOpts(o)
                /\ m = "Mania" => ManiaOpts(o)

StatesOf(m, o, c) == CASE m = "Osu"   -> Osu!States(o, c)
                       [] m = "Taiko" -> Taiko!States(o, c)
                       [] m = "Catch" -> Catch!States(o, c)
                       [] m = "Mania" -> Mania!States(o, c)

\* The settings are those of the mode.
OptsFit == OptsOf(mode, opts) /\ opts = [f \in DOMAIN opts |-> opts[f]]

\* The attributes are those of the mode, for some number of objects.
SourceFits ==
  \/ source = Map
  \/ /\ source.kind = "attrs" /\ source.passed \in Nat
     /\ source = AttrsOf(mode, source.passed)

\* A generated state is written back, and the settings can generate no other one.
OutIsWritten ==
  out # None => /\ source # Map
                /\ StatesOf(mode, opts, source.count) = {out}
                /\ \A f \in DOMAIN out : opts[f] = out[f]

\* What an osu!standard builder ignores is not remembered.
IgnoredIsForgotten ==
  source = Map /\ mode = "Osu" => \A c \in Setters : ~Accepted(c) => asked[c] = None

IInv == /\ play \in Plays /\ mode \in GameModes
        /\ OptsFit
        /\ SourceFits
        /\ OutIsWritten
        /\ asked = [c \in Setters |-> asked[c]]
        /\ IgnoredIsForgotten
        /\ AskedIsKept

\* As long as the map stays, so do its attributes and what settings generate.
LEMMA AttrsStay ==
  ASSUME play' = play PROVE \A m, p : AttrsOf(m, p)' = AttrsOf(m, p)
<1> SUFFICES ASSUME NEW m, NEW p PROVE AttrsOf(m, p)' = AttrsOf(m, p)
  OBVIOUS
<1>1. Osu!Attrs(p)' = Osu!Attrs(p)
  BY DEF Osu!Attrs
<1>2. Taiko!Attrs(p)' = Taiko!Attrs(p)
  BY DEF Taiko!Attrs
<1>3. Catch!Attrs(p)' = Catch!Attrs(p)
  BY DEF Catch!Attrs
<1>4. Mania!Attrs(p)' = Mania!Attrs(p)
  BY DEF Mania!Attrs
<1>5. QED
  BY <1>1, <1>2, <1>3, <1>4 DEF AttrsOf

\* The same of the states that settings generate.
LEMMA StatesStay ==
  ASSUME play' = play PROVE \A m, o, c : StatesOf(m, o, c)' = StatesOf(m, o, c)
<1> SUFFICES ASSUME NEW m, NEW o, NEW c PROVE StatesOf(m, o, c)' = StatesOf(m, o, c)
  BY SMTT(30)
<1>1. Osu!States(o, c)' = Osu!States(o, c)
  BY DEF Osu!States, Osu!Results, Osu!Closest, Osu!Candidates, Osu!Around, Osu!Dist
<1>2. Taiko!States(o, c)' = Taiko!States(o, c)
  BY DEF Taiko!States, Taiko!Results, Taiko!Closest, Taiko!Candidates, Taiko!Dist
<1>3. Catch!States(o, c)' = Catch!States(o, c)
  BY SMTT(30) DEF Catch!States, Catch!TinyResults, Catch!BestTiny, Catch!Dist
<1>4. Mania!States(o, c)' = Mania!States(o, c)
  <2> HIDE DEF Mania!Least, Mania!SaturatingSub, Mania!OrZero
  <2>1. QED
    BY DEF Mania!States, Mania!Results, Mania!Closest, Mania!Dist, Mania!Tried,
           Mania!CountsOf3x0, Mania!CountsOf, Mania!NeededDown, Mania!NeededUp, Mania!Short,
           Mania!Adds
<1>5. QED
  BY <1>1, <1>2, <1>3, <1>4, ZenonT(60) DEF StatesOf

\* The fields of each builder, and what they start with.
FieldsOf(m) ==
  CASE m = "Osu"   -> {"combo", "large_tick_hits", "slider_end_hits", "n300", "n100", "n50",
                       "misses", "acc", "priority", "lazer", "classic", "passed"}
    [] m = "Taiko" -> {"combo", "n300", "n100", "misses", "acc", "priority", "passed"}
    [] m = "Catch" -> {"combo", "fruits", "droplets", "tiny_droplets", "tiny_droplet_misses",
                       "misses", "acc", "passed"}
    [] m = "Mania" -> {"n320", "n300", "n200", "n100", "n50", "misses", "acc", "priority",
                       "lazer", "passed"}

Start(f) == CASE f = "passed"   -> NoLimit
              [] f = "priority" -> "BestCase"
              [] f = "lazer"    -> TRUE
              [] f = "classic"  -> FALSE
              [] OTHER          -> None

\* A new builder has the fields of its mode, as they start.
LEMMA NewBuilder == \A m \in GameModes : NewOf(m, NoLimit) = [f \in FieldsOf(m) |-> Start(f)]
<1>1. NewOf("Osu", NoLimit) = [f \in FieldsOf("Osu") |-> Start(f)]
  BY DEF NewOf, FieldsOf, Start, Osu!NoOpts, Osu!NewSettings, Osu!CountFields
<1>2. NewOf("Taiko", NoLimit) = [f \in FieldsOf("Taiko") |-> Start(f)]
  BY DEF NewOf, FieldsOf, Start, Taiko!NoOpts, Taiko!NewSettings, Taiko!CountFields
<1>3. NewOf("Catch", NoLimit) = [f \in FieldsOf("Catch") |-> Start(f)]
  BY DEF NewOf, FieldsOf, Start, Catch!NoOpts, Catch!NewSettings, Catch!CountFields
<1>4. NewOf("Mania", NoLimit) = [f \in FieldsOf("Mania") |-> Start(f)]
  BY DEF NewOf, FieldsOf, Start, Mania!NoOpts, Mania!NewSettings, Mania!CountFields,
         Mania!Judgements
<1>5. QED
  BY <1>1, <1>2, <1>3, <1>4 DEF GameModes

\* What a field may hold.
TypeOf(f) == CASE f = "passed"               -> Nat
               [] f = "priority"             -> Priorities
               [] f \in {"lazer", "classic"} -> BOOLEAN
               [] OTHER                      -> Count

\* The settings of a mode, field by field.
LEMMA OptsByField ==
  ASSUME NEW m \in GameModes, NEW o
  PROVE  OptsOf(m, o) <=> /\ DOMAIN o = FieldsOf(m)
                          /\ \A f \in FieldsOf(m) : o[f] \in TypeOf(f)
<1>1. DOMAIN NewOf(m, NoLimit) = FieldsOf(m)
  BY NewBuilder
<1>2. CASE m = "Osu"
  <2>1. DOMAIN Osu!NoOpts(NoLimit) = FieldsOf("Osu")
    BY <1>1, <1>2 DEF NewOf
  <2>2. QED
    BY <1>2, <2>1 DEF OptsOf, OsuOpts, FieldsOf, TypeOf
<1>3. CASE m = "Taiko"
  <2>1. DOMAIN Taiko!NoOpts(NoLimit) = FieldsOf("Taiko")
    BY <1>1, <1>3 DEF NewOf
  <2>2. QED
    BY <1>3, <2>1 DEF OptsOf, TaikoOpts, FieldsOf, TypeOf
<1>4. CASE m = "Catch"
  <2>1. DOMAIN Catch!NoOpts(NoLimit) = FieldsOf("Catch")
    BY <1>1, <1>4 DEF NewOf
  <2>2. QED
    BY <1>4, <2>1 DEF OptsOf, CatchOpts, FieldsOf, TypeOf
<1>5. CASE m = "Mania"
  <2>1. DOMAIN Mania!NoOpts(NoLimit) = FieldsOf("Mania")
    BY <1>1, <1>5 DEF NewOf
  <2>2. QED
    BY <1>5, <2>1 DEF OptsOf, ManiaOpts, FieldsOf, TypeOf
<1>6. QED
  BY <1>2, <1>3, <1>4, <1>5 DEF GameModes

\* Which field each setter sets, by mode.
Table(m) ==
  CASE m = "Osu" ->
         [accuracy |-> "acc", misses |-> "misses", passed_objects |-> "passed",
          combo |-> "combo", hitresult_priority |-> "priority", lazer |-> "lazer",
          mods |-> "classic", large_tick_hits |-> "large_tick_hits",
          n_slider_ends |-> "slider_end_hits", n300 |-> "n300", n100 |-> "n100",
          n50 |-> "n50"]
    [] m = "Taiko" ->
         [accuracy |-> "acc", misses |-> "misses", passed_objects |-> "passed",
          combo |-> "combo", hitresult_priority |-> "priority", n300 |-> "n300",
          n100 |-> "n100"]
    [] m = "Catch" ->
         [accuracy |-> "acc", misses |-> "misses", passed_objects |-> "passed",
          combo |-> "combo", n300 |-> "fruits", n100 |-> "droplets",
          n50 |-> "tiny_droplets", n_katu |-> "tiny_droplet_misses"]
    [] m = "Mania" ->
         [accuracy |-> "acc", misses |-> "misses", passed_objects |-> "passed",
          hitresult_priority |-> "priority", lazer |-> "lazer", n300 |-> "n300",
          n100 |-> "n100", n50 |-> "n50", n_katu |-> "n200", n_geki |-> "n320"]

\* The table says of every mode what FieldOf says.
LEMMA TableIsFieldOf ==
  ASSUME NEW m \in GameModes, NEW c \in Setters
  PROVE  /\ m \in DOMAIN FieldOf[c] <=> c \in DOMAIN Table(m)
         /\ m \in DOMAIN FieldOf[c] => FieldOf[c][m] = Table(m)[c]
<1>1. c \in {"accuracy", "misses", "passed_objects", "combo", "hitresult_priority", "lazer",
             "mods", "large_tick_hits", "n_slider_ends", "n300", "n100", "n50", "n_katu",
             "n_geki"}
  BY DEF Setters, FieldOf
<1>2. CASE m = "Osu"
  BY <1>1, <1>2 DEF FieldOf, As, InCatch, Table, GameModes
<1>3. CASE m = "Taiko"
  BY <1>1, <1>3 DEF FieldOf, As, InCatch, Table, GameModes
<1>4. CASE m = "Catch"
  BY <1>1, <1>4 DEF FieldOf, As, InCatch, Table, GameModes
<1>5. CASE m = "Mania"
  BY <1>1, <1>5 DEF FieldOf, As, InCatch, Table, GameModes
<1>6. QED
  BY <1>2, <1>3, <1>4, <1>5 DEF GameModes

\* A setter sets a field of the builder to a value of its type, and no two setters set the
\* same field.
LEMMA SetterField ==
  ASSUME NEW m \in GameModes, NEW c \in Setters, m \in DOMAIN FieldOf[c]
  PROVE  /\ FieldOf[c][m] \in FieldsOf(m)
         /\ Argument(c) \subseteq TypeOf(FieldOf[c][m])
         /\ \A d \in Setters : m \in DOMAIN FieldOf[d] /\ FieldOf[d][m] = FieldOf[c][m] => d = c
<1>1. c \in DOMAIN Table(m) /\ FieldOf[c][m] = Table(m)[c]
  BY TableIsFieldOf
<1>2. \A d \in Setters : m \in DOMAIN FieldOf[d] =>
        d \in DOMAIN Table(m) /\ FieldOf[d][m] = Table(m)[d]
  BY TableIsFieldOf
<1>3. /\ Table(m)[c] \in FieldsOf(m)
      /\ Argument(c) \subseteq TypeOf(Table(m)[c])
      /\ \A d \in DOMAIN Table(m) : Table(m)[d] = Table(m)[c] => d = c
  <2>1. CASE m = "Osu"
    BY <1>1, <2>1 DEF Table, FieldsOf, TypeOf, Argument, Count
  <2>2. CASE m = "Taiko"
    BY <1>1, <2>2 DEF Table, FieldsOf, TypeOf, Argument, Count
  <2>3. CASE m = "Catch"
    BY <1>1, <2>3 DEF Table, FieldsOf, TypeOf, Argument, Count
  <2>4. CASE m = "Mania"
    BY <1>1, <2>4 DEF Table, FieldsOf, TypeOf, Argument, Count
  <2>5. QED
    BY <2>1, <2>2, <2>3, <2>4 DEF GameModes
<1>4. QED
  BY <1>1, <1>2, <1>3

\* No argument is None.
LEMMA ArgumentIsSome == \A c : None \notin Argument(c)
BY NoneAssumption DEF Argument

\* The counts of a score are fields of the builder, as numbers.
LEMMA ScoreFits ==
  ASSUME NEW m \in GameModes, NEW s \in [ScoreFields -> Nat]
  PROVE  LET counts == FromScore(m, s)
         IN  /\ DOMAIN counts = DOMAIN ScoreField(m) /\ DOMAIN counts \subseteq FieldsOf(m)
             /\ \A f \in DOMAIN counts : counts[f] \in Nat /\ TypeOf(f) = Count
<1> DEFINE counts == FromScore(m, s)
<1>1. DOMAIN counts = DOMAIN ScoreField(m)
      /\ \A f \in DOMAIN counts : counts[f] = s[ScoreField(m)[f]]
  BY DEF FromScore
<1> HIDE DEF counts
<1>2. /\ DOMAIN ScoreField(m) \subseteq FieldsOf(m)
      /\ \A f \in DOMAIN ScoreField(m) : ScoreField(m)[f] \in ScoreFields /\ TypeOf(f) = Count
  <2>1. CASE m = "Osu"
    BY <2>1 DEF ScoreField, FieldsOf, TypeOf, ScoreFields
  <2>2. CASE m = "Taiko"
    BY <2>2 DEF ScoreField, FieldsOf, TypeOf, ScoreFields
  <2>3. CASE m = "Catch"
    BY <2>3 DEF ScoreField, FieldsOf, TypeOf, ScoreFields
  <2>4. CASE m = "Mania"
    BY <2>4 DEF ScoreField, FieldsOf, TypeOf, ScoreFields
  <2>5. QED
    BY <2>1, <2>2, <2>3, <2>4 DEF GameModes
<1>3. \A f \in DOMAIN counts : counts[f] \in Nat
  BY <1>1, <1>2
<1>4. QED
  BY <1>1, <1>2, <1>3 DEF counts

CountOf(m) == CASE m = "Osu"   -> OsuCount
                [] m = "Taiko" -> TaikoCount
                [] m = "Catch" -> CatchCount
                [] m = "Mania" -> ManiaCount

\* Attributes know what they were calculated for.
LEMMA AttrsFit ==
  ASSUME play \in Plays, NEW m \in GameModes, NEW p \in Nat
  PROVE  LET a == AttrsOf(m, p)
         IN  a.kind = "attrs" /\ a.passed = p /\ a.count \in CountOf(m)
<1>1. \A n, c : /\ Osu!Attributes(n, c).kind = "attrs" /\ Osu!Attributes(n, c).passed = n
                /\ Taiko!Attributes(n, c).kind = "attrs" /\ Taiko!Attributes(n, c).passed = n
                /\ Catch!Attributes(n, c).kind = "attrs" /\ Catch!Attributes(n, c).passed = n
                /\ Mania!Attributes(n, c).kind = "attrs" /\ Mania!Attributes(n, c).passed = n
  BY DEF Osu!Attributes, Taiko!Attributes, Catch!Attributes, Mania!Attributes
<1>2. CASE m = "Osu"
  <2>1. AttrsOf(m, p) = Osu!Attrs(p) /\ CountOf(m) = OsuCount
    BY <1>2 DEF AttrsOf, CountOf
  <2>2. Osu!Attrs(p).kind = "attrs" /\ Osu!Attrs(p).passed = p
    BY <1>1 DEF Osu!Attrs
  <2>3. QED
    BY <2>1, <2>2, OsuAttrs
<1>3. CASE m = "Taiko"
  <2>1. AttrsOf(m, p) = Taiko!Attrs(p) /\ CountOf(m) = TaikoCount
    BY <1>3 DEF AttrsOf, CountOf
  <2>2. Taiko!Attrs(p).kind = "attrs" /\ Taiko!Attrs(p).passed = p
    BY <1>1 DEF Taiko!Attrs
  <2>3. QED
    BY <2>1, <2>2, TaikoAttrs
<1>4. CASE m = "Catch"
  <2>1. AttrsOf(m, p) = Catch!Attrs(p) /\ CountOf(m) = CatchCount
    BY <1>4 DEF AttrsOf, CountOf
  <2>2. Catch!Attrs(p).kind = "attrs" /\ Catch!Attrs(p).passed = p
    BY <1>1 DEF Catch!Attrs
  <2>3. QED
    BY <2>1, <2>2, CatchAttrs
<1>5. CASE m = "Mania"
  <2>1. AttrsOf(m, p) = Mania!Attrs(p) /\ CountOf(m) = ManiaCount
    BY <1>5 DEF AttrsOf, CountOf
  <2>2. Mania!Attrs(p).kind = "attrs" /\ Mania!Attrs(p).passed = p
    BY <1>1 DEF Mania!Attrs
  <2>3. QED
    BY <2>1, <2>2, ManiaAttrs
<1>6. QED
  BY <1>2, <1>3, <1>4, <1>5 DEF GameModes

\* In every mode, what is written back generates the same state again.
LEMMA Again ==
  ASSUME play \in Plays, NEW m \in GameModes, NEW o, OptsOf(m, o), NEW c \in CountOf(m),
         NEW st \in StatesOf(m, o, c)
  PROVE  LET w == Overwritten(o, st)
         IN  /\ OptsOf(m, w) /\ w.passed = o.passed
             /\ \A f \in DOMAIN st : w[f] = st[f]
             /\ StatesOf(m, w, c) = {st}
<1> DEFINE w == Overwritten(o, st)
<1>1. play.den \in Nat \ {0}
  BY PlaysAssumption
<1>2. /\ Osu!Written(o, st) = w /\ Taiko!Written(o, st) = w
      /\ Catch!Written(o, st) = w /\ Mania!Written(o, st) = w
  BY DEF Osu!Written, Taiko!Written, Catch!Written, Mania!Written, Osu!Overwritten,
         Taiko!Overwritten, Catch!Overwritten, Mania!Overwritten, Overwritten
<1> HIDE DEF w
<1>3. CASE m = "Osu"
  <2>1. OsuOpts(o) /\ c \in OsuCount /\ st \in Osu!States(o, c)
    BY <1>3 DEF OptsOf, CountOf, StatesOf
  <2>2. /\ OsuOpts(w) /\ w.passed = o.passed /\ \A f \in DOMAIN st : w[f] = st[f]
        /\ Osu!States(w, c) = {st}
    BY <1>1, <1>2, <2>1, OsuAgain
  <2>3. QED
    BY <1>3, <2>2 DEF OptsOf, StatesOf, w
<1>4. CASE m = "Taiko"
  <2>1. TaikoOpts(o) /\ c \in TaikoCount /\ st \in Taiko!States(o, c)
    BY <1>4 DEF OptsOf, CountOf, StatesOf
  <2>2. /\ TaikoOpts(w) /\ w.passed = o.passed /\ \A f \in DOMAIN st : w[f] = st[f]
        /\ Taiko!States(w, c) = {st}
    BY <1>1, <1>2, <2>1, TaikoAgain
  <2>3. QED
    BY <1>4, <2>2 DEF OptsOf, StatesOf, w
<1>5. CASE m = "Catch"
  <2>1. CatchOpts(o) /\ c \in CatchCount /\ st \in Catch!States(o, c)
    BY <1>5 DEF OptsOf, CountOf, StatesOf
  <2>2. /\ CatchOpts(w) /\ w.passed = o.passed /\ \A f \in DOMAIN st : w[f] = st[f]
        /\ Catch!States(w, c) = {st}
    BY <1>1, <1>2, <2>1, CatchAgain
  <2>3. QED
    BY <1>5, <2>2 DEF OptsOf, StatesOf, w
<1>6. CASE m = "Mania"
  <2>1. ManiaOpts(o) /\ c \in ManiaCount /\ st \in Mania!States(o, c)
    BY <1>6 DEF OptsOf, CountOf, StatesOf
  <2>2. /\ ManiaOpts(w) /\ w.passed = o.passed /\ \A f \in DOMAIN st : w[f] = st[f]
        /\ Mania!States(w, c) = {st}
    BY <1>1, <1>2, <2>1, ManiaAgain
  <2>3. QED
    BY <1>6, <2>2 DEF OptsOf, StatesOf, w
<1>7. QED
  BY <1>3, <1>4, <1>5, <1>6 DEF GameModes

\* A step that generates a state: the attributes take the place of the map, the counts that
\* of the settings.
LEMMA Generates ==
  ASSUME IInv, generate_state
  PROVE  /\ mode' = mode /\ play' = play /\ asked' = asked
         /\ source'.kind = "attrs" /\ source'.passed \in Nat
         /\ source' = AttrsOf(mode, source'.passed) /\ source'.count \in CountOf(mode)
         /\ source # Map => source' = source
         /\ out' \in StatesOf(mode, opts, source'.count)
         /\ opts' = Overwritten(opts, out')
<1>1. mode \in GameModes /\ play \in Plays /\ OptsOf(mode, opts)
  BY DEF IInv, OptsFit
<1>2. opts.passed \in Nat
  BY <1>1 DEF OptsOf, OsuOpts, TaikoOpts, CatchOpts, ManiaOpts, GameModes
<1>3. /\ source' = IF source.kind = "map" THEN AttrsOf(mode, opts.passed) ELSE source
      /\ out' \in StatesOf(mode, opts, source'.count)
      /\ opts' = Overwritten(opts, out')
      /\ play' = play
  <2>1. \A st : /\ Osu!Written(opts, st) = Overwritten(opts, st)
                /\ Taiko!Written(opts, st) = Overwritten(opts, st)
                /\ Catch!Written(opts, st) = Overwritten(opts, st)
                /\ Mania!Written(opts, st) = Overwritten(opts, st)
    BY DEF Osu!Written, Taiko!Written, Catch!Written, Mania!Written, Osu!Overwritten,
           Taiko!Overwritten, Catch!Overwritten, Mania!Overwritten, Overwritten
  <2>2. CASE mode = "Osu"
    <3>1. Osu!generate_state /\ (\A p : AttrsOf(mode, p) = Osu!Attrs(p))
          /\ \A c : StatesOf(mode, opts, c) = Osu!States(opts, c)
      BY <2>2 DEF generate_state, AttrsOf, StatesOf
    <3>2. QED
      BY <2>1, <3>1 DEF Osu!generate_state, Osu!InsertAttrs
  <2>3. CASE mode = "Taiko"
    <3>1. Taiko!generate_state /\ (\A p : AttrsOf(mode, p) = Taiko!Attrs(p))
          /\ \A c : StatesOf(mode, opts, c) = Taiko!States(opts, c)
      BY <2>3 DEF generate_state, AttrsOf, StatesOf
    <3>2. QED
      BY <2>1, <3>1 DEF Taiko!generate_state, Taiko!InsertAttrs
  <2>4. CASE mode = "Catch"
    <3>1. Catch!generate_state /\ (\A p : AttrsOf(mode, p) = Catch!Attrs(p))
          /\ \A c : StatesOf(mode, opts, c) = Catch!States(opts, c)
      BY <2>4 DEF generate_state, AttrsOf, StatesOf
    <3>2. QED
      BY <2>1, <3>1 DEF Catch!generate_state, Catch!InsertAttrs
  <2>5. CASE mode = "Mania"
    <3>1. Mania!generate_state /\ (\A p : AttrsOf(mode, p) = Mania!Attrs(p))
          /\ \A c : StatesOf(mode, opts, c) = Mania!States(opts, c)
      BY <2>5 DEF generate_state, AttrsOf, StatesOf
    <3>2. QED
      BY <2>1, <3>1 DEF Mania!generate_state, Mania!InsertAttrs
  <2>6. QED
    BY <1>1, <2>2, <2>3, <2>4, <2>5 DEF GameModes
<1>4. mode' = mode /\ asked' = asked
  BY DEF generate_state
<1>5. /\ source = Map => source.kind = "map"
      /\ source # Map => source.kind = "attrs" /\ source.passed \in Nat
                         /\ source = AttrsOf(mode, source.passed)
  BY DEF IInv, SourceFits, Map
<1>6. CASE source = Map
  <2>1. source' = AttrsOf(mode, opts.passed)
    BY <1>3, <1>5, <1>6
  <2>2. /\ AttrsOf(mode, opts.passed).kind = "attrs"
        /\ AttrsOf(mode, opts.passed).passed = opts.passed
        /\ AttrsOf(mode, opts.passed).count \in CountOf(mode)
    BY <1>1, <1>2, AttrsFit
  <2>3. QED
    BY <1>2, <1>3, <1>4, <1>6, <2>1, <2>2
<1>7. CASE source # Map
  <2>1. source' = source
    BY <1>3, <1>5, <1>7
  <2>2. AttrsOf(mode, source.passed).count \in CountOf(mode)
    BY <1>1, <1>5, <1>7, AttrsFit
  <2>3. source.count \in CountOf(mode)
    BY <1>5, <1>7, <2>2
  <2>4. QED
    BY <1>3, <1>4, <1>5, <1>7, <2>1, <2>3
<1>8. QED
  BY <1>6, <1>7

\* What a step that keeps the map and the attributes leaves of the invariant.
LEMMA SourceStays ==
  ASSUME IInv, mode' = mode, play' = play, source' = source
  PROVE  (play' \in Plays /\ mode' \in GameModes /\ SourceFits')
<1>1. AttrsOf(mode, source.passed)' = AttrsOf(mode, source.passed)
  <2>1. \A m, p : AttrsOf(m, p)' = AttrsOf(m, p)
    BY AttrsStay
  <2>2. QED
    BY <2>1
<1>2. QED
  BY <1>1 DEF IInv, SourceFits, Map

\* The invariant holds of a new builder.
LEMMA InitHolds == Init => IInv
<1> SUFFICES ASSUME Init PROVE IInv
  OBVIOUS
<1>1. play \in Plays /\ mode \in GameModes /\ play.passed \subseteq Nat
  BY PlaysAssumption DEF Init
<1>2. opts = [f \in FieldsOf(mode) |-> Start(f)]
  BY <1>1, NewBuilder DEF Init
<1>3. OptsFit
  <2>1. \A f : Start(f) \in TypeOf(f)
    <3> SUFFICES ASSUME NEW f PROVE Start(f) \in TypeOf(f)
      OBVIOUS
    <3>1. CASE f = "passed"
      BY <3>1 DEF Start, TypeOf, NoLimit
    <3>2. CASE f = "priority"
      BY <3>2 DEF Start, TypeOf, Priorities
    <3>3. CASE f = "lazer"
      BY <3>3 DEF Start, TypeOf
    <3>4. CASE f = "classic"
      BY <3>4 DEF Start, TypeOf
    <3>5. CASE f \notin {"passed", "priority", "lazer", "classic"}
      <4>1. Start(f) = None /\ TypeOf(f) = Count
        BY <3>5, Zenon DEF Start, TypeOf
      <4>2. QED
        BY <4>1 DEF Count
    <3>6. QED
      BY <3>1, <3>2, <3>3, <3>4, <3>5
  <2>2. DOMAIN opts = FieldsOf(mode) /\ \A f \in FieldsOf(mode) : opts[f] \in TypeOf(f)
    BY <1>2, <2>1
  <2>3. QED
    BY <1>1, <1>2, <2>2, OptsByField DEF OptsFit
<1>4. SourceFits
  <2>1. CASE source = Map
    BY <2>1 DEF SourceFits
  <2>2. CASE source # Map
    <3>1. PICK p \in play.passed : source = AttrsOf(mode, p)
      BY <2>2 DEF Init
    <3>2. source.kind = "attrs" /\ source.passed = p /\ p \in Nat
      BY <1>1, <3>1, AttrsFit
    <3>3. QED
      BY <3>1, <3>2 DEF SourceFits
  <2>3. QED
    BY <2>1, <2>2
<1>5. out = None /\ asked = [c \in Setters |-> None]
  BY DEF Init, NothingAsked
<1>6. AskedIsKept
  BY <1>1, <1>5 DEF AskedIsKept, Init
<1>7. QED
  BY <1>1, <1>3, <1>4, <1>5, <1>6 DEF IInv, OutIsWritten, IgnoredIsForgotten

\* While the builder has its map, no state has been generated, and what was asked for counts.
LEMMA MapHasNoState ==
  ASSUME IInv, source = Map
  PROVE  out = None /\ AskedBefore = asked
BY DEF IInv, OutIsWritten, AskedBefore

\* What was asked before is known for every setter.
LEMMA AskedBeforeFits ==
  ASSUME IInv PROVE AskedBefore = [c \in Setters |-> AskedBefore[c]]
BY DEF IInv, AskedBefore, NothingAsked

\* A setter changes one field and remembers it; no other setter's field changes.
LEMMA SetterKeeps ==
  ASSUME IInv, NEW c \in Setters, Setter(c)
  PROVE  IInv'
<1>1. PICK x \in play.calls[c] : /\ opts' = [opts EXCEPT ![Field(c)] = x]
                                 /\ asked' = [AskedBefore EXCEPT ![c] = x]
  BY Zenon DEF Setter
<1>2. /\ mode \in DOMAIN FieldOf[c] /\ out' = None
      /\ mode' = mode /\ play' = play /\ source' = source
  BY DEF Setter, Accepted
<1>3. play \in Plays /\ mode \in GameModes /\ OptsOf(mode, opts)
  BY DEF IInv, OptsFit
<1> DEFINE f == FieldOf[c][mode]
<1>4. /\ f \in FieldsOf(mode) /\ Argument(c) \subseteq TypeOf(f)
      /\ \A d \in Setters : mode \in DOMAIN FieldOf[d] /\ FieldOf[d][mode] = f => d = c
  BY <1>2, <1>3, SetterField
<1>5. opts' = [opts EXCEPT ![f] = x] /\ asked' = [AskedBefore EXCEPT ![c] = x]
  BY <1>1 DEF Field
<1>6. x \in TypeOf(f) /\ x # None
  <2>1. x \in Argument(c)
    BY <1>1, <1>3, PlaysAssumption
  <2>2. QED
    BY <1>4, <2>1, ArgumentIsSome
<1> HIDE DEF f
<1>7. DOMAIN opts = FieldsOf(mode) /\ \A g \in FieldsOf(mode) : opts[g] \in TypeOf(g)
  BY <1>3, OptsByField
<1>8. /\ DOMAIN opts' = FieldsOf(mode) /\ opts' = [g \in DOMAIN opts' |-> opts'[g]]
      /\ opts'[f] = x
      /\ \A g \in FieldsOf(mode) : g # f => opts'[g] = opts[g]
  BY <1>4, <1>5, <1>7, Zenon
<1>9. OptsFit'
  <2>1. \A g \in FieldsOf(mode) : opts'[g] \in TypeOf(g)
    BY <1>6, <1>7, <1>8
  <2>2. OptsOf(mode, opts')
    BY <1>3, <1>8, <2>1, OptsByField
  <2>3. QED
    BY <1>2, <1>8, <2>2 DEF OptsFit
<1>10. /\ asked' = [d \in Setters |-> asked'[d]]
       /\ \A d \in Setters : asked'[d] = IF d = c THEN x ELSE AskedBefore[d]
  BY <1>5, AskedBeforeFits, Zenon
<1>11. IgnoredIsForgotten'
  <2>1. ASSUME source = Map, mode = "Osu", NEW d \in Setters, mode \notin DOMAIN FieldOf[d]
        PROVE  asked'[d] = None
    <3>1. AskedBefore[d] = None
      BY <2>1, MapHasNoState DEF IInv, IgnoredIsForgotten, Accepted
    <3>2. d # c
      BY <1>2, <2>1
    <3>3. QED
      BY <1>10, <3>1, <3>2
  <2>2. Map' = Map
    BY DEF Map
  <2>3. QED
    BY <1>2, <2>1, <2>2 DEF IgnoredIsForgotten, Accepted
<1>12. AskedIsKept'
  <2>1. ASSUME source = Map, NEW d \in Setters, mode \in DOMAIN FieldOf[d]
        PROVE  opts'[FieldOf[d][mode]] = IF asked'[d] # None THEN asked'[d]
                                         ELSE NewOf(mode, NoLimit)[FieldOf[d][mode]]
    <3>1. CASE d = c
      BY <1>6, <1>8, <1>10, <3>1 DEF f
    <3>2. CASE d # c
      <4>1. FieldOf[d][mode] # f /\ FieldOf[d][mode] \in FieldsOf(mode)
        BY <1>3, <1>4, <2>1, <3>2, SetterField
      <4>2. asked'[d] = asked[d]
        BY <1>10, <2>1, <3>2, MapHasNoState
      <4>3. opts[FieldOf[d][mode]] = IF asked[d] # None THEN asked[d]
                                     ELSE NewOf(mode, NoLimit)[FieldOf[d][mode]]
        BY <2>1 DEF IInv, AskedIsKept, Accepted, Field
      <4>4. QED
        BY <1>8, <4>1, <4>2, <4>3
    <3>3. QED
      BY <3>1, <3>2
  <2>2. Map' = Map
    BY DEF Map
  <2>3. QED
    BY <1>2, <2>1, <2>2 DEF AskedIsKept, Accepted, Field
<1>13. QED
  BY <1>2, <1>9, <1>10, <1>11, <1>12, SourceStays DEF IInv, OutIsWritten

\* A state sets the fields of its counts, and remembers them for those fields' setters.
LEMMA StateKeeps ==
  ASSUME IInv, state
  PROVE  IInv'
<1>1. PICK s \in play.states :
        LET counts == FromScore(mode, s)
        IN  /\ opts' = Overwritten(opts, counts)
            /\ asked' = [c \in Setters |-> IF Accepted(c) /\ Field(c) \in DOMAIN counts
                                           THEN counts[Field(c)]
                                           ELSE AskedBefore[c]]
  BY DEF state
<1> DEFINE counts == FromScore(mode, s)
<1>2. /\ out' = None /\ mode' = mode /\ play' = play /\ source' = source
  BY DEF state
<1>3. play \in Plays /\ mode \in GameModes /\ OptsOf(mode, opts)
  BY DEF IInv, OptsFit
<1>4. s \in [ScoreFields -> Nat]
  BY <1>1, <1>3, PlaysAssumption
<1>5. /\ DOMAIN counts \subseteq FieldsOf(mode)
      /\ \A f \in DOMAIN counts : counts[f] \in Nat /\ TypeOf(f) = Count
  BY <1>3, <1>4, ScoreFits
<1>6. DOMAIN opts = FieldsOf(mode) /\ \A g \in FieldsOf(mode) : opts[g] \in TypeOf(g)
  BY <1>3, OptsByField
<1>7. /\ opts' = [g \in DOMAIN opts |-> IF g \in DOMAIN counts THEN counts[g] ELSE opts[g]]
      /\ asked' = [c \in Setters |->
                     IF mode \in DOMAIN FieldOf[c] /\ FieldOf[c][mode] \in DOMAIN counts
                     THEN counts[FieldOf[c][mode]] ELSE AskedBefore[c]]
  BY <1>1 DEF Overwritten, Accepted, Field
<1> HIDE DEF counts
<1>8. /\ DOMAIN opts' = FieldsOf(mode) /\ opts' = [g \in DOMAIN opts' |-> opts'[g]]
      /\ \A g \in FieldsOf(mode) : opts'[g] = IF g \in DOMAIN counts THEN counts[g] ELSE opts[g]
  BY <1>6, <1>7
<1>9. OptsFit'
  <2>1. \A g \in FieldsOf(mode) : opts'[g] \in TypeOf(g)
    BY <1>5, <1>6, <1>8 DEF Count
  <2>2. OptsOf(mode, opts')
    BY <1>3, <1>8, <2>1, OptsByField
  <2>3. QED
    BY <1>2, <1>8, <2>2 DEF OptsFit
<1>10. /\ asked' = [d \in Setters |-> asked'[d]]
       /\ \A d \in Setters :
            asked'[d] = IF mode \in DOMAIN FieldOf[d] /\ FieldOf[d][mode] \in DOMAIN counts
                        THEN counts[FieldOf[d][mode]] ELSE AskedBefore[d]
  BY <1>7
<1>11. IgnoredIsForgotten'
  <2>1. ASSUME source = Map, mode = "Osu", NEW d \in Setters, mode \notin DOMAIN FieldOf[d]
        PROVE  asked'[d] = None
    <3>1. AskedBefore[d] = None
      BY <2>1, MapHasNoState DEF IInv, IgnoredIsForgotten, Accepted
    <3>2. QED
      BY <1>10, <2>1, <3>1
  <2>2. Map' = Map
    BY DEF Map
  <2>3. QED
    BY <1>2, <2>1, <2>2 DEF IgnoredIsForgotten, Accepted
<1>12. AskedIsKept'
  <2>1. ASSUME source = Map, NEW d \in Setters, mode \in DOMAIN FieldOf[d]
        PROVE  opts'[FieldOf[d][mode]] = IF asked'[d] # None THEN asked'[d]
                                         ELSE NewOf(mode, NoLimit)[FieldOf[d][mode]]
    <3>1. FieldOf[d][mode] \in FieldsOf(mode)
      BY <1>3, <2>1, SetterField
    <3>2. CASE FieldOf[d][mode] \in DOMAIN counts
      <4>1. counts[FieldOf[d][mode]] # None
        BY <1>5, <3>2, NoneIsNoNumber
      <4>2. QED
        BY <1>8, <1>10, <2>1, <3>1, <3>2, <4>1
    <3>3. CASE FieldOf[d][mode] \notin DOMAIN counts
      <4>1. asked'[d] = asked[d]
        BY <1>10, <2>1, <3>3, MapHasNoState
      <4>2. opts[FieldOf[d][mode]] = IF asked[d] # None THEN asked[d]
                                     ELSE NewOf(mode, NoLimit)[FieldOf[d][mode]]
        BY <2>1 DEF IInv, AskedIsKept, Accepted, Field
      <4>3. QED
        BY <1>8, <3>1, <3>3, <4>1, <4>2
    <3>4. QED
      BY <3>2, <3>3
  <2>2. Map' = Map
    BY DEF Map
  <2>3. QED
    BY <1>2, <2>1, <2>2 DEF AskedIsKept, Accepted, Field
<1>13. QED
  BY <1>2, <1>9, <1>10, <1>11, <1>12, SourceStays DEF IInv, OutIsWritten

\* A generated state is written back, and generates itself again.
LEMMA GenerateKeeps ==
  ASSUME IInv, generate_state
  PROVE  IInv'
<1>1. /\ mode' = mode /\ play' = play /\ asked' = asked
      /\ source'.kind = "attrs" /\ source'.passed \in Nat
      /\ source' = AttrsOf(mode, source'.passed) /\ source'.count \in CountOf(mode)
      /\ out' \in StatesOf(mode, opts, source'.count)
      /\ opts' = Overwritten(opts, out')
  BY Generates
<1>2. play \in Plays /\ mode \in GameModes /\ OptsOf(mode, opts)
  BY DEF IInv, OptsFit
<1>3. /\ OptsOf(mode, opts')
      /\ \A f \in DOMAIN out' : opts'[f] = out'[f]
      /\ StatesOf(mode, opts', source'.count) = {out'}
  BY <1>1, <1>2, Again
<1>4. OptsFit'
  <2>1. opts' = [f \in DOMAIN opts' |-> opts'[f]]
    BY <1>1 DEF Overwritten
  <2>2. QED
    BY <1>1, <1>3, <2>1 DEF OptsFit
<1>5. Map' = Map /\ source' # Map
  BY <1>1 DEF Map
<1>6. SourceFits'
  <2>1. \A m, p : AttrsOf(m, p)' = AttrsOf(m, p)
    BY <1>1, AttrsStay
  <2>2. (AttrsOf(mode, source.passed))' = AttrsOf(mode, source'.passed)
    BY <1>1, <2>1
  <2>3. QED
    BY <1>1, <2>2 DEF SourceFits
<1>7. OutIsWritten'
  <2>1. \A m, o, c : StatesOf(m, o, c)' = StatesOf(m, o, c)
    BY <1>1, StatesStay
  <2>2. (StatesOf(mode, opts, source.count))' = StatesOf(mode, opts', source'.count)
    BY <1>1, <2>1
  <2>3. QED
    BY <1>3, <1>5, <2>2 DEF OutIsWritten
<1>8. QED
  BY <1>1, <1>2, <1>4, <1>5, <1>6, <1>7 DEF IInv, IgnoredIsForgotten, AskedIsKept

\* A converted builder has the fields of its mode, each with what the osu!standard builder had
\* for it.
LEMMA ConvertedFits ==
  ASSUME OsuOpts(opts), NEW m \in GameModes \ {"Osu"}
  PROVE  /\ OptsOf(m, Converted(m)) /\ Converted(m) = [f \in FieldsOf(m) |-> Converted(m)[f]]
         /\ \A c \in Setters : m \in DOMAIN FieldOf[c] =>
              IF "Osu" \in DOMAIN FieldOf[c]
              THEN /\ Converted(m)[FieldOf[c][m]] = opts[FieldOf[c]["Osu"]]
                   /\ Start(FieldOf[c][m]) = Start(FieldOf[c]["Osu"])
              ELSE Converted(m)[FieldOf[c][m]] = None /\ Start(FieldOf[c][m]) = None
<1>1. /\ DOMAIN opts = FieldsOf("Osu")
      /\ \A f \in FieldsOf("Osu") : opts[f] \in TypeOf(f)
  <2>1. "Osu" \in GameModes /\ OptsOf("Osu", opts)
    BY DEF OptsOf, GameModes
  <2>2. QED
    BY <2>1, OptsByField
<1>2. Converted(m) = [f \in FieldsOf(m) |-> CASE f = "fruits"        -> opts.n300
                                              [] f = "droplets"      -> opts.n100
                                              [] f = "tiny_droplets" -> opts.n50
                                              [] f \in DOMAIN opts   -> opts[f]
                                              [] OTHER               -> None]
  <2>1. DOMAIN NewOf(m, NoLimit) = FieldsOf(m)
    BY NewBuilder
  <2>2. QED
    BY <2>1 DEF Converted
<1> DEFINE t == Converted(m)
<1>3. DOMAIN t = FieldsOf(m) /\ t = [f \in FieldsOf(m) |-> t[f]]
  BY <1>2
<1>4. \A f \in FieldsOf(m) :
        /\ f = "fruits" => t[f] = opts.n300
        /\ f = "droplets" => t[f] = opts.n100
        /\ f = "tiny_droplets" => t[f] = opts.n50
        /\ f \in FieldsOf("Osu") => t[f] = opts[f]
        /\ f \notin FieldsOf("Osu") \cup {"fruits", "droplets", "tiny_droplets"} => t[f] = None
  <2> SUFFICES ASSUME NEW f \in FieldsOf(m)
               PROVE  /\ f = "fruits" => t[f] = opts.n300
                      /\ f = "droplets" => t[f] = opts.n100
                      /\ f = "tiny_droplets" => t[f] = opts.n50
                      /\ f \in FieldsOf("Osu") => t[f] = opts[f]
                      /\ f \notin FieldsOf("Osu") \cup {"fruits", "droplets", "tiny_droplets"} =>
                           t[f] = None
    OBVIOUS
  <2>1. t[f] = CASE f = "fruits"        -> opts.n300
                 [] f = "droplets"      -> opts.n100
                 [] f = "tiny_droplets" -> opts.n50
                 [] f \in DOMAIN opts   -> opts[f]
                 [] OTHER               -> None
    BY <1>2
  <2>2. FieldsOf("Osu") \cap {"fruits", "droplets", "tiny_droplets"} = {}
    BY DEF FieldsOf
  <2> HIDE DEF t
  <2>3. QED
    BY <1>1, <2>1, <2>2
<1> HIDE DEF t
<1>5. \A f \in FieldsOf(m) : t[f] \in TypeOf(f)
  <2> SUFFICES ASSUME NEW f \in FieldsOf(m) PROVE t[f] \in TypeOf(f)
    OBVIOUS
  <2>1. CASE f \in FieldsOf("Osu")
    BY <1>1, <1>4, <2>1
  <2>2. CASE f \in {"fruits", "droplets", "tiny_droplets"}
    <3>1. TypeOf(f) = Count
      BY <2>2 DEF TypeOf
    <3>2. opts.n300 \in Count /\ opts.n100 \in Count /\ opts.n50 \in Count
      BY DEF OsuOpts
    <3>3. QED
      BY <1>4, <2>2, <3>1, <3>2
  <2>3. CASE f \notin FieldsOf("Osu") \cup {"fruits", "droplets", "tiny_droplets"}
    <3>1. f \notin {"passed", "priority", "lazer", "classic"}
      BY <2>3 DEF FieldsOf
    <3>2. TypeOf(f) = Count
      BY <3>1 DEF TypeOf
    <3>3. QED
      BY <1>4, <2>3, <3>2 DEF Count
  <2>4. QED
    BY <2>1, <2>2, <2>3
<1>6. OptsOf(m, t)
  BY <1>3, <1>5, OptsByField
<1>7. ASSUME NEW c \in Setters, m \in DOMAIN FieldOf[c]
      PROVE  IF "Osu" \in DOMAIN FieldOf[c]
             THEN /\ t[FieldOf[c][m]] = opts[FieldOf[c]["Osu"]]
                  /\ Start(FieldOf[c][m]) = Start(FieldOf[c]["Osu"])
             ELSE t[FieldOf[c][m]] = None /\ Start(FieldOf[c][m]) = None
  <2>1. "Osu" \in GameModes
    BY DEF GameModes
  <2>2. /\ c \in DOMAIN Table(m) /\ FieldOf[c][m] = Table(m)[c] /\ Table(m)[c] \in FieldsOf(m)
        /\ "Osu" \in DOMAIN FieldOf[c] <=> c \in DOMAIN Table("Osu")
        /\ "Osu" \in DOMAIN FieldOf[c] => FieldOf[c]["Osu"] = Table("Osu")[c]
    BY <1>7, <2>1, TableIsFieldOf, SetterField
  <2>3. IF c \in DOMAIN Table("Osu")
        THEN /\ Start(Table(m)[c]) = Start(Table("Osu")[c])
             /\ \/ /\ Table(m)[c] = Table("Osu")[c] /\ Table(m)[c] \in FieldsOf("Osu")
                \/ /\ Table(m)[c] = "fruits" /\ Table("Osu")[c] = "n300"
                \/ /\ Table(m)[c] = "droplets" /\ Table("Osu")[c] = "n100"
                \/ /\ Table(m)[c] = "tiny_droplets" /\ Table("Osu")[c] = "n50"
        ELSE /\ Start(Table(m)[c]) = None
             /\ Table(m)[c] \notin FieldsOf("Osu") \cup {"fruits", "droplets", "tiny_droplets"}
    <3>1. CASE m = "Taiko"
      <4>1. CASE c \in DOMAIN Table("Osu")
        <5>1. \/ /\ Table(m)[c] = Table("Osu")[c] /\ Table(m)[c] \in FieldsOf("Osu")
              \/ /\ Table(m)[c] = "fruits" /\ Table("Osu")[c] = "n300"
              \/ /\ Table(m)[c] = "droplets" /\ Table("Osu")[c] = "n100"
              \/ /\ Table(m)[c] = "tiny_droplets" /\ Table("Osu")[c] = "n50"
          BY <2>2, <3>1, <4>1 DEF Table, FieldsOf
        <5>2. /\ Start("fruits") = None /\ Start("n300") = None /\ Start("droplets") = None
              /\ Start("n100") = None /\ Start("tiny_droplets") = None /\ Start("n50") = None
          BY DEF Start
        <5>3. QED
          BY <4>1, <5>1, <5>2
      <4>2. CASE c \notin DOMAIN Table("Osu")
        <5>1. /\ Table(m)[c] \in {"tiny_droplet_misses", "n200", "n320"}
          BY <2>2, <3>1, <4>2 DEF Table
        <5>2. QED
          BY <4>2, <5>1, Zenon DEF Start, FieldsOf
      <4>3. QED
        BY <4>1, <4>2
    <3>2. CASE m = "Catch"
      <4>1. CASE c \in DOMAIN Table("Osu")
        <5>1. \/ /\ Table(m)[c] = Table("Osu")[c] /\ Table(m)[c] \in FieldsOf("Osu")
              \/ /\ Table(m)[c] = "fruits" /\ Table("Osu")[c] = "n300"
              \/ /\ Table(m)[c] = "droplets" /\ Table("Osu")[c] = "n100"
              \/ /\ Table(m)[c] = "tiny_droplets" /\ Table("Osu")[c] = "n50"
          BY <2>2, <3>2, <4>1 DEF Table, FieldsOf
        <5>2. /\ Start("fruits") = None /\ Start("n300") = None /\ Start("droplets") = None
              /\ Start("n100") = None /\ Start("tiny_droplets") = None /\ Start("n50") = None
          BY DEF Start
        <5>3. QED
          BY <4>1, <5>1, <5>2
      <4>2. CASE c \notin DOMAIN Table("Osu")
        <5>1. /\ Table(m)[c] \in {"tiny_droplet_misses", "n200", "n320"}
          BY <2>2, <3>2, <4>2 DEF Table
        <5>2. QED
          BY <4>2, <5>1, Zenon DEF Start, FieldsOf
      <4>3. QED
        BY <4>1, <4>2
    <3>3. CASE m = "Mania"
      <4>1. CASE c \in DOMAIN Table("Osu")
        <5>1. \/ /\ Table(m)[c] = Table("Osu")[c] /\ Table(m)[c] \in FieldsOf("Osu")
              \/ /\ Table(m)[c] = "fruits" /\ Table("Osu")[c] = "n300"
              \/ /\ Table(m)[c] = "droplets" /\ Table("Osu")[c] = "n100"
              \/ /\ Table(m)[c] = "tiny_droplets" /\ Table("Osu")[c] = "n50"
          BY <2>2, <3>3, <4>1 DEF Table, FieldsOf
        <5>2. /\ Start("fruits") = None /\ Start("n300") = None /\ Start("droplets") = None
              /\ Start("n100") = None /\ Start("tiny_droplets") = None /\ Start("n50") = None
          BY DEF Start
        <5>3. QED
          BY <4>1, <5>1, <5>2
      <4>2. CASE c \notin DOMAIN Table("Osu")
        <5>1. /\ Table(m)[c] \in {"tiny_droplet_misses", "n200", "n320"}
          BY <2>2, <3>3, <4>2 DEF Table
        <5>2. QED
          BY <4>2, <5>1, Zenon DEF Start, FieldsOf
      <4>3. QED
        BY <4>1, <4>2
    <3>4. QED
      BY <3>1, <3>2, <3>3 DEF GameModes
  <2>4. QED
    BY <1>4, <2>2, <2>3
<1>8. QED
  BY <1>3, <1>6, <1>7 DEF t

\* Turned into another mode's, a builder keeps what still means something there.
LEMMA TryModeKeeps ==
  ASSUME IInv, try_mode
  PROVE  IInv'
<1>1. PICK m \in GameModes \ {"Osu"} : mode' = m /\ opts' = Converted(m)
  BY DEF try_mode
<1>2. /\ mode = "Osu" /\ source = Map /\ out = None
      /\ play' = play /\ source' = source /\ out' = out /\ asked' = asked
  BY MapHasNoState DEF try_mode
<1>3. /\ play \in Plays /\ OsuOpts(opts) /\ asked = [c \in Setters |-> asked[c]]
      /\ \A c \in Setters : "Osu" \in DOMAIN FieldOf[c] =>
           opts[FieldOf[c]["Osu"]] = IF asked[c] # None THEN asked[c]
                                     ELSE NewOf("Osu", NoLimit)[FieldOf[c]["Osu"]]
      /\ \A c \in Setters : "Osu" \notin DOMAIN FieldOf[c] => asked[c] = None
  BY <1>2 DEF IInv, OptsFit, OptsOf, AskedIsKept, IgnoredIsForgotten, Accepted, Field
<1>4. OptsFit'
  <2>1. OptsOf(m, Converted(m)) /\ Converted(m) = [f \in FieldsOf(m) |-> Converted(m)[f]]
    BY <1>3, ConvertedFits
  <2>2. opts' = [f \in DOMAIN opts' |-> opts'[f]]
    BY <1>1, <2>1
  <2>3. QED
    BY <1>1, <2>1, <2>2 DEF OptsFit
<1>5. ASSUME NEW c \in Setters, m \in DOMAIN FieldOf[c]
      PROVE  opts'[FieldOf[c][m]] = IF asked[c] # None THEN asked[c]
                                    ELSE NewOf(m, NoLimit)[FieldOf[c][m]]
  <2>1. /\ NewOf(m, NoLimit)[FieldOf[c][m]] = Start(FieldOf[c][m])
        /\ "Osu" \in DOMAIN FieldOf[c] =>
             NewOf("Osu", NoLimit)[FieldOf[c]["Osu"]] = Start(FieldOf[c]["Osu"])
    <3>1. "Osu" \in GameModes /\ m \in GameModes
      BY DEF GameModes
    <3>2. /\ FieldOf[c][m] \in FieldsOf(m)
          /\ "Osu" \in DOMAIN FieldOf[c] => FieldOf[c]["Osu"] \in FieldsOf("Osu")
      BY <1>5, <3>1, SetterField
    <3>3. QED
      BY <3>1, <3>2, NewBuilder
  <2>2. IF "Osu" \in DOMAIN FieldOf[c]
        THEN /\ opts'[FieldOf[c][m]] = opts[FieldOf[c]["Osu"]]
             /\ Start(FieldOf[c][m]) = Start(FieldOf[c]["Osu"])
        ELSE opts'[FieldOf[c][m]] = None /\ Start(FieldOf[c][m]) = None
    BY <1>1, <1>3, <1>5, ConvertedFits
  <2>3. QED
    BY <1>3, <2>1, <2>2
<1>6. AskedIsKept'
  BY <1>1, <1>2, <1>5 DEF AskedIsKept, Accepted, Field
<1>7. QED
  BY <1>1, <1>2, <1>3, <1>4, <1>6 DEF IInv, SourceFits, OutIsWritten, IgnoredIsForgotten, Map

\* A step that changes nothing keeps it.
LEMMA StutterKeeps ==
  ASSUME IInv, UNCHANGED vars
  PROVE  IInv'
<1>1. /\ mode' = mode /\ play' = play /\ source' = source /\ opts' = opts /\ out' = out
      /\ asked' = asked
  BY DEF vars
<1>2. OutIsWritten'
  <2>1. \A m, o, c : StatesOf(m, o, c)' = StatesOf(m, o, c)
    BY <1>1, StatesStay
  <2>2. (StatesOf(mode, opts, source.count))' = StatesOf(mode, opts, source.count)
    BY <1>1, <2>1
  <2>3. QED
    BY <1>1, <2>2 DEF IInv, OutIsWritten, Map
<1>3. QED
  BY <1>1, <1>2, SourceStays DEF IInv, OptsFit, IgnoredIsForgotten, AskedIsKept, Accepted, Field,
     Map

\* The invariant holds of every behaviour.
LEMMA InvariantHolds == Spec => []IInv
<1>1. IInv /\ [Next]_vars => IInv'
  BY SetterKeeps, StateKeeps, GenerateKeeps, TryModeKeeps, StutterKeeps DEF Next
<1>2. QED
  BY <1>1, InitHolds, PTL DEF Spec

\* Whatever is asked for, in any order, is what the builder knows until it generates a state
\* for the first time, also after it was turned into another mode's.
THEOREM AskedAlwaysKept == Spec => []AskedIsKept
<1>1. IInv => AskedIsKept
  BY DEF IInv
<1>2. QED
  BY <1>1, InvariantHolds, PTL

\* A generated state counts in naturals.
LEMMA CountsAreNumbers ==
  ASSUME play \in Plays, NEW m \in GameModes, NEW o, OptsOf(m, o), NEW c \in CountOf(m),
         NEW st \in StatesOf(m, o, c)
  PROVE  \A f \in DOMAIN st : st[f] \in Nat
<1>1. play.den \in Nat \ {0}
  BY PlaysAssumption
<1>2. CASE m = "Osu"
  <2>1. st \in OsuState
    BY <1>1, <1>2, OsuStates DEF OptsOf, CountOf, StatesOf
  <2>2. QED
    BY <2>1 DEF OsuState
<1>3. CASE m = "Taiko"
  <2>1. st \in TaikoState
    BY <1>1, <1>3, TaikoStates DEF OptsOf, CountOf, StatesOf
  <2>2. QED
    BY <2>1 DEF TaikoState
<1>4. CASE m = "Catch"
  <2>1. st \in CatchState
    BY <1>1, <1>4, CatchStates DEF OptsOf, CountOf, StatesOf
  <2>2. QED
    BY <2>1 DEF CatchState
<1>5. CASE m = "Mania"
  <2>1. st \in ManiaState
    BY <1>1, <1>5, ManiaStates DEF OptsOf, CountOf, StatesOf
  <2>2. QED
    BY <2>1 DEF ManiaState
<1>6. QED
  BY <1>2, <1>3, <1>4, <1>5 DEF GameModes

\* No count ever wraps below zero, in any mode, and the builder has its mode's fields.
THEOREM CountsAlwaysFit == Spec => []TypeOK
<1>1. IInv => TypeOK
  <2> SUFFICES ASSUME IInv PROVE TypeOK
    OBVIOUS
  <2>1. play \in Plays /\ mode \in GameModes /\ OptsOf(mode, opts)
    BY DEF IInv, OptsFit
  <2>2. DOMAIN opts = FieldsOf(mode) /\ \A f \in FieldsOf(mode) : opts[f] \in TypeOf(f)
    BY <2>1, OptsByField
  <2>3. DOMAIN opts = DOMAIN NewOf(mode, NoLimit)
    BY <2>1, <2>2, NewBuilder
  <2>4. \A f \in DOMAIN ScoreField(mode) : opts[f] \in Nat \union {None}
    <3>1. \A f \in DOMAIN ScoreField(mode) : f \in FieldsOf(mode) /\ TypeOf(f) = Count
      <4>1. [g \in ScoreFields |-> 0] \in [ScoreFields -> Nat]
        OBVIOUS
      <4>2. QED
        BY <2>1, <4>1, ScoreFits, Zenon
    <3>2. QED
      BY <2>2, <3>1 DEF Count
  <2>5. ASSUME out # None PROVE \A f \in DOMAIN out : out[f] \in Nat /\ opts[f] = out[f]
    <3>1. /\ source # Map /\ StatesOf(mode, opts, source.count) = {out}
          /\ \A f \in DOMAIN out : opts[f] = out[f]
      BY <2>5 DEF IInv, OutIsWritten
    <3>2. source.count \in CountOf(mode)
      <4>1. source.passed \in Nat /\ source = AttrsOf(mode, source.passed)
        BY <3>1 DEF IInv, SourceFits
      <4>2. AttrsOf(mode, source.passed).count \in CountOf(mode)
        BY <2>1, <4>1, AttrsFit
      <4>3. QED
        BY <4>1, <4>2
    <3>3. out \in StatesOf(mode, opts, source.count)
      BY <3>1
    <3>4. QED
      BY <2>1, <3>1, <3>2, <3>3, CountsAreNumbers
  <2>6. QED
    BY <2>1, <2>3, <2>4, <2>5 DEF TypeOK
<1>2. QED
  BY <1>1, InvariantHolds, PTL

\* With attributes for the objects that were passed, a generated combo is never longer than the
\* hits of the state, and in osu!standard its slider parts, can have made it.
THEOREM ComboAlwaysFits == Spec => []ComboFits
<1>1. IInv => ComboFits
  <2> SUFFICES ASSUME IInv, out # None
               PROVE  /\ mode = "Osu" => Osu!ComboFits
                      /\ mode = "Taiko" => Taiko!ComboFits
    BY DEF ComboFits
  <2>1. play \in Plays /\ OptsOf(mode, opts)
    BY DEF IInv, OptsFit
  <2>2. source # Map /\ out \in StatesOf(mode, opts, source.count)
    BY DEF IInv, OutIsWritten
  <2>3. source = AttrsOf(mode, source.passed)
    BY <2>2 DEF IInv, SourceFits
  <2>4. ASSUME mode = "Osu", source.passed = opts.passed
        PROVE  out.combo <= out.n300 + out.n100 + out.n50
                              + source.count.n_large_ticks + source.count.n_sliders
    <3>1. OsuOpts(opts) /\ out \in Osu!States(opts, source.count)
      BY <2>1, <2>2, <2>4 DEF OptsOf, StatesOf
    <3>2. source.count = Osu!Attrs(opts.passed).count
      BY <2>3, <2>4 DEF AttrsOf
    <3>3. QED
      BY <2>1, <3>1, <3>2, OsuComboFits
  <2>5. ASSUME mode = "Taiko", source.passed = opts.passed
        PROVE  out.combo <= out.n300 + out.n100
    <3>1. TaikoOpts(opts) /\ out \in Taiko!States(opts, source.count)
      BY <2>1, <2>2, <2>5 DEF OptsOf, StatesOf
    <3>2. source.count = Taiko!Attrs(opts.passed).count
      BY <2>3, <2>5 DEF AttrsOf
    <3>3. QED
      BY <2>1, <3>1, <3>2, TaikoComboFits
  <2>6. QED
    BY <2>4, <2>5 DEF Osu!ComboFits, Taiko!ComboFits
<1>2. QED
  BY <1>1, InvariantHolds, PTL

\* Once a state is generated, generating again changes nothing, until something is set.
THEOREM AlwaysSettled == Spec => Settled
<1>1. ASSUME IInv, generate_state, out # None
      PROVE  UNCHANGED vars
  <2>1. /\ mode' = mode /\ play' = play /\ asked' = asked
        /\ source # Map => source' = source
        /\ out' \in StatesOf(mode, opts, source'.count)
        /\ opts' = Overwritten(opts, out')
    BY <1>1, Generates
  <2>2. /\ source # Map /\ StatesOf(mode, opts, source.count) = {out}
        /\ \A f \in DOMAIN out : opts[f] = out[f]
        /\ opts = [f \in DOMAIN opts |-> opts[f]]
    BY <1>1 DEF IInv, OutIsWritten, OptsFit
  <2>3. source' = source /\ out' = out
    BY <2>1, <2>2
  <2>4. opts' = opts
    <3>1. opts' = [f \in DOMAIN opts |-> IF f \in DOMAIN out THEN out[f] ELSE opts[f]]
      BY <2>1, <2>3 DEF Overwritten
    <3>2. \A f \in DOMAIN opts : opts[f] = IF f \in DOMAIN out THEN out[f] ELSE opts[f]
      BY <2>2
    <3>3. QED
      BY <2>2, <3>1, <3>2
  <2>5. QED
    BY <2>1, <2>3, <2>4 DEF vars
<1>2. IInv /\ [Next]_vars => (out # None /\ out' # None => UNCHANGED vars)
  <2> SUFFICES ASSUME IInv, Next, out # None, out' # None PROVE UNCHANGED vars
    BY DEF vars
  <2>1. \A c \in Setters : ~Setter(c)
    BY DEF Setter
  <2>2. ~state
    BY DEF state
  <2>3. ~try_mode
    BY MapHasNoState DEF try_mode
  <2>4. QED
    BY <1>1, <2>1, <2>2, <2>3 DEF Next
<1>3. QED
  BY <1>2, InvariantHolds, PTL DEF Spec, Settled

\* A ScoreState has what the one count that its field stands for has.
LEMMA FieldOfScore ==
  ASSUME NEW m, NEW counts, NEW g \in ScoreFields, NEW x \in DOMAIN counts,
         \A y \in DOMAIN counts : ScoreField(m)[y] = g <=> y = x
  PROVE  ToScore(m, counts)[g] = counts[x]
<1>1. {y \in DOMAIN counts : ScoreField(m)[y] = g} = {x}
  OBVIOUS
<1>2. (CHOOSE y \in {x} : TRUE) = x
  OBVIOUS
<1>3. ToScore(m, counts)[g] = IF {x} = {} THEN 0 ELSE counts[CHOOSE y \in {x} : TRUE]
  BY <1>1 DEF ToScore
<1>4. QED
  BY <1>2, <1>3

\* The total hits of a state are its hit results and misses.
LEMMA OsuTotal ==
  ASSUME NEW st \in OsuState
  PROVE  total_hits("Osu", ToScore("Osu", st)) = Judged(st) + st.misses
<1> DEFINE sc == ToScore("Osu", st)
<1>1. DOMAIN st = {"combo", "large_tick_hits", "slider_end_hits", "n300", "n100", "n50", "misses"}
  BY DEF OsuState
<1>2. \A y \in DOMAIN st : /\ ScoreField("Osu")[y] = "n300" <=> y = "n300"
                           /\ ScoreField("Osu")[y] = "n100" <=> y = "n100"
                           /\ ScoreField("Osu")[y] = "n50" <=> y = "n50"
                           /\ ScoreField("Osu")[y] = "misses" <=> y = "misses"
  BY <1>1 DEF ScoreField
<1>3. /\ "n300" \in ScoreFields /\ "n100" \in ScoreFields /\ "n50" \in ScoreFields
      /\ "misses" \in ScoreFields
  BY DEF ScoreFields
<1>4. sc.n300 = st.n300 /\ sc.n100 = st.n100 /\ sc.n50 = st.n50 /\ sc.misses = st.misses
  BY <1>1, <1>2, <1>3, FieldOfScore
<1> HIDE DEF sc
<1>5. total_hits("Osu", sc) = sc.n300 + sc.n100 + sc.misses + sc.n50 + 0 + 0
  BY DEF total_hits
<1>6. QED
  BY <1>4, <1>5 DEF sc, Judged, OsuState

\* The total hits of an osu!taiko state.
LEMMA TaikoTotal ==
  ASSUME NEW st \in TaikoState
  PROVE  total_hits("Taiko", ToScore("Taiko", st)) = st.n300 + st.n100 + st.misses
<1> DEFINE sc == ToScore("Taiko", st)
<1>1. DOMAIN st = {"combo", "n300", "n100", "misses"}
  BY DEF TaikoState
<1>2. \A y \in DOMAIN st : /\ ScoreField("Taiko")[y] = "n300" <=> y = "n300"
                           /\ ScoreField("Taiko")[y] = "n100" <=> y = "n100"
                           /\ ScoreField("Taiko")[y] = "misses" <=> y = "misses"
  BY <1>1 DEF ScoreField
<1>3. "n300" \in ScoreFields /\ "n100" \in ScoreFields /\ "misses" \in ScoreFields
  BY DEF ScoreFields
<1>4. sc.n300 = st.n300 /\ sc.n100 = st.n100 /\ sc.misses = st.misses
  BY <1>1, <1>2, <1>3, FieldOfScore
<1> HIDE DEF sc
<1>5. total_hits("Taiko", sc) = sc.n300 + sc.n100 + sc.misses + 0 + 0 + 0
  BY DEF total_hits
<1>6. QED
  BY <1>4, <1>5 DEF sc, TaikoState

\* The total hits of an osu!catch state, the tiny droplets among them.
LEMMA CatchTotal ==
  ASSUME NEW st \in CatchState
  PROVE  total_hits("Catch", ToScore("Catch", st)) =
           st.fruits + st.droplets + st.misses + st.tiny_droplets + st.tiny_droplet_misses
<1> DEFINE sc == ToScore("Catch", st)
<1>1. DOMAIN st = {"combo", "fruits", "droplets", "tiny_droplets", "tiny_droplet_misses",
                   "misses"}
  BY DEF CatchState
<1>2. \A y \in DOMAIN st : /\ ScoreField("Catch")[y] = "n300" <=> y = "fruits"
                           /\ ScoreField("Catch")[y] = "n100" <=> y = "droplets"
                           /\ ScoreField("Catch")[y] = "n50" <=> y = "tiny_droplets"
                           /\ ScoreField("Catch")[y] = "n_katu" <=> y = "tiny_droplet_misses"
                           /\ ScoreField("Catch")[y] = "misses" <=> y = "misses"
  BY <1>1 DEF ScoreField
<1>3. /\ "n300" \in ScoreFields /\ "n100" \in ScoreFields /\ "n50" \in ScoreFields
      /\ "n_katu" \in ScoreFields /\ "misses" \in ScoreFields
  BY DEF ScoreFields
<1>4. /\ sc.n300 = st.fruits /\ sc.n100 = st.droplets /\ sc.n50 = st.tiny_droplets
      /\ sc.n_katu = st.tiny_droplet_misses /\ sc.misses = st.misses
  BY <1>1, <1>2, <1>3, FieldOfScore
<1> HIDE DEF sc
<1>5. total_hits("Catch", sc) = sc.n300 + sc.n100 + sc.misses + sc.n50 + sc.n_katu + 0
  BY DEF total_hits
<1>6. QED
  BY <1>4, <1>5 DEF sc, CatchState

\* The total hits of an osu!mania state.
LEMMA ManiaTotal ==
  ASSUME NEW st \in ManiaState
  PROVE  total_hits("Mania", ToScore("Mania", st)) = ManiaJudged5(st) + st.misses
<1> DEFINE sc == ToScore("Mania", st)
<1>1. DOMAIN st = {"misses", "n320", "n300", "n200", "n100", "n50"}
  BY DEF ManiaState
<1>2. \A y \in DOMAIN st : /\ ScoreField("Mania")[y] = "n300" <=> y = "n300"
                           /\ ScoreField("Mania")[y] = "n100" <=> y = "n100"
                           /\ ScoreField("Mania")[y] = "n50" <=> y = "n50"
                           /\ ScoreField("Mania")[y] = "n_katu" <=> y = "n200"
                           /\ ScoreField("Mania")[y] = "n_geki" <=> y = "n320"
                           /\ ScoreField("Mania")[y] = "misses" <=> y = "misses"
  BY <1>1 DEF ScoreField
<1>3. /\ "n300" \in ScoreFields /\ "n100" \in ScoreFields /\ "n50" \in ScoreFields
      /\ "n_katu" \in ScoreFields /\ "n_geki" \in ScoreFields /\ "misses" \in ScoreFields
  BY DEF ScoreFields
<1>4. /\ sc.n300 = st.n300 /\ sc.n100 = st.n100 /\ sc.n50 = st.n50
      /\ sc.n_katu = st.n200 /\ sc.n_geki = st.n320 /\ sc.misses = st.misses
  BY <1>1, <1>2, <1>3, FieldOfScore
<1> HIDE DEF sc
<1>5. total_hits("Mania", sc) = sc.n300 + sc.n100 + sc.misses + sc.n50 + sc.n_katu + sc.n_geki
  BY DEF total_hits
<1>6. QED
  BY <1>4, <1>5 DEF sc, ManiaJudged5, ManiaState

\* However the counts were set or generated before, a generated state judges every object of
\* the play, and none twice unless more was given.
THEOREM HitsAlwaysAddUp == Spec => HitsAddUp
<1> DEFINE judged == total_hits(mode, ToScore(mode, out'))
           Adds == CASE mode = "Osu"   -> Osu!AddsUp(judged)
                     [] mode = "Taiko" -> Taiko!AddsUp(judged)
                     [] mode = "Catch" -> Catch!AddsUp(judged)
                     [] mode = "Mania" -> Mania!AddsUp(judged)
           c == source'.count
<1>1. ASSUME IInv, generate_state
      PROVE  Adds
  <2>1. /\ mode \in GameModes /\ OptsOf(mode, opts) /\ play.den \in Nat \ {0}
        /\ c \in CountOf(mode) /\ out' \in StatesOf(mode, opts, c)
    BY <1>1, Generates, PlaysAssumption DEF IInv, OptsFit
  <2>2. CASE mode = "Osu"
    <3> DEFINE s == Osu!Setup(opts, c)
    <3>1. OsuOpts(opts) /\ c \in OsuCount /\ out' \in Osu!States(opts, c)
      BY <2>1, <2>2 DEF OptsOf, CountOf, StatesOf
    <3>2. /\ out' \in OsuState /\ s \in OsuSetups /\ out'.misses = s.misses
          /\ Judged(out') = IF OsuGivens(opts, s) > s.remaining THEN OsuGivens(opts, s)
                                                                ELSE s.remaining
      BY <2>1, <3>1, OsuStates
    <3>3. judged = Judged(out') + out'.misses
      BY <2>2, <3>2, OsuTotal
    <3> HIDE DEF s, judged
    <3>4. /\ Osu!Given(opts, s, "n300") \in Nat /\ Osu!Given(opts, s, "n100") \in Nat
          /\ Osu!Given(opts, s, "n50") \in Nat
          /\ s.misses \in Nat /\ s.remaining \in Nat /\ s.misses + s.remaining = s.total
      BY <3>1, <3>2, OsuGivenType DEF OsuSetups
    <3>5. judged = IF s.misses + Osu!Given(opts, s, "n300") + Osu!Given(opts, s, "n100")
                        + Osu!Given(opts, s, "n50") > s.total
                   THEN s.misses + Osu!Given(opts, s, "n300") + Osu!Given(opts, s, "n100")
                          + Osu!Given(opts, s, "n50")
                   ELSE s.total
      BY <3>2, <3>3, <3>4 DEF OsuGivens
    <3>6. Osu!AddsUp(judged)
      BY <3>5 DEF Osu!AddsUp, s
    <3>7. QED
      BY <2>2, <3>6
  <2>3. CASE mode = "Taiko"
    <3>1. TaikoOpts(opts) /\ c \in TaikoCount /\ out' \in Taiko!States(opts, c)
      BY <2>1, <2>3 DEF OptsOf, CountOf, StatesOf
    <3>2. /\ out' \in TaikoState
          /\ out'.n300 + out'.n100 + out'.misses >= Taiko!TotalResults(opts, c)
          /\ opts.n300 = None \/ opts.n100 = None =>
               out'.n300 + out'.n100 + out'.misses = Taiko!TotalResults(opts, c)
      BY <2>1, <3>1, TaikoStates
    <3>3. judged = out'.n300 + out'.n100 + out'.misses
      BY <2>3, <3>2, TaikoTotal
    <3> HIDE DEF judged
    <3>4. Taiko!AddsUp(judged)
      BY <3>2, <3>3 DEF Taiko!AddsUp
    <3>5. QED
      BY <2>3, <3>4
  <2>4. CASE mode = "Catch"
    <3>1. CatchOpts(opts) /\ c \in CatchCount /\ out' \in Catch!States(opts, c)
      BY <2>1, <2>4 DEF OptsOf, CountOf, StatesOf
    <3>2. /\ out' \in CatchState
          /\ out'.fruits + out'.droplets + out'.misses = Catch!Palps(c)
          /\ None \in {opts.fruits, opts.droplets} =>
               out'.fruits <= c.fruits /\ out'.droplets <= c.droplets
          /\ out'.tiny_droplets + out'.tiny_droplet_misses >= c.tiny_droplets
          /\ None \in {opts.tiny_droplets, opts.tiny_droplet_misses} \/ opts.acc # None =>
               out'.tiny_droplets + out'.tiny_droplet_misses = c.tiny_droplets
      BY <2>1, <3>1, CatchStates
    <3>3. judged = out'.fruits + out'.droplets + out'.misses
                     + out'.tiny_droplets + out'.tiny_droplet_misses
      BY <2>4, <3>2, CatchTotal
    <3> HIDE DEF judged, c
    <3>4. /\ c.tiny_droplets \in Nat /\ Catch!Palps(c) \in Nat
          /\ out'.fruits \in Nat /\ out'.droplets \in Nat /\ out'.misses \in Nat
          /\ out'.tiny_droplets \in Nat /\ out'.tiny_droplet_misses \in Nat
      BY <3>1, <3>2 DEF CatchCount, CatchState, Catch!Palps
    <3>5. /\ judged >= Catch!Palps(c) + c.tiny_droplets
          /\ None \in {opts.tiny_droplets, opts.tiny_droplet_misses} \/ opts.acc # None =>
               judged = Catch!Palps(c) + c.tiny_droplets
      BY <3>2, <3>3, <3>4
    <3>6. Catch!AddsUp(judged)
      BY <3>2, <3>5 DEF Catch!AddsUp, c
    <3>7. QED
      BY <2>4, <3>6
  <2>5. CASE mode = "Mania"
    <3> DEFINE s == Mania!Setup(opts, c)
               given == s.misses + Mania!Given(opts, s, "n320") + Mania!Given(opts, s, "n300")
                          + Mania!Given(opts, s, "n200") + Mania!Given(opts, s, "n100")
                          + Mania!Given(opts, s, "n50")
    <3>1. ManiaOpts(opts) /\ c \in ManiaCount /\ out' \in Mania!States(opts, c)
      BY <2>1, <2>5 DEF OptsOf, CountOf, StatesOf
    <3>2. /\ out' \in ManiaState /\ s \in ManiaSetups /\ out'.misses = s.misses
          /\ ManiaJudged5(out') = IF ManiaGivens(opts, s) > s.remaining THEN ManiaGivens(opts, s)
                                                                       ELSE s.remaining
      BY <2>1, <3>1, ManiaStates
    <3>3. judged = ManiaJudged5(out') + out'.misses
      BY <2>5, <3>2, ManiaTotal
    <3> HIDE DEF s, judged
    <3>4. /\ Mania!Given(opts, s, "n320") \in Nat /\ Mania!Given(opts, s, "n300") \in Nat
          /\ Mania!Given(opts, s, "n200") \in Nat /\ Mania!Given(opts, s, "n100") \in Nat
          /\ Mania!Given(opts, s, "n50") \in Nat
          /\ s.misses \in Nat /\ s.remaining \in Nat /\ s.misses + s.remaining = s.total
      BY <3>1, <3>2, ManiaGivenType DEF ManiaSetups, Mania!Judgements
    <3>5. given = s.misses + ManiaGivens(opts, s) /\ ManiaGivens(opts, s) \in Nat
      BY <3>4 DEF ManiaGivens, LowGivens
    <3>6. judged = IF given > s.total THEN given ELSE s.total
      <4> HIDE DEF given
      <4>1. QED
        BY <3>2, <3>3, <3>4, <3>5
    <3>7. Mania!AddsUp(judged)
      BY <3>6 DEF Mania!AddsUp, s
    <3>8. QED
      BY <2>5, <3>7
  <2>6. QED
    BY <2>1, <2>2, <2>3, <2>4, <2>5, Zenon DEF GameModes
<1> HIDE DEF Adds
<1>2. IInv /\ [Next]_vars => (Generated => Adds)
  <2> SUFFICES ASSUME IInv, [Next]_vars, Generated PROVE Adds
    OBVIOUS
  <2>1. out = None /\ out' # None
    BY DEF Generated
  <2>2. \A d \in Setters : ~Setter(d)
    BY <2>1 DEF Setter
  <2>3. ~state
    BY <2>1 DEF state
  <2>4. ~try_mode
    BY <2>1 DEF try_mode
  <2>5. generate_state
    BY <2>1, <2>2, <2>3, <2>4 DEF Next, vars
  <2>6. QED
    BY <1>1, <2>5
<1>3. QED
  BY <1>2, InvariantHolds, PTL DEF Spec, HitsAddUp, Adds

-----------------------------------------------------------------------------
(* The best case and the worst case *)

\* Changing the priority changes no other setting.
LEMMA PriorityAlone ==
  ASSUME NEW m \in GameModes \ {"Catch"}, NEW o, OptsOf(m, o), NEW p \in Priorities
  PROVE  LET w == [o EXCEPT !.priority = p]
         IN  /\ OptsOf(m, w) /\ w.priority = p
             /\ \A f \in FieldsOf(m) \ {"priority"} : w[f] = o[f]
<1> DEFINE w == [o EXCEPT !.priority = p]
<1>1. DOMAIN o = FieldsOf(m) /\ \A f \in FieldsOf(m) : o[f] \in TypeOf(f)
  BY OptsByField
<1>2. "priority" \in FieldsOf(m)
  BY DEF FieldsOf, GameModes
<1>3. /\ DOMAIN w = FieldsOf(m) /\ w.priority = p
      /\ \A f \in FieldsOf(m) \ {"priority"} : w[f] = o[f]
  BY <1>1, <1>2
<1> HIDE DEF w
<1>4. TypeOf("priority") = Priorities
  BY DEF TypeOf
<1>5. \A f \in FieldsOf(m) : w[f] \in TypeOf(f)
  BY <1>1, <1>3, <1>4
<1>6. OptsOf(m, w)
  BY <1>3, <1>5, OptsByField
<1>7. QED
  BY <1>3, <1>6 DEF w

\* For osu!taiko the rest of the results is worth no less in the best case, and a search
\* for an accuracy does not know of the case.
LEMMA TaikoBestIsBetter ==
  ASSUME NEW o, TaikoOpts(o), NEW c \in TaikoCount, play.den \in Nat \ {0},
         NEW b \in Taiko!States([o EXCEPT !.priority = "BestCase"], c)
  PROVE  \E w \in Taiko!States([o EXCEPT !.priority = "WorstCase"], c) :
            Taiko!Points(b) >= Taiko!Points(w)
<1> DEFINE best  == [o EXCEPT !.priority = "BestCase"]
           worst == [o EXCEPT !.priority = "WorstCase"]
           total == Taiko!TotalResults(best, c)
           misses == Taiko!Misses(best, total)
           State(r) == [combo |-> Taiko!ComboOf(best, c, misses), n300 |-> r[1],
                        n100 |-> r[2], misses |-> misses]
<1>1. /\ TaikoOpts(best) /\ best.priority = "BestCase"
      /\ TaikoOpts(worst) /\ worst.priority = "WorstCase"
      /\ worst.passed = best.passed /\ worst.acc = best.acc /\ worst.combo = best.combo
      /\ worst.misses = best.misses /\ worst.n300 = best.n300 /\ worst.n100 = best.n100
  <2>1. OptsOf("Taiko", o)
    BY DEF OptsOf
  <2>2. /\ OptsOf("Taiko", best) /\ best.priority = "BestCase"
        /\ \A f \in FieldsOf("Taiko") \ {"priority"} : best[f] = o[f]
        /\ OptsOf("Taiko", worst) /\ worst.priority = "WorstCase"
        /\ \A f \in FieldsOf("Taiko") \ {"priority"} : worst[f] = o[f]
    BY <2>1, PriorityAlone DEF GameModes, Priorities
  <2> HIDE DEF best, worst
  <2>3. QED
    BY <2>2 DEF OptsOf, FieldsOf
<1> HIDE DEF best, worst
<1>2. /\ Taiko!TotalResults(worst, c) = total /\ Taiko!Misses(worst, total) = misses
      /\ Taiko!ComboOf(worst, c, misses) = Taiko!ComboOf(best, c, misses)
  BY <1>1 DEF Taiko!TotalResults, Taiko!Misses, Taiko!ComboOf
<1>3. /\ Taiko!States(best, c) = {State(r) : r \in Taiko!Results(best, total, misses)}
      /\ Taiko!States(worst, c) = {State(r) : r \in Taiko!Results(worst, total, misses)}
  BY <1>2 DEF Taiko!States
<1>4. total \in Nat /\ misses \in 0..total
  <2>1. best.passed \in Nat /\ c.max_combo \in Nat /\ best.misses \in Count
    BY <1>1 DEF TaikoOpts, TaikoCount
  <2>2. total \in Nat
    BY <2>1 DEF Taiko!TotalResults
  <2> HIDE DEF total
  <2>3. QED
    BY <2>1, <2>2, NoneIsNoNumber DEF Taiko!Misses, Count
<1>5. PICK r \in Taiko!Results(best, total, misses) : b = State(r)
  BY <1>3 DEF best
<1> HIDE DEF total, misses
<1>6. \E v \in Taiko!Results(worst, total, misses) : 2 * r[1] + r[2] >= 2 * v[1] + v[2]
  <2> DEFINE n300 == Taiko!Least(Taiko!OrZero(best.n300), total - misses)
             n100 == Taiko!Least(Taiko!OrZero(best.n100), total - misses)
             rest == Taiko!Rest(total, n300, n100, misses)
             Of(o2) == {IF Taiko!RestTo300(o2) THEN <<n300 + rest, n100>>
                                               ELSE <<n300, n100 + rest>>}
  <2>1. r[1] \in Nat /\ r[2] \in Nat
    BY <1>1, <1>4, TaikoResults
  <2>2. CASE best.acc # None /\ best.n300 = None /\ best.n100 = None
    <3>1. Taiko!Results(worst, total, misses) = Taiko!Results(best, total, misses)
      BY <1>1, <2>2 DEF Taiko!Results
    <3>2. QED
      BY <2>1, <3>1
  <2>3. CASE ~(best.acc # None /\ best.n300 = None /\ best.n100 = None)
    <3>1. /\ Taiko!Results(best, total, misses) = Of(best)
          /\ Taiko!Results(worst, total, misses) = Of(worst)
      BY <1>1, <2>3 DEF Taiko!Results
    <3>2. n300 \in Nat /\ n100 \in Nat
      <4>1. best.n300 \in Count /\ best.n100 \in Count /\ total - misses \in Nat
        BY <1>1, <1>4 DEF TaikoOpts
      <4>2. QED
        BY <4>1 DEF Count
    <3>3. rest \in Nat
      <4> HIDE DEF n300, n100
      <4>1. QED
        BY <1>4, <3>2 DEF Taiko!Rest
    <3>4. Taiko!RestTo300(worst) => Taiko!RestTo300(best)
      BY <1>1 DEF Taiko!RestTo300
    <3> HIDE DEF n300, n100, rest
    <3>5. QED
      BY <3>1, <3>2, <3>3, <3>4
  <2>4. QED
    BY <2>2, <2>3
<1>7. PICK v \in Taiko!Results(worst, total, misses) : 2 * r[1] + r[2] >= 2 * v[1] + v[2]
  BY <1>6
<1>8. Taiko!Points(b) = 2 * r[1] + r[2] /\ Taiko!Points(State(v)) = 2 * v[1] + v[2]
  BY <1>5 DEF Taiko!Points
<1>9. State(v) \in Taiko!States(worst, c)
  BY <1>3
<1>10. QED
  BY <1>7, <1>8, <1>9 DEF worst

\* The better the judgement of osu!standard, the more points it is worth.
ValueOf(f) == CASE f = "n300" -> 30 [] f = "n100" -> 10 [] f = "n50" -> 5

\* In the best case the rest of the results goes to a count worth no less than in the
\* worst case.
LEMMA OsuRestIsBetter ==
  ASSUME NEW b, b.priority = "BestCase", NEW w, w.priority = "WorstCase",
         \A f \in {"n300", "n100", "n50"} : w[f] = b[f]
  PROVE  ValueOf(Osu!RestTo(b)) >= ValueOf(Osu!RestTo(w))
<1> DEFINE down == <<"n300", "n100", "n50">>
           up   == <<"n50", "n100", "n300">>
           B == {i \in 1..3 : down[i] \in Osu!Open(b)}
           W == {i \in 1..3 : up[i] \in Osu!Open(b)}
           First(S) == IF S = {} THEN 1 ELSE Osu!Min(S)
<1>1. Osu!Open(w) = Osu!Open(b)
  BY DEF Osu!Open
<1>2. Osu!RestTo(b) = down[First(B)]
  BY DEF Osu!RestTo
<1>3. Osu!RestTo(w) = up[First(W)]
  BY <1>1 DEF Osu!RestTo
<1>4. \A i \in 1..3 : /\ i \in B <=> down[i] \in Osu!Open(b)
                      /\ i \in W <=> up[i] \in Osu!Open(b)
  OBVIOUS
<1>5. B \subseteq 1..3 /\ W \subseteq 1..3
  OBVIOUS
<1>6. \A i \in 1..3 : up[i] = down[4 - i] /\ ValueOf(down[i]) \in Int
  BY DEF ValueOf
<1>7. \A i, j \in 1..3 : i <= j => ValueOf(down[i]) >= ValueOf(down[j])
  BY DEF ValueOf
<1> HIDE DEF down, up, B, W
<1>8. ASSUME NEW S, S \subseteq 1..3, S # {}
      PROVE  Osu!Min(S) \in S /\ \A x \in S : Osu!Min(S) <= x
  <2>1. \E x \in S : \A y \in S : x <= y
    <3>1. CASE 1 \in S
      BY <1>8, <3>1
    <3>2. CASE 1 \notin S /\ 2 \in S
      BY <1>8, <3>2
    <3>3. CASE 1 \notin S /\ 2 \notin S
      <4>1. \A y \in S : y = 3
        BY <1>8, <3>3
      <4>2. PICK x \in S : TRUE
        BY <1>8, Zenon
      <4>3. QED
        BY <4>1, <4>2
    <3>4. QED
      BY <3>1, <3>2, <3>3
  <2>2. QED
    BY <2>1, Zenon DEF Osu!Min
<1>9. CASE B = {}
  <2>1. W = {}
    BY <1>4, <1>5, <1>6, <1>9
  <2>2. QED
    BY <1>2, <1>3, <1>6, <1>7, <1>9, <2>1
<1>10. CASE B # {}
  <2>1. PICK i \in B : TRUE
    BY <1>10
  <2>2. i \in 1..3 /\ 4 - i \in W
    BY <1>4, <1>5, <1>6, <2>1
  <2>3. Osu!Min(W) \in 1..3 /\ 4 - Osu!Min(W) \in B
    <3>1. Osu!Min(W) \in W
      BY <1>5, <1>8, <2>2, Zenon
    <3>2. \A j \in W : j \in 1..3 /\ 4 - j \in B
      BY <1>4, <1>5, <1>6
    <3>3. QED
      BY <3>1, <3>2
  <2>4. Osu!Min(B) \in 1..3 /\ Osu!Min(B) <= 4 - Osu!Min(W)
    BY <1>5, <1>8, <1>10, <2>3, Zenon
  <2>5. QED
    BY <1>2, <1>3, <1>5, <1>6, <1>7, <1>10, <2>2, <2>3, <2>4
<1>11. QED
  BY <1>9, <1>10

\* The results the search for an accuracy finds do not depend on the priority.
LEMMA OsuSearchIsSame ==
  ASSUME NEW b, NEW w, \A f \in {"n300", "n100", "n50", "acc"} : w[f] = b[f], NEW s
  PROVE  Osu!Closest(w, s, Osu!Candidates(w, s)) = Osu!Closest(b, s, Osu!Candidates(b, s))
<1>1. \A f \in {"n300", "n100", "n50"} : Osu!Given(w, s, f) = Osu!Given(b, s, f)
  BY DEF Osu!Given
<1>2. w.acc = b.acc /\ w.n300 = b.n300 /\ w.n100 = b.n100 /\ w.n50 = b.n50
  OBVIOUS
<1>3. \A h : Osu!Dist(w, s, h) = Osu!Dist(b, s, h)
  BY <1>2 DEF Osu!Dist
<1>4. Osu!Candidates(w, s) = Osu!Candidates(b, s)
  <2>1. /\ Osu!Given(w, s, "n300") = Osu!Given(b, s, "n300")
        /\ Osu!Given(w, s, "n100") = Osu!Given(b, s, "n100")
        /\ Osu!Given(w, s, "n50") = Osu!Given(b, s, "n50")
    BY <1>1
  <2> DEFINE Of(acc, is300, is100, is50, n300, n100, n50) ==
        LET target == acc * s.max_points
            Left(base) == target - play.den * (base + s.slider)
            free == s.remaining - n300 - n100 - n50
        IN CASE is300 # None ->
                  {Osu!Hits(n300, k, free - k) :
                     k \in Osu!Around(Left(5 * free + 30 * n300), 5, free)}
             [] is100 # None ->
                  {Osu!Hits(k, n100, free - k) :
                     k \in Osu!Around(Left(5 * free + 10 * n100), 25, free)}
             [] is50 # None ->
                  {Osu!Hits(k, free - k, n50) :
                     k \in Osu!Around(Left(10 * s.total - 10 * s.misses - 5 * n50), 20, free)}
             [] OTHER ->
                  UNION {{Osu!Hits(k, j, free - k - j) :
                            j \in Osu!Around(Left(5 * free + 25 * k), 5, free - k)} :
                          k \in Osu!Around(Left(5 * free), 25, free)}
  <2>2. \A o : Osu!Candidates(o, s) = Of(o.acc, o.n300, o.n100, o.n50, Osu!Given(o, s, "n300"),
                                        Osu!Given(o, s, "n100"), Osu!Given(o, s, "n50"))
    BY DEF Osu!Candidates
  <2> HIDE DEF Of
  <2>3. QED
    BY <1>2, <2>1, <2>2
<1>5. QED
  BY <1>3, <1>4 DEF Osu!Closest

\* The shift for the best case changes neither the points nor raises the number of 50s;
\* the one for the worst case does not lower it.
LEMMA OsuShiftByCase ==
  ASSUME NEW h \in OsuHits, NEW b, b.priority = "BestCase", NEW w, w.priority = "WorstCase"
  PROVE  /\ Osu!Points(Osu!Shifted(b, h)) = Osu!Points(Osu!Shifted(w, h))
         /\ Osu!Shifted(b, h).n50 <= Osu!Shifted(w, h).n50
<1> DEFINE n == Osu!Least(h.n300, h.n50 \div 4)
           k == h.n100 \div 5
<1>1. h.n300 \in Nat /\ h.n100 \in Nat /\ h.n50 \in Nat
  BY DEF OsuHits
<1>2. n \in Nat /\ k \in Nat
  BY <1>1
<1>3. /\ Osu!Shifted(b, h) = Osu!Hits(h.n300 - n, h.n100 + 5 * n, h.n50 - 4 * n)
      /\ Osu!Shifted(w, h) = Osu!Hits(h.n300 + k, h.n100 - 5 * k, h.n50 + 4 * k)
  BY DEF Osu!Shifted
<1> HIDE DEF n, k
<1>4. /\ Osu!Shifted(b, h).n50 = h.n50 - 4 * n /\ Osu!Shifted(w, h).n50 = h.n50 + 4 * k
      /\ Osu!Points(Osu!Shifted(b, h)) =
           30 * (h.n300 - n) + 10 * (h.n100 + 5 * n) + 5 * (h.n50 - 4 * n)
      /\ Osu!Points(Osu!Shifted(w, h)) =
           30 * (h.n300 + k) + 10 * (h.n100 - 5 * k) + 5 * (h.n50 + 4 * k)
  BY <1>3 DEF Osu!Hits, Osu!Points
<1>5. QED
  BY <1>1, <1>2, <1>4

\* A best case of osu!standard is compared with the worst case from the same results.
LEMMA OsuBestIsBetter ==
  ASSUME NEW o, OsuOpts(o), NEW c \in OsuCount, play.den \in Nat \ {0},
         NEW x \in Osu!States([o EXCEPT !.priority = "BestCase"], c)
  PROVE  \E y \in Osu!States([o EXCEPT !.priority = "WorstCase"], c) :
            /\ Osu!Points(x) >= Osu!Points(y)
            /\ Osu!Points(x) = Osu!Points(y) => x.n50 <= y.n50
<1> DEFINE b == [o EXCEPT !.priority = "BestCase"]
           w == [o EXCEPT !.priority = "WorstCase"]
           s == Osu!Setup(b, c)
           State(h) == [n300 |-> h.n300, n100 |-> h.n100, n50 |-> h.n50, misses |-> s.misses,
                        combo |-> Osu!ComboOf(b, c, s.misses), large_tick_hits |-> s.ticks,
                        slider_end_hits |-> s.ends]
<1>1. /\ OsuOpts(b) /\ b.priority = "BestCase" /\ OsuOpts(w) /\ w.priority = "WorstCase"
      /\ \A f \in FieldsOf("Osu") \ {"priority"} : w[f] = b[f]
  <2>1. OptsOf("Osu", o)
    BY DEF OptsOf
  <2>2. /\ OptsOf("Osu", b) /\ b.priority = "BestCase"
        /\ \A f \in FieldsOf("Osu") \ {"priority"} : b[f] = o[f]
        /\ OptsOf("Osu", w) /\ w.priority = "WorstCase"
        /\ \A f \in FieldsOf("Osu") \ {"priority"} : w[f] = o[f]
    BY <2>1, PriorityAlone DEF GameModes, Priorities
  <2> HIDE DEF b, w
  <2>3. QED
    BY <2>2 DEF OptsOf
<1>2. /\ w.passed = b.passed /\ w.lazer = b.lazer /\ w.classic = b.classic /\ w.acc = b.acc
      /\ w.combo = b.combo /\ w.misses = b.misses /\ w.large_tick_hits = b.large_tick_hits
      /\ w.slider_end_hits = b.slider_end_hits
      /\ w.n300 = b.n300 /\ w.n100 = b.n100 /\ w.n50 = b.n50
  <2> HIDE DEF b, w
  <2>1. QED
    BY <1>1 DEF FieldsOf
<1>3. PICK h \in Osu!Results(b, s) : x = State(h)
  BY DEF Osu!States
<1> HIDE DEF b, w
<1>4. Osu!Setup(w, c) = s /\ \A m : Osu!ComboOf(w, c, m) = Osu!ComboOf(b, c, m)
  <2>1. /\ Osu!MaxLargeTicks(w, c) = Osu!MaxLargeTicks(b, c)
        /\ Osu!MaxSliderEnds(w, c) = Osu!MaxSliderEnds(b, c)
        /\ \A i, j : Osu!SliderValue(w, i, j) = Osu!SliderValue(b, i, j)
        /\ Osu!n_objects(w, c) = Osu!n_objects(b, c)
    BY <1>2 DEF Osu!MaxLargeTicks, Osu!MaxSliderEnds, Osu!SliderValue, Osu!n_objects
  <2>2. QED
    BY <1>2, <2>1, ZenonT(60) DEF Osu!Setup, Osu!ComboOf
<1>5. s \in OsuSetups
  BY <1>1, OsuSetupType
<1>6. Osu!States(w, c) = {State(g) : g \in Osu!Results(w, s)}
  BY <1>4 DEF Osu!States
<1> HIDE DEF s
<1>7. \E g \in Osu!Results(w, s) : /\ Osu!Points(h) >= Osu!Points(g)
                                   /\ Osu!Points(h) = Osu!Points(g) => h.n50 <= g.n50
  <2>1. h \in OsuHits
    BY <1>1, <1>3, <1>5, OsuResults
  <2>2. Osu!Points(h) \in Nat /\ h.n50 \in Nat
    BY <2>1 DEF Osu!Points, OsuHits
  <2>3. Osu!Open(w) = Osu!Open(b)
    BY <1>2 DEF Osu!Open
  <2>4. CASE b.acc # None /\ \E f, g \in Osu!Open(b) : f # g
    <3> DEFINE C == Osu!Closest(b, s, Osu!Candidates(b, s))
    <3>1. Osu!Closest(w, s, Osu!Candidates(w, s)) = C
      BY <1>2, OsuSearchIsSame
    <3>2. \A g \in C : g \in OsuHits
      BY <1>1, <1>5, <2>4, OsuCandidates DEF Osu!Closest
    <3>3. Osu!Results(b, s) = IF Osu!Open(b) = {"n300", "n100", "n50"}
                              THEN {Osu!Shifted(b, g) : g \in C} ELSE C
      BY <2>4 DEF Osu!Results
    <3>4. Osu!Results(w, s) = IF Osu!Open(b) = {"n300", "n100", "n50"}
                              THEN {Osu!Shifted(w, g) : g \in C} ELSE C
      <4>1. w.acc # None /\ \E f, g \in Osu!Open(w) : f # g
        BY <1>2, <2>3, <2>4
      <4>2. QED
        BY <2>3, <3>1, <4>1 DEF Osu!Results
    <3> HIDE DEF C
    <3>5. CASE Osu!Open(b) = {"n300", "n100", "n50"}
      <4>1. PICK g \in C : h = Osu!Shifted(b, g)
        BY <1>3, <3>3, <3>5
      <4>2. Osu!Shifted(w, g) \in Osu!Results(w, s)
        BY <3>4, <3>5
      <4>3. /\ Osu!Points(h) = Osu!Points(Osu!Shifted(w, g))
            /\ h.n50 <= Osu!Shifted(w, g).n50
        BY <1>1, <3>2, <4>1, OsuShiftByCase
      <4>4. QED
        BY <2>2, <4>2, <4>3
    <3>6. CASE Osu!Open(b) # {"n300", "n100", "n50"}
      BY <1>3, <2>2, <3>3, <3>4, <3>6
    <3>7. QED
      BY <3>5, <3>6
  <2>5. CASE ~(b.acc # None /\ \E f, g \in Osu!Open(b) : f # g)
    <3> DEFINE n300 == Osu!Given(b, s, "n300")
               n100 == Osu!Given(b, s, "n100")
               n50  == Osu!Given(b, s, "n50")
               g == Osu!Hits(n300, n100, n50)
               rest == Osu!Rest(s, g)
               to == Osu!RestTo(b)
               wo == Osu!RestTo(w)
               y == [g EXCEPT ![wo] = @ + rest]
    <3>1. h = [g EXCEPT ![to] = @ + rest]
      BY <1>3, <2>5 DEF Osu!Results
    <3>2. Osu!Results(w, s) = {y}
      <4>1. ~(w.acc # None /\ \E f, e \in Osu!Open(w) : f # e)
        BY <1>2, <2>3, <2>5
      <4>2. /\ Osu!Given(w, s, "n300") = n300 /\ Osu!Given(w, s, "n100") = n100
            /\ Osu!Given(w, s, "n50") = n50
        BY <1>2 DEF Osu!Given
      <4>3. QED
        BY <4>1, <4>2 DEF Osu!Results
    <3>3. n300 \in Nat /\ n100 \in Nat /\ n50 \in Nat
      BY <1>1, <1>5, OsuGivenType DEF OsuSetups
    <3>4. g = [n300 |-> n300, n100 |-> n100, n50 |-> n50]
      BY DEF Osu!Hits
    <3>5. rest \in Nat
      <4>1. s.total \in Nat /\ s.misses \in Nat
        BY <1>5 DEF OsuSetups
      <4> HIDE DEF g
      <4>2. g.n300 + g.n100 + g.n50 + s.misses \in Nat
        BY <3>3, <3>4, <4>1
      <4>3. QED
        BY <4>1, <4>2 DEF Osu!Rest
    <3>6. ValueOf(to) >= ValueOf(wo)
      BY <1>1, <1>2, OsuRestIsBetter
    <3>7. to \in {"n300", "n100", "n50"} /\ wo \in {"n300", "n100", "n50"}
      BY OsuRestTo
    <3> HIDE DEF n300, n100, n50, g, rest, to, wo
    <3>8. /\ Osu!Points(h) = Osu!Points(g) + ValueOf(to) * rest
          /\ h.n50 = IF to = "n50" THEN n50 + rest ELSE n50
      BY <3>1, <3>3, <3>4, <3>5, <3>7 DEF Osu!Points, ValueOf
    <3>9. /\ Osu!Points(y) = Osu!Points(g) + ValueOf(wo) * rest
          /\ y.n50 = IF wo = "n50" THEN n50 + rest ELSE n50
      BY <3>3, <3>4, <3>5, <3>7 DEF Osu!Points, ValueOf
    <3>10. Osu!Points(g) \in Nat
      BY <3>3, <3>4 DEF Osu!Points
    <3> HIDE DEF y
    <3>11. Osu!Points(h) >= Osu!Points(y) /\ h.n50 <= y.n50
      BY <3>3, <3>5, <3>6, <3>7, <3>8, <3>9, <3>10 DEF ValueOf
    <3>12. QED
      BY <3>2, <3>11
  <2>6. QED
    BY <2>4, <2>5
<1>8. PICK g \in Osu!Results(w, s) : /\ Osu!Points(h) >= Osu!Points(g)
                                     /\ Osu!Points(h) = Osu!Points(g) => h.n50 <= g.n50
  BY <1>7
<1>9. \A e : Osu!Points(State(e)) = Osu!Points(e) /\ State(e).n50 = e.n50
  BY DEF Osu!Points
<1>10. State(g) \in Osu!States(w, c)
  BY <1>6
<1> HIDE DEF State
<1>11. QED
  BY <1>3, <1>8, <1>9, <1>10 DEF w

\* Two osu!mania settings that differ at most in the priority.
SameButPriority(b, w) ==
  \A f \in {"n320", "n300", "n200", "n100", "n50", "misses", "acc", "lazer", "passed"} :
     w[f] = b[f]

\* The results the search for an accuracy finds do not depend on the priority.
LEMMA ManiaSearchIsSame ==
  ASSUME NEW b, NEW w, SameButPriority(b, w), NEW s
  PROVE  Mania!Closest(w, s, Mania!Tried(w, s)) = Mania!Closest(b, s, Mania!Tried(b, s))
<1> USE DEF SameButPriority
<1>1. w.acc = b.acc /\ w.n320 = b.n320 /\ w.n300 = b.n300
  OBVIOUS
<1>2. \A f \in Mania!Judgements : Mania!Given(w, s, f) = Mania!Given(b, s, f)
  BY DEF Mania!Given, Mania!Judgements
<1>3. /\ Mania!Given(w, s, "n320") = Mania!Given(b, s, "n320")
      /\ Mania!Given(w, s, "n300") = Mania!Given(b, s, "n300")
      /\ Mania!Given(w, s, "n200") = Mania!Given(b, s, "n200")
      /\ Mania!Given(w, s, "n100") = Mania!Given(b, s, "n100")
      /\ Mania!Given(w, s, "n50") = Mania!Given(b, s, "n50")
  BY <1>2 DEF Mania!Judgements
<1>4. Mania!Lows(w) = Mania!Lows(b)
  <2>1. w["n200"] = b["n200"] /\ w["n100"] = b["n100"] /\ w["n50"] = b["n50"]
    OBVIOUS
  <2>2. QED
    BY <2>1, Zenon DEF Mania!Lows
<1>5. Mania!Target(w, s) = Mania!Target(b, s)
  BY <1>1 DEF Mania!Target
<1>6. \A h : Mania!Dist(w, s, h) = Mania!Dist(b, s, h)
  BY <1>5 DEF Mania!Dist
<1>7. \A h, f, g : /\ Mania!NeededDown(w, s, h, f, g) = Mania!NeededDown(b, s, h, f, g)
                   /\ Mania!NeededUp(w, s, h, f, g) = Mania!NeededUp(b, s, h, f, g)
  <2>1. \A h, g : Mania!Short(w, s, h, g) = Mania!Short(b, s, h, g)
    BY <1>5 DEF Mania!Short
  <2>2. QED
    BY <2>1 DEF Mania!NeededDown, Mania!NeededUp
<1>8. \A h, f, l : Mania!CountsOf(w, s, h, f, l) = Mania!CountsOf(b, s, h, f, l)
  BY <1>7 DEF Mania!CountsOf
<1>9. \A h : Mania!CountsOf3x0(w, s, h) = Mania!CountsOf3x0(b, s, h)
  <2> SUFFICES ASSUME NEW h PROVE Mania!CountsOf3x0(w, s, h) = Mania!CountsOf3x0(b, s, h)
    OBVIOUS
  <2>1. \A f, g : /\ Mania!NeededDown(w, s, h, f, g) = Mania!NeededDown(b, s, h, f, g)
                  /\ Mania!NeededUp(w, s, h, f, g) = Mania!NeededUp(b, s, h, f, g)
    BY <1>7
  <2>2. QED
    BY <1>1, <1>3, <1>4, <1>5, <2>1, ZenonT(60) DEF Mania!CountsOf3x0
<1>10. Mania!Tried(w, s) = Mania!Tried(b, s)
  <2> DEFINE LowsOf(o) == [n3x0 |-> 0, n200 |-> Mania!Given(o, s, "n200"),
                          n100 |-> Mania!Given(o, s, "n100"), n50 |-> Mania!Given(o, s, "n50")]
             Each(o, L, h, i) == {[h EXCEPT ![L[i]] = k] :
                         k \in Mania!CountsOf(o, s, h, L[i], SubSeq(L, i + 1, Len(L)))}
             Extend(o, L, H, i) == IF i >= Len(L) THEN H ELSE UNION {Each(o, L, h, i) : h \in H}
             TopOf(o, none) == {[none EXCEPT !.n3x0 = k] : k \in Mania!CountsOf3x0(o, s, none)}
             AllPlaced(L, H) == {[h EXCEPT ![Mania!Last(L)] = Mania!Left(s, h)] : h \in H}
             Of(o, L, none) == AllPlaced(L, Extend(o, L, Extend(o, L, TopOf(o, none), 1), 2))
  <2>1. /\ Mania!Tried(b, s) = Of(b, Mania!Lows(b), LowsOf(b))
        /\ Mania!Tried(w, s) = Of(w, Mania!Lows(w), LowsOf(w))
    BY DEF Mania!Tried
  <2>2. LowsOf(w) = LowsOf(b)
    BY <1>3
  <2>3. \A none : TopOf(w, none) = TopOf(b, none)
    BY <1>9
  <2>4. \A L, h, i : Each(w, L, h, i) = Each(b, L, h, i)
    BY <1>8
  <2> HIDE DEF LowsOf, TopOf, Each
  <2>5. \A L, H, i : Extend(w, L, H, i) = Extend(b, L, H, i)
    BY <2>4, ZenonT(60)
  <2> HIDE DEF Extend, AllPlaced
  <2>6. QED
    BY <1>4, <2>1, <2>2, <2>3, <2>5
<1>11. QED
  BY <1>6, <1>10 DEF Mania!Closest

\* What each judgement of osu!mania is worth where 320s and 300s differ.
CustomValue(f) == CASE f = "n320" -> 32 [] f = "n300" -> 30 [] f = "n200" -> 20
                    [] f = "n100" -> 10 [] f = "n50" -> 5

\* In the best case the rest of the results goes to a judgement worth no less than in the
\* worst case.
LEMMA ManiaRestIsBetter ==
  ASSUME NEW b, b.priority = "BestCase", NEW w, w.priority = "WorstCase", SameButPriority(b, w)
  PROVE  CustomValue(Mania!RestTo(b)) >= CustomValue(Mania!RestTo(w))
<1> DEFINE down == <<"n320", "n300", "n200", "n100", "n50">>
           up   == Mania!Reverse(down)
           B == {i \in 1..5 : down[i] \in Mania!Open(b)}
           W == {i \in 1..5 : up[i] \in Mania!Open(b)}
           First(S) == IF S = {} THEN 1 ELSE Mania!Min(S)
<1>1. Mania!Open(w) = Mania!Open(b)
  BY DEF Mania!Open, SameButPriority, Mania!Judgements
<1>2. Mania!RestTo(b) = down[First(B)]
  BY DEF Mania!RestTo
<1>3. Mania!RestTo(w) = up[First(W)]
  BY <1>1 DEF Mania!RestTo
<1>4. \A i \in 1..5 : up[i] = down[6 - i]
  <2>1. Len(down) = 5
    OBVIOUS
  <2> HIDE DEF down
  <2>2. up = [i \in 1..5 |-> down[(5 - i) + 1]]
    BY <2>1 DEF Mania!Reverse
  <2> HIDE DEF up
  <2>3. \A i \in 1..5 : (5 - i) + 1 = 6 - i
    OBVIOUS
  <2>4. QED
    BY <2>2, <2>3
<1>5. \A i, j \in 1..5 : i <= j => CustomValue(down[i]) >= CustomValue(down[j])
  BY DEF CustomValue
<1> HIDE DEF up
<1>6. B \subseteq 1..5 /\ W \subseteq 1..5
  OBVIOUS
<1>7. \A i \in 1..5 : i \in W <=> 6 - i \in B
  <2>1. \A i \in 1..5 : 6 - i \in 1..5
    OBVIOUS
  <2> HIDE DEF down
  <2>2. QED
    BY <1>4, <2>1
<1> HIDE DEF down, B, W
<1>8. ASSUME NEW S, S \subseteq 1..5, S # {}
      PROVE  Mania!Min(S) \in S /\ \A x \in S : Mania!Min(S) <= x
  <2>1. \E x \in S : \A y \in S : x <= y
    BY <1>8, FirstOfFive
  <2>2. QED
    BY <2>1, Zenon DEF Mania!Min
<1>9. CASE B = {}
  <2>1. W = {}
    BY <1>6, <1>7, <1>9
  <2>2. QED
    BY <1>2, <1>3, <1>4, <1>5, <1>9, <2>1
<1>10. CASE B # {}
  <2>1. PICK i \in B : TRUE
    BY <1>10
  <2>2. i \in 1..5 /\ 6 - i \in 1..5 /\ 6 - (6 - i) = i
    BY <1>6, <2>1
  <2>3. 6 - i \in W
    BY <1>7, <2>1, <2>2
  <2>4. Mania!Min(W) \in W
    BY <1>6, <1>8, <2>3, Zenon
  <2>5. Mania!Min(W) \in 1..5 /\ 6 - Mania!Min(W) \in B
    BY <1>6, <1>7, <2>4, Zenon
  <2>6. Mania!Min(B) \in B /\ Mania!Min(B) <= 6 - Mania!Min(W)
    BY <1>6, <1>8, <1>10, <2>5, Zenon
  <2>7. Mania!Min(B) \in 1..5 /\ 6 - Mania!Min(W) \in 1..5
    BY <1>6, <2>5, <2>6, Zenon
  <2>8. CustomValue(down[Mania!Min(B)]) >= CustomValue(down[6 - Mania!Min(W)])
    BY <1>5, <2>6, <2>7
  <2>9. QED
    BY <1>2, <1>3, <1>4, <1>10, <2>3, <2>5, <2>8
<1>11. QED
  BY <1>9, <1>10

\* What a search finds is worth no less when it is told apart, and shifted, for the best
\* case.
LEMMA ManiaFoundIsBetter ==
  ASSUME NEW b, ManiaOpts(b), b.priority = "BestCase",
         NEW w, ManiaOpts(w), w.priority = "WorstCase", SameButPriority(b, w),
         NEW s \in ManiaSetups, NEW h, Whole(b, s, h)
  PROVE  Mania!CustomPoints(Mania!Shifted(b, Mania!ToldApart(b, s, h)))
           >= Mania!CustomPoints(Mania!Shifted(w, Mania!ToldApart(w, s, h)))
<1> DEFINE x == Mania!ToldApart(b, s, h)
           y == Mania!ToldApart(w, s, h)
           n == x.n200 \div 2
           t == [x EXCEPT !.n320 = @ + n, !.n200 = @ - 2 * n, !.n100 = @ + n]
<1>1. w.n320 = b.n320 /\ w.n300 = b.n300
  BY DEF SameButPriority
<1>2. /\ Mania!Given(w, s, "n320") = Mania!Given(b, s, "n320")
      /\ Mania!Given(w, s, "n300") = Mania!Given(b, s, "n300")
  BY <1>1 DEF Mania!Given
<1>3. Whole(w, s, h)
  <2>1. \A f \in Mania!Judgements : w[f] = b[f] /\ Mania!Given(w, s, f) = Mania!Given(b, s, f)
    BY DEF SameButPriority, Mania!Given, Mania!Judgements
  <2>2. /\ \A f \in LowJudgements : w[f] = b[f] /\ Mania!Given(w, s, f) = Mania!Given(b, s, f)
        /\ LowGivens(w, s) = LowGivens(b, s) /\ HighGivens(w, s) = HighGivens(b, s)
    BY <2>1 DEF LowGivens, HighGivens, LowJudgements, Mania!Judgements
  <2>3. \A k : Top(w, s, k) = Top(b, s, k)
    BY <1>1, <2>2 DEF Top
  <2>4. QED
    BY <2>2, <2>3 DEF Whole
<1>4. Fits(b, s, x) /\ Fits(w, s, y)
  BY <1>3, ManiaToldApart
<1>5. /\ x \in ManiaHits
      /\ x.n320 \in Nat /\ x.n300 \in Nat /\ x.n200 \in Nat /\ x.n100 \in Nat /\ x.n50 \in Nat
      /\ y.n320 \in Nat /\ y.n300 \in Nat /\ y.n200 \in Nat /\ y.n100 \in Nat /\ y.n50 \in Nat
  BY <1>4 DEF Fits, ManiaHits
<1>6. /\ x.n200 = y.n200 /\ x.n100 = y.n100 /\ x.n50 = y.n50
      /\ x.n320 + x.n300 = y.n320 + y.n300 /\ x.n320 >= y.n320
  <2>1. x.n200 = y.n200 /\ x.n100 = y.n100 /\ x.n50 = y.n50
    BY DEF Mania!ToldApart
  <2>2. CASE b.n320 # None
    <3>1. x.n320 = y.n320 /\ x.n300 = y.n300
      BY <1>1, <1>2, <2>2 DEF Mania!ToldApart
    <3>2. QED
      BY <1>5, <2>1, <3>1
  <2>3. CASE b.n320 = None /\ b.n300 # None
    <3>1. x.n320 = y.n320 /\ x.n300 = y.n300
      BY <1>1, <1>2, <2>3 DEF Mania!ToldApart
    <3>2. QED
      BY <1>5, <2>1, <3>1
  <2>4. CASE b.n320 = None /\ b.n300 = None
    <3>1. /\ x.n320 = h.n3x0 /\ x.n300 = h.n3x0 - h.n3x0
          /\ y.n320 = 0 /\ y.n300 = h.n3x0 - 0
      BY <1>1, <2>4 DEF Mania!ToldApart
    <3>2. QED
      BY <1>5, <2>1, <3>1
  <2>5. QED
    BY <2>2, <2>3, <2>4
<1>7. Mania!Shifted(w, y) = y
  BY DEF Mania!Shifted
<1>8. Mania!Shifted(b, x) = x \/ Mania!Shifted(b, x) = t
  BY DEF Mania!Shifted
<1>9. n \in Nat /\ 2 * n <= x.n200
  BY <1>5
<1>10. /\ t.n320 = x.n320 + n /\ t.n300 = x.n300 /\ t.n200 = x.n200 - 2 * n
       /\ t.n100 = x.n100 + n /\ t.n50 = x.n50
  <2> HIDE DEF n, x
  <2>1. QED
    BY <1>5 DEF ManiaHits
<1> HIDE DEF x, y, n, t
<1>11. Mania!CustomPoints(x) >= Mania!CustomPoints(y)
  BY <1>5, <1>6 DEF Mania!CustomPoints
<1>12. Mania!CustomPoints(t) = Mania!CustomPoints(x) + 2 * n
  BY <1>5, <1>9, <1>10 DEF Mania!CustomPoints
<1>13. Mania!CustomPoints(x) \in Int /\ Mania!CustomPoints(y) \in Int
  BY <1>5 DEF Mania!CustomPoints
<1>14. Mania!CustomPoints(Mania!Shifted(b, x)) >= Mania!CustomPoints(y)
  BY <1>8, <1>9, <1>11, <1>12, <1>13
<1>15. QED
  BY <1>7, <1>14 DEF x, y

\* A best case of osu!mania is compared with the worst case from the same results.
LEMMA ManiaBestIsBetter ==
  ASSUME NEW o, ManiaOpts(o), NEW c \in ManiaCount, play.den \in Nat \ {0},
         NEW x \in Mania!States([o EXCEPT !.priority = "BestCase"], c)
  PROVE  \E y \in Mania!States([o EXCEPT !.priority = "WorstCase"], c) :
            Mania!CustomPoints(x) >= Mania!CustomPoints(y)
<1> DEFINE b == [o EXCEPT !.priority = "BestCase"]
           w == [o EXCEPT !.priority = "WorstCase"]
           s == Mania!Setup(b, c)
           State(r) == [f \in Mania!CountFields |-> IF f = "misses" THEN s.misses ELSE r[f]]
<1>1. /\ ManiaOpts(b) /\ b.priority = "BestCase" /\ ManiaOpts(w) /\ w.priority = "WorstCase"
      /\ \A f \in FieldsOf("Mania") \ {"priority"} : w[f] = b[f]
  <2>1. OptsOf("Mania", o)
    BY DEF OptsOf
  <2>2. /\ OptsOf("Mania", b) /\ b.priority = "BestCase"
        /\ \A f \in FieldsOf("Mania") \ {"priority"} : b[f] = o[f]
        /\ OptsOf("Mania", w) /\ w.priority = "WorstCase"
        /\ \A f \in FieldsOf("Mania") \ {"priority"} : w[f] = o[f]
    BY <2>1, PriorityAlone DEF GameModes, Priorities
  <2> HIDE DEF b, w
  <2>3. QED
    BY <2>2 DEF OptsOf
<1>2. SameButPriority(b, w)
  <2> HIDE DEF b, w
  <2>1. QED
    BY <1>1 DEF FieldsOf, SameButPriority
<1>3. PICK r \in Mania!Results(b, s) : x = State(r)
  BY DEF Mania!States
<1> HIDE DEF b, w
<1>4. Mania!Setup(w, c) = s
  <2>1. w.passed = b.passed /\ w.misses = b.misses /\ w.lazer = b.lazer
    BY <1>2 DEF SameButPriority
  <2>2. QED
    BY <2>1, Zenon DEF Mania!Setup
<1>5. s \in ManiaSetups
  BY <1>1, ManiaSetupType
<1>6. Mania!States(w, c) = {State(q) : q \in Mania!Results(w, s)}
  BY <1>4 DEF Mania!States
<1> HIDE DEF s
<1>7. \E q \in Mania!Results(w, s) : Mania!CustomPoints(r) >= Mania!CustomPoints(q)
  <2>1. w.acc = b.acc /\ Mania!Lows(w) = Mania!Lows(b) /\ Mania!Open(w) = Mania!Open(b)
    <3>1. w["n200"] = b["n200"] /\ w["n100"] = b["n100"] /\ w["n50"] = b["n50"]
          /\ w.acc = b.acc
      BY <1>2 DEF SameButPriority
    <3>2. Mania!Lows(w) = Mania!Lows(b)
      BY <3>1, Zenon DEF Mania!Lows
    <3>3. QED
      BY <1>2, <3>1, <3>2 DEF SameButPriority, Mania!Open, Mania!Judgements
  <2>2. Mania!Searched(w) <=> Mania!Searched(b)
    BY <2>1 DEF Mania!Searched
  <2>3. CASE Mania!Searched(b)
    <3> DEFINE C == Mania!Closest(b, s, Mania!Tried(b, s))
    <3>1. Mania!Closest(w, s, Mania!Tried(w, s)) = C
      BY <1>2, ManiaSearchIsSame
    <3>2. PICK h \in C : r = Mania!Shifted(b, Mania!ToldApart(b, s, h))
      BY <1>3, <2>3 DEF Mania!Results
    <3>3. Whole(b, s, h)
      <4>1. b.acc # None /\ Mania!Lows(b) # << >> /\ h \in Mania!Tried(b, s)
        BY <2>3, <3>2 DEF Mania!Searched, Mania!Closest
      <4>2. QED
        BY <1>1, <1>5, <4>1, ManiaTried
    <3>4. Mania!Shifted(w, Mania!ToldApart(w, s, h)) \in Mania!Results(w, s)
      <4> HIDE DEF C
      <4>1. Mania!Results(w, s) = {Mania!Shifted(w, Mania!ToldApart(w, s, g)) : g \in C}
        BY <2>2, <2>3, <3>1 DEF Mania!Results
      <4>2. QED
        BY <3>2, <4>1
    <3>5. Mania!CustomPoints(r) >= Mania!CustomPoints(Mania!Shifted(w, Mania!ToldApart(w, s, h)))
      BY <1>1, <1>2, <1>5, <3>2, <3>3, ManiaFoundIsBetter
    <3>6. QED
      BY <3>4, <3>5
  <2>4. CASE ~Mania!Searched(b)
    <3> DEFINE g == [f \in Mania!Judgements |-> Mania!Given(b, s, f)]
               rest == Mania!SaturatingSub(s.remaining, g.n320 + g.n300 + g.n200 + g.n100 + g.n50)
               to == Mania!RestTo(b)
               wo == Mania!RestTo(w)
               q == [g EXCEPT ![wo] = @ + rest]
    <3>1. r = [g EXCEPT ![to] = @ + rest]
      BY <1>3, <2>4 DEF Mania!Results
    <3>2. Mania!Results(w, s) = {q}
      <4>1. \A f \in Mania!Judgements : Mania!Given(w, s, f) = Mania!Given(b, s, f)
        BY <1>2 DEF SameButPriority, Mania!Given, Mania!Judgements
      <4>2. [f \in Mania!Judgements |-> Mania!Given(w, s, f)] = g
        BY <4>1
      <4>3. QED
        BY <2>2, <2>4, <4>2 DEF Mania!Results
    <3>3. g \in ManiaHits
      <4>1. \A f \in Mania!Judgements : Mania!Given(b, s, f) \in Nat
        BY <1>1, <1>5, ManiaGivenType DEF ManiaSetups
      <4>2. QED
        BY <4>1 DEF ManiaHits, Mania!Judgements
    <3> HIDE DEF g
    <3>4. /\ g.n320 \in Nat /\ g.n300 \in Nat /\ g.n200 \in Nat /\ g.n100 \in Nat /\ g.n50 \in Nat
          /\ rest \in Nat
      BY <1>5, <3>3 DEF ManiaHits, ManiaSetups
    <3>5. CustomValue(to) >= CustomValue(wo)
      BY <1>1, <1>2, ManiaRestIsBetter
    <3>6. to \in Mania!Judgements /\ wo \in Mania!Judgements
      BY ManiaRestTo
    <3> HIDE DEF rest, to, wo
    <3>7. ASSUME NEW f \in Mania!Judgements
          PROVE  Mania!CustomPoints([g EXCEPT ![f] = @ + rest])
                   = Mania!CustomPoints(g) + CustomValue(f) * rest
      <4>1. CASE f = "n320"
        BY <3>3, <3>4, <4>1 DEF Mania!CustomPoints, CustomValue, ManiaHits
      <4>2. CASE f = "n300"
        BY <3>3, <3>4, <4>2 DEF Mania!CustomPoints, CustomValue, ManiaHits
      <4>3. CASE f = "n200"
        BY <3>3, <3>4, <4>3 DEF Mania!CustomPoints, CustomValue, ManiaHits
      <4>4. CASE f = "n100"
        BY <3>3, <3>4, <4>4 DEF Mania!CustomPoints, CustomValue, ManiaHits
      <4>5. CASE f = "n50"
        BY <3>3, <3>4, <4>5 DEF Mania!CustomPoints, CustomValue, ManiaHits
      <4>6. QED
        BY <4>1, <4>2, <4>3, <4>4, <4>5 DEF Mania!Judgements
    <3>8. /\ Mania!CustomPoints(r) = Mania!CustomPoints(g) + CustomValue(to) * rest
          /\ Mania!CustomPoints(q) = Mania!CustomPoints(g) + CustomValue(wo) * rest
      BY <3>1, <3>6, <3>7, Zenon
    <3>9. CustomValue(to) \in Int /\ CustomValue(wo) \in Int /\ Mania!CustomPoints(g) \in Int
      BY <3>4, <3>6 DEF CustomValue, Mania!CustomPoints, Mania!Judgements
    <3> HIDE DEF q
    <3>10. CustomValue(to) * rest >= CustomValue(wo) * rest
      BY <3>4, <3>5, <3>6 DEF CustomValue, Mania!Judgements
    <3>11. Mania!CustomPoints(r) >= Mania!CustomPoints(q)
      BY <3>4, <3>8, <3>9, <3>10
    <3>12. QED
      BY <3>2, <3>11
  <2>5. QED
    BY <2>3, <2>4
<1>8. PICK q \in Mania!Results(w, s) : Mania!CustomPoints(r) >= Mania!CustomPoints(q)
  BY <1>7
<1>9. \A e : Mania!CustomPoints(State(e)) = Mania!CustomPoints(e)
  BY DEF Mania!CustomPoints, Mania!CountFields, Mania!Judgements
<1>10. State(q) \in Mania!States(w, c)
  BY <1>6
<1> HIDE DEF State
<1>11. QED
  BY <1>3, <1>8, <1>9, <1>10 DEF w

\* Whatever is set, in any mode: each state that may be generated for the best case is at
\* least as good as one that may be generated from the same settings for the worst case.
THEOREM BestAlwaysBetter == Spec => []BestIsBetter
<1>1. IInv => BestIsBetter
  <2> SUFFICES ASSUME IInv PROVE BestIsBetter
    OBVIOUS
  <2> DEFINE attrs == IF source.kind = "map" THEN AttrsOf(mode, opts.passed) ELSE source
  <2>1. play \in Plays /\ mode \in GameModes /\ OptsOf(mode, opts) /\ play.den \in Nat \ {0}
    BY PlaysAssumption DEF IInv, OptsFit
  <2>2. attrs.count \in CountOf(mode)
    <3>1. opts.passed \in Nat
      BY <2>1 DEF OptsOf, OsuOpts, TaikoOpts, CatchOpts, ManiaOpts, GameModes
    <3>2. AttrsOf(mode, opts.passed).count \in CountOf(mode)
      BY <2>1, <3>1, AttrsFit
    <3>3. CASE source = Map
      BY <3>2, <3>3 DEF Map
    <3>4. CASE source # Map
      <4>1. /\ source.kind = "attrs" /\ source.passed \in Nat
            /\ source = AttrsOf(mode, source.passed)
        BY <3>4 DEF IInv, SourceFits
      <4>2. AttrsOf(mode, source.passed).count \in CountOf(mode)
        BY <2>1, <4>1, AttrsFit
      <4>3. source.count \in CountOf(mode)
        BY <4>1, <4>2
      <4>4. QED
        BY <4>1, <4>3
    <3>5. QED
      BY <3>3, <3>4
  <2>3. /\ mode = "Osu" => attrs = Osu!InsertAttrs
        /\ mode = "Taiko" => attrs = Taiko!InsertAttrs
        /\ mode = "Mania" => attrs = Mania!InsertAttrs
    BY DEF AttrsOf, Osu!InsertAttrs, Taiko!InsertAttrs, Mania!InsertAttrs
  <2> HIDE DEF attrs
  <2>4. ASSUME mode = "Osu" PROVE Osu!BestIsBetter
    <3>1. OsuOpts(opts) /\ Osu!InsertAttrs.count \in OsuCount
      BY <2>1, <2>2, <2>3, <2>4 DEF OptsOf, CountOf
    <3>2. QED
      BY <2>1, <3>1, OsuBestIsBetter DEF Osu!BestIsBetter
  <2>5. ASSUME mode = "Taiko" PROVE Taiko!BestIsBetter
    <3>1. TaikoOpts(opts) /\ Taiko!InsertAttrs.count \in TaikoCount
      BY <2>1, <2>2, <2>3, <2>5 DEF OptsOf, CountOf
    <3>2. QED
      BY <2>1, <3>1, TaikoBestIsBetter DEF Taiko!BestIsBetter
  <2>6. ASSUME mode = "Mania" PROVE Mania!BestIsBetter
    <3>1. ManiaOpts(opts) /\ Mania!InsertAttrs.count \in ManiaCount
      BY <2>1, <2>2, <2>3, <2>6 DEF OptsOf, CountOf
    <3>2. QED
      BY <2>1, <3>1, ManiaBestIsBetter DEF Mania!BestIsBetter
  <2>7. QED
    BY <2>4, <2>5, <2>6 DEF BestIsBetter
<1>2. QED
  BY <1>1, InvariantHolds, PTL

-----------------------------------------------------------------------------
(* The search for an accuracy *)

\* Products with a natural number keep the order.
LEMMA TimesKeepsOrder == \A d \in Nat : \A a, b \in Int : a <= b => d * a <= d * b
OBVIOUS

\* A quotient rounded down and up is around the fraction.
LEMMA Rounded ==
  ASSUME NEW num \in Nat, NEW d \in Nat \ {0}
  PROVE  /\ Floor(num, d) \in Nat /\ Ceil(num, d) \in Nat
         /\ d * Floor(num, d) <= num /\ num < d * (Floor(num, d) + 1)
         /\ d * (Ceil(num, d) - 1) < num /\ num <= d * Ceil(num, d)
<1>1. \A n \in Nat : /\ n \div d \in Nat
                     /\ d * (n \div d) <= n /\ n < d * ((n \div d) + 1)
  OBVIOUS
<1>2. num + d - 1 \in Nat
  OBVIOUS
<1>3. Floor(num, d) = num \div d /\ Ceil(num, d) = (num + d - 1) \div d
  BY DEF Floor, Ceil
<1> DEFINE c == (num + d - 1) \div d
<1>4. c \in Nat /\ d * c <= num + d - 1 /\ num + d - 1 < d * (c + 1)
  BY <1>1, <1>2
<1> HIDE DEF c
<1>5. d * (c - 1) = d * c - d /\ d * (c + 1) = d * c + d /\ d * c \in Int
  BY <1>4
<1>6. d * (c - 1) < num /\ num <= d * c
  BY <1>4, <1>5
<1>7. QED
  BY <1>1, <1>3, <1>4, <1>6 DEF c

\* Rounded down is not more than rounded up.
LEMMA RoundedInOrder ==
  ASSUME NEW num \in Int, NEW d \in Nat \ {0}
  PROVE  Floor(num, d) \in Nat /\ Ceil(num, d) \in Nat /\ Floor(num, d) <= Ceil(num, d)
<1>1. CASE num < 0
  BY <1>1 DEF Floor, Ceil
<1>2. CASE num >= 0
  <2> DEFINE f == Floor(num, d)
             c == Ceil(num, d)
  <2>1. f \in Nat /\ c \in Nat /\ d * f <= num /\ num <= d * c
    BY <1>2, Rounded
  <2> HIDE DEF f, c
  <2>2. c < f => d * (c + 1) <= d * f
    BY <2>1, TimesKeepsOrder
  <2>3. d * (c + 1) = d * c + d /\ d * c \in Int /\ d * f \in Int
    BY <2>1
  <2>4. f <= c
    BY <2>1, <2>2, <2>3
  <2>5. QED
    BY <2>1, <2>4 DEF f, c
<1>3. QED
  BY <1>1, <1>2

\* Of two numbers on the same side of L, the one nearer to it is closer.
LEMMA SameSide ==
  \A L, x, y \in Int : (y <= x /\ x <= L) \/ (L <= x /\ x <= y) => Absolute(L - x) <= Absolute(L - y)
BY DEF Absolute

\* `n` limited to low..max, where low is given.
AtLeast(low, n) == IF n < low THEN low ELSE n

\* Of the numbers n in low..max, one of those around the fraction num / d, limited to
\* low..max, is the closest to it.
LEMMA Nearest ==
  ASSUME NEW num \in Int, NEW d \in Nat \ {0}, NEW max \in Nat, NEW low \in 0..max,
         NEW n \in low..max
  PROVE  \E m \in AtLeast(low, Least(max, Floor(num, d)))
                    .. AtLeast(low, Least(max, Ceil(num, d))) :
            m \in low..max /\ Absolute(num - d * m) <= Absolute(num - d * n)
<1> DEFINE f == Floor(num, d)
           c == Ceil(num, d)
           lo == AtLeast(low, Least(max, f))
           hi == AtLeast(low, Least(max, c))
<1> USE DEF Least
<1> SUFFICES \E m \in lo..hi :
               m \in low..max /\ Absolute(num - d * m) <= Absolute(num - d * n)
  OBVIOUS
<1>1. n \in Nat /\ low \in Nat /\ low <= n /\ n <= max
  OBVIOUS
<1>2. \A m \in low..max : m \in Int /\ d * m \in Int
  OBVIOUS
<1>3. \A i, j \in Int : i <= j => d * i <= d * j
  BY TimesKeepsOrder
<1>4. CASE num < 0
  <2>1. f = 0 /\ c = 0
    BY <1>4 DEF Floor, Ceil
  <2>2. lo = low /\ hi = low
    BY <1>1, <2>1 DEF AtLeast
  <2>3. d * low <= d * n /\ 0 <= d * low
    BY <1>1, TimesKeepsOrder
  <2>4. Absolute(num - d * low) <= Absolute(num - d * n)
    <3>1. d * low \in Int /\ d * n \in Int /\ num <= d * low
      BY <1>1, <1>4, <2>3
    <3>2. QED
      BY <2>3, <3>1, SameSide, Zenon
  <2> HIDE DEF lo, hi
  <2>5. QED
    BY <1>1, <2>2, <2>4
<1>5. CASE num >= 0
  <2>1. /\ f \in Nat /\ c \in Nat /\ d * f <= num /\ num < d * (f + 1)
        /\ d * (c - 1) < num /\ num <= d * c
    BY <1>5, Rounded
  <2> HIDE DEF f, c
  <2>2. c = f \/ c = f + 1
    <3>1. ~(f < c - 1)
      <4>1. f < c - 1 => d * (f + 1) <= d * (c - 1)
        BY <2>1, TimesKeepsOrder
      <4>2. d * (f + 1) \in Int /\ d * (c - 1) \in Int
        BY <2>1
      <4>3. QED
        BY <2>1, <4>1, <4>2
    <3>2. ~(c < f)
      <4>1. c < f => d * (c + 1) <= d * f
        BY <2>1, TimesKeepsOrder
      <4>2. d * (c + 1) = d * c + d /\ d * c \in Int /\ d * f \in Int
        BY <2>1
      <4>3. QED
        BY <2>1, <4>1, <4>2
    <3>3. QED
      BY <2>1, <3>1, <3>2
  <2>3. lo \in low..max /\ hi \in low..max /\ lo <= hi
    BY <1>1, <2>1, <2>2 DEF AtLeast
  <2>4. CASE n <= lo
    <3>1. CASE lo <= f
      <4> HIDE DEF lo
      <4>1. d * n <= d * lo /\ d * lo <= d * f
        BY <1>2, <1>3, <2>1, <2>3, <2>4, <3>1
      <4>2. d * lo <= num /\ d * lo \in Int /\ d * n \in Int
        <5>1. d * f \in Int /\ d * lo \in Int /\ d * n \in Int
          BY <1>2, <2>1, <2>3
        <5>2. QED
          BY <2>1, <4>1, <5>1
      <4>5. Absolute(num - d * lo) <= Absolute(num - d * n)
        BY <4>1, <4>2, SameSide, Zenon
      <4>3. QED
        <5> HIDE DEF hi
        <5>1. lo \in lo..hi
          BY <2>3
        <5>2. QED
          BY <2>3, <4>5, <5>1
    <3>2. CASE lo > f
      <4>1. lo = low
        BY <1>1, <2>1, <3>2 DEF AtLeast
      <4>2. n = lo
        BY <1>1, <2>4, <4>1
      <4>3. QED
        <5> HIDE DEF lo, hi
        <5>1. n \in lo..hi /\ d * n \in Int
          BY <1>2, <2>3, <4>2
        <5>2. Absolute(num - d * n) <= Absolute(num - d * n)
          BY <5>1 DEF Absolute
        <5>3. QED
          BY <5>1, <5>2
    <3>3. QED
      BY <2>1, <2>3, <3>1, <3>2
  <2>5. CASE n > lo
    <3>1. CASE n <= hi
      <4> HIDE DEF lo, hi
      <4>1. n \in lo..hi /\ d * n \in Int
        BY <1>1, <1>2, <2>3, <2>5, <3>1
      <4>2. Absolute(num - d * n) <= Absolute(num - d * n)
        BY <4>1 DEF Absolute
      <4>3. QED
        BY <4>1, <4>2
    <3>2. CASE n > hi
      <4>1. hi >= c
        BY <1>1, <2>1, <3>2 DEF AtLeast
      <4> HIDE DEF hi
      <4>2. d * c <= d * hi /\ d * hi <= d * n
        BY <1>2, <1>3, <2>1, <2>3, <3>2, <4>1
      <4>3. num <= d * hi /\ d * hi \in Int /\ d * n \in Int
        <5>1. d * c \in Int /\ d * hi \in Int /\ d * n \in Int
          BY <1>2, <2>1, <2>3
        <5>2. QED
          BY <2>1, <4>2, <5>1
      <4>4. Absolute(num - d * hi) <= Absolute(num - d * n)
        BY <4>2, <4>3, SameSide, Zenon
      <4>5. QED
        <5> HIDE DEF lo
        <5>1. hi \in lo..hi
          BY <2>3
        <5>2. QED
          BY <2>3, <4>4, <5>1
    <3>3. QED
      BY <1>1, <2>3, <3>1, <3>2
  <2>6. QED
    BY <1>1, <2>3, <2>4, <2>5
<1>6. QED
  BY <1>4, <1>5

\* All modes round and compare alike.
LEMMA SameRounding ==
  \A n, d : /\ Osu!Floor(n, d) = Floor(n, d) /\ Osu!Ceil(n, d) = Ceil(n, d)
            /\ Taiko!Floor(n, d) = Floor(n, d) /\ Taiko!Ceil(n, d) = Ceil(n, d)
            /\ Catch!Floor(n, d) = Floor(n, d) /\ Catch!Ceil(n, d) = Ceil(n, d)
            /\ Mania!Floor(n, d) = Floor(n, d) /\ Mania!Ceil(n, d) = Ceil(n, d)
            /\ Osu!Absolute(n) = Absolute(n) /\ Taiko!Absolute(n) = Absolute(n)
            /\ Catch!Absolute(n) = Absolute(n) /\ Mania!Absolute(n) = Absolute(n)
BY DEF Floor, Ceil, Absolute, Osu!Floor, Osu!Ceil, Osu!Absolute,
       Taiko!Floor, Taiko!Ceil, Taiko!Absolute, Catch!Floor, Catch!Ceil, Catch!Absolute,
       Mania!Floor, Mania!Ceil, Mania!Absolute

\* Without a lower limit, one of the numbers around the fraction is the closest to it.
LEMMA NearestOfAll ==
  ASSUME NEW num \in Int, NEW d \in Nat \ {0}, NEW max \in Nat, NEW n \in 0..max
  PROVE  \E m \in Least(max, Floor(num, d)) .. Least(max, Ceil(num, d)) :
            m \in 0..max /\ Absolute(num - d * m) <= Absolute(num - d * n)
<1>1. PICK m \in AtLeast(0, Least(max, Floor(num, d))) .. AtLeast(0, Least(max, Ceil(num, d))) :
            m \in 0..max /\ Absolute(num - d * m) <= Absolute(num - d * n)
  <2>1. 0 \in 0..max
    OBVIOUS
  <2>2. QED
    BY <2>1, Nearest, Zenon
<1>2. Floor(num, d) \in Nat /\ Ceil(num, d) \in Nat
  BY RoundedInOrder
<1>3. /\ AtLeast(0, Least(max, Floor(num, d))) = Least(max, Floor(num, d))
      /\ AtLeast(0, Least(max, Ceil(num, d))) = Least(max, Ceil(num, d))
  BY <1>2 DEF AtLeast, Least
<1>4. QED
  BY <1>1, <1>3

\* osu!taiko: no other split into 300s and 100s is closer to the accuracy.
LEMMA TaikoClosest ==
  ASSUME NEW acc \in Nat, NEW total \in Nat, NEW remaining \in Nat, play.den \in Nat \ {0},
         NEW m \in Taiko!Closest(acc, total, remaining), NEW n \in 0..remaining
  PROVE  Taiko!Dist(acc, m, remaining - m, total) <= Taiko!Dist(acc, n, remaining - n, total)
<1> DEFINE raw == acc * 2 * total - remaining * play.den
           D(k) == Taiko!Dist(acc, k, remaining - k, total)
           C == Taiko!Candidates(acc, total, remaining)
<1>1. acc * 2 * total \in Int /\ remaining * play.den \in Int
  OBVIOUS
<1>2. raw \in Int
  BY <1>1
<1>3. \A k \in 0..remaining : D(k) = Absolute(raw - play.den * k) /\ D(k) \in Int
  <2> SUFFICES ASSUME NEW k \in 0..remaining
               PROVE  D(k) = Absolute(raw - play.den * k) /\ D(k) \in Int
    OBVIOUS
  <2>1. 2 * k + (remaining - k) = remaining + k
    OBVIOUS
  <2>2. (remaining + k) * play.den = remaining * play.den + play.den * k
    OBVIOUS
  <2>3. D(k) = Absolute(acc * 2 * total - (remaining + k) * play.den)
    BY <2>1, SameRounding DEF Taiko!Dist
  <2>4. play.den * k \in Int
    OBVIOUS
  <2>5. acc * 2 * total - (remaining + k) * play.den = raw - play.den * k
    BY <1>1, <2>2, <2>4
  <2>6. raw - play.den * k \in Int
    BY <1>2, <2>4
  <2>7. QED
    BY <2>3, <2>5, <2>6 DEF Absolute
<1>4. C = Least(remaining, Floor(raw, play.den)) .. Least(remaining, Ceil(raw, play.den))
  BY SameRounding DEF Taiko!Candidates, Least
<1>5. m \in 0..remaining /\ \A k \in C : D(m) <= D(k)
  BY TaikoCandidates DEF Taiko!Closest
<1> HIDE DEF raw, C, D
<1>6. PICK k \in C : k \in 0..remaining
                     /\ Absolute(raw - play.den * k) <= Absolute(raw - play.den * n)
  BY <1>2, <1>4, NearestOfAll, Zenon
<1>7. D(m) <= D(k) /\ D(k) <= D(n)
  BY <1>3, <1>5, <1>6
<1>8. D(m) \in Int /\ D(k) \in Int /\ D(n) \in Int
  BY <1>3, <1>5, <1>6
<1>9. D(m) <= D(n)
  BY <1>7, <1>8
<1>10. QED
  BY <1>9 DEF D

\* The same of the state that is generated.
LEMMA TaikoStateIsClosest ==
  ASSUME NEW o, TaikoOpts(o), NEW c \in TaikoCount, play.den \in Nat \ {0},
         NEW st \in Taiko!States(o, c), o.acc # None, o.n300 = None, o.n100 = None
  PROVE  Taiko!AsCloseAsPossible(o.acc, st, Taiko!TotalResults(o, c))
<1> DEFINE total == Taiko!TotalResults(o, c)
           misses == Taiko!Misses(o, total)
<1>1. o.passed \in Nat /\ c.max_combo \in Nat /\ o.misses \in Count /\ o.acc \in Nat
  BY DEF TaikoOpts, TaikoCount, Count
<1>2. total \in Nat
  BY <1>1 DEF Taiko!TotalResults
<1> HIDE DEF total
<1>3. misses \in 0..total
  BY <1>1, <1>2, NoneIsNoNumber DEF Taiko!Misses, Count
<1> HIDE DEF misses
<1>4. PICK r \in Taiko!Results(o, total, misses) :
        st = [combo |-> Taiko!ComboOf(o, c, misses), n300 |-> r[1], n100 |-> r[2],
              misses |-> misses]
  BY DEF Taiko!States, total, misses
<1>5. PICK m \in Taiko!Closest(o.acc, total, total - misses) : r = <<m, (total - misses) - m>>
  BY <1>4 DEF Taiko!Results
<1>6. /\ st.n300 = m /\ st.n100 = (total - misses) - m
      /\ Taiko!SaturatingSub(total, st.misses) = total - misses /\ total - misses \in Nat
  BY <1>2, <1>3, <1>4, <1>5
<1>7. \A n \in 0..(total - misses) :
         Taiko!Dist(o.acc, m, (total - misses) - m, total)
           <= Taiko!Dist(o.acc, n, (total - misses) - n, total)
  BY <1>1, <1>2, <1>5, <1>6, TaikoClosest
<1>8. Taiko!AsCloseAsPossible(o.acc, st, total)
  BY <1>6, <1>7, Zenon DEF Taiko!AsCloseAsPossible
<1>9. QED
  BY <1>8 DEF total

\* osu!catch: no other number of tiny droplets is closer to the accuracy.
LEMMA CatchStateIsClosest ==
  ASSUME NEW o, CatchOpts(o), NEW c \in CatchCount, play.den \in Nat \ {0},
         NEW st \in Catch!States(o, c),
         o.acc # None, o.tiny_droplets = None, o.tiny_droplet_misses = None,
         NEW n \in 0..c.tiny_droplets
  PROVE  Catch!Dist(o.acc, c, st.fruits + st.droplets + st.tiny_droplets)
           <= Catch!Dist(o.acc, c, st.fruits + st.droplets + n)
<1> DEFINE misses == Catch!Misses(o, c)
           r == Catch!FruitsAndDroplets(o, c, misses)
           T == c.tiny_droplets
           caught == r[1] + r[2]
           raw == o.acc * (Catch!Palps(c) + T) - play.den * caught
           D(k) == Catch!Dist(o.acc, c, caught + k)
           C == Least(T, Floor(raw, play.den)) .. Least(T, Ceil(raw, play.den))
<1>1. /\ Catch!Palps(c) \in Nat /\ o.misses \in Count /\ o.acc \in Nat /\ T \in Nat
  BY DEF CatchCount, CatchOpts, Catch!Palps, Count
<1>2. misses \in 0..Catch!Palps(c)
  BY <1>1 DEF Catch!Misses, Count
<1> HIDE DEF misses
<1>3. r[1] \in Nat /\ r[2] \in Nat
  BY <1>2, CatchFruits
<1>4. PICK t \in Catch!TinyResults(o, c, caught) :
        st = [combo |-> Catch!ComboOf(o, c, misses), fruits |-> r[1], droplets |-> r[2],
              tiny_droplets |-> t[1], tiny_droplet_misses |-> t[2], misses |-> misses]
  BY DEF Catch!States, misses
<1> HIDE DEF r
<1>5. caught \in Nat
  BY <1>3
<1>6. st.fruits + st.droplets = caught /\ st.tiny_droplets = t[1]
  BY <1>4
<1> HIDE DEF caught
<1>7. o.acc * (Catch!Palps(c) + T) \in Int /\ play.den * caught \in Int
  BY <1>1, <1>5
<1>8. raw \in Int
  BY <1>7
<1>9. \A k \in 0..T : D(k) = Absolute(raw - play.den * k) /\ D(k) \in Int
  <2> SUFFICES ASSUME NEW k \in 0..T
               PROVE  D(k) = Absolute(raw - play.den * k) /\ D(k) \in Int
    OBVIOUS
  <2>1. k \in Nat
    BY <1>1
  <2>2. play.den * (caught + k) = play.den * caught + play.den * k /\ play.den * k \in Int
    BY <1>5, <2>1
  <2>3. o.acc * (Catch!Palps(c) + T) - play.den * (caught + k) = raw - play.den * k
    BY <1>7, <2>2
  <2>4. D(k) = Absolute(raw - play.den * k)
    BY <2>3, SameRounding DEF Catch!Dist
  <2>5. raw - play.den * k \in Int
    BY <1>8, <2>2
  <2>6. QED
    BY <2>4, <2>5 DEF Absolute
<1>10. PICK m \in Catch!BestTiny(o.acc, c, caught) : t = <<m, T - m>>
  BY <1>4 DEF Catch!TinyResults, Catch!Searched
<1>11. m \in C /\ \A k \in C : D(m) <= D(k)
  BY <1>10, SameRounding DEF Catch!BestTiny, Least
<1>12. m \in 0..T
  <2> HIDE DEF raw
  <2>1. Floor(raw, play.den) \in Nat /\ Ceil(raw, play.den) \in Nat
    BY <1>8, RoundedInOrder
  <2>2. QED
    BY <1>1, <1>11, <2>1 DEF Least
<1> HIDE DEF raw, D
<1>13. PICK k \in C : k \in 0..T /\ Absolute(raw - play.den * k) <= Absolute(raw - play.den * n)
  BY <1>1, <1>8, NearestOfAll, Zenon
<1> HIDE DEF C
<1>14. D(m) <= D(k) /\ D(k) <= D(n)
  BY <1>9, <1>11, <1>13
<1>15. D(m) \in Int /\ D(k) \in Int /\ D(n) \in Int
  BY <1>9, <1>12, <1>13
<1>16. D(m) <= D(n)
  BY <1>14, <1>15
<1>17. t[1] = m
  BY <1>10
<1>18. QED
  BY <1>6, <1>16, <1>17 DEF D

\* Of what up to `free` results, of five units or of one, add to none at all: the closest to
\* L has as many of five units as L has room for, rounded down or up.
LEMMA NearestPair ==
  ASSUME NEW L \in Int, NEW u \in Nat \ {0}, NEW free \in Nat,
         NEW a \in 0..free, NEW b \in 0..(free - a)
  PROVE  \E k \in Least(free, Floor(L, 5 * u)) .. Least(free, Ceil(L, 5 * u)) :
            /\ k \in 0..free
            /\ \E j \in 0..(free - k) :
                  Absolute(L - u * (5 * k + j)) <= Absolute(L - u * (5 * a + b))
<1> DEFINE f == Floor(L, 5 * u)
           c == Ceil(L, 5 * u)
           lo == Least(free, f)
           hi == Least(free, c)
           v == 5 * a + b
<1> SUFFICES \E k \in lo..hi : /\ k \in 0..free
                               /\ \E j \in 0..(free - k) :
                                     Absolute(L - u * (5 * k + j)) <= Absolute(L - u * v)
  BY Zenon
<1>1. 5 * u \in Nat \ {0}
  OBVIOUS
<1>2. f \in Nat /\ c \in Nat /\ f <= c
  BY <1>1, RoundedInOrder
<1>3. a \in Nat /\ b \in Nat /\ a <= free /\ b <= free - a /\ v \in Nat
  OBVIOUS
<1>4. /\ L < 0 => f = 0 /\ c = 0
      /\ L >= 0 => (5 * u) * f <= L /\ L <= (5 * u) * c
  <2>1. L < 0 => f = 0 /\ c = 0
    BY DEF Floor, Ceil
  <2>2. L >= 0 => (5 * u) * f <= L /\ L <= (5 * u) * c
    BY <1>1, Rounded
  <2>3. QED
    BY <2>1, <2>2
<1> HIDE DEF f, c
<1>5. (5 * u) * f = u * (5 * f) /\ (5 * u) * c = u * (5 * c)
  BY <1>2
<1>6. lo \in 0..free /\ hi \in 0..free /\ lo <= hi
  BY <1>2 DEF Least
<1>7. \A x, y \in Nat : x <= y => u * x <= u * y /\ u * x \in Int /\ u * y \in Int
  BY TimesKeepsOrder
<1>8. \A x, y \in Int : (y <= x /\ x <= L) \/ (L <= x /\ x <= y) => Absolute(L - x) <= Absolute(L - y)
  BY SameSide, Zenon
<1>9. ASSUME NEW k \in lo..hi, NEW j \in 0..(free - k),
             Absolute(L - u * (5 * k + j)) <= Absolute(L - u * v)
      PROVE  \E i \in lo..hi : /\ i \in 0..free
                               /\ \E e \in 0..(free - i) :
                                     Absolute(L - u * (5 * i + e)) <= Absolute(L - u * v)
  <2>1. k \in 0..free
    BY <1>6
  <2>2. QED
    BY <1>9, <2>1, Zenon
<1>10. CASE a \in lo..hi
  <2>1. u * v \in Int
    BY <1>3, <1>7
  <2>2. Absolute(L - u * v) <= Absolute(L - u * v)
    BY <2>1 DEF Absolute
  <2>3. QED
    BY <1>3, <1>9, <1>10, <2>2, Zenon
<1>11. CASE a < lo
  <2>1. L >= 0
    BY <1>3, <1>4, <1>11 DEF Least
  <2>2. CASE v <= 5 * lo
    <3>1. u * v <= u * (5 * lo) /\ u * (5 * lo) \in Int /\ u * v \in Int
      BY <1>3, <1>6, <1>7, <2>2
    <3>2. u * (5 * lo) <= u * (5 * f) /\ u * (5 * f) \in Int
      <4>1. lo <= f
        BY <1>2 DEF Least
      <4> HIDE DEF lo
      <4>2. QED
        BY <1>2, <1>6, <1>7, <4>1
    <3> HIDE DEF lo, v
    <3>3. u * (5 * lo) <= L
      BY <1>4, <1>5, <2>1, <3>1, <3>2
    <3>4. Absolute(L - u * (5 * lo)) <= Absolute(L - u * v)
      BY <1>8, <3>1, <3>3
    <3>5. 5 * lo + 0 = 5 * lo /\ lo \in lo..hi /\ 0 \in 0..(free - lo)
      BY <1>6
    <3>6. QED
      BY <1>9, <3>4, <3>5, Zenon
  <2>3. CASE v > 5 * lo
    <3> DEFINE j == v - 5 * lo
    <3>1. j \in 0..(free - lo) /\ 5 * lo + j = v
      <4>1. lo \in Nat
        BY <1>6
      <4> HIDE DEF lo
      <4>2. QED
        BY <1>3, <1>11, <2>3, <4>1
    <3> HIDE DEF j
    <3>2. u * v \in Int /\ lo \in lo..hi
      BY <1>3, <1>6, <1>7
    <3> HIDE DEF lo, v
    <3>3. Absolute(L - u * (5 * lo + j)) <= Absolute(L - u * v)
      BY <3>1, <3>2 DEF Absolute
    <3>4. QED
      BY <1>9, <3>1, <3>2, <3>3, Zenon
  <2>4. QED
    BY <1>3, <1>6, <2>2, <2>3
<1>12. CASE a > hi
  <2>1. hi = c
    BY <1>2, <1>3, <1>12 DEF Least
  <2>2. 5 * hi <= v /\ 5 * hi \in Nat
    <3>1. hi \in Nat
      BY <1>6
    <3> HIDE DEF hi
    <3>2. QED
      BY <1>3, <1>12, <3>1
  <2> HIDE DEF lo, v
  <2>3. u * (5 * hi) <= u * v /\ u * (5 * hi) \in Int /\ u * v \in Int
    BY <1>3, <1>7, <2>2
  <2>4. L <= u * (5 * hi)
    <3>1. CASE L >= 0
      BY <1>4, <1>5, <2>1, <3>1
    <3>2. CASE L < 0
      BY <1>4, <2>1, <3>2
    <3>3. QED
      BY <3>1, <3>2
  <2> HIDE DEF hi
  <2>5. Absolute(L - u * (5 * hi)) <= Absolute(L - u * v)
    BY <1>8, <2>3, <2>4
  <2>6. 5 * hi + 0 = 5 * hi /\ hi \in lo..hi /\ 0 \in 0..(free - hi)
    BY <1>6
  <2>7. QED
    BY <1>9, <2>5, <2>6
<1>13. QED
  BY <1>3, <1>6, <1>10, <1>11, <1>12

\* osu!standard: for every split of the results that are left which respects the count that
\* is given, if any, one is tried that is at least as close to the accuracy.
LEMMA OsuTriesCloser ==
  ASSUME NEW o, OsuOpts(o), NEW s \in OsuSetups, play.den \in Nat \ {0}, o.acc # None,
         \E f, g \in Osu!Open(o) : f # g,
         NEW h \in OsuHits, Judged(h) = s.remaining,
         \A f \in {"n300", "n100", "n50"} \ Osu!Open(o) : h[f] = Osu!Given(o, s, f)
  PROVE  \E g \in Osu!Candidates(o, s) :
            /\ Osu!Dist(o, s, g) <= Osu!Dist(o, s, h)
            /\ Osu!Dist(o, s, g) \in Int /\ Osu!Dist(o, s, h) \in Int
<1> DEFINE target == o.acc * s.max_points
           Left(base) == target - play.den * (base + s.slider)
           n300 == Osu!Given(o, s, "n300")
           n100 == Osu!Given(o, s, "n100")
           n50  == Osu!Given(o, s, "n50")
           free == s.remaining - n300 - n100 - n50
           den == play.den
           Closer(g) == /\ Osu!Dist(o, s, g) <= Osu!Dist(o, s, h)
                        /\ Osu!Dist(o, s, g) \in Int /\ Osu!Dist(o, s, h) \in Int
           A == {Osu!Hits(n300, k, free - k) :
                   k \in Osu!Around(Left(5 * free + 30 * n300), 5, free)}
           B == {Osu!Hits(k, n100, free - k) :
                   k \in Osu!Around(Left(5 * free + 10 * n100), 25, free)}
           C == {Osu!Hits(k, free - k, n50) :
                   k \in Osu!Around(Left(10 * s.total - 10 * s.misses - 5 * n50), 20, free)}
           D == UNION {{Osu!Hits(k, j, free - k - j) :
                          j \in Osu!Around(Left(5 * free + 25 * k), 5, free - k)} :
                        k \in Osu!Around(Left(5 * free), 25, free)}
<1>1. /\ s.remaining \in Nat /\ s.max_points \in Nat /\ s.slider \in Nat
      /\ s.total \in Nat /\ s.misses \in Nat /\ s.misses + s.remaining = s.total
      /\ o.acc \in Nat /\ den \in Nat \ {0} /\ target \in Int
  BY NoneIsNoNumber DEF OsuSetups, OsuOpts, Count
<1>2. /\ h.n300 \in Nat /\ h.n100 \in Nat /\ h.n50 \in Nat
      /\ h.n300 + h.n100 + h.n50 = s.remaining
  BY DEF OsuHits, Judged
<1>3. /\ n300 \in 0..s.remaining /\ n100 \in 0..s.remaining /\ n50 \in 0..s.remaining
      /\ o.n300 = None => n300 = 0
      /\ o.n100 = None => n100 = 0
      /\ o.n50 = None => n50 = 0
  BY OsuGivenType
<1>4. /\ o.n300 # None => h.n300 = n300
      /\ o.n100 # None => h.n100 = n100
      /\ o.n50 # None => h.n50 = n50
  BY DEF Osu!Open
<1>5. \/ o.n300 = None /\ o.n100 = None
      \/ o.n300 = None /\ o.n50 = None
      \/ o.n100 = None /\ o.n50 = None
  BY DEF Osu!Open
<1>6. Osu!Candidates(o, s) =
        CASE o.n300 # None -> A [] o.n100 # None -> B [] o.n50 # None -> C [] OTHER -> D
  BY DEF Osu!Candidates
<1>7. ASSUME NEW x \in Nat
      PROVE  /\ Left(x) \in Int
             /\ \A unit \in Nat : \A k \in Nat :
                  /\ Left(x + unit * k) = Left(x) - (den * unit) * k
                  /\ Left(x + unit * k) \in Int
  <2>1. \A y \in Nat : den * (y + s.slider) = den * y + den * s.slider /\ den * y \in Int
    BY <1>1, <1>7
  <2>2. den * s.slider \in Int
    BY <1>1
  <2>3. \A y \in Nat : Left(y) = target - den * y - den * s.slider /\ Left(y) \in Int
    BY <1>1, <2>1, <2>2
  <2>4. ASSUME NEW unit \in Nat, NEW k \in Nat
        PROVE  /\ x + unit * k \in Nat
               /\ den * (x + unit * k) = den * x + (den * unit) * k
               /\ (den * unit) * k \in Int /\ den * x \in Int
    BY <1>1, <1>7, <2>4
  <2> HIDE DEF Left, target, den
  <2>5. ASSUME NEW unit \in Nat, NEW k \in Nat
        PROVE  /\ Left(x + unit * k) = Left(x) - (den * unit) * k
               /\ Left(x + unit * k) \in Int
    <3>1. /\ x + unit * k \in Nat
          /\ den * (x + unit * k) = den * x + (den * unit) * k
          /\ (den * unit) * k \in Int /\ den * x \in Int
      BY <2>4, <2>5, Zenon
    <3>2. QED
      BY <1>1, <1>7, <2>2, <2>3, <3>1
  <2>6. QED
    BY <1>7, <2>3, <2>5
<1>8. ASSUME NEW g \in OsuHits, NEW x \in Nat, Osu!Points(g) = x
      PROVE  Osu!Dist(o, s, g) = Absolute(Left(x)) /\ Osu!Dist(o, s, g) \in Int
  <2>1. Left(x) \in Int
    BY <1>7, Zenon
  <2>2. Osu!Dist(o, s, g) = Absolute(Left(x))
    BY <1>8, SameRounding DEF Osu!Dist
  <2>3. QED
    BY <2>1, <2>2 DEF Absolute
<1> HIDE DEF target, Left
\* One count goes up by a unit, from a base: the closest of them is tried.
<1>9. ASSUME NEW x \in Nat, NEW unit \in Nat \ {0}, NEW max \in Nat, NEW n \in 0..max
      PROVE  \E k \in Osu!Around(Left(x), unit, max) :
                k \in 0..max /\ Absolute(Left(x + unit * k)) <= Absolute(Left(x + unit * n))
  <2> DEFINE d == den * unit
  <2>1. d \in Nat \ {0} /\ Left(x) \in Int
    <3>1. d \in Nat \ {0}
      BY <1>1, <1>9
    <3>2. QED
      BY <1>7, <1>9, <3>1
  <2>2. Osu!Around(Left(x), unit, max) =
          Least(max, Floor(Left(x), d)) .. Least(max, Ceil(Left(x), d))
    BY SameRounding DEF Osu!Around, Least
  <2>3. \A k \in 0..max : Left(x + unit * k) = Left(x) - d * k
    BY <1>7, <1>9
  <2> HIDE DEF d, den
  <2>4. PICK k \in Least(max, Floor(Left(x), d)) .. Least(max, Ceil(Left(x), d)) :
          k \in 0..max /\ Absolute(Left(x) - d * k) <= Absolute(Left(x) - d * n)
    BY <2>1, NearestOfAll, Zenon
  <2>5. QED
    BY <2>2, <2>3, <2>4, Zenon
<1>0. 5 \in Nat \ {0} /\ 20 \in Nat \ {0} /\ 25 \in Nat \ {0}
  OBVIOUS
<1> HIDE DEF n300, n100, n50, den, A, B, C, D
<1>10. \A x, y, z \in Nat : /\ Osu!Hits(x, y, z) \in OsuHits
                            /\ Osu!Points(Osu!Hits(x, y, z)) = 30 * x + 10 * y + 5 * z
  BY DEF Osu!Hits, OsuHits, Osu!Points
<1>11. /\ Osu!Points(h) = 30 * h.n300 + 10 * h.n100 + 5 * h.n50 /\ Osu!Points(h) \in Nat
  BY <1>2 DEF Osu!Points
<1>12. ASSUME NEW g \in OsuHits, Osu!Points(g) \in Nat,
              Absolute(Left(Osu!Points(g))) <= Absolute(Left(Osu!Points(h)))
       PROVE  Closer(g)
  BY <1>8, <1>11, <1>12
<1> HIDE DEF Closer
<1>13. CASE o.n300 # None
  <2> DEFINE x == 5 * free + 30 * n300
  <2>1. n100 = 0 /\ n50 = 0 /\ h.n300 = n300 /\ free \in Nat /\ h.n100 \in 0..free /\ x \in Nat
    BY <1>1, <1>2, <1>3, <1>4, <1>5, <1>13
  <2>2. Osu!Points(h) = x + 5 * h.n100
    BY <1>1, <1>2, <1>3, <1>11, <2>1
  <2> HIDE DEF x, free
  <2>3. PICK k \in Osu!Around(Left(x), 5, free) :
          k \in 0..free /\ Absolute(Left(x + 5 * k)) <= Absolute(Left(x + 5 * h.n100))
    BY <1>0, <1>9, <2>1, Zenon
  <2> DEFINE g == Osu!Hits(n300, k, free - k)
  <2>4. g \in A
    BY <2>3 DEF A, x
  <2>5. g \in OsuHits /\ Osu!Points(g) = x + 5 * k /\ x + 5 * k \in Nat
    <3>1. n300 \in Nat /\ k \in Nat /\ free - k \in Nat
      BY <1>1, <1>3, <2>1, <2>3
    <3>2. 30 * n300 + 10 * k + 5 * (free - k) = x + 5 * k
      BY <2>1, <3>1 DEF x
    <3>3. g \in OsuHits /\ Osu!Points(g) = 30 * n300 + 10 * k + 5 * (free - k)
      BY <1>10, <3>1, ZenonT(60)
    <3>4. x + 5 * k \in Nat
      BY <2>1, <3>1
    <3>5. QED
      BY <3>2, <3>3, <3>4
  <2> HIDE DEF g
  <2>6. Closer(g)
    BY <1>12, <2>2, <2>3, <2>5
  <2>7. Osu!Candidates(o, s) = A
    BY <1>5, <1>6, <1>13
  <2>8. QED
    BY <2>4, <2>6, <2>7 DEF Closer
<1>14. CASE o.n300 = None /\ o.n100 # None
  <2> DEFINE x == 5 * free + 10 * n100
  <2>1. n300 = 0 /\ n50 = 0 /\ h.n100 = n100 /\ free \in Nat /\ h.n300 \in 0..free /\ x \in Nat
    BY <1>1, <1>2, <1>3, <1>4, <1>5, <1>14
  <2>2. Osu!Points(h) = x + 25 * h.n300
    BY <1>1, <1>2, <1>3, <1>11, <2>1
  <2> HIDE DEF x, free
  <2>3. PICK k \in Osu!Around(Left(x), 25, free) :
          k \in 0..free /\ Absolute(Left(x + 25 * k)) <= Absolute(Left(x + 25 * h.n300))
    BY <1>0, <1>9, <2>1, Zenon
  <2> DEFINE g == Osu!Hits(k, n100, free - k)
  <2>4. g \in B
    BY <2>3 DEF B, x
  <2>5. g \in OsuHits /\ Osu!Points(g) = x + 25 * k /\ x + 25 * k \in Nat
    <3>1. n100 \in Nat /\ k \in Nat /\ free - k \in Nat
      BY <1>1, <1>3, <2>1, <2>3
    <3>2. 30 * k + 10 * n100 + 5 * (free - k) = x + 25 * k
      BY <2>1, <3>1 DEF x
    <3>3. g \in OsuHits /\ Osu!Points(g) = 30 * k + 10 * n100 + 5 * (free - k)
      BY <1>10, <3>1, ZenonT(60)
    <3>4. x + 25 * k \in Nat
      BY <2>1, <3>1
    <3>5. QED
      BY <3>2, <3>3, <3>4
  <2> HIDE DEF g
  <2>6. Closer(g)
    BY <1>12, <2>2, <2>3, <2>5
  <2>7. Osu!Candidates(o, s) = B
    BY <1>5, <1>6, <1>14
  <2>8. QED
    BY <2>4, <2>6, <2>7 DEF Closer
<1>15. CASE o.n300 = None /\ o.n100 = None /\ o.n50 # None
  <2> DEFINE x == 10 * s.total - 10 * s.misses - 5 * n50
  <2>1. n300 = 0 /\ n100 = 0 /\ h.n50 = n50 /\ free \in Nat /\ h.n300 \in 0..free /\ x \in Nat
    BY <1>1, <1>2, <1>3, <1>4, <1>5, <1>15
  <2>2. Osu!Points(h) = x + 20 * h.n300
    BY <1>1, <1>2, <1>3, <1>11, <2>1
  <2> HIDE DEF x, free
  <2>3. PICK k \in Osu!Around(Left(x), 20, free) :
          k \in 0..free /\ Absolute(Left(x + 20 * k)) <= Absolute(Left(x + 20 * h.n300))
    BY <1>0, <1>9, <2>1, Zenon
  <2> DEFINE g == Osu!Hits(k, free - k, n50)
  <2>4. g \in C
    BY <2>3 DEF C, x
  <2>5. g \in OsuHits /\ Osu!Points(g) = x + 20 * k /\ x + 20 * k \in Nat
    <3>1. n50 \in Nat /\ k \in Nat /\ free - k \in Nat
      BY <1>1, <1>3, <2>1, <2>3
    <3>2. 30 * k + 10 * (free - k) + 5 * n50 = x + 20 * k
      BY <1>1, <2>1, <3>1 DEF x, free
    <3>3. g \in OsuHits /\ Osu!Points(g) = 30 * k + 10 * (free - k) + 5 * n50
      BY <1>10, <3>1, ZenonT(60)
    <3>4. x + 20 * k \in Nat
      BY <2>1, <3>1
    <3>5. QED
      BY <3>2, <3>3, <3>4
  <2> HIDE DEF g
  <2>6. Closer(g)
    BY <1>12, <2>2, <2>3, <2>5
  <2>7. Osu!Candidates(o, s) = C
    BY <1>5, <1>6, <1>15
  <2>8. QED
    BY <2>4, <2>6, <2>7 DEF Closer
<1>16. CASE o.n300 = None /\ o.n100 = None /\ o.n50 = None
  <2> DEFINE x == 5 * free
             u == den * 5
             L == Left(x)
  <2>1. /\ n300 = 0 /\ n100 = 0 /\ n50 = 0 /\ free = s.remaining /\ free \in Nat /\ x \in Nat
        /\ h.n300 \in 0..free /\ h.n100 \in 0..(free - h.n300)
    BY <1>1, <1>2, <1>3, <1>16
  <2> HIDE DEF free
  <2>2. Osu!Points(h) = x + 5 * (5 * h.n300 + h.n100)
    BY <1>1, <1>2, <1>11, <2>1
  <2>3. u \in Nat \ {0} /\ 5 * u = den * 25 /\ L \in Int
    BY <1>1, <1>7, <2>1
  <2>4. Osu!Around(L, 25, free) = Least(free, Floor(L, 5 * u)) .. Least(free, Ceil(L, 5 * u))
    BY <2>3, SameRounding DEF Osu!Around, Least, den
  <2> HIDE DEF L, u
  <2>5. PICK k \in Osu!Around(L, 25, free) :
          /\ k \in 0..free
          /\ \E e \in 0..(free - k) :
                Absolute(L - u * (5 * k + e)) <= Absolute(L - u * (5 * h.n300 + h.n100))
    BY <2>1, <2>3, <2>4, NearestPair, Zenon
  <2>6. PICK e \in 0..(free - k) :
          Absolute(L - u * (5 * k + e)) <= Absolute(L - u * (5 * h.n300 + h.n100))
    BY <2>5
  <2>7. /\ k \in Nat /\ e \in Nat /\ free - k \in Nat /\ h.n300 \in Nat /\ h.n100 \in Nat
        /\ 5 * k + e \in Nat /\ 5 * h.n300 + h.n100 \in Nat /\ x + 25 * k \in Nat
    BY <1>2, <2>1, <2>5, <2>6
  <2>8. \A n \in Nat : Left(x + 5 * n) = L - u * n
    <3> HIDE DEF x
    <3>1. \A unit \in Nat : \A n \in Nat : Left(x + unit * n) = Left(x) - (den * unit) * n
      BY <1>7, <2>1
    <3>2. QED
      BY <3>1 DEF L, u
  <2>9. Absolute(Left(x + 5 * (5 * k + e))) <= Absolute(Left(Osu!Points(h)))
    BY <2>2, <2>6, <2>7, <2>8
  <2> DEFINE y == x + 25 * k
  <2> HIDE DEF x, y
  <2>10. PICK j \in Osu!Around(Left(y), 5, free - k) :
           /\ j \in 0..(free - k)
           /\ Absolute(Left(y + 5 * j)) <= Absolute(Left(y + 5 * e))
    <3>1. y \in Nat /\ free - k \in Nat /\ e \in 0..(free - k)
      BY <2>6, <2>7 DEF y
    <3>2. QED
      BY <1>0, <1>9, <3>1, Zenon
  <2> DEFINE g == Osu!Hits(k, j, free - k - j)
  <2>11. g \in D
    BY <2>5, <2>10 DEF D, L, x, y
  <2>12. j \in Nat /\ free - k - j \in Nat
    BY <2>7, <2>10
  <2>13. g \in OsuHits /\ Osu!Points(g) = y + 5 * j /\ Osu!Points(g) \in Nat
    <3>1. 30 * k + 10 * j + 5 * (free - k - j) = y + 5 * j
      BY <2>1, <2>7, <2>12 DEF x, y
    <3>2. g \in OsuHits /\ Osu!Points(g) = 30 * k + 10 * j + 5 * (free - k - j)
      <4>1. k \in Nat /\ j \in Nat /\ (free - k - j) \in Nat
        BY <2>7, <2>12
      <4>2. QED
        BY <1>10, <4>1, ZenonT(60)
    <3>3. y + 5 * j \in Nat
      BY <2>7, <2>12 DEF y
    <3>4. QED
      BY <3>1, <3>2, <3>3
  <2> HIDE DEF g
  <2>14. y + 5 * e = x + 5 * (5 * k + e)
    BY <2>1, <2>7 DEF y
  <2>15. Absolute(Left(Osu!Points(g))) <= Absolute(Left(Osu!Points(h)))
    <3>1. x + 5 * (5 * k + e) \in Nat
      BY <2>1, <2>7
    <3>2. /\ Left(Osu!Points(g)) \in Int /\ Left(x + 5 * (5 * k + e)) \in Int
          /\ Left(Osu!Points(h)) \in Int
      BY <1>7, <1>11, <2>13, <3>1, Zenon
    <3>3. QED
      BY <2>9, <2>10, <2>13, <2>14, <3>2 DEF Absolute
  <2>16. Closer(g)
    BY <1>12, <2>13, <2>15
  <2>17. Osu!Candidates(o, s) = D
    BY <1>6, <1>16
  <2>18. QED
    BY <2>11, <2>16, <2>17 DEF Closer
<1>17. QED
  BY <1>13, <1>14, <1>15, <1>16

\* The shift by priority changes no points.
LEMMA OsuShiftKeepsPoints ==
  ASSUME NEW o, NEW h \in OsuHits
  PROVE  Osu!Points(Osu!Shifted(o, h)) = Osu!Points(h)
<1> DEFINE n == Osu!Least(h.n300, h.n50 \div 4)
           k == h.n100 \div 5
<1>1. h.n300 \in Nat /\ h.n100 \in Nat /\ h.n50 \in Nat
  BY DEF OsuHits
<1>2. n \in Nat /\ k \in Nat
  BY <1>1
<1>3. Osu!Shifted(o, h) = IF o.priority = "BestCase"
                          THEN Osu!Hits(h.n300 - n, h.n100 + 5 * n, h.n50 - 4 * n)
                          ELSE Osu!Hits(h.n300 + k, h.n100 - 5 * k, h.n50 + 4 * k)
  BY DEF Osu!Shifted
<1> HIDE DEF n, k
<1>4. Osu!Points(h) = 30 * h.n300 + 10 * h.n100 + 5 * h.n50
  BY DEF Osu!Points
<1>5. CASE o.priority = "BestCase"
  <2>1. Osu!Points(Osu!Shifted(o, h)) =
          30 * (h.n300 - n) + 10 * (h.n100 + 5 * n) + 5 * (h.n50 - 4 * n)
    BY <1>3, <1>5 DEF Osu!Hits, Osu!Points
  <2>2. QED
    BY <1>1, <1>2, <1>4, <2>1
<1>6. CASE o.priority # "BestCase"
  <2>1. Osu!Points(Osu!Shifted(o, h)) =
          30 * (h.n300 + k) + 10 * (h.n100 - 5 * k) + 5 * (h.n50 + 4 * k)
    BY <1>3, <1>6 DEF Osu!Hits, Osu!Points
  <2>2. QED
    BY <1>1, <1>2, <1>4, <2>1
<1>7. QED
  BY <1>5, <1>6

\* osu!standard: no other split of the results is closer to the accuracy than that of the
\* state that is generated.
LEMMA OsuStateIsClosest ==
  ASSUME NEW o, OsuOpts(o), NEW c \in OsuCount, play.den \in Nat \ {0},
         NEW st \in Osu!States(o, c), o.acc # None, \E f, g \in Osu!Open(o) : f # g,
         NEW h \in OsuHits, Judged(h) = Osu!Setup(o, c).remaining,
         \A f \in {"n300", "n100", "n50"} \ Osu!Open(o) :
            h[f] = Osu!Given(o, Osu!Setup(o, c), f)
  PROVE  Osu!Dist(o, Osu!Setup(o, c), st) <= Osu!Dist(o, Osu!Setup(o, c), h)
<1> DEFINE s == Osu!Setup(o, c)
           C == Osu!Closest(o, s, Osu!Candidates(o, s))
<1>1. s \in OsuSetups
  BY OsuSetupType
<1>2. PICK r \in Osu!Results(o, s) :
        st = [n300 |-> r.n300, n100 |-> r.n100, n50 |-> r.n50, misses |-> s.misses,
              combo |-> Osu!ComboOf(o, c, s.misses), large_tick_hits |-> s.ticks,
              slider_end_hits |-> s.ends]
  BY DEF Osu!States
<1>3. Osu!Results(o, s) = IF Osu!Open(o) = {"n300", "n100", "n50"}
                          THEN {Osu!Shifted(o, g) : g \in C} ELSE C
  BY DEF Osu!Results
<1>4. PICK g \in Osu!Candidates(o, s) :
        /\ Osu!Dist(o, s, g) <= Osu!Dist(o, s, h)
        /\ Osu!Dist(o, s, g) \in Int /\ Osu!Dist(o, s, h) \in Int
  BY <1>1, OsuTriesCloser
<1> HIDE DEF s
<1>5. PICK e \in C : Osu!Points(st) = Osu!Points(e)
  <2>1. Osu!Points(st) = Osu!Points(r)
    BY <1>2 DEF Osu!Points
  <2>2. \A e \in C : e \in OsuHits
    BY <1>1, OsuCandidates DEF Osu!Closest
  <2> HIDE DEF C
  <2>3. CASE Osu!Open(o) = {"n300", "n100", "n50"}
    <3>1. PICK e \in C : r = Osu!Shifted(o, e)
      BY <1>2, <1>3, <2>3
    <3>2. Osu!Points(r) = Osu!Points(e)
      BY <2>2, <3>1, OsuShiftKeepsPoints
    <3>3. QED
      BY <2>1, <3>1, <3>2
  <2>4. CASE Osu!Open(o) # {"n300", "n100", "n50"}
    BY <1>2, <1>3, <2>1, <2>4
  <2>5. QED
    BY <2>3, <2>4
<1>6. Osu!Dist(o, s, st) = Osu!Dist(o, s, e)
  BY <1>5 DEF Osu!Dist
<1>7. e \in OsuHits /\ Osu!Dist(o, s, e) <= Osu!Dist(o, s, g)
  BY <1>1, <1>4, <1>5, OsuCandidates DEF Osu!Closest
<1>8. Osu!Dist(o, s, e) \in Int
  <2>1. /\ s.max_points \in Nat /\ s.slider \in Nat /\ o.acc \in Nat /\ Osu!Points(e) \in Nat
    BY <1>1, <1>7, NoneIsNoNumber DEF OsuSetups, OsuOpts, Count, OsuHits, Osu!Points
  <2>2. o.acc * s.max_points \in Int /\ play.den * (Osu!Points(e) + s.slider) \in Int
    BY <2>1
  <2>3. QED
    BY <2>2 DEF Osu!Dist, Osu!Absolute
<1>9. Osu!Dist(o, s, st) <= Osu!Dist(o, s, h)
  BY <1>4, <1>6, <1>7, <1>8
<1>10. QED
  BY <1>9 DEF s

\* That is what the property says.
LEMMA OsuAccuracy ==
  ASSUME OsuOpts(opts), source'.count \in OsuCount, play.den \in Nat \ {0},
         out' \in Osu!States(opts, source'.count)
  PROVE  Osu!ClosestAccuracy
<1> DEFINE s == Osu!Setup(opts, source'.count)
           Respects(h) == \A f \in {"n300", "n100", "n50"} \ Osu!Open(opts) :
                             h[f] = Osu!Given(opts, s, f)
           All == {h \in {Osu!Hits(a, b, s.remaining - a - b) :
                            a \in 0..s.remaining, b \in 0..s.remaining} :
                     h.n50 >= 0 /\ Respects(h)}
<1>1. s \in OsuSetups
  BY OsuSetupType
<1>2. ASSUME opts.acc # None, \E f, g \in Osu!Open(opts) : f # g, NEW h \in All
      PROVE  Osu!Dist(opts, s, out') <= Osu!Dist(opts, s, h)
  <2> HIDE DEF s
  <2>1. PICK a \in 0..s.remaining, b \in 0..s.remaining :
          h = Osu!Hits(a, b, s.remaining - a - b)
    BY <1>2
  <2>2. h = [n300 |-> a, n100 |-> b, n50 |-> s.remaining - a - b]
    BY <2>1 DEF Osu!Hits
  <2>3. h.n50 >= 0 /\ Respects(h)
    BY <1>2
  <2>4. h \in OsuHits /\ Judged(h) = s.remaining
    <3>1. s.remaining \in Nat
      BY <1>1 DEF OsuSetups
    <3>2. QED
      BY <2>1, <2>2, <2>3, <3>1 DEF OsuHits, Judged
  <2>5. QED
    BY <1>2, <2>3, <2>4, OsuStateIsClosest DEF s
<1>3. QED
  BY <1>2 DEF Osu!ClosestAccuracy, Osu!Splits

\* The points of q results: k worth v1 each, j worth v2, and the others v3.
Worth(v1, v2, v3, q, k, j) == v1 * k + v2 * j + v3 * (q - k - j)

\* With k results of the best kind, all others of the middle kind is the most, and all others
\* of the worst kind is the least; and both grow with k.
LEMMA WorthBounds ==
  ASSUME NEW v1 \in Nat, NEW v2 \in Nat, NEW v3 \in Nat, v1 > v2, v2 >= v3, NEW q \in Nat
  PROVE  /\ \A k \in 0..q : \A j \in 0..(q - k) :
              /\ Worth(v1, v2, v3, q, k, j) \in Nat
              /\ Worth(v1, v2, v3, q, k, 0) <= Worth(v1, v2, v3, q, k, j)
              /\ Worth(v1, v2, v3, q, k, j) <= Worth(v1, v2, v3, q, k, q - k)
         /\ \A i, k \in 0..q : i < k =>
              /\ Worth(v1, v2, v3, q, i, 0) < Worth(v1, v2, v3, q, k, 0)
              /\ Worth(v1, v2, v3, q, i, q - i) < Worth(v1, v2, v3, q, k, q - k)
<1>1. ASSUME NEW k \in 0..q, NEW j \in 0..(q - k)
      PROVE  /\ Worth(v1, v2, v3, q, k, j) \in Nat
             /\ Worth(v1, v2, v3, q, k, 0) <= Worth(v1, v2, v3, q, k, j)
             /\ Worth(v1, v2, v3, q, k, j) <= Worth(v1, v2, v3, q, k, q - k)
  <2>1. k \in Nat /\ j \in Nat /\ q - k \in Nat /\ q - k - j \in Nat
    OBVIOUS
  <2>2. /\ v1 * k \in Nat /\ v2 * j \in Nat /\ v3 * j \in Nat
        /\ v3 * (q - k - j) \in Nat /\ v2 * (q - k - j) \in Nat
    BY <2>1
  <2>3. v3 * j <= v2 * j /\ v3 * (q - k - j) <= v2 * (q - k - j)
    BY <2>1
  <2>4. /\ v3 * (q - k) = v3 * j + v3 * (q - k - j)
        /\ v2 * (q - k) = v2 * j + v2 * (q - k - j)
    BY <2>1
  <2>5. /\ Worth(v1, v2, v3, q, k, 0) = v1 * k + v3 * (q - k)
        /\ Worth(v1, v2, v3, q, k, q - k) = v1 * k + v2 * (q - k)
        /\ Worth(v1, v2, v3, q, k, j) = v1 * k + v2 * j + v3 * (q - k - j)
    BY <2>1 DEF Worth
  <2>6. QED
    BY <2>2, <2>3, <2>4, <2>5
<1>2. ASSUME NEW i \in 0..q, NEW k \in 0..q, i < k
      PROVE  /\ Worth(v1, v2, v3, q, i, 0) < Worth(v1, v2, v3, q, k, 0)
             /\ Worth(v1, v2, v3, q, i, q - i) < Worth(v1, v2, v3, q, k, q - k)
  <2>1. i \in Nat /\ k \in Nat /\ v1 - v2 \in Nat \ {0} /\ v1 - v3 \in Nat \ {0}
    OBVIOUS
  <2>2. /\ Worth(v1, v2, v3, q, i, 0) = v3 * q + (v1 - v3) * i
        /\ Worth(v1, v2, v3, q, k, 0) = v3 * q + (v1 - v3) * k
        /\ Worth(v1, v2, v3, q, i, q - i) = v2 * q + (v1 - v2) * i
        /\ Worth(v1, v2, v3, q, k, q - k) = v2 * q + (v1 - v2) * k
    BY <2>1 DEF Worth
  <2>3. \A d \in Nat \ {0} : d * i < d * k /\ d * i \in Int /\ d * k \in Int
    BY <1>2, <2>1
  <2>4. v3 * q \in Int /\ v2 * q \in Int
    OBVIOUS
  <2>5. QED
    BY <2>1, <2>2, <2>3, <2>4
<1>3. QED
  BY <1>1, <1>2

\* Of q results worth v1, v2 or v3, at least low of them v1: if lo of the best kind are not
\* too many whatever the others are, and hi, unless they are all, are enough, then whatever
\* can be reached of X is reached as closely with lo to hi of them, or low.
LEMMA NearestOfThree ==
  ASSUME NEW X \in Int, NEW d \in Nat \ {0}, NEW q \in Nat, NEW low \in 0..q,
         NEW v1 \in Nat, NEW v2 \in Nat, NEW v3 \in Nat, v1 > v2, v2 >= v3,
         NEW lo \in 0..q, lo > 0 => d * Worth(v1, v2, v3, q, lo, q - lo) <= X,
         NEW hi \in 0..q, hi < q => X <= d * Worth(v1, v2, v3, q, hi, 0),
         NEW a \in low..q, NEW b \in 0..(q - a)
  PROVE  \E k \in AtLeast(low, lo) .. AtLeast(low, hi) :
            /\ k \in low..q
            /\ \E j \in 0..(q - k) : Absolute(X - d * Worth(v1, v2, v3, q, k, j))
                                       <= Absolute(X - d * Worth(v1, v2, v3, q, a, b))
<1> DEFINE W(k, j) == Worth(v1, v2, v3, q, k, j)
           from == AtLeast(low, lo)
           to == AtLeast(low, hi)
<1>1. /\ \A k \in 0..q : \A j \in 0..(q - k) :
             W(k, j) \in Nat /\ W(k, 0) <= W(k, j) /\ W(k, j) <= W(k, q - k)
      /\ \A i, k \in 0..q : i < k => W(i, 0) < W(k, 0) /\ W(i, q - i) < W(k, q - k)
  BY WorthBounds, Zenon
<1>2. /\ lo > 0 => d * W(lo, q - lo) <= X
      /\ hi < q => X <= d * W(hi, 0)
  OBVIOUS
<1> SUFFICES \E k \in from..to : /\ k \in low..q
                                 /\ \E j \in 0..(q - k) : Absolute(X - d * W(k, j))
                                                            <= Absolute(X - d * W(a, b))
  OBVIOUS
<1> HIDE DEF W
<1>3. /\ a \in 0..q /\ low <= a /\ b \in 0..(q - a) /\ \A k \in 0..q : 0 \in 0..(q - k) /\ q - k \in 0..(q - k)
  OBVIOUS
<1>4. \A x, y \in Nat : x <= y => d * x <= d * y
  BY TimesKeepsOrder
<1>5. \A x \in Nat : d * x \in Int
  OBVIOUS
<1>6. \A x, y \in Int : (y <= x /\ x <= X) \/ (X <= x /\ x <= y) => Absolute(X - x) <= Absolute(X - y)
  BY SameSide, Zenon
<1>7. lo <= hi
  <2> SUFFICES ASSUME hi < lo PROVE FALSE
    OBVIOUS
  <2>1. lo > 0 /\ hi < q
    OBVIOUS
  <2>2. d * W(lo, q - lo) <= d * W(hi, 0)
    <3>1. W(lo, q - lo) \in Nat /\ W(hi, 0) \in Nat
      BY <1>1, <1>3
    <3>2. d * W(lo, q - lo) \in Int /\ d * W(hi, 0) \in Int
      BY <1>5, <3>1
    <3>3. QED
      BY <1>2, <2>1, <3>2
  <2>3. W(hi, 0) < W(lo, q - lo)
    BY <1>1, <1>3
  <2>4. W(hi, 0) \in Nat /\ W(lo, q - lo) \in Nat
    BY <1>1, <1>3
  <2>5. QED
    BY <2>2, <2>3, <2>4
<1>8. from \in low..q /\ to \in low..q /\ from <= to
  BY <1>7 DEF AtLeast
<1>9. CASE a \in from..to
  <2>1. d * W(a, b) \in Int
    BY <1>1, <1>3, <1>5
  <2>2. Absolute(X - d * W(a, b)) <= Absolute(X - d * W(a, b))
    BY <2>1 DEF Absolute
  <2> HIDE DEF from, to
  <2>3. QED
    BY <1>9, <2>2
<1>10. CASE a < from
  <2>1. from = lo /\ lo > 0 /\ a < lo
    BY <1>10 DEF AtLeast
  <2>2. W(a, b) <= W(lo, q - lo)
    <3>1. W(a, b) <= W(a, q - a) /\ W(a, q - a) < W(lo, q - lo)
      BY <1>1, <1>3, <2>1
    <3>2. W(a, b) \in Nat /\ W(a, q - a) \in Nat /\ W(lo, q - lo) \in Nat
      BY <1>1, <1>3
    <3>3. QED
      BY <3>1, <3>2
  <2>3. /\ d * W(a, b) <= d * W(lo, q - lo) /\ d * W(lo, q - lo) <= X
        /\ d * W(a, b) \in Int /\ d * W(lo, q - lo) \in Int
    <3>1. W(a, b) \in Nat /\ W(lo, q - lo) \in Nat
      BY <1>1, <1>3
    <3>2. QED
      BY <1>2, <1>4, <1>5, <2>1, <2>2, <3>1
  <2>4. Absolute(X - d * W(lo, q - lo)) <= Absolute(X - d * W(a, b))
    BY <1>6, <2>3
  <2>5. lo \in from..to /\ lo \in low..q /\ q - lo \in 0..(q - lo)
    BY <1>8, <2>1
  <2> HIDE DEF from, to
  <2>6. QED
    BY <2>4, <2>5
<1>11. CASE a > to
  <2>1. hi <= to /\ to < a /\ to \in 0..q /\ hi < q
    BY <1>8, <1>11 DEF AtLeast
  <2> HIDE DEF from, to
  <2>2. W(hi, 0) <= W(to, 0) /\ W(to, 0) <= W(a, b)
    <3>1. W(hi, 0) \in Nat /\ W(to, 0) \in Nat /\ W(a, 0) \in Nat /\ W(a, b) \in Nat
      BY <1>1, <1>3, <2>1
    <3>2. W(hi, 0) <= W(to, 0)
      <4>1. CASE hi = to
        BY <3>1, <4>1
      <4>2. CASE hi < to
        BY <1>1, <2>1, <3>1, <4>2
      <4>3. QED
        BY <2>1, <4>1, <4>2
    <3>3. W(to, 0) < W(a, 0) /\ W(a, 0) <= W(a, b)
      BY <1>1, <1>3, <2>1
    <3>4. QED
      BY <3>1, <3>2, <3>3
  <2>3. /\ X <= d * W(to, 0) /\ d * W(to, 0) <= d * W(a, b)
        /\ d * W(to, 0) \in Int /\ d * W(a, b) \in Int
    <3>1. W(hi, 0) \in Nat /\ W(to, 0) \in Nat /\ W(a, b) \in Nat
      BY <1>1, <1>3, <2>1
    <3>2. /\ d * W(hi, 0) <= d * W(to, 0) /\ d * W(to, 0) <= d * W(a, b)
          /\ d * W(hi, 0) \in Int /\ d * W(to, 0) \in Int /\ d * W(a, b) \in Int
      BY <1>4, <1>5, <2>2, <3>1
    <3>3. QED
      BY <1>2, <2>1, <3>2
  <2>4. Absolute(X - d * W(to, 0)) <= Absolute(X - d * W(a, b))
    BY <1>6, <2>3
  <2>5. to \in from..to /\ to \in low..q /\ 0 \in 0..(q - to)
    BY <1>8, <2>1
  <2>6. QED
    BY <2>4, <2>5
<1>12. QED
  BY <1>8, <1>9, <1>10, <1>11

\* The points of q results: k worth 6 each, j worth 4, i worth 2, and the others 1.
WorthOfAll(q, k, j, i) == 6 * k + 4 * j + 2 * i + (q - k - j - i)

\* The same if there are four kinds of results: hi of the best kind are enough already if
\* they are with all others of the third kind, which makes up for what the worst kind lacks
\* in single points.
LEMMA NearestOfFour ==
  ASSUME NEW X \in Int, NEW d \in Nat \ {0}, NEW q \in Nat, NEW low \in 0..q,
         NEW lo \in 0..q, lo > 0 => d * WorthOfAll(q, lo, q - lo, 0) <= X,
         NEW hi \in 0..q, hi < q => X <= d * WorthOfAll(q, hi, 0, q - hi),
         NEW a \in low..q, NEW b \in 0..(q - a), NEW c \in 0..(q - a - b)
  PROVE  \E k \in AtLeast(low, lo) .. AtLeast(low, hi) :
            /\ k \in low..q
            /\ \E j \in 0..(q - k) : \E i \in 0..(q - k - j) :
                  Absolute(X - d * WorthOfAll(q, k, j, i))
                    <= Absolute(X - d * WorthOfAll(q, a, b, c))
<1> DEFINE W(k, j, i) == WorthOfAll(q, k, j, i)
           from == AtLeast(low, lo)
           to == AtLeast(low, hi)
           w == W(a, b, c)
<1>1. /\ lo > 0 => d * W(lo, q - lo, 0) <= X
      /\ hi < q => X <= d * W(hi, 0, q - hi)
  OBVIOUS
<1>2. \A k, j, i \in Int : W(k, j, i) = q + 5 * k + 3 * j + i
  BY DEF WorthOfAll
<1>3. /\ a \in Nat /\ b \in Nat /\ c \in Nat /\ low \in Nat /\ lo \in Nat /\ hi \in Nat
      /\ low <= a /\ a <= q /\ b <= q - a /\ c <= q - a - b /\ low <= q /\ lo <= q /\ hi <= q
  OBVIOUS
<1> SUFFICES \E k \in from..to :
               /\ k \in low..q
               /\ \E j \in 0..(q - k) : \E i \in 0..(q - k - j) :
                     Absolute(X - d * W(k, j, i)) <= Absolute(X - d * w)
  OBVIOUS
<1> HIDE DEF W
<1>4. w = q + 5 * a + 3 * b + c /\ w \in Nat
  BY <1>3 DEF W, WorthOfAll
<1> HIDE DEF w
<1>5. \A x, y \in Nat : x <= y => d * x <= d * y
  BY TimesKeepsOrder
<1>6. \A x \in Nat : d * x \in Int
  OBVIOUS
<1>7. \A x, y \in Int : (y <= x /\ x <= X) \/ (X <= x /\ x <= y) => Absolute(X - x) <= Absolute(X - y)
  BY SameSide, Zenon
<1>8. lo <= hi
  <2> SUFFICES ASSUME hi < lo PROVE FALSE
    OBVIOUS
  <2>1. lo > 0 /\ hi < q
    BY <1>3
  <2>2. W(lo, q - lo, 0) = q + 5 * lo + 3 * (q - lo) /\ W(hi, 0, q - hi) = q + 5 * hi + (q - hi)
    BY <1>3 DEF W, WorthOfAll
  <2>3. W(lo, q - lo, 0) \in Nat /\ W(hi, 0, q - hi) \in Nat /\ W(hi, 0, q - hi) < W(lo, q - lo, 0)
    BY <1>3, <2>2
  <2>4. d * W(lo, q - lo, 0) <= d * W(hi, 0, q - hi)
    BY <1>1, <1>6, <2>1, <2>3
  <2>5. \A x, y \in Nat : x < y => d * x < d * y
    OBVIOUS
  <2>6. d * W(hi, 0, q - hi) < d * W(lo, q - lo, 0)
    BY <2>3, <2>5
  <2>7. d * W(hi, 0, q - hi) \in Int /\ d * W(lo, q - lo, 0) \in Int
    BY <1>6, <2>3
  <2>8. QED
    BY <2>4, <2>6, <2>7
<1>9. from \in low..q /\ to \in low..q /\ from <= to
  BY <1>3, <1>8 DEF AtLeast
<1>10. CASE a \in from..to
  <2>1. d * w \in Int
    BY <1>4, <1>6
  <2>2. Absolute(X - d * W(a, b, c)) <= Absolute(X - d * w)
    BY <2>1 DEF Absolute, w
  <2> HIDE DEF from, to
  <2>3. QED
    BY <1>10, <2>2
<1>11. CASE a < from
  <2>1. from = lo /\ lo > 0 /\ a < lo
    BY <1>3, <1>11 DEF AtLeast
  <2>2. W(lo, q - lo, 0) = q + 5 * lo + 3 * (q - lo) /\ W(lo, q - lo, 0) \in Nat
    BY <1>3 DEF W, WorthOfAll
  <2>3. w <= W(lo, q - lo, 0)
    BY <1>3, <1>4, <2>1, <2>2
  <2>4. /\ d * w <= d * W(lo, q - lo, 0) /\ d * W(lo, q - lo, 0) <= X
        /\ d * w \in Int /\ d * W(lo, q - lo, 0) \in Int
    BY <1>1, <1>4, <1>5, <1>6, <2>1, <2>2, <2>3
  <2>5. Absolute(X - d * W(lo, q - lo, 0)) <= Absolute(X - d * w)
    BY <1>7, <2>4
  <2>6. /\ lo \in from..to /\ lo \in low..q /\ q - lo \in 0..(q - lo)
        /\ 0 \in 0..(q - lo - (q - lo))
    BY <1>3, <1>9, <2>1
  <2> HIDE DEF from, to
  <2>7. QED
    BY <2>5, <2>6
<1>12. CASE a > to
  <2>1. hi <= to /\ to < a /\ to \in Nat /\ low <= to /\ to < q /\ hi < q
    BY <1>3, <1>9, <1>12 DEF AtLeast
  <2>2. \A j, i \in Int : to \in from..to /\ to \in low..q /\ W(to, j, i) = q + 5 * to + 3 * j + i
    BY <1>3, <1>9, <2>1 DEF W, WorthOfAll
  <2> HIDE DEF from, to
  <2>3. ASSUME NEW i \in 0..(q - to), Absolute(X - d * W(to, 0, i)) <= Absolute(X - d * w)
        PROVE  \E k \in from..to :
                 /\ k \in low..q
                 /\ \E j \in 0..(q - k) : \E e \in 0..(q - k - j) :
                       Absolute(X - d * W(k, j, e)) <= Absolute(X - d * w)
    <3>1. 0 \in 0..(q - to) /\ i \in 0..(q - to - 0) /\ to \in from..to /\ to \in low..q
      BY <2>1, <2>2
    <3>2. QED
      BY <2>3, <3>1
  <2> DEFINE more == w - (q + 5 * to)
  <2>4. more \in Nat
    BY <1>3, <1>4, <2>1
  <2>5. CASE more <= q - to
    <3>1. more \in 0..(q - to) /\ W(to, 0, more) = w
      BY <1>3, <1>4, <2>1, <2>2, <2>4, <2>5
    <3>2. d * w \in Int
      BY <1>4, <1>6
    <3> HIDE DEF more
    <3>3. Absolute(X - d * W(to, 0, more)) <= Absolute(X - d * w)
      BY <3>1, <3>2 DEF Absolute
    <3>4. QED
      BY <2>3, <3>1, <3>3
  <2>6. CASE more > q - to
    <3>1. q - to \in 0..(q - to) /\ W(to, 0, q - to) = q + 5 * to + (q - to)
          /\ W(to, 0, q - to) \in Nat /\ W(to, 0, q - to) <= w
      BY <1>3, <1>4, <2>1, <2>4, <2>6 DEF W, WorthOfAll
    <3>2. W(hi, 0, q - hi) = q + 5 * hi + (q - hi) /\ W(hi, 0, q - hi) \in Nat
      BY <1>3 DEF W, WorthOfAll
    <3>3. W(hi, 0, q - hi) <= W(to, 0, q - to)
      BY <1>3, <2>1, <3>1, <3>2
    <3>4. /\ X <= d * W(hi, 0, q - hi) /\ d * W(hi, 0, q - hi) <= d * W(to, 0, q - to)
          /\ d * W(to, 0, q - to) <= d * w
          /\ d * W(hi, 0, q - hi) \in Int /\ d * W(to, 0, q - to) \in Int /\ d * w \in Int
      BY <1>1, <1>4, <1>5, <1>6, <2>1, <3>1, <3>2, <3>3
    <3>5. Absolute(X - d * W(to, 0, q - to)) <= Absolute(X - d * w)
      BY <1>7, <3>4
    <3>6. QED
      BY <2>3, <3>1, <3>5
  <2>7. QED
    BY <1>3, <2>1, <2>4, <2>5, <2>6
<1>13. QED
  BY <1>3, <1>9, <1>10, <1>11, <1>12

\* The best kind of q results worth v or w, rounded down: not too many for X.
LEMMA RoundedDownFits ==
  ASSUME NEW X \in Int, NEW d \in Nat \ {0}, NEW q \in Nat,
         NEW v \in Nat, NEW w \in Nat, v > w, NEW n \in 0..q,
         n <= Floor(X - d * (w * q), d * (v - w))
  PROVE  n > 0 => d * (v * n + w * (q - n)) <= X
<1> SUFFICES ASSUME n > 0 PROVE d * (v * n + w * (q - n)) <= X
  OBVIOUS
<1> DEFINE u == v - w
           wq == w * q
           num == X - d * wq
           f == Floor(num, d * u)
<1>1. u \in Nat \ {0} /\ wq \in Nat /\ n \in Nat
  OBVIOUS
<1>2. v * n + w * (q - n) = wq + u * n /\ u * n \in Nat
  OBVIOUS
<1>3. n <= f
  OBVIOUS
<1> HIDE DEF u, wq
<1>4. d * u \in Nat \ {0} /\ d * wq \in Int /\ num \in Int
  BY <1>1
<1>5. num >= 0
  <2> HIDE DEF num
  <2>1. num < 0 => f = 0
    BY DEF Floor
  <2>2. QED
    BY <1>1, <1>3, <1>4, <2>1
<1>6. f \in Nat /\ (d * u) * f <= num
  <2> HIDE DEF num
  <2> DEFINE du == d * u
  <2>1. du \in Nat \ {0} /\ num \in Nat
    BY <1>4, <1>5
  <2> HIDE DEF du
  <2>2. Floor(num, du) \in Nat /\ du * Floor(num, du) <= num
    BY <2>1, Rounded, Zenon
  <2>3. QED
    BY <2>2 DEF du
<1> HIDE DEF f
<1>7. (d * u) * n <= (d * u) * f /\ (d * u) * n \in Int /\ (d * u) * f \in Int
  <2> DEFINE du == d * u
  <2>1. du \in Nat
    BY <1>4
  <2> HIDE DEF du
  <2>2. du * n <= du * f /\ du * n \in Int /\ du * f \in Int
    BY <1>1, <1>3, <1>6, <2>1, TimesKeepsOrder
  <2>3. QED
    BY <2>2 DEF du
<1>8. (d * u) * n = d * (u * n) /\ d * (wq + u * n) = d * wq + d * (u * n)
  BY <1>1
<1>9. d * wq + d * (u * n) <= X
  BY <1>1, <1>4, <1>6, <1>7, <1>8
<1>10. QED
  BY <1>2, <1>8, <1>9

\* The same rounded up: enough for X.
LEMMA RoundedUpReaches ==
  ASSUME NEW X \in Int, NEW d \in Nat \ {0}, NEW q \in Nat,
         NEW v \in Nat, NEW w \in Nat, v > w, NEW n \in 0..q,
         n >= Ceil(X - d * (w * q), d * (v - w))
  PROVE  X <= d * (v * n + w * (q - n))
<1> DEFINE u == v - w
           wq == w * q
           num == X - d * wq
           c == Ceil(num, d * u)
<1>1. u \in Nat \ {0} /\ wq \in Nat /\ n \in Nat
  OBVIOUS
<1>2. v * n + w * (q - n) = wq + u * n /\ u * n \in Nat
  OBVIOUS
<1>3. c <= n
  OBVIOUS
<1> HIDE DEF u, wq
<1>4. d * u \in Nat \ {0} /\ d * wq \in Int /\ num \in Int
  BY <1>1
<1>5. c \in Nat /\ num <= (d * u) * c
  <2> HIDE DEF num
  <2> DEFINE du == d * u
  <2>1. du \in Nat \ {0}
    BY <1>4
  <2> HIDE DEF du
  <2>2. Ceil(num, du) \in Nat /\ num <= du * Ceil(num, du)
    <3>1. CASE num < 0
      <4>1. Ceil(num, du) = 0
        BY <3>1 DEF Ceil
      <4>2. QED
        BY <1>4, <2>1, <3>1, <4>1
    <3>2. CASE num >= 0
      <4>1. num \in Nat
        BY <1>4, <3>2
      <4>2. QED
        BY <2>1, <4>1, Rounded, Zenon
    <3>3. QED
      BY <1>4, <3>1, <3>2
  <2>3. QED
    BY <2>2 DEF du
<1> HIDE DEF c
<1>6. (d * u) * c <= (d * u) * n /\ (d * u) * n \in Int /\ (d * u) * c \in Int
  <2> DEFINE du == d * u
  <2>1. du \in Nat
    BY <1>4
  <2> HIDE DEF du
  <2>2. du * c <= du * n /\ du * n \in Int /\ du * c \in Int
    BY <1>1, <1>3, <1>5, <2>1, TimesKeepsOrder
  <2>3. QED
    BY <2>2 DEF du
<1>7. (d * u) * n = d * (u * n) /\ d * (wq + u * n) = d * wq + d * (u * n)
  BY <1>1
<1>8. X <= d * wq + d * (u * n)
  BY <1>1, <1>4, <1>5, <1>6, <1>7
<1>9. QED
  BY <1>2, <1>7, <1>8

Kinds == LowJudgements \cup {"n3x0"}
Placed(h, f, n) == [h EXCEPT ![f] = n]

\* The points, times the denominator, that a combination of the search still misses.
Missing(o, s, h) == Mania!Target(o, s) - play.den * Mania!Points(h)

\* What placing n results does to a combination without results of that kind.
LEMMA ManiaPlaced ==
  ASSUME NEW h \in Tries, NEW f \in Kinds, NEW n \in Nat, h[f] = 0
  PROVE  /\ Placed(h, f, n) \in Tries
         /\ \A g \in Kinds : Placed(h, f, n)[g] = IF g = f THEN n ELSE h[g]
         /\ Mania!Judged(h) \in Nat /\ Mania!Judged(Placed(h, f, n)) = Mania!Judged(h) + n
         /\ Mania!Points(h) \in Nat
         /\ Mania!Points(Placed(h, f, n)) = Mania!Points(h) + Mania!Value[f] * n
<1>1. CASE f = "n200"
  BY <1>1, ManiaValues DEF Kinds, LowJudgements, Placed, Tries, Mania!Judged, Mania!Points
<1>2. CASE f = "n100"
  BY <1>2, ManiaValues DEF Kinds, LowJudgements, Placed, Tries, Mania!Judged, Mania!Points
<1>3. CASE f = "n50"
  BY <1>3, ManiaValues DEF Kinds, LowJudgements, Placed, Tries, Mania!Judged, Mania!Points
<1>4. CASE f = "n3x0"
  BY <1>4, ManiaValues DEF Kinds, LowJudgements, Placed, Tries, Mania!Judged, Mania!Points
<1>5. QED
  BY <1>1, <1>2, <1>3, <1>4 DEF Kinds, LowJudgements

\* The same for what is left and what is missing.
LEMMA ManiaMissing ==
  ASSUME NEW o, ManiaOpts(o), o.acc # None, NEW s \in ManiaSetups, play.den \in Nat \ {0},
         NEW h \in Tries
  PROVE  /\ Mania!Left(s, h) \in Nat /\ Missing(o, s, h) \in Int
         /\ \A f \in Kinds : \A n \in 0..Mania!Left(s, h) : h[f] = 0 =>
              /\ Placed(h, f, n) \in Tries
              /\ \A g \in Kinds : Placed(h, f, n)[g] = IF g = f THEN n ELSE h[g]
              /\ Mania!Left(s, Placed(h, f, n)) = Mania!Left(s, h) - n
              /\ Missing(o, s, Placed(h, f, n))
                   = Missing(o, s, h) - play.den * (Mania!Value[f] * n)
<1>1. /\ s.total \in Nat /\ s.remaining \in Nat /\ o.acc \in Nat
  BY DEF ManiaOpts, Count, ManiaSetups
<1>2. Mania!Judged(h) \in Nat /\ Mania!Points(h) \in Nat
  BY DEF Tries, Mania!Judged, Mania!Points
<1>3. Mania!Target(o, s) \in Int /\ play.den * Mania!Points(h) \in Int
  BY <1>1, <1>2 DEF Mania!Target
<1>4. Mania!Left(s, h) \in Nat
  BY <1>1, <1>2 DEF Mania!Left
<1>5. Missing(o, s, h) \in Int
  BY <1>3 DEF Missing
<1>6. ASSUME NEW f \in Kinds, NEW n \in 0..Mania!Left(s, h), h[f] = 0
      PROVE  /\ Placed(h, f, n) \in Tries
             /\ \A g \in Kinds : Placed(h, f, n)[g] = IF g = f THEN n ELSE h[g]
             /\ Mania!Left(s, Placed(h, f, n)) = Mania!Left(s, h) - n
             /\ Missing(o, s, Placed(h, f, n))
                  = Missing(o, s, h) - play.den * (Mania!Value[f] * n)
  <2> DEFINE t == Placed(h, f, n)
             v == Mania!Value[f]
  <2>1. n \in Nat /\ n <= Mania!Left(s, h)
    BY <1>4
  <2>2. /\ t \in Tries
        /\ \A g \in Kinds : t[g] = IF g = f THEN n ELSE h[g]
        /\ Mania!Judged(t) = Mania!Judged(h) + n
        /\ Mania!Points(t) = Mania!Points(h) + v * n
    BY <1>6, <2>1, ManiaPlaced
  <2>3. v \in Nat
    BY ManiaValues DEF Kinds, LowJudgements
  <2> HIDE DEF t, v
  <2>4. Mania!Left(s, t) = Mania!Left(s, h) - n
    BY <1>1, <1>2, <2>1, <2>2 DEF Mania!Left
  <2>5. v * n \in Nat
    BY <2>1, <2>3
  <2> DEFINE w == v * n
             p == Mania!Points(h)
  <2>6. play.den * (p + w) = play.den * p + play.den * w /\ play.den * w \in Int
    <3>1. w \in Nat /\ p \in Nat
      BY <1>2, <2>5
    <3> HIDE DEF w, p
    <3>2. QED
      BY <3>1
  <2>7. Missing(o, s, t) = Missing(o, s, h) - play.den * w
    <3>1. Missing(o, s, t) = Mania!Target(o, s) - play.den * (p + w)
      BY <2>2 DEF Missing
    <3>2. Missing(o, s, h) = Mania!Target(o, s) - play.den * p
      BY DEF Missing
    <3>3. play.den * p \in Int
      BY <1>3
    <3> HIDE DEF w, p
    <3>4. QED
      BY <1>3, <2>6, <3>1, <3>2, <3>3
  <2>8. QED
    BY <2>2, <2>4, <2>7 DEF t, v
<1>7. QED
  BY <1>4, <1>5, <1>6

\* How close a combination is whose last kind takes what is left.
LEMMA ManiaFilled ==
  ASSUME NEW o, ManiaOpts(o), o.acc # None, NEW s \in ManiaSetups, play.den \in Nat \ {0},
         NEW h \in Tries, NEW g \in Kinds, h[g] = 0
  PROVE  Mania!Dist(o, s, Placed(h, g, Mania!Left(s, h)))
           = Absolute(Missing(o, s, h) - play.den * (Mania!Value[g] * Mania!Left(s, h)))
<1>1. Mania!Left(s, h) \in 0..Mania!Left(s, h)
  BY ManiaMissing
<1>2. Missing(o, s, Placed(h, g, Mania!Left(s, h)))
        = Missing(o, s, h) - play.den * (Mania!Value[g] * Mania!Left(s, h))
  BY <1>1, ManiaMissing
<1>3. QED
  BY <1>2, SameRounding DEF Missing, Mania!Dist

\* The numbers of a judgement tried, if what is left goes to a worse one: rounded down they
\* are not too many, and rounded up enough.
LEMMA ManiaNeededFits ==
  ASSUME NEW o, ManiaOpts(o), o.acc # None, NEW s \in ManiaSetups, play.den \in Nat \ {0},
         NEW h \in Tries, NEW f \in Kinds, NEW g \in LowJudgements,
         Mania!Value[f] > Mania!Value[g]
  PROVE  LET q    == Mania!Left(s, h)
             down == Mania!NeededDown(o, s, h, f, g)
             up   == Mania!NeededUp(o, s, h, f, g)
             Points(n) == Mania!Value[f] * n + Mania!Value[g] * (q - n)
         IN  /\ down \in 0..q /\ (down > 0 => play.den * Points(down) <= Missing(o, s, h))
             /\ up \in 0..q /\ (up < q => Missing(o, s, h) <= play.den * Points(up))
<1> DEFINE q    == Mania!Left(s, h)
           v    == Mania!Value[f]
           w    == Mania!Value[g]
           X    == Missing(o, s, h)
           d    == play.den
           down == Mania!NeededDown(o, s, h, f, g)
           up   == Mania!NeededUp(o, s, h, f, g)
<1>1. q \in Nat /\ X \in Int /\ d \in Nat \ {0}
  BY ManiaMissing
<1>2. v \in Nat /\ w \in Nat /\ v > w
  BY ManiaValues DEF Kinds, LowJudgements
<1>3. down \in 0..q /\ up \in 0..q
  BY ManiaNeeded DEF Kinds
<1>4. Mania!Short(o, s, h, g) = X - d * (w * q)
  <2> DEFINE p == Mania!Points(h)
             wq == w * q
  <2>1. Mania!Short(o, s, h, g) = Mania!Target(o, s) - d * (p + wq)
    BY DEF Mania!Short
  <2>2. X = Mania!Target(o, s) - d * p
    BY DEF Missing
  <2>3. Mania!Target(o, s) \in Int
    BY DEF ManiaOpts, Count, ManiaSetups, Mania!Target
  <2>4. p \in Nat
    BY DEF Tries, Mania!Points
  <2> HIDE DEF p, q, w, X, d
  <2>5. wq \in Nat
    BY <1>1, <1>2
  <2> HIDE DEF wq
  <2>6. d * (p + wq) = d * p + d * wq /\ d * p \in Int /\ d * wq \in Int
    BY <1>1, <2>4, <2>5
  <2>7. X - d * wq = Mania!Target(o, s) - d * (p + wq)
    BY <2>2, <2>3, <2>6
  <2>8. QED
    BY <2>1, <2>7 DEF wq
<1>5. Mania!Adds(f, g) = d * (v - w)
  BY DEF Mania!Adds
<1>6. /\ down = Least(q, Floor(X - d * (w * q), d * (v - w)))
      /\ up = Least(q, Ceil(X - d * (w * q), d * (v - w)))
  BY <1>4, <1>5, SameRounding DEF Mania!NeededDown, Mania!NeededUp, Mania!Least, Least
<1> HIDE DEF q, v, w, X, d, down, up
<1> DEFINE num == X - d * (w * q)
           den == d * (v - w)
<1>7. num \in Int /\ den \in Nat \ {0}
  BY <1>1, <1>2
<1>8. Floor(num, den) \in Nat /\ Ceil(num, den) \in Nat
  <2> HIDE DEF num, den
  <2>1. QED
    BY <1>7, RoundedInOrder
<1>9. down <= Floor(num, den) /\ (up < q => up >= Ceil(num, den))
  <2>1. down = Least(q, Floor(num, den)) /\ up = Least(q, Ceil(num, den))
    BY <1>6
  <2> HIDE DEF num, den
  <2>2. QED
    BY <1>1, <1>8, <2>1 DEF Least
<1>10. down > 0 => d * (v * down + w * (q - down)) <= X
  BY <1>1, <1>2, <1>3, <1>9, RoundedDownFits, Zenon
<1>11. up < q => X <= d * (v * up + w * (q - up))
  BY <1>1, <1>2, <1>3, <1>9, RoundedUpReaches, Zenon
<1>12. QED
  BY <1>3, <1>10, <1>11 DEF q, v, w, X, d, down, up

\* Two kinds are open: what can be reached is reached as closely by a number of the better
\* one that is tried.
LEMMA ManiaTwoLeft ==
  ASSUME NEW o, ManiaOpts(o), o.acc # None, NEW s \in ManiaSetups, play.den \in Nat \ {0},
         NEW h \in Tries, NEW f \in Kinds, NEW g \in LowJudgements,
         Mania!Value[f] > Mania!Value[g], h[f] = 0, h[g] = 0, NEW n \in 0..Mania!Left(s, h)
  PROVE  \E k \in Mania!NeededDown(o, s, h, f, g) .. Mania!NeededUp(o, s, h, f, g) :
            LET t == Placed(h, f, k)
                D == Mania!Dist(o, s, Placed(t, g, Mania!Left(s, t)))
            IN  /\ D \in Int
                /\ D <= Absolute(Missing(o, s, h) - play.den * (Mania!Value[f] * n
                                    + Mania!Value[g] * (Mania!Left(s, h) - n)))
<1> DEFINE q    == Mania!Left(s, h)
           v    == Mania!Value[f]
           w    == Mania!Value[g]
           X    == Missing(o, s, h)
           d    == play.den
           down == Mania!NeededDown(o, s, h, f, g)
           up   == Mania!NeededUp(o, s, h, f, g)
           D(k) == LET t == Placed(h, f, k) IN Mania!Dist(o, s, Placed(t, g, Mania!Left(s, t)))
<1>1. q \in Nat /\ X \in Int /\ d \in Nat \ {0} /\ 0 \in 0..q
  BY ManiaMissing
<1>2. v \in Nat /\ w \in Nat /\ v > w /\ w >= w
  BY ManiaValues DEF Kinds, LowJudgements
<1>3. /\ down \in 0..q /\ (down > 0 => d * (v * down + w * (q - down)) <= X)
      /\ up \in 0..q /\ (up < q => X <= d * (v * up + w * (q - up)))
  BY ManiaNeededFits
<1>4. ASSUME NEW k \in 0..q
      PROVE  D(k) = Absolute(X - d * (v * k + w * (q - k)))
  <2> DEFINE t == Placed(h, f, k)
  <2>1. /\ t \in Tries /\ Mania!Left(s, t) = q - k /\ Missing(o, s, t) = X - d * (v * k)
        /\ \A e \in Kinds : t[e] = IF e = f THEN k ELSE h[e]
    BY ManiaMissing
  <2>2. t[g] = 0 /\ g \in Kinds
    <3>1. g # f /\ g \in Kinds
      BY <1>2 DEF Kinds, v, w
    <3> HIDE DEF t
    <3>2. QED
      BY <2>1, <3>1
  <2> HIDE DEF t
  <2>3. D(k) = Absolute(Missing(o, s, t) - d * (w * Mania!Left(s, t)))
    BY <2>1, <2>2, ManiaFilled DEF t
  <2>4. D(k) = Absolute(X - d * (v * k) - d * (w * (q - k)))
    BY <2>1, <2>3
  <2> HIDE DEF D, q, v, w, X, d
  <2> DEFINE x == v * k
             y == w * (q - k)
  <2>5. x \in Int /\ y \in Int
    BY <1>1, <1>2
  <2>6. D(k) = Absolute(X - d * x - d * y)
    BY <2>4
  <2> HIDE DEF x, y
  <2>7. X - d * x - d * y = X - d * (x + y)
    <3>1. d * (x + y) = d * x + d * y /\ d * x \in Int /\ d * y \in Int
      BY <1>1, <2>5
    <3>2. QED
      BY <1>1, <3>1
  <2>8. QED
    BY <2>6, <2>7 DEF x, y
<1> HIDE DEF q, v, w, X, d, down, up, D
<1>5. /\ down > 0 => d * Worth(v, w, w, q, down, q - down) <= X
      /\ up < q => X <= d * Worth(v, w, w, q, up, 0)
  <2>1. q \in Int /\ down \in Int /\ up \in Int
    BY <1>1, <1>3
  <2>2. /\ Worth(v, w, w, q, down, q - down) = v * down + w * (q - down)
        /\ Worth(v, w, w, q, up, 0) = v * up + w * (q - up)
    BY <1>2, <2>1 DEF Worth
  <2>3. QED
    BY <1>3, <2>2
<1>6. n \in 0..q /\ 0 \in 0..(q - n)
  <2>1. n \in 0..q
    BY DEF q
  <2>2. QED
    BY <1>1, <2>1
<1>7. PICK k \in AtLeast(0, down) .. AtLeast(0, up) :
        /\ k \in 0..q
        /\ \E j \in 0..(q - k) : Absolute(X - d * Worth(v, w, w, q, k, j))
                                   <= Absolute(X - d * Worth(v, w, w, q, n, 0))
  BY <1>1, <1>2, <1>3, <1>5, <1>6, NearestOfThree, ZenonT(60)
<1>8. k \in down..up
  BY <1>1, <1>3, <1>7 DEF AtLeast
<1>9. D(k) \in Int /\ D(k) <= Absolute(X - d * (v * n + w * (q - n)))
  <2>1. PICK j \in 0..(q - k) : Absolute(X - d * Worth(v, w, w, q, k, j))
                                   <= Absolute(X - d * Worth(v, w, w, q, n, 0))
    BY <1>7
  <2>2. k \in Int /\ j \in Int /\ n \in Int /\ q \in Int
    BY <1>1, <1>6, <1>7, <2>1
  <2>3. /\ Worth(v, w, w, q, k, j) = v * k + w * (q - k)
        /\ Worth(v, w, w, q, n, 0) = v * n + w * (q - n)
    BY <1>2, <2>2 DEF Worth
  <2>4. X - d * (v * k + w * (q - k)) \in Int
    BY <1>1, <1>2, <2>2
  <2>5. Absolute(X - d * (v * k + w * (q - k))) \in Int
    BY <2>4 DEF Absolute
  <2>6. QED
    BY <1>4, <1>7, <2>1, <2>3, <2>5
<1>10. QED
  BY <1>8, <1>9 DEF q, v, w, X, d, down, up, D

\* Three kinds are open.
LEMMA ManiaThreeLeft ==
  ASSUME NEW o, ManiaOpts(o), o.acc # None, NEW s \in ManiaSetups, play.den \in Nat \ {0},
         NEW h \in Tries, h.n200 = 0, h.n100 = 0, h.n50 = 0,
         NEW a \in 0..Mania!Left(s, h), NEW b \in 0..(Mania!Left(s, h) - a)
  PROVE  \E k \in Mania!NeededDown(o, s, h, "n200", "n100")
                    .. Mania!NeededUp(o, s, h, "n200", "n50") :
            LET u == Placed(h, "n200", k)
            IN \E j \in Mania!NeededDown(o, s, u, "n100", "n50")
                          .. Mania!NeededUp(o, s, u, "n100", "n50") :
                  LET t == Placed(u, "n100", j)
                      D == Mania!Dist(o, s, Placed(t, "n50", Mania!Left(s, t)))
                  IN  /\ D \in Int
                      /\ D <= Absolute(Missing(o, s, h)
                                         - play.den * Worth(4, 2, 1, Mania!Left(s, h), a, b))
<1> DEFINE q    == Mania!Left(s, h)
           X    == Missing(o, s, h)
           d    == play.den
           down == Mania!NeededDown(o, s, h, "n200", "n100")
           up   == Mania!NeededUp(o, s, h, "n200", "n50")
           Found(k, j) == LET t == Placed(Placed(h, "n200", k), "n100", j)
                          IN Mania!Dist(o, s, Placed(t, "n50", Mania!Left(s, t)))
           From(k) == Mania!NeededDown(o, s, Placed(h, "n200", k), "n100", "n50")
           To(k)   == Mania!NeededUp(o, s, Placed(h, "n200", k), "n100", "n50")
<1>1. q \in Nat /\ X \in Int /\ d \in Nat \ {0} /\ 0 \in 0..q
  BY ManiaMissing
<1>2. /\ "n200" \in Kinds /\ "n100" \in Kinds /\ "n50" \in Kinds
      /\ "n100" \in LowJudgements /\ "n50" \in LowJudgements
      /\ Mania!Value["n200"] = 4 /\ Mania!Value["n100"] = 2 /\ Mania!Value["n50"] = 1
  BY ManiaValues DEF Kinds, LowJudgements
<1>3. /\ down \in 0..q /\ (down > 0 => d * (4 * down + 2 * (q - down)) <= X)
      /\ up \in 0..q /\ (up < q => X <= d * (4 * up + 1 * (q - up)))
  <2>1. Mania!Value["n200"] > Mania!Value["n100"] /\ Mania!Value["n200"] > Mania!Value["n50"]
    BY <1>2
  <2>2. /\ down \in 0..q
        /\ down > 0 => d * (Mania!Value["n200"] * down + Mania!Value["n100"] * (q - down)) <= X
    BY <1>2, <2>1, ManiaNeededFits
  <2>3. /\ up \in 0..q
        /\ up < q => X <= d * (Mania!Value["n200"] * up + Mania!Value["n50"] * (q - up))
    BY <1>2, <2>1, ManiaNeededFits
  <2>4. QED
    BY <1>2, <2>2, <2>3
<1>4. ASSUME NEW k \in 0..q, NEW j \in 0..(q - k)
      PROVE  \E i \in From(k)..To(k) :
                /\ Found(k, i) \in Int
                /\ Found(k, i) <= Absolute(X - d * Worth(4, 2, 1, q, k, j))
  <2> DEFINE u == Placed(h, "n200", k)
  <2>1. /\ u \in Tries /\ Mania!Left(s, u) = q - k
        /\ Missing(o, s, u) = X - d * (Mania!Value["n200"] * k)
        /\ \A e \in Kinds : u[e] = IF e = "n200" THEN k ELSE h[e]
    BY <1>2, ManiaMissing
  <2>2. u["n100"] = 0 /\ u["n50"] = 0
    <3> HIDE DEF u
    <3>1. QED
      BY <1>2, <2>1
  <2>3. Missing(o, s, u) = X - d * (4 * k)
    BY <1>2, <2>1
  <2> HIDE DEF u
  <2>4. j \in 0..Mania!Left(s, u) /\ Mania!Value["n100"] > Mania!Value["n50"]
    BY <1>2, <2>1
  <2>5. \E i \in Mania!NeededDown(o, s, u, "n100", "n50") .. Mania!NeededUp(o, s, u, "n100", "n50") :
           LET t == Placed(u, "n100", i)
               D == Mania!Dist(o, s, Placed(t, "n50", Mania!Left(s, t)))
           IN  /\ D \in Int
               /\ D <= Absolute(Missing(o, s, u) - d * (Mania!Value["n100"] * j
                                   + Mania!Value["n50"] * (Mania!Left(s, u) - j)))
    BY <1>2, <2>1, <2>2, <2>4, ManiaTwoLeft
  <2>6. Missing(o, s, u) - d * (Mania!Value["n100"] * j + Mania!Value["n50"] * (Mania!Left(s, u) - j))
          = X - d * Worth(4, 2, 1, q, k, j)
    <3> DEFINE x == 4 * k
               y == 2 * j + 1 * (q - k - j)
    <3>1. x \in Int /\ y \in Int /\ Worth(4, 2, 1, q, k, j) = x + y
      BY <1>1 DEF Worth
    <3>2. /\ Missing(o, s, u) = X - d * x
          /\ Mania!Value["n100"] * j + Mania!Value["n50"] * (Mania!Left(s, u) - j) = y
      BY <1>2, <2>1, <2>3
    <3> HIDE DEF x, y, q, X, d
    <3>3. d * (x + y) = d * x + d * y /\ d * x \in Int /\ d * y \in Int
      BY <1>1, <3>1
    <3>4. QED
      BY <1>1, <3>1, <3>2, <3>3
  <2>7. QED
    BY <2>5, <2>6 DEF u
<1> HIDE DEF q, X, d, down, up, Found, From, To
<1>5. /\ down > 0 => d * Worth(4, 2, 1, q, down, q - down) <= X
      /\ up < q => X <= d * Worth(4, 2, 1, q, up, 0)
  <2>1. q \in Int /\ down \in Int /\ up \in Int /\ 4 \in Nat /\ 2 \in Nat /\ 1 \in Nat
    BY <1>1, <1>3
  <2>2. /\ Worth(4, 2, 1, q, down, q - down) = 4 * down + 2 * (q - down)
        /\ Worth(4, 2, 1, q, up, 0) = 4 * up + 1 * (q - up)
    BY <2>1 DEF Worth
  <2>3. QED
    BY <1>3, <2>2
<1>6. a \in 0..q /\ b \in 0..(q - a)
  BY DEF q
<1>7. PICK k \in AtLeast(0, down) .. AtLeast(0, up) :
        /\ k \in 0..q
        /\ \E j \in 0..(q - k) : Absolute(X - d * Worth(4, 2, 1, q, k, j))
                                   <= Absolute(X - d * Worth(4, 2, 1, q, a, b))
  <2>1. 4 \in Nat /\ 2 \in Nat /\ 1 \in Nat /\ 4 > 2 /\ 2 >= 1
    OBVIOUS
  <2>2. QED
    BY <1>1, <1>3, <1>5, <1>6, <2>1, NearestOfThree, ZenonT(60)
<1>8. k \in down..up
  BY <1>1, <1>3, <1>7 DEF AtLeast
<1>9. PICK j \in 0..(q - k) : Absolute(X - d * Worth(4, 2, 1, q, k, j))
                                <= Absolute(X - d * Worth(4, 2, 1, q, a, b))
  BY <1>7
<1>10. PICK i \in From(k)..To(k) : /\ Found(k, i) \in Int
                                 /\ Found(k, i) <= Absolute(X - d * Worth(4, 2, 1, q, k, j))
  BY <1>4, <1>7
<1>11. /\ Absolute(X - d * Worth(4, 2, 1, q, k, j)) \in Int
       /\ Absolute(X - d * Worth(4, 2, 1, q, a, b)) \in Int
  <2>1. k \in Int /\ j \in Int /\ a \in Int /\ b \in Int /\ q \in Int
    BY <1>1, <1>6, <1>7
  <2>2. Worth(4, 2, 1, q, k, j) \in Int /\ Worth(4, 2, 1, q, a, b) \in Int
    BY <2>1 DEF Worth
  <2>3. QED
    BY <1>1, <2>2 DEF Absolute
<1>12. Found(k, i) <= Absolute(X - d * Worth(4, 2, 1, q, a, b))
  BY <1>9, <1>10, <1>11
<1>13. QED
  BY <1>8, <1>10, <1>12 DEF q, X, d, down, up, Found, From, To

\* The combination the search starts from: the counts that are given.
GivenLows(o, s) == [n3x0 |-> 0, n200 |-> Mania!Given(o, s, "n200"),
                    n100 |-> Mania!Given(o, s, "n100"), n50 |-> Mania!Given(o, s, "n50")]

LEMMA GivenLowsFit ==
  ASSUME NEW o, ManiaOpts(o), NEW s \in ManiaSetups
  PROVE  LET h == GivenLows(o, s)
         IN  /\ h \in Tries /\ h.n3x0 = 0
             /\ \A f \in LowJudgements : h[f] = Mania!Given(o, s, f) /\ (o[f] = None => h[f] = 0)
             /\ Mania!Judged(h) = LowGivens(o, s) /\ LowGivens(o, s) \in Nat
             /\ LowGivens(o, s) <= s.remaining => Mania!Left(s, h) = s.remaining - LowGivens(o, s)
             /\ HighGivens(o, s) \in Nat
<1> DEFINE h == GivenLows(o, s)
<1>1. s.remaining \in Nat
  BY DEF ManiaSetups
<1>2. /\ \A f \in Mania!Judgements : Mania!Given(o, s, f) \in Nat
      /\ \A f \in Mania!Judgements : o[f] = None => Mania!Given(o, s, f) = 0
  BY <1>1, ManiaGivenType
<1>3. /\ h \in Tries /\ h.n3x0 = 0
      /\ h.n200 = Mania!Given(o, s, "n200") /\ h.n100 = Mania!Given(o, s, "n100")
      /\ h.n50 = Mania!Given(o, s, "n50")
  BY <1>2 DEF GivenLows, Tries, Mania!Judgements
<1> HIDE DEF h
<1>4. \A f \in LowJudgements : h[f] = Mania!Given(o, s, f) /\ (o[f] = None => h[f] = 0)
  BY <1>2, <1>3 DEF LowJudgements, Mania!Judgements
<1>5. /\ Mania!Judged(h) = LowGivens(o, s) /\ LowGivens(o, s) \in Nat
      /\ HighGivens(o, s) \in Nat
  BY <1>2, <1>3 DEF Mania!Judged, LowGivens, HighGivens, Mania!Judgements, Tries
<1>6. LowGivens(o, s) <= s.remaining => Mania!Left(s, h) = s.remaining - LowGivens(o, s)
  BY <1>1, <1>5 DEF Mania!Left
<1>7. QED
  BY <1>3, <1>4, <1>5, <1>6 DEF h

\* The lower limit if 200s and 50s are open: n are 100s, of r results that are left.
LEMMA LimitOfTwo ==
  ASSUME NEW acc \in Nat, NEW total \in Nat, NEW r \in 0..total, NEW n \in 0..r,
         NEW d \in Nat \ {0}, NEW k \in Nat, k > 0,
         k <= Floor(acc * 3 * r - d * (2 * r - n), d)
  PROVE  d * (6 * k + 4 * (r - n - k)) <= acc * 6 * total - d * (2 * n)
<1> DEFINE num == acc * 3 * r - d * (2 * r - n)
<1>1. r \in Nat /\ n \in Nat /\ r <= total
  OBVIOUS
<1>2. acc * 3 * r \in Int /\ d * (2 * r - n) \in Int
  <2>1. acc * 3 \in Int /\ 2 * r - n \in Int /\ r \in Int /\ d \in Int
    BY <1>1
  <2>2. QED
    BY <2>1, ProductType
<1>3. num \in Int
  BY <1>2
<1> HIDE DEF num
<1>4. num >= 0 /\ d * k <= num
  <2>1. num < 0 => Floor(num, d) = 0
    BY DEF Floor
  <2>2. num >= 0
    BY <1>3, <2>1 DEF num
  <2>3. Floor(num, d) \in Nat /\ d * Floor(num, d) <= num
    <3>1. num \in Nat
      BY <1>3, <2>2
    <3>2. QED
      BY <3>1, Rounded, Zenon
  <2>4. d * k <= d * Floor(num, d) /\ d * k \in Int /\ d * Floor(num, d) \in Int
    <3>1. k <= Floor(num, d)
      BY DEF num
    <3>2. QED
      BY <2>3, <3>1, TimesKeepsOrder
  <2>5. QED
    BY <1>3, <2>2, <2>3, <2>4
<1> DEFINE A == acc * r
           B == acc * total
           R == d * r
           N == d * n
           K == d * k
<1>5. A \in Int /\ B \in Int /\ R \in Int /\ N \in Int /\ K \in Int
  BY <1>1
<1>6. A <= B
  BY <1>1, TimesKeepsOrder
<1>7. num = 3 * A - 2 * R + N
  BY <1>1 DEF num
<1>8. /\ d * (6 * k + 4 * (r - n - k)) = 2 * K + 4 * R - 4 * N
      /\ acc * 6 * total - d * (2 * n) = 6 * B - 2 * N
  BY <1>1
<1> HIDE DEF A, B, R, N, K
<1>9. K <= 3 * A - 2 * R + N
  BY <1>4, <1>7 DEF K
<1>10. QED
  BY <1>5, <1>6, <1>8, <1>9

\* The lower limit if 200s, 100s and 50s are open.
LEMMA LimitOfThree ==
  ASSUME NEW T \in Int, NEW r \in Nat, NEW d \in Nat \ {0}, NEW k \in Nat, k > 0,
         k <= Floor(T - d * 4 * r, d * 5)
  PROVE  d * (6 * k + 4 * (r - k)) <= T
<1> DEFINE num == T - d * 4 * r
           e == d * 5
<1>1. num \in Int /\ e \in Nat \ {0}
  <2>1. d * 4 \in Int /\ r \in Int
    OBVIOUS
  <2>2. d * 4 * r \in Int
    BY <2>1, ProductType
  <2>3. QED
    BY <2>2
<1>2. k <= Floor(num, e)
  OBVIOUS
<1> DEFINE R == d * r
           K == d * k
<1>3. /\ R \in Int /\ K \in Int /\ K >= 0
      /\ num = T - 4 * R /\ e * k = 5 * K /\ d * (6 * k + 4 * (r - k)) = 2 * K + 4 * R
  OBVIOUS
<1> HIDE DEF num, e, R, K
<1>4. num >= 0
  <2>1. num < 0 => Floor(num, e) = 0
    BY DEF Floor
  <2>2. QED
    BY <1>1, <1>2, <2>1
<1>5. Floor(num, e) \in Nat /\ e * Floor(num, e) <= num
  <2>1. num \in Nat
    BY <1>1, <1>4
  <2>2. QED
    BY <1>1, <2>1, Rounded, Zenon
<1>6. e * k <= e * Floor(num, e) /\ e * k \in Int /\ e * Floor(num, e) \in Int
  BY <1>1, <1>2, <1>5, TimesKeepsOrder
<1>7. 5 * K <= T - 4 * R
  BY <1>1, <1>3, <1>5, <1>6
<1>8. QED
  BY <1>3, <1>7

\* The upper limit if 200s, 100s and 50s are open: a 300 more for every two points that
\* 100s leave missing.
LEMMA LimitAbove ==
  ASSUME NEW acc \in Nat, NEW total \in Nat, NEW r \in Nat, NEW d \in Nat \ {0}, NEW k \in 0..r,
         k >= Ceil(acc * 3 * total - d * r, d)
  PROVE  acc * 6 * total <= d * (6 * k + 2 * (r - k))
<1> DEFINE num == acc * 3 * total - d * r
           A == acc * total
           R == d * r
           K == d * k
<1>1. k \in Nat /\ Ceil(num, d) <= k
  OBVIOUS
<1>2. /\ A \in Int /\ R \in Int /\ K \in Int /\ K >= 0
      /\ num = 3 * A - R /\ acc * 6 * total = 6 * A
      /\ d * (6 * k + 2 * (r - k)) = 4 * K + 2 * R
  BY <1>1
<1>3. num \in Int
  BY <1>2
<1> HIDE DEF num, A, R
<1>4. num <= K
  <2>1. CASE num < 0
    BY <1>2, <1>3, <2>1
  <2>2. CASE num >= 0
    <3>1. num \in Nat
      BY <1>3, <2>2
    <3>2. Ceil(num, d) \in Nat /\ num <= d * Ceil(num, d)
      BY <3>1, Rounded, Zenon
    <3>3. d * Ceil(num, d) <= d * k /\ d * Ceil(num, d) \in Int
      BY <1>1, <3>2, TimesKeepsOrder
    <3>4. QED
      BY <1>2, <1>3, <3>2, <3>3
  <2>3. QED
    BY <1>3, <2>1, <2>2
<1> HIDE DEF K
<1>5. QED
  BY <1>2, <1>3, <1>4

\* All three low judgements, in their order, if all are open.
LEMMA ManiaAllLows ==
  ASSUME NEW o, Len(Mania!Lows(o)) = 3
  PROVE  /\ Mania!Lows(o)[1] = "n200" /\ Mania!Lows(o)[2] = "n100" /\ Mania!Lows(o)[3] = "n50"
         /\ o["n200"] = None /\ o["n100"] = None /\ o["n50"] = None
<1> DEFINE L == Mania!Lows(o)
<1>1. /\ \A i \in 1..Len(L) : L[i] \in LowJudgements /\ o[L[i]] = None
      /\ \A i, j \in 1..Len(L) : i < j => Mania!Value[L[i]] > Mania!Value[L[j]] /\ L[i] # L[j]
  BY ManiaLows, Zenon
<1> HIDE DEF L
<1>2. 1 \in 1..Len(L) /\ 2 \in 1..Len(L) /\ 3 \in 1..Len(L) /\ 1 < 2 /\ 2 < 3
  BY DEF L
<1>3. /\ L[1] \in LowJudgements /\ L[2] \in LowJudgements /\ L[3] \in LowJudgements
      /\ o[L[1]] = None /\ o[L[2]] = None /\ o[L[3]] = None
      /\ Mania!Value[L[1]] > Mania!Value[L[2]] /\ Mania!Value[L[2]] > Mania!Value[L[3]]
  BY <1>1, <1>2
<1>4. L[1] = "n200" /\ L[2] = "n100" /\ L[3] = "n50"
  BY <1>3, ManiaValues DEF LowJudgements
<1>5. QED
  BY <1>3, <1>4 DEF L

\* The numbers of 320s and 300s tried: from one that is not too many to one that is enough,
\* and never less than what is given.
LEMMA ManiaLimits ==
  ASSUME NEW o, ManiaOpts(o), o.acc # None, NEW s \in ManiaSetups, play.den \in Nat \ {0},
         Mania!Lows(o) # << >>, LowGivens(o, s) <= s.remaining,
         ~(o.n320 # None /\ o.n300 # None)
  PROVE  LET L == Mania!Lows(o)
             h == GivenLows(o, s)
             q == Mania!Left(s, h)
         IN  \E lo \in 0..q : \E hi \in 0..q :
                /\ Mania!CountsOf3x0(o, s, h)
                     = AtLeast(HighGivens(o, s), lo) .. AtLeast(HighGivens(o, s), hi)
                /\ lo > 0 => play.den * (6 * lo + Mania!Value[L[1]] * (q - lo)) <= Missing(o, s, h)
                /\ hi < q => Missing(o, s, h) <= play.den * (6 * hi
                     + (IF Len(L) = 3 THEN 2 ELSE Mania!Value[L[Len(L)]]) * (q - hi))
<1> DEFINE L == Mania!Lows(o)
           h == GivenLows(o, s)
           q == Mania!Left(s, h)
           X == Missing(o, s, h)
           d == play.den
           r == s.remaining
           given == HighGivens(o, s)
           special == Mania!Least(q, Mania!Floor(o.acc * 3 * r - d * (2 * r - h.n100), d))
           allOpen == Mania!Least(r, Mania!Floor(Mania!Target(o, s) - d * 4 * r, d * 5))
           down == Mania!NeededDown(o, s, h, "n3x0", Head(L))
           most == Mania!NeededUp(o, s, h, "n3x0", Mania!Last(L))
           above == Mania!Ceil(o.acc * 3 * s.total - d * r, d)
           lo == CASE L = <<"n200", "n50">> -> special
                   [] Len(L) = 3 -> allOpen
                   [] OTHER -> down
           hi == IF Len(L) < 3 THEN most ELSE Mania!Least(most, above)
           Enough(n) == n < q => X <= d * (6 * n + (IF Len(L) = 3 THEN 2 ELSE Mania!Value[L[Len(L)]]) * (q - n))
           Few(n) == n > 0 => d * (6 * n + Mania!Value[L[1]] * (q - n)) <= X
<1>1. /\ r \in Nat /\ s.total \in Nat /\ r <= s.total /\ o.acc \in Nat /\ d \in Nat \ {0}
  BY DEF ManiaOpts, Count, ManiaSetups
<1>2. /\ h \in Tries /\ h.n3x0 = 0
      /\ \A f \in LowJudgements : h[f] = Mania!Given(o, s, f) /\ (o[f] = None => h[f] = 0)
      /\ Mania!Judged(h) = LowGivens(o, s) /\ LowGivens(o, s) \in Nat
      /\ LowGivens(o, s) <= s.remaining => q = r - LowGivens(o, s)
      /\ given \in Nat
  BY GivenLowsFit
<1> HIDE DEF h
<1>3. q = r - LowGivens(o, s) /\ q \in Nat /\ q <= r
  BY <1>1, <1>2
<1>4. X \in Int
  BY <1>2, ManiaMissing
<1>5. /\ Len(L) \in 1..3 /\ L[1] \in LowJudgements /\ L[Len(L)] \in LowJudgements
      /\ Head(L) = L[1] /\ Mania!Last(L) = L[Len(L)]
      /\ \A i \in 1..Len(L) : o[L[i]] = None
  <2>1. /\ L \in Seq(LowJudgements) /\ Len(L) \in 0..3
        /\ \A i \in 1..Len(L) : L[i] \in LowJudgements /\ o[L[i]] = None
    BY ManiaLows
  <2>2. Len(L) # 0
    BY <2>1, EmptySeq
  <2> HIDE DEF L
  <2>3. QED
    BY <2>1, <2>2 DEF Mania!Last
<1> HIDE DEF L
<1>6. /\ Mania!Value["n3x0"] = 6 /\ "n3x0" \in Kinds
      /\ Mania!Value["n3x0"] > Mania!Value[L[1]] /\ Mania!Value["n3x0"] > Mania!Value[L[Len(L)]]
      /\ Mania!Value[L[1]] \in Nat /\ Mania!Value[L[Len(L)]] \in Nat
  BY <1>5, ManiaValues DEF LowJudgements, Kinds
<1>7. down \in 0..q /\ Few(down)
  BY <1>2, <1>5, <1>6, ManiaNeededFits
<1>8. most \in 0..q /\ (most < q => X <= d * (6 * most + Mania!Value[L[Len(L)]] * (q - most)))
  BY <1>2, <1>5, <1>6, ManiaNeededFits
<1>9. ASSUME L = <<"n200", "n50">> PROVE special \in 0..q /\ Few(special) /\ Len(L) # 3
  <2>1. Len(L) = 2 /\ L[1] = "n200" /\ L[2] = "n50"
    BY <1>9
  <2>2. o["n200"] = None /\ o["n50"] = None
    <3>1. 1 \in 1..Len(L) /\ 2 \in 1..Len(L)
      BY <2>1
    <3>2. QED
      BY <1>5, <2>1, <3>1
  <2> DEFINE n == h.n100
  <2>3. h.n200 = 0 /\ h.n50 = 0 /\ n \in Nat /\ n = Mania!Given(o, s, "n100")
    BY <1>2, <2>2 DEF LowJudgements, Tries
  <2>4. LowGivens(o, s) = n /\ Mania!Points(h) = 2 * n
    BY <1>2, <2>3 DEF Mania!Judged, Mania!Points
  <2>5. q = r - n /\ n \in 0..r
    BY <1>1, <1>3, <2>3, <2>4
  <2>6. X = o.acc * 6 * s.total - d * (2 * n)
    BY <2>4 DEF Missing, Mania!Target
  <2> DEFINE f == Floor(o.acc * 3 * r - d * (2 * r - n), d)
  <2>7. f \in Nat
    <3>1. o.acc * 3 * r \in Int /\ d * (2 * r - n) \in Int
      <4>1. o.acc * 3 \in Int /\ 2 * r - n \in Int /\ r \in Int /\ d \in Int
        BY <1>1, <2>3
      <4> HIDE DEF r, d, n
      <4>2. QED
        BY <4>1, ProductType
    <3>2. o.acc * 3 * r - d * (2 * r - n) \in Int
      BY <3>1
    <3>3. QED
      BY <1>1, <3>2, RoundedInOrder, Zenon
  <2>8. special = Least(q, f)
    BY SameRounding DEF Mania!Least, Least
  <2> HIDE DEF f, special, q, n
  <2>9. special \in 0..q /\ special <= f /\ special \in Nat
    BY <1>3, <2>7, <2>8 DEF Least
  <2>10. special > 0 => d * (6 * special + 4 * (r - n - special)) <= X
    <3> SUFFICES ASSUME special > 0 PROVE d * (6 * special + 4 * (r - n - special)) <= X
      OBVIOUS
    <3>1. special <= Floor(o.acc * 3 * r - d * (2 * r - n), d)
      BY <2>9 DEF f
    <3>2. r \in 0..s.total
      BY <1>1
    <3> HIDE DEF r, d, X
    <3>3. d * (6 * special + 4 * (r - n - special)) <= o.acc * 6 * s.total - d * (2 * n)
      BY <1>1, <2>5, <2>9, <3>1, <3>2, LimitOfTwo, Zenon
    <3>4. QED
      BY <2>6, <3>3
  <2>11. Few(special)
    BY <2>1, <2>5, <2>10, ManiaValues
  <2>12. QED
    BY <2>1, <2>9, <2>11
<1>10. ASSUME Len(L) = 3
       PROVE  allOpen \in 0..q /\ Few(allOpen) /\ hi \in 0..q /\ Enough(hi)
  <2>1. /\ L[1] = "n200" /\ L[3] = "n50"
        /\ o["n200"] = None /\ o["n100"] = None /\ o["n50"] = None
    BY <1>10, ManiaAllLows DEF L
  <2>2. h.n200 = 0 /\ h.n100 = 0 /\ h.n50 = 0
    BY <1>2, <2>1 DEF LowJudgements
  <2>3. Mania!Judged(h) = 0 /\ Mania!Points(h) = 0
    BY <1>2, <2>2 DEF Mania!Judged, Mania!Points
  <2>4. q = r
    BY <1>1, <1>2, <1>3, <2>3
  <2>5. X = Mania!Target(o, s) /\ Mania!Target(o, s) = o.acc * 6 * s.total
    <3>1. d * 0 = 0
      BY <1>1
    <3>2. X = Mania!Target(o, s) - d * 0
      BY <2>3 DEF Missing
    <3>3. Mania!Target(o, s) \in Int /\ Mania!Target(o, s) = o.acc * 6 * s.total
      BY <1>1 DEF Mania!Target
    <3> HIDE DEF X, d
    <3>4. QED
      BY <3>1, <3>2, <3>3
  <2> DEFINE f == Floor(X - d * 4 * r, d * 5)
             c == Ceil(o.acc * 3 * s.total - d * r, d)
  <2>6. f \in Nat
    <3>1. d * 4 \in Int /\ d * 5 \in Nat \ {0} /\ r \in Int
      BY <1>1
    <3> HIDE DEF d, r, X
    <3>2. d * 4 * r \in Int
      BY <3>1, ProductType
    <3>3. X - d * 4 * r \in Int
      BY <1>4, <3>2
    <3>4. QED
      BY <3>1, <3>3, RoundedInOrder, Zenon
  <2>7. c \in Nat
    <3>1. o.acc * 3 \in Int /\ s.total \in Int /\ r \in Int /\ d \in Int
      BY <1>1
    <3> HIDE DEF d, r
    <3>2. o.acc * 3 * s.total \in Int /\ d * r \in Int
      BY <3>1, ProductType
    <3>3. o.acc * 3 * s.total - d * r \in Int
      BY <3>2
    <3>4. QED
      BY <1>1, <3>3, RoundedInOrder, Zenon
  <2>8. allOpen = Least(q, f) /\ above = c
    BY <2>4, <2>5, SameRounding DEF Mania!Least, Least
  <2> HIDE DEF f, c, allOpen, above, q, most
  <2>9. allOpen \in 0..q /\ allOpen <= f /\ allOpen \in Nat
    BY <1>3, <2>6, <2>8 DEF Least
  <2>10. Few(allOpen)
    <3> SUFFICES ASSUME allOpen > 0
                 PROVE  d * (6 * allOpen + Mania!Value[L[1]] * (q - allOpen)) <= X
      OBVIOUS
    <3>1. allOpen <= Floor(X - d * 4 * r, d * 5)
      BY <2>9 DEF f
    <3> HIDE DEF r, d, X
    <3>2. d * (6 * allOpen + 4 * (r - allOpen)) <= X
      BY <1>1, <1>4, <2>9, <3>1, LimitOfThree, Zenon
    <3>3. QED
      BY <2>1, <2>4, <3>2, ManiaValues
  <2>11. hi = IF most < c THEN most ELSE c
    BY <1>10, <2>8 DEF Mania!Least
  <2> HIDE DEF hi
  <2>12. hi \in 0..q /\ (hi = most \/ hi >= c)
    BY <1>3, <1>8, <2>7, <2>11
  <2>13. Enough(hi)
    <3> SUFFICES ASSUME hi < q PROVE X <= d * (6 * hi + 2 * (q - hi))
      BY <1>10
    <3> DEFINE n == hi
    <3>1. n \in 0..q /\ n \in Nat /\ n < q /\ (n = most \/ n >= c)
      BY <1>3, <2>12
    <3> HIDE DEF n
    <3>2. CASE n = most
      <4>1. X <= d * (6 * n + 1 * (q - n))
        <5>1. Mania!Value[L[Len(L)]] = 1
          BY <1>10, <2>1, ManiaValues
        <5>2. QED
          BY <1>8, <3>1, <3>2, <5>1
      <4>2. 6 * n + 1 * (q - n) <= 6 * n + 2 * (q - n) /\ 6 * n + 1 * (q - n) \in Nat
            /\ 6 * n + 2 * (q - n) \in Nat
        <5>1. q - n \in Nat /\ 6 * n \in Nat
          BY <1>3, <3>1
        <5> DEFINE m == q - n
        <5>2. 6 * n + 1 * m <= 6 * n + 2 * m /\ 6 * n + 1 * m \in Nat /\ 6 * n + 2 * m \in Nat
          <6>1. m \in Nat
            BY <5>1
          <6> HIDE DEF m
          <6>2. QED
            BY <5>1, <6>1
        <5>3. QED
          BY <5>2
      <4> DEFINE x == 6 * n + 1 * (q - n)
                 y == 6 * n + 2 * (q - n)
      <4> HIDE DEF x, y, d, X, n
      <4>3. d * x <= d * y /\ d * x \in Int /\ d * y \in Int
        <5>1. x \in Nat /\ y \in Nat /\ x <= y
          BY <4>2 DEF x, y
        <5>2. QED
          BY <1>1, <5>1, TimesKeepsOrder
      <4>4. X <= d * x
        BY <4>1 DEF x
      <4>5. X <= d * y
        BY <1>4, <4>3, <4>4
      <4>6. QED
        BY <4>5 DEF y, n
    <3>3. CASE n >= c
      <4>1. n \in 0..r /\ n >= Ceil(o.acc * 3 * s.total - d * r, d)
        BY <2>4, <3>1, <3>3 DEF c
      <4> HIDE DEF r, d, X, n
      <4>2. o.acc * 6 * s.total <= d * (6 * n + 2 * (r - n))
        BY <1>1, <4>1, LimitAbove, Zenon
      <4>3. QED
        BY <2>4, <2>5, <4>2 DEF n
    <3>4. QED
      BY <3>1, <3>2, <3>3 DEF n
  <2>14. QED
    BY <2>9, <2>10, <2>12, <2>13
<1>11. lo \in 0..q /\ Few(lo)
  <2> HIDE DEF Few, special, allOpen, down, q
  <2>1. CASE L = <<"n200", "n50">>
    <3>1. lo = special
      BY <1>9, <2>1
    <3>2. QED
      BY <1>9, <2>1, <3>1
  <2>2. CASE L # <<"n200", "n50">> /\ Len(L) = 3
    <3>1. lo = allOpen
      BY <2>2
    <3>2. QED
      BY <1>10, <2>2, <3>1
  <2>3. CASE L # <<"n200", "n50">> /\ Len(L) # 3
    <3>1. lo = down
      BY <2>3
    <3>2. QED
      BY <1>7, <3>1
  <2>4. QED
    BY <2>1, <2>2, <2>3
<1>12. hi \in 0..q /\ Enough(hi)
  <2>1. CASE Len(L) = 3
    BY <1>10, <2>1
  <2>2. CASE Len(L) # 3
    <3>1. hi = most
      BY <1>5, <2>2
    <3>2. QED
      BY <1>8, <2>2, <3>1
  <2>3. QED
    BY <2>1, <2>2
<1>13. Mania!CountsOf3x0(o, s, h) = Mania!Max({lo, given}) .. Mania!Max({hi, given})
  BY DEF Mania!CountsOf3x0, HighGivens, L
<1> HIDE DEF lo, hi, given, q, Few, Enough
<1>14. Mania!CountsOf3x0(o, s, h) = AtLeast(given, lo) .. AtLeast(given, hi)
  <2>1. /\ Mania!Max({lo, given}) = IF lo < given THEN given ELSE lo
        /\ Mania!Max({hi, given}) = IF hi < given THEN given ELSE hi
    BY <1>2, <1>11, <1>12, ManiaMax
  <2>2. QED
    BY <1>13, <2>1 DEF AtLeast
<1>15. QED
  <2>1. \E x \in 0..q : \E y \in 0..q :
           /\ Mania!CountsOf3x0(o, s, h) = AtLeast(given, x) .. AtLeast(given, y)
           /\ Few(x) /\ Enough(y)
    BY <1>11, <1>12, <1>14
  <2>2. QED
    BY <2>1 DEF L, h, q, given, Few, Enough

\* What can be reached with some number of 320s and 300s is reached as closely with one that
\* is tried.
LEMMA ManiaTopIsCloser ==
  ASSUME NEW o, ManiaOpts(o), o.acc # None, NEW s \in ManiaSetups, play.den \in Nat \ {0},
         Mania!Lows(o) # << >>, LowGivens(o, s) <= s.remaining,
         NEW a \in HighGivens(o, s) .. Mania!Left(s, GivenLows(o, s)),
         o.n320 # None /\ o.n300 # None => a = HighGivens(o, s)
  PROVE  LET L == Mania!Lows(o)
             h == GivenLows(o, s)
             q == Mania!Left(s, h)
             Off(w) == Absolute(Missing(o, s, h) - play.den * w)
             Points(k, j) == Worth(6, Mania!Value[L[1]], Mania!Value[L[Len(L)]], q, k, j)
         IN  /\ Len(L) < 3 => \A b \in 0..(q - a) :
                  \E k \in Mania!CountsOf3x0(o, s, h) : k \in 0..q /\ \E j \in 0..(q - k) :
                     Off(Points(k, j)) <= Off(Points(a, b))
             /\ Len(L) = 3 => \A b \in 0..(q - a) : \A c \in 0..(q - a - b) :
                  \E k \in Mania!CountsOf3x0(o, s, h) : k \in 0..q /\ \E j \in 0..(q - k) :
                     \E i \in 0..(q - k - j) :
                        Off(WorthOfAll(q, k, j, i)) <= Off(WorthOfAll(q, a, b, c))
<1> DEFINE L == Mania!Lows(o)
           h == GivenLows(o, s)
           q == Mania!Left(s, h)
           X == Missing(o, s, h)
           d == play.den
           v == Mania!Value[L[1]]
           w == Mania!Value[L[Len(L)]]
           C == Mania!CountsOf3x0(o, s, h)
           given == HighGivens(o, s)
           Near(k, b) == \E j \in 0..(q - k) : Absolute(X - d * Worth(6, v, w, q, k, j))
                                                 <= Absolute(X - d * Worth(6, v, w, q, a, b))
           NearAll(k, b, c) == \E j \in 0..(q - k) : \E i \in 0..(q - k - j) :
                                  Absolute(X - d * WorthOfAll(q, k, j, i))
                                    <= Absolute(X - d * WorthOfAll(q, a, b, c))
<1>1. h \in Tries /\ given \in Nat
  BY GivenLowsFit
<1> HIDE DEF h
<1>2. q \in Nat /\ X \in Int /\ d \in Nat \ {0}
  BY <1>1, ManiaMissing
<1>3. Len(L) \in 1..3 /\ L[1] \in LowJudgements /\ L[Len(L)] \in LowJudgements
      /\ (Len(L) > 1 => Mania!Value[L[1]] > Mania!Value[L[Len(L)]])
      /\ (Len(L) < 3 => Len(L) # 3)
  <2>1. /\ L \in Seq(LowJudgements) /\ Len(L) \in 0..3
        /\ \A i \in 1..Len(L) : L[i] \in LowJudgements
        /\ \A i, j \in 1..Len(L) : i < j => Mania!Value[L[i]] > Mania!Value[L[j]]
    BY ManiaLows
  <2>2. Len(L) # 0
    BY <2>1, EmptySeq
  <2> HIDE DEF L
  <2>3. 1 \in 1..Len(L) /\ Len(L) \in 1..Len(L)
    BY <2>1, <2>2
  <2>4. Len(L) < 3 => Len(L) # 3
    <3>1. \A n \in 0..3 : n < 3 => n # 3
      OBVIOUS
    <3>2. QED
      BY <2>1, <3>1, Zenon
  <2>5. /\ Len(L) \in 1..3 /\ L[1] \in LowJudgements /\ L[Len(L)] \in LowJudgements
        /\ (Len(L) > 1 => Mania!Value[L[1]] > Mania!Value[L[Len(L)]])
    BY <2>1, <2>2, <2>3
  <2>6. QED
    BY <2>4, <2>5
<1>4. v \in Nat /\ w \in Nat /\ 6 > v /\ v >= w /\ 6 \in Nat
  <2> HIDE DEF L
  <2>1. v \in {4, 2, 1} /\ w \in {4, 2, 1}
    BY <1>3, ManiaValues DEF LowJudgements
  <2>2. Len(L) = 1 => v = w
    OBVIOUS
  <2>3. QED
    BY <1>3, <2>1, <2>2, SMTT(30)
<1>5. a \in given..q /\ a \in Nat /\ a <= q /\ given <= a
  BY <1>1, <1>2 DEF h
<1>6. /\ \A b \in 0..(q - a) : Worth(6, v, w, q, a, b) \in Int
      /\ \A b \in 0..(q - a) : \A c \in 0..(q - a - b) : WorthOfAll(q, a, b, c) \in Int
  <2> HIDE DEF L, q, X, d, v, w, C, given
  <2>1. \A b \in Int : Worth(6, v, w, q, a, b) \in Int
    <3> SUFFICES ASSUME NEW b \in Int PROVE Worth(6, v, w, q, a, b) \in Int
      OBVIOUS
    <3>1. 6 * a \in Int /\ v * b \in Int /\ q - a - b \in Int
      BY <1>2, <1>4, <1>5
    <3>2. w * (q - a - b) \in Int
      BY <1>4, <3>1, ProductType
    <3>3. QED
      BY <3>1, <3>2 DEF Worth
  <2>2. \A b, c \in Int : WorthOfAll(q, a, b, c) \in Int
    BY <1>2, <1>5 DEF WorthOfAll
  <2>3. /\ \A b \in 0..(q - a) : b \in Int
        /\ \A b \in 0..(q - a) : \A c \in 0..(q - a - b) : c \in Int
    BY <1>2, <1>5
  <2>4. QED
    BY <2>1, <2>2, <2>3, Zenon
<1>7. \A x \in Int : Absolute(X - d * x) <= Absolute(X - d * x)
  <2> SUFFICES ASSUME NEW x \in Int PROVE Absolute(X - d * x) <= Absolute(X - d * x)
    OBVIOUS
  <2>1. X - d * x \in Int
    BY <1>2
  <2>2. QED
    BY <2>1 DEF Absolute
<1>8. /\ \A b \in 0..(q - a) : Near(a, b)
      /\ \A b \in 0..(q - a) : \A c \in 0..(q - a - b) : NearAll(a, b, c)
  <2> HIDE DEF q, X, d, v, w
  <2>1. QED
    BY <1>6, <1>7
<1>9. CASE o.n320 # None /\ o.n300 # None
  <2>1. a = given /\ given <= s.remaining
    <3>1. s.remaining \in Nat /\ q <= s.remaining
      BY <1>1, ManiaPlaced, SMTT(30) DEF ManiaSetups, Mania!Left, Tries, Mania!Judged
    <3>2. QED
      BY <1>1, <1>2, <1>5, <1>9, <3>1
  <2>2. C = {Mania!Least(s.remaining, given)}
    BY <1>9 DEF Mania!CountsOf3x0, HighGivens
  <2>3. s.remaining \in Nat
    BY DEF ManiaSetups
  <2>4. a \in C /\ a \in 0..q
    <3>1. Mania!Least(s.remaining, given) = given
      BY <1>1, <2>1, <2>3
    <3>2. QED
      BY <1>2, <1>5, <2>1, <2>2, <3>1
  <2> HIDE DEF q, C, Near, NearAll
  <2>5. /\ \A b \in 0..(q - a) : \E k \in C : k \in 0..q /\ Near(k, b)
        /\ \A b \in 0..(q - a) : \A c \in 0..(q - a - b) :
              \E k \in C : k \in 0..q /\ NearAll(k, b, c)
    BY <1>8, <2>4
  <2>6. QED
    BY <2>5 DEF L, h, q, X, d, v, w, C, Near, NearAll
<1>10. CASE ~(o.n320 # None /\ o.n300 # None)
  <2>1. PICK lo \in 0..q : \E hi \in 0..q :
          /\ C = AtLeast(given, lo) .. AtLeast(given, hi)
          /\ lo > 0 => d * (6 * lo + v * (q - lo)) <= X
          /\ hi < q => X <= d * (6 * hi + (IF Len(L) = 3 THEN 2 ELSE w) * (q - hi))
    BY <1>10, ManiaLimits DEF h
  <2>2. PICK hi \in 0..q :
          /\ C = AtLeast(given, lo) .. AtLeast(given, hi)
          /\ lo > 0 => d * (6 * lo + v * (q - lo)) <= X
          /\ hi < q => X <= d * (6 * hi + (IF Len(L) = 3 THEN 2 ELSE w) * (q - hi))
    BY <2>1
  <2>3. lo \in Nat /\ hi \in Nat /\ lo \in Int /\ hi \in Int /\ q \in Int /\ given \in 0..q
    BY <1>1, <1>2, <1>5
  <2>4. ASSUME Len(L) < 3, NEW b \in 0..(q - a)
        PROVE  \E k \in C : k \in 0..q /\ Near(k, b)
    <3>1. /\ Worth(6, v, w, q, lo, q - lo) = 6 * lo + v * (q - lo)
          /\ Worth(6, v, w, q, hi, 0) = 6 * hi + w * (q - hi)
      <4> HIDE DEF q, v, w, given
      <4>1. /\ q - lo - (q - lo) = 0 /\ q - hi - 0 = q - hi /\ v * 0 = 0 /\ w * 0 = 0
            /\ 6 * lo \in Int /\ v * (q - lo) \in Int /\ 6 * hi \in Int /\ w * (q - hi) \in Int
        BY <1>4, <2>3
      <4>2. QED
        BY <4>1 DEF Worth
    <3>2. /\ lo > 0 => d * Worth(6, v, w, q, lo, q - lo) <= X
          /\ hi < q => X <= d * Worth(6, v, w, q, hi, 0)
      <4> HIDE DEF q, v, w, d, X, L
      <4>1. Len(L) # 3
        BY <1>3, <2>4, Zenon
      <4>2. QED
        BY <2>2, <3>1, <4>1
    <3> HIDE DEF q, v, w, d, X, L, C, given
    <3>3. \E k \in AtLeast(given, lo) .. AtLeast(given, hi) :
             /\ k \in given..q
             /\ \E j \in 0..(q - k) : Absolute(X - d * Worth(6, v, w, q, k, j))
                                        <= Absolute(X - d * Worth(6, v, w, q, a, b))
      BY <1>2, <1>4, <1>5, <2>3, <3>2, NearestOfThree, Zenon
    <3>4. \A k \in given..q : k \in 0..q
      BY <1>1, <1>2
    <3>5. QED
      BY <2>2, <3>3, <3>4
  <2>5. ASSUME Len(L) = 3, NEW b \in 0..(q - a), NEW c \in 0..(q - a - b)
        PROVE  \E k \in C : k \in 0..q /\ NearAll(k, b, c)
    <3>1. v = 4
      BY <2>5, ManiaAllLows, ManiaValues
    <3>2. /\ WorthOfAll(q, lo, q - lo, 0) = 6 * lo + 4 * (q - lo)
          /\ WorthOfAll(q, hi, 0, q - hi) = 6 * hi + 2 * (q - hi)
      <4> HIDE DEF q, given
      <4>1. /\ q - lo - (q - lo) - 0 = 0 /\ q - hi - 0 - (q - hi) = 0
            /\ 4 * (q - lo) \in Int /\ 6 * lo \in Int /\ 2 * (q - hi) \in Int /\ 6 * hi \in Int
        BY <2>3
      <4>2. QED
        BY <2>3, <4>1 DEF WorthOfAll
    <3>3. /\ lo > 0 => d * WorthOfAll(q, lo, q - lo, 0) <= X
          /\ hi < q => X <= d * WorthOfAll(q, hi, 0, q - hi)
      <4> HIDE DEF q, v, w, d, X, L
      <4>1. QED
        BY <2>2, <2>5, <3>1, <3>2
    <3> HIDE DEF q, v, w, d, X, L, C, given
    <3>4. \E k \in AtLeast(given, lo) .. AtLeast(given, hi) :
             /\ k \in given..q
             /\ \E j \in 0..(q - k) : \E i \in 0..(q - k - j) :
                   Absolute(X - d * WorthOfAll(q, k, j, i))
                     <= Absolute(X - d * WorthOfAll(q, a, b, c))
      BY <1>2, <1>5, <2>3, <3>3, NearestOfFour, Zenon
    <3>5. \A k \in given..q : k \in 0..q
      BY <1>1, <1>2
    <3>6. QED
      BY <2>2, <3>4, <3>5
  <2> HIDE DEF C, Near, NearAll
  <2>6. QED
    BY <2>4, <2>5 DEF L, h, q, X, d, v, w, C, Near, NearAll
<1>11. QED
  BY <1>9, <1>10

\* The judgements that follow the i-th of those that are open.
LEMMA ManiaLater ==
  ASSUME NEW o, NEW i \in 1..3, i < Len(Mania!Lows(o))
  PROVE  LET L == Mania!Lows(o)
             later == SubSeq(L, i + 1, Len(L))
         IN  Head(later) = L[i + 1] /\ Mania!Last(later) = L[Len(L)]
<1> DEFINE L == Mania!Lows(o)
           later == SubSeq(L, i + 1, Len(L))
<1>1. L \in Seq(LowJudgements) /\ Len(L) \in 0..3 /\ i < Len(L)
  BY ManiaLows
<1> HIDE DEF L
<1>2. i \in 1..Len(L) /\ i + 1 \in 1..Len(L) /\ Len(L) \in 1..Len(L)
  BY <1>1
<1>3. later \in Seq(LowJudgements) /\ Len(later) = Len(L) - i
      /\ \A j \in 1..(Len(L) - i) : later[j] = L[i + j]
  BY <1>1, <1>2
<1>4. later # << >> /\ 1 \in 1..(Len(L) - i) /\ Len(L) - i \in 1..(Len(L) - i)
  BY <1>1, <1>2, <1>3
<1> HIDE DEF later
<1>5. Head(later) = later[1] /\ Mania!Last(later) = later[Len(later)]
  BY <1>3, <1>4 DEF Mania!Last
<1>6. later[1] = L[i + 1] /\ later[Len(later)] = L[i + (Len(L) - i)]
  BY <1>3, <1>4
<1>7. i + (Len(L) - i) = Len(L)
  BY <1>1
<1>8. QED
  BY <1>5, <1>6, <1>7, Zenon DEF L, later

\* The combinations that are tried.
LEMMA ManiaIsTried ==
  ASSUME NEW o, NEW s, Mania!Lows(o) # << >>, NEW k \in Mania!CountsOf3x0(o, s, GivenLows(o, s))
  PROVE  LET L == Mania!Lows(o)
             u == Placed(GivenLows(o, s), "n3x0", k)
             Between(h, f, g, e) == Mania!NeededDown(o, s, h, f, g) .. Mania!NeededUp(o, s, h, f, e)
             Filled(h, f) == Placed(h, f, Mania!Left(s, h))
         IN  /\ Len(L) = 1 => Filled(u, L[1]) \in Mania!Tried(o, s)
             /\ Len(L) = 2 => \A j \in Between(u, L[1], L[2], L[2]) :
                  Filled(Placed(u, L[1], j), L[2]) \in Mania!Tried(o, s)
             /\ Len(L) = 3 => \A j \in Between(u, L[1], L[2], L[3]) :
                  \A i \in Between(Placed(u, L[1], j), L[2], L[3], L[3]) :
                     Filled(Placed(Placed(u, L[1], j), L[2], i), L[3]) \in Mania!Tried(o, s)
<1> DEFINE L == Mania!Lows(o)
           none == GivenLows(o, s)
           u == Placed(none, "n3x0", k)
           Between(h, f, g, e) == Mania!NeededDown(o, s, h, f, g) .. Mania!NeededUp(o, s, h, f, e)
           Filled(h, f) == Placed(h, f, Mania!Left(s, h))
           Counts(i, g) == Mania!CountsOf(o, s, g, L[i], SubSeq(L, i + 1, Len(L)))
           Extended(H, i) == IF i >= Len(L) THEN H ELSE
                             UNION {{[g EXCEPT ![L[i]] = n] : n \in Counts(i, g)} : g \in H}
           top == {[none EXCEPT !.n3x0 = n] : n \in Mania!CountsOf3x0(o, s, none)}
<1>1. Len(L) \in 1..3 /\ Mania!Last(L) = L[Len(L)]
  <2>1. L \in Seq(LowJudgements) /\ Len(L) \in 0..3
    BY ManiaLows
  <2>2. Len(L) # 0
    BY <2>1, EmptySeq
  <2> HIDE DEF L
  <2>3. QED
    BY <2>1, <2>2 DEF Mania!Last
<1>2. Mania!Tried(o, s) = {[g EXCEPT ![Mania!Last(L)] = Mania!Left(s, g)] :
                             g \in Extended(Extended(top, 1), 2)}
  BY DEF Mania!Tried, GivenLows
<1>3. \A g \in Extended(Extended(top, 1), 2) : Filled(g, L[Len(L)]) \in Mania!Tried(o, s)
  <2> HIDE DEF L, Extended, top
  <2>1. QED
    BY <1>1, <1>2 DEF Placed
<1>4. u \in top
  BY DEF Placed
<1>5. ASSUME NEW i \in 1..3, i < Len(L), NEW g
      PROVE  Counts(i, g) = Between(g, L[i], L[i + 1], L[Len(L)])
  BY <1>5, ManiaLater DEF Mania!CountsOf
<1> HIDE DEF Counts, top
<1>6. ASSUME NEW H, NEW i \in 1..3, ~(i >= Len(L)), NEW g \in H, NEW n \in Counts(i, g)
      PROVE  Placed(g, L[i], n) \in Extended(H, i)
  <2>1. Placed(g, L[i], n) \in {[g EXCEPT ![L[i]] = m] : m \in Counts(i, g)}
    BY DEF Placed
  <2> HIDE DEF L
  <2>2. QED
    BY <1>6, <2>1
<1>7. ASSUME NEW H, NEW i \in 1..3, i >= Len(L) PROVE Extended(H, i) = H
  BY <1>7
<1> HIDE DEF Extended, L, u, none
<1>8. ASSUME Len(L) = 1 PROVE Filled(u, L[1]) \in Mania!Tried(o, s)
  <2>1. Extended(Extended(top, 1), 2) = top
    <3>1. 1 >= Len(L) /\ 2 >= Len(L) /\ 1 \in 1..3 /\ 2 \in 1..3
      BY <1>8
    <3>2. Extended(top, 1) = top
      BY <1>7, <3>1
    <3>3. QED
      BY <1>7, <3>1, <3>2
  <2>2. QED
    BY <1>3, <1>4, <1>8, <2>1
<1>9. ASSUME Len(L) = 2, NEW j \in Between(u, L[1], L[2], L[2])
      PROVE  Filled(Placed(u, L[1], j), L[2]) \in Mania!Tried(o, s)
  <2>1. 2 >= Len(L) /\ ~(1 >= Len(L)) /\ 1 < Len(L) /\ 1 \in 1..3 /\ 2 \in 1..3 /\ 1 + 1 = 2
    BY <1>9
  <2>2. Counts(1, u) = Between(u, L[1], L[2], L[2])
    BY <1>5, <1>9, <2>1
  <2> HIDE DEF Between
  <2>3. Placed(u, L[1], j) \in Extended(top, 1)
    BY <1>4, <1>6, <1>9, <2>1, <2>2
  <2>4. Extended(Extended(top, 1), 2) = Extended(top, 1)
    BY <1>7, <2>1
  <2>5. QED
    BY <1>3, <1>9, <2>3, <2>4
<1>10. ASSUME Len(L) = 3, NEW j \in Between(u, L[1], L[2], L[3]),
              NEW i \in Between(Placed(u, L[1], j), L[2], L[3], L[3])
       PROVE  Filled(Placed(Placed(u, L[1], j), L[2], i), L[3]) \in Mania!Tried(o, s)
  <2>1. /\ ~(2 >= Len(L)) /\ ~(1 >= Len(L)) /\ 1 < Len(L) /\ 2 < Len(L) /\ 1 \in 1..3
        /\ 2 \in 1..3 /\ 1 + 1 = 2 /\ 2 + 1 = 3
    BY <1>10
  <2> DEFINE t == Placed(u, L[1], j)
  <2>2. Counts(1, u) = Between(u, L[1], L[2], L[3]) /\ Counts(2, t) = Between(t, L[2], L[3], L[3])
    <3> HIDE DEF t
    <3>1. Counts(1, u) = Between(u, L[1], L[1 + 1], L[Len(L)])
      BY <1>5, <2>1
    <3>2. Counts(2, t) = Between(t, L[2], L[2 + 1], L[Len(L)])
      BY <1>5, <2>1
    <3>3. QED
      BY <1>10, <2>1, <3>1, <3>2
  <2> HIDE DEF Between
  <2>3. t \in Extended(top, 1)
    BY <1>4, <1>6, <1>10, <2>1, <2>2
  <2>4. Placed(t, L[2], i) \in Extended(Extended(top, 1), 2)
    <3>1. i \in Counts(2, t)
      BY <2>2
    <3> HIDE DEF t
    <3>2. QED
      BY <1>6, <2>1, <2>3, <3>1
  <2>5. QED
    BY <1>3, <1>10, <2>4
<1>11. QED
  BY <1>8, <1>9, <1>10 DEF L, u, none

\* A split of r results, and one that holds only what is given of them: the difference.
LEMMA SplitDifference ==
  ASSUME NEW r \in Nat, NEW given \in Nat, NEW a \in Nat,
         NEW g2 \in Nat, NEW g1 \in Nat, NEW g0 \in Nat, a + g2 + g1 + g0 = r,
         NEW h2 \in Nat, NEW h1 \in Nat, NEW h0 \in Nat, h2 + h1 + h0 = given,
         h2 <= g2, h1 <= g1, h0 <= g0
  PROVE  \E x, y, z \in Nat : /\ x + h2 = g2 /\ y + h1 = g1 /\ z + h0 = g0
                              /\ given <= r /\ a + x + y + z = r - given
                              /\ 6 * a + 4 * g2 + 2 * g1 + g0 =
                                   (4 * h2 + 2 * h1 + h0) + (6 * a + 4 * x + 2 * y + z)
<1>1. g2 - h2 \in Nat /\ g1 - h1 \in Nat /\ g0 - h0 \in Nat
  OBVIOUS
<1>2. PICK x \in Nat : x = g2 - h2
  BY <1>1
<1>3. PICK y \in Nat : y = g1 - h1
  BY <1>1
<1>4. PICK z \in Nat : z = g0 - h0
  BY <1>1
<1>5. x + h2 = g2 /\ y + h1 = g1 /\ z + h0 = g0
  BY <1>2, <1>3, <1>4
<1>6. given <= r /\ a + x + y + z = r - given
  BY <1>5
<1>7. 6 * a + 4 * g2 + 2 * g1 + g0 = (4 * h2 + 2 * h1 + h0) + (6 * a + 4 * x + 2 * y + z)
  BY <1>5
<1>8. QED
  BY <1>5, <1>6, <1>7

\* Of p + w points, with p of them given, what w misses.
LEMMA DistAbove ==
  ASSUME NEW o, ManiaOpts(o), o.acc # None, NEW s \in ManiaSetups, play.den \in Nat \ {0},
         NEW g, NEW h, Mania!Points(h) \in Nat, NEW w \in Nat,
         Mania!Points(g) = Mania!Points(h) + w
  PROVE  /\ Mania!Dist(o, s, g) = Absolute(Missing(o, s, h) - play.den * w)
         /\ Mania!Dist(o, s, g) \in Int
<1> DEFINE p == Mania!Points(h)
           T == Mania!Target(o, s)
<1>1. s.total \in Nat /\ o.acc \in Nat
  BY DEF ManiaOpts, Count, ManiaSetups
<1>2. T \in Int /\ p \in Nat
  BY <1>1 DEF Mania!Target
<1>3. Mania!Dist(o, s, g) = Absolute(T - play.den * (p + w))
  BY DEF Mania!Dist, Mania!Absolute, Absolute
<1>4. Missing(o, s, h) = T - play.den * p
  BY DEF Missing
<1> HIDE DEF p, T
<1>5. /\ play.den * (p + w) = play.den * p + play.den * w
      /\ play.den * p \in Int /\ play.den * w \in Int
  BY <1>2
<1>6. T - play.den * (p + w) = T - play.den * p - play.den * w /\ T - play.den * (p + w) \in Int
  BY <1>2, <1>5
<1>7. QED
  BY <1>3, <1>4, <1>6 DEF Absolute

\* A split of the results that are left: what it adds to the counts that are given.
LEMMA ManiaSplit ==
  ASSUME NEW o, ManiaOpts(o), o.acc # None, NEW s \in ManiaSetups, play.den \in Nat \ {0},
         NEW g \in Mania!Splits(o, s)
  PROVE  LET h == GivenLows(o, s)
             q == Mania!Left(s, h)
             a == g.n3x0
         IN  /\ LowGivens(o, s) <= s.remaining /\ a \in HighGivens(o, s)..q
             /\ o.n320 # None /\ o.n300 # None => a = HighGivens(o, s)
             /\ \E x, y, z \in Nat :
                  /\ a + x + y + z = q
                  /\ (o["n200"] # None => x = 0) /\ (o["n100"] # None => y = 0)
                  /\ (o["n50"] # None => z = 0)
                  /\ Mania!Dist(o, s, g) =
                       Absolute(Missing(o, s, h) - play.den * (6 * a + 4 * x + 2 * y + z))
                  /\ Mania!Dist(o, s, g) \in Int
<1> DEFINE h == GivenLows(o, s)
           q == Mania!Left(s, h)
           r == s.remaining
           l == LowGivens(o, s)
<1>1. r \in Nat /\ s.total \in Nat /\ o.acc \in Nat
  BY DEF ManiaOpts, Count, ManiaSetups
<1>2. /\ h \in Tries /\ h.n3x0 = 0
      /\ (\A f \in LowJudgements : h[f] = Mania!Given(o, s, f) /\ (o[f] = None => h[f] = 0))
      /\ Mania!Judged(h) = l /\ l \in Nat /\ HighGivens(o, s) \in Nat
  BY GivenLowsFit
<1>3. l <= r => q = r - l
  BY GivenLowsFit
<1>4. PICK a \in 0..r, b \in 0..r, c \in 0..r :
        /\ g = [n3x0 |-> a, n200 |-> b, n100 |-> c, n50 |-> r - a - b - c]
        /\ g.n50 >= 0 /\ g.n3x0 >= HighGivens(o, s)
        /\ (o.n320 # None /\ o.n300 # None => g.n3x0 = HighGivens(o, s))
        /\ \A f \in DOMAIN Mania!Value \ {"n3x0"} : o[f] # None => g[f] = Mania!Given(o, s, f)
  BY DEF Mania!Splits, HighGivens
<1>5. LowJudgements = DOMAIN Mania!Value \ {"n3x0"}
  BY DEF LowJudgements, Mania!Value
<1>6. PICK d \in Nat : d = r - a - b - c
  <2>1. g.n50 = r - a - b - c /\ g.n50 >= 0 /\ a \in Int /\ b \in Int /\ c \in Int
    BY <1>4
  <2>2. r - a - b - c \in Nat
    BY <1>1, <2>1
  <2>3. QED
    BY <2>2
<1>7. /\ g.n3x0 = a /\ g.n200 = b /\ g.n100 = c /\ g.n50 = d
      /\ a \in Nat /\ b \in Nat /\ c \in Nat /\ a + b + c + d = r
      /\ a >= HighGivens(o, s) /\ (o.n320 # None /\ o.n300 # None => a = HighGivens(o, s))
  BY <1>1, <1>4, <1>6
<1>8. "n200" \in LowJudgements /\ "n100" \in LowJudgements /\ "n50" \in LowJudgements
  BY DEF LowJudgements
<1>9. /\ o["n200"] # None => g["n200"] = h["n200"]
      /\ o["n100"] # None => g["n100"] = h["n100"]
      /\ o["n50"] # None => g["n50"] = h["n50"]
      /\ o["n200"] = None => h["n200"] = 0
      /\ o["n100"] = None => h["n100"] = 0
      /\ o["n50"] = None => h["n50"] = 0
  <2> HIDE DEF h
  <2>1. QED
    BY <1>2, <1>4, <1>5, <1>8
<1> HIDE DEF h, q, r, l
<1>10. /\ h.n200 \in Nat /\ h.n100 \in Nat /\ h.n50 \in Nat
       /\ h.n200 + h.n100 + h.n50 = l
  BY <1>2 DEF Tries, Mania!Judged
<1>11. /\ h.n200 <= b /\ h.n100 <= c /\ h.n50 <= d
       /\ (o["n200"] # None => b = h.n200) /\ (o["n100"] # None => c = h.n100)
       /\ (o["n50"] # None => d = h.n50)
  BY <1>7, <1>9, <1>10
<1>12. PICK x \in Nat, y \in Nat, z \in Nat :
         /\ x + h.n200 = b /\ y + h.n100 = c /\ z + h.n50 = d
         /\ l <= r /\ a + x + y + z = r - l
         /\ 6 * a + 4 * b + 2 * c + d =
              (4 * h.n200 + 2 * h.n100 + h.n50) + (6 * a + 4 * x + 2 * y + z)
  <2> DEFINE h2 == h.n200
             h1 == h.n100
             h0 == h.n50
  <2>1. h2 \in Nat /\ h1 \in Nat /\ h0 \in Nat /\ h2 + h1 + h0 = l /\ h2 <= b /\ h1 <= c /\ h0 <= d
    BY <1>10, <1>11
  <2> HIDE DEF h2, h1, h0
  <2>2. \E i, j, k \in Nat : /\ i + h2 = b /\ j + h1 = c /\ k + h0 = d
                             /\ l <= r /\ a + i + j + k = r - l
                             /\ 6 * a + 4 * b + 2 * c + d =
                                  (4 * h2 + 2 * h1 + h0) + (6 * a + 4 * i + 2 * j + k)
    BY <1>1, <1>2, <1>7, <2>1, SplitDifference
  <2>3. QED
    BY <2>2 DEF h2, h1, h0
<1>13. (o["n200"] # None => x = 0) /\ (o["n100"] # None => y = 0) /\ (o["n50"] # None => z = 0)
  BY <1>7, <1>10, <1>11, <1>12
<1>14. l <= r /\ a + x + y + z = q /\ a \in HighGivens(o, s)..q
  <2>1. l <= r /\ a + x + y + z = q
    BY <1>3, <1>12
  <2>2. q \in Int /\ a <= q
    BY <1>7, <1>12, <2>1
  <2>3. QED
    BY <1>2, <1>7, <2>1, <2>2
<1>15. /\ Mania!Dist(o, s, g) = Absolute(Missing(o, s, h) - play.den * (6 * a + 4 * x + 2 * y + z))
       /\ Mania!Dist(o, s, g) \in Int
  <2> DEFINE W == 6 * a + 4 * x + 2 * y + z
  <2>1. Mania!Points(g) = 6 * a + 4 * b + 2 * c + d
    BY <1>7 DEF Mania!Points
  <2>2. Mania!Points(h) = 4 * h.n200 + 2 * h.n100 + h.n50
    BY <1>2, <1>10 DEF Mania!Points
  <2>3. W \in Nat /\ Mania!Points(h) \in Nat
    BY <1>7, <1>10, <2>2
  <2>4. Mania!Points(g) = Mania!Points(h) + W
    BY <1>12, <2>1, <2>2
  <2> HIDE DEF W
  <2>5. /\ Mania!Dist(o, s, g) = Absolute(Missing(o, s, h) - play.den * W)
        /\ Mania!Dist(o, s, g) \in Int
    BY <2>3, <2>4, DistAbove
  <2>6. QED
    BY <2>5 DEF W
<1>16. \E i, j, k \in Nat :
         /\ a + i + j + k = q
         /\ (o["n200"] # None => i = 0) /\ (o["n100"] # None => j = 0)
         /\ (o["n50"] # None => k = 0)
         /\ Mania!Dist(o, s, g) =
              Absolute(Missing(o, s, h) - play.den * (6 * a + 4 * i + 2 * j + k))
         /\ Mania!Dist(o, s, g) \in Int
  BY <1>13, <1>14, <1>15, Zenon
<1>17. QED
  <2>1. g.n3x0 = a
    BY <1>7
  <2>2. o.n320 # None /\ o.n300 # None => a = HighGivens(o, s)
    BY <1>7
  <2>3. QED
    BY <2>1, <2>2, <1>14, <1>16, Zenon DEF h, q, l, r

\* W points, if they come from a, x and y results of the better kinds and all others of the
\* worst, or as well from at most two kinds besides the best.
IsWorth(o, q, a, x, y, W) ==
  LET L == Mania!Lows(o)
  IN  /\ Len(L) < 3 => \E b \in 0..(q - a) :
           W = Worth(6, Mania!Value[L[1]], Mania!Value[L[Len(L)]], q, a, b)
      /\ x \in 0..(q - a) /\ y \in 0..(q - a - x) /\ W = WorthOfAll(q, a, x, y)

\* A split, as numbers of the kinds that are left over.
LEMMA SplitWorth ==
  ASSUME NEW o, NEW q \in Nat, NEW a \in Nat, NEW x \in Nat, NEW y \in Nat, NEW z \in Nat,
         a + x + y + z = q, Mania!Lows(o) # << >>,
         o["n200"] # None => x = 0, o["n100"] # None => y = 0, o["n50"] # None => z = 0
  PROVE  IsWorth(o, q, a, x, y, 6 * a + 4 * x + 2 * y + z)
<1> DEFINE L == Mania!Lows(o)
           W == 6 * a + 4 * x + 2 * y + z
           v == Mania!Value[L[1]]
           w == Mania!Value[L[Len(L)]]
<1>1. /\ L \in Seq(LowJudgements) /\ Len(L) \in 0..3
      /\ (\A i \in 1..Len(L) : L[i] \in LowJudgements)
      /\ (\A i, j \in 1..Len(L) : i < j => Mania!Value[L[i]] > Mania!Value[L[j]])
      /\ (\A f \in LowJudgements : o[f] = None => \E i \in 1..Len(L) : L[i] = f)
  BY ManiaLows
<1>2. Len(L) # 0
  BY <1>1, EmptySeq
<1>3. /\ "n200" \in LowJudgements /\ "n100" \in LowJudgements /\ "n50" \in LowJudgements
      /\ \A f \in LowJudgements : f = "n200" \/ f = "n100" \/ f = "n50"
  BY DEF LowJudgements
<1>4. /\ Mania!Value["n200"] = 4 /\ Mania!Value["n100"] = 2 /\ Mania!Value["n50"] = 1
  BY ManiaValues
<1>5. q - a = x + y + z /\ q - a \in Nat /\ W \in Nat
  OBVIOUS
<1> HIDE DEF L
<1>6. ASSUME Len(L) = 1 PROVE \E b \in 0..(q - a) : W = Worth(6, v, w, q, a, b)
  <2>1. L[1] \in LowJudgements /\ \A f \in LowJudgements : o[f] = None => f = L[1]
    BY <1>1, <1>6
  <2>2. v = w
    BY <1>6
  <2>3. W = 6 * a + v * 0 + v * (q - a - 0)
    <3>1. CASE L[1] = "n200"
      <4>1. y = 0 /\ z = 0 /\ v = 4
        BY <2>1, <1>3, <1>4, <3>1
      <4>2. QED
        BY <1>5, <4>1
    <3>2. CASE L[1] = "n100"
      <4>1. x = 0 /\ z = 0 /\ v = 2
        BY <2>1, <1>3, <1>4, <3>2
      <4>2. QED
        BY <1>5, <4>1
    <3>3. CASE L[1] = "n50"
      <4>1. x = 0 /\ y = 0 /\ v = 1
        BY <2>1, <1>3, <1>4, <3>3
      <4>2. QED
        BY <1>5, <4>1
    <3>4. QED
      BY <1>3, <2>1, <3>1, <3>2, <3>3
  <2> HIDE DEF W, v, w
  <2>4. W = Worth(6, v, w, q, a, 0)
    BY <2>2, <2>3 DEF Worth
  <2>5. 0 \in 0..(q - a)
    BY <1>5
  <2>6. QED
    BY <2>4, <2>5
<1>7. ASSUME Len(L) = 2 PROVE \E b \in 0..(q - a) : W = Worth(6, v, w, q, a, b)
  <2>1. 1 \in 1..Len(L) /\ 2 \in 1..Len(L) /\ 1 < 2 /\ \A i \in 1..Len(L) : i = 1 \/ i = 2
    BY <1>7
  <2>2. /\ L[1] \in LowJudgements /\ L[2] \in LowJudgements
        /\ Mania!Value[L[1]] > Mania!Value[L[2]]
        /\ \A f \in LowJudgements : o[f] = None => f = L[1] \/ f = L[2]
    BY <1>1, <2>1
  <2>3. \/ (L[1] = "n200" /\ L[2] = "n100") \/ (L[1] = "n200" /\ L[2] = "n50")
        \/ (L[1] = "n100" /\ L[2] = "n50")
    <3>1. \A f, g \in LowJudgements : Mania!Value[f] > Mania!Value[g] =>
             \/ (f = "n200" /\ g = "n100") \/ (f = "n200" /\ g = "n50") \/ (f = "n100" /\ g = "n50")
      <4> SUFFICES ASSUME NEW f \in LowJudgements, NEW g \in LowJudgements,
                          Mania!Value[f] > Mania!Value[g]
                   PROVE  \/ (f = "n200" /\ g = "n100") \/ (f = "n200" /\ g = "n50")
                          \/ (f = "n100" /\ g = "n50")
        OBVIOUS
      <4>1. CASE f = "n200"
        <5>1. g # "n200"
          BY <1>4, <4>1
        <5>2. QED
          BY <1>3, <4>1, <5>1
      <4>2. CASE f = "n100"
        <5>1. g # "n200" /\ g # "n100"
          BY <1>4, <4>2
        <5>2. QED
          BY <1>3, <4>2, <5>1
      <4>3. CASE f = "n50"
        <5>1. g # "n200" /\ g # "n100" /\ g # "n50"
          BY <1>4, <4>3
        <5>2. QED
          BY <1>3, <5>1
      <4>4. QED
        BY <1>3, <4>1, <4>2, <4>3
    <3>2. QED
      BY <2>2, <3>1
  <2>4. w = Mania!Value[L[2]]
    BY <1>7
  <2>5. \E b \in 0..(q - a) : W = 6 * a + v * b + w * (q - a - b)
    <3>1. CASE L[1] = "n200" /\ L[2] = "n100"
      <4>1. z = 0 /\ v = 4 /\ w = 2
        BY <2>2, <2>4, <1>3, <1>4, <3>1
      <4> HIDE DEF v, w
      <4>2. x \in 0..(q - a) /\ q - a - x = y
        BY <1>5, <4>1
      <4>3. W = 6 * a + v * x + w * (q - a - x)
        BY <4>1, <4>2
      <4>4. QED
        BY <4>2, <4>3
    <3>2. CASE L[1] = "n200" /\ L[2] = "n50"
      <4>1. y = 0 /\ v = 4 /\ w = 1
        BY <2>2, <2>4, <1>3, <1>4, <3>2
      <4> HIDE DEF v, w
      <4>2. x \in 0..(q - a) /\ q - a - x = z
        BY <1>5, <4>1
      <4>3. W = 6 * a + v * x + w * (q - a - x)
        BY <4>1, <4>2
      <4>4. QED
        BY <4>2, <4>3
    <3>3. CASE L[1] = "n100" /\ L[2] = "n50"
      <4>1. x = 0 /\ v = 2 /\ w = 1
        BY <2>2, <2>4, <1>3, <1>4, <3>3
      <4> HIDE DEF v, w
      <4>2. y \in 0..(q - a) /\ q - a - y = z
        BY <1>5, <4>1
      <4>3. W = 6 * a + v * y + w * (q - a - y)
        BY <4>1, <4>2
      <4>4. QED
        BY <4>2, <4>3
    <3>4. QED
      BY <2>3, <3>1, <3>2, <3>3
  <2> HIDE DEF W, v, w
  <2>6. QED
    BY <2>5 DEF Worth
<1>8. x \in 0..(q - a) /\ y \in 0..(q - a - x) /\ W = WorthOfAll(q, a, x, y)
  <2>1. q - a - x - y = z
    BY <1>5
  <2>2. QED
    BY <1>5, <2>1 DEF WorthOfAll
<1>9. Len(L) < 3 => Len(L) = 1 \/ Len(L) = 2
  BY <1>1, <1>2, SMTT(30)
<1> HIDE DEF v, w, W
<1>10. QED
  BY <1>6, <1>7, <1>8, <1>9 DEF L, v, w, W, IsWorth

\* A number of 320s and 300s that the search tries: with it, it tries something that is as
\* close as any counts of the other kinds.
LEMMA ManiaCompletes ==
  ASSUME NEW o, ManiaOpts(o), o.acc # None, NEW s \in ManiaSetups, play.den \in Nat \ {0},
         Mania!Lows(o) # << >>, NEW k \in Mania!CountsOf3x0(o, s, GivenLows(o, s)),
         k \in 0..Mania!Left(s, GivenLows(o, s))
  PROVE  LET L == Mania!Lows(o)
             h == GivenLows(o, s)
             q == Mania!Left(s, h)
             v == Mania!Value[L[1]]
             w == Mania!Value[L[Len(L)]]
             Meets(p) == \E t \in Mania!Tried(o, s) :
                           /\ Mania!Dist(o, s, t) \in Int
                           /\ Mania!Dist(o, s, t) <= Absolute(Missing(o, s, h) - play.den * p)
         IN  /\ Len(L) < 3 => \A j \in 0..(q - k) : Meets(Worth(6, v, w, q, k, j))
             /\ Len(L) = 3 => \A j \in 0..(q - k) : \A i \in 0..(q - k - j) :
                                Meets(WorthOfAll(q, k, j, i))
<1> DEFINE L == Mania!Lows(o)
           h == GivenLows(o, s)
           q == Mania!Left(s, h)
           d == play.den
           v == Mania!Value[L[1]]
           w == Mania!Value[L[Len(L)]]
           M == Missing(o, s, h)
           u == Placed(h, "n3x0", k)
           p == q - k
           Between(g, f, e, c) == Mania!NeededDown(o, s, g, f, e) .. Mania!NeededUp(o, s, g, f, c)
           Filled(g, f) == Placed(g, f, Mania!Left(s, g))
<1>1. /\ h \in Tries /\ h.n3x0 = 0 /\ \A f \in LowJudgements : o[f] = None => h[f] = 0
  BY GivenLowsFit
<1>2. /\ L \in Seq(LowJudgements) /\ Len(L) \in 0..3
      /\ (\A i \in 1..Len(L) : L[i] \in LowJudgements /\ o[L[i]] = None)
      /\ (\A i, j \in 1..Len(L) : i < j => Mania!Value[L[i]] > Mania!Value[L[j]])
  BY ManiaLows
<1>3. Len(L) # 0
  BY <1>2, EmptySeq
<1>4. LowJudgements \subseteq Kinds /\ "n3x0" \in Kinds /\ "n3x0" \notin LowJudgements
  BY DEF Kinds, LowJudgements
<1>5. \A f \in LowJudgements : Mania!Value[f] \in Nat
  BY ManiaValues DEF LowJudgements
<1>6. /\ q \in Nat /\ M \in Int /\ u \in Tries /\ Mania!Left(s, u) = p
      /\ Missing(o, s, u) = M - d * (6 * k)
      /\ \A f \in LowJudgements : o[f] = None => u[f] = 0
  <2> HIDE DEF h
  <2>1. /\ Mania!Left(s, h) \in Nat /\ Missing(o, s, h) \in Int
        /\ \A f \in Kinds : \A n \in 0..Mania!Left(s, h) : h[f] = 0 =>
              /\ Placed(h, f, n) \in Tries
              /\ \A g \in Kinds : Placed(h, f, n)[g] = IF g = f THEN n ELSE h[g]
              /\ Mania!Left(s, Placed(h, f, n)) = Mania!Left(s, h) - n
              /\ Missing(o, s, Placed(h, f, n))
                   = Missing(o, s, h) - play.den * (Mania!Value[f] * n)
    BY <1>1, ManiaMissing
  <2>2. k \in 0..Mania!Left(s, h) /\ h["n3x0"] = 0
    BY <1>1 DEF h
  <2>3. /\ u \in Tries /\ \A g \in Kinds : u[g] = IF g = "n3x0" THEN k ELSE h[g]
        /\ Mania!Left(s, u) = Mania!Left(s, h) - k
        /\ Missing(o, s, u) = Missing(o, s, h) - play.den * (Mania!Value["n3x0"] * k)
    BY <1>4, <2>1, <2>2
  <2>4. Mania!Value["n3x0"] = 6
    BY ManiaValues
  <2>5. \A f \in LowJudgements : o[f] = None => u[f] = 0
    <3> HIDE DEF u
    <3>1. QED
      BY <1>1, <1>4, <2>3
  <2>6. QED
    BY <2>1, <2>3, <2>4, <2>5
<1>7. k \in Nat /\ p \in Nat /\ d \in Nat
  BY <1>6
<1>8. /\ Len(L) = 1 => Filled(u, L[1]) \in Mania!Tried(o, s)
      /\ Len(L) = 2 => \A j \in Between(u, L[1], L[2], L[2]) :
           Filled(Placed(u, L[1], j), L[2]) \in Mania!Tried(o, s)
      /\ Len(L) = 3 => \A j \in Between(u, L[1], L[2], L[3]) :
           \A i \in Between(Placed(u, L[1], j), L[2], L[3], L[3]) :
              Filled(Placed(Placed(u, L[1], j), L[2], i), L[3]) \in Mania!Tried(o, s)
  BY ManiaIsTried, Zenon
<1> HIDE DEF L, h, u, M, q
<1>9. \A n \in Int : /\ M - d * (6 * k) - d * n = M - d * (6 * k + n)
                     /\ M - d * (6 * k + n) \in Int
  <2> HIDE DEF d
  <2>1. ASSUME NEW n \in Int PROVE /\ M - d * (6 * k) - d * n = M - d * (6 * k + n)
                                   /\ M - d * (6 * k + n) \in Int
    <3> DEFINE x == 6 * k
    <3>1. x \in Int
      BY <1>7
    <3> HIDE DEF x
    <3>2. d * (x + n) = d * x + d * n /\ d * x \in Int /\ d * n \in Int
      BY <1>7, <3>1
    <3>3. QED
      BY <1>6, <3>1, <3>2 DEF x
  <2>2. QED
    BY <2>1, Zenon
<1> DEFINE Meets(b) == \E t \in Mania!Tried(o, s) :
                         /\ Mania!Dist(o, s, t) \in Int
                         /\ Mania!Dist(o, s, t) <= Absolute(M - d * b)
<1>10. ASSUME Len(L) = 1, NEW j \in 0..p PROVE Meets(Worth(6, v, w, q, k, j))
  <2> DEFINE t == Placed(u, L[1], p)
  <2>1. t \in Mania!Tried(o, s)
    BY <1>6, <1>8, <1>10
  <2>2. L[1] \in LowJudgements /\ L[1] \in Kinds /\ u[L[1]] = 0 /\ v \in Nat /\ w = v
    BY <1>2, <1>4, <1>5, <1>6, <1>10
  <2>3. Mania!Dist(o, s, Placed(u, L[1], Mania!Left(s, u)))
          = Absolute(Missing(o, s, u) - play.den * (Mania!Value[L[1]] * Mania!Left(s, u)))
    BY <1>6, <2>2, ManiaFilled, Zenon
  <2>4. Mania!Dist(o, s, t) = Absolute(M - d * (6 * k) - d * (v * p))
    BY <1>6, <2>3
  <2> HIDE DEF t, v, w, d
  <2>5. Worth(6, v, w, q, k, j) = 6 * k + v * p
    <3>1. v * j + v * (p - j) = v * p /\ v * j \in Int /\ v * (p - j) \in Int /\ p - j = q - k - j
      BY <1>6, <1>7, <2>2
    <3> HIDE DEF p
    <3>2. QED
      BY <1>7, <2>2, <3>1 DEF Worth
  <2> HIDE DEF p
  <2>6. v * p \in Int
    BY <1>7, <2>2
  <2>7. Mania!Dist(o, s, t) = Absolute(M - d * (6 * k + v * p)) /\ M - d * (6 * k + v * p) \in Int
    <3> DEFINE y == v * p
    <3>1. y \in Int /\ Mania!Dist(o, s, t) = Absolute(M - d * (6 * k) - d * y)
      BY <2>4, <2>6
    <3> HIDE DEF y
    <3>2. Mania!Dist(o, s, t) = Absolute(M - d * (6 * k + y)) /\ M - d * (6 * k + y) \in Int
      BY <1>9, <3>1
    <3>3. QED
      BY <3>2 DEF y
  <2>8. Mania!Dist(o, s, t) \in Int /\ Mania!Dist(o, s, t) <= Mania!Dist(o, s, t)
    BY <2>7 DEF Absolute
  <2>9. QED
    BY <2>1, <2>5, <2>7, <2>8
<1>11. ASSUME Len(L) = 2, NEW j \in 0..p PROVE Meets(Worth(6, v, w, q, k, j))
  <2>1. /\ L[1] \in LowJudgements /\ L[2] \in LowJudgements /\ L[1] \in Kinds /\ u[L[1]] = 0
        /\ u[L[2]] = 0 /\ Mania!Value[L[1]] > Mania!Value[L[2]] /\ v \in Nat
        /\ w = Mania!Value[L[2]] /\ w \in Nat
    <3>1. 1 \in 1..Len(L) /\ 2 \in 1..Len(L) /\ 1 < 2
      BY <1>11
    <3>2. QED
      BY <1>2, <1>4, <1>5, <1>6, <1>11, <3>1
  <2>2. j \in 0..Mania!Left(s, u)
    BY <1>6
  <2>3. PICK i \in Between(u, L[1], L[2], L[2]) :
          LET t == Placed(u, L[1], i)
              D == Mania!Dist(o, s, Placed(t, L[2], Mania!Left(s, t)))
          IN  /\ D \in Int
              /\ D <= Absolute(Missing(o, s, u) - play.den * (Mania!Value[L[1]] * j
                                  + Mania!Value[L[2]] * (Mania!Left(s, u) - j)))
    BY <1>6, <2>1, <2>2, ManiaTwoLeft, Zenon
  <2> DEFINE e == Filled(Placed(u, L[1], i), L[2])
  <2>4. e \in Mania!Tried(o, s)
    BY <1>8, <1>11
  <2>5. /\ Mania!Dist(o, s, e) \in Int
        /\ Mania!Dist(o, s, e) <= Absolute(M - d * (6 * k) - d * (v * j + w * (p - j)))
    BY <1>6, <2>1, <2>3
  <2> HIDE DEF e, v, w, d
  <2>6. v * j + w * (p - j) \in Int
    BY <1>7, <2>1
  <2>7. Worth(6, v, w, q, k, j) = 6 * k + (v * j + w * (p - j))
    <3>1. v * j \in Int /\ w * (p - j) \in Int /\ p - j = q - k - j
      BY <1>6, <1>7, <2>1
    <3> HIDE DEF p
    <3>2. QED
      BY <1>7, <3>1 DEF Worth
  <2> DEFINE x == v * j + w * (p - j)
  <2>8. x \in Int /\ Mania!Dist(o, s, e) <= Absolute(M - d * (6 * k) - d * x)
    BY <2>5, <2>6
  <2> HIDE DEF x
  <2>9. Mania!Dist(o, s, e) <= Absolute(M - d * (6 * k + x))
    BY <1>9, <2>8
  <2>10. Worth(6, v, w, q, k, j) = 6 * k + x
    BY <2>7 DEF x
  <2>11. QED
    BY <2>4, <2>5, <2>9, <2>10, Zenon
<1>12. ASSUME Len(L) = 3, NEW j \in 0..p, NEW i \in 0..(p - j) PROVE Meets(WorthOfAll(q, k, j, i))
  <2>1. /\ L[1] = "n200" /\ L[2] = "n100" /\ L[3] = "n50"
        /\ o["n200"] = None /\ o["n100"] = None /\ o["n50"] = None
    BY <1>12, ManiaAllLows DEF L
  <2>2. u.n200 = 0 /\ u.n100 = 0 /\ u.n50 = 0
    BY <1>6, <2>1 DEF LowJudgements
  <2>3. j \in 0..Mania!Left(s, u) /\ i \in 0..(Mania!Left(s, u) - j)
    BY <1>6
  <2>4. PICK a \in Mania!NeededDown(o, s, u, "n200", "n100") .. Mania!NeededUp(o, s, u, "n200", "n50") :
          LET f == Placed(u, "n200", a)
          IN \E b \in Mania!NeededDown(o, s, f, "n100", "n50")
                        .. Mania!NeededUp(o, s, f, "n100", "n50") :
                LET t == Placed(f, "n100", b)
                    D == Mania!Dist(o, s, Placed(t, "n50", Mania!Left(s, t)))
                IN  /\ D \in Int
                    /\ D <= Absolute(Missing(o, s, u)
                                       - play.den * Worth(4, 2, 1, Mania!Left(s, u), j, i))
    BY <1>6, <2>2, <2>3, ManiaThreeLeft, Zenon
  <2> DEFINE f == Placed(u, "n200", a)
  <2>5. PICK b \in Mania!NeededDown(o, s, f, "n100", "n50") .. Mania!NeededUp(o, s, f, "n100", "n50") :
          LET t == Placed(f, "n100", b)
              D == Mania!Dist(o, s, Placed(t, "n50", Mania!Left(s, t)))
          IN  /\ D \in Int
              /\ D <= Absolute(Missing(o, s, u) - play.den * Worth(4, 2, 1, Mania!Left(s, u), j, i))
    BY <2>4
  <2> DEFINE e == Filled(Placed(f, "n100", b), "n50")
  <2>6. e \in Mania!Tried(o, s)
    BY <1>8, <1>12, <2>1
  <2> DEFINE x == Worth(4, 2, 1, p, j, i)
  <2>7. /\ Mania!Dist(o, s, e) \in Int
        /\ Mania!Dist(o, s, e) <= Absolute(M - d * (6 * k) - d * x)
    BY <1>6, <2>5
  <2> HIDE DEF e, f, d
  <2>8. x \in Int /\ WorthOfAll(q, k, j, i) = 6 * k + x
    <3> DEFINE rest == q - k - j - i
    <3>1. j \in Int /\ i \in Int /\ rest \in Int /\ 1 * rest = rest /\ p - j - i = rest
      BY <1>6, <1>7
    <3>2. x = 4 * j + 2 * i + 1 * rest
      BY <3>1 DEF Worth
    <3>3. WorthOfAll(q, k, j, i) = 6 * k + 4 * j + 2 * i + rest
      BY DEF WorthOfAll
    <3> HIDE DEF rest, x
    <3>4. QED
      BY <1>7, <3>1, <3>2, <3>3
  <2> HIDE DEF x, p
  <2>9. Mania!Dist(o, s, e) <= Absolute(M - d * (6 * k + x))
    BY <1>9, <2>7, <2>8
  <2>10. QED
    BY <2>6, <2>7, <2>8, <2>9, Zenon
<1>13. Len(L) < 3 => Len(L) = 1 \/ Len(L) = 2
  BY <1>2, <1>3
<1> HIDE DEF Meets, v, w
<1>14. /\ Len(L) < 3 => \A j \in 0..(q - k) : Meets(Worth(6, v, w, q, k, j))
       /\ Len(L) = 3 => \A j \in 0..(q - k) : \A i \in 0..(q - k - j) :
                           Meets(WorthOfAll(q, k, j, i))
  BY <1>10, <1>11, <1>12, <1>13
<1>15. QED
  BY <1>14, Zenon DEF L, h, q, v, w, M, Meets

\* The search of osu!mania tries a combination that is as close as any split.
LEMMA ManiaTriesCloser ==
  ASSUME NEW o, ManiaOpts(o), o.acc # None, NEW s \in ManiaSetups, play.den \in Nat \ {0},
         Mania!Lows(o) # << >>, NEW g \in Mania!Splits(o, s)
  PROVE  /\ Mania!Dist(o, s, g) \in Int
         /\ \E t \in Mania!Tried(o, s) : /\ Mania!Dist(o, s, t) \in Int
                                         /\ Mania!Dist(o, s, t) <= Mania!Dist(o, s, g)
<1> DEFINE L == Mania!Lows(o)
           h == GivenLows(o, s)
           q == Mania!Left(s, h)
           v == Mania!Value[L[1]]
           w == Mania!Value[L[Len(L)]]
           M == Missing(o, s, h)
           a == g.n3x0
           C == Mania!CountsOf3x0(o, s, h)
           Off(p) == Absolute(M - play.den * p)
           Meets(p) == \E t \in Mania!Tried(o, s) : /\ Mania!Dist(o, s, t) \in Int
                                                    /\ Mania!Dist(o, s, t) <= Off(p)
<1>1. /\ LowGivens(o, s) <= s.remaining /\ a \in HighGivens(o, s)..q
      /\ (o.n320 # None /\ o.n300 # None => a = HighGivens(o, s))
  BY ManiaSplit
<1>2. PICK x \in Nat, y \in Nat, z \in Nat :
        /\ a + x + y + z = q
        /\ (o["n200"] # None => x = 0) /\ (o["n100"] # None => y = 0) /\ (o["n50"] # None => z = 0)
        /\ Mania!Dist(o, s, g) = Off(6 * a + 4 * x + 2 * y + z)
        /\ Mania!Dist(o, s, g) \in Int
  <2>1. \E x, y, z \in Nat :
          /\ a + x + y + z = q
          /\ (o["n200"] # None => x = 0) /\ (o["n100"] # None => y = 0)
          /\ (o["n50"] # None => z = 0)
          /\ Mania!Dist(o, s, g) = Off(6 * a + 4 * x + 2 * y + z)
          /\ Mania!Dist(o, s, g) \in Int
    BY ManiaSplit, Zenon
  <2> HIDE DEF a, q, Off
  <2>2. QED
    BY <2>1
<1>3. HighGivens(o, s) \in Nat /\ h \in Tries
  BY GivenLowsFit
<1>4. q \in Nat /\ M \in Int
  BY <1>3, ManiaMissing
<1>5. a \in Nat
  BY <1>1, <1>3
<1>6. Len(L) \in 0..3 /\ v \in Nat /\ w \in Nat
  <2>1. /\ L \in Seq(LowJudgements) /\ Len(L) \in 0..3
        /\ \A i \in 1..Len(L) : L[i] \in LowJudgements
    BY ManiaLows
  <2> HIDE DEF L
  <2>2. Len(L) # 0
    BY <2>1, EmptySeq DEF L
  <2>3. L[1] \in LowJudgements /\ L[Len(L)] \in LowJudgements
    BY <2>1, <2>2
  <2>4. \A f \in LowJudgements : Mania!Value[f] \in Nat
    BY ManiaValues DEF LowJudgements
  <2>5. QED
    BY <2>1, <2>3, <2>4
<1>7. /\ Len(L) < 3 => \A b \in 0..(q - a) :
           \E k \in C : k \in 0..q /\ \E j \in 0..(q - k) :
              Off(Worth(6, v, w, q, k, j)) <= Off(Worth(6, v, w, q, a, b))
      /\ Len(L) = 3 => \A b \in 0..(q - a) : \A c \in 0..(q - a - b) :
           \E k \in C : k \in 0..q /\ \E j \in 0..(q - k) : \E i \in 0..(q - k - j) :
              Off(WorthOfAll(q, k, j, i)) <= Off(WorthOfAll(q, a, b, c))
  BY <1>1, ManiaTopIsCloser, Zenon
<1>8. ASSUME NEW k \in C, k \in 0..q
      PROVE  /\ Len(L) < 3 => \A j \in 0..(q - k) : Meets(Worth(6, v, w, q, k, j))
             /\ Len(L) = 3 => \A j \in 0..(q - k) : \A i \in 0..(q - k - j) :
                                 Meets(WorthOfAll(q, k, j, i))
  BY <1>8, ManiaCompletes, Zenon
<1>9. /\ Len(L) < 3 => \E b \in 0..(q - a) : 6 * a + 4 * x + 2 * y + z = Worth(6, v, w, q, a, b)
      /\ x \in 0..(q - a) /\ y \in 0..(q - a - x)
      /\ 6 * a + 4 * x + 2 * y + z = WorthOfAll(q, a, x, y)
  <2> HIDE DEF q, a
  <2>1. /\ a + x + y + z = q
        /\ (o["n200"] # None => x = 0) /\ (o["n100"] # None => y = 0) /\ (o["n50"] # None => z = 0)
    BY <1>2
  <2>2. IsWorth(o, q, a, x, y, 6 * a + 4 * x + 2 * y + z)
    BY <1>4, <1>5, <2>1, SplitWorth, Zenon
  <2>3. QED
    BY <2>2, Zenon DEF IsWorth
<1> DEFINE W == 6 * a + 4 * x + 2 * y + z
<1>10. Mania!Dist(o, s, g) = Off(W)
  BY <1>2
<1> HIDE DEF W, a, q, v, w, h, C, L
<1>11. \E p \in Int : Off(p) <= Off(W) /\ Meets(p)
  <2>1. CASE Len(L) < 3
    <3>1. PICK b \in 0..(q - a) : W = Worth(6, v, w, q, a, b)
      BY <1>9, <2>1 DEF W
    <3>2. PICK k \in C : k \in 0..q /\ \E j \in 0..(q - k) :
            Off(Worth(6, v, w, q, k, j)) <= Off(Worth(6, v, w, q, a, b))
      <4> HIDE DEF Off
      <4>1. QED
        BY <1>7, <2>1, Zenon
    <3>3. PICK j \in 0..(q - k) : Off(Worth(6, v, w, q, k, j)) <= Off(Worth(6, v, w, q, a, b))
      BY <3>2
    <3>4. Worth(6, v, w, q, k, j) \in Int
      <4>1. v \in Int /\ w \in Int /\ k \in Int /\ j \in Int /\ q - k - j \in Int
        BY <1>4, <1>6, <3>2
      <4>2. v * j \in Int /\ w * (q - k - j) \in Int
        BY <4>1
      <4>3. QED
        BY <4>1, <4>2 DEF Worth
    <3> HIDE DEF Meets, Off
    <3>5. Meets(Worth(6, v, w, q, k, j))
      BY <1>8, <2>1, <3>2, Zenon
    <3>6. QED
      BY <3>1, <3>3, <3>4, <3>5, Zenon
  <2>2. CASE Len(L) = 3
    <3>1. W = WorthOfAll(q, a, x, y) /\ x \in 0..(q - a) /\ y \in 0..(q - a - x)
      BY <1>9 DEF W
    <3>2. PICK k \in C : k \in 0..q /\ \E j \in 0..(q - k) : \E i \in 0..(q - k - j) :
            Off(WorthOfAll(q, k, j, i)) <= Off(WorthOfAll(q, a, x, y))
      <4> HIDE DEF Off
      <4>1. QED
        BY <1>7, <2>2, <3>1, Zenon
    <3>3. PICK j \in 0..(q - k) : \E i \in 0..(q - k - j) :
            Off(WorthOfAll(q, k, j, i)) <= Off(WorthOfAll(q, a, x, y))
      BY <3>2
    <3>4. PICK i \in 0..(q - k - j) : Off(WorthOfAll(q, k, j, i)) <= Off(WorthOfAll(q, a, x, y))
      BY <3>3
    <3>5. WorthOfAll(q, k, j, i) \in Int
      BY <1>4, <3>2 DEF WorthOfAll
    <3> HIDE DEF Meets, Off
    <3>6. Meets(WorthOfAll(q, k, j, i))
      BY <1>8, <2>2, <3>2, Zenon
    <3>7. QED
      BY <3>1, <3>4, <3>5, <3>6, Zenon
  <2> HIDE DEF Meets, Off
  <2>3. Len(L) < 3 \/ Len(L) = 3
    <3>1. \A n \in 0..3 : n < 3 \/ n = 3
      OBVIOUS
    <3>2. QED
      BY <1>6, <3>1, Zenon
  <2>4. QED
    BY <2>1, <2>2, <2>3, Zenon
<1>12. PICK p \in Int : Off(p) <= Off(W) /\ Meets(p)
  BY <1>11
<1>13. PICK t \in Mania!Tried(o, s) : Mania!Dist(o, s, t) \in Int /\ Mania!Dist(o, s, t) <= Off(p)
  BY <1>12
<1>14. Mania!Dist(o, s, t) <= Off(W)
  <2>1. play.den * p \in Int
    BY <1>12
  <2>2. Off(p) \in Int /\ Off(W) \in Int
    <3> DEFINE x1 == play.den * p
    <3>1. x1 \in Int /\ Off(p) = Absolute(M - x1)
      BY <2>1
    <3> HIDE DEF x1, M, Off
    <3>2. Absolute(M - x1) \in Int
      BY <1>4, <3>1 DEF Absolute
    <3>3. QED
      BY <1>2, <1>10, <3>1, <3>2
  <2> HIDE DEF Off
  <2>3. QED
    BY <1>12, <1>13, <2>2
<1>15. QED
  BY <1>2, <1>10, <1>13, <1>14

\* A generated state as the search sees it, which does not tell 320s from 300s.
Together(r) == [n3x0 |-> r.n320 + r.n300, n200 |-> r.n200, n100 |-> r.n100, n50 |-> r.n50]

\* Telling 320s from 300s changes no points.
LEMMA ToldApartKeepsPoints ==
  ASSUME NEW o, ManiaOpts(o), NEW s \in ManiaSetups, NEW h \in Tries,
         o.n320 # None /\ o.n300 # None => h.n3x0 = HighGivens(o, s)
  PROVE  Mania!Points(Together(Mania!ToldApart(o, s, h))) = Mania!Points(h)
<1> DEFINE t == Mania!ToldApart(o, s, h)
           n320 == CASE o.n320 # None -> Mania!Given(o, s, "n320")
                     [] o.n320 = None /\ o.n300 # None -> h.n3x0 - Mania!Given(o, s, "n300")
                     [] OTHER -> IF o.priority = "BestCase" THEN h.n3x0 ELSE 0
           n300 == IF o.n300 # None THEN Mania!Given(o, s, "n300") ELSE h.n3x0 - n320
<1>1. /\ h.n3x0 \in Nat /\ Mania!Given(o, s, "n320") \in Int /\ Mania!Given(o, s, "n300") \in Int
  BY ManiaGivenType DEF Tries, Mania!Judgements
<1>2. t = [n320 |-> n320, n300 |-> n300, n200 |-> h.n200, n100 |-> h.n100, n50 |-> h.n50]
  BY DEF Mania!ToldApart
<1>3. n320 + n300 = h.n3x0
  <2>1. CASE o.n320 # None /\ o.n300 # None
    <3>1. n320 = Mania!Given(o, s, "n320") /\ n300 = Mania!Given(o, s, "n300")
      BY <2>1
    <3>2. QED
      BY <2>1, <3>1 DEF HighGivens
  <2>2. CASE o.n320 # None /\ o.n300 = None
    <3>1. n320 = Mania!Given(o, s, "n320") /\ n300 = h.n3x0 - n320
      BY <2>2
    <3> HIDE DEF n320, n300
    <3>2. QED
      BY <1>1, <3>1
  <2>3. CASE o.n320 = None /\ o.n300 # None
    <3>1. n320 = h.n3x0 - Mania!Given(o, s, "n300") /\ n300 = Mania!Given(o, s, "n300")
      BY <2>3
    <3> HIDE DEF n320, n300
    <3>2. QED
      BY <1>1, <3>1
  <2>4. CASE o.n320 = None /\ o.n300 = None
    <3>1. (n320 = h.n3x0 \/ n320 = 0) /\ n300 = h.n3x0 - n320
      BY <2>4
    <3> HIDE DEF n320, n300
    <3>2. QED
      BY <1>1, <3>1
  <2>5. QED
    BY <2>1, <2>2, <2>3, <2>4
<1> HIDE DEF t, n320, n300
<1>4. Together(t) = [n3x0 |-> h.n3x0, n200 |-> h.n200, n100 |-> h.n100, n50 |-> h.n50]
  BY <1>2, <1>3 DEF Together
<1>5. QED
  BY <1>4 DEF Mania!Points, t

\* Two 200s are worth as much as a 320 and a 100.
LEMMA ShiftKeepsPoints ==
  ASSUME NEW o, NEW r \in ManiaHits
  PROVE  Mania!Points(Together(Mania!Shifted(o, r))) = Mania!Points(Together(r))
<1> DEFINE n == r.n200 \div 2
           t == [r EXCEPT !.n320 = @ + n, !.n200 = @ - 2 * n, !.n100 = @ + n]
<1>1. /\ r.n320 \in Nat /\ r.n300 \in Nat /\ r.n200 \in Nat /\ r.n100 \in Nat /\ r.n50 \in Nat
      /\ DOMAIN r = {"n320", "n300", "n200", "n100", "n50"}
  BY DEF ManiaHits
<1>2. n \in Nat
  BY <1>1
<1>3. Mania!Shifted(o, r) = t \/ Mania!Shifted(o, r) = r
  BY DEF Mania!Shifted
<1> HIDE DEF n
<1>4. /\ t.n320 = r.n320 + n /\ t.n300 = r.n300 /\ t.n200 = r.n200 - 2 * n
      /\ t.n100 = r.n100 + n /\ t.n50 = r.n50
  BY <1>1
<1> HIDE DEF t
<1>5. Mania!Points(Together(t)) = 6 * (r.n320 + n + r.n300) + 4 * (r.n200 - 2 * n)
                                    + 2 * (r.n100 + n) + r.n50
  BY <1>4 DEF Together, Mania!Points
<1>6. Mania!Points(Together(r)) = 6 * (r.n320 + r.n300) + 4 * r.n200 + 2 * r.n100 + r.n50
  BY DEF Together, Mania!Points
<1>7. Mania!Points(Together(t)) = Mania!Points(Together(r))
  BY <1>1, <1>2, <1>5, <1>6
<1>8. QED
  BY <1>3, <1>7

\* The state that is generated for an accuracy is as close to it as any split.
LEMMA ManiaStateIsClosest ==
  ASSUME NEW o, ManiaOpts(o), NEW c \in ManiaCount, play.den \in Nat \ {0},
         NEW st \in Mania!States(o, c), Mania!Searched(o),
         NEW g \in Mania!Splits(o, Mania!Setup(o, c))
  PROVE  Mania!Dist(o, Mania!Setup(o, c), Together(st)) <= Mania!Dist(o, Mania!Setup(o, c), g)
<1> DEFINE s == Mania!Setup(o, c)
<1>1. s \in ManiaSetups /\ o.acc # None /\ Mania!Lows(o) # << >>
  BY ManiaSetupType DEF Mania!Searched
<1> HIDE DEF s
<1>2. g \in Mania!Splits(o, s)
  BY DEF s
<1>3. PICK h \in Mania!Closest(o, s, Mania!Tried(o, s)) :
        st = [f \in Mania!CountFields |->
                IF f = "misses" THEN s.misses
                ELSE Mania!Shifted(o, Mania!ToldApart(o, s, h))[f]]
  <2>1. PICK r \in Mania!Results(o, s) :
          st = [f \in Mania!CountFields |-> IF f = "misses" THEN s.misses ELSE r[f]]
    BY DEF Mania!States, s
  <2>2. PICK h \in Mania!Closest(o, s, Mania!Tried(o, s)) :
          r = Mania!Shifted(o, Mania!ToldApart(o, s, h))
    BY <2>1 DEF Mania!Results
  <2>3. QED
    BY <2>1, <2>2
<1>4. h \in Mania!Tried(o, s) /\ \A t \in Mania!Tried(o, s) : Mania!Dist(o, s, h) <= Mania!Dist(o, s, t)
  BY DEF Mania!Closest
<1>5. Whole(o, s, h)
  BY <1>1, <1>4, ManiaTried
<1>6. h \in Tries /\ (o.n320 # None /\ o.n300 # None => h.n3x0 = HighGivens(o, s))
  <2>1. h \in Tries /\ Top(o, s, h.n3x0)
    BY <1>5 DEF Whole
  <2>2. ASSUME o.n320 # None, o.n300 # None PROVE h.n3x0 = HighGivens(o, s)
    <3>1. h.n3x0 = Mania!Least(s.remaining, HighGivens(o, s))
      BY <2>1, <2>2 DEF Top
    <3>2. g.n3x0 = HighGivens(o, s) /\ g.n3x0 \in 0..s.remaining
      BY <1>2, <2>2 DEF Mania!Splits, HighGivens
    <3>3. s.remaining \in Nat
      BY <1>1 DEF ManiaSetups
    <3>4. QED
      BY <3>1, <3>2, <3>3 DEF Mania!Least
  <2>3. QED
    BY <2>1, <2>2
<1> DEFINE t == Mania!ToldApart(o, s, h)
           r == Mania!Shifted(o, t)
<1>7. Mania!Points(Together(t)) = Mania!Points(h)
  BY <1>1, <1>6, ToldApartKeepsPoints
<1>8. t \in ManiaHits
  BY <1>1, <1>5, ManiaToldApart DEF Fits
<1> HIDE DEF t
<1>9. Mania!Points(Together(r)) = Mania!Points(h)
  BY <1>7, <1>8, ShiftKeepsPoints
<1>10. Together(st) = Together(r)
  <2>1. st = [f \in Mania!CountFields |-> IF f = "misses" THEN s.misses ELSE r[f]]
    BY <1>3 DEF t
  <2> HIDE DEF r
  <2>2. /\ st.n320 = r.n320 /\ st.n300 = r.n300 /\ st.n200 = r.n200 /\ st.n100 = r.n100
        /\ st.n50 = r.n50
    BY <2>1 DEF Mania!CountFields, Mania!Judgements
  <2>3. QED
    BY <2>2 DEF Together
<1>11. Mania!Dist(o, s, Together(st)) = Mania!Dist(o, s, h)
  <2> HIDE DEF r
  <2>1. QED
    BY <1>9, <1>10 DEF Mania!Dist
<1>12. /\ Mania!Dist(o, s, g) \in Int
       /\ \E e \in Mania!Tried(o, s) : /\ Mania!Dist(o, s, e) \in Int
                                       /\ Mania!Dist(o, s, e) <= Mania!Dist(o, s, g)
  BY <1>1, <1>2, ManiaTriesCloser
<1>13. PICK e \in Mania!Tried(o, s) : /\ Mania!Dist(o, s, e) \in Int
                                      /\ Mania!Dist(o, s, e) <= Mania!Dist(o, s, g)
  BY <1>12
<1>14. Mania!Dist(o, s, h) <= Mania!Dist(o, s, e)
  BY <1>4
<1>15. Mania!Dist(o, s, h) \in Int
  <2>1. s.total \in Nat /\ o.acc \in Nat
    BY <1>1 DEF ManiaOpts, Count, ManiaSetups
  <2>2. Mania!Target(o, s) \in Int
    BY <2>1 DEF Mania!Target
  <2>3. Mania!Points(h) \in Nat
    BY <1>6 DEF Tries, Mania!Points
  <2>4. play.den * Mania!Points(h) \in Int
    BY <2>3
  <2> DEFINE x == play.den * Mania!Points(h)
  <2>5. Mania!Dist(o, s, h) = Mania!Absolute(Mania!Target(o, s) - x) /\ x \in Int
    BY <2>4 DEF Mania!Dist
  <2> HIDE DEF x
  <2>6. QED
    BY <2>2, <2>5 DEF Mania!Absolute
<1>16. Mania!Dist(o, s, Together(st)) <= Mania!Dist(o, s, g)
  BY <1>11, <1>12, <1>13, <1>14, <1>15
<1>17. QED
  BY <1>16 DEF s

LEMMA ManiaAccuracy ==
  ASSUME ManiaOpts(opts), source'.count \in ManiaCount, play.den \in Nat \ {0},
         out' \in Mania!States(opts, source'.count)
  PROVE  Mania!ClosestAccuracy
<1> DEFINE s == Mania!Setup(opts, source'.count)
<1>1. ASSUME Mania!Searched(opts), NEW g \in Mania!Splits(opts, s)
      PROVE  Mania!Dist(opts, s, Together(out')) <= Mania!Dist(opts, s, g)
  BY <1>1, ManiaStateIsClosest
<1> HIDE DEF s
<1>2. Mania!Searched(opts) =>
        \A g \in Mania!Splits(opts, s) :
           Mania!Dist(opts, s, [n3x0 |-> out'.n320 + out'.n300, n200 |-> out'.n200,
                                n100 |-> out'.n100, n50 |-> out'.n50])
             <= Mania!Dist(opts, s, g)
  BY <1>1 DEF Together
<1>3. QED
  BY <1>2 DEF Mania!ClosestAccuracy, s

LEMMA TaikoAccuracy ==
  ASSUME TaikoOpts(opts), source'.count \in TaikoCount, play.den \in Nat \ {0},
         out' \in Taiko!States(opts, source'.count)
  PROVE  Taiko!ClosestAccuracy
<1>1. ASSUME opts.acc # None, opts.n300 = None, opts.n100 = None
      PROVE  Taiko!AsCloseAsPossible(opts.acc, out', Taiko!TotalResults(opts, source'.count))
  BY <1>1, TaikoStateIsClosest
<1>2. QED
  BY <1>1 DEF Taiko!ClosestAccuracy

LEMMA CatchAccuracy ==
  ASSUME CatchOpts(opts), source'.count \in CatchCount, play.den \in Nat \ {0},
         out' \in Catch!States(opts, source'.count)
  PROVE  Catch!ClosestAccuracy
<1> DEFINE c == source'.count
<1>1. ASSUME opts.acc # None, opts.tiny_droplets = None, opts.tiny_droplet_misses = None,
             NEW n \in 0..c.tiny_droplets
      PROVE  Catch!Dist(opts.acc, c, out'.fruits + out'.droplets + out'.tiny_droplets)
               <= Catch!Dist(opts.acc, c, out'.fruits + out'.droplets + n)
  BY <1>1, CatchStateIsClosest
<1>2. QED
  BY <1>1 DEF Catch!ClosestAccuracy

\* The search for an accuracy, whatever counts are given, leaves out no counts that come
\* closer to it: neither its rounded limits, which keep it short, nor what is done to the
\* counts after it lose the closest ones.
THEOREM AccuracyAlwaysClosest == Spec => ClosestAccuracy
<1> DEFINE Close == CASE mode = "Osu"   -> Osu!ClosestAccuracy
                      [] mode = "Taiko" -> Taiko!ClosestAccuracy
                      [] mode = "Catch" -> Catch!ClosestAccuracy
                      [] mode = "Mania" -> Mania!ClosestAccuracy
           c == source'.count
<1>1. ASSUME IInv, generate_state
      PROVE  Close
  <2>1. /\ mode \in GameModes /\ OptsOf(mode, opts) /\ play.den \in Nat \ {0}
        /\ c \in CountOf(mode) /\ out' \in StatesOf(mode, opts, c)
    BY <1>1, Generates, PlaysAssumption DEF IInv, OptsFit
  <2>2. CASE mode = "Osu"
    <3>1. OsuOpts(opts) /\ c \in OsuCount /\ out' \in Osu!States(opts, c)
      BY <2>1, <2>2 DEF OptsOf, CountOf, StatesOf
    <3>2. Osu!ClosestAccuracy
      BY <2>1, <3>1, OsuAccuracy
    <3>3. QED
      BY <2>2, <3>2, Zenon
  <2>3. CASE mode = "Taiko"
    <3>1. TaikoOpts(opts) /\ c \in TaikoCount /\ out' \in Taiko!States(opts, c)
      BY <2>1, <2>3 DEF OptsOf, CountOf, StatesOf
    <3>2. Taiko!ClosestAccuracy
      BY <2>1, <3>1, TaikoAccuracy
    <3>3. QED
      BY <2>3, <3>2
  <2>4. CASE mode = "Catch"
    <3>1. CatchOpts(opts) /\ c \in CatchCount /\ out' \in Catch!States(opts, c)
      BY <2>1, <2>4 DEF OptsOf, CountOf, StatesOf
    <3>2. Catch!ClosestAccuracy
      BY <2>1, <3>1, CatchAccuracy
    <3>3. QED
      BY <2>4, <3>2
  <2>5. CASE mode = "Mania"
    <3>1. ManiaOpts(opts) /\ c \in ManiaCount /\ out' \in Mania!States(opts, c)
      BY <2>1, <2>5 DEF OptsOf, CountOf, StatesOf
    <3>2. Mania!ClosestAccuracy
      BY <2>1, <3>1, ManiaAccuracy
    <3>3. QED
      BY <2>5, <3>2
  <2>6. QED
    BY <2>1, <2>2, <2>3, <2>4, <2>5, Zenon DEF GameModes
<1> HIDE DEF Close
<1>2. IInv /\ [Next]_vars => (Generated => Close)
  <2> SUFFICES ASSUME IInv, [Next]_vars, Generated PROVE Close
    OBVIOUS
  <2>1. out = None /\ out' # None
    BY DEF Generated
  <2>2. \A d \in Setters : ~Setter(d)
    BY <2>1 DEF Setter
  <2>3. ~state
    BY <2>1 DEF state
  <2>4. ~try_mode
    BY <2>1 DEF try_mode
  <2>5. generate_state
    BY <2>1, <2>2, <2>3, <2>4 DEF Next, vars
  <2>6. QED
    BY <1>1, <2>5
<1>3. QED
  BY <1>2, InvariantHolds, PTL DEF Spec, ClosestAccuracy, Close

=============================================================================
