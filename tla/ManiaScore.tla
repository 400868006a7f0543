------------------------------ MODULE ManiaScore ------------------------------
(***************************************************************************)
(* ManiaPerformance, the builder of an osu!mania score.  A map is a        *)
(* sequence of notes, play.notes, TRUE for those that are held; in         *)
(* osu!lazer a hold note is judged twice.                                  *)
(***************************************************************************)
EXTENDS ScoreBuilder, SequencesExt

Judgements == {"n320", "n300", "n200", "n100", "n50"}
CountFields == Judgements \union {"misses"}

Attrs(p) ==
  LET n == Least(p, Len(play.notes))
  IN Attributes(p, [n_objects |-> n,
                    n_hold_notes |-> Cardinality({i \in 1..n : play.notes[i]})])

NoOpts(p) == NewSettings(CountFields \union {"acc", "priority", "lazer", "passed"}, p)

-----------------------------------------------------------------------------
(* generate_state: totals *)

InsertAttrs == IF source.kind = "map" THEN Attrs(opts.passed) ELSE source

\* What the counts are generated from.  Misses are limited before hold notes count
\* twice.
Setup(o, c) ==
  LET passed == Least(o.passed, c.n_objects)
      misses == Least(OrZero(o.misses), passed)
      total  == passed + (IF o.lazer THEN c.n_hold_notes ELSE 0)
  IN [total |-> total, misses |-> misses, remaining |-> total - misses]

Given(o, s, f) == Least(OrZero(o[f]), s.remaining)

-----------------------------------------------------------------------------
(* generate_state: the search for an accuracy.  It does not tell 320s from 300s; *)
(* together they are "n3x0".                                                     *)

Value == [n3x0 |-> 6, n200 |-> 4, n100 |-> 2, n50 |-> 1]

Judged(h) == h.n3x0 + h.n200 + h.n100 + h.n50
Points(h) == 6 * h.n3x0 + 4 * h.n200 + 2 * h.n100 + h.n50

Left(s, h) == SaturatingSub(s.remaining, Judged(h))
Target(o, s) == o.acc * 6 * s.total

\* Those of 200s, 100s and 50s that are not given, best first.
Lows(o) == LET NotGiven(f) == IF o[f] = None THEN <<f>> ELSE << >>
           IN NotGiven("n200") \o NotGiven("n100") \o NotGiven("n50")

\* What is missing to reach the accuracy if all that is left goes to the judgement g, and
\* what each judgement f in its place adds.
Short(o, s, h, g) == Target(o, s) - play.den * (Points(h) + Value[g] * Left(s, h))
Adds(f, g) == play.den * (Value[f] - Value[g])

\* How often the judgement f must then be there, rounded down and up.
NeededDown(o, s, h, f, g) == Least(Left(s, h), Floor(Short(o, s, h, g), Adds(f, g)))
NeededUp(o, s, h, f, g)   == Least(Left(s, h), Ceil(Short(o, s, h, g), Adds(f, g)))

\* Variant of CountsOf that does not round up.
CountsOfBelow(o, s, h, f, later) ==
  NeededDown(o, s, h, f, Head(later)) .. NeededDown(o, s, h, f, Last(later))

\* The counts of f tried, if what is left goes to the judgements `later`.
CountsOf(o, s, h, f, later) ==
  NeededDown(o, s, h, f, Head(later)) .. NeededUp(o, s, h, f, Last(later))

\* The same of 320s and 300s: other limits if only 100s, or none of the lower three,
\* are given, and never less than what is given.
CountsOf3x0(o, s, h) ==
  LET lows == Lows(o)
      r    == s.remaining
      lo == CASE lows = <<"n200", "n50">> ->
                   Least(Left(s, h), Floor(o.acc * 3 * r - play.den * (2 * r - h.n100), play.den))
              [] Len(lows) = 3 -> Least(r, Floor(Target(o, s) - play.den * 4 * r, play.den * 5))
              [] OTHER -> NeededDown(o, s, h, "n3x0", Head(lows))
      most == NeededUp(o, s, h, "n3x0", Last(lows))
      hi == IF Len(lows) < 3 THEN most
            ELSE Least(most, Ceil(o.acc * 3 * s.total - play.den * r, play.den))
      given == Given(o, s, "n320") + Given(o, s, "n300")
  IN IF o.n320 # None /\ o.n300 # None THEN {Least(r, given)}
     ELSE Max({lo, given}) .. Max({hi, given})

\* All combinations tried: 320s and 300s, then each low judgement that is not given;
\* the last takes what is left.
Tried(o, s) ==
  LET lows == Lows(o)
      none == [n3x0 |-> 0, n200 |-> Given(o, s, "n200"), n100 |-> Given(o, s, "n100"),
               n50  |-> Given(o, s, "n50")]
      Extended(H, i) == IF i >= Len(lows) THEN H ELSE
                        UNION {{[h EXCEPT ![lows[i]] = k] :
                                  k \in CountsOf(o, s, h, lows[i], SubSeq(lows, i + 1, Len(lows)))} :
                                h \in H}
      top == {[none EXCEPT !.n3x0 = k] : k \in CountsOf3x0(o, s, none)}
  IN {[h EXCEPT ![Last(lows)] = Left(s, h)] :
        h \in Extended(Extended(top, 1), 2)}

\* The distance of the accuracy to acc / den, times 6 * total * den.
Dist(o, s, h) == Absolute(Target(o, s) - play.den * Points(h))

TriedBefore(g, h) ==
  \/ g.n3x0 < h.n3x0
  \/ g.n3x0 = h.n3x0 /\ g.n200 < h.n200
  \/ g.n3x0 = h.n3x0 /\ g.n200 = h.n200 /\ g.n100 < h.n100

\* The closest of them.  Of those with the same accuracy the first one tried wins;
\* rounding decides between two accuracies that are as close.
Closest(o, s, C) ==
  {h \in C : \A g \in C : /\ Dist(o, s, h) <= Dist(o, s, g)
                          /\ Points(g) = Points(h) => ~TriedBefore(g, h)}

\* 320s and 300s told apart: by what is given, or all the better or the worse ones.
ToldApart(o, s, h) ==
  LET n320 == CASE o.n320 # None -> Given(o, s, "n320")
                [] o.n320 = None /\ o.n300 # None -> h.n3x0 - Given(o, s, "n300")
                [] OTHER -> IF o.priority = "BestCase" THEN h.n3x0 ELSE 0
      n300 == IF o.n300 # None THEN Given(o, s, "n300") ELSE h.n3x0 - n320
  IN [n320 |-> n320, n300 |-> n300, n200 |-> h.n200, n100 |-> h.n100, n50 |-> h.n50]

\* In the best case two 200s become a 320 and a 100.
Shifted(o, r) ==
  LET n == r.n200 \div 2
  IN IF o.priority = "BestCase" /\ {o.n320, o.n200, o.n100} = {None}
     THEN [r EXCEPT !.n320 = @ + n, !.n200 = @ - 2 * n, !.n100 = @ + n]
     ELSE r

-----------------------------------------------------------------------------
(* generate_state: the hit results *)

Open(o) == {f \in Judgements : o[f] = None}

\* There is something to search for: a low judgement and another one.
Searched(o) == o.acc # None /\ Lows(o) # << >> /\ \E f, g \in Open(o) : f # g

\* Otherwise one count takes all results that are not accounted for: the best or
\* the worst of those that are not given, else of all.
RestTo(o) ==
  LET best  == <<"n320", "n300", "n200", "n100", "n50">>
      order == IF o.priority = "BestCase" THEN best ELSE Reverse(best)
      open  == {i \in 1..5 : order[i] \in Open(o)}
  IN order[IF open = {} THEN 1 ELSE Min(open)]

Results(o, s) ==
  IF Searched(o)
  THEN {Shifted(o, ToldApart(o, s, h)) : h \in Closest(o, s, Tried(o, s))}
  ELSE LET r == [f \in Judgements |-> Given(o, s, f)]
           rest == SaturatingSub(s.remaining, r.n320 + r.n300 + r.n200 + r.n100 + r.n50)
       IN {[r EXCEPT ![RestTo(o)] = @ + rest]}

\* The states that may be generated.
States(o, c) ==
  LET s == Setup(o, c)
  IN {[f \in CountFields |-> IF f = "misses" THEN s.misses ELSE r[f]] : r \in Results(o, s)}

\* All counts are written back.
Written(o, s) == Overwritten(o, s)

generate_state == /\ source' = InsertAttrs
                  /\ out' \in States(opts, source'.count)
                  /\ opts' = Written(opts, out')
                  /\ UNCHANGED play

-----------------------------------------------------------------------------
(* Properties, of the whole builder in AnyPerformance *)

\* `judged` results of a generated state: every note, and every release of a hold
\* note in osu!lazer, is judged, and none twice unless more was given.
AddsUp(judged) ==
  LET s == Setup(opts, source'.count)
      given == s.misses + Given(opts, s, "n320") + Given(opts, s, "n300")
                 + Given(opts, s, "n200") + Given(opts, s, "n100") + Given(opts, s, "n50")
  IN judged = IF given > s.total THEN given ELSE s.total

\* An accuracy is matched as closely as any split of the results that are left over by
\* the counts that are given can match it.
Splits(o, s) ==
  LET r == 0..s.remaining
      given == Given(o, s, "n320") + Given(o, s, "n300")
      Fits(h) == /\ h.n50 >= 0 /\ h.n3x0 >= given
                 /\ o.n320 # None /\ o.n300 # None => h.n3x0 = given
                 /\ \A f \in DOMAIN Value \ {"n3x0"} : o[f] # None => h[f] = Given(o, s, f)
  IN {h \in {[n3x0 |-> a, n200 |-> b, n100 |-> c, n50 |-> s.remaining - a - b - c] :
               a \in r, b \in r, c \in r} : Fits(h)}

ClosestAccuracy ==
  Searched(opts) =>
    LET s == Setup(opts, source'.count)
        h == [n3x0 |-> out'.n320 + out'.n300, n200 |-> out'.n200,
              n100 |-> out'.n100, n50 |-> out'.n50]
    IN \A g \in Splits(opts, s) : Dist(opts, s, h) <= Dist(opts, s, g)

\* A state for the best case has no lower custom accuracy, which tells 320s from 300s,
\* than one for the worst case.
CustomPoints(r) == 32 * r.n320 + 30 * r.n300 + 20 * r.n200 + 10 * r.n100 + 5 * r.n50
BestIsBetter ==
  LET Of(p) == States([opts EXCEPT !.priority = p], InsertAttrs.count)
  IN \A b \in Of("BestCase") : \E w \in Of("WorstCase") : CustomPoints(b) >= CustomPoints(w)
=============================================================================
