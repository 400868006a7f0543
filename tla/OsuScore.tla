------------------------------- MODULE OsuScore -------------------------------
(***************************************************************************)
(* OsuPerformance, the builder of an osu!standard score of the map         *)
(* play.objects.  The points of a result are the program's divided by ten. *)
(***************************************************************************)
EXTENDS ScoreBuilder, OsuDifficulty

CountFields == {"combo", "large_tick_hits", "slider_end_hits", "n300", "n100",
                "n50", "misses"}

Attrs(p) == Attributes(p, Inspected(play.objects, 1..Least(p, Len(play.objects))))

\* `classic` stands for the mods, as far as they decide on slider head accuracy.
NoOpts(p) ==
  NewSettings(CountFields \union {"acc", "priority", "lazer", "classic", "passed"}, p)

-----------------------------------------------------------------------------
(* generate_state: totals and slider accuracy *)

InsertAttrs == IF source.kind = "map" THEN Attrs(opts.passed) ELSE source

n_objects(o, c) == Least(o.passed, c.n_circles + c.n_sliders + c.n_spinners)

\* The limits of the two slider counts, by the origin of the score.
MaxLargeTicks(o, c) == IF ~o.lazer THEN 0
                       ELSE IF o.classic THEN c.n_sliders + c.n_large_ticks
                       ELSE c.n_large_ticks
MaxSliderEnds(o, c) == IF o.lazer THEN c.n_sliders ELSE 0

\* Points of slider ticks and ends.
SliderValue(o, ticks, ends) == 3 * ticks + (IF o.classic THEN 1 ELSE 15) * ends

\* What the counts are generated from.
Setup(o, c) ==
  LET total  == n_objects(o, c)
      misses == Least(OrZero(o.misses), total)
      ticks  == OrFull(o.large_tick_hits, MaxLargeTicks(o, c))
      ends   == OrFull(o.slider_end_hits, MaxSliderEnds(o, c))
  IN [total |-> total, misses |-> misses, remaining |-> total - misses,
      ticks |-> ticks, ends |-> ends, slider |-> SliderValue(o, ticks, ends),
      max_points |-> 30 * total + SliderValue(o, MaxLargeTicks(o, c), MaxSliderEnds(o, c))]

-----------------------------------------------------------------------------
(* generate_state: the hit results *)

Hits(n300, n100, n50) == [n300 |-> n300, n100 |-> n100, n50 |-> n50]
Points(h) == 30 * h.n300 + 10 * h.n100 + 5 * h.n50

Given(o, s, f) == Least(OrZero(o[f]), s.remaining)

\* Variant of Around in which negative numbers stay negative.
AroundSigned(num, unit, max) ==
  Least(max, num \div (play.den * unit))
    .. Least(max, (num + play.den * unit - 1) \div (play.den * unit))

\* floor and ceil of num / (den * unit), limited by `max`
Around(num, unit, max) == Least(max, Floor(num, play.den * unit))
                            .. Least(max, Ceil(num, play.den * unit))

\* The results tried for an accuracy, by which of the three counts is given
\* (none, or one of them).
Candidates(o, s) ==
  LET target == o.acc * s.max_points
      Left(base) == target - play.den * (base + s.slider)
      n300 == Given(o, s, "n300")
      n100 == Given(o, s, "n100")
      n50  == Given(o, s, "n50")
      free == s.remaining - n300 - n100 - n50
  IN CASE o.n300 # None ->
            {Hits(n300, k, free - k) : k \in Around(Left(5 * free + 30 * n300), 5, free)}
       [] o.n100 # None ->
            {Hits(k, n100, free - k) : k \in Around(Left(5 * free + 10 * n100), 25, free)}
       [] o.n50 # None ->
            {Hits(k, free - k, n50) :
               k \in Around(Left(10 * s.total - 10 * s.misses - 5 * n50), 20, free)}
       [] OTHER ->
            UNION {{Hits(k, j, free - k - j) :
                      j \in Around(Left(5 * free + 25 * k), 5, free - k)} :
                    k \in Around(Left(5 * free), 25, free)}

\* The distance of the accuracy to acc / den, times max_points * den.
Dist(o, s, h) == Absolute(o.acc * s.max_points - play.den * (Points(h) + s.slider))

\* The closest of them.  Of those with the same accuracy the first one tried wins;
\* rounding decides between two accuracies that are as close.
Closest(o, s, C) ==
  {h \in C : \A g \in C : /\ Dist(o, s, h) <= Dist(o, s, g)
                          /\ Points(g) = Points(h) => h.n300 <= g.n300}

\* The priority trades a 300 and four 50s for five 100s, or the other way around.
Shifted(o, h) ==
  IF o.priority = "BestCase"
  THEN LET n == Least(h.n300, h.n50 \div 4)
       IN Hits(h.n300 - n, h.n100 + 5 * n, h.n50 - 4 * n)
  ELSE LET n == h.n100 \div 5
       IN Hits(h.n300 + n, h.n100 - 5 * n, h.n50 + 4 * n)

Open(o) == {f \in {"n300", "n100", "n50"} : o[f] = None}

\* Variant of RestTo with the priorities swapped.
RestToSwapped(o) ==
  LET order == IF o.priority = "WorstCase" THEN <<"n300", "n100", "n50">>
                                           ELSE <<"n50", "n100", "n300">>
      open  == {i \in 1..3 : order[i] \in Open(o)}
  IN order[IF open = {} THEN 1 ELSE Min(open)]

\* The count that takes all results that are not accounted for.
RestTo(o) ==
  LET order == IF o.priority = "BestCase" THEN <<"n300", "n100", "n50">>
                                          ELSE <<"n50", "n100", "n300">>
      open  == {i \in 1..3 : order[i] \in Open(o)}
  IN order[IF open = {} THEN 1 ELSE Min(open)]

Rest(s, h) == SaturatingSub(s.total, h.n300 + h.n100 + h.n50 + s.misses)

Results(o, s) ==
  IF o.acc # None /\ (\E f, g \in Open(o) : f # g)
  THEN LET C == Closest(o, s, Candidates(o, s))
       IN IF Open(o) = {"n300", "n100", "n50"} THEN {Shifted(o, h) : h \in C} ELSE C
  ELSE LET h == Hits(Given(o, s, "n300"), Given(o, s, "n100"), Given(o, s, "n50"))
       IN {[h EXCEPT ![RestTo(o)] = @ + Rest(s, h)]}

ComboOf(o, c, misses) == OrFull(o.combo, SaturatingSub(c.max_combo, misses))

\* The states that may be generated.
States(o, c) ==
  LET s == Setup(o, c)
  IN {[n300 |-> h.n300, n100 |-> h.n100, n50 |-> h.n50, misses |-> s.misses,
        combo |-> ComboOf(o, c, s.misses), large_tick_hits |-> s.ticks,
        slider_end_hits |-> s.ends] : h \in Results(o, s)}

\* All counts are written back.
Written(o, s) == Overwritten(o, s)

generate_state == /\ source' = InsertAttrs
                  /\ out' \in States(opts, source'.count)
                  /\ opts' = Written(opts, out')
                  /\ UNCHANGED play

-----------------------------------------------------------------------------
(* Properties, of the whole builder in AnyPerformance *)

\* `judged` results of a generated state: every object of the play is judged, and
\* none twice unless 300s, 100s and 50s were all there or exceeded it.
AddsUp(judged) ==
  LET s == Setup(opts, source'.count)
      known == s.misses + Given(opts, s, "n300") + Given(opts, s, "n100")
                 + Given(opts, s, "n50")
  IN judged = IF known > s.total THEN known ELSE s.total

\* With attributes that were calculated for the objects the play passed, a score
\* of osu!lazer has a combo that its hits and slider parts can have made, if no
\* slider part is missing.
ComboFits ==
  source.passed = opts.passed =>
    out.combo <= out.n300 + out.n100 + out.n50
                   + source.count.n_large_ticks + source.count.n_sliders

\* An accuracy with at most one count is matched as closely as any split of the
\* results that are left can match it; the shift by priority keeps that.
Splits(s, Fits(_)) ==
  {h \in {Hits(a, b, s.remaining - a - b) : a \in 0..s.remaining, b \in 0..s.remaining} :
     h.n50 >= 0 /\ Fits(h)}

ClosestAccuracy ==
  opts.acc # None /\ (\E f, g \in Open(opts) : f # g) =>
    LET s == Setup(opts, source'.count)
        Fits(h) == \A f \in {"n300", "n100", "n50"} \ Open(opts) :
                     h[f] = Given(opts, s, f)
    IN \A h \in Splits(s, Fits) : Dist(opts, s, out') <= Dist(opts, s, h)

\* A state for the best case has no worse accuracy and, at the same accuracy, no
\* more 50s than one for the worst case.
BestIsBetter ==
  LET Of(p) == States([opts EXCEPT !.priority = p], InsertAttrs.count)
  IN \A b \in Of("BestCase") : \E w \in Of("WorstCase") :
       /\ Points(b) >= Points(w)
       /\ Points(b) = Points(w) => b.n50 <= w.n50
=============================================================================
