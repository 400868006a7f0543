------------------------------ MODULE TaikoScore ------------------------------
(***************************************************************************)
(* TaikoPerformance, the builder of an osu!taiko score.  A map is reduced  *)
(* to its number of hits, play.hits.                                       *)
(***************************************************************************)
EXTENDS ScoreBuilder

CountFields == {"combo", "n300", "n100", "misses"}

Attrs(p) == Attributes(p, [max_combo |-> Least(p, play.hits)])

NoOpts(p) == NewSettings(CountFields \union {"acc", "priority", "passed"}, p)

-----------------------------------------------------------------------------
(* generate_state *)

\* The attributes, calculated for the settings if there are none yet.
InsertAttrs == IF source.kind = "map" THEN Attrs(opts.passed) ELSE source

TotalResults(o, c) == Least(o.passed, c.max_combo)

Misses(o, total) == Least(OrZero(o.misses), total)

\* The results that are not accounted for.
Rest(total, n300, n100, misses) == SaturatingSub(total, n300 + n100 + misses)

\* They become 300s or 100s: whichever was not given, the better or the worse
\* one by priority if that does not decide.
RestTo300(o) == IF (o.n300 = None) = (o.n100 = None)
                THEN o.priority = "BestCase"
                ELSE o.n300 = None

\* The distance of an accuracy to acc / den, times 2 * total * den.
Dist(acc, n300, n100, total) == Absolute(acc * 2 * total - (2 * n300 + n100) * play.den)

\* The numbers of 300s around the accuracy that was asked for, and the closest of
\* them; rounding decides between two that are as close.
Candidates(acc, total, remaining) ==
  LET raw == acc * 2 * total - remaining * play.den
  IN Least(remaining, Floor(raw, play.den)) .. Least(remaining, Ceil(raw, play.den))

Closest(acc, total, remaining) ==
  LET D(n) == Dist(acc, n, remaining - n, total)
      C == Candidates(acc, total, remaining)
  IN {n \in C : \A m \in C : D(n) <= D(m)}

\* The possible pairs of 300s and 100s.
Results(o, total, misses) ==
  LET remaining == total - misses
      n300 == Least(OrZero(o.n300), remaining)
      n100 == Least(OrZero(o.n100), remaining)
      rest == Rest(total, n300, n100, misses)
  IN IF o.acc # None /\ o.n300 = None /\ o.n100 = None
     THEN {<<n, remaining - n>> : n \in Closest(o.acc, total, remaining)}
     ELSE {IF RestTo300(o) THEN <<n300 + rest, n100>> ELSE <<n300, n100 + rest>>}

\* Variant of ComboOf that allows a full combo next to misses.
ComboOfUnbroken(o, c, misses) == OrFull(o.combo, c.max_combo)

ComboOf(o, c, misses) == OrFull(o.combo, SaturatingSub(c.max_combo, misses))

\* The states that may be generated.
States(o, c) ==
  LET total  == TotalResults(o, c)
      misses == Misses(o, total)
  IN {[combo |-> ComboOf(o, c, misses), n300 |-> r[1], n100 |-> r[2],
       misses |-> misses] : r \in Results(o, total, misses)}

\* Variant of Written with the two counts swapped.
WrittenSwapped(o, s) == Overwritten(o, [s EXCEPT !.n300 = s.n100, !.n100 = s.n300])

\* All counts are written back.
Written(o, s) == Overwritten(o, s)

generate_state == /\ source' = InsertAttrs
                  /\ out' \in States(opts, source'.count)
                  /\ opts' = Written(opts, out')
                  /\ UNCHANGED play

-----------------------------------------------------------------------------
(* Properties, of the whole builder in AnyPerformance *)

\* `judged` results of a generated state: every object of the play is judged, and
\* none twice unless 300s and 100s were both already there.
AddsUp(judged) ==
  LET total == TotalResults(opts, source'.count)
  IN /\ judged >= total
     /\ opts.n300 = None \/ opts.n100 = None => judged = total

\* With attributes that were calculated for the objects the play passed, the
\* combo is one its 300s and 100s can have made.
ComboFits == source.passed = opts.passed => out.combo <= out.n300 + out.n100

\* No split of the results that are left matches the accuracy `acc` better than
\* the 300s and 100s of the state s.
AsCloseAsPossible(acc, s, total) ==
  LET remaining == SaturatingSub(total, s.misses)
  IN \A n \in 0..remaining : Dist(acc, s.n300, s.n100, total)
                               <= Dist(acc, n, remaining - n, total)

\* An accuracy without counts is matched as closely as possible.
ClosestAccuracy ==
  opts.acc # None /\ opts.n300 = None /\ opts.n100 = None =>
    AsCloseAsPossible(opts.acc, out', TotalResults(opts, source'.count))

\* A state for the best case has no worse accuracy than one for the worst case.
Points(s) == 2 * s.n300 + s.n100
BestIsBetter ==
  LET Of(p) == States([opts EXCEPT !.priority = p], InsertAttrs.count)
  IN \A b \in Of("BestCase") : \E w \in Of("WorstCase") : Points(b) >= Points(w)
=============================================================================
