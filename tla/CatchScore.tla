------------------------------ MODULE CatchScore ------------------------------
(***************************************************************************)
(* CatchPerformance, the builder of an osu!catch score.  A map is what     *)
(* converting it records, play.recorded.  Misses are those of fruits and   *)
(* droplets; tiny droplets have a count of misses of their own.            *)
(***************************************************************************)
EXTENDS ScoreBuilder, CatchObjects

CountFields == {"combo", "fruits", "droplets", "tiny_droplets",
                "tiny_droplet_misses", "misses"}

Attrs(p) == Attributes(p, RegularCount(play.recorded, p))

NoOpts(p) == NewSettings(CountFields \union {"acc", "passed"}, p)

-----------------------------------------------------------------------------
(* generate_state *)

InsertAttrs == IF source.kind = "map" THEN Attrs(opts.passed) ELSE source

Palps(c) == c.fruits + c.droplets

Misses(o, c) == Least(OrZero(o.misses), Palps(c))

\* Fruits and droplets: with both given the rest goes to droplets as far as the
\* map has any, and surplus is cut; else a count that is given only says which of
\* the two the misses were, and droplets are missed first.
BothGiven(o, c, misses) ==
  LET rest  == SaturatingSub(Palps(c), o.fruits + o.droplets + misses)
      extra == Least(rest, SaturatingSub(c.droplets, o.droplets))
      fruits == Least(o.fruits + rest - extra,
                      SaturatingSub(Palps(c), o.droplets + extra + misses))
  IN <<fruits, Least(o.droplets + extra, Palps(c) - fruits - misses)>>

FruitsAndDroplets(o, c, misses) ==
  IF o.fruits # None /\ o.droplets # None THEN BothGiven(o, c, misses)
  ELSE LET \* what the misses take from x when only the other count, `n`, is known
           Spared(x, other, n) ==
             SaturatingSub(x, SaturatingSub(misses, SaturatingSub(other, n)))
       IN IF o.droplets # None
          THEN LET fruits == Spared(c.fruits, c.droplets, o.droplets)
               IN <<fruits, Palps(c) - misses - fruits>>
          ELSE LET droplets == IF o.fruits # None
                               THEN Spared(c.droplets, c.fruits, o.fruits)
                               ELSE SaturatingSub(c.droplets, misses)
               IN <<Palps(c) - misses - droplets, droplets>>

\* The distance of an accuracy to acc / den, times the number of objects * den.
Dist(acc, c, caught) == Absolute(acc * (Palps(c) + c.tiny_droplets) - play.den * caught)

\* The numbers of tiny droplets around the accuracy that was asked for, and the
\* closest of them; rounding decides between two that are as close.
BestTiny(acc, c, caught) ==
  LET raw == acc * (Palps(c) + c.tiny_droplets) - play.den * caught
      tried == Least(c.tiny_droplets, Floor(raw, play.den))
                 .. Least(c.tiny_droplets, Ceil(raw, play.den))
  IN {n \in tried : \A m \in tried : Dist(acc, c, caught + n) <= Dist(acc, c, caught + m)}

Searched(o, c) ==
  /\ o.acc # None
  /\ \/ o.tiny_droplets = None /\ o.tiny_droplet_misses = None
     \/ /\ o.tiny_droplets # None /\ o.tiny_droplet_misses # None
        /\ o.tiny_droplets + o.tiny_droplet_misses # c.tiny_droplets

\* Tiny droplets and their misses without a search.
GivenTiny(o, c) ==
  LET t == c.tiny_droplets
  IN CASE o.tiny_droplets # None /\ o.tiny_droplet_misses # None ->
            <<o.tiny_droplets + SaturatingSub(t, o.tiny_droplets + o.tiny_droplet_misses),
              o.tiny_droplet_misses>>
       [] o.tiny_droplets # None /\ o.tiny_droplet_misses = None ->
            <<Least(t, o.tiny_droplets), SaturatingSub(t, o.tiny_droplets)>>
       [] OTHER ->
            <<SaturatingSub(t, OrZero(o.tiny_droplet_misses)),
              Least(t, OrZero(o.tiny_droplet_misses))>>

TinyResults(o, c, caught) ==
  IF Searched(o, c)
  THEN {<<n, c.tiny_droplets - n>> : n \in BestTiny(o.acc, c, caught)}
  ELSE {GivenTiny(o, c)}

\* A combo that is given is taken as it is.
ComboOf(o, c, misses) == IF o.combo # None THEN o.combo ELSE Palps(c) - misses

\* The states that may be generated.
States(o, c) ==
  LET misses == Misses(o, c)
      r == FruitsAndDroplets(o, c, misses)
  IN {[combo |-> ComboOf(o, c, misses), fruits |-> r[1], droplets |-> r[2],
       tiny_droplets |-> t[1], tiny_droplet_misses |-> t[2], misses |-> misses] :
         t \in TinyResults(o, c, r[1] + r[2])}

\* All counts are written back.
Written(o, s) == Overwritten(o, s)

generate_state == /\ source' = InsertAttrs
                  /\ out' \in States(opts, source'.count)
                  /\ opts' = Written(opts, out')
                  /\ UNCHANGED play

-----------------------------------------------------------------------------
(* Properties, of the whole builder in AnyPerformance *)

\* `judged` results of a generated state: every object of the map is judged, and
\* none twice unless tiny droplets and their misses were both given without an
\* accuracy.  What is caught is there to be caught, unless fruits and droplets
\* were both given.
AddsUp(judged) ==
  LET c     == source'.count
      total == Palps(c) + c.tiny_droplets
  IN /\ judged >= total
     /\ None \in {opts.tiny_droplets, opts.tiny_droplet_misses} \/ opts.acc # None =>
          judged = total
     /\ None \in {opts.fruits, opts.droplets} =>
          out'.fruits <= c.fruits /\ out'.droplets <= c.droplets

\* An accuracy without tiny droplets is matched as closely as they can match it.
ClosestAccuracy ==
  LET c == source'.count
      caught(s) == s.fruits + s.droplets + s.tiny_droplets
  IN opts.acc # None /\ opts.tiny_droplets = None /\ opts.tiny_droplet_misses = None =>
       \A n \in 0..c.tiny_droplets :
         Dist(opts.acc, c, caught(out')) <= Dist(opts.acc, c, out'.fruits + out'.droplets + n)
=============================================================================
