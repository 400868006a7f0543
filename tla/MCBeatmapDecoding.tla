-------------------------- MODULE MCBeatmapDecoding --------------------------
(* Small instance of BeatmapDecoding.                                                   *)
(*                                                                                      *)
(* The lists that are only sorted hold the times of Times in every order; those sorted  *)
(* in place are longer, so that they are partitioned, and the conversion to taiko mixes *)
(* circles with sliders that overlap what follows them.  The files that are read are    *)
(* all those of up to MaxLines lines of one section, and some of timing and objects.    *)
EXTENDS BeatmapDecoding

CONSTANTS MaxTandem, MaxLegacy, MaxNested, MaxLines

Circle(t) == [time |-> t, spacing |-> 0, duration |-> 0, nodes |-> 0]
\* Sliders of 2 and 3 hits with two sounds of their own, and one without.
Slider(t) == {[time |-> t, spacing |-> 1, duration |-> 1, nodes |-> 2],
              [time |-> t, spacing |-> 1, duration |-> 2, nodes |-> 2],
              [time |-> t, spacing |-> 2, duration |-> 2, nodes |-> 0]}

Lists(S, n) == UNION {[1..k -> S] : k \in 0..n}
Circles(times, n) == Lists({Circle(t) : t \in times}, n)
Jobs(kind, lists) == {[job |-> kind, objects |-> l] : l \in lists}

MCFiles == Jobs("decode", Circles(1..3, MaxTandem))
           \union Jobs("decode mania", Circles(1..2, MaxLegacy))
           \union Jobs("convert to taiko", Lists(UNION {{Circle(t)} \union Slider(t) : t \in 1..2}, 3))
           \union Jobs("convert to mania", Circles(1..2, MaxLegacy))
           \union Jobs("nested objects", Circles(1..3, MaxNested))

-----------------------------------------------------------------------------
KeyValues(key, values) == {[section |-> "KeyValue", key |-> key, value |-> v] : v \in values}
Keys == KeyValues("OverallDifficulty", {3, 8, Bad}) \union KeyValues("ApproachRate", {4, 9, Bad})
        \union KeyValues("Mode", {Mania})

Events == {[section |-> "Events", start |-> 2, end |-> e, valid |-> v] :
             e \in {1, 4}, v \in BOOLEAN}

Timing(t, change, len, kiai, valid) ==
  [section |-> "TimingPoints", time |-> t, change |-> change, beat_len |-> len,
   kiai |-> kiai, valid |-> valid]
\* Times that are one, and others; kinds of lines that differ in what they give.
TimingMenu ==
  UNION {{Timing(t, TRUE, 500, FALSE, TRUE), Timing(t, TRUE, 300, TRUE, TRUE),
          Timing(t, FALSE, -50, FALSE, TRUE), Timing(t, FALSE, -100, TRUE, TRUE),
          Timing(t, FALSE, NaN, FALSE, TRUE)} : t \in {4, 5, 8}}
  \union {Timing(8, TRUE, NaN, FALSE, TRUE), Timing(8, FALSE, -50, FALSE, FALSE)}

Object(t, kind, valid) ==
  [section |-> "HitObjects", time |-> t, kind |-> kind, sound |-> {"Normal", "Clap"},
   custom |-> FALSE, repeats |-> 1, nodes |-> << >>, parts |-> << >>, end |-> t, valid |-> valid]
SliderLine(t, parts) == [Object(t, "Slider", TRUE) EXCEPT !.parts = parts]
B == Path!Type("Bezier")
P1 == Path!Pos(1, 1)
P2 == Path!Pos(1, 2)
P3 == Path!Pos(2, 2)
\* Paths of one and several segments, with points that repeat, on a line or not, and broken.
ObjectMenu ==
  {Object(3, "Circle", TRUE), Object(1, "Circle", FALSE),
   [Object(2, "Circle", TRUE) EXCEPT !.custom = TRUE],
   [Object(2, "Spinner", TRUE) EXCEPT !.end = 1],
   [Object(2, "Hold", TRUE) EXCEPT !.end = 4],
   [SliderLine(1, <<B, P1, P1, P2>>) EXCEPT !.repeats = 2, !.nodes = <<{"Clap"}, {}>>],
   SliderLine(2, <<B, P1, B, P2, P2>>), SliderLine(2, <<Path!Type("PerfectCurve"), P1, P2>>),
   SliderLine(2, <<Path!Type("PerfectCurve"), P1, P3, P3>>), SliderLine(1, <<Path!Type("PerfectCurve"), P1, P3>>),
   SliderLine(1, <<Path!Type("Catmull"), P1, P1, P1, P2>>), SliderLine(3, <<B, P1, Path!Type("Linear"), B, P2>>),
   SliderLine(2, <<B, P1, Path!Type("Linear"), P2, Path!Broken>>), SliderLine(2, <<B, P1, B, P2, Path!Empty>>),
   SliderLine(1, <<B>>)}

\* A path that breaks off, and two objects behind it.
LeakTexts ==
  {<<SliderLine(1, <<B, P1, Path!Type("Linear"), P2, Path!Broken>>), next, later>> :
     next \in ObjectMenu, later \in ObjectMenu}

\* Maps whose timing points give several bpm, with the objects that end them; the first point
\* may come before the begin of the map, and others behind its last object.
BpmTexts ==
  {timing \o <<object>> :
     timing \in UNION {[1..k -> {Timing(t, TRUE, len, FALSE, TRUE) :
                                   t \in {-3, 0, 2, 4, 7}, len \in {300, 500}}] : k \in 2..3},
     object \in {Object(3, "Circle", TRUE), Object(7, "Circle", TRUE), [Object(5, "Hold", TRUE) EXCEPT !.end = 10]}}

MCTexts == Lists(Keys, MaxLines) \union Lists(Events, 2) \union Lists(TimingMenu, MaxLines)
           \union Lists(ObjectMenu, MaxLines - 1) \union LeakTexts \union BpmTexts
=============================================================================
