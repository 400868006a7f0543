---------------------------- MODULE MCManiaConvert ----------------------------
(* Small instance of ManiaConvert.  Of every number of columns from one to nine there is  *)
(* a map, by keys or by its objects, of each difficulty that makes a difference somewhere. *)
(* Objects come at the intervals and have the lengths that lie on either side of a limit.  *)
EXTENDS ManiaConvert

Map(keys, n_long, cs, od, difficulty, kiai) ==
  [keys |-> keys, n |-> 10, n_long |-> n_long, cs |-> cs, od |-> od, beat_len |-> 400,
   difficulty |-> difficulty, kiai |-> kiai]

MCMaps == {Map(k, 4, 4, 4, d, FALSE) : k \in {1, 2, 3}, d \in {10, 70}}
          \union {Map(0, 7, 4, 4, d, d = 28) : d \in {28, 70}}   \* 4 columns
          \union {Map(0, 7, 4, 5, 35, TRUE), Map(0, 2, 4, 5, 70, FALSE),
                  Map(0, 1, 4, 5, 50, TRUE), Map(8, 4, 4, 4, 70, TRUE), Map(9, 4, 4, 4, 70, FALSE)}

Circle(t, x, sample) ==
  [kind |-> "Circle", time |-> t, end |-> 0, pos |-> <<x, 0>>, sample |-> sample]
Slider(duration, spans, sample) ==
  [kind |-> "Slider", time |-> 300, end |-> duration, pos |-> <<300, 0>>, sample |-> sample,
   head |-> sample, span_count |-> spans]
Spinner(duration, sample) ==
  [kind |-> "Spinner", time |-> 300, end |-> duration, pos |-> <<256, 192>>, sample |-> sample]

Separations == {80, 95, 105, 125, 135, 150, 300}
Circles(total) ==
  {Circle(t, x, s) : t \in Separations, x \in IF total < 5 THEN {0, 300} ELSE {300},
     s \in IF total < 5 THEN {{}, {"Clap"}, {"Finish"}} ELSE {{}, {"Clap", "Finish"}}}

\* One for each kind of pattern, those of many outcomes for few columns only.
Sliders(total) ==
  {Slider(d[1], d[2], {}) :
     d \in {<<0, 1>>, <<100, 1>>, <<200, 1>>, <<180, 2>>, <<320, 2>>, <<400, 2>>, <<4000, 2>>,
            <<1001, 2>>}}
  \union (IF total > 4 THEN {}
          ELSE {Slider(200, 1, {"Clap"}), Slider(240, 2, {}), Slider(301, 3, {}),
                Slider(601, 2, {}), Slider(802, 2, {"Clap"}), Slider(1600, 3, {})})
Spinners == {Spinner(d, s) : d \in {99, 100}, s \in {{}, {"Finish"}}}

\* The first objects of a map of many columns are such as lead to patterns of each size.
MCObjects(total, n) ==
  IF total > 4 /\ n = 0
  THEN {Circle(300, 300, {}), Circle(300, 300, {"Clap", "Finish"}), Slider(400, 2, {})}
  ELSE Circles(total) \union Sliders(total) \union Spinners

MCMaxObjects(total) == IF total < 3 THEN 3 ELSE IF total = 9 THEN 1 ELSE 2
=============================================================================
