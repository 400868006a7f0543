--------------------------- MODULE MCAnyPerformance ---------------------------
(* Small instances of AnyPerformance: one map, as each mode sees it, on which *)
(* counts are set in every way, and longer ones for the search for an         *)
(* accuracy, which needs several results to trade with.                       *)
EXTENDS AnyPerformance, TLC

ShortMap == [objects  |-> <<Osu!Circle, Osu!Slider(1)>>,
             hits     |-> 3,
             recorded |-> <<Catch!Fruit, Catch!Fruit, Catch!Tiny(1), Catch!Droplet, Catch!Tiny(1)>>,
             notes    |-> <<FALSE, TRUE>>]

LongMap == [objects  |-> <<Osu!Circle, Osu!Slider(1), Osu!Circle, Osu!Circle, Osu!Circle, Osu!Spinner>>,
            hits     |-> 5,
            recorded |-> <<Catch!Fruit, Catch!Tiny(3), Catch!Droplet, Catch!Fruit>>,
            notes    |-> <<FALSE, FALSE, TRUE, FALSE>>]

A(map, m, den, passed, calls, states) ==
  map @@ [mode |-> m, den |-> den, passed |-> passed,
          calls |-> calls @@ [c \in Setters |-> {}], states |-> states]

Score(combo, n) == [g \in ScoreFields |-> IF g = "max_combo" THEN combo ELSE n]

\* An osu!standard map, in all modes; and only as such, with slider counts.
Conversions ==
  A(ShortMap, "Osu", 4, {},
    [accuracy |-> {3}, misses |-> {1}, n300 |-> {2}, n100 |-> {4}, n50 |-> {3},
     combo |-> {2}, hitresult_priority |-> {"WorstCase"}], {})
SliderCounts ==
  A(ShortMap, "Osu", 4, {1},
    [combo |-> {1}, large_tick_hits |-> {0, 5}, n_slider_ends |-> {0}, misses |-> {1},
     lazer |-> {FALSE}, mods |-> {TRUE}, passed_objects |-> {1}], {Score(1, 1)})

\* Taiko, catch and mania.
Taikos ==
  A(ShortMap, "Taiko", 5, {1, 5},
    [combo |-> {1, 5}, n300 |-> {1, 5}, n100 |-> {2}, misses |-> {1, 5}, accuracy |-> {3},
     passed_objects |-> {1}, hitresult_priority |-> {"WorstCase"}], {Score(1, 1)})
Catches ==
  A(ShortMap, "Catch", 7, {2},
    [combo |-> {1}, n300 |-> {1, 5}, n100 |-> {0, 1}, n50 |-> {1}, n_katu |-> {0, 5},
     misses |-> {1}, accuracy |-> {5}], {Score(1, 1)})
Manias ==
  A(ShortMap, "Mania", 7, {},
    [n_geki |-> {1}, n300 |-> {1}, n_katu |-> {2}, n100 |-> {1}, n50 |-> {1}, misses |-> {1},
     accuracy |-> {5}, hitresult_priority |-> {"WorstCase"}, lazer |-> {FALSE}], {})

\* Only the accuracy of a taiko score.
Accuracies == A(ShortMap, "Taiko", 5, {}, [accuracy |-> {1, 4}], {})

\* The search for an accuracy, next to one result that is known, or none.
Search(m, c) ==
  A(LongMap, m, 12, {},
    [accuracy |-> {1, 3, 5, 6, 7, 9, 11}, hitresult_priority |-> {"WorstCase"},
     misses |-> {1}] @@ [x \in {c} |-> {1}], {})

MCAccuracies == {Accuracies}
MCPlays == {Conversions, SliderCounts, Taikos, Catches, Manias, Search("Taiko", "passed_objects"),
            Search("Catch", "passed_objects")}
             \union {Search("Osu", c) : c \in {"n300", "n100", "n50"}}
             \union {Search("Mania", c) : c \in {"n_geki", "n300", "n_katu", "n100", "n50"}}
=============================================================================
