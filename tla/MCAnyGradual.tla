----------------------------- MODULE MCAnyGradual -----------------------------
(* Small instance of AnyGradual: for each mode every map of a few objects.   *)
EXTENDS AnyGradual, SequencesExt

CONSTANTS OsuLen, TaikoLen, CatchLen, ManiaLen,  \* bounds on the objects of a map
          Spacing,                   \* ms between objects of an osu!catch map
          Start, Offset, Durations   \* of the objects of an osu!mania map

UpTo(S, n) == UNION {[1..k -> S] : k \in 0..n}

\* osu!: circles, spinners and sliders with and without a tick.
OsuObject(k, ticks) == [kind |-> k, ticks |-> ticks]
MCOsuMaps == UpTo({OsuObject("circle", 0), OsuObject("spinner", 0),
                   OsuObject("slider", 0), OsuObject("slider", 1)}, OsuLen)
MCTaikoMaps == UpTo(BOOLEAN, TaikoLen)

\* osu!catch: a circle, a spinner, and sliders: short; with ticks far apart; with a
\* repeat; with a tick later than the legacy last tick.  Objects overlap when the
\* spacing is shorter than a slider.
At(kinds, times, start) ==
  [i \in DOMAIN kinds |-> [kind |-> kinds[i], time |-> start + times[i]]]

Objects(t) == {
  At(<<"Circle">>, <<0>>, t),
  << >>,
  At(<<"Head", "LastTick", "Tail">>, <<0, 25, 50>>, t),
  At(<<"Head", "Tick", "LastTick", "Tail">>, <<0, 150, 364, 400>>, t),
  At(<<"Head", "Repeat", "LastTick", "Tail">>, <<0, 100, 164, 200>>, t),
  At(<<"Head", "Tick", "LastTick", "Tail">>, <<0, 380, 364, 400>>, t)}


MCCatchMaps == {m \in UpTo(UNION {Objects(Spacing * i) : i \in 1..CatchLen}, CatchLen) :
                  \A i \in DOMAIN m : m[i] \in Objects(Spacing * i)}

\* osu!mania: objects that begin Start apart, and Offset late.  All times are below
\* 2 ^ (Mantissa - 1), as those of the program are below 2 ^ 52.
Note(i, d) == [start |-> Offset + Start * (i - 1), duration |-> d]
MCManiaMaps == {[i \in DOMAIN ds |-> Note(i, ds[i])] : ds \in UpTo(Durations, ManiaLen)}

\* 1, 1.5 and 0.75, the rates of the mods; 35 / 32 stands for a custom rate.
CustomRates == {<<35, 32>>}
ModRates == {<<1, 1>>, <<3, 2>>, <<3, 4>>}

\* A first miss, and a score with more hits than any of the maps has.
Score(combo, good, misses) ==
  [g \in Builder!ScoreFields |-> CASE g = "max_combo" -> combo
                                   [] g = "misses" -> misses
                                   [] OTHER -> good]
MCScores == {Score(0, 0, 1), Score(5, 2, 0)}

\* The rates of the mods keep the ticks of the hold notes.
ASSUME TicksAssumption ==
  ClockRates = ModRates => \A m \in ManiaMaps, r \in ClockRates : Mania!KeepsTicks(m, r)
=============================================================================
