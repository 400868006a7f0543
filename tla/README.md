# A TLA+ model of akatsuki_pp

`akatsuki_pp` (`src/`) computes difficulty and performance points for the four
osu! modes. Most of its lines are formulas over floating point numbers, which
are not a model checker's business. What *is* stateful, and what is easy to get
wrong and hard to test, is the machinery around the formulas: iterators that
must process every object exactly once however they are called, counters that
two calculations must agree on, containers with a compact representation, and
builders that fill in and write back what the caller left open. This project
models that machinery. Where a formula matters at all, it is reduced to what it
consumes: two calculations have the same star rating if their skills processed
the same difficulty objects in the same order.

Paths below are relative to `src/src/`.

## Inventory

| part (source) | state | operations | what is hard about it |
|---|---|---|---|
| gradual difficulty, one per mode (`*/difficulty/gradual.rs`) | `idx`, counters, skills, difficulty objects | `new`, `next`, `nth`, `len` | skips mixed with single steps; the first object(s) have no difficulty object; running out half way; `usize` arithmetic; agreement with the one-shot calculation |
| one-shot difficulty (`*/difficulty/mod.rs`, `*/convert.rs`) | none across calls | `calculate` for `passed_objects` | the limit applies to different lists in each mode |
| catch conversion and counting (`catch/convert.rs`, `catch/attributes.rs`, `catch/object/juice_stream.rs`) | `ObjectCountBuilder` | `record_fruit`, `record_droplet`, `record_tiny_droplets` | two counting modes; counts in map order, objects in time order |
| `LimitedQueue` (`util/limited_queue.rs`) | ring buffer, `end`, `len` | `push`, index, double-ended iterator | wrap-around; slices consumed from both ends |
| `StrainsVec` (`util/strains_vec.rs`) | entries that are values or runs of zeros, `len` | `push`, sort, remove zeros, mutate, iterate | the compact form must not be observable |
| score builders (`*/performance/mod.rs`, `util/map_or_attrs.rs`) | settings, map or attributes | setters, `generate_state`, `calculate` | counts in any combination; generated values written back; cached attributes; `u32` differences |
| gradual performance (`*/performance/gradual.rs`, `any/performance/gradual.rs`) | a gradual difficulty | `next`, `nth`, `last` | a builder made anew for each step, for a limit of `idx` objects, must judge as one for a partial play does |
| any-mode builder (`any/performance/mod.rs`, `any/score_state.rs`) | the builder of one mode | the same calls, `state`, `try_mode` | names and settings that exist in some modes only; what a change of mode loses |
| mode dispatch (rest of `any/`, `model/mode.rs`) | settings | one call passed on | — |
| strain sections (`any/difficulty/skills.rs` and the skills of all modes) | section end, current peak, saved peaks, strains of single objects | `process` | breaks of several sections; whether the next section begins with strain left; lists of several skills that are combined by position |
| after the skills (`osu/difficulty/mod.rs`, `tap_bpm.rs`, `speed_precal.rs`, `osu/performance/rx_miss.rs`, `relax_marathon.rs`) | attributes of this fork (CC V3) | `difficulty`, `rx_miss_multiplier` | lists over the whole map next to lists over the passed objects; runs found by index; shares that are rounded one by one |
| sorting (`util/sort/` and its callers) | `TandemSorter`: indices with marks; slices sorted in place | `sort`, `csharp`, `osu_legacy` | reuse of a sorter for several lists; inner loops without bounds checks; a sort that leans on another one |
| taiko preprocessing (`taiko/difficulty/object.rs`, `taiko/difficulty/color/`) | lists of objects, streaks, patterns, groups, weak references between them | `create_difficulty_objects`, `process_and_assign` | drumrolls between notes; boundaries between groups; repetitions looked up backwards |
| mania conversion (`mania/convert/`) | last pattern, place, time and stair, density, random numbers | pattern generators | a search for a free column that may have none; patterns that look at the one before; which object set it |
| decoding (`model/beatmap/decode.rs`) | parser state, pending control points, curve points | one parser per section | order of lines, times that repeat, lines that fail half way |
| control points (`model/control_point/`, `model/beatmap/bpm.rs`) | sorted lists | lookups, `bpm` | redundant points are left out; points outside of the map |
| mods, attribute formulas, pp formulas, random numbers | — | pure functions | numeric only |

Nothing in the crate is concurrent, nothing is persisted and nothing is sent:
there are no interleavings, crashes or lost messages to model. The interleaving
that matters is that of a *caller*: which methods are called in which order with
which arguments. Every `Next` here is that caller.

The calculators and the builders meet in two ways. A builder calls the one-shot
calculation of its mode and keeps the attributes in place of the map; a gradual
performance calculator asks a gradual difficulty calculator for attributes and
hands them to a builder. Both rest on the counters of the attributes
(`max_combo`, `n_large_ticks`, ...), which is why the agreement between the two
calculations is the central property of this project.

## Modules

| module | models | checked by |
|---|---|---|
| `GradualContract` | what a gradual calculator promises in any mode (abstract) | property `KeepsContract` |
| `ObjectRuns` | `cmp::min`, `saturating_sub`, runs of object numbers | |
| `OsuDifficulty`, `OsuGradual`, `MCOsuGradual` | osu! one-shot and gradual difficulty | `OsuGradual`, `OsuGradualCcv3`, `AnyGradual` |
| `TaikoGradual` | taiko one-shot and gradual difficulty | `AnyGradual` |
| `CatchObjects`, `CatchGradual` | conversion to catch objects, gradual difficulty | `AnyGradual` |
| `ManiaGradual` | mania objects with floating point times, gradual difficulty | `AnyGradual`, `ManiaGradualRate` |
| `AnyGradual`, `MCAnyGradual` | `GradualDifficulty` and `GradualPerformance` over the calculators of all modes | `AnyGradual` |
| `SlidingWindow`, `LimitedQueue` | abstract window; ring buffer with iterator | `DataStructures` |
| `RawStrains`, `StrainsVec` | plain list (feature `raw_strains`); compact list | `DataStructures` |
| `CatchObjectCount` | `ObjectCountBuilder`, both modes side by side | `DataStructures` |
| `DataStructures` | one of those three at a time | `DataStructures` |
| `ScoreBuilder` | what the four performance builders share | `AnyPerformance` |
| `OsuScore`, `TaikoScore`, `CatchScore`, `ManiaScore` | `generate_state` of each mode's performance builder | `AnyPerformance`, `AnyGradual` |
| `AnyPerformance`, `MCAnyPerformance` | `Performance`: setters, `state`, `generate_state`, change of mode | `AnyPerformance`, `AnyPerformanceAccuracy` |
| `InPlaceSorts` | the sorts in place of `util/sort` | `BeatmapDecoding` |
| `ObjectSorting` | `TandemSorter`, and the places that sort hit objects, sliders turned into taiko hits included | `BeatmapDecoding` |
| `SliderPaths` | the points of a slider's path | `BeatmapDecoding` |
| `BeatmapDecoding`, `MCBeatmapDecoding` | from the lines of a file to a sorted beatmap; control points with their lookups and the bpm | `BeatmapDecoding` |
| `StrainSections` | how a skill cuts a map into sections | `AnySkills` |
| `TaikoSkills` | taiko difficulty objects, colour groups, the four skills | `AnySkills` |
| `StrainSkills` | the skills of osu!, catch and mania, and what `difficulty()` makes of the osu! ones: the tap bpm and speed multiplier of CC V3; where a Relax score's misses are placed | `AnySkills`, `SustainedChains`, `ChunkDeltas` |
| `AnySkills`, `MCAnySkills` | the skills of all modes | as above |
| `ColumnPatterns`, `PathObjectPatterns` | patterns of notes, and their generator for objects with a duration | `ManiaConvert` |
| `ManiaConvert`, `MCManiaConvert` | the conversion to mania, with the generator for single objects | `ManiaConvert` |
| `ObjectRunsProofs` | lemmas on runs, intervals, counted sets, sums, folds and flattened sequences | proof checker |
| `OsuGradualProofs` | theorems about `OsuGradual` | proof checker |
| `TaikoGradualProofs`, `CatchGradualProofs`, `ManiaGradualProofs` | what one call does to the other calculators; what the two ways of counting catch objects have in common | proof checker |
| `AnyGradualProofs` | theorems about `AnyGradual` | proof checker |
| `AnyPerformanceProofs` | theorems about `AnyPerformance` and the builders of the modes | proof checker |
| `DataStructuresProofs` | theorems about `DataStructures` | proof checker |

`AnyGradual`, `AnyPerformance`, `AnySkills` and `DataStructures` put components side by side
that are used one at a time, as the enums of the crate do: a variable picks one in `Init`, the
others' variables keep a fixed value, and variables of the same role are shared. In
`AnyGradual` and `AnyPerformance` this is the code's own dispatch; `DataStructures` is only
a way to check three small components together.

An operator called "Variant of X" in a module is a plausible mistake in X. It is
not used by the specification; `PROJECT.json` lists which property notices it.

### Gradual calculators

State: `map` and the settings of the constructor, `idx`, the counters (`attrs`,
`max_combo`, `note_state`), and for the skills the sequence of the difficulty
objects they have processed. `CallNext` is one call of `next`, `CallNth` one
call of `nth`: the loops inside `nth` are runs of objects (`From..To`), followed
by the `Serve` they share with `next`, as in the code. `call` and `answer` are
the argument and the result of the latest call. `n = MaxCall` is larger than any
map, so it also stands for the `usize::MAX` of `last`.

* osu!: the counters are records of the numbers `increment_combo` adds up. The
  attributes that `difficulty()` computes after the skills (CC V3) are a field
  `ccv3`, which a gradual answer leaves at its default.
* taiko: objects are their `is_hit` flags. `len` is a wrapping subtraction of
  modulus `USizeSpan`; whether the build has overflow checks (and `nth` panics
  instead) is the variable `checked`.
* catch: a map is a list of slider events per object. Converting it makes a list
  of `record_*` calls, in map order, and a list of palpable objects, in time
  order; the calculator uses `idx` in both.
* gradual performance: `PerformanceNth` asks the calculator of the mode, makes a builder from
  the answer, the caller's score, `lazer` and the limit `idx`, and lets it generate a state
  (`performance`). The builders are the modules of the next section. `next` is `n = 0` and
  `last` the largest `n`, as in the code.
* mania: times are floating point numbers of `Mantissa` bits, rounded to the
  nearest as IEEE 754 does, because a hold note's combo is computed from times
  that were divided by the clock rate and multiplied with it again.

### Score builders

State: `source` (the map, or attributes together with the `passed_objects` they
were calculated for), the settings `opts`, and `out`, what the latest
`generate_state` returned. `generate_state` is one action: it calculates the
attributes if need be, chooses a state from `States` and writes everything back.
The search for an accuracy is the set of the candidates the loops visit and the
choice of a closest one, the first tried among equals; accuracies are exact
fractions here, so where the program's rounding decides between two candidates
that are equally close the model allows both. `OsuScore` divides all points by
ten. The nine branches of the mania search, one for each combination of 200s, 100s
and 50s that are given, differ in coefficients that follow from the values of the
judgements; `CountsOf` derives them, and `CountsOf3x0` has the two limits that do
not follow.

`AnyPerformance` composes the four with `INSTANCE`: `mode` says whose builder it
holds, `FieldOf` what each setter sets in which mode, `ScoreField` how a
`ScoreState` names each count. A call that a mode ignores changes nothing, so it is
no step. `try_mode` turns an osu! builder into another one as the `TryFrom`
implementations do; where the program returns the builder unchanged there is no
step. `asked` is a history of what the caller asked for. `play` fixes one caller:
the map in the form each mode reduces it to, and the arguments of the setters.

Accuracies are between 0 and 1, as the setters clamp them. Counts near 2^32,
whose sum would overflow a `u32`, are not modelled; nor is `mods`, but for the one
mod that decides on slider heads (`classic`).

### Containers

`LimitedQueue` is modelled slot by slot (`queue`, `end`, `len`), its iterator as
the two slices it holds. `StrainsVec` is the list of entries with the `len` the
code keeps; an entry is a value or a number of zeros. The union and its sign bit
are abstracted to the tag; strains are natural numbers. The iterators borrow the
containers, so there is no push while one is open.

### Sorting and decoding

The sorts work on one slice, `keys`, indexed from 0. Calls of the quick sorts are a stack
of records with their local variables (`calls`), so that one round of a loop is one
action; an inner `while` that only moves an index is the first place where it stops, and
`panicked` if there is none in the slice. A usize that would go below zero is a panic
too, as in a build with overflow checks. `ObjectSorting` has `TandemSorter`, which keeps its `indices` with the marks in
the top bit; `cycle` holds the two loop variables. `ObjectSorting` strings the sorts together
as the callers do. `std`'s stable sort is its result. When an object is a slider
that turns into hits is given with the map (`spacing`), as it is decided by a formula.

`BeatmapDecoding` has one action per parser and reads one line per step. A line is a record
of the values that are read in it, with `valid` for anything else that makes the parser
give up; `rosu_map`, which splits the file into lines and calls the parsers, is external
(`ReadLine`, `Reading`), and so is its `has_flag`, whose any-of sense decides what kind of
object a line is: the kind is given with the line. `points` are the lists of control points,
`pending` the points of the latest time, `curve_points` the buffer of the path that is
converted. A path that cannot be converted to its end leaves in `curve_points` what was
converted (`BrokenPath`); every other error comes before the first assignment (`Rejected`).
`SliderPaths` has a path as a sequence of types and positions. Whether three points are on
a line is computed exactly, on small coordinates.

### Skills

`StrainSections` has the loop that every skill runs before it takes in an object: save the
peak, begin a section, until the section holds the object. A strain is positive or it is
not. Decay never makes a positive strain zero, with the exception the code has: the rhythm
skill of taiko decays with base 0, so that its strain only outlives objects at one time.
Whether an object's place adds strain is a formula, and either is possible (`moves`);
what the code decides by the kind, number and time of objects is not left open:
spinners, the first two objects, `available_fingers_for`, the colour groups. Factors that are
never zero are left out. The strains that are kept for each object and ranked later (speed)
are a few `Levels`.

`TaikoSkills` builds the lists of notes with their indices and `closest_rhythm`, in
sixtieths, and the three levels of groups as sequences of positions in the level
below, which is what the weak references lead to. The tap bpm and the speed multiplier
of CC V3 (in `StrainSkills`) are computed in whole milliseconds, with exact fractions for
bpm, median and variance, and `1 / delta_time` in units of `1 / Unit`. A Relax score is one on a map without sliders: the combo
is that of the objects that were passed, while the chunks are those of the whole map.

### Mania conversion

A generator is a record of what the struct of the code holds, and its methods return sets:
every outcome of its random numbers with a probability above zero, so that `random.rs` is
not needed. The notes remembered of the pattern before are its columns and their number
(`Remembered`). The number of columns a note lands in is computed exactly from its position,
where the code has `f32`; `column_to_pos` rounds up so that both agree. The timing and kiai
of a map do not change here, and the objects are the first ones of a longer map, because
`target_columns` and the conversion difficulty look at the whole of it.

## What the runs show

All bounds are in the `.cfg` files and the `MC` modules.

* **OsuGradual** Every map of up to three objects (circle, spinner, sliders with
  up to two large ticks), limits 0, 2 and none, any mix of `next` and
  `nth(0..4)`. Three objects are the first one, which is special, one to skip and
  one to answer for. `Prefix`: every skill has processed each difficulty object
  up to `idx` once and in order, the counters cover the same objects.
  `KeepsContract`: the k-th answer is the one-shot calculation of a play that
  passed k objects, and `nth` past the end is the last answer.
* **OsuGradualCcv3** (a violation) The module's own test asserts equality with the
  one-shot attributes; the CC V3 fields are not filled, so it fails.
* **AnyGradual** The same for all modes, behind `GradualDifficulty` and `GradualPerformance`:
  taiko maps of up to six objects, of which any may be a drumroll; catch maps of up to three
  objects from six shapes (with ticks, repeats, tiny droplets, a tick after the legacy last
  tick), 300 ms apart with sliders of 400 ms, so that objects overlap; mania maps of up to
  three notes at clock rates 1, 1.5 and 0.75, with a mantissa of 7 bits and times of at most
  6, as the program's milliseconds fit well in 53; osu! maps of up to two objects.
  `Fed` relates counters and skills to the objects up to `idx`, the four-way table of taiko's
  first two objects included; `CountsLineUp` keeps catch's `count[idx]` in range;
  `OnlyOddMapsPanic` bounds where taiko's `len` can underflow; `DrainedIsWhole` says that
  running out in the middle of `nth` leaves a complete state; `KeepsContract` and
  `LenForetells` are the contract, for taiko on maps with three objects that begin with
  two hits, as those of the tests do. `LenForetells`: `len` and `next` agree, also after
  the calculator has run out. `StepIsOneShot` says that each step of a gradual performance judges the caller's score as a new builder given the map, the score and
  `passed_objects(idx)` does; `Drains` that an iterating client comes to the end.
* **ManiaGradualRate** (a violation) With a clock rate that is no simple fraction a
  hold note loses a tick. In the program: rate 1.1, start 39 ms, duration 300 ms.
* **DataStructures** A ring of three slots and three values, all pushes, iterators from both
  ends (three slots let it wrap with a middle element); a list of strains after up to five
  pushes of 0, 1, 3 and 8 between any other operations (two runs of zeros and two values
  fit); any six `record_*` calls with limits 0, 1, 2 and none. `IsSlidingWindow` and
  `IsRawStrains` are refinements: the ring is a window over the pushes, and the compact list
  behaves like the plain one. `LenNeverShort` keeps the iterator's `len -= 1` from
  underflowing. `CountsAgree` relates the two modes of the catch counter.
* **AnyPerformance** Thirteen callers. Five set the counts of a short map in every
  combination and order, with numbers that are too small, right and too large for it:
  an osu! map turned into every mode; one with slider counts, for both origins of a
  score; taiko, catch and mania maps. The others ask for accuracies in twelfths on a map
  of up to six results, next to one known count: six results leave four 50s to trade for
  a 300 in the best case, and a mania search over four judgements.
  `HitsAddUp`, `ComboFits`, `ClosestAccuracy`, `BestIsBetter` and `Settled` say that a
  state is complete, possible, as close to the accuracy as it can be, ordered by
  priority and stable; `TypeOK` that no `u32` difference underflows; `AskedIsKept` that
  every setting arrives under its name in the mode the builder ends up in, and nowhere
  else.
  Two things they leave open. `ComboFits` claims nothing of attributes that were calculated before
  later settings: they are the caller's. And what slider counts mean depends on the origin of the
  score, which is not written back with them: after a change of origin they are cut to its limits,
  but generated ones are taken for counts of the caller, as `AccuracyUsed` shows for an accuracy.
* **AnyPerformanceAccuracy** (a violation) After one `generate_state` the counts count
  as given, and an accuracy that is set afterwards is ignored.

* **BeatmapDecoding** Every file of up to three lines of keys or timing points and of up to
  two lines of objects, from menus that hold times that are one and times that are not, lines
  that give a timing change or inherit, NaN, kiai, failing lines, and paths of each type, of
  one and several segments, with points that repeat and parts that are broken; a broken path
  with any two objects behind it; files with two or three timing points for the bpm, the first
  of which may lie before the map's begin and the later ones behind its end. `LookupsFollowLines`: looking up any time gives what
  the lines say, although redundant points were left out; three lines are enough for a
  point that is redundant only because of one that is pending. `BpmIsMostCommon`,
  `PathsAreWhole` and `ApproachRateFallsBack` relate what was decoded to the lines.
  `BpmIsMostCommon` counts the instants that look a beat length up, on to the first point
  behind the last object, up to which the code lets the point before it last; maps with a later
  point before 0 are left out, as the first point then lasts a negative time. `PathsAreWhole`
  includes what a broken line leaves behind: the points go in front of those of the next slider,
  which are whole all the same, and to no slider after it; this takes three lines.
  Besides, the sorts: lists in every order, up to four objects for `TandemSorter`, up to
  three with overlapping sliders for the conversion to taiko, up to six for the sorts in
  place. `InTimeOrder` and `SoundsFollow` relate the list at the end to the one at the
  beginning; `NeverPanics` is about every index on the way. The limits for small parts
  (16) and for the depth (32) are constants, 4 and 2 here, so that six objects reach
  partitions, insertion sort and heap sort. Six objects are also the least at which
  `osu_legacy` alone fails to sort: its pivot is `keys[mid]`, which a swap may replace.
  Both callers sort the list before, and the mutant that drops this shows that they have to.
* **AnySkills** Taiko: evenly spaced maps of up to ten objects of every mix of types, long
  enough for a pattern to repeat and for a group to repeat (`MAX_REPETITION_INTERVAL` is 3
  instead of 16), and shorter ones with gaps of none, less than a section, half a section and
  more than two. `ColourChangesSurround` and `GroupsNest` state what the groups are for in
  terms of the objects alone. osu!, catch and mania: maps of up to four objects with
  spinners and breaks, and osu! maps of five with taps at 333 bpm, slower ones and breaks.
  `PeaksAreTheirSections`: all skills save one peak per section, so that they may be zipped by
  position, and none is positive without a cause. `SpeedReworkIsEarned`: the tap bpm is that
  of the hardest tenth of the passed objects and the stamina bonus takes a run within the
  range. `EveryMissIsPlaced`: however shares are rounded, the misses add up. The lengths the
  code has for long maps are constants: a chain of 3 (150), a minute of 2 sections (150),
  chunks of 2 notes (4), one object in 2 is hard (10); 50 ms of deviation is the real value.
* **SustainedChains** (a violation) The slice of a chain begins with the object whose gap broke
  the one before. After a break the deviation is that of the break, and the chain is not found.
* **ChunkDeltas** (a violation) `rx_chunk_avg_delta` is declared, documented and read, but set
  nowhere.
* **ManiaConvert** Maps of one to nine columns, at each conversion difficulty that is on
  another side of a limit; the first one to three objects, circles, sliders and spinners, at
  intervals and of lengths on both sides of every limit, with the sounds that matter.
  `NeverPanics`: a generator never asks for a free column where none is left, which would be
  an endless search but for an assertion. `NotesApart`: the notes of one object never share a column
  at one time. `FastNotesDoNotStack` and `NothingVanishes` relate a pattern to the one before.
  The first is about the notes that were really made of the circle or slider before, so that it
  fails if an older pattern is remembered, or of a slider another than the one it ends with;
  the notes of spinners and holds are not remembered, and nothing is claimed behind them. The
  second needs, besides, that no pattern is ever remembered that is in the special column of
  7K + 1 only, since the copy of such a one would be empty.
  With three columns or more, two objects are enough: a pattern depends on one before it.

Deadlock is checked where a caller can go on calling. It is not in `DataStructures`, where
bounds end the pushes, nor in `BeatmapDecoding`, `AnySkills`, `SustainedChains`,
`ChunkDeltas` and `ManiaConvert`, which end with the file or the map.

### Fairness

The iterators' fairness is `WF_vars(DifficultyNext)`: the caller keeps asking, as a `for` loop
does. It is a statement about the caller, not about the code, and it is used by the
`Drains` property only. There is none for `GradualPerformance`, which is no iterator: nothing
makes its caller go on. `BeatmapDecoding` has
`WF_vars(Next)`: decoding is one call on one thread, which goes on until it returns;
`Terminates` needs it.

### Divergences seen on the way

Apart from the five violations above, the code differs from its text in ways no run
records: `len` of a gradual calculator is 1 on a map without objects; a taiko
calculator gives answers for the first two objects even if they are no hits, unlike
`passed_objects`; in catch the deltas of overlapping objects belong, in map order, to
other objects than the palpable ones at the same index (the sums still agree, which
is what `Prefix` checks); `StrainsVec::len` keeps counting zeros that were removed; a
state generated for osu!stable leaves zero slider ends behind for a later osu!lazer
state; attributes are not calculated again when `passed_objects` changes. `calculate()` builds its
inner calculator with `combo_consistency_v3_p: None` (`osu/performance/mod.rs:743`), so that
its setter has no effect. In `rx_miss_multiplier` the pair of chunks of the first miss and the
chunk the others begin with are two different divisions of the map when the number of chunks
is odd. `difficulty_value_from_peaks` of `relax_marathon.rs` does not reduce peaks on the
logarithmic scale `OsuStrainSkill` has. A line whose path breaks off leaves its points to the
next slider's path.

## What is proved

The `*Proofs` modules hold theorems about four specifications, for every value of the constants:
maps of any length, any number of skipped objects, rings of any size, counts of any size. Every
property that the runs `OsuGradual`, `AnyGradual`, `DataStructures` and `AnyPerformance` check is
proved, but for the liveness of `Drains`.

### The gradual calculators

`OsuGradualProofs` (one mode) and `AnyGradualProofs` (all four, behind the two enums) prove:

* `TypeCorrect`, `PrefixCorrect`, `ContractKept` of `OsuGradual`: `idx` stays within the number of
  answers, every skill has processed each difficulty object up to `idx` once and in order, and the
  calculator implements `GradualContract`.
* `FedAlways`, `CountsLineUpAlways`, `OnlyOddMapsPanicAlways`, `DrainedIsWholeAlways`,
  `StepIsOneShotAlways`: the invariants of the run `AnyGradual`.
* `ContractKept`: the calculator of any mode implements `GradualContract`. For mania there is the
  hypothesis `TicksKept`: no hold note of the map loses a tick when its times are divided by the
  clock rate and multiplied with it again. It is needed: `ManiaGradualRate` shows what a custom rate
  does. `TicksAssumption` of `MCAnyGradual` has TLC evaluate that the rates of the mods keep the
  ticks of all maps of the run. For taiko, `KeepsContract` itself is about maps that begin with two
  hits.
* `LenForetold`: `len()` tells whether the coming `next()` yields an answer. It leaves out maps
  without objects and, as `KeepsContract`, taiko maps other than those of at least three objects
  that begin with two hits; `OnlyOddMapsPanicAlways` says on which of them `len()` may underflow.

The argument is the same in each mode. The core of the inductive invariant is a predicate on *any*
position, counters and processed objects (`Fed` of osu!, `Passed` of the others), because `nth` works
on intermediate values: skipping takes such a state to such a state (the run of processed objects is
extended by `From..To`, and counting is additive over disjoint sets of objects), and `Serve` does
so for the one object it answers for. What such a calculator answers at `idx` is then what
`Calculate` gives for `idx` passed objects. The parts that differ:

* osu!: the counters are cardinalities of sets of objects, of nested ticks a set of pairs.
* taiko: `Passed` relates three positions (`idx`, the combo and `iter`), as objects that are no hits
  count for none of them. The table of the first two objects is proved to give the hits among
  them (`ComboTable`), and the subtraction in `len` is characterised (`LenIs`): it underflows only on
  maps whose first two objects are not both hits.
* catch: the deltas of `count` are made in map order by one fold over the `record_*` calls
  and indexed with positions in the list of palpable objects. `ConversionIs` shows that a slider
  that ends in its tail leaves no tiny droplets pending, so that there are as many deltas as palpable
  objects; `CountsOfPrefix` that the regular count of a map up to `take` is the sum of the first
  `take` deltas. The doubling that finds the parts of a gap is shown to end (`DoublingExists`).
* mania: counting is a sum over objects, and the first object counts from the start.

`IInv` of `AnyGradualProofs` is `Calculator /\ Answered /\ Judged`: the invariant of the calculator
in use, together with the answers that were promised for its map; the latest answer counts what was
promised for `idx`; the latest performance was generated from the latest answer.
`StepIsOneShot` follows from the last two. `Obeys`, what one call does to a calculator that keeps the contract, is
proved mode by mode (`OsuCall`, ..., `ManiaCall`), and `ContractKept` and `LenForetold` both follow from it.
The lemmas `Same*` say that a calculator's definitions are the same whether they are reached through
`AnyGradual` or through the proof module that is instantiated.

### The containers

`DataStructuresProofs` proves, by `Inv`, which is `QueueInv`, `VecInv` or `CountsInv`
depending on the structure in use:

* `RingHoldsWindow`, `QueueImplementsWindow`: `LimitedQueue` is a sliding window. `QueueInv` says where
  in the ring the i-th element of the window is, with a case for a ring that has not wrapped
  yet (then `end` is `len - 1`). `as_slices` then gives the window in two parts, and the iterator that
  consumes them from both ends is the iterator over the window.
* `VecStaysCompact`, `VecImplementsRawStrains`: `StrainsVec` is the plain list. `VecInv` says that two
  runs of zeros are never neighbours, that the `len` that is kept is never less than the
  length of the expanded list (it may be more: `len` keeps counting zeros that were removed), and, while an
  iterator is open, that what it has left is what the iterator over the plain list has left.
  Expanding entries is shown to commute with pushing, removing zeros, sorting in descending order and
  changing a prefix.
* `BuildersCountAlike`: the two modes of `ObjectCountBuilder` agree. `CountsInv` has both as functions
  of the calls so far, for which `CountsOfPrefix` then gives the result.

### The score builders

`AnyPerformanceProofs` proves, for builders of all modes, any map or attributes, and any mix of
setters, `state`, `generate_state` and changes of mode:

* `AskedAlwaysKept`: until a first state is generated, each setting is what the caller last asked for,
  also after a change of mode.
* `CountsAlwaysFit`: no count of a generated state is negative, and the state is what was written
  back.
* `ComboAlwaysFits`: a generated combo is one that the hits of the state can have made, if the attributes
  are those of the objects that were passed.
* `HitsAlwaysAddUp`: a generated state judges every object of the play, and none twice unless more was
  given than there is.
* `AlwaysSettled`: generating again changes nothing.
* `BestAlwaysBetter`: for each state that may be generated for the best case there is one for the worst
  case, from the same settings, that is no better.
* `AccuracyAlwaysClosest`: no counts that respect what is given come closer to the accuracy than the
  state that is generated for it.

The first five are not inductive: `Settled` is about the *next* state, and rests on what was done to the
settings before; a setting arrives in another mode only if the one before had it. `IInv` adds three
things. `SourceFits`: attributes are those that the map of the play has in the builder's mode, for
some number of objects. `OutIsWritten`: once there is a state, the counts in the settings are its counts
and *no other state can be generated from these settings*. `IgnoredIsForgotten`: an osu! builder
that still has its map remembers nothing of a call that it ignored, which another mode would have
understood.

The core is one lemma per mode, used by all theorems. `OsuStates`, `TaikoStates`, `CatchStates` and
`ManiaStates` say of *every* state that may be generated from well-typed settings and attributes
that its counts are naturals within the play, how many results it judges, and what limits its combo. They go
through the search: each count tried is between none and what is left (`OsuAround`, `ManiaNeeded`,
`ManiaTop`), each combination judges everything or just what was given (`OsuCandidates`, `ManiaTried`), and
the trades of the priority keep the number of results (`OsuShift`, `ManiaShift`). So far
nothing is needed of the arithmetic but that quotients of naturals are naturals. From these follow `OsuAgain`, ..., `ManiaAgain`: settings in
which all counts are known and add up generate one state, themselves, whatever the
accuracy and priority. `Again` puts the modes together, and `OutIsWritten` is
inductive by it. `OsuAttrs`, `TaikoAttrs`, `CatchAttrs` and `ManiaAttrs` relate the attributes
to the map; in osu! each of the passed objects is of exactly one kind, and that makes the bound
of the combo.

`AskedIsKept` needs that no two setters set the same field (`SetterField`) and that a
conversion moves each field to the one its setter sets in the other mode (`ConvertedFits`). Both go
through `Table`, which lists per mode what `FieldOf` has per setter.

The last two theorems are about the searches themselves, and their arguments are about numbers.

`BestAlwaysBetter`: the two searches try the same combinations, and the closest of these are the same, as
the priority is not looked at before one of them is chosen (`OsuSearchIsSame`, `ManiaSearchIsSame`). What is
left is what the priority does to one combination (osu! trades 300s and 50s for 100s or back, mania
tells 320s from 300s and trades 200s for 320s and 100s; `OsuShiftByCase`, `ManiaFoundIsBetter`), and
where the rest of the results goes if no accuracy is searched for (`OsuRestIsBetter`, `ManiaRestIsBetter`).

`AccuracyAlwaysClosest` has to show that the limits of the searches, which keep them short, leave out
nothing. Each limit is the number of results of one kind at which the accuracy would be met exactly if
all others were of one other kind, rounded down or up. With one open count that is all there is to it:
whatever number is tried, the quotient rounded towards it is on the same side of the accuracy and no
farther from it (`Nearest`, `NearestOfAll`; taiko, catch). With more, the limits are met by an exchange:
below the lower limit the accuracy is not reached even if all others are of the best other kind, so
that this extreme at the limit is closer, and above the upper limit it is exceeded even if all others are of
the worst kind (`NearestPair` for osu!, `NearestOfThree` for any three kinds). If 200s, 100s and 50s
are all open, mania takes an upper limit for the 320s and 300s at which the others would be 100s,
not 50s, so that the extreme is not there; `NearestOfFour` shows that it is not missed, since exchanging 50s
for 100s changes the sum by single points and so meets whatever the larger number of 320s would.
`ManiaLimits` shows that the limits of all the cases the code distinguishes for the 320s and 300s are such
limits, `ManiaTopIsCloser` that one of the numbers tried is as good as that of a given split,
`ManiaTwoLeft` and `ManiaThreeLeft` do the same for the kinds that are tried below it, and `ManiaTriesCloser` puts
them together. `OsuShiftKeepsPoints`, `ToldApartKeepsPoints` and `ShiftKeepsPoints` carry it over to the
state: what is done to a combination after the search changes no points.

### Assumptions and methods

The theorems rest on the assumptions the modules name (`MapsAssumption`, `PassedAssumption`,
`MaxCallAssumption`, `NoneAssumption`, `MaxTicksAssumption`, `SpanAssumption`, `TickAssumption`,
`FloatAssumption`, `LateTicksAssumption`, `NAssumption`, `PlaysAssumption`, `BoundAssumption` and those of
`DataStructures`), which TLC evaluates in the runs. Those that are more
than types: a slider that is not empty ends in its tail (`MapsAssumption`, as
`rosu_map` makes them), 2^64 is larger than any map (`SpanAssumption`), and rounded times give
numbers of ticks (`LateTicksAssumption`, which says nothing of their value). `PlaysAssumption` types what
the builders are called with, as the setters' signatures do: counts are `u32`, so that they are not negative.

Folds, sums and other functions that are defined by recursion take an induction over data. The
library's induction theorems have a predicate as parameter, which the provers cannot
instantiate; `NatInd`, `SequenceInduction` and `SizeInduction` of `ObjectRunsProofs` are about
membership in a set instead, and are derived from the well-foundedness of the natural numbers.
Each such function is first shown to exist and to be unique (`SumsExist`, `SumsSame`), as nothing
says that a recursive definition has a solution.

### Only model-checked

* `Drains` and `Terminates`: liveness under fairness is out of the prover's reach.
* Sorting and decoding (`BeatmapDecoding`), the skills (`AnySkills`) and the conversion to
  mania (`ManiaConvert`). Nothing in principle stands against a proof of their invariants, except
  where they are stated with operators the provers do not know (`SortSeq`, `^`).
* That the rates of the mods keep the ticks (`TicksAssumption`), as it depends on the rounding of each
  number.
* The violations: they are counterexamples.

## Not modelled

* The formulas: strain values, star ratings, pp, `BeatmapAttributesBuilder`, special functions,
  the 2019 calculator, the multipliers of Autopilot and Relax (of `ap_miss.rs` all of it). They are pure floating point
  functions without state, and there is nothing to compare them with.
* `calculate()` of the performance builders beyond `generate_state`: a chain of such formulas.
* Stacking and cursor positions of osu! objects, x offsets and hyperdashes of catch objects:
  positions that only formulas read.
* Mods: predicates, of which the model takes the one that matters (`classic`) as a setting.
* `random.rs`: the conversion to mania takes any number it could give.
* Cloning, formatting, lifetimes and the two builds of the shared references (`util/sync.rs`):
  no effect on behaviour.

## Plan

What is left is to prove more, in this order:

1. Invariants of the decoder whose argument is about one step: `ApproachRateFallsBack`.
2. Lemmas about the places of misses (`MissesHere` never exceeds what is left), about
   the number of sections (`Advanced` saves as many peaks as sections end) and about columns
   (`ColumnAt` inverts `column_to_pos` for each number of columns).
3. `TandemSorter`: that following the cycles applies the permutation.
