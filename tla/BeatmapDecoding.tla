--------------------------- MODULE BeatmapDecoding ---------------------------
(***************************************************************************)
(* BeatmapState, from the lines of a .osu file to a Beatmap.  The library  *)
(* rosu_map reads the file, hands each line to the parser of its section   *)
(* and goes on with the next line if that fails.  At the end the objects   *)
(* and their sounds are sorted, as ObjectSorting does it.                  *)
(*                                                                         *)
(* A line is a record of what is read in it; `valid` is FALSE if anything  *)
(* else in it keeps it from being parsed.                                  *)
(***************************************************************************)
EXTENDS ObjectSorting

CONSTANTS Texts,    \* the files considered, sequences of lines
          Epsilon,  \* two times that are closer are one
          None,
          NaN,      \* a beat length that is no number
          Bad       \* a value that cannot be parsed

VARIABLES text,
          line,        \* how many lines were read
          settings,    \* the values that are given by key
          has_approach_rate,
          breaks,
          points,      \* the control points, by type
          pending,     \* those of the latest time, not added yet
          pending_control_points_time,
          curve_points,
          hit_objects, hit_sounds

pointVars == <<points, pending, pending_control_points_time>>
objectVars == <<curve_points, hit_objects, hit_sounds>>
settingVars == <<settings, has_approach_rate, breaks>>
decodingVars == <<text, line, settingVars, pointVars, objectVars>>
vars == <<sortingVars, decodingVars>>

Path == INSTANCE SliderPaths

-----------------------------------------------------------------------------
(* Control points: three lists sorted by time, the points they are made of,  *)
(* how they are looked up by time, and the bpm.  Velocities and multipliers  *)
(* are percentages here; 100 is 1.0 there.                                   *)

Clamp(x, lo, hi) == IF x < lo THEN lo ELSE IF x > hi THEN hi ELSE x

TimingPoint(time, beat_len) == [time |-> time, beat_len |-> Clamp(beat_len, 6, 60000)]

\* A negative beat length is a slider velocity, NaN one without ticks.
Inherited(beat_len) == beat_len # NaN /\ beat_len < 0
SpeedMultiplier(beat_len) == IF Inherited(beat_len) THEN 10000 \div (-beat_len) ELSE 100

DifficultyPoint(time, beat_len) ==
  [time            |-> time,
   slider_velocity |-> Clamp(SpeedMultiplier(beat_len), 10, 1000),
   bpm_multiplier  |-> IF Inherited(beat_len) THEN Clamp(-beat_len, 10, 10000) ELSE 100,
   generate_ticks  |-> beat_len # NaN]

EffectPoint(time, kiai) == [time |-> time, kiai |-> kiai]

\* Default
DefaultDifficulty == DifficultyPoint(0, 100)
DefaultEffect == EffectPoint(0, FALSE)

-----------------------------------------------------------------------------
(* Lists sorted by time: binary_search_by *)

UpTo(list, time) == {i \in DOMAIN list : list[i].time <= time}

\* A point of the same time is replaced, else the point is inserted at its place.
Added(list, p) ==
  IF \E i \in DOMAIN list : list[i].time = p.time
  THEN [i \in DOMAIN list |-> IF list[i].time = p.time THEN p ELSE list[i]]
  ELSE InsertAt(list, Cardinality(UpTo(list, p.time)) + 1, p)

\* difficulty_point_at and effect_point_at, with what their callers do without a point
PointAt(list, time, default) ==
  IF UpTo(list, time) = {} THEN default ELSE list[Max(UpTo(list, time))]

\* timing_point_at: before the first point the first one
TimingPointAt(list, time) == PointAt(list, time, Head(list))

\* is_redundant
RedundantDifficulty(p, existing) == /\ p.generate_ticks = existing.generate_ticks
                                    /\ p.slider_velocity = existing.slider_velocity
RedundantEffect(p, existing) == p.kiai = existing.kiai

-----------------------------------------------------------------------------
(* bpm, by the beat length that is in force for the longest time *)

\* Variant of From that lets the first point begin at its own time.
FromOwn(list, i) == list[i].time

\* The first point begins at 0, as it does in osu!stable.
From(list, i) == IF i = 1 THEN 0 ELSE list[i].time
Until(list, i, last) == IF i = Len(list) THEN last ELSE list[i + 1].time

Duration(list, last, beat_len) ==
  LET DurationOf(i) == Until(list, i, last) - From(list, i)
  IN MapThenSumSet(DurationOf, {i \in DOMAIN list : /\ list[i].beat_len = beat_len
                                                      /\ From(list, i) <= last})

\* Of several that last as long the order of a HashMap picks one.
MostCommonBeatLens(list, last) ==
  LET D(b) == Duration(list, last, b)
      lens == {list[i].beat_len : i \in DOMAIN list}
  IN {b \in lens : \A c \in lens : D(b) >= D(c)}

-----------------------------------------------------------------------------
(* The state that is read into *)

PointTypes == {"timing", "difficulty", "effect"}
NoPoints == [t \in PointTypes |-> None]

\* Modes are the numbers the file has for them.
Mania == 3

Defaults == [Mode |-> 0, StackLeniency |-> 7, Creator |-> "", BeatmapID |-> 0,
             HPDrainRate |-> 5, CircleSize |-> 5, OverallDifficulty |-> 5,
             ApproachRate |-> 5, SliderMultiplier |-> 14, SliderTickRate |-> 1]

Current == text[line + 1]
Reading(section) == phase = "lines" /\ line < Len(text) /\ Current.section = section

-----------------------------------------------------------------------------
(* parse_general, parse_metadata, parse_difficulty and parse_events *)

\* Variant of parse_key_value that takes the overall difficulty whenever it comes.
parse_key_value_always ==
  /\ Reading("KeyValue") /\ Current.value # Bad
  /\ settings' = IF Current.key = "OverallDifficulty"
                 THEN [settings EXCEPT !.OverallDifficulty = Current.value,
                                       !.ApproachRate = Current.value]
                 ELSE [settings EXCEPT ![Current.key] = Current.value]
  /\ has_approach_rate' = (has_approach_rate \/ Current.key = "ApproachRate")
  /\ UNCHANGED <<breaks, pointVars, objectVars>>

\* The approach rate is the overall difficulty until it is given.
parse_key_value ==
  /\ Reading("KeyValue") /\ Current.value # Bad
  /\ settings' = IF Current.key = "OverallDifficulty" /\ ~has_approach_rate
                 THEN [settings EXCEPT !.OverallDifficulty = Current.value,
                                       !.ApproachRate = Current.value]
                 ELSE [settings EXCEPT ![Current.key] = Current.value]
  /\ has_approach_rate' = (has_approach_rate \/ Current.key = "ApproachRate")
  /\ UNCHANGED <<breaks, pointVars, objectVars>>

parse_events ==
  /\ Reading("Events") /\ Current.valid
  /\ breaks' = Append(breaks, [start_time |-> Current.start,
                               end_time |-> Max({Current.start, Current.end})])
  /\ UNCHANGED <<settings, has_approach_rate, pointVars, objectVars>>

-----------------------------------------------------------------------------
(* parse_timing_points *)

NotEq(a, b) == a - b >= Epsilon \/ b - a >= Epsilon

\* add_control_point: not for a point that says what is said already.
WithTiming(list, p) == IF p = None THEN list ELSE Added(list, p)
WithDifficulty(list, p) ==
  IF p = None \/ RedundantDifficulty(p, PointAt(list, p.time, DefaultDifficulty))
  THEN list ELSE Added(list, p)
WithEffect(list, p) ==
  IF p = None \/ RedundantEffect(p, PointAt(list, p.time, DefaultEffect))
  THEN list ELSE Added(list, p)

\* flush_pending_points
Flushed == [timing     |-> WithTiming(points.timing, pending.timing),
            difficulty |-> WithDifficulty(points.difficulty, pending.difficulty),
            effect     |-> WithEffect(points.effect, pending.effect)]

\* The points a line gives.
Given(l) == [timing     |-> IF l.change THEN TimingPoint(l.time, l.beat_len) ELSE None,
             difficulty |-> DifficultyPoint(l.time, l.beat_len),
             effect     |-> EffectPoint(l.time, l.kiai)]

\* Variant of Pushed in which the later line of a time always counts.
PushedLatest(held, l) == [t \in PointTypes |-> IF Given(l)[t] = None THEN held[t] ELSE Given(l)[t]]

\* push_front for a timing change, which comes behind what is pending, and push_back
Pushed(held, l) ==
  [t \in PointTypes |->
     IF Given(l)[t] = None \/ (l.change /\ held[t] # None) THEN held[t] ELSE Given(l)[t]]

ValidTiming(l) == l.valid /\ ~(l.change /\ l.beat_len = NaN)

\* add_pending_point for each of them: those of another time are flushed first.
parse_timing_points ==
  /\ Reading("TimingPoints") /\ ValidTiming(Current)
  /\ IF NotEq(Current.time, pending_control_points_time)
     THEN points' = Flushed /\ pending' = Pushed(NoPoints, Current)
     ELSE points' = points /\ pending' = Pushed(pending, Current)
  /\ pending_control_points_time' = Current.time
  /\ UNCHANGED <<settingVars, objectVars>>

-----------------------------------------------------------------------------
(* parse_hit_objects *)

\* A sample file in place of the normal sound.
SoundOf(l) == IF l.custom THEN l.sound \ {"Normal"} ELSE l.sound

SliderOf(l, control_points) ==
  LET repeats == Max({0, l.repeats - 1})
  IN [kind |-> "Slider", repeats |-> repeats, control_points |-> control_points,
      node_sounds |-> [k \in 1..(repeats + 2) |->
                         IF k <= Len(l.nodes) THEN l.nodes[k] ELSE SoundOf(l)]]

\* The kind of object a line gives; sliders take all that is in curve_points.
KindOf(l) ==
  CASE l.kind = "Circle"              -> [kind |-> "Circle"]
    [] l.kind = "Slider"              -> SliderOf(l, curve_points \o Path!CurvePoints(l.parts))
    [] l.kind \in {"Spinner", "Hold"} -> [kind |-> l.kind,
                                          duration |-> Max({0, l.end - l.time})]

BreaksOff(l) == l.kind = "Slider" /\ Path!PathError(l.parts)

parse_hit_objects ==
  /\ Reading("HitObjects") /\ Current.valid /\ ~BreaksOff(Current)
  /\ hit_objects' = Append(hit_objects, [time |-> Current.time, of |-> line + 1]
                                          @@ KindOf(Current))
  /\ hit_sounds' = Append(hit_sounds, SoundOf(Current))
  /\ curve_points' = IF Current.kind = "Slider" THEN << >> ELSE curve_points
  /\ UNCHANGED <<settingVars, pointVars>>

\* The path cannot be converted to its end: what was converted stays in curve_points.
BrokenPath == /\ Reading("HitObjects") /\ Current.valid /\ BreaksOff(Current)
              /\ curve_points' = curve_points \o Path!CurvePoints(Current.parts)
              /\ UNCHANGED <<settingVars, pointVars, hit_objects, hit_sounds>>

-----------------------------------------------------------------------------
(* The whole of it *)

\* A parser returns an error before it changes anything.
Rejected == /\ \/ Reading("KeyValue") /\ Current.value = Bad
               \/ Reading("TimingPoints") /\ ~ValidTiming(Current)
               \/ (Reading("Events") \/ Reading("HitObjects")) /\ ~Current.valid
            /\ UNCHANGED <<settingVars, pointVars, objectVars>>

ReadLine == /\ \/ parse_key_value \/ parse_events \/ parse_timing_points
               \/ parse_hit_objects \/ BrokenPath \/ Rejected
            /\ line' = line + 1
            /\ UNCHANGED <<text, sortingVars>>

\* From<BeatmapState>, up to the sorting.
IntoBeatmap == /\ phase = "lines" /\ line = Len(text)
               /\ points' = Flushed /\ pending' = NoPoints
               /\ phase' = "begin"
               /\ job' = IF settings.Mode = Mania THEN "decode mania" ELSE "decode"
               /\ file' = [n \in DOMAIN hit_objects |->
                             [time |-> hit_objects[n].time, spacing |-> 0, duration |-> 0,
                              nodes |-> 0]]
               /\ objects' = ObjectsOf(file') /\ sounds' = SoundsIn(file')
               /\ UNCHANGED <<text, line, settingVars, pending_control_points_time, objectVars,
                              idx, sortVars, sorterVars>>

\* create
Create == /\ line = 0
          /\ settings = Defaults /\ has_approach_rate = FALSE /\ breaks = << >>
          /\ points = [t \in PointTypes |-> << >>] /\ pending = NoPoints
          /\ pending_control_points_time = 0
          /\ curve_points = << >> /\ hit_objects = << >> /\ hit_sounds = << >>

Init == /\ Create /\ NoSort
        /\ \/ /\ text \in Texts
              /\ job = "read" /\ file = << >> /\ phase = "lines"
              /\ objects = << >> /\ sounds = << >> /\ idx = 0
           \/ text = << >> /\ SortingInit

Next == \/ ReadLine
        \/ IntoBeatmap
        \/ SortingNext /\ UNCHANGED decodingVars

Spec == Init /\ [][Next]_vars /\ WF_vars(Next)

-----------------------------------------------------------------------------
(* Properties *)

Decoded == phase # "lines"

\* The lines of the file that give control points, and those of one time, together.
TimingLines == LET Gives(l) == l.section = "TimingPoints" /\ ValidTiming(l)
               IN SelectSeq(text, Gives)
Together(i, j) ==
  \A k \in (Min({i, j}) + 1)..Max({i, j}) : ~NotEq(TimingLines[k].time, TimingLines[k - 1].time)
Ordered == \A i, j \in DOMAIN TimingLines : i < j => TimingLines[i].time <= TimingLines[j].time

\* Of the lines of one time the last one counts that is no timing change, or else the first;
\* of the beat lengths the first.
Winners == {i \in DOMAIN TimingLines :
              LET same == {j \in DOMAIN TimingLines : Together(i, j)}
                  inherited == {j \in same : ~TimingLines[j].change}
              IN i = IF inherited # {} THEN Max(inherited) ELSE Min(same)}
TimingWinners == {i \in DOMAIN TimingLines :
                    /\ TimingLines[i].change
                    /\ \A j \in DOMAIN TimingLines :
                         Together(i, j) /\ TimingLines[j].change => j >= i}

Latest(S, time) == LET before == {i \in S : TimingLines[i].time <= time}
                   IN IF before = {} THEN None ELSE TimingLines[Max(before)]

\* In a file whose control points are in the order of time, looking up a time in the lists,
\* from which redundant points were left out, gives what the latest lines up to that time
\* say.
LookupsFollowLines ==
  Decoded /\ Ordered => \A time \in {l.time + d : l \in ToSet(TimingLines), d \in {-1, 0, 1}} :
    LET l == Latest(Winners, time)
        t == Latest(TimingWinners, time)
        d == PointAt(points.difficulty, time, DefaultDifficulty)
        e == PointAt(points.effect, time, DefaultEffect)
    IN /\ RedundantDifficulty(d, IF l = None THEN DefaultDifficulty
                                    ELSE DifficultyPoint(l.time, l.beat_len))
       /\ e.kiai = (l # None /\ l.kiai)
       /\ TimingWinners # {} =>
            TimingPointAt(points.timing, time) =
              LET first == TimingLines[Min(TimingWinners)]
                  found == IF t = None THEN first ELSE t
              IN TimingPoint(found.time, found.beat_len)

\* bpm() is that of the beat length which most of the instants of the map look up, wherever
\* the first timing point is, if no other lies before the map's begin.  The map lasts until
\* its last object, and on to the first point behind that.
LastTime == IF hit_objects = << >> THEN Last(points.timing).time
            ELSE LET o == hit_objects[Last(objects).of]
                 IN o.time + (IF "duration" \in DOMAIN o THEN o.duration ELSE 0)
Horizon == LET behind == {i \in 2..Len(points.timing) : points.timing[i].time > LastTime}
           IN IF behind = {} THEN LastTime ELSE points.timing[Min(behind)].time
BpmIsMostCommon ==
  phase = "done" /\ points.timing # << >> /\ (\A p \in ToSet(Tail(points.timing)) : p.time >= 0) =>
    LET Instants(b) == {t \in 0..(Horizon - 1) : TimingPointAt(points.timing, t).beat_len = b}
    IN \A b \in MostCommonBeatLens(points.timing, LastTime) :
         \A p \in ToSet(points.timing) :
           Cardinality(Instants(b)) >= Cardinality(Instants(p.beat_len))

\* The control points of a slider are the positions of its own line, whatever its segments,
\* repeated points and types are, with no point twice but for a letter on its own.  If a
\* line since the slider before broke off in the middle of its path, the points that were
\* left over come before them, and to that slider only.
Collapsed(s) == LET Kept(i) == i = 1 \/ s[i] # s[i - 1]
                    kept == SelectSeq([i \in DOMAIN s |-> i], Kept)
                IN [k \in DOMAIN kept |-> s[kept[k]]]
Positions(parts) == LET IsPos(p) == p.is = "pos"
                        kept == SelectSeq(parts, IsPos)
                    IN [k \in DOMAIN kept |-> kept[k].pos]
LoneLetters(parts) == {i \in 2..(Len(parts) - 1) : parts[i].is = "type" /\ parts[i + 1].is = "type"}
AfterBreak(n) ==
  \E i \in 1..(n - 1) :
    /\ text[i].section = "HitObjects" /\ text[i].valid /\ BreaksOff(text[i])
    /\ \A o \in ToSet(hit_objects) : o.kind = "Slider" => ~(i < o.of /\ o.of < n)
IsOwnPath(found, parts) ==
  /\ Collapsed([k \in DOMAIN found |-> found[k].pos]) = Collapsed(<<Path!Origin>> \o Positions(parts))
  /\ Len(found) <= 1 + Len(Positions(parts)) + Cardinality(LoneLetters(parts))
  /\ Head(found).type # Path!Untyped
PathsAreWhole ==
  \A o \in ToSet(hit_objects) :
    o.kind = "Slider" =>
      \E begin \in DOMAIN o.control_points :
        /\ begin = 1 \/ AfterBreak(o.of)
        /\ IsOwnPath(SubSeq(o.control_points, begin, Len(o.control_points)), text[o.of].parts)

\* Wherever the two keys stand in the file, failed lines included: the approach rate is what
\* the file gives, or else its overall difficulty.
Values(key) == {i \in 1..line : /\ text[i].section = "KeyValue"
                                /\ text[i].key = key /\ text[i].value # Bad}
ApproachRateFallsBack ==
  settings.ApproachRate =
    CASE Values("ApproachRate") # {} -> text[Max(Values("ApproachRate"))].value
      [] Values("ApproachRate") = {} /\ Values("OverallDifficulty") # {} ->
           text[Max(Values("OverallDifficulty"))].value
      [] OTHER -> Defaults.ApproachRate
=============================================================================
