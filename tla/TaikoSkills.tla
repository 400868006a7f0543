---------------------------- MODULE TaikoSkills -----------------------------
(***************************************************************************)
(* The difficulty objects of an osu!taiko map as DifficultyValues creates  *)
(* them, the colour preprocessing over all of them, and the skills fed     *)
(* object by object: rhythm, colour, stamina and single-colour stamina.    *)
(*                                                                         *)
(* The objects are in lists that find the notes around one of them: all    *)
(* notes, and the notes of either colour.  A drumroll or swell (NonHit) is *)
(* in none of the lists, and its note_idx is that of the first note.       *)
(*                                                                         *)
(* ColorDifficultyPreprocessor: the difficulty objects in streaks of one   *)
(* colour, the streaks in patterns of equal length, the patterns in groups *)
(* that repeat.  Each level is a sequence of the numbers of the level      *)
(* below; the back references of the code are the positions in them.       *)
(*                                                                         *)
(* Each skill keeps the peak of the current section of SectionLen ms and   *)
(* saves it when an object lies beyond the section's end.                  *)
(*                                                                         *)
(* A strain value is kept as "it is positive".  A decay of a positive base *)
(* keeps that; the rhythm skill's base is 0, so its strain is gone after   *)
(* any time at all and stays only when no time passed (0^0 = 1).  The      *)
(* factors that are never zero (repetition_penalties, the long pattern     *)
(* penalty on fewer than 17 notes, the sigmoids on small indices) are left *)
(* out.                                                                    *)
(***************************************************************************)
EXTENDS StrainSections, FiniteSets, Integers, Sequences

CONSTANTS None,
          MaxInterval,  \* MAX_REPETITION_INTERVAL
          Times,       \* the maps considered, sequences of their objects' start times
          SectionLen,
          NearColour,  \* 300 ms: a colour change this near takes two fingers
          SlowDelta    \* 210 ms: from here on rhythm changes count for nothing

VARIABLES times,
          diff_objects,  \* see the lists of objects
          color,         \* None before process_and_assign
          processed,     \* how many objects the skills were fed
          skills,        \* the StrainSkill of each: section end, peak, saved peaks
          strain,        \* the curr_strain of each
          rhythm_strain  \* Rhythm's own curr_strain

vars == <<times, diff_objects, color, processed, skills, strain, rhythm_strain>>

-----------------------------------------------------------------------------
(* The lists of objects *)

HitTypes == {"Center", "Rim", "NonHit"}

\* Sixtieths of the ratios of COMMON_RHYTHMS; only the first has no difficulty.
COMMON_RHYTHMS == <<60, 120, 30, 180, 20, 90, 40, 75, 48>>
NoChange == 1

Distance(a, b) == IF a > b THEN a - b ELSE b - a

\* The first of the closest ratios to delta / prev_len.  After two objects at
\* one time the ratio is infinite or NaN and all are equally far.
closest_rhythm(delta, prev_len) ==
  LET far(r) == Distance(COMMON_RHYTHMS[r] * prev_len, 60 * delta)
      Ids    == DOMAIN COMMON_RHYTHMS
  IN  IF prev_len = 0 THEN NoChange
      ELSE CHOOSE r \in Ids : /\ \A s \in Ids : far(r) <= far(s)
                              /\ \A s \in 1..(r - 1) : far(r) < far(s)

NoObjects == [objects |-> << >>, center |-> << >>, rim |-> << >>, note |-> << >>]

\* checked_sub and get on a list indexed from 0
Backwards(list, idx, n) ==
  IF n <= idx /\ idx - n < Len(list) THEN list[idx - n + 1] ELSE None

\* TaikoDifficultyObject::new and push: the object at `now`, the two before it
\* at `last` and `last_last`.  The lists hold positions in `objects`.
WithObject(d, type, now, last, last_last) ==
  LET i      == Len(d.objects) + 1
      isNote == type # "NonHit"
  IN [objects |-> Append(d.objects,
        [start    |-> now,
         delta    |-> now - last,
         type     |-> type,
         rhythm   |-> closest_rhythm(now - last, last - last_last),
         note_idx |-> IF isNote THEN Len(d.note) ELSE 0,
         mono_idx |-> CASE type = "Center" -> Len(d.center)
                        [] type = "Rim"    -> Len(d.rim)
                        [] OTHER           -> None]),
      center |-> IF type = "Center" THEN Append(d.center, i) ELSE d.center,
      rim    |-> IF type = "Rim" THEN Append(d.rim, i) ELSE d.rim,
      note   |-> IF isNote THEN Append(d.note, i) ELSE d.note]

previous_mono(d, i, back) ==
  CASE d.objects[i].type = "Center" -> Backwards(d.center, d.objects[i].mono_idx, back + 1)
    [] d.objects[i].type = "Rim"    -> Backwards(d.rim, d.objects[i].mono_idx, back + 1)
    [] OTHER                        -> None

previous_note(d, i, back) == Backwards(d.note, d.objects[i].note_idx, back + 1)

next_note(d, i, forward) ==
  LET k == d.objects[i].note_idx + forward + 1
  IN  IF k < Len(d.note) THEN d.note[k + 1] ELSE None

-----------------------------------------------------------------------------
(* ColorDifficultyPreprocessor *)

Latest(s) == s[Len(s)]

\* The sequence 1..n cut into consecutive parts: a new one before each member of
\* `cuts`.
Parts(n, cuts) ==
  LET upto[i \in 0..n] ==
        IF i = 0 THEN << >>
        ELSE IF i = 1 \/ i \in cuts THEN Append(upto[i - 1], <<i>>)
        ELSE LET p == upto[i - 1] IN [p EXCEPT ![Len(p)] = Append(@, i)]
  IN upto[n]

\* A note joins the current streak when the note before it has its colour; a
\* drumroll has no previous note and begins a streak that the next note joins
\* when it has the colour of the note before the drumroll.
encode_mono_streaks(d) ==
  Parts(Len(d.objects),
        {i \in DOMAIN d.objects : LET p == previous_note(d, i, 0)
                                 IN  p = None \/ d.objects[p].type # d.objects[i].type})

encode_alternating_mono_pattern(streaks) ==
  Parts(Len(streaks), {i \in 2..Len(streaks) : Len(streaks[i - 1]) # Len(streaks[i])})

\* The streak that begins pattern p, and the object that begins a streak.
FirstStreak(c, p) == c.streaks[c.patterns[p][1]]
has_identical_mono_len(c, p, q) == Len(FirstStreak(c, p)) = Len(FirstStreak(c, q))

\* AlternatingMonoPattern::is_repetition_of
is_repetition_of(d, c, p, q) ==
  /\ has_identical_mono_len(c, p, q)
  /\ Len(c.patterns[p]) = Len(c.patterns[q])
  /\ d.objects[FirstStreak(c, p)[1]].type = d.objects[FirstStreak(c, q)[1]].type

\* A pattern that comes again after the next one is coupled with it.
Coupled(d, c, p) == /\ p + 2 <= Len(c.patterns)
                    /\ is_repetition_of(d, c, p, p + 2)

Consecutive(from, to) == [i \in 1..(to - from + 1) |-> from + i - 1]

\* Variant of encode_repeating_hit_patterns that drains one pattern too few.
encode_repeating_one_less(d, c) ==
  LET n == Len(c.patterns)
      UpTo(p) == IF ~Coupled(d, c, p) THEN p
                 ELSE CHOOSE q \in p..n :
                        /\ ~Coupled(d, c, q) /\ \A r \in p..(q - 1) : Coupled(d, c, r)
      from[p \in 1..(n + 1)] ==
        IF p > n THEN << >> ELSE <<Consecutive(p, UpTo(p))>> \o from[UpTo(p) + 1]
  IN from[1]

\* A group takes patterns while the one at the front is coupled, and then the
\* two that the last of them was coupled over and with.
encode_repeating_hit_patterns(d, c) ==
  LET n == Len(c.patterns)
      UpTo(p) == IF ~Coupled(d, c, p) THEN p
                 ELSE 1 + CHOOSE q \in p..n :
                        /\ ~Coupled(d, c, q) /\ \A r \in p..(q - 1) : Coupled(d, c, r)
      from[p \in 1..(n + 1)] ==
        IF p > n THEN << >> ELSE <<Consecutive(p, UpTo(p))>> \o from[UpTo(p) + 1]
  IN from[1]

\* RepeatingHitPatterns::is_repetition_of compares the first two patterns.
Repeats(c, g, h) ==
  /\ Len(c.groups[g]) = Len(c.groups[h])
  /\ \A k \in 1..2 : k <= Len(c.groups[g])
       => has_identical_mono_len(c, c.groups[g][k], c.groups[h][k])

\* The search goes back group by group; the one MaxInterval back is not tried.
find_repetition_interval(c, g) ==
  LET back[k \in 1..MaxInterval] ==
        IF k = MaxInterval \/ g - k < 1 THEN MaxInterval + 1
        ELSE IF Repeats(c, g, g - k) THEN k
        ELSE back[k + 1]
  IN back[1]

\* process_and_assign
NoColour == [streaks |-> << >>, patterns |-> << >>, groups |-> << >>, interval |-> << >>]
Colour(d) ==
  LET s == encode_mono_streaks(d)
      p == [NoColour EXCEPT !.streaks = s, !.patterns = encode_alternating_mono_pattern(s)]
      g == [p EXCEPT !.groups = encode_repeating_hit_patterns(d, p)]
  IN [g EXCEPT !.interval = [i \in DOMAIN g.groups |-> find_repetition_interval(g, i)]]

\* Where an object is: the part of the sequence of parts that holds it.
PartOf(parts, x) == CHOOSE k \in DOMAIN parts : \E i \in DOMAIN parts[k] : parts[k][i] = x
StreakOf(c, i) == c.streaks[PartOf(c.streaks, i)]

previous_color_change(d, c, i) == previous_note(d, StreakOf(c, i)[1], 0)

\* Variant of next_color_change that starts from the streak's first object.
next_from_first(d, c, i) == next_note(d, StreakOf(c, i)[1], 0)
next_color_change(d, c, i) == next_note(d, Latest(StreakOf(c, i)), 0)

\* evaluate_diff_of adds one positive term for each part the object begins.
Begins(c, i) == \E s \in DOMAIN c.streaks : c.streaks[s][1] = i

-----------------------------------------------------------------------------
(* The skills *)

Skills == {"rhythm", "color", "stamina", "single_color"}

Init == /\ times \in Times
        /\ diff_objects = NoObjects /\ color = None /\ processed = 0
        /\ skills = [s \in Skills |-> NoPeaks]
        /\ strain = [s \in Skills |-> FALSE]
        /\ rhythm_strain = FALSE

Created == Len(diff_objects.objects)

\* create_difficulty_objects: the first two objects have none.
CreateObject ==
  /\ color = None /\ Created + 2 < Len(times)
  /\ \E type \in HitTypes :
       diff_objects' = LET i == Created + 3
                       IN WithObject(diff_objects, type, times[i], times[i - 1], times[i - 2])
  /\ UNCHANGED <<times, color, processed, skills, strain, rhythm_strain>>

AssignColour ==
  /\ color = None /\ Created + 2 = Len(times)
  /\ color' = Colour(diff_objects)
  /\ UNCHANGED <<times, diff_objects, processed, skills, strain, rhythm_strain>>

-----------------------------------------------------------------------------
(* What an object adds to a skill's strain *)

Object(i) == diff_objects.objects[i]
IsNote(i) == Object(i).type # "NonHit"

\* Two fingers while the other colour is near, otherwise four.
available_fingers_for(i) ==
  LET prev == previous_color_change(diff_objects, color, i)
      next == next_color_change(diff_objects, color, i)
  IN  IF \/ prev # None /\ Object(i).start - Object(prev).start < NearColour
         \/ next # None /\ Object(next).start - Object(i).start < NearColour
      THEN 2 ELSE 4

\* The stamina evaluator: something when the finger was used before.
StaminaAdds(i) ==
  IsNote(i) /\ previous_mono(diff_objects, i, available_fingers_for(i) - 1) # None

\* Rhythm::strain_value_of: Rhythm's own strain after object i, and the value.
RhythmStrainAfter(i) ==
  IF ~IsNote(i) THEN FALSE
  ELSE IF Object(i).rhythm = NoChange THEN rhythm_strain
  ELSE Object(i).delta < SlowDelta

\* No answer without a change, even if strain is kept from an earlier one.
RhythmAdds(i) == Object(i).rhythm # NoChange /\ RhythmStrainAfter(i)

\* Whether curr_strain is still positive `ms` later.
Decayed(s, ms) == strain[s] /\ (s = "rhythm" => ms = 0)

-----------------------------------------------------------------------------
(* process *)

SinceLast(time, i) == time - (IF i = 1 THEN 0 ELSE Object(i - 1).start)

\* What a section that begins at `time` begins with: what is left of the strain of the
\* object before, but nothing in the single-colour version of stamina.
Left(s, i, time) == s # "single_color" /\ Decayed(s, SinceLast(time, i))

\* The skill `s` and its strain after object i that adds to it or not.
After(s, i, adds) ==
  LET value == Decayed(s, Object(i).delta) \/ adds
      begun == BegunSections(skills[s], i = 1, Object(i).start, SectionLen)
  IN [skill  |-> Advanced(skills[s], i = 1, Object(i).start, SectionLen, value,
                          [k \in DOMAIN begun |-> Left(s, i, begun[k])]),
      strain |-> value]

ProcessRhythm(i)       == After("rhythm", i, RhythmAdds(i))
ProcessColour(i)       == After("color", i, Begins(color, i))
ProcessStamina(i)      == After("stamina", i, StaminaAdds(i))
ProcessSingleColour(i) == After("single_color", i, StaminaAdds(i))

\* The skills are fed the same object one after the other.
Process ==
  /\ color # None /\ processed < Created
  /\ LET i     == processed + 1
         after == [s \in Skills |-> CASE s = "rhythm"  -> ProcessRhythm(i)
                                      [] s = "color"   -> ProcessColour(i)
                                      [] s = "stamina" -> ProcessStamina(i)
                                      [] OTHER         -> ProcessSingleColour(i)]
     IN /\ skills' = [s \in Skills |-> after[s].skill]
        /\ strain' = [s \in Skills |-> after[s].strain]
        /\ rhythm_strain' = RhythmStrainAfter(i)
        /\ processed' = i
  /\ UNCHANGED <<times, diff_objects, color>>

Next == CreateObject \/ AssignColour \/ Process

Spec == Init /\ [][Next]_vars

-----------------------------------------------------------------------------
(* Properties *)

\* A streak is of one colour, whatever drumrolls lie between its notes: every
\* object but the first is a note and they have one type, and so has the first
\* unless it is a drumroll.  From a note, the previous colour change is a note
\* before its streak and the next one a note after it, with no other in between.
ColourChangesSurround ==
  color # None => \A i \in 1..Created :
    LET streak == StreakOf(color, i)
        Notes  == {j \in 1..Created : IsNote(j)}
        prev   == previous_color_change(diff_objects, color, i)
        next   == next_color_change(diff_objects, color, i)
    IN  IsNote(i) =>
          /\ \A k \in DOMAIN streak :
               \/ Object(streak[k]).type = Object(i).type
               \/ k = 1 /\ ~IsNote(streak[k])
          /\ IF prev = None THEN ~IsNote(streak[1]) \/ \A j \in Notes : j >= streak[1]
             ELSE /\ prev \in Notes /\ prev < streak[1]
                  /\ Object(prev).type # Object(i).type
                  /\ \A j \in Notes : j <= prev \/ j >= streak[1]
          /\ IF next = None THEN \A j \in Notes : j <= Latest(streak)
             ELSE /\ next \in Notes /\ next > Latest(streak)
                  /\ \A j \in Notes : j <= Latest(streak) \/ j >= next

\* Laid end to end, the groups give the patterns, the patterns the streaks and
\* the streaks the objects, each once and in order: draining two patterns after
\* the coupled ones never runs short and loses none.  A group of several has
\* each pattern come again after the next one, and could not have taken more.
\* A repetition interval names the nearest group back of the same shape.
GroupsNest ==
  LET Flat(parts) == LET upto[k \in 0..Len(parts)] ==
                           IF k = 0 THEN << >> ELSE upto[k - 1] \o parts[k]
                     IN upto[Len(parts)]
      Shape(g) == <<Len(color.groups[g]),
                    [k \in 1..2 |-> IF k <= Len(color.groups[g])
                       THEN Len(FirstStreak(color, color.groups[g][k])) ELSE 0]>>
      Alike(p, q) == is_repetition_of(diff_objects, color, p, q)
  IN color # None =>
       /\ Flat(color.groups) = Consecutive(1, Len(color.patterns))
       /\ Flat(color.patterns) = Consecutive(1, Len(color.streaks))
       /\ Flat(color.streaks) = Consecutive(1, Created)
       /\ \A g \in DOMAIN color.groups :
            LET group == color.groups[g]
                ahead == Latest(group) + 1
            IN /\ Len(group) # 2
               /\ \A k \in 1..(Len(group) - 2) : Alike(group[k], group[k + 2])
               /\ Len(group) >= 3 /\ ahead <= Len(color.patterns)
                    => ~Alike(group[Len(group) - 1], ahead)
               /\ LET far == color.interval[g]
                      Same == {h \in 1..(g - 1) : Shape(h) = Shape(g) /\ g - h < MaxInterval}
                  IN IF far > MaxInterval THEN Same = {}
                     ELSE g - far \in Same /\ \A h \in Same : h <= g - far

\* Every skill has saved one peak for each section between the first object and
\* the latest, so that the peaks of the skills can be combined section by
\* section, and the current section holds the latest object.  A section with no
\* object leaves a single-colour peak of zero, and a rhythm peak is positive
\* only when a note that changed the rhythm lies in the section or at the very
\* time it begins.
PeaksAreTheirSections ==
  processed > 0 =>
    LET first == Object(1).start
        InSection(k, i) == Holds(k, Object(i).start, first, SectionLen)
        AtBegin(k, i)   == Object(i).start = BeginOf(k, first, SectionLen)
    IN /\ \A s \in Skills :
            /\ Len(skills[s].peaks) = SavedSince(skills[s], first, SectionLen)
            /\ skills[s].end = SectionEndOf(Object(processed).start, SectionLen)
       /\ \A k \in DOMAIN skills["rhythm"].peaks :
            /\ skills["single_color"].peaks[k] => \E i \in 1..processed : InSection(k, i)
            /\ skills["rhythm"].peaks[k] =>
                 \E i \in 1..processed : /\ InSection(k, i) \/ AtBegin(k, i)
                                         /\ IsNote(i) /\ Object(i).rhythm # NoChange
=============================================================================
