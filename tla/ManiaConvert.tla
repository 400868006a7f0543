------------------------------ MODULE ManiaConvert ------------------------------
(***************************************************************************)
(* convert of osu!mania: each object of an osu! map becomes a pattern of   *)
(* notes in columns, depending on the patterns, the place and the density  *)
(* of those before.  Whatever is drawn by lot may come out.                *)
(*                                                                         *)
(* The objects taken are the first ones of a map of which target_columns   *)
(* and conversion_difficulty know the whole; its timing and its kiai do    *)
(* not change.  At the end the notes are sorted, as in ObjectSorting.      *)
(***************************************************************************)
EXTENDS ColumnPatterns, TLC

Path == INSTANCE PathObjectPatterns
Window == INSTANCE SlidingWindow WITH Values <- Int, Capacity <- 7, None <- NoColumn,
            window <- << >>, iterating <- FALSE, rest <- << >>, out <- NoColumn

CONSTANTS Maps,           \* what there is to know of a map as a whole
          Objects(_, _),  \* the objects that may come next in a map, by its columns
          MaxObjects(_)

VARIABLES map, total_columns, n_objects,
          last_values,      \* the time, pos, pattern and stair that are remembered
          prev_note_times, density,
          panicked,
          made              \* the latest object and its notes, as ManiaObject reads them

vars == <<map, total_columns, n_objects, last_values, prev_note_times, density, panicked, made>>

-----------------------------------------------------------------------------
(* HitObjectPatternGenerator: the notes that a circle becomes *)

PatternTypes == {"FORCE_STACK", "FORCE_NOT_STACK", "KEEP_SINGLE", "LOW_PROBABILITY", "GATHERED",
                 "MIRROR", "REVERSE", "CYCLE", "STAIR", "REVERSE_STAIR"}

\* By the time since the object before, whether it is at the same place, and the density.
BySpeed(separation, close, dense, kiai, stair) ==
  IF separation <= 80 THEN {"FORCE_NOT_STACK", "KEEP_SINGLE"}
  ELSE IF separation <= 95 THEN {"FORCE_NOT_STACK", "KEEP_SINGLE", stair}
  ELSE IF separation <= 105 THEN {"FORCE_NOT_STACK", "LOW_PROBABILITY"}
  ELSE IF separation <= 125 THEN {"FORCE_NOT_STACK"}
  ELSE IF separation <= 135 /\ close THEN {"CYCLE", "KEEP_SINGLE"}
  ELSE IF separation <= 150 /\ close THEN {"FORCE_STACK", "LOW_PROBABILITY"}
  ELSE IF close /\ ~dense THEN {"REVERSE", "LOW_PROBABILITY"}
  ELSE IF dense \/ kiai THEN {} ELSE {"LOW_PROBABILITY"}

\* By its sound, of objects that may become several notes.
BySample(types, sample, total) ==
  IF "KEEP_SINGLE" \in types THEN {}
  ELSE IF "Finish" \in sample /\ total # 8 THEN {"MIRROR"}
  ELSE IF "Clap" \in sample THEN {"GATHERED"} ELSE {}

-----------------------------------------------------------------------------
\* Variant of Taken in which fast notes stack.
TakenOwn(g, pattern) == pattern.contained_columns

Taken(g, pattern) == pattern.contained_columns
                     \union (IF "FORCE_NOT_STACK" \in g.type THEN g.prev.columns ELSE {})

\* No more notes than there are columns to put them.
NotesWanted(g, n) ==
  IF "FORCE_NOT_STACK" \in g.type
  THEN Min({n, Cardinality(ColumnsOf(g.total)) - Cardinality(g.prev.columns)}) ELSE n

generate_random_notes(g, n) ==
  LET Find(first, taken) == IF "GATHERED" \in g.type
                            THEN FindGathered(first, ColumnsOf(g.total), taken)
                            ELSE FindRandom(first, ColumnsOf(g.total), taken)
      Round(s, i) == {[pattern |-> AddNote(g, s.pattern, c, g.start, g.start), next |-> c] :
                        c \in Find(s.next, Taken(g, s.pattern))}
  IN {s.pattern : s \in Rounds(NotesWanted(g, n),
                               {[pattern |-> EmptyPattern, next |-> get_column(g)]}, Round)}

\* The special column of 7K + 1
WithSpecial(g, pattern) ==
  IF g.total = 8 /\ {"Clap", "Finish"} \subseteq g.sample THEN AddAll(g, pattern, <<0>>)
  ELSE pattern

\* The probabilities that few columns allow.
Capped(p, total) == CASE total = 2 -> <<0, 0, 0, 0>>
                      [] total = 3 -> <<Min({p[1], 100}), 0, 0, 0>>
                      [] total = 4 -> <<Min({p[1], 230}), Min({p[2], 40}), 0, 0>>
                      [] total = 5 -> <<p[1], Min({p[2], 150}), Min({p[3], 30}), 0>>
                      [] OTHER     -> p

generate_random_pattern(g, p) ==
  LET capped == Capped(p, g.total)
      counts == NoteCounts(IF "Clap" \in g.sample THEN [capped EXCEPT ![1] = 1000] ELSE capped)
  IN UNION {{WithSpecial(g, pattern) : pattern \in generate_random_notes(g, n)} : n \in counts}

-----------------------------------------------------------------------------
(* generate_random_pattern_with_mirrored *)

\* Variant of CappedMirrored without the cap on a chord of three for few columns.
CappedMirroredSome(p2, p3, total) == IF total = 2 THEN <<0, 0>> ELSE <<p2, p3>>

\* The probabilities of two and of three notes, each with its mirror image.
CappedMirrored(p2, p3, total) ==
  LET Doubled(p, least) == Max({0, 1000 - Max({2 * (1000 - p), least})})
  IN CASE total \in {2, 3} -> <<0, 0>>
       [] total = 4 -> <<Doubled(p2, 800), 0>>
       [] total = 5 -> <<p2, 0>>
       [] total = 6 -> <<Doubled(p2, 50), Doubled(p3, 850)>>
       [] OTHER     -> <<p2, p3>>

\* The centre of an odd number of columns gets a note or not; its probability is never zero
\* for those.
Centre(g, n) == IF g.total % 2 # 0 /\ n # 3 THEN BOOLEAN ELSE {FALSE}

MirroredNotes(g, n) ==
  LET left == random_start(g.total)..((g.total \div 2) - 1)
      Round(s, i) ==
        {[pattern |-> AddAll(g, s.pattern, <<c, random_start(g.total) + g.total - c - 1>>),
          next |-> c] : c \in FindRandom(s.next, left, s.pattern.contained_columns)}
  IN {s.pattern : s \in Rounds(n, {[pattern |-> EmptyPattern, next |-> c] : c \in left}, Round)}

generate_random_pattern_with_mirrored(g, p2, p3) ==
  IF "FORCE_NOT_STACK" \in g.type
  THEN generate_random_pattern(g, <<500 + p2 \div 2, p2, (p2 + p3) \div 2, p3>>)
  ELSE UNION {{WithSpecial(g, AddAll(g, pattern, IF centre THEN <<g.total \div 2>> ELSE << >>)) :
                 pattern \in MirroredNotes(g, n), centre \in Centre(g, n)} :
              n \in NoteCounts(CappedMirrored(p2, p3, g.total))}

-----------------------------------------------------------------------------
(* generate_core: what type of pattern goes before which *)

\* The columns of the pattern before, in order.
PrevColumns(g) == LET Filled(c) == c \in g.prev.columns
                      start == random_start(g.total)
                  IN SelectSeq([k \in 1..(g.total - start) |-> start + k - 1], Filled)
Mirrored(g, c) == random_start(g.total) + g.total - c - 1

\* Variant of Copies that does not look whether there is anything to copy.
CopiesAnything(g, type) == type \in g.type
Copies(g, type) == type \in g.type /\ g.prev.len # 0

Cycles(g) == /\ "CYCLE" \in g.type /\ g.prev.len = 1
             /\ g.total # 8 \/ g.prev.last # 0
             /\ g.total % 2 = 0 \/ g.prev.last # g.total \div 2

NextStair(g) == IF g.prev.last + 1 = g.total THEN random_start(g.total) ELSE g.prev.last + 1
PreviousStair(g) == IF g.prev.last = random_start(g.total) THEN g.total - 1 ELSE g.prev.last - 1

\* The probabilities by conversion difficulty and, if any, of mirrored chords.
RandomPattern(g) ==
  LET low == "LOW_PROBABILITY" \in g.type
      d   == g.difficulty
  IN IF "MIRROR" \in g.type
     THEN IF d > 65 THEN generate_random_pattern_with_mirrored(g, 380, 120)
          ELSE generate_random_pattern_with_mirrored(g, IF d > 40 THEN 170 ELSE 0, 0)
     ELSE generate_random_pattern(g,
            IF d > 65 THEN IF low THEN <<780, 420, 0, 0>> ELSE <<1000, 620, 0, 0>>
            ELSE IF d > 40 THEN IF low THEN <<350, 80, 0, 0>> ELSE <<520, 150, 0, 0>>
            ELSE IF d > 20 THEN IF low THEN <<180, 0, 0, 0>> ELSE <<450, 0, 0, 0>>
            ELSE <<0, 0, 0, 0>>)

generate_core(g) ==
  IF g.total = 1 THEN {NewNote(g, 0)}
  ELSE IF Copies(g, "REVERSE")
  THEN {AddAll(g, EmptyPattern, [k \in DOMAIN PrevColumns(g) |-> Mirrored(g, PrevColumns(g)[k])])}
  ELSE IF Cycles(g) THEN {NewNote(g, Mirrored(g, g.prev.last))}
  ELSE IF Copies(g, "FORCE_STACK") THEN {AddAll(g, EmptyPattern, PrevColumns(g))}
  ELSE IF g.prev.len = 1 /\ "STAIR" \in g.type THEN {NewNote(g, NextStair(g))}
  ELSE IF g.prev.len = 1 /\ "REVERSE_STAIR" \in g.type THEN {NewNote(g, PreviousStair(g))}
  ELSE IF "KEEP_SINGLE" \in g.type THEN generate_random_notes(g, 1)
  ELSE RandomPattern(g)

\* A stair turns round at the borders.
StairAfter(g, pattern, stair) ==
  LET columns == {ColumnAt(n.x, g.total) : n \in ToSet(pattern.hit_objects)}
  IN IF "STAIR" \in g.type /\ g.total - 1 \in columns THEN "REVERSE_STAIR"
     ELSE IF "REVERSE_STAIR" \in g.type /\ random_start(g.total) \in columns THEN "STAIR"
     ELSE stair

-----------------------------------------------------------------------------
(* The conversion *)

\* Of n objects of the map n_long are sliders or spinners; od and cs are rounded.
target_columns(m) ==
  IF m.keys # 0 THEN m.keys
  ELSE IF m.n > 0 /\ 5 * m.n_long < m.n THEN 7
  ELSE IF m.n > 0 /\ (10 * m.n_long < 3 * m.n \/ m.cs >= 5) THEN IF m.od > 5 THEN 7 ELSE 6
  ELSE IF m.n > 0 /\ 10 * m.n_long > 6 * m.n THEN IF m.od > 4 THEN 5 ELSE 4
  ELSE Max({Min({m.od + 1, 7}), 4})

-----------------------------------------------------------------------------
\* compute_density, for each of the times: the mean over the last seven notes.
Pushed(times) == FoldLeft(LAMBDA w, t : Window!Newest(Append(w, t), 7), prev_note_times, times)
DensityOf(w) == IF Len(w) < 2 THEN density ELSE [time |-> Last(w) - w[1], notes |-> Len(w)]
Dense(d) == 5 * d.time < 2 * map.beat_len * d.notes

compute_density(times) == /\ prev_note_times' = Pushed(times)
                          /\ density' = DensityOf(Pushed(times))

Distance2(p, q) == (p[1] - q[1]) * (p[1] - q[1]) + (p[2] - q[2]) * (p[2] - q[2])

Generator(o, types) ==
  [total |-> total_columns, x |-> o.pos[1], start |-> o.time, end |-> o.end, sample |-> o.sample,
   prev |-> last_values.pattern, type |-> types, difficulty |-> map.difficulty]

\* The notes go to the new map.
Extend(o, pattern) ==
  /\ made' = [object |-> o, len |-> Len(pattern.hit_objects),
              notes |-> {[column |-> ColumnAt(n.x, total_columns), start |-> n.start, end |-> n.end] :
                           n \in ToSet(pattern.hit_objects)}]
  /\ panicked' = (NoColumn \in pattern.contained_columns)

ConvertCircle(o) ==
  LET d == DensityOf(Pushed(<<o.time>>))
      types == BySpeed(o.time - last_values.time, Distance2(o.pos, last_values.pos) < 400,
                       Dense(d), map.kiai, last_values.stair)
      g == Generator(o, types \union BySample(types, o.sample, total_columns))
  IN \E pattern \in generate_core(g) :
       /\ compute_density(<<o.time>>)
       /\ last_values' = [time |-> o.time, pos |-> o.pos,
                          pattern |-> Remembered(pattern, total_columns),
                          stair |-> StairAfter(g, pattern, last_values.stair)]
       /\ Extend(o, pattern)

ConvertSlider(o) ==
  LET segment_duration == (o.end - o.time) \div o.span_count
      times == [i \in 1..(o.span_count + 1) |-> o.time + (i - 1) * segment_duration]
      g == Generator(o, IF map.kiai THEN {} ELSE {"LOW_PROBABILITY"})
           @@ [span_count |-> o.span_count, segment_duration |-> segment_duration, head |-> o.head]
  IN \E pattern \in Path!PathPatterns(g) :
       /\ compute_density(times)
       /\ last_values' = [last_values EXCEPT
            !.time = Last(times), !.pos = o.pos,
            !.pattern = Remembered(Path!EndTimePattern(g, pattern), total_columns)]
       /\ Extend(o, pattern)

\* Spinners and holds; their pattern is not remembered.
ConvertEndTime(o) ==
  \E pattern \in Path!EndTimePatterns(Generator(o, {})) :
    /\ compute_density(<<o.end>>)
    /\ last_values' = [last_values EXCEPT !.time = o.end, !.pos = <<256, 192>>]
    /\ Extend(o, pattern)

ConvertObject(o) == /\ n_objects < MaxObjects(total_columns) /\ ~panicked
                    /\ n_objects' = n_objects + 1
                    /\ \/ o.kind = "Circle" /\ ConvertCircle(o)
                       \/ o.kind = "Slider" /\ ConvertSlider(o)
                       \/ o.kind \in {"Spinner", "Hold"} /\ ConvertEndTime(o)
                    /\ UNCHANGED <<map, total_columns>>

NoObject == [kind |-> "None"]

Init == /\ map \in Maps /\ total_columns = target_columns(map)
        /\ n_objects = 0
        /\ last_values = [time |-> 0, pos |-> <<0, 0>>, stair |-> "STAIR",
                          pattern |-> Remembered(EmptyPattern, total_columns)]
        /\ prev_note_times = << >> /\ density = [time |-> 100000, notes |-> 1]
        /\ panicked = FALSE
        /\ made = [object |-> NoObject, len |-> 0, notes |-> {}]

\* The next object begins some time after what came before.
Next == \E o \in Objects(total_columns, n_objects) :
          ConvertObject([o EXCEPT !.time = last_values.time + o.time,
                                  !.end = last_values.time + o.time + o.end])

Spec == Init /\ [][Next]_vars

-----------------------------------------------------------------------------
(* Properties *)

\* No generator is asked for a column where none is free: it would search forever, so that
\* an assertion ends the conversion.  The numbers of notes that chance allows have to leave
\* room, for each number of columns, with the columns that other patterns or notes take.
NeverPanics == ~panicked

\* Whatever comes out by lot: the notes that one object becomes are in columns there are, as
\* the positions of the new objects are read, and no two of them meet in one column.
NotesApart ==
  /\ made.len = Cardinality(made.notes)
  /\ \A n \in made.notes : n.column \in 0..(total_columns - 1) /\ n.start <= n.end
  /\ \A n, m \in made.notes : n # m /\ n.column = m.column => n.end < m.start \/ m.end < n.start

\* Notes that come fast do not stack on the notes just made, whatever was kept of their
\* pattern: a circle that follows a circle or the end of a slider by 125 ms or less is in no
\* column of the notes that end there, in any type of pattern, but for the special column
\* of 7K + 1 and where there is one column only.  After a spinner or a hold nothing is
\* claimed, as their notes are not remembered.
Fast(o) == o.kind = "Circle" /\ o.time - last_values.time <= 125
FastNotesDoNotStack ==
  [][Fast(made'.object) /\ made.object.kind \in {"Circle", "Slider"} /\ total_columns # 1 =>
       \A n \in made'.notes, m \in made.notes :
         m.end = made.object.end /\ n.column = m.column => n.column < random_start(total_columns)]_vars

\* Each object becomes a note, but for a circle so soon after a pattern that leaves no
\* column free; and what is remembered of a pattern with notes is never the special column
\* alone, of which a copy would be empty.
Copyable(pattern) == pattern.len # 0 => pattern.columns \intersect ColumnsOf(total_columns) # {}
NothingVanishes ==
  [][/\ Copyable(last_values'.pattern)
     /\ made'.len = 0 =>
          /\ Fast(made'.object)
          /\ Cardinality(last_values.pattern.columns) >= Cardinality(ColumnsOf(total_columns))]_vars
=============================================================================
