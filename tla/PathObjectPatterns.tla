--------------------------- MODULE PathObjectPatterns ---------------------------
(***************************************************************************)
(* PathObjectPatternGenerator and EndTimeObjectPatternGenerator: the notes *)
(* that sliders, spinners and holds become.  A slider's generator also has *)
(* span_count, segment_duration and the sound of its head.                 *)
(***************************************************************************)
EXTENDS ColumnPatterns

At(g, i) == g.start + i * g.segment_duration

FoundFirst(g) ==
  IF "FORCE_NOT_STACK" \in g.type /\ Cardinality(g.prev.columns) < g.total
  THEN FindRandom(get_column(g), ColumnsOf(g.total), g.prev.columns)
  ELSE {get_column(g)}

\* First in columns that were free before, then wherever this pattern has none.
generate_random_hold_notes(g, n) ==
  LET usable == Cardinality(ColumnsOf(g.total)) - Cardinality(g.prev.columns)
      Hold(s, taken) == {[pattern |-> AddNote(g, s.pattern, c, g.start, g.end), next |-> c] :
                           c \in FindRandom(s.next, ColumnsOf(g.total), taken)}
      Apart(s, i) == Hold(s, s.pattern.contained_columns \union g.prev.columns)
      Anywhere(s, i) == Hold(s, s.pattern.contained_columns)
      begin == {[pattern |-> EmptyPattern, next |-> c] : c \in ColumnsOf(g.total)}
  IN {s.pattern : s \in Rounds(Max({0, n - usable}),
                               Rounds(Max({0, Min({usable, n})}), begin, Apart), Anywhere)}

\* No column twice in a row.
generate_random_notes(g, n) ==
  LET Round(s, i) ==
        {[pattern |-> AddNote(g, s.pattern, s.next, At(g, i - 1), At(g, i - 1)), next |-> c] :
           c \in FindRandom(s.next, ColumnsOf(g.total), {s.next})}
      begin == {[pattern |-> EmptyPattern, next |-> c] : c \in FoundFirst(g)}
  IN {s.pattern : s \in Rounds(n, begin, Round)}

\* From column to column, and back at the borders.
generate_stair(g) ==
  LET Turns(s) == IF s.increasing THEN s.column >= g.total - 1
                  ELSE s.column <= random_start(g.total)
      Round(s, i) ==
        LET up == s.increasing # Turns(s)
        IN {[pattern |-> AddNote(g, s.pattern, s.column, At(g, i - 1), At(g, i - 1)),
             increasing |-> up, column |-> IF up THEN s.column + 1 ELSE s.column - 1]}
      begin == {[pattern |-> EmptyPattern, increasing |-> up, column |-> get_column(g)] :
                  up \in BOOLEAN}
  IN {s.pattern : s \in Rounds(g.span_count + 1, begin, Round)}

\* Variant of Intervals in which a second note may come back to the column of the first.
IntervalsWide(g) == 1..g.total

\* How far apart the two notes are: all but the columns that stable leaves out.
Legacy(g) == IF g.total \in 4..8 THEN 1 ELSE 0
Intervals(g) == 1..(g.total - Legacy(g) - 1)

generate_random_multiple_notes(g) ==
  LET Second(column, interval) ==
        LET c == column + interval
        IN random_start(g.total)
           + (IF c >= g.total - random_start(g.total)
              THEN c - g.total - random_start(g.total) + Legacy(g) ELSE c)
      One(s, i, c) == AddNote(g, s.pattern, c, At(g, i - 1), At(g, i - 1))
      Round(s, i) ==
        LET one == One(s, i, s.next)
            both == IF g.total > 2 THEN One([s EXCEPT !.pattern = one], i, Second(s.next, s.interval))
                    ELSE one
        IN {[s EXCEPT !.pattern = both, !.next = c] : c \in ColumnsOf(g.total)}
      begin == {[pattern |-> EmptyPattern, next |-> get_column(g), interval |-> interval] :
                  interval \in Intervals(g)}
  IN {s.pattern : s \in Rounds(g.span_count + 1, begin, Round)}

Doubles == {"Clap", "Finish"}

generate_n_random_notes(g, p) ==
  LET capped == CASE g.total = 2 -> <<0, 0, 0>>
                  [] g.total = 3 -> <<Min({p[1], 100}), 0, 0>>
                  [] g.total = 4 -> <<Min({p[1], 300}), Min({p[2], 40}), 0>>
                  [] g.total = 5 -> <<Min({p[1], 340}), Min({p[2], 100}), Min({p[3], 30})>>
                  [] OTHER       -> p
      two == /\ "LOW_PROBABILITY" \notin g.type
             /\ (g.sample \union g.head) \intersect Doubles # {}
  IN UNION {generate_random_hold_notes(g, n) :
              n \in NoteCounts(IF two THEN [capped EXCEPT ![1] = 1000] ELSE capped)}

generate_tiled_hold_notes(g) ==
  LET Round(s, i) ==
        {[pattern |-> AddNote(g, s.pattern, c, At(g, i - 1), At(g, g.span_count)), next |-> c] :
           c \in FindRandom(s.next, ColumnsOf(g.total), s.pattern.contained_columns)}
      begin == {[pattern |-> EmptyPattern, next |-> c] : c \in FoundFirst(g)}
  IN {s.pattern : s \in Rounds(Min({g.span_count, g.total}), begin, Round)}

-----------------------------------------------------------------------------
(* generate_hold_and_normal_notes *)

RowTaken(hold, row) == row.contained_columns \union {hold}

\* The numbers of notes in a row, beside the hold.
RowCounts(g) ==
  LET p2 == IF g.difficulty > 65 THEN 630
            ELSE IF g.difficulty > 40 THEN IF g.total < 6 THEN 120 ELSE 450
            ELSE IF g.total < 6 THEN 0 ELSE 240
  IN {Min({n, g.total - 1}) : n \in IF g.difficulty > 25 THEN NoteCounts(<<p2, 0>>) ELSE {0}}

\* A row of notes at one time, each in another column.
Row(g, s, hold, time, n) ==
  LET Place(r, i) == {[row |-> AddNote(g, r.row, c, time, time), next |-> c] :
                        c \in FindRandom(r.next, ColumnsOf(g.total), RowTaken(hold, r.row))}
  IN Rounds(n, {[row |-> EmptyPattern, next |-> s.next]}, Place)

generate_hold_and_normal_notes(g) ==
  LET NoHead == g.head \intersect {"Whistle", "Finish", "Clap"} = {}
      Joined(p, q) == [hit_objects |-> p.hit_objects \o q.hit_objects,
                       contained_columns |-> p.contained_columns \union q.contained_columns]
      From(hold, n) ==
        LET Round(s, i) ==
              IF NoHead /\ At(g, i - 1) = g.start THEN {s}
              ELSE {[pattern |-> Joined(s.pattern, r.row), next |-> r.next] :
                      r \in Row(g, s, hold, At(g, i - 1), n)}
            begin == {[pattern |-> AddNote(g, EmptyPattern, hold, g.start, g.end), next |-> c] :
                        c \in ColumnsOf(g.total)}
        IN {s.pattern : s \in Rounds(g.span_count + 1, begin, Round)}
  IN UNION {From(hold, n) : hold \in FoundFirst(g), n \in RowCounts(g)}

-----------------------------------------------------------------------------
(* generate: by the length of the slider's spans *)

Chords(g) ==
  LET low == "LOW_PROBABILITY" \in g.type
      d   == g.difficulty
  IN generate_n_random_notes(g,
       IF d > 65 THEN IF low THEN <<780, 300, 0>> ELSE <<850, 360, 30>>
       ELSE IF d > 40 THEN IF low THEN <<430, 80, 0>> ELSE <<560, 180, 0>>
       ELSE IF d > 25 THEN IF low THEN <<300, 0, 0>> ELSE <<370, 80, 0>>
       ELSE IF low THEN <<170, 0, 0>> ELSE <<270, 0, 0>>)

NotStacked(g) == [g EXCEPT !.type = @ \union {"FORCE_NOT_STACK"}]

OneSpan(g) ==
  IF g.segment_duration > 110 THEN Chords(g)
  ELSE generate_random_notes(IF Cardinality(g.prev.columns) < g.total THEN NotStacked(g) ELSE g,
                             IF g.segment_duration >= 80 THEN 2 ELSE 1)

ManySpans(g) ==
  IF g.segment_duration <= 90 THEN generate_random_hold_notes(g, 1)
  ELSE IF g.segment_duration <= 120 THEN generate_random_notes(NotStacked(g), g.span_count + 1)
  ELSE IF g.segment_duration <= 160 THEN generate_stair(g)
  ELSE IF g.segment_duration <= 200 /\ g.difficulty > 30 THEN generate_random_multiple_notes(g)
  ELSE IF g.end - g.start >= 4000 THEN generate_n_random_notes(g, <<230, 0, 0>>)
  ELSE IF g.segment_duration > 400 /\ g.span_count < g.total - 1 - random_start(g.total)
       THEN generate_tiled_hold_notes(g)
  ELSE generate_hold_and_normal_notes(g)

PathPatterns(g) == IF g.total = 1 THEN {AddNote(g, EmptyPattern, 0, g.start, g.end)}
                   ELSE IF g.span_count > 1 THEN ManySpans(g) ELSE OneSpan(g)

\* What further generation looks at: of several notes only those that end with the slider.
EndTimePattern(g, pattern) ==
  LET Ends(n) == n.end = g.end
      ending == SelectSeq(pattern.hit_objects, Ends)
  IN IF Len(pattern.hit_objects) = 1 THEN pattern
     ELSE [hit_objects |-> ending,
           contained_columns |-> {ColumnAt(n.x, g.total) : n \in ToSet(ending)}]

\* EndTimeObjectPatternGenerator: one note, a hold if it is long enough.
EndTimePatterns(g) ==
  LET end     == IF g.end - g.start >= 100 THEN g.end ELSE g.start
      taken   == IF Cardinality(g.prev.columns) = g.total THEN {} ELSE g.prev.columns
      columns == IF g.total = 8 /\ "Finish" \in g.sample /\ g.end - g.start < 1000 THEN {0}
                 ELSE UNION {FindRandom(first, ColumnsOf(g.total), taken) :
                               first \in ColumnsOf(g.total)}
  IN {AddNote(g, EmptyPattern, c, g.start, end) : c \in columns}
=============================================================================
