---------------------------- MODULE ColumnPatterns ----------------------------
(***************************************************************************)
(* Pattern, the notes that one object becomes when a map is converted to   *)
(* mania, and PatternGenerator, what the generators of patterns share.     *)
(*                                                                         *)
(* A generator is a record `g` with the number of columns (total), the     *)
(* object (x, start, end, sample), what is remembered of the pattern       *)
(* before (prev), the PatternTypes that apply (type) and the conversion    *)
(* difficulty of the map, in tenths.  What the generator draws by lot is   *)
(* any of its outcomes here: generators return sets of patterns.           *)
(* Probabilities are in thousandths.                                       *)
(***************************************************************************)
EXTENDS Integers, SequencesExt, FiniteSetsExt

\* The column that is found where assert!(has_valid_column) fails.
NoColumn == -1

random_start(total) == IF total = 8 THEN 1 ELSE 0
ColumnsOf(total) == random_start(total)..(total - 1)

column_to_pos(column, total) == (512 * column + total - 1) \div total

\* ManiaObject::column
ColumnAt(x, total) == Min({(x * total) \div 512, total - 1})

get_column(g) == IF g.total = 8 THEN Min({(g.x * 7) \div 512, 6}) + 1 ELSE ColumnAt(g.x, g.total)

-----------------------------------------------------------------------------
EmptyPattern == [hit_objects |-> << >>, contained_columns |-> {}]

AddNote(g, pattern, column, start, end) ==
  [hit_objects |-> Append(pattern.hit_objects,
                          [x |-> column_to_pos(column, g.total), start |-> start, end |-> end]),
   contained_columns |-> pattern.contained_columns \union {column}]

AddAll(g, pattern, columns) ==
  FoldLeft(LAMBDA p, c : AddNote(g, p, c, g.start, g.start), pattern, columns)

NewNote(g, column) == AddAll(g, EmptyPattern, <<column>>)

\* What is remembered of a pattern: its columns, how many notes it has and the last one's.
Remembered(pattern, total) ==
  LET notes == pattern.hit_objects
  IN [columns |-> pattern.contained_columns, len |-> Len(notes),
      last |-> IF notes = << >> THEN 0 ELSE ColumnAt(Last(notes).x, total)]

-----------------------------------------------------------------------------
\* get_random_note_count: with probabilities for two notes and more, of which the highest
\* number that the lot allows is taken.
NoteCounts(p) ==
  {n \in 2..(Len(p) + 1) : p[n - 1] > Max({0} \union {p[m] : m \in n..Len(p)})}
  \union (IF Max(Range(p)) < 1000 THEN {1} ELSE {})

\* find_available_column, by lot: the column itself, or any that is free.
FindRandom(first, columns, taken) ==
  IF first \notin taken THEN {first}
  ELSE IF columns \subseteq taken THEN {NoColumn} ELSE columns \ taken

\* The same, going on from column to column.
FindGathered(first, columns, taken) ==
  LET free == columns \ taken
      after == {c \in free : c > first}
  IN IF first \notin taken THEN {first}
     ELSE IF free = {} THEN {NoColumn} ELSE {Min(IF after = {} THEN free ELSE after)}

\* n rounds of a loop, from each of the states it may begin in.
Rounds(n, begin, Round(_, _)) ==
  FoldLeft(LAMBDA states, i : UNION {Round(s, i) : s \in states}, begin, [i \in 1..n |-> i])
=============================================================================
