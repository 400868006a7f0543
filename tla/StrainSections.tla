--------------------------- MODULE StrainSections ----------------------------
(***************************************************************************)
(* How a skill cuts a map into sections of equal length and saves the peak *)
(* of each: the part that the skills of all modes share.  A peak is kept   *)
(* as "it is positive".  The list of peaks is the plain list that          *)
(* StrainsVec stands for.                                                  *)
(***************************************************************************)
EXTENDS Integers, Sequences

NoPeaks == [end |-> 0, peak |-> FALSE, peaks |-> << >>]

CeilDiv(a, b) == -((-a) \div b)

\* The end of the section that holds the first object, of sections `len` long.
SectionEndOf(start, len) == CeilDiv(start, len) * len

\* Variant of Sections that saves one peak, however long the break was.
SectionsOnce(start, end, len) == IF start > end THEN 1 ELSE 0

\* How many times the section that ends at `end` gives way before it holds `start`.
Sections(start, end, len) == IF start > end THEN CeilDiv(start - end, len) ELSE 0

\* The first object, wherever it starts, sets the end of the section at hand.
EndBefore(skill, first, start, len) == IF first THEN SectionEndOf(start, len) ELSE skill.end

\* When the sections begin that give way to one another until one holds `start`.
BegunSections(skill, first, start, len) ==
  LET end == EndBefore(skill, first, start, len)
  IN [k \in 1..Sections(start, end, len) |-> end + (k - 1) * len]

\* `skill` after an object, the first one or not, that starts at `start` and has the
\* strain `value`, with the peaks that its BegunSections begin with.
Advanced(skill, first, start, len, value, initial) ==
  LET n     == Len(initial)
      peaks == <<skill.peak>> \o initial
  IN [end   |-> EndBefore(skill, first, start, len) + n * len,
      peak  |-> value \/ peaks[n + 1],
      peaks |-> skill.peaks \o SubSeq(peaks, 1, n)]

\* All peaks of a skill, that of the section at hand included.
AllPeaks(skill) == Append(skill.peaks, skill.peak)

-----------------------------------------------------------------------------
(* For properties: the sections of `skill` when the first object starts at `first` *)

SavedSince(skill, first, len) == (skill.end - SectionEndOf(first, len)) \div len

\* Section k is (BeginOf(k), BeginOf(k + 1)].
BeginOf(k, first, len) == SectionEndOf(first, len) + (k - 2) * len
Holds(k, time, first, len) ==
  /\ time <= BeginOf(k + 1, first, len)
  /\ k = 1 \/ time > BeginOf(k, first, len)
=============================================================================
