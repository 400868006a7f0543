----------------------------- MODULE MCAnySkills -----------------------------
(***************************************************************************)
(* Maps for TLC.  osu!taiko: evenly spaced ones that are long enough for   *)
(* patterns of colours to repeat, and short ones with every mix of gaps:   *)
(* none, a fast one, a slow one, one that reaches the section's end or     *)
(* skips a section.  The others: short ones with spinners whose gaps end a *)
(* section or skip some, and, for osu! alone, longer ones without spinners *)
(* with 1/4 taps at 333 bpm (45 ms), slower taps and breaks between them.  *)
(***************************************************************************)
EXTENDS AnySkills, Sequences

CONSTANTS EvenLen, EvenGap, MixedLen, Gaps, Starts,
          SectionMapLen, SectionGaps, ChainMapLen, ChainGaps

TimesOf(start, gaps) ==
  LET upto[i \in 0..Len(gaps)] == IF i = 0 THEN start ELSE upto[i - 1] + gaps[i]
  IN [i \in 1..(Len(gaps) + 1) |-> upto[i - 1]]

MCTimes ==
  {TimesOf(0, [i \in 1..(n - 1) |-> EvenGap]) : n \in 3..EvenLen}
    \cup {TimesOf(start, gaps) : start \in Starts, gaps \in [1..(MixedLen - 1) -> Gaps]}

Circle(t) == [start |-> t, spinner |-> FALSE]
Circles(ts) == [i \in DOMAIN ts |-> Circle(ts[i])]

SectionTimes == {TimesOf(start, gaps) : start \in Starts,
                   gaps \in UNION {[1..k -> SectionGaps] : k \in 0..(SectionMapLen - 1)}}
SectionMaps == UNION {{[i \in DOMAIN ts |-> [start |-> ts[i], spinner |-> spinner[i]]] :
                         spinner \in [DOMAIN ts -> BOOLEAN]} : ts \in SectionTimes}
MCCatchMaps == {Circles(ts) : ts \in SectionTimes}
MCManiaMaps == MCCatchMaps
MCChainMaps == {Circles(TimesOf(0, gaps)) : gaps \in [1..(ChainMapLen - 1) -> ChainGaps]}
MCOsuMaps == {<< >>} \cup SectionMaps \cup MCChainMaps
=============================================================================
