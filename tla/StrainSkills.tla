----------------------------- MODULE StrainSkills -----------------------------
(***************************************************************************)
(* The skills of osu!, osu!catch and osu!mania, fed the difficulty objects *)
(* of a map one by one, and what this fork (CC V3) makes of the osu! ones  *)
(* afterwards: the dominant tap bpm, the speed rework, the local star      *)
(* rating of each minute and the chunks for misses of Relax and Autopilot. *)
(*                                                                         *)
(* A strain is kept as "it is positive", which a decay does not change;    *)
(* the strain of the speed skill for each object is also kept as a level,  *)
(* as the dominant bpm ranks them.  Whether an object's position adds to a *)
(* strain, and the level of its speed, are up to formulas that are not     *)
(* modelled.  Aim with and without sliders is one skill here.              *)
(*                                                                         *)
(* Of the delta times CC V3 takes the bpm at which the hardest part of an  *)
(* osu! map is tapped, the multiplier of the speed value that follows from *)
(* it, and where the misses of a Relax score happened.  Delta times are    *)
(* whole milliseconds; a note every d ms is tapped at 15000 / d bpm.       *)
(***************************************************************************)
EXTENDS StrainSections, FiniteSets, FiniteSetsExt, TLC

CONSTANTS OsuMaps, CatchMaps, ManiaMaps, \* maps, sequences of objects [start, spinner]
          Takes,           \* values of passed_objects
          SectionLen, CatchSectionLen,
          Levels,          \* of a positive speed strain
          PeaksPerMinute,  \* 150 sections of 400 ms
          MaxMisses,       \* bound on the misses of a score
          None,
          TopShare,    \* one in so many objects counts as hard: 10
          ChainMin,    \* sustained_chain_min
          UrThreshold, \* sustained_ur_threshold, a standard deviation in ms
          ChunkLen,    \* 4 notes
          Unit         \* 1 / delta_time is counted in units of 1 / Unit

VARIABLES mode, map,
          take,
          processed,       \* how many difficulty objects the skills were fed
          skills, strain,  \* of each skill: its sections, and whether it has strain left
          object_strains,  \* of the speed skill, one per processed object
          attrs,           \* None, then what difficulty() adds after the skills
          judged           \* None, then where the misses of a score were placed

vars == <<mode, map, take, processed, skills, strain, object_strains, attrs, judged>>

-----------------------------------------------------------------------------
(* CC V3 *)

NerfLoBpm == 300
NerfHiBpm == 360
BuffLoBpm == 380
BuffHiBpm == 440

-----------------------------------------------------------------------------
(* dominant_tap_bpm_from_owned *)

\* The strain that the hardest objects reach, one in TopShare of them at least.
Threshold(strains) ==
  LET sorted == SortSeq(strains, LAMBDA a, b : a > b)
  IN  sorted[CeilDiv(Len(strains), TopShare)]

\* The objects whose delta times are collected; strains may be the shorter list.
Hardest(strains, deltas) ==
  IF strains = << >> \/ deltas = << >> \/ Threshold(strains) = 0 THEN {}
  ELSE {i \in DOMAIN strains \intersect DOMAIN deltas :
          strains[i] >= Threshold(strains) /\ deltas[i] > 0}

\* Twice the median of the delta times at the positions S, which has a member.
TwiceMedian(deltas, S) ==
  LET Before(i, j) == deltas[i] < deltas[j] \/ (deltas[i] = deltas[j] /\ i < j)
      At(k) == deltas[CHOOSE i \in S : Cardinality({j \in S : Before(j, i)}) = k]
      m     == Cardinality(S) \div 2
  IN  IF Cardinality(S) % 2 = 1 THEN 2 * At(m) ELSE At(m - 1) + At(m)

\* The bpm is 30000 / twice the median, or 0 without objects; `med` is twice the median.
BpmAbove(med, bpm) == med > 0 /\ 30000 > bpm * med
BpmBelow(med, bpm) == med = 0 \/ 30000 < bpm * med

-----------------------------------------------------------------------------
(* find_sustained_chain *)

\* Variant of ChainStart that goes on after a gap out of range.
ChainStartEver(deltas, i) == 1

InRange(d) == 15000 <= NerfHiBpm * d /\ NerfLoBpm * d <= 15000

\* chain_start when object i is looked at: the latest object out of range, which is
\* the chain's own first one.
ChainStart(deltas, i) == Max({1} \cup {j \in 2..i : ~InRange(deltas[j])})

\* The delta times of objects a to b deviate by no more than the threshold.
Steady(deltas, a, b) ==
  LET n   == b - a + 1
      sum == MapThenSumSet(LAMBDA i : deltas[i], a..b)
      sqs == MapThenSumSet(LAMBDA i : deltas[i] * deltas[i], a..b)
  IN  n * sqs - sum * sum <= n * n * UrThreshold * UrThreshold

FindSustainedChain(deltas) ==
  /\ Len(deltas) >= ChainMin
  /\ \E i \in 2..Len(deltas) :
       LET start == ChainStart(deltas, i)
       IN  InRange(deltas[i]) /\ i - start + 1 >= ChainMin /\ Steady(deltas, start, i)

-----------------------------------------------------------------------------
(* compute_mult, up to the factor of rhythm_quality *)

InNerfZone(med) == BpmAbove(med, NerfLoBpm) /\ ~BpmAbove(med, NerfHiBpm)

\* The parts of bpm_curve.
BpmCurve(med) == CASE ~BpmAbove(med, NerfLoBpm) -> "untouched"
                   [] InNerfZone(med)           -> "nerf_ramp"
                   [] BpmAbove(med, NerfHiBpm) /\ BpmBelow(med, BuffLoBpm) -> "dead_zone"
                   [] ~BpmBelow(med, BuffLoBpm) /\ BpmBelow(med, BuffHiBpm) -> "buff_ramp"
                   [] OTHER -> "buff_cap"

ComputeMult(deltas, med) ==
  IF InNerfZone(med) /\ FindSustainedChain(deltas) THEN "sustained_bonus" ELSE BpmCurve(med)

-----------------------------------------------------------------------------
(* rx_chunk_hardness, computed with the difficulty *)

\* Objects at the time of their predecessor are left out; what is left after the last
\* whole chunk is one of its own.
ChunkHardness(deltas) ==
  LET ds == SelectSeq(deltas, LAMBDA d : d > 0)
      Chunk(k) == {i \in DOMAIN ds : CeilDiv(i, ChunkLen) = k}
  IN  [k \in 1..CeilDiv(Len(ds), ChunkLen) |->
         MapThenSumSet(LAMBDA i : Unit \div ds[i], Chunk(k))]

-----------------------------------------------------------------------------
(* rx_miss_multiplier: the combo tells the pair of chunks of the first miss, and the other
   misses go to the chunks from there on, by hardness.  Positions count from 0. *)

PairCount(chunks) == (chunks + 1) \div 2

\* Where `combo` of `map_max_combo` lies among n parts.
PartAt(combo, map_max_combo, n) ==
  LET least == IF combo < map_max_combo THEN combo ELSE map_max_combo
      part  == (least * n) \div map_max_combo
  IN  IF part < n THEN part ELSE n - 1

\* `extra * share`, rounded
Rounded(extra, part, whole) == (2 * extra * part + whole) \div (2 * whole)

\* Variant of MissesHere that does not stop at what is left.
MissesHereFreely(extra, applied, part, whole) == Rounded(extra, part, whole)

\* How many of the extra misses go to a chunk when `applied` are placed before it.
MissesHere(extra, applied, part, whole) ==
  LET here == Rounded(extra, part, whole)
  IN  IF here < extra - applied THEN here ELSE extra - applied

\* The score of `misses` misses: whether the flat penalty applies to all of them;
\* else the pair of the first, and how many of the others each chunk gets.
Place(hardness, misses, combo, map_max_combo) ==
  LET n     == Len(hardness)
      extra == misses - 1
      first == PartAt(combo, map_max_combo, n)
      tail  == MapThenSumSet(LAMBDA i : hardness[i], (first + 1)..n)
      placed[i \in 0..n] ==
        IF i <= first THEN [here |-> 0, applied |-> 0]
        ELSE LET before == placed[i - 1].applied
                 here   == MissesHere(extra, before, hardness[i], tail)
             IN  [here |-> here, applied |-> before + here]
  IN  IF n = 0 \/ map_max_combo = 0 THEN [flat |-> misses]
      ELSE [flat  |-> extra - placed[n].applied,
            pair  |-> PartAt(combo, map_max_combo, PairCount(n)),
            first |-> first,
            here  |-> [i \in 1..n |-> placed[i].here]]

-----------------------------------------------------------------------------
(* The skills *)

SkillsOf(m) == CASE m = "Osu"   -> {"aim", "speed", "flashlight"}
                 [] m = "Catch" -> {"movement"}
                 [] m = "Mania" -> {"strain"}
LenOf(m) == IF m = "Catch" THEN CatchSectionLen ELSE SectionLen

\* All of a mode begin with no strain but osu!mania's, whose overall_strain is 1.
Init == /\ mode \in {"Osu", "Catch", "Mania"}
        /\ map \in CASE mode = "Osu"   -> OsuMaps
                     [] mode = "Catch" -> CatchMaps
                     [] mode = "Mania" -> ManiaMaps
        /\ take \in Takes
        /\ processed = 0
        /\ skills = [s \in SkillsOf(mode) |-> NoPeaks]
        /\ strain = [s \in SkillsOf(mode) |-> mode = "Mania"]
        /\ object_strains = << >>
        /\ attrs = None /\ judged = None

-----------------------------------------------------------------------------
(* create_difficulty_objects: the first object has none *)

Start(i) == map[i + 1].start
Spinner(i) == map[i + 1].spinner
Created == IF map = << >> \/ take = 0 THEN 0 ELSE Len(map) - 1
DeltaTimes == [i \in 1..Created |-> map[i + 1].start - map[i].start]

\* The skills see those of the objects that are passed.
ToProcess == Max({0, Min({Len(map), take}) - 1})

-----------------------------------------------------------------------------
(* process *)

\* Whether a skill has strain after object i, whose position adds to it when it `moves`:
\* aim needs two difficulty objects before it, and no spinner at either end of the jump.
AimAfter(i, moves) ==
  strain["aim"] \/ (moves /\ i >= 3 /\ ~Spinner(i) /\ ~Spinner(i - 1))
FlashlightAfter(i, moves) == strain["flashlight"] \/ (moves /\ ~Spinner(i))
MovementAfter(moves) == strain["movement"] \/ moves

\* The speed strain is multiplied with the rhythm, which is 0 at a spinner; in osu!mania
\* every note adds strain.
StrainAfter(s, i, moves, level) ==
  CASE s = "aim"        -> AimAfter(i, moves)
    [] s = "flashlight" -> FlashlightAfter(i, moves)
    [] s = "speed"      -> level > 0
    [] s = "movement"   -> MovementAfter(moves)
    [] s = "strain"     -> TRUE

\* calculate_initial_strain: what is left of the strain of the object before.
InitialStrain(s, time) == strain[s]

Process ==
  /\ processed < ToProcess
  /\ \E moves \in BOOLEAN,
        level \in IF mode = "Osu" /\ ~Spinner(processed + 1) THEN Levels ELSE {0} :
       LET i     == processed + 1
           after == [s \in SkillsOf(mode) |-> StrainAfter(s, i, moves, level)]
       IN /\ processed' = i
          /\ strain' = after
          /\ skills' = [s \in SkillsOf(mode) |->
                          LET begun == BegunSections(skills[s], i = 1, Start(i), LenOf(mode))
                          IN Advanced(skills[s], i = 1, Start(i), LenOf(mode), after[s],
                                      [k \in DOMAIN begun |-> InitialStrain(s, begun[k])])]
          /\ object_strains' =
               IF mode = "Osu" THEN Append(object_strains, level) ELSE object_strains
  /\ UNCHANGED <<mode, map, take, attrs, judged>>

-----------------------------------------------------------------------------
(* difficulty(), after the skills *)

\* local_sr_per_minute and ap_local_sr_per_minute: the peaks each minute is rated by.
Slice(peaks, from, to) == [j \in 1..(to - from) |-> peaks[from + j]]
LocalSrPerMinute(aim, speed) ==
  [k \in 1..CeilDiv(Len(aim), PeaksPerMinute) |->
     LET from == (k - 1) * PeaksPerMinute
         to   == IF k * PeaksPerMinute < Len(aim) THEN k * PeaksPerMinute ELSE Len(aim)
     IN  [aim |-> Slice(aim, from, to), speed |-> Slice(speed, from, to)]]

\* rx_chunk_avg_delta is declared and read, but set nowhere.
Finish ==
  /\ mode = "Osu" /\ processed = ToProcess /\ attrs = None
  /\ LET hardest == Hardest(object_strains, DeltaTimes)
         median  == IF hardest = {} THEN 0 ELSE TwiceMedian(DeltaTimes, hardest)
     IN attrs' = [hardest             |-> hardest,
                  dominant_tap_bpm    |-> median,
                  speed_rework_mult   |-> ComputeMult(DeltaTimes, median),
                  local_sr_per_minute |-> LocalSrPerMinute(AllPeaks(skills["aim"]),
                                                           AllPeaks(skills["speed"])),
                  rx_chunk_hardness   |-> ChunkHardness(DeltaTimes),
                  rx_chunk_avg_delta  |-> << >>]
  /\ UNCHANGED <<mode, map, take, processed, skills, strain, object_strains, judged>>

\* A Relax score on a map without sliders: each object that was passed is worth a combo
\* of one, while the chunks are those of the whole map.
MaxCombo == IF take < Len(map) THEN take ELSE Len(map)

JudgeMisses ==
  /\ attrs # None /\ judged = None
  /\ \E misses \in 1..MaxMisses, combo \in 0..MaxCombo :
       judged' = [misses |-> misses,
                  placed |-> Place(attrs.rx_chunk_hardness, misses, combo, MaxCombo)]
  /\ UNCHANGED <<mode, map, take, processed, skills, strain, object_strains, attrs>>

Next == Process \/ Finish \/ JudgeMisses

Spec == Init /\ [][Next]_vars

-----------------------------------------------------------------------------
(* Properties *)

\* Every skill has one peak per section up to the object at hand, so that the peaks of
\* aim and speed can be taken by the same positions.  A speed peak is positive only
\* when a note lies in its section or was the latest object when it began: spinners
\* leave nothing; in osu!mania every peak is.  The minutes of the marathon nerf hold
\* each peak of both skills once, in order.
PeaksAreTheirSections ==
  processed > 0 =>
    LET first == Start(1)
        len   == LenOf(mode)
        Flat(field) ==
          LET minutes == attrs.local_sr_per_minute
              upto[k \in 0..Len(minutes)] ==
                IF k = 0 THEN << >> ELSE upto[k - 1] \o minutes[k][field]
          IN  upto[Len(minutes)]
    IN /\ \A s \in SkillsOf(mode) :
            /\ Len(skills[s].peaks) = SavedSince(skills[s], first, len)
            /\ skills[s].end = SectionEndOf(Start(processed), len)
       /\ mode = "Mania" => \A k \in DOMAIN skills["strain"].peaks : skills["strain"].peaks[k]
       /\ mode = "Osu" =>
            \A k \in DOMAIN skills["speed"].peaks : skills["speed"].peaks[k] =>
              \E i \in 1..processed :
                /\ ~Spinner(i)
                /\ \/ Holds(k, Start(i), first, len)
                   \/ /\ Start(i) <= BeginOf(k, first, len)
                      /\ \A j \in (i + 1)..processed : Start(j) > BeginOf(k, first, len)
       /\ attrs # None => \A s \in {"aim", "speed"} : Flat(s) = AllPeaks(skills[s])

\* The tap bpm is that of the hardest objects that were passed: one in TopShare at
\* least, none harder is left out, and no weaker one is needed for the share.  The
\* bonus for stamina takes a run of ChainMin objects within 300 and 360 bpm.
SpeedReworkIsEarned ==
  attrs # None =>
    LET Passed   == 1..Len(object_strains)
        Level(i) == object_strains[i]
        AsHard(i) == {j \in Passed : Level(j) >= Level(i)}
        Share    == CeilDiv(Len(object_strains), TopShare)
        Top      == {i \in Passed : Level(i) > 0 /\
                       Cardinality({j \in Passed : Level(j) > Level(i)}) < Share}
    IN /\ attrs.hardest = {i \in Top : DeltaTimes[i] > 0
                                         /\ \E k \in Passed : /\ Level(k) > 0
                                                              /\ Cardinality(AsHard(k)) >= Share}
       /\ attrs.speed_rework_mult = "sustained_bonus" =>
            /\ attrs.hardest # {}
            /\ \E a, b \in 1..Created : /\ b - a + 1 >= ChainMin
                                        /\ \A i \in (a + 1)..b : InRange(DeltaTimes[i])

\* Every miss of a score is counted once, whatever rounding does: the first one, those
\* placed in a chunk no earlier than the first one's, and the rest at a flat rate.
EveryMissIsPlaced ==
  judged # None /\ "pair" \in DOMAIN judged.placed =>
    LET p == judged.placed
    IN /\ p.flat >= 0
       /\ 1 + MapThenSumSet(LAMBDA i : p.here[i], DOMAIN p.here) + p.flat = judged.misses
       /\ p.pair < PairCount(Len(p.here)) /\ p.first < Len(p.here)
       /\ \A i \in 1..p.first : p.here[i] = 0

\* The comment of compute_mult: "if we're in the nerf zone AND a long consecutive 1/4
\* chain exists with low UR, upgrade the bpm_mult from nerf to slight buff".  A chain
\* is objects that follow each other within the range, whatever the gap before them.
ChainsAreFound ==
  attrs # None /\ InNerfZone(attrs.dominant_tap_bpm)
    /\ (\E a, b \in 1..Created : /\ b - a + 1 >= ChainMin
                                 /\ \A i \in (a + 1)..b : InRange(DeltaTimes[i])
                                 /\ Steady(DeltaTimes, a + 1, b))
  => attrs.speed_rework_mult = "sustained_bonus"

\* The comment of rx_chunk_avg_delta: "average delta_time (ms) per 4-note chunk".
ChunksHaveDeltas ==
  attrs # None => Len(attrs.rx_chunk_avg_delta) = Len(attrs.rx_chunk_hardness)
=============================================================================
