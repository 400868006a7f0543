------------------------------ MODULE AnySkills ------------------------------
(***************************************************************************)
(* The skills of the four modes over the sections of a map.  All of them   *)
(* keep their peaks the way StrainSections has it; what they are fed and   *)
(* what is made of the peaks differs: TaikoSkills has osu!taiko with its   *)
(* colour preprocessing, StrainSkills the others.  The variables are those *)
(* of both, `processed`, `skills` and `strain` shared.                     *)
(***************************************************************************)
EXTENDS Integers

CONSTANTS Times, NearColour, SlowDelta, MaxInterval,     \* of osu!taiko
          OsuMaps, CatchMaps, ManiaMaps, Takes,          \* of the other modes
          CatchSectionLen, Levels, PeaksPerMinute, MaxMisses,
          TopShare, ChainMin, UrThreshold, ChunkLen, Unit,
          SectionLen, None

VARIABLES mode, processed, skills, strain,
          times, diff_objects, color, rhythm_strain,
          map, take, object_strains, attrs, judged

taiko_only == <<times, diff_objects, color, rhythm_strain>>
other_only == <<map, take, object_strains, attrs, judged>>
vars == <<mode, processed, skills, strain, taiko_only, other_only>>

Taiko  == INSTANCE TaikoSkills
Others == INSTANCE StrainSkills

Init == \/ /\ mode = "Taiko" /\ Taiko!Init
           /\ map = None /\ take = None /\ object_strains = None
           /\ attrs = None /\ judged = None
        \/ /\ Others!Init
           /\ times = None /\ diff_objects = None /\ color = None /\ rhythm_strain = None

Next == \/ mode = "Taiko" /\ Taiko!Next /\ UNCHANGED <<mode, other_only>>
        \/ mode # "Taiko" /\ Others!Next /\ UNCHANGED taiko_only

Spec == Init /\ [][Next]_vars

-----------------------------------------------------------------------------
(* Properties *)

\* osu!taiko: a streak is of one colour, and from a note the previous and the next colour
\* change are the nearest notes of another colour before and after its streak.
ColourChangesSurround == mode = "Taiko" => Taiko!ColourChangesSurround

\* osu!taiko: the groups give the patterns, the patterns the streaks and the streaks the
\* objects, each once and in order, and repetitions are found wherever there are some.
GroupsNest == mode = "Taiko" => Taiko!GroupsNest

\* Every skill saves one peak per section, so that peaks of skills can be combined by
\* position, and a peak is positive only when something in reach of its section made it.
PeaksAreTheirSections ==
  IF mode = "Taiko" THEN Taiko!PeaksAreTheirSections ELSE Others!PeaksAreTheirSections

\* osu!: the tap bpm is that of the hardest objects passed, and the bonus for stamina
\* takes a chain of notes within 300 and 360 bpm.
SpeedReworkIsEarned == mode = "Osu" => Others!SpeedReworkIsEarned

\* osu! with Relax: each miss of a score is counted once, whatever rounding does.
EveryMissIsPlaced == mode = "Osu" => Others!EveryMissIsPlaced

\* compute_mult's "a long consecutive 1/4 chain exists with low UR" is found wherever it
\* is in the map.
ChainsAreFound == mode = "Osu" => Others!ChainsAreFound

\* rx_chunk_avg_delta's "average delta_time (ms) per 4-note chunk": one for each chunk.
ChunksHaveDeltas == mode = "Osu" => Others!ChunksHaveDeltas
=============================================================================
