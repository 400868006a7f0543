------------------------------ MODULE AnyGradual ------------------------------
(***************************************************************************)
(* GradualDifficulty and GradualPerformance for a map of any mode.  Both   *)
(* hold the calculator of one mode and pass every call on; the variables   *)
(* below are those of the four calculators, shared where a mode has no     *)
(* use for another's, as the variants of the two enums share their memory. *)
(*                                                                         *)
(* GradualPerformance takes the score so far with each call.  It asks the  *)
(* calculator of the mode for difficulty attributes, starts a performance  *)
(* builder from them and lets it generate a state for the objects that     *)
(* were passed.                                                            *)
(***************************************************************************)
EXTENDS ObjectRuns, FiniteSets, Integers, TLC

CONSTANTS OsuMaps, TaikoMaps, CatchMaps, ManiaMaps,  \* the maps, by mode
          ClockRates, PassedObjects,                 \* settings of Difficulty
          MaxCall,     \* bound on the n of nth(n); stands for usize::MAX too
          Scores,      \* the ScoreStates the caller knows
          USizeSpan,   \* 2^64 of the program: where usize arithmetic wraps
          MaxTicks, Mantissa, FractionBits, TickLen, None

ASSUME MaxCallAssumption == MaxCall \in Nat
ASSUME SpanAssumption ==
  USizeSpan \in Nat /\ USizeSpan > MaxCall /\ \A m \in TaikoMaps : USizeSpan > Len(m)
ASSUME FloatAssumption ==
  Mantissa \in Nat \ {0} /\ FractionBits \in Nat /\ 2 ^ FractionBits \in Nat \ {0}
ASSUME TickAssumption == TickLen \in Nat \ {0} /\ MaxTicks \in Nat
ASSUME PassedAssumption == PassedObjects \subseteq Nat

VARIABLES
  mode,
  performs,     \* a GradualPerformance, else a GradualDifficulty
  lazer,        \* difficulty.get_lazer()
  map, passed, rate,
  checked,      \* a build with overflow checks
  recorded, palpables, count,   \* osu!catch: the converted map
  diff_objects,                 \* osu!mania: times of the difficulty objects
  idx, attrs,   \* what was counted so far; in osu!taiko just the combo
  skills,       \* the difficulty objects the skills processed
  iter, panicked,               \* osu!taiko
  call, answer, \* the latest call of the calculator
  performance,  \* the score of the latest call and the state generated for it
  promised      \* the answers of one-shot calculations of the map, by the number of
                \* objects that are passed (fixed)

osu_only    == <<rate, checked, recorded, palpables, count, diff_objects, iter, panicked>>
taiko_only  == <<passed, rate, recorded, palpables, count, diff_objects>>
catch_only  == <<passed, rate, checked, diff_objects, iter, panicked>>
mania_only  == <<checked, recorded, palpables, count, iter, panicked>>
kind        == <<mode, performs, lazer, promised>>
vars == <<kind, map, passed, rate, checked, recorded, palpables, count, diff_objects,
          idx, attrs, skills, iter, panicked, call, answer, performance>>

Osu   == INSTANCE OsuGradual WITH Maps <- OsuMaps
Taiko == INSTANCE TaikoGradual WITH Maps <- TaikoMaps, max_combo <- attrs
Catch == INSTANCE CatchGradual WITH Maps <- CatchMaps, movement <- skills
Mania == INSTANCE ManiaGradual WITH Maps <- ManiaMaps, note_state <- attrs, strain <- skills

\* The slider events of an osu!catch object end in the tail of the slider.
ASSUME MapsAssumption ==
  /\ OsuMaps \subseteq Seq(Osu!HitObjects)
  /\ TaikoMaps \subseteq Seq(BOOLEAN)
  /\ CatchMaps \subseteq Seq(Seq(Catch!Event))
  /\ \A m \in CatchMaps : \A i \in DOMAIN m : m[i] # << >> => Catch!Palpable(m[i][Len(m[i])])
  /\ ManiaMaps \subseteq Seq([start : Nat, duration : Nat])

\* However it is rounded, what is counted of a hold note is a number.
ASSUME LateTicksAssumption ==
  \A m \in ManiaMaps, r \in ClockRates : \A i \in 2..Len(m) : Mania!LateTicks(m[i], r) \in Nat

\* None is no answer of a calculator.
ASSUME NoneAssumption ==
  /\ None \notin [count : Osu!Counters, seen : [Osu!Skills -> Seq(Nat)], ccv3 : Seq(Nat)]
  /\ None \notin [max_combo : Nat, seen : Seq(Nat)]
  /\ None \notin [count : [fruits : Nat, droplets : Nat, tiny_droplets : Nat], seen : Seq(Nat)]
  /\ None \notin [max_combo : Nat, n_hold_notes : Nat, n_objects : Nat, strain : Seq(Nat)]

\* The builders, of scores without an accuracy.
Builder == INSTANCE AnyPerformance
             WITH Plays <- {}, play <- [den |-> 1], source <- None, opts <- None,
                  out <- None, asked <- None

GameModes == {"Osu", "Taiko", "Catch", "Mania"}

-----------------------------------------------------------------------------
(* new, which picks the calculator of the map's mode *)

New ==
  \/ /\ mode = "Osu" /\ Osu!Init
     /\ rate = None /\ checked = None /\ recorded = None /\ palpables = None
     /\ count = None /\ diff_objects = None /\ iter = None /\ panicked = FALSE
  \/ /\ mode = "Taiko" /\ Taiko!Init
     /\ passed = None /\ rate = None /\ recorded = None /\ palpables = None
     /\ count = None /\ diff_objects = None
  \/ /\ mode = "Catch" /\ Catch!Init
     /\ passed = None /\ rate = None /\ checked = None /\ diff_objects = None
     /\ iter = None /\ panicked = FALSE
  \/ /\ mode = "Mania" /\ Mania!Init
     /\ checked = None /\ recorded = None /\ palpables = None /\ count = None
     /\ iter = None /\ panicked = FALSE

\* What the one-shot calculation answers for passed_objects(k), for each k for which the
\* calculator has an answer.
OneShotAnswers ==
  CASE mode = "Osu"   -> [k \in 1..Osu!Total |-> Osu!PromisedAnswer(k)]
    [] mode = "Taiko" -> [k \in 1..Taiko!total_hits(map) |-> Taiko!Calculate(map, k)]
    [] mode = "Catch" -> [k \in 1..Len(palpables) |-> Catch!Calculate(recorded, palpables, k)]
    [] mode = "Mania" -> [k \in 1..Mania!Total |-> Mania!Calculate(map, k)]

Init == /\ mode \in GameModes /\ performs \in BOOLEAN
        /\ lazer \in IF performs /\ mode \in {"Osu", "Mania"} THEN BOOLEAN ELSE {TRUE}
        /\ New
        /\ performance = None
        /\ promised = OneShotAnswers

-----------------------------------------------------------------------------
(* GradualDifficulty *)

next == \/ mode = "Osu"   /\ Osu!CallNext   /\ UNCHANGED osu_only
        \/ mode = "Taiko" /\ Taiko!CallNext /\ UNCHANGED taiko_only
        \/ mode = "Catch" /\ Catch!CallNext /\ UNCHANGED catch_only
        \/ mode = "Mania" /\ Mania!CallNext /\ UNCHANGED mania_only

nth(n) == \/ mode = "Osu"   /\ Osu!CallNth(n)   /\ UNCHANGED osu_only
          \/ mode = "Taiko" /\ Taiko!CallNth(n) /\ UNCHANGED taiko_only
          \/ mode = "Catch" /\ Catch!CallNth(n) /\ UNCHANGED catch_only
          \/ mode = "Mania" /\ Mania!CallNth(n) /\ UNCHANGED mania_only

DifficultyNext == ~performs /\ next /\ UNCHANGED <<kind, performance>>
DifficultyNth(n) == ~performs /\ nth(n) /\ UNCHANGED <<kind, performance>>

\* nth panicked in len(), whichever of the two called it.
NthPanics == /\ mode = "Taiko" /\ Taiko!NthPanics
             /\ UNCHANGED <<kind, taiko_only, performance>>
Poisoned == panicked /\ UNCHANGED vars

\* ExactSizeIterator::len
len == CASE mode = "Osu"   -> Osu!len
         [] mode = "Taiko" -> Taiko!len
         [] mode = "Catch" -> Catch!len
         [] mode = "Mania" -> Mania!len

-----------------------------------------------------------------------------
(* GradualPerformance *)

\* What a builder takes from the difficulty attributes `a` of a calculator.
CountOf(a) == CASE mode \in {"Osu", "Catch"} -> a.count
                [] mode = "Taiko"            -> [max_combo |-> a.max_combo]
                [] mode = "Mania"            -> [n_objects |-> a.n_objects,
                                                 n_hold_notes |-> a.n_hold_notes]

Lazer(o) == [f \in DOMAIN o \intersect {"lazer"} |-> lazer] @@ o

\* Variant of Settings in which `difficulty` is called last and its own limit stays.
SettingsUnlimited(score, i) ==
  Builder!FromScore(mode, score)
    @@ Lazer(Builder!NewOf(mode, IF passed \in Nat THEN passed ELSE Builder!NoLimit))

\* The builder for a score of which i objects were passed.
Settings(score, i) == Builder!FromScore(mode, score) @@ Lazer(Builder!NewOf(mode, i))

\* The states calculate() may generate from attributes that count c.
GeneratedFor(o, c) == CASE mode = "Osu"   -> Builder!Osu!States(o, c)
                        [] mode = "Taiko" -> Builder!Taiko!States(o, c)
                        [] mode = "Catch" -> Builder!Catch!States(o, c)
                        [] mode = "Mania" -> Builder!Mania!States(o, c)

\* nth(state, n), of which next(state) is the case n = 0 and last(state) the case of
\* the largest n.
PerformanceNth(score, n) ==
  /\ performs
  /\ nth(n)
  /\ \/ answer' = None /\ performance' = None
     \/ /\ answer' # None
        /\ \E s \in GeneratedFor(Settings(score, idx'), CountOf(answer')) :
             performance' = [score |-> score, state |-> s]
  /\ UNCHANGED kind

Next == \/ DifficultyNext
        \/ \E n \in 0..MaxCall : \/ DifficultyNth(n)
                                 \/ \E score \in Scores : PerformanceNth(score, n)
        \/ NthPanics
        \/ Poisoned

Spec == Init /\ [][Next]_vars

\* A client that keeps asking a GradualDifficulty, as a `for` loop over the iterator does.
\* GradualPerformance is no iterator; nothing makes its caller go on.
FairSpec == Spec /\ WF_vars(DifficultyNext)

-----------------------------------------------------------------------------
(* Properties *)

\* However next and nth were mixed: the skills have processed each difficulty object up
\* to the position once and in order, and the counters cover the same objects.
Fed == CASE mode = "Osu"   -> Osu!Prefix
         [] mode = "Taiko" -> Taiko!Fed
         [] mode = "Catch" -> Catch!Prefix
         [] mode = "Mania" -> Mania!Prefix

\* osu!catch: the two lists that are built apart line up, so that count[idx] is in range.
CountsLineUp == mode = "Catch" => Catch!CountsLineUp

\* osu!taiko: len() underflows, and a checking build panics, only on a map whose first
\* two objects are not both hits.
OnlyOddMapsPanic == mode = "Taiko" => Taiko!OnlyOddMapsPanic

\* Nothing can follow a None: by then the whole map was processed and counted.
DrainedIsWhole == answer = None => /\ mode = "Taiko" => Taiko!DrainedIsWhole
                                   /\ mode = "Catch" => Catch!NothingLeft

\* The calculator keeps the contract: the k-th answer is what a one-shot calculation
\* with passed_objects(k) counts and processes.
Regular == mode = "Taiko" => Taiko!Plain
Contract == INSTANCE GradualContract WITH
  pos <- idx,
  answer <- IF mode # "Osu" \/ answer = None THEN answer
            ELSE [count |-> answer.count, seen |-> answer.seen]

KeepsContract == /\ Regular => Contract!Init
                 /\ [][Regular => Contract!Next \/ UNCHANGED Contract!vars]_vars

\* On the maps the contract is for, a map without objects left aside, len() foretells
\* whether the coming call yields an answer, and an answer makes it one less.
LenForetells ==
  [][Regular /\ promised # << >> /\ call' = 0 =>
       IF len > 0 THEN answer' # None /\ len' = len - 1
                  ELSE answer' = None /\ len' = len]_vars

\* The tests' assert_eq!(next_gradual, expected), as far as the score goes: each step of
\* GradualPerformance judges the score as a new builder does that is given the map,
\* the score and passed_objects(idx).
StepIsOneShot ==
  Regular /\ performance # None =>
    LET new == [Builder!NewOf(mode, Builder!NoLimit) EXCEPT !.passed = idx]
        set == Builder!FromScore(mode, performance.score) @@ Lazer(new)
    IN performance.state \in GeneratedFor(set, CountOf(promised[idx]))

\* A client that keeps asking gets to the end of any map that gives answers, unless nth
\* panicked on the way.
Drains == Regular /\ ~performs => <>(panicked \/ (answer = None /\ idx = Len(promised)
                                       /\ (idx > 0 => Fed)))

\* osu!mania, the test's assert_eq!(next_gradual, expected)
\* (mania/difficulty/gradual.rs:267), at whatever clock rate.
GradualEqualsPassed == mode = "Mania" => Mania!GradualEqualsPassed
=============================================================================
