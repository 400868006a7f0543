---------------------------- MODULE AnyPerformance ----------------------------
(***************************************************************************)
(* Performance, the builder for a score of any mode.  It holds the builder *)
(* of one mode and passes every call on; a call that means nothing in that *)
(* mode is ignored.  As long as an osu!standard builder has its map, it    *)
(* can be turned into the builder of another mode, for the converted map.  *)
(*                                                                         *)
(* play holds a map in the form each of the builders reduces it to, and    *)
(* what the caller calls the setters with:                                 *)
(*   mode                            the mode of the map                   *)
(*   objects, hits, recorded, notes  the map in each of the modes          *)
(*   den                             denominator of the accuracies         *)
(*   passed                          passed_objects of known attributes    *)
(*   calls                           the arguments of each setter          *)
(*   states                          the arguments of `state`              *)
(***************************************************************************)
EXTENDS ScoreBuilder, Sequences

CONSTANTS Plays, MaxTicks

VARIABLES mode,    \* of the builder
          asked    \* by setter, what it was last called with since a state was
                   \* generated or set, unless that call was ignored (history)

vars == <<mode, play, source, opts, out, asked>>

Osu   == INSTANCE OsuScore
Taiko == INSTANCE TaikoScore
Catch == INSTANCE CatchScore
Mania == INSTANCE ManiaScore

GameModes == {"Osu", "Taiko", "Catch", "Mania"}

NewOf(m, p) == CASE m = "Osu"   -> Osu!NoOpts(p)
                 [] m = "Taiko" -> Taiko!NoOpts(p)
                 [] m = "Catch" -> Catch!NoOpts(p)
                 [] m = "Mania" -> Mania!NoOpts(p)

AttrsOf(m, p) == CASE m = "Osu"   -> Osu!Attrs(p)
                   [] m = "Taiko" -> Taiko!Attrs(p)
                   [] m = "Catch" -> Catch!Attrs(p)
                   [] m = "Mania" -> Mania!Attrs(p)

\* get_passed_objects without a limit; no map of a play has as many objects
NoLimit == 1000

-----------------------------------------------------------------------------
(* The setters *)

\* What a setter sets in the builder of each mode; the other modes ignore it.  Of the
\* mods only those matter that decide on slider head accuracy.
As(field, modes) == [m \in modes |-> field]
InCatch(caught, field, modes) == [m \in modes |-> IF m = "Catch" THEN caught ELSE field]
FieldOf ==
  [accuracy           |-> As("acc", GameModes),
   misses             |-> As("misses", GameModes),
   passed_objects     |-> As("passed", GameModes),
   combo              |-> As("combo", GameModes \ {"Mania"}),
   hitresult_priority |-> As("priority", GameModes \ {"Catch"}),
   lazer              |-> As("lazer", {"Osu", "Mania"}),
   mods               |-> As("classic", {"Osu"}),
   large_tick_hits    |-> As("large_tick_hits", {"Osu"}),
   n_slider_ends      |-> As("slider_end_hits", {"Osu"}),
   n300               |-> InCatch("fruits", "n300", GameModes),
   n100               |-> InCatch("droplets", "n100", GameModes),
   n50                |-> InCatch("tiny_droplets", "n50", GameModes \ {"Taiko"}),
   n_katu             |-> InCatch("tiny_droplet_misses", "n200", {"Catch", "Mania"}),
   n_geki             |-> As("n320", {"Mania"})]

Setters == DOMAIN FieldOf
Accepted(c) == mode \in DOMAIN FieldOf[c]
Field(c) == FieldOf[c][mode]

NothingAsked == [c \in Setters |-> None]
AskedBefore == IF out = None THEN asked ELSE NothingAsked

Setter(c) == /\ Accepted(c)
             /\ \E x \in play.calls[c] : /\ opts' = [opts EXCEPT ![Field(c)] = x]
                                         /\ asked' = [AskedBefore EXCEPT ![c] = x]
             /\ out' = None
             /\ UNCHANGED <<mode, play, source>>

-----------------------------------------------------------------------------
(* ScoreState, the counts of a score of any mode *)

ScoreFields == {"max_combo", "osu_large_tick_hits", "slider_end_hits", "n_geki", "n_katu",
                "n300", "n100", "n50", "misses"}

\* The field of a ScoreState that holds each count of a mode's builder.
ScoreField(m) ==
  CASE m = "Osu"   -> [combo |-> "max_combo", misses |-> "misses",
                       large_tick_hits |-> "osu_large_tick_hits",
                       slider_end_hits |-> "slider_end_hits",
                       n300 |-> "n300", n100 |-> "n100", n50 |-> "n50"]
    [] m = "Taiko" -> [combo |-> "max_combo", misses |-> "misses",
                       n300 |-> "n300", n100 |-> "n100"]
    [] m = "Catch" -> [combo |-> "max_combo", misses |-> "misses",
                       fruits |-> "n300", droplets |-> "n100", tiny_droplets |-> "n50",
                       tiny_droplet_misses |-> "n_katu"]
    [] m = "Mania" -> [misses |-> "misses", n320 |-> "n_geki", n300 |-> "n300",
                       n200 |-> "n_katu", n100 |-> "n100", n50 |-> "n50"]

\* A builder's counts as a ScoreState, which has 0 for what the mode does not count,
\* and what a builder takes from a ScoreState.
ToScore(m, counts) ==
  [g \in ScoreFields |->
     LET f == {x \in DOMAIN counts : ScoreField(m)[x] = g}
     IN IF f = {} THEN 0 ELSE counts[CHOOSE x \in f : TRUE]]

FromScore(m, score) == [f \in DOMAIN ScoreField(m) |-> score[ScoreField(m)[f]]]

\* Variant of total_hits that forgets the tiny droplet misses.
total_hits_caught(m, s) ==
  s.n300 + s.n100 + s.misses
    + (IF m = "Taiko" THEN 0 ELSE s.n50)
    + (IF m \in {"Osu", "Taiko", "Catch"} THEN 0 ELSE s.n_katu + s.n_geki)

total_hits(m, s) ==
  s.n300 + s.n100 + s.misses
    + (IF m = "Taiko" THEN 0 ELSE s.n50)
    + (IF m \in {"Osu", "Taiko"} THEN 0 ELSE s.n_katu)
    + (IF m \in {"Osu", "Taiko", "Catch"} THEN 0 ELSE s.n_geki)

\* Each count is set, as its setter would.
state == /\ \E s \in play.states :
              LET counts == FromScore(mode, s)
              IN /\ opts' = Overwritten(opts, counts)
                 /\ asked' = [c \in Setters |->
                                IF Accepted(c) /\ Field(c) \in DOMAIN counts
                                THEN counts[Field(c)]
                                ELSE AskedBefore[c]]
         /\ out' = None
         /\ UNCHANGED <<mode, play, source>>

-----------------------------------------------------------------------------
(* What the calls are made with *)

Argument(c) == CASE c \in {"lazer", "mods"}    -> BOOLEAN
                 [] c = "hitresult_priority"   -> Priorities
                 [] OTHER                      -> Nat

ASSUME NoneAssumption == None \notin Nat \union BOOLEAN \union Priorities

ASSUME BoundAssumption == MaxTicks \in Nat

RecordCalls == {Catch!Fruit, Catch!Droplet} \union [record : {"tiny_droplets"}, n : Nat]

ASSUME PlaysAssumption ==
  \A p \in Plays : /\ p.mode \in GameModes
                   /\ p.objects \in Seq(Osu!HitObjects)
                   /\ p.hits \in Nat
                   /\ p.recorded \in Seq(RecordCalls)
                   /\ p.notes \in Seq(BOOLEAN)
                   /\ p.den \in Nat \ {0}
                   /\ p.passed \subseteq Nat
                   /\ \A c \in Setters : p.calls[c] \subseteq Argument(c)
                   /\ p.states \subseteq [ScoreFields -> Nat]

-----------------------------------------------------------------------------
(* The other operations *)

generate_state == /\ CASE mode = "Osu"   -> Osu!generate_state
                       [] mode = "Taiko" -> Taiko!generate_state
                       [] mode = "Catch" -> Catch!generate_state
                       [] mode = "Mania" -> Mania!generate_state
                  /\ UNCHANGED <<mode, asked>>

\* Variant of Converted that loses the 50s of an osu!catch score.
ConvertedLosing50s(m) ==
  [f \in DOMAIN NewOf(m, NoLimit) |->
     CASE f = "fruits"        -> opts.n300
       [] f = "droplets"      -> opts.n100
       [] f \in DOMAIN opts   -> opts[f]
       [] OTHER               -> None]

\* The settings of an osu!standard score as those of another mode.
Converted(m) ==
  [f \in DOMAIN NewOf(m, NoLimit) |->
     CASE f = "fruits"        -> opts.n300
       [] f = "droplets"      -> opts.n100
       [] f = "tiny_droplets" -> opts.n50
       [] f \in DOMAIN opts   -> opts[f]
       [] OTHER               -> None]

\* try_mode and mode_or_ignore, when they do something.
try_mode == /\ mode = "Osu" /\ source = Map
            /\ \E m \in GameModes \ {"Osu"} : /\ mode' = m
                                              /\ opts' = Converted(m)
            /\ UNCHANGED <<play, source, out, asked>>

-----------------------------------------------------------------------------
(* The specification *)

Init == /\ play \in Plays
        /\ mode = play.mode
        /\ source \in {Map} \union {AttrsOf(mode, p) : p \in play.passed}
        /\ opts = NewOf(mode, NoLimit)
        /\ out = None
        /\ asked = NothingAsked

Next == (\E c \in Setters : Setter(c)) \/ state \/ generate_state \/ try_mode

Spec == Init /\ [][Next]_vars

-----------------------------------------------------------------------------
(* Properties *)

\* Whatever is set, generated and converted, no count goes below zero, where the
\* program's u32 would wrap, and the builder has the fields of its mode.
TypeOK == /\ mode \in GameModes
          /\ DOMAIN opts = DOMAIN NewOf(mode, NoLimit)
          /\ \A f \in DOMAIN ScoreField(mode) : opts[f] \in Nat \union {None}
          /\ out # None => \A f \in DOMAIN out : out[f] \in Nat /\ opts[f] = out[f]

\* However the counts were set or generated before: every object of the play is
\* judged exactly once in the state that generate_state returns, and more only if the
\* caller insisted on it.
HitsAddUp ==
  [][Generated =>
       LET judged == total_hits(mode, ToScore(mode, out'))
       IN CASE mode = "Osu"   -> Osu!AddsUp(judged)
            [] mode = "Taiko" -> Taiko!AddsUp(judged)
            [] mode = "Catch" -> Catch!AddsUp(judged)
            [] mode = "Mania" -> Mania!AddsUp(judged)]_vars

\* The tests' assert_eq!(first, state): generating again changes nothing.
Settled == [][out # None /\ out' # None => UNCHANGED vars]_vars

\* A generated combo is one the hits of the state can have made.
ComboFits == out # None => /\ mode = "Osu" => Osu!ComboFits
                           /\ mode = "Taiko" => Taiko!ComboFits

\* The search for an accuracy leaves out no better counts.
ClosestAccuracy ==
  [][Generated =>
       CASE mode = "Osu"   -> Osu!ClosestAccuracy
         [] mode = "Taiko" -> Taiko!ClosestAccuracy
         [] mode = "Catch" -> Catch!ClosestAccuracy
         [] mode = "Mania" -> Mania!ClosestAccuracy]_vars

\* The best case is not worse than the worst case.
BestIsBetter == /\ mode = "Osu" => Osu!BestIsBetter
                /\ mode = "Taiko" => Taiko!BestIsBetter
                /\ mode = "Mania" => Mania!BestIsBetter

\* Until a state is generated, the builder knows exactly what it was asked for, as far
\* as it means something in its mode, also after it was turned into another mode's.
AskedIsKept ==
  source = Map =>
    \A c \in Setters : Accepted(c) =>
      opts[Field(c)] = IF asked[c] # None THEN asked[c] ELSE NewOf(mode, NoLimit)[Field(c)]

\* "This will be used to generate matching hitresults." (taiko/performance/mod.rs:128):
\* if the caller never gives 300s or 100s, an accuracy that was set is matched as
\* closely as possible by the state generated next.
AccuracyUsed ==
  mode = "Taiko" /\ out # None /\ asked.accuracy # None
  /\ play.calls.n300 = {} /\ play.calls.n100 = {} /\ play.states = {} =>
     Taiko!AsCloseAsPossible(asked.accuracy, out, Taiko!TotalResults(opts, source.count))
=============================================================================
