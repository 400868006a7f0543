--------------------------- MODULE AnyGradualProofs ---------------------------
(***************************************************************************)
(* Theorems about gradual difficulty and performance calculation, for maps *)
(* of any length in any mode and any mix of calls.  The lemmas about the   *)
(* calculator of each mode are those of its own proof module.              *)
(***************************************************************************)
EXTENDS AnyGradual, SequenceTheorems, TLAPS

OP == INSTANCE OsuGradualProofs WITH Maps <- OsuMaps
TP == INSTANCE TaikoGradualProofs WITH Maps <- TaikoMaps, max_combo <- attrs
CP == INSTANCE CatchGradualProofs WITH Maps <- CatchMaps, movement <- skills
MP == INSTANCE ManiaGradualProofs
        WITH Maps <- ManiaMaps, note_state <- attrs, strain <- skills

-----------------------------------------------------------------------------
(* The proof modules extend the calculators' modules, so that OP!X and      *)
(* Osu!X, of the same definition X, are the same formula: expanding all of   *)
(* both shows it.                                                            *)


\* osu!
LEMMA SameOsu ==
  /\ Osu!Init <=> OP!Init
  /\ Osu!CallNext <=> OP!CallNext
  /\ \A k : Osu!CallNth(k) <=> OP!CallNth(k)
  /\ Osu!Total = OP!Total
  /\ Osu!n_diff_objects = OP!n_diff_objects
  /\ Osu!len = OP!len
  /\ \A k : Osu!PromisedAnswer(k) = OP!PromisedAnswer(k)
  /\ Osu!Prefix <=> OP!Prefix
<1>1. Osu!Init <=> OP!Init
  BY DEF Osu!Cardinality, Osu!IncrementCombo, Osu!Init, Osu!LargeTicks, Osu!NoCount,
         Osu!OfKind, Osu!Skills, OP!Cardinality, OP!IncrementCombo, OP!Init,
         OP!LargeTicks, OP!NoCount, OP!OfKind, OP!Skills
<1>2. Osu!CallNext <=> OP!CallNext
  BY DEF Osu!Attributes, Osu!CallNext, Osu!Cardinality, Osu!DiffObjects,
         Osu!FirstObject, Osu!IncrementCombo, Osu!LargeTicks, Osu!LaterObject,
         Osu!NoObject, Osu!OfKind, Osu!SaturatingSub, Osu!Serve, Osu!Skills,
         Osu!n_diff_objects, OP!Attributes, OP!CallNext, OP!Cardinality, OP!DiffObjects,
         OP!FirstObject, OP!IncrementCombo, OP!LargeTicks, OP!LaterObject, OP!NoObject,
         OP!OfKind, OP!SaturatingSub, OP!Serve, OP!Skills, OP!n_diff_objects
<1>3. ASSUME NEW k
      PROVE  Osu!CallNth(k) <=> OP!CallNth(k)
  BY DEF Osu!Attributes, Osu!CallNth, Osu!Cardinality, Osu!DiffObjects, Osu!FirstObject,
         Osu!From, Osu!IncrementCombo, Osu!LargeTicks, Osu!LaterObject, Osu!Least,
         Osu!Lone, Osu!NoObject, Osu!OfKind, Osu!Run, Osu!SaturatingSub, Osu!Serve,
         Osu!Skills, Osu!To, Osu!Wanted, Osu!len, Osu!n_diff_objects, OP!Attributes,
         OP!CallNth, OP!Cardinality, OP!DiffObjects, OP!FirstObject, OP!From,
         OP!IncrementCombo, OP!LargeTicks, OP!LaterObject, OP!Least, OP!Lone,
         OP!NoObject, OP!OfKind, OP!Run, OP!SaturatingSub, OP!Serve, OP!Skills, OP!To,
         OP!Wanted, OP!len, OP!n_diff_objects
<1>4. Osu!Total = OP!Total
  BY DEF Osu!DiffObjects, Osu!SaturatingSub, Osu!Total, Osu!n_diff_objects,
         OP!DiffObjects, OP!SaturatingSub, OP!Total, OP!n_diff_objects
<1>5. Osu!n_diff_objects = OP!n_diff_objects
  BY DEF Osu!DiffObjects, Osu!SaturatingSub, Osu!n_diff_objects, OP!DiffObjects,
         OP!SaturatingSub, OP!n_diff_objects
<1>6. Osu!len = OP!len
  BY DEF Osu!DiffObjects, Osu!SaturatingSub, Osu!len, Osu!n_diff_objects,
         OP!DiffObjects, OP!SaturatingSub, OP!len, OP!n_diff_objects
<1>7. ASSUME NEW k
      PROVE  Osu!PromisedAnswer(k) = OP!PromisedAnswer(k)
  BY DEF Osu!Calculate, Osu!Cardinality, Osu!DiffObjects, Osu!Inspected, Osu!LargeTicks,
         Osu!Least, Osu!OfKind, Osu!ProcessedBy, Osu!PromisedAnswer, Osu!Run,
         Osu!SaturatingSub, Osu!Skills, Osu!SpeedObjectData, OP!Calculate,
         OP!Cardinality, OP!DiffObjects, OP!Inspected, OP!LargeTicks, OP!Least,
         OP!OfKind, OP!ProcessedBy, OP!PromisedAnswer, OP!Run, OP!SaturatingSub,
         OP!Skills, OP!SpeedObjectData
<1>8. Osu!Prefix <=> OP!Prefix
  BY DEF Osu!Cardinality, Osu!Fed, Osu!Inspected, Osu!LargeTicks, Osu!Least, Osu!OfKind,
         Osu!Prefix, Osu!Run, Osu!SaturatingSub, Osu!Skills, OP!Cardinality, OP!Fed,
         OP!Inspected, OP!LargeTicks, OP!Least, OP!OfKind, OP!Prefix, OP!Run,
         OP!SaturatingSub, OP!Skills
<1>9. QED
  BY <1>1, <1>2, <1>3, <1>4, <1>5, <1>6, <1>7, <1>8

\* osu!taiko: nth, part by part
LEMMA SameTaikoNth ==
  ASSUME NEW n
  PROVE  Taiko!CallNth(n) <=> TP!CallNth(n)
<1>1. ASSUME NEW it
      PROVE  Taiko!HitsAhead(it) = TP!HitsAhead(it)
  BY DEF Taiko!HitsAhead, Taiko!n_diff_objects, Taiko!SaturatingSub, TP!HitsAhead,
         TP!n_diff_objects, TP!SaturatingSub
<1>2. ASSUME NEW it, NEW k
      PROVE  Taiko!KthHit(it, k) = TP!KthHit(it, k)
  BY DEF Taiko!KthHit, Taiko!Cardinality, Taiko!HitsAhead, Taiko!n_diff_objects,
         Taiko!SaturatingSub, TP!KthHit, TP!Cardinality, TP!HitsAhead,
         TP!n_diff_objects, TP!SaturatingSub
<1>3. ASSUME NEW i, NEW c, NEW it, NEW s
      PROVE  /\ Taiko!Serve(i, c, it, s) <=> TP!Serve(i, c, it, s)
             /\ Taiko!Exhausted(i, c, it, s) <=> TP!Exhausted(i, c, it, s)
  BY DEF Taiko!Serve, Taiko!Attributes, Taiko!Cardinality, Taiko!ComboAfter,
         Taiko!Exhausted, Taiko!FirstTwoCombos, Taiko!HitsAhead, Taiko!KthHit,
         Taiko!Process, Taiko!Run, Taiko!SaturatingSub, Taiko!n_diff_objects, TP!Serve,
         TP!Attributes, TP!Cardinality, TP!ComboAfter, TP!Exhausted, TP!FirstTwoCombos,
         TP!HitsAhead, TP!KthHit, TP!Process, TP!Run, TP!SaturatingSub,
         TP!n_diff_objects
<1>4. /\ Taiko!LenUnderflows <=> TP!LenUnderflows
      /\ Taiko!FirstSkipped(n) = TP!FirstSkipped(n)
      /\ Taiko!LaterSkipped(n) = TP!LaterSkipped(n)
  BY DEF Taiko!LenUnderflows, Taiko!FirstSkipped, Taiko!LaterSkipped, Taiko!Wanted,
         Taiko!Least, Taiko!SaturatingSub, Taiko!len, Taiko!total_hits, Taiko!Hits,
         Taiko!Cardinality, TP!LenUnderflows, TP!FirstSkipped, TP!LaterSkipped,
         TP!Wanted, TP!Least, TP!SaturatingSub, TP!len, TP!total_hits, TP!Hits,
         TP!Cardinality
<1>5. Taiko!ComboSkipped(n) = TP!ComboSkipped(n)
  BY <1>4
     DEF Taiko!ComboSkipped, Taiko!ComboAfter, Taiko!FirstTwoCombos, TP!ComboSkipped,
         TP!ComboAfter, TP!FirstTwoCombos
<1>6. ASSUME NEW S
      PROVE Taiko!Cardinality(S) = TP!Cardinality(S)
  BY DEF Taiko!Cardinality, TP!Cardinality
<1>7. ASSUME NEW i, NEW k
      PROVE Taiko!Run(i, k) = TP!Run(i, k)
  BY DEF Taiko!Run, Taiko!SaturatingSub, TP!Run, TP!SaturatingSub
<1>8. QED
  BY <1>1, <1>2, <1>3, <1>4, <1>5, <1>6, <1>7, Zenon
     DEF Taiko!CallNth, TP!CallNth

\* osu!taiko
LEMMA SameTaiko ==
  /\ Taiko!Init <=> TP!Init
  /\ Taiko!CallNext <=> TP!CallNext
  /\ \A k : Taiko!CallNth(k) <=> TP!CallNth(k)
  /\ Taiko!NthPanics <=> TP!NthPanics
  /\ \A k : Taiko!total_hits(k) = TP!total_hits(k)
  /\ Taiko!len = TP!len
  /\ \A a, b : Taiko!Calculate(a, b) = TP!Calculate(a, b)
  /\ Taiko!Plain <=> TP!Plain
  /\ Taiko!Fed <=> TP!Fed
  /\ Taiko!OnlyOddMapsPanic <=> TP!OnlyOddMapsPanic
  /\ Taiko!DrainedIsWhole <=> TP!DrainedIsWhole
<1>1. Taiko!Init <=> TP!Init
  BY DEF Taiko!Init, TP!Init
<1>2. Taiko!CallNext <=> TP!CallNext
  BY DEF Taiko!Attributes, Taiko!CallNext, Taiko!Cardinality, Taiko!ComboAfter,
         Taiko!Exhausted, Taiko!FirstTwoCombos, Taiko!HitsAhead, Taiko!KthHit,
         Taiko!Process, Taiko!Run, Taiko!SaturatingSub, Taiko!Serve,
         Taiko!n_diff_objects, TP!Attributes, TP!CallNext, TP!Cardinality,
         TP!ComboAfter, TP!Exhausted, TP!FirstTwoCombos, TP!HitsAhead, TP!KthHit,
         TP!Process, TP!Run, TP!SaturatingSub, TP!Serve, TP!n_diff_objects
<1>3. ASSUME NEW k
      PROVE  Taiko!CallNth(k) <=> TP!CallNth(k)
  BY SameTaikoNth
<1>4. Taiko!NthPanics <=> TP!NthPanics
  BY DEF Taiko!Cardinality, Taiko!Hits, Taiko!LenUnderflows, Taiko!NthPanics,
         Taiko!total_hits, TP!Cardinality, TP!Hits, TP!LenUnderflows, TP!NthPanics,
         TP!total_hits
<1>5. ASSUME NEW k
      PROVE  Taiko!total_hits(k) = TP!total_hits(k)
  BY DEF Taiko!Cardinality, Taiko!Hits, Taiko!total_hits, TP!Cardinality, TP!Hits,
         TP!total_hits
<1>6. Taiko!len = TP!len
  BY DEF Taiko!Cardinality, Taiko!Hits, Taiko!LenUnderflows, Taiko!len,
         Taiko!total_hits, TP!Cardinality, TP!Hits, TP!LenUnderflows, TP!len,
         TP!total_hits
<1>7. ASSUME NEW a, NEW b
      PROVE  Taiko!Calculate(a, b) = TP!Calculate(a, b)
  BY DEF Taiko!Calculate, Taiko!Cardinality, Taiko!Hits, Taiko!Inspected, Taiko!Least,
         Taiko!Run, Taiko!SaturatingSub, Taiko!n_diff_objects, TP!Calculate,
         TP!Cardinality, TP!Hits, TP!Inspected, TP!Least, TP!Run, TP!SaturatingSub,
         TP!n_diff_objects
<1>8. Taiko!Plain <=> TP!Plain
  BY DEF Taiko!Plain, TP!Plain
<1>9. Taiko!Fed <=> TP!Fed
  BY DEF Taiko!Cardinality, Taiko!Fed, Taiko!Hits, Taiko!Least, Taiko!Run,
         Taiko!SaturatingSub, TP!Cardinality, TP!Fed, TP!Hits, TP!Least, TP!Run,
         TP!SaturatingSub
<1>10. Taiko!OnlyOddMapsPanic <=> TP!OnlyOddMapsPanic
  BY DEF Taiko!Cardinality, Taiko!FirstTwoCombos, Taiko!Hits, Taiko!LenUnderflows,
         Taiko!OnlyOddMapsPanic, Taiko!total_hits, TP!Cardinality, TP!FirstTwoCombos,
         TP!Hits, TP!LenUnderflows, TP!OnlyOddMapsPanic, TP!total_hits
<1>11. Taiko!DrainedIsWhole <=> TP!DrainedIsWhole
  BY DEF Taiko!Cardinality, Taiko!DrainedIsWhole, Taiko!Hits, Taiko!Run,
         Taiko!SaturatingSub, Taiko!n_diff_objects, Taiko!total_hits, TP!Cardinality,
         TP!DrainedIsWhole, TP!Hits, TP!Run, TP!SaturatingSub, TP!n_diff_objects,
         TP!total_hits
<1>12. QED
  BY <1>1, <1>2, <1>3, <1>4, <1>5, <1>6, <1>7, <1>8, <1>9, <1>10, <1>11

\* osu!catch
LEMMA SameCatch ==
  /\ \A k : Catch!Recorded(k) = CP!Recorded(k)
  /\ \A k : Catch!Palpables(k) = CP!Palpables(k)
  /\ \A k : Catch!GradualCount(k) = CP!GradualCount(k)
  /\ Catch!Init <=> CP!Init
  /\ Catch!CallNext <=> CP!CallNext
  /\ \A k : Catch!CallNth(k) <=> CP!CallNth(k)
  /\ Catch!len = CP!len
  /\ \A a, b, c : Catch!Calculate(a, b, c) = CP!Calculate(a, b, c)
  /\ Catch!CountsLineUp <=> CP!CountsLineUp
  /\ Catch!Prefix <=> CP!Prefix
  /\ Catch!NothingLeft <=> CP!NothingLeft
<1>1. ASSUME NEW k
      PROVE  Catch!Recorded(k) = CP!Recorded(k)
  BY DEF Catch!Droplet, Catch!FlattenSeq, Catch!Fruit, Catch!IsFruit, Catch!Palpable,
         Catch!RecordEvent, Catch!RecordStream, Catch!Recorded, Catch!Tiny,
         Catch!TinyDroplets, CP!Droplet, CP!FlattenSeq, CP!Fruit, CP!IsFruit,
         CP!Palpable, CP!RecordEvent, CP!RecordStream, CP!Recorded, CP!Tiny,
         CP!TinyDroplets
<1>2. ASSUME NEW k
      PROVE  Catch!Palpables(k) = CP!Palpables(k)
  BY DEF Catch!FlattenSeq, Catch!Palpable, Catch!Palpables, Catch!PalpablesOf,
         CP!FlattenSeq, CP!Palpable, CP!Palpables, CP!PalpablesOf
<1>3. ASSUME NEW k
      PROVE  Catch!GradualCount(k) = CP!GradualCount(k)
  BY DEF Catch!Cardinality, Catch!FoldFunctionOnSet, Catch!Fruit, Catch!GradualCount,
         Catch!IsTiny, Catch!MapThenFoldSet, Catch!PalpableCalls, Catch!SumFunction,
         Catch!SumFunctionOnSet, Catch!TinySum, CP!Cardinality, CP!FoldFunctionOnSet,
         CP!Fruit, CP!GradualCount, CP!IsTiny, CP!MapThenFoldSet, CP!PalpableCalls,
         CP!SumFunction, CP!SumFunctionOnSet, CP!TinySum
<1>4. Catch!Init <=> CP!Init
  BY <1>1, <1>2, <1>3, Zenon
     DEF Catch!Init, Catch!NoCount, CP!Init, CP!NoCount
<1>5. Catch!CallNext <=> CP!CallNext
  BY DEF Catch!AddObjectCount, Catch!Attributes, Catch!CallNext, Catch!Cardinality,
         Catch!DiffObjects, Catch!FoldFunctionOnSet, Catch!MapThenFoldSet,
         Catch!SaturatingSub, Catch!Serve, Catch!SumFunction, Catch!SumFunctionOnSet,
         Catch!SumOfDeltas, Catch!conversion, Catch!diff_objects, CP!AddObjectCount,
         CP!Attributes, CP!CallNext, CP!Cardinality, CP!DiffObjects,
         CP!FoldFunctionOnSet, CP!MapThenFoldSet, CP!SaturatingSub, CP!Serve,
         CP!SumFunction, CP!SumFunctionOnSet, CP!SumOfDeltas, CP!conversion,
         CP!diff_objects
<1>6. ASSUME NEW k
      PROVE  Catch!CallNth(k) <=> CP!CallNth(k)
  BY DEF Catch!AddObjectCount, Catch!Attributes, Catch!CallNth, Catch!Cardinality,
         Catch!DiffObjects, Catch!FoldFunctionOnSet, Catch!From, Catch!Least,
         Catch!Lone, Catch!MapThenFoldSet, Catch!Reach, Catch!Run, Catch!SaturatingSub,
         Catch!Serve, Catch!SumFunction, Catch!SumFunctionOnSet, Catch!SumOfDeltas,
         Catch!To, Catch!Wanted, Catch!conversion, Catch!diff_objects, Catch!len,
         CP!AddObjectCount, CP!Attributes, CP!CallNth, CP!Cardinality, CP!DiffObjects,
         CP!FoldFunctionOnSet, CP!From, CP!Least, CP!Lone, CP!MapThenFoldSet, CP!Reach,
         CP!Run, CP!SaturatingSub, CP!Serve, CP!SumFunction, CP!SumFunctionOnSet,
         CP!SumOfDeltas, CP!To, CP!Wanted, CP!conversion, CP!diff_objects, CP!len
<1>7. Catch!len = CP!len
  BY DEF Catch!DiffObjects, Catch!SaturatingSub, Catch!diff_objects, Catch!len,
         CP!DiffObjects, CP!SaturatingSub, CP!diff_objects, CP!len
<1>8. ASSUME NEW a, NEW b, NEW c
      PROVE  Catch!Calculate(a, b, c) = CP!Calculate(a, b, c)
  BY DEF Catch!Calculate, Catch!Cardinality, Catch!Droplet, Catch!FoldFunctionOnSet,
         Catch!Fruit, Catch!IsTiny, Catch!Least, Catch!MapThenFoldSet,
         Catch!PalpableCalls, Catch!RegularCount, Catch!Run, Catch!SaturatingSub,
         Catch!SumFunction, Catch!SumFunctionOnSet, Catch!TinySum, CP!Calculate,
         CP!Cardinality, CP!Droplet, CP!FoldFunctionOnSet, CP!Fruit, CP!IsTiny,
         CP!Least, CP!MapThenFoldSet, CP!PalpableCalls, CP!RegularCount, CP!Run,
         CP!SaturatingSub, CP!SumFunction, CP!SumFunctionOnSet, CP!TinySum
<1>9. Catch!CountsLineUp <=> CP!CountsLineUp
  BY DEF Catch!CountsLineUp, CP!CountsLineUp
<1>10. Catch!Prefix <=> CP!Prefix
  BY DEF Catch!Cardinality, Catch!Droplet, Catch!FoldFunctionOnSet, Catch!Fruit,
         Catch!IsTiny, Catch!MapThenFoldSet, Catch!PalpableCalls, Catch!Prefix,
         Catch!RegularCount, Catch!Run, Catch!SaturatingSub, Catch!SumFunction,
         Catch!SumFunctionOnSet, Catch!TinySum, CP!Cardinality, CP!Droplet,
         CP!FoldFunctionOnSet, CP!Fruit, CP!IsTiny, CP!MapThenFoldSet, CP!PalpableCalls,
         CP!Prefix, CP!RegularCount, CP!Run, CP!SaturatingSub, CP!SumFunction,
         CP!SumFunctionOnSet, CP!TinySum
<1>11. Catch!NothingLeft <=> CP!NothingLeft
  BY DEF Catch!Cardinality, Catch!Droplet, Catch!FoldFunctionOnSet, Catch!Fruit,
         Catch!IsTiny, Catch!MapThenFoldSet, Catch!NothingLeft, Catch!PalpableCalls,
         Catch!RegularCount, Catch!SumFunction, Catch!SumFunctionOnSet, Catch!TinySum,
         CP!Cardinality, CP!Droplet, CP!FoldFunctionOnSet, CP!Fruit, CP!IsTiny,
         CP!MapThenFoldSet, CP!NothingLeft, CP!PalpableCalls, CP!RegularCount,
         CP!SumFunction, CP!SumFunctionOnSet, CP!TinySum
<1>12. QED
  BY <1>1, <1>2, <1>3, <1>4, <1>5, <1>6, <1>7, <1>8, <1>9, <1>10, <1>11

\* osu!mania
LEMMA SameTicks ==
  ASSUME NEW o, NEW r
  PROVE  Mania!LateTicks(o, r) = MP!LateTicks(o, r)
<1>1. \A x : Mania!Divided(x, r) = MP!Divided(x, r) /\ Mania!Multiplied(x, r) = MP!Multiplied(x, r)
  BY DEF Mania!Divided, Mania!Multiplied, Mania!Round, Mania!Ulp, MP!Divided,
         MP!Multiplied, MP!Round, MP!Ulp
<1>2. \A x : Mania!Float(x) = MP!Float(x)
  BY DEF Mania!Float, MP!Float
<1>3. \A x, y : Mania!TicksBetween(x, y) = MP!TicksBetween(x, y)
  BY DEF Mania!Float, Mania!TicksBetween, MP!Float, MP!TicksBetween
<1>4. QED
  BY <1>1, <1>2, <1>3
     DEF Mania!GradualTicks, Mania!LateTicks, MP!GradualTicks, MP!LateTicks

LEMMA SameMania ==
  /\ Mania!Init <=> MP!Init
  /\ Mania!CallNext <=> MP!CallNext
  /\ \A k : Mania!CallNth(k) <=> MP!CallNth(k)
  /\ Mania!Total = MP!Total
  /\ Mania!len = MP!len
  /\ \A a, b : Mania!Calculate(a, b) = MP!Calculate(a, b)
  /\ \A a, b : Mania!KeepsTicks(a, b) <=> MP!KeepsTicks(a, b)
  /\ Mania!Prefix <=> MP!Prefix
<1>1. Mania!Init <=> MP!Init
  BY DEF Mania!DiffObjects, Mania!Divided, Mania!FirstCombo, Mania!Float, Mania!Init,
         Mania!IsCircle, Mania!Least, Mania!Round, Mania!SaturatingSub,
         Mania!TicksBetween, Mania!Ulp, MP!DiffObjects, MP!Divided, MP!FirstCombo,
         MP!Float, MP!Init, MP!IsCircle, MP!Least, MP!Round, MP!SaturatingSub,
         MP!TicksBetween, MP!Ulp
<1>2. Mania!CallNext <=> MP!CallNext
  BY DEF Mania!Attributes, Mania!CallNext, Mania!Cardinality, Mania!Float,
         Mania!FoldFunctionOnSet, Mania!GradualTicks, Mania!IncrementCombo,
         Mania!IsCircle, Mania!MapThenFoldSet, Mania!Multiplied, Mania!Round,
         Mania!Serve, Mania!SumFunction, Mania!SumFunctionOnSet, Mania!TicksBetween,
         Mania!Ulp, Mania!settings, MP!Attributes, MP!CallNext, MP!Cardinality,
         MP!Float, MP!FoldFunctionOnSet, MP!GradualTicks, MP!IncrementCombo,
         MP!IsCircle, MP!MapThenFoldSet, MP!Multiplied, MP!Round, MP!Serve,
         MP!SumFunction, MP!SumFunctionOnSet, MP!TicksBetween, MP!Ulp, MP!settings
<1>3. ASSUME NEW k
      PROVE  Mania!CallNth(k) <=> MP!CallNth(k)
  BY DEF Mania!Attributes, Mania!CallNth, Mania!Cardinality, Mania!Float,
         Mania!FoldFunctionOnSet, Mania!From, Mania!GradualTicks, Mania!IncrementCombo,
         Mania!IsCircle, Mania!Least, Mania!Lone, Mania!MapThenFoldSet,
         Mania!Multiplied, Mania!Round, Mania!Run, Mania!SaturatingSub, Mania!Serve,
         Mania!SumFunction, Mania!SumFunctionOnSet, Mania!TicksBetween, Mania!To,
         Mania!Ulp, Mania!Wanted, Mania!len, Mania!settings, MP!Attributes, MP!CallNth,
         MP!Cardinality, MP!Float, MP!FoldFunctionOnSet, MP!From, MP!GradualTicks,
         MP!IncrementCombo, MP!IsCircle, MP!Least, MP!Lone, MP!MapThenFoldSet,
         MP!Multiplied, MP!Round, MP!Run, MP!SaturatingSub, MP!Serve, MP!SumFunction,
         MP!SumFunctionOnSet, MP!TicksBetween, MP!To, MP!Ulp, MP!Wanted, MP!len,
         MP!settings
<1>4. Mania!Total = MP!Total
  BY DEF Mania!Total, MP!Total
<1>5. Mania!len = MP!len
  BY DEF Mania!len, MP!len
<1>6. ASSUME NEW a, NEW b
      PROVE  Mania!Calculate(a, b) = MP!Calculate(a, b)
  BY DEF Mania!Calculate, Mania!Cardinality, Mania!FoldFunctionOnSet, Mania!IsCircle,
         Mania!Least, Mania!MapThenFoldSet, Mania!Run, Mania!SaturatingSub,
         Mania!SumFunction, Mania!SumFunctionOnSet, Mania!Ticks, MP!Calculate,
         MP!Cardinality, MP!FoldFunctionOnSet, MP!IsCircle, MP!Least, MP!MapThenFoldSet,
         MP!Run, MP!SaturatingSub, MP!SumFunction, MP!SumFunctionOnSet, MP!Ticks
<1>7. ASSUME NEW a, NEW b
      PROVE  Mania!KeepsTicks(a, b) <=> MP!KeepsTicks(a, b)
  BY SameTicks DEF Mania!IsCircle, Mania!KeepsTicks, Mania!Ticks, MP!IsCircle,
                   MP!KeepsTicks, MP!Ticks
<1>8. Mania!Prefix <=> MP!Prefix
  BY DEF Mania!Calculate, Mania!Cardinality, Mania!FoldFunctionOnSet, Mania!IsCircle,
         Mania!Least, Mania!MapThenFoldSet, Mania!Prefix, Mania!Run,
         Mania!SaturatingSub, Mania!SumFunction, Mania!SumFunctionOnSet, Mania!Ticks,
         MP!Calculate, MP!Cardinality, MP!FoldFunctionOnSet, MP!IsCircle, MP!Least,
         MP!MapThenFoldSet, MP!Prefix, MP!Run, MP!SaturatingSub, MP!SumFunction,
         MP!SumFunctionOnSet, MP!Ticks
<1>9. QED
  BY <1>1, <1>2, <1>3, <1>4, <1>5, <1>6, <1>7, <1>8
-----------------------------------------------------------------------------
(* What the calculators' proofs assume holds here. *)

LEMMA OsuAssumed ==
  /\ MaxTicks \in Nat /\ OsuMaps \subseteq Seq(OP!HitObjects) /\ PassedObjects \subseteq Nat
  /\ MaxCall \in Nat
  /\ None \notin [count : OP!Counters, seen : [OP!Skills -> Seq(Nat)], ccv3 : Seq(Nat)]
<1>1. Osu!HitObjects = OP!HitObjects
  BY DEF Osu!HitObjects, Osu!Circle, Osu!Spinner, Osu!Slider,
         OP!HitObjects, OP!Circle, OP!Spinner, OP!Slider
<1>2. Osu!Counters = OP!Counters /\ Osu!Skills = OP!Skills
  BY DEF Osu!Counters, Osu!Skills, OP!Counters, OP!Skills
<1>3. QED
  BY <1>1, <1>2, MaxCallAssumption, TickAssumption, PassedAssumption, MapsAssumption,
     NoneAssumption

LEMMA Assumed == TP!Given /\ CP!Given /\ MP!Given
<1>1. TP!Given
  BY MaxCallAssumption, SpanAssumption, MapsAssumption, NoneAssumption, Zenon DEF TP!Given
<1>2. CP!Given
  BY MaxCallAssumption, MapsAssumption, NoneAssumption, Zenon
     DEF CP!Given, CP!Event, CP!EventKinds, CP!Palpable, CP!CatchCount,
         Catch!Event, Catch!EventKinds, Catch!Palpable
<1>3. MP!Given
  <2>1. \A m \in ManiaMaps, r \in ClockRates :
          \A i \in 2..Len(m) : MP!LateTicks(m[i], r) \in Nat
    BY LateTicksAssumption, SameTicks
  <2>2. QED
    BY <2>1, MaxCallAssumption, FloatAssumption, TickAssumption, PassedAssumption,
       MapsAssumption, NoneAssumption, Zenon DEF MP!Given
<1>4. QED
  BY <1>1, <1>2, <1>3

-----------------------------------------------------------------------------
(* The invariant *)

\* What holds of the calculator of a mode, and the answers promised.
OsuInv == /\ OP!IInv
          /\ promised = [k \in 1..OP!Total |-> OP!PromisedAnswer(k)]
TaikoInv == /\ TP!IInv
            /\ promised = [k \in 1..TP!Total |-> TP!Calculate(map, k)]
CatchInv == /\ CP!IInv
            /\ promised = [k \in 1..CP!P |-> CP!Calculate(recorded, palpables, k)]
ManiaInv == /\ MP!IInv /\ rate \in ClockRates
            /\ promised = [k \in 1..MP!Total |-> MP!Calculate(map, k)]

Calculator == \/ mode = "Osu" /\ OsuInv
              \/ mode = "Taiko" /\ TaikoInv
              \/ mode = "Catch" /\ CatchInv
              \/ mode = "Mania" /\ ManiaInv

\* The latest answer counts what the one-shot calculation promised.
Answered == Regular /\ answer # None =>
              idx \in 1..Len(promised) /\ CountOf(answer) = CountOf(promised[idx])

\* The latest performance was generated for the latest answer.
Judged == performance # None =>
            /\ performs /\ answer # None
            /\ performance.state
                 \in GeneratedFor(Settings(performance.score, idx), CountOf(answer))

IInv == Calculator /\ Answered /\ Judged

\* The clock rate keeps the ticks of the map's hold notes: where the combos of osu!mania,
\* and so its answers, agree.
TicksKept == mode = "Mania" => Mania!KeepsTicks(map, rate)

\* The answer as the contract sees it.
Shown == IF mode # "Osu" \/ answer = None THEN answer
         ELSE [count |-> answer.count, seen |-> answer.seen]

\* What a call does to a calculator that keeps the contract.
Obeys ==
  /\ call' \in Nat /\ idx \in Nat /\ Len(promised) \in Nat /\ idx <= Len(promised)
  /\ idx < Len(promised) =>
       /\ idx' = Least(idx + call' + 1, Len(promised)) /\ idx' \in 1..Len(promised)
       /\ CountOf(answer') = CountOf(promised[idx']) /\ answer' # None
       /\ TicksKept => Shown' = promised[idx']
  /\ idx = Len(promised) => idx' = idx /\ answer' = None

\* Where a position lands is one of the answers.
LEMMA LandsInside ==
  ASSUME NEW i \in Nat, NEW c \in Nat, NEW t \in Nat, i < t
  PROVE  Least(i + c + 1, t) \in 1..t
BY DEF Least

-----------------------------------------------------------------------------
(* Calls, mode by mode *)

LEMMA OsuCall ==
  ASSUME mode = "Osu", OsuInv, UNCHANGED kind,
         OP!CallNext \/ \E n \in 0..MaxCall : OP!CallNth(n)
  PROVE  OsuInv' /\ Obeys
<1>1. OP!IInv /\ OP!Next /\ MaxCall \in Nat
  BY MaxCallAssumption DEF OsuInv, OP!Next
<1>2. /\ map' = map /\ passed' = passed /\ call' \in 0..MaxCall
      /\ OP!Fed(idx', attrs', skills') /\ idx' \in 0..OP!Total
      /\ idx < OP!Total => /\ idx' = OP!Least(idx + call' + 1, OP!Total)
                           /\ answer' = OP!Attributes(attrs', skills')
      /\ idx = OP!Total => idx' = idx /\ answer' = None
  BY <1>1, OsuAssumed, OP!CallCorrect
<1>3. OP!IInv' /\ promised' = promised /\ mode' = mode /\ call' \in Nat
  BY <1>1, <1>2, OsuAssumed, OP!StepIInv DEF kind
<1>4. OsuInv'
  BY <1>2, <1>3 DEF OsuInv, OP!Total, OP!n_diff_objects, OP!PromisedAnswer
<1>5. map \in OsuMaps /\ passed \in PassedObjects /\ idx \in Nat /\ idx <= OP!Total
  BY <1>1, OsuAssumed, OP!IInvSane DEF OP!Sane
<1>6. OP!Total \in Nat
  BY <1>5, OsuAssumed, OP!Sizes
<1>7. Len(promised) = OP!Total /\ \A k \in 1..OP!Total : promised[k] = OP!PromisedAnswer(k)
  BY <1>6 DEF OsuInv
<1>8. ASSUME idx < OP!Total
      PROVE  /\ idx' = Least(idx + call' + 1, OP!Total) /\ idx' \in 1..OP!Total
             /\ CountOf(answer') = CountOf(promised[idx'])
             /\ answer' # None /\ Shown' = promised[idx']
  <2>1. idx' = Least(idx + call' + 1, OP!Total)
    BY <1>2, <1>8 DEF Least, OP!Least
  <2>2. idx' \in 1..OP!Total
    BY <1>3, <1>5, <1>6, <1>8, <2>1, LandsInside
  <2>3. [count |-> attrs', seen |-> skills'] = OP!PromisedAnswer(idx')
    BY <1>2, <1>5, <2>2, OsuAssumed, OP!FedIsPromised
  <2>4. answer' # None
    <3>1. attrs' \in OP!Counters /\ skills' \in [OP!Skills -> Seq(Nat)]
      BY <1>3 DEF OP!IInv, OP!TypeOK
    <3>2. QED
      BY <1>2, <1>8, <3>1, OsuAssumed, OP!AnswerIsNotNone
  <2>5. answer' = [count |-> attrs', seen |-> skills', ccv3 |-> << >>]
    BY <1>2, <1>8 DEF OP!Attributes
  <2>6. Shown' = promised[idx'] /\ promised[idx'].count = attrs'
    BY <1>3, <1>7, <2>2, <2>3, <2>4, <2>5 DEF Shown
  <2>7. CountOf(answer') = CountOf(promised[idx'])
    BY <2>5, <2>6 DEF CountOf
  <2>8. QED
    BY <2>1, <2>2, <2>4, <2>6, <2>7
<1>9. QED
  BY <1>2, <1>3, <1>4, <1>5, <1>6, <1>7, <1>8 DEF Obeys

LEMMA TaikoCall ==
  ASSUME mode = "Taiko", TaikoInv, UNCHANGED kind,
         TP!CallNext \/ \E n \in 0..MaxCall : TP!CallNth(n)
  PROVE  TaikoInv' /\ map' = map /\ (TP!Plain => Obeys)
<1>1. TP!IInv /\ TP!Next
  BY DEF TaikoInv, TP!Next
<1>2. TP!IInv' /\ map' = map /\ promised' = promised /\ mode' = mode
  BY <1>1, Assumed, TP!StepIInv, TP!CallCorrect DEF kind
<1>3. TaikoInv'
  BY <1>2 DEF TaikoInv, TP!Total
<1>4. ASSUME TP!Plain PROVE Obeys
  <2>1. /\ idx \in Nat /\ idx <= TP!Total /\ TP!Total \in Nat /\ call' \in Nat
        /\ idx < TP!Total => /\ idx' = TP!Least(idx + call' + 1, TP!Total)
                             /\ idx' \in 1..TP!Total
                             /\ answer' = TP!Calculate(map, idx') /\ answer' # None
        /\ idx = TP!Total => idx' = idx /\ answer' = None
    BY <1>1, <1>4, Assumed, TP!PlainCall
  <2>2. Len(promised) = TP!Total
        /\ \A k \in 1..TP!Total : promised[k] = TP!Calculate(map, k)
    BY <2>1 DEF TaikoInv
  <2>3. idx < TP!Total => /\ idx' = Least(idx + call' + 1, TP!Total)
                          /\ answer' = promised[idx']
                          /\ Shown' = promised[idx']
    BY <1>2, <2>1, <2>2 DEF Shown, Least, TP!Least
  <2>4. QED
    BY <2>1, <2>2, <2>3 DEF Obeys
<1>5. QED
  BY <1>2, <1>3, <1>4

LEMMA CatchCall ==
  ASSUME mode = "Catch", CatchInv, UNCHANGED kind,
         CP!CallNext \/ \E n \in 0..MaxCall : CP!CallNth(n)
  PROVE  CatchInv' /\ Obeys
<1>1. CP!IInv /\ CP!Next /\ CP!Converted
  BY DEF CatchInv, CP!Next, CP!IInv
<1>2. /\ UNCHANGED CP!conversion /\ call' \in Nat
      /\ CP!Passed(idx', attrs', skills')
      /\ idx \in Nat /\ idx <= CP!P /\ CP!P \in Nat
      /\ idx < CP!P => /\ idx' = CP!Least(idx + call' + 1, CP!P) /\ idx' \in 1..CP!P
                       /\ answer' = CP!Attributes(attrs', skills')
      /\ idx = CP!P => idx' = idx /\ answer' = None
  BY <1>1, Assumed, CP!CallCorrect
<1>3. CP!IInv' /\ promised' = promised /\ mode' = mode
  BY <1>1, Assumed, CP!StepIInv DEF kind
<1>4. CatchInv'
  BY <1>2, <1>3 DEF CatchInv, CP!P, CP!conversion
<1>5. Len(promised) = CP!P
      /\ \A k \in 1..CP!P : promised[k] = CP!Calculate(recorded, palpables, k)
  BY <1>2 DEF CatchInv
<1>6. ASSUME idx < CP!P
      PROVE  /\ idx' = Least(idx + call' + 1, CP!P) /\ answer' # None
             /\ answer' = promised[idx'] /\ Shown' = promised[idx']
  <2>1. idx' = Least(idx + call' + 1, CP!P)
    BY <1>2, <1>6 DEF Least, CP!Least
  <2>2. /\ CP!Attributes(attrs', skills') = CP!Calculate(recorded, palpables, idx')
        /\ CP!Attributes(attrs', skills') # None
    BY <1>1, <1>2, Assumed, CP!PassedIsPromised
  <2>3. QED
    BY <1>2, <1>3, <1>5, <1>6, <2>1, <2>2 DEF Shown
<1>7. QED
  BY <1>2, <1>4, <1>5, <1>6 DEF Obeys

LEMMA ManiaCall ==
  ASSUME mode = "Mania", ManiaInv, UNCHANGED kind,
         MP!CallNext \/ \E n \in 0..MaxCall : MP!CallNth(n)
  PROVE  ManiaInv' /\ Obeys
<1>1. MP!IInv /\ MP!Next /\ MP!Converted /\ map \in ManiaMaps /\ rate \in ClockRates
  BY DEF ManiaInv, MP!Next, MP!IInv, MP!Converted
<1>2. /\ UNCHANGED MP!settings /\ call' \in Nat
      /\ MP!Passed(idx', attrs', skills')
      /\ idx \in Nat /\ idx <= MP!Total /\ MP!Total \in Nat
      /\ idx < MP!Total => /\ idx' = MP!Least(idx + call' + 1, MP!Total)
                           /\ idx' \in 1..MP!Total
                           /\ answer' = MP!Attributes(idx', attrs', skills')
      /\ idx = MP!Total => idx' = idx /\ answer' = None
  BY <1>1, Assumed, MP!CallCorrect
<1>3. MP!IInv' /\ promised' = promised /\ mode' = mode
  BY <1>1, Assumed, MP!StepIInv DEF kind
<1>4. ManiaInv'
  BY <1>1, <1>2, <1>3 DEF ManiaInv, MP!Total, MP!settings
<1>5. Len(promised) = MP!Total
      /\ \A k \in 1..MP!Total : promised[k] = MP!Calculate(map, k)
  BY <1>2 DEF ManiaInv
<1>6. ASSUME idx < MP!Total
      PROVE  /\ idx' = Least(idx + call' + 1, MP!Total)
             /\ CountOf(answer') = CountOf(promised[idx']) /\ answer' # None
             /\ TicksKept => Shown' = promised[idx']
  <2>1. idx' = Least(idx + call' + 1, MP!Total)
    BY <1>2, <1>6 DEF Least, MP!Least
  <2>2. /\ answer' = MP!Attributes(idx', attrs', skills') /\ idx' \in 1..MP!Total
        /\ promised[idx'] = MP!Calculate(map, idx')
    BY <1>2, <1>5, <1>6
  <2>3. /\ answer'.n_objects = promised[idx'].n_objects
        /\ answer'.n_hold_notes = promised[idx'].n_hold_notes
        /\ MP!KeepsTicks(map, rate) => answer' = promised[idx']
        /\ answer' # None
    BY <1>1, <1>2, <2>2, Assumed, MP!PassedIsPromised
  <2>4. TicksKept => MP!KeepsTicks(map, rate)
    BY SameMania DEF TicksKept
  <2>5. QED
    BY <1>3, <2>1, <2>3, <2>4 DEF Shown, CountOf
<1>7. QED
  BY <1>2, <1>4, <1>5, <1>6 DEF Obeys


\* A call of whichever calculator.
LEMMA CallStep ==
  ASSUME Calculator, UNCHANGED kind, next \/ \E n \in 0..MaxCall : nth(n)
  PROVE  Calculator' /\ (Regular' <=> Regular) /\ (Regular => Obeys)
<1>1. mode' = mode
  BY DEF kind
<1>2. CASE mode = "Osu"
  <2>1. OsuInv
    BY <1>2 DEF Calculator
  <2>2. OP!CallNext \/ \E n \in 0..MaxCall : OP!CallNth(n)
    BY <1>2, SameOsu DEF next, nth
  <2>3. OsuInv' /\ Obeys
    BY <1>2, <2>1, <2>2, OsuCall
  <2>4. QED
    BY <1>1, <1>2, <2>3 DEF Calculator, Regular
<1>3. CASE mode = "Taiko"
  <2>1. TaikoInv
    BY <1>3 DEF Calculator
  <2>2. TP!CallNext \/ \E n \in 0..MaxCall : TP!CallNth(n)
    BY <1>3, SameTaiko DEF next, nth
  <2>3. TaikoInv' /\ map' = map /\ (TP!Plain => Obeys)
    BY <1>3, <2>1, <2>2, TaikoCall
  <2>4. Regular => TP!Plain
    BY <1>3, SameTaiko DEF Regular
  <2>5. Regular' <=> Regular
    BY <1>1, <2>3 DEF Regular, Taiko!Plain
  <2>6. QED
    BY <1>1, <1>3, <2>3, <2>4, <2>5 DEF Calculator
<1>4. CASE mode = "Catch"
  <2>1. CatchInv
    BY <1>4 DEF Calculator
  <2>2. CP!CallNext \/ \E n \in 0..MaxCall : CP!CallNth(n)
    BY <1>4, SameCatch DEF next, nth
  <2>3. CatchInv' /\ Obeys
    BY <1>4, <2>1, <2>2, CatchCall
  <2>4. QED
    BY <1>1, <1>4, <2>3 DEF Calculator, Regular
<1>5. CASE mode = "Mania"
  <2>1. ManiaInv
    BY <1>5 DEF Calculator
  <2>2. MP!CallNext \/ \E n \in 0..MaxCall : MP!CallNth(n)
    BY <1>5, SameMania DEF next, nth
  <2>3. ManiaInv' /\ Obeys
    BY <1>5, <2>1, <2>2, ManiaCall
  <2>4. QED
    BY <1>1, <1>5, <2>3 DEF Calculator, Regular
<1>6. QED
  BY <1>2, <1>3, <1>4, <1>5 DEF Calculator

\* A call keeps what is known of the answer, as calculators promise it.
LEMMA CallAnswers ==
  ASSUME IInv, UNCHANGED kind, next \/ \E n \in 0..MaxCall : nth(n)
  PROVE  Calculator' /\ Answered' /\ (Regular' <=> Regular) /\ (Regular => Obeys)
<1>1. Calculator' /\ (Regular' <=> Regular) /\ (Regular => Obeys)
  BY CallStep DEF IInv
<1>2. promised' = promised /\ mode' = mode
  BY DEF kind
<1>3. Answered'
  <2>1. SUFFICES ASSUME Regular, answer' # None
                 PROVE  idx' \in 1..Len(promised) /\ CountOf(answer') = CountOf(promised[idx'])
    BY <1>1, <1>2 DEF Answered, CountOf
  <2>2. idx < Len(promised)
    BY <1>1, <2>1 DEF Obeys
  <2>3. QED
    BY <1>1, <2>1, <2>2 DEF Obeys
<1>4. QED
  BY <1>1, <1>3

LEMMA InitCalculator ==
  ASSUME Init
  PROVE  Calculator /\ idx = 0 /\ answer = None /\ performance = None
<1>1. New /\ promised = OneShotAnswers /\ performance = None /\ mode \in GameModes
  BY DEF Init
<1>2. CASE mode = "Osu"
  <2>1. OP!Init /\ promised = [k \in 1..Osu!Total |-> Osu!PromisedAnswer(k)]
    BY <1>1, <1>2, SameOsu DEF New, OneShotAnswers
  <2>2. OP!IInv
    BY <2>1, OsuAssumed, OP!InitIInv
  <2>3. promised = [k \in 1..OP!Total |-> OP!PromisedAnswer(k)]
    BY <2>1, SameOsu
  <2>4. idx = 0 /\ answer = None
    BY <2>1 DEF OP!Init
  <2>5. QED
    BY <1>1, <1>2, <2>2, <2>3, <2>4 DEF Calculator, OsuInv
<1>3. CASE mode = "Taiko"
  <2>1. TP!Init /\ promised = [k \in 1..Taiko!total_hits(map) |-> Taiko!Calculate(map, k)]
    BY <1>1, <1>3, SameTaiko DEF New, OneShotAnswers
  <2>2. TP!IInv
    BY <2>1, Assumed, TP!InitIInv
  <2>3. promised = [k \in 1..TP!Total |-> TP!Calculate(map, k)]
    BY <2>1, SameTaiko DEF TP!Total
  <2>4. idx = 0 /\ answer = None
    BY <2>1 DEF TP!Init
  <2>5. QED
    BY <1>1, <1>3, <2>2, <2>3, <2>4 DEF Calculator, TaikoInv
<1>4. CASE mode = "Catch"
  <2>1. CP!Init
        /\ promised = [k \in 1..Len(palpables) |-> Catch!Calculate(recorded, palpables, k)]
    BY <1>1, <1>4, SameCatch DEF New, OneShotAnswers
  <2>2. CP!IInv
    BY <2>1, Assumed, CP!InitIInv
  <2>3. promised = [k \in 1..CP!P |-> CP!Calculate(recorded, palpables, k)]
    BY <2>1, SameCatch DEF CP!P
  <2>4. idx = 0 /\ answer = None
    BY <2>1 DEF CP!Init
  <2>5. QED
    BY <1>1, <1>4, <2>2, <2>3, <2>4 DEF Calculator, CatchInv
<1>5. CASE mode = "Mania"
  <2>1. MP!Init /\ promised = [k \in 1..Mania!Total |-> Mania!Calculate(map, k)]
    BY <1>1, <1>5, SameMania DEF New, OneShotAnswers
  <2>2. MP!IInv
    BY <2>1, Assumed, MP!InitIInv
  <2>3. promised = [k \in 1..MP!Total |-> MP!Calculate(map, k)]
    BY <2>1, SameMania
  <2>4. idx = 0 /\ answer = None /\ rate \in ClockRates
    BY <2>1 DEF MP!Init
  <2>5. QED
    BY <1>1, <1>5, <2>2, <2>3, <2>4 DEF Calculator, ManiaInv
<1>6. QED
  BY <1>1, <1>2, <1>3, <1>4, <1>5 DEF GameModes

LEMMA InitIInv == Init => IInv
  BY InitCalculator DEF IInv, Answered, Judged

\* What is known of the answer and the performance is about nothing else.
LEMMA AnswersStay ==
  ASSUME Answered, Judged, UNCHANGED <<kind, map, idx, answer, performance>>
  PROVE  Answered' /\ Judged'
<1>1. /\ mode' = mode /\ promised' = promised /\ lazer' = lazer /\ performs' = performs
      /\ map' = map /\ idx' = idx /\ answer' = answer /\ performance' = performance
  BY DEF kind
<1>2. Regular' <=> Regular
  BY <1>1 DEF Regular, Taiko!Plain
<1>3. CountOf(answer)' = CountOf(answer) /\ CountOf(promised[idx])' = CountOf(promised[idx])
  BY <1>1 DEF CountOf
<1>4. Answered'
  BY <1>1, <1>2, <1>3 DEF Answered
<1>5. Settings(performance.score, idx)' = Settings(performance.score, idx)
  BY <1>1 DEF Settings, Lazer
<1>6. GeneratedFor(Settings(performance.score, idx), CountOf(answer))'
        = GeneratedFor(Settings(performance.score, idx), CountOf(answer))
  BY <1>1, <1>3, <1>5 DEF GeneratedFor
<1>7. Judged'
  BY <1>1, <1>6 DEF Judged
<1>8. QED
  BY <1>4, <1>7

LEMMA StepIInv == IInv /\ [Next]_vars => IInv'
<1>1. SUFFICES ASSUME IInv, [Next]_vars
               PROVE  IInv'
  OBVIOUS
<1>2. CASE DifficultyNext \/ \E n \in 0..MaxCall : DifficultyNth(n)
  <2>1. /\ next \/ \E n \in 0..MaxCall : nth(n)
        /\ UNCHANGED kind /\ ~performs /\ performance' = performance
    BY <1>2 DEF DifficultyNext, DifficultyNth
  <2>2. Calculator' /\ Answered'
    BY <1>1, <2>1, CallAnswers
  <2>3. performs' = performs
    BY <2>1 DEF kind
  <2>4. performance' = None
    BY <1>1, <2>1 DEF IInv, Judged
  <2>5. QED
    BY <2>2, <2>4 DEF IInv, Judged
<1>3. CASE \E n \in 0..MaxCall, score \in Scores : PerformanceNth(score, n)
  <2>1. PICK n \in 0..MaxCall, score \in Scores : PerformanceNth(score, n)
    BY <1>3
  <2>2. nth(n) /\ UNCHANGED kind /\ performs
    BY <2>1 DEF PerformanceNth
  <2>3. Calculator' /\ Answered'
    BY <1>1, <2>2, CallAnswers
  <2>4. performs' = performs
    BY <2>2 DEF kind
  <2>5. \/ performance' = None
        \/ /\ answer' # None
           /\ \E s \in GeneratedFor(Settings(score, idx'), CountOf(answer')) :
                performance' = [score |-> score, state |-> s]
    BY <2>1 DEF PerformanceNth
  <2>6. mode' = mode /\ lazer' = lazer
    BY <2>2 DEF kind
  <2>7. ASSUME NEW s, s \in GeneratedFor(Settings(score, idx'), CountOf(answer')),
               answer' # None, performance' = [score |-> score, state |-> s]
        PROVE  Judged'
    <3>1. Settings(performance.score, idx)' = Settings(score, idx')
      BY <2>6, <2>7 DEF Settings, Lazer
    <3>2. CountOf(answer)' = CountOf(answer')
      BY <2>6 DEF CountOf
    <3>3. GeneratedFor(Settings(performance.score, idx), CountOf(answer))'
            = GeneratedFor(Settings(score, idx'), CountOf(answer'))
      BY <2>6, <3>1, <3>2 DEF GeneratedFor
    <3>4. performance.state' = s
      BY <2>7
    <3>5. QED
      BY <2>2, <2>4, <2>7, <3>3, <3>4 DEF Judged
  <2>8. Judged'
    BY <2>5, <2>7 DEF Judged
  <2>9. QED
    BY <2>3, <2>8 DEF IInv
<1>4. CASE NthPanics
  <2>1. /\ mode = "Taiko" /\ TP!NthPanics /\ UNCHANGED <<kind, taiko_only, performance>>
    BY <1>4, SameTaiko DEF NthPanics
  <2>2. /\ UNCHANGED <<map, checked, idx, attrs, iter, skills, call, answer>>
    BY <2>1 DEF TP!NthPanics
  <2>3. mode' = mode /\ promised' = promised /\ lazer' = lazer /\ performs' = performs
    BY <2>1 DEF kind
  <2>4. TaikoInv
    BY <1>1, <2>1 DEF IInv, Calculator
  <2>5. TP!IInv'
    BY <2>1, <2>4, Assumed, TP!StepIInv DEF TaikoInv, TP!Next
  <2>6. Calculator'
    BY <2>1, <2>2, <2>3, <2>4, <2>5 DEF Calculator, TaikoInv, TP!Total
  <2>7. Answered' /\ Judged'
    BY <1>1, <2>1, <2>2, AnswersStay DEF IInv
  <2>8. QED
    BY <2>6, <2>7 DEF IInv
<1>5. CASE UNCHANGED vars
  <2>1. /\ UNCHANGED <<kind, map, idx, answer, performance>>
        /\ mode' = mode /\ promised' = promised
    BY <1>5 DEF vars, kind
  <2>2. Answered' /\ Judged'
    BY <1>1, <2>1, AnswersStay DEF IInv
  <2>3. ASSUME mode = "Osu", OsuInv
       PROVE  Calculator'
    <3>1. OP!IInv' /\ map' = map /\ passed' = passed
      BY <1>5, <2>3, OsuAssumed, OP!StepIInv DEF OsuInv, vars, OP!vars
    <3>2. QED
      BY <2>1, <2>3, <3>1
         DEF Calculator, OsuInv, OP!Total, OP!n_diff_objects, OP!PromisedAnswer
  <2>4. ASSUME mode = "Taiko", TaikoInv
       PROVE  Calculator'
    <3>1. TP!IInv' /\ map' = map
      BY <1>5, <2>4, Assumed, TP!StepIInv DEF TaikoInv, vars, TP!vars
    <3>2. QED
      BY <2>1, <2>4, <3>1 DEF Calculator, TaikoInv, TP!Total
  <2>5. ASSUME mode = "Catch", CatchInv
       PROVE  Calculator'
    <3>1. CP!IInv' /\ palpables' = palpables /\ recorded' = recorded
      BY <1>5, <2>5, Assumed, CP!StepIInv DEF CatchInv, vars, CP!vars, CP!conversion
    <3>2. QED
      BY <2>1, <2>5, <3>1 DEF Calculator, CatchInv, CP!P
  <2>6. ASSUME mode = "Mania", ManiaInv
       PROVE  Calculator'
    <3>1. /\ MP!IInv' /\ map' = map /\ rate' = rate /\ passed' = passed
          /\ diff_objects' = diff_objects
      BY <1>5, <2>6, Assumed, MP!StepIInv DEF ManiaInv, vars, MP!vars
    <3>2. QED
      BY <2>1, <2>6, <3>1 DEF Calculator, ManiaInv, MP!Total
  <2>7. QED
    BY <1>1, <2>2, <2>3, <2>4, <2>5, <2>6 DEF IInv, Calculator
<1>6. QED
  BY <1>1, <1>2, <1>3, <1>4, <1>5 DEF Next, Poisoned

LEMMA SpecIInv == Spec => []IInv
  BY InitIInv, StepIInv, PTL DEF Spec

-----------------------------------------------------------------------------
(* What the invariant says of the calculators *)

LEMMA Consequences ==
  ASSUME IInv
  PROVE  Fed /\ CountsLineUp /\ OnlyOddMapsPanic /\ DrainedIsWhole
<1>1. CASE mode = "Osu" /\ OsuInv
  <2>1. Osu!Prefix
    BY <1>1, SameOsu DEF OsuInv, OP!IInv
  <2>2. QED
    BY <1>1, <2>1 DEF Fed, CountsLineUp, OnlyOddMapsPanic, DrainedIsWhole
<1>2. CASE mode = "Taiko" /\ TaikoInv
  <2>1. Taiko!Fed /\ Taiko!OnlyOddMapsPanic /\ Taiko!DrainedIsWhole
    BY <1>2, Assumed, TP!Consequences, SameTaiko DEF TaikoInv
  <2>2. QED
    BY <1>2, <2>1 DEF Fed, CountsLineUp, OnlyOddMapsPanic, DrainedIsWhole
<1>3. CASE mode = "Catch" /\ CatchInv
  <2>1. Catch!Prefix /\ Catch!CountsLineUp /\ Catch!NothingLeft
    BY <1>3, Assumed, CP!Consequences, SameCatch DEF CatchInv
  <2>2. QED
    BY <1>3, <2>1 DEF Fed, CountsLineUp, OnlyOddMapsPanic, DrainedIsWhole
<1>4. CASE mode = "Mania" /\ ManiaInv
  <2>1. Mania!Prefix
    BY <1>4, Assumed, MP!Consequences, SameMania DEF ManiaInv
  <2>2. QED
    BY <1>4, <2>1 DEF Fed, CountsLineUp, OnlyOddMapsPanic, DrainedIsWhole
<1>5. QED
  BY <1>1, <1>2, <1>3, <1>4 DEF IInv, Calculator

\* However next and nth were mixed on a map of any length in any mode, the skills have
\* processed each difficulty object up to the position once and in order, and the
\* counters cover the same objects.
THEOREM FedAlways == Spec => []Fed
<1>1. IInv => Fed
  BY Consequences
<1>2. QED
  BY <1>1, SpecIInv, PTL

\* osu!catch: the two lists that are built apart line up on every map whose sliders end
\* in their tail, so that count[idx] is in range.
THEOREM CountsLineUpAlways == Spec => []CountsLineUp
<1>1. IInv => CountsLineUp
  BY Consequences
<1>2. QED
  BY <1>1, SpecIInv, PTL

\* osu!taiko: len() underflows, and a checking build panics, only on a map whose first
\* two objects are not both hits.
THEOREM OnlyOddMapsPanicAlways == Spec => []OnlyOddMapsPanic
<1>1. IInv => OnlyOddMapsPanic
  BY Consequences
<1>2. QED
  BY <1>1, SpecIInv, PTL

\* Nothing can follow a None: by then the whole map was processed and counted.
THEOREM DrainedIsWholeAlways == Spec => []DrainedIsWhole
<1>1. IInv => DrainedIsWhole
  BY Consequences
<1>2. QED
  BY <1>1, SpecIInv, PTL

\* Each step of GradualPerformance judges the score as a new builder does that is given
\* the map, the score and passed_objects(idx).
THEOREM StepIsOneShotAlways == Spec => []StepIsOneShot
<1>1. ASSUME NEW m \in GameModes, NEW i
      PROVE  [Builder!NewOf(m, Builder!NoLimit) EXCEPT !.passed = i] = Builder!NewOf(m, i)
  <2>1. ASSUME NEW S, "passed" \in S, NEW p
        PROVE  [Builder!Osu!NewSettings(S, p) EXCEPT !.passed = i] = Builder!Osu!NewSettings(S, i)
    BY DEF Builder!Osu!NewSettings
  <2>2. ASSUME NEW S, "passed" \in S, NEW p
        PROVE  [Builder!Taiko!NewSettings(S, p) EXCEPT !.passed = i] = Builder!Taiko!NewSettings(S, i)
    BY DEF Builder!Taiko!NewSettings
  <2>3. ASSUME NEW S, "passed" \in S, NEW p
        PROVE  [Builder!Catch!NewSettings(S, p) EXCEPT !.passed = i] = Builder!Catch!NewSettings(S, i)
    BY DEF Builder!Catch!NewSettings
  <2>4. ASSUME NEW S, "passed" \in S, NEW p
        PROVE  [Builder!Mania!NewSettings(S, p) EXCEPT !.passed = i] = Builder!Mania!NewSettings(S, i)
    BY DEF Builder!Mania!NewSettings
  <2>5. QED
    BY <2>1, <2>2, <2>3, <2>4
       DEF GameModes, Builder!NewOf, Builder!Osu!NoOpts, Builder!Taiko!NoOpts,
           Builder!Catch!NoOpts, Builder!Mania!NoOpts
<1>2. IInv => StepIsOneShot
  <2>1. SUFFICES ASSUME IInv, Regular, performance # None
                 PROVE  performance.state \in
                          GeneratedFor(
                            Builder!FromScore(mode, performance.score)
                              @@ Lazer([Builder!NewOf(mode, Builder!NoLimit)
                                          EXCEPT !.passed = idx]),
                            CountOf(promised[idx]))
    BY DEF StepIsOneShot
  <2>2. mode \in GameModes
    BY <2>1 DEF IInv, Calculator, GameModes
  <2>3. [Builder!NewOf(mode, Builder!NoLimit) EXCEPT !.passed = idx] = Builder!NewOf(mode, idx)
    BY <1>1, <2>2
  <2>4. CountOf(answer) = CountOf(promised[idx])
    BY <2>1 DEF IInv, Answered, Judged
  <2>5. performance.state \in GeneratedFor(Settings(performance.score, idx), CountOf(answer))
    BY <2>1 DEF IInv, Judged
  <2>6. QED
    BY <2>3, <2>4, <2>5 DEF Settings
<1>3. QED
  BY <1>2, SpecIInv, PTL

-----------------------------------------------------------------------------
(* The contract *)

\* Each step is a call of the calculator, a panic of osu!taiko, or nothing at all.
LEMMA Steps ==
  ASSUME IInv, [Next]_vars
  PROVE  \/ UNCHANGED kind /\ (next \/ \E n \in 0..MaxCall : nth(n))
         \/ /\ mode = "Taiko" /\ TP!NthPanics
            /\ UNCHANGED <<kind, map, checked, idx, attrs, iter, skills, call, answer>>
         \/ UNCHANGED vars
<1>1. CASE NthPanics
  <2>1. mode = "Taiko" /\ TP!NthPanics /\ UNCHANGED kind
    BY <1>1, SameTaiko DEF NthPanics
  <2>2. UNCHANGED <<map, checked, idx, attrs, iter, skills, call, answer>>
    BY <2>1 DEF TP!NthPanics
  <2>3. QED
    BY <2>1, <2>2
<1>2. QED
  BY <1>1 DEF Next, DifficultyNext, DifficultyNth, PerformanceNth, Poisoned

\* No step changes the map or its clock rate.
LEMMA TicksStay ==
  ASSUME IInv, TicksKept, [Next]_vars
  PROVE  TicksKept'
<1>1. mode' = mode
  BY Steps DEF kind, vars
<1>2. ASSUME mode = "Mania"
      PROVE  map' = map /\ rate' = rate
  <2>1. CASE UNCHANGED kind /\ (next \/ \E n \in 0..MaxCall : nth(n))
    <3>1. MP!IInv /\ (MP!CallNext \/ \E n \in 0..MaxCall : MP!CallNth(n))
      BY <1>2, <2>1, SameMania DEF IInv, Calculator, ManiaInv, next, nth
    <3>2. QED
      BY <3>1, Assumed, MP!CallCorrect DEF MP!settings
  <2>2. CASE UNCHANGED vars
    BY <2>2 DEF vars
  <2>3. QED
    BY <1>2, <2>1, <2>2, Steps
<1>3. QED
  BY <1>1, <1>2 DEF TicksKept, Mania!KeepsTicks

\* A call that obeys is a step of the contract.
LEMMA ObeysContract ==
  ASSUME Obeys, TicksKept, promised' = promised
  PROVE  Contract!Next
<1>1. CASE idx < Len(promised)
  <2>1. idx' = Contract!Least(idx + call' + 1, Len(promised)) /\ Shown' = promised[idx']
    BY <1>1 DEF Obeys, Least, Contract!Least
  <2>2. Contract!Give
    BY <1>1, <2>1 DEF Contract!Give, Shown
  <2>3. QED
    BY <2>2 DEF Obeys, Contract!Next
<1>2. CASE idx = Len(promised)
  <2>1. idx' = idx /\ Shown' = None
    BY <1>2 DEF Obeys, Shown
  <2>2. Contract!Drained
    BY <1>2, <2>1 DEF Contract!Drained, Shown
  <2>3. QED
    BY <2>2 DEF Obeys, Contract!Next
<1>3. QED
  BY <1>1, <1>2 DEF Obeys

\* The calculator of every mode implements the contract of gradual calculators, for maps
\* of any length and any mix of next and nth: the k-th answer is what a one-shot
\* calculation with passed_objects(k) counts and processes.  osu!taiko does for the maps
\* its tests use, osu!mania for any map of which no tick is lost in the division by the
\* clock rate.
THEOREM ContractKept == Spec /\ TicksKept => KeepsContract
<1> DEFINE J == IInv /\ TicksKept
<1>1. ASSUME Init
      PROVE  Regular => Contract!Init
  <2>1. idx = 0 /\ answer = None
    BY <1>1, InitCalculator
  <2>2. QED
    BY <2>1 DEF Contract!Init
<1>2. ASSUME J, [Next]_vars
      PROVE  [Regular => Contract!Next \/ UNCHANGED Contract!vars]_vars
  <2>1. CASE UNCHANGED kind /\ (next \/ \E n \in 0..MaxCall : nth(n))
    <3>1. Regular => Obeys
      BY <1>2, <2>1, CallAnswers
    <3>2. promised' = promised
      BY <2>1 DEF kind
    <3>3. QED
      BY <1>2, <3>1, <3>2, ObeysContract
  <2>2. CASE UNCHANGED <<kind, map, checked, idx, attrs, iter, skills, call, answer>>
    BY <2>2 DEF Contract!vars, kind
  <2>3. CASE UNCHANGED vars
    BY <2>3
  <2>4. QED
    BY <1>2, <2>1, <2>2, <2>3, Steps
<1>3. Spec /\ TicksKept => []J
  BY TicksStay, SpecIInv, PTL DEF Spec
<1>4. QED
  BY <1>1, <1>2, <1>3, PTL DEF Spec, KeepsContract

\* What len() answers: the answers that are left.
LEMMA LenIs ==
  ASSUME IInv, Regular, promised # << >>
  PROVE  len = Len(promised) - idx
<1>1. CASE mode = "Osu" /\ OsuInv
  <2>1. map \in OsuMaps /\ passed \in PassedObjects /\ idx \in Nat
    BY <1>1, OsuAssumed, OP!IInvSane DEF OsuInv, OP!Sane
  <2>2. OP!Total \in Nat /\ OP!n_diff_objects \in Nat /\ (OP!Total > 0 => OP!Total = OP!n_diff_objects + 1)
    BY <2>1, OsuAssumed, OP!Sizes
  <2>3. Len(promised) = OP!Total /\ OP!Total > 0
    BY <1>1, <2>2 DEF OsuInv
  <2>4. QED
    BY <1>1, <2>1, <2>2, <2>3, SameOsu DEF len, OP!len
<1>2. CASE mode = "Taiko" /\ TaikoInv
  <2>1. TP!IInv /\ TP!Plain
    BY <1>2, SameTaiko DEF TaikoInv, Regular
  <2>2. TP!FirstTwoCombos = "Both" /\ map \in TaikoMaps
    <3>1. map \in TaikoMaps /\ Len(map) \in Nat
      BY <2>1, Assumed, TP!Sizes DEF TP!IInv
    <3>2. QED
      BY <2>1, <3>1 DEF TP!Plain, TP!FirstTwoCombos
  <2>3. ~TP!LenUnderflows /\ TP!len = TP!Total - idx /\ TP!Total \in Nat
    BY <2>1, <2>2, Assumed, TP!LenIs, TP!Sizes DEF TP!IInv
  <2>4. Len(promised) = TP!Total
    BY <1>2, <2>3 DEF TaikoInv
  <2>5. QED
    BY <1>2, <2>3, <2>4, SameTaiko DEF len
<1>3. CASE mode = "Catch" /\ CatchInv
  <2>1. /\ CP!diff_objects = CP!SaturatingSub(CP!P, 1) /\ CP!P \in Nat
        /\ idx \in Nat
    BY <1>3, Assumed, CP!Sizes DEF CatchInv, CP!IInv, CP!Now, CP!Passed
  <2>2. Len(promised) = CP!P /\ CP!P > 0
    BY <1>3, <2>1 DEF CatchInv
  <2>3. QED
    BY <1>3, <2>1, <2>2, SameCatch DEF len, CP!len, CP!SaturatingSub
<1>4. CASE mode = "Mania" /\ ManiaInv
  <2>1. /\ MP!Total \in Nat /\ Len(diff_objects) \in Nat /\ idx \in Nat
        /\ MP!Total > 0 => MP!Total = Len(diff_objects) + 1
    BY <1>4, Assumed, MP!Sizes DEF ManiaInv, MP!IInv, MP!Total, MP!N, MP!Now, MP!Passed
  <2>2. Len(promised) = MP!Total /\ MP!Total > 0
    BY <1>4, <2>1 DEF ManiaInv
  <2>3. QED
    BY <1>4, <2>1, <2>2, SameMania DEF len, MP!len
<1>5. QED
  BY <1>1, <1>2, <1>3, <1>4 DEF IInv, Calculator

\* len() foretells whether the coming call yields an answer, and an answer makes it one
\* less, in any mode and at any position; of osu!taiko on maps as above.
THEOREM LenForetold == Spec => LenForetells
<1> DEFINE L == Regular /\ promised # << >> => len = Len(promised) - idx
           Foretold == Regular /\ promised # << >> /\ call' = 0 =>
                         IF len > 0 THEN answer' # None /\ len' = len - 1
                                    ELSE answer' = None /\ len' = len
<1>1. IInv => L
  BY LenIs
<1>2. ASSUME IInv, L, L', [Next]_vars
      PROVE  [Foretold]_vars
  <2>1. CASE UNCHANGED kind /\ (next \/ \E n \in 0..MaxCall : nth(n))
    <3>1. SUFFICES ASSUME Regular, promised # << >>, call' = 0
                   PROVE  IF len > 0 THEN answer' # None /\ len' = len - 1
                                     ELSE answer' = None /\ len' = len
      OBVIOUS
    <3>2. Regular' /\ Obeys
      BY <1>2, <2>1, <3>1, CallAnswers
    <3>3. promised' = promised
      BY <2>1 DEF kind
    <3>4. len = Len(promised) - idx /\ len' = Len(promised) - idx'
      BY <1>2, <3>1, <3>2, <3>3
    <3>5. CASE idx < Len(promised)
      <4>1. idx' = idx + 1 /\ answer' # None
        BY <1>2, <3>1, <3>2, <3>5 DEF Obeys, Least
      <4>2. QED
        BY <3>2, <3>4, <3>5, <4>1 DEF Obeys
    <3>6. CASE idx = Len(promised)
      BY <3>2, <3>4, <3>6 DEF Obeys
    <3>7. QED
      BY <3>2, <3>5, <3>6 DEF Obeys
  <2>2. CASE mode = "Taiko" /\ TP!NthPanics
    <3>1. ASSUME Regular
          PROVE  FALSE
      <4>1. TaikoInv /\ TP!Plain
        BY <1>2, <2>2, <3>1, SameTaiko DEF IInv, Calculator, Regular
      <4>2. Len(map) \in Nat
        BY <4>1, Assumed, TP!Sizes DEF TaikoInv, TP!IInv
      <4>3. TP!FirstTwoCombos = "Both"
        BY <4>1, <4>2 DEF TP!Plain, TP!FirstTwoCombos
      <4>4. ~TP!LenUnderflows
        BY <4>1, <4>3, Assumed, TP!LenIs DEF TaikoInv, TP!IInv
      <4>5. QED
        BY <2>2, <4>4 DEF TP!NthPanics
    <3>2. QED
      BY <3>1
  <2>3. CASE UNCHANGED vars
    BY <2>3
  <2>4. QED
    BY <1>2, <2>1, <2>2, <2>3, Steps
<1> HIDE DEF L, Foretold
<1>3. Spec => [][Foretold]_vars
  BY <1>1, <1>2, SpecIInv, PTL DEF Spec
<1>4. QED
  BY <1>3 DEF LenForetells, Foretold
=============================================================================
