----------------------------- MODULE TaikoGradual -----------------------------
(***************************************************************************)
(* TaikoGradualDifficulty: the gradual difficulty of an osu!taiko map.     *)
(* Only hits give an answer; drumrolls and swells in between are fed to    *)
(* the skills along the way.  The first two objects have no difficulty     *)
(* object, so their combo comes from a four-way case fixed at construction.*)
(*                                                                         *)
(* A map is the sequence of its objects' is_hit flags; difficulty object j *)
(* belongs to object j + 2.  The four skills are fed in lockstep and are   *)
(* one sequence here.                                                      *)
(***************************************************************************)
EXTENDS ObjectRuns, FiniteSets, Integers

CONSTANTS Maps,             \* the maps considered, sequences of BOOLEAN
          MaxCall,          \* bound on the n of nth(n); stands for usize::MAX too
          USizeSpan,        \* 2^64 of the program: where usize arithmetic wraps
          None

VARIABLES map,
          checked,  \* a build with overflow checks, which panics where others wrap
          idx, max_combo,
          iter,     \* difficulty objects taken from diff_objects_iter
          skills,   \* the difficulty objects the skills processed, in order
          panicked, \* a subtraction overflowed in a build that checks
          call,     \* the n of the latest call (0 for next)
          answer    \* what the latest call returned

vars == <<map, checked, idx, max_combo, iter, skills, panicked, call, answer>>

Hits(m, S) == {i \in S : m[i]}

n_diff_objects(m) == SaturatingSub(Len(m), 2)
total_hits(m) == Cardinality(Hits(m, 1..Len(m)))

-----------------------------------------------------------------------------
(* The one-shot calculation of a play that passed `take` objects *)

\* create_difficulty_objects inspects objects until `take` hits were counted.
Inspected(m, take) ==
  Cardinality({i \in 1..Len(m) : Cardinality(Hits(m, 1..(i - 1))) < take})

Calculate(m, take) ==
  [max_combo |-> Cardinality(Hits(m, 1..Inspected(m, take))),
   seen |-> Run(1, Least(n_diff_objects(m), SaturatingSub(Inspected(m, take), 2)))]

-----------------------------------------------------------------------------
(* The iterator *)

FirstTwoCombos ==
  LET first  == Len(map) >= 1 /\ map[1]
      second == Len(map) >= 2 /\ map[2]
  IN CASE first /\ second  -> "Both"
       [] first /\ ~second -> "OnlyFirst"
       [] ~first /\ second -> "OnlySecond"
       [] OTHER            -> "None"

ComboAfterEarly(n, c) ==
  CASE FirstTwoCombos \in {"OnlyFirst", "OnlySecond"} -> 1
    [] FirstTwoCombos = "Both"                        -> n
    [] OTHER                                          -> c

\* max_combo once `n` of the first two objects were passed, c being its value
ComboAfter(n, c) ==
  CASE FirstTwoCombos = "OnlyFirst"            -> 1
    [] FirstTwoCombos = "OnlySecond" /\ n = 2  -> 1
    [] FirstTwoCombos = "Both"                 -> n
    [] OTHER                                   -> c

\* ExactSizeIterator::len, a usize subtraction
LenUnderflows == idx > total_hits(map)
\* Variant of len that leaves the first object out.
LenFirstLess == total_hits(map) - 1 - idx

len == IF LenUnderflows THEN USizeSpan + total_hits(map) - idx
                        ELSE total_hits(map) - idx

\* The difficulty objects of hits that were not taken yet, and the k-th of them.
HitsAhead(it) == {j \in (it + 1)..n_diff_objects(map) : map[j + 2]}
KthHit(it, k) ==
  CHOOSE j \in HitsAhead(it) : Cardinality({h \in HitsAhead(it) : h <= j}) = k

Attributes(c, s) == [max_combo |-> c, seen |-> s]

Init == /\ map \in Maps /\ checked \in BOOLEAN
        /\ idx = 0 /\ max_combo = 0 /\ iter = 0 /\ skills = << >>
        /\ panicked = FALSE /\ call = 0 /\ answer = None

\* diff_objects_iter is advanced to the difficulty object `to`.
Process(it, s, to) == iter' = to /\ skills' = s \o Run(it + 1, to)

ExhaustedCounts(i, c, it, s) == /\ Process(it, s, n_diff_objects(map))
                                /\ idx' = i + 1 /\ max_combo' = c
                                /\ answer' = None

\* The iterator ran out inside a loop: `?` returns None, what was taken before
\* stays processed.
Exhausted(i, c, it, s) == /\ Process(it, s, n_diff_objects(map))
                          /\ idx' = i /\ max_combo' = c
                          /\ answer' = None

\* next(), entered with idx i, max_combo c, iterator it and skills s
Serve(i, c, it, s) ==
  \/ /\ i >= 2 /\ HitsAhead(it) # {}
     /\ Process(it, s, KthHit(it, 1))
     /\ max_combo' = c + 1 /\ idx' = i + 1
     /\ answer' = Attributes(max_combo', skills')
  \/ /\ i >= 2 /\ HitsAhead(it) = {}
     /\ Exhausted(i, c, it, s)
  \/ /\ i < 2 /\ n_diff_objects(map) = 0
     /\ idx' = i /\ max_combo' = c /\ iter' = it /\ skills' = s
     /\ answer' = None
  \/ /\ i < 2 /\ n_diff_objects(map) > 0
     /\ max_combo' = ComboAfter(i + 1, c) /\ idx' = i + 1
     /\ iter' = it /\ skills' = s
     /\ answer' = Attributes(max_combo', skills')

CallNext == /\ ~panicked
            /\ call' = 0
            /\ Serve(idx, max_combo, iter, skills)
            /\ UNCHANGED <<map, checked, panicked>>

\* nth(n): min(n, len - 1) answers are skipped, those of the first two objects
\* (without a difficulty object) before the others.
Wanted(n) == Least(n, SaturatingSub(len, 1))
\* Variant of FirstSkipped that forgets how many of the two were passed.
FirstSkippedBoth(n) == Least(Wanted(n), 2)

FirstSkipped(n) == Least(Wanted(n), SaturatingSub(2, idx))
LaterSkipped(n) == Wanted(n) - FirstSkipped(n)
ComboSkipped(n) == IF FirstSkipped(n) = 0 THEN max_combo
                   ELSE ComboAfter(idx + FirstSkipped(n), max_combo)

CallNth(n) ==
  /\ ~panicked
  /\ ~(checked /\ LenUnderflows)
  /\ call' = n
  /\ UNCHANGED <<map, checked, panicked>>
  /\ LET i     == idx + FirstSkipped(n)
         c     == ComboSkipped(n)
         k     == LaterSkipped(n)
         ahead == Cardinality(HitsAhead(iter))
     IN \/ /\ k = 0
           /\ Serve(i, c, iter, skills)
        \/ /\ 0 < k /\ k <= ahead
           /\ LET to == KthHit(iter, k)
              IN  Serve(i + k, c + k, to, skills \o Run(iter + 1, to))
        \/ /\ k > ahead
           /\ Exhausted(i + ahead, c + ahead, iter, skills)

\* In a build with overflow checks, nth panics in len().
NthPanics == /\ ~panicked
             /\ checked /\ LenUnderflows
             /\ panicked' = TRUE
             /\ UNCHANGED <<map, checked, idx, max_combo, iter, skills, call, answer>>

\* After that nobody can use the calculator.
Poisoned == panicked /\ UNCHANGED vars

Next == CallNext \/ (\E n \in 0..MaxCall : CallNth(n)) \/ NthPanics \/ Poisoned

Spec == Init /\ [][Next]_vars

-----------------------------------------------------------------------------
(* Properties *)

\* On every map, however next and nth were mixed: the skills have processed the
\* difficulty objects taken from the iterator once and in order, and max_combo
\* is the number of hits among the objects that were passed, the first two
\* (counted by the case table) included.
Fed == /\ skills = Run(1, iter)
       /\ max_combo = Cardinality(Hits(map, 1..Least(idx, 2)))
                       + Cardinality({j \in 1..iter : map[j + 2]})

\* Once a calculator ran out past the second object the whole map was processed
\* and all its hits are in the combo, on every map: nothing can follow a None.
DrainedIsWhole == answer = None /\ idx >= 2 =>
                    max_combo = total_hits(map) /\ skills = Run(1, n_diff_objects(map))

\* len() underflows, and a checking build panics, only on a map whose first two
\* objects are not both hits.
OnlyOddMapsPanic == panicked \/ LenUnderflows => FirstTwoCombos # "Both"

\* The maps the module's tests use: three objects at least, hits up front.
Plain == Len(map) >= 3 /\ map[1] /\ map[2]

=============================================================================
