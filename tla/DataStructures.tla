---------------------------- MODULE DataStructures ----------------------------
(***************************************************************************)
(* The data structures that are shared by the calculators of several       *)
(* modes, each on its own: the LimitedQueue of recent values, the          *)
(* StrainsVec of section peaks and the ObjectCountBuilder of osu!catch.    *)
(* One of them is picked at the start and used through all its methods;    *)
(* the variables are those of the three, `len` and `iterating` shared.     *)
(***************************************************************************)
EXTENDS CatchObjects

CONSTANTS Values, N, Default, MaxNth,      \* of the LimitedQueue
          Strains, ReducedCount, MaxLen,   \* of the StrainsVec
          Takes, MaxTiny, MaxCalls,        \* of the ObjectCountBuilder
          None

ASSUME NAssumption == N \in Nat \ {0}
ASSUME StrainsAssumption == Strains \subseteq Nat
ASSUME ReducedCountAssumption == ReducedCount \in Nat
ASSUME CallsAssumption == Takes \subseteq Nat /\ MaxTiny \in Nat
ASSUME NoneAssumption == None \notin [is_zero : BOOLEAN, n : Nat]

VARIABLES structure,
          queue, end, len, iterating, head, tail, out, window,
          inner, it,
          take0, regular, gradual, recorded

only_queue  == <<queue, end, head, tail, out, window>>
only_vec    == <<inner, it>>
only_counts == <<take0, regular, gradual, recorded>>
vars == <<structure, len, iterating, only_queue, only_vec, only_counts>>

Queue  == INSTANCE LimitedQueue
Vec    == INSTANCE StrainsVec
Counts == INSTANCE CatchObjectCount

NoQueue  == queue = None /\ end = None /\ head = None /\ tail = None /\ out = None
              /\ window = None
NoVec    == inner = None /\ it = None
NoCounts == take0 = None /\ regular = None /\ gradual = None /\ recorded = None

Init == \/ structure = "LimitedQueue" /\ Queue!Init /\ NoVec /\ NoCounts
        \/ structure = "StrainsVec" /\ NoQueue /\ Vec!Init /\ NoCounts
        \/ structure = "ObjectCountBuilder" /\ NoQueue /\ NoVec /\ Counts!Init
           /\ len = None /\ iterating = None

UseQueue  == structure = "LimitedQueue" /\ Queue!Next /\ UNCHANGED <<only_vec, only_counts>>
UseVec    == structure = "StrainsVec" /\ Vec!Next /\ UNCHANGED <<only_queue, only_counts>>
UseCounts == structure = "ObjectCountBuilder" /\ Counts!Next
               /\ UNCHANGED <<len, iterating, only_queue, only_vec>>

Next == /\ UseQueue \/ UseVec \/ UseCounts
        /\ UNCHANGED structure

Spec == Init /\ [][Next]_vars

-----------------------------------------------------------------------------
(* Properties *)

\* LimitedQueue: the ring holds the window of the last N pushes, wherever it has wrapped
\* to, and indexing counts from the oldest one.
HoldsWindow == structure = "LimitedQueue" => Queue!HoldsWindow

\* The queue and its iterator are that window and an iterator over it, however calls
\* from both ends and skips are mixed.
IsSlidingWindow ==
  /\ structure = "LimitedQueue" => Queue!Window!Init
  /\ [][structure = "LimitedQueue"
          => Queue!Window!Next \/ UNCHANGED Queue!Window!vars]_vars

\* StrainsVec: a run of zeros is one entry, and the iterator's count is enough for what
\* it yields, so that `len -= 1` cannot underflow, also after zeros were removed behind
\* the count's back.
LenNeverShort == structure = "StrainsVec" => Vec!Compact /\ Vec!LenNeverShort

\* The compact list does what the plain list of the feature raw_strains does.
IsRawStrains ==
  /\ structure = "StrainsVec" => Vec!Raw!Init
  /\ [][structure = "StrainsVec" => Vec!Raw!Next \/ UNCHANGED Vec!Raw!vars]_vars

\* The builders hold what the calls amount to, and agree with each other: the first
\* `take` deltas of the Gradual one are the counts of the Regular one.
CountsAgree == structure = "ObjectCountBuilder" => Counts!HoldsCounts /\ Counts!BuildersAgree
=============================================================================
