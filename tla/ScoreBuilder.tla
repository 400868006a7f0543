----------------------------- MODULE ScoreBuilder -----------------------------
(***************************************************************************)
(* What the performance builders of the four modes share.  The caller sets *)
(* what is known of a play in any order; generate_state fills in the rest  *)
(* for the given map or attributes and writes it back: the attributes in   *)
(* place of the map, the generated counts in place of the unknown ones.    *)
(* The builder can be used again after that.                               *)
(*                                                                         *)
(* An accuracy is the fraction acc / play.den; its arithmetic is exact.    *)
(***************************************************************************)
EXTENDS ObjectRuns, Integers, FiniteSetsExt

CONSTANT None

VARIABLES play,      \* the map, as each mode converts it, and what the caller sets
          source,    \* map_or_attrs; attributes know what they were calculated for
          opts,      \* the settings
          out        \* what generate_state returned, None after a setter

Priorities == {"BestCase", "WorstCase"}

\* map_or_attrs: a map, or the attributes of the first `p` objects
Map == [kind |-> "map"]
Attributes(p, count) == [kind |-> "attrs", passed |-> p, count |-> count]

\* The settings of a new builder
NewSettings(fields, p) ==
  [f \in fields |-> CASE f = "passed"   -> p
                      [] f = "priority" -> "BestCase"
                      [] f = "lazer"    -> TRUE
                      [] f = "classic"  -> FALSE
                      [] OTHER          -> None]

\* The settings `o` with those counts that `counts` has.
Overwritten(o, counts) == [f \in DOMAIN o |-> IF f \in DOMAIN counts THEN counts[f] ELSE o[f]]

OrZero(x) == IF x = None THEN 0 ELSE x
OrFull(x, full) == IF x = None THEN full ELSE Least(x, full)

Absolute(d) == IF d < 0 THEN -d ELSE d
\* `as u32` of floor and ceil of num / den: negative numbers become 0
Floor(num, den) == IF num < 0 THEN 0 ELSE num \div den
Ceil(num, den) == IF num < 0 THEN 0 ELSE (num + den - 1) \div den

\* A step in which the builder generates a state from new settings.
Generated == out = None /\ out' # None
=============================================================================
