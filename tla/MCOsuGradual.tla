---------------------------- MODULE MCOsuGradual ----------------------------
(* Small instance of OsuGradual: every map of up to three hit objects. *)
EXTENDS OsuGradual

CONSTANT MaxLen

MCMaps == UNION {[1..n -> HitObjects] : n \in 0..MaxLen}
=============================================================================
