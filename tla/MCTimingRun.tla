----------------------------- MODULE MCTimingRun ----------------------------
(* Two drivers, one with a transponder, two laps each, drawn below, at or  *)
(* above the minimum lap; a stray scan anywhere; an outage of one crossing *)
(* that hits either driver or the stray, on a lap, an out-lap or a bounce; *)
(* two sessions, so that the second finds what a stop left behind; and a   *)
(* confirmed record of the first driver that raises, lowers or seeds.      *)
EXTENDS TimingRun

MCConfirmed == {<<1, 3>>}
=============================================================================
