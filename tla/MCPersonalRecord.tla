-------------------------- MODULE MCPersonalRecord --------------------------
(* Three lap times and four laps: a break, a faster one that crosses its   *)
(* confirmation, a lap between the two, and one more.  One refresh fails.  *)
EXTENDS PersonalRecord
=============================================================================
