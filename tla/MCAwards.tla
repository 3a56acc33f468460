------------------------------ MODULE MCAwards ------------------------------
(***************************************************************************)
(* Awards for TLC: all the rules, each up to a total at which there is     *)
(* nothing more to gain, by gains that hit the thresholds, just miss them  *)
(* and carry over several of them.                                         *)
(***************************************************************************)
EXTENDS Awards

EveryRule == AllRules
=============================================================================
