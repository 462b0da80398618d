------------------------------- MODULE MCLuaBus -------------------------------
(***************************************************************************)
(* LuaBus for TLC: seconds of three ticks and polls of two, so that a poll *)
(* can end in the second it began in or not; sleeps of none, one and two   *)
(* seconds from any phase of the second; enough frames that a sleep whose  *)
(* every poll gets one has to poll more often than an idle one.            *)
(***************************************************************************)
EXTENDS LuaBus, TLC

Symmetry == Permutations(Detectors)
===============================================================================
