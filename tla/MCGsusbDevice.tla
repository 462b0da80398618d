---------------------------- MODULE MCGsusbDevice -----------------------------
(***************************************************************************)
(* GsusbDevice for TLC: two channels that differ in their         *)
(* features, two callers, and one thread id more than the readers that can *)
(* exist at once.                                                          *)
(***************************************************************************)
EXTENDS GsusbDevice, TLC

CONSTANTS a, b  \* an FD channel with timestamps, and a classic one without

Symmetry == Permutations(Callers) \cup Permutations(Readers)
===============================================================================
