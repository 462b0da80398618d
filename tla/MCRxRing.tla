------------------------------- MODULE MCRxRing -------------------------------
(***************************************************************************)
(* RxRing for TLC: a ring that wraps, fills and overflows, with enough     *)
(* consumers that one can sleep while another is woken and a third steals  *)
(* the frame.                                                              *)
(***************************************************************************)
EXTENDS RxRing, TLC

(* The safety properties do not tell consumers apart. *)
Symmetry == Permutations(Consumers)
===============================================================================
