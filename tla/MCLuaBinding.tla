------------------------------ MODULE MCLuaBinding -----------------------------
(***************************************************************************)
(* LuaBinding for TLC: two userdata of each type, so that a second one can *)
(* be made while the first is unreachable and not yet collected.           *)
(***************************************************************************)
EXTENDS LuaBinding, TLC

Symmetry == Permutations(Ctxs) \cup Permutations(Devs) \cup Permutations(Chans)
===============================================================================
