----------------------------- MODULE MCPythonBus ------------------------------
(***************************************************************************)
(* PythonBus for TLC: two thread identities (the listener and one that     *)
(* stop() gave up waiting for), two detectors, and queues that overflow.   *)
(***************************************************************************)
EXTENDS PythonBus, TLC

Symmetry == Permutations(Listeners) \cup Permutations(Detectors)
===============================================================================
