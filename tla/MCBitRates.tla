------------------------------ MODULE MCBitRates -------------------------------
(***************************************************************************)
(* BitRates for TLC: the nominal phase as in MCBitTiming, and a data phase *)
(* with limits of its own, wide or tight, or none.                         *)
(***************************************************************************)
EXTENDS BitRates, MCBitTiming

MCDataLimits == {
  L(<<1, 32>>, <<1, 16>>, 16, <<1, 4>>, 1),   \* an FD controller's data phase
  L(<<4, 6>>, <<2, 3>>, 2, <<2, 8>>, 2)}
MCDataBitrates == {0, 10, 50}
===============================================================================
