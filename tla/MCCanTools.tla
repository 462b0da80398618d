------------------------------ MODULE MCCanTools -------------------------------
(***************************************************************************)
(* CanTools for TLC: two adapters of different kinds, the second of which  *)
(* is found when the first cannot be opened, and an id nobody has.         *)
(***************************************************************************)
EXTENDS CanTools, TLC

CONSTANTS a, b

MCKnownIds == <<"gs_usb", "candlelight", "canext">>
MCIdOf == (a :> "gs_usb") @@ (b :> "candlelight")
===============================================================================
