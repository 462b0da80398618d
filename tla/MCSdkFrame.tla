------------------------------ MODULE MCSdkFrame -------------------------------
(***************************************************************************)
(* SdkFrame for TLC: two channels with any features; lengths around every  *)
(* FD length and beyond 64; identifiers of one and two bits, tried with a   *)
(* bit more, and with one in the place of ERR, of RTR, of EFF and beyond;   *)
(* packets of any header that end at and around every boundary that         *)
(* handle_rx_packet() tests.                                                *)
(***************************************************************************)
EXTENDS SdkFrame

MCIds == [bits : 0..3, eff : BOOLEAN, err : BOOLEAN]
MCLens == {0, 1, 8, 9, 12, 13, 16, 24, 32, 48, 49, 64, 65, 255}
MCDlcs == {0, 8, 9, 15, 255}
MCLengths == {0, 11, 12, 20, 23, 24, 75, 76, 79, 80}
===============================================================================
