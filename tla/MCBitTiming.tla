----------------------------- MODULE MCBitTiming ------------------------------
(***************************************************************************)
(* BitTiming for TLC, in units of 100 kbit/s and 100 kHz: the clocks and   *)
(* limits of devices of this family, every bitrate from 100 kbit/s to      *)
(* 1 Mbit/s and some of the data phase, desired sample points that need    *)
(* every correction, and limits too tight for most of them.                *)
(***************************************************************************)
EXTENDS BitTiming

L(t1, t2, j, p, inc) ==
  [tseg1_min |-> t1[1], tseg1_max |-> t1[2], tseg2_min |-> t2[1], tseg2_max |-> t2[2],
   sjw_max |-> j, brp_min |-> p[1], brp_max |-> p[2], brp_inc |-> inc]

MCClocks == {0, 80, 240, 480, 800}
MCBitrates == (0..10) \cup {20, 50}
MCSamplePoints == {0, 20, 35, 39, 40}
MCLimits == {
  L(<<1, 16>>, <<1, 8>>, 4, <<1, 40>>, 1),    \* bxCAN: one list of quanta
  L(<<1, 256>>, <<1, 128>>, 128, <<1, 8>>, 1), \* an FD controller
  L(<<4, 6>>, <<2, 3>>, 0, <<2, 40>>, 2),     \* tight limits, even prescalers
  L(<<2, 5>>, <<4, 8>>, 2, <<1, 20>>, 0),     \* tseg2 longer than tseg1
  L(<<1, 16>>, <<1, 8>>, 4, <<0, 9>>, 1),     \* bad: no smallest prescaler
  L(<<1, 16>>, <<1, 8>>, 4, <<9, 8>>, 1)}     \* bad: no prescaler
===============================================================================
