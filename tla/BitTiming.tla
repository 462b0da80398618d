------------------------------ MODULE BitTiming -------------------------------
(***************************************************************************)
(* gsusb_calc_bittiming() of driver/src/bittiming.c: the brute-force       *)
(* search over the prescaler brp for CAN bit-timing registers.  One step   *)
(* is one iteration of the loop.                                           *)
(*                                                                         *)
(* Clock and bitrate are integers in one unit (the code has Hz); sample    *)
(* points are multiples of 1/Unit.  The code compares doubles, with 1e-12  *)
(* of slack for their rounding; here fractions are compared exactly, by    *)
(* cross multiplication.  Different bitrate errors differ by much more     *)
(* than the slack, so only ties of the sample-point error, which rounding  *)
(* may break either way in the code, are decided differently.  All values  *)
(* are far below 2^31, so no C conversion changes them.                    *)
(***************************************************************************)
EXTENDS Integers

CONSTANTS
  Unit,          \* denominator of the sample points (40 has the defaults exactly)
  Clocks,        \* CAN clocks to try
  Bitrates,      \* bitrates to try
  SamplePoints,  \* desired sample points to try; outside 1..Unit-1: pick one
  Limits,        \* the gsusb_bittiming_const to try
  Fast, Faster   \* 500 and 800 kbit/s

(* gsusb_bittiming_const. *)
LimitsType ==
  [tseg1_min : Nat, tseg1_max : Nat, tseg2_min : Nat, tseg2_max : Nat,
   sjw_max : Nat, brp_min : Nat, brp_max : Nat, brp_inc : Nat]

ASSUME BitTimingAssumption ==
  /\ Unit \in Nat \ {0, 1}
  /\ Clocks \subseteq Nat /\ Bitrates \subseteq Nat /\ SamplePoints \subseteq Int
  /\ Limits \subseteq LimitsType

NoneYet == [brp |-> 0, tq |-> 0, tseg1 |-> 0]  \* have_best = 0

VARIABLES
  clock, bitrate, btc,  \* the arguments
  sample_point,         \* the argument, and then the default if there is none
  brp,                  \* the loop variable
  best,                 \* the best registers so far, or NoneYet
  sjw,                  \* the jump width written on success
  result                \* "call", "loop", or what the call returned

args == <<clock, bitrate, btc>>
vars == <<args, sample_point, brp, best, sjw, result>>

default_sample_point(b) ==
  CASE b > Faster -> (Unit * 3) \div 4
    [] b > Fast /\ b <= Faster -> (Unit * 4) \div 5
    [] OTHER -> (Unit * 7) \div 8

Abs(n) == IF n < 0 THEN -n ELSE n

(* n / d rounded to the nearest integer. *)
Nearest(n, d) == (n + d \div 2) \div d

(* Fractions with a positive denominator, compared. *)
Less(e, f) == e.n * f.d < f.n * e.d

(* Bitrate error of p * tq clock periods per bit, as a share of the bitrate. *)
BitrateErr(p, tq) == [n |-> Abs(clock - p * tq * bitrate), d |-> p * tq * bitrate]

(* Distance of the achieved from the desired sample point. *)
SampleErr(tseg1, tq) == [n |-> Abs((1 + tseg1) * Unit - sample_point * tq), d |-> tq * Unit]

(* Registers x beat y: a smaller bitrate error, or the same and a closer    *)
(* sample point.                                                            *)
Better(x, y) ==
  LET ex == BitrateErr(x.brp, x.tq)
      ey == BitrateErr(y.brp, y.tq)
  IN \/ Less(ex, ey)
     \/ ~Less(ey, ex) /\ Less(SampleErr(x.tseg1, x.tq), SampleErr(y.tseg1, y.tq))

-------------------------------------------------------------------------------
(* One prescaler. *)

(* Time quanta per bit, the synchronisation segment's one included. *)
Quanta(p) == Nearest(clock, p * bitrate)

(* The registers' limits. *)
Allowed(t1, t2) ==
  t1 \in btc.tseg1_min..btc.tseg1_max /\ t2 \in btc.tseg2_min..btc.tseg2_max

(* Mutant of Split: tseg1 is not moved for the sake of tseg2. *)
SplitKeepsGuess(t, total) ==
  IF t < btc.tseg1_min THEN btc.tseg1_min ELSE IF t > btc.tseg1_max THEN btc.tseg1_max ELSE t

(* tseg1 out of total quanta when t is wanted: brought within its own       *)
(* limits, and then moved to bring tseg2 within its limits.                 *)
Split(t, total) ==
  LET t1 == IF t < btc.tseg1_min THEN btc.tseg1_min
            ELSE IF t > btc.tseg1_max THEN btc.tseg1_max ELSE t
  IN IF total - t1 < btc.tseg2_min THEN total - btc.tseg2_min
     ELSE IF total - t1 > btc.tseg2_max THEN total - btc.tseg2_max
     ELSE t1

(* Mutant of Wanted: rounded down. *)
WantedDown(tq) == (sample_point * tq) \div Unit - 1

(* tseg1 for the desired sample point: (1 + tseg1) / tq = sample_point. *)
Wanted(tq) == Nearest(sample_point * tq, Unit) - 1

(* The registers for prescaler p; tseg2 is what tseg1 leaves. *)
Registers(p) ==
  [brp |-> p, tq |-> Quanta(p), tseg1 |-> Split(Wanted(Quanta(p)), Quanta(p) - 1)]

Tseg2(x) == x.tq - 1 - x.tseg1

(* None of the `continue` statements skips them. *)
Usable(x) ==
  /\ x.tq >= 3
  /\ x.tq - 1 >= btc.tseg1_min + btc.tseg2_min
  /\ Allowed(x.tseg1, Tseg2(x))

-------------------------------------------------------------------------------
(* The call. *)

Init ==
  /\ clock \in Clocks /\ bitrate \in Bitrates /\ btc \in Limits
  /\ sample_point \in SamplePoints
  /\ brp = 0
  /\ best = NoneYet
  /\ sjw = 0
  /\ result = "call"

(* GSUSB_ERR_INVALID. *)
BadArguments == clock = 0 \/ bitrate = 0 \/ btc.brp_min = 0 \/ btc.brp_max < btc.brp_min

Reject ==
  /\ result = "call"
  /\ BadArguments
  /\ result' = "invalid"
  /\ UNCHANGED <<args, sample_point, brp, best, sjw>>

Accept ==
  /\ result = "call"
  /\ ~BadArguments
  /\ sample_point' = IF sample_point \in 1..(Unit - 1) THEN sample_point
                     ELSE default_sample_point(bitrate)
  /\ brp' = btc.brp_min
  /\ result' = "loop"
  /\ UNCHANGED <<args, best, sjw>>

(* brp_inc, or 1 if the device says 0. *)
Step == IF btc.brp_inc = 0 THEN 1 ELSE btc.brp_inc

(* Mutant of TryBrp: the last usable prescaler wins. *)
TryKeepsLast ==
  /\ result = "loop" /\ brp <= btc.brp_max
  /\ best' = IF Usable(Registers(brp)) THEN Registers(brp) ELSE best
  /\ brp' = brp + Step
  /\ UNCHANGED <<args, sample_point, sjw, result>>

TryBrp ==
  /\ result = "loop" /\ brp <= btc.brp_max
  /\ best' = IF Usable(Registers(brp)) /\ (best = NoneYet \/ Better(Registers(brp), best))
             THEN Registers(brp) ELSE best
  /\ brp' = brp + Step
  /\ UNCHANGED <<args, sample_point, sjw, result>>

(* sjw: as wide as phase_seg2 and the device allow, and at least 1. *)
JumpWidth ==
  LET w == IF Tseg2(best) > btc.sjw_max THEN btc.sjw_max ELSE Tseg2(best)
  IN IF w = 0 THEN 1 ELSE w

Finish ==
  /\ result = "loop" /\ brp > btc.brp_max
  /\ IF best = NoneYet
     THEN result' = "no_solution" /\ UNCHANGED sjw
     ELSE result' = "ok" /\ sjw' = JumpWidth
  /\ UNCHANGED <<args, sample_point, brp, best>>

Next == Reject \/ Accept \/ TryBrp \/ Finish

Spec == Init /\ [][Next]_vars

-------------------------------------------------------------------------------
(* Properties. *)

(* Types; once the arguments are accepted the sample point is inside the    *)
(* bit and the clock, bitrate and prescalers are positive; a jump width is  *)
(* given exactly on success.                                                *)
TypeOK ==
  /\ clock \in Nat /\ bitrate \in Nat /\ btc \in LimitsType /\ sample_point \in Int
  /\ brp \in Nat /\ sjw \in Nat
  /\ result \in {"call", "invalid", "loop", "no_solution", "ok"}
  /\ result \notin {"call", "invalid"} =>
       clock > 0 /\ bitrate > 0 /\ brp > 0 /\ sample_point \in 1..(Unit - 1)
  /\ best = NoneYet \/ best \in [brp : Nat \ {0}, tq : Nat, tseg1 : Nat]
  /\ sjw > 0 <=> result = "ok"

(* The prescalers the device offers, those before limit. *)
Prescalers(limit) == {p \in btc.brp_min..btc.brp_max : (p - btc.brp_min) % Step = 0 /\ p < limit}

(* The splits of tq quanta within the limits. *)
Splits(tq) == {t1 \in btc.tseg1_min..btc.tseg1_max : Allowed(t1, (tq - 1) - t1)}

(* Correcting tseg1 for its own limits and then for those of tseg2 is       *)
(* enough: no split of the same quanta within the limits has its sample     *)
(* point closer to the desired one.                                         *)
ClosestSplit ==
  best # NoneYet =>
    /\ best.tseg1 \in Splits(best.tq)
    /\ \A t1 \in Splits(best.tq) :
         ~Less(SampleErr(t1, best.tq), SampleErr(best.tseg1, best.tq))

(* GSUSB_ERR_NO_BITTIMING_SOLUTION is true of every prescaler: the quanta   *)
(* nearest to the bitrate cannot be split within the limits (or are fewer   *)
(* than 3).                                                                 *)
NoSolutionMissed ==
  result = "no_solution" =>
    \A p \in Prescalers(btc.brp_max + 1) : Quanta(p) < 3 \/ Splits(Quanta(p)) = {}

(* The answer beats or equals every prescaler with every split of its       *)
(* nearest quanta: first in the bitrate, then in the sample point.          *)
BestOfAll ==
  result = "ok" =>
    \A p \in Prescalers(btc.brp_max + 1) : Quanta(p) >= 3 =>
      \A t1 \in Splits(Quanta(p)) : ~Better([brp |-> p, tq |-> Quanta(p), tseg1 |-> t1], best)
===============================================================================
