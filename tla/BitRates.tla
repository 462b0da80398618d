------------------------------- MODULE BitRates -------------------------------
(***************************************************************************)
(* Bus.configure() of bus.py down to the control requests of gsusb.c:      *)
(* gsusb_channel_set_bitrate() and then, for CAN FD, ..set_data_bitrate(), *)
(* each the search of BitTiming under the limits of its phase, and a       *)
(* request that may fail; and a configure_raw() after it.                  *)
(***************************************************************************)
EXTENDS BitTiming

CONSTANTS
  DataLimits,    \* data-phase gsusb_bittiming_const to try
  DataBitrates,  \* data-phase bitrates to try
  Absent,        \* no data-phase constants, or no data_bitrate
  Given          \* the registers handed to configure_raw()

ASSUME BitRatesAssumption ==
  /\ DataLimits \subseteq LimitsType /\ DataBitrates \subseteq Nat
  /\ Absent \notin DataLimits \cup Nat

VARIABLES
  bt_const,  \* of each phase; data: Absent if the device gave none
  fd, data_bitrate,  \* arguments of configure()
  phase,     \* the phase being set, or how configure() ended
  device,    \* the registers of each phase on the device
  asked,     \* history: the bitrate asked for in each phase
  raw        \* history: the phases given to configure_raw()

config == <<bt_const, fd, data_bitrate, asked>>

Unset == [unset |-> TRUE]

(* configure() has called gsusb_channel_set_bitrate(). *)
ConfigureInit ==
  /\ Init
  /\ bt_const \in [nominal : {btc}, data : DataLimits \cup {Absent}]
  /\ fd \in BOOLEAN
  /\ data_bitrate \in IF fd THEN DataBitrates \cup {Absent} ELSE {Absent}
  /\ phase = "nominal"
  /\ device = [nominal |-> Unset, data |-> Unset]
  /\ asked = [nominal |-> bitrate, data |-> data_bitrate]
  /\ raw = {}

(* gsusb_calc_bittiming(). *)
Calculate ==
  /\ phase \in {"nominal", "data"}
  /\ Next
  /\ UNCHANGED <<config, phase, device, raw>>

(* The error of the calculation is raised; nothing is sent. *)
NoTiming ==
  /\ phase \in {"nominal", "data"}
  /\ result \in {"invalid", "no_solution"}
  /\ phase' = "raised"
  /\ UNCHANGED <<vars, config, device, raw>>

(* prop_seg is 0, and phase_seg1 all of tseg1. *)
Timing ==
  [prop_seg |-> 0, phase_seg1 |-> best.tseg1, phase_seg2 |-> Tseg2(best),
   sjw |-> sjw, brp |-> best.brp]

(* Mutant of DataConst: the data phase has the limits of the nominal one. *)
DataConstNominal == bt_const.nominal

(* The limits gsusb_channel_set_data_bitrate() uses. *)
DataConst == IF bt_const.data = Absent THEN bt_const.nominal ELSE bt_const.data

(* gsusb_channel_set_data_bitrate() is called: the locals are new.          *)
SetDataBitrate ==
  /\ phase' = "data"
  /\ bitrate' = data_bitrate
  /\ btc' = DataConst
  /\ sample_point' \in SamplePoints
  /\ brp' = 0 /\ best' = NoneYet /\ sjw' = 0
  /\ result' = "call"
  /\ UNCHANGED clock

(* What configure() does when the phase is set. *)
PhaseSet ==
  \/ phase = "nominal" /\ fd /\ data_bitrate # Absent /\ SetDataBitrate
  \/ phase = "nominal" /\ fd /\ data_bitrate = Absent /\ phase' = "raised" /\ UNCHANGED vars
  \/ phase = "nominal" /\ ~fd /\ phase' = "configured" /\ UNCHANGED vars
  \/ phase = "data" /\ phase' = "configured" /\ UNCHANGED vars

(* send_bittiming() succeeds. *)
SendTiming ==
  /\ phase \in {"nominal", "data"} /\ result = "ok"
  /\ device' = [device EXCEPT ![phase] = Timing]
  /\ PhaseSet
  /\ UNCHANGED <<config, raw>>

(* It fails, and the device may have taken the registers all the same.      *)
SendFails ==
  /\ phase \in {"nominal", "data"} /\ result = "ok"
  /\ device' \in {device, [device EXCEPT ![phase] = Timing]}
  /\ phase' = "raised"
  /\ UNCHANGED <<vars, config, raw>>

(* configure_raw(), after configure(): send_bittiming() of what it is       *)
(* given, for one of the phases, which succeeds or fails likewise.  (One    *)
(* call is enough: a second would only replace the registers again.)        *)
configure_raw(p) ==
  /\ phase \in {"configured", "raised"} /\ raw = {}
  /\ device' \in {device, [device EXCEPT ![p] = Given]}
  /\ raw' = {p}
  /\ UNCHANGED <<vars, config, phase>>

ConfigureNext ==
  \/ Calculate \/ NoTiming \/ SendTiming \/ SendFails
  \/ \E p \in {"nominal", "data"} : configure_raw(p)

ConfigureSpec == ConfigureInit /\ [][ConfigureNext]_<<vars, config, phase, device, raw>>

-------------------------------------------------------------------------------
(* Properties. *)

(* Registers t are within limits c. *)
Legal(t, c) ==
  /\ t.prop_seg + t.phase_seg1 \in c.tseg1_min..c.tseg1_max
  /\ t.phase_seg2 \in c.tseg2_min..c.tseg2_max
  /\ t.sjw <= t.phase_seg2 \/ t.sjw = 1
  /\ t.sjw <= c.sjw_max \/ t.sjw = 1
  /\ t.brp \in c.brp_min..c.brp_max

(* Registers t make bitrate b, to within half a quantum per bit. *)
Makes(t, b) ==
  LET tq == 1 + t.prop_seg + t.phase_seg1 + t.phase_seg2
  IN 2 * Abs(clock - t.brp * tq * b) <= t.brp * b

(* The registers of phase p make the bitrate asked for in it, within the    *)
(* limits the device gave for this phase.                                   *)
AsAsked(p) ==
  /\ device[p] # Unset
  /\ bt_const[p] # Absent => Legal(device[p], bt_const[p])
  /\ Makes(device[p], asked[p])

(* When configure() has returned, both phases it was asked for are as       *)
(* asked.  Wherever it failed instead, and whether or not the device took   *)
(* the request that failed, no phase is left with registers of the other    *)
(* phase's limits or bitrate, and the data phase is not set unless the      *)
(* nominal one is: what configure_raw() has replaced apart.                 *)
PhasesConfigured ==
  /\ "nominal" \notin raw =>
       AsAsked("nominal") \/ (device.nominal = Unset /\ phase # "configured")
  /\ "data" \notin raw =>
       \/ fd /\ AsAsked("data") /\ ("nominal" \in raw \/ AsAsked("nominal"))
       \/ device.data = Unset /\ (phase = "configured" => ~fd)
===============================================================================
