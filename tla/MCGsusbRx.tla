------------------------------ MODULE MCGsusbRx -------------------------------
(***************************************************************************)
(* GsusbRx for TLC: two channels that share the pipe and queues that       *)
(* overflow.  Calls are serialised, so one caller stands for all, and one  *)
(* thread id is used by one reader after another; recv() and send() are    *)
(* concurrent with them.                                                   *)
(***************************************************************************)
EXTENDS GsusbRx

CONSTANTS a, b  \* the channels

(* What the properties depend on, now and later: the histories faulted and, *)
(* after a loss, taken and q_drops are in no guard and no property of them. *)
RxView ==
  <<opened, started, hw_ts_enabled, start_lock, guarded, reader_thread, rpc, pc, locals,
    dev_on, plugged, pipe, buf, seq, rxq, newest, lossy,
    IF lossy THEN <<>> ELSE <<taken, q_drops>>>>
===============================================================================
