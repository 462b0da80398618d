----------------------------- MODULE GsusbDevice ------------------------------
(***************************************************************************)
(* The life of one opened device (struct gsusb_dev of driver/src/gsusb.c): *)
(* gsusb_open(), gsusb_channel_start(), gsusb_channel_stop(),              *)
(* gsusb_close(), called by any number of threads, and the one background  *)
(* reader thread they are meant to share.                                  *)
(*                                                                         *)
(* A step is what happens between two points at which another thread can   *)
(* observe or change something: taking start_lock, a USB control request,  *)
(* pthread_create(), pthread_join().  start_lock is a variable because     *)
(* gsusb_channel_start() holds it across a USB request.                    *)
(*                                                                         *)
(* USB requests and pthread_create() can fail, a request that reports a    *)
(* failure (a time-out) may have reached the device all the same, and the  *)
(* device can be unplugged at any moment.                                  *)
(***************************************************************************)
EXTENDS Naturals, FiniteSets

CONSTANTS
  Channels,    \* the channels of the device
  FdChannels,  \* those with GS_CAN_FEATURE_FD
  TsChannels,  \* those with GS_CAN_FEATURE_HW_TIMESTAMP
  Callers,     \* application threads
  Readers,     \* thread ids pthread_create() can hand out
  NoOne,       \* not a caller, not a reader, not a channel
  Serialised   \* the application never overlaps two of the calls above on one
               \* device: what the command-line tools and the SDKs do.  gsusb.h
               \* does not ask for it.

ASSUME DeviceAssumption ==
  /\ IsFiniteSet(Channels)
  /\ FdChannels \subseteq Channels
  /\ TsChannels \subseteq Channels
  /\ NoOne \notin Callers \cup Readers \cup Channels
  /\ Serialised \in BOOLEAN

VARIABLES
  opened,                                      \* gsusb_open() returned a device
  started, hw_ts_enabled,                      \* the channels with that flag set
  start_lock,                                  \* its holder, or NoOne
  active_channels, reader_running, stop_flag,  \* what start_lock guards
  reader_thread,                               \* the reader's id, NoOne at first
  rpc,                                         \* where each reader thread is
  pc, ch, join,                                \* each caller: step, channel, id to join
  dev_on,                                      \* the channels the device has live
  plugged,                                     \* the device behind the handle is there
  faulted                                      \* history: the channels whose last request failed,
                                               \* or took effect in a start that failed

guarded == <<active_channels, reader_running, stop_flag>>
locals == <<ch, join>>
device == <<dev_on, plugged, faulted>>
vars == <<opened, started, hw_ts_enabled, start_lock, guarded, reader_thread, rpc, pc,
          locals, device>>

(* The thread exists and can still touch the struct gsusb_dev. *)
Alive(r) == rpc[r] \in {"new", "top", "reading"}

Live == {r \in Readers : Alive(r)}

AllIdle == \A c \in Callers : pc[c] = "idle"

Goto(c, l) == pc' = [pc EXCEPT ![c] = l]

(* A caller starts an operation.  No call overlaps gsusb_close(), which    *)
(* frees the device.                                                       *)
Begin(c) ==
  /\ opened
  /\ pc[c] = "idle"
  /\ \A d \in Callers : pc[d] \notin {"close_join", "close_free"}
  /\ Serialised => AllIdle
  /\ start_lock = NoOne

Init ==
  /\ opened = FALSE
  /\ started = {} /\ hw_ts_enabled = {}
  /\ start_lock = NoOne
  /\ active_channels = 0 /\ reader_running = FALSE /\ stop_flag = FALSE
  /\ reader_thread = NoOne
  /\ rpc = [r \in Readers |-> "free"]
  /\ pc = [c \in Callers |-> "idle"]
  /\ ch = [c \in Callers |-> NoOne]
  /\ join = [c \in Callers |-> NoOne]
  /\ dev_on = {}
  /\ plugged = TRUE
  /\ faulted = {}

-------------------------------------------------------------------------------
(* USB control requests, as ctrl_out() uses libusb. *)

(* A GS_USB_BREQ_MODE request for channel k that succeeds; effect is the    *)
(* set of channels the device then has live.                                *)
ModeOk(k, effect) ==
  /\ plugged
  /\ dev_on' = effect
  /\ faulted' = faulted \ {k}
  /\ UNCHANGED plugged

(* A request that fails; it may have taken effect before it did. *)
ModeFails(k, effect) ==
  /\ dev_on' \in {dev_on, IF plugged THEN effect ELSE dev_on}
  /\ faulted' = faulted \cup {k}
  /\ UNCHANGED plugged

-------------------------------------------------------------------------------
(* gsusb_channel_start(ch, mode_flags). *)

(* Refused at once: already started (GSUSB_ERR_BUSY) or GSUSB_MODE_FD on a *)
(* channel without the feature (GSUSB_ERR_INVALID).                        *)
StartRefused(c, k, fd) ==
  /\ Begin(c)
  /\ k \in started \/ (fd /\ k \notin FdChannels)
  /\ UNCHANGED vars

(* Accepted: start_lock stays held. *)
StartCall(c, k, fd) ==
  /\ Begin(c)
  /\ k \notin started
  /\ fd => k \in FdChannels
  /\ start_lock' = c
  /\ ch' = [ch EXCEPT ![c] = k]
  /\ Goto(c, "start_ctrl")
  /\ UNCHANGED <<opened, started, hw_ts_enabled, guarded, reader_thread, rpc, join, device>>

(* Mutant of StartCtrl: the result of the request is ignored. *)
StartIgnoresFailure(c) ==
  /\ pc[c] = "start_ctrl"
  /\ ModeOk(ch[c], dev_on \cup {ch[c]}) \/ ModeFails(ch[c], dev_on \cup {ch[c]})
  /\ Goto(c, "start_commit")
  /\ UNCHANGED <<opened, started, hw_ts_enabled, start_lock, guarded, reader_thread, rpc, locals>>

(* The GS_CAN_MODE_START request; on failure the call returns the error.   *)
StartCtrl(c) ==
  /\ pc[c] = "start_ctrl"
  /\ \/ /\ ModeOk(ch[c], dev_on \cup {ch[c]})
        /\ Goto(c, "start_commit")
        /\ UNCHANGED start_lock
     \/ /\ ModeFails(ch[c], dev_on \cup {ch[c]})
        /\ Goto(c, "idle")
        /\ start_lock' = NoOne
  /\ UNCHANGED <<opened, started, hw_ts_enabled, guarded, reader_thread, rpc, locals>>

(* The channel is counted; with a reader running the call is done.         *)
StartCommit(c) ==
  /\ pc[c] = "start_commit"
  /\ hw_ts_enabled' = IF ch[c] \in TsChannels THEN hw_ts_enabled \cup {ch[c]}
                                              ELSE hw_ts_enabled \ {ch[c]}
  /\ started' = started \cup {ch[c]}
  /\ active_channels' = active_channels + 1
  /\ IF reader_running
     THEN Goto(c, "idle") /\ start_lock' = NoOne
     ELSE Goto(c, "start_create") /\ UNCHANGED start_lock
  /\ UNCHANGED <<opened, reader_running, stop_flag, reader_thread, rpc, locals, device>>

(* pthread_create(), for a reader that is to find stop_flag = flag; a       *)
(* failure takes the channel back, counts n channels, and leaves the        *)
(* device's channel live and hw_ts_enabled as it is.                        *)
CreateReader(c, flag, n) ==
  /\ pc[c] = "start_create"
  /\ stop_flag' = flag
  /\ \/ /\ \E r \in Readers :
             /\ rpc[r] = "free"
             /\ rpc' = [rpc EXCEPT ![r] = "new"]
             /\ reader_thread' = r
        /\ reader_running' = TRUE
        /\ UNCHANGED <<started, active_channels, faulted>>
     \/ /\ started' = started \ {ch[c]}
        /\ active_channels' = n
        /\ faulted' = faulted \cup {ch[c]}
        /\ UNCHANGED <<rpc, reader_thread, reader_running>>
  /\ start_lock' = NoOne
  /\ Goto(c, "idle")
  /\ UNCHANGED <<opened, hw_ts_enabled, locals, dev_on, plugged>>

(* Mutants of StartCreate: the flag of the last stop stays up; the roll     *)
(* back forgets the count.                                                  *)
StartCreateKeepsFlag(c) == CreateReader(c, stop_flag, active_channels - 1)

StartCreateKeepsCount(c) == CreateReader(c, FALSE, active_channels)

StartCreate(c) == CreateReader(c, FALSE, active_channels - 1)

-------------------------------------------------------------------------------
(* gsusb_channel_stop(ch). *)

(* Not started: returns 0. *)
StopIdle(c, k) ==
  /\ Begin(c)
  /\ k \notin started
  /\ UNCHANGED vars

(* The channel is uncounted; the last one raises stop_flag.  "stop_last"    *)
(* and "stop_reset" are the two values of the local stop_reader.            *)
StopCall(c, k) ==
  LET left == IF active_channels > 0 THEN active_channels - 1 ELSE active_channels
      last == left = 0
  IN /\ Begin(c)
     /\ k \in started
     /\ started' = started \ {k}
     /\ active_channels' = left
     /\ stop_flag' = (stop_flag \/ last)
     /\ ch' = [ch EXCEPT ![c] = k]
     /\ Goto(c, IF last THEN "stop_last" ELSE "stop_reset")
     /\ UNCHANGED <<opened, hw_ts_enabled, start_lock, reader_running, reader_thread, rpc,
                    join, device>>

(* Mutant of StopCtrl: the request is not sent. *)
StopForgetsReset(c) ==
  /\ pc[c] \in {"stop_reset", "stop_last"}
  /\ Goto(c, IF pc[c] = "stop_last" THEN "stop_join" ELSE "idle")
  /\ UNCHANGED <<opened, started, hw_ts_enabled, start_lock, guarded, reader_thread, rpc,
                 locals, device>>

(* The GS_CAN_MODE_RESET request, sent without start_lock; its result is    *)
(* ignored.                                                                 *)
StopCtrl(c) ==
  /\ pc[c] \in {"stop_reset", "stop_last"}
  /\ ModeOk(ch[c], dev_on \ {ch[c]}) \/ ModeFails(ch[c], dev_on \ {ch[c]})
  /\ Goto(c, IF pc[c] = "stop_last" THEN "stop_join" ELSE "idle")
  /\ UNCHANGED <<opened, started, hw_ts_enabled, start_lock, guarded, reader_thread, rpc,
                 locals>>

(* pthread_join() is called with the id of the moment.  A second thread     *)
(* joining the same id gets EINVAL at once.                                 *)
StopJoinCall(c) ==
  /\ pc[c] = "stop_join"
  /\ join' = [join EXCEPT ![c] = reader_thread]
  /\ Goto(c, IF \E d \in Callers : pc[d] = "stop_joining" /\ join[d] = reader_thread
              THEN "stop_clear" ELSE "stop_joining")
  /\ UNCHANGED <<opened, started, hw_ts_enabled, start_lock, guarded, reader_thread, rpc, ch,
                 device>>

(* pthread_join(join[c]) returns: the thread has ended, or was joined       *)
(* before and its id not used again.                                        *)
JoinReturns(c) ==
  \E r \in Readers :
    /\ join[c] = r
    /\ ~Alive(r)
    /\ rpc' = [rpc EXCEPT ![r] = "free"]

(* Mutants of StopJoin: it does not wait; it waits with start_lock held.    *)
StopJoinSkipped(c) ==
  /\ pc[c] = "stop_joining"
  /\ Goto(c, "stop_clear")
  /\ UNCHANGED <<opened, started, hw_ts_enabled, start_lock, guarded, reader_thread, rpc,
                 locals, device>>

StopJoinLocked(c) ==
  /\ pc[c] = "stop_joining"
  /\ \/ /\ start_lock = NoOne
        /\ start_lock' = c
        /\ UNCHANGED <<rpc, pc>>
     \/ /\ start_lock = c
        /\ start_lock' = NoOne
        /\ JoinReturns(c)
        /\ Goto(c, "stop_clear")
  /\ UNCHANGED <<opened, started, hw_ts_enabled, guarded, reader_thread, locals, device>>

StopJoin(c) ==
  /\ pc[c] = "stop_joining"
  /\ JoinReturns(c)
  /\ Goto(c, "stop_clear")
  /\ UNCHANGED <<opened, started, hw_ts_enabled, start_lock, guarded, reader_thread, locals,
                 device>>

(* Mutant of StopClear: reader_running stays up. *)
StopClearSkipped(c) ==
  /\ pc[c] = "stop_clear"
  /\ Goto(c, "idle")
  /\ UNCHANGED <<opened, started, hw_ts_enabled, start_lock, guarded, reader_thread, rpc,
                 locals, device>>

StopClear(c) ==
  /\ pc[c] = "stop_clear"
  /\ start_lock = NoOne
  /\ reader_running' = FALSE
  /\ Goto(c, "idle")
  /\ UNCHANGED <<opened, started, hw_ts_enabled, start_lock, active_channels, stop_flag,
                 reader_thread, rpc, locals, device>>

-------------------------------------------------------------------------------
(* gsusb_close(dev) and gsusb_open(). *)

CloseCall(c) ==
  /\ Begin(c)
  /\ AllIdle
  /\ stop_flag' = TRUE
  /\ join' = [join EXCEPT ![c] = IF reader_running THEN reader_thread ELSE NoOne]
  /\ Goto(c, "close_join")
  /\ UNCHANGED <<opened, started, hw_ts_enabled, start_lock, active_channels, reader_running,
                 reader_thread, rpc, ch, device>>

CloseJoin(c) ==
  /\ pc[c] = "close_join"
  /\ IF join[c] = NoOne THEN UNCHANGED rpc ELSE JoinReturns(c)
  /\ Goto(c, "close_free")
  /\ UNCHANGED <<opened, started, hw_ts_enabled, start_lock, guarded, reader_thread, locals,
                 device>>

(* Best-effort GS_CAN_MODE_RESET of every started channel, then the device  *)
(* is freed.  Of the requests that fail, those in lost took no effect.      *)
CloseFree(c) ==
  /\ pc[c] = "close_free"
  /\ \E failed \in SUBSET started :
       /\ ~plugged => failed = started
       /\ \E lost \in SUBSET failed : dev_on' = dev_on \ (started \ lost)
       /\ faulted' = (faulted \ started) \cup failed
  /\ opened' = FALSE
  /\ Goto(c, "idle")
  /\ UNCHANGED <<started, hw_ts_enabled, start_lock, guarded, reader_thread, rpc, locals, plugged>>

(* A later gsusb_open(): a fresh object on a device that is there.  It sends *)
(* no RESET, so what an earlier session left live stays live; a device that  *)
(* was plugged in anew has nothing live.                                     *)
Open ==
  /\ ~opened
  /\ opened' = TRUE
  /\ started' = {} /\ hw_ts_enabled' = {}
  /\ start_lock' = NoOne
  /\ active_channels' = 0 /\ reader_running' = FALSE /\ stop_flag' = FALSE
  /\ reader_thread' = NoOne
  /\ plugged' = TRUE
  /\ faulted' = IF plugged THEN faulted ELSE {}
  /\ UNCHANGED <<rpc, pc, locals, dev_on>>

-------------------------------------------------------------------------------
(* reader_thread_fn(). *)

ReaderGoto(r, l) ==
  /\ rpc' = [rpc EXCEPT ![r] = l]
  /\ UNCHANGED <<opened, started, hw_ts_enabled, start_lock, guarded, reader_thread, pc, locals,
                 device>>

(* malloc() of the buffer; without it the thread ends. *)
ReaderAlloc(r) ==
  /\ rpc[r] = "new"
  /\ \E l \in {"top", "dead"} : ReaderGoto(r, l)

(* The test of stop_flag, under start_lock. *)
ReaderTop(r) ==
  /\ rpc[r] = "top"
  /\ start_lock = NoOne
  /\ ReaderGoto(r, IF stop_flag THEN "exited" ELSE "reading")

(* The bulk-IN transfer: data, a time-out or a transient error go round the *)
(* loop, also if the device is gone by the time they are handled;           *)
(* LIBUSB_ERROR_NO_DEVICE and LIBUSB_ERROR_IO end the thread, and           *)
(* reader_running is not told.                                              *)
ReaderTransfer(r) ==
  /\ rpc[r] = "reading"
  /\ \E l \in {"top", "dead"} : ReaderGoto(r, l)

(* The device is unplugged, and loses its state. *)
Unplug ==
  /\ plugged
  /\ plugged' = FALSE
  /\ dev_on' = {}
  /\ UNCHANGED <<opened, started, hw_ts_enabled, start_lock, guarded, reader_thread, rpc, pc,
                 locals, faulted>>

-------------------------------------------------------------------------------
CallBegins(c) ==
  \/ \E k \in Channels, fd \in BOOLEAN : StartRefused(c, k, fd) \/ StartCall(c, k, fd)
  \/ \E k \in Channels : StopIdle(c, k) \/ StopCall(c, k)
  \/ CloseCall(c)

CallGoesOn(c) ==
  \/ StartCtrl(c) \/ StartCommit(c) \/ StartCreate(c)
  \/ StopCtrl(c) \/ StopJoinCall(c) \/ StopJoin(c) \/ StopClear(c)
  \/ CloseJoin(c)

CallStep(c) == CallGoesOn(c) \/ CloseFree(c)

ReaderStep(r) == ReaderAlloc(r) \/ ReaderTop(r) \/ ReaderTransfer(r)

Next ==
  \/ \E c \in Callers : CallBegins(c) \/ CallStep(c)
  \/ Open
  \/ \E r \in Readers : ReaderStep(r)
  \/ Unplug

Spec == Init /\ [][Next]_vars

(* A call in progress and the reader keep running (every USB transfer has a *)
(* time-out); nobody is obliged to make a call.                             *)
Fairness ==
  /\ \A c \in Callers : WF_vars(CallStep(c))
  /\ \A r \in Readers : WF_vars(ReaderStep(r))

FairSpec == Spec /\ Fairness

-------------------------------------------------------------------------------
(* Properties. *)

TypeOK ==
  /\ opened \in BOOLEAN
  /\ started \subseteq Channels
  /\ hw_ts_enabled \subseteq Channels
  /\ start_lock \in Callers \cup {NoOne}
  /\ active_channels \in Nat
  /\ reader_running \in BOOLEAN
  /\ stop_flag \in BOOLEAN
  /\ reader_thread \in Readers \cup {NoOne}
  /\ rpc \in [Readers -> {"free", "new", "top", "reading", "exited", "dead"}]
  /\ pc \in [Callers -> {"idle", "start_ctrl", "start_commit", "start_create",
                         "stop_reset", "stop_last", "stop_join", "stop_joining", "stop_clear",
                         "close_join", "close_free"}]
  /\ ch \in [Callers -> Channels \cup {NoOne}]
  /\ join \in [Callers -> Readers \cup {NoOne}]
  /\ dev_on \subseteq Channels
  /\ plugged \in BOOLEAN
  /\ faulted \subseteq Channels

(* active_channels counts the started channels, whatever fails and whoever  *)
(* interleaves: the first start and the last stop are recognised by it.     *)
ActiveCount == active_channels = Cardinality(started)

(* Every thread that exists is the one gsusb_channel_stop() or gsusb_close() *)
(* would join: there are never two readers on the bulk-IN pipe, no thread id *)
(* is lost, and none runs once the device has been freed.                    *)
OnlyReader ==
  \A r \in Readers : rpc[r] # "free" => opened /\ reader_running /\ r = reader_thread

(* Between calls, a device with started channels has its reader thread: not *)
(* told to stop, and ended only by a USB error or a failed malloc() of its  *)
(* own.                                                                     *)
ActiveHasReader ==
  opened /\ AllIdle /\ started # {} =>
    /\ reader_running /\ ~stop_flag /\ reader_thread \in Readers
    /\ rpc[reader_thread] \in {"new", "top", "reading", "dead"}

(* Between calls, a device without started channels has none: it was        *)
(* joined, and the next start will create one, even after a reader that     *)
(* died.                                                                    *)
IdleHasNoReader ==
  opened /\ AllIdle /\ started = {} => ~reader_running /\ \A r \in Readers : rpc[r] = "free"

(* Both: at any moment the only thread is the one that a stop or close will *)
(* join, and when the last stop has returned there is none.                 *)
ReaderAccounted == OnlyReader /\ IdleHasNoReader

(* gsusb.h: gsusb_channel_stop() "stops the reader thread" if it stopped the *)
(* last active channel; so when it returns, and no channel was started since, *)
(* none runs.  FALSE of overlapping stops: the second of two that join the   *)
(* same thread does not wait for it.                                         *)
StopEndsReader ==
  [][\A c \in Callers :
       pc[c] = "stop_clear" /\ pc'[c] = "idle" /\ started = {} => Live = {}]_vars

(* Between calls, every started channel is live on a device that is there:  *)
(* no GS_CAN_MODE_RESET of an earlier stop arrives after the START.         *)
StartedIsLive == opened /\ AllIdle /\ plugged => started \subseteq dev_on

(* Between calls, the device has live exactly the started channels, and none *)
(* once it is closed, but for the channels whose own last request failed (or *)
(* whose start failed after it): a failure leaves every other channel alone, *)
(* and the next request that succeeds ends the disagreement, as does         *)
(* plugging the device in anew.                                              *)
ModesAgree ==
  AllIdle /\ plugged =>
    \A k \in Channels \ faulted : k \in dev_on <=> (opened /\ k \in started)

(* Both: what the library takes for started the device has live whatever     *)
(* failed, and it has something else live only where a request for that very *)
(* channel failed.                                                           *)
DeviceAgrees == StartedIsLive /\ ModesAgree

(* Every call returns: a stop or a close waiting for the reader thread is   *)
(* never waited for by it.                                                  *)
CallsReturn == \A c \in Callers : pc[c] # "idle" ~> pc[c] = "idle"

===============================================================================
