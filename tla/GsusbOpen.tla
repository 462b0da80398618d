------------------------------ MODULE GsusbOpen -------------------------------
(***************************************************************************)
(* gsusb_open() and gsusb_close() of driver/src/gsusb.c, seen as what they *)
(* acquire and give back: the USB device list, the handle, the claimed     *)
(* interface, the configuration descriptor, the struct gsusb_dev, its      *)
(* array of channels, one receive queue per channel and start_lock.  Every *)
(* call that can fail fails at some point.                                 *)
(*                                                                         *)
(* A step is one call; the calls that clean up are steps too, taken from   *)
(* a list (cleanup) that the failing step leaves.                          *)
(***************************************************************************)
EXTENDS Naturals, Sequences

CONSTANT MaxChannels  \* channels of the largest device

ASSUME OpenAssumption == MaxChannels \in Nat

VARIABLES
  pc,             \* the next call, or "closed", "releasing" or "opened"
  held,           \* what has been acquired and not given back
  cleanup,        \* what is still to be given back, in order
  channel_count,  \* channels of the device that is being opened
  i,              \* the channel being set up
  ext             \* it has data-phase constants of its own

vars == <<pc, held, cleanup, channel_count, i, ext>>

Queue(k) == <<"queue", k>>
Queues == {Queue(k) : k \in 1..MaxChannels}
Resources == {<<"list">>, <<"handle">>, <<"interface">>, <<"config">>, <<"dev">>, <<"channels">>,
              <<"start_lock">>} \cup Queues

Init ==
  /\ pc = "closed"
  /\ held = {}
  /\ cleanup = <<>>
  /\ channel_count = 0 /\ i = 0 /\ ext = FALSE

-------------------------------------------------------------------------------
(* How a call of gsusb_open() ends. *)

(* It succeeds: next is the call after it. *)
Succeed(at, next, gets) ==
  /\ pc = at
  /\ pc' = next
  /\ held' = held \cup gets
  /\ UNCHANGED cleanup

(* It fails, and gives back what is listed before it returns NULL; or a     *)
(* later gsusb_close() does.                                                *)
GiveBack(at, order) ==
  /\ pc = at
  /\ pc' = "releasing"
  /\ cleanup' = order
  /\ UNCHANGED held

(* One call of the clean-up. *)
Release ==
  /\ pc = "releasing"
  /\ cleanup # <<>>
  /\ held' = held \ {Head(cleanup)}
  /\ cleanup' = Tail(cleanup)
  /\ UNCHANGED <<pc, channel_count, i, ext>>

Return ==
  /\ pc = "releasing"
  /\ cleanup = <<>>
  /\ pc' = "closed"
  /\ UNCHANGED <<held, cleanup, channel_count, i, ext>>

locals == <<channel_count, i, ext>>

-------------------------------------------------------------------------------
(* The USB handle. *)

(* libusb_get_device_list(). *)
GetDeviceList ==
  /\ Succeed("closed", "match", {<<"list">>}) \/ GiveBack("closed", <<>>)
  /\ UNCHANGED locals

(* The search for vid:pid, bus and address. *)
FindMatch ==
  /\ Succeed("match", "open", {}) \/ GiveBack("match", << <<"list">> >>)
  /\ UNCHANGED locals

(* Mutant of OpenHandle: the list is not freed on failure. *)
OpenHandleKeepsList ==
  /\ \/ Succeed("open", "free_list", {<<"handle">>})
     \/ GiveBack("open", <<>>)
  /\ UNCHANGED locals

(* libusb_open(); the list is freed whether it fails or not.               *)
OpenHandle ==
  /\ \/ Succeed("open", "free_list", {<<"handle">>})
     \/ GiveBack("open", << <<"list">> >>)
  /\ UNCHANGED locals

FreeDeviceList ==
  /\ pc = "free_list"
  /\ held' = held \ {<<"list">>}
  /\ pc' = "claim"
  /\ UNCHANGED <<cleanup, locals>>

ClaimInterface ==
  /\ \/ Succeed("claim", "config", {<<"interface">>})
     \/ GiveBack("claim", << <<"handle">> >>)
  /\ UNCHANGED locals

(* Give the USB device back. *)
Unclaim == << <<"interface">>, <<"handle">> >>

GetConfig ==
  /\ Succeed("config", "endpoints", {<<"config">>}) \/ GiveBack("config", Unclaim)
  /\ UNCHANGED locals

(* The descriptor is searched and freed; then the endpoints are tested.    *)
FindEndpoints ==
  /\ pc = "endpoints"
  /\ held' = held \ {<<"config">>}
  /\ \/ pc' = "alloc_dev" /\ UNCHANGED cleanup
     \/ pc' = "releasing" /\ cleanup' = Unclaim
  /\ UNCHANGED locals

-------------------------------------------------------------------------------
(* The device object. *)

AllocDev ==
  /\ Succeed("alloc_dev", "host_format", {<<"dev">>}) \/ GiveBack("alloc_dev", Unclaim)
  /\ UNCHANGED locals

(* fail_free_dev: dev itself goes last. *)
FreeDev == Unclaim \o << <<"dev">> >>

HostFormat ==
  /\ Succeed("host_format", "device_config", {}) \/ GiveBack("host_format", FreeDev)
  /\ UNCHANGED locals

(* icount + 1 channels in a byte: 255 makes 0. *)
DeviceConfig ==
  /\ \/ /\ Succeed("device_config", "alloc_channels", {})
        /\ channel_count' \in 0..MaxChannels
     \/ /\ GiveBack("device_config", FreeDev)
        /\ UNCHANGED channel_count
  /\ UNCHANGED <<i, ext>>

(* What follows when channel k - 1 has been set up. *)
Continue(k) == IF k <= channel_count THEN "bt_const" ELSE "init_lock"

(* calloc() of the channels; of 0 channels it may return NULL or not.      *)
AllocChannels ==
  /\ \/ Succeed("alloc_channels", Continue(1), {<<"channels">>}) /\ i' = 1
     \/ GiveBack("alloc_channels", FreeDev) /\ UNCHANGED i
  /\ UNCHANGED <<channel_count, ext>>

(* The queues of the channels before k, in order. *)
QueuesBefore(k) == [q \in 1..(k - 1) |-> Queue(q)]

(* Mutant of FreeChannels: every channel's queue is destroyed, the zeroed   *)
(* ones too.                                                                *)
FreeAllChannels ==
  [q \in 1..channel_count |-> Queue(q)] \o << <<"channels">> >> \o FreeDev

(* fail_free_channels: the queues that exist (calloc() zeroed the others'   *)
(* q_buf), the array, and then fail_free_dev.                               *)
FreeChannels == QueuesBefore(i) \o << <<"channels">> >> \o FreeDev

(* The GS_USB_BREQ_BT_CONST request, and what the features say. *)
BtConst ==
  /\ \/ \E e \in BOOLEAN :
          Succeed("bt_const", IF e THEN "bt_const_ext" ELSE "rxq_init", {}) /\ ext' = e
     \/ GiveBack("bt_const", FreeChannels) /\ UNCHANGED ext
  /\ UNCHANGED <<channel_count, i>>

BtConstExt ==
  /\ Succeed("bt_const_ext", "rxq_init", {}) \/ GiveBack("bt_const_ext", FreeChannels)
  /\ UNCHANGED locals

rxq_init ==
  /\ \/ Succeed("rxq_init", Continue(i + 1), {Queue(i)}) /\ i' = i + 1
     \/ GiveBack("rxq_init", FreeChannels) /\ UNCHANGED i
  /\ UNCHANGED <<channel_count, ext>>

InitLock ==
  /\ Succeed("init_lock", "opened", {<<"start_lock">>})
  /\ UNCHANGED locals

(* gsusb_close() of a device without a reader thread. *)
Close ==
  /\ GiveBack("opened", QueuesBefore(channel_count + 1)
                          \o << <<"start_lock">>, <<"channels">> >> \o FreeDev)
  /\ UNCHANGED locals

(* The calls of a gsusb_open() or gsusb_close() in progress. *)
CallGoesOn ==
  \/ FindMatch \/ OpenHandle \/ FreeDeviceList \/ ClaimInterface
  \/ GetConfig \/ FindEndpoints
  \/ AllocDev \/ HostFormat \/ DeviceConfig
  \/ AllocChannels \/ BtConst \/ BtConstExt \/ rxq_init \/ InitLock
  \/ Release \/ Return

Next == GetDeviceList \/ CallGoesOn \/ Close

Spec == Init /\ [][Next]_vars

-------------------------------------------------------------------------------
(* Properties. *)

(* A gsusb_open() that failed, wherever it did, and a gsusb_close() leave   *)
(* nothing behind; one that succeeded holds exactly what close gives back.  *)
NothingLeaks ==
  /\ pc = "closed" => held = {}
  /\ pc = "opened" =>
       held = {<<"handle">>, <<"interface">>, <<"dev">>, <<"channels">>, <<"start_lock">>}
                \cup {Queue(k) : k \in 1..channel_count}

(* The clean-up gives back only what is held, nothing twice, and nothing    *)
(* while something that lives in it, or was obtained through it, is still   *)
(* held.                                                                    *)
ReleasedSafely ==
  /\ \A k \in DOMAIN cleanup : cleanup[k] \in held
  /\ \A k, l \in DOMAIN cleanup : cleanup[k] = cleanup[l] => k = l
  /\ <<"interface">> \in held => <<"handle">> \in held
  /\ held \cap Queues # {} => <<"channels">> \in held
  /\ held \cap {<<"channels">>, <<"start_lock">>} # {} => <<"dev">> \in held
===============================================================================
