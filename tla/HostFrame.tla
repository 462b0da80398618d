------------------------------ MODULE HostFrame -------------------------------
(***************************************************************************)
(* A CAN frame on its way through struct gs_host_frame: encoded by         *)
(* gsusb_channel_send(), looped back by the device (or replaced by any     *)
(* other packet), and decoded by handle_rx_packet() of driver/src/gsusb.c, *)
(* in a receive buffer that gsusb_open() sized for the whole device.       *)
(*                                                                         *)
(* The payload is a count: the first `carried` bytes are the sender's, the *)
(* others are zero.                                                        *)
(***************************************************************************)
EXTENDS Naturals, Sequences

CONSTANTS
  ChannelCount,  \* channels of the device
  Ids,           \* values of can_id, its RTR flag apart
  Lens,          \* values of gsusb_frame.len to try (a byte)
  Dlcs,          \* values of can_dlc in packets not of our making (a byte)
  Lengths        \* sizes of such packets

ASSUME HostFrameAssumption ==
  /\ ChannelCount \in Nat \ {0}
  /\ Lens \subseteq 0..255 /\ Dlcs \subseteq 0..255 /\ Lengths \subseteq Nat

Index == 0..(ChannelCount - 1)

VARIABLES
  channels,    \* each channel's features
  frame,       \* the gsusb_frame handed to gsusb_channel_send()
  packet,      \* what is in the pipe
  got,         \* the gsusb_frame pushed on the receive queue
  status       \* "send", "sent", "looped" or "foreign", and then the outcome

vars == <<channels, frame, packet, got, status>>

GS_HOST_FRAME_HDR_SIZE == 12
GS_HOST_FRAME_TS_SIZE == 4

MaxDlen(fd) == IF fd THEN 64 ELSE 8

gs_frame_size(len, ts) == GS_HOST_FRAME_HDR_SIZE + len + IF ts THEN GS_HOST_FRAME_TS_SIZE ELSE 0

AtMost(n, top) == IF n > top THEN top ELSE n

-------------------------------------------------------------------------------
(* Lengths and DLCs. *)

len2dlc_cc(len) == AtMost(len, 8)
dlc2len_cc(dlc) == AtMost(dlc, 8)

FdLengths == <<0, 1, 2, 3, 4, 5, 6, 7, 8, 12, 16, 20, 24, 32, 48, 64>>

dlc2len_fd(dlc) == FdLengths[AtMost(dlc, 15) + 1]

(* Mutant of len2dlc_fd: < for <=. *)
len2dlc_fd_strict(len) ==
  CASE len <= 8 -> len
    [] len > 8 /\ len < 12 -> 9
    [] len >= 12 /\ len < 16 -> 10
    [] len >= 16 /\ len < 20 -> 11
    [] len >= 20 /\ len < 24 -> 12
    [] len >= 24 /\ len < 32 -> 13
    [] len >= 32 /\ len < 48 -> 14
    [] OTHER -> 15

len2dlc_fd(len) ==
  CASE len <= 8 -> len
    [] len > 8 /\ len <= 12 -> 9
    [] len > 12 /\ len <= 16 -> 10
    [] len > 16 /\ len <= 20 -> 11
    [] len > 20 /\ len <= 24 -> 12
    [] len > 24 /\ len <= 32 -> 13
    [] len > 32 /\ len <= 48 -> 14
    [] OTHER -> 15

-------------------------------------------------------------------------------
(* The buffer of reader_thread_fn(). *)

(* The largest packet a channel with these features can produce. *)
ChannelSize(f) == gs_frame_size(MaxDlen(f.fd), f.ts)

(* Mutant of hf_size_rx: the last channel decides. *)
hf_size_last == ChannelSize(channels[ChannelCount - 1])

(* The largest of the channels' sizes. *)
hf_size_rx ==
  LET sizes == {ChannelSize(channels[i]) : i \in Index}
  IN CHOOSE s \in sizes : \A t \in sizes : t <= s

-------------------------------------------------------------------------------
(* One frame. *)

None == [none |-> TRUE]

Frames == [id : Ids, rtr : BOOLEAN, len : Lens, fd : BOOLEAN, brs : BOOLEAN, esi : BOOLEAN]

Init ==
  /\ channels \in [Index -> [fd : BOOLEAN, ts : BOOLEAN]]
  /\ frame = None
  /\ packet = None
  /\ got = None
  /\ status = "send"

(* The bytes of data that are sent. *)
WireLen(f) == AtMost(f.len, MaxDlen(f.fd))

(* gsusb_channel_send() on the started channel k: a packet with the whole   *)
(* payload area, zero behind the data, or GSUSB_ERR_INVALID for an FD frame *)
(* on a classic channel.                                                    *)
gsusb_channel_send(k, f) ==
  /\ status = "send"
  /\ frame' = f
  /\ IF f.fd /\ ~channels[k].fd
     THEN status' = "invalid" /\ UNCHANGED packet
     ELSE /\ packet' = [echo |-> TRUE, id |-> f.id, rtr |-> f.rtr, channel |-> k,
                        dlc |-> IF f.fd THEN len2dlc_fd(WireLen(f)) ELSE len2dlc_cc(WireLen(f)),
                        fd |-> f.fd, brs |-> f.brs, esi |-> f.esi,
                        carried |-> WireLen(f), length |-> gs_frame_size(MaxDlen(f.fd), FALSE)]
          /\ status' = "sent"
  /\ UNCHANGED <<channels, got>>

(* The device receives its own frame: no echo_id, a time stamp at the end   *)
(* if START asked for it, as gsusb_channel_start() does where it can.       *)
DeviceLoopsBack ==
  /\ status = "sent"
  /\ packet' = [packet EXCEPT !.echo = FALSE,
                              !.length = gs_frame_size(MaxDlen(packet.fd),
                                                       channels[packet.channel].ts)]
  /\ status' = "looped"
  /\ UNCHANGED <<channels, frame, got>>

(* Any other packet that fits the transfer; ChannelCount is an index out of *)
(* range.                                                                   *)
DeviceSends ==
  /\ status = "send"
  /\ \E id \in Ids, dlc \in Dlcs, length \in Lengths, k \in Index \cup {ChannelCount},
        echo, rtr, fd \in BOOLEAN :
       /\ length <= hf_size_rx
       /\ packet' = [echo |-> echo, id |-> id, rtr |-> rtr, channel |-> k, dlc |-> dlc, fd |-> fd,
                     brs |-> fd, esi |-> FALSE, carried |-> 0, length |-> length]
  /\ status' = "foreign"
  /\ UNCHANGED <<channels, frame, got>>

(* data_len. *)
DataLen(p) ==
  AtMost(IF p.fd THEN dlc2len_fd(p.dlc) ELSE IF p.rtr THEN 0 ELSE dlc2len_cc(p.dlc),
         MaxDlen(p.fd))

(* Mutant of Need: the time stamp behind the data, not behind the payload   *)
(* area.                                                                    *)
NeedData(p) == gs_frame_size(DataLen(p), channels[p.channel].ts)

(* The bytes handle_rx_packet() is about to read.  (hw_ts_enabled is the    *)
(* feature: see gsusb_channel_start().)                                     *)
Need(p) ==
  IF channels[p.channel].ts
  THEN gs_frame_size(MaxDlen(p.fd), TRUE)
  ELSE gs_frame_size(DataLen(p), FALSE)

Discarded(p) ==
  \/ p.length < GS_HOST_FRAME_HDR_SIZE
  \/ p.channel \notin Index
  \/ p.echo
  \/ p.length < Need(p)

(* The gsusb_frame made of a packet. *)
Decoded(p) ==
  [id |-> p.id, rtr |-> p.rtr, len |-> DataLen(p), fd |-> p.fd, brs |-> p.brs, esi |-> p.esi,
   carried |-> AtMost(p.carried, DataLen(p)),
   ts |-> channels[p.channel].ts, channel |-> p.channel]

handle_rx_packet ==
  /\ status \in {"looped", "foreign"}
  /\ IF Discarded(packet)
     THEN UNCHANGED got /\ status' = IF status = "looped" THEN "lost" ELSE "discarded"
     ELSE /\ got' = Decoded(packet)
          /\ status' = IF status = "looped" THEN "received" ELSE "accepted"
  /\ UNCHANGED <<channels, frame, packet>>

Next ==
  \/ \E k \in Index, f \in Frames : gsusb_channel_send(k, f)
  \/ DeviceLoopsBack \/ DeviceSends
  \/ handle_rx_packet

Spec == Init /\ [][Next]_vars

-------------------------------------------------------------------------------
(* Properties. *)

Wire == [echo : BOOLEAN, id : Ids, rtr : BOOLEAN, channel : 0..ChannelCount, dlc : 0..255,
         fd : BOOLEAN, brs : BOOLEAN, esi : BOOLEAN, carried : 0..64, length : Nat]

Received == [id : Ids, rtr : BOOLEAN, len : 0..64, fd : BOOLEAN, brs : BOOLEAN, esi : BOOLEAN,
             carried : 0..64, ts : BOOLEAN, channel : Index]

(* Types; the data of a packet does not leave its payload area, nor that of *)
(* a gsusb_frame its array.                                                 *)
TypeOK ==
  /\ channels \in [Index -> [fd : BOOLEAN, ts : BOOLEAN]]
  /\ frame \in Frames \cup {None}
  /\ packet # None => packet \in Wire /\ packet.carried <= MaxDlen(packet.fd)
  /\ got # None => got \in Received /\ got.len <= MaxDlen(got.fd)
  /\ status \in {"send", "invalid", "sent", "looped", "foreign", "lost", "discarded", "received",
                 "accepted"}

(* A frame that the device loops back is received, not discarded: the same  *)
(* identifier and flags on the same channel, the data that was sent, and    *)
(* behind it the fewest zero bytes that a DLC allows.  (A remote request    *)
(* comes back with length 0.)                                               *)
LoopbackIntact ==
  /\ status # "lost"
  /\ status = "received" =>
       /\ got.id = frame.id /\ got.rtr = frame.rtr
       /\ got.fd = frame.fd /\ got.brs = frame.brs /\ got.esi = frame.esi
       /\ got.channel = packet.channel
       /\ IF frame.rtr /\ ~frame.fd
          THEN got.len = 0
          ELSE LET sent == AtMost(frame.len, MaxDlen(frame.fd))
               IN /\ got.carried = sent
                  /\ got.len >= sent
                  /\ \A i \in DOMAIN FdLengths : FdLengths[i] >= sent => got.len <= FdLengths[i]

(* Whatever the header of a packet says, handle_rx_packet() reads neither   *)
(* data nor time stamp beyond the end of what was transferred.              *)
NoOverread ==
  status \in {"received", "accepted"} =>
    /\ gs_frame_size(got.len, FALSE) <= packet.length
    /\ got.ts => gs_frame_size(MaxDlen(got.fd), TRUE) <= packet.length

(* Whichever channel a frame is received on, it fits the one receive buffer *)
(* of the device.                                                           *)
FitsTransfer == status = "looped" => packet.length <= hf_size_rx
===============================================================================
