--------------------------- MODULE HostFrameProofs ----------------------------
(***************************************************************************)
(* Theorems about HostFrame, for any number of channels with any features  *)
(* and every frame and packet, and about SdkFrame, which hands it the      *)
(* frames of the applications.                                             *)
(***************************************************************************)
EXTENDS SdkFrame, TLAPS

-------------------------------------------------------------------------------
(* Lengths and DLCs. *)

(* A length up to 64 gets a DLC, and that DLC means the smallest FD length  *)
(* that holds it.                                                           *)
LEMMA FdDlcSmallest ==
  ASSUME NEW len \in 0..64
  PROVE  /\ len2dlc_fd(len) \in 0..15
         /\ dlc2len_fd(len2dlc_fd(len)) \in 0..64
         /\ dlc2len_fd(len2dlc_fd(len)) >= len
         /\ \A i \in DOMAIN FdLengths :
              FdLengths[i] >= len => dlc2len_fd(len2dlc_fd(len)) <= FdLengths[i]
<1>1. DOMAIN FdLengths = 1..16
  BY DEF FdLengths
<1>2. len2dlc_fd(len) \in 0..15
  BY DEF len2dlc_fd
<1>3. \A d \in 0..15 : dlc2len_fd(d) = FdLengths[d + 1]
  BY DEF dlc2len_fd, AtMost
<1>4. dlc2len_fd(len2dlc_fd(len)) = FdLengths[len2dlc_fd(len) + 1]
  BY <1>2, <1>3
<1> QED
  BY <1>1, <1>2, <1>4 DEF len2dlc_fd, FdLengths

(* Every DLC byte means a length that fits the payload area. *)
LEMMA DataLenFits ==
  ASSUME NEW p \in Wire
  PROVE  DataLen(p) \in 0..MaxDlen(p.fd)
<1>1. p.dlc \in 0..255 /\ p.fd \in BOOLEAN
  BY DEF Wire
<1>2. dlc2len_fd(p.dlc) \in 0..64
  <2>1. AtMost(p.dlc, 15) + 1 \in 1..16
    BY <1>1 DEF AtMost
  <2>2. \A i \in 1..16 : FdLengths[i] \in 0..64
    BY DEF FdLengths
  <2> QED
    BY <2>1, <2>2 DEF dlc2len_fd
<1>3. dlc2len_cc(p.dlc) \in 0..8
  BY <1>1 DEF dlc2len_cc, AtMost
<1> QED
  BY <1>1, <1>2, <1>3 DEF DataLen, AtMost, MaxDlen

(* hf_size_rx is the size of some channel and no smaller than any other.    *)
LEMMA LargestSize ==
  ASSUME HostFrameAssumption, channels \in [Index -> [fd : BOOLEAN, ts : BOOLEAN]]
  PROVE  /\ hf_size_rx \in {ChannelSize(channels[i]) : i \in Index}
         /\ \A i \in Index : ChannelSize(channels[i]) <= hf_size_rx
<1> DEFINE sizes == {ChannelSize(channels[i]) : i \in Index}
<1>1. sizes \subseteq {20, 24, 76, 80}
  BY DEF ChannelSize, gs_frame_size, MaxDlen, GS_HOST_FRAME_HDR_SIZE, GS_HOST_FRAME_TS_SIZE
<1>2. sizes # {}
  <2>1. 0 \in Index
    BY DEF Index, HostFrameAssumption
  <2> QED
    BY <2>1
<1>3. \A i \in Index : ChannelSize(channels[i]) \in sizes
  OBVIOUS
<1>4. hf_size_rx = CHOOSE s \in sizes : \A t \in sizes : t <= s
  BY DEF hf_size_rx
<1> HIDE DEF sizes
<1>5. \E s \in sizes : \A t \in sizes : t <= s
  <2>1. CASE 80 \in sizes
    BY <1>1, <2>1
  <2>2. CASE 80 \notin sizes /\ 76 \in sizes
    BY <1>1, <2>2
  <2>3. CASE 80 \notin sizes /\ 76 \notin sizes /\ 24 \in sizes
    BY <1>1, <2>3
  <2>4. CASE sizes \subseteq {20}
    <3>1. PICK x \in sizes : x = 20
      BY <1>2, <2>4
    <3> QED
      BY <2>4, <3>1
  <2> QED
    BY <1>1, <2>1, <2>2, <2>3, <2>4
<1>6. hf_size_rx \in sizes /\ \A t \in sizes : t <= hf_size_rx
  BY <1>4, <1>5
<1> QED
  BY <1>3, <1>6 DEF sizes

-------------------------------------------------------------------------------
(* The inductive invariant. *)

(* What is in the pipe after send() is the frame, on a channel that may     *)
(* carry it.                                                                *)
Carries ==
  status \in {"sent", "looped", "received", "lost"} =>
    /\ frame \in Frames /\ packet \in Wire
    /\ packet.channel \in Index
    /\ packet.fd => channels[packet.channel].fd
    /\ packet.id = frame.id /\ packet.rtr = frame.rtr /\ packet.fd = frame.fd
    /\ packet.brs = frame.brs /\ packet.esi = frame.esi
    /\ packet.carried = WireLen(frame)
    /\ packet.dlc = IF frame.fd THEN len2dlc_fd(WireLen(frame)) ELSE len2dlc_cc(WireLen(frame))

(* What the device makes of it. *)
Looped ==
  status \in {"looped", "received", "lost"} =>
    /\ ~packet.echo
    /\ packet.length = gs_frame_size(MaxDlen(packet.fd), channels[packet.channel].ts)

(* What the host makes of a packet it does not discard. *)
Arrived ==
  status \in {"received", "accepted"} =>
    packet \in Wire /\ ~Discarded(packet) /\ got = Decoded(packet)

InPipe == status \in {"sent", "looped", "foreign"} => packet \in Wire

IInv == TypeOK /\ Carries /\ Looped /\ Arrived /\ InPipe /\ status # "lost"

(* A looped frame is long enough for everything the host reads.             *)
LEMMA LoopedNotDiscarded ==
  ASSUME IInv, status = "looped"
  PROVE  ~Discarded(packet)
<1>1. /\ packet \in Wire /\ packet.channel \in Index /\ ~packet.echo
      /\ packet.length = gs_frame_size(MaxDlen(packet.fd), channels[packet.channel].ts)
      /\ channels[packet.channel].ts \in BOOLEAN /\ packet.fd \in BOOLEAN
  BY DEF IInv, TypeOK, Carries, Looped, Wire
<1>2. DataLen(packet) \in 0..MaxDlen(packet.fd) /\ MaxDlen(packet.fd) \in {8, 64}
  BY <1>1, DataLenFits DEF MaxDlen
<1>3. packet.length >= GS_HOST_FRAME_HDR_SIZE
  BY <1>1, <1>2 DEF gs_frame_size, GS_HOST_FRAME_HDR_SIZE, GS_HOST_FRAME_TS_SIZE
<1>4. packet.length >= Need(packet)
  BY <1>1, <1>2 DEF Need, gs_frame_size, GS_HOST_FRAME_HDR_SIZE, GS_HOST_FRAME_TS_SIZE
<1>5. packet.length \in Nat /\ Need(packet) \in Nat /\ GS_HOST_FRAME_HDR_SIZE \in Nat
  BY <1>1, <1>2 DEF Need, gs_frame_size, GS_HOST_FRAME_HDR_SIZE, GS_HOST_FRAME_TS_SIZE, Wire
<1> QED
  BY <1>1, <1>3, <1>4, <1>5 DEF Discarded

LEMMA NextKeepsFrame ==
  ASSUME HostFrameAssumption, IInv, [Next]_vars
  PROVE  IInv'
<1>1. ASSUME NEW k \in Index, NEW f \in Frames, gsusb_channel_send(k, f)
      PROVE  IInv'
  <2>1. /\ status = "send" /\ frame' = f /\ channels' = channels /\ got' = got
        /\ channels[k].fd \in BOOLEAN /\ f.fd \in BOOLEAN /\ f.len \in 0..255
    BY <1>1 DEF gsusb_channel_send, IInv, TypeOK, Frames, HostFrameAssumption
  <2>2. CASE f.fd /\ ~channels[k].fd
    BY <1>1, <2>1, <2>2 DEF gsusb_channel_send, IInv, TypeOK, Carries, Looped, Arrived, InPipe
  <2>3. CASE ~(f.fd /\ ~channels[k].fd)
    <3>1. /\ WireLen(f) \in 0..MaxDlen(f.fd) /\ MaxDlen(f.fd) \in {8, 64}
          /\ gs_frame_size(MaxDlen(f.fd), FALSE) \in Nat
      BY <2>1 DEF WireLen, AtMost, MaxDlen, gs_frame_size, GS_HOST_FRAME_HDR_SIZE
    <3> DEFINE dlc == IF f.fd THEN len2dlc_fd(WireLen(f)) ELSE len2dlc_cc(WireLen(f))
    <3>2. dlc \in 0..255
      BY <2>1, <3>1, FdDlcSmallest DEF len2dlc_cc, AtMost, MaxDlen
    <3> HIDE DEF dlc
    <3>3. /\ packet' = [echo |-> TRUE, id |-> f.id, rtr |-> f.rtr, channel |-> k, dlc |-> dlc,
                        fd |-> f.fd, brs |-> f.brs, esi |-> f.esi, carried |-> WireLen(f),
                        length |-> gs_frame_size(MaxDlen(f.fd), FALSE)]
          /\ status' = "sent"
      BY <1>1, <2>3 DEF gsusb_channel_send, dlc
    <3>4. packet' \in Wire /\ packet'.carried <= MaxDlen(packet'.fd)
      <4>1. /\ k \in 0..ChannelCount /\ f.id \in Ids /\ f.rtr \in BOOLEAN /\ f.fd \in BOOLEAN
            /\ f.brs \in BOOLEAN /\ f.esi \in BOOLEAN /\ WireLen(f) \in 0..64
        BY <3>1 DEF Frames, Index, HostFrameAssumption
      <4>2. packet' \in Wire
        <5> DEFINE echo == TRUE
                   length == gs_frame_size(MaxDlen(f.fd), FALSE)
        <5>1. echo \in BOOLEAN /\ length \in Nat
          BY <3>1
        <5> HIDE DEF echo, length
        <5>2. [echo |-> echo, id |-> f.id, rtr |-> f.rtr, channel |-> k, dlc |-> dlc, fd |-> f.fd,
               brs |-> f.brs, esi |-> f.esi, carried |-> WireLen(f), length |-> length] \in Wire
          BY <3>2, <4>1, <5>1 DEF Wire
        <5> QED
          BY <3>3, <5>2 DEF echo, length
      <4> QED
        BY <3>1, <3>3, <4>2
    <3>5. TypeOK'
      BY <2>1, <3>3, <3>4 DEF IInv, TypeOK
    <3>6. Carries'
      BY <2>1, <2>3, <3>3, <3>4 DEF Carries, dlc, WireLen, AtMost, MaxDlen
    <3> QED
      BY <3>3, <3>4, <3>5, <3>6 DEF IInv, Looped, Arrived, InPipe
  <2> QED
    BY <2>2, <2>3
<1>2. CASE DeviceLoopsBack
  <2>1. /\ status = "sent" /\ status' = "looped" /\ UNCHANGED <<channels, frame, got>>
        /\ packet' = [packet EXCEPT !.echo = FALSE,
                        !.length = gs_frame_size(MaxDlen(packet.fd),
                                                 channels[packet.channel].ts)]
        /\ packet \in Wire /\ packet.channel \in Index
    BY <1>2 DEF DeviceLoopsBack, IInv, Carries
  <2>a. packet.carried <= MaxDlen(packet.fd)
    <3>1. /\ frame \in Frames /\ packet.carried = WireLen(frame) /\ packet.fd = frame.fd
      BY <2>1 DEF IInv, Carries
    <3>2. frame.len \in 0..255
      BY <3>1 DEF Frames, HostFrameAssumption
    <3> QED
      BY <3>1, <3>2 DEF WireLen, AtMost, MaxDlen
  <2>2. gs_frame_size(MaxDlen(packet.fd), channels[packet.channel].ts) \in Nat
    BY DEF gs_frame_size, MaxDlen, GS_HOST_FRAME_HDR_SIZE, GS_HOST_FRAME_TS_SIZE
  <2>3. /\ packet' \in Wire
        /\ packet'.channel = packet.channel /\ packet'.fd = packet.fd
        /\ packet'.id = packet.id /\ packet'.rtr = packet.rtr
        /\ packet'.brs = packet.brs /\ packet'.esi = packet.esi
        /\ packet'.carried = packet.carried /\ packet'.dlc = packet.dlc
        /\ packet'.echo = FALSE
        /\ packet'.length = gs_frame_size(MaxDlen(packet.fd), channels[packet.channel].ts)
    <3> DEFINE n == gs_frame_size(MaxDlen(packet.fd), channels[packet.channel].ts)
    <3>1. packet' = [packet EXCEPT !.echo = FALSE, !.length = n] /\ packet \in Wire /\ n \in Nat
      BY <2>1, <2>2
    <3> HIDE DEF n
    <3>2. packet' = [echo |-> FALSE, id |-> packet.id, rtr |-> packet.rtr,
                     channel |-> packet.channel, dlc |-> packet.dlc, fd |-> packet.fd,
                     brs |-> packet.brs, esi |-> packet.esi, carried |-> packet.carried,
                     length |-> n]
      BY <3>1 DEF Wire
    <3>3. packet' \in Wire
      <4>1. /\ packet.id \in Ids /\ packet.rtr \in BOOLEAN /\ packet.channel \in 0..ChannelCount
            /\ packet.dlc \in 0..255 /\ packet.fd \in BOOLEAN /\ packet.brs \in BOOLEAN
            /\ packet.esi \in BOOLEAN /\ packet.carried \in 0..64
        BY <3>1 DEF Wire
      <4> QED
        <5> DEFINE echo == FALSE
        <5>1. echo \in BOOLEAN
          OBVIOUS
        <5> HIDE DEF echo
        <5>2. [echo |-> echo, id |-> packet.id, rtr |-> packet.rtr, channel |-> packet.channel,
               dlc |-> packet.dlc, fd |-> packet.fd, brs |-> packet.brs,
               esi |-> packet.esi, carried |-> packet.carried, length |-> n] \in Wire
          BY <3>1, <4>1, <5>1 DEF Wire
        <5> QED
          BY <3>2, <5>2 DEF echo
    <3> QED
      BY <3>2, <3>3 DEF n
  <2>4. TypeOK'
    BY <2>1, <2>a, <2>3 DEF IInv, TypeOK
  <2>5. Carries' /\ Looped'
    BY <2>1, <2>3 DEF IInv, Carries, Looped, WireLen, AtMost, MaxDlen, gs_frame_size
  <2> QED
    BY <2>1, <2>3, <2>4, <2>5 DEF IInv, Arrived, InPipe
<1>3. CASE DeviceSends
  <2>1. PICK id \in Ids, dlc \in Dlcs, length \in Lengths, k \in Index \cup {ChannelCount},
             echo \in BOOLEAN, rtr \in BOOLEAN, fd \in BOOLEAN :
          /\ length <= hf_size_rx
          /\ packet' = [echo |-> echo, id |-> id, rtr |-> rtr, channel |-> k, dlc |-> dlc,
                        fd |-> fd, brs |-> fd, esi |-> FALSE, carried |-> 0, length |-> length]
    BY <1>3 DEF DeviceSends
  <2>2. packet' \in Wire /\ packet'.carried <= MaxDlen(packet'.fd)
    BY <2>1 DEF Wire, Index, HostFrameAssumption, MaxDlen
  <2> QED
    BY <1>3, <2>2 DEF DeviceSends, IInv, TypeOK, Carries, Looped, Arrived, InPipe
<1>4. CASE handle_rx_packet
  <2>1. /\ status \in {"looped", "foreign"} /\ UNCHANGED <<channels, frame, packet>>
        /\ packet \in Wire
    BY <1>4 DEF handle_rx_packet, IInv, InPipe
  <2>2. CASE Discarded(packet)
    <3>1. got' = got /\ status = "foreign" /\ status' = "discarded"
      BY <1>4, <2>1, <2>2, LoopedNotDiscarded DEF handle_rx_packet
    <3> QED
      BY <2>1, <3>1 DEF IInv, TypeOK, Carries, Looped, Arrived, InPipe
  <2>3. CASE ~Discarded(packet)
    <3>1. /\ got' = Decoded(packet)
          /\ status' = IF status = "looped" THEN "received" ELSE "accepted"
      BY <1>4, <2>3 DEF handle_rx_packet
    <3>2. /\ DataLen(packet) \in 0..MaxDlen(packet.fd) /\ MaxDlen(packet.fd) \in {8, 64}
          /\ packet.channel \in Index
          /\ packet.carried \in 0..64
      BY <2>1, <2>3, DataLenFits DEF MaxDlen, Discarded, Wire
    <3>3. Decoded(packet) \in Received /\ Decoded(packet).len <= MaxDlen(Decoded(packet).fd)
      BY <2>1, <3>2 DEF Decoded, Received, Wire, AtMost, IInv, TypeOK
    <3>4. TypeOK'
      BY <2>1, <3>1, <3>3 DEF IInv, TypeOK
    <3>5. Carries' /\ Looped'
      BY <2>1, <3>1 DEF IInv, Carries, Looped, WireLen, AtMost, MaxDlen, gs_frame_size
    <3>6. Arrived'
      BY <2>1, <2>3, <3>1
         DEF Arrived, Decoded, Discarded, Need, DataLen, dlc2len_fd, dlc2len_cc, AtMost,
             MaxDlen, gs_frame_size
    <3> QED
      BY <2>1, <3>1, <3>4, <3>5, <3>6 DEF IInv, InPipe
  <2> QED
    BY <2>2, <2>3
<1>5. CASE UNCHANGED vars
  <2>1. UNCHANGED <<channels, frame, packet, got, status>>
    BY <1>5 DEF vars
  <2>2. TypeOK' /\ Carries' /\ Looped' /\ InPipe'
    BY <2>1 DEF IInv, TypeOK, Carries, Looped, InPipe, WireLen, AtMost, MaxDlen, gs_frame_size
  <2>3. Arrived'
    BY <2>1
       DEF IInv, Arrived, Decoded, Discarded, Need, DataLen, dlc2len_fd, dlc2len_cc, AtMost,
           MaxDlen, gs_frame_size
  <2> QED
    BY <2>1, <2>2, <2>3 DEF IInv
<1> QED
  BY <1>1, <1>2, <1>3, <1>4, <1>5 DEF Next

LEMMA FrameInvariant == Spec => []IInv
<1>1. Init => IInv
  BY DEF Init, IInv, TypeOK, Carries, Looped, Arrived, InPipe, None
<1>2. IInv /\ [Next]_vars => IInv'
  BY HostFrameAssumption, NextKeepsFrame
<1> QED
  BY <1>1, <1>2, PTL DEF Spec

(* What the invariant says of a frame that came back.                       *)
LEMMA FrameReturns == IInv => LoopbackIntact
<1> SUFFICES ASSUME IInv, status = "received"
             PROVE  LoopbackIntact
  BY DEF LoopbackIntact, IInv
<1>1. /\ frame \in Frames /\ packet \in Wire /\ got = Decoded(packet)
      /\ packet.id = frame.id /\ packet.rtr = frame.rtr /\ packet.fd = frame.fd
      /\ packet.brs = frame.brs /\ packet.esi = frame.esi
      /\ packet.carried = WireLen(frame)
      /\ packet.dlc = IF frame.fd THEN len2dlc_fd(WireLen(frame)) ELSE len2dlc_cc(WireLen(frame))
  BY DEF IInv, Carries, Arrived
<1>2. /\ got.id = frame.id /\ got.rtr = frame.rtr /\ got.fd = frame.fd /\ got.brs = frame.brs
      /\ got.esi = frame.esi /\ got.channel = packet.channel
      /\ got.len = DataLen(packet) /\ got.carried = AtMost(packet.carried, DataLen(packet))
  BY <1>1 DEF Decoded
<1>3. frame.len \in 0..255 /\ frame.fd \in BOOLEAN /\ frame.rtr \in BOOLEAN
  BY <1>1, HostFrameAssumption DEF Frames, HostFrameAssumption
<1> DEFINE n == WireLen(frame)
<1>4. n = AtMost(frame.len, MaxDlen(frame.fd)) /\ n \in 0..MaxDlen(frame.fd)
  BY <1>3 DEF WireLen, AtMost, MaxDlen
<1> HIDE DEF n
<1>5. CASE frame.fd
  <2>1. n \in 0..64 /\ packet.dlc = len2dlc_fd(n)
    BY <1>1, <1>4, <1>5 DEF MaxDlen, n
  <2> DEFINE r == dlc2len_fd(len2dlc_fd(n))
  <2>2. r \in 0..64 /\ r >= n
    BY <2>1, FdDlcSmallest
  <2>a. dlc2len_fd(packet.dlc) = r
    BY <2>1
  <2> HIDE DEF r
  <2>b. DataLen(packet) = r
    BY <1>1, <1>5, <2>2, <2>a DEF DataLen, AtMost, MaxDlen
  <2>3. got.carried = n
    BY <1>1, <1>2, <2>1, <2>2, <2>b DEF AtMost, n
  <2> QED
    BY <1>2, <1>4, <1>5, <2>1, <2>2, <2>3, <2>b, FdDlcSmallest DEF LoopbackIntact, r
<1>6. CASE ~frame.fd /\ frame.rtr
  <2>1. DataLen(packet) = 0
    BY <1>1, <1>6 DEF DataLen, AtMost, MaxDlen
  <2> QED
    BY <1>2, <1>6, <2>1 DEF LoopbackIntact
<1>7. CASE ~frame.fd /\ ~frame.rtr
  <2>1. n \in 0..8 /\ packet.dlc = n
    BY <1>1, <1>4, <1>7 DEF MaxDlen, n, len2dlc_cc, AtMost
  <2>2. DataLen(packet) = n
    BY <1>1, <1>7, <2>1 DEF DataLen, dlc2len_cc, AtMost, MaxDlen
  <2>3. got.carried = n
    BY <1>1, <1>2, <2>1, <2>2 DEF AtMost, n
  <2>4. \A i \in DOMAIN FdLengths : FdLengths[i] >= n => n <= FdLengths[i]
    OBVIOUS
  <2> QED
    BY <1>2, <1>4, <1>7, <2>1, <2>2, <2>3, <2>4 DEF LoopbackIntact
<1> QED
  BY <1>3, <1>5, <1>6, <1>7

-------------------------------------------------------------------------------
(* The theorems. *)

(* Types hold for every frame and packet.                                   *)
THEOREM FrameTypeCorrect == Spec => []TypeOK
<1>1. IInv => TypeOK
  BY DEF IInv
<1> QED
  BY <1>1, FrameInvariant, PTL

(* What gsusb_channel_send() encodes, handle_rx_packet() decodes to.        *)
THEOREM LoopbackReturnsFrame == Spec => []LoopbackIntact
  BY FrameReturns, FrameInvariant, PTL

(* No packet makes handle_rx_packet() read beyond what was transferred.     *)
THEOREM ReadsInsidePacket == Spec => []NoOverread
<1>1. IInv => NoOverread
  <2> SUFFICES ASSUME IInv, status \in {"received", "accepted"}
               PROVE  /\ gs_frame_size(got.len, FALSE) <= packet.length
                      /\ got.ts => gs_frame_size(MaxDlen(got.fd), TRUE) <= packet.length
    BY DEF NoOverread
  <2>1. packet \in Wire /\ ~Discarded(packet) /\ got = Decoded(packet)
    BY DEF IInv, Arrived
  <2>2. /\ got.len = DataLen(packet) /\ got.fd = packet.fd
        /\ got.ts = channels[packet.channel].ts
    BY <2>1 DEF Decoded
  <2>3. DataLen(packet) \in 0..MaxDlen(packet.fd) /\ MaxDlen(packet.fd) \in {8, 64}
    BY <2>1, DataLenFits DEF MaxDlen
  <2>4. ~(packet.length < Need(packet)) /\ packet.length \in Nat
    BY <2>1 DEF Discarded, Wire
  <2>5. CASE channels[packet.channel].ts
    BY <2>2, <2>3, <2>4, <2>5
       DEF Need, gs_frame_size, GS_HOST_FRAME_HDR_SIZE, GS_HOST_FRAME_TS_SIZE
  <2>6. CASE ~channels[packet.channel].ts
    BY <2>2, <2>3, <2>4, <2>6
       DEF Need, gs_frame_size, GS_HOST_FRAME_HDR_SIZE, GS_HOST_FRAME_TS_SIZE
  <2> QED
    BY <2>5, <2>6
<1> QED
  BY <1>1, FrameInvariant, PTL

(* The receive buffer holds a frame of any channel.                         *)
THEOREM BufferHoldsFrame == Spec => []FitsTransfer
<1>1. IInv => FitsTransfer
  <2> SUFFICES ASSUME IInv, status = "looped"
               PROVE  packet.length <= hf_size_rx
    BY DEF FitsTransfer
  <2> DEFINE f == channels[packet.channel]
  <2>1. /\ packet.length = gs_frame_size(MaxDlen(packet.fd), f.ts)
        /\ packet.channel \in Index /\ packet.fd \in BOOLEAN
        /\ f.fd \in BOOLEAN /\ f.ts \in BOOLEAN
        /\ packet.fd => f.fd
    BY DEF IInv, TypeOK, Carries, Looped, Wire
  <2>2. ChannelSize(f) <= hf_size_rx
    BY <2>1, HostFrameAssumption, LargestSize DEF IInv, TypeOK
  <2>3. hf_size_rx \in Nat
    <3>1. hf_size_rx \in {ChannelSize(channels[i]) : i \in Index}
      BY HostFrameAssumption, LargestSize DEF IInv, TypeOK
    <3> QED
      BY <3>1 DEF ChannelSize, gs_frame_size, MaxDlen, GS_HOST_FRAME_HDR_SIZE,
                  GS_HOST_FRAME_TS_SIZE
  <2>4. packet.length <= ChannelSize(f) /\ packet.length \in Nat /\ ChannelSize(f) \in Nat
    <3> HIDE DEF f
    <3> QED
      BY <2>1 DEF ChannelSize, gs_frame_size, MaxDlen, GS_HOST_FRAME_HDR_SIZE,
                  GS_HOST_FRAME_TS_SIZE
  <2> HIDE DEF f
  <2> QED
    BY <2>2, <2>3, <2>4
<1> QED
  BY <1>1, FrameInvariant, PTL

-------------------------------------------------------------------------------
(* From one application to another.                                         *)

Interfaces == {"Frame", "Message", "table", "text"}

(* The frame that an interface takes m for, and the bits it sends of its    *)
(* identifier.                                                              *)
Meant(interface, m) == IF interface = "Message" THEN AsCanId(m) ELSE m

Bits(interface, m) ==
  IF interface \in {"Frame", "table"} THEN Masked(m) ELSE Meant(interface, m).id

(* The gsusb_frame that it makes of m.                                      *)
Wired(interface, m) ==
  ToGsusb(Meant(interface, m), Bits(interface, m),
          Meant(interface, m).err /\ interface # "table")

(* What has been handed to gsusb_channel_send() is the application's frame. *)
AsSent ==
  /\ app = NotSent => status \notin {"sent", "looped", "received"}
  /\ app # NotSent /\ app.by # "C" =>
       /\ app.by \in Interfaces /\ app.sent \in Messages
       /\ status # "send" =>
            /\ app.by # "table" => ~TooLong(app.sent)
            /\ frame = Wired(app.by, app.sent)

(* A mask makes an identifier of its kind.                                  *)
LEMMA MaskedIsId ==
  ASSUME SdkFrameAssumption, NEW m \in Messages
  PROVE  /\ Space(m.extended) \in Nat \ {0} /\ Space(m.extended) <= Eff /\ Eff \in Nat \ {0}
         /\ Masked(m) \in 0..(Space(m.extended) - 1)
         /\ Masked(m) % Space(m.extended) = Masked(m)
         /\ Masked(m) \in 0..(Eff - 1)
         /\ m.id \in Nat
<1>1. /\ m.id \in Nat /\ m.extended \in BOOLEAN /\ Sff \in Nat \ {0} /\ Eff \in Nat /\ Sff <= Eff
  BY DEF SdkFrameAssumption, Messages
<1>2. Space(m.extended) \in Nat \ {0} /\ Space(m.extended) <= Eff
  BY <1>1 DEF Space
<1> DEFINE n == Space(m.extended)
           r == m.id % n
<1>3. r \in 0..(n - 1)
  <2> HIDE DEF n
  <2> QED
    BY <1>1, <1>2 DEF n
<1> HIDE DEF n, r
<1>4. r % n = r
  BY <1>2, <1>3 DEF n
<1>5. r \in 0..(Eff - 1)
  BY <1>1, <1>2, <1>3 DEF n
<1> QED
  BY <1>1, <1>2, <1>3, <1>4, <1>5 DEF Masked, n, r

(* A message has the fields of a frame. *)
LEMMA MessageFields ==
  ASSUME NEW m \in Messages
  PROVE  /\ m.extended \in BOOLEAN /\ m.rtr \in BOOLEAN /\ m.err \in BOOLEAN
         /\ m.fd \in BOOLEAN /\ m.brs \in BOOLEAN /\ m.esi \in BOOLEAN /\ m.len \in Lens
  BY DEF Messages

(* So has the can_id that a can.Message is taken for, of 29 bits.           *)
LEMMA CanIdFields ==
  ASSUME SdkFrameAssumption, NEW m \in Messages
  PROVE  LET c == AsCanId(m)
         IN /\ c.extended \in BOOLEAN /\ c.rtr \in BOOLEAN /\ c.err \in BOOLEAN
            /\ c.fd = m.fd /\ c.brs = m.brs /\ c.esi = m.esi /\ c.len = m.len
            /\ c.id \in 0..(Eff - 1)
<1>1. m.id \in Nat /\ Eff \in Nat \ {0}
  BY MaskedIsId
<1>2. m.id % Eff \in 0..(Eff - 1)
  BY <1>1
<1>3. /\ m \in [id : AppIds, extended : BOOLEAN, rtr : BOOLEAN, err : BOOLEAN,
                fd : BOOLEAN, brs : BOOLEAN, esi : BOOLEAN, len : Lens]
  BY DEF Messages
<1>4. LET c == AsCanId(m)
      IN /\ c.id = m.id % Eff
         /\ c.extended = (m.extended \/ FlagBit(m.id, 4 * Eff))
         /\ c.rtr = (m.rtr \/ FlagBit(m.id, 2 * Eff)) /\ c.err = (m.err \/ FlagBit(m.id, Eff))
         /\ c.fd = m.fd /\ c.brs = m.brs /\ c.esi = m.esi /\ c.len = m.len
  BY <1>3 DEF AsCanId
<1>5. FlagBit(m.id, Eff) \in BOOLEAN /\ FlagBit(m.id, 2 * Eff) \in BOOLEAN
      /\ FlagBit(m.id, 4 * Eff) \in BOOLEAN
  BY DEF FlagBit
<1> QED
  BY <1>2, <1>3, <1>4, <1>5

(* What an interface hands over is a frame.                                 *)
LEMMA MessageIsFrame ==
  ASSUME SdkFrameAssumption, NEW m, NEW bits \in 0..(Eff - 1), NEW err \in BOOLEAN,
         m.extended \in BOOLEAN, m.rtr \in BOOLEAN, m.fd \in BOOLEAN,
         m.brs \in BOOLEAN, m.esi \in BOOLEAN, m.len \in Lens
  PROVE  ToGsusb(m, bits, err) \in Frames
<1>1. /\ m.extended \in BOOLEAN /\ m.rtr \in BOOLEAN /\ m.fd \in BOOLEAN
      /\ m.brs \in BOOLEAN /\ m.esi \in BOOLEAN /\ m.len \in Lens
  OBVIOUS
<1>2. [bits |-> bits, eff |-> m.extended, err |-> err] \in Ids
  BY <1>1 DEF SdkFrameAssumption
<1> QED
  BY <1>1, <1>2 DEF ToGsusb, Frames

(* Every call of an interface is a call of gsusb_channel_send(), or none.   *)
LEMMA InterfaceSends ==
  ASSUME SdkFrameAssumption, NEW k \in Index, NEW m \in Messages,
         \/ FrameSend(k, m) \/ MessageSend(k, m) \/ TableSend(k, m)
         \/ \E digits \in TextDigits : TextSend(k, digits, m)
  PROVE  \E i \in Interfaces :
           /\ app' = [by |-> i, sent |-> m]
           /\ \/ UNCHANGED vars
              \/ LET f == Wired(i, m)
                 IN /\ f \in Frames /\ gsusb_channel_send(k, f)
                    /\ i # "table" => ~TooLong(m)
<1>1. /\ Masked(m) \in 0..(Eff - 1) /\ m.id \in Nat /\ Eff \in Nat \ {0} /\ m.err \in BOOLEAN
      /\ Space(m.extended) \in Nat /\ Space(m.extended) <= Eff
  BY MaskedIsId DEF Messages
<1>2. \A err \in BOOLEAN : ToGsusb(m, Masked(m), err) \in Frames
  BY <1>1, MessageFields, MessageIsFrame
<1>3. m.id < Eff => \A err \in BOOLEAN : ToGsusb(m, m.id, err) \in Frames
  BY <1>1, MessageFields, MessageIsFrame
<1>4. CASE FrameSend(k, m)
  <2>1. ~m.err /\ (m.err /\ "Frame" # "table") = FALSE /\ Bits("Frame", m) = Masked(m)
    BY <1>4 DEF FrameSend, Bits
  <2> QED
    BY <1>2, <1>4, <2>1 DEF FrameSend, SendBy, Interfaces, Wired, Meant
<1>5. CASE MessageSend(k, m)
  <2> DEFINE c == AsCanId(m)
  <2>1. /\ c.extended \in BOOLEAN /\ c.rtr \in BOOLEAN /\ c.err \in BOOLEAN
        /\ c.fd \in BOOLEAN /\ c.brs \in BOOLEAN /\ c.esi \in BOOLEAN /\ c.len \in Lens
        /\ c.id \in 0..(Eff - 1)
    BY CanIdFields, MessageFields
  <2> HIDE DEF c
  <2>2. ToGsusb(c, c.id, c.err) \in Frames
    BY <2>1, MessageIsFrame
  <2>3. Wired("Message", m) = ToGsusb(c, c.id, c.err)
    BY <2>1 DEF Wired, Meant, Bits, c
  <2> QED
    BY <1>5, <2>2, <2>3 DEF MessageSend, SendBy, Interfaces, c
<1>6. CASE TableSend(k, m)
  <2>1. (m.err /\ "table" # "table") = FALSE /\ Bits("table", m) = Masked(m)
    BY DEF Bits
  <2> QED
    BY <1>2, <1>6, <2>1 DEF TableSend, SendBy, Interfaces, Wired, Meant
<1>7. CASE \E digits \in TextDigits : TextSend(k, digits, m)
  <2>1. PICK digits \in TextDigits : TextSend(k, digits, m)
    BY <1>7
  <2>2. ~m.err /\ (m.err /\ "text" # "table") = FALSE /\ Bits("text", m) = m.id
    BY <2>1 DEF TextSend, Bits, Meant
  <2>3. ~(m.id >= Space(m.extended)) => m.id < Eff
    BY <1>1
  <2> QED
    BY <1>3, <2>1, <2>2, <2>3 DEF TextSend, SendBy, Interfaces, Wired, Meant
<1> QED
  BY <1>4, <1>5, <1>6, <1>7

(* Whatever the SDKs and tools send, gsusb_channel_send() gets it as a      *)
(* gsusb_frame: what is proved of Spec holds for all of them.               *)
THEOREM InterfacesUseDriver == SdkSpec => Spec
<1>1. SdkInit => Init
  BY DEF SdkInit
<1>2. [SdkNext]_sdk_vars => [Next]_vars
  <2> SUFFICES ASSUME [SdkNext]_sdk_vars PROVE [Next]_vars
    OBVIOUS
  <2>1. ASSUME NEW k \in Index, NEW m \in Messages,
               \/ FrameSend(k, m) \/ MessageSend(k, m) \/ TableSend(k, m)
               \/ \E digits \in TextDigits : TextSend(k, digits, m)
        PROVE  [Next]_vars
    BY <2>1, SdkFrameAssumption, InterfaceSends DEF Next
  <2>2. ASSUME NEW k \in Index, NEW f \in Frames, CSend(k, f)
        PROVE  [Next]_vars
    BY <2>2 DEF CSend, Next
  <2> QED
    BY <2>1, <2>2 DEF SdkNext, sdk_vars, Next
<1> QED
  BY <1>1, <1>2, PTL DEF SdkSpec, Spec

LEMMA SentInvariant == SdkSpec => []AsSent
<1>1. SdkInit => AsSent
  BY DEF SdkInit, Init, AsSent
<1>2. AsSent /\ [SdkNext]_sdk_vars => AsSent'
  <2> SUFFICES ASSUME AsSent, [SdkNext]_sdk_vars PROVE AsSent'
    OBVIOUS
  <2>1. ASSUME NEW k \in Index, NEW m \in Messages, status = "send",
               \/ FrameSend(k, m) \/ MessageSend(k, m) \/ TableSend(k, m)
               \/ \E digits \in TextDigits : TextSend(k, digits, m)
        PROVE  AsSent'
    <3>1. PICK i \in Interfaces :
            /\ app' = [by |-> i, sent |-> m]
            /\ \/ UNCHANGED vars
               \/ LET f == Wired(i, m)
                  IN /\ f \in Frames /\ gsusb_channel_send(k, f)
                     /\ i # "table" => ~TooLong(m)
      BY <2>1, SdkFrameAssumption, InterfaceSends
    <3>2. app' # NotSent /\ app'.by = i /\ app'.sent = m
      BY <3>1 DEF NotSent, Interfaces
    <3>3. CASE UNCHANGED vars
      BY <2>1, <3>1, <3>2, <3>3 DEF AsSent, vars
    <3>4. CASE ~UNCHANGED vars
      <4>1. /\ frame' = Wired(i, m)
            /\ i # "table" => ~TooLong(m)
        BY <3>1, <3>4 DEF gsusb_channel_send
      <4>2. /\ app'.by # "table" => ~TooLong(app'.sent)
            /\ frame' = Wired(app'.by, app'.sent)
        BY <3>2, <4>1
      <4> QED
        BY <3>1, <3>2, <4>1, <4>2
           DEF AsSent, TooLong, Wired, Meant, AsCanId, FlagBit, ToGsusb, Bits, Masked, Space
    <3> QED
      BY <3>3, <3>4
  <2>2. ASSUME NEW k \in Index, NEW f \in Frames, CSend(k, f)
        PROVE  AsSent'
    BY <2>2 DEF CSend, AsSent, NotSent
  <2>3. CASE DeviceSends /\ UNCHANGED app /\ app = NotSent
    BY <2>3 DEF DeviceSends, AsSent
  <2>4. CASE (DeviceLoopsBack \/ handle_rx_packet) /\ UNCHANGED app
    <3>1. /\ frame' = frame /\ status # "send" /\ app' = app
          /\ status' \in {"sent", "looped", "received"} => status \in {"sent", "looped", "received"}
      BY <2>4 DEF DeviceLoopsBack, handle_rx_packet
    <3> QED
      BY <3>1 DEF AsSent, TooLong, Wired, Meant, AsCanId, FlagBit, ToGsusb, Bits, Masked, Space
  <2>5. CASE UNCHANGED sdk_vars
    BY <2>5 DEF sdk_vars, vars, AsSent, TooLong, Wired, Meant, AsCanId, FlagBit, ToGsusb, Bits,
           Masked, Space
  <2> QED
    BY <2>1, <2>2, <2>3, <2>4, <2>5 DEF SdkNext
<1> QED
  BY <1>1, <1>2, PTL DEF SdkSpec

(* Whatever interface a frame is sent by, every interface shows it as it    *)
(* was sent, or it was refused, for every length and every identifier.      *)
THEOREM InterfacesAgree == SdkSpec => []EndToEnd
<1>1. ASSUME IInv, LoopbackIntact, AsSent
      PROVE  EndToEnd
  <2> SUFFICES ASSUME status = "received", app.by # "C"
               PROVE  EndToEnd
    BY DEF EndToEnd
  <2> DEFINE m == IF app.by = "Message" THEN AsCanId(app.sent) ELSE app.sent
             bits == Bits(app.by, app.sent)
             table == app.by = "table"
  <2>0. /\ app.by \in Interfaces /\ app.sent \in Messages /\ (~table => ~TooLong(app.sent))
        /\ frame = ToGsusb(m, bits, m.err /\ ~table)
    BY <1>1 DEF AsSent, NotSent, Wired, Meant
  <2>1. ~table => ~TooLong(m)
    <3>1. m.len = app.sent.len /\ m.fd = app.sent.fd
      BY <2>0, SdkFrameAssumption, CanIdFields
    <3> QED
      BY <2>0, <3>1 DEF TooLong
  <2>2. /\ m.rtr \in BOOLEAN /\ m.fd \in BOOLEAN /\ m.err \in BOOLEAN /\ m.extended \in BOOLEAN
        /\ m.len \in Nat
    <3>1. /\ m.rtr \in BOOLEAN /\ m.fd \in BOOLEAN /\ m.err \in BOOLEAN
          /\ m.extended \in BOOLEAN /\ m.len \in Lens
      BY <2>0, SdkFrameAssumption, CanIdFields, MessageFields
    <3>2. Lens \subseteq Nat
      BY HostFrameAssumption DEF HostFrameAssumption
    <3> QED
      BY <3>1, <3>2
  <2>a. bits % Space(m.extended) = m.id % Space(m.extended)
    <3>1. CASE app.by \in {"Frame", "table"}
      <4>1. m = app.sent /\ bits = Masked(m)
        BY <3>1 DEF Bits
      <4> QED
        BY <2>0, <4>1, SdkFrameAssumption, MaskedIsId DEF Masked
    <3>2. CASE app.by \notin {"Frame", "table"}
      BY <3>2 DEF Bits, Meant
    <3> QED
      BY <3>1, <3>2
  <2> HIDE DEF m, bits
  <2>3. /\ got.id.bits = bits /\ got.id.eff = m.extended
        /\ got.id.err = (m.err /\ ~table)
        /\ got.rtr = m.rtr /\ got.fd = m.fd /\ got.brs = m.brs /\ got.esi = m.esi
    BY <1>1, <2>0 DEF LoopbackIntact, ToGsusb
  <2>4. bits % Space(m.extended) = m.id % (IF m.extended THEN Eff ELSE Sff)
    BY <2>a DEF Space
  <2>5. \/ m.rtr /\ ~m.fd
        \/ got.carried = IF table THEN AtMost(m.len, MaxDlen(m.fd)) ELSE m.len
    <3>1. frame.len = m.len /\ frame.fd = m.fd /\ frame.rtr = m.rtr
      BY <2>0 DEF ToGsusb
    <3>2. (m.rtr /\ ~m.fd) \/ got.carried = AtMost(m.len, MaxDlen(m.fd))
      BY <1>1, <3>1 DEF LoopbackIntact
    <3>3. ~table => AtMost(m.len, MaxDlen(m.fd)) = m.len
      BY <2>1, <2>2 DEF TooLong, AtMost, MaxDlen
    <3> QED
      BY <3>2, <3>3
  <2> DEFINE shown == FrameShows(got)
             text == TextShows(got)
  <2>6. /\ shown.id = m.id % (IF m.extended THEN Eff ELSE Sff)
        /\ shown.extended = m.extended /\ shown.err = (m.err /\ ~table)
        /\ shown.fd = m.fd /\ shown.brs = m.brs /\ shown.esi = m.esi
        /\ shown.rtr = m.rtr /\ shown.carried = got.carried
    BY <2>3, <2>4 DEF FrameShows
  <2>7. /\ text.id = shown.id /\ text.extended = shown.extended /\ text.err = shown.err
        /\ text.fd = shown.fd /\ text.brs = shown.brs /\ text.esi = shown.esi
        /\ text.rtr = (m.rtr /\ ~(m.err /\ ~table))
        /\ text.carried = IF m.rtr THEN 0 ELSE got.carried
    BY <2>3 DEF TextShows, FrameShows
  <2>8. MessageShows(got) = shown /\ TableShows(got) = shown
    BY DEF MessageShows, TableShows
  <2> HIDE DEF shown, text, table
  <2>9. ASSUME NEW s \in {shown, text}
        PROVE  /\ s.id = m.id % (IF m.extended THEN Eff ELSE Sff)
               /\ s.extended = m.extended /\ s.err = (m.err /\ ~table)
               /\ s.fd = m.fd /\ s.brs = m.brs /\ s.esi = m.esi
               /\ s.rtr = m.rtr \/ (s = text /\ m.err)
               /\ \/ s.carried = IF table THEN AtMost(m.len, MaxDlen(m.fd)) ELSE m.len
                  \/ m.rtr /\ (~m.fd \/ s = text)
    <3>1. CASE s = shown
      BY <2>5, <2>6, <3>1
    <3>2. CASE s = text
      BY <2>2, <2>5, <2>6, <2>7, <3>2
    <3> QED
      BY <2>9, <3>1, <3>2
  <2> QED
    BY <2>8, <2>9 DEF EndToEnd, shown, text, m, table
<1>2. IInv => LoopbackIntact
  BY FrameReturns
<1> QED
  BY <1>1, <1>2, FrameInvariant, InterfacesUseDriver, SentInvariant, PTL
===============================================================================
