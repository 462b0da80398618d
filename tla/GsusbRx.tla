------------------------------- MODULE GsusbRx --------------------------------
(***************************************************************************)
(* The receive path of one device: the bulk-IN pipe the channels share, the *)
(* reader thread that empties it, handle_rx_packet(), and one receive queue *)
(* per channel (driver/src/gsusb.c).  It extends GsusbDevice, so packets    *)
(* arrive while channels are started, stopped and closed.                   *)
(*                                                                         *)
(* RxRing has the detail of one queue; here a queue is its abstraction, a   *)
(* sequence that drops its oldest frame (DropOldest).                       *)
(***************************************************************************)
EXTENDS GsusbDevice, DropOldest, Functions

CONSTANTS
  MaxSeq,   \* bound on the frames all channels together take from their buses
  MaxPipe   \* bound on the packets the device holds for the host

(* A host frame as far as handle_rx_packet() looks at it.  "echo" has an    *)
(* echo_id other than GS_HOST_FRAME_ECHO_ID_RX, "short" is less than a      *)
(* header, "truncated" less than its DLC asks for; ts is a time stamp       *)
(* appended by the device; channel NoOne is an index that is out of range.  *)
(* fresh is a history flag: sent while hw_ts_enabled was up to date.        *)
Packets ==
  [kind : {"frame", "echo", "short", "truncated"}, channel : Channels \cup {NoOne},
   seq : Nat, ts : BOOLEAN, fresh : BOOLEAN]

ASSUME RxAssumption ==
  /\ Cap \in Nat \ {0} /\ MaxSeq \in Nat /\ MaxPipe \in Nat \ {0}
  /\ NoOne \notin Packets

VARIABLES
  pipe,     \* packets the device has for the host, oldest first
  buf,      \* buf[r] is what reader r's last transfer returned, or NoOne
  seq,      \* seq[k]: frames the device took from channel k's bus
  rxq,      \* rxq[k]: channel k's receive queue
  q_drops,  \* q_drops[k]: frames given up by rxq[k]
  taken,    \* history: taken[k], frames recv() returned on channel k
  newest,   \* history: newest[k], number of the last of them
  lossy     \* history: a close, or an unplugged device, threw frames away

queues == <<seq, rxq, q_drops, taken, newest, lossy>>
rxvars == <<pipe, buf, queues>>

Packet(kind, k, n, fresh) ==
  [kind |-> kind, channel |-> k, seq |-> n, ts |-> k \in TsChannels, fresh |-> fresh]

Garbage == {Packet("short", NoOne, 0, FALSE), Packet("frame", NoOne, 0, FALSE)}
             \cup {Packet("truncated", k, 0, FALSE) : k \in TsChannels}

RxInit ==
  /\ Init
  /\ pipe = <<>>
  /\ buf = [r \in Readers |-> NoOne]
  /\ seq = [k \in Channels |-> 0]
  /\ rxq = [k \in Channels |-> <<>>]
  /\ q_drops = [k \in Channels |-> 0]
  /\ taken = [k \in Channels |-> 0]
  /\ newest = [k \in Channels |-> 0]
  /\ lossy = FALSE

-------------------------------------------------------------------------------
(* The device. *)

DeviceSends(p) ==
  /\ Len(pipe) < MaxPipe
  /\ pipe' = Append(pipe, p)
  /\ UNCHANGED <<vars, buf>>

(* A live channel takes a frame from its bus. *)
BusFrame(k) ==
  /\ plugged /\ k \in dev_on
  /\ SumFunction(seq) < MaxSeq
  /\ DeviceSends(Packet("frame", k, seq[k] + 1, k \in started))
  /\ seq' = [seq EXCEPT ![k] = @ + 1]
  /\ UNCHANGED <<rxq, q_drops, taken, newest, lossy>>

(* A packet the host cannot use. *)
BadPacket ==
  /\ plugged
  /\ \E p \in Garbage : DeviceSends(p)
  /\ UNCHANGED queues

(* gsusb_channel_send() on a started channel: the device answers with an    *)
(* echo packet.                                                             *)
gsusb_channel_send(k) ==
  /\ opened /\ plugged
  /\ k \in started
  /\ k \in dev_on
  /\ DeviceSends(Packet("echo", k, 0, FALSE))
  /\ UNCHANGED queues

-------------------------------------------------------------------------------
(* The reader thread. *)

(* The bulk-IN transfer returns a packet. *)
BulkIn(r) ==
  /\ rpc[r] = "reading" /\ buf[r] = NoOne
  /\ plugged
  /\ pipe # <<>>
  /\ buf' = [buf EXCEPT ![r] = Head(pipe)]
  /\ pipe' = Tail(pipe)
  /\ UNCHANGED <<vars, queues>>

(* It times out or fails. *)
BulkInNothing(r) ==
  /\ buf[r] = NoOne
  /\ ReaderTransfer(r)
  /\ UNCHANGED rxvars

(* A time stamp is expected on a channel with hw_ts_enabled. *)
LongEnough(p) ==
  /\ p.kind \notin {"short", "truncated"}
  /\ p.channel \in hw_ts_enabled => p.ts

(* The packet is a received frame of one of our channels. *)
Accepted(p) == p.kind = "frame" /\ p.channel \in Channels /\ LongEnough(p)

(* The gsusb_frame made of it: the time stamp is read only if enabled.      *)
Frame(p) == [channel |-> p.channel, kind |-> p.kind, seq |-> p.seq, fresh |-> p.fresh,
             ts |-> p.channel \in hw_ts_enabled]

(* rxq_push() on the packet's channel, started or not. *)
Push(k, f) ==
  /\ rxq' = [rxq EXCEPT ![k] = Enqueue(@, f)]
  /\ q_drops' = [q_drops EXCEPT ![k] = IF Len(rxq[k]) = Cap THEN @ + 1 ELSE @]
  /\ UNCHANGED <<seq, taken, newest, lossy>>

(* Mutants of handle_rx_packet: echo packets are not filtered; frames of a  *)
(* stopped channel are; the time stamp is never read.                       *)
KeepsEchoes(p) ==
  IF p.kind \in {"frame", "echo"} /\ p.channel \in Channels /\ LongEnough(p)
  THEN Push(p.channel, Frame(p)) ELSE UNCHANGED queues

FiltersStopped(p) ==
  IF Accepted(p) /\ p.channel \in started THEN Push(p.channel, Frame(p)) ELSE UNCHANGED queues

NeverReadsStamp(p) ==
  IF Accepted(p) THEN Push(p.channel, [Frame(p) EXCEPT !.ts = FALSE]) ELSE UNCHANGED queues

handle_rx_packet(p) ==
  IF Accepted(p) THEN Push(p.channel, Frame(p)) ELSE UNCHANGED queues

(* The packet is handled, and the loop goes round. *)
ReaderHandles(r) ==
  /\ rpc[r] = "reading" /\ buf[r] # NoOne
  /\ handle_rx_packet(buf[r])
  /\ buf' = [buf EXCEPT ![r] = NoOne]
  /\ ReaderGoto(r, "top")
  /\ UNCHANGED pipe

-------------------------------------------------------------------------------
(* The application. *)

(* A gsusb_channel_recv() that returns frame f of the queue and leaves rest; *)
(* no call overlaps gsusb_close().                                           *)
TakeFrame(k, f, rest) ==
  /\ opened
  /\ \A c \in Callers : pc[c] \notin {"close_join", "close_free"}
  /\ rxq[k] # <<>>
  /\ rxq' = [rxq EXCEPT ![k] = rest]
  /\ taken' = [taken EXCEPT ![k] = @ + 1]
  /\ newest' = [newest EXCEPT ![k] = f.seq]
  /\ UNCHANGED <<vars, pipe, buf, seq, q_drops, lossy>>

(* Mutant of gsusb_channel_recv: it takes from the end rxq_push() fills.     *)
RecvNewest(k) ==
  LET n == Len(rxq[k]) IN TakeFrame(k, rxq[k][n], SubSeq(rxq[k], 1, n - 1))

gsusb_channel_recv(k) == TakeFrame(k, Head(rxq[k]), Tail(rxq[k]))

(* The steps of GsusbDevice that do not move frames ...                     *)
LifecycleStep ==
  /\ \/ \E c \in Callers : CallBegins(c) \/ CallGoesOn(c)
     \/ \E r \in Readers : ReaderAlloc(r) \/ ReaderTop(r)
  /\ UNCHANGED rxvars

(* ... and those that do: close frees the queues, open makes new ones (what *)
(* the device still holds is none of the new session's), and an unplugged   *)
(* device takes its packets with it.                                        *)
RxClose ==
  /\ \E c \in Callers : CloseFree(c)
  /\ rxq' = [k \in Channels |-> <<>>]
  /\ lossy' = TRUE
  /\ UNCHANGED <<pipe, buf, seq, q_drops, taken, newest>>

RxOpen ==
  /\ Open
  /\ pipe' = [i \in DOMAIN pipe |-> [pipe[i] EXCEPT !.fresh = FALSE]]
  /\ q_drops' = [k \in Channels |-> 0]
  /\ UNCHANGED <<buf, seq, rxq, taken, newest, lossy>>

RxUnplug ==
  /\ Unplug
  /\ pipe' = <<>>
  /\ lossy' = TRUE
  /\ UNCHANGED <<buf, seq, rxq, q_drops, taken, newest>>

RxNext ==
  \/ LifecycleStep \/ RxClose \/ RxOpen \/ RxUnplug
  \/ BadPacket
  \/ \E k \in Channels : BusFrame(k) \/ gsusb_channel_send(k) \/ gsusb_channel_recv(k)
  \/ \E r \in Readers : BulkIn(r) \/ BulkInNothing(r) \/ ReaderHandles(r)

RxSpec == RxInit /\ [][RxNext]_<<vars, rxvars>>

-------------------------------------------------------------------------------
(* Properties. *)

(* What recv() will return on a channel are received frames of that channel *)
(* only, in the order its bus had them and after all it returned before,    *)
(* through any number of stops, starts and reader threads.                  *)
QueuesInBusOrder ==
  \A k \in Channels :
    /\ \A i \in DOMAIN rxq[k] :
         /\ rxq[k][i].kind = "frame" /\ rxq[k][i].channel = k
         /\ rxq[k][i].seq > newest[k]
    /\ \A i, j \in DOMAIN rxq[k] : i < j => rxq[k][i].seq < rxq[k][j].seq

(* Channel k's frames on their way to its queue. *)
InFlight(k) ==
  Cardinality({i \in DOMAIN pipe : pipe[i].kind = "frame" /\ pipe[i].channel = k})
    + Cardinality({r \in Readers : buf[r] # NoOne /\ buf[r].kind = "frame" /\ buf[r].channel = k})

(* Every frame of a bus is on its way, queued, returned by recv(), or       *)
(* counted in q_drops: stops and starts of this or another channel, and     *)
(* packets of other kinds, lose none.                                       *)
NoFrameLost ==
  ~lossy => \A k \in Channels : seq[k] = InFlight(k) + Len(rxq[k]) + q_drops[k] + taken[k]

(* Every frame that came off the bus after gsusb_channel_start() had set    *)
(* the channel up carries its hardware time stamp.                          *)
StampedOnceStarted ==
  \A k \in TsChannels : \A i \in DOMAIN rxq[k] : rxq[k][i].fresh => rxq[k][i].ts
===============================================================================
