------------------------------- MODULE SdkFrame --------------------------------
(***************************************************************************)
(* What an application's own idea of a frame becomes on its way through    *)
(* HostFrame and back: Frame and its constructors (frame.py), can.Message  *)
(* (python_can.py), the frame table of Lua (lua_gsusb.c), and the text     *)
(* that gsusb_send takes and gsusb_dump prints.  They keep identifier and  *)
(* flags apart; gsusb_frame has them in one word, where 11 or 29 bits are  *)
(* the identifier's.                                                       *)
(***************************************************************************)
EXTENDS HostFrame

CONSTANTS
  AppIds,      \* identifiers that applications try
  TextDigits,  \* numbers of digits they are written with
  Sff, Eff     \* numbers of standard and extended identifiers: 2^11 and 2^29

ASSUME SdkFrameAssumption ==
  /\ Sff \in Nat \ {0} /\ Eff \in Nat /\ Sff <= Eff
  /\ AppIds \subseteq Nat /\ TextDigits \subseteq Nat \ {0}
  /\ Ids = [bits : 0..(Eff - 1), eff : BOOLEAN, err : BOOLEAN]

VARIABLE app  \* what the application sent, and by which interface; NotSent before

sdk_vars == <<vars, app>>

NotSent == [by |-> "nobody"]

(* BRS and ESI are for FD frames. *)
Messages ==
  {m \in [id : AppIds, extended : BOOLEAN, rtr : BOOLEAN, err : BOOLEAN,
          fd : BOOLEAN, brs : BOOLEAN, esi : BOOLEAN, len : Lens] :
     m.brs \/ m.esi => m.fd}

SdkInit == Init /\ app = NotSent

(* Mutant of Space: one mask for both. *)
SpaceExtended(extended) == Eff

(* GSUSB_SFF_MASK and GSUSB_EFF_MASK keep the identifier modulo this. *)
Space(extended) == IF extended THEN Eff ELSE Sff

-------------------------------------------------------------------------------
(* Sending. *)

Masked(m) == m.id % Space(m.extended)

(* m as a gsusb_frame with these bits of can_id. *)
ToGsusb(m, bits, err) ==
  [id |-> [bits |-> bits, eff |-> m.extended, err |-> err], rtr |-> m.rtr,
   len |-> m.len, fd |-> m.fd, brs |-> m.brs, esi |-> m.esi]

(* gsusb_channel_send(k, f), unless the interface refuses m.                *)
SendBy(interface, k, m, refused, f) ==
  /\ app' = [by |-> interface, sent |-> m]
  /\ IF refused THEN UNCHANGED vars ELSE gsusb_channel_send(k, f)

TooLong(m) == m.len > MaxDlen(m.fd)

(* Frame.standard(), extended(), remote() or canfd(), and Bus.send():       *)
(* _to_ctypes() raises ValueError.                                          *)
FrameSend(k, m) ==
  /\ ~m.err
  /\ m.rtr => ~m.fd /\ m.len = 0
  /\ SendBy("Frame", k, m, TooLong(m), ToGsusb(m, Masked(m), FALSE))

(* GsUsbNativeBus.send() or-s flags to an identifier that it neither masks  *)
(* nor checks; what the identifier has above its 29 bits is in the place of *)
(* ERR, RTR and EFF, or beyond the c_uint32 that _to_ctypes() stores.       *)
FlagBit(id, place) == (id \div place) % 2 = 1

AsCanId(m) ==
  [m EXCEPT !.id = @ % Eff,
            !.err = @ \/ FlagBit(m.id, Eff), !.rtr = @ \/ FlagBit(m.id, 2 * Eff),
            !.extended = @ \/ FlagBit(m.id, 4 * Eff)]

MessageSend(k, m) ==
  LET c == AsCanId(m)
  IN SendBy("Message", k, m, TooLong(m), ToGsusb(c, c.id, c.err))

(* ch:send(): check_frame() knows no `err`, and one limit of the length.    *)
TableSend(k, m) == SendBy("table", k, m, m.len > MaxDlen(TRUE), ToGsusb(m, Masked(m), FALSE))

(* parse_frame() of a text whose identifier has this many hex digits: more  *)
(* than 3 make it extended.  A remote frame ("R") has neither data nor the  *)
(* flags of an FD frame.                                                    *)
TextSend(k, digits, m) ==
  /\ ~m.err
  /\ m.rtr => ~m.fd /\ m.len = 0
  /\ m.extended = (digits > 3)
  /\ SendBy("text", k, m, digits > 8 \/ m.id >= Space(m.extended) \/ TooLong(m),
            ToGsusb(m, m.id, FALSE))

(* A C program fills a gsusb_frame in itself. *)
CSend(k, f) ==
  /\ app' = [by |-> "C"]
  /\ gsusb_channel_send(k, f)

(* One frame, of the host or of the device. *)
SdkNext ==
  \/ /\ status = "send" /\ app = NotSent
     /\ \/ \E k \in Index, m \in Messages :
             \/ FrameSend(k, m) \/ MessageSend(k, m) \/ TableSend(k, m)
             \/ \E digits \in TextDigits : TextSend(k, digits, m)
        \/ \E k \in Index, f \in Frames : CSend(k, f)
        \/ DeviceSends /\ UNCHANGED app
  \/ (DeviceLoopsBack \/ handle_rx_packet) /\ UNCHANGED app

SdkSpec == SdkInit /\ [][SdkNext]_sdk_vars

-------------------------------------------------------------------------------
(* Receiving. *)

(* The properties of Frame. *)
FrameShows(f) ==
  [id |-> f.id.bits % Space(f.id.eff), extended |-> f.id.eff, rtr |-> f.rtr, err |-> f.id.err,
   fd |-> f.fd, brs |-> f.brs, esi |-> f.esi, carried |-> f.carried]

(* _recv_internal() copies them. *)
MessageShows(f) == FrameShows(f)

(* push_frame() computes the same, each field by itself. *)
TableShows(f) == FrameShows(f)

(* print_frame(): "ERR" or "R", and no data where it would be "R".          *)
TextShows(f) ==
  [FrameShows(f) EXCEPT !.rtr = f.rtr /\ ~f.id.err, !.carried = IF f.rtr THEN 0 ELSE @]

-------------------------------------------------------------------------------
(* Properties. *)

(* A frame sent through any interface and looped back is shown by every     *)
(* interface as it was sent: its identifier, cut to what an identifier of   *)
(* its kind can be, its kind, its flags and all its data, or it was refused. *)
(* A can.Message is sent as the can_id that its identifier and flags make:  *)
(* what the identifier has above its 29 bits adds to its flags, and no      *)
(* interface shows it otherwise than the rest.  A Lua table's `err` is not  *)
(* sent, and gsusb_channel_send() cuts its classic data to 8 bytes.         *)
(* gsusb_dump shows all but that an error frame is a remote one too, and    *)
(* the data of a remote FD frame.                                           *)
EndToEnd ==
  status = "received" /\ app.by # "C" =>
    LET m == IF app.by = "Message" THEN AsCanId(app.sent) ELSE app.sent
        table == app.by = "table"
    IN \A s \in {FrameShows(got), MessageShows(got), TableShows(got), TextShows(got)} :
         /\ s.id = m.id % (IF m.extended THEN Eff ELSE Sff)
         /\ s.extended = m.extended /\ s.err = (m.err /\ ~table)
         /\ s.fd = m.fd /\ s.brs = m.brs /\ s.esi = m.esi
         /\ s.rtr = m.rtr \/ (s = TextShows(got) /\ m.err)
         /\ \/ s.carried = IF table THEN AtMost(m.len, MaxDlen(m.fd)) ELSE m.len
            \/ m.rtr /\ (~m.fd \/ s = TextShows(got))
===============================================================================
