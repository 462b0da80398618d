------------------------------- MODULE RxQueue -------------------------------
(***************************************************************************)
(* What one channel's receive queue promises its callers, without saying   *)
(* how it is stored: a bounded FIFO that, when full, gives up its oldest   *)
(* frame and counts it.  RxRing (the ring buffer of driver/src/gsusb.c)    *)
(* implements this specification.                                          *)
(*                                                                         *)
(* A frame is represented by its arrival number: the k-th frame the reader *)
(* thread pushes is k.                                                     *)
(***************************************************************************)
EXTENDS Naturals, Sequences, DropOldest

CONSTANTS
  Consumers,  \* the threads that call gsusb_channel_recv() on this channel
  MaxFrames   \* bound on the frames that ever arrive

VARIABLES
  fifo,     \* the queued frames, oldest first
  drops,    \* frames given up to make room
  arrived,  \* frames pushed so far
  got       \* got[c] is the last frame handed to consumer c, 0 before any

qvars == <<fifo, drops, arrived, got>>

QInit ==
  /\ fifo = <<>>
  /\ drops = 0
  /\ arrived = 0
  /\ got = [c \in Consumers |-> 0]

Arrive ==
  /\ arrived < MaxFrames
  /\ arrived' = arrived + 1
  /\ fifo' = Enqueue(fifo, arrived + 1)
  /\ drops' = IF Len(fifo) = Cap THEN drops + 1 ELSE drops
  /\ UNCHANGED got

Take(c) ==
  /\ fifo # <<>>
  /\ got' = [got EXCEPT ![c] = Head(fifo)]
  /\ fifo' = Tail(fifo)
  /\ UNCHANGED <<drops, arrived>>

QNext == Arrive \/ \E c \in Consumers : Take(c)

QSpec == QInit /\ [][QNext]_qvars
==============================================================================
