------------------------------ MODULE DropOldest ------------------------------
(***************************************************************************)
(* A bounded FIFO that, when full, gives up its oldest element: what       *)
(* rxq_push() of driver/src/gsusb.c makes of a channel's receive queue.    *)
(***************************************************************************)
EXTENDS Naturals, Sequences

CONSTANT Cap  \* GSUSB_RXQ_CAPACITY

(* The elements left once room has been made for one more. *)
MakeRoom(s) == IF Len(s) = Cap THEN Tail(s) ELSE s

(* The queue after f arrived. *)
Enqueue(s, f) == Append(MakeRoom(s), f)
===============================================================================
