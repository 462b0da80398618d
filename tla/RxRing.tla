-------------------------------- MODULE RxRing --------------------------------
(***************************************************************************)
(* The receive queue of one channel as driver/src/gsusb.c implements it: a *)
(* ring buffer (q_buf, q_head, q_len) under q_lock, filled by the reader   *)
(* thread through rxq_push() and drained by any number of threads blocked  *)
(* in gsusb_channel_recv() on the condition variable q_cond.               *)
(*                                                                         *)
(* A section of code that runs with q_lock held never blocks, so it is one *)
(* step.  What is not one step is a recv() call: between asking for the    *)
(* lock, sleeping on q_cond, being signalled and owning the lock again,    *)
(* other threads run.                                                      *)
(*                                                                         *)
(* Frames are represented by their arrival number (the k-th push is k).    *)
(***************************************************************************)
EXTENDS Naturals, Sequences, FiniteSets

CONSTANTS
  Consumers,  \* the threads that call gsusb_channel_recv() on this channel
  Cap,        \* GSUSB_RXQ_CAPACITY
  MaxFrames   \* bound on the frames pushed

ASSUME RxRingAssumption ==
  /\ Cap \in Nat \ {0}
  /\ MaxFrames \in Nat
  /\ IsFiniteSet(Consumers)

VARIABLES
  q_buf, q_head, q_len, q_drops,  \* the fields of struct gsusb_channel
  started,   \* ch->started: written under start_lock, read here under q_lock
  pc,        \* where each consumer is in gsusb_channel_recv()
  deadline,  \* "none" for timeout_ms = 0, else "armed" until it has "passed"
  frame,     \* frame[c] is *frame of c's calls, 0 before the first delivery
  pushed,    \* history: frames pushed
  delivered, \* history: frames handed to consumers
  last,      \* history: the last frame handed to any consumer
  wasted     \* history: signals since the queue was empty that woke nobody,
             \*          because a consumer that was timing out consumed them

ring == <<q_buf, q_head, q_len, q_drops>>
history == <<pushed, delivered, last, wasted>>
vars == <<ring, started, pc, deadline, frame, history>>

(* Asleep in pthread_cond_timedwait(). *)
Waiting == {c \in Consumers : pc[c] = "waiting"}

(* Signalled, and about to test the loop condition again. *)
Woken == {c \in Consumers : pc[c] = "woken"}

(* No longer asleep because the deadline passed, and not returned yet. *)
TimedOut == {c \in Consumers : pc[c] = "timedout"}

(* The i-th slot after the head (i = 0 is the oldest frame). *)
Slot(i) == (q_head + i) % Cap

(* rxq_init(): calloc() zeroes the slots; the channel is not started yet.  *)
Init ==
  /\ q_buf = [i \in 0..(Cap - 1) |-> 0]
  /\ q_head = 0
  /\ q_len = 0
  /\ q_drops = 0
  /\ started = FALSE
  /\ pc = [c \in Consumers |-> "idle"]
  /\ deadline = [c \in Consumers |-> "none"]
  /\ frame = [c \in Consumers |-> 0]
  /\ pushed = 0
  /\ delivered = 0
  /\ last = 0
  /\ wasted = 0

-------------------------------------------------------------------------------
(* The producer: the reader thread, in handle_rx_packet(). *)

(* A signal wakes one of the threads blocked on the condition.  POSIX does  *)
(* not keep it from a thread whose wait is timing out: that one may consume *)
(* it, and its wait returns ETIMEDOUT all the same.                         *)
pthread_cond_signal ==
  \/ /\ Waiting = {}
     /\ UNCHANGED <<pc, wasted>>
  \/ \E c \in Waiting :
       /\ pc' = [pc EXCEPT ![c] = "woken"]
       /\ UNCHANGED wasted
  \/ /\ Waiting # {} /\ TimedOut # {}
     /\ wasted' = wasted + 1
     /\ UNCHANGED pc

(* Store the new frame behind len frames that start at head, and signal. *)
StoreAt(head, len, drops, signal) ==
  /\ pushed < MaxFrames
  /\ q_buf' = [q_buf EXCEPT ![(head + len) % Cap] = pushed + 1]
  /\ q_head' = head
  /\ q_len' = len + 1
  /\ q_drops' = drops
  /\ pushed' = pushed + 1
  /\ IF signal THEN pthread_cond_signal ELSE UNCHANGED <<pc, wasted>>
  /\ UNCHANGED <<started, deadline, frame, delivered, last>>

(* Mutants of rxq_push: the oldest frame's slot is not given back; the head *)
(* stays where it is; the drop is not counted; only a push into an empty    *)
(* queue signals.                                                           *)
PushKeepsLen ==
  StoreAt(IF q_len = Cap THEN (q_head + 1) % Cap ELSE q_head, q_len,
          IF q_len = Cap THEN q_drops + 1 ELSE q_drops, TRUE)

PushKeepsHead ==
  StoreAt(q_head, IF q_len = Cap THEN q_len - 1 ELSE q_len,
          IF q_len = Cap THEN q_drops + 1 ELSE q_drops, TRUE)

PushForgetsDrop ==
  IF q_len = Cap THEN StoreAt((q_head + 1) % Cap, q_len - 1, q_drops, TRUE)
                 ELSE StoreAt(q_head, q_len, q_drops, TRUE)

PushSignalsOnEmpty ==
  IF q_len = Cap THEN StoreAt((q_head + 1) % Cap, q_len - 1, q_drops + 1, FALSE)
                 ELSE StoreAt(q_head, q_len, q_drops, q_len = 0)

(* When full, the oldest frame is dropped and counted first. *)
rxq_push ==
  IF q_len = Cap THEN StoreAt((q_head + 1) % Cap, q_len - 1, q_drops + 1, TRUE)
                 ELSE StoreAt(q_head, q_len, q_drops, TRUE)

-------------------------------------------------------------------------------
(* The consumers: gsusb_channel_recv(ch, frame, timeout_ms). *)

(* The call; timed is timeout_ms > 0.  The deadline is read off the clock    *)
(* once q_lock is held; it may have passed before the first wait (the thread *)
(* is preempted).  Others cannot tell that from its passing while the thread *)
(* still waits for the lock, so arming it here loses nothing.                *)
RecvCall(c, timed) ==
  /\ pc[c] = "idle"
  /\ pc' = [pc EXCEPT ![c] = "lock"]
  /\ deadline' = [deadline EXCEPT ![c] = IF timed THEN "armed" ELSE "none"]
  /\ UNCHANGED <<ring, started, frame, history>>

(* c gets q_lock and is at the test of the while loop. *)
AtLoop(c) == pc[c] \in {"lock", "woken"}

Return(c) == pc' = [pc EXCEPT ![c] = "idle"]

(* c is handed the frame in a slot and the call returns 1. *)
TakeFrom(c, slot, head) ==
  /\ AtLoop(c)
  /\ q_len > 0
  /\ frame' = [frame EXCEPT ![c] = q_buf[slot]]
  /\ q_head' = head
  /\ q_len' = q_len - 1
  /\ delivered' = delivered + 1
  /\ last' = q_buf[slot]
  /\ wasted' = IF q_len = 1 THEN 0 ELSE wasted
  /\ Return(c)
  /\ UNCHANGED <<q_buf, q_drops, started, deadline, pushed>>

(* Mutant of RecvFrame: the newest frame first. *)
TakeNewest(c) == TakeFrom(c, Slot(q_len - 1), q_head)

(* q_len > 0: the oldest frame. *)
RecvFrame(c) == TakeFrom(c, q_head, Slot(1))

(* Empty and stopped (GSUSB_ERR_INVALID), or empty with timeout_ms = 0 (0). *)
RecvEmpty(c) ==
  /\ AtLoop(c)
  /\ q_len = 0
  /\ ~started \/ deadline[c] = "none"
  /\ Return(c)
  /\ UNCHANGED <<ring, started, deadline, frame, history>>

(* pthread_cond_timedwait() with a deadline in state d.  One already in the *)
(* past returns ETIMEDOUT without blocking, but still gives up q_lock and   *)
(* takes it again.                                                          *)
SleepUntil(c, d) ==
  /\ AtLoop(c)
  /\ q_len = 0
  /\ started
  /\ deadline[c] # "none"
  /\ pc' = [pc EXCEPT ![c] = IF d = "passed" THEN "timedout" ELSE "waiting"]
  /\ deadline' = [deadline EXCEPT ![c] = d]
  /\ UNCHANGED <<ring, started, frame, history>>

(* Mutant of RecvWait: a relative timeout, started anew at every wait. *)
WaitRearms(c) == SleepUntil(c, "armed")

(* The deadline is absolute and is computed once, before the loop. *)
RecvWait(c) == SleepUntil(c, deadline[c])

(* A sleeper whose deadline passes wakes up and waits for q_lock; a signal  *)
(* sent before it has the lock may still go to it (pthread_cond_signal) ... *)
WaitTimesOut(c) ==
  /\ pc[c] = "waiting"
  /\ deadline[c] = "passed"
  /\ pc' = [pc EXCEPT ![c] = "timedout"]
  /\ UNCHANGED <<ring, started, deadline, frame, history>>

(* ... and once it has the lock it returns 0, whatever q_len is by now, and *)
(* passes no signal on.                                                     *)
RecvTimeout(c) ==
  /\ pc[c] = "timedout"
  /\ Return(c)
  /\ UNCHANGED <<ring, started, deadline, frame, history>>

-------------------------------------------------------------------------------
(* The environment. *)

(* Time reaches the deadline of a call in progress. *)
DeadlinePasses(c) ==
  /\ pc[c] # "idle"
  /\ deadline[c] = "armed"
  /\ deadline' = [deadline EXCEPT ![c] = "passed"]
  /\ UNCHANGED <<ring, started, pc, frame, history>>

(* POSIX lets a wait return without a signal. *)
SpuriousWakeup(c) ==
  /\ pc[c] = "waiting"
  /\ pc' = [pc EXCEPT ![c] = "woken"]
  /\ UNCHANGED <<ring, started, deadline, frame, history>>

(* gsusb_channel_start() and gsusb_channel_stop() write ch->started without *)
(* q_lock, do not touch the queue and do not signal q_cond.                 *)
SetStarted ==
  /\ started' = ~started
  /\ UNCHANGED <<ring, pc, deadline, frame, history>>

-------------------------------------------------------------------------------
RecvStep(c) ==
  \/ RecvFrame(c)
  \/ RecvEmpty(c)
  \/ RecvWait(c)
  \/ WaitTimesOut(c)
  \/ RecvTimeout(c)

Next ==
  \/ rxq_push
  \/ SetStarted
  \/ \E c \in Consumers :
       \/ \E timed \in BOOLEAN : RecvCall(c, timed)
       \/ RecvStep(c)
       \/ DeadlinePasses(c)
       \/ SpuriousWakeup(c)

Spec == Init /\ [][Next]_vars

(* A thread inside recv() keeps running, and time keeps passing; nobody is *)
(* obliged to push, to call recv() or to start or stop the channel.        *)
Fairness == \A c \in Consumers : WF_vars(RecvStep(c)) /\ WF_vars(DeadlinePasses(c))

FairSpec == Spec /\ Fairness

-------------------------------------------------------------------------------
(* Properties. *)

TypeOK ==
  /\ q_buf \in [0..(Cap - 1) -> 0..MaxFrames]
  /\ q_head \in 0..(Cap - 1)
  /\ q_len \in 0..Cap
  /\ q_drops \in Nat
  /\ started \in BOOLEAN
  /\ pc \in [Consumers -> {"idle", "lock", "waiting", "woken", "timedout"}]
  /\ deadline \in [Consumers -> {"none", "armed", "passed"}]
  /\ frame \in [Consumers -> 0..MaxFrames]
  /\ pushed \in 0..MaxFrames
  /\ delivered \in Nat
  /\ last \in 0..MaxFrames
  /\ wasted \in Nat

(* The ring holds exactly the newest q_len frames, oldest at q_head, through *)
(* every wrap of the indices of rxq_push() and gsusb_channel_recv().         *)
NewestInOrder == \A i \in 0..(q_len - 1) : q_buf[Slot(i)] = (pushed - q_len) + 1 + i

(* Every frame pushed is still queued, was handed to one consumer, or is    *)
(* counted in q_drops: nothing is lost silently.                            *)
Conservation == pushed = delivered + q_drops + q_len

(* A consumer sleeps in gsusb_channel_recv() with frames queued only while  *)
(* as many others have been woken to take them, or as many signals were     *)
(* consumed by calls that were timing out: that is the only way in which    *)
(* the one pthread_cond_signal() per push of rxq_push() is not enough.      *)
NoLostWakeup == Waiting # {} => q_len <= Cardinality(Woken) + wasted

(* gsusb.h: recv() "blocks up to timeout_ms for the next received CAN frame *)
(* on this channel", so no call sleeps with a frame in the queue unless     *)
(* another has been woken for it.  FALSE of the code: see NoLostWakeup.     *)
SleepersAreWoken == Waiting # {} /\ q_len > 0 => Woken # {}

(* Frames leave the queue in arrival order, none of them twice, whichever   *)
(* consumer takes them and however many were dropped in between.            *)
DeliveredInOrder == [][delivered' # delivered => last' > last]_vars

(* Every gsusb_channel_recv() call returns: the deadline is absolute, so    *)
(* spurious wakeups and frames stolen by other consumers cannot extend it.  *)
RecvReturns == \A c \in Consumers : pc[c] # "idle" ~> pc[c] = "idle"

(* The ring buffer implements the drop-oldest queue of RxQueue.             *)
Queue == INSTANCE RxQueue WITH
  fifo    <- [i \in 1..q_len |-> q_buf[Slot(i - 1)]],
  drops   <- q_drops,
  arrived <- pushed,
  got     <- frame

(* Every push and every successful recv() of the ring is one step of the    *)
(* abstract queue, and nothing else the threads do is visible there.        *)
ImplementsQueue == Queue!QSpec

===============================================================================
