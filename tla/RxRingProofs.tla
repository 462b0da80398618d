----------------------------- MODULE RxRingProofs -----------------------------
(***************************************************************************)
(* Theorems about RxRing, for every capacity, number of consumers and      *)
(* number of frames.                                                       *)
(***************************************************************************)
EXTENDS RxRing, FiniteSetTheorems, TLAPS

(* The modulus of rxq_push() and gsusb_channel_recv() is one conditional    *)
(* subtraction: their operands never reach twice the capacity.              *)
LEMMA ModOnce ==
  ASSUME NEW h \in 0..(Cap - 1), NEW k \in 0..Cap
  PROVE  (h + k) % Cap = IF h + k < Cap THEN h + k ELSE (h + k) - Cap
  BY RxRingAssumption, SMT

(* The frames already handed out are older than every frame still queued.   *)
HandedOutIsOlder == last <= pushed - q_len

(* The ring's part of the inductive invariant: what is stored where, how    *)
(* much has gone where, and how far delivery has come.                      *)
RingInv == TypeOK /\ NewestInOrder /\ Conservation /\ HandedOutIsOlder

(* The steps of rxq_push() and gsusb_channel_recv() that move a frame; all  *)
(* the others leave the ring and the counters alone.                        *)
LEMMA QuietStep ==
  ASSUME TypeOK, [Next]_vars
  PROVE  \/ rxq_push
         \/ \E c \in Consumers : RecvFrame(c)
         \/ UNCHANGED <<q_buf, q_head, q_len, q_drops, frame, pushed, delivered, last>>
  BY DEF Next, vars, ring, history, SetStarted, RecvCall, RecvStep, RecvEmpty, RecvWait,
         SleepUntil, WaitTimesOut, RecvTimeout, DeadlinePasses, SpuriousWakeup

(* Type correctness of a push, for the head and length it starts from.      *)
LEMMA StoreAtType ==
  ASSUME TypeOK, NEW head \in 0..(Cap - 1), NEW len \in 0..(Cap - 1), NEW drops \in Nat,
         StoreAt(head, len, drops, TRUE)
  PROVE  TypeOK'
<1>1. (head + len) % Cap \in 0..(Cap - 1)
  BY ModOnce, RxRingAssumption
<1>2. /\ q_buf' \in [0..(Cap - 1) -> 0..MaxFrames]
      /\ q_head' \in 0..(Cap - 1)
      /\ q_len' \in 0..Cap
      /\ q_drops' \in Nat
      /\ pushed' \in 0..MaxFrames
  BY <1>1, RxRingAssumption DEF TypeOK, StoreAt
<1>3. /\ pc' \in [Consumers -> {"idle", "lock", "waiting", "woken", "timedout"}]
      /\ wasted' \in Nat
  <2>1. pthread_cond_signal
    BY DEF StoreAt
  <2> QED
    BY <2>1 DEF TypeOK, pthread_cond_signal
<1> QED
  BY <1>2, <1>3 DEF TypeOK, StoreAt

(* Every step preserves the types. *)
LEMMA TypeStep ==
  ASSUME TypeOK, [Next]_vars
  PROVE  TypeOK'
<1>1. CASE rxq_push
  <2>1. CASE q_len = Cap
    <3>1. /\ (q_head + 1) % Cap \in 0..(Cap - 1)
          /\ q_len - 1 \in 0..(Cap - 1)
          /\ q_drops + 1 \in Nat
      BY <2>1, ModOnce, RxRingAssumption DEF TypeOK
    <3>2. StoreAt((q_head + 1) % Cap, q_len - 1, q_drops + 1, TRUE)
      BY <1>1, <2>1 DEF rxq_push
    <3> QED
      BY <3>1, <3>2, StoreAtType
  <2>2. CASE q_len # Cap
    <3>1. q_head \in 0..(Cap - 1) /\ q_len \in 0..(Cap - 1) /\ q_drops \in Nat
      BY <2>2, RxRingAssumption DEF TypeOK
    <3>2. StoreAt(q_head, q_len, q_drops, TRUE)
      BY <1>1, <2>2 DEF rxq_push
    <3> QED
      BY <3>1, <3>2, StoreAtType
  <2> QED
    BY <2>1, <2>2
<1>2. ASSUME NEW c \in Consumers, RecvFrame(c)
      PROVE  TypeOK'
  <2>1. Slot(1) \in 0..(Cap - 1)
    BY ModOnce, RxRingAssumption DEF TypeOK, Slot
  <2>2. q_buf[q_head] \in 0..MaxFrames
    BY RxRingAssumption DEF TypeOK
  <2> QED
    BY <1>2, <2>1, <2>2, RxRingAssumption DEF TypeOK, RecvFrame, TakeFrom, Return
<1>3. ASSUME NEW c \in Consumers, NEW timed \in BOOLEAN, RecvCall(c, timed)
      PROVE  TypeOK'
  BY <1>3 DEF TypeOK, RecvCall, ring, history
<1>4. ASSUME NEW c \in Consumers, RecvEmpty(c)
      PROVE  TypeOK'
  BY <1>4 DEF TypeOK, RecvEmpty, Return, ring, history
<1>5. ASSUME NEW c \in Consumers, RecvWait(c)
      PROVE  TypeOK'
  BY <1>5 DEF TypeOK, RecvWait, SleepUntil, ring, history
<1>6. ASSUME NEW c \in Consumers, WaitTimesOut(c) \/ SpuriousWakeup(c)
      PROVE  TypeOK'
  BY <1>6 DEF TypeOK, WaitTimesOut, SpuriousWakeup, ring, history
<1>7. ASSUME NEW c \in Consumers, RecvTimeout(c)
      PROVE  TypeOK'
  BY <1>7 DEF TypeOK, RecvTimeout, Return, ring, history
<1>8. ASSUME NEW c \in Consumers, DeadlinePasses(c)
      PROVE  TypeOK'
  BY <1>8 DEF TypeOK, DeadlinePasses, ring, history
<1>9. CASE SetStarted
  BY <1>9 DEF TypeOK, SetStarted, ring, history
<1>10. CASE UNCHANGED vars
  BY <1>10 DEF TypeOK, vars, ring, history
<1> QED
  BY <1>1, <1>2, <1>3, <1>4, <1>5, <1>6, <1>7, <1>8, <1>9, <1>10 DEF Next, RecvStep

(* rxq_init() leaves a well-typed queue. *)
LEMMA TypeInit ==
  ASSUME Init
  PROVE  TypeOK
<1>1. 0 \in 0..(Cap - 1) /\ 0 \in 0..Cap /\ 0 \in 0..MaxFrames
  BY RxRingAssumption
<1>2. q_buf \in [0..(Cap - 1) -> 0..MaxFrames]
  BY <1>1 DEF Init
<1>3. /\ pc \in [Consumers -> {"idle", "lock", "waiting", "woken", "timedout"}]
      /\ deadline \in [Consumers -> {"none", "armed", "passed"}]
      /\ frame \in [Consumers -> 0..MaxFrames]
  BY <1>1 DEF Init
<1> QED
  BY <1>1, <1>2, <1>3 DEF Init, TypeOK

(* The receive queue's state is always well typed: in particular the head   *)
(* index stays inside the buffer and the length within the capacity.        *)
THEOREM RxRingTypeCorrect == Spec => []TypeOK
<1>1. Init => TypeOK
  BY TypeInit
<1>2. TypeOK /\ [Next]_vars => TypeOK'
  BY TypeStep
<1> QED
  BY <1>1, <1>2, PTL DEF Spec

-------------------------------------------------------------------------------
(* Two different distances from the head are two different slots.           *)
LEMMA SlotsDistinct ==
  ASSUME NEW h \in 0..(Cap - 1), NEW i \in 0..(Cap - 1), NEW j \in 0..(Cap - 1), i # j
  PROVE  (h + i) % Cap # (h + j) % Cap
<1>1. (h + i) % Cap = IF h + i < Cap THEN h + i ELSE (h + i) - Cap
  BY ModOnce, RxRingAssumption
<1>2. (h + j) % Cap = IF h + j < Cap THEN h + j ELSE (h + j) - Cap
  BY ModOnce, RxRingAssumption
<1> QED
  BY <1>1, <1>2, RxRingAssumption

(* Moving the head forward by one is moving every distance by one.          *)
LEMMA SlotShift ==
  ASSUME NEW h \in 0..(Cap - 1), NEW i \in 0..(Cap - 1)
  PROVE  (((h + 1) % Cap) + i) % Cap = (h + (i + 1)) % Cap
<1>1. (h + 1) % Cap = IF h + 1 < Cap THEN h + 1 ELSE (h + 1) - Cap
  BY ModOnce, RxRingAssumption
<1>2. (h + 1) % Cap \in 0..(Cap - 1) /\ i \in 0..Cap /\ i + 1 \in 0..Cap
  BY <1>1, RxRingAssumption
<1>3. (((h + 1) % Cap) + i) % Cap =
         IF ((h + 1) % Cap) + i < Cap THEN ((h + 1) % Cap) + i ELSE (((h + 1) % Cap) + i) - Cap
  BY <1>2, ModOnce
<1>4. (h + (i + 1)) % Cap = IF h + (i + 1) < Cap THEN h + (i + 1) ELSE (h + (i + 1)) - Cap
  BY <1>2, ModOnce
<1> QED
  BY <1>1, <1>3, <1>4, RxRingAssumption

(* A store behind len ordered frames that start at head leaves len + 1.     *)
LEMMA StoreAtOrder ==
  ASSUME TypeOK, NEW head \in 0..(Cap - 1), NEW len \in 0..(Cap - 1), NEW drops \in Nat,
         StoreAt(head, len, drops, TRUE),
         \A i \in 0..(len - 1) : q_buf[(head + i) % Cap] = (pushed - len) + 1 + i
  PROVE  NewestInOrder'
<1> SUFFICES ASSUME NEW i \in 0..len
             PROVE  q_buf'[(head + i) % Cap] = ((pushed + 1) - (len + 1)) + 1 + i
  <2>1. q_head' = head /\ q_len' = len + 1 /\ pushed' = pushed + 1
    BY DEF StoreAt
  <2>2. q_len' - 1 = len
    BY <2>1
  <2> QED
    BY <2>1, <2>2 DEF NewestInOrder, Slot
<1>1. (head + i) % Cap \in 0..(Cap - 1) /\ (head + len) % Cap \in 0..(Cap - 1)
  <2>1. i \in 0..Cap /\ len \in 0..Cap
    BY RxRingAssumption
  <2>2. ASSUME NEW k \in 0..Cap
        PROVE  (head + k) % Cap \in 0..(Cap - 1)
    BY ModOnce, RxRingAssumption
  <2> QED
    BY <2>1, <2>2
<1>2. CASE i = len
  BY <1>1, <1>2, RxRingAssumption DEF StoreAt, TypeOK
<1>3. CASE i # len
  <2>1. (head + i) % Cap # (head + len) % Cap
    BY <1>3, SlotsDistinct, RxRingAssumption
  <2>2. q_buf'[(head + i) % Cap] = q_buf[(head + i) % Cap]
    BY <1>1, <2>1 DEF StoreAt, TypeOK
  <2>3. q_buf[(head + i) % Cap] = (pushed - len) + 1 + i
    BY <1>3, RxRingAssumption
  <2> QED
    BY <2>2, <2>3, RxRingAssumption DEF TypeOK
<1> QED
  BY <1>2, <1>3

(* Every step keeps the newest frames in order. *)
LEMMA OrderStep ==
  ASSUME TypeOK, NewestInOrder, [Next]_vars
  PROVE  NewestInOrder'
<1>1. CASE rxq_push
  <2>1. CASE q_len = Cap
    <3>1. /\ (q_head + 1) % Cap \in 0..(Cap - 1)
          /\ q_len - 1 \in 0..(Cap - 1)
          /\ q_drops + 1 \in Nat
      BY <2>1, ModOnce, RxRingAssumption DEF TypeOK
    <3>2. StoreAt((q_head + 1) % Cap, q_len - 1, q_drops + 1, TRUE)
      BY <1>1, <2>1 DEF rxq_push
    <3>3. ASSUME NEW i \in 0..((q_len - 1) - 1)
          PROVE  q_buf[(((q_head + 1) % Cap) + i) % Cap] = (pushed - (q_len - 1)) + 1 + i
      <4>1. (((q_head + 1) % Cap) + i) % Cap = Slot(i + 1)
        <5>1. q_head \in 0..(Cap - 1) /\ i \in 0..(Cap - 1)
          BY <2>1, RxRingAssumption DEF TypeOK
        <5> QED
          BY <5>1, SlotShift DEF Slot
      <4>2. i + 1 \in 0..(q_len - 1)
        BY DEF TypeOK
      <4>3. q_buf[Slot(i + 1)] = (pushed - q_len) + 1 + (i + 1)
        BY <4>2 DEF NewestInOrder
      <4> QED
        BY <4>1, <4>3 DEF TypeOK
    <3> QED
      BY <3>1, <3>2, <3>3, StoreAtOrder
  <2>2. CASE q_len # Cap
    <3>1. q_head \in 0..(Cap - 1) /\ q_len \in 0..(Cap - 1) /\ q_drops \in Nat
      BY <2>2, RxRingAssumption DEF TypeOK
    <3>2. StoreAt(q_head, q_len, q_drops, TRUE)
      BY <1>1, <2>2 DEF rxq_push
    <3>3. \A i \in 0..(q_len - 1) : q_buf[(q_head + i) % Cap] = (pushed - q_len) + 1 + i
      BY DEF NewestInOrder, Slot
    <3> QED
      BY <3>1, <3>2, <3>3, StoreAtOrder
  <2> QED
    BY <2>1, <2>2
<1>2. ASSUME NEW c \in Consumers, RecvFrame(c)
      PROVE  NewestInOrder'
  <2> SUFFICES ASSUME NEW i \in 0..((q_len - 1) - 1)
               PROVE  q_buf[(((q_head + 1) % Cap) + i) % Cap] = (pushed - (q_len - 1)) + 1 + i
    BY <1>2 DEF NewestInOrder, RecvFrame, TakeFrom, Slot
  <2>1. (((q_head + 1) % Cap) + i) % Cap = Slot(i + 1)
    <3>1. q_head \in 0..(Cap - 1) /\ i \in 0..(Cap - 1)
      BY RxRingAssumption DEF TypeOK
    <3> QED
      BY <3>1, SlotShift DEF Slot
  <2>2. i + 1 \in 0..(q_len - 1)
    BY DEF TypeOK
  <2>3. q_buf[Slot(i + 1)] = (pushed - q_len) + 1 + (i + 1)
    BY <2>2 DEF NewestInOrder
  <2> QED
    BY <2>1, <2>3 DEF TypeOK
<1>3. CASE UNCHANGED <<q_buf, q_head, q_len, q_drops, frame, pushed, delivered, last>>
  BY <1>3 DEF NewestInOrder, Slot
<1> QED
  BY <1>1, <1>2, <1>3, QuietStep

(* Every step keeps the account of the frames balanced. *)
LEMMA ConservationStep ==
  ASSUME TypeOK, Conservation, [Next]_vars
  PROVE  Conservation'
<1>1. CASE rxq_push
  <2>1. CASE q_len = Cap
    BY <1>1, <2>1, RxRingAssumption DEF TypeOK, Conservation, rxq_push, StoreAt
  <2>2. CASE q_len # Cap
    BY <1>1, <2>2, RxRingAssumption DEF TypeOK, Conservation, rxq_push, StoreAt
  <2> QED
    BY <2>1, <2>2
<1>2. ASSUME NEW c \in Consumers, RecvFrame(c)
      PROVE  Conservation'
  BY <1>2, RxRingAssumption DEF TypeOK, Conservation, RecvFrame, TakeFrom
<1>3. CASE UNCHANGED <<q_buf, q_head, q_len, q_drops, frame, pushed, delivered, last>>
  BY <1>3 DEF Conservation
<1> QED
  BY <1>1, <1>2, <1>3, QuietStep

(* What recv() hands out is the oldest frame of NewestInOrder. *)
LEMMA OldestFrame ==
  ASSUME TypeOK, NewestInOrder, q_len > 0
  PROVE  q_buf[q_head] = (pushed - q_len) + 1
<1>1. Slot(0) = q_head
  <2>1. q_head \in 0..(Cap - 1) /\ 0 \in 0..Cap
    BY RxRingAssumption DEF TypeOK
  <2>2. (q_head + 0) % Cap = IF q_head + 0 < Cap THEN q_head + 0 ELSE (q_head + 0) - Cap
    BY <2>1, ModOnce
  <2> QED
    BY <2>1, <2>2, RxRingAssumption DEF Slot
<1>2. 0 \in 0..(q_len - 1)
  BY DEF TypeOK
<1>3. q_buf[Slot(0)] = (pushed - q_len) + 1 + 0
  BY <1>2 DEF NewestInOrder
<1> QED
  BY <1>1, <1>3 DEF TypeOK

(* Every step keeps what has been handed out older than what is queued. *)
LEMMA OlderStep ==
  ASSUME RingInv, [Next]_vars
  PROVE  HandedOutIsOlder'
<1>1. CASE rxq_push
  BY <1>1, RxRingAssumption DEF RingInv, TypeOK, HandedOutIsOlder, rxq_push, StoreAt
<1>2. ASSUME NEW c \in Consumers, RecvFrame(c)
      PROVE  HandedOutIsOlder'
  <2>1. q_buf[q_head] = (pushed - q_len) + 1
    BY <1>2, OldestFrame DEF RingInv, RecvFrame, TakeFrom
  <2> QED
    BY <1>2, <2>1, RxRingAssumption DEF RingInv, TypeOK, HandedOutIsOlder, RecvFrame, TakeFrom
<1>3. CASE UNCHANGED <<q_buf, q_head, q_len, q_drops, frame, pushed, delivered, last>>
  BY <1>3 DEF RingInv, HandedOutIsOlder
<1> QED
  BY <1>1, <1>2, <1>3, QuietStep DEF RingInv

(* The inductive invariant of the ring. *)
LEMMA RingInvariant == Spec => []RingInv
<1>1. Init => RingInv
  <2> SUFFICES ASSUME Init PROVE RingInv
    OBVIOUS
  <2>1. TypeOK
    BY TypeInit
  <2> QED
    BY <2>1 DEF Init, RingInv, NewestInOrder, Conservation, HandedOutIsOlder
<1>2. RingInv /\ [Next]_vars => RingInv'
  BY TypeStep, OrderStep, ConservationStep, OlderStep DEF RingInv
<1> QED
  BY <1>1, <1>2, PTL DEF Spec

(* Whatever the interleaving, the ring holds the newest frames, in order.   *)
THEOREM RingIsNewestInOrder == Spec => []NewestInOrder
<1>1. RingInv => NewestInOrder
  BY DEF RingInv
<1> QED
  BY <1>1, RingInvariant, PTL

(* Every frame pushed is delivered, dropped and counted, or still queued.   *)
THEOREM NothingLostSilently == Spec => []Conservation
<1>1. RingInv => Conservation
  BY DEF RingInv
<1> QED
  BY <1>1, RingInvariant, PTL

(* Delivery is in arrival order and never repeats a frame.                  *)
THEOREM DeliveryInOrder == Spec => DeliveredInOrder
<1>1. RingInv /\ [Next]_vars => [delivered' # delivered => last' > last]_vars
  <2> SUFFICES ASSUME RingInv, [Next]_vars, delivered' # delivered
               PROVE  last' > last
    OBVIOUS
  <2>1. PICK c \in Consumers : RecvFrame(c)
    BY QuietStep DEF RingInv, rxq_push, StoreAt
  <2>2. q_buf[q_head] = (pushed - q_len) + 1
    BY <2>1, OldestFrame DEF RingInv, RecvFrame, TakeFrom
  <2> QED
    BY <2>1, <2>2, RxRingAssumption DEF RingInv, TypeOK, HandedOutIsOlder, RecvFrame, TakeFrom
<1> QED
  BY <1>1, RingInvariant, PTL DEF Spec, DeliveredInOrder

-------------------------------------------------------------------------------
(* The woken consumers can be counted. *)
LEMMA WokenFinite == IsFiniteSet(Woken) /\ Cardinality(Woken) \in Nat
<1>1. Woken \subseteq Consumers
  BY DEF Woken
<1> QED
  BY <1>1, RxRingAssumption, FS_Subset, FS_CardinalityType

(* A step after which the same consumers sleep (or fewer) and the same are  *)
(* woken, and that queues nothing, loses no wakeup.                         *)
LEMMA WakeupKept ==
  ASSUME TypeOK, NoLostWakeup, Waiting' \subseteq Waiting, Woken' = Woken,
         q_len' \in Nat, q_len' <= q_len, wasted' = wasted
  PROVE  NoLostWakeup'
  BY WokenFinite DEF NoLostWakeup, TypeOK

(* A step that wakes a sleeper and queues at most one frame loses none.     *)
LEMMA WakeupAdded ==
  ASSUME TypeOK, NoLostWakeup, NEW c \in Waiting, pc' = [pc EXCEPT ![c] = "woken"],
         q_len' \in Nat, q_len' <= q_len + 1, wasted' = wasted
  PROVE  NoLostWakeup'
<1>1. Woken' = Woken \cup {c} /\ c \notin Woken
  BY DEF TypeOK, Waiting, Woken
<1>2. Cardinality(Woken') = Cardinality(Woken) + 1
  BY <1>1, WokenFinite, FS_AddElement
<1>3. q_len <= Cardinality(Woken) + wasted
  BY DEF NoLostWakeup
<1> QED
  BY <1>2, <1>3, WokenFinite DEF NoLostWakeup, TypeOK

(* Nor does one whose signal a call that times out consumes: it is counted. *)
LEMMA WakeupWasted ==
  ASSUME TypeOK, NoLostWakeup, pc' = pc, q_len' \in Nat, q_len' <= q_len + 1,
         wasted' = wasted + 1
  PROVE  NoLostWakeup'
<1>1. Waiting' = Waiting /\ Woken' = Woken
  BY DEF Waiting, Woken
<1> QED
  BY <1>1, WokenFinite DEF NoLostWakeup, TypeOK

(* Every step leaves enough consumers awake, or signals counted as wasted,  *)
(* for the frames queued.                                                   *)
LEMMA WakeupStep ==
  ASSUME TypeOK, NoLostWakeup, [Next]_vars
  PROVE  NoLostWakeup'
<1> USE DEF ring, history
<1>q. q_len' \in Nat
  BY TypeStep DEF TypeOK
<1>1. CASE rxq_push
  <2>1. q_len' <= q_len + 1 /\ pthread_cond_signal
    BY <1>1, RxRingAssumption DEF rxq_push, StoreAt, TypeOK
  <2>2. CASE Waiting = {} /\ UNCHANGED <<pc, wasted>>
    BY <2>2 DEF NoLostWakeup, Waiting
  <2>3. ASSUME NEW c \in Waiting, pc' = [pc EXCEPT ![c] = "woken"], wasted' = wasted
        PROVE  NoLostWakeup'
    BY <1>q, <2>1, <2>3, WakeupAdded
  <2>4. CASE wasted' = wasted + 1 /\ pc' = pc
    BY <1>q, <2>1, <2>4, WakeupWasted
  <2> QED
    BY <2>1, <2>2, <2>3, <2>4 DEF pthread_cond_signal
<1>2. ASSUME NEW c \in Consumers, RecvFrame(c)
      PROVE  NoLostWakeup'
  <2>1. /\ q_len' = q_len - 1
        /\ q_len > 0
        /\ pc[c] \in {"lock", "woken"}
        /\ pc' = [pc EXCEPT ![c] = "idle"]
        /\ wasted' = IF q_len = 1 THEN 0 ELSE wasted
    BY <1>2 DEF RecvFrame, TakeFrom, AtLoop, Return
  <2>2. Waiting' = Waiting
    BY <2>1 DEF TypeOK, Waiting
  <2>3. CASE q_len = 1
    <3>1. Woken' \subseteq Consumers
      BY DEF Woken
    <3>2. Cardinality(Woken') \in Nat
      BY <3>1, RxRingAssumption, FS_Subset, FS_CardinalityType
    <3> QED
      BY <2>1, <2>3, <3>2 DEF NoLostWakeup
  <2>4. CASE q_len # 1 /\ pc[c] = "lock"
    <3>1. Woken' = Woken
      BY <2>1, <2>4 DEF TypeOK, Woken
    <3> QED
      BY <1>q, <2>1, <2>2, <2>4, <3>1, WakeupKept DEF TypeOK
  <2>5. CASE q_len # 1 /\ pc[c] = "woken"
    <3>1. Woken' = Woken \ {c} /\ c \in Woken
      BY <2>1, <2>5 DEF TypeOK, Woken
    <3>2. Cardinality(Woken') = Cardinality(Woken) - 1
      BY <3>1, WokenFinite, FS_RemoveElement
    <3>3. wasted' = wasted
      BY <2>1, <2>5
    <3> QED
      BY <2>1, <2>2, <3>2, <3>3, WokenFinite DEF NoLostWakeup, TypeOK
  <2> QED
    BY <2>1, <2>3, <2>4, <2>5
<1>3. ASSUME NEW c \in Consumers, RecvEmpty(c) \/ RecvWait(c)
      PROVE  NoLostWakeup'
  <2>1. q_len' = 0 /\ wasted' = wasted
    BY <1>3 DEF RecvEmpty, RecvWait, SleepUntil
  <2>2. Woken' \subseteq Consumers
    BY DEF Woken
  <2>3. Cardinality(Woken') \in Nat
    BY <2>2, RxRingAssumption, FS_Subset, FS_CardinalityType
  <2> QED
    BY <2>1, <2>3 DEF NoLostWakeup, TypeOK
<1>4. ASSUME NEW c \in Consumers,
             WaitTimesOut(c) \/ RecvTimeout(c) \/ \E timed \in BOOLEAN : RecvCall(c, timed)
      PROVE  NoLostWakeup'
  <2>1. Waiting' \subseteq Waiting /\ Woken' = Woken
    BY <1>4 DEF WaitTimesOut, RecvTimeout, RecvCall, Return, TypeOK, Waiting, Woken
  <2>2. q_len' = q_len /\ wasted' = wasted
    BY <1>4 DEF WaitTimesOut, RecvTimeout, RecvCall
  <2> QED
    BY <1>q, <2>1, <2>2, WakeupKept DEF TypeOK
<1>5. ASSUME NEW c \in Consumers, SpuriousWakeup(c)
      PROVE  NoLostWakeup'
  <2>1. /\ c \in Waiting /\ pc' = [pc EXCEPT ![c] = "woken"]
        /\ q_len' = q_len /\ wasted' = wasted
    BY <1>5 DEF SpuriousWakeup, Waiting
  <2>2. q_len' <= q_len + 1
    BY <2>1 DEF TypeOK
  <2> QED
    BY <1>q, <2>1, <2>2, WakeupAdded
<1>6. ASSUME SetStarted \/ (\E c \in Consumers : DeadlinePasses(c)) \/ UNCHANGED vars
      PROVE  NoLostWakeup'
  <2>1. q_len' = q_len /\ pc' = pc /\ wasted' = wasted
    BY <1>6 DEF SetStarted, DeadlinePasses, vars
  <2> QED
    BY <2>1 DEF NoLostWakeup, Waiting, Woken
<1> QED
  BY <1>1, <1>2, <1>3, <1>4, <1>5, <1>6 DEF Next, RecvStep

(* One pthread_cond_signal() per frame suffices for any number of threads   *)
(* in gsusb_channel_recv(), with spurious wakeups and frames taken by a     *)
(* thread that never slept, but for the signals that calls consumed while   *)
(* they were timing out: a thread sleeps beside queued frames only if woken *)
(* threads and such signals together are as many as the frames.             *)
THEOREM OnlyTimeoutsWasteWakeups == Spec => []NoLostWakeup
<1>1. Init => TypeOK /\ NoLostWakeup
  <2> SUFFICES ASSUME Init PROVE NoLostWakeup
    BY TypeInit
  <2>1. Waiting = {}
    BY DEF Init, Waiting
  <2> QED
    BY <2>1 DEF NoLostWakeup
<1>2. TypeOK /\ NoLostWakeup /\ [Next]_vars => (TypeOK /\ NoLostWakeup)'
  BY TypeStep, WakeupStep
<1> QED
  BY <1>1, <1>2, PTL DEF Spec

(* With one consumer, which is how the tools and both Bus classes call      *)
(* gsusb_channel_recv(), no signal can be wasted: its sleep is never beside *)
(* a queued frame, as gsusb.h has it.                                       *)
THEOREM SoleConsumerIsWoken ==
  ASSUME NEW d, Consumers = {d}
  PROVE  Spec => []SleepersAreWoken
<1> DEFINE Alone == TypeOK /\ (pc[d] = "waiting" => q_len = 0)
<1>1. Init => Alone
  BY TypeInit DEF Init
<1>2. Alone /\ [Next]_vars => Alone'
  <2> SUFFICES ASSUME Alone, [Next]_vars, pc'[d] = "waiting"
               PROVE  q_len' = 0
    BY TypeStep
  <2> USE DEF ring, history
  <2>1. CASE rxq_push
    <3>1. pthread_cond_signal
      BY <2>1 DEF rxq_push, StoreAt
    <3>2. CASE pc[d] = "waiting"
      <4>1. Waiting = {d} /\ TimedOut = {}
        BY <3>2 DEF Waiting, TimedOut
      <4> QED
        BY <3>1, <4>1 DEF pthread_cond_signal, TypeOK
    <3>3. CASE pc[d] # "waiting"
      <4>1. Waiting = {}
        BY <3>3 DEF Waiting
      <4> QED
        BY <3>1, <3>3, <4>1 DEF pthread_cond_signal
    <3> QED
      BY <3>2, <3>3
  <2>2. ASSUME NEW c \in Consumers, RecvFrame(c)
        PROVE  q_len' = 0
    BY <2>2 DEF RecvFrame, TakeFrom, Return, TypeOK
  <2>3. ASSUME NEW c \in Consumers, RecvEmpty(c) \/ RecvWait(c)
        PROVE  q_len' = 0
    BY <2>3 DEF RecvEmpty, RecvWait, SleepUntil
  <2>4. ASSUME NEW c \in Consumers,
               \/ WaitTimesOut(c) \/ RecvTimeout(c) \/ SpuriousWakeup(c) \/ DeadlinePasses(c)
               \/ \E timed \in BOOLEAN : RecvCall(c, timed)
        PROVE  q_len' = 0
    <3>1. q_len' = q_len /\ pc'[d] \in {pc[d], "timedout", "idle", "woken", "lock"}
      BY <2>4 DEF WaitTimesOut, RecvTimeout, SpuriousWakeup, DeadlinePasses, RecvCall, Return,
                  TypeOK
    <3> QED
      BY <3>1
  <2>5. CASE SetStarted \/ UNCHANGED vars
    BY <2>5 DEF SetStarted, vars
  <2> QED
    BY <2>1, <2>2, <2>3, <2>4, <2>5 DEF Next, RecvStep
<1>3. Alone => SleepersAreWoken
  BY DEF SleepersAreWoken, Waiting
<1> QED
  BY <1>1, <1>2, <1>3, PTL DEF Spec

-------------------------------------------------------------------------------
(* The queue the ring stands for, as RxRing maps it to RxQueue.             *)
Fifo == [i \in 1..q_len |-> q_buf[Slot(i - 1)]]

(* By NewestInOrder it is a run of consecutive arrival numbers.             *)
FifoRun == Fifo = [i \in 1..q_len |-> (pushed - q_len) + i]

LEMMA FifoIsRun == TypeOK /\ NewestInOrder => FifoRun
<1> SUFFICES ASSUME TypeOK, NewestInOrder, NEW i \in 1..q_len
             PROVE  q_buf[Slot(i - 1)] = (pushed - q_len) + i
  BY DEF Fifo, FifoRun
<1>1. i - 1 \in 0..(q_len - 1)
  BY DEF TypeOK
<1>2. q_buf[Slot(i - 1)] = (pushed - q_len) + 1 + (i - 1)
  BY <1>1 DEF NewestInOrder
<1> QED
  BY <1>2 DEF TypeOK

(* Removing the front of a run, and appending the next number to it.        *)
LEMMA RunTail ==
  ASSUME NEW n \in Nat \ {0}, NEW p \in Int,
         NEW s, s = [i \in 1..n |-> (p - n) + i]
  PROVE  /\ s \in Seq(Int)
         /\ Len(s) = n
         /\ Head(s) = (p - n) + 1
         /\ Tail(s) = [i \in 1..(n - 1) |-> (p - (n - 1)) + i]
<1>1. s \in Seq(Int) /\ Len(s) = n
  OBVIOUS
<1>2. Head(s) = (p - n) + 1
  BY <1>1
<1>3. Tail(s) = [i \in 1..(n - 1) |-> s[i + 1]]
  BY <1>1
<1> QED
  BY <1>1, <1>2, <1>3

LEMMA RunAppend ==
  ASSUME NEW n \in Nat, NEW p \in Int,
         NEW s, s = [i \in 1..n |-> (p - n) + i]
  PROVE  /\ Len(s) = n
         /\ Append(s, p + 1) = [i \in 1..(n + 1) |-> ((p + 1) - (n + 1)) + i]
<1>1. s \in Seq(Int) /\ Len(s) = n
  OBVIOUS
<1>2. Append(s, p + 1) = [i \in 1..(n + 1) |-> IF i = n + 1 THEN p + 1 ELSE s[i]]
  BY <1>1
<1> QED
  BY <1>1, <1>2

(* The ring buffer implements the bounded drop-oldest queue.                *)
THEOREM RingImplementsQueue == Spec => ImplementsQueue
<1>1. Init => Queue!QInit
  <2> SUFFICES ASSUME Init PROVE Queue!QInit
    OBVIOUS
  <2>1. Fifo = <<>>
    BY DEF Init, Fifo
  <2> QED
    BY <2>1 DEF Init, Queue!QInit, Fifo
<1>2. RingInv /\ RingInv' /\ [Next]_vars => [Queue!QNext]_(Queue!qvars)
  <2> SUFFICES ASSUME RingInv, RingInv', [Next]_vars
               PROVE  Queue!QNext \/ UNCHANGED Queue!qvars
    OBVIOUS
  <2>r. /\ Fifo = [i \in 1..q_len |-> (pushed - q_len) + i]
        /\ Fifo' = [i \in 1..q_len' |-> (pushed' - q_len') + i]
    <3>1. (TypeOK /\ NewestInOrder)' => FifoRun'
      BY FifoIsRun, PTL
    <3> QED
      BY <3>1, FifoIsRun DEF RingInv, FifoRun
  <2>t. q_len \in Nat /\ pushed \in Int
    BY DEF RingInv, TypeOK
  <2>1. CASE rxq_push
    <3>1. CASE q_len = Cap
      <4>1. pushed' = pushed + 1 /\ q_len' = q_len /\ q_drops' = q_drops + 1
        BY <2>1, <3>1, RxRingAssumption DEF rxq_push, StoreAt, RingInv, TypeOK
      <4>2. q_len \in Nat \ {0} /\ q_len - 1 \in Nat /\ (q_len - 1) + 1 = q_len
        BY <3>1, RxRingAssumption
      <4>3. Len(Fifo) = Cap /\ Tail(Fifo) = [i \in 1..(q_len - 1) |-> (pushed - (q_len - 1)) + i]
        BY <2>r, <2>t, <3>1, <4>2, RunTail
      <4>4. Append(Tail(Fifo), pushed + 1) =
              [i \in 1..((q_len - 1) + 1) |-> ((pushed + 1) - ((q_len - 1) + 1)) + i]
        BY <2>t, <4>2, <4>3, RunAppend
      <4>5. Fifo' = Append(Tail(Fifo), pushed + 1)
        BY <2>r, <2>t, <4>1, <4>2, <4>4
      <4>6. Queue!Arrive
        BY <2>1, <3>1, <4>1, <4>3, <4>5
           DEF rxq_push, StoreAt, Queue!Arrive, Queue!Enqueue, Queue!MakeRoom, Fifo
      <4> QED
        BY <4>6 DEF Queue!QNext
    <3>2. CASE q_len # Cap
      <4>1. pushed' = pushed + 1 /\ q_len' = q_len + 1 /\ q_drops' = q_drops
        BY <2>1, <3>2 DEF rxq_push, StoreAt
      <4>2. Len(Fifo) = q_len /\ Append(Fifo, pushed + 1) =
              [i \in 1..(q_len + 1) |-> ((pushed + 1) - (q_len + 1)) + i]
        BY <2>r, <2>t, RunAppend
      <4>3. Fifo' = Append(Fifo, pushed + 1)
        BY <2>r, <4>1, <4>2
      <4>4. Queue!Arrive
        BY <2>1, <3>2, <4>1, <4>2, <4>3
           DEF rxq_push, StoreAt, Queue!Arrive, Queue!Enqueue, Queue!MakeRoom, Fifo
      <4> QED
        BY <4>4 DEF Queue!QNext
    <3> QED
      BY <3>1, <3>2
  <2>2. ASSUME NEW c \in Consumers, RecvFrame(c)
        PROVE  Queue!QNext
    <3>1. /\ q_len > 0 /\ q_len' = q_len - 1 /\ pushed' = pushed /\ q_drops' = q_drops
          /\ frame' = [frame EXCEPT ![c] = q_buf[q_head]]
      BY <2>2 DEF RecvFrame, TakeFrom
    <3>2. q_len \in Nat \ {0}
      BY <2>t, <3>1
    <3>3. /\ Head(Fifo) = (pushed - q_len) + 1
          /\ Tail(Fifo) = [i \in 1..(q_len - 1) |-> (pushed - (q_len - 1)) + i]
          /\ Len(Fifo) = q_len
      BY <2>r, <2>t, <3>2, RunTail
    <3>4. Fifo # <<>>
      BY <3>2, <3>3
    <3>5. q_buf[q_head] = (pushed - q_len) + 1
      BY <3>1, OldestFrame DEF RingInv
    <3>6. Fifo' = Tail(Fifo)
      BY <2>r, <3>1, <3>3
    <3>7. Queue!Take(c)
      BY <3>1, <3>3, <3>4, <3>5, <3>6 DEF Queue!Take, Fifo
    <3> QED
      BY <3>7 DEF Queue!QNext
  <2>3. CASE UNCHANGED <<q_buf, q_head, q_len, q_drops, frame, pushed, delivered, last>>
    BY <2>3 DEF Queue!qvars, Slot
  <2> QED
    BY <2>1, <2>2, <2>3, QuietStep DEF RingInv
<1> QED
  BY <1>1, <1>2, RingInvariant, PTL DEF Spec, ImplementsQueue, Queue!QSpec

===============================================================================
