---------------------------- MODULE PythonBusProofs ----------------------------
(***************************************************************************)
(* Theorems about PythonBus, for any number of thread identities,          *)
(* detectors and frames and any capacity of the queues, on a bus whose     *)
(* detectors are Prompt.  With a slow one stop() gives up waiting and none *)
(* of them holds.                                                          *)
(***************************************************************************)
EXTENDS PythonBus, SequenceTheorems, FiniteSetTheorems, TLAPS

(* Increasing numbers. *)
Rising(s) == \A i, j \in DOMAIN s : i < j => s[i] < s[j]

Steps == {"ended", "test", "recv", "put", "full", "put_again", "copy", "dispatch"}

TypeOK ==
  /\ opened \in BOOLEAN /\ started \in BOOLEAN /\ stop_event \in BOOLEAN
  /\ closing \in BOOLEAN /\ exited \in BOOLEAN
  /\ listener_thread \in Listeners \cup {NoOne, NotRunning}
  /\ apc \in {"idle", "start", "join", "stop_channel", "close"}
  /\ detectors \in Seq(Detectors)
  /\ recv_queue \in Seq(Nat) /\ rxq \in Seq(Nat)
  /\ lpc \in [Listeners -> Steps]
  /\ frame \in [Listeners -> Nat]
  /\ todo \in [Listeners -> Seq(Detectors)]
  /\ ch_started \in BOOLEAN
  /\ arrived \in Nat /\ read \in Nat /\ taken \in Nat /\ newest \in Nat /\ full_at \in Nat
  /\ dropped \in Nat
  /\ seen \in [Detectors -> Nat]
  /\ since \in [Detectors -> Nat]

(* What start(), stop() and close() rely on at each of their steps, and     *)
(* leave behind.                                                            *)
CallInv ==
  /\ Live \subseteq {listener_thread}
  /\ ~started => Live = {}
  /\ started => opened
  /\ apc # "idle" => opened
  /\ ch_started <=> started \/ apc = "start"
  /\ apc \in {"start", "close"} => ~started
  /\ apc \in {"join", "stop_channel"} => started
  /\ apc = "join" => stop_event
  /\ apc = "stop_channel" => Live = {}
  /\ started /\ apc # "stop_channel" =>
       \/ listener_thread \in Live \/ listener_thread = NotRunning
       \/ listener_thread \in Listeners /\ (stop_event \/ exited)

(* The frames read and put. *)
QueueInv ==
  /\ Len(recv_queue) <= Cap
  /\ read = taken + Len(recv_queue) + dropped + (IF InHand = {} THEN 0 ELSE 1)
  /\ \A l \in Listeners :
       /\ lpc[l] = "full" => Len(recv_queue) + (taken - full_at) = Cap
       /\ lpc[l] = "put_again" => Len(recv_queue) < Cap
       /\ lpc[l] \in {"copy", "dispatch"} /\ recv_queue # <<>> =>
            recv_queue[Len(recv_queue)] = frame[l]

(* A frame with number x comes after all that recv() returned or will       *)
(* return, and after all that detectors were called with.                   *)
After(x) ==
  /\ newest < x
  /\ \A d \in Detectors : seen[d] < x
  /\ \A i \in DOMAIN recv_queue : recv_queue[i] < x

(* Frames go through the listener in the order they arrived. *)
OrderInv ==
  /\ Rising(rxq) /\ Rising(recv_queue)
  /\ \A i \in DOMAIN recv_queue : newest < recv_queue[i]
  /\ \A i \in DOMAIN rxq : /\ rxq[i] <= arrived
                           /\ After(rxq[i])
                           /\ \A l \in Listeners : frame[l] < rxq[i]
  /\ After(arrived + 1)
  /\ \A l \in Listeners : frame[l] <= arrived
  /\ \A l \in InHand : After(frame[l])

(* Which detectors have been called with the frame. *)
DispatchInv ==
  /\ \A d \in Detectors : since[d] <= arrived
  /\ \A i, j \in DOMAIN detectors : detectors[i] = detectors[j] => i = j
  /\ \A l \in Listeners :
       /\ lpc[l] = "copy" => \A d \in Detectors : seen[d] < frame[l]
       /\ lpc[l] = "dispatch" =>
            /\ \A i, j \in DOMAIN todo[l] : todo[l][i] = todo[l][j] => i = j
            /\ \A i \in DOMAIN todo[l] : seen[todo[l][i]] < frame[l]
            /\ \A i \in DOMAIN detectors :
                 \/ since[detectors[i]] >= frame[l]
                 \/ seen[detectors[i]] = frame[l]
                 \/ \E j \in DOMAIN todo[l] : todo[l][j] = detectors[i]

Inv == TypeOK /\ CallInv /\ QueueInv /\ OrderInv /\ DispatchInv

-------------------------------------------------------------------------------
(* Sequences. *)

(* What is left when the element at i is taken out. *)
LEMMA RemovedAt ==
  ASSUME NEW S, NEW s \in Seq(S), NEW i \in 1..Len(s)
  PROVE  /\ RemoveAt(s, i) \in Seq(S)
         /\ Len(RemoveAt(s, i)) = Len(s) - 1
         /\ \A j \in 1..(Len(s) - 1) :
              RemoveAt(s, i)[j] = IF j < i THEN s[j] ELSE s[j + 1]
<1> DEFINE u == SubSeq(s, 1, i - 1)
           v == SubSeq(s, i + 1, Len(s))
<1>1. Len(s) \in Nat /\ i \in 1..Len(s)
  OBVIOUS
<1>2. u \in Seq(S) /\ Len(u) = i - 1 /\ \A j \in 1..(i - 1) : u[j] = s[j]
  BY <1>1, SubSeqProperties
<1>3. v \in Seq(S) /\ Len(v) = Len(s) - i /\ \A j \in 1..(Len(s) - i) : v[j] = s[j + i]
  BY <1>1, SubSeqProperties
<1>4. RemoveAt(s, i) = u \o v
  BY DEF RemoveAt
<1> HIDE DEF u, v
<1>5. /\ u \o v \in Seq(S) /\ Len(u \o v) = Len(u) + Len(v)
      /\ \A j \in 1..(Len(u) + Len(v)) : (u \o v)[j] = IF j <= Len(u) THEN u[j] ELSE v[j - Len(u)]
  BY <1>2, <1>3, ConcatProperties
<1> QED
  BY <1>1, <1>2, <1>3, <1>4, <1>5

(* A queue after a frame arrived: the last of it is the frame, the others   *)
(* are the queue's, all of them or all but the oldest.                      *)
LEMMA Enqueued ==
  ASSUME NEW q \in Seq(Nat), NEW f \in Nat
  PROVE  /\ Enqueue(q, f) \in Seq(Nat)
         /\ Enqueue(q, f)[Len(Enqueue(q, f))] = f
         /\ \E d \in {0, 1} :
              /\ Len(Enqueue(q, f)) = Len(q) + 1 - d
              /\ \A i \in 1..(Len(q) - d) : Enqueue(q, f)[i] = q[i + d]
<1>1. ASSUME NEW s \in Seq(Nat)
      PROVE  /\ Append(s, f) \in Seq(Nat)
             /\ Len(Append(s, f)) = Len(s) + 1
             /\ Append(s, f)[Len(s) + 1] = f
             /\ \A i \in 1..Len(s) : Append(s, f)[i] = s[i]
  OBVIOUS
<1>2. CASE Len(q) = Cap
  <2>1. q # <<>>
    BY <1>2, PythonBusAssumption
  <2>2. /\ Tail(q) \in Seq(Nat) /\ Len(Tail(q)) = Len(q) - 1 /\ Len(q) \in Nat
        /\ \A i \in 1..(Len(q) - 1) : Tail(q)[i] = q[i + 1]
    BY <2>1
  <2>3. Enqueue(q, f) = Append(Tail(q), f)
    BY <1>2 DEF Enqueue, MakeRoom
  <2> QED
    BY <1>1, <2>2, <2>3
<1>3. CASE Len(q) # Cap
  <2>1. Enqueue(q, f) = Append(q, f)
    BY <1>3 DEF Enqueue, MakeRoom
  <2> QED
    BY <1>1, <2>1
<1> QED
  BY <1>2, <1>3

(* It rises if the queue did and the frame is the newest. *)
LEMMA EnqueuedRises ==
  ASSUME NEW q \in Seq(Nat), NEW f \in Nat, Rising(q), \A i \in DOMAIN q : q[i] < f
  PROVE  /\ Enqueue(q, f) \in Seq(Nat)
         /\ Rising(Enqueue(q, f))
         /\ \A i \in DOMAIN Enqueue(q, f) :
              Enqueue(q, f)[i] = f \/ \E j \in DOMAIN q : Enqueue(q, f)[i] = q[j]
<1> DEFINE E == Enqueue(q, f)
           n == Len(q)
<1>1. E \in Seq(Nat) /\ E[Len(E)] = f
  BY Enqueued
<1>2. PICK d \in {0, 1} : Len(E) = n + 1 - d /\ \A i \in 1..(n - d) : E[i] = q[i + d]
  BY Enqueued
<1>3. n \in Nat /\ DOMAIN q = 1..n
  OBVIOUS
<1> HIDE DEF E, n
<1>4. DOMAIN E = 1..(n + 1 - d)
  BY <1>1, <1>2
<1>5. ASSUME NEW i \in DOMAIN E
      PROVE  (i + d \in DOMAIN q /\ E[i] = q[i + d]) \/ (i = n + 1 - d /\ E[i] = f)
  <2>1. CASE i = n + 1 - d
    BY <1>1, <1>2, <2>1
  <2>2. CASE i # n + 1 - d
    <3>1. i \in 1..(n - d) /\ i + d \in 1..n
      BY <1>3, <1>4, <2>2
    <3> QED
      BY <1>2, <1>3, <3>1
  <2> QED
    BY <2>1, <2>2
<1>6. ASSUME NEW i \in DOMAIN E, NEW j \in DOMAIN E, i < j
      PROVE  E[i] < E[j]
  <2>1. i + d \in DOMAIN q /\ E[i] = q[i + d] /\ i + d < j + d
    BY <1>3, <1>4, <1>5, <1>6
  <2>2. CASE j + d \in DOMAIN q /\ E[j] = q[j + d]
    BY <2>1, <2>2 DEF Rising
  <2>3. CASE E[j] = f
    BY <2>1, <2>3
  <2> QED
    BY <1>5, <2>2, <2>3
<1> QED
  BY <1>1, <1>5, <1>6 DEF Rising, E

-------------------------------------------------------------------------------
(* Every step preserves the types. *)
LEMMA TypeStep ==
  ASSUME TypeOK, QueueInv, [Next]_vars
  PROVE  TypeOK'
<1> USE DEF TypeOK, lifecycle, listening, reading, adding, channel, Goto, Steps
<1>1. CASE Open \/ Start \/ Stop(FALSE) \/ Stop(TRUE)
  BY <1>1 DEF Open, Start, Stop
<1>2. CASE AppGoesOn
  <2>1. <<>> \in Seq(Nat)
    OBVIOUS
  <2>2. CASE StartListener
    <3>1. CASE listener_thread' = NotRunning /\ UNCHANGED <<lpc, frame>>
      BY <2>2, <3>1 DEF StartListener
    <3>2. ASSUME NEW l \in Listeners \ Live, listener_thread' = l,
                 lpc' = [lpc EXCEPT ![l] = "test"], frame' = [frame EXCEPT ![l] = 0]
          PROVE  TypeOK'
      <4>1. l \in Listeners
        BY DEF Live
      <4> QED
        BY <2>2, <3>2, <4>1 DEF StartListener
    <3> QED
      BY <2>2, <3>1, <3>2 DEF StartListener
  <2>3. CASE JoinRaises \/ Join
    BY <2>3 DEF JoinRaises, Join, JoinReturnsIf
  <2>4. CASE StopChannel \/ CloseDevice
    BY <2>1, <2>4 DEF StopChannel, CloseDevice
  <2> QED
    BY <1>2, <2>2, <2>3, <2>4 DEF AppGoesOn
<1>3. ASSUME NEW l \in Listeners, TestStop(l) \/ ReadNothing(l) \/ Dispatched(l) \/ DetectorStops(l)
      PROVE  TypeOK'
  <2>1. CASE TestStop(l) \/ ReadNothing(l)
    BY <2>1 DEF TestStop, ReadNothing
  <2>2. CASE Dispatched(l) \/ DetectorStops(l)
    BY <2>2 DEF Dispatched, DetectorStops
  <2> QED
    BY <1>3, <2>1, <2>2
<1>4. ASSUME NEW l \in Listeners, ReadFrame(l)
      PROVE  TypeOK'
  <2>1. Head(rxq) \in Nat /\ Tail(rxq) \in Seq(Nat)
    BY <1>4 DEF ReadFrame
  <2> QED
    BY <1>4, <2>1 DEF ReadFrame
<1>5. ASSUME NEW l \in Listeners, Put(l) \/ PutAgain(l)
      PROVE  TypeOK'
  <2>1. Append(recv_queue, frame[l]) \in Seq(Nat)
    OBVIOUS
  <2>2. recv_queue' \in Seq(Nat)
    BY <1>5, <2>1 DEF Put, PutAgain, PutNowait
  <2>3. lpc' \in [Listeners -> Steps]
    BY <1>5 DEF Put, PutAgain, PutNowait
  <2> QED
    BY <1>5, <2>2, <2>3 DEF Put, PutAgain, PutNowait
<1>6. ASSUME NEW l \in Listeners, MakeRoomInQueue(l)
      PROVE  TypeOK'
  <2> DEFINE q == IF recv_queue = <<>> THEN <<>> ELSE Tail(recv_queue)
  <2>1. q \in Seq(Nat) /\ Len(recv_queue) - Len(q) \in Nat
    OBVIOUS
  <2>2. GiveUp(l, q)
    BY <1>6 DEF MakeRoomInQueue
  <2> HIDE DEF q
  <2>3. dropped' \in Nat
    BY <2>1, <2>2 DEF GiveUp
  <2> QED
    BY <2>1, <2>2, <2>3 DEF GiveUp
<1>7. ASSUME NEW l \in Listeners, CopyDetectors(l)
      PROVE  TypeOK'
  BY <1>7 DEF CopyDetectors
<1>8. ASSUME NEW l \in Listeners, CallDetector(l)
      PROVE  TypeOK'
  <2>1. Tail(todo[l]) \in Seq(Detectors) /\ Head(todo[l]) \in Detectors
    BY <1>8 DEF CallDetector, CallNext
  <2> QED
    BY <1>8, <2>1 DEF CallDetector, CallNext
<1>14. ASSUME NEW l \in Listeners, DetectorExits(l)
       PROVE  TypeOK'
  <2>1. Head(todo[l]) \in Detectors /\ <<>> \in Seq(Detectors)
    BY <1>14 DEF DetectorExits
  <2>2. exited' \in BOOLEAN
    BY <1>14 DEF DetectorExits
  <2> QED
    BY <1>14, <2>1, <2>2 DEF DetectorExits
<1>9. CASE Recv
  <2>1. 1 \in 1..Len(recv_queue)
    BY <1>9 DEF Recv, RecvTakes
  <2>2. RemoveAt(recv_queue, 1) \in Seq(Nat) /\ recv_queue[1] \in Nat
    BY <2>1, RemovedAt
  <2> QED
    BY <1>9, <2>2 DEF Recv, RecvTakes
<1>10. ASSUME NEW d \in Detectors, add_detector(d)
       PROVE  TypeOK'
  BY <1>10 DEF add_detector
<1>11. ASSUME NEW d \in Detectors, remove_detector(d)
       PROVE  TypeOK'
  <2>1. PICK i \in 1..Len(detectors) : detectors' = RemoveAt(detectors, i)
    BY <1>11 DEF remove_detector
  <2>2. detectors' \in Seq(Detectors)
    BY <2>1, RemovedAt
  <2> QED
    BY <1>11, <2>2 DEF remove_detector
<1>12. CASE FrameArrives
  <2>1. arrived + 1 \in Nat
    OBVIOUS
  <2>2. Enqueue(rxq, arrived + 1) \in Seq(Nat)
    BY <2>1, Enqueued
  <2> QED
    BY <1>12, <2>2 DEF FrameArrives
<1>13. CASE UNCHANGED vars
  BY <1>13 DEF vars
<1> QED
  BY <1>1, <1>2, <1>3, <1>4, <1>5, <1>6, <1>7, <1>8, <1>9, <1>10, <1>11, <1>12, <1>13, <1>14
     DEF Next, LoopGoesOn
-------------------------------------------------------------------------------
(* Every step preserves what the calls of the application rely on.  A       *)
(* listener ends only after stop_event was set; join() returns only when    *)
(* it has ended, for its detectors are Prompt.                              *)
LEMMA CallStep ==
  ASSUME TypeOK, CallInv, Prompt, [Next]_vars
  PROVE  CallInv'
<1> USE DEF TypeOK, CallInv, lifecycle, listening, reading, adding, channel, Goto, Steps
<1>1. CASE Open \/ Start \/ Stop(FALSE) \/ Stop(TRUE)
  <2>1. UNCHANGED lpc /\ Live' = Live
    BY <1>1 DEF Open, Start, Stop, Live
  <2> QED
    BY <1>1, <2>1 DEF Open, Start, Stop
<1>2. CASE StartListener
  <2>1. CASE listener_thread' = NotRunning /\ UNCHANGED <<lpc, frame>>
    <3>1. Live' = {}
      BY <1>2, <2>1 DEF StartListener, Live
    <3> QED
      BY <1>2, <2>1, <3>1 DEF StartListener
  <2>2. ASSUME NEW l \in Listeners \ Live, listener_thread' = l,
               lpc' = [lpc EXCEPT ![l] = "test"]
        PROVE  CallInv'
    <3>1. l \in Listeners
      BY DEF Live
    <3>2. Live' = {l}
      BY <1>2, <2>2, <3>1 DEF StartListener, Live
    <3> QED
      BY <1>2, <2>2, <3>1, <3>2 DEF StartListener
  <2> QED
    BY <1>2, <2>1, <2>2 DEF StartListener
<1>3. CASE JoinRaises
  <2>1. Live' = Live
    BY <1>3 DEF JoinRaises, Live
  <2> QED
    BY <1>3, <2>1 DEF JoinRaises
<1>4. CASE Join
  <2>1. Live' = Live /\ Live = {}
    BY <1>4 DEF Join, JoinReturnsIf, Ended, TimedOut, Live
  <2> QED
    BY <1>4, <2>1 DEF Join, JoinReturnsIf
<1>5. CASE StopChannel \/ CloseDevice
  <2>1. Live' = Live
    BY <1>5 DEF StopChannel, CloseDevice, Live
  <2> QED
    BY <1>5, <2>1 DEF StopChannel, CloseDevice
<1>6. ASSUME NEW l \in Listeners,
             LoopGoesOn(l) \/ CallDetector(l) \/ DetectorExits(l) \/ DetectorStops(l)
      PROVE  CallInv'
  <2>1. l \in Live
    BY <1>6 DEF LoopGoesOn, CallDetector, DetectorExits, DetectorStops, TestStop, ReadFrame,
                ReadNothing, Put, MakeRoomInQueue, PutAgain, PutNowait, GiveUp, CopyDetectors,
                CallNext, Dispatched, Live
  <2>2. /\ UNCHANGED <<opened, started, listener_thread, apc, ch_started>>
        /\ stop_event => stop_event'
        /\ exited => exited'
    BY <1>6 DEF LoopGoesOn, CallDetector, DetectorExits, DetectorStops, TestStop, ReadFrame,
                ReadNothing, Put, MakeRoomInQueue, PutAgain, PutNowait, GiveUp, CopyDetectors,
                CallNext, Dispatched
  <2>3. started /\ ch_started /\ listener_thread = l
    BY <2>1
  <2>4. /\ lpc' = [lpc EXCEPT ![l] = lpc'[l]]
        /\ lpc'[l] # "ended" \/ stop_event \/ exited'
    BY <1>6, <2>1, <2>3
       DEF LoopGoesOn, CallDetector, DetectorExits, DetectorStops, TestStop, ReadFrame,
           ReadNothing, Put, MakeRoomInQueue, PutAgain, PutNowait, GiveUp, CopyDetectors,
                CallNext, Dispatched
  <2>5. Live' \subseteq Live /\ (l \in Live' \/ stop_event \/ exited')
    BY <2>1, <2>4 DEF Live
  <2> QED
    BY <2>1, <2>2, <2>3, <2>5
<1>7. CASE Recv \/ (\E d \in Detectors : add_detector(d) \/ remove_detector(d)) \/ FrameArrives
  <2>1. UNCHANGED <<lifecycle, lpc, exited, ch_started>>
    BY <1>7 DEF Recv, RecvTakes, add_detector, remove_detector, FrameArrives
  <2>2. Live' = Live
    BY <2>1 DEF Live
  <2> QED
    BY <2>1, <2>2
<1>8. CASE UNCHANGED vars
  <2>1. Live' = Live
    BY <1>8 DEF vars, Live
  <2> QED
    BY <1>8, <2>1 DEF vars
<1> QED
  BY <1>1, <1>2, <1>3, <1>4, <1>5, <1>6, <1>7, <1>8 DEF Next, AppGoesOn
-------------------------------------------------------------------------------
(* Every step preserves the account of the frames read.                     *)

(* While a listener lives it is alone. *)
LEMMA Alone ==
  ASSUME CallInv, NEW l \in Listeners, lpc[l] # "ended"
  PROVE  \A k \in Listeners \ {l} : lpc[k] = "ended"
BY DEF CallInv, Live

(* A queue after its oldest was taken. *)
LEMMA RemovedFirst ==
  ASSUME NEW s \in Seq(Nat), s # <<>>
  PROVE  /\ RemoveAt(s, 1) \in Seq(Nat)
         /\ Len(RemoveAt(s, 1)) = Len(s) - 1
         /\ \A j \in 1..(Len(s) - 1) : RemoveAt(s, 1)[j] = s[j + 1]
<1>1. 1 \in 1..Len(s)
  OBVIOUS
<1>2. \A j \in 1..(Len(s) - 1) : ~(j < 1)
  OBVIOUS
<1>3. /\ RemoveAt(s, 1) \in Seq(Nat) /\ Len(RemoveAt(s, 1)) = Len(s) - 1
      /\ \A j \in 1..(Len(s) - 1) : RemoveAt(s, 1)[j] = IF j < 1 THEN s[j] ELSE s[j + 1]
  BY <1>1, RemovedAt, Zenon
<1> QED
  BY <1>2, <1>3

LEMMA QueueStep ==
  ASSUME TypeOK, CallInv, QueueInv, [Next]_vars
  PROVE  QueueInv'
<1> USE DEF lifecycle, listening, reading, adding, channel, Goto
<1>0. Cap \in Nat \ {0} /\ Len(recv_queue) \in Nat /\ recv_queue \in Seq(Nat)
  BY PythonBusAssumption DEF TypeOK
<1>1. CASE UNCHANGED <<recv_queue, lpc, frame, read, taken, full_at, dropped>>
  BY <1>1 DEF QueueInv, InHand
<1>2. ASSUME NEW l \in Listeners, lpc' = [lpc EXCEPT ![l] = lpc'[l]],
             lpc[l] \notin {"put", "full", "put_again"},
             lpc'[l] \in {"ended", "test", "recv", "dispatch"},
             lpc'[l] = "dispatch" => lpc[l] = "copy",
             UNCHANGED <<recv_queue, read, taken, full_at, dropped>>,
             \A k \in Listeners : lpc'[k] \in {"copy", "dispatch"} => frame'[k] = frame[k]
      PROVE  QueueInv'
  <2>1. InHand' = InHand
    BY <1>2 DEF InHand, TypeOK
  <2>2. \A k \in Listeners : k # l => lpc'[k] = lpc[k]
    BY <1>2 DEF TypeOK
  <2> QED
    BY <1>2, <2>1, <2>2 DEF QueueInv
<1>3. CASE StartListener
  <2>1. CASE UNCHANGED <<lpc, frame>>
    BY <1>1, <1>3, <2>1 DEF StartListener
  <2>2. ASSUME NEW l \in Listeners \ Live, lpc' = [lpc EXCEPT ![l] = "test"],
               frame' = [frame EXCEPT ![l] = 0]
        PROVE  QueueInv'
    <3>1. l \in Listeners /\ lpc[l] = "ended" /\ lpc'[l] = "test"
      BY <2>2 DEF Live, TypeOK
    <3>2. \A k \in Listeners : lpc'[k] \in {"copy", "dispatch"} => frame'[k] = frame[k]
      BY <2>2, <3>1 DEF TypeOK
    <3> QED
      BY <1>2, <1>3, <2>2, <3>1, <3>2 DEF StartListener
  <2> QED
    BY <1>3, <2>1, <2>2 DEF StartListener
<1>4. ASSUME NEW l \in Listeners,
             TestStop(l) \/ ReadNothing(l) \/ Dispatched(l) \/ CopyDetectors(l) \/ DetectorExits(l)
      PROVE  QueueInv'
  <2>1. /\ lpc[l] \in {"test", "recv", "dispatch", "copy"}
        /\ lpc' = [lpc EXCEPT ![l] = lpc'[l]]
        /\ lpc'[l] \in {"ended", "test", "recv", "dispatch"}
        /\ lpc'[l] = "dispatch" => lpc[l] = "copy"
        /\ UNCHANGED <<recv_queue, read, taken, full_at, dropped, frame>>
    BY <1>4 DEF TestStop, ReadNothing, Dispatched, CopyDetectors, DetectorExits, TypeOK
  <2> QED
    BY <1>2, <2>1
<1>5. ASSUME NEW l \in Listeners, ReadFrame(l)
      PROVE  QueueInv'
  <2>1. \A k \in Listeners \ {l} : lpc[k] = "ended"
    BY <1>5, Alone DEF ReadFrame
  <2>2. lpc[l] = "recv" /\ lpc' = [lpc EXCEPT ![l] = "put"]
    BY <1>5 DEF ReadFrame
  <2>3. InHand = {} /\ InHand' = {l}
    BY <2>1, <2>2 DEF InHand, TypeOK
  <2>4. UNCHANGED <<recv_queue, taken, dropped>> /\ read' = read + 1
    BY <1>5 DEF ReadFrame
  <2>5. \A k \in Listeners : lpc'[k] \in {"put", "ended"}
    BY <2>1, <2>2 DEF TypeOK
  <2>6. read = taken + Len(recv_queue) + dropped + 0
    BY <2>3 DEF QueueInv
  <2>7. read' = taken' + Len(recv_queue') + dropped' + 1
    <3> DEFINE n == Len(recv_queue)
    <3>1. n \in Nat /\ Len(recv_queue') = n
      BY <1>0, <2>4
    <3>2. read = taken + n + dropped + 0
      BY <2>6
    <3> HIDE DEF n
    <3> QED
      BY <2>4, <3>1, <3>2 DEF TypeOK
  <2>8. Len(recv_queue') <= Cap
    BY <2>4 DEF QueueInv
  <2> QED
    BY <2>3, <2>5, <2>7, <2>8 DEF QueueInv
<1>6. ASSUME NEW l \in Listeners, Put(l) \/ PutAgain(l)
      PROVE  QueueInv'
  <2>1. \A k \in Listeners \ {l} : lpc[k] = "ended"
    BY <1>6, Alone DEF Put, PutAgain, PutNowait
  <2>2. UNCHANGED <<read, taken, dropped, frame>> /\ InHand = {l} /\ frame[l] \in Nat
    BY <1>6, <2>1 DEF Put, PutAgain, PutNowait, InHand, TypeOK
  <2>3. CASE Len(recv_queue) < Cap
    <3>1. recv_queue' = Append(recv_queue, frame[l]) /\ lpc' = [lpc EXCEPT ![l] = "copy"]
      BY <1>6, <2>3 DEF Put, PutAgain, PutNowait
    <3>2. Len(recv_queue') = Len(recv_queue) + 1 /\ recv_queue'[Len(recv_queue')] = frame[l]
      BY <1>0, <2>2, <3>1
    <3>3. InHand' = {} /\ \A k \in Listeners \ {l} : lpc'[k] = "ended"
      BY <2>1, <3>1 DEF InHand, TypeOK
    <3>4. lpc'[l] = "copy"
      BY <3>1 DEF TypeOK
    <3>5. read' = taken' + Len(recv_queue') + dropped' + 0
      <4> DEFINE n == Len(recv_queue)
                 m == Len(recv_queue')
      <4>1. n \in Nat /\ m = n + 1 /\ read = taken + n + dropped + 1
        BY <1>0, <2>2, <3>2 DEF QueueInv
      <4> HIDE DEF n, m
      <4>2. read' = taken' + m + dropped' + 0
        BY <2>2, <4>1 DEF TypeOK
      <4> QED
        BY <4>2 DEF m
    <3>6. Len(recv_queue') <= Cap
      BY <1>0, <2>3, <3>2
    <3>7. \A k \in Listeners : lpc'[k] # "ended" => k = l
      BY <3>3
    <3> QED
      BY <2>2, <3>2, <3>3, <3>4, <3>5, <3>6, <3>7 DEF QueueInv
  <2>4. CASE ~(Len(recv_queue) < Cap)
    <3>1. lpc[l] # "put_again"
      BY <2>4 DEF QueueInv
    <3>2. recv_queue' = recv_queue /\ lpc' = [lpc EXCEPT ![l] = "full"]
      BY <1>6, <2>4, <3>1 DEF Put, PutAgain, PutNowait
    <3>3. InHand' = {l} /\ \A k \in Listeners : lpc'[k] \in {"full", "ended"}
      BY <2>1, <3>2 DEF InHand, TypeOK
    <3>4. full_at' = taken
      BY <1>6, <2>4, <3>1 DEF Put, PutAgain, PutNowait
    <3>5. Len(recv_queue') = Cap
      BY <1>0, <2>4, <3>2 DEF QueueInv
    <3>6. Len(recv_queue') + (taken' - full_at') = Cap
      BY <1>0, <2>2, <3>4, <3>5 DEF TypeOK
    <3>7. Len(recv_queue') <= Cap
      BY <1>0, <3>5
    <3>8. read' = taken' + Len(recv_queue') + dropped' + (IF InHand' = {} THEN 0 ELSE 1)
      BY <2>2, <3>2, <3>3 DEF QueueInv
    <3> QED
      BY <3>3, <3>6, <3>7, <3>8 DEF QueueInv
  <2> QED
    BY <2>3, <2>4
<1>7. ASSUME NEW l \in Listeners, MakeRoomInQueue(l)
      PROVE  QueueInv'
  <2> DEFINE q == IF recv_queue = <<>> THEN <<>> ELSE Tail(recv_queue)
  <2>1. Len(q) \in Nat /\ Len(q) <= Len(recv_queue) /\ Len(q) < Cap
    BY <1>0 DEF QueueInv
  <2>2. GiveUp(l, q)
    BY <1>7 DEF MakeRoomInQueue
  <2> HIDE DEF q
  <2>3. /\ lpc[l] = "full" /\ lpc' = [lpc EXCEPT ![l] = "put_again"]
        /\ UNCHANGED <<read, taken, frame>> /\ recv_queue' = q
    BY <2>2 DEF GiveUp
  <2>4. \A k \in Listeners \ {l} : lpc[k] = "ended"
    BY <2>3, Alone
  <2>5. /\ InHand = {l} /\ InHand' = {l}
        /\ \A k \in Listeners : lpc'[k] \in {"put_again", "ended"}
    BY <2>3, <2>4 DEF InHand, TypeOK
  <2>6. dropped' + Len(q) = dropped + Len(recv_queue)
    BY <1>0, <2>1, <2>2 DEF GiveUp, TypeOK
  <2>7. dropped' \in Int
    BY <1>0, <2>1, <2>2 DEF GiveUp, TypeOK
  <2>8. read' = taken' + Len(recv_queue') + dropped' + 1
    <3> DEFINE n == Len(recv_queue)
               m == Len(recv_queue')
    <3>1. /\ n \in Nat /\ m \in Nat /\ dropped' + m = dropped + n
          /\ read = taken + n + dropped + 1 /\ UNCHANGED <<read, taken>>
      BY <1>0, <2>1, <2>3, <2>5, <2>6 DEF QueueInv
    <3> HIDE DEF n, m
    <3>2. taken \in Int /\ dropped \in Int /\ dropped' \in Int
      BY <2>7 DEF TypeOK
    <3>3. taken + n + dropped + 1 = taken + (dropped + n) + 1
      BY <3>1, <3>2
    <3>4. taken + m + dropped' + 1 = taken + (dropped' + m) + 1
      BY <3>1, <3>2
    <3>5. read' = taken' + m + dropped' + 1
      BY <3>1, <3>3, <3>4, Zenon
    <3> QED
      BY <3>5 DEF m
  <2>9. Len(recv_queue') < Cap /\ Len(recv_queue') <= Cap
    BY <1>0, <2>1, <2>3
  <2> QED
    BY <2>5, <2>8, <2>9 DEF QueueInv
<1>8. CASE Recv
  <2>1. /\ recv_queue # <<>> /\ recv_queue' = RemoveAt(recv_queue, 1) /\ taken' = taken + 1
        /\ UNCHANGED <<lpc, frame, read, full_at, dropped>>
    BY <1>8 DEF Recv, RecvTakes
  <2>2. /\ recv_queue' \in Seq(Nat) /\ Len(recv_queue') = Len(recv_queue) - 1
        /\ \A j \in 1..(Len(recv_queue) - 1) : recv_queue'[j] = recv_queue[j + 1]
    BY <1>0, <2>1, RemovedFirst, Zenon
  <2>3. InHand' = InHand
    BY <2>1 DEF InHand
  <2>4. recv_queue' # <<>> => recv_queue'[Len(recv_queue')] = recv_queue[Len(recv_queue)]
    BY <1>0, <2>2
  <2>5. Len(recv_queue') \in Nat
    BY <2>2
  <2> DEFINE n == Len(recv_queue)
             m == Len(recv_queue')
  <2>6. m = n - 1 /\ m \in Nat /\ n \in Nat
    BY <1>0, <2>2, <2>5
  <2>7. m <= Cap /\ \A k \in Listeners : lpc'[k] = "put_again" => m < Cap
    BY <1>0, <2>1, <2>6 DEF QueueInv
  <2> HIDE DEF n, m
  <2>8. read' = taken' + m + dropped' + (IF InHand = {} THEN 0 ELSE 1)
    <3> DEFINE h == IF InHand = {} THEN 0 ELSE 1
    <3>1. h \in Nat /\ read = taken + n + dropped + h
      BY DEF QueueInv, n
    <3> HIDE DEF h
    <3>2. read' = taken' + m + dropped' + h
      BY <2>1, <2>6, <3>1 DEF TypeOK
    <3> QED
      BY <3>2 DEF h
  <2>9. ASSUME NEW k \in Listeners, lpc'[k] \in {"copy", "dispatch"}, recv_queue' # <<>>
        PROVE  recv_queue'[Len(recv_queue')] = frame'[k]
    BY <2>1, <2>4, <2>9 DEF QueueInv
  <2>10. ASSUME NEW k \in Listeners, lpc'[k] = "full"
         PROVE  m + (taken' - full_at') = Cap
    <3>1. n + (taken - full_at) = Cap
      BY <2>1, <2>10 DEF QueueInv, n
    <3> QED
      BY <1>0, <2>1, <2>6, <3>1 DEF TypeOK
  <2> QED
    BY <2>3, <2>7, <2>8, <2>9, <2>10 DEF QueueInv, m
<1>9. CASE Open \/ Start \/ Stop(FALSE) \/ Stop(TRUE)
  BY <1>1, <1>9 DEF Open, Start, Stop
<1>10. CASE JoinRaises \/ Join \/ StopChannel \/ CloseDevice
  BY <1>1, <1>10 DEF JoinRaises, Join, JoinReturnsIf, StopChannel, CloseDevice
<1>11. ASSUME NEW l \in Listeners, CallDetector(l) \/ DetectorStops(l)
       PROVE  QueueInv'
  BY <1>1, <1>11 DEF CallDetector, CallNext, DetectorStops
<1>12. CASE (\E d \in Detectors : add_detector(d) \/ remove_detector(d)) \/ FrameArrives
  BY <1>1, <1>12 DEF add_detector, remove_detector, FrameArrives
<1>13. CASE UNCHANGED vars
  BY <1>1, <1>13 DEF vars
<1> QED
  BY <1>3, <1>4, <1>5, <1>6, <1>7, <1>8, <1>9, <1>10, <1>11, <1>12, <1>13
     DEF Next, AppGoesOn, LoopGoesOn
-------------------------------------------------------------------------------
(* Every step preserves the order of the frames. *)

(* A queue after a frame that comes after all of it was put. *)
LEMMA AppendedRises ==
  ASSUME NEW s \in Seq(Nat), NEW f \in Nat, Rising(s), \A i \in DOMAIN s : s[i] < f
  PROVE  /\ Rising(Append(s, f))
         /\ \A i \in DOMAIN Append(s, f) :
              Append(s, f)[i] = f \/ \E j \in DOMAIN s : Append(s, f)[i] = s[j]
<1> DEFINE a == Append(s, f)
           n == Len(s)
<1>1. /\ n \in Nat /\ DOMAIN s = 1..n /\ DOMAIN a = 1..(n + 1)
      /\ a[n + 1] = f /\ \A i \in 1..n : a[i] = s[i]
  OBVIOUS
<1> HIDE DEF a, n
<1>2. \A i \in DOMAIN a : (i \in DOMAIN s /\ a[i] = s[i]) \/ (i = n + 1 /\ a[i] = f)
  BY <1>1
<1>3. ASSUME NEW i \in DOMAIN a, NEW j \in DOMAIN a, i < j
      PROVE  a[i] < a[j]
  <2>1. i \in DOMAIN s /\ a[i] = s[i]
    BY <1>1, <1>2, <1>3
  <2> QED
    BY <1>2, <1>3, <2>1 DEF Rising
<1> QED
  BY <1>2, <1>3 DEF Rising, a

(* A queue after its oldest was taken. *)
LEMMA TailRises ==
  ASSUME NEW s \in Seq(Nat), NEW t \in Seq(Nat), s # <<>>, Rising(s),
         Len(t) = Len(s) - 1, \A j \in 1..(Len(s) - 1) : t[j] = s[j + 1]
  PROVE  /\ Rising(t)
         /\ \A i \in DOMAIN t : t[i] > s[1] /\ \E j \in DOMAIN s : t[i] = s[j]
<1> DEFINE n == Len(s)
<1>1. n \in Nat /\ DOMAIN s = 1..n /\ DOMAIN t = 1..(n - 1) /\ 1 \in DOMAIN s
      /\ \A j \in 1..(n - 1) : t[j] = s[j + 1]
  OBVIOUS
<1> HIDE DEF n
<1>2. ASSUME NEW i \in DOMAIN t
      PROVE  i \in Nat /\ i + 1 \in DOMAIN s /\ 1 < i + 1 /\ t[i] = s[i + 1]
  BY <1>1
<1>3. ASSUME NEW i \in DOMAIN t, NEW j \in DOMAIN t, i < j
      PROVE  t[i] < t[j]
  <2>1. i + 1 < j + 1
    BY <1>2, <1>3
  <2> QED
    BY <1>2, <2>1 DEF Rising
<1>4. ASSUME NEW i \in DOMAIN t
      PROVE  s[1] < t[i]
  BY <1>1, <1>2 DEF Rising
<1>5. ASSUME NEW i \in DOMAIN t
      PROVE  t[i] > s[1]
  <2>1. s[1] \in Nat /\ t[i] \in Nat
    BY <1>1
  <2> QED
    BY <1>4, <2>1
<1> QED
  BY <1>2, <1>3, <1>5 DEF Rising

LEMMA OrderStep ==
  ASSUME TypeOK, CallInv, OrderInv, [Next]_vars
  PROVE  OrderInv'
<1> USE DEF lifecycle, listening, reading, adding, channel, Goto
<1>0. /\ rxq \in Seq(Nat) /\ recv_queue \in Seq(Nat) /\ arrived \in Nat /\ newest \in Nat
      /\ \A l \in Listeners : frame[l] \in Nat
      /\ \A d \in Detectors : seen[d] \in Nat
  BY DEF TypeOK
<1>1. /\ \A i \in DOMAIN rxq : rxq[i] \in Nat
      /\ \A i \in DOMAIN recv_queue : recv_queue[i] \in Nat
  BY <1>0
<1>2. CASE UNCHANGED <<rxq, recv_queue, arrived, newest, frame, seen>> /\ InHand' \subseteq InHand
  BY <1>2 DEF OrderInv, After, Rising
<1>3. CASE StartListener
  <2>1. CASE UNCHANGED <<lpc, frame>>
    BY <1>2, <1>3, <2>1 DEF StartListener, InHand
  <2>2. ASSUME NEW l \in Listeners \ Live, lpc' = [lpc EXCEPT ![l] = "test"],
               frame' = [frame EXCEPT ![l] = 0]
        PROVE  OrderInv'
    <3>1. /\ \A k \in Listeners : frame'[k] = frame[k] \/ frame'[k] = 0
          /\ \A k \in InHand' : k \in InHand /\ frame'[k] = frame[k]
      BY <2>2 DEF InHand, TypeOK
    <3>2. UNCHANGED <<rxq, recv_queue, arrived, newest, seen>>
      BY <1>3 DEF StartListener
    <3>3. \A i \in DOMAIN rxq : 0 < rxq[i]
      BY <1>0, <1>1 DEF OrderInv, After
    <3>4. ASSUME NEW k \in Listeners
          PROVE  frame'[k] <= arrived /\ \A i \in DOMAIN rxq : frame'[k] < rxq[i]
      <4>1. CASE frame'[k] = frame[k]
        BY <4>1 DEF OrderInv
      <4>2. CASE frame'[k] = 0
        BY <1>0, <3>3, <4>2
      <4> QED
        BY <3>1, <4>1, <4>2
    <3> QED
      BY <3>1, <3>2, <3>4 DEF OrderInv, After, Rising
  <2> QED
    BY <1>3, <2>1, <2>2 DEF StartListener
<1>4. CASE CloseDevice
  <2>1. rxq' = <<>> /\ UNCHANGED <<recv_queue, arrived, newest, frame, seen, lpc>>
    BY <1>4 DEF CloseDevice
  <2>2. DOMAIN rxq' = {}
    BY <2>1
  <2> QED
    BY <2>1, <2>2 DEF OrderInv, After, Rising, InHand
<1>5. ASSUME NEW l \in Listeners,
             TestStop(l) \/ ReadNothing(l) \/ Dispatched(l) \/ CopyDetectors(l) \/ DetectorStops(l)
      PROVE  OrderInv'
  <2>1. /\ UNCHANGED <<rxq, recv_queue, arrived, newest, frame, seen>>
        /\ \/ lpc' = lpc
           \/ \E step \in {"ended", "test", "recv", "dispatch"} : lpc' = [lpc EXCEPT ![l] = step]
    BY <1>5 DEF TestStop, ReadNothing, Dispatched, CopyDetectors, DetectorStops
  <2>2. InHand' \subseteq InHand
    BY <2>1 DEF InHand, TypeOK
  <2> QED
    BY <1>2, <2>1, <2>2
<1>6. ASSUME NEW l \in Listeners, ReadFrame(l)
      PROVE  OrderInv'
  <2>1. /\ rxq # <<>> /\ frame' = [frame EXCEPT ![l] = Head(rxq)] /\ rxq' = Tail(rxq)
        /\ UNCHANGED <<recv_queue, arrived, newest, seen>>
        /\ lpc' = [lpc EXCEPT ![l] = "put"]
    BY <1>6 DEF ReadFrame
  <2>2. /\ rxq' \in Seq(Nat) /\ Len(rxq') = Len(rxq) - 1
        /\ \A j \in 1..(Len(rxq) - 1) : rxq'[j] = rxq[j + 1]
    BY <1>0, <2>1
  <2>3. Rising(rxq)
    BY DEF OrderInv
  <2>4. /\ Rising(rxq')
        /\ \A i \in DOMAIN rxq' : rxq'[i] > rxq[1] /\ \E j \in DOMAIN rxq : rxq'[i] = rxq[j]
    BY <1>0, <2>1, <2>2, <2>3, TailRises, Zenon
  <2>5. 1 \in DOMAIN rxq /\ Head(rxq) = rxq[1]
    BY <1>0, <2>1
  <2>6. \A k \in Listeners : frame'[k] = frame[k] \/ frame'[k] = rxq[1]
    BY <2>1, <2>5 DEF TypeOK
  <2>7. \A k \in InHand' : (k \in InHand /\ frame'[k] = frame[k]) \/ frame'[k] = rxq[1]
    BY <2>1, <2>5 DEF TypeOK, InHand
  <2>8. ASSUME NEW i \in DOMAIN rxq'
        PROVE  /\ rxq'[i] <= arrived /\ newest < rxq'[i]
               /\ \A d \in Detectors : seen[d] < rxq'[i]
               /\ \A m \in DOMAIN recv_queue : recv_queue[m] < rxq'[i]
               /\ \A k \in Listeners : frame'[k] < rxq'[i]
    <3>1. PICK j \in DOMAIN rxq : rxq'[i] = rxq[j]
      BY <2>4
    <3>2. rxq[1] < rxq'[i]
      BY <1>1, <2>4, <2>5, <3>1
    <3> QED
      BY <2>6, <3>1, <3>2 DEF OrderInv, After
  <2>9. \A k \in Listeners : frame'[k] <= arrived
    BY <2>5, <2>6 DEF OrderInv
  <2>10. ASSUME NEW k \in InHand'
         PROVE  /\ newest < frame'[k]
                /\ \A d \in Detectors : seen[d] < frame'[k]
                /\ \A m \in DOMAIN recv_queue : recv_queue[m] < frame'[k]
    BY <2>5, <2>7 DEF OrderInv, After
  <2> QED
    BY <2>1, <2>4, <2>8, <2>9, <2>10 DEF OrderInv, After, Rising
<1>7. ASSUME NEW l \in Listeners, Put(l) \/ PutAgain(l)
      PROVE  OrderInv'
  <2>1. l \in InHand /\ UNCHANGED <<rxq, arrived, newest, frame, seen>>
    BY <1>7 DEF Put, PutAgain, PutNowait, InHand
  <2>2. CASE recv_queue' = Append(recv_queue, frame[l]) /\ lpc' = [lpc EXCEPT ![l] = "copy"]
    <3>1. Rising(recv_queue) /\ \A i \in DOMAIN recv_queue : recv_queue[i] < frame[l]
      BY <2>1 DEF OrderInv, After
    <3>2. /\ Rising(recv_queue')
          /\ \A i \in DOMAIN recv_queue' :
               \/ recv_queue'[i] = frame[l]
               \/ \E j \in DOMAIN recv_queue : recv_queue'[i] = recv_queue[j]
      BY <1>0, <2>2, <3>1, AppendedRises, Zenon
    <3>3. \A k \in Listeners \ {l} : lpc[k] = "ended"
      BY <2>1, Alone DEF InHand
    <3>4. InHand' = {}
      BY <2>2, <3>3 DEF InHand, TypeOK
    <3>5. newest < frame[l] /\ frame[l] <= arrived /\ frame[l] < arrived + 1
      BY <1>0, <2>1 DEF OrderInv, After
    <3>6. \A i \in DOMAIN recv_queue' : newest < recv_queue'[i] /\ recv_queue'[i] < arrived + 1
      BY <3>2, <3>5 DEF OrderInv, After
    <3>7. \A i \in DOMAIN rxq : \A m \in DOMAIN recv_queue' : recv_queue'[m] < rxq[i]
      BY <3>2 DEF OrderInv, After
    <3> QED
      BY <2>1, <3>2, <3>4, <3>6, <3>7 DEF OrderInv, After, Rising
  <2>3. CASE recv_queue' = recv_queue /\ lpc' = [lpc EXCEPT ![l] = "full"]
    <3>1. InHand' \subseteq InHand
      BY <2>1, <2>3 DEF InHand, TypeOK
    <3> QED
      BY <1>2, <2>1, <2>3, <3>1
  <2>4. CASE recv_queue' = recv_queue /\ lpc' = [lpc EXCEPT ![l] = "copy"]
    <3>1. InHand' \subseteq InHand
      BY <2>1, <2>4 DEF InHand, TypeOK
    <3> QED
      BY <1>2, <2>1, <2>4, <3>1
  <2> QED
    BY <1>7, <2>2, <2>3, <2>4 DEF Put, PutAgain, PutNowait
<1>8. ASSUME NEW l \in Listeners, MakeRoomInQueue(l)
      PROVE  OrderInv'
  <2>1. /\ lpc[l] = "full" /\ lpc' = [lpc EXCEPT ![l] = "put_again"]
        /\ UNCHANGED <<rxq, arrived, newest, frame, seen>>
        /\ recv_queue' = IF recv_queue = <<>> THEN <<>> ELSE Tail(recv_queue)
    BY <1>8 DEF MakeRoomInQueue, GiveUp
  <2>2. InHand' \subseteq InHand
    BY <2>1 DEF InHand, TypeOK
  <2>3. CASE recv_queue = <<>>
    BY <1>2, <2>1, <2>2, <2>3
  <2>4. CASE recv_queue # <<>>
    <3>1. /\ recv_queue' \in Seq(Nat) /\ Len(recv_queue') = Len(recv_queue) - 1
          /\ \A j \in 1..(Len(recv_queue) - 1) : recv_queue'[j] = recv_queue[j + 1]
      BY <1>0, <2>1, <2>4
    <3>2. Rising(recv_queue)
      BY DEF OrderInv
    <3>3. /\ Rising(recv_queue')
          /\ \A i \in DOMAIN recv_queue' :
               /\ recv_queue'[i] > recv_queue[1]
               /\ \E j \in DOMAIN recv_queue : recv_queue'[i] = recv_queue[j]
      BY <1>0, <2>4, <3>1, <3>2, TailRises, Zenon
    <3> QED
      BY <2>1, <2>2, <3>3 DEF OrderInv, After, Rising
  <2> QED
    BY <2>3, <2>4
<1>9. ASSUME NEW l \in Listeners, CallDetector(l) \/ DetectorExits(l)
      PROVE  OrderInv'
  <2>1. /\ lpc[l] = "dispatch" /\ seen' = [seen EXCEPT ![Head(todo[l])] = frame[l]]
        /\ UNCHANGED <<rxq, recv_queue, arrived, newest, frame>>
        /\ lpc' = lpc \/ lpc' = [lpc EXCEPT ![l] = "ended"]
    BY <1>9 DEF CallDetector, CallNext, DetectorExits
  <2>2. \A k \in Listeners \ {l} : lpc[k] = "ended"
    BY <2>1, Alone
  <2>3. InHand' = {}
    <3>1. \A k \in Listeners : lpc'[k] \in {"dispatch", "ended"}
      BY <2>1, <2>2 DEF TypeOK
    <3> QED
      BY <3>1 DEF InHand
  <2>4. \A d \in Detectors : seen'[d] = seen[d] \/ seen'[d] = frame[l]
    BY <2>1 DEF TypeOK
  <2>5. frame[l] < arrived + 1
    BY <1>0 DEF OrderInv
  <2> QED
    BY <2>1, <2>3, <2>4, <2>5 DEF OrderInv, After, Rising
<1>10. CASE Recv
  <2>1. /\ recv_queue # <<>> /\ recv_queue' = RemoveAt(recv_queue, 1)
        /\ newest' = recv_queue[1]
        /\ UNCHANGED <<rxq, arrived, frame, seen, lpc>>
    BY <1>10 DEF Recv, RecvTakes
  <2>2. /\ recv_queue' \in Seq(Nat) /\ Len(recv_queue') = Len(recv_queue) - 1
        /\ \A j \in 1..(Len(recv_queue) - 1) : recv_queue'[j] = recv_queue[j + 1]
    BY <1>0, <2>1, RemovedFirst, Zenon
  <2>3. Rising(recv_queue)
    BY DEF OrderInv
  <2>4. /\ Rising(recv_queue')
        /\ \A i \in DOMAIN recv_queue' :
             /\ recv_queue'[i] > recv_queue[1]
             /\ \E j \in DOMAIN recv_queue : recv_queue'[i] = recv_queue[j]
    BY <1>0, <2>1, <2>2, <2>3, TailRises, Zenon
  <2>5. 1 \in DOMAIN recv_queue
    BY <1>0, <2>1
  <2>6. \A i \in DOMAIN recv_queue' : newest' < recv_queue'[i]
    BY <1>1, <2>1, <2>4, <2>5
  <2> QED
    BY <2>1, <2>4, <2>5, <2>6 DEF OrderInv, After, Rising, InHand
<1>11. CASE FrameArrives
  <2>1. /\ arrived' = arrived + 1 /\ rxq' = Enqueue(rxq, arrived + 1)
        /\ UNCHANGED <<recv_queue, newest, frame, seen, lpc>>
    BY <1>11 DEF FrameArrives
  <2>2. Rising(rxq) /\ \A i \in DOMAIN rxq : rxq[i] < arrived + 1
    BY <1>0, <1>1 DEF OrderInv
  <2>3. arrived + 1 \in Nat
    BY <1>0
  <2>4. /\ Rising(rxq')
        /\ \A i \in DOMAIN rxq' :
             rxq'[i] = arrived + 1 \/ \E j \in DOMAIN rxq : rxq'[i] = rxq[j]
    BY <1>0, <2>1, <2>2, <2>3, EnqueuedRises, Zenon
  <2>5. \A l \in Listeners : frame[l] <= arrived + 1 /\ frame[l] < arrived + 1
    BY <1>0 DEF OrderInv
  <2>6. ASSUME NEW i \in DOMAIN rxq'
        PROVE  /\ rxq'[i] <= arrived + 1 /\ newest < rxq'[i]
               /\ \A d \in Detectors : seen[d] < rxq'[i]
               /\ \A m \in DOMAIN recv_queue : recv_queue[m] < rxq'[i]
               /\ \A k \in Listeners : frame[k] < rxq'[i]
    <3>1. CASE rxq'[i] = arrived + 1
      BY <1>0, <2>5, <3>1 DEF OrderInv, After
    <3>2. ASSUME NEW j \in DOMAIN rxq, rxq'[i] = rxq[j]
          PROVE  /\ rxq'[i] <= arrived + 1 /\ newest < rxq'[i]
                 /\ \A d \in Detectors : seen[d] < rxq'[i]
                 /\ \A m \in DOMAIN recv_queue : recv_queue[m] < rxq'[i]
                 /\ \A k \in Listeners : frame[k] < rxq'[i]
      BY <1>0, <1>1, <3>2 DEF OrderInv, After
    <3> QED
      BY <2>4, <3>1, <3>2
  <2>7. /\ newest < arrived + 1 + 1
        /\ \A d \in Detectors : seen[d] < arrived + 1 + 1
        /\ \A m \in DOMAIN recv_queue : recv_queue[m] < arrived + 1 + 1
    BY <1>0, <1>1 DEF OrderInv, After
  <2> QED
    BY <2>1, <2>4, <2>5, <2>6, <2>7 DEF OrderInv, After, Rising, InHand
<1>12. CASE Open \/ Start \/ Stop(FALSE) \/ Stop(TRUE)
  BY <1>2, <1>12 DEF Open, Start, Stop, InHand
<1>13. CASE JoinRaises \/ Join \/ StopChannel
  BY <1>2, <1>13 DEF JoinRaises, Join, JoinReturnsIf, StopChannel, InHand
<1>14. CASE \E d \in Detectors : add_detector(d) \/ remove_detector(d)
  BY <1>2, <1>14 DEF add_detector, remove_detector, InHand
<1>15. CASE UNCHANGED vars
  BY <1>2, <1>15 DEF vars, InHand
<1> QED
  BY <1>3, <1>4, <1>5, <1>6, <1>7, <1>8, <1>9, <1>10, <1>11, <1>12, <1>13, <1>14, <1>15
     DEF Next, AppGoesOn, LoopGoesOn
-------------------------------------------------------------------------------
(* Every step preserves which detectors have been called with the frame. *)
LEMMA DispatchStep ==
  ASSUME TypeOK, CallInv, OrderInv, DispatchInv, [Next]_vars
  PROVE  DispatchInv'
<1> USE DEF lifecycle, listening, reading, adding, channel, Goto
<1>0. /\ arrived \in Nat /\ detectors \in Seq(Detectors)
      /\ \A l \in Listeners : frame[l] \in Nat /\ todo[l] \in Seq(Detectors)
      /\ \A d \in Detectors : seen[d] \in Nat /\ since[d] \in Nat
  BY DEF TypeOK
<1>1. CASE /\ UNCHANGED <<seen, since, detectors, todo, arrived>>
           /\ \A k \in Listeners : lpc'[k] \in {"copy", "dispatch"} =>
                lpc'[k] = lpc[k] /\ frame'[k] = frame[k]
  BY <1>1 DEF DispatchInv
<1>2. CASE StartListener
  <2>1. CASE UNCHANGED <<lpc, frame>>
    BY <1>1, <1>2, <2>1 DEF StartListener
  <2>2. ASSUME NEW l \in Listeners \ Live, lpc' = [lpc EXCEPT ![l] = "test"],
               frame' = [frame EXCEPT ![l] = 0]
        PROVE  DispatchInv'
    <3>1. \A k \in Listeners : lpc'[k] \in {"copy", "dispatch"} =>
            lpc'[k] = lpc[k] /\ frame'[k] = frame[k]
      BY <2>2 DEF TypeOK
    <3> QED
      BY <1>1, <1>2, <3>1 DEF StartListener
  <2> QED
    BY <1>2, <2>1, <2>2 DEF StartListener
<1>3. ASSUME NEW l \in Listeners,
             \/ TestStop(l) \/ ReadFrame(l) \/ ReadNothing(l) \/ Dispatched(l)
             \/ MakeRoomInQueue(l) \/ DetectorStops(l)
      PROVE  DispatchInv'
  <2>1. /\ UNCHANGED <<seen, since, detectors, todo, arrived>>
        /\ \/ UNCHANGED <<lpc, frame>>
           \/ /\ \E step \in {"ended", "test", "recv", "put", "put_again"} :
                   lpc' = [lpc EXCEPT ![l] = step]
              /\ frame' = [frame EXCEPT ![l] = frame'[l]]
    BY <1>3 DEF TestStop, ReadFrame, ReadNothing, Dispatched, MakeRoomInQueue, GiveUp,
                DetectorStops, TypeOK
  <2>2. \A k \in Listeners : lpc'[k] \in {"copy", "dispatch"} =>
          lpc'[k] = lpc[k] /\ frame'[k] = frame[k]
    BY <2>1 DEF TypeOK
  <2> QED
    BY <1>1, <2>1, <2>2
<1>4. ASSUME NEW l \in Listeners, Put(l) \/ PutAgain(l)
      PROVE  DispatchInv'
  <2>1. /\ UNCHANGED <<seen, since, detectors, todo, arrived, frame>> /\ l \in InHand
        /\ lpc' = [lpc EXCEPT ![l] = "copy"] \/ lpc' = [lpc EXCEPT ![l] = "full"]
    BY <1>4 DEF Put, PutAgain, PutNowait, InHand
  <2>2. \A d \in Detectors : seen[d] < frame[l]
    BY <2>1 DEF OrderInv, After
  <2>3. /\ lpc'[l] \in {"copy", "full"}
        /\ \A k \in Listeners \ {l} : lpc'[k] = lpc[k]
    BY <2>1 DEF TypeOK
  <2> QED
    BY <2>1, <2>2, <2>3 DEF DispatchInv
<1>5. ASSUME NEW l \in Listeners, CopyDetectors(l)
      PROVE  DispatchInv'
  <2>1. /\ UNCHANGED <<seen, since, detectors, arrived, frame>>
        /\ lpc[l] = "copy" /\ lpc'[l] = "dispatch" /\ todo'[l] = detectors
        /\ \A k \in Listeners \ {l} : lpc'[k] = lpc[k] /\ todo'[k] = todo[k]
    BY <1>5 DEF CopyDetectors, TypeOK
  <2>2. \A i \in DOMAIN detectors : seen[detectors[i]] < frame[l]
    BY <1>0, <2>1 DEF DispatchInv
  <2> QED
    BY <2>1, <2>2 DEF DispatchInv
<1>6. ASSUME NEW l \in Listeners, CallDetector(l)
      PROVE  DispatchInv'
  <2> DEFINE t == todo[l]
             h == Head(todo[l])
  <2>1. /\ UNCHANGED <<since, detectors, arrived, frame, lpc>>
        /\ lpc[l] = "dispatch" /\ t # <<>>
        /\ seen' = [seen EXCEPT ![h] = frame[l]] /\ todo'[l] = Tail(t)
    BY <1>6 DEF CallDetector, CallNext, TypeOK
  <2>2. \A k \in Listeners \ {l} : lpc[k] = "ended"
    BY <2>1, Alone
  <2>3. t \in Seq(Detectors)
    BY <1>0
  <2>4. /\ h = t[1] /\ h \in Detectors
        /\ DOMAIN t = 1..Len(t) /\ Len(t) \in Nat /\ DOMAIN Tail(t) = 1..(Len(t) - 1)
        /\ \A i \in 1..(Len(t) - 1) : Tail(t)[i] = t[i + 1]
    BY <2>1, <2>3
  <2>5. /\ \A i, j \in DOMAIN t : t[i] = t[j] => i = j
        /\ \A i \in DOMAIN t : seen[t[i]] < frame[l] /\ t[i] \in Detectors
        /\ \A i \in DOMAIN detectors :
             \/ since[detectors[i]] >= frame[l]
             \/ seen[detectors[i]] = frame[l]
             \/ \E j \in DOMAIN t : t[j] = detectors[i]
    BY <2>1, <2>3 DEF DispatchInv
  <2> HIDE DEF t, h
  <2> DEFINE u == Tail(t)
             n == Len(t)
  <2>6. /\ n \in Nat /\ DOMAIN t = 1..n /\ DOMAIN u = 1..(n - 1)
        /\ \A i \in 1..(n - 1) : u[i] = t[i + 1]
    BY <2>4
  <2> HIDE DEF u, n
  <2>7. /\ seen'[h] = frame[l]
        /\ \A d \in Detectors : d # h => seen'[d] = seen[d]
    BY <2>1, <2>4 DEF TypeOK
  <2>8. \A i, j \in DOMAIN u : u[i] = u[j] => i = j
    <3>1. ASSUME NEW i \in DOMAIN u, NEW j \in DOMAIN u, u[i] = u[j]
          PROVE  i = j
      <4>1. i + 1 \in DOMAIN t /\ j + 1 \in DOMAIN t /\ t[i + 1] = t[j + 1]
        BY <2>6, <3>1
      <4>2. i + 1 = j + 1
        BY <2>5, <4>1
      <4> QED
        BY <2>6, <4>2
    <3> QED
      BY <3>1
  <2>9. ASSUME NEW i \in DOMAIN u
        PROVE  seen'[u[i]] < frame[l]
    <3>1. i + 1 \in DOMAIN t /\ 1 \in DOMAIN t /\ i + 1 # 1 /\ u[i] = t[i + 1]
      BY <2>6
    <3>2. t[i + 1] # h
      BY <2>4, <2>5, <3>1
    <3> QED
      BY <2>5, <2>7, <3>1, <3>2
  <2>10. ASSUME NEW i \in DOMAIN detectors
         PROVE  \/ since[detectors[i]] >= frame[l]
                \/ seen'[detectors[i]] = frame[l]
                \/ \E j \in DOMAIN u : u[j] = detectors[i]
    <3>1. detectors[i] \in Detectors
      BY <1>0
    <3>2. CASE detectors[i] = h
      BY <2>7, <3>2
    <3>3. CASE detectors[i] # h
      <4>1. seen'[detectors[i]] = seen[detectors[i]]
        BY <2>7, <3>1, <3>3
      <4>2. ASSUME NEW j \in DOMAIN t, t[j] = detectors[i]
            PROVE  \E m \in DOMAIN u : u[m] = detectors[i]
        <5>1. j # 1
          BY <2>4, <3>3, <4>2
        <5>2. j - 1 \in DOMAIN u /\ j - 1 + 1 = j
          BY <2>6, <5>1
        <5>3. u[j - 1] = t[j]
          BY <2>6, <5>2
        <5> QED
          BY <4>2, <5>2, <5>3
      <4> QED
        BY <2>5, <4>1, <4>2
    <3> QED
      BY <3>2, <3>3
  <2>11. todo'[l] = u
    BY <2>1 DEF u, t
  <2>12. \A k \in Listeners : lpc'[k] # "copy" /\ (lpc'[k] = "dispatch" => k = l)
    BY <2>1, <2>2
  <2> QED
    BY <2>1, <2>8, <2>9, <2>10, <2>11, <2>12 DEF DispatchInv
<1>7. ASSUME NEW d \in Detectors, add_detector(d)
      PROVE  DispatchInv'
  <2>1. /\ UNCHANGED <<seen, arrived, frame, lpc, todo>>
        /\ \A i \in DOMAIN detectors : detectors[i] # d
        /\ detectors' = Append(detectors, d)
        /\ since'[d] = arrived /\ \A e \in Detectors : e # d => since'[e] = since[e]
    BY <1>7 DEF add_detector, TypeOK
  <2>2. ASSUME NEW i \in DOMAIN detectors'
        PROVE  \/ i \in DOMAIN detectors /\ detectors'[i] = detectors[i]
               \/ i = Len(detectors) + 1 /\ detectors'[i] = d
    BY <1>0, <2>1
  <2>3. \A e \in Detectors : since'[e] <= arrived
    BY <1>0, <2>1 DEF DispatchInv
  <2>4. \A i, j \in DOMAIN detectors' : detectors'[i] = detectors'[j] => i = j
    BY <2>1, <2>2 DEF DispatchInv
  <2>5. ASSUME NEW l \in Listeners, lpc[l] = "dispatch", NEW i \in DOMAIN detectors'
        PROVE  \/ since'[detectors'[i]] >= frame[l]
               \/ seen[detectors'[i]] = frame[l]
               \/ \E j \in DOMAIN todo[l] : todo[l][j] = detectors'[i]
    <3>1. CASE detectors'[i] = d
      <4>1. frame[l] <= arrived
        BY DEF OrderInv
      <4> QED
        BY <1>0, <2>1, <3>1, <4>1
    <3>2. CASE i \in DOMAIN detectors /\ detectors'[i] = detectors[i]
      <4>1. detectors[i] \in Detectors /\ detectors[i] # d
        BY <1>0, <2>1, <3>2
      <4> QED
        BY <2>1, <2>5, <3>2, <4>1 DEF DispatchInv
    <3> QED
      BY <2>2, <3>1, <3>2
  <2>6. \A l \in Listeners : lpc[l] = "copy" => \A e \in Detectors : seen[e] < frame[l]
    BY DEF DispatchInv
  <2>7. \A l \in Listeners : lpc[l] = "dispatch" =>
            /\ \A i, j \in DOMAIN todo[l] : todo[l][i] = todo[l][j] => i = j
            /\ \A i \in DOMAIN todo[l] : seen[todo[l][i]] < frame[l]
    BY DEF DispatchInv
  <2> QED
    BY <2>1, <2>3, <2>4, <2>5, <2>6, <2>7 DEF DispatchInv
<1>8. ASSUME NEW d \in Detectors, remove_detector(d)
      PROVE  DispatchInv'
  <2> DEFINE n == Len(detectors)
  <2>1. PICK i \in 1..n : detectors' = RemoveAt(detectors, i)
    BY <1>0, <1>8 DEF remove_detector
  <2>2. /\ detectors' \in Seq(Detectors) /\ Len(detectors') = n - 1
        /\ \A j \in 1..(n - 1) : detectors'[j] = IF j < i THEN detectors[j] ELSE detectors[j + 1]
    BY <1>0, <2>1, RemovedAt
  <2>3. n \in Nat /\ DOMAIN detectors = 1..n /\ DOMAIN detectors' = 1..(n - 1)
    BY <1>0, <2>2
  <2> HIDE DEF n
  <2> DEFINE at(j) == IF j < i THEN j ELSE j + 1
  <2>4. ASSUME NEW j \in DOMAIN detectors'
        PROVE  at(j) \in DOMAIN detectors /\ detectors'[j] = detectors[at(j)]
    BY <2>2, <2>3, <2>4
  <2>5. ASSUME NEW j \in DOMAIN detectors', NEW k \in DOMAIN detectors', at(j) = at(k)
        PROVE  j = k
    BY <2>3, <2>5
  <2> HIDE DEF at
  <2>6. \A j, k \in DOMAIN detectors' : detectors'[j] = detectors'[k] => j = k
    BY <2>4, <2>5 DEF DispatchInv
  <2>7. UNCHANGED <<seen, since, arrived, frame, lpc, todo>>
    BY <1>8 DEF remove_detector
  <2>8. \A j \in DOMAIN detectors' : \E k \in DOMAIN detectors : detectors'[j] = detectors[k]
    BY <2>4
  <2> QED
    BY <2>6, <2>7, <2>8 DEF DispatchInv
<1>9. CASE FrameArrives
  <2>1. /\ UNCHANGED <<seen, since, detectors, todo, lpc, frame>> /\ arrived' = arrived + 1
    BY <1>9 DEF FrameArrives
  <2>2. \A d \in Detectors : since[d] <= arrived + 1
    BY <1>0 DEF DispatchInv
  <2> QED
    BY <2>1, <2>2 DEF DispatchInv
<1>10. CASE Open \/ Start \/ Stop(FALSE) \/ Stop(TRUE)
  BY <1>1, <1>10 DEF Open, Start, Stop
<1>11. CASE JoinRaises \/ Join \/ StopChannel \/ CloseDevice \/ Recv
  BY <1>1, <1>11 DEF JoinRaises, Join, JoinReturnsIf, StopChannel, CloseDevice, Recv, RecvTakes
<1>13. ASSUME NEW l \in Listeners, DetectorExits(l)
       PROVE  DispatchInv'
  <2>1. /\ UNCHANGED <<since, detectors, arrived>>
        /\ lpc[l] = "dispatch" /\ lpc' = [lpc EXCEPT ![l] = "ended"]
    BY <1>13 DEF DetectorExits
  <2>2. \A k \in Listeners : lpc'[k] = "ended"
    BY <2>1, Alone DEF TypeOK
  <2> QED
    BY <2>1, <2>2 DEF DispatchInv
<1>12. CASE UNCHANGED vars
  BY <1>1, <1>12 DEF vars
<1> QED
  BY <1>2, <1>3, <1>4, <1>5, <1>6, <1>7, <1>8, <1>9, <1>10, <1>11, <1>12, <1>13
     DEF Next, AppGoesOn, LoopGoesOn

-------------------------------------------------------------------------------
LEMMA InitInv == Init => Inv
<1> SUFFICES ASSUME Init PROVE Inv
  OBVIOUS
<1>1. Live = {} /\ InHand = {}
  BY DEF Init, Live, InHand
<1>2. TypeOK
  <2>1. <<>> \in Seq(Nat) /\ <<>> \in Seq(Detectors)
    OBVIOUS
  <2> QED
    BY <2>1 DEF Init, TypeOK, Steps
<1>3. CallInv
  BY <1>1 DEF Init, CallInv
<1>4. DOMAIN detectors = {} /\ DOMAIN recv_queue = {} /\ DOMAIN rxq = {}
  BY DEF Init
<1>5. QueueInv
  BY <1>1, PythonBusAssumption DEF Init, QueueInv
<1>6. OrderInv
  BY <1>1, <1>4 DEF Init, OrderInv, Rising, After
<1>7. DispatchInv
  BY <1>4 DEF Init, DispatchInv
<1> QED
  BY <1>2, <1>3, <1>5, <1>6, <1>7 DEF Inv

LEMMA BusInvariant == Prompt => (Spec => []Inv)
<1> SUFFICES ASSUME Prompt PROVE Spec => []Inv
  OBVIOUS
<1>1. ASSUME Inv, [Next]_vars
      PROVE  Inv'
  BY <1>1, TypeStep, CallStep, QueueStep, OrderStep, DispatchStep DEF Inv
<1> QED
  BY <1>1, InitInv, PTL DEF Spec

(* No second consumer of the channel, and no call on a freed device. *)
THEOREM ListenerIsSoleConsumer == Prompt => (Spec => []SoleConsumer)
<1>1. ASSUME Inv
      PROVE  SoleConsumer
  BY <1>1 DEF Inv, CallInv, Live, SoleConsumer
<1> QED
  BY <1>1, BusInvariant, PTL

(* Between calls a bus that is started has its listener, a stopped one none. *)
THEOREM OneListenerBetweenCalls == Prompt => (Spec => []OneListener)
<1>1. ASSUME Inv
      PROVE  OneListener
  BY <1>1 DEF Inv, CallInv, OneListener
<1> QED
  BY <1>1, BusInvariant, PTL

(* Every frame that was read is returned, queued, in hand or counted among  *)
(* those taken out to make room, and no put fails.  How full the queue was  *)
(* when one was taken out is RoomIsMadeWhenFull.                            *)
THEOREM FramesAreAccounted == Prompt => (Spec => []FramesKept)
<1>1. ASSUME Inv
      PROVE  FramesKept
  <2>1. Cardinality(InHand) = IF InHand = {} THEN 0 ELSE 1
    <3>1. CASE InHand = {}
      BY <3>1, FS_EmptySet
    <3>2. CASE InHand # {}
      <4>1. InHand = {listener_thread}
        BY <1>1, <3>2 DEF Inv, CallInv, Live, InHand
      <4> QED
        BY <4>1, FS_Singleton
    <3> QED
      BY <3>1, <3>2
  <2> QED
    BY <1>1, <2>1 DEF Inv, QueueInv, FramesKept
<1> QED
  BY <1>1, BusInvariant, PTL

(* A frame is taken out only of a queue that was full when put_nowait()     *)
(* raised, but for what recv() took in between.                             *)
THEOREM RoomIsMadeWhenFull == Prompt => (Spec => DropsFromFull)
<1> SUFFICES ASSUME Prompt PROVE Spec => DropsFromFull
  OBVIOUS
<1> DEFINE Due == dropped' = dropped + 1 /\ Len(recv_queue) + (taken - full_at) = Cap
<1>1. ASSUME Inv, [Next]_vars, dropped' # dropped
      PROVE  Due
  <2> USE DEF lifecycle, listening, reading, adding, channel, Goto
  <2>1. PICK l \in Listeners : MakeRoomInQueue(l)
    BY <1>1 DEF Next, Open, Start, Stop, AppGoesOn, StartListener, JoinRaises, Join, JoinReturnsIf,
      StopChannel, CloseDevice, LoopGoesOn, TestStop, ReadFrame, ReadNothing, Put, PutAgain,
      PutNowait, CopyDetectors, CallDetector, CallNext, DetectorExits, DetectorStops, Dispatched,
      Recv, RecvTakes, add_detector, remove_detector, FrameArrives, vars
  <2>2. Len(recv_queue) + (taken - full_at) = Cap
    BY <1>1, <2>1 DEF Inv, QueueInv, MakeRoomInQueue, GiveUp
  <2>3. recv_queue \in Seq(Nat) /\ dropped \in Nat
    BY <1>1 DEF Inv, TypeOK
  <2>4. CASE recv_queue = <<>>
    <3>1. dropped' = dropped + (Len(recv_queue) - Len(<<>>))
      BY <2>1, <2>4 DEF MakeRoomInQueue, GiveUp
    <3> QED
      BY <1>1, <2>3, <2>4, <3>1
  <2>5. CASE recv_queue # <<>>
    <3>1. dropped' = dropped + (Len(recv_queue) - Len(Tail(recv_queue)))
      BY <2>1, <2>5 DEF MakeRoomInQueue, GiveUp
    <3>2. Len(recv_queue) - Len(Tail(recv_queue)) = 1
      BY <2>3, <2>5
    <3> QED
      BY <2>2, <3>1, <3>2
  <2> QED
    BY <2>4, <2>5
<1>2. Inv /\ [Next]_vars => [dropped' # dropped => Due]_vars
  BY <1>1
<1> HIDE DEF Due
<1>3. Spec => [][dropped' # dropped => Due]_vars
  BY <1>2, BusInvariant, PTL DEF Spec
<1> QED
  BY <1>3 DEF DropsFromFull, Due

(* Every detector is called with each frame that concerns it, and once. *)
THEOREM DetectorsCalledOnce == Prompt => (Spec => []CalledOnce)
<1>1. ASSUME Inv
      PROVE  CalledOnce
  <2> SUFFICES ASSUME NEW l \in Listeners, lpc[l] = "dispatch"
               PROVE  /\ \A i \in DOMAIN todo[l] : seen[todo[l][i]] < frame[l]
                      /\ todo[l] = <<>> => \A i \in DOMAIN detectors :
                           since[detectors[i]] < frame[l] => seen[detectors[i]] = frame[l]
    BY DEF CalledOnce
  <2>1. ASSUME todo[l] = <<>>, NEW i \in DOMAIN detectors, since[detectors[i]] < frame[l]
        PROVE  seen[detectors[i]] = frame[l]
    <3>1. DOMAIN todo[l] = {}
      BY <2>1
    <3>2. since[detectors[i]] \in Nat /\ frame[l] \in Nat
      BY <1>1 DEF Inv, TypeOK
    <3> QED
      BY <1>1, <2>1, <3>1, <3>2 DEF Inv, DispatchInv
  <2> QED
    BY <1>1, <2>1 DEF Inv, DispatchInv
<1> QED
  BY <1>1, BusInvariant, PTL

(* recv() never returns a frame that arrived before the one it returned     *)
(* last, whatever stops and restarts lie between.                           *)
THEOREM FramesReceivedInOrder == Prompt => (Spec => RecvInOrder)
<1>1. ASSUME Inv, [Next]_vars
      PROVE  [taken' # taken => newest' > newest]_vars
  <2> USE DEF lifecycle, listening, reading, adding, channel, Goto
  <2>1. CASE Recv
    <3>1. 1 \in DOMAIN recv_queue /\ newest' = recv_queue[1]
      BY <2>1 DEF Recv, RecvTakes
    <3>2. newest \in Nat /\ recv_queue[1] \in Nat
      BY <1>1, <3>1 DEF Inv, TypeOK
    <3>3. newest < recv_queue[1]
      BY <1>1, <3>1 DEF Inv, OrderInv
    <3> QED
      BY <3>1, <3>2, <3>3
  <2>2. CASE UNCHANGED taken
    BY <2>2
  <2>3. CASE Open \/ Start \/ Stop(FALSE) \/ Stop(TRUE) \/ AppGoesOn
    BY <2>2, <2>3 DEF Open, Start, Stop, AppGoesOn, StartListener, JoinRaises, Join,
                      JoinReturnsIf, StopChannel, CloseDevice
  <2>4. ASSUME NEW l \in Listeners,
               LoopGoesOn(l) \/ CallDetector(l) \/ DetectorExits(l) \/ DetectorStops(l)
        PROVE  UNCHANGED taken
    BY <2>4 DEF LoopGoesOn, CallDetector, DetectorExits, DetectorStops, TestStop, ReadFrame,
                ReadNothing, Put, MakeRoomInQueue, PutAgain, PutNowait, GiveUp, CopyDetectors,
                CallNext, Dispatched
  <2>5. CASE (\E d \in Detectors : add_detector(d) \/ remove_detector(d)) \/ FrameArrives
    BY <2>2, <2>5 DEF add_detector, remove_detector, FrameArrives
  <2>6. CASE UNCHANGED vars
    BY <2>6
  <2> QED
    BY <1>1, <2>1, <2>2, <2>3, <2>4, <2>5, <2>6 DEF Next
<1> QED
  BY <1>1, BusInvariant, PTL DEF Spec, RecvInOrder
===============================================================================
