------------------------------- MODULE PythonBus -------------------------------
(***************************************************************************)
(* class Bus of sdk/python/gsusb/bus.py: the listener thread that start()  *)
(* spawns and stop() joins, the queue it feeds for recv(), and the         *)
(* detectors it calls for every frame.                                     *)
(*                                                                         *)
(* One application thread opens, starts, stops and closes the bus; any     *)
(* thread may call recv() and change the detectors.  A step of a listener  *)
(* is one call that another thread can notice: Event.is_set(),             *)
(* gsusb_channel_recv(), a queue operation, the copy of the list of        *)
(* detectors, one detector.  The C library's queue is its abstraction,     *)
(* DropOldest; it and Queue(maxsize=512) have the same capacity.  Frames   *)
(* are represented by their arrival number.                                *)
(***************************************************************************)
EXTENDS Naturals, Sequences, FiniteSets, SequencesExt, DropOldest

CONSTANTS
  Listeners,   \* identities of listener threads; one that ended is used again
  Detectors,   \* the Detector objects
  NoOne, NotRunning,  \* _listener_thread is None; it is a thread that could not be started
  MaxFrames,   \* bound on the frames that arrive
  Prompt       \* every detector returns within the time-out of stop()'s join(), 2 s

ASSUME PythonBusAssumption ==
  /\ {NoOne, NotRunning} \cap Listeners = {}
  /\ Cap \in Nat \ {0} /\ MaxFrames \in Nat
  /\ Prompt \in BOOLEAN

VARIABLES
  opened,               \* _dev and _ch are set
  started, stop_event,  \* _started, _stop_event
  listener_thread,      \* _listener_thread
  detectors,            \* _detectors
  recv_queue,           \* _recv_queue
  apc, closing,         \* where the application is in start() or stop(); for close()
  lpc, frame, todo,     \* each listener: step, frame, detectors still to call
  exited,               \* history: a detector has ended the listener of the last start()
  ch_started, rxq,      \* the C channel: started, and its receive queue
  arrived,              \* history: frames that arrived
  read,                 \* history: frames listeners read
  taken, newest,        \* history: frames recv() returned, and the last of them
  full_at,              \* history: `taken` when a put found the queue full, till there is room
  dropped,              \* history: frames given up to make room in _recv_queue
  seen, since           \* history: the last frame each detector was called with;
                        \* the last frame that arrived before it was added

lifecycle == <<opened, started, stop_event, listener_thread, apc, closing>>
listening == <<lpc, frame, todo, exited, read, dropped, seen>>
reading == <<recv_queue, taken, newest, full_at>>
adding == <<detectors, since>>
channel == <<ch_started, rxq, arrived>>
vars == <<lifecycle, listening, reading, adding, channel>>

Live == {l \in Listeners : lpc[l] # "ended"}

Init ==
  /\ opened = FALSE /\ started = FALSE /\ stop_event = FALSE
  /\ listener_thread = NoOne
  /\ detectors = <<>> /\ recv_queue = <<>>
  /\ apc = "idle" /\ closing = FALSE
  /\ lpc = [l \in Listeners |-> "ended"]
  /\ frame = [l \in Listeners |-> 0]
  /\ todo = [l \in Listeners |-> <<>>]
  /\ exited = FALSE
  /\ ch_started = FALSE /\ rxq = <<>>
  /\ arrived = 0 /\ read = 0 /\ taken = 0 /\ newest = 0 /\ full_at = 0
  /\ dropped = 0
  /\ seen = [d \in Detectors |-> 0]
  /\ since = [d \in Detectors |-> 0]

-------------------------------------------------------------------------------
(* open() and start(). *)

(* One that finds no adapter, or no such channel, raises and changes nothing. *)
Open ==
  /\ apc = "idle" /\ ~opened
  /\ opened' = TRUE
  /\ UNCHANGED <<started, stop_event, listener_thread, apc, closing, listening, reading, adding,
                 channel>>

(* gsusb_channel_start() succeeds; otherwise start() raises. *)
Start ==
  /\ apc = "idle" /\ opened /\ ~started
  /\ ~ch_started
  /\ ch_started' = TRUE
  /\ apc' = "start"
  /\ UNCHANGED <<opened, started, stop_event, listener_thread, closing, listening, reading,
                 adding, rxq, arrived>>

(* The flags, and Thread.start(); when that raises, the flags stay.         *)
StartListener ==
  /\ apc = "start"
  /\ started' = TRUE
  /\ stop_event' = FALSE
  /\ exited' = FALSE
  /\ \/ \E l \in Listeners \ Live :
          /\ listener_thread' = l
          /\ lpc' = [lpc EXCEPT ![l] = "test"]
          /\ frame' = [frame EXCEPT ![l] = 0]
     \/ /\ listener_thread' = NotRunning
        /\ UNCHANGED <<lpc, frame>>
  /\ apc' = "idle"
  /\ UNCHANGED <<opened, closing, todo, read, dropped, seen, reading, adding, channel>>

-------------------------------------------------------------------------------
(* stop() and close(). *)

(* close() is stop() and then, unless stop() raises, gsusb_close().         *)
Stop(close) ==
  /\ apc = "idle" /\ opened
  /\ started \/ close
  /\ stop_event' = (stop_event \/ started)
  /\ closing' = close
  /\ apc' = IF started THEN "join" ELSE "close"
  /\ UNCHANGED <<opened, started, listener_thread, listening, reading, adding, channel>>

(* join() of a thread that was not started raises. *)
JoinRaises ==
  /\ apc = "join" /\ listener_thread = NotRunning
  /\ apc' = "idle" /\ closing' = FALSE
  /\ UNCHANGED <<opened, started, stop_event, listener_thread, listening, reading, adding, channel>>

JoinReturnsIf(done) ==
  /\ apc = "join" /\ listener_thread \in Listeners
  /\ done
  /\ listener_thread' = NoOne
  /\ apc' = "stop_channel"
  /\ UNCHANGED <<opened, started, stop_event, closing, listening, reading, adding, channel>>

Ended == lpc[listener_thread] = "ended"

(* A detector has been running for 2 s; nothing else keeps a listener from  *)
(* its next test of stop_event for so long.                                 *)
TimedOut == ~Prompt /\ lpc[listener_thread] = "dispatch" /\ todo[listener_thread] # <<>>

(* Mutants of Join: nobody waits; it has no time-out. *)
JoinSkipped == JoinReturnsIf(TRUE)

JoinForever == JoinReturnsIf(Ended)

(* join(timeout=2.0), which does not say which it was. *)
Join == JoinReturnsIf(Ended \/ TimedOut)

(* gsusb_channel_stop(). *)
StopChannel ==
  /\ apc = "stop_channel"
  /\ ch_started' = FALSE
  /\ started' = FALSE
  /\ apc' = IF closing THEN "close" ELSE "idle"
  /\ UNCHANGED <<opened, stop_event, listener_thread, closing, listening, reading, adding, rxq,
                 arrived>>

(* gsusb_close() stops the channel and frees its queue; _recv_queue stays.  *)
CloseDevice ==
  /\ apc = "close"
  /\ opened' = FALSE
  /\ ch_started' = FALSE /\ rxq' = <<>>
  /\ apc' = "idle" /\ closing' = FALSE
  /\ UNCHANGED <<started, stop_event, listener_thread, listening, reading, adding, arrived>>

-------------------------------------------------------------------------------
(* _listen_loop(). *)

Goto(l, step) == lpc' = [lpc EXCEPT ![l] = step]

TestStop(l) ==
  /\ lpc[l] = "test"
  /\ Goto(l, IF stop_event THEN "ended" ELSE "recv")
  /\ UNCHANGED <<lifecycle, frame, todo, exited, read, dropped, seen, reading, adding, channel>>

ReadFrame(l) ==
  /\ lpc[l] = "recv"
  /\ rxq # <<>>
  /\ frame' = [frame EXCEPT ![l] = Head(rxq)]
  /\ rxq' = Tail(rxq)
  /\ read' = read + 1
  /\ Goto(l, "put")
  /\ UNCHANGED <<lifecycle, todo, exited, dropped, seen, reading, adding, ch_started, arrived>>

(* No frame in 200 ms: round the loop.  GSUSB_ERR_INVALID: the thread ends. *)
ReadNothing(l) ==
  /\ lpc[l] = "recv"
  /\ \/ Goto(l, "test")
     \/ rxq = <<>> /\ ~ch_started /\ Goto(l, "ended")
  /\ UNCHANGED <<lifecycle, frame, todo, exited, read, dropped, seen, reading, adding, channel>>

(* put_nowait(frame); with the queue full the listener goes on at `full`.   *)
PutNowait(l, from, max, full) ==
  /\ lpc[l] = from
  /\ IF Len(recv_queue) < max
     THEN recv_queue' = Append(recv_queue, frame[l]) /\ Goto(l, "copy") /\ UNCHANGED full_at
     ELSE full_at' = taken /\ Goto(l, full) /\ UNCHANGED recv_queue
  /\ UNCHANGED <<lifecycle, frame, todo, exited, read, dropped, seen, taken, newest, adding,
                 channel>>

(* Mutant of Put: full is one short of it. *)
PutNearlyFull(l) == PutNowait(l, "put", Cap - 1, "full")

Put(l) == PutNowait(l, "put", Cap, "full")

GiveUp(l, queue) ==
  /\ lpc[l] = "full"
  /\ recv_queue' = queue
  /\ dropped' = dropped + (Len(recv_queue) - Len(queue))
  /\ full_at' = 0
  /\ Goto(l, "put_again")
  /\ UNCHANGED <<lifecycle, frame, todo, exited, read, seen, taken, newest, adding, channel>>

(* Mutant of MakeRoomInQueue: nothing is taken out. *)
GiveUpNothing(l) == GiveUp(l, recv_queue)

(* get_nowait(); recv() may have emptied the queue meanwhile. *)
MakeRoomInQueue(l) ==
  GiveUp(l, IF recv_queue = <<>> THEN <<>> ELSE Tail(recv_queue))

(* The second put_nowait(): full again, and the frame is given up.          *)
PutAgain(l) == PutNowait(l, "put_again", Cap, "copy")

(* list(self._detectors), under _detectors_lock. *)
CopyDetectors(l) ==
  /\ lpc[l] = "copy"
  /\ todo' = [todo EXCEPT ![l] = detectors]
  /\ Goto(l, "dispatch")
  /\ UNCHANGED <<lifecycle, frame, exited, read, dropped, seen, reading, adding, channel>>

CallNext(l, rest) ==
  /\ lpc[l] = "dispatch" /\ todo[l] # <<>>
  /\ seen' = [seen EXCEPT ![Head(todo[l])] = frame[l]]
  /\ todo' = [todo EXCEPT ![l] = rest]
  /\ UNCHANGED <<lifecycle, lpc, frame, exited, read, dropped, reading, adding, channel>>

(* Mutant of CallDetector: an exception ends the loop. *)
CallOrAbandon(l) == CallNext(l, Tail(todo[l])) \/ CallNext(l, <<>>)

(* matches() and on_detect(); an Exception they raise is logged. *)
CallDetector(l) == CallNext(l, Tail(todo[l]))

(* One that raises what is no Exception, as sys.exit() does: it leaves the  *)
(* loop and ends the thread, and neither the bus nor the channel learns.    *)
DetectorExits(l) ==
  /\ lpc[l] = "dispatch" /\ todo[l] # <<>>
  /\ seen' = [seen EXCEPT ![Head(todo[l])] = frame[l]]
  /\ todo' = [todo EXCEPT ![l] = <<>>]
  /\ exited' = (exited \/ listener_thread = l)
  /\ Goto(l, "ended")
  /\ UNCHANGED <<lifecycle, frame, read, dropped, reading, adding, channel>>

(* An on_detect() that calls stop(): join() of the current thread raises    *)
(* after _stop_event was set.                                               *)
DetectorStops(l) ==
  /\ lpc[l] = "dispatch" /\ todo[l] # <<>>
  /\ started /\ listener_thread = l
  /\ stop_event' = TRUE
  /\ UNCHANGED <<opened, started, listener_thread, apc, closing, listening, reading, adding,
                 channel>>

Dispatched(l) ==
  /\ lpc[l] = "dispatch" /\ todo[l] = <<>>
  /\ Goto(l, "test")
  /\ UNCHANGED <<lifecycle, frame, todo, exited, read, dropped, seen, reading, adding, channel>>

-------------------------------------------------------------------------------
(* Everything else that any thread may do. *)

RecvTakes(i) ==
  /\ opened
  /\ i \in DOMAIN recv_queue
  /\ newest' = recv_queue[i]
  /\ recv_queue' = RemoveAt(recv_queue, i)
  /\ taken' = taken + 1
  /\ UNCHANGED <<full_at, lifecycle, listening, adding, channel>>

(* Mutant of Recv: a LifoQueue. *)
RecvNewest == RecvTakes(Len(recv_queue))

(* recv() that returns a frame. *)
Recv == RecvTakes(1)

(* The application registers a detector once at a time. *)
add_detector(d) ==
  /\ \A i \in DOMAIN detectors : detectors[i] # d
  /\ detectors' = Append(detectors, d)
  /\ since' = [since EXCEPT ![d] = arrived]
  /\ UNCHANGED <<lifecycle, listening, reading, channel>>

remove_detector(d) ==
  /\ \E i \in DOMAIN detectors :
       detectors[i] = d /\ detectors' = RemoveAt(detectors, i)
  /\ UNCHANGED <<lifecycle, listening, reading, since, channel>>

(* The C library's reader thread pushes a frame. *)
FrameArrives ==
  /\ ch_started
  /\ arrived < MaxFrames
  /\ arrived' = arrived + 1
  /\ rxq' = Enqueue(rxq, arrived + 1)
  /\ UNCHANGED <<lifecycle, listening, reading, adding, ch_started>>

-------------------------------------------------------------------------------
(* A call in progress goes on. *)
AppGoesOn == StartListener \/ JoinRaises \/ Join \/ StopChannel \/ CloseDevice

(* A listener goes on, outside its detectors. *)
LoopGoesOn(l) ==
  \/ TestStop(l) \/ ReadFrame(l) \/ ReadNothing(l)
  \/ Put(l) \/ MakeRoomInQueue(l) \/ PutAgain(l) \/ CopyDetectors(l)
  \/ Dispatched(l)

Next ==
  \/ Open \/ Start \/ Stop(FALSE) \/ Stop(TRUE)
  \/ AppGoesOn
  \/ \E l \in Listeners :
       LoopGoesOn(l) \/ CallDetector(l) \/ DetectorExits(l) \/ DetectorStops(l)
  \/ Recv
  \/ \E d \in Detectors : add_detector(d) \/ remove_detector(d)
  \/ FrameArrives

Spec == Init /\ [][Next]_vars

(* Threads run; a detector returns only if it is Prompt. *)
Fairness ==
  /\ WF_vars(AppGoesOn)
  /\ \A l \in Listeners :
       /\ WF_vars(LoopGoesOn(l))
       /\ Prompt => WF_vars(CallDetector(l))

FairSpec == Spec /\ Fairness

-------------------------------------------------------------------------------
(* Properties. *)

(* The thread inside gsusb_channel_recv() is Bus's own listener, on a       *)
(* device that is open: no second consumer, and no call on a freed device.  *)
SoleConsumer == \A l \in Listeners : lpc[l] = "recv" => l = listener_thread /\ opened

(* Between calls, a bus that is not started has no listener and a stopped   *)
(* channel; one that is started has its listener, unless the thread could   *)
(* not be started or a detector has called stop() or ended the thread.      *)
OneListener ==
  apc = "idle" =>
    IF started
    THEN /\ ch_started
         /\ \/ listener_thread \in Live \/ listener_thread = NotRunning
            \/ stop_event \/ exited
    ELSE ~ch_started /\ Live = {}

(* Frames that were read and are not yet put. *)
InHand == {l \in Listeners : lpc[l] \in {"put", "full", "put_again"}}

(* The account of the frames read: each was returned by recv(), is in the   *)
(* queue or in the listener's hands, or was taken out to make room.  A      *)
(* frame is never given up because it could not be put: the second          *)
(* put_nowait() succeeds, for recv() only takes and nobody else puts.  The  *)
(* queue never has more than its 512, and what has just been put is its     *)
(* last.                                                                    *)
FramesKept ==
  /\ Len(recv_queue) <= Cap
  /\ read = taken + Len(recv_queue) + dropped + Cardinality(InHand)
  /\ \A l \in Listeners : lpc[l] \in {"copy", "dispatch"} /\ recv_queue # <<>> =>
       recv_queue[Len(recv_queue)] = frame[l]

(* bus.py: drop-oldest if a caller never drains it.  A frame is given up    *)
(* only if the queue was full when put_nowait() raised: what it has and what *)
(* recv() took since make up its 512.  A recv() in between has made the room *)
(* already, and costs one more frame; one that emptied the queue costs none. *)
DropsFromFull ==
  [][dropped' # dropped =>
       dropped' = dropped + 1 /\ Len(recv_queue) + (taken - full_at) = Cap]_vars

(* recv() returns frames in the order they arrived, across restarts.        *)
RecvInOrder == [][taken' # taken => newest' > newest]_vars

(* Whatever other detectors raise, add or remove, no detector is called     *)
(* twice with a frame or with one older than before, and when a frame has   *)
(* been dispatched every registered one that was there when it arrived has  *)
(* been called with it.                                                     *)
CalledOnce ==
  \A l \in Listeners : lpc[l] = "dispatch" =>
    /\ \A i \in DOMAIN todo[l] : seen[todo[l][i]] < frame[l]
    /\ todo[l] = <<>> => \A i \in DOMAIN detectors :
         since[detectors[i]] < frame[l] => seen[detectors[i]] = frame[l]

(* start(), stop() and close() return, even if a detector never does.       *)
CallsReturn == apc # "idle" ~> apc = "idle"
===============================================================================
