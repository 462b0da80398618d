-------------------------------- MODULE LuaBus --------------------------------
(***************************************************************************)
(* Bus of sdk/lua/gsusb/bus.lua.  There is one thread: recv() blocks, and  *)
(* poll() calls every detector for the frame that it returns.  sleep()     *)
(* polls until os.time(), which counts whole seconds, says so.             *)
(*                                                                         *)
(* Time passes in recv() only: detectors are taken to be instantaneous.    *)
(* What interleaves is what a detector does to the bus that is calling it: *)
(* it may add and remove detectors, itself among them, close the bus, or   *)
(* raise an error.  One that polls the bus itself is left out.             *)
(***************************************************************************)
EXTENDS Integers, FiniteSets, SequencesExt

CONSTANTS
  Detectors,  \* the callbacks
  Second,     \* ticks of the clock in a second
  Poll,       \* the ticks sleep() lets recv() wait, 200 ms
  Sleeps,     \* the seconds to sleep
  MaxTime,    \* bound on the clock
  MaxFrames,  \* bound on the frames that arrive
  MaxMoved    \* bound on the removals in one dispatch that move detectors past ipairs()

ASSUME LuaBusAssumption ==
  /\ Second \in Nat \ {0} /\ Poll \in 1..Second
  /\ Sleeps \subseteq Nat
  /\ MaxTime \in Nat /\ MaxFrames \in Nat /\ MaxMoved \in Nat

VARIABLES
  now,                     \* the real time, in ticks
  opened,                  \* _ctx, _dev and _ch are set
  detectors,               \* _detectors
  pc,                      \* "idle", "test" of sleep(), "recv" or "dispatch" of poll()
  sleeping, deadline,      \* the poll is sleep()'s; its deadline
  i,                       \* index of the detector that ipairs() had last
  began, asked,            \* history: when sleep() began, and its seconds
  frames,                  \* history: frames that arrived
  called, moved            \* history: the detectors called for this frame, and how many were
                           \* removed at or before the index of the last

clock == <<now, frames>>
sleep == <<sleeping, deadline, began, asked>>
dispatch == <<i, called, moved>>
vars == <<clock, opened, detectors, pc, sleep, dispatch>>

Registered == {detectors[k] : k \in DOMAIN detectors}

Init ==
  /\ now \in 0..(Second - 1)
  /\ frames = 0
  /\ opened = FALSE
  /\ detectors = <<>>
  /\ pc = "idle"
  /\ sleeping = FALSE /\ deadline = 0 /\ began = 0 /\ asked = 0
  /\ i = 0 /\ called = {} /\ moved = 0

os_time == now \div Second

(* Lua code is running that is not Bus's: the application, or a detector. *)
UserCode == pc = "idle" \/ (pc = "dispatch" /\ i > 0)

-------------------------------------------------------------------------------
(* open() and close(); an open() that fails releases what it got and raises. *)

Open ==
  /\ pc = "idle" /\ ~opened
  /\ opened' = TRUE
  /\ UNCHANGED <<clock, detectors, pc, sleep, dispatch>>

Close ==
  /\ UserCode /\ opened
  /\ opened' = FALSE
  /\ UNCHANGED <<clock, detectors, pc, sleep, dispatch>>

-------------------------------------------------------------------------------
(* The detectors. *)

AddTo(d, list) ==
  /\ UserCode
  /\ d \notin Registered
  /\ detectors' = list
  /\ UNCHANGED <<clock, opened, pc, sleep, dispatch>>

(* Mutant of add_detector: table.insert() at the front. *)
add_first(d) == AddTo(d, <<d>> \o detectors)

(* table.insert() at the end; no application adds a detector twice. *)
add_detector(d) == AddTo(d, Append(detectors, d))

(* table.remove() moves the detectors behind it forward: one of them past   *)
(* ipairs(), if it was at or before the one that is running.                *)
remove_detector(d) ==
  /\ UserCode
  /\ \E k \in DOMAIN detectors :
       /\ detectors[k] = d /\ detectors' = RemoveAt(detectors, k)
       /\ moved' = IF pc = "dispatch" /\ k <= i THEN moved + 1 ELSE moved
       /\ moved' <= MaxMoved
  /\ UNCHANGED <<clock, opened, pc, sleep, i, called>>

-------------------------------------------------------------------------------
(* poll(timeout_ms). *)

PollCall ==
  /\ pc = "idle" /\ opened
  /\ pc' = "recv"
  /\ sleeping' = FALSE
  /\ UNCHANGED <<clock, opened, detectors, deadline, began, asked, dispatch>>

(* The end of a poll: back to sleep(), or to the application. *)
PollDone == pc' = IF sleeping THEN "test" ELSE "idle"

(* Time passes while recv() has no frame, up to its time-out. *)
Elapse(t) ==
  /\ now + t <= MaxTime
  /\ now' = now + t

(* recv() returns a frame as soon as there is one, after t ticks. *)
RecvFrame(t) ==
  /\ pc = "recv"
  /\ frames < MaxFrames
  /\ Elapse(t)
  /\ frames' = frames + 1
  /\ pc' = "dispatch"
  /\ i' = 0 /\ called' = {} /\ moved' = 0
  /\ UNCHANGED <<opened, detectors, sleep>>

RecvTimeout ==
  /\ pc = "recv"
  /\ Elapse(Poll)
  /\ PollDone
  /\ UNCHANGED <<frames, opened, detectors, sleep, dispatch>>

(* recv() fails, or a detector raises: the error leaves poll() and sleep(). *)
Raise ==
  /\ pc = "recv" \/ (pc = "dispatch" /\ i > 0)
  /\ pc' = "idle"
  /\ UNCHANGED <<clock, opened, detectors, sleep, dispatch>>

(* ipairs() looks at the table as it is now. *)
CallDetector ==
  /\ pc = "dispatch"
  /\ i + 1 \in DOMAIN detectors
  /\ i' = i + 1
  /\ called' = called \cup {detectors[i + 1]}
  /\ UNCHANGED <<clock, opened, detectors, pc, sleep, moved>>

Dispatched ==
  /\ pc = "dispatch"
  /\ i + 1 \notin DOMAIN detectors
  /\ PollDone
  /\ UNCHANGED <<clock, opened, detectors, sleep, dispatch>>

-------------------------------------------------------------------------------
(* sleep(seconds). *)

SleepCall(s) ==
  /\ pc = "idle"
  /\ pc' = "test"
  /\ sleeping' = TRUE
  /\ deadline' = os_time + s
  /\ began' = now /\ asked' = s
  /\ UNCHANGED <<clock, opened, detectors, dispatch>>

(* The loop goes on with another poll, which raises on a closed bus, or     *)
(* sleep() returns.                                                         *)
TestUnless(over) ==
  /\ pc = "test"
  /\ pc' = IF over \/ ~opened THEN "idle" ELSE "recv"
  /\ UNCHANGED <<clock, opened, detectors, sleep, dispatch>>

(* Mutant of SleepTest: a second less. *)
SleepOneLess == TestUnless(os_time + 1 >= deadline)

SleepTest == TestUnless(os_time >= deadline)

Next ==
  \/ Open \/ Close
  \/ \E d \in Detectors : add_detector(d) \/ remove_detector(d)
  \/ PollCall
  \/ \E t \in 0..Poll : RecvFrame(t)
  \/ RecvTimeout
  \/ CallDetector \/ Dispatched
  \/ Raise
  \/ \E s \in Sleeps : SleepCall(s)
  \/ SleepTest

Spec == Init /\ [][Next]_vars

-------------------------------------------------------------------------------
(* Properties. *)

(* bus.lua says of poll(): dispatched to every registered detector if a     *)
(* frame arrived.  That is so of those added meanwhile, too, but each one   *)
(* that was removed at or before the one running, itself for example, may   *)
(* cost another its call: ipairs() passes over what moved up.  No more than *)
(* that many are registered and not called when poll() is done.             *)
AllCalled == [][Dispatched => Cardinality(Registered \ called) <= moved]_vars

(* sleep() lasts as long as asked on a bus however busy: it does not return *)
(* a second or more early, though frames end its polls at once, nor as much *)
(* as a poll late.                                                          *)
SleepsAsAsked ==
  [][pc = "test" /\ pc' = "idle" /\ opened =>
       now - began > (asked - 1) * Second /\ now - began < asked * Second + Poll]_vars
===============================================================================
