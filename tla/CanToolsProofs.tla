---------------------------- MODULE CanToolsProofs ----------------------------
(***************************************************************************)
(* Theorems about CanTools, for any adapters, ids, frames, repetitions and *)
(* capacity of the receive queue.                                          *)
(***************************************************************************)
EXTENDS CanTools, Integers, SequenceTheorems, FiniteSetTheorems, TLAPS

-------------------------------------------------------------------------------
(* Where a tool can be. *)

Calls(t) == {main[t][k] : k \in DOMAIN main[t]}

Looping == {"loop", "recv", "reply"}

(* A tool is at one of its calls, or inside its loop. *)
Place ==
  \/ tool = "none" /\ pc = "exited"
  \/ tool \in DOMAIN main /\ pc \in Calls(tool)
  \/ tool = "dump" /\ pc = "recv"
  \/ tool = "react" /\ pc \in {"recv", "reply"}

LEMMA MainCalls ==
  /\ DOMAIN main = {"info", "dump", "send", "react"}
  /\ main["info"] = info_main /\ main["dump"] = dump_main
  /\ main["send"] = send_main /\ main["react"] = react_main
BY DEF main

(* No main() makes a call twice, so a call determines the one after it.     *)
LEMMA AfterCall ==
  ASSUME tool \in DOMAIN main,
         NEW k \in DOMAIN main[tool], pc = main[tool][k]
  PROVE  After = main[tool][k + 1]
<1>1. \A j \in DOMAIN main[tool] : main[tool][j] = pc => j = k
  <2>1. CASE tool = "info"
    BY <2>1, MainCalls DEF info_main
  <2>2. CASE tool = "dump"
    BY <2>2, MainCalls DEF dump_main
  <2>3. CASE tool = "send"
    BY <2>3, MainCalls DEF send_main
  <2>4. CASE tool = "react"
    BY <2>4, MainCalls DEF react_main
  <2> QED
    BY <2>1, <2>2, <2>3, <2>4, MainCalls
<1>2. (CHOOSE j \in DOMAIN main[tool] : main[tool][j] = pc) = k
  BY <1>1
<1> QED
  BY <1>2 DEF After

(* What follows the calls at which a channel becomes live or stops.         *)
LEMMA AfterIs ==
  ASSUME tool \in DOMAIN main, pc \in Calls(tool), pc # "close"
  PROVE  /\ After \in Calls(tool)
         /\ pc = "start" => After \in {"signal", "loop"}
         /\ pc = "signal" => After = "loop"
         /\ pc = "loop" => After = "stop"
         /\ pc = "stop" => After = "close"
         /\ After = "stop" => pc = "loop"
         /\ After = "close" => pc \in {"stop", "report"}
<1>1. PICK k \in DOMAIN main[tool] : pc = main[tool][k]
  BY DEF Calls
<1>2. After = main[tool][k + 1]
  BY <1>1, AfterCall
<1>3. CASE tool = "info"
  BY <1>1, <1>2, <1>3, MainCalls DEF info_main, Calls
<1>4. CASE tool = "dump"
  BY <1>1, <1>2, <1>4, MainCalls DEF dump_main, Calls
<1>5. CASE tool = "send"
  BY <1>1, <1>2, <1>5, MainCalls DEF send_main, Calls
<1>6. CASE tool = "react"
  BY <1>1, <1>2, <1>6, MainCalls DEF react_main, Calls
<1> QED
  BY <1>3, <1>4, <1>5, <1>6, MainCalls

LEMMA LoopCalls ==
  /\ \A t \in DOMAIN main : "args" \in Calls(t)
  /\ \A t \in {"dump", "send", "react"} : {"loop", "stop"} \subseteq Calls(t)
  /\ "close" \in Calls("info") /\ "loop" \notin Calls("info")
<1>1. /\ main["info"][1] = "args" /\ main["dump"][1] = "args"
      /\ main["send"][1] = "args" /\ main["react"][1] = "args"
      /\ 1 \in DOMAIN main["info"] /\ 1 \in DOMAIN main["dump"]
      /\ 1 \in DOMAIN main["send"] /\ 1 \in DOMAIN main["react"]
  BY MainCalls DEF info_main, dump_main, send_main, react_main
<1>2. /\ 10 \in DOMAIN main["dump"] /\ main["dump"][10] = "loop"
      /\ 11 \in DOMAIN main["dump"] /\ main["dump"][11] = "stop"
      /\ 9 \in DOMAIN main["send"] /\ main["send"][9] = "loop"
      /\ 10 \in DOMAIN main["send"] /\ main["send"][10] = "stop"
      /\ 8 \in DOMAIN main["react"] /\ main["react"][8] = "loop"
      /\ 9 \in DOMAIN main["react"] /\ main["react"][9] = "stop"
  BY MainCalls DEF dump_main, send_main, react_main
<1>3. 5 \in DOMAIN main["info"] /\ main["info"][5] = "close"
  BY MainCalls DEF info_main
<1>4. "loop" \notin Calls("info")
  BY MainCalls DEF Calls, info_main
<1> QED
  BY <1>1, <1>2, <1>3, <1>4, MainCalls DEF Calls

LEMMA PlaceStep == Place /\ [Next]_vars => Place'
<1> SUFFICES ASSUME Place, [Next]_vars PROVE Place'
  OBVIOUS
<1> USE DEF Place
<1>1. ASSUME Exit PROVE Place'
  BY <1>1 DEF Exit
<1>2. ASSUME Goto(After), tool \in DOMAIN main, pc \in Calls(tool), pc # "close" PROVE Place'
  BY <1>2, AfterIs DEF Goto
<1>3. ASSUME NEW t \in DOMAIN main, Run(t) PROVE Place'
  BY <1>3, LoopCalls DEF Run
<1>4. CASE Check
  BY <1>4, <1>1, <1>2 DEF Check
<1>5. CASE gsusb_tool_open
  BY <1>5, <1>1, <1>2 DEF gsusb_tool_open
<1>6. CASE Start
  BY <1>6, <1>1, <1>2 DEF Start
<1>7. CASE InstallHandler
  BY <1>7, <1>2 DEF InstallHandler
<1>8. CASE Stop
  BY <1>8, <1>2 DEF Stop
<1>9. CASE SendDone
  BY <1>9, <1>2 DEF SendDone
<1>10. CASE Report
  <2>1. tool = "info"
    BY <1>10, MainCalls DEF Report, Calls, dump_main, send_main, react_main
  <2> QED
    BY <1>10, <2>1, MainCalls, LoopCalls DEF Report, Goto
<1>11. CASE TestStop
  BY <1>11, MainCalls, LoopCalls DEF TestStop, Goto
<1>12. CASE RecvFrame \/ RecvNothing
  <2>1. pc = "recv"
    BY <1>12 DEF RecvFrame, RecvNothing
  <2>2. tool \in {"dump", "react"}
    BY <2>1, MainCalls DEF Calls, info_main, dump_main, send_main, react_main
  <2>3. tool' = tool /\ pc' \in {"loop", "reply"} /\ (pc' = "reply" => tool = "react")
    BY <1>12 DEF RecvFrame, RecvNothing, Goto
  <2> QED
    BY <2>2, <2>3, MainCalls, LoopCalls
<1>13. CASE Reply
  <2>1. pc = "reply" /\ tool' = tool /\ pc' = "loop"
    BY <1>13 DEF Reply, Goto
  <2>2. tool = "react"
    BY <2>1, MainCalls DEF Calls, info_main, dump_main, send_main, react_main
  <2> QED
    BY <2>1, <2>2, MainCalls, LoopCalls
<1>14. CASE do_scan \/ Close \/ Die
  BY <1>14, <1>1 DEF do_scan, Close, Die
<1>15. CASE OneId \/ SendFrame \/ SendFails \/ on_sigint
  BY <1>15 DEF OneId, SendFrame, SendFails, on_sigint
<1>16. CASE FrameArrives \/ FrameLeaves
  BY <1>16 DEF FrameArrives, FrameLeaves
<1>17. ASSUME NEW a \in Adapters, Unplug(a) PROVE Place'
  BY <1>17 DEF Unplug
<1>18. CASE UNCHANGED vars
  BY <1>18 DEF vars
<1> QED
  BY <1>3, <1>4, <1>5, <1>6, <1>7, <1>8, <1>9, <1>10, <1>11, <1>12, <1>13, <1>14,
     <1>15, <1>16, <1>17, <1>18 DEF Next, ToolStep

-------------------------------------------------------------------------------
(* What a tool leaves on its adapter. *)

QuietInv == Place /\ LeftQuiet

LEMMA QuietStep == QuietInv /\ [Next]_vars => LeftQuiet'
<1> SUFFICES ASSUME QuietInv, [Next]_vars PROVE LeftQuiet'
  OBVIOUS
<1> USE DEF LeftQuiet, QuietInv
<1> DEFINE On == {"signal", "loop", "recv", "reply", "stop"}
<1>1. ASSUME pc \notin On \/ adapter \notin live \ left, UNCHANGED modes PROVE LeftQuiet'
  BY <1>1 DEF modes
<1>2. ASSUME UNCHANGED modes, adapter' = adapter, pc' \in On PROVE LeftQuiet'
  BY <1>2 DEF modes
<1>3. CASE \E t \in DOMAIN main : Run(t)
  <2>1. tool = "none"
    BY <1>3 DEF Run
  <2>2. pc = "exited"
    BY <2>1, MainCalls DEF Place
  <2> QED
    BY <1>1, <1>3, <2>2 DEF Run
<1>4. CASE Check \/ OneId \/ gsusb_tool_open \/ do_scan \/ Report \/ Close
  BY <1>1, <1>4 DEF Check, OneId, gsusb_tool_open, do_scan, Report, Close
<1>5. CASE Start
  <2>1. tool \in DOMAIN main /\ pc \in Calls(tool) /\ pc = "start"
    BY <1>5, MainCalls DEF Start, Place
  <2>2. After \in On
    BY <2>1, AfterIs
  <2>3. live \ left = {}
    BY <2>1
  <2>4. CASE /\ live' = live \cup {adapter} /\ left' = left \ {adapter}
             /\ Goto(After) /\ UNCHANGED opening
    BY <2>2, <2>3, <2>4 DEF Goto, opening
  <2>5. CASE UNCHANGED modes \/ (live' = live \cup {adapter} /\ left' = left \cup {adapter})
    BY <2>3, <2>5 DEF modes
  <2> QED
    BY <1>5, <2>4, <2>5 DEF Start
<1>6. CASE InstallHandler
  <2>1. After = "loop"
    BY <1>6, AfterIs, MainCalls DEF InstallHandler, Place
  <2> QED
    BY <1>2, <1>6, <2>1 DEF InstallHandler, Goto, opening
<1>7. CASE Stop
  <2>1. \/ live' = live \ {adapter} /\ left' = left \ {adapter}
        \/ left' = left \cup ({adapter} \cap live) /\ live' = live
    BY <1>7 DEF Stop
  <2> QED
    BY <2>1
<1>8. CASE TestStop
  BY <1>2, <1>8 DEF TestStop, Goto, opening
<1>9. CASE RecvFrame \/ RecvNothing \/ Reply
  <2>1. UNCHANGED modes /\ adapter' = adapter /\ pc' \in {"loop", "reply"}
    BY <1>9 DEF RecvFrame, RecvNothing, Reply, Goto, opening
  <2> QED
    BY <1>2, <2>1
<1>10. CASE SendFrame \/ SendFails
  BY <1>2, <1>10 DEF SendFrame, SendFails, opening
<1>11. CASE SendDone
  <2>1. After = "stop"
    BY <1>11, AfterIs, MainCalls DEF SendDone, Place
  <2> QED
    BY <1>2, <1>11, <2>1 DEF SendDone, Goto, opening
<1>12. CASE Die
  BY <1>12 DEF Die
<1>13. CASE on_sigint
  BY <1>13 DEF on_sigint, modes, opening
<1>14. CASE FrameArrives \/ FrameLeaves
  BY <1>14 DEF FrameArrives, FrameLeaves, modes, opening
<1>15. ASSUME NEW a \in Adapters, Unplug(a) PROVE LeftQuiet'
  BY <1>15 DEF Unplug
<1>16. CASE UNCHANGED vars
  BY <1>16 DEF vars, modes, opening
<1> QED
  BY <1>3, <1>4, <1>5, <1>6, <1>7, <1>8, <1>9, <1>10, <1>11, <1>12, <1>13, <1>14, <1>15,
     <1>16 DEF Next, ToolStep

(* However a tool that started its channel ends, and whatever an earlier    *)
(* one left, the channel is stopped then, unless the tool was killed or a   *)
(* request failed; a channel that one of those left live may stay so until  *)
(* it is started again (the order of calls in each main() of driver/tools). *)
THEOREM ToolsLeaveQuiet == Spec => []LeftQuiet
<1>1. Init => QuietInv
  BY DEF Init, QuietInv, Place, LeftQuiet
<1>2. QuietInv /\ [Next]_vars => QuietInv'
  BY PlaceStep, QuietStep DEF QuietInv
<1>3. QuietInv => LeftQuiet
  BY DEF QuietInv
<1> QED
  BY <1>1, <1>2, <1>3, PTL DEF Spec

-------------------------------------------------------------------------------
(* What gsusb_send sends.  First, of numbers and sequences. *)

(* The place on the command line of the frame after r rounds and k more.    *)
LEMMA PlaceInRound ==
  ASSUME NEW m \in Nat, NEW n \in Nat \ {0}, NEW k \in 0..(n - 1)
  PROVE  (m * n + k) % n = k
<1> DEFINE a == m * n + k
           q == a \div n
<1>1. n \in Nat /\ n > 0 /\ a \in Nat
  OBVIOUS
<1> HIDE DEF a
<1> SUFFICES a % n = k
  BY DEF a
<1>2. a % n \in 0..(n - 1)
  BY <1>1
<1>3. a = n * q + (a % n)
  BY <1>1
<1>4. q \in Nat
  BY <1>1
<1> HIDE DEF q
<1>5. n * m + k = n * q + (a % n)
  BY <1>1, <1>3 DEF a
<1>6. CASE q > m
  <2>1. n * q >= n * (m + 1)
    BY <1>1, <1>4, <1>6
  <2>2. n * (m + 1) = n * m + n
    BY <1>1
  <2> QED
    BY <1>1, <1>2, <1>4, <1>5, <2>1, <2>2
<1>7. CASE q < m
  <2>1. n * m >= n * (q + 1)
    BY <1>1, <1>4, <1>7
  <2>2. n * (q + 1) = n * q + n
    BY <1>1, <1>4
  <2> QED
    BY <1>1, <1>2, <1>4, <1>5, <2>1, <2>2
<1>8. CASE q = m
  BY <1>1, <1>2, <1>4, <1>5, <1>8
<1> QED
  BY <1>1, <1>4, <1>6, <1>7, <1>8

(* A round that is begun fits.                                              *)
LEMMA RoundFits ==
  ASSUME NEW m \in Nat, NEW n \in Nat \ {0}, NEW p \in Nat, m < p
  PROVE  m * n + n <= p * n
<1>1. (m + 1) * n <= p * n
  OBVIOUS
<1> QED
  BY <1>1

LEMMA PrefixIs ==
  ASSUME NEW s \in Seq(Nat), NEW t \in Seq(Nat)
  PROVE  IsPrefix(s, t) <=> Len(s) <= Len(t) /\ \A k \in 1..Len(s) : s[k] = t[k]
<1>1. ASSUME Len(s) <= Len(t)
      PROVE  /\ SubSeq(s, 1, Len(s)) = [k \in 1..Len(s) |-> s[k]]
             /\ SubSeq(t, 1, Len(s)) = [k \in 1..Len(s) |-> t[k]]
  BY <1>1
<1> QED
  BY <1>1 DEF IsPrefix

(* The adapter sends the frame at the head of its queue.                    *)
LEMMA HeadMoves ==
  ASSUME NEW s \in Seq(Nat), NEW t \in Seq(Nat), t # <<>>
  PROVE  /\ Head(t) \in Nat /\ Tail(t) \in Seq(Nat)
         /\ Append(s, Head(t)) \in Seq(Nat)
         /\ Append(s, Head(t)) \o Tail(t) = s \o t
<1>1. Head(t) \in Nat /\ Tail(t) \in Seq(Nat) /\ Append(s, Head(t)) \in Seq(Nat)
  OBVIOUS
<1>2. Append(s, Head(t)) \o Tail(t) = s \o t
  OBVIOUS
<1> QED
  BY <1>1, <1>2

(* Before a channel is started nothing has been sent. *)
Unsent == handed = <<>> /\ txq = <<>> /\ wire = <<>> /\ r = 0 /\ i = 1 /\ ret = 0

Started == {"signal", "loop", "recv", "reply", "stop", "close"}

(* In round r the frames of r rounds and of the places before i have been   *)
(* handed over, as long as there is no error, and never others.             *)
RoundInv ==
  /\ r \in 0..repeat /\ i \in 1..nframes /\ ret \in {0, 1}
  /\ r = repeat => i = 1
  /\ handed \in Seq(Nat) /\ wire \in Seq(Nat) /\ txq \in Seq(Nat)
  /\ Len(handed) <= repeat * nframes
  /\ \A k \in 1..Len(handed) : handed[k] = ((k - 1) % nframes) + 1
  /\ ret = 0 => Len(handed) = r * nframes + (i - 1)

(* What left the queue went to the bus, until the channel is reset.         *)
BusInv ==
  /\ pc \in {"stop", "close"} /\ ret = 0 => r = repeat
  /\ plugged /\ pc # "close" => wire \o txq = handed
  /\ Len(wire) <= Len(handed) /\ \A k \in 1..Len(wire) : wire[k] = handed[k]

SendInv ==
  /\ Place
  /\ pc \notin Started => Unsent
  /\ tool = "send" => RoundInv /\ BusInv

LEMMA UnsentStep == SendInv /\ [Next]_vars => (pc \notin Started => Unsent)'
<1> SUFFICES ASSUME SendInv, [Next]_vars, pc' \notin Started PROVE Unsent'
  OBVIOUS
<1> USE DEF SendInv, Started
<1>1. ASSUME Exit PROVE Unsent'
  BY <1>1 DEF Exit, Unsent
<1>2. ASSUME pc \notin Started, UNCHANGED sending, UNCHANGED transmitting PROVE Unsent'
  BY <1>2 DEF Unsent, sending, transmitting
<1>3. CASE \E t \in DOMAIN main : Run(t)
  <2>1. pc \notin Started
    BY <1>3, MainCalls DEF Run, Place
  <2> QED
    BY <1>2, <1>3, <2>1 DEF Run
<1>4. CASE Check \/ OneId \/ gsusb_tool_open \/ do_scan \/ Report \/ Close
  BY <1>1, <1>2, <1>4 DEF Check, OneId, gsusb_tool_open, do_scan, Report, Close
<1>5. CASE Start
  <2>1. After \in Started
    BY <1>5, AfterIs, MainCalls DEF Start, Place
  <2> QED
    BY <1>1, <1>5, <2>1 DEF Start, Goto
<1>6. CASE InstallHandler \/ Stop \/ SendDone
  <2>1. pc' = After /\ pc \in {"signal", "loop", "stop"}
    BY <1>6 DEF InstallHandler, Stop, SendDone, Goto
  <2>2. After \in Started
    BY <2>1, AfterIs, MainCalls DEF Place
  <2> QED
    BY <2>1, <2>2
<1>7. CASE TestStop \/ RecvFrame \/ RecvNothing \/ Reply
  <2>1. pc' \in Started
    BY <1>7 DEF TestStop, RecvFrame, RecvNothing, Reply, Goto
  <2> QED
    BY <2>1
<1>8. CASE SendFrame \/ SendFails
  BY <1>8 DEF SendFrame, SendFails
<1>9. CASE Die
  BY <1>1, <1>9 DEF Die
<1>10. CASE on_sigint
  BY <1>2, <1>10 DEF on_sigint
<1>11. CASE FrameArrives \/ FrameLeaves
  BY <1>11 DEF FrameArrives, FrameLeaves, OnBus
<1>12. ASSUME NEW a \in Adapters, Unplug(a) PROVE Unsent'
  <2>1. pc \notin Started
    BY <1>12 DEF Unplug
  <2> QED
    BY <1>12, <2>1 DEF Unplug, Unsent, sending
<1>13. CASE UNCHANGED vars
  BY <1>2, <1>13 DEF vars
<1> QED
  BY <1>3, <1>4, <1>5, <1>6, <1>7, <1>8, <1>9, <1>10, <1>11, <1>12, <1>13
     DEF Next, ToolStep

(* The frame at place i is the next one. *)
LEMMA NextInRound ==
  ASSUME RoundInv, CanToolsAssumption, r < repeat, ret = 0
  PROVE  /\ Append(handed, i) \in Seq(Nat) /\ Append(txq, i) \in Seq(Nat)
         /\ Len(Append(handed, i)) = r * nframes + i
         /\ Len(Append(handed, i)) <= repeat * nframes
         /\ \A k \in 1..Len(Append(handed, i)) :
              Append(handed, i)[k] = ((k - 1) % nframes) + 1
<1>1. /\ r \in Nat /\ i \in Nat /\ nframes \in Nat \ {0} /\ repeat \in Nat /\ i <= nframes
      /\ i - 1 \in 0..(nframes - 1) /\ r * nframes \in Nat
  BY DEF RoundInv, CanToolsAssumption
<1>2. handed \in Seq(Nat) /\ txq \in Seq(Nat) /\ Len(handed) = r * nframes + (i - 1)
  BY DEF RoundInv
<1>3. /\ Append(handed, i) \in Seq(Nat) /\ Append(txq, i) \in Seq(Nat)
      /\ Len(Append(handed, i)) = Len(handed) + 1
      /\ \A k \in 1..Len(handed) : Append(handed, i)[k] = handed[k]
      /\ Append(handed, i)[Len(handed) + 1] = i
  BY <1>1, <1>2
<1>4. Len(handed) + 1 = r * nframes + i
  BY <1>1, <1>2
<1>5. r * nframes + nframes <= repeat * nframes
  BY <1>1, RoundFits
<1>6. r * nframes + i <= repeat * nframes
  <2>1. repeat * nframes \in Nat
    BY <1>1
  <2> QED
    BY <1>1, <1>5, <2>1
<1>7. (Len(handed) % nframes) + 1 = i
  <2>1. (r * nframes + (i - 1)) % nframes = i - 1
    BY <1>1, PlaceInRound
  <2>2. Len(handed) % nframes = i - 1
    BY <1>2, <2>1
  <2> QED
    BY <1>1, <2>2
<1>8. ASSUME NEW k \in 1..Len(Append(handed, i))
      PROVE  Append(handed, i)[k] = ((k - 1) % nframes) + 1
  <2>1. CASE k \in 1..Len(handed)
    BY <1>3, <2>1 DEF RoundInv
  <2>2. CASE k = Len(handed) + 1
    <3>1. k - 1 = Len(handed)
      BY <1>2, <2>2
    <3> QED
      BY <1>3, <1>7, <2>2, <3>1
  <2> QED
    BY <1>2, <1>3, <2>1, <2>2
<1> QED
  BY <1>3, <1>4, <1>6, <1>8

LEMMA SameSequence ==
  ASSUME NEW s \in Seq(Nat), NEW t \in Seq(Nat), Len(s) = Len(t),
         \A k \in 1..Len(s) : s[k] = t[k]
  PROVE  s = t
OBVIOUS

LEMMA PrefixOfConcat ==
  ASSUME NEW s \in Seq(Nat), NEW t \in Seq(Nat)
  PROVE  Len(s) <= Len(s \o t) /\ \A k \in 1..Len(s) : (s \o t)[k] = s[k]
OBVIOUS

LEMMA ConcatAppend ==
  ASSUME NEW s \in Seq(Nat), NEW t \in Seq(Nat), NEW e \in Nat
  PROVE  s \o Append(t, e) = Append(s \o t, e)
OBVIOUS

(* What is appended on both sides, or moves from queue to bus, keeps them.  *)
LEMMA BusKept ==
  ASSUME RoundInv, wire \o txq = handed, Len(wire) <= Len(handed), NEW n \in Nat,
         \A k \in 1..Len(wire) : wire[k] = handed[k]
  PROVE  /\ wire \o Append(txq, n) = Append(handed, n)
         /\ Len(wire) <= Len(Append(handed, n))
         /\ \A k \in 1..Len(wire) : wire[k] = Append(handed, n)[k]
<1>1. handed \in Seq(Nat) /\ wire \in Seq(Nat) /\ txq \in Seq(Nat)
  BY DEF RoundInv
<1>2. wire \o Append(txq, n) = Append(wire \o txq, n)
  BY <1>1, ConcatAppend
<1>3. Len(Append(handed, n)) = Len(handed) + 1
  BY <1>1
<1>4. \A k \in 1..Len(handed) : Append(handed, n)[k] = handed[k]
  BY <1>1
<1> QED
  BY <1>1, <1>2, <1>3, <1>4

(* gsusb_channel_send() of the frame at place i, with or without success.   *)
LEMMA HandStep ==
  ASSUME RoundInv, BusInv, CanToolsAssumption, pc = "loop", pc' = "loop", MoreRounds,
         Hand(i), UNCHANGED plugged,
         NEW ok \in BOOLEAN,
         ok => ret' = ret /\ IF i < nframes THEN i' = i + 1 /\ r' = r ELSE i' = 1 /\ r' = r + 1,
         ~ok => ret' = 1 /\ i' = 1 /\ r' = r + 1
  PROVE  RoundInv' /\ BusInv'
<1>1. r < repeat /\ ret = 0 /\ plugged
  BY DEF MoreRounds, Hand
<1>2. handed' = Append(handed, i) /\ txq' = Append(txq, i) /\ wire' = wire
  BY DEF Hand
<1>3. /\ r \in 0..repeat /\ i \in 1..nframes /\ nframes \in Nat \ {0} /\ repeat \in Nat
      /\ wire \in Seq(Nat)
  BY DEF RoundInv, CanToolsAssumption
<1>4. /\ r' \in 0..repeat /\ i' \in 1..nframes /\ ret' \in {0, 1}
      /\ r' = repeat => i' = 1
  BY <1>1, <1>3
<1>5. ret' = 0 => Len(handed') = r' * nframes + (i' - 1)
  <2>1. Len(handed') = r * nframes + i
    BY <1>1, <1>2, NextInRound
  <2>2. CASE i < nframes
    BY <1>1, <1>3, <2>1, <2>2
  <2>3. CASE i = nframes
    <3>1. (r + 1) * nframes = r * nframes + nframes
      BY <1>3
    <3> QED
      BY <1>1, <1>3, <2>1, <2>3, <3>1
  <2> QED
    BY <1>3, <2>2, <2>3
<1>6. RoundInv'
  BY <1>1, <1>2, <1>3, <1>4, <1>5, NextInRound DEF RoundInv
<1>7. BusInv'
  <2>1. /\ wire \o txq = handed /\ Len(wire) <= Len(handed)
        /\ \A k \in 1..Len(wire) : wire[k] = handed[k]
    BY <1>1 DEF BusInv
  <2>2. i \in Nat
    BY <1>3
  <2>3. /\ wire \o Append(txq, i) = Append(handed, i)
        /\ Len(wire) <= Len(Append(handed, i))
        /\ \A k \in 1..Len(wire) : wire[k] = Append(handed, i)[k]
    BY <2>1, <2>2, BusKept
  <2> QED
    BY <1>2, <2>3 DEF BusInv
<1> QED
  BY <1>6, <1>7

LEMMA LeaveStep ==
  ASSUME RoundInv, BusInv, CanToolsAssumption, FrameLeaves
  PROVE  RoundInv' /\ BusInv'
<1>1. /\ handed' = handed /\ txq # <<>> /\ txq' = Tail(txq) /\ wire' = Append(wire, Head(txq))
      /\ r' = r /\ i' = i /\ ret' = ret /\ pc' = pc /\ plugged /\ pc # "close"
  BY DEF FrameLeaves, OnBus, sending
<1>2. handed \in Seq(Nat) /\ wire \in Seq(Nat) /\ txq \in Seq(Nat)
  BY DEF RoundInv
<1>3. /\ txq' \in Seq(Nat) /\ wire' \in Seq(Nat)
      /\ wire' \o txq' = wire \o txq
  BY <1>1, <1>2, HeadMoves
<1>4. wire \o txq = handed
  BY <1>1 DEF BusInv
<1>5. RoundInv'
  BY <1>1, <1>3 DEF RoundInv
<1>6. Len(wire') <= Len(handed) /\ \A k \in 1..Len(wire') : wire'[k] = handed[k]
  <2>1. /\ Len(wire') <= Len(wire' \o txq')
        /\ \A k \in 1..Len(wire') : (wire' \o txq')[k] = wire'[k]
    BY <1>3, PrefixOfConcat
  <2> QED
    BY <1>3, <1>4, <2>1
<1> QED
  BY <1>1, <1>3, <1>4, <1>5, <1>6 DEF BusInv

(* A tool that has not sent anything yet.                                   *)
LEMMA UnsentRound ==
  ASSUME Unsent, CanToolsAssumption, pc \notin {"stop", "close"}
  PROVE  RoundInv /\ BusInv
<1>1. nframes \in Nat /\ nframes >= 1 /\ repeat \in Nat /\ repeat * nframes \in Nat
  BY DEF CanToolsAssumption
<1>2. /\ Len(<<>>) = 0 /\ <<>> \in Seq(Nat) /\ <<>> \o <<>> = <<>>
      /\ 1..0 = {} /\ 0 * nframes = 0
  BY <1>1
<1> QED
  BY <1>1, <1>2 DEF Unsent, RoundInv, BusInv

LEMMA SendStep ==
  ASSUME CanToolsAssumption, SendInv, [Next]_vars, tool' = "send"
  PROVE  RoundInv' /\ BusInv'
<1> USE DEF SendInv
<1>1. tool = "send" => pc \in Calls("send") /\ pc \notin {"report", "signal", "recv", "reply"}
  BY MainCalls DEF Place, Calls, send_main
<1>2. ASSUME UNCHANGED sending, UNCHANGED transmitting, UNCHANGED plugged,
             RoundInv, BusInv,
             pc' = pc \/ (pc # "close" /\ pc' \notin {"stop", "close"})
      PROVE  RoundInv' /\ BusInv'
  BY <1>2 DEF sending, transmitting, RoundInv, BusInv
<1>3. CASE \E t \in DOMAIN main : Run(t)
  <2>1. pc = "exited"
    BY <1>3, MainCalls DEF Run, Place
  <2>2. RoundInv /\ BusInv
    BY <2>1, UnsentRound DEF Started
  <2> QED
    BY <1>2, <1>3, <2>1, <2>2 DEF Run, opening
<1> SUFFICES ASSUME tool = "send" PROVE RoundInv' /\ BusInv'
  <2>1. ASSUME tool # "send", ~\E t \in DOMAIN main : Run(t) PROVE tool' = tool \/ tool' = "none"
    BY <2>1 DEF Next, ToolStep, Check, OneId, gsusb_tool_open, do_scan, Report, Start,
       InstallHandler, Stop, Close, TestStop, RecvFrame, RecvNothing, Reply, SendFrame, SendFails,
       SendDone, Die, on_sigint, FrameArrives, FrameLeaves, Unplug, vars, Goto, Exit
  <2> QED
    BY <1>3, <2>1
<1>4. RoundInv /\ BusInv
  OBVIOUS
<1>5. ~Exit
  BY DEF Exit
<1>6. CASE Check \/ OneId \/ gsusb_tool_open
  <2>1. pc \notin {"loop", "stop", "close"}
    BY <1>6 DEF Check, OneId, gsusb_tool_open
  <2>2. After \notin {"stop", "close"}
    BY <1>1, <2>1, AfterIs, MainCalls
  <2> QED
    BY <1>2, <1>4, <1>5, <1>6, <2>1, <2>2 DEF Check, OneId, gsusb_tool_open, Goto
<1>7. CASE Start
  <2>1. pc = "start" /\ After \in {"signal", "loop"}
    BY <1>1, <1>7, AfterIs, MainCalls DEF Start
  <2> QED
    BY <1>2, <1>4, <1>5, <1>7, <2>1 DEF Start, Goto, opening
<1>8. CASE Stop
  <2>1. pc = "stop" /\ pc' = "close"
    BY <1>1, <1>8, AfterIs, MainCalls DEF Stop, Goto
  <2>2. txq' \in {<<>>, txq} /\ UNCHANGED <<handed, wire, sending>>
    BY <1>8 DEF Stop
  <2>3. txq' \in Seq(Nat)
    <3>1. txq \in Seq(Nat)
      BY <1>4 DEF RoundInv
    <3>2. txq' = <<>> \/ txq' = txq
      BY <2>2
    <3> QED
      BY <3>1, <3>2, EmptySeq
  <2> QED
    BY <1>4, <2>1, <2>2, <2>3 DEF RoundInv, BusInv, sending
<1>9. CASE SendFrame
  <2>1. /\ pc = "loop" /\ pc' = "loop" /\ MoreRounds /\ Hand(i) /\ UNCHANGED plugged /\ ret' = ret
        /\ IF i < nframes THEN i' = i + 1 /\ r' = r ELSE i' = 1 /\ r' = r + 1
    BY <1>9 DEF SendFrame, opening
  <2> QED
    BY <1>4, <2>1, HandStep
<1>10. CASE SendFails
  <2>1. /\ pc = "loop" /\ pc' = "loop" /\ MoreRounds /\ UNCHANGED plugged
        /\ ret' = 1 /\ i' = 1 /\ r' = r + 1
    BY <1>10 DEF SendFails, opening
  <2>2. CASE Hand(i)
    BY <1>4, <2>1, <2>2, HandStep
  <2>3. CASE UNCHANGED transmitting
    <3>1. r' \in 0..repeat /\ i' \in 1..nframes
      BY <1>4, <2>1 DEF RoundInv, MoreRounds, CanToolsAssumption
    <3> QED
      BY <1>4, <2>1, <2>3, <3>1 DEF RoundInv, BusInv, transmitting
  <2> QED
    BY <1>10, <2>2, <2>3 DEF SendFails, HandFails
<1>11. CASE SendDone
  <2>1. /\ pc = "loop" /\ pc' = "stop" /\ ~MoreRounds
        /\ UNCHANGED sending /\ UNCHANGED transmitting /\ UNCHANGED plugged
    BY <1>1, <1>11, AfterIs, MainCalls DEF SendDone, Goto, opening
  <2>2. ret = 0 => r = repeat
    BY <1>4, <2>1 DEF MoreRounds, RoundInv, CanToolsAssumption
  <2> QED
    BY <1>4, <2>1, <2>2 DEF RoundInv, BusInv, sending, transmitting
<1>12. CASE FrameLeaves
  BY <1>4, <1>12, LeaveStep
<1>13. ASSUME NEW a \in Adapters, Unplug(a) PROVE RoundInv' /\ BusInv'
  <2>1. /\ \/ plugged' = FALSE /\ txq' = <<>>
           \/ UNCHANGED <<plugged, txq>>
        /\ UNCHANGED <<pc, handed, wire, sending>>
    BY <1>13 DEF Unplug
  <2>2. txq' \in Seq(Nat)
    <3>1. txq \in Seq(Nat)
      BY <1>4 DEF RoundInv
    <3>2. txq' = <<>> \/ txq' = txq
      BY <2>1
    <3> QED
      BY <3>1, <3>2, EmptySeq
  <2> QED
    BY <1>4, <2>1, <2>2 DEF RoundInv, BusInv, sending
<1>14. CASE on_sigint \/ UNCHANGED vars
  BY <1>2, <1>4, <1>14 DEF on_sigint, vars, opening
<1>15. CASE do_scan \/ Close \/ Die
  BY <1>5, <1>15 DEF do_scan, Close, Die
<1>16. ~(Report \/ InstallHandler \/ TestStop \/ RecvFrame \/ RecvNothing \/ Reply \/ FrameArrives)
  BY <1>1 DEF Report, InstallHandler, TestStop, RecvFrame, RecvNothing, Reply, FrameArrives
<1> QED
  BY <1>3, <1>6, <1>7, <1>8, <1>9, <1>10, <1>11, <1>12, <1>13, <1>14, <1>15, <1>16
     DEF Next, ToolStep

(* The frames an adapter was handed are a beginning of the list.            *)
LEMMA SendInvSends == CanToolsAssumption /\ SendInv => SendsInOrder
<1> SUFFICES ASSUME CanToolsAssumption, SendInv, tool = "send" PROVE SendsInOrder
  BY DEF SendsInOrder
<1> DEFINE list == [n \in 1..(repeat * nframes) |-> ((n - 1) % nframes) + 1]
<1>1. RoundInv /\ BusInv
  BY DEF SendInv
<1>2. repeat * nframes \in Nat /\ nframes \in Nat /\ nframes > 0
  BY DEF CanToolsAssumption
<1>3. ASSUME NEW n \in 1..(repeat * nframes) PROVE ((n - 1) % nframes) + 1 \in Nat
  <2>1. n - 1 \in Nat
    BY <1>2
  <2>2. (n - 1) % nframes \in 0..(nframes - 1)
    BY <1>2, <2>1
  <2> QED
    BY <1>2, <2>2
<1>4. list \in Seq(Nat) /\ Len(list) = repeat * nframes
  BY <1>2, <1>3
<1>5. handed \in Seq(Nat) /\ wire \in Seq(Nat)
  BY <1>1 DEF RoundInv
<1>6. /\ Len(handed) <= Len(list)
      /\ \A k \in 1..Len(handed) : handed[k] = list[k]
  BY <1>1, <1>2, <1>4, <1>5 DEF RoundInv
<1> HIDE DEF list
<1>7. IsPrefix(handed, list)
  BY <1>4, <1>5, <1>6, PrefixIs
<1>8. IsPrefix(wire, handed)
  BY <1>1, <1>5, PrefixIs DEF BusInv
<1>9. ASSUME pc \in {"stop", "close"}, ret = 0 PROVE handed = list
  <2>1. Len(handed) = Len(list)
    <3>1. Len(handed) = r * nframes + (i - 1)
      BY <1>1, <1>9 DEF RoundInv
    <3>2. r = repeat /\ i = 1
      BY <1>1, <1>9 DEF RoundInv, BusInv
    <3> QED
      BY <1>2, <1>4, <3>1, <3>2
  <2> QED
    BY <1>4, <1>5, <1>6, <2>1, SameSequence
<1>10. plugged /\ pc \in {"loop", "stop"} => wire \o txq = handed
  BY <1>1 DEF BusInv
<1>11. /\ IsPrefix(handed, list)
       /\ pc \in {"stop", "close"} /\ ret = 0 => handed = list
       /\ IsPrefix(wire, handed)
       /\ plugged /\ pc \in {"loop", "stop"} => wire \o txq = handed
  BY <1>7, <1>8, <1>9, <1>10
<1> QED
  BY <1>11 DEF SendsInOrder, list

(* gsusb_send hands over the frames of its command line in order, as often  *)
(* as asked, none after an error, and the bus gets a beginning of that      *)
(* (gsusb_send.c, main): for every number of frames and rounds.             *)
THEOREM SendKeepsOrder == Spec => []SendsInOrder
<1>1. Init => SendInv
  BY DEF Init, SendInv, Place, Unsent
<1>2. SendInv /\ [Next]_vars => SendInv'
  BY CanToolsAssumption, PlaceStep, UnsentStep, SendStep DEF SendInv
<1>3. SendInv => SendsInOrder
  BY CanToolsAssumption, SendInvSends
<1> QED
  BY <1>1, <1>2, <1>3, PTL DEF Spec

-------------------------------------------------------------------------------
(* Counting the elements of a sequence. *)

(* How many elements of s are in X. *)
CountIn(s, X) == Cardinality({n \in DOMAIN s : s[n] \in X})

LEMMA IndicesFinite ==
  ASSUME NEW S, NEW s \in Seq(S), NEW X
  PROVE  IsFiniteSet({n \in DOMAIN s : s[n] \in X}) /\ CountIn(s, X) \in Nat
<1>1. DOMAIN s = 1..Len(s) /\ Len(s) \in Nat
  OBVIOUS
<1>2. IsFiniteSet(DOMAIN s)
  BY <1>1, FS_Interval
<1>3. IsFiniteSet({n \in DOMAIN s : s[n] \in X})
  BY <1>2, FS_Subset
<1> QED
  BY <1>3, FS_CardinalityType DEF CountIn

LEMMA CountEmpty ==
  ASSUME NEW X
  PROVE  CountIn(<<>>, X) = 0
<1>1. {n \in DOMAIN <<>> : <<>>[n] \in X} = {}
  OBVIOUS
<1> QED
  BY <1>1, FS_EmptySet DEF CountIn

LEMMA CountAppend ==
  ASSUME NEW S, NEW s \in Seq(S), NEW e \in S, NEW X
  PROVE  CountIn(Append(s, e), X) = CountIn(s, X) + (IF e \in X THEN 1 ELSE 0)
<1> DEFINE I == {n \in DOMAIN s : s[n] \in X}
           J == {n \in DOMAIN Append(s, e) : Append(s, e)[n] \in X}
<1>1. /\ Len(s) \in Nat /\ DOMAIN s = 1..Len(s) /\ DOMAIN Append(s, e) = 1..(Len(s) + 1)
      /\ \A n \in 1..Len(s) : Append(s, e)[n] = s[n]
      /\ Append(s, e)[Len(s) + 1] = e
  OBVIOUS
<1>2. IsFiniteSet(I)
  BY IndicesFinite
<1>3. CASE e \in X
  <2>1. J = I \cup {Len(s) + 1} /\ Len(s) + 1 \notin I
    BY <1>1, <1>3
  <2> QED
    BY <1>2, <1>3, <2>1, FS_AddElement DEF CountIn
<1>4. CASE e \notin X
  <2>1. J = I
    BY <1>1, <1>4
  <2>2. CountIn(Append(s, e), X) = CountIn(s, X)
    BY <2>1, Zenon DEF CountIn
  <2>3. CountIn(s, X) \in Nat
    BY IndicesFinite
  <2> QED
    BY <1>4, <2>2, <2>3
<1> QED
  BY <1>3, <1>4

LEMMA CountTail ==
  ASSUME NEW S, NEW s \in Seq(S), s # <<>>, NEW X
  PROVE  CountIn(s, X) = CountIn(Tail(s), X) + (IF Head(s) \in X THEN 1 ELSE 0)
<1> DEFINE I == {n \in DOMAIN s : s[n] \in X}
           J == {n \in DOMAIN Tail(s) : Tail(s)[n] \in X}
           f == [n \in J |-> n + 1]
<1>1. /\ Len(s) \in Nat \ {0} /\ DOMAIN s = 1..Len(s) /\ DOMAIN Tail(s) = 1..(Len(s) - 1)
      /\ \A n \in 1..(Len(s) - 1) : Tail(s)[n] = s[n + 1]
      /\ Head(s) = s[1] /\ Tail(s) \in Seq(S)
  OBVIOUS
<1>2. IsFiniteSet(J) /\ IsFiniteSet(I)
  BY <1>1, IndicesFinite
<1>3. f \in Bijection(J, I \ {1})
  <2>1. f \in [J -> I \ {1}]
    BY <1>1
  <2>2. \A n, j \in J : f[n] = f[j] => n = j
    BY <1>1
  <2>3. ASSUME NEW n \in I \ {1} PROVE \E j \in J : f[j] = n
    <3>1. n - 1 \in J
      BY <1>1, <2>3
    <3> QED
      BY <1>1, <3>1
  <2>4. f \in Injection(J, I \ {1})
    BY <2>1, <2>2 DEF Injection, IsInjective
  <2>5. f \in Surjection(J, I \ {1})
    BY <2>1, <2>3 DEF Surjection
  <2> QED
    BY <2>4, <2>5 DEF Bijection
<1>4. Cardinality(J) = Cardinality(I \ {1})
  <2>1. ExistsBijection(J, I \ {1})
    BY <1>3 DEF ExistsBijection
  <2> QED
    BY <1>2, <2>1, FS_Bijection
<1>5. CASE Head(s) \in X
  <2>1. 1 \in I
    BY <1>1, <1>5
  <2>2. Cardinality(I \ {1}) = Cardinality(I) - 1
    BY <1>2, <2>1, FS_RemoveElement
  <2>3. Cardinality(I) \in Nat
    BY <1>2, FS_CardinalityType
  <2> HIDE DEF I, J
  <2>4. Cardinality(I) = Cardinality(J) + 1
    BY <1>4, <2>2, <2>3
  <2>5. CountIn(s, X) = CountIn(Tail(s), X) + 1
    BY <2>4 DEF CountIn, I, J
  <2> QED
    BY <1>5, <2>5
<1>6. CASE Head(s) \notin X
  <2>1. I \ {1} = I
    BY <1>1, <1>6
  <2>2. CountIn(s, X) = CountIn(Tail(s), X)
    BY <1>4, <2>1, Zenon DEF CountIn
  <2>3. CountIn(Tail(s), X) \in Nat
    BY <1>1, IndicesFinite
  <2> QED
    BY <1>6, <2>2, <2>3
<1> QED
  BY <1>5, <1>6

-------------------------------------------------------------------------------
(* What gsusb_react answers. *)

Kinds == {"key", "other"}

KeyTypes ==
  /\ keys \in Nat /\ missed \in Nat /\ seen \in Nat /\ reacted \in Nat /\ unsent \in Nat
  /\ rxq \in Seq(Kinds) /\ resp_id \in Kinds
  /\ handed \in Seq(Nat) /\ i \in Nat

(* A tool begins with an empty queue, and has counted and sent nothing.     *)
NothingYet ==
  /\ keys = 0 /\ missed = 0 /\ seen = 0 /\ reacted = 0 /\ unsent = 0
  /\ rxq = <<>> /\ handed = <<>>

KeyInv == Place /\ KeyTypes /\ (tool = "none" => NothingYet) /\ KeysAnswered

LEMMA KeysCounted ==
  ASSUME NEW q \in Seq(Kinds)
  PROVE  KeysIn(q) = CountIn(q, {"key"}) /\ KeysIn(q) \in Nat
<1>1. {k \in DOMAIN q : q[k] = "key"} = {k \in DOMAIN q : q[k] \in {"key"}}
  OBVIOUS
<1> QED
  BY <1>1, IndicesFinite DEF KeysIn, CountIn

(* A frame that arrives is in the queue, and the oldest one given up for it *)
(* is counted if it is a key frame.                                         *)
LEMMA ReceiveCounts ==
  ASSUME CanToolsAssumption, KeyTypes, NEW f \in Kinds, Receive(f)
  PROVE  /\ rxq' \in Seq(Kinds) /\ keys' \in Nat /\ missed' \in Nat
         /\ keys' + missed + KeysIn(rxq) = keys + missed' + KeysIn(rxq')
<1> USE DEF KeyTypes
<1> DEFINE Key(e) == IF e \in {"key"} THEN 1 ELSE 0
<1>1. /\ keys' = keys + Key(f)
      /\ missed' = missed + (IF Len(rxq) = Cap THEN Key(Head(rxq)) ELSE 0)
      /\ rxq' = Append(MakeRoom(rxq), f)
  BY DEF Receive, Enqueue
<1>2. MakeRoom(rxq) \in Seq(Kinds)
      /\ KeysIn(rxq) = KeysIn(MakeRoom(rxq)) + (IF Len(rxq) = Cap THEN Key(Head(rxq)) ELSE 0)
  <2>1. CASE Len(rxq) = Cap
    <3>1. rxq # <<>>
      BY <2>1 DEF CanToolsAssumption
    <3>2. Tail(rxq) \in Seq(Kinds)
      BY <3>1
    <3>3. CountIn(rxq, {"key"}) = CountIn(Tail(rxq), {"key"}) + Key(Head(rxq))
      BY <3>1, CountTail
    <3> QED
      BY <2>1, <3>2, <3>3, KeysCounted DEF MakeRoom
  <2>2. CASE Len(rxq) # Cap
    BY <2>2, KeysCounted DEF MakeRoom
  <2> QED
    BY <2>1, <2>2
<1>3. Append(MakeRoom(rxq), f) \in Seq(Kinds)
  BY <1>2
<1>4. KeysIn(Append(MakeRoom(rxq), f)) = KeysIn(MakeRoom(rxq)) + Key(f)
  <2> DEFINE q == MakeRoom(rxq)
  <2>1. q \in Seq(Kinds)
    BY <1>2
  <2> HIDE DEF q
  <2>2. CountIn(Append(q, f), {"key"}) = CountIn(q, {"key"}) + Key(f)
    BY <2>1, CountAppend
  <2>3. Append(q, f) \in Seq(Kinds)
    BY <2>1
  <2>4. KeysIn(Append(q, f)) = KeysIn(q) + Key(f)
    BY <2>1, <2>2, <2>3, KeysCounted
  <2> QED
    BY <2>4 DEF q
<1>5. KeysIn(MakeRoom(rxq)) \in Nat /\ KeysIn(rxq) \in Nat
  BY <1>2, KeysCounted
<1> DEFINE add == Key(f)
           drop == IF Len(rxq) = Cap THEN Key(Head(rxq)) ELSE 0
           rest == KeysIn(MakeRoom(rxq))
<1>6. add \in Nat /\ drop \in Nat /\ rest \in Nat
  BY <1>5
<1>7. keys' = keys + add /\ missed' = missed + drop
  BY <1>1
<1>8. KeysIn(rxq) = rest + drop /\ KeysIn(rxq') = rest + add
  BY <1>1, <1>2, <1>4
<1> HIDE DEF Key, add, drop, rest
<1>9. keys \in Nat /\ missed \in Nat
  OBVIOUS
<1>10. keys' + missed + KeysIn(rxq) = keys + missed' + KeysIn(rxq')
  BY <1>6, <1>7, <1>8, <1>9
<1> QED
  BY <1>1, <1>3, <1>6, <1>7, <1>9, <1>10

(* The calls of a main() are not the answer in its loop. *)
LEMMA NoReply == \A t \in DOMAIN main : "reply" \notin Calls(t) /\ "recv" \notin Calls(t)
  BY MainCalls DEF Calls, info_main, dump_main, send_main, react_main

LEMMA KeyStep == CanToolsAssumption /\ KeyInv /\ [Next]_vars => KeyInv'
<1> SUFFICES ASSUME CanToolsAssumption, KeyInv, [Next]_vars
             PROVE  KeyTypes' /\ (tool = "none" => NothingYet)' /\ KeysAnswered'
  BY PlaceStep DEF KeyInv
<1>0. KeyTypes /\ Place /\ (tool = "none" => NothingYet) /\ KeysAnswered
  BY DEF KeyInv
<1> DEFINE Goal == KeyTypes' /\ (tool = "none" => NothingYet)' /\ KeysAnswered'
<1>1. ASSUME Exit PROVE Goal
  <2>1. <<>> \in Seq(Kinds) /\ <<>> \in Seq(Nat)
    OBVIOUS
  <2> QED
    BY <1>1, <2>1 DEF Exit, KeyTypes, NothingYet, KeysAnswered, Kinds
<1>2. ASSUME UNCHANGED <<tool, receiving, reacting, handed, resp_id>>, i' \in Nat,
             pc' = "reply" <=> pc = "reply"
      PROVE  Goal
  BY <1>0, <1>2 DEF receiving, reacting, KeyTypes, NothingYet, KeysAnswered, KeysIn
<1>3. ASSUME Goto(After), pc \notin {"close", "recv", "reply"}, tool # "none" \/ pc # "exited",
             UNCHANGED <<receiving, reacting, handed, resp_id, sending>>
      PROVE  Goal
  <2>1. tool \in DOMAIN main /\ pc \in Calls(tool)
    BY <1>0, <1>3 DEF Place
  <2>2. pc' = After /\ After # "reply" /\ tool' = tool
    BY <1>3, <2>1, AfterIs, NoReply DEF Goto
  <2> QED
    BY <1>0, <1>2, <1>3, <2>2 DEF sending, KeyTypes
<1>4. ASSUME NEW t \in DOMAIN main, Run(t) PROVE Goal
  <2>1. /\ tool = "none" /\ NothingYet /\ UNCHANGED <<receiving, reacting, handed, i>>
        /\ tool' = t /\ pc' = "args" /\ resp_id' \in Kinds
    BY <1>0, <1>4 DEF Run, sending, transmitting, Kinds
  <2>2. KeysIn(rxq') = 0
    <3>1. <<>> \in Seq(Kinds) /\ CountIn(<<>>, {"key"}) = 0
      BY CountEmpty
    <3> QED
      BY <2>1, <3>1, KeysCounted DEF NothingYet, receiving
  <2>3. t # "none"
    BY MainCalls
  <2> QED
    BY <1>0, <2>1, <2>2, <2>3
       DEF receiving, reacting, KeyTypes, NothingYet, KeysAnswered
<1>5. CASE Check \/ Start \/ InstallHandler \/ Stop \/ SendDone \/ gsusb_tool_open
  BY <1>1, <1>2, <1>3, <1>5, <1>0
     DEF Check, Start, InstallHandler, Stop, SendDone, gsusb_tool_open, options, transmitting,
         sending, KeyTypes
<1>6. CASE do_scan \/ Close \/ Die
  BY <1>1, <1>6 DEF do_scan, Close, Die
<1>7. CASE OneId \/ Report \/ TestStop \/ RecvNothing \/ on_sigint
  BY <1>0, <1>2, <1>7
     DEF OneId, Report, TestStop, RecvNothing, on_sigint, options, transmitting, sending,
         KeyTypes, Goto
<1>8. CASE RecvFrame
  <2>1. /\ rxq # <<>> /\ rxq' = Tail(rxq) /\ pc = "recv"
        /\ UNCHANGED <<tool, resp_id, keys, missed, reacted, unsent, handed, i>>
        /\ IF tool = "react" /\ Head(rxq) = "key"
           THEN seen' = seen + 1 /\ pc' = "reply"
           ELSE seen' = seen /\ pc' = "loop"
    BY <1>8 DEF RecvFrame, IsKey, Goto, options, sending, transmitting
  <2>2. tool # "none"
    BY <1>0, <2>1, MainCalls DEF Place
  <2>3. rxq' \in Seq(Kinds) /\ KeysIn(rxq) = KeysIn(rxq') + (IF Head(rxq) = "key" THEN 1 ELSE 0)
    <3>1. Tail(rxq) \in Seq(Kinds)
      BY <1>0, <2>1 DEF KeyTypes
    <3>2. CountIn(rxq, {"key"}) = CountIn(Tail(rxq), {"key"})
                                    + (IF Head(rxq) \in {"key"} THEN 1 ELSE 0)
      BY <1>0, <2>1, CountTail DEF KeyTypes
    <3> QED
      BY <1>0, <2>1, <3>1, <3>2, KeysCounted DEF KeyTypes
  <2>4. KeysIn(rxq') \in Nat
    BY <2>3, KeysCounted
  <2> QED
    BY <1>0, <2>1, <2>2, <2>3, <2>4 DEF KeyTypes, KeysAnswered
<1>9. CASE Reply
  <2>1. /\ pc = "reply" /\ pc' = "loop" /\ UNCHANGED <<tool, receiving, resp_id, seen, i>>
        /\ \/ handed' = Append(handed, 0) /\ reacted' = reacted + 1 /\ unsent' = unsent
           \/ /\ handed' = Append(handed, 0) \/ handed' = handed
              /\ unsent' = unsent + 1 /\ reacted' = reacted
    BY <1>9 DEF Reply, Hand, HandFails, Goto, options, sending, transmitting
  <2>2. tool # "none"
    BY <1>0, <2>1, MainCalls DEF Place
  <2>3. Append(handed, 0) \in Seq(Nat) /\ Len(Append(handed, 0)) = Len(handed) + 1
    BY <1>0 DEF KeyTypes
  <2>4. Len(handed) \in Nat
    BY <1>0 DEF KeyTypes
  <2>5. KeyTypes'
    <3>1. UNCHANGED <<keys, missed, seen, rxq, resp_id, i>>
      BY <2>1 DEF receiving
    <3>2. reacted' \in Nat /\ unsent' \in Nat
      BY <1>0, <2>1 DEF KeyTypes
    <3>3. handed' = Append(handed, 0) \/ handed' = handed
      BY <2>1
    <3>4. handed' \in Seq(Nat)
      BY <1>0, <2>3, <3>3, Zenon DEF KeyTypes
    <3> QED
      BY <1>0, <3>1, <3>2, <3>4 DEF KeyTypes
  <2>6. Len(handed') = Len(handed) + 1 \/ (Len(handed') = Len(handed) /\ reacted' = reacted)
    BY <2>1, <2>3
  <2>7. KeysAnswered'
    <3>1. keys' = keys /\ missed' = missed /\ KeysIn(rxq') = KeysIn(rxq) /\ seen' = seen
      BY <2>1 DEF receiving
    <3>2. ASSUME tool = "react"
          PROVE  /\ keys = seen + missed + KeysIn(rxq) /\ seen = reacted + unsent + 1
                 /\ reacted <= Len(handed) /\ Len(handed) <= reacted + unsent
      BY <1>0, <2>1, <3>2 DEF KeysAnswered, KeyTypes
    <3>3. \/ reacted' = reacted + 1 /\ unsent' = unsent /\ Len(handed') = Len(handed) + 1
          \/ /\ reacted' = reacted /\ unsent' = unsent + 1
             /\ Len(handed') = Len(handed) + 1 \/ Len(handed') = Len(handed)
      BY <2>1, <2>3
    <3>4. reacted \in Nat /\ unsent \in Nat
      BY <1>0 DEF KeyTypes
    <3>5. ASSUME tool = "react"
          PROVE  seen = reacted' + unsent' /\ Len(handed') \in reacted'..(reacted' + unsent')
      BY <2>4, <3>2, <3>3, <3>4, <3>5
    <3>6. tool' = tool /\ pc' # "reply"
      BY <2>1
    <3>7. ASSUME tool = "react"
          PROVE  seen' = reacted' + unsent' + (IF pc' = "reply" THEN 1 ELSE 0)
      BY <1>0, <3>1, <3>3, <3>4, <3>5, <3>6, <3>7
    <3> QED
      BY <3>1, <3>2, <3>5, <3>6, <3>7 DEF KeysAnswered
  <2> QED
    BY <2>1, <2>2, <2>5, <2>7
<1>10. CASE SendFrame \/ SendFails
  <2>1. /\ tool = "send" /\ tool' = tool /\ UNCHANGED <<receiving, reacting, resp_id>>
        /\ handed' = Append(handed, i) \/ handed' = handed
        /\ i' = i + 1 \/ i' = 1
    BY <1>10 DEF SendFrame, SendFails, Hand, HandFails, options, transmitting
  <2>2. Append(handed, i) \in Seq(Nat) /\ i + 1 \in Nat
    BY <1>0 DEF KeyTypes
  <2>3. KeyTypes'
    <3>1. UNCHANGED <<keys, missed, seen, reacted, unsent, rxq, resp_id>>
      BY <2>1 DEF receiving, reacting
    <3>2. handed' = Append(handed, i) \/ handed' = handed
      BY <2>1
    <3>3. handed' \in Seq(Nat)
      BY <1>0, <2>2, <3>2, Zenon DEF KeyTypes
    <3>4. i' \in Nat
      BY <2>1, <2>2
    <3> QED
      BY <1>0, <3>1, <3>3, <3>4 DEF KeyTypes
  <2> QED
    BY <2>1, <2>3 DEF KeysAnswered
<1>11. CASE FrameArrives \/ FrameLeaves
  <2>1. /\ tool # "none" /\ UNCHANGED <<tool, pc, resp_id, reacting, handed, i>>
        /\ UNCHANGED receiving \/ \E f \in Kinds : Receive(f)
    <3>1. pc # "exited"
      BY <1>11 DEF FrameArrives, FrameLeaves, OnBus
    <3> QED
      BY <1>0, <1>11, <3>1, MainCalls DEF FrameArrives, FrameLeaves, options, sending,
                                          transmitting, Kinds, KeyTypes, Place
  <2>2. CASE UNCHANGED receiving
    BY <1>0, <1>2, <2>1, <2>2 DEF KeyTypes
  <2>3. CASE \E f \in Kinds : Receive(f)
    <3>1. /\ rxq' \in Seq(Kinds) /\ keys' \in Nat /\ missed' \in Nat
          /\ keys' + missed + KeysIn(rxq) = keys + missed' + KeysIn(rxq')
      BY <1>0, <2>3, ReceiveCounts
    <3>2. KeysIn(rxq) \in Nat /\ KeysIn(rxq') \in Nat
      BY <1>0, <3>1, KeysCounted DEF KeyTypes
    <3>3. UNCHANGED <<tool, pc, resp_id, seen, reacted, unsent, handed, i>>
      BY <2>1 DEF reacting
    <3>4. KeyTypes'
      BY <1>0, <3>1, <3>3 DEF KeyTypes
    <3>5. KeysAnswered'
      <4> SUFFICES ASSUME tool = "react" PROVE KeysAnswered'
        BY <3>3 DEF KeysAnswered
      <4>1. /\ keys = seen + missed + KeysIn(rxq)
            /\ seen = reacted + unsent + (IF pc = "reply" THEN 1 ELSE 0)
            /\ Len(handed) \in reacted..(reacted + unsent)
        BY <1>0 DEF KeysAnswered
      <4>2. keys' = seen + missed' + KeysIn(rxq')
        <5>1. /\ keys \in Nat /\ seen \in Nat /\ missed \in Nat
              /\ keys' \in Nat /\ missed' \in Nat
          BY <1>0, <3>1 DEF KeyTypes
        <5>2. keys' + missed + KeysIn(rxq) = keys + missed' + KeysIn(rxq')
          BY <3>1
        <5>3. keys = seen + missed + KeysIn(rxq)
          BY <4>1
        <5>4. KeysIn(rxq) \in Nat
          BY <3>2
        <5>5. KeysIn(rxq') \in Nat
          BY <3>2
        <5>6. keys' + missed + KeysIn(rxq) = seen + missed + KeysIn(rxq) + missed' + KeysIn(rxq')
          BY <5>1, <5>2, <5>3, <5>4, <5>5
        <5> QED
          BY <5>1, <5>4, <5>5, <5>6
      <4> QED
        BY <3>3, <4>1, <4>2 DEF KeysAnswered
    <3> QED
      BY <2>1, <3>4, <3>5
  <2> QED
    BY <2>1, <2>2, <2>3
<1>12. CASE (\E a \in Adapters : Unplug(a)) \/ UNCHANGED vars
  BY <1>0, <1>2, <1>12 DEF Unplug, vars, options, sending, transmitting, KeyTypes
<1> QED
  BY <1>4, <1>5, <1>6, <1>7, <1>8, <1>9, <1>10, <1>11, <1>12 DEF Next, ToolStep

(* gsusb_react answers each key frame once: every one received is answered, *)
(* waits, was given up for a newer one or has a failed answer, for every    *)
(* capacity of the queue and also when it answers itself in loopback.       *)
THEOREM KeysAreAnswered == Spec => []KeysAnswered
<1>1. Init => KeyInv
  <2> SUFFICES ASSUME Init PROVE KeyInv
    OBVIOUS
  <2>1. <<>> \in Seq(Kinds) /\ <<>> \in Seq(Nat)
    OBVIOUS
  <2> QED
    BY <2>1 DEF Init, KeyInv, Place, KeyTypes, NothingYet, KeysAnswered, Kinds
<1>2. KeyInv => KeysAnswered
  BY DEF KeyInv
<1> QED
  BY <1>1, <1>2, KeyStep, CanToolsAssumption, PTL DEF Spec
===============================================================================
