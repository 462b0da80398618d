------------------------------- MODULE CanTools --------------------------------
(***************************************************************************)
(* The command-line tools gsusb_info, gsusb_dump, gsusb_send, gsusb_react  *)
(* (driver/tools), run one after another: each opens an adapter, uses one  *)
(* channel of it, and is to leave it as it was.  It may be interrupted, be *)
(* killed, find requests failing or lose its adapter at any step; what it  *)
(* left on an adapter then is what a later tool finds there.               *)
(*                                                                         *)
(* A step is one call of the library.  Its receive queue is DropOldest,    *)
(* with frames of two kinds: those gsusb_react watches for ("key"), and    *)
(* all others.  The frames of gsusb_send are their places on its command   *)
(* line.                                                                   *)
(***************************************************************************)
EXTENDS Naturals, SequencesExt, DropOldest

CONSTANTS
  Adapters, IdOf,    \* the adapters, and the vid:pid of each
  gsusb_known_ids,   \* sequence of those tried without --vid and --pid
  NoOne,             \* no adapter
  nframes, repeat,   \* of gsusb_send: frames on the command line, --repeat
  MaxKeys            \* bound on the key frames received by one tool

ASSUME CanToolsAssumption ==
  /\ NoOne \notin Adapters
  /\ IdOf \in [Adapters -> Range(gsusb_known_ids)]
  /\ Cap \in Nat \ {0}
  /\ nframes \in Nat \ {0} /\ repeat \in Nat /\ MaxKeys \in Nat

VARIABLES
  tool, pc,                 \* the tool that runs, or "none"; where its main() is
  ids,                      \* the ids gsusb_tool_open() has still to try
  adapter,                  \* the adapter it has open, or NoOne
  plugged,                  \* that adapter is still there
  handler, g_stop,          \* on_sigint() is installed; it has run
  loopback, resp_id,        \* options; resp_id is the kind of gsusb_react's answers
  live,                     \* the adapters whose channel is live
  left,                     \* history: those where a tool died or a request failed
  rxq,                      \* the receive queue
  keys, missed,             \* history: key frames received; those dropped from rxq
  seen, reacted, unsent,    \* counters of gsusb_react; history: answers that failed
  r, i, ret,                \* locals of gsusb_send
  handed, txq, wire         \* frames the adapter took from this tool (history), has
                            \* still to send, and put on the bus (history)

opening == <<ids, adapter, plugged>>
signals == <<handler, g_stop>>
options == <<loopback, resp_id>>
modes == <<live, left>>
receiving == <<rxq, keys, missed>>
reacting == <<seen, reacted, unsent>>
sending == <<r, i, ret>>
transmitting == <<handed, txq, wire>>
vars == <<tool, pc, opening, signals, options, modes, receiving, reacting, sending, transmitting>>

-------------------------------------------------------------------------------
(* The calls of each main(), in order.  "loop" is all of its loop. *)

info_main == <<"args", "init", "open", "report", "close">>

dump_main == <<"args", "init", "open", "channel", "fd", "bitrate", "data_bitrate", "start",
               "signal", "loop", "stop", "close">>

send_main == <<"args", "init", "open", "channel", "fd", "bitrate", "data_bitrate", "start",
               "loop", "stop", "close">>

react_main == <<"args", "init", "open", "channel", "bitrate", "start",
                "signal", "loop", "stop", "close">>

main == [info |-> info_main, dump |-> dump_main, send |-> send_main, react |-> react_main]

(* The call after this one. *)
After == LET calls == main[tool] IN calls[(CHOOSE k \in DOMAIN calls : calls[k] = pc) + 1]

Init ==
  /\ tool = "none" /\ pc = "exited"
  /\ ids = <<>> /\ adapter = NoOne /\ plugged = TRUE
  /\ handler = FALSE /\ g_stop = FALSE
  /\ loopback = FALSE /\ resp_id = "other"
  /\ live = {} /\ left = {}
  /\ rxq = <<>> /\ keys = 0 /\ missed = 0
  /\ seen = 0 /\ reacted = 0 /\ unsent = 0
  /\ r = 0 /\ i = 1 /\ ret = 0
  /\ handed = <<>> /\ txq = <<>> /\ wire = <<>>

(* The process ends, by return or exit() or otherwise: the kernel takes     *)
(* back what it had, and nobody tells the adapter.                          *)
Exit ==
  /\ tool' = "none" /\ pc' = "exited"
  /\ ids' = <<>> /\ adapter' = NoOne /\ plugged' = TRUE
  /\ handler' = FALSE /\ g_stop' = FALSE
  /\ loopback' = FALSE /\ resp_id' = "other"
  /\ rxq' = <<>> /\ keys' = 0 /\ missed' = 0
  /\ seen' = 0 /\ reacted' = 0 /\ unsent' = 0
  /\ r' = 0 /\ i' = 1 /\ ret' = 0
  /\ handed' = <<>> /\ txq' = <<>> /\ wire' = <<>>

(* Somebody runs a tool. *)
Run(t) ==
  /\ tool = "none"
  /\ tool' = t
  /\ pc' = "args"
  /\ loopback' \in IF t = "react" THEN BOOLEAN ELSE {FALSE}
  /\ resp_id' \in IF t = "react" THEN {"key", "other"} ELSE {"other"}
  /\ UNCHANGED <<opening, signals, modes, receiving, reacting, sending, transmitting>>

-------------------------------------------------------------------------------
(* From the command line to the open adapter. *)

Goto(l) == pc' = l /\ UNCHANGED tool

(* Bad arguments (for gsusb_send, frames too); gsusb_init() fails; there is *)
(* no such channel, or it has no CAN FD; it cannot have that bitrate: exit  *)
(* status 1, with the adapter, if it is open, just dropped.                 *)
Check ==
  /\ pc \in {"args", "init", "channel", "fd", "bitrate", "data_bitrate"}
  /\ \/ /\ Goto(After)
        /\ ids' = IF After = "open" THEN gsusb_known_ids ELSE ids
        /\ UNCHANGED <<adapter, plugged, signals, options, receiving, reacting, sending,
                       transmitting>>
     \/ Exit
  /\ UNCHANGED modes

(* --vid and --pid are given: the one id to try. *)
OneId ==
  /\ pc = "open" /\ ids = gsusb_known_ids
  /\ \E id \in Range(gsusb_known_ids) : ids' = <<id>>
  /\ UNCHANGED <<tool, pc, adapter, plugged, signals, options, modes, receiving, reacting,
                 sending, transmitting>>

(* gsusb_open() of the next id: an adapter that has it, or the id after it, *)
(* and exit(1) after the last.                                              *)
gsusb_tool_open ==
  /\ pc = "open"
  /\ \/ \E a \in Adapters :
          /\ IdOf[a] = Head(ids)
          /\ adapter' = a /\ ids' = <<>>
          /\ Goto(After)
          /\ UNCHANGED <<plugged, signals, options, receiving, reacting, sending, transmitting>>
     \/ /\ Len(ids) > 1
        /\ ids' = Tail(ids)
        /\ UNCHANGED <<tool, pc, adapter, plugged, signals, options, receiving, reacting, sending,
                       transmitting>>
     \/ Len(ids) = 1 /\ Exit
  /\ UNCHANGED modes

(* gsusb_info --scan looks at the list of devices without claiming any.     *)
do_scan ==
  /\ tool = "info" /\ pc = "init"
  /\ Exit
  /\ UNCHANGED modes

(* gsusb_info prints what gsusb_open() found, and asks for the termination. *)
Report ==
  /\ pc = "report"
  /\ Goto("close")
  /\ UNCHANGED <<opening, signals, options, modes, receiving, reacting, sending, transmitting>>

-------------------------------------------------------------------------------
(* The channel is started and stopped. *)

(* gsusb_channel_start(): on failure the tool exits, and the request may    *)
(* have reached the adapter.                                                *)
Start ==
  /\ pc = "start"
  /\ \/ /\ plugged
        /\ live' = live \cup {adapter} /\ left' = left \ {adapter}
        /\ Goto(After)
        /\ UNCHANGED <<opening, signals, options, receiving, reacting, sending, transmitting>>
     \/ /\ \/ UNCHANGED modes
           \/ plugged /\ live' = live \cup {adapter} /\ left' = left \cup {adapter}
        /\ Exit

InstallHandler ==
  /\ pc = "signal"
  /\ handler' = TRUE
  /\ Goto(After)
  /\ UNCHANGED <<opening, g_stop, options, modes, receiving, reacting, sending, transmitting>>

(* gsusb_channel_stop(): what the adapter has not sent by then is lost; a   *)
(* request that fails is not repeated, and its result ignored.              *)
Stop ==
  /\ pc = "stop"
  /\ \/ /\ plugged
        /\ live' = live \ {adapter} /\ left' = left \ {adapter}
        /\ txq' = <<>>
     \/ left' = left \cup ({adapter} \cap live) /\ UNCHANGED <<live, txq>>
  /\ Goto(After)
  /\ UNCHANGED <<opening, signals, options, receiving, reacting, sending, handed, wire>>

(* gsusb_close(), gsusb_exit() and the end.  (No channel is started by now.) *)
Close ==
  /\ pc = "close"
  /\ Exit
  /\ UNCHANGED modes

-------------------------------------------------------------------------------
(* gsusb_dump and gsusb_react. *)

(* The tests of g_stop. *)
TestStop ==
  /\ pc = "loop" /\ tool \in {"dump", "react"}
  /\ Goto(IF g_stop THEN "stop" ELSE "recv")
  /\ UNCHANGED <<opening, signals, options, modes, receiving, reacting, sending, transmitting>>

(* Mutant of IsKey: the match condition is gone. *)
IsAny(f) == TRUE

(* rx.can_id = key_id. *)
IsKey(f) == f = "key"

(* gsusb_channel_recv() returns a frame: gsusb_dump prints it, gsusb_react  *)
(* answers it if it matches.                                                *)
RecvFrame ==
  /\ pc = "recv"
  /\ rxq # <<>>
  /\ rxq' = Tail(rxq)
  /\ IF tool = "react" /\ IsKey(Head(rxq))
     THEN seen' = seen + 1 /\ Goto("reply")
     ELSE Goto("loop") /\ UNCHANGED seen
  /\ UNCHANGED <<opening, signals, options, modes, keys, missed, reacted, unsent, sending,
                 transmitting>>

(* Mutant of RecvNothing: recv() has no time-out. *)
RecvWaits == FALSE

(* It times out, as it does for ever once the adapter is gone: the reader   *)
(* thread has ended then, and nobody has told recv(), whose negative result *)
(* the tools would leave the loop for.  A signal does not end the wait.     *)
RecvNothing ==
  /\ pc = "recv"
  /\ rxq = <<>>
  /\ Goto("loop")
  /\ UNCHANGED <<opening, signals, options, modes, receiving, reacting, sending, transmitting>>

(* gsusb_channel_send() of f succeeds, or fails; the adapter may have taken *)
(* the frame all the same.                                                  *)
Hand(f) ==
  /\ plugged
  /\ handed' = Append(handed, f) /\ txq' = Append(txq, f)
  /\ UNCHANGED wire

HandFails(f) == Hand(f) \/ UNCHANGED transmitting

(* The answer of gsusb_react. *)
Reply ==
  /\ pc = "reply"
  /\ \/ Hand(0) /\ reacted' = reacted + 1 /\ UNCHANGED unsent
     \/ HandFails(0) /\ unsent' = unsent + 1 /\ UNCHANGED reacted
  /\ Goto("loop")
  /\ UNCHANGED <<opening, signals, options, modes, receiving, seen, sending>>

-------------------------------------------------------------------------------
(* gsusb_send. *)

(* Mutant of MoreRounds: an error ends the round only. *)
MoreRoundsAnyway == r < repeat

(* The condition of the outer loop. *)
MoreRounds == r < repeat /\ ret = 0

(* One gsusb_channel_send(), of the frame at place i in round r.            *)
SendFrame ==
  /\ pc = "loop" /\ tool = "send"
  /\ MoreRounds
  /\ Hand(i)
  /\ IF i < nframes THEN i' = i + 1 /\ UNCHANGED r ELSE i' = 1 /\ r' = r + 1
  /\ UNCHANGED <<tool, pc, opening, signals, options, modes, receiving, reacting, ret>>

(* Mutant of SendFails: return 1 at once. *)
SendFailsExits ==
  /\ pc = "loop" /\ tool = "send"
  /\ MoreRounds
  /\ Exit
  /\ UNCHANGED modes

(* It fails: ret is 1, and the inner loop is left. *)
SendFails ==
  /\ pc = "loop" /\ tool = "send"
  /\ MoreRounds
  /\ HandFails(i)
  /\ ret' = 1
  /\ i' = 1 /\ r' = r + 1
  /\ UNCHANGED <<tool, pc, opening, signals, options, modes, receiving, reacting>>

SendDone ==
  /\ pc = "loop" /\ tool = "send"
  /\ ~MoreRounds
  /\ Goto(After)
  /\ UNCHANGED <<opening, signals, options, modes, receiving, reacting, sending, transmitting>>

-------------------------------------------------------------------------------
(* What happens to a tool. *)

(* The process is ended by a signal. *)
Die ==
  /\ tool # "none"
  /\ left' = left \cup ({adapter} \cap live)
  /\ Exit
  /\ UNCHANGED live

(* on_sigint(). *)
on_sigint ==
  /\ handler
  /\ g_stop' = TRUE
  /\ UNCHANGED <<tool, pc, opening, handler, options, modes, receiving, reacting, sending,
                 transmitting>>

(* The channel of this tool is live. *)
OnBus == adapter \in live /\ plugged /\ pc \in {"signal", "loop", "recv", "reply", "stop"}

(* A frame is received, and pushed on the queue. *)
Receive(f) ==
  /\ f = "key" => keys < MaxKeys
  /\ rxq' = Enqueue(rxq, f)
  /\ keys' = IF f = "key" THEN keys + 1 ELSE keys
  /\ missed' = IF Len(rxq) = Cap /\ Head(rxq) = "key" THEN missed + 1 ELSE missed

FrameArrives ==
  /\ OnBus /\ tool \in {"dump", "react"}
  /\ \E f \in {"key", "other"} : Receive(f)
  /\ UNCHANGED <<tool, pc, opening, signals, options, modes, reacting, sending, transmitting>>

(* The adapter sends a frame, and in loopback mode receives it, too (no     *)
(* more of them than the bound allows).                                     *)
FrameLeaves ==
  /\ OnBus
  /\ txq # <<>>
  /\ txq' = Tail(txq) /\ wire' = Append(wire, Head(txq))
  /\ IF loopback THEN Receive(resp_id) ELSE UNCHANGED receiving
  /\ UNCHANGED <<tool, pc, opening, signals, options, modes, reacting, sending, handed>>

(* An adapter is unplugged, which ends what it was doing, and plugged in    *)
(* again; a tool that has it open does not get it back.                     *)
Unplug(a) ==
  /\ live' = live \ {a} /\ left' = left \ {a}
  /\ IF a = adapter THEN plugged' = FALSE /\ txq' = <<>> ELSE UNCHANGED <<plugged, txq>>
  /\ UNCHANGED <<tool, pc, ids, adapter, signals, options, receiving, reacting, sending, handed,
                 wire>>

-------------------------------------------------------------------------------
(* The tool goes on. *)
ToolStep ==
  \/ Check \/ OneId \/ gsusb_tool_open \/ do_scan \/ Report
  \/ Start \/ InstallHandler \/ Stop \/ Close
  \/ TestStop \/ RecvFrame \/ RecvNothing \/ Reply
  \/ SendFrame \/ SendFails \/ SendDone

Next ==
  \/ \E t \in DOMAIN main : Run(t)
  \/ ToolStep
  \/ Die \/ on_sigint
  \/ FrameArrives \/ FrameLeaves
  \/ \E a \in Adapters : Unplug(a)

Spec == Init /\ [][Next]_vars

(* Every call of the library has a time-out. *)
FairSpec == Spec /\ WF_vars(ToolStep)

-------------------------------------------------------------------------------
(* Properties. *)

(* An adapter whose channel is live is in use, or was left so by a tool     *)
(* that was killed or had a request fail.  A tool that starts its channel   *)
(* and comes to its end, by error or not, leaves it stopped, also where an  *)
(* earlier one had left it live; gsusb_info, and a tool that ends before    *)
(* the start, leave it as they found it.                                    *)
LeftQuiet ==
  \A a \in live \ left : a = adapter /\ pc \in {"signal", "loop", "recv", "reply", "stop"}

(* gsusb_send hands the adapter the frames of its command line, in order,   *)
(* `repeat` times, and after an error no more; the bus has a beginning of   *)
(* that.  Exit status 0 says that all were handed over, not that all were   *)
(* sent: gsusb_channel_stop() takes the last ones back.                     *)
SendsInOrder ==
  tool = "send" =>
    LET list == [n \in 1..(repeat * nframes) |-> ((n - 1) % nframes) + 1]
    IN /\ IsPrefix(handed, list)
       /\ pc \in {"stop", "close"} /\ ret = 0 => handed = list
       /\ IsPrefix(wire, handed)
       /\ plugged /\ pc \in {"loop", "stop"} => wire \o txq = handed

(* Key frames in a queue. *)
KeysIn(q) == Cardinality({k \in DOMAIN q : q[k] = "key"})

(* Every key frame that gsusb_react's channel received was answered once,   *)
(* its answer failed, waits in the queue, or was dropped there for a newer  *)
(* one; nothing else is answered.                                           *)
KeysAnswered ==
  tool = "react" =>
    /\ keys = seen + missed + KeysIn(rxq)
    /\ seen = reacted + unsent + (IF pc = "reply" THEN 1 ELSE 0)
    /\ Len(handed) \in reacted..(reacted + unsent)

(* gsusb_info and gsusb_send always end; gsusb_dump and gsusb_react when    *)
(* they have been interrupted, also on a busy bus, on a silent one, and     *)
(* without their adapter.                                                   *)
ToolsEnd == tool \in {"info", "send"} \/ g_stop ~> tool = "none"
===============================================================================
