----------------------------- MODULE GsusbRxProofs -----------------------------
(***************************************************************************)
(* Theorems about GsusbDevice, and about GsusbRx, which extends it, for any *)
(* number of channels, callers and thread ids, any capacity of the queues   *)
(* and any length of the pipe.                                              *)
(*                                                                         *)
(* The first part is about the lifecycle (Spec).  The count of the started  *)
(* channels is right under every interleaving; that the reader thread and   *)
(* the device follow it is proved for applications that do not overlap      *)
(* their calls (Serialised).  The second part is about the receive path     *)
(* (RxSpec), which takes the steps of the lifecycle.  That no frame is lost *)
(* is proved under every interleaving; the order of frames and their time   *)
(* stamps depend on there being one reader, and are proved for Serialised   *)
(* applications.                                                            *)
(***************************************************************************)
EXTENDS GsusbRx, SequenceTheorems, FiniteSetTheorems, TLAPS

-------------------------------------------------------------------------------
(* The lifecycle. *)

Starting == {"start_ctrl", "start_commit", "start_create"}

Closing == {"close_join", "close_free"}

(* start_lock is held exactly during the part of gsusb_channel_start() that *)
(* spans the USB request.                                                   *)
LockInv == \A c \in Callers : pc[c] \in Starting <=> start_lock = c

(* A call runs on an open device, and gsusb_close() runs alone. *)
CallInv ==
  /\ \A c \in Callers : pc[c] # "idle" => opened
  /\ \A c, d \in Callers : pc[c] \in Closing /\ c # d => pc[d] = "idle"

(* The channel of a start is not started before it is committed. *)
StartArg ==
  \A c \in Callers :
    /\ pc[c] \in {"start_ctrl", "start_commit"} => ch[c] \in Channels \ started
    /\ pc[c] = "start_create" => ch[c] \in started
    /\ pc[c] \in {"stop_reset", "stop_last"} => ch[c] \in Channels

(* What holds under every interleaving. *)
CountInv == TypeOK /\ LockInv /\ CallInv /\ StartArg /\ ActiveCount

-------------------------------------------------------------------------------
(* Every step preserves the types. *)
LEMMA TypeStep ==
  ASSUME TypeOK, StartArg, ActiveCount, [Next]_vars
  PROVE  TypeOK'
<1> USE DEF TypeOK, guarded, locals, device, Goto
<1>1. ASSUME NEW c \in Callers, NEW k \in Channels, NEW fd \in BOOLEAN, StartCall(c, k, fd)
      PROVE  TypeOK'
  BY <1>1 DEF StartCall, Begin
<1>2. ASSUME NEW c \in Callers, StartCtrl(c)
      PROVE  TypeOK'
  BY <1>2 DEF StartCtrl, ModeOk, ModeFails, StartArg
<1>3. ASSUME NEW c \in Callers, StartCommit(c)
      PROVE  TypeOK'
  BY <1>3 DEF StartCommit, StartArg
<1>4. ASSUME NEW c \in Callers, StartCreate(c)
      PROVE  TypeOK'
  <2>1. active_channels - 1 \in Nat /\ ch[c] \in Channels
    <3>1. ch[c] \in started
      BY <1>4 DEF StartCreate, CreateReader, StartArg
    <3>2. IsFiniteSet(started)
      BY DeviceAssumption, FS_Subset
    <3>3. Cardinality(started) # 0
      BY <3>1, <3>2, FS_EmptySet
    <3> QED
      BY <3>1, <3>3 DEF ActiveCount
  <2> QED
    BY <1>4, <2>1 DEF StartCreate, CreateReader
<1>5. ASSUME NEW c \in Callers, NEW k \in Channels, StopCall(c, k)
      PROVE  TypeOK'
  BY <1>5 DEF StopCall, Begin
<1>6. ASSUME NEW c \in Callers, StopCtrl(c)
      PROVE  TypeOK'
  BY <1>6 DEF StopCtrl, ModeOk, ModeFails, StartArg
<1>7. ASSUME NEW c \in Callers, StopJoinCall(c)
      PROVE  TypeOK'
  BY <1>7 DEF StopJoinCall
<1>8. ASSUME NEW c \in Callers, StopJoin(c)
      PROVE  TypeOK'
  BY <1>8 DEF StopJoin, JoinReturns
<1>9. ASSUME NEW c \in Callers, StopClear(c)
      PROVE  TypeOK'
  BY <1>9 DEF StopClear
<1>10. ASSUME NEW c \in Callers, CloseCall(c)
      PROVE  TypeOK'
  BY <1>10 DEF CloseCall, Begin
<1>11. ASSUME NEW c \in Callers, CloseJoin(c)
      PROVE  TypeOK'
  BY <1>11 DEF CloseJoin, JoinReturns
<1>12. ASSUME NEW c \in Callers, CloseFree(c)
      PROVE  TypeOK'
  BY <1>12 DEF CloseFree, ModeOk, ModeFails
<1>13. CASE Open
  BY <1>13 DEF Open
<1>14. ASSUME NEW r \in Readers, ReaderStep(r)
      PROVE  TypeOK'
  BY <1>14 DEF ReaderStep, ReaderAlloc, ReaderTop, ReaderTransfer, ReaderGoto
<1>15. CASE Unplug
  BY <1>15 DEF Unplug
<1>16. CASE UNCHANGED vars
  BY <1>16 DEF vars
<1> QED
  BY <1>1, <1>2, <1>3, <1>4, <1>5, <1>6, <1>7, <1>8, <1>9, <1>10, <1>11, <1>12, <1>13,
     <1>14, <1>15, <1>16 DEF Next, CallBegins, CallGoesOn, CallStep, StartRefused, StopIdle

(* Every step keeps the lock discipline, the calls inside the device's life *)
(* and the arguments of the calls in progress.                              *)
LEMMA DisciplineStep ==
  ASSUME TypeOK, LockInv, CallInv, StartArg, [Next]_vars
  PROVE  LockInv' /\ CallInv' /\ StartArg'
<1> USE DeviceAssumption
        DEF TypeOK, LockInv, CallInv, StartArg, Starting, Closing, guarded, locals, device, Goto
<1>1. ASSUME NEW c \in Callers, NEW k \in Channels, NEW fd \in BOOLEAN, StartCall(c, k, fd)
      PROVE  LockInv' /\ CallInv' /\ StartArg'
  BY <1>1 DEF StartCall, Begin
<1>2. ASSUME NEW c \in Callers, StartCtrl(c)
      PROVE  LockInv' /\ CallInv' /\ StartArg'
  BY <1>2 DEF StartCtrl
<1>3. ASSUME NEW c \in Callers, StartCommit(c)
      PROVE  LockInv' /\ CallInv' /\ StartArg'
  BY <1>3 DEF StartCommit
<1>4. ASSUME NEW c \in Callers, StartCreate(c)
      PROVE  LockInv' /\ CallInv' /\ StartArg'
  BY <1>4 DEF StartCreate, CreateReader
<1>5. ASSUME NEW c \in Callers, NEW k \in Channels, StopCall(c, k)
      PROVE  LockInv' /\ CallInv' /\ StartArg'
  BY <1>5 DEF StopCall, Begin
<1>6. ASSUME NEW c \in Callers, StopCtrl(c)
      PROVE  LockInv' /\ CallInv' /\ StartArg'
  BY <1>6 DEF StopCtrl
<1>7. ASSUME NEW c \in Callers, StopJoinCall(c)
      PROVE  LockInv' /\ CallInv' /\ StartArg'
  BY <1>7 DEF StopJoinCall
<1>8. ASSUME NEW c \in Callers, StopJoin(c)
      PROVE  LockInv' /\ CallInv' /\ StartArg'
  BY <1>8 DEF StopJoin
<1>9. ASSUME NEW c \in Callers, StopClear(c)
      PROVE  LockInv' /\ CallInv' /\ StartArg'
  BY <1>9 DEF StopClear
<1>10. ASSUME NEW c \in Callers, CloseCall(c)
      PROVE  LockInv' /\ CallInv' /\ StartArg'
  BY <1>10 DEF CloseCall, Begin, AllIdle
<1>11. ASSUME NEW c \in Callers, CloseJoin(c)
      PROVE  LockInv' /\ CallInv' /\ StartArg'
  BY <1>11 DEF CloseJoin
<1>12. ASSUME NEW c \in Callers, CloseFree(c)
      PROVE  LockInv' /\ CallInv' /\ StartArg'
  BY <1>12 DEF CloseFree
<1>13. CASE Open
  BY <1>13 DEF Open
<1>14. ASSUME NEW r \in Readers, ReaderStep(r)
      PROVE  LockInv' /\ CallInv' /\ StartArg'
  BY <1>14 DEF ReaderStep, ReaderAlloc, ReaderTop, ReaderTransfer, ReaderGoto
<1>15. CASE Unplug
  BY <1>15 DEF Unplug
<1>16. CASE UNCHANGED vars
  BY <1>16 DEF vars
<1> QED
  BY <1>1, <1>2, <1>3, <1>4, <1>5, <1>6, <1>7, <1>8, <1>9, <1>10, <1>11, <1>12, <1>13,
     <1>14, <1>15, <1>16 DEF Next, CallBegins, CallGoesOn, CallStep, StartRefused, StopIdle

-------------------------------------------------------------------------------
(* The started channels can be counted. *)
LEMMA StartedFinite ==
  ASSUME TypeOK
  PROVE  IsFiniteSet(started)
  BY DeviceAssumption, FS_Subset DEF TypeOK

(* A channel that is started counts for one. *)
LEMMA CountRemove ==
  ASSUME TypeOK, ActiveCount, NEW k \in started
  PROVE  /\ active_channels > 0
         /\ Cardinality(started \ {k}) = active_channels - 1
         /\ active_channels - 1 = 0 <=> started = {k}
<1>1. IsFiniteSet(started)
  BY StartedFinite
<1>2. Cardinality(started \ {k}) = active_channels - 1
  BY <1>1, FS_RemoveElement DEF ActiveCount
<1>3. IsFiniteSet(started \ {k})
  BY <1>1, FS_RemoveElement
<1>4. Cardinality(started \ {k}) \in Nat
  BY <1>3, FS_CardinalityType
<1>5. Cardinality(started \ {k}) = 0 <=> started \ {k} = {}
  BY <1>3, FS_EmptySet
<1> QED
  BY <1>2, <1>4, <1>5 DEF TypeOK

(* Every step keeps the count. *)
LEMMA CountStep ==
  ASSUME CountInv, [Next]_vars
  PROVE  ActiveCount'
<1> USE DEF CountInv, guarded, locals, device
<1>1. ASSUME NEW c \in Callers, StartCommit(c)
      PROVE  ActiveCount'
  <2>1. ch[c] \notin started
    BY <1>1 DEF StartCommit, StartArg
  <2>2. Cardinality(started \cup {ch[c]}) = Cardinality(started) + 1
    BY <2>1, StartedFinite, FS_AddElement
  <2> QED
    BY <1>1, <2>2 DEF StartCommit, ActiveCount
<1>2. ASSUME NEW c \in Callers, StartCreate(c)
      PROVE  ActiveCount'
  <2>1. ch[c] \in started
    BY <1>2 DEF StartCreate, CreateReader, StartArg
  <2>2. Cardinality(started \ {ch[c]}) = active_channels - 1
    BY <2>1, CountRemove
  <2> QED
    BY <1>2, <2>2 DEF StartCreate, CreateReader, ActiveCount
<1>3. ASSUME NEW c \in Callers, NEW k \in Channels, StopCall(c, k)
      PROVE  ActiveCount'
  <2>1. k \in started
    BY <1>3 DEF StopCall
  <2>2. active_channels > 0 /\ Cardinality(started \ {k}) = active_channels - 1
    BY <2>1, CountRemove
  <2> QED
    BY <1>3, <2>2 DEF StopCall, ActiveCount
<1>4. CASE Open
  BY <1>4, FS_EmptySet DEF Open, ActiveCount
<1>5. CASE UNCHANGED <<started, active_channels>>
  BY <1>5 DEF ActiveCount
<1>6. \/ UNCHANGED <<started, active_channels>>
      \/ Open
      \/ \E c \in Callers : StartCommit(c) \/ StartCreate(c) \/ \E k \in Channels : StopCall(c, k)
  BY DEF Next, CallBegins, CallGoesOn, CallStep, ReaderStep, StartRefused, StopIdle, StartCall,
         StartCtrl, StopCtrl, StopJoinCall, StopJoin, StopClear, CloseCall, CloseJoin, CloseFree,
         ReaderAlloc, ReaderTop, ReaderTransfer, ReaderGoto, Unplug, vars
<1> QED
  BY <1>1, <1>2, <1>3, <1>4, <1>5, <1>6

(* The invariant of every interleaving. *)
LEMMA CountInvariant == Spec => []CountInv
<1>1. Init => CountInv
  <2> SUFFICES ASSUME Init PROVE CountInv
    OBVIOUS
  <2>1. TypeOK
    BY DEF Init, TypeOK
  <2>2. LockInv /\ CallInv /\ StartArg
    BY DeviceAssumption DEF Init, LockInv, CallInv, StartArg, Starting, Closing
  <2>3. ActiveCount
    BY FS_EmptySet DEF Init, ActiveCount
  <2> QED
    BY <2>1, <2>2, <2>3 DEF CountInv
<1>2. CountInv /\ [Next]_vars => CountInv'
  BY TypeStep, DisciplineStep, CountStep DEF CountInv
<1> QED
  BY <1>1, <1>2, PTL DEF Spec

(* The state of the device object is always well typed. *)
THEOREM DeviceTypeCorrect == Spec => []TypeOK
<1>1. CountInv => TypeOK
  BY DEF CountInv
<1> QED
  BY <1>1, CountInvariant, PTL

(* active_channels is the number of started channels, for any number of     *)
(* threads calling start, stop and close in any order, with any failures.   *)
THEOREM ChannelsCounted == Spec => []ActiveCount
<1>1. CountInv => ActiveCount
  BY DEF CountInv
<1> QED
  BY <1>1, CountInvariant, PTL

-------------------------------------------------------------------------------
(* Applications that do not overlap their calls. *)

OneCall == \A c, d \in Callers : pc[c] # "idle" /\ pc[d] # "idle" => c = d

AllFree == \A r \in Readers : rpc[r] = "free"

HasReader == reader_running /\ reader_thread \in Readers /\ rpc[reader_thread] # "free"

(* A reader leaves its loop in good order only when told to. *)
ToldToExit == \A r \in Readers : rpc[r] = "exited" => stop_flag

(* Outside the windows below: a reader exactly while a channel is started. *)
Steady == IF started = {} THEN ~reader_running ELSE HasReader /\ ~stop_flag

(* What each step of a call finds; a start about to create the reader, a    *)
(* stop of the last channel and a close are where Steady does not hold.     *)
Phases ==
  /\ opened /\ (\A c \in Callers : pc[c] \in {"idle", "start_ctrl", "start_commit", "stop_reset"})
       => Steady
  /\ \A c \in Callers :
       /\ pc[c] = "start_create" => ~reader_running /\ started = {ch[c]}
       /\ pc[c] \in {"stop_last", "stop_join", "stop_joining"} =>
            started = {} /\ stop_flag /\ HasReader
       /\ pc[c] = "stop_joining" => join[c] = reader_thread
       /\ pc[c] = "stop_clear" => started = {} /\ AllFree
       /\ pc[c] = "close_join" =>
            IF reader_running THEN HasReader /\ join[c] = reader_thread ELSE join[c] = NoOne
       /\ pc[c] = "close_free" => AllFree

SerialInv == OneCall /\ OnlyReader /\ ToldToExit /\ Phases

(* Calls stay one at a time. *)
LEMMA OneCallStep ==
  ASSUME Serialised, TypeOK, OneCall, [Next]_vars
  PROVE  OneCall'
<1>1. ASSUME NEW c \in Callers, \A d \in Callers \ {c} : pc'[d] = pc[d],
             pc[c] # "idle" \/ AllIdle
      PROVE  OneCall'
  BY <1>1 DEF OneCall, AllIdle, TypeOK
<1>2. ASSUME UNCHANGED pc
      PROVE  OneCall'
  BY <1>2 DEF OneCall
<1>3. ASSUME NEW c \in Callers, CallStep(c)
      PROVE  OneCall'
  <2>1. pc[c] # "idle"
    BY <1>3 DEF CallGoesOn, CallStep, StartCtrl, StartCommit, StartCreate, CreateReader, StopCtrl,
                StopJoinCall, StopJoin, StopClear, CloseJoin, CloseFree
  <2>2. \A d \in Callers \ {c} : pc'[d] = pc[d]
    BY <1>3 DEF CallGoesOn, CallStep, StartCtrl, StartCommit, StartCreate, CreateReader, StopCtrl,
                StopJoinCall, StopJoin, StopClear, CloseJoin, CloseFree, Goto, TypeOK
  <2> QED
    BY <1>1, <2>1, <2>2
<1>4. ASSUME NEW c \in Callers,
             \/ CloseCall(c)
             \/ \E k \in Channels : StopCall(c, k) \/ \E fd \in BOOLEAN : StartCall(c, k, fd)
      PROVE  OneCall'
  <2>1. AllIdle
    BY <1>4 DEF CloseCall, StopCall, StartCall, Begin
  <2>2. \A d \in Callers \ {c} : pc'[d] = pc[d]
    BY <1>4 DEF CloseCall, StopCall, StartCall, Goto, TypeOK
  <2> QED
    BY <1>1, <2>1, <2>2
<1>5. ASSUME Open \/ Unplug \/ (\E r \in Readers : ReaderStep(r)) \/ UNCHANGED vars
      PROVE  OneCall'
  BY <1>2, <1>5 DEF Open, Unplug, ReaderStep, ReaderAlloc, ReaderTop, ReaderTransfer, ReaderGoto,
                    vars
<1> QED
  BY <1>3, <1>4, <1>5 DEF Next, CallBegins, StartRefused, StopIdle

(* Every step keeps the reader thread in step with the calls. *)
LEMMA SerialStep ==
  ASSUME Serialised, CountInv, SerialInv, [Next]_vars
  PROVE  SerialInv'
<1>a. OneCall'
  BY OneCallStep DEF CountInv, SerialInv
<1>b. TypeOK'
  BY TypeStep DEF CountInv
<1> USE DeviceAssumption, <1>a
        DEF CountInv, SerialInv, OneCall, OnlyReader, ToldToExit, Phases, Steady, HasReader,
            AllFree, TypeOK, Goto, guarded, locals, device
<1>1. ASSUME NEW c \in Callers, NEW k \in Channels, NEW fd \in BOOLEAN, StartCall(c, k, fd)
      PROVE  SerialInv'
  BY <1>1 DEF StartCall, Begin, AllIdle
<1>2. ASSUME NEW c \in Callers, StartCtrl(c)
      PROVE  SerialInv'
  BY <1>2 DEF StartCtrl
<1>3. ASSUME NEW c \in Callers, StartCommit(c)
      PROVE  SerialInv'
  <2>1. opened /\ \A d \in Callers \ {c} : pc[d] = "idle" /\ pc'[d] = "idle"
    BY <1>3 DEF StartCommit, CallInv
  <2>2. Steady
    BY <1>3, <2>1 DEF StartCommit
  <2>3. UNCHANGED <<opened, reader_running, stop_flag, reader_thread, rpc, join, ch>>
    BY <1>3 DEF StartCommit
  <2>4. started' = started \cup {ch[c]}
    BY <1>3 DEF StartCommit
  <2>5. CASE reader_running
    <3>1. started # {} /\ HasReader /\ ~stop_flag
      BY <2>2, <2>5
    <3>2. started' # {} /\ Steady'
      BY <2>3, <2>4, <3>1
    <3>3. pc'[c] = "idle"
      BY <1>3, <2>5 DEF StartCommit
    <3> QED
      BY <2>1, <2>3, <3>2, <3>3
  <2>6. CASE ~reader_running
    <3>1. started = {}
      BY <2>2, <2>6
    <3>2. started' = {ch'[c]}
      BY <2>3, <2>4, <3>1
    <3>3. pc'[c] = "start_create"
      BY <1>3, <2>6 DEF StartCommit
    <3> QED
      BY <2>1, <2>3, <2>6, <3>2, <3>3
  <2> QED
    BY <2>5, <2>6
<1>4. ASSUME NEW c \in Callers, StartCreate(c)
      PROVE  SerialInv'
  <2>1. /\ opened /\ opened' /\ pc'[c] = "idle" /\ ~stop_flag'
        /\ \A d \in Callers \ {c} : pc[d] = "idle" /\ pc'[d] = "idle"
        /\ ~reader_running /\ AllFree /\ started = {ch[c]}
    BY <1>4 DEF StartCreate, CreateReader, CallInv
  <2>2. ASSUME NEW r \in Readers, rpc' = [rpc EXCEPT ![r] = "new"], reader_thread' = r,
               reader_running', started' = started
        PROVE  SerialInv'
    <3>1. rpc'[r] = "new" /\ \A q \in Readers \ {r} : rpc'[q] = "free"
      BY <2>1, <2>2
    <3> QED
      BY <2>1, <2>2, <3>1
  <2>3. ASSUME started' = started \ {ch[c]}, UNCHANGED <<rpc, reader_thread, reader_running>>
        PROVE  SerialInv'
    <3>1. started' = {} /\ ~reader_running' /\ AllFree'
      BY <2>1, <2>3
    <3> QED
      BY <2>1, <3>1
  <2> QED
    BY <1>4, <2>2, <2>3 DEF StartCreate, CreateReader
<1>5. ASSUME NEW c \in Callers, NEW k \in Channels, StopCall(c, k)
      PROVE  SerialInv'
  <2>1. /\ opened /\ pc[c] = "idle" /\ k \in started
        /\ \A d \in Callers \ {c} : pc[d] = "idle" /\ pc'[d] = "idle"
        /\ started' = started \ {k}
        /\ UNCHANGED <<opened, rpc, reader_running, reader_thread, join>>
    BY <1>5 DEF StopCall, Begin, AllIdle
  <2>2. HasReader /\ ~stop_flag /\ HasReader'
    BY <2>1
  <2>3. active_channels > 0 /\ (active_channels - 1 = 0 <=> started = {k})
    BY <2>1, CountRemove
  <2>4. CASE started = {k}
    <3>1. pc'[c] = "stop_last" /\ stop_flag' /\ started' = {}
      BY <1>5, <2>1, <2>3, <2>4 DEF StopCall
    <3> QED
      BY <2>1, <2>2, <3>1
  <2>5. CASE started # {k}
    <3>1. pc'[c] = "stop_reset" /\ ~stop_flag' /\ started' # {}
      BY <1>5, <2>1, <2>2, <2>3, <2>5 DEF StopCall
    <3> QED
      BY <2>1, <2>2, <3>1
  <2> QED
    BY <2>4, <2>5
<1>6. ASSUME NEW c \in Callers, StopCtrl(c)
      PROVE  SerialInv'
  BY <1>6 DEF StopCtrl
<1>7. ASSUME NEW c \in Callers, StopJoinCall(c)
      PROVE  SerialInv'
  BY <1>7 DEF StopJoinCall
<1>8. ASSUME NEW c \in Callers, StopJoin(c)
      PROVE  SerialInv'
  BY <1>8 DEF StopJoin, JoinReturns
<1>9. ASSUME NEW c \in Callers, StopClear(c)
      PROVE  SerialInv'
  BY <1>9 DEF StopClear
<1>10. ASSUME NEW c \in Callers, CloseCall(c)
      PROVE  SerialInv'
  BY <1>10 DEF CloseCall, Begin, AllIdle
<1>11. ASSUME NEW c \in Callers, CloseJoin(c)
      PROVE  SerialInv'
  BY <1>11 DEF CloseJoin, JoinReturns
<1>12. ASSUME NEW c \in Callers, CloseFree(c)
      PROVE  SerialInv'
  BY <1>12 DEF CloseFree
<1>13. CASE Open
  BY <1>13 DEF Open, CallInv
<1>14. ASSUME NEW r \in Readers, ReaderStep(r)
      PROVE  SerialInv'
  BY <1>14 DEF ReaderStep, ReaderAlloc, ReaderTop, ReaderTransfer, ReaderGoto
<1>15. CASE Unplug
  BY <1>15 DEF Unplug
<1>16. CASE UNCHANGED vars
  BY <1>16 DEF vars
<1> QED
  BY <1>1, <1>2, <1>3, <1>4, <1>5, <1>6, <1>7, <1>8, <1>9, <1>10, <1>11, <1>12, <1>13,
     <1>14, <1>15, <1>16 DEF Next, CallBegins, CallGoesOn, CallStep, StartRefused, StopIdle

(* What the device has live, request by request: the started channels, and  *)
(* the channel of a call that is between its request and its bookkeeping.   *)
ModeInv ==
  /\ \A c \in Callers :
       /\ pc[c] = "start_commit" /\ plugged => ch[c] \in dev_on
       /\ pc[c] \in {"stop_reset", "stop_last"} => ch[c] \notin started
  /\ opened /\ plugged => started \subseteq dev_on
  /\ ~plugged => dev_on = {}
  /\ \A k \in dev_on \ faulted :
       /\ opened
       /\ \/ k \in started
          \/ \E c \in Callers :
               /\ ch[c] = k
               /\ pc[c] \in {"start_commit", "stop_reset", "stop_last"}

(* Every step keeps the device's channels in step with the calls. *)
LEMMA ModeStep ==
  ASSUME Serialised, CountInv, OneCall, ModeInv, [Next]_vars
  PROVE  ModeInv'
<1>a. OneCall'
  BY OneCallStep DEF CountInv
<1> USE DeviceAssumption, <1>a
        DEF CountInv, OneCall, ModeInv, TypeOK, Goto, guarded, locals, device, ModeOk, ModeFails
<1>1. ASSUME NEW c \in Callers, NEW k \in Channels, NEW fd \in BOOLEAN, StartCall(c, k, fd)
      PROVE  ModeInv'
  BY <1>1 DEF StartCall, Begin, AllIdle
<1>2. ASSUME NEW c \in Callers, StartCtrl(c)
      PROVE  ModeInv'
  <2>1. /\ opened /\ opened' /\ UNCHANGED <<started, ch, plugged>>
        /\ \A d \in Callers \ {c} : pc[d] = "idle" /\ pc'[d] = "idle"
        /\ \A d \in Callers : pc[d] \notin {"start_commit", "stop_reset", "stop_last"}
    BY <1>2 DEF StartCtrl, CallInv
  <2>2. ASSUME plugged, dev_on' = dev_on \cup {ch[c]}, faulted' = faulted \ {ch[c]},
               pc'[c] = "start_commit"
        PROVE  ModeInv'
    BY <2>1, <2>2
  <2>3. ASSUME dev_on \subseteq dev_on', dev_on' \subseteq dev_on \cup {ch[c]},
               ~plugged => dev_on' = dev_on, faulted' = faulted \cup {ch[c]}, pc'[c] = "idle"
        PROVE  ModeInv'
    BY <2>1, <2>3
  <2> QED
    BY <1>2, <2>1, <2>2, <2>3 DEF StartCtrl
<1>3. ASSUME NEW c \in Callers, StartCommit(c)
      PROVE  ModeInv'
  BY <1>3 DEF StartCommit
<1>4. ASSUME NEW c \in Callers, StartCreate(c)
      PROVE  ModeInv'
  <2>1. /\ opened /\ opened' /\ UNCHANGED <<ch, dev_on, plugged>>
        /\ \A d \in Callers \ {c} : pc[d] = "idle" /\ pc'[d] = "idle"
        /\ pc'[c] = "idle"
        /\ \A d \in Callers : pc[d] \notin {"start_commit", "stop_reset", "stop_last"}
    BY <1>4 DEF StartCreate, CreateReader, CallInv
  <2>2. ASSUME UNCHANGED <<started, faulted>>
        PROVE  ModeInv'
    BY <2>1, <2>2
  <2>3. ASSUME started' = started \ {ch[c]}, faulted' = faulted \cup {ch[c]}
        PROVE  ModeInv'
    BY <2>1, <2>3
  <2> QED
    BY <1>4, <2>2, <2>3 DEF StartCreate, CreateReader
<1>5. ASSUME NEW c \in Callers, NEW k \in Channels, StopCall(c, k)
      PROVE  ModeInv'
  BY <1>5 DEF StopCall, Begin, AllIdle
<1>6. ASSUME NEW c \in Callers, StopCtrl(c)
      PROVE  ModeInv'
  BY <1>6 DEF StopCtrl
<1>7. ASSUME NEW c \in Callers, StopJoinCall(c) \/ StopJoin(c) \/ StopClear(c) \/ CloseJoin(c)
      PROVE  ModeInv'
  BY <1>7 DEF StopJoinCall, StopJoin, StopClear, CloseJoin
<1>8. ASSUME NEW c \in Callers, CloseCall(c)
      PROVE  ModeInv'
  BY <1>8 DEF CloseCall, Begin, AllIdle
<1>9. ASSUME NEW c \in Callers, CloseFree(c)
      PROVE  ModeInv'
  BY <1>9 DEF CloseFree
<1>10. CASE Open
  BY <1>10 DEF Open, CallInv
<1>11. ASSUME NEW r \in Readers, ReaderStep(r)
      PROVE  ModeInv'
  BY <1>11 DEF ReaderStep, ReaderAlloc, ReaderTop, ReaderTransfer, ReaderGoto
<1>12. CASE Unplug
  BY <1>12 DEF Unplug
<1>13. CASE UNCHANGED vars
  BY <1>13 DEF vars
<1> QED
  BY <1>1, <1>2, <1>3, <1>4, <1>5, <1>6, <1>7, <1>8, <1>9, <1>10, <1>11, <1>12, <1>13
     DEF Next, CallBegins, CallGoesOn, CallStep, StartRefused, StopIdle

(* The invariant of applications that do not overlap their calls. *)
LEMMA SerialInvariant ==
  ASSUME Serialised
  PROVE  Spec => [](CountInv /\ SerialInv /\ ModeInv)
<1>1. Init => CountInv /\ SerialInv /\ ModeInv
  <2> SUFFICES ASSUME Init PROVE CountInv /\ SerialInv /\ ModeInv
    OBVIOUS
  <2>1. TypeOK
    BY DEF Init, TypeOK
  <2>2. LockInv /\ CallInv /\ StartArg
    BY DeviceAssumption DEF Init, LockInv, CallInv, StartArg, Starting, Closing
  <2>3. ActiveCount
    BY FS_EmptySet DEF Init, ActiveCount
  <2>4. SerialInv /\ ModeInv
    BY DEF Init, SerialInv, OneCall, OnlyReader, ToldToExit, Phases, ModeInv
  <2> QED
    BY <2>1, <2>2, <2>3, <2>4 DEF CountInv
<1>2. (CountInv /\ SerialInv /\ ModeInv) /\ [Next]_vars => (CountInv /\ SerialInv /\ ModeInv)'
  <2>1. CountInv /\ [Next]_vars => CountInv'
    BY TypeStep, DisciplineStep, CountStep DEF CountInv
  <2>2. SerialInv => OneCall
    BY DEF SerialInv
  <2> QED
    BY <2>1, <2>2, SerialStep, ModeStep
<1> QED
  BY <1>1, <1>2, PTL DEF Spec

(* There is never more than one reader thread, and it is the one that the   *)
(* next stop of the last channel, or close, joins.                          *)
THEOREM ReaderIsShared == Serialised => (Spec => []OnlyReader)
<1> SUFFICES ASSUME Serialised PROVE Spec => []OnlyReader
  OBVIOUS
<1>1. SerialInv => OnlyReader
  BY DEF SerialInv
<1> QED
  BY <1>1, SerialInvariant, PTL

(* A device with started channels has a reader that nobody told to stop.    *)
THEOREM StartedHasReader == Serialised => (Spec => []ActiveHasReader)
<1> SUFFICES ASSUME Serialised PROVE Spec => []ActiveHasReader
  OBVIOUS
<1>1. CountInv /\ SerialInv => ActiveHasReader
  BY DEF CountInv, SerialInv, ActiveHasReader, Phases, Steady, HasReader, ToldToExit, AllIdle,
         TypeOK
<1> QED
  BY <1>1, SerialInvariant, PTL

(* A device without started channels has none.                              *)
THEOREM StoppedHasNoReader == Serialised => (Spec => []IdleHasNoReader)
<1> SUFFICES ASSUME Serialised PROVE Spec => []IdleHasNoReader
  OBVIOUS
<1>1. CountInv /\ SerialInv => IdleHasNoReader
  BY DEF CountInv, SerialInv, IdleHasNoReader, Phases, Steady, OnlyReader, AllIdle, TypeOK
<1> QED
  BY <1>1, SerialInvariant, PTL

(* Both at once: readers are accounted for at any moment.                   *)
THEOREM ReaderIsAccounted == Serialised => (Spec => []ReaderAccounted)
<1>1. OnlyReader /\ IdleHasNoReader => ReaderAccounted
  BY DEF ReaderAccounted
<1> QED
  BY <1>1, ReaderIsShared, StoppedHasNoReader, PTL

(* A started channel is live on the device.                                 *)
THEOREM StartedChannelLive == Serialised => (Spec => []StartedIsLive)
<1> SUFFICES ASSUME Serialised PROVE Spec => []StartedIsLive
  OBVIOUS
<1>1. ModeInv => StartedIsLive
  BY DEF ModeInv, StartedIsLive
<1> QED
  BY <1>1, SerialInvariant, PTL

(* The device has live exactly the started channels, and those whose last   *)
(* request failed.                                                          *)
THEOREM DeviceModesAgree == Serialised => (Spec => []ModesAgree)
<1> SUFFICES ASSUME Serialised PROVE Spec => []ModesAgree
  OBVIOUS
<1>1. ModeInv => ModesAgree
  BY DEF ModeInv, ModesAgree, AllIdle
<1> QED
  BY <1>1, SerialInvariant, PTL

(* Both at once: library and device agree.                                  *)
THEOREM LibraryAndDeviceAgree == Serialised => (Spec => []DeviceAgrees)
<1>1. StartedIsLive /\ ModesAgree => DeviceAgrees
  BY DEF DeviceAgrees
<1> QED
  BY <1>1, StartedChannelLive, DeviceModesAgree, PTL

(* gsusb_close() has raised stop_flag before it joins. *)
CloseTold == \A c \in Callers : pc[c] = "close_join" => stop_flag

(* A caller inside pthread_join() waits for a thread that was created and   *)
(* not joined, that has been told to exit, and that start_lock is free for. *)
JoinsCanEnd ==
  \A c \in Callers :
    pc[c] = "stop_joining" \/ (pc[c] = "close_join" /\ join[c] # NoOne) =>
      /\ join[c] \in Readers /\ rpc[join[c]] # "free"
      /\ stop_flag /\ start_lock = NoOne

LEMMA CloseToldStep ==
  ASSUME TypeOK, CallInv, CloseTold, [Next]_vars
  PROVE  CloseTold'
<1> USE DEF TypeOK, CallInv, Closing, CloseTold, guarded, locals, device, Goto
<1>1. ASSUME NEW c \in Callers, NEW k \in Channels, NEW fd \in BOOLEAN, StartCall(c, k, fd)
      PROVE  CloseTold'
  BY <1>1 DEF StartCall, Begin
<1>2. ASSUME NEW c \in Callers, StartCtrl(c) \/ StartCommit(c)
      PROVE  CloseTold'
  BY <1>2 DEF StartCtrl, StartCommit
<1>3. ASSUME NEW c \in Callers, StartCreate(c)
      PROVE  CloseTold'
  <2>1. \A d \in Callers : pc[d] # "close_join"
    BY <1>3 DEF StartCreate, CreateReader
  <2> QED
    BY <1>3, <2>1 DEF StartCreate, CreateReader
<1>4. ASSUME NEW c \in Callers, NEW k \in Channels, StopCall(c, k)
      PROVE  CloseTold'
  BY <1>4 DEF StopCall, Begin
<1>5. ASSUME NEW c \in Callers, StopCtrl(c)
      PROVE  CloseTold'
  BY <1>5 DEF StopCtrl
<1>6. ASSUME NEW c \in Callers, StopJoinCall(c) \/ StopJoin(c) \/ StopClear(c) \/ CloseJoin(c)
      PROVE  CloseTold'
  BY <1>6 DEF StopJoinCall, StopJoin, StopClear, CloseJoin
<1>7. ASSUME NEW c \in Callers, CloseCall(c)
      PROVE  CloseTold'
  BY <1>7 DEF CloseCall, Begin
<1>8. ASSUME NEW c \in Callers, CloseFree(c)
      PROVE  CloseTold'
  <2>1. \A d \in Callers : pc[d] # "close_join"
    BY <1>8 DEF CloseFree
  <2> QED
    BY <1>8, <2>1 DEF CloseFree
<1>9. CASE Open
  BY <1>9 DEF Open
<1>10. ASSUME NEW r \in Readers, ReaderStep(r)
      PROVE  CloseTold'
  BY <1>10 DEF ReaderStep, ReaderAlloc, ReaderTop, ReaderTransfer, ReaderGoto
<1>11. CASE Unplug \/ UNCHANGED vars
  BY <1>11 DEF Unplug, vars
<1> QED
  BY <1>1, <1>2, <1>3, <1>4, <1>5, <1>6, <1>7, <1>8, <1>9, <1>10, <1>11
     DEF Next, CallBegins, CallGoesOn, CallStep, StartRefused, StopIdle

(* No call waits for ever in pthread_join(): the thread it waits for finds  *)
(* start_lock free and stop_flag raised when it next tests it, and is not   *)
(* one that another call joined.  CallsReturn adds that it does get there.  *)
THEOREM JoinedReaderCanEnd == Serialised => (Spec => []JoinsCanEnd)
<1> SUFFICES ASSUME Serialised PROVE Spec => []JoinsCanEnd
  OBVIOUS
<1>1. Init => CloseTold
  BY DEF Init, CloseTold
<1>2. CountInv /\ CloseTold /\ [Next]_vars => CloseTold'
  BY CloseToldStep DEF CountInv
<1>3. CountInv /\ SerialInv /\ CloseTold => JoinsCanEnd
  <2> SUFFICES ASSUME CountInv, SerialInv, CloseTold, NEW c \in Callers,
                      pc[c] = "stop_joining" \/ (pc[c] = "close_join" /\ join[c] # NoOne)
               PROVE  /\ join[c] \in Readers /\ rpc[join[c]] # "free"
                      /\ stop_flag /\ start_lock = NoOne
    BY DEF JoinsCanEnd
  <2>1. join[c] = reader_thread /\ HasReader /\ stop_flag
    BY DEF SerialInv, Phases, CloseTold, HasReader
  <2>2. \A d \in Callers : start_lock # d
    BY DEF CountInv, LockInv, SerialInv, OneCall, Starting
  <2>3. start_lock = NoOne
    BY <2>2 DEF CountInv, TypeOK
  <2> QED
    BY <2>1, <2>3 DEF HasReader
<1> QED
  BY <1>1, <1>2, <1>3, SerialInvariant, PTL DEF Spec

-------------------------------------------------------------------------------
(* The receive path takes the steps of GsusbDevice. *)

LEMMA RxStepIsStep == [RxNext]_<<vars, rxvars>> => [Next]_vars
<1> SUFFICES ASSUME [RxNext]_<<vars, rxvars>> PROVE [Next]_vars
  OBVIOUS
<1>1. CASE LifecycleStep
  BY <1>1 DEF LifecycleStep, Next, CallStep, ReaderStep
<1>2. CASE RxClose
  BY <1>2 DEF RxClose, Next, CallStep
<1>3. CASE RxOpen \/ RxUnplug
  BY <1>3 DEF RxOpen, RxUnplug, Next
<1>4. ASSUME NEW k \in Channels, BusFrame(k) \/ gsusb_channel_send(k) \/ gsusb_channel_recv(k)
      PROVE  [Next]_vars
  BY <1>4 DEF BusFrame, gsusb_channel_send, gsusb_channel_recv, TakeFrame, DeviceSends
<1>5. CASE BadPacket
  BY <1>5 DEF BadPacket, DeviceSends
<1>6. ASSUME NEW r \in Readers, BulkIn(r)
      PROVE  [Next]_vars
  BY <1>6 DEF BulkIn
<1>7. ASSUME NEW r \in Readers, BulkInNothing(r) \/ ReaderHandles(r)
      PROVE  [Next]_vars
  <2>1. ReaderTransfer(r)
    BY <1>7 DEF BulkInNothing, ReaderHandles, ReaderTransfer
  <2> QED
    BY <2>1 DEF Next, ReaderStep
<1>8. CASE UNCHANGED <<vars, rxvars>>
  BY <1>8
<1> QED
  BY <1>1, <1>2, <1>3, <1>4, <1>5, <1>6, <1>7, <1>8 DEF RxNext

(* The receive path is the life of the device with frames: whatever is      *)
(* proved of Spec holds of it.                                              *)
THEOREM ReceivePathIsDevice == RxSpec => Spec
<1>1. RxInit => Init
  BY DEF RxInit
<1> QED
  BY <1>1, RxStepIsStep, PTL DEF RxSpec, Spec

-------------------------------------------------------------------------------
(* Counting the elements of a sequence. *)

(* How many elements of s are in X. *)
CountIn(s, X) == Cardinality({i \in DOMAIN s : s[i] \in X})

LEMMA IndicesFinite ==
  ASSUME NEW S, NEW s \in Seq(S), NEW X
  PROVE  IsFiniteSet({i \in DOMAIN s : s[i] \in X}) /\ CountIn(s, X) \in Nat
<1>1. DOMAIN s = 1..Len(s) /\ Len(s) \in Nat
  OBVIOUS
<1>2. IsFiniteSet(DOMAIN s)
  BY <1>1, FS_Interval
<1>3. IsFiniteSet({i \in DOMAIN s : s[i] \in X})
  BY <1>2, FS_Subset
<1> QED
  BY <1>3, FS_CardinalityType DEF CountIn

LEMMA CountEmpty ==
  ASSUME NEW X
  PROVE  CountIn(<<>>, X) = 0
<1>1. {i \in DOMAIN <<>> : <<>>[i] \in X} = {}
  OBVIOUS
<1> QED
  BY <1>1, FS_EmptySet DEF CountIn

LEMMA CountAppend ==
  ASSUME NEW S, NEW s \in Seq(S), NEW e \in S, NEW X
  PROVE  CountIn(Append(s, e), X) = CountIn(s, X) + (IF e \in X THEN 1 ELSE 0)
<1> DEFINE I == {i \in DOMAIN s : s[i] \in X}
           J == {i \in DOMAIN Append(s, e) : Append(s, e)[i] \in X}
<1>1. /\ Len(s) \in Nat /\ DOMAIN s = 1..Len(s) /\ DOMAIN Append(s, e) = 1..(Len(s) + 1)
      /\ \A i \in 1..Len(s) : Append(s, e)[i] = s[i]
      /\ Append(s, e)[Len(s) + 1] = e
  OBVIOUS
<1>2. IsFiniteSet(I)
  BY IndicesFinite
<1>3. CASE e \in X
  <2>1. J = I \cup {Len(s) + 1} /\ Len(s) + 1 \notin I
    BY <1>1, <1>3
  <2> QED
    BY <1>2, <1>3, <2>1, FS_AddElement DEF CountIn
<1>4. CASE e \notin X
  <2>1. J = I
    BY <1>1, <1>4
  <2>2. CountIn(Append(s, e), X) = CountIn(s, X)
    BY <2>1, Zenon DEF CountIn
  <2>3. CountIn(s, X) \in Nat
    BY IndicesFinite
  <2> QED
    BY <1>4, <2>2, <2>3
<1> QED
  BY <1>3, <1>4

LEMMA CountTail ==
  ASSUME NEW S, NEW s \in Seq(S), s # <<>>, NEW X
  PROVE  CountIn(s, X) = CountIn(Tail(s), X) + (IF Head(s) \in X THEN 1 ELSE 0)
<1> DEFINE I == {i \in DOMAIN s : s[i] \in X}
           J == {i \in DOMAIN Tail(s) : Tail(s)[i] \in X}
           f == [i \in J |-> i + 1]
<1>1. /\ Len(s) \in Nat \ {0} /\ DOMAIN s = 1..Len(s) /\ DOMAIN Tail(s) = 1..(Len(s) - 1)
      /\ \A i \in 1..(Len(s) - 1) : Tail(s)[i] = s[i + 1]
      /\ Head(s) = s[1] /\ Tail(s) \in Seq(S)
  OBVIOUS
<1>2. IsFiniteSet(J) /\ IsFiniteSet(I)
  BY <1>1, IndicesFinite
<1>3. f \in Bijection(J, I \ {1})
  <2>1. f \in [J -> I \ {1}]
    BY <1>1
  <2>2. \A i, j \in J : f[i] = f[j] => i = j
    BY <1>1
  <2>3. ASSUME NEW i \in I \ {1} PROVE \E j \in J : f[j] = i
    <3>1. i - 1 \in J
      BY <1>1, <2>3
    <3> QED
      BY <1>1, <3>1
  <2>4. f \in Injection(J, I \ {1})
    BY <2>1, <2>2 DEF Injection, IsInjective
  <2>5. f \in Surjection(J, I \ {1})
    BY <2>1, <2>3 DEF Surjection
  <2> QED
    BY <2>4, <2>5 DEF Bijection
<1>4. Cardinality(J) = Cardinality(I \ {1})
  <2>1. ExistsBijection(J, I \ {1})
    BY <1>3 DEF ExistsBijection
  <2> QED
    BY <1>2, <2>1, FS_Bijection
<1>5. CASE Head(s) \in X
  <2>1. 1 \in I
    BY <1>1, <1>5
  <2>2. Cardinality(I \ {1}) = Cardinality(I) - 1
    BY <1>2, <2>1, FS_RemoveElement
  <2>3. Cardinality(I) \in Nat
    BY <1>2, FS_CardinalityType
  <2> HIDE DEF I, J
  <2>4. Cardinality(I) = Cardinality(J) + 1
    BY <1>4, <2>2, <2>3
  <2>5. CountIn(s, X) = CountIn(Tail(s), X) + 1
    BY <2>4 DEF CountIn, I, J
  <2> QED
    BY <1>5, <2>5
<1>6. CASE Head(s) \notin X
  <2>1. I \ {1} = I
    BY <1>1, <1>6
  <2>2. CountIn(s, X) = CountIn(Tail(s), X)
    BY <1>4, <2>1, Zenon DEF CountIn
  <2>3. CountIn(Tail(s), X) \in Nat
    BY <1>1, IndicesFinite
  <2> QED
    BY <1>6, <2>2, <2>3
<1> QED
  BY <1>5, <1>6

-------------------------------------------------------------------------------
(* What holds of the receive path under every interleaving. *)

Frames ==
  [channel : Channels, kind : {"frame"}, seq : Nat, fresh : BOOLEAN, ts : BOOLEAN]

RxTypeOK ==
  /\ pipe \in Seq(Packets)
  /\ buf \in [Readers -> Packets \cup {NoOne}]
  /\ seq \in [Channels -> Nat]
  /\ rxq \in [Channels -> Seq(Frames)]
  /\ q_drops \in [Channels -> Nat]
  /\ taken \in [Channels -> Nat]
  /\ newest \in [Channels -> Nat]
  /\ lossy \in BOOLEAN

(* The frames of channel k's bus among the packets. *)
Mine(k) == {p \in Packets : p.kind = "frame" /\ p.channel = k}

(* The readers that hold a packet. *)
Holders == {r \in Readers : buf[r] # NoOne}

(* A reader holds a packet only between the transfer and its handling, and  *)
(* finitely many hold one.                                                  *)
HoldersRead ==
  /\ \A r \in Holders : rpc[r] = "reading"
  /\ IsFiniteSet(Holders)

(* The device stamps the frames of the channels that can, and the library   *)
(* expects a stamp on those only.                                           *)
StampsAsFeatured ==
  /\ hw_ts_enabled \subseteq TsChannels
  /\ \A k \in Channels :
       /\ \A i \in DOMAIN pipe : pipe[i] \in Mine(k) => (pipe[i].ts <=> k \in TsChannels)
       /\ \A r \in Readers : buf[r] \in Mine(k) => (buf[r].ts <=> k \in TsChannels)

(* Before the first open nothing has happened on the host's side. *)
FirstOpen == ~opened /\ ~lossy => AllFree /\ \A k \in Channels : q_drops[k] = 0

(* The readers that hold a frame of channel k, and those frames of it that  *)
(* are on their way.                                                        *)
Fetched(k) == {r \in Readers : buf[r] \in Mine(k)}

OnTheWay(k) == CountIn(pipe, Mine(k)) + Cardinality(Fetched(k))

(* NoFrameLost, with the frames on their way counted by CountIn. *)
Conserved ==
  ~lossy => \A k \in Channels : seq[k] = OnTheWay(k) + Len(rxq[k]) + q_drops[k] + taken[k]

RxInv == RxTypeOK /\ HoldersRead /\ StampsAsFeatured /\ FirstOpen /\ Conserved

(* The packets the device sends. *)
LEMMA PacketKinds ==
  ASSUME NEW n \in Nat, NEW fresh \in BOOLEAN
  PROVE  /\ Garbage \subseteq Packets
         /\ \A k \in Channels : Garbage \cap Mine(k) = {}
         /\ \A k \in Channels :
              /\ Packet("frame", k, n, fresh) \in Mine(k)
              /\ Packet("echo", k, 0, FALSE) \in Packets
              /\ \A l \in Channels :
                   /\ Packet("echo", k, 0, FALSE) \notin Mine(l)
                   /\ Packet("frame", k, n, fresh) \in Mine(l) => k = l
<1>1. ASSUME NEW kind \in {"frame", "echo", "short", "truncated"},
             NEW k \in Channels \cup {NoOne}, NEW m \in Nat, NEW b \in BOOLEAN
      PROVE  /\ Packet(kind, k, m, b) \in Packets
             /\ Packet(kind, k, m, b).kind = kind
             /\ Packet(kind, k, m, b).channel = k
  <2>1. (k \in TsChannels) \in BOOLEAN
    OBVIOUS
  <2> QED
    BY <2>1 DEF Packet, Packets
<1>2. ASSUME NEW kind \in {"frame", "echo", "short", "truncated"},
             NEW k \in Channels \cup {NoOne}
      PROVE  /\ Packet(kind, k, 0, FALSE) \in Packets
             /\ Packet(kind, k, 0, FALSE).kind = kind
             /\ Packet(kind, k, 0, FALSE).channel = k
  <2>1. (k \in TsChannels) \in BOOLEAN
    OBVIOUS
  <2> QED
    BY <2>1 DEF Packet, Packets
<1> HIDE DEF Packet
<1>3. Garbage \subseteq Packets /\ \A k \in Channels : Garbage \cap Mine(k) = {}
  <2>1. ASSUME NEW p \in Garbage
        PROVE  p \in Packets /\ \A k \in Channels : p \notin Mine(k)
    <3>1. \/ p = Packet("short", NoOne, 0, FALSE)
          \/ p = Packet("frame", NoOne, 0, FALSE)
          \/ \E k \in TsChannels : p = Packet("truncated", k, 0, FALSE)
      BY <2>1 DEF Garbage
    <3>b. ASSUME NEW kind \in {"short", "frame"}, p = Packet(kind, NoOne, 0, FALSE)
          PROVE  p \in Packets /\ p.channel = NoOne
      <4>1. (NoOne \in TsChannels) \in BOOLEAN
        OBVIOUS
      <4> QED
        BY <3>b, <4>1 DEF Packet, Packets
    <3>c. ASSUME NEW k \in TsChannels, p = Packet("truncated", k, 0, FALSE)
          PROVE  p \in Packets /\ p.kind = "truncated"
      BY <1>2, <3>c, DeviceAssumption
    <3>2. p \in Packets /\ (p.channel = NoOne \/ p.kind = "truncated")
      BY <3>1, <3>b, <3>c
    <3> QED
      BY <3>2, DeviceAssumption DEF Mine
  <2> QED
    BY <2>1
<1>4. ASSUME NEW k \in Channels
      PROVE  Packet("frame", k, n, fresh) \in Mine(k)
  BY <1>1 DEF Mine
<1>5. ASSUME NEW k \in Channels, NEW l \in Channels
      PROVE  Packet("frame", k, n, fresh) \in Mine(l) => k = l
  <2>1. Packet("frame", k, n, fresh).channel = k
    BY <1>1
  <2> QED
    BY <2>1 DEF Mine
<1>6. ASSUME NEW k \in Channels
      PROVE  /\ Packet("echo", k, 0, FALSE) \in Packets
             /\ \A l \in Channels : Packet("echo", k, 0, FALSE) \notin Mine(l)
  <2>1. Packet("echo", k, 0, FALSE) \in Packets /\ Packet("echo", k, 0, FALSE).kind = "echo"
    BY <1>2
  <2> QED
    BY <2>1 DEF Mine
<1> QED
  BY <1>3, <1>4, <1>5, <1>6

(* What gsusb_open() makes of the packets the device holds. *)
Refreshed(s) == [i \in DOMAIN s |-> [s[i] EXCEPT !.fresh = FALSE]]

LEMMA RefreshedPackets ==
  ASSUME NEW s \in Seq(Packets)
  PROVE  /\ Refreshed(s) \in Seq(Packets)
         /\ DOMAIN Refreshed(s) = DOMAIN s
         /\ \A i \in DOMAIN s :
              /\ ~Refreshed(s)[i].fresh
              /\ Refreshed(s)[i].seq = s[i].seq
              /\ Refreshed(s)[i].ts = s[i].ts
              /\ \A k \in Channels : Refreshed(s)[i] \in Mine(k) <=> s[i] \in Mine(k)
<1>1. DOMAIN s = 1..Len(s) /\ Len(s) \in Nat /\ \A i \in 1..Len(s) : s[i] \in Packets
  OBVIOUS
<1>2. ASSUME NEW i \in 1..Len(s)
      PROVE  /\ [s[i] EXCEPT !.fresh = FALSE] \in Packets
             /\ Refreshed(s)[i] = [s[i] EXCEPT !.fresh = FALSE]
  BY <1>1 DEF Packets, Refreshed
<1>3. Refreshed(s) \in Seq(Packets) /\ DOMAIN Refreshed(s) = DOMAIN s
  <2>1. Refreshed(s) \in [1..Len(s) -> Packets]
    BY <1>1, <1>2 DEF Refreshed
  <2> QED
    BY <1>1, <2>1
<1>4. ASSUME NEW p \in Packets
      PROVE  /\ ~[p EXCEPT !.fresh = FALSE].fresh
             /\ [p EXCEPT !.fresh = FALSE].seq = p.seq
             /\ [p EXCEPT !.fresh = FALSE].ts = p.ts
             /\ \A k \in Channels : [p EXCEPT !.fresh = FALSE] \in Mine(k) <=> p \in Mine(k)
  BY DEF Packets, Mine
<1>5. ASSUME NEW i \in DOMAIN s
      PROVE  /\ ~Refreshed(s)[i].fresh
             /\ Refreshed(s)[i].seq = s[i].seq
             /\ Refreshed(s)[i].ts = s[i].ts
             /\ \A k \in Channels : Refreshed(s)[i] \in Mine(k) <=> s[i] \in Mine(k)
  <2>1. s[i] \in Packets /\ Refreshed(s)[i] = [s[i] EXCEPT !.fresh = FALSE]
    BY <1>1, <1>2
  <2> QED
    BY <1>4, <2>1
<1> QED
  BY <1>3, <1>5

(* A queue after a frame arrived: the last of it is the frame, the others   *)
(* are the queue's, all of them or all but the oldest.                      *)
LEMMA Enqueued ==
  ASSUME NEW q \in Seq(Frames), NEW f \in Frames
  PROVE  /\ Enqueue(q, f) \in Seq(Frames)
         /\ Len(Enqueue(q, f)) = IF Len(q) = Cap THEN Len(q) ELSE Len(q) + 1
         /\ Enqueue(q, f)[Len(Enqueue(q, f))] = f
         /\ \E d \in {0, 1} :
              /\ Len(Enqueue(q, f)) = Len(q) + 1 - d
              /\ \A i \in 1..(Len(q) - d) : Enqueue(q, f)[i] = q[i + d]
<1>1. ASSUME NEW s \in Seq(Frames)
      PROVE  /\ Append(s, f) \in Seq(Frames)
             /\ Len(Append(s, f)) = Len(s) + 1
             /\ Append(s, f)[Len(s) + 1] = f
             /\ \A i \in 1..Len(s) : Append(s, f)[i] = s[i]
  OBVIOUS
<1>2. CASE Len(q) = Cap
  <2>1. q # <<>>
    BY <1>2, RxAssumption
  <2>2. /\ Tail(q) \in Seq(Frames) /\ Len(Tail(q)) = Len(q) - 1 /\ Len(q) \in Nat
        /\ \A i \in 1..(Len(q) - 1) : Tail(q)[i] = q[i + 1]
    BY <2>1
  <2>3. Enqueue(q, f) = Append(Tail(q), f)
    BY <1>2 DEF Enqueue, MakeRoom
  <2> QED
    BY <1>1, <1>2, <2>2, <2>3
<1>3. CASE Len(q) # Cap
  <2>1. Enqueue(q, f) = Append(q, f)
    BY <1>3 DEF Enqueue, MakeRoom
  <2> QED
    BY <1>1, <1>3, <2>1
<1> QED
  BY <1>2, <1>3

(* What handle_rx_packet() makes of a packet. *)
LEMMA Handled ==
  ASSUME TypeOK, RxTypeOK, StampsAsFeatured, NEW r \in Readers, buf[r] # NoOne
  PROVE  /\ buf[r] \in Packets
         /\ \A k \in Channels : buf[r] \in Mine(k) => buf[r].channel = k /\ Accepted(buf[r])
         /\ Accepted(buf[r]) => /\ buf[r].channel \in Channels
                                /\ buf[r] \in Mine(buf[r].channel)
                                /\ Frame(buf[r]) \in Frames
<1>1. buf[r] \in Packets
  BY DEF RxTypeOK
<1>2. ASSUME NEW k \in Channels, buf[r] \in Mine(k)
      PROVE  buf[r].channel = k /\ Accepted(buf[r])
  <2>1. buf[r].kind = "frame" /\ buf[r].channel = k
    BY <1>2 DEF Mine
  <2>2. k \in hw_ts_enabled => buf[r].ts
    BY <1>2 DEF StampsAsFeatured
  <2> QED
    BY <2>1, <2>2 DEF Accepted, LongEnough
<1>3. ASSUME Accepted(buf[r])
      PROVE  /\ buf[r].channel \in Channels
             /\ buf[r] \in Mine(buf[r].channel)
             /\ Frame(buf[r]) \in Frames
  BY <1>1, <1>3 DEF Accepted, Mine, Packets, Frame, Frames
<1> QED
  BY <1>1, <1>2, <1>3

LEMMA RxTypeStep ==
  ASSUME TypeOK, RxTypeOK, StampsAsFeatured, [RxNext]_<<vars, rxvars>>
  PROVE  RxTypeOK'
<1> USE DEF RxTypeOK, rxvars, queues, vars, guarded, locals, device
<1>1. CASE LifecycleStep
  BY <1>1 DEF LifecycleStep
<1>2. CASE RxClose
  <2>1. <<>> \in Seq(Frames)
    OBVIOUS
  <2> QED
    BY <1>2, <2>1 DEF RxClose
<1>3. CASE RxOpen
  <2>1. Refreshed(pipe) \in Seq(Packets)
    BY RefreshedPackets
  <2>2. pipe' \in Seq(Packets)
    BY <1>3, <2>1 DEF RxOpen, Refreshed
  <2> QED
    BY <1>3, <2>2 DEF RxOpen
<1>4. CASE RxUnplug
  <2>1. <<>> \in Seq(Packets)
    OBVIOUS
  <2> QED
    BY <1>4, <2>1 DEF RxUnplug
<1>5. ASSUME NEW p \in Packets, DeviceSends(p)
      PROVE  pipe' \in Seq(Packets) /\ buf' = buf
  BY <1>5 DEF DeviceSends
<1>6. CASE BadPacket
  <2>1. PICK p \in Packets : DeviceSends(p)
    BY <1>6, PacketKinds DEF BadPacket
  <2> QED
    BY <1>5, <1>6, <2>1 DEF BadPacket
<1>7. ASSUME NEW k \in Channels, BusFrame(k)
      PROVE  RxTypeOK'
  <2>1. Packet("frame", k, seq[k] + 1, k \in started) \in Packets
    <3> DEFINE b == k \in started
    <3>1. b \in BOOLEAN /\ seq[k] + 1 \in Nat
      OBVIOUS
    <3> HIDE DEF b
    <3>2. Packet("frame", k, seq[k] + 1, b) \in Mine(k)
      BY <3>1, PacketKinds
    <3> QED
      BY <3>2 DEF Mine, b
  <2>2. pipe' \in Seq(Packets) /\ buf' = buf
    BY <1>5, <1>7, <2>1 DEF BusFrame
  <2>3. seq' \in [Channels -> Nat]
    BY <1>7 DEF BusFrame
  <2> QED
    BY <1>7, <2>2, <2>3 DEF BusFrame
<1>8. ASSUME NEW k \in Channels, gsusb_channel_send(k)
      PROVE  RxTypeOK'
  <2>1. Packet("echo", k, 0, FALSE) \in Packets
    BY PacketKinds
  <2>2. pipe' \in Seq(Packets) /\ buf' = buf
    BY <1>5, <1>8, <2>1 DEF gsusb_channel_send
  <2> QED
    BY <1>8, <2>2 DEF gsusb_channel_send
<1>9. ASSUME NEW k \in Channels, gsusb_channel_recv(k)
      PROVE  RxTypeOK'
  <2>1. rxq[k] \in Seq(Frames) /\ rxq[k] # <<>>
    BY <1>9 DEF gsusb_channel_recv, TakeFrame
  <2>2. Tail(rxq[k]) \in Seq(Frames) /\ Head(rxq[k]) \in Frames
    BY <2>1
  <2>3. Head(rxq[k]).seq \in Nat
    BY <2>2 DEF Frames
  <2> QED
    BY <1>9, <2>2, <2>3 DEF gsusb_channel_recv, TakeFrame
<1>10. ASSUME NEW r \in Readers, BulkIn(r)
       PROVE  RxTypeOK'
  <2>1. Tail(pipe) \in Seq(Packets) /\ Head(pipe) \in Packets
    BY <1>10 DEF BulkIn
  <2> QED
    BY <1>10, <2>1 DEF BulkIn
<1>11. ASSUME NEW r \in Readers, BulkInNothing(r)
       PROVE  RxTypeOK'
  BY <1>11 DEF BulkInNothing
<1>12. ASSUME NEW r \in Readers, ReaderHandles(r)
       PROVE  RxTypeOK'
  <2>1. buf' \in [Readers -> Packets \cup {NoOne}] /\ UNCHANGED pipe
    BY <1>12 DEF ReaderHandles
  <2>2. CASE Accepted(buf[r])
    <3> DEFINE k == buf[r].channel
    <3>1. k \in Channels /\ Frame(buf[r]) \in Frames
      BY <1>12, <2>2, Handled DEF ReaderHandles
    <3>2. Push(k, Frame(buf[r]))
      BY <1>12, <2>2 DEF ReaderHandles, handle_rx_packet
    <3>3. Enqueue(rxq[k], Frame(buf[r])) \in Seq(Frames)
      BY <3>1, Enqueued
    <3>4. rxq' \in [Channels -> Seq(Frames)]
      BY <3>1, <3>2, <3>3 DEF Push
    <3>5. q_drops' \in [Channels -> Nat]
      BY <3>1, <3>2 DEF Push
    <3> QED
      BY <2>1, <3>2, <3>4, <3>5 DEF Push
  <2>3. CASE ~Accepted(buf[r])
    BY <1>12, <2>1, <2>3 DEF ReaderHandles, handle_rx_packet
  <2> QED
    BY <2>2, <2>3
<1>13. CASE UNCHANGED <<vars, rxvars>>
  BY <1>13
<1> QED
  BY <1>1, <1>2, <1>3, <1>4, <1>6, <1>7, <1>8, <1>9, <1>10, <1>11, <1>12, <1>13 DEF RxNext

(* No step of a call touches a reader that is in its transfer. *)
LEMMA ReadingStays ==
  ASSUME TypeOK, LifecycleStep \/ RxClose \/ RxOpen \/ RxUnplug,
         NEW r \in Readers, rpc[r] = "reading"
  PROVE  rpc'[r] = "reading"
<1> USE DEF TypeOK, Goto, ReaderGoto, guarded, locals, device
<1>1. ASSUME NEW c \in Callers, CallBegins(c)
      PROVE  rpc'[r] = "reading"
  BY <1>1 DEF CallBegins, StartRefused, StartCall, StopIdle, StopCall, CloseCall, vars
<1>2. ASSUME NEW c \in Callers, CallGoesOn(c) \/ CloseFree(c)
      PROVE  rpc'[r] = "reading"
  <2>1. CASE StartCreate(c)
    BY <2>1 DEF StartCreate, CreateReader
  <2>2. CASE StopJoin(c) \/ CloseJoin(c)
    BY <2>2 DEF StopJoin, CloseJoin, JoinReturns, Alive
  <2>3. CASE \/ StartCtrl(c) \/ StartCommit(c) \/ StopCtrl(c) \/ StopJoinCall(c) \/ StopClear(c)
             \/ CloseFree(c)
    BY <2>3 DEF StartCtrl, StartCommit, StopCtrl, StopJoinCall, StopClear, CloseFree
  <2> QED
    BY <1>2, <2>1, <2>2, <2>3 DEF CallGoesOn
<1>3. ASSUME NEW q \in Readers, ReaderAlloc(q) \/ ReaderTop(q)
      PROVE  rpc'[r] = "reading"
  BY <1>3 DEF ReaderAlloc, ReaderTop
<1>4. CASE RxOpen \/ RxUnplug
  BY <1>4 DEF RxOpen, Open, RxUnplug, Unplug
<1> QED
  BY <1>1, <1>2, <1>3, <1>4 DEF LifecycleStep, RxClose

(* Which readers hold a packet. *)
LEMMA HoldersStep ==
  ASSUME TypeOK, RxTypeOK, HoldersRead, [RxNext]_<<vars, rxvars>>
  PROVE  HoldersRead'
<1>1. ASSUME UNCHANGED buf, \A r \in Holders : rpc'[r] = "reading"
      PROVE  HoldersRead'
  <2>1. Holders' = Holders
    BY <1>1 DEF Holders
  <2> QED
    BY <1>1, <2>1 DEF HoldersRead
<1>2. CASE LifecycleStep \/ RxClose \/ RxOpen \/ RxUnplug
  <2>1. UNCHANGED buf
    BY <1>2 DEF LifecycleStep, rxvars, RxClose, RxOpen, RxUnplug
  <2>2. ASSUME NEW r \in Holders PROVE rpc'[r] = "reading"
    BY <1>2, ReadingStays DEF HoldersRead, Holders
  <2> QED
    BY <1>1, <2>1, <2>2
<1>3. ASSUME UNCHANGED <<rpc, buf>>
      PROVE  HoldersRead'
  BY <1>1, <1>3 DEF HoldersRead
<1>4. CASE BadPacket \/ \E k \in Channels : BusFrame(k) \/ gsusb_channel_send(k)
  BY <1>3, <1>4 DEF BadPacket, BusFrame, gsusb_channel_send, DeviceSends, vars
<1>5. ASSUME NEW k \in Channels, gsusb_channel_recv(k)
      PROVE  HoldersRead'
  BY <1>3, <1>5 DEF gsusb_channel_recv, TakeFrame, vars
<1>6. ASSUME NEW r \in Readers, BulkIn(r)
      PROVE  HoldersRead'
  <2>1. Holders' = Holders \cup {r} /\ rpc' = rpc /\ rpc[r] = "reading"
    <3>1. rpc' = rpc /\ rpc[r] = "reading" /\ buf' = [buf EXCEPT ![r] = Head(pipe)]
      BY <1>6 DEF BulkIn, vars
    <3>2. Head(pipe) # NoOne
      <4>1. Head(pipe) \in Packets
        BY <1>6 DEF BulkIn, RxTypeOK
      <4> QED
        BY <4>1, RxAssumption
    <3> QED
      BY <3>1, <3>2 DEF Holders, RxTypeOK
  <2>2. IsFiniteSet(Holders')
    BY <2>1, FS_AddElement DEF HoldersRead
  <2> QED
    BY <2>1, <2>2 DEF HoldersRead
<1>7. ASSUME NEW r \in Readers, BulkInNothing(r)
      PROVE  HoldersRead'
  <2>1. UNCHANGED buf /\ r \notin Holders
    BY <1>7 DEF BulkInNothing, rxvars, Holders
  <2>2. \A q \in Readers \ {r} : rpc'[q] = rpc[q]
    BY <1>7 DEF BulkInNothing, ReaderTransfer, ReaderGoto, TypeOK
  <2>3. \A q \in Holders : q \in Readers /\ rpc[q] = "reading"
    BY DEF HoldersRead, Holders
  <2> QED
    BY <1>1, <2>1, <2>2, <2>3
<1>8. ASSUME NEW r \in Readers, ReaderHandles(r)
      PROVE  HoldersRead'
  <2>1. Holders' = Holders \ {r}
    BY <1>8 DEF ReaderHandles, Holders, RxTypeOK
  <2>2. \A q \in Readers \ {r} : rpc'[q] = rpc[q]
    BY <1>8 DEF ReaderHandles, ReaderGoto, TypeOK
  <2>3. \A q \in Holders : q \in Readers /\ rpc[q] = "reading"
    BY DEF HoldersRead, Holders
  <2>4. IsFiniteSet(Holders')
    BY <2>1, FS_RemoveElement DEF HoldersRead
  <2> QED
    BY <2>1, <2>2, <2>3, <2>4 DEF HoldersRead
<1>9. CASE UNCHANGED <<vars, rxvars>>
  BY <1>3, <1>9 DEF vars, rxvars
<1> QED
  BY <1>2, <1>4, <1>5, <1>6, <1>7, <1>8, <1>9 DEF RxNext

(* A packet that is in the pipe or held after a step was there before it,   *)
(* with another fresh flag perhaps, or was just sent by a channel.          *)
LEMMA WhereFrom ==
  ASSUME TypeOK, RxTypeOK, [RxNext]_<<vars, rxvars>>, NEW k \in Channels, NEW p \in Mine(k),
         \/ \E i \in DOMAIN pipe' : pipe'[i] = p
         \/ \E r \in Readers : buf'[r] = p
  PROVE  \/ p = Packet("frame", k, seq[k] + 1, k \in started) /\ BusFrame(k)
         \/ \E q \in Mine(k) :
              /\ q.ts = p.ts /\ q.seq = p.seq
              /\ RxOpen \/ q = p
              /\ (\E i \in DOMAIN pipe : pipe[i] = q) \/ (\E r \in Readers : buf[r] = q)
<1>1. ASSUME DOMAIN pipe' = DOMAIN pipe, UNCHANGED buf,
             \A i \in DOMAIN pipe : /\ pipe'[i].ts = pipe[i].ts
                                    /\ pipe'[i].seq = pipe[i].seq
                                    /\ pipe'[i] \in Mine(k) => pipe[i] \in Mine(k),
             RxOpen \/ UNCHANGED pipe
      PROVE  \E q \in Mine(k) :
               /\ q.ts = p.ts /\ q.seq = p.seq
               /\ RxOpen \/ q = p
               /\ (\E i \in DOMAIN pipe : pipe[i] = q) \/ (\E r \in Readers : buf[r] = q)
  <2>1. CASE \E r \in Readers : buf'[r] = p
    BY <1>1, <2>1
  <2>2. CASE \E i \in DOMAIN pipe' : pipe'[i] = p
    <3>1. PICK i \in DOMAIN pipe : pipe'[i] = p
      BY <1>1, <2>2
    <3>2. pipe[i] \in Mine(k) /\ pipe[i].ts = p.ts /\ pipe[i].seq = p.seq
      BY <1>1, <3>1
    <3> QED
      BY <1>1, <3>1, <3>2
  <2> QED
    BY <2>1, <2>2
<1>2. CASE UNCHANGED <<pipe, buf>>
  BY <1>1, <1>2
<1>3. CASE \/ LifecycleStep \/ RxClose \/ UNCHANGED <<vars, rxvars>>
           \/ \E l \in Channels : gsusb_channel_recv(l)
           \/ \E r \in Readers : BulkInNothing(r)
  BY <1>2, <1>3 DEF LifecycleStep, RxClose, rxvars, gsusb_channel_recv, TakeFrame, BulkInNothing
<1>4. CASE RxOpen
  <2>1. pipe' = Refreshed(pipe) /\ UNCHANGED buf
    BY <1>4 DEF RxOpen, Refreshed
  <2> QED
    BY <1>1, <1>4, <2>1, RefreshedPackets DEF RxTypeOK
<1>5. CASE RxUnplug
  BY <1>5 DEF RxUnplug
<1>6. ASSUME NEW s \in Packets, DeviceSends(s), s # p
      PROVE  (\E i \in DOMAIN pipe : pipe[i] = p) \/ (\E r \in Readers : buf[r] = p)
  <2>1. pipe' = Append(pipe, s) /\ pipe \in Seq(Packets) /\ UNCHANGED buf
    BY <1>6 DEF DeviceSends, RxTypeOK
  <2>2. \A i \in DOMAIN pipe' : (i \in DOMAIN pipe /\ pipe'[i] = pipe[i]) \/ pipe'[i] = s
    BY <2>1
  <2> QED
    BY <1>6, <2>1, <2>2
<1>7. CASE BadPacket
  <2>1. PICK s \in Garbage : DeviceSends(s)
    BY <1>7 DEF BadPacket
  <2>2. s \in Packets /\ s # p
    <3>1. Garbage \subseteq Packets /\ Garbage \cap Mine(k) = {}
      BY PacketKinds
    <3> QED
      BY <3>1
  <2> QED
    BY <1>6, <2>1, <2>2
<1>8. ASSUME NEW l \in Channels, gsusb_channel_send(l)
      PROVE  (\E i \in DOMAIN pipe : pipe[i] = p) \/ (\E r \in Readers : buf[r] = p)
  <2>1. Packet("echo", l, 0, FALSE) \in Packets /\ Packet("echo", l, 0, FALSE) # p
    BY PacketKinds
  <2> QED
    BY <1>6, <1>8, <2>1 DEF gsusb_channel_send
<1>9. ASSUME NEW l \in Channels, BusFrame(l)
      PROVE  \/ p = Packet("frame", k, seq[k] + 1, k \in started) /\ BusFrame(k)
             \/ (\E i \in DOMAIN pipe : pipe[i] = p) \/ (\E r \in Readers : buf[r] = p)
  <2> DEFINE b == l \in started
             s == Packet("frame", l, seq[l] + 1, b)
  <2>1. s \in Mine(l) /\ (s \in Mine(k) => l = k)
    <3>1. b \in BOOLEAN /\ seq[l] + 1 \in Nat
      BY DEF RxTypeOK
    <3> HIDE DEF b
    <3> QED
      BY <3>1, PacketKinds
  <2>2. CASE s = p
    BY <1>9, <2>1, <2>2
  <2>3. CASE s # p
    BY <1>6, <1>9, <2>1, <2>3 DEF BusFrame, Mine
  <2> QED
    BY <2>2, <2>3
<1>10. ASSUME NEW r \in Readers, BulkIn(r)
       PROVE  (\E i \in DOMAIN pipe : pipe[i] = p) \/ (\E q \in Readers : buf[q] = p)
  <2>1. /\ pipe \in Seq(Packets) /\ pipe # <<>> /\ pipe' = Tail(pipe)
        /\ \A q \in Readers : buf'[q] = IF q = r THEN Head(pipe) ELSE buf[q]
    BY <1>10 DEF BulkIn, RxTypeOK
  <2>2. /\ 1 \in DOMAIN pipe /\ Head(pipe) = pipe[1]
        /\ \A i \in DOMAIN pipe' : i + 1 \in DOMAIN pipe /\ pipe'[i] = pipe[i + 1]
    BY <2>1
  <2> QED
    BY <2>1, <2>2
<1>11. ASSUME NEW r \in Readers, ReaderHandles(r)
       PROVE  (\E i \in DOMAIN pipe : pipe[i] = p) \/ (\E q \in Readers : buf[q] = p)
  <2>1. pipe' = pipe /\ \A q \in Readers : buf'[q] = NoOne \/ buf'[q] = buf[q]
    BY <1>11 DEF ReaderHandles, RxTypeOK
  <2>2. p # NoOne
    BY RxAssumption DEF Mine
  <2> QED
    BY <2>1, <2>2
<1> QED
  BY <1>3, <1>4, <1>5, <1>7, <1>8, <1>9, <1>10, <1>11 DEF RxNext

(* Which channels have hw_ts_enabled: they lose it only when the device is  *)
(* opened anew, and get it when they are started.                           *)
LEMMA StampFlagStep ==
  ASSUME TypeOK, hw_ts_enabled \subseteq TsChannels, [RxNext]_<<vars, rxvars>>
  PROVE  /\ hw_ts_enabled' \subseteq TsChannels
         /\ \/ RxOpen /\ hw_ts_enabled' = {} /\ started' = {}
            \/ /\ hw_ts_enabled \subseteq hw_ts_enabled'
               /\ started' \cap TsChannels \subseteq started \cup hw_ts_enabled'
<1> USE DEF TypeOK, guarded, locals, device
<1>1. CASE RxOpen
  BY <1>1 DEF RxOpen, Open
<1>2. ASSUME hw_ts_enabled' = hw_ts_enabled, started' \subseteq started
      PROVE  /\ hw_ts_enabled' \subseteq TsChannels
             /\ hw_ts_enabled \subseteq hw_ts_enabled'
             /\ started' \cap TsChannels \subseteq started \cup hw_ts_enabled'
  BY <1>2
<1>3. ASSUME NEW c \in Callers, StartCommit(c)
      PROVE  /\ hw_ts_enabled' \subseteq TsChannels
             /\ hw_ts_enabled \subseteq hw_ts_enabled'
             /\ started' \cap TsChannels \subseteq started \cup hw_ts_enabled'
  <2>1. CASE ch[c] \in TsChannels
    BY <1>3, <2>1 DEF StartCommit
  <2>2. CASE ch[c] \notin TsChannels
    BY <1>3, <2>2 DEF StartCommit
  <2> QED
    BY <2>1, <2>2
<1>4. ASSUME NEW c \in Callers, CallBegins(c)
      PROVE  hw_ts_enabled' = hw_ts_enabled /\ started' \subseteq started
  BY <1>4 DEF CallBegins, StartRefused, StartCall, StopIdle, StopCall, CloseCall, vars
<1>5. ASSUME NEW c \in Callers, CallStep(c)
      PROVE  StartCommit(c) \/ (hw_ts_enabled' = hw_ts_enabled /\ started' \subseteq started)
  BY <1>5 DEF CallStep, CallGoesOn, StartCtrl, StartCreate, CreateReader, StopCtrl,
              StopJoinCall, StopJoin, StopClear, CloseJoin, CloseFree
<1>6. ASSUME NEW r \in Readers, ReaderStep(r)
      PROVE  hw_ts_enabled' = hw_ts_enabled /\ started' \subseteq started
  BY <1>6 DEF ReaderStep, ReaderAlloc, ReaderTop, ReaderTransfer, ReaderGoto
<1>7. CASE LifecycleStep \/ RxClose
  <2>1. \/ \E c \in Callers : CallBegins(c) \/ CallStep(c)
        \/ \E r \in Readers : ReaderStep(r)
    BY <1>7 DEF LifecycleStep, RxClose, CallStep, ReaderStep
  <2> QED
    BY <1>2, <1>3, <1>4, <1>5, <1>6, <2>1
<1>8. CASE RxUnplug
  BY <1>2, <1>8 DEF RxUnplug, Unplug
<1>9. CASE BadPacket \/ \E k \in Channels : BusFrame(k) \/ gsusb_channel_send(k)
  BY <1>2, <1>9 DEF BadPacket, BusFrame, gsusb_channel_send, DeviceSends, vars
<1>10. ASSUME NEW k \in Channels, gsusb_channel_recv(k)
       PROVE  hw_ts_enabled' = hw_ts_enabled /\ started' = started
  BY <1>10 DEF gsusb_channel_recv, TakeFrame, vars
<1>11. ASSUME NEW r \in Readers, BulkIn(r) \/ BulkInNothing(r) \/ ReaderHandles(r)
       PROVE  hw_ts_enabled' = hw_ts_enabled /\ started' = started
  BY <1>11 DEF BulkIn, BulkInNothing, ReaderHandles, ReaderTransfer, ReaderGoto, vars
<1>12. CASE UNCHANGED <<vars, rxvars>>
  BY <1>2, <1>12 DEF vars
<1> QED
  BY <1>1, <1>2, <1>7, <1>8, <1>9, <1>10, <1>11, <1>12 DEF RxNext

LEMMA StampsStep ==
  ASSUME TypeOK, RxTypeOK, StampsAsFeatured, [RxNext]_<<vars, rxvars>>
  PROVE  StampsAsFeatured'
<1>1. hw_ts_enabled' \subseteq TsChannels
  BY StampFlagStep DEF StampsAsFeatured
<1>2. ASSUME NEW k \in Channels, NEW p \in Mine(k),
             (\E i \in DOMAIN pipe' : pipe'[i] = p) \/ (\E r \in Readers : buf'[r] = p)
      PROVE  p.ts <=> k \in TsChannels
  <2>1. ASSUME p = Packet("frame", k, seq[k] + 1, k \in started)
        PROVE  p.ts <=> k \in TsChannels
    BY <2>1 DEF Packet
  <2>2. ASSUME NEW q \in Mine(k), q.ts = p.ts,
               (\E i \in DOMAIN pipe : pipe[i] = q) \/ (\E r \in Readers : buf[r] = q)
        PROVE  p.ts <=> k \in TsChannels
    BY <2>2 DEF StampsAsFeatured
  <2> QED
    BY <1>2, <2>1, <2>2, WhereFrom
<1> QED
  BY <1>1, <1>2 DEF StampsAsFeatured

LEMMA FirstOpenStep ==
  ASSUME TypeOK, CallInv, RxTypeOK, FirstOpen, [RxNext]_<<vars, rxvars>>
  PROVE  FirstOpen'
<1> SUFFICES ASSUME ~opened', ~lossy'
             PROVE  AllFree' /\ \A k \in Channels : q_drops'[k] = 0
  BY DEF FirstOpen
<1>1. ASSUME opened' = opened, lossy' = lossy, rpc' = rpc \/ ~AllFree, q_drops' = q_drops
      PROVE  AllFree' /\ \A k \in Channels : q_drops'[k] = 0
  BY <1>1 DEF FirstOpen, AllFree
<1> USE DEF TypeOK, guarded, locals, device
<1>2. CASE LifecycleStep
  <2>1. ASSUME NEW c \in Callers, CallBegins(c)
        PROVE  opened' = opened /\ rpc' = rpc
    BY <2>1 DEF CallBegins, StartRefused, StartCall, StopIdle, StopCall, CloseCall, vars
  <2>2. ASSUME NEW c \in Callers, CallGoesOn(c)
        PROVE  opened
    BY <2>2 DEF CallGoesOn, StartCtrl, StartCommit, StartCreate, CreateReader, StopCtrl,
                StopJoinCall, StopJoin, StopClear, CloseJoin, CallInv
  <2>3. ASSUME NEW c \in Callers, CallGoesOn(c)
        PROVE  opened' = opened
    BY <2>3 DEF CallGoesOn, StartCtrl, StartCommit, StartCreate, CreateReader, StopCtrl,
                StopJoinCall, StopJoin, StopClear, CloseJoin
  <2>4. ASSUME NEW r \in Readers, ReaderAlloc(r) \/ ReaderTop(r)
        PROVE  opened' = opened /\ ~AllFree
    BY <2>4 DEF ReaderAlloc, ReaderTop, ReaderGoto, AllFree
  <2>5. opened' = opened /\ (rpc' = rpc \/ ~AllFree) /\ UNCHANGED rxvars
    BY <1>2, <2>1, <2>2, <2>3, <2>4 DEF LifecycleStep
  <2> QED
    BY <1>1, <2>5 DEF rxvars, queues
<1>3. CASE RxClose \/ RxOpen \/ RxUnplug
  BY <1>3 DEF RxClose, RxOpen, Open, RxUnplug
<1>4. CASE BadPacket \/ \E k \in Channels : BusFrame(k) \/ gsusb_channel_send(k)
  BY <1>1, <1>4 DEF BadPacket, BusFrame, gsusb_channel_send, DeviceSends, vars, queues
<1>5. ASSUME NEW k \in Channels, gsusb_channel_recv(k)
      PROVE  AllFree' /\ \A l \in Channels : q_drops'[l] = 0
  BY <1>1, <1>5 DEF gsusb_channel_recv, TakeFrame, vars
<1>6. ASSUME NEW r \in Readers, BulkIn(r)
      PROVE  AllFree' /\ \A k \in Channels : q_drops'[k] = 0
  BY <1>1, <1>6 DEF BulkIn, vars, queues
<1>7. ASSUME NEW r \in Readers, BulkInNothing(r)
      PROVE  AllFree' /\ \A k \in Channels : q_drops'[k] = 0
  BY <1>1, <1>7 DEF BulkInNothing, ReaderTransfer, ReaderGoto, rxvars, queues, AllFree
<1>8. ASSUME NEW r \in Readers, ReaderHandles(r)
      PROVE  AllFree' /\ \A k \in Channels : q_drops'[k] = 0
  <2>1. UNCHANGED opened /\ ~AllFree
    BY <1>8 DEF ReaderHandles, ReaderGoto, AllFree
  <2>2. UNCHANGED lossy
    BY <1>8 DEF ReaderHandles, handle_rx_packet, Push, queues
  <2> QED
    BY <2>1, <2>2 DEF FirstOpen
<1>9. CASE UNCHANGED <<vars, rxvars>>
  BY <1>1, <1>9 DEF vars, rxvars, queues
<1> QED
  BY <1>2, <1>3, <1>4, <1>5, <1>6, <1>7, <1>8, <1>9 DEF RxNext

LEMMA FetchedFinite ==
  ASSUME HoldersRead, NEW k \in Channels
  PROVE  IsFiniteSet(Fetched(k)) /\ Cardinality(Fetched(k)) \in Nat
<1>1. Fetched(k) \subseteq Holders
  BY RxAssumption DEF Fetched, Holders, Mine
<1> QED
  BY <1>1, FS_Subset, FS_CardinalityType DEF HoldersRead

(* No step loses a frame. *)
LEMMA ConservedStep ==
  ASSUME TypeOK, RxTypeOK, HoldersRead, StampsAsFeatured, FirstOpen, Conserved,
         [RxNext]_<<vars, rxvars>>
  PROVE  Conserved'
<1> SUFFICES ASSUME ~lossy', NEW k \in Channels
             PROVE  (seq[k] = OnTheWay(k) + Len(rxq[k]) + q_drops[k] + taken[k])'
  BY DEF Conserved
<1> DEFINE S == OnTheWay(k) + Len(rxq[k]) + q_drops[k] + taken[k]
<1>1. /\ CountIn(pipe, Mine(k)) \in Nat /\ Cardinality(Fetched(k)) \in Nat
      /\ seq[k] \in Nat /\ Len(rxq[k]) \in Nat /\ q_drops[k] \in Nat /\ taken[k] \in Nat
  <2>1. CountIn(pipe, Mine(k)) \in Nat
    BY IndicesFinite DEF RxTypeOK
  <2> QED
    BY <2>1, FetchedFinite DEF RxTypeOK
<1>a. OnTheWay(k) \in Nat
  BY <1>1 DEF OnTheWay
<1>2. ~lossy => seq[k] = S
  BY DEF Conserved
<1>3. ASSUME UNCHANGED <<pipe, buf>>
      PROVE  OnTheWay(k)' = OnTheWay(k)
  BY <1>3 DEF OnTheWay, Fetched
<1>4. CASE \/ LifecycleStep \/ UNCHANGED <<vars, rxvars>>
           \/ \E r \in Readers : BulkInNothing(r)
  <2>1. UNCHANGED <<pipe, buf, seq, rxq, q_drops, taken, lossy>>
    BY <1>4 DEF LifecycleStep, BulkInNothing, rxvars, queues
  <2> QED
    BY <1>2, <1>3, <2>1
<1>5. CASE RxClose \/ RxUnplug
  BY <1>5 DEF RxClose, RxUnplug
<1>6. CASE RxOpen
  <2>1. /\ pipe \in Seq(Packets) /\ pipe' = Refreshed(pipe)
        /\ UNCHANGED <<buf, seq, rxq, taken, lossy>>
    BY <1>6 DEF RxOpen, RxTypeOK, Refreshed
  <2>2. CountIn(pipe', Mine(k)) = CountIn(pipe, Mine(k))
    <3>1. {i \in DOMAIN pipe' : pipe'[i] \in Mine(k)} = {i \in DOMAIN pipe : pipe[i] \in Mine(k)}
      BY <2>1, RefreshedPackets
    <3> QED
      BY <3>1 DEF CountIn
  <2>3. OnTheWay(k)' = OnTheWay(k)
    BY <2>1, <2>2 DEF OnTheWay, Fetched
  <2>4. q_drops[k] = 0 /\ q_drops'[k] = 0
    BY <1>6, <2>1 DEF RxOpen, Open, FirstOpen
  <2> QED
    BY <1>2, <2>1, <2>3, <2>4
<1>7. ASSUME NEW p \in Packets, DeviceSends(p)
      PROVE  OnTheWay(k)' = OnTheWay(k) + (IF p \in Mine(k) THEN 1 ELSE 0)
  <2>1. pipe \in Seq(Packets) /\ pipe' = Append(pipe, p) /\ UNCHANGED buf
    BY <1>7 DEF DeviceSends, RxTypeOK
  <2>2. CountIn(pipe', Mine(k)) = CountIn(pipe, Mine(k)) + (IF p \in Mine(k) THEN 1 ELSE 0)
    BY <2>1, CountAppend
  <2>3. Cardinality(Fetched(k))' = Cardinality(Fetched(k))
    BY <2>1 DEF Fetched
  <2> QED
    BY <1>1, <2>2, <2>3 DEF OnTheWay
<1>8. CASE BadPacket
  <2>1. PICK p \in Garbage : DeviceSends(p) /\ p \in Packets /\ p \notin Mine(k)
    BY <1>8, PacketKinds DEF BadPacket
  <2>2. OnTheWay(k)' = OnTheWay(k) + 0
    BY <1>7, <2>1
  <2>3. UNCHANGED <<seq, rxq, q_drops, taken, lossy>>
    BY <1>8 DEF BadPacket, queues
  <2> QED
    BY <1>1, <1>2, <2>2, <2>3 DEF OnTheWay
<1>9. ASSUME NEW l \in Channels, gsusb_channel_send(l)
      PROVE  (seq[k] = S)'
  <2>1. Packet("echo", l, 0, FALSE) \in Packets /\ Packet("echo", l, 0, FALSE) \notin Mine(k)
    BY PacketKinds
  <2>2. OnTheWay(k)' = OnTheWay(k) + 0
    BY <1>7, <1>9, <2>1 DEF gsusb_channel_send
  <2>3. UNCHANGED <<seq, rxq, q_drops, taken, lossy>>
    BY <1>9 DEF gsusb_channel_send, queues
  <2> QED
    BY <1>1, <1>2, <2>2, <2>3 DEF OnTheWay
<1>10. ASSUME NEW l \in Channels, BusFrame(l)
       PROVE  (seq[k] = S)'
  <2> DEFINE b == l \in started
             p == Packet("frame", l, seq[l] + 1, b)
  <2>1. p \in Packets /\ p \in Mine(l) /\ (p \in Mine(k) => l = k)
    <3>1. b \in BOOLEAN /\ seq[l] + 1 \in Nat
      BY DEF RxTypeOK
    <3> HIDE DEF b
    <3>2. p \in Mine(l) /\ (p \in Mine(k) => l = k)
      BY <3>1, PacketKinds
    <3> QED
      BY <3>2 DEF Mine
  <2>2. OnTheWay(k)' = OnTheWay(k) + (IF l = k THEN 1 ELSE 0)
    <3>1. DeviceSends(p)
      BY <1>10 DEF BusFrame
    <3> HIDE DEF p
    <3> QED
      BY <1>7, <2>1, <3>1
  <2>3. seq'[k] = seq[k] + (IF l = k THEN 1 ELSE 0) /\ UNCHANGED <<rxq, q_drops, taken, lossy>>
    BY <1>10 DEF BusFrame, RxTypeOK
  <2> QED
    BY <1>1, <1>2, <2>2, <2>3 DEF OnTheWay
<1>11. ASSUME NEW l \in Channels, gsusb_channel_recv(l)
       PROVE  (seq[k] = S)'
  <2>1. UNCHANGED <<pipe, buf, seq, q_drops, lossy>>
    BY <1>11 DEF gsusb_channel_recv, TakeFrame
  <2>2. Len(rxq'[k]) + taken'[k] = Len(rxq[k]) + taken[k]
    <3>1. CASE l = k
      <4>1. Len(rxq'[k]) = Len(rxq[k]) - 1
        BY <1>11, <3>1 DEF gsusb_channel_recv, TakeFrame, RxTypeOK
      <4>2. taken'[k] = taken[k] + 1
        BY <1>11, <3>1 DEF gsusb_channel_recv, TakeFrame, RxTypeOK
      <4> QED
        BY <1>1, <4>1, <4>2
    <3>2. CASE l # k
      BY <1>11, <3>2 DEF gsusb_channel_recv, TakeFrame, RxTypeOK
    <3> QED
      BY <3>1, <3>2
  <2>3. rxq'[k] \in Seq(Frames) /\ taken'[k] \in Nat
    BY RxTypeStep DEF RxTypeOK
  <2>4. Len(rxq'[k]) \in Nat /\ taken'[k] \in Nat
    BY <2>3
  <2> QED
    <3>1. OnTheWay(k)' = OnTheWay(k)
      BY <1>3, <2>1
    <3>2. seq[k] = OnTheWay(k) + Len(rxq[k]) + q_drops[k] + taken[k]
      BY <1>2, <2>1
    <3> DEFINE L == Len(rxq[k])
               D == q_drops[k]
               T == taken[k]
               W == OnTheWay(k)
    <3>3. W \in Nat /\ L \in Nat /\ D \in Nat /\ T \in Nat /\ L' \in Nat /\ T' \in Nat
      BY <1>1, <1>a, <2>4
    <3>4. seq[k] = W + L + D + T /\ L' + T' = L + T /\ W' = W /\ D' = D /\ seq'[k] = seq[k]
      BY <2>1, <2>2, <3>1, <3>2
    <3> HIDE DEF L, D, T, W
    <3>5. seq'[k] = W' + L' + D' + T'
      BY <3>3, <3>4
    <3> QED
      BY <3>5 DEF L, D, T, W
<1>12. ASSUME NEW r \in Readers, BulkIn(r)
       PROVE  (seq[k] = S)'
  <2>1. /\ pipe \in Seq(Packets) /\ pipe # <<>> /\ pipe' = Tail(pipe)
        /\ UNCHANGED <<seq, rxq, q_drops, taken, lossy>>
        /\ buf[r] = NoOne /\ buf' = [buf EXCEPT ![r] = Head(pipe)]
    BY <1>12 DEF BulkIn, RxTypeOK, queues
  <2>2. CountIn(pipe, Mine(k)) = CountIn(pipe', Mine(k))
                                   + (IF Head(pipe) \in Mine(k) THEN 1 ELSE 0)
    BY <2>1, CountTail
  <2>3. r \notin Fetched(k)
    BY <2>1, RxAssumption DEF Fetched, Mine
  <2>4. Fetched(k)' = IF Head(pipe) \in Mine(k) THEN Fetched(k) \cup {r} ELSE Fetched(k)
    BY <2>1, <2>3 DEF Fetched, RxTypeOK
  <2>5. Cardinality(Fetched(k))' = Cardinality(Fetched(k))
                                     + (IF Head(pipe) \in Mine(k) THEN 1 ELSE 0)
    <3>1. CASE Head(pipe) \in Mine(k)
      BY <2>3, <2>4, <3>1, FetchedFinite, FS_AddElement
    <3>2. CASE Head(pipe) \notin Mine(k)
      <4>1. Cardinality(Fetched(k))' = Cardinality(Fetched(k))
        BY <2>4, <3>2
      <4> QED
        BY <1>1, <3>2, <4>1
    <3> QED
      BY <3>1, <3>2
  <2>6. CountIn(pipe', Mine(k)) \in Nat
    <3>1. Tail(pipe) \in Seq(Packets)
      BY <2>1
    <3> QED
      BY <2>1, <3>1, IndicesFinite
  <2>7. OnTheWay(k)' = OnTheWay(k)
    BY <1>1, <2>2, <2>5, <2>6 DEF OnTheWay
  <2> QED
    BY <1>2, <2>1, <2>7
<1>13. ASSUME NEW r \in Readers, ReaderHandles(r)
       PROVE  (seq[k] = S)'
  <2>1. buf[r] # NoOne /\ pipe' = pipe /\ buf' = [buf EXCEPT ![r] = NoOne]
    BY <1>13 DEF ReaderHandles
  <2>2. Fetched(k)' = Fetched(k) \ {r}
    BY <2>1, RxAssumption DEF Fetched, RxTypeOK, Mine
  <2>3. OnTheWay(k)' = OnTheWay(k) - (IF buf[r] \in Mine(k) THEN 1 ELSE 0)
    <3>1. Cardinality(Fetched(k))' = IF r \in Fetched(k) THEN Cardinality(Fetched(k)) - 1
                                                         ELSE Cardinality(Fetched(k))
      BY <2>2, FetchedFinite, FS_RemoveElement
    <3>2. r \in Fetched(k) <=> buf[r] \in Mine(k)
      BY DEF Fetched
    <3>3. CountIn(pipe', Mine(k)) = CountIn(pipe, Mine(k))
      BY <2>1
    <3> QED
      BY <1>1, <3>1, <3>2, <3>3 DEF OnTheWay
  <2>4. CASE Accepted(buf[r])
    <3> DEFINE l == buf[r].channel
    <3>1. l \in Channels /\ Frame(buf[r]) \in Frames /\ (buf[r] \in Mine(k) <=> l = k)
      BY <2>1, <2>4, Handled
    <3>2. Push(l, Frame(buf[r]))
      BY <1>13, <2>4 DEF ReaderHandles, handle_rx_packet
    <3> HIDE DEF l
    <3>3. UNCHANGED <<seq, taken, lossy>>
      BY <3>2 DEF Push
    <3>4. Len(rxq'[k]) + q_drops'[k] = Len(rxq[k]) + q_drops[k] + (IF l = k THEN 1 ELSE 0)
      <4>1. CASE l = k
        <5>1. Len(rxq'[k]) = IF Len(rxq[k]) = Cap THEN Len(rxq[k]) ELSE Len(rxq[k]) + 1
          BY <3>1, <3>2, <4>1, Enqueued DEF Push, RxTypeOK
        <5>2. q_drops'[k] = IF Len(rxq[k]) = Cap THEN q_drops[k] + 1 ELSE q_drops[k]
          BY <3>2, <4>1 DEF Push, RxTypeOK
        <5> QED
          BY <1>1, <4>1, <5>1, <5>2
      <4>2. CASE l # k
        <5>1. rxq'[k] = rxq[k] /\ q_drops'[k] = q_drops[k]
          BY <3>1, <3>2, <4>2 DEF Push, RxTypeOK
        <5> QED
          BY <1>1, <4>2, <5>1
      <4> QED
        BY <4>1, <4>2
    <3>5. rxq'[k] \in Seq(Frames) /\ q_drops'[k] \in Nat
      BY RxTypeStep DEF RxTypeOK
    <3>6. Len(rxq'[k]) \in Nat /\ q_drops'[k] \in Nat
      BY <3>1, <3>5
    <3>7. OnTheWay(k)' + (IF l = k THEN 1 ELSE 0) = OnTheWay(k)
      BY <1>a, <2>3, <3>1
    <3>8. OnTheWay(k)' \in Int
      BY <1>a, <2>3
    <3>9. seq[k] = OnTheWay(k) + Len(rxq[k]) + q_drops[k] + taken[k]
      BY <1>2, <3>3
    <3> DEFINE L == Len(rxq[k])
               D == q_drops[k]
               T == taken[k]
               W == OnTheWay(k)
    <3>10. W \in Nat /\ W' \in Int /\ L \in Nat /\ D \in Nat /\ T \in Nat
      BY <1>1, <1>a, <3>8
    <3>11. L' \in Nat /\ D' \in Nat /\ T' = T /\ seq'[k] = seq[k] /\ seq[k] = W + L + D + T
      BY <3>3, <3>6, <3>9
    <3>12. \/ L' + D' = L + D + 1 /\ W' + 1 = W
           \/ L' + D' = L + D /\ W' = W
      <4>1. CASE l = k
        BY <3>4, <3>7, <4>1
      <4>2. CASE l # k
        <5>1. L' + D' = L + D + 0 /\ W' + 0 = W
          BY <3>4, <3>7, <4>2
        <5> QED
          BY <3>10, <5>1
      <4> QED
        BY <4>1, <4>2
    <3> HIDE DEF L, D, T, W
    <3>13. W' + L' + D' + T = W + L + D + T
      <4>1. CASE L' + D' = L + D + 1 /\ W' + 1 = W
        <5>1. W' + L' + D' + T = (L' + D') + W' + T
          BY <3>10, <3>11
        <5>2. (L + D + 1) + W' + T = (L + D) + (W' + 1) + T
          BY <3>10
        <5>3. (L + D) + W + T = W + L + D + T
          BY <3>10
        <5> QED
          BY <4>1, <5>1, <5>2, <5>3, Zenon
      <4>2. CASE L' + D' = L + D /\ W' = W
        <5>1. W' + L' + D' + T = (L' + D') + W' + T
          BY <3>10, <3>11
        <5>2. (L + D) + W + T = W + L + D + T
          BY <3>10
        <5> QED
          BY <4>2, <5>1, <5>2, Zenon
      <4> QED
        BY <3>12, <4>1, <4>2
    <3>14. seq'[k] = W' + L' + D' + T'
      BY <3>11, <3>13
    <3> QED
      BY <3>14 DEF L, D, T, W
  <2>5. CASE ~Accepted(buf[r])
    <3>1. buf[r] \notin Mine(k)
      BY <2>1, <2>5, Handled
    <3>2. UNCHANGED <<seq, rxq, q_drops, taken, lossy>>
      BY <1>13, <2>5 DEF ReaderHandles, handle_rx_packet, queues
    <3> QED
      BY <1>1, <1>2, <2>3, <3>1, <3>2 DEF OnTheWay
  <2> QED
    BY <2>4, <2>5
<1> QED
  BY <1>4, <1>5, <1>6, <1>8, <1>9, <1>10, <1>11, <1>12, <1>13 DEF RxNext

(* The invariant of every interleaving. *)
LEMMA RxInvariant == RxSpec => [](CountInv /\ RxInv)
<1>1. RxInit => RxInv
  <2> SUFFICES ASSUME RxInit PROVE RxInv
    OBVIOUS
  <2> USE RxAssumption DEF RxInit
  <2>1. <<>> \in Seq(Packets) /\ <<>> \in Seq(Frames) /\ Len(<<>>) = 0
    OBVIOUS
  <2>2. RxTypeOK
    BY <2>1 DEF RxTypeOK
  <2>3. Holders = {} /\ \A k \in Channels : Fetched(k) = {}
    BY DEF Holders, Fetched, Mine
  <2>4. HoldersRead
    BY <2>3, FS_EmptySet DEF HoldersRead
  <2>5. StampsAsFeatured /\ FirstOpen
    BY DEF Init, StampsAsFeatured, FirstOpen, AllFree, Mine
  <2>6. Conserved
    <3>1. Cardinality({}) = 0
      BY FS_EmptySet
    <3>2. pipe = <<>>
      OBVIOUS
    <3>3. ASSUME NEW k \in Channels
          PROVE  OnTheWay(k) = 0
      <4>1. CountIn(pipe, Mine(k)) = 0
        BY <3>2, CountEmpty
      <4>2. Cardinality(Fetched(k)) = 0
        BY <2>3, <3>1
      <4> QED
        BY <4>1, <4>2 DEF OnTheWay
    <3> QED
      BY <2>1, <3>3 DEF Conserved
  <2> QED
    BY <2>2, <2>4, <2>5, <2>6 DEF RxInv
<1>2. CountInv /\ RxInv /\ [RxNext]_<<vars, rxvars>> => RxInv'
  BY RxTypeStep, HoldersStep, StampsStep, FirstOpenStep, ConservedStep DEF CountInv, RxInv
<1> QED
  BY <1>1, <1>2, CountInvariant, ReceivePathIsDevice, PTL DEF RxSpec

(* Until a close or an unplugged device throws frames away, every frame that *)
(* a channel took from its bus is on its way, queued, returned by recv() or  *)
(* counted as dropped, for any number of channels that start and stop while  *)
(* others receive, and even if the application's calls overlap.              *)
THEOREM NoFrameGoesMissing == RxSpec => []NoFrameLost
<1>1. RxInv => NoFrameLost
  <2> SUFFICES ASSUME RxInv, ~lossy, NEW k \in Channels
               PROVE  seq[k] = InFlight(k) + Len(rxq[k]) + q_drops[k] + taken[k]
    BY DEF NoFrameLost
  <2>1. {i \in DOMAIN pipe : pipe[i] \in Mine(k)}
          = {i \in DOMAIN pipe : pipe[i].kind = "frame" /\ pipe[i].channel = k}
    BY DEF RxInv, RxTypeOK, Mine
  <2>2. Fetched(k) = {r \in Readers : /\ buf[r] # NoOne
                                      /\ buf[r].kind = "frame"
                                      /\ buf[r].channel = k}
    BY RxAssumption DEF RxInv, RxTypeOK, Fetched, Mine
  <2>3. InFlight(k) = OnTheWay(k)
    BY <2>1, <2>2 DEF InFlight, OnTheWay, CountIn
  <2> QED
    BY <2>3 DEF RxInv, Conserved
<1> QED
  BY <1>1, RxInvariant, PTL

-------------------------------------------------------------------------------
(* What holds of it for applications that do not overlap their calls. *)

(* The numbers of channel k's frames in its queue, with a reader, in the    *)
(* pipe.                                                                    *)
Queued(k) == {rxq[k][i].seq : i \in DOMAIN rxq[k]}

Held(k) == {buf[r].seq : r \in Fetched(k)}

Piped(k) == {pipe[i].seq : i \in {j \in DOMAIN pipe : pipe[j] \in Mine(k)}}

Below(A, B) == \A a \in A, b \in B : a < b

QueueSorted(k) ==
  /\ \A i \in DOMAIN rxq[k] : rxq[k][i].channel = k
  /\ \A i, j \in DOMAIN rxq[k] : i < j => rxq[k][i].seq < rxq[k][j].seq

PipeSorted(k) ==
  \A i, j \in DOMAIN pipe :
    i < j /\ pipe[i] \in Mine(k) /\ pipe[j] \in Mine(k) => pipe[i].seq < pipe[j].seq

(* From the queue over the reader to the pipe the numbers increase, and all *)
(* come after those recv() returned.                                        *)
InOrder(k) ==
  /\ newest[k] <= seq[k]
  /\ Queued(k) \cup Held(k) \cup Piped(k) \subseteq (newest[k] + 1)..seq[k]
  /\ Below(Queued(k), Held(k)) /\ Below(Queued(k), Piped(k)) /\ Below(Held(k), Piped(k))
  /\ QueueSorted(k) /\ PipeSorted(k)

OrderInv == \A k \in Channels : InOrder(k)

(* A fresh frame was sent by a channel whose stamps the library reads, and  *)
(* has kept that until it is queued.                                        *)
StampsExpected ==
  /\ started \cap TsChannels \subseteq hw_ts_enabled
  /\ \A k \in TsChannels :
       /\ \A i \in DOMAIN pipe : pipe[i] \in Mine(k) /\ pipe[i].fresh => k \in hw_ts_enabled
       /\ \A r \in Readers : buf[r] \in Mine(k) /\ buf[r].fresh => k \in hw_ts_enabled
       /\ \A i \in DOMAIN rxq[k] : rxq[k][i].fresh => rxq[k][i].ts

(* A step by which frames of a channel only go keeps the others in order. *)
LEMMA GoingKeepsOrder ==
  ASSUME NEW k \in Channels, InOrder(k), seq'[k] = seq[k], newest'[k] = newest[k],
         Queued(k)' \subseteq Queued(k), Held(k)' \subseteq Held(k), Piped(k)' \subseteq Piped(k),
         QueueSorted(k)', PipeSorted(k)'
  PROVE  InOrder(k)'
  BY DEF InOrder, Below

(* What a packet of no or another channel does to the pipe. *)
LEMMA SentElsewhere ==
  ASSUME RxTypeOK, NEW k \in Channels, NEW p \in Packets, DeviceSends(p), p \notin Mine(k),
         PipeSorted(k)
  PROVE  Held(k)' = Held(k) /\ Piped(k)' \subseteq Piped(k) /\ PipeSorted(k)'
<1>1. /\ pipe \in Seq(Packets) /\ pipe' = Append(pipe, p) /\ UNCHANGED buf
  BY DEF RxTypeOK, DeviceSends
<1>2. \A i \in DOMAIN pipe' : (i \in DOMAIN pipe /\ pipe'[i] = pipe[i]) \/ pipe'[i] = p
  BY <1>1
<1>3. Held(k)' = Held(k)
  BY <1>1 DEF Held, Fetched
<1>4. Piped(k)' \subseteq Piped(k) /\ PipeSorted(k)'
  BY <1>2 DEF Piped, PipeSorted
<1> QED
  BY <1>3, <1>4

(* The frames of every channel stay in order. *)
LEMMA OrderStep ==
  ASSUME TypeOK, RxInv, RxInv', OnlyReader, NEW k \in Channels, InOrder(k),
         [RxNext]_<<vars, rxvars>>
  PROVE  InOrder(k)'
<1> USE DEF RxInv
<1>1. ASSUME UNCHANGED <<pipe, buf>>, rxq'[k] = rxq[k], seq'[k] = seq[k], newest'[k] = newest[k]
      PROVE  InOrder(k)'
  BY <1>1 DEF InOrder, Queued, Held, Fetched, Piped, QueueSorted, PipeSorted
<1>2. CASE \/ LifecycleStep \/ UNCHANGED <<vars, rxvars>>
           \/ \E r \in Readers : BulkInNothing(r)
  BY <1>1, <1>2 DEF LifecycleStep, BulkInNothing, rxvars, queues
<1>3. CASE RxClose
  <2>1. UNCHANGED <<pipe, buf, seq, newest>> /\ rxq'[k] = <<>>
    BY <1>3 DEF RxClose
  <2>2. Queued(k)' = {} /\ QueueSorted(k)'
    BY <2>1 DEF Queued, QueueSorted
  <2>3. Held(k)' = Held(k) /\ Piped(k)' = Piped(k) /\ (PipeSorted(k) => PipeSorted(k)')
    BY <2>1 DEF Held, Fetched, Piped, PipeSorted
  <2> QED
    BY <2>1, <2>2, <2>3, GoingKeepsOrder DEF InOrder
<1>4. CASE RxOpen
  <2>1. pipe' = Refreshed(pipe) /\ UNCHANGED <<buf, seq, rxq, newest>>
    BY <1>4 DEF RxOpen, Refreshed
  <2>2. /\ DOMAIN pipe' = DOMAIN pipe
        /\ \A i \in DOMAIN pipe : /\ pipe'[i].seq = pipe[i].seq
                                  /\ pipe'[i] \in Mine(k) <=> pipe[i] \in Mine(k)
    BY <2>1, RefreshedPackets DEF RxTypeOK
  <2>3. Piped(k)' \subseteq Piped(k) /\ (PipeSorted(k) => PipeSorted(k)')
    BY <2>2 DEF Piped, PipeSorted
  <2>4. Queued(k)' = Queued(k) /\ Held(k)' = Held(k) /\ (QueueSorted(k) => QueueSorted(k)')
    BY <2>1 DEF Queued, Held, Fetched, QueueSorted
  <2> QED
    BY <2>1, <2>3, <2>4, GoingKeepsOrder DEF InOrder
<1>5. CASE RxUnplug
  <2>1. pipe' = <<>> /\ UNCHANGED <<buf, seq, rxq, newest>>
    BY <1>5 DEF RxUnplug
  <2>2. Piped(k)' = {} /\ PipeSorted(k)'
    BY <2>1 DEF Piped, PipeSorted
  <2>3. Queued(k)' = Queued(k) /\ Held(k)' = Held(k) /\ (QueueSorted(k) => QueueSorted(k)')
    BY <2>1 DEF Queued, Held, Fetched, QueueSorted
  <2> QED
    BY <2>1, <2>2, <2>3, GoingKeepsOrder DEF InOrder
<1>6. ASSUME NEW p \in Packets, DeviceSends(p), p \notin Mine(k), rxq' = rxq, newest' = newest,
             seq'[k] = seq[k]
      PROVE  InOrder(k)'
  <2>1. Held(k)' = Held(k) /\ Piped(k)' \subseteq Piped(k) /\ PipeSorted(k)'
    BY <1>6, SentElsewhere DEF InOrder
  <2>2. Queued(k)' = Queued(k) /\ (QueueSorted(k) => QueueSorted(k)')
    BY <1>6 DEF Queued, QueueSorted
  <2> QED
    BY <1>6, <2>1, <2>2, GoingKeepsOrder DEF InOrder
<1>7. CASE BadPacket
  <2>1. PICK p \in Garbage : DeviceSends(p) /\ p \in Packets /\ p \notin Mine(k)
    BY <1>7, PacketKinds DEF BadPacket
  <2> QED
    BY <1>6, <1>7, <2>1 DEF BadPacket, queues
<1>8. ASSUME NEW l \in Channels, gsusb_channel_send(l)
      PROVE  InOrder(k)'
  <2>1. Packet("echo", l, 0, FALSE) \in Packets /\ Packet("echo", l, 0, FALSE) \notin Mine(k)
    BY PacketKinds
  <2> QED
    <3> DEFINE p == Packet("echo", l, 0, FALSE)
    <3>1. DeviceSends(p) /\ UNCHANGED <<rxq, newest, seq>>
      BY <1>8 DEF gsusb_channel_send, queues
    <3>2. p \in Packets /\ p \notin Mine(k)
      BY <2>1
    <3> HIDE DEF p
    <3> QED
      BY <1>6, <3>1, <3>2
<1>9. ASSUME NEW l \in Channels, BusFrame(l)
      PROVE  InOrder(k)'
  <2> DEFINE b == l \in started
             p == Packet("frame", l, seq[l] + 1, b)
  <2>1. p \in Packets /\ p \in Mine(l) /\ (p \in Mine(k) => l = k) /\ p.seq = seq[l] + 1
    <3>1. b \in BOOLEAN /\ seq[l] + 1 \in Nat
      <4>1. seq \in [Channels -> Nat]
        BY DEF RxTypeOK
      <4>2. seq[l] \in Nat
        BY <4>1
      <4> QED
        BY <4>2
    <3> HIDE DEF b
    <3>2. p \in Mine(l) /\ (p \in Mine(k) => l = k)
      BY <3>1, PacketKinds
    <3> QED
      BY <3>2 DEF Mine, Packet
  <2>2. /\ DeviceSends(p) /\ UNCHANGED <<rxq, newest>>
        /\ seq' = [seq EXCEPT ![l] = seq[l] + 1]
    BY <1>9 DEF BusFrame
  <2> HIDE DEF p
  <2>3. CASE l # k
    <3>1. p \notin Mine(k) /\ seq'[k] = seq[k]
      BY <2>1, <2>2, <2>3 DEF RxTypeOK
    <3> QED
      BY <1>6, <2>1, <2>2, <3>1
  <2>4. CASE l = k
    <3>1. seq[k] \in Nat /\ seq'[k] = seq[k] + 1 /\ newest'[k] = newest[k] /\ newest[k] \in Nat
      BY <2>2, <2>4 DEF RxTypeOK
    <3>2. pipe \in Seq(Packets) /\ pipe' = Append(pipe, p) /\ UNCHANGED buf
      BY <2>2 DEF RxTypeOK, DeviceSends
    <3>3. /\ Len(pipe) \in Nat /\ DOMAIN pipe = 1..Len(pipe) /\ DOMAIN pipe' = 1..(Len(pipe) + 1)
          /\ \A i \in DOMAIN pipe : pipe'[i] = pipe[i]
          /\ pipe'[Len(pipe) + 1] = p
      BY <3>2, <2>1
    <3>4. Piped(k)' \subseteq Piped(k) \cup {seq[k] + 1}
      BY <2>1, <2>4, <3>3 DEF Piped
    <3>5. PipeSorted(k)'
      <4> SUFFICES ASSUME NEW i \in DOMAIN pipe', NEW j \in DOMAIN pipe', i < j,
                          pipe'[i] \in Mine(k), pipe'[j] \in Mine(k)
                   PROVE  pipe'[i].seq < pipe'[j].seq
        BY DEF PipeSorted
      <4>1. i \in DOMAIN pipe /\ pipe[i] \in Mine(k) /\ pipe'[i] = pipe[i]
        BY <3>3
      <4>2. pipe[i].seq <= seq[k]
        BY <4>1 DEF InOrder, Piped
      <4>3. CASE j \in DOMAIN pipe
        BY <3>3, <4>1, <4>3 DEF InOrder, PipeSorted
      <4>4. CASE j = Len(pipe) + 1
        <5>1. pipe[i].seq \in Nat
          BY <4>1 DEF Mine, Packets
        <5>2. pipe'[j].seq = seq[k] + 1
          BY <2>1, <2>4, <3>3, <4>4
        <5> QED
          BY <3>1, <4>1, <4>2, <5>1, <5>2
      <4> QED
        BY <3>3, <4>3, <4>4
    <3>6. Queued(k)' = Queued(k) /\ Held(k)' = Held(k) /\ (QueueSorted(k) => QueueSorted(k)')
      BY <2>2, <3>2 DEF Queued, Held, Fetched, QueueSorted
    <3> QED
      BY <3>1, <3>4, <3>5, <3>6 DEF InOrder, Below
  <2> QED
    BY <2>3, <2>4
<1>10. ASSUME NEW l \in Channels, gsusb_channel_recv(l)
       PROVE  InOrder(k)'
  <2>1. /\ UNCHANGED <<pipe, buf, seq>>
        /\ rxq[l] # <<>> /\ rxq' = [rxq EXCEPT ![l] = Tail(rxq[l])]
        /\ newest' = [newest EXCEPT ![l] = Head(rxq[l]).seq]
    BY <1>10 DEF gsusb_channel_recv, TakeFrame
  <2>2. CASE l # k
    BY <1>1, <2>1, <2>2 DEF RxTypeOK
  <2>3. CASE l = k
    <3> DEFINE q == rxq[k]
    <3>1. /\ q \in Seq(Frames) /\ q # <<>>
          /\ rxq'[k] = Tail(q) /\ newest'[k] = q[1].seq /\ seq'[k] = seq[k]
      BY <2>1, <2>3 DEF RxTypeOK
    <3>2. /\ 1 \in DOMAIN q
          /\ \A i \in DOMAIN Tail(q) :
               i + 1 \in DOMAIN q /\ Tail(q)[i] = q[i + 1] /\ i \in 1..Len(q)
      BY <3>1
    <3>a. q[1] \in Frames
      BY <3>1, <3>2
    <3>3. q[1].seq \in Queued(k) /\ q[1].seq \in Nat
      BY <3>2, <3>a DEF Queued, Frames
    <3>b. \A i, j \in DOMAIN q : i < j => q[i].seq < q[j].seq
      BY DEF InOrder, QueueSorted
    <3>c. \A i \in DOMAIN q : q[i].channel = k
      BY DEF InOrder, QueueSorted
    <3>d. \A n \in Queued(k)' : \E i \in DOMAIN Tail(q) : n = Tail(q)[i].seq
      BY <3>1 DEF Queued
    <3> HIDE DEF q
    <3>4. Queued(k)' \subseteq Queued(k) /\ \A n \in Queued(k)' : q[1].seq < n
      <4> SUFFICES ASSUME NEW n \in Queued(k)' PROVE n \in Queued(k) /\ q[1].seq < n
        OBVIOUS
      <4>1. PICK i \in DOMAIN Tail(q) : n = Tail(q)[i].seq
        BY <3>d
      <4>2. i \in Nat /\ i > 0 /\ i + 1 \in DOMAIN q /\ n = q[i + 1].seq
        BY <3>2, <4>1
      <4>3. n \in Queued(k)
        BY <4>2 DEF Queued, q
      <4>4. q[1].seq < q[i + 1].seq
        BY <3>2, <3>b, <4>2
      <4> QED
        BY <4>2, <4>3, <4>4
    <3>5. QueueSorted(k)'
      <4>1. ASSUME NEW i \in DOMAIN Tail(q), NEW j \in DOMAIN Tail(q), i < j
            PROVE  Tail(q)[i].seq < Tail(q)[j].seq
        <5>1. i + 1 < j + 1
          BY <3>2, <4>1
        <5> QED
          BY <3>2, <3>b, <5>1
      <4>2. \A i \in DOMAIN Tail(q) : Tail(q)[i].channel = k
        BY <3>2, <3>c
      <4> QED
        BY <3>1, <4>1, <4>2 DEF QueueSorted
    <3>6. Held(k)' = Held(k) /\ Piped(k)' = Piped(k) /\ (PipeSorted(k) => PipeSorted(k)')
      BY <2>1 DEF Held, Fetched, Piped, PipeSorted
    <3>7. newest[k] \in Nat /\ seq[k] \in Nat
      BY DEF RxTypeOK
    <3> HIDE DEF q
    <3> QED
      BY <3>1, <3>3, <3>4, <3>5, <3>6, <3>7 DEF InOrder, Below
  <2> QED
    BY <2>2, <2>3
<1>11. ASSUME NEW r \in Readers, BulkIn(r)
       PROVE  InOrder(k)'
  <2>1. /\ pipe \in Seq(Packets) /\ pipe # <<>> /\ pipe' = Tail(pipe)
        /\ UNCHANGED <<seq, rxq, newest>>
        /\ rpc[r] = "reading" /\ buf[r] = NoOne /\ buf' = [buf EXCEPT ![r] = Head(pipe)]
    BY <1>11 DEF BulkIn, RxTypeOK, queues
  <2>2. \A q \in Readers : buf[q] = NoOne
    BY <2>1 DEF OnlyReader, HoldersRead, Holders
  <2>3. Held(k)' \subseteq {pipe[1].seq} /\ (pipe[1] \notin Mine(k) => Held(k)' = {})
    <3>1. \A q \in Readers : buf'[q] = NoOne \/ buf'[q] = pipe[1]
      BY <2>1, <2>2 DEF RxTypeOK
    <3>2. NoOne \notin Mine(k)
      BY RxAssumption DEF Mine
    <3> QED
      BY <3>1, <3>2 DEF Held, Fetched
  <2>4. /\ 1 \in DOMAIN pipe
        /\ \A i \in DOMAIN pipe' :
             i + 1 \in DOMAIN pipe /\ pipe'[i] = pipe[i + 1] /\ i \in Nat /\ i > 0
    BY <2>1
  <2>5. Piped(k)' \subseteq Piped(k) /\ PipeSorted(k)'
    BY <2>4 DEF InOrder, Piped, PipeSorted
  <2>6. pipe[1] \in Mine(k) => \A n \in Piped(k)' : pipe[1].seq < n
    BY <2>4 DEF InOrder, Piped, PipeSorted
  <2>7. pipe[1] \in Mine(k) => pipe[1].seq \in Piped(k)
    BY <2>4 DEF Piped
  <2>8. Queued(k)' = Queued(k) /\ (QueueSorted(k) => QueueSorted(k)')
    BY <2>1 DEF Queued, QueueSorted
  <2> QED
    BY <2>1, <2>3, <2>5, <2>6, <2>7, <2>8 DEF InOrder, Below
<1>12. ASSUME NEW r \in Readers, ReaderHandles(r)
       PROVE  InOrder(k)'
  <2>1. /\ buf[r] # NoOne /\ rpc[r] = "reading" /\ pipe' = pipe
        /\ buf' = [buf EXCEPT ![r] = NoOne]
    BY <1>12 DEF ReaderHandles
  <2>2. \A q \in Readers : buf'[q] = NoOne
    BY <2>1 DEF OnlyReader, HoldersRead, Holders, RxTypeOK
  <2>3. Held(k)' = {} /\ Piped(k)' = Piped(k) /\ (PipeSorted(k) => PipeSorted(k)')
    <3>1. NoOne \notin Mine(k)
      BY RxAssumption DEF Mine
    <3> QED
      BY <2>1, <2>2, <3>1 DEF Held, Fetched, Piped, PipeSorted
  <2>4. ASSUME rxq'[k] = rxq[k], UNCHANGED <<seq, newest>>
        PROVE  InOrder(k)'
    <3>1. Queued(k)' = Queued(k) /\ (QueueSorted(k) => QueueSorted(k)')
      BY <2>4 DEF Queued, QueueSorted
    <3> QED
      BY <2>3, <2>4, <3>1, GoingKeepsOrder DEF InOrder
  <2>5. CASE ~Accepted(buf[r])
    BY <1>12, <2>4, <2>5 DEF ReaderHandles, handle_rx_packet, queues
  <2>6. CASE Accepted(buf[r])
    <3>1. /\ buf[r].channel \in Channels /\ Frame(buf[r]) \in Frames
          /\ buf[r] \in Mine(buf[r].channel)
          /\ buf[r] \in Mine(k) => buf[r].channel = k
      BY <2>1, <2>6, Handled
    <3>2. Push(buf[r].channel, Frame(buf[r]))
      BY <1>12, <2>6 DEF ReaderHandles, handle_rx_packet
    <3>3. UNCHANGED <<seq, newest>>
      BY <3>2 DEF Push
    <3>4. CASE buf[r].channel # k
      BY <2>4, <3>1, <3>2, <3>3, <3>4 DEF Push, RxTypeOK
    <3>5. CASE buf[r].channel = k
      <4> DEFINE q == rxq[k]
                 f == Frame(buf[r])
                 n == Len(q)
      <4>1. q \in Seq(Frames) /\ f \in Frames /\ rxq'[k] = Enqueue(q, f)
        BY <3>1, <3>2, <3>5 DEF Push, RxTypeOK
      <4>2. f.channel = k /\ f.seq = buf[r].seq /\ f.seq \in Held(k) /\ f.seq \in Nat
        BY <3>1, <3>5, <4>1 DEF Frame, Held, Fetched, Frames
      <4> HIDE DEF q, f
      <4>a. /\ Len(rxq'[k]) = IF Len(q) = Cap THEN Len(q) ELSE Len(q) + 1
            /\ rxq'[k][Len(rxq'[k])] = f
            /\ rxq'[k] \in Seq(Frames)
            /\ \E d \in {0, 1} :
                 /\ Len(rxq'[k]) = Len(q) + 1 - d
                 /\ \A i \in 1..(Len(q) - d) : rxq'[k][i] = q[i + d]
        <5> DEFINE E == Enqueue(q, f)
        <5>1. /\ E \in Seq(Frames)
              /\ Len(E) = IF Len(q) = Cap THEN Len(q) ELSE Len(q) + 1
              /\ E[Len(E)] = f
              /\ \E d \in {0, 1} :
                   /\ Len(E) = Len(q) + 1 - d
                   /\ \A i \in 1..(Len(q) - d) : E[i] = q[i + d]
          BY <4>1, Enqueued, Zenon
        <5>2. rxq'[k] = E
          BY <4>1
        <5> HIDE DEF E
        <5> QED
          BY <5>1, <5>2, Zenon
      <4>3. PICK d \in {0, 1} : /\ Len(rxq'[k]) = Len(q) + 1 - d
                                /\ \A i \in 1..(Len(q) - d) : rxq'[k][i] = q[i + d]
                                /\ rxq'[k][Len(rxq'[k])] = f
                                /\ rxq'[k] \in Seq(Frames)
        BY <4>a
      <4>4. n \in Nat /\ DOMAIN q = 1..n /\ DOMAIN rxq'[k] = 1..(n + 1 - d)
        BY <4>1, <4>3
      <4> HIDE DEF n
      <4>5. ASSUME NEW i \in DOMAIN rxq'[k]
            PROVE  \/ i + d \in DOMAIN q /\ rxq'[k][i] = q[i + d]
                   \/ i = n + 1 - d /\ rxq'[k][i] = f
        BY <4>3, <4>4 DEF n
      <4>6. Queued(k)' \subseteq Queued(k) \cup {f.seq}
        BY <4>5 DEF Queued, q
      <4>7. \A i \in DOMAIN q : q[i].seq < f.seq
        BY <4>2 DEF InOrder, Below, Queued, q
      <4>8. QueueSorted(k)'
        <5>1. /\ \A i \in DOMAIN q : q[i].channel = k
              /\ \A i, j \in DOMAIN q : i < j => q[i].seq < q[j].seq
          BY DEF InOrder, QueueSorted, q
        <5>2. \A i \in DOMAIN rxq'[k] : rxq'[k][i].channel = k
          BY <4>2, <4>5, <5>1
        <5>3. ASSUME NEW i \in DOMAIN rxq'[k], NEW j \in DOMAIN rxq'[k], i < j
              PROVE  rxq'[k][i].seq < rxq'[k][j].seq
          <6>1. i + d \in DOMAIN q /\ rxq'[k][i] = q[i + d] /\ i + d < j + d
            BY <4>4, <4>5, <5>3
          <6>2. CASE j + d \in DOMAIN q /\ rxq'[k][j] = q[j + d]
            BY <5>1, <6>1, <6>2
          <6>3. CASE rxq'[k][j] = f
            BY <4>7, <6>1, <6>3
          <6> QED
            BY <4>5, <6>2, <6>3
        <5> QED
          BY <5>2, <5>3 DEF QueueSorted
      <4>9. \A x \in Piped(k) : f.seq < x
        BY <4>2 DEF InOrder, Below
      <4> QED
        BY <2>3, <3>3, <4>2, <4>6, <4>8, <4>9 DEF InOrder, Below
    <3> QED
      BY <3>4, <3>5
  <2> QED
    BY <2>5, <2>6
<1> QED
  BY <1>2, <1>3, <1>4, <1>5, <1>7, <1>8, <1>9, <1>10, <1>11, <1>12 DEF RxNext

(* A fresh frame keeps the flag that its time stamp is read by. *)
LEMMA StampsExpectedStep ==
  ASSUME TypeOK, CallInv, RxInv, OnlyReader, StampsExpected, [RxNext]_<<vars, rxvars>>
  PROVE  StampsExpected'
<1>1. /\ \/ RxOpen /\ hw_ts_enabled' = {} /\ started' = {}
         \/ /\ hw_ts_enabled \subseteq hw_ts_enabled'
            /\ started' \cap TsChannels \subseteq started \cup hw_ts_enabled'
  BY StampFlagStep DEF RxInv, StampsAsFeatured
<1>2. started' \cap TsChannels \subseteq hw_ts_enabled'
  BY <1>1 DEF StampsExpected
<1>3. ASSUME NEW k \in TsChannels, NEW p \in Mine(k), p.fresh,
             (\E i \in DOMAIN pipe' : pipe'[i] = p) \/ (\E r \in Readers : buf'[r] = p)
      PROVE  k \in hw_ts_enabled'
  <2>a. k \in Channels
    BY DeviceAssumption
  <2>1. CASE RxOpen
    <3>1. \A r \in Readers : buf'[r] = NoOne
      <4>1. \A r \in Readers : rpc[r] = "free" /\ buf' = buf
        BY <2>1 DEF RxOpen, Open, OnlyReader
      <4> QED
        BY <4>1 DEF RxInv, HoldersRead, Holders
    <3>2. p # NoOne
      BY RxAssumption DEF Mine
    <3>3. pipe' = Refreshed(pipe) /\ pipe \in Seq(Packets)
      BY <2>1 DEF RxOpen, Refreshed, RxInv, RxTypeOK
    <3>4. \A i \in DOMAIN pipe' : ~pipe'[i].fresh
      BY <3>3, RefreshedPackets
    <3> QED
      BY <1>3, <3>1, <3>2, <3>4
  <2>2. CASE ~RxOpen
    <3>1. hw_ts_enabled \subseteq hw_ts_enabled'
      BY <1>1, <2>2
    <3>2. CASE p = Packet("frame", k, seq[k] + 1, k \in started)
      BY <1>3, <3>1, <3>2 DEF Packet, StampsExpected
    <3>3. CASE (\E i \in DOMAIN pipe : pipe[i] = p) \/ (\E r \in Readers : buf[r] = p)
      BY <1>3, <3>1, <3>3 DEF StampsExpected
    <3>4. \/ p = Packet("frame", k, seq[k] + 1, k \in started)
          \/ (\E i \in DOMAIN pipe : pipe[i] = p) \/ (\E r \in Readers : buf[r] = p)
      BY <1>3, <2>a, <2>2, WhereFrom DEF RxInv
    <3> QED
      BY <3>2, <3>3, <3>4
  <2> QED
    BY <2>1, <2>2
<1>4. ASSUME NEW k \in TsChannels, NEW i \in DOMAIN rxq'[k], rxq'[k][i].fresh
      PROVE  rxq'[k][i].ts
  <2>a. k \in Channels /\ rxq[k] \in Seq(Frames)
    BY DeviceAssumption DEF RxInv, RxTypeOK
  <2>b. \A j \in DOMAIN rxq[k] : rxq[k][j].fresh => rxq[k][j].ts
    BY DEF StampsExpected
  <2>1. CASE rxq'[k] = rxq[k]
    BY <1>4, <2>1, <2>b
  <2>2. CASE rxq'[k] = <<>>
    BY <1>4, <2>2
  <2>3. CASE rxq[k] # <<>> /\ rxq'[k] = Tail(rxq[k])
    <3>1. i + 1 \in DOMAIN rxq[k] /\ rxq'[k][i] = rxq[k][i + 1]
      BY <1>4, <2>a, <2>3
    <3> QED
      BY <1>4, <2>b, <3>1
  <2>4. ASSUME NEW r \in Readers, ReaderHandles(r), Accepted(buf[r]), buf[r].channel = k
        PROVE  rxq'[k][i].ts
    <3> DEFINE q == rxq[k]
               f == Frame(buf[r])
               E == Enqueue(q, f)
    <3>1. f \in Frames /\ buf[r] \in Mine(k) /\ buf[r] # NoOne
      BY <2>4, Handled DEF ReaderHandles, RxInv
    <3>2. rxq'[k] = E
      BY <2>4, <2>a DEF ReaderHandles, handle_rx_packet, Push, RxInv, RxTypeOK
    <3>3. f.fresh => f.ts
      BY <2>4, <3>1 DEF Frame, StampsExpected
    <3> HIDE DEF f
    <3>4. /\ E \in Seq(Frames)
          /\ E[Len(E)] = f
          /\ \E d \in {0, 1} :
               /\ Len(E) = Len(q) + 1 - d
               /\ \A j \in 1..(Len(q) - d) : E[j] = q[j + d]
      BY <2>a, <3>1, Enqueued, Zenon
    <3> HIDE DEF E
    <3>5. PICK d \in {0, 1} : /\ Len(E) = Len(q) + 1 - d
                              /\ \A j \in 1..(Len(q) - d) : E[j] = q[j + d]
      BY <3>4
    <3> HIDE DEF q
    <3>6. Len(q) \in Nat /\ DOMAIN q = 1..Len(q) /\ DOMAIN E = 1..Len(E)
      BY <2>a, <3>4 DEF q
    <3>7. (i + d \in DOMAIN q /\ E[i] = q[i + d]) \/ E[i] = f
      <4>1. i \in 1..(Len(q) + 1 - d)
        BY <1>4, <3>2, <3>5, <3>6
      <4>2. CASE i = Len(q) + 1 - d
        BY <3>4, <3>5, <4>2
      <4>3. CASE i # Len(q) + 1 - d
        BY <3>5, <3>6, <4>1, <4>3
      <4> QED
        BY <4>2, <4>3
    <3> QED
      BY <1>4, <2>b, <3>2, <3>3, <3>7 DEF q
  <2>5. ASSUME NEW r \in Readers, ReaderHandles(r)
        PROVE  rxq'[k] = rxq[k] \/ (Accepted(buf[r]) /\ buf[r].channel = k)
    BY <2>5, <2>a DEF ReaderHandles, handle_rx_packet, Push, queues, RxInv, RxTypeOK
  <2>6. ASSUME NEW l \in Channels, gsusb_channel_recv(l)
        PROVE  rxq'[k] = rxq[k] \/ (rxq[k] # <<>> /\ rxq'[k] = Tail(rxq[k]))
    BY <2>6, <2>a DEF gsusb_channel_recv, TakeFrame, RxInv, RxTypeOK
  <2>7. CASE \/ LifecycleStep \/ RxOpen \/ RxUnplug \/ BadPacket \/ UNCHANGED <<vars, rxvars>>
             \/ \E l \in Channels : BusFrame(l) \/ gsusb_channel_send(l)
             \/ \E r \in Readers : BulkIn(r) \/ BulkInNothing(r)
    BY <2>1, <2>7 DEF LifecycleStep, RxOpen, RxUnplug, BadPacket, BusFrame, gsusb_channel_send,
                      BulkIn, BulkInNothing, rxvars, queues
  <2>8. CASE RxClose
    BY <2>2, <2>8, <2>a DEF RxClose
  <2> QED
    BY <2>1, <2>2, <2>3, <2>4, <2>5, <2>6, <2>7, <2>8 DEF RxNext
<1> QED
  BY <1>2, <1>3, <1>4 DEF StampsExpected

(* The invariant of applications that do not overlap their calls. *)
LEMMA RxSerialInvariant ==
  ASSUME Serialised
  PROVE  RxSpec => [](RxInv /\ OrderInv /\ StampsExpected)
<1>1. RxInit => OrderInv /\ StampsExpected
  <2> SUFFICES ASSUME RxInit PROVE OrderInv /\ StampsExpected
    OBVIOUS
  <2> USE RxAssumption DEF RxInit
  <2>1. StampsExpected
    <3>1. started = {} /\ pipe = <<>> /\ DOMAIN pipe = {}
      BY DEF Init
    <3>2. \A k \in Channels : rxq[k] = <<>> /\ DOMAIN rxq[k] = {}
      OBVIOUS
    <3>3. \A r \in Readers, k \in Channels : buf[r] \notin Mine(k)
      BY DEF Mine
    <3> QED
      BY <3>1, <3>2, <3>3, DeviceAssumption DEF StampsExpected
  <2>2. ASSUME NEW k \in Channels
        PROVE  InOrder(k)
    <3>1. Queued(k) = {} /\ Held(k) = {} /\ Piped(k) = {}
      BY DEF Queued, Held, Fetched, Piped, Mine
    <3>2. QueueSorted(k) /\ PipeSorted(k)
      BY DEF QueueSorted, PipeSorted
    <3>3. newest[k] <= seq[k]
      OBVIOUS
    <3> QED
      BY <3>1, <3>2, <3>3 DEF InOrder, Below
  <2> QED
    BY <2>1, <2>2 DEF OrderInv
<1>2. /\ CountInv /\ SerialInv /\ RxInv /\ RxInv' /\ OrderInv /\ StampsExpected
      /\ [RxNext]_<<vars, rxvars>>
      => OrderInv' /\ StampsExpected'
  BY OrderStep, StampsExpectedStep DEF CountInv, SerialInv, OrderInv
<1>3. Spec => [](CountInv /\ SerialInv /\ ModeInv)
  BY SerialInvariant
<1> QED
  BY <1>1, <1>2, <1>3, RxInvariant, ReceivePathIsDevice, PTL DEF RxSpec

(* What recv() will return on a channel are frames of that channel, in the  *)
(* order of its bus and after all it returned before, over any number of    *)
(* stops, starts, closes and opens.                                         *)
THEOREM FramesInBusOrder == Serialised => (RxSpec => []QueuesInBusOrder)
<1> SUFFICES ASSUME Serialised PROVE RxSpec => []QueuesInBusOrder
  OBVIOUS
<1>1. RxInv /\ OrderInv => QueuesInBusOrder
  <2> SUFFICES ASSUME RxInv, OrderInv, NEW k \in Channels
               PROVE  /\ \A i \in DOMAIN rxq[k] :
                           /\ rxq[k][i].kind = "frame" /\ rxq[k][i].channel = k
                           /\ rxq[k][i].seq > newest[k]
                      /\ \A i, j \in DOMAIN rxq[k] : i < j => rxq[k][i].seq < rxq[k][j].seq
    BY DEF QueuesInBusOrder
  <2>1. InOrder(k)
    BY DEF OrderInv
  <2>2. QueueSorted(k)
    BY <2>1 DEF InOrder
  <2>3. ASSUME NEW i \in DOMAIN rxq[k]
        PROVE  rxq[k][i].kind = "frame" /\ rxq[k][i].seq > newest[k]
    <3>1. rxq[k][i] \in Frames /\ newest[k] \in Nat /\ seq[k] \in Nat
      BY DEF RxInv, RxTypeOK
    <3>2. rxq[k][i].seq \in (newest[k] + 1)..seq[k]
      BY <2>1 DEF InOrder, Queued
    <3> QED
      BY <3>1, <3>2 DEF Frames
  <2> QED
    BY <2>2, <2>3 DEF QueueSorted
<1> QED
  BY <1>1, RxSerialInvariant, PTL

(* A frame that came off the bus after gsusb_channel_start() had returned   *)
(* carries its hardware time stamp, on every channel that has them.         *)
THEOREM StampedFromStart == Serialised => (RxSpec => []StampedOnceStarted)
<1> SUFFICES ASSUME Serialised PROVE RxSpec => []StampedOnceStarted
  OBVIOUS
<1>1. StampsExpected => StampedOnceStarted
  BY DEF StampsExpected, StampedOnceStarted
<1> QED
  BY <1>1, RxSerialInvariant, PTL
===============================================================================
