# A TLA+ model of gs_usb_user

`gs_usb_user` is a user-space driver for gs_usb-compatible USB-CAN adapters: a C library over
libusb (`driver/src/gsusb.c`, `driver/src/bittiming.c`), a Python and a Lua SDK on top of it, and
a few command-line tools.  This directory holds TLA+ specifications of its stateful parts,
TLC configurations that check them on small instances, and TLAPS proofs of the most important
results for every instance.  `PROJECT.json` links every definition to the lines it models, lists
the runs, the mutants that show each property can fail, the theorems, and the hazards the
properties are for.

Paths below are relative to the repository (`src/` in `PROJECT.json`).

## 1. Inventory

| Component | State | Operations | Where |
|---|---|---|---|
| Receive queue of a channel | `q_buf`, `q_head`, `q_len`, `q_drops`, `q_lock`, `q_cond` | `rxq_init`, `rxq_push`, `gsusb_channel_recv` | gsusb.c 219-257, 847-884 |
| Device lifecycle | `started`, `hw_ts_enabled` per channel; `start_lock`, `active_channels`, `reader_running`, `stop_flag`, `reader_thread` | `gsusb_channel_start`, `gsusb_channel_stop`, `gsusb_close` | gsusb.c 557-588, 677-762 |
| Reader thread | its place in the loop, the receive buffer | `reader_thread_fn`, `handle_rx_packet` | gsusb.c 259-349 |
| Opening a device | what `gsusb_open` has acquired | `gsusb_open`, `gsusb_close` | gsusb.c 353-588 |
| Frame format | none; `hf_size_rx` per device | `gsusb_channel_send`, `handle_rx_packet`, DLC tables | gsusb.c 156-182, 259-317, 803-845 |
| Bit-timing calculator | the loop's best so far | `gsusb_calc_bittiming` | bittiming.c |
| Control requests | none in the library | `gsusb_channel_set_*`, `get_state`, termination, identify | gsusb.c 590-675, 763-802 |
| Python `Bus` | `_started`, `_stop_event`, `_listener_thread`, `_recv_queue`, `_detectors` | `open`, `start`, `stop`, `close`, listener thread, `recv`, detectors | sdk/python/gsusb/bus.py |
| Python frames, detectors, python-can adapter | none | conversions, matching | frame.py, detectors.py, python_can.py |
| Lua `Bus` | `_ctx`, `_dev`, `_ch`, `_detectors` | `open`, `close`, `poll`, `sleep`, detectors | sdk/lua/gsusb/bus.lua |
| Lua binding | the pointers inside ctx, dev and channel userdata | methods, `__gc` | sdk/lua/gsusb/lua_gsusb.c |
| Command-line tools | `g_stop`, counters; and what they leave on the adapter | `gsusb_info`, `gsusb_dump`, `gsusb_send`, `gsusb_react` | driver/tools |
| Examples, build, deployment | none that outlives a call | | sdk/*/examples, Makefile, udev, deploy |

How they interact:

- Application threads call the library.  `start` spawns the one reader thread of a device with its
  first started channel; `stop` of the last one raises `stop_flag`, and joins the thread.  They
  share `active_channels`, `reader_running` and `stop_flag` under `start_lock`; `start` holds that
  lock across a USB request, `stop` does not.
- The reader thread empties the one bulk-IN pipe all channels share and pushes every received
  frame on the queue of its channel; any number of threads take frames from it in
  `gsusb_channel_recv`, waiting on a condition variable with a deadline.
- The Python `Bus` adds a thread that is meant to be the only caller of `gsusb_channel_recv`; it
  copies frames into a second bounded queue and calls the detectors.
- The Lua `Bus` has no thread: `poll` calls `recv` and then the detectors, which may change the
  bus under it.
- A tool is one thread that uses one channel; two of them meet only in the adapter, which keeps a
  channel live when the process that started it is gone.

What is hard, and tested by nothing in the repository (it has no tests of these): consumers that
steal a woken consumer's frame; queues that wrap and overflow while read; starts and stops that
overlap; requests that fail after they took effect; a reader thread that dies alone; unplugging;
sessions that inherit live channels; tools that are interrupted, killed or fail half-way; clean-up
in the middle of `gsusb_open`; boundaries of the FD length tables; a `stop()` that gives up waiting
for its thread.  `hazards` in `PROJECT.json` lists them line by line.

What makes each component correct:

- Queue: holds exactly the newest frames in order; every frame is queued, delivered or counted; no
  consumer sleeps beside a frame nobody was woken for, unless a call that timed out took the signal;
  `recv` returns.
- Lifecycle: one reader thread, there exactly while channels are started; library and device agree
  on which channels are live; no call deadlocks with the reader.
- Receive path: a channel's queue gets that channel's frames only, in bus order, none lost silently.
- Open and close: what is acquired is given back exactly once and in a safe order.
- Frames: encoding, loopback and decoding return the frame; nothing is read beyond the transfer;
  the one receive buffer fits all channels.
- Bit timing: the answer is the best one of what is searched; "no solution" is true.
- Python `Bus`: one consumer; every frame read is returned in order, or counted as taken out, and that
  only when the queue was full; each detector called once per frame.
- Lua `Bus`: `sleep` lasts as long as asked; no more detectors miss a
  frame than were taken out while it was dispatched.
- Lua binding: a channel the script can use has its device, a device its context; all is given back.
- Frame conversions: what one interface sends looks the same to all, or is refused.
- Tools: a tool that started its channel leaves it stopped; frames go out in order, and none after an
  error; each key frame is answered once; an interrupted tool ends.

## 2. Modules

| Module | Models | Built on |
|---|---|---|
| `DropOldest` | what a drop-oldest queue of capacity `Cap` does with a frame | |
| `RxQueue` | **abstract** FIFO a channel's queue promises to be | `DropOldest` |
| `RxRing` | ring buffer, push and `gsusb_channel_recv` in the detail of the code | refines `RxQueue` |
| `GsusbDevice` | start, stop, close, reopening, reader thread, device modes | |
| `GsusbRx` | lifecycle with the shared pipe, `handle_rx_packet` and the queues | extends `GsusbDevice`, `DropOldest` |
| `GsusbOpen` | `gsusb_open`/`gsusb_close` as acquisition and release | |
| `LuaBinding` | the userdata that own what `gsusb_open` returned, and the garbage collector | extends `GsusbOpen` |
| `HostFrame` | encoding, loopback, decoding, buffer size | |
| `SdkFrame` | `Frame`, `can.Message`, Lua tables and the tools' text to `gsusb_frame` and back | extends `HostFrame` |
| `BitTiming` | the search for bit-timing registers | |
| `BitRates` | `configure()`: the search for each phase, and the requests; `configure_raw()` | extends `BitTiming` |
| `PythonBus` | `Bus` of the Python SDK | `DropOldest` for both queues |
| `LuaBus` | `Bus` of the Lua SDK | |
| `CanTools` | the four tools, run one after another on adapters that keep what was left on them | `DropOldest` for the receive queue |
| `MC*` | values and symmetry for TLC | |
| `*Proofs` | theorems about the module they are named for | that module |

The layers meet in abstractions that are checked: `RxRing` implements `RxQueue`, whose `Enqueue` is
the one `GsusbRx`, `PythonBus` and `CanTools` use for a channel's queue; `GsusbRx` is `GsusbDevice`
with frames, so every lifecycle step is taken among packets; `LuaBinding`, `SdkFrame` and `BitRates`
take the steps of the module they extend unchanged, call by call, and are what TLC checks both with.
A proof module likewise `EXTENDS` the composed module and has the theorems of both: `GsusbRxProofs`
those of `GsusbDevice`, `LuaBindingProofs` those of `GsusbOpen`, `BitTimingProofs` those of
`BitRates`, `HostFrameProofs` those of `SdkFrame`.

### RxRing

A frame is its arrival number, so order and loss can be stated.  A step is one critical section of
`q_lock`: a push with its signal; a `recv` from taking the lock to returning or waiting; a wait that
ends by signal, deadline or spuriously; taking the lock again.  `started` is read under `q_lock` but
written without it, so `SetStarted` may change it at any time.  The deadline is absolute, as in the
code: `DeadlinePasses` makes it pass once and for all.  `pthread_cond_signal` goes to any one waiter,
and POSIX lets that be one whose wait is just timing out (`WaitTimesOut` to `RecvTimeout`).  Such a
call returns 0 once it has the lock, without looking at `q_len`, and the signal is gone: `wasted`
counts these.

### GsusbDevice

Every caller has a program counter over the points of a call where others can see or change
something: `start_lock`, the USB request, `pthread_create`, `pthread_join`.  `start` holds
`start_lock` from its check to its end (`StartCall` to `StartCreate`); `stop` gives it up before the
RESET request and the join.  A request may fail, and have reached the device all the same
(`ModeFails`); `pthread_create` may fail; the reader may end by itself (`ReaderAlloc`,
`ReaderTransfer`) without clearing `reader_running`; the device may be unplugged; a later `Open`
finds whatever is live on the device.  `dev_on` is the device's own view, and `faulted` the history of
the channels whose last request failed.  Thread ids are used again, and a second join of one returns
at once.

`Serialised` says whether the application overlaps two of these calls on one device.  The tools
and both SDKs do not; `gsusb.h` does not forbid it.  In either case no call overlaps
`gsusb_close`, which frees the object.

### GsusbRx

Packets are records of what `handle_rx_packet` looks at: frames of a channel, echoes, packets too
short for their header or their DLC, an unknown channel, with or without the time stamp.  Packets
are sent by live channels (`dev_on`), so a stopped or not yet started channel may have frames in the
pipe.  `fresh` marks frames that came when the library had finished starting their channel.

### GsusbOpen

`held` is what has been acquired, `cleanup` what the failing step leaves to the `err_` labels, which
are steps of their own.  A failing `bt_const` or `bt_const_ext` request gives back the queues of the
channels set up so far, as a failing `rxq_init` does.

### LuaBinding

There is one adapter, so at most one `gsusb_open` succeeds at a time; the userdata around it may be
several, some of them garbage.  `script` is what the script can still reach directly, and `Kept`
what the collector must keep for it: a channel's environment table refers to its device.  `Collect`
finds everything else at once; the `__gc` calls (`Finalize`) come one by one, with the script
running in between, and `LuaClose` is `lua_close`.  `born` is the order in which the userdata were
made and `dying` those that were found, or at `lua_close` all there are (`Doomed`): the youngest of
them is finalized next, as Lua 5.1 does.  What the script may break itself
is remembered in `misused`: `dev:close()` with a channel of the device still referenced (the
channel's pointer is not cleared), and losing or closing the context of an open device (a device
does not refer to its context).  `bus.lua` does neither.

Channel methods are `l_ch_call`: they test a pointer that nothing ever clears, so a call on a
channel whose device is closed uses freed memory, which `dangled` remembers.  `lost` remembers a
device that `gsusb_open` returned and for which `lua_newuserdata` found no memory: no userdata will
close it.  `ChannelsUsable` says that only misuse leads to the first, `GivenBack` that the second is
all that is never given back.

### HostFrame

A payload is the number of its bytes that are the sender's; the rest are zeros.  `packet` is either
the encoded frame, looped back by the device in the size the device uses, or any header with any
transferred length, for the decoder's bounds.  Features are chosen per channel, so the receive
buffer's size, computed over all channels, is exercised.

### SdkFrame

The fields an application sees, and `can_id` with its identifier, EFF and ERR parts (`HostFrame` has
RTR apart, which it tests).  A mask keeps an identifier modulo the number of identifiers of its
kind, `Sff` or `Eff`.  A text of the tools is the fields it has and the number of digits of its
identifier, from which `parse_frame` tells the kind.  `Frame`'s constructors and Lua mask when a
frame is made.  python-can's adapter or-s the flags to an identifier that it neither masks nor checks:
bits above the 29 land in the place of ERR, RTR or EFF, or are cut off by the `c_uint32`
(`AsCanId`).  `EndToEnd` takes a `can.Message` for the `can_id` that this makes: no interface shows
it otherwise than the others.  All mask when a frame is shown.  The interfaces differ in what they refuse, which
`SendBy` has as a parameter.

### BitTiming

One step is one prescaler.  Bitrate and sample-point errors are fractions compared by cross
multiplication where the code compares doubles with 1e-12 of slack.  Ties of the sample-point error
may therefore be decided otherwise than by the code's rounding; all properties say "none is better",
which either side of a tie satisfies.

### BitRates

`configure()` is the search of `BitTiming` run for the nominal phase, its request, and for CAN FD
the same for the data phase under `DataConst`.  `phase` says where it is or how it ended; a request
may fail although the device took the registers (`SendFails`), so `device` may have one phase and not
the other when `configure()` raises.  `configure_raw()` sends the
registers it is given (`Given`), legal or not; `raw` remembers which phase has them now.

### PythonBus

One application thread opens, starts, stops and closes; `recv` and changes of detectors happen at
any time.  A step of a listener is one call others can notice.  `Prompt` says that detectors return
within the two seconds `stop` waits.  `listener_thread = NotRunning` is the Thread object whose
`start()` failed, which cannot be joined.  A detector may return, raise an `Exception`, which the
listener catches (bus.py:287), or raise what it does not catch, as `SystemExit`: that ends the thread
and leaves the bus started (`DetectorExits`; `exited` remembers it of the last `start`).  Making room
is three calls of the queue, between which `recv` may run: `full_at` remembers how many frames `recv`
had taken when the first `put_nowait` found the queue full, which `DropsFromFull` needs.

### LuaBus

Time is counted in ticks and passes in `recv` only; `os.time` counts whole seconds.  What
interleaves is a detector's own doing: it may add and remove detectors, close the bus, or raise.
`poll` walks the list itself, so what is removed at or before the detector that runs moves another
behind `ipairs`; `moved` counts these.

### CanTools

A step is one call of a tool's `main()`, and the tools are sequences of these calls, so that what an
error return skips can be seen.  `gsusb_tool_open` tries known ids in order, and the adapter it
finds may be another one than last time.  `Die` (a signal without a handler, or SIGKILL) may happen
at any step; `gsusb_info` and `gsusb_send` have no handler.  `left` is the history of adapters on
which a tool died or a request failed; a later start and stop there ends it.  A channel found live
stays so under a tool that does not get as far as starting it, `gsusb_info` for one.  The adapter has a
transmit queue, which `gsusb_channel_stop` empties: `gsusb_send` resets the channel right after its
last transfer (gsusb_send.c:244), and `SendsInOrder` says what is certain all the same.  An
unplugged adapter is silence to `gsusb_channel_recv`.

## 3. Runs

| Run | Question | Bounds and why they are enough |
|---|---|---|
| `rx_ring` | Is the ring a drop-oldest FIFO under concurrent consumers, are wake-ups lost to time-outs only, and does every `recv` return? | `Cap` 2, 3 frames, 3 consumers: the indices wrap, the queue overflows, and one consumer can sleep while a second is woken and a third steals.  The safety part is proved for all values. |
| `device` | Do calls that do not overlap share the reader thread, agree with the device, and return? | 2 channels that differ in features, 2 callers, 2 thread ids (one more than can be needed), every failure at every step |
| `race_reader` | *violation:* does a started channel always have its reader when calls do overlap? | as `device` |
| `rx_path` | Do frames reach the right queue in the order of the bus, none lost and each one stamped, through starts, stops, deaths and reopenings? | 2 channels of different features, queues of 2 and 3 frames in all, so that a full queue drops its oldest, a pipe of 1 packet beside the one in the reader's buffer; what a longer pipe does is proved (`FramesInBusOrder`).  States are told apart by `RxView`, all but `faulted` and, after a loss, the counts of frames, on which no guard and no property depends. |
| `bit_timing` | Is the answer the best of the search, and "no solution" true; does `configure()` give each phase its own? | the clocks and limits of the family's devices, every bitrate, tight or invalid limits; a data phase with wide, tight or no limits of its own; one `configure_raw()` of either phase |
| `host_frame` | Does a frame survive the round trip, from any interface to any other, and does nothing read past the transfer? | 2 channels with any features, lengths around the FD lengths, headers at every boundary, 2 standard and 4 extended identifiers, one beyond both, and ones with a bit in the place of ERR, RTR or EFF or beyond; texts of 3, 4, 8 and 9 digits |
| `lua_binding` | Is everything given back once and in order, wherever `gsusb_open` fails, and whatever a Lua script drops, closes or leaves to the collector? | devices of 0 to 2 channels, 2 userdata of each type, so that one is garbage while the next is in use |
| `python_bus` | One consumer, every frame accounted for and in order, one given up only to make room in a full queue, each detector called once? | 2 listener identities, 2 detectors, queues of 2, 3 frames; detectors are prompt |
| `python_bus_slow` | Do `start`, `stop` and `close` return when a detector never does? | queues of 1, 1 detector |
| `python_bus_consumer` | *violation:* is the listener the only consumer when a detector is slow? | as `python_bus` |
| `lua_bus` | Does `sleep` last as long as asked on a busy bus; are all detectors called, but for one per removal? | 3 ticks a second, polls of 2, sleeps of 0 to 2 s from any phase, 4 frames; 3 detectors, at most 2 taken out behind `ipairs` in a dispatch |
| `can_tools` | Does a tool leave the adapter quiet, send in order, answer each key frame once, and end, whatever happens to it and to the tools before it? | 2 adapters of different kinds and 3 known ids, 2 frames twice, a queue of 2, 3 key frames, so that one is dropped while another waits |

Deadlock is checked except in `bit_timing` and `host_frame`, whose functions return and are not
called again, and in `lua_binding`, where `lua_close` is the end.

Every property of a passing run has a mutant: the definition of an operation changed as a plausible bug would
(`PushSignalsOnEmpty`, `StopJoinSkipped`, `FreeAllChannels`, ...), kept beside the original in the
module, with which TLC finds the property violated under the run's own configuration.

### What the violations show

- `race_reader` (gsusb.c:717): `stop` of the last channel raises `stop_flag` under `start_lock` and
  clears `reader_running` only after the join.  A `start` in between sees `reader_running` still set,
  creates no thread and returns 0: that channel has no reader.
- `python_bus_consumer` (bus.py:239): a listener that `stop()` stopped waiting for goes on when the
  next `start()` clears the event they share.

Other behaviours and disagreements that the models have and no run reports.  For the first three
the modules keep a formula that TLC refutes, and that takes the place of the property of a run:

- `StopEndsReader` (gsusb.c:746-757; a PROPERTY in `MCGsusbRace.cfg`, without its SYMMETRY): after a
  start as in `race_reader` the `stop` of that channel is that of the last one, too.  Both calls join
  the one `reader_thread`, which POSIX leaves undefined; in the model the second join returns at
  once, and its `stop` before the thread has ended.  gsusb.h:170 says that it stops the thread.
- `StartedIsLive` (gsusb.c:747-752; an INVARIANT in `MCGsusbRace.cfg`): `stop` gives up `start_lock`
  before it sends RESET.  A `start` of the channel in between sends its START first and returns 0;
  the RESET then takes the channel off the bus for good.  Where calls do not overlap it is part of
  `DeviceAgrees`.
- `SleepersAreWoken` (gsusb.c:871-875; an INVARIANT in `MCRxRing.cfg`): a consumer that times out
  takes the one signal of a push with it and returns 0; another sleeps beside the frame until the
  next push or its own deadline.  It needs two threads in `recv` on a channel: `SoleConsumerIsWoken`
  proves that one alone, as in both SDKs and the tools, never sleeps so.  `NoLostWakeup` says how far
  it can go.
- python_can.py:16-18 calls the adapter "exactly the translation" between identifier with booleans and
  `can_id`.  An `arbitration_id` of 2^29 or more, which python-can does not check unless asked to, is
  neither masked nor refused (python_can.py:95-101, frame.py:117) and goes out as a frame with other
  flags; `EndToEnd` says only that everyone sees it as that frame.
- A `recv` between the listener's `queue.Full` and its `get_nowait` (bus.py:270-273) has made room
  already, and the listener gives up one more frame all the same.  The C ring, whose policy bus.py:268
  names, decides and drops under one lock.  `DropsFromFull` says that this is all: the queue was full
  when the listener found it so.
- bus.lua:156 says that `poll` dispatches to every registered detector.  One that is removed during
  the dispatch, as by itself, makes `ipairs` skip the next (bus.lua:150, 169).  `AllCalled` says that
  it costs no more than one call per removal.
- Frames that arrive between the START request and the assignment of `hw_ts_enabled`
  (gsusb.c:707-713) are queued without their time stamp if a reader is already running, which is why
  `StampedOnceStarted` speaks of `fresh` frames.
- bittiming.h:14-16 promises the smallest bitrate error of all combinations; the search tries only the
  nearest number of quanta per prescaler (bittiming.c:47), and the nearest in quanta is not always the
  nearest in bitrate: at 8 MHz, 485 kbit/s gets 16 quanta where 17 are closer.
  `BestOfAll` speaks of what is searched.
- `gsusb_channel_recv` never reports a reader that died or an adapter that is gone, although gsusb.h
  (184-187) and gsusb_react.c:116 expect a negative result; `ToolsEnd` therefore has to rely on
  `g_stop`.
- lua_gsusb.c:260-263 says that a channel's device cannot be closed from under it; `dev:close()` does
  just that, and the message of `check_channel` (lua_gsusb.c:288) is never raised.
- `gsusb_react --key-id` compares with the whole `can_id`, so an extended identifier must be given
  with the EFF flag.
- The `--fd` example in the help of `gsusb_send` (gsusb_send.c:158) is one that its `parse_frame`
  refuses.

### Fairness

`CallsReturn` of `GsusbDevice` assumes weak fairness of each call in progress and of each reader's
steps: threads that can run do, and every USB transfer has a time-out (gsusb.c 96-105, 333), so no
step blocks for ever; nobody is obliged to make a call.  `RecvReturns` assumes weak fairness of each
consumer's own steps and that an armed deadline passes.  It assumes nothing of pushes, wake-ups or
stops.  `CallsReturn` of `PythonBus` assumes weak fairness of the application's steps in `start` and
`stop` (the join has a time-out) and nothing of a detector.  `ToolsEnd` assumes weak fairness of the
tool's own steps, each a library call with a time-out.  Fairness is a conjunct of `FairSpec` only;
the safety results and all theorems are about `Spec`.

## 4. Proofs

All theorems are for every value of the constants, under the modules' named assumptions:

| Assumption | Says |
|---|---|
| `RxRingAssumption` | a queue holds at least one frame |
| `DeviceAssumption` | there are finitely many channels, the features are of channels, `NoOne` is nobody |
| `RxAssumption` | a queue and the pipe hold at least one packet, `NoOne` is no packet |
| `BitTimingAssumption`, `BitRatesAssumption` | numbers are numbers, `Unit` is at least 2, `Absent` is no limits |
| `HostFrameAssumption`, `SdkFrameAssumption` | bytes are bytes, there is a channel, and an extended identifier has at least as many values as a standard one |
| `OpenAssumption`, `LuaBindingAssumption` | a number of channels, and userdata of three types |
| `PythonBusAssumption`, `LuaBusAssumption` | queues hold a frame, `None` is no thread; a poll lasts at most a second |
| `CanToolsAssumption` | every adapter has a known id, and there is a frame to send |

Two groups of theorems have a hypothesis, a constant that says how the library is used:
`Serialised` (calls of one device do not overlap) and `Prompt` (detectors return before `stop` gives
up).  The runs check the properties with it.  Without it TLC refutes, on instances of the runs' size,
every theorem about the lifecycle that has it and every theorem about the Python `Bus`, two of them
in the violating runs; the order of frames and their time stamps rest on there being one reader,
which is among the refuted.

**RxRingProofs.** The inductive invariant is `RingInv`: the types, `NewestInOrder`, `Conservation`,
and that everything handed out is older than everything queued.  `NewestInOrder` alone is inductive
only with the bounds on `q_head` and `q_len`, since a push writes `(q_head + q_len) % Cap`.  From it
follow `RxRingTypeCorrect`, `RingIsNewestInOrder`, `NothingLostSilently`, `DeliveryInOrder` (an
action property) and the refinement `RingImplementsQueue`, whose steps are: a push that finds room,
a push that overwrites, a take, and stuttering.  `OnlyTimeoutsWasteWakeups` (`NoLostWakeup`) counts: a
push adds one frame and, if anyone sleeps, one woken consumer or one wasted signal; a consumer leaves
the set of the woken only by taking a frame, or by finding none.  So a frame that nobody was woken for
is there at the expense of a call that timed out, which is all that can be said with several
consumers; for one, `SoleConsumerIsWoken` says that it does not sleep beside a frame at all.

**GsusbRxProofs, the lifecycle.** `CountInv` (types, who holds `start_lock`, close runs alone, which
channel a call is about, the count) is inductive under every interleaving and gives
`DeviceTypeCorrect` and `ChannelsCounted`, the latter also for overlapping calls.  The others are
proved under `Serialised`: `SerialInv` adds that at most one call is in progress, that the only
reader is `reader_thread`, that it exits only if told to, and what holds at each step of a call
(`Phases`); it gives `ReaderIsShared`, `StartedHasReader` and `StoppedHasNoReader`, together
`ReaderIsAccounted`.  `ModeInv` relates `dev_on` to `started` at each step of a call, for each channel
that is not in `faulted`, and gives `StartedChannelLive` and `DeviceModesAgree`, together
`LibraryAndDeviceAgree`: a failed request excuses its own channel, until the next one for it.  `JoinedReaderCanEnd`
is the safety half of `CallsReturn`: a thread that a call is joining was not joined by another, has
been told to exit, and finds `start_lock` free.  TLC finds that, too, false of overlapping calls.

**GsusbRxProofs, the receive path.** `ReceivePathIsDevice` is the refinement `RxSpec => Spec`: every
step with frames is a step of the lifecycle or a stutter, so all of the above holds of it.  (The
proof failed first at a packet that was transferred before the adapter was unplugged and is handled
after: `ReaderTransfer` of the lifecycle let an unplugged device only end the thread.  It now lets
the thread go on as well, as the code does.)  `NoFrameGoesMissing`
holds under every interleaving.  Its invariant `RxInv` says that only a thread in the loop holds a
packet, that packets have the time stamps of their channel's features, that before a first loss a
closed device has no reader, and `Conserved`: what a channel took is in the pipe, in a reader's
buffer, queued, taken or dropped.  Conservation is arithmetic on the number of elements of a
sequence in a set, which `CountAppend` and `CountTail` are about.  `FramesInBusOrder` needs one
reader, hence `SerialInv`: `InOrder` orders the places a frame passes, each sorted in itself and
all below the next, down to `newest`.  `StampedFromStart` needs to know that a fresh packet was
sent while `hw_ts_enabled` was right for its channel (`StampsExpected`).

**BitTimingProofs.** The invariant has a part per loop variable: what is in `best` is legal and the
closest split of its quanta, and better than or equal to everything before `brp`.  Its core is
`SplitOptimal`: clamping `tseg1` first into its own limits and then into those of `tseg2` yields the
legal split closest to the wanted one.  `FractionOrder` and `BetterOrder` say that the comparison is
transitive, so that one best suffices.  `AnswerIsBest` and `NoSolutionIsTrue` follow.  `ConfigInv`
carries this through `configure()`: which limits and which bitrate the search in progress has
(`Setting`), that a search begins afresh for the data phase (so `EveryCallAnswers`), and what the
device has of each phase, also when a search or a request between or after them failed
(`PhasesConfigured`, the theorem `ConfiguredAsAsked`); `TimingFits` and `TakenAsAsked` are why what the
device took is what the phase asked for.

**HostFrameProofs.** The invariant carries, from encoding to decoding, how long the packet is and
what its header says; `LoopbackReturnsFrame`, `ReadsInsidePacket` and `BufferHoldsFrame` follow from
the length tables (a finite case analysis) and from `hf_size_rx` being at least every channel's
size.  `InterfacesUseDriver` is the refinement `SdkSpec => Spec`: every interface hands
`gsusb_channel_send` a `gsusb_frame` as C could, which needs the identifiers to be in range after
the masks (`MaskedIsId`), or, of a `can.Message` with any identifier, after its upper bits became
flags.  `InterfacesAgree` (`EndToEnd`) adds `AsSent`: until it is received, the frame is the
conversion of what the application sent.  Of a `can.Message` with any
identifier that is the frame of its `can_id` (`CanIdFields`), 29 bits and flags.

**LuaBindingProofs.** `OpenInv` says, for every call of `gsusb_open`, what has been acquired when it
is made, and of a clean-up in progress that it `Returns` all that is held, each once and before what
it lives in.  That gives `NothingIsLeaked` and `CleanUpIsSafe`.  `BindingUsesLibrary` is the
refinement that makes both hold under the binding.  `BindingInv` adds: at most one userdata has the
device, and it is there unless memory was short (`OwnerInv`); a script's channel has a device that
is not being collected (`ChannelInv`); and the context of an open device is older than the device
and is not found to be garbage without it (`ContextInv`).  The last is what `ContextLast` needs of
the collector, and why the order of finalizers matters: youngest first closes the device before the
context.  `ChannelsStayUsable`, `ContextIsLast` and `EverythingGivenBack` follow.

**PythonBusProofs.** Under `Prompt`.  `CallInv` says what `start`, `stop` and `close` rely on at each
step: no listener lives but `listener_thread`, and none when the bus is stopped, which gives
`ListenerIsSoleConsumer` and `OneListenerBetweenCalls`.  `QueueInv` counts the frames read:
each was returned, is queued or in the listener's hand, or was taken out of a queue and counted, whether
that was still full or not (`FramesAreAccounted`), and has what it found full when a put raised:
`RoomIsMadeWhenFull` (`DropsFromFull`) is an action property.  `OrderInv` orders the numbers of what recv() returned, what is queued, what the
listener has in hand and what is still in the channel (`FramesReceivedInOrder`, an action
property).  `DispatchInv` relates the copy of `_detectors` a dispatch goes through to who has been
called with the frame (`DetectorsCalledOnce`): each detector still registered has been called, is in
the copy, or was added too late.

**LuaBusProofs.** `CalledSoFar`: the registered detectors that `ipairs` has gone past without calling
them (`Missed`), and those that its index has run past the end of the list (`Beyond`), are together no
more than were removed at or before it (`moved`).  A removal raises one of the two by at most one, or
none if it was behind; one added while the index is past the end goes from the second to the first.
`EveryDetectorCalled` (`AllCalled`) needs it where the dispatch ends.
`SleepInv`: a poll of `sleep` begins only before the deadline, in ticks, so that after it `sleep` is
less than a poll late; with the rounding of both ends to seconds that gives `SleepsAreAsAsked`, for
any length of a second and of a poll.  Both are action properties.

**CanToolsProofs.** `ToolsLeaveQuiet` (a live channel is that of a running tool, or of one that was
killed or had a request fail on that adapter) needs to know where each tool can be (`Place`) and which call
comes after which (`AfterIs`, from the sequences of calls).  `SendKeepsOrder` rests on `SendInv`:
before a channel is started nothing has been sent; in round `r` exactly the frames of `r` rounds and
of the places before `i` have been handed over; what left the transmit queue went to the bus.
`PlaceInRound` is the arithmetic of it.  `KeysAreAnswered` (`KeyInv`) counts key frames: a received
one raises `keys` and the number queued, one that is dropped moves to `missed`, one that is taken to
`seen`, and `seen` exceeds what was answered or failed by one exactly during a reply.

The type invariants of `GsusbDevice`, `BitTiming` and `HostFrame` are proved too, and no longer checked
by a run.

Only model-checked: the liveness properties `RecvReturns`, both `CallsReturn` and `ToolsEnd`, whose
fairness the prover cannot expand.  Every other property of the passing runs is a theorem.

## 5. Not modelled

- Other control requests of a channel (`get_state`, termination, ...): one request each, and no state.
- A thread in `send` or `recv` while another closes the device: the API leaves that to the caller.
- A bulk-IN transfer that times out after part of a packet: the frame is lost, and transfers are whole
  in `GsusbRx`.  That reading the rest as a packet stays inside the transfer is `NoOverread`.
- The distance of a deadline and steps of `CLOCK_REALTIME`.
- Lua errors for lack of memory other than the one right after `gsusb_open`.
- The three detector classes: stateless predicates.
- Of the tools: option parsing, the delays of `--interval-ms`, and printed text other than frames.
- Examples, FFI declarations, build and deployment: no state of their own.

## 6. Plan

Done, in this order: `RxRing` (every frame passes it), `GsusbDevice` and `GsusbRx` (threads,
failures), `BitTiming`, `HostFrame`, `GsusbOpen`, `PythonBus`, `LuaBus`; proofs of the first two and
of the two algorithms; then what composes with them: `LuaBinding`, `SdkFrame`, `BitRates`; then
`CanTools` with its proofs, the tools' text in `SdkFrame`, channel methods and lack of memory in `LuaBinding`, and
`configure_raw` in `BitRates`.  Every component with state of its own is modelled.
Where a doc promises what overlapping calls, a second consumer, an odd identifier or a detector that
changes the bus can break, section 3 says so.

The proofs came in the same order: the ring, the lifecycle, the two algorithms and the tools; then
the receive path, the Python `Bus` and the Lua binding; then what one call or one frame promises when
calls are put together (`BitRates`, `SdkFrame`), the answers of `gsusb_react`, and the Lua `Bus`.
Every safety invariant and every action property of a passing run is now a theorem.

Next, most important first:

1. The queue of each channel in `GsusbRx`, between an open and a close, as an instance of `RxQueue`:
   frames have numbers of their bus there and of their arrival in `RxQueue`, so that the mapping has
   to number them again.
2. The channel of `PythonBus` as what `GsusbRx` provides, in the same way.
3. The safety halves of the other liveness results, as `JoinedReaderCanEnd` is that of `CallsReturn`:
   ENABLED itself stays with TLC.
