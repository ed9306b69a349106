# A TLA+ verification of gs_usb_x

The repository holds what a host needs to use N32 multi-channel CAN FD adapters
that speak the `gs_usb` protocol: a Linux SocketCAN driver (`kernel/`, one
source per kernel version), four user-space SDKs (`sdk/`: Python, C++, Rust, C#) that
share one adapter among several bus objects, the adapters' firmware as a binary and a
Windows tool as a binary.  These modules model the driver, the sessions of the Python
and the C++ SDK, and whole programs of the C++ SDK from loading libusb to their end; they are
checked with TLC, and what they say about safety is proved with TLAPS for every value of the constants:
36 properties of the runs, two refinements among them, are theorems, with the inductive invariants they
need; only liveness is checked on instances alone (section 5).

All references `gs_usb.c:n` are to `kernel/6.14/gs_usb.c`, `bus.py:n` to
`sdk/python-can-gsusb/src/gsusb/bus.py`, `gsusb.cpp:n` to `sdk/gsusb-cpp/src/gsusb.cpp`.

## 1. Inventory

### 1.1 SocketCAN driver

| Component | State | Operations |
|---|---|---|
| Transmit path of a channel | `tx_context[].echo_id`, `can.echo_skb[]`, `active_tx_urbs`, the stopped/started queue, anchored TX URBs | `gs_can_start_xmit`, `gs_usb_xmit_callback`, the echo branch of `gs_usb_receive_bulk_callback`, `gs_can_close`, `gs_can_open` |
| Device and channel life cycle | `struct gs_usb`: `active_channels`, `rx_submitted`, `canch[]`, the timestamp worker; per netdev present/up | `gs_usb_probe`, `gs_make_candev`, `gs_can_open`, `gs_can_close`, `gs_usb_receive_bulk_callback` (detach, lost URBs), `gs_usb_disconnect`, `gs_destroy_candev` |
| Hardware timestamps | `tc.cycle_last`, `tc.nsec`, `tc_lock`, the delayed work | `gs_usb_timestamp_init`, `gs_usb_timestamp_read`, `gs_usb_timestamp_work`, `gs_usb_set_timestamp`, `gs_usb_timestamp_stop` |
| Reception | `can.state`, the rx-offload queues, error and overflow frames | `gs_usb_receive_bulk_callback`, `gs_update_state` |
| Channel configuration | features, `bt_const`, `ctrlmode`, termination | `gs_make_candev`, `gs_usb_set_bittiming`, `gs_usb_set_data_bittiming`, `gs_usb_get_termination`, `gs_usb_set_termination`, `gs_usb_set_phys_id` |

How they meet: the network stack calls `start_xmit` for one frame at a time, while URB
completions run in softirq context on any CPU; the two share contexts, slots, counter and
queue flag, and only the search for a context and its look-up take `tx_ctx_lock`.  All channels
share the RX URBs and the worker: the first open starts both, the last close stops
both.  The worker drops `tc_lock` for its USB transfer, and the receive callback
uses the timecounter meanwhile.  Disconnect runs with URBs already dead, beside opens
and closes of channels not unregistered yet.

What makes it correct: no context leaks or is given to two frames; an echo completes
the skb it was sent with; the counter that stops the queue counts what it should;
a stopped queue is woken; nothing outlives `kfree(parent)`; a frame's time is right across
wraps of the counter; the sockets see every frame once and in order, `can.state` is the
controller's; the device is asked only what its firmware announced.

### 1.2 SDKs

All four SDKs have the same design: a *session* per adapter (one claimed USB
interface, one pair of bulk pipes, reference-counted), found through a process-wide
registry by selector, and *bus objects* that attach to the session for one logical
channel each, configure the channel by five control transfers, send, receive and shut down.

| Component | State | Operations |
|---|---|---|
| Python session and bus | `_SESSIONS` under `_SESSIONS_LOCK`; `refs`, `buses`, `running`, reader thread; a queue per bus object | `GsUsbBus.__init__`, `add_bus`, `configure_channel`, `send_frame`, `_reader_loop`, `_recv_internal`, `shutdown`, `remove_bus`, `close` |
| C++ session and bus | weak registry under a mutex, `refs_`, `closed_`, listeners; *no* reader thread: `recv` polls the pipe and delivers to all listeners | `acquire_session`, `add_bus`, `remove_bus`, `configure_channel`, `poll_once`, `recv`, `shutdown` |
| Rust session and bus | registry of `Arc`s, atomic `refs` and `running`, reader thread, listeners with queues | `acquire`, `create`, `release`, `configure_channel`, `reader_loop`, `send`, `recv`, `shutdown` |
| C# session and bus | static registry with counted references, reader thread, blocking queues | `Acquire`, `AddBus`, `ConfigureChannel`, `ReaderLoop`, `Recv`, `Shutdown`, `Release` |
| Device selection (each SDK) | none (functions) | selectors, enumeration, descriptors, capabilities |
| Bit timing (each SDK) | none (a function) | search of prescaler and segments for a bit rate and a sample point |
| Frame format (each SDK) | none (functions) | `send_frame`, `parse_frame`, DLC and length conversions |
| libusb binding (C++, C#) | the loaded DLL and its symbols | `ensure_loaded`, a wrapper per function |
| Example programs | options, bus objects, counters | fourteen mains per SDK on a common module |

How they meet: bus objects live on threads of the application, the reader on its own; they
share the registry lock, the session's lock around its listeners, the interface and
its two pipes.  Hard are creation racing the last shutdown, a constructor that fails half
way, a listener that leaves while a frame is delivered, joining the reader while holding a lock, a
second shutdown, and control transfers of several bus objects interleaving.

What makes it correct: a live bus object has a live session; the interface is claimed
exactly as long as somebody uses it; a bus object gets the frames of its channel, all of them,
in order; its channel runs with the configuration it asked for; shutdown returns.

### 1.3 What else there is

Set-up scripts and logging have no state worth a model.  Firmware and Windows tool are
binaries: what driver and SDKs rely on is modelled as environment, and marked external in
`PROJECT.json`.  The drivers for 6.8 and 5.15 are the same program: 6.8 differs from 6.14 in
one line of `gs_usb_get_ts_info`, 5.15 in shims for older kernels.  The modules are mapped to 6.14;
`GsUsbCan` also runs the shims.

## 2. Modules

| Module | What it is |
|---|---|
| `TxService` | abstract: what a CAN interface promises for the frames it is given |
| `GsUsbTx` | the driver's transmit path; implements `TxService` |
| `GsUsbChannels` | probe, open, close, disconnect, shared RX URBs and worker |
| `GsUsbTimestamp` | the wrapping counter, its worker and the conversion of stamps |
| `SharedSession` | abstract: what an SDK's session promises the bus objects of a process |
| `GsUsbCan` | one channel: features and quirks, open and close, reception, error frames, `can.state` |
| `PySession` | the Python session, its registry and reader threads; implements `SharedSession` |
| `CppSession` | the C++ session: weak registry, polling receivers, destructors, a thread per bus object; implements `SharedSession` until `overlap` |
| `CppAdapter` | operators: selectors, libusb's device list, interfaces, capabilities |
| `CppTiming` | operators: `calculate_timing`, and the set of all legal timings to compare it with |
| `CppFrame` | operators: DLC tables, `send_frame`'s and `parse_frame`'s host frames |
| `CppExamples` | the fourteen example programs: options, bus options, messages |
| `CppProgram` | a program of the C++ SDK from start to end, composed of the four above |
| `MC*` | instances for TLC |
| `GsUsbTxProofs`, `GsUsbTxServiceProofs` | proofs about `GsUsbTx`: its invariants; its counter and the refinement |
| `GsUsbChannelsProofs`, `GsUsbTimestampProofs`, `GsUsbCanProofs` | proofs about the rest of the driver |
| `PySessionProofs`, `CppSessionProofs`, `CppProgramProofs` | proofs about the SDKs |

`PROJECT.json` maps every definition to its lines.

### 2.1 `GsUsbTx`

Threads are program counters: `xmit` (`gs_can_start_xmit`) and `callback` (the echo branch of
`gs_usb_receive_bulk_callback`; the device's URBs for one endpoint complete one after another).  Each
access to something the other thread also uses is a step: taking a context (`AllocTxContext`, one step
because of `tx_ctx_lock`), `PutEchoSkb`, `IncActive`, `SubmitTxUrb` or `SubmitFails` (then `FreeEchoSkb`, which frees the skb in
the slot, `ClearEchoSkb`, which empties the slot, `GiveBackTxContext` and `EndFailedXmit`), `ReadActive`, `StopQueue`;
`ReceiveEcho` (looks the context up), `ReadEchoSkb`, `StampEchoSkb` (writes the time into that skb), `TakeEchoSkb` (reads the slot
again), `LoopBackEchoSkb` (empties it), `FreeTxContext` (a store without the lock), `DecActive`, `WakeQueue`.
A frame is the pair of its echo id and its skb; it travels from `out` (anchored
URB) to `device`, to `in` (the pipe to the host), or to `lost`: its TX URB failed, and the callback only logs, or its echo was in an
RX URB that failed (`LoseRxUrb`, gs_usb.c:586) or came while the channel was down or detached (`IgnoreEcho`).  `receiving` says that some RX URB is
still submitted; it may end with each that is lost, and for all by `Detach`.  `clash` is history: a stale echo was handled
while start_xmit gave up the same echo id.  `StampEchoSkb` is a step for devices without hardware timestamps too; it changes no state, so this only
adds places where the other thread may come in.
`CloseBegin` is the moment the stack stops calling the driver, `Close` is `gs_can_close`, after the
stack's `synchronize_net`.  `ResetForgets` says whether a device that is reset on close drops what it holds; the
driver ignores the result of that reset.  Frame contents, the header's fields and listen-only mode are left out, and that
`can_put_echo_skb` may fail for want of memory (gs_usb.c:825, which ignores it): the frame is then sent without an skb in its slot.

### 2.2 `GsUsbChannels`

Opens and closes run under the rtnl lock: an open is a sequence of steps (`OpenBegin`, `SubmitRxUrbs`,
`StartDevice`, or `UndoOpen` after a failure), a close one step.  The receive callback appears where it
changes the shared state: it fails to submit its URB again (`LoseRxUrb`) or detaches all
interfaces (`DetachAll`).  `Disconnect` is the USB core ending all URBs and calling the driver.
`MakeCandev` makes and registers a channel and sets its `parent` in one step.  `WorkerWhileOpen` is
checked for adapters whose channels all have hardware timestamps: `gs_can_open` asks only the first
channel to open whether it needs the worker (gs_usb.c:899-901), and with `TsChannels` a proper
subset of the channels the property is false.

### 2.3 `GsUsbTimestamp`

Time is a number of ticks; the device's counter shows it modulo `Wrap` (2^32).  The worker asks
(`Ask`, dropping the lock), the device answers or the transfer fails (the value then is 0), and
`Advance` is `timecounter_read`'s update.  `Stamp` and `Receive` are a frame's
two ends.  `Delay + Late < Wrap / 2` is the assumption under which the worker is in time:
in the code 1800 s of a wrap of 4294 s.  `start`, `failed`, `skew` are history for the properties.

### 2.4 `PySession`

A bus object is a thread with a pc; a session is named after the bus object that created it.
What runs under `_SESSIONS_LOCK` and cannot be watched is one step (`Join`, `CreateSession`);
the end of the last bus object is two (`RemoveBus`, then `CloseSession` once the reader has
ended), with `lock` held in between.  The reader tests `running`, reads, copies the listeners under `bus_lock`
(`Snapshot`) and serves them one by one without it (`Deliver`).  A transfer on an interface that was
given back may still work or fail.  `seen` and `since` are history for the properties.
`ShutdownOnce` says that the application shuts a bus object down once; the run `py_twice` is without it.
`close` joins the reader for at most a second and goes on (bus.py:483), so `CloseSession` does not ask whether the reader has ended, and `ReadFrame` may read
for a closed session.  A constructor that claims the interface and then raises (bus.py:456-463) leaves it claimed and unregistered:
`CreateSessionLeaks`, until pyusb collects the device object (`CollectDevice`, which nothing obliges to happen); meanwhile others fail to make a
session (`SessionFails`).  Left out: pyusb claims an interface again by itself when a transfer is made on a device whose claim was given up, as a late read
of a reader that was not joined is.

### 2.5 `CppSession`

`session[b]` is the shared pointer of a bus object; a session is gone when nobody holds one (`Holders`), and its
destructor closes it (`ReleaseSession`).  Finding a session (`AcquireSession`) and being counted (`AddBus`) are two steps,
as are `RemoveBus` (under `g_registry_lock`) and `CloseSession` (under no lock).  There is no reader: a thread in `recv` reads
a frame (`PollRead`), copies the listeners (`PollSnapshot`) and serves them one by one (`PollDeliver`), its own bus object among
them or not.  `NoSuchChannel` is the exception of `channels().at`, outside the try block; `CreateSessionLeaks`
an exception of the session's constructor after the claim.  `overlap` is history: it
records that a bus object was made while another was being shut down.  A transfer of a closed session (a null
handle in the code) fails; bus objects that were shut down stay allocated until no thread uses them, as in the examples.

### 2.6 `GsUsbCan`

A device is what its firmware announces: features, version, whether it is a CANtact Pro, whether it answers
`GET_TERMINATION`.  `MakeCandev` derives the driver's features from it (`Quirks`, `Dropped`,
`Supported`, `DataConst`).  An open is four steps (`OpenBegin` to `StartDevice`, which may fail), a close four
(`CloseBegin`, `KillRxUrbs`, `SetStopped`, `ResetAndDisable`); the callback's steps (`Enter`, `Handle`, `Overflow`, `Finish`) and
NAPI (`Poll`) run between any two of them.  `irqQueue` and `napiQueue` are rx-offload's two queues.  A frame has
a number, what kind it is, its error bits and the open it was sent in.  `env.others` says whether another channel keeps the
RX URBs alive through a close.  `misled` is history: an error frame was lost, or one of before a
reopen was handled.  `Configure` is `can_changelink`: it stores mode and timing before each transfer, and one that fails (for the devices of
`Refusing`, a bound) ends it with an error and takes nothing back (gs_usb.c:738).  `net.timed` and `net.fdTimed` are the timings the driver
remembers, which `open_candev` asks for (`Timed`), `fw.timed` and `fw.fdTimed` the ones that arrived.  User space's requests are asked while the channel is down (`Asks`), since their
answers depend on nothing that an open changes.

Facts the model shows: after a start that failed, the RX URBs stay, and frames of other channels go on to arrive
(`StoppedWhenClosed` therefore asks for `~net.urbs`); when no skb is left for an overflow notice, the callback skips
`can_rx_offload_irq_finish` (gs_usb.c:671) and the frame itself waits for the next callback, which
`NothingStranded` states as its exception; on 5.15 no hardware stamps are promised to user space although frames carry them.

### 2.7 `CppProgram`

One thread: `Start` parses the arguments, `EnsureLoaded` loads libusb, `List` enumerates, then one bus object after the
other is made (`NextBus`, and for the first of them `SessionInit`, `SessionScan`, `NoneFound`, `Claim`, `Query`; then `AddBus`,
`Configure`), `Send`, `RecvQueued`, `PollOnce` and `RecvNothing` follow the loops of the examples, and `ShutdownNext` and `Exit` end it.  `Throw`
is an exception: the bus objects made so far are destroyed in `unwind`.  `usb` counts what libusb has handed
out; `lost` is history: an exception left some of it to nobody.  `Transmit` is the adapter and its wiring in
pairs: sender and peer get a host frame each, in either order for the channels of `Swapping`.
`Calls` names the libusb functions of each step, and `Crash` is a step that calls one that was not found.
A scenario fixes the example, its arguments, the device list with its failures, and the DLLs.  `CppProgramAssumption` says
which scenarios there are: one of the examples, any arguments (a selector is nothing, `BUS:ADDR` or `BUS:ADDR:IF` in
numbers, or a serial number), any list of devices of at most eight channels that differ in bus or address, any DLLs, and no
program that opens a channel twice (`--tx-channel` and `--rx-channel` given as the same one; see 7).

`ParseCommonOptions` takes the last argument of each name, as the loop of the code does by assignment.  `Seen` is a device as it
answers: after it was unplugged it is still in the list, and cannot be opened.  `InPipe` says that the frames of a channel in the pipe,
which all channels share, are certain messages in their order.

`CppTiming` works in kHz and whole percents, so that scores are compared as integer fractions; `CppFrame` keeps of the data
who sent it and how many bytes are the sender's.

## 3. Runs

| Run | Question | Result |
|---|---|---|
| `tx` | Do contexts, slots and counter agree in every interleaving, with failing URBs, a vanishing device and a reopening; does the channel implement `TxService`; is every frame taken looped back or freed, but for the losses that 4 names? | holds |
| `tx_stale` | Can a stale echo, from a device that ignores the reset, make the driver settle an skb twice, or use a freed one? | no, unless start_xmit gives up the same echo id meanwhile |
| `tx_wake` | Is a queue that was stopped woken again? | **no**, see 6 |
| `channels` | Counter, worker, RX URBs and parent, in every order of opening, closing, failing and unplugging; does a disconnect end? | holds |
| `channels_limit` | At most `GS_MAX_RX_URBS` RX URBs? | **no**, see 6 |
| `timestamp` | Right times across wraps, and only whole wraps wrong after failures? | holds |
| `candev` | Four kinds of firmware, two kernels: does `can.state` follow the controller, do the sockets see every frame once and in order, is the device asked only what it announced, and started only with timings that arrived? | holds |
| `py_session` | Is every live bus object served, and the interface claimed exactly while used, or kept by a constructor that raised? | holds |
| `py_live` | Own channel configured as asked; frames in order, all delivered; shutdown returns, and the reader ends? | holds |
| `py_twice` | And if shutdown is called twice? | **no**, see 6 |
| `cpp_session` | Threads that poll for each other, constructors that throw, shutdowns in any order: frames, channels and interface? | holds |
| `cpp_program` | All examples, and some on every selector, device list, limit, DLL and failure: the right adapter and timings, frames as sent, a clean end? | holds |

Bounds, and why they are enough.

* `tx`, `tx_stale`: 2 contexts and 4 frames: a context is used again, all are taken at once (`TxBusy`,
  `StopQueue`), and there is another context to be confused with; the proofs are for any number.  One reopening meets what a close
  left behind.  `tx_wake` needs neither failures nor a close.
* `channels`: 3 channels, 2 RX URBs, 4 opens, 2 lost URBs: first, middle and last of an open or a close differ,
  an open can be repeated after each failure, and all URBs can be lost.
* `timestamp`: a counter of 8 ticks over 24 ticks wraps three times from every start value; delays and latencies are the largest
  the assumption admits (3 < 4), so that both directions of the conversion happen.
* `py_session`: three bus objects, two of them on one channel: one goes while one comes and one stays; one frame, on the shared channel, is enough for
  the reader to be anywhere.  The two that share a channel are interchangeable (`SYMMETRY`: the properties of this run are safety properties that
  name no bus object).  `py_live`: two bus objects, with two frames for the one, enough to be out of order, lost or twice, and one for the other.

* `candev`: `MaxFrames` is three for a plain device and less for those that differ only in configuration: data, echo and
  error frame in one batch; two opens, so that frames of the first meet the second; `QueueMax` 1, so that the
  queue overflows.
* `cpp_session`: two bus objects that work, so that each polls frames of the other, one that throws after
  `add_bus`; two frames on the one channel and one on the other; all orders of making and shutting down.
* `cpp_program`: every example on an adapter it suits, with one round of messages (`Counters` = {0, 1}, two rounds for one
  example of each kind of loop), `InFlight` 1: a sender that is too fast times out; `Swapping` {0}: one pair is enough for
  both orders of echo and frame.  One pair example meets 6 selectors, 12 device lists, with and without listing, retry and
  unplugging; eight bit rates and five data rates meet the limits of two kinds of channel; six payload lengths go
  through the DLC table.

Fairness.  `GsUsbTx`: a thread in the driver goes on (neither waits for anything), USB completes an
accepted transfer, the device wins arbitration sooner or later, a close that began is carried out, and
the USB core closes a device that vanished; sending, closing, and opening are not fair.  A frame whose TX URB
failed, or whose echo was lost with an RX URB (`lost`), keeps its slot until the interface is closed, which nobody has to do, and so do all if no RX URB is left
(`~receiving`): `EverySkbSettles` names both as its exceptions.
`ResetForgets` is needed too: otherwise a stale echo can release a context under a frame in use, and that frame may never settle.
`GsUsbChannels`: opens and probe go on; `DestroyCandev` is strongly
fair because the rtnl lock, which opens also take, is a fair mutex.
`PySession`: threads and readers run; taking `_SESSIONS_LOCK` and reading a frame that waits are strongly fair (reads may
time out, but not for ever while there is data).  A second passes, so a join goes on; collecting the device object of a constructor that raised is not.

Deadlock is not checked where the system may rest: a closed interface, a device that is gone, bus
objects all shut down; in `GsUsbTimestamp` the bound on time ends the model.

## 4. Properties worth knowing

`ContextOwned` is the central one: a context is in use if and only if exactly one frame, in exactly one
place (thread, pipe or device), has its echo id.  `EchoFindsItsSkb` ties that frame to the skb in its slot,
and `ActiveTxUrbsExact` ties both to the counter, corrected by the steps in between.  `SettledOnce` holds even for a
device that sends stale echoes, with one exception that `clash` records: the callback uses the slot of an echo id (gs_usb.c:657, 556, 558) without a lock, and start_xmit
may free the skb in that slot between two of its steps (gs_usb.c:833) if the stale echo has the id of a frame whose submission fails.
`GoodDeviceNotBlamed` says that this never happens with a device whose reset forgets.  `ImplementsTxService` says what the interface promises as a whole.
`RegistryMatchesClaim` says that whoever gets `_SESSIONS_LOCK` never meets a session that is
half gone; its exception is a constructor that raised and keeps the interface.  `ShutdownEnds` says that `shutdown` returns and that the reader of a closed
session ends, whether or not the join waited for it.  `AnnouncedOnly` ties the start of a device to the timings that arrived; its exception is a channel that is opened
although user space was told that configuring it failed.  `OpenedAsAsked` says of a search that found nothing, or threw, why: see 6.

`LiveBusIsServed` of `CppSession` holds only without `overlap`: `refs_` does not count a bus object that has its session
but has not called `add_bus`, and the last shutdown may close the session under it (gsusb.cpp:835-836, 943-945).
`InterfaceGivenBack` holds with it, and also after a constructor has thrown, thanks to the session's destructor;
the exception it states is a session whose own constructor throws after the claim (gsusb.cpp:526).
`NoFrameLostOrDoubled` does not say that frames stay in order: with two threads in `recv` they need not.  That none is lost holds without
`overlap` only: a bus object whose session was closed under it gets nothing of what the next session reads from the same pipe.  That none is doubled
holds always.

## 5. Proofs

Each theorem holds for every value of the constants that the named `ASSUME`s of the module allow; these say of what kind a
constant is (a finite set, a number of contexts greater than 0, at most eight channels of an adapter), and `TimesAssumption` of
`GsUsbTimestamp` that the worker is in time (2.3).  Bounds of the runs (`MaxFrames`, `MaxOpens`, `MaxNow`) are arbitrary in the
proofs.  Every invariant below that no run lists was checked on an instance of its module (with the constants of a run) before it was proved.
Few properties are inductive as they stand; what had to be added is what a reader should know of a component, and is named here.

### 5.1 Driver

`GsUsbTxProofs`: `TypeCorrect`; and assuming `ResetForgets`, `InductiveInvariant`, with `ContextsOwned`, `EchoesMatch`, `SlotsFree` and
`NoBlame`.  `ContextOwned` alone is not inductive: to know that a context that becomes free has an empty slot one
needs `EchoFindsItsSkb`, `FreeContextFreeSlot`, and `EmptySlots` (a context that start_xmit has
just taken, or whose skb the callback has just taken, has an empty slot).  Two lemmas carry the argument: `NothingMoves` (steps that
move no frame between places) and `Released` (a user gives its context back).
`ResetForgets` is needed: with a device that echoes old frames these properties are false.
`EverySkbSettledOnce` needs no `ResetForgets`: as long as no echo was handled while start_xmit gave up its id (`clash`), only one of the two threads works on a slot at a
time, and the callback finds there what it saw before (`Apart`).

`GsUsbTxServiceProofs`, on the same invariant: `CounterExact` turns `ActiveTxUrbsExact` into the cardinality of the set of busy contexts, which each
step changes by one or not at all; `ServiceKept` maps each step of `GsUsbTx` to a step of `TxService` or a stutter.

`GsUsbChannelsProofs`: `InductiveInvariant`, with `TypeCorrect`, `ActiveChannelsCounted` and `ReceptionKept`.  Besides these properties it holds who has the
rtnl lock (`LockHeld`), how far probe or disconnect has got (`Phases`), and that an open starts the device only after RX URBs were submitted or lost
(`UrbsFirst`).  `WorkerRuns` and `NothingOutlives` assume `ChannelsAlike` (all channels of an adapter have hardware timestamps or none has, as the firmware
announces it for its one kind of channel): only the first channel to open is asked (2.2).

`GsUsbTimestampProofs`: `TimeInvariant`, with `TypeCorrect` and `TimesAreExact`.  `Near` says that no two times the counter is asked to relate are half a wrap apart;
`Counted`, that the timecounter counts every tick while readings succeed; `WholeWraps`, that otherwise it is wrong by multiples of `Wrap` and the first skew.  The
lemmas before it are arithmetic modulo `Wrap`: `Same` (equal but for whole wraps) is a congruence, `Elapsed` and its kin say what the masked subtraction of
two counter values is.

`GsUsbCanProofs`:

* `FramesInvariant`, with `TypeCorrect`, `FramesOrdered` and `NothingIsStranded`.  Order and completeness are inductive only together with the frames' numbers
  (`Numbered`: the pipe is younger than what the callback handles, which is younger than what it queued) and stamps
  (`Stamped`): rx-offload's insertion by timestamp is an append because of them.
* `ConfigInvariant`, with `NothingUnannounced`: what the driver knows of the device is a function of what it announced (`Known`), mode flags, data bit timing and transfer
  size fit each other (`Configured`), and what the driver remembers of timings arrived, unless the last configuration failed.
* `StoppedInTheEnd`, by `Quiet`: no callback runs without RX URBs.
* `StateFollowed`, by `StateInv`: while a channel is up, the youngest frame on its way that tells a state tells the device's (`Followed`), and frames of before
  an open are not current.

### 5.2 SDKs

`PySessionProofs`, assuming `ShutdownOnce` (`py_twice` shows why):

* `LifeInvariant`, with `LiveBusesServed` and `RegistryIsRight`: a session lists and counts exactly who is attached (`ListenersExact`), everybody is attached to the registered session
  (`OneSession`), an interface that is claimed without being registered is a raised constructor's (`OneSession` too), the lock is held over a step only by who closes a session nobody
  uses (`Closing`), and only the registered session runs, though the reader of another may not have ended (`OneReader`).
* `SessionShared`: each step is a step of `SharedSession` or a stutter.
* `FramesOrdered`, with `TypeCorrect`: `PipeExact` (of each channel, what has left the pipe is a prefix), `ReaderExact` and `NextIsNext` (a bus object that has got a frame gets the next one
  next, also when it is not on the list the reader has copied).
* `ChannelsMine` needs no `ShutdownOnce`, but that no two bus objects share a channel: the second would configure it anew, and no document says otherwise.

`CppSessionProofs`:

* `LifeInvariant`, with `LiveBusesServed` and `InterfaceComesBack`.  `Owners` and `ListenersExact` hold in every run; `ClaimHeld` allows for the session whose constructor threw; `Served`
  is what holds without `overlap`: nobody opens while somebody stops, and everybody uses the registered session.
* `FrameInvariant`, with `NoneLostNorDoubled`: a frame is in the pipe or in the hands of one thread (`OnePlace`); what a bus object got no thread will give it again (`GotOnce`); what was
  received is there or on its way (`Arrives`, without `overlap`).
* `TypeCorrect`; and `ChannelsMine`, if no two bus objects with a valid channel share it.
* `SessionShared`: `SharedUntilOverlap`, that each step which leaves `overlap` FALSE is a step of `SharedSession` or a stutter.  Who is attached are the bus
  objects from `AcquireSession` to `RemoveBus` (`Attached`); the interface counts as held while its session has an owner (`Held`), which leaves out the one whose constructor threw.
  With `overlap` it is false: a bus object that finds a session just being closed is attached to one that holds nothing.  No run lists it; it was checked on `MCCppSession`.

`CppProgramProofs`:

* `RoundTrip`: `ParseFrame` of what comes back of a `HostFrame` is `AsSent`, for every message of any length, every channel and every capability: the frame codec needs no instance.
* `LifeInvariant`, with `TypeCorrect` and `CleanEnd`.  `Accounted` is the balance of what libusb has handed out, place by place in the program; `Owned` says which places have a session and
  bus objects, `OnlyBusesOn` that only their channels are on, `SymbolsThere` that a symbol is missing only after an exception said so.
* `FlowInvariant`, with `Arrival`.  `Counted` is the balance of frames (each one sent is one on the wire or two in the pipe, queued, received or dropped), from which RX is at most twice TX.
  `Arrived` is the order: what a channel received, has queued and will find in the shared pipe are its bus's messages. `InPlace` says the last
  with a function from messages to places in the pipe that keeps their order and misses none; taking the head and appending a pair change that function by a shift and by one place.
  `OnWire` says that what the adapter holds are messages of the example, for `RoundTrip`.
* `OpenInvariant`, with `AdapterMeant` and `OpenedRight`: `Asked` (options are those of the arguments), `FromList` (a selector that was not given is that of a listed device),
  `OnItsDevice` (the session is on a device that is meant, on the interface `FindBulkInterface` gives), `Searched` (who was passed over is not meant, or something fails on it, and a
  search that threw did so at an adapter that `Obstructs` it), `Tuned` (an
  open channel has the timings of its options), `Refused` (a program gave up for want of a timing only if a channel has none).
  `EnumeratesReadable` is what `FromList` rests on: `enumerate_devices` lists exactly the devices it can read, sorted.
* `NearestTiming`: `CalculateTiming` yields a legal timing with none nearer to 80 %, or none is legal, if a second segment and a jump width are possible and the
  search overlooks nothing (`SearchSuffices`).  The code scores three timings of each prescaler and steps by `brp_inc`, so it may overlook some: where a segment is too short for 80 % of that
  prescaler, or where a prescaler off the step would do (gsusb.cpp:813; `LegalTimings` takes any prescaler of the range).  `SearchReaches` says when it does not: every prescaler is allowed, and the segments are long enough for four
  parts to one of every legal total.  `OpenedRight` has this as its hypothesis `TimingsFound`, of all limits and rates that the scenarios ask for; TLC evaluates it on those of
  `MCCppProgram`.  `AdapterMeant`, the other half of `OpenedAsAsked`, needs no hypothesis.

Cardinalities, sums and sequences come from the library's theorems and from lemmas on what `Append`, `Tail` and `\o` do to the sets, orders and places that the invariants speak of.

### 5.3 What is only model-checked

* Liveness (`EverySkbSettles`, `DestructionEnds`, `EveryFrameIsDelivered`, `ShutdownEnds`): fairness and ENABLED are out of the prover's reach.
* That the scenarios' limits satisfy `TimingsFound`, where `SearchReaches` does not say so.
* The properties that the three runs of section 6 refute.

## 6. Where the code disagrees with its documentation

* `tx_wake`: `gs_can_start_xmit` reads `active_tx_urbs`, all echoes arrive and wake the queue, then the queue is stopped
  (gs_usb.c:846).  Nothing is left to wake it.
* `channels_limit`: a first open that fails kills `tx_submitted` instead of `rx_submitted` (gs_usb.c:1000); the next open
  submits a full set of RX URBs beside the old one.
* `py_twice`: `shutdown` of a Python bus object has no guard; a second call gives back a reference of another bus
  object (bus.py:746).

Met while modelling, without a run of their own because no document says otherwise, or because a property states them as
its exception:

* `LibUsbApi::ensure_loaded` sets `module_` before it loads the symbols (libusb_dyn.cpp:87): after a missing symbol, a second
  attempt takes the DLL for loaded and calls a null pointer (`Crash`; `EndsCleanly` names the case).
* The session's constructor throws at the first adapter of the list whose interface cannot be read or that lacks the hinted
  interface (gsusb.cpp:492), whether or not it is the one that is meant, and leaves list and context behind; `enumerate_devices` goes on.  So an adapter that was listed,
  works and is selected as `BUS:ADDR:IF` is not opened if another that works, but has no such interface, comes first (`Obstructs`, the exception of `RightAdapter`;
  it happens in `cpp_program`).
* A stale echo whose id belongs to a frame that `usb_submit_urb` refuses at that moment makes the callback stamp or loop back an skb that
  `can_free_echo_skb` has freed (gs_usb.c:657, 833; the exception `clash` of `SettledOnce`).
* Nothing tells start_xmit that an echo was lost with its RX URB (gs_usb.c:586), nor resubmits the URB: the frame's context is taken until the close.
* `can_changelink` keeps FD mode and data bit timing when their transfer fails (gs_usb.c:738): a later open starts the device with FD and without that timing.
* The Python session's constructor does not release the interface it claimed when the device does not answer (bus.py:456-463).
* A serial number of the form `12:34` is parsed as bus and address (gsusb.cpp:201).
* Example 10 sends the ids 0x800 and up as standard ids, which do not fit in 11 bits; the receiver masks them (gsusb.cpp:725).
* The SDKs send with echo id 0xFFFFFFFF (gsusb.cpp:620), so `is_rx` is true of echoes too: an application counts twice what it sends.
* A device with CAN FD that does not know `BT_CONST_EXT` has no data limits, and cannot be opened with FD.

## 7. Not modelled, and plan

* Rust and C# SDK: the same design again.  `RsSession` and `CsSession` would come next: C# looks a session up and attaches
  to it in two steps (GsUsbBus.cs:284), Rust looks up and inserts in two steps (lib.rs:267) and skips `remove_bus` after an error
  (lib.rs:600).
* The Python SDK's selection, bit timing and frame format are the functions of the C++ SDK, where they are modelled.  One
  difference: FD data whose length is no DLC length makes Python's slice assignment shrink the payload (bus.py:567).
* A single registration step in `GsUsbChannels`: an open between the registration of a channel and the setting of its `parent`
  (gs_usb.c:1481-1495) would use a null pointer, which is no state of the model.
* kernel 5.15's `can_dropped_invalid_skb` shim; drop monitor counters; statistics; log messages.
* An FD message sent on a channel without FD: no example does that.
* Threads of several processes; two bus objects on one channel, of which only `py_session` says that each is served, not how the channel is configured.
* Examples of the other SDKs, scripts, the C# binding (pure I/O or no logic); firmware and Windows tool (binaries).

A theorem that would say more: `OpenedRight` for limits with a `brp_inc`, against the legal timings on that step.
