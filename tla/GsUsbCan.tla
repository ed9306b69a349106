------------------------------ MODULE GsUsbCan ------------------------------
(***************************************************************************)
(* One channel of the SocketCAN driver as the network stack configures it  *)
(* and receives from it (kernel/6.14/gs_usb.c, and the shims of            *)
(* kernel/5.15/gs_usb.c): what gs_make_candev makes of the features the    *)
(* device announces, the requests that follow from them, opening and       *)
(* closing, and gs_usb_receive_bulk_callback, which turns the device's     *)
(* frames into socket frames and into the state of the controller.         *)
(*                                                                         *)
(* Opening and closing hold the rtnl lock; the callback runs beside them.  *)
(* The transmit contexts are GsUsbTx's, the RX URBs of several channels    *)
(* GsUsbChannels'; here another channel may be open all the time.          *)
(***************************************************************************)
EXTENDS Integers, Sequences, FiniteSets, FiniteSetsExt, SequencesExt

CONSTANTS
    Devices,      \* what a device announces: see DeviceType
    Kernels,      \* the versions of the driver: a subset of {"5.15", "6.14"}
    Refusing,     \* bound: the devices at which the transfer of a timing may fail
    LinkModes,    \* bound: the sets of modes user space asks for
    MaxFrames,    \* bound: frames each device sends
    MaxOpens,     \* bound: number of opens
    QueueMax,     \* skb_queue_len_max of the rx-offload queue
    OthersOpen    \* whether another channel of the device is open: {TRUE, FALSE} or less

\* GS_CAN_FEATURE_*; the first seven are also modes of GS_USB_BREQ_MODE.
Modes    == {"LISTEN_ONLY", "LOOP_BACK", "TRIPLE_SAMPLE", "ONE_SHOT", "HW_TIMESTAMP",
             "FD", "BERR_REPORTING"}
Features == Modes \cup {"IDENTIFY", "USER_ID", "LPC546XX", "BT_CONST_EXT", "TERMINATION",
                        "GET_STATE", "CANTACT_PRO"}

\* enum gs_usb_breq; 8 stands for GET_USER_ID and for CANtact Pro's data bit timing.
Requests == {"BITTIMING", "MODE", "BT_CONST", "TIMESTAMP", "IDENTIFY", "8",
             "DATA_BITTIMING", "BT_CONST_EXT", "SET_TERMINATION", "GET_TERMINATION",
             "GET_STATE"}

\* enum gs_can_state, as far as a running controller gets.
States == {"ERROR_ACTIVE", "ERROR_WARNING", "ERROR_PASSIVE", "BUS_OFF", "STOPPED"}

\* struct gs_device_bt_const and gs_device_config, and what answers a request.
DeviceType == [feature : SUBSET (Features \ {"CANTACT_PRO"}), sw_version : 1 .. 3,
               cantact : BOOLEAN, termination : BOOLEAN]

ASSUME DevicesAssumption == Devices \subseteq DeviceType /\ Kernels \subseteq {"5.15", "6.14"}
ASSUME BoundsAssumption ==
    /\ MaxFrames \in [Devices -> Nat] /\ MaxOpens \in Nat /\ QueueMax \in Nat
    /\ Refusing \subseteq Devices /\ LinkModes \subseteq SUBSET Modes /\ OthersOpen \subseteq BOOLEAN

VARIABLES
    env,      \* the device, the kernel, whether another channel is open
    dev,      \* struct gs_can after gs_make_candev
    request,  \* the last control request sent to the device
    net,      \* netif_running, ctrlmode, timing known, error of the last configuration,
              \* pc of the open or close, NAPI enabled and scheduled
    state,    \* can.state
    fw,       \* the device: started, its mode flags, bit timings, state, opens, frames
    pipe,     \* frames the device has sent, in order
    cb,       \* the callback: pc and the frame it handles
    irqQueue, \* rx-offload: frames queued by the running callback
    napiQueue,\* rx-offload: frames NAPI delivers
    got,      \* frames delivered to the sockets, in order
    lost,     \* numbers of the frames that were not
    misled    \* an error frame was missed, or handled after a reopen

vars == <<env, dev, request, net, state, fw, pipe, cb, irqQueue, napiQueue, got, lost,
          misled>>
offload == <<irqQueue, napiQueue, got>>

-----------------------------------------------------------------------------
(***************************************************************************)
(* gs_make_candev: what the driver makes of the announced features         *)
(***************************************************************************)

HasAll(d, fs) == fs \subseteq d.feature

\* Mutant: the quirks are applied to every firmware of the CANtact Pro.
QuirksAlways(d) == IF d.cantact THEN {"LPC546XX", "CANTACT_PRO"} ELSE {}

\* CANtact Pro up to version 2: USB erratum, and DATA_BITTIMING is request 8.
Quirks(d) ==
    IF d.cantact /\ d.sw_version <= 2 THEN {"LPC546XX", "CANTACT_PRO"} ELSE {}

\* GET_TERMINATION is tried, IDENTIFY needs sw_version > 1.
Dropped(d) ==
    (IF d.termination THEN {} ELSE {"TERMINATION"})
    \cup (IF d.sw_version > 1 THEN {} ELSE {"IDENTIFY"})

\* can.ctrlmode_supported; CAN_CTRLMODE_CC_LEN8_DLC changes nothing here.
Supported(d) == d.feature \cap (Modes \ {"HW_TIMESTAMP"})

DataConst(d) ==
    IF HasAll(d, {"FD", "BT_CONST_EXT"}) THEN "extended"
    ELSE IF "FD" \in d.feature THEN "nominal" ELSE "none"

DevOf(d) ==
    [feature   |-> (d.feature \ Dropped(d)) \cup Quirks(d),
     supported |-> Supported(d),
     data      |-> DataConst(d),
     berr      |-> "GET_STATE" \in d.feature]

NoDev == [feature |-> {}, supported |-> {}, data |-> "none", berr |-> FALSE]

Hw == "HW_TIMESTAMP" \in dev.feature

\* Size of a struct gs_host_frame: the header, a union of data, stamp and quirk byte.
HostFrame(fd, stamp, quirk) ==
    12 + (IF fd THEN 64 ELSE 8) + (IF stamp THEN 4 ELSE 0) + (IF quirk THEN 1 ELSE 0)

\* hf_size_tx, and hf_size_rx of a device whose channels are alike.
TxSize(mode) == HostFrame("FD" \in mode, FALSE, "LPC546XX" \in dev.feature)
RxSize       == HostFrame("FD" \in dev.supported, Hw, FALSE)

\* The device understands the request; request 8 as a data bit timing.
Understands(d, r) ==
    CASE r = "IDENTIFY"        -> "IDENTIFY" \in d.feature /\ d.sw_version > 1
      [] r = "8"               -> d.cantact /\ d.sw_version <= 2 /\ "FD" \in d.feature
      [] r = "DATA_BITTIMING"  -> "FD" \in d.feature /\ ~(d.cantact /\ d.sw_version <= 2)
      [] r = "BT_CONST_EXT"    -> "BT_CONST_EXT" \in d.feature
      [] r = "SET_TERMINATION" -> d.termination
      [] r = "TIMESTAMP"       -> "HW_TIMESTAMP" \in d.feature
      [] r = "GET_STATE"       -> "GET_STATE" \in d.feature
      [] OTHER                 -> TRUE

-----------------------------------------------------------------------------
NoFrame == [n |-> 0, kind |-> "data", err |-> {}, over |-> FALSE, open |-> 0]
CbIdle  == [pc |-> "idle", frame |-> NoFrame]

Init ==
    /\ \E d \in Devices, k \in Kernels, o \in OthersOpen :
          env = [device |-> d, kernel |-> k, others |-> o]
    /\ dev = NoDev /\ request = "BT_CONST" /\ state = "STOPPED"
    /\ net = [pc |-> "probe", running |-> FALSE, ctrlmode |-> {}, timed |-> FALSE,
              fdTimed |-> FALSE, error |-> FALSE, napi |-> FALSE, sched |-> FALSE, urbs |-> FALSE]
    /\ fw = [started |-> FALSE, flags |-> {}, timed |-> FALSE, fdTimed |-> FALSE,
             state |-> "STOPPED", opens |-> 0, sent |-> 0, size |-> 0]
    /\ pipe = <<>> /\ cb = CbIdle
    /\ irqQueue = <<>> /\ napiQueue = <<>> /\ got = <<>> /\ lost = {} /\ misled = FALSE

reception == <<fw, pipe, cb, offload, lost, misled>>

\* The last control transfer of gs_make_candev is the one remembered.
MakeCandev ==
    /\ net.pc = "probe"
    /\ dev' = DevOf(env.device)
    /\ request' = IF dev'.data = "extended" THEN "BT_CONST_EXT"
                  ELSE IF "TERMINATION" \in env.device.feature THEN "GET_TERMINATION"
                  ELSE "BT_CONST"
    /\ net' = [net EXCEPT !.pc = "down", !.urbs = env.others]
    /\ UNCHANGED <<env, state, reception>>

-----------------------------------------------------------------------------
(***************************************************************************)
(* Requests of user space, through can-dev and ethtool                     *)
(***************************************************************************)

DataRequest == IF "CANTACT_PRO" \in dev.feature THEN "8" ELSE "DATA_BITTIMING"

Timings(m) == {"BITTIMING"} \cup (IF "FD" \in m THEN {DataRequest} ELSE {})

\* can_changelink while the interface is down: do_set_bittiming, and for CAN FD
\* do_set_data_bittiming.  Each stores its timing before the transfer; one that fails
\* ends the configuration with an error, which takes nothing back.
Configure(m) ==
    /\ net.pc = "down" /\ m \subseteq dev.supported
    /\ \E failed \in Timings(m) \cup {"none"} :
       \E mode \in IF failed = "BITTIMING" THEN {m, net.ctrlmode} ELSE {m} :
          /\ failed # "none" => env.device \in Refusing
          /\ net' = [net EXCEPT !.ctrlmode = mode, !.timed = TRUE,
                                !.fdTimed = "FD" \in mode /\ (@ \/ failed # "BITTIMING"),
                                !.error = failed # "none"]
          /\ request' = IF failed # "none" THEN failed
                        ELSE IF "FD" \in m THEN DataRequest ELSE "BITTIMING"
          /\ fw' = [fw EXCEPT !.timed = @ \/ failed # "BITTIMING",
                              !.fdTimed = \/ @
                                          \/ /\ "FD" \in m /\ failed = "none"
                                             /\ Understands(env.device, DataRequest)]
    /\ UNCHANGED <<env, dev, state, pipe, cb, offload, lost, misled>>

\* Bound: user space asks while the channel is down; the answers depend on nothing
\* that opening it or receiving changes.
Asks == net.pc = "down"

\* ETHTOOL_ID_ACTIVE and ETHTOOL_ID_INACTIVE; anything else is -EOPNOTSUPP.
SetPhysId ==
    /\ Asks /\ "IDENTIFY" \in dev.feature
    /\ request' = "IDENTIFY"
    /\ UNCHANGED <<env, dev, net, state, reception>>

SetTermination ==
    /\ Asks /\ "TERMINATION" \in dev.feature
    /\ request' = "SET_TERMINATION"
    /\ UNCHANGED <<env, dev, net, state, reception>>

\* gs_usb_get_state: the state the device answers with is not kept.
GetBerrCounter ==
    /\ Asks /\ dev.berr
    /\ request' = "GET_STATE"
    /\ UNCHANGED <<env, dev, net, state, reception>>

\* What ethtool and SIOCGHWTSTAMP answer: hardware stamps or software ones.  The
\* shims for kernels before 6.2 never promise hardware stamps.
HwtsShim(kernel) == kernel = "5.15"
PromisesStamps   == Hw /\ ~HwtsShim(env.kernel)
EthIoctlTaken    == Hw /\ ~HwtsShim(env.kernel)

-----------------------------------------------------------------------------
(***************************************************************************)
(* gs_can_open and gs_can_close                                            *)
(***************************************************************************)

\* open_candev finds the bit timings the mode needs, whether or not they arrived.
Timed == net.timed /\ ("FD" \in net.ctrlmode => net.fdTimed)

\* __dev_open sets running; open_candev, hf_size_tx, rx-offload and RX URBs.
OpenBegin ==
    /\ net.pc = "down" /\ Timed /\ fw.opens < MaxOpens
    /\ net' = [net EXCEPT !.pc = "state", !.running = TRUE, !.napi = TRUE, !.urbs = TRUE]
    /\ fw' = [fw EXCEPT !.opens = @ + 1, !.size = TxSize(net.ctrlmode)]
    /\ UNCHANGED <<env, dev, request, state, pipe, cb, offload, lost, misled>>

\* Without bit timing open_candev, and with it the open, fails.
OpenUntimed ==
    /\ net.pc = "down" /\ ~Timed
    /\ UNCHANGED vars

\* "finally start device": the state is set before the device is asked.
SetErrorActive ==
    /\ net.pc = "state"
    /\ state' = "ERROR_ACTIVE" /\ misled' = FALSE
    /\ net' = [net EXCEPT !.pc = "mode"]
    /\ UNCHANGED <<env, dev, request, fw, pipe, cb, offload, lost>>

ModeFlags == net.ctrlmode \cup (IF Hw THEN {"HW_TIMESTAMP"} ELSE {})

\* Mutant: the state is set after the device was asked to start.
StartDeviceThenState ==
    /\ net.pc = "mode" \/ net.pc = "started"
    /\ IF net.pc = "mode"
       THEN /\ request' = "MODE"
            /\ fw' = [fw EXCEPT !.started = TRUE, !.flags = ModeFlags,
                                !.state = "ERROR_ACTIVE"]
            /\ net' = [net EXCEPT !.pc = "started"]
            /\ UNCHANGED state
       ELSE /\ state' = "ERROR_ACTIVE"
            /\ net' = [net EXCEPT !.pc = "up"]
            /\ UNCHANGED <<request, fw>>
    /\ UNCHANGED <<env, dev, pipe, cb, offload, lost, misled>>

StartDevice ==
    /\ net.pc = "mode"
    /\ request' = "MODE"
    /\ fw' = [fw EXCEPT !.started = TRUE, !.flags = ModeFlags, !.state = "ERROR_ACTIVE"]
    /\ net' = [net EXCEPT !.pc = "up"]
    /\ UNCHANGED <<env, dev, state, pipe, cb, offload, lost, misled>>

\* The request fails: RX URBs stay submitted (see GsUsbChannels).  can_rx_offload_
\* disable waits until NAPI has delivered what it was scheduled for.
StartDeviceFails ==
    /\ net.pc = "mode" /\ ~net.sched
    /\ request' = "MODE"
    /\ state' = "STOPPED"
    /\ net' = [net EXCEPT !.pc = "down", !.running = FALSE, !.napi = FALSE]
    /\ UNCHANGED <<env, dev, reception>>

\* __dev_close: from here the callback drops the channel's frames.
CloseBegin ==
    /\ net.pc = "up"
    /\ net' = [net EXCEPT !.pc = "kill", !.running = FALSE]
    /\ UNCHANGED <<env, dev, request, state, reception>>

\* Mutant: they are unlinked only, and a callback may be running still.
UnlinkRxUrbs ==
    /\ net.pc = "kill"
    /\ net' = [net EXCEPT !.pc = "stop", !.urbs = env.others]
    /\ UNCHANGED <<env, dev, request, state, reception>>

\* The last channel kills the RX URBs, which waits for a running callback.
KillRxUrbs ==
    /\ net.pc = "kill"
    /\ env.others \/ cb.pc = "idle"
    /\ net' = [net EXCEPT !.pc = "stop", !.urbs = env.others]
    /\ UNCHANGED <<env, dev, request, state, reception>>

SetStopped ==
    /\ net.pc = "stop"
    /\ state' = "STOPPED"
    /\ net' = [net EXCEPT !.pc = "reset"]
    /\ UNCHANGED <<env, dev, request, reception>>

\* gs_cmd_reset, then can_rx_offload_disable and close_candev.
ResetAndDisable ==
    /\ net.pc = "reset" /\ ~net.sched
    /\ request' = "MODE"
    /\ fw' = [fw EXCEPT !.started = FALSE, !.flags = {}, !.state = "STOPPED"]
    /\ net' = [net EXCEPT !.pc = "down", !.napi = FALSE]
    /\ UNCHANGED <<env, dev, state, pipe, cb, offload, lost, misled>>

-----------------------------------------------------------------------------
(***************************************************************************)
(* gs_usb_receive_bulk_callback                                            *)
(***************************************************************************)

\* What an error frame says, in the order gs_update_state looks at it.
StateTold(err) ==
    CASE "RESTARTED" \in err -> "ERROR_ACTIVE"
      [] "RESTARTED" \notin err /\ "BUSOFF" \in err -> "BUS_OFF"
      [] err \cap {"RESTARTED", "BUSOFF"} = {} ->
            IF "WARNING" \in err THEN "ERROR_WARNING"
            ELSE IF "PASSIVE" \in err THEN "ERROR_PASSIVE" ELSE "ERROR_ACTIVE"

\* A frame for a channel that is down is dropped and the URB submitted again.
Enter ==
    /\ cb.pc = "idle" /\ pipe # <<>> /\ net.urbs
    /\ pipe' = Tail(pipe)
    /\ IF net.running
       THEN cb' = [pc |-> "handle", frame |-> Head(pipe)] /\ UNCHANGED lost
       ELSE lost' = lost \cup {Head(pipe).n} /\ UNCHANGED cb
    /\ UNCHANGED <<env, dev, request, net, state, fw, offload, misled>>

\* __skb_queue_add_sort: behind the last one that is not younger.
Sorted(q, f) == InsertAt(q, 1 + Max({0} \cup {i \in DOMAIN q : q[i].stamp <= f.stamp}), f)

\* Mutant: the shims' sorted insertion for both kinds of devices, stamped 0.
EchoStampZero(f) == 0

\* Kernels before 6.1 insert an echo without hardware stamp as if stamped 0.
EchoStamp(f) == IF Hw THEN f.n ELSE 0
Entry(f, kind) ==
    [n |-> f.n, kind |-> kind, over |-> f.over,
     stamp |-> IF f.kind = "echo" THEN EchoStamp(f) ELSE IF Hw THEN f.n ELSE 0]

QueueTail(q, e) == Append(q, e)
EchoQueueTail(q, e) == IF env.kernel = "5.15" THEN Sorted(q, e) ELSE QueueTail(q, e)

\* gs_usb_rx_offload and gs_usb_get_echo_skb; a queue beyond its limit takes none.
Queue(f, kind) ==
    IF Len(napiQueue) > QueueMax
    THEN /\ lost' = lost \cup (IF kind = "overflow" THEN {} ELSE {f.n})
         /\ UNCHANGED irqQueue
    ELSE /\ irqQueue' = IF Hw THEN Sorted(irqQueue, Entry(f, kind))
                        ELSE IF kind = "echo" THEN EchoQueueTail(irqQueue, Entry(f, kind))
                        ELSE QueueTail(irqQueue, Entry(f, kind))
         /\ UNCHANGED lost

Current(f) == f.open = fw.opens

\* The state is told by error frames only, and each is followed.
Handle ==
    /\ cb.pc = "handle"
    /\ LET f == cb.frame IN
       /\ Queue(f, f.kind)
       /\ IF f.err # {}
          THEN state' = StateTold(f.err) /\ misled' = ~Current(f)
          ELSE UNCHANGED <<state, misled>>
       /\ cb' = [cb EXCEPT !.pc = IF f.over THEN "overflow" ELSE "finish"]
    /\ UNCHANGED <<env, dev, request, net, fw, pipe, napiQueue, got>>

\* No skb: the callback returns, its URB is not submitted again.
HandleNoSkb ==
    /\ cb.pc = "handle" /\ cb.frame.kind = "data"
    /\ lost' = lost \cup {cb.frame.n}
    /\ misled' = (misled \/ (cb.frame.err # {} /\ Current(cb.frame)))
    /\ cb' = CbIdle
    /\ UNCHANGED <<env, dev, request, net, state, fw, pipe, offload>>

\* GS_CAN_FLAG_OVERFLOW: an error frame of its own follows the frame.
Overflow ==
    /\ cb.pc = "overflow"
    /\ Queue(cb.frame, "overflow")
    /\ cb' = [cb EXCEPT !.pc = "finish"]
    /\ UNCHANGED <<env, dev, request, net, state, fw, pipe, napiQueue, got, misled>>

\* No skb for it: goto resubmit_urb, past can_rx_offload_irq_finish.
OverflowNoSkb ==
    /\ cb.pc = "overflow"
    /\ cb' = CbIdle
    /\ UNCHANGED <<env, dev, request, net, state, fw, pipe, offload, lost, misled>>

\* Mutant: the queue handed to NAPI is not emptied.
FinishKeepsQueue ==
    /\ cb.pc = "finish"
    /\ napiQueue' = napiQueue \o irqQueue
    /\ net' = [net EXCEPT !.sched = @ \/ (net.napi /\ napiQueue' # <<>>)]
    /\ cb' = CbIdle
    /\ UNCHANGED <<env, dev, request, state, fw, pipe, irqQueue, got, lost, misled>>

\* can_rx_offload_irq_finish hands the queue to NAPI, which runs when enabled.
Finish ==
    /\ cb.pc = "finish"
    /\ napiQueue' = napiQueue \o irqQueue /\ irqQueue' = <<>>
    /\ net' = [net EXCEPT !.sched = @ \/ (net.napi /\ napiQueue' # <<>>)]
    /\ cb' = CbIdle
    /\ UNCHANGED <<env, dev, request, state, fw, pipe, got, lost, misled>>

\* Mutant: NAPI is not completed when the queue is empty.
PollAgain ==
    /\ net.sched
    /\ got' = Append(got, Head(napiQueue)) /\ napiQueue' = Tail(napiQueue)
    /\ UNCHANGED <<env, dev, request, net, state, fw, pipe, cb, irqQueue, lost, misled>>

\* NAPI delivers until the queue is empty.
Poll ==
    /\ net.sched
    /\ got' = Append(got, Head(napiQueue)) /\ napiQueue' = Tail(napiQueue)
    /\ net' = [net EXCEPT !.sched = napiQueue' # <<>>]
    /\ UNCHANGED <<env, dev, request, state, fw, pipe, cb, irqQueue, lost, misled>>

-----------------------------------------------------------------------------
(***************************************************************************)
(* The device                                                              *)
(***************************************************************************)

Send(frame, s) ==
    /\ fw.started /\ fw.sent < MaxFrames[env.device]
    /\ fw' = [fw EXCEPT !.sent = @ + 1, !.state = s]
    /\ pipe' = Append(pipe, frame)
    /\ UNCHANGED <<env, dev, request, net, state, cb, offload, lost, misled>>

\* A frame from the bus, or the echo of one the device sent.
SendFrame ==
    \E kind \in {"data", "echo"}, over \in BOOLEAN :
       Send([n |-> fw.sent + 1, kind |-> kind, err |-> {}, over |-> over,
             open |-> fw.opens], fw.state)

\* The controller changes its state and tells; BUSOFF may come with CRTL bits.
ErrorFrames(s) ==
    CASE s = "ERROR_ACTIVE"  -> {{"CRTL"}, {"RESTARTED"}}
      [] s = "ERROR_WARNING" -> {{"CRTL", "WARNING"}}
      [] s = "ERROR_PASSIVE" -> {{"CRTL", "PASSIVE"}}
      [] s = "BUS_OFF"       -> {{"BUSOFF"}, {"BUSOFF", "CRTL", "PASSIVE"}}

ChangeState ==
    \E s \in States \ {"STOPPED", fw.state} : \E err \in ErrorFrames(s) :
       Send([n |-> fw.sent + 1, kind |-> "data", err |-> err, over |-> FALSE,
             open |-> fw.opens], s)

-----------------------------------------------------------------------------
OpenClose == \/ OpenBegin \/ OpenUntimed \/ SetErrorActive \/ StartDevice \/ StartDeviceFails
             \/ CloseBegin \/ KillRxUrbs \/ SetStopped \/ ResetAndDisable
Callback  == Enter \/ Handle \/ HandleNoSkb \/ Overflow \/ OverflowNoSkb \/ Finish
Control   == \/ MakeCandev \/ (\E m \in LinkModes : Configure(m))
             \/ SetPhysId \/ SetTermination \/ GetBerrCounter

Next == Control \/ OpenClose \/ Callback \/ Poll \/ SendFrame \/ ChangeState

Spec == Init /\ [][Next]_vars

-----------------------------------------------------------------------------
(***************************************************************************)
(* Properties                                                              *)
(***************************************************************************)

Entries == [n : 1 .. fw.sent, kind : {"data", "echo", "overflow"}, over : BOOLEAN,
            stamp : 0 .. fw.sent]

\* Type invariant.
TypeOK ==
    /\ env.device \in Devices /\ dev.feature \subseteq Features
    /\ request \in Requests /\ state \in States /\ fw.state \in States
    /\ fw.opens \in 0 .. MaxOpens /\ fw.sent \in 0 .. MaxFrames[env.device]
    /\ net.ctrlmode \subseteq Modes /\ fw.flags \subseteq Modes
    /\ cb.pc \in {"idle", "handle", "overflow", "finish"}
    /\ Range(irqQueue) \cup Range(napiQueue) \cup Range(got) \subseteq Entries
    /\ lost \subseteq 1 .. fw.sent
    /\ net.sched => net.napi /\ napiQueue # <<>>

\* can.state (gs_update_state, gs_usb.c:486) is the controller's: once the error
\* frames on their way are handled, the state shown is the device's own, unless an
\* error frame was lost for want of an skb or one from before a reopen was handled.
StateAgrees ==
    /\ net.pc = "up" /\ ~misled /\ (cb.pc = "handle" => cb.frame.err = {})
    /\ \A i \in DOMAIN pipe : pipe[i].err = {}
    => state = fw.state

\* A channel that is down is shown as STOPPED (gs_usb.c:1068), also when the
\* callback was handling an error frame as it was closed, provided that the close
\* killed the RX URBs: no other channel was open.
StoppedWhenClosed ==
    net.pc \in {"down", "reset"} /\ ~net.urbs => state = "STOPPED"

\* The sockets see frames in the order the device sent them, each once, an overflow
\* notice after its frame (gs_usb.c:626-647), whatever kernel, stamps and failures.
InOrder(q) ==
    \A i, j \in DOMAIN q : i < j =>
       \/ q[i].n < q[j].n
       \/ q[i].n = q[j].n /\ q[i].kind # "overflow" /\ q[j].kind = "overflow"
FramesInOrder == InOrder(got \o napiQueue \o irqQueue)

\* No frame disappears, and none is left behind: what the callback has queued is
\* with NAPI once it is done, unless the last of it lacks its overflow notice for
\* want of an skb.
Numbers(q) == {q[i].n : i \in DOMAIN q}
NothingStranded ==
    /\ cb.pc = "idle" /\ irqQueue # <<>> =>
          Last(irqQueue).over /\ Last(irqQueue).kind # "overflow"
    /\ 1 .. fw.sent = Numbers(pipe \o irqQueue \o napiQueue \o got) \cup lost
                      \cup (IF cb.pc = "handle" THEN {cb.frame.n} ELSE {})

\* Every request is one the firmware announced it understands; a device is started
\* only after its bit timing arrived, and with CAN FD only after its data bit timing
\* did, unless user space opens a channel it was told it failed to configure, whose
\* mode and timing the driver remembers although the transfer failed (gs_usb.c:738).
\* The flags are ones it announced, and every frame fits its buffer; stamps are
\* promised to user space only if they come.
AnnouncedOnly ==
    /\ Understands(env.device, request)
    /\ fw.started =>
          /\ net.error \/ (fw.timed /\ ("FD" \in fw.flags => fw.fdTimed))
          /\ fw.flags \subseteq env.device.feature
          /\ HostFrame("FD" \in fw.flags, "HW_TIMESTAMP" \in fw.flags, FALSE) <= RxSize
          /\ fw.size = HostFrame("FD" \in fw.flags, FALSE,
                                 \/ "LPC546XX" \in env.device.feature
                                 \/ env.device.cantact /\ env.device.sw_version <= 2)
          /\ PromisesStamps \/ EthIoctlTaken => "HW_TIMESTAMP" \in fw.flags
=============================================================================
