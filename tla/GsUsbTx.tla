------------------------------ MODULE GsUsbTx ------------------------------
(***************************************************************************)
(* The transmit path of one channel of the SocketCAN driver                *)
(* (kernel/6.14/gs_usb.c): gs_can_start_xmit, called by the network stack, *)
(* runs concurrently with gs_usb_receive_bulk_callback, which handles the  *)
(* echo the device returns for every frame it put on the bus.  They share  *)
(* the transmit contexts, the echo_skb slots, active_tx_urbs and the       *)
(* stopped/started flag of the transmit queue.                             *)
(*                                                                         *)
(* Every access to one of these that the other thread can come before or   *)
(* after is a step of its own.  Outside the driver are the USB pipes, the  *)
(* device, and the stack, which serialises calls of start_xmit, stops them *)
(* before ndo_stop and waits for a running callback before ndo_stop.       *)
(***************************************************************************)
EXTENDS Integers, Sequences, FiniteSets

CONSTANTS
    MaxTxUrbs,     \* GS_MAX_TX_URBS
    NSkbs,         \* bound: number of frames the stack hands to the driver
    NReopens,      \* bound: number of times the interface is opened again
    ResetForgets,  \* the device forgets its frames and echoes when reset
    UrbsFail,      \* URBs may complete with an error, RX URBs may be lost
    MayVanish      \* usb_submit_urb may return -ENODEV

ASSUME MaxTxUrbsAssumption == MaxTxUrbs \in Nat \ {0}
ASSUME BoundsAssumption == NSkbs \in Nat /\ NReopens \in Nat
ASSUME FlagsAssumption ==
    ResetForgets \in BOOLEAN /\ UrbsFail \in BOOLEAN /\ MayVanish \in BOOLEAN

VARIABLES
    \* the network stack
    present,         \* netif_device_present
    running,         \* netif_running
    opened,          \* ndo_open has returned and ndo_stop has not run
    queue,           \* the transmit queue is started (not netif_stop_queue'd)
    next,            \* the skb at the head of the queue
    reopens,         \* how often the interface was opened again
    \* struct gs_can
    echo_id,         \* tx_context[i].echo_id
    echo_skb,        \* can.echo_skb[i]
    active_tx_urbs,
    \* the two threads
    xmit,            \* gs_can_start_xmit: pc, its context and its skb
    callback,        \* gs_usb_receive_bulk_callback: pc, the echo it handles and
                     \* seen, the skb it has read from the echo's slot
    \* outside: URBs with an error, pipes, the device, bus, sockets
    receiving,       \* some RX URB is submitted
    out,             \* TX URBs submitted and not completed (anchored)
    lost,            \* frames whose TX URB failed or whose echo was lost or ignored
    device,          \* frames the device holds
    in,              \* echoes the device has sent, in order
    wire,            \* skbs whose frame was put on the bus
    echoed,          \* skbs looped back to the sockets
    dropped,         \* skbs freed without having been looped back
    \* history, read by no action
    clash            \* an echo was handled while start_xmit gave its echo_id up

driver  == <<echo_id, echo_skb, active_tx_urbs>>
stack   == <<present, running, opened, queue, next, reopens>>
pipes   == <<receiving, out, lost, device, in>>
fates   == <<wire, echoed, dropped>>
vars    == <<stack, driver, xmit, callback, pipes, fates, clash>>

Ids   == 0 .. MaxTxUrbs - 1
Skbs  == 1 .. NSkbs
NoSkb == 0

Frames == [id : Ids, skb : Skbs]
Idle   == [pc |-> "idle", id |-> 0, skb |-> NoSkb]
NoEcho == [pc |-> "idle", id |-> 0, skb |-> NoSkb, seen |-> NoSkb]

\* What a sequence of frames holds.
Held(s) == {s[k] : k \in DOMAIN s}

\* The context is free: its echo_id is the out-of-range value.
Free(i) == echo_id[i] = MaxTxUrbs

-----------------------------------------------------------------------------
Init ==
    /\ present = TRUE /\ running = TRUE /\ opened = TRUE /\ queue = TRUE
    /\ next = 1 /\ reopens = 0
    /\ echo_id = [i \in Ids |-> MaxTxUrbs]
    /\ echo_skb = [i \in Ids |-> NoSkb]
    /\ active_tx_urbs = 0
    /\ xmit = Idle /\ callback = NoEcho /\ clash = FALSE
    /\ receiving = TRUE /\ out = {} /\ lost = {} /\ device = {} /\ in = <<>>
    /\ wire = {} /\ echoed = {} /\ dropped = {}

(***************************************************************************)
(* gs_can_start_xmit                                                       *)
(***************************************************************************)

\* The stack has a frame and may call the driver (it holds the queue's lock).
XmitMayStart == xmit = Idle /\ present /\ running /\ queue /\ next \in Skbs

At(thread, pc) == thread.pc = pc

Goto(pc) == xmit' = [xmit EXCEPT !.pc = pc]

\* can_dev_dropped_skb: the frame is invalid and freed.
DropInvalid ==
    /\ XmitMayStart
    /\ next' = next + 1
    /\ dropped' = dropped \cup {next}
    /\ UNCHANGED <<present, running, opened, queue, reopens, driver, xmit, callback,
                   pipes, wire, echoed, clash>>

\* Mutant: takes a context without looking whether it is free.
AllocBusyContext ==
    /\ XmitMayStart
    /\ \E i \in Ids :
          /\ echo_id' = [echo_id EXCEPT ![i] = i]
          /\ xmit' = [pc |-> "allocated", id |-> i, skb |-> next]
    /\ next' = next + 1
    /\ UNCHANGED <<present, running, opened, queue, reopens, echo_skb,
                   active_tx_urbs, callback, pipes, fates, clash>>

\* gs_alloc_tx_context takes the first free context, under tx_ctx_lock.
AllocTxContext ==
    /\ XmitMayStart
    /\ \E i \in Ids :
          /\ Free(i) /\ \A j \in 0 .. i - 1 : ~Free(j)
          /\ echo_id' = [echo_id EXCEPT ![i] = i]
          /\ xmit' = [pc |-> "allocated", id |-> i, skb |-> next]
    /\ next' = next + 1
    /\ UNCHANGED <<present, running, opened, queue, reopens, echo_skb, active_tx_urbs,
                   callback, pipes, fates, clash>>

\* No context: NETDEV_TX_BUSY, and the stack keeps the frame.
TxBusy ==
    /\ XmitMayStart
    /\ \A i \in Ids : ~Free(i)
    /\ UNCHANGED vars

\* No memory for the URB or its buffer (labels nomem_hf, nomem_urb).
NoMem ==
    /\ At(xmit, "allocated")
    /\ echo_id' = [echo_id EXCEPT ![xmit.id] = MaxTxUrbs]
    /\ dropped' = dropped \cup {xmit.skb}
    /\ xmit' = Idle
    /\ UNCHANGED <<stack, echo_skb, active_tx_urbs, callback, pipes, wire, echoed,
                   clash>>

\* can_put_echo_skb; it frees the skb when the slot is occupied.
PutEchoSkb ==
    /\ At(xmit, "allocated")
    /\ IF echo_skb[xmit.id] = NoSkb
       THEN /\ echo_skb' = [echo_skb EXCEPT ![xmit.id] = xmit.skb]
            /\ UNCHANGED dropped
       ELSE /\ dropped' = dropped \cup {xmit.skb}
            /\ UNCHANGED echo_skb
    /\ Goto("put")
    /\ UNCHANGED <<stack, echo_id, active_tx_urbs, callback, pipes, wire, echoed,
                   clash>>

IncActive ==
    /\ At(xmit, "put")
    /\ active_tx_urbs' = active_tx_urbs + 1
    /\ Goto("counted")
    /\ UNCHANGED <<stack, echo_id, echo_skb, callback, pipes, fates, clash>>

SubmitTxUrb ==
    /\ At(xmit, "counted")
    /\ out' = out \cup {[id |-> xmit.id, skb |-> xmit.skb]}
    /\ Goto("submitted")
    /\ UNCHANGED <<stack, driver, callback, receiving, lost, device, in, fates, clash>>

\* The callback has found the context i and is not done with its slot.
HandlesEcho(i) ==
    callback.pc \in {"found", "read", "stamped", "took"} /\ callback.id = i

\* start_xmit is about to free the skb in slot i, or has freed it there.
GivesUp(i) == xmit.pc \in {"undo", "killed"} /\ xmit.id = i

\* Mutant: the failed URB stays counted.
SubmitFailsCounted ==
    /\ At(xmit, "counted")
    /\ Goto("undo")
    /\ clash' = (clash \/ HandlesEcho(xmit.id))
    /\ UNCHANGED <<stack, driver, callback, pipes, fates>>

\* usb_submit_urb failed: everything is undone, one step at a time.
SubmitFails ==
    /\ At(xmit, "counted")
    /\ active_tx_urbs' = active_tx_urbs - 1
    /\ Goto("undo")
    /\ clash' = (clash \/ HandlesEcho(xmit.id))
    /\ UNCHANGED <<stack, echo_id, echo_skb, callback, pipes, fates>>

\* Mutant: can_free_echo_skb is forgotten.
KeepEchoSkb ==
    /\ At(xmit, "undo")
    /\ Goto("cleared")
    /\ UNCHANGED <<stack, driver, callback, pipes, fates, clash>>

\* can_free_echo_skb frees the skb it finds in the slot ...
FreeEchoSkb ==
    /\ At(xmit, "undo")
    /\ IF echo_skb[xmit.id] = NoSkb
       THEN Goto("cleared") /\ UNCHANGED dropped
       ELSE Goto("killed") /\ dropped' = dropped \cup {echo_skb[xmit.id]}
    /\ UNCHANGED <<stack, driver, callback, pipes, wire, echoed, clash>>

\* ... and then empties the slot.
ClearEchoSkb ==
    /\ At(xmit, "killed")
    /\ echo_skb' = [echo_skb EXCEPT ![xmit.id] = NoSkb]
    /\ Goto("cleared")
    /\ UNCHANGED <<stack, echo_id, active_tx_urbs, callback, pipes, fates, clash>>

\* Mutant: the context is not freed.
KeepTxContext ==
    /\ At(xmit, "cleared")
    /\ Goto("undone")
    /\ UNCHANGED <<stack, driver, callback, pipes, fates, clash>>

\* gs_free_tx_context.
GiveBackTxContext ==
    /\ At(xmit, "cleared")
    /\ echo_id' = [echo_id EXCEPT ![xmit.id] = MaxTxUrbs]
    /\ Goto("undone")
    /\ UNCHANGED <<stack, echo_skb, active_tx_urbs, callback, pipes, fates, clash>>

\* The interface is detached if the device is gone (-ENODEV), else all goes on.
EndFailedXmit ==
    /\ At(xmit, "undone")
    /\ \/ UNCHANGED <<present, queue>>
       \/ MayVanish /\ present' = FALSE /\ queue' = FALSE
    /\ xmit' = Idle
    /\ UNCHANGED <<running, opened, next, reopens, driver, callback, pipes, fates, clash>>

\* "Slow down tx path": the counter is read, and acted upon a step later.
ReadActive ==
    /\ At(xmit, "submitted")
    /\ IF active_tx_urbs >= MaxTxUrbs THEN Goto("full") ELSE xmit' = Idle
    /\ UNCHANGED <<stack, driver, callback, pipes, fates, clash>>

StopQueue ==
    /\ At(xmit, "full")
    /\ queue' = FALSE
    /\ xmit' = Idle
    /\ UNCHANGED <<present, running, opened, next, reopens, driver, callback, pipes, fates,
                   clash>>

(***************************************************************************)
(* gs_usb_receive_bulk_callback, for echoes                                *)
(***************************************************************************)

\* An RX URB completes with the next echo in it.
EchoArrives == callback = NoEcho /\ receiving /\ in # <<>>

\* gs_get_tx_context, under tx_ctx_lock.
ReceiveEcho ==
    /\ EchoArrives
    /\ present /\ running
    /\ in' = Tail(in)
    /\ LET f == Head(in) IN
          /\ callback' = [pc   |-> IF Free(f.id) THEN "unused" ELSE "found",
                          id   |-> f.id,
                          skb  |-> f.skb,
                          seen |-> NoSkb]
          /\ clash' = (clash \/ (~Free(f.id) /\ GivesUp(f.id)))
    /\ UNCHANGED <<stack, driver, xmit, receiving, out, lost, device, fates>>

\* The frames that are lost when nothing is done with the echo f.
Unhandled(f) == IF Free(f.id) THEN {} ELSE {f}

\* The interface is down, or detached: the callback returns at once, and in the
\* second case without submitting the URB again.
IgnoreEcho ==
    /\ EchoArrives
    /\ ~present \/ ~running
    /\ in' = Tail(in)
    /\ lost' = lost \cup Unhandled(Head(in))
    /\ receiving' \in IF present THEN {TRUE} ELSE BOOLEAN
    /\ UNCHANGED <<stack, driver, xmit, callback, out, device, fates, clash>>

\* An RX URB is lost, with an echo that was in it if its status is not 0: the
\* callback returns without submitting it again, or submitting it fails.
LoseRxUrb ==
    /\ UrbsFail /\ callback = NoEcho /\ receiving
    /\ receiving' \in BOOLEAN
    /\ \/ UNCHANGED <<lost, in>>
       \/ /\ in # <<>>
          /\ in' = Tail(in)
          /\ lost' = lost \cup Unhandled(Head(in))
    /\ UNCHANGED <<stack, driver, xmit, callback, out, device, fates, clash>>

\* A frame names a channel that does not exist, or an RX URB is refused with
\* -ENODEV: all interfaces are detached.
Detach ==
    /\ MayVanish /\ callback = NoEcho /\ receiving
    /\ present' = FALSE /\ queue' = FALSE
    /\ receiving' \in BOOLEAN
    /\ UNCHANGED <<running, opened, next, reopens, driver, xmit, callback, out, lost,
                   device, in, fates, clash>>

\* "Unexpected unused echo id": logged, nothing else.
LogUnusedEchoId ==
    /\ At(callback, "unused")
    /\ callback' = NoEcho
    /\ UNCHANGED <<stack, driver, xmit, pipes, fates, clash>>

CallbackGoto(pc) == callback' = [callback EXCEPT !.pc = pc]

\* skb = can.echo_skb[echo_id], without a lock.
ReadEchoSkb ==
    /\ At(callback, "found")
    /\ callback' = [callback EXCEPT !.pc = "read", !.seen = echo_skb[callback.id]]
    /\ UNCHANGED <<stack, driver, xmit, pipes, fates, clash>>

\* gs_usb_set_timestamp writes the time into the skb that was read, if there is one.
StampEchoSkb ==
    /\ At(callback, "read")
    /\ CallbackGoto("stamped")
    /\ UNCHANGED <<stack, driver, xmit, pipes, fates, clash>>

\* can_get_echo_skb reads the slot again, and does nothing when it is empty.
TakeEchoSkb ==
    /\ At(callback, "stamped")
    /\ LET slot == echo_skb[callback.id] IN
       callback' = [callback EXCEPT !.pc = IF slot = NoSkb THEN "taken" ELSE "took",
                                    !.seen = slot]
    /\ UNCHANGED <<stack, driver, xmit, pipes, fates, clash>>

\* Mutant: the slot keeps a pointer to the skb.
LoopBackKeepsSlot ==
    /\ At(callback, "took")
    /\ echoed' = echoed \cup {callback.seen}
    /\ CallbackGoto("taken")
    /\ UNCHANGED <<stack, driver, xmit, pipes, wire, dropped, clash>>

\* It empties the slot, and the skb joins the rx-offload queue.
LoopBackEchoSkb ==
    /\ At(callback, "took")
    /\ echo_skb' = [echo_skb EXCEPT ![callback.id] = NoSkb]
    /\ echoed' = echoed \cup {callback.seen}
    /\ CallbackGoto("taken")
    /\ UNCHANGED <<stack, echo_id, active_tx_urbs, xmit, pipes, wire, dropped, clash>>

\* Mutant: the context is cleared instead of being given the free value.
ClearTxContext ==
    /\ At(callback, "taken")
    /\ echo_id' = [echo_id EXCEPT ![callback.id] = 0]
    /\ CallbackGoto("freed")
    /\ UNCHANGED <<stack, echo_skb, active_tx_urbs, xmit, pipes, fates, clash>>

\* gs_free_tx_context: a plain store, without the lock.
FreeTxContext ==
    /\ At(callback, "taken")
    /\ echo_id' = [echo_id EXCEPT ![callback.id] = MaxTxUrbs]
    /\ CallbackGoto("freed")
    /\ UNCHANGED <<stack, echo_skb, active_tx_urbs, xmit, pipes, fates, clash>>

DecActive ==
    /\ At(callback, "freed")
    /\ active_tx_urbs' = active_tx_urbs - 1
    /\ CallbackGoto("uncounted")
    /\ UNCHANGED <<stack, echo_id, echo_skb, xmit, pipes, fates, clash>>

\* netif_wake_queue; then the URB is submitted again.
WakeQueue ==
    /\ At(callback, "uncounted")
    /\ queue' = TRUE
    /\ callback' = NoEcho
    /\ UNCHANGED <<present, running, opened, next, reopens, driver, xmit, pipes, fates,
                   clash>>

(***************************************************************************)
(* USB and the device                                                      *)
(***************************************************************************)

\* The TX URB completes; gs_usb_xmit_callback changes nothing.
TxUrbDone ==
    \E f \in out :
       /\ out' = out \ {f}
       /\ device' = device \cup {f}
       /\ UNCHANGED <<stack, driver, xmit, callback, receiving, lost, in, fates, clash>>

\* It completes with an error: gs_usb_xmit_callback logs, and only logs.
TxUrbFails ==
    /\ UrbsFail
    /\ \E f \in out :
          /\ out' = out \ {f}
          /\ lost' = lost \cup {f}
    /\ UNCHANGED <<stack, driver, xmit, callback, receiving, device, in, fates, clash>>

\* The device wins arbitration with one of its frames and echoes it.
Transmit ==
    \E f \in device :
       /\ device' = device \ {f}
       /\ wire' = wire \cup {f.skb}
       /\ in' = Append(in, f)
       /\ UNCHANGED <<stack, driver, xmit, callback, receiving, out, lost, echoed, dropped,
                      clash>>

(***************************************************************************)
(* ndo_stop and ndo_open                                                   *)
(***************************************************************************)

\* __dev_close: from here start_xmit is not called, the callback returns early.
CloseBegin ==
    /\ opened /\ running
    /\ running' = FALSE
    /\ UNCHANGED <<present, opened, queue, next, reopens, driver, xmit, callback,
                   pipes, fates, clash>>

\* Mutant: the anchored TX URBs are not killed.
CloseKeepsUrbs ==
    /\ opened /\ ~running /\ xmit = Idle /\ callback = NoEcho
    /\ opened' = FALSE
    /\ queue' = FALSE
    /\ active_tx_urbs' = 0
    /\ echo_id' = [i \in Ids |-> MaxTxUrbs]
    /\ echo_skb' = [i \in Ids |-> NoSkb]
    /\ dropped' = dropped \cup ({echo_skb[i] : i \in Ids} \ {NoSkb})
    /\ lost' = {} /\ device' = {} /\ in' = <<>>
    /\ UNCHANGED <<present, running, next, reopens, xmit, callback, receiving, out,
                   wire, echoed, clash>>

\* gs_can_close, once the stack has waited for both threads.
Close ==
    /\ opened /\ ~running /\ xmit = Idle /\ callback = NoEcho
    /\ opened' = FALSE
    /\ queue' = FALSE
    /\ active_tx_urbs' = 0
    /\ echo_id' = [i \in Ids |-> MaxTxUrbs]
    /\ echo_skb' = [i \in Ids |-> NoSkb]
    /\ dropped' = dropped \cup ({echo_skb[i] : i \in Ids} \ {NoSkb})
    /\ out' = {} /\ lost' = {}
    /\ IF ResetForgets
       THEN device' = {} /\ in' = <<>>
       ELSE UNCHANGED <<device, in>>
    /\ UNCHANGED <<present, running, next, reopens, xmit, callback, receiving, wire,
                   echoed, clash>>

\* The part of gs_can_open that the transmit path sees (of a channel that is not
\* in listen-only mode, in which the queue stays stopped).  It submits the RX URBs
\* unless another channel is open.
Open ==
    /\ ~opened /\ present /\ reopens < NReopens
    /\ running' = TRUE /\ opened' = TRUE /\ queue' = TRUE
    /\ reopens' = reopens + 1
    /\ receiving' \in {receiving, TRUE}
    /\ UNCHANGED <<present, next, driver, xmit, callback, out, lost, device, in, fates,
                   clash>>

-----------------------------------------------------------------------------
XmitStart    == DropInvalid \/ AllocTxContext \/ TxBusy
XmitContinue == \/ NoMem \/ PutEchoSkb \/ IncActive \/ SubmitTxUrb
                \/ SubmitFails \/ FreeEchoSkb \/ ClearEchoSkb
                \/ GiveBackTxContext \/ EndFailedXmit \/ ReadActive \/ StopQueue
CallbackStep == \/ ReceiveEcho \/ IgnoreEcho \/ LogUnusedEchoId
                \/ ReadEchoSkb \/ StampEchoSkb \/ TakeEchoSkb \/ LoopBackEchoSkb
                \/ FreeTxContext \/ DecActive \/ WakeQueue

Next == \/ XmitStart \/ XmitContinue \/ CallbackStep
        \/ LoseRxUrb \/ Detach \/ TxUrbDone \/ TxUrbFails \/ Transmit
        \/ CloseBegin \/ Close \/ Open

Spec == Init /\ [][Next]_vars

(***************************************************************************)
(* A thread that runs goes on to its end, USB transfers what it accepted,  *)
(* the device wins arbitration sooner or later, a close that has begun is  *)
(* carried through, and the USB core closes a device that has vanished.    *)
(* Nobody is obliged to send, and no close or open is otherwise due.       *)
(***************************************************************************)
Fairness ==
    /\ WF_vars(XmitContinue) /\ WF_vars(CallbackStep)
    /\ WF_vars(TxUrbDone) /\ WF_vars(Transmit)
    /\ WF_vars(Close) /\ WF_vars(CloseBegin /\ ~present)

FairSpec == Spec /\ Fairness

-----------------------------------------------------------------------------
(***************************************************************************)
(* Properties.                                                             *)
(***************************************************************************)

XmitPcs     == {"idle", "allocated", "put", "counted", "submitted", "full",
                "undo", "killed", "cleared", "undone"}
CallbackPcs == {"idle", "unused", "found", "read", "stamped", "took", "taken",
                "freed", "uncounted"}

StackTypeOK ==
    /\ present \in BOOLEAN /\ running \in BOOLEAN
    /\ opened \in BOOLEAN /\ queue \in BOOLEAN
    /\ next \in 1 .. NSkbs + 1 /\ reopens \in 0 .. NReopens

\* A context's echo_id is its own index or the value that marks it free.
DriverTypeOK ==
    /\ echo_id \in [Ids -> 0 .. MaxTxUrbs]
    /\ \A i \in Ids : echo_id[i] \in {i, MaxTxUrbs}
    /\ echo_skb \in [Ids -> Skbs \cup {NoSkb}]
    /\ active_tx_urbs \in Int

\* A thread that is not idle has the index of a context and the skb of a frame.
ThreadTypeOK ==
    /\ xmit \in [pc : XmitPcs, id : Ids, skb : Skbs \cup {NoSkb}]
    /\ callback \in [pc : CallbackPcs, id : Ids, skb : Skbs \cup {NoSkb},
                    seen : Skbs \cup {NoSkb}]
    /\ xmit.pc # "idle" => xmit.skb \in Skbs
    /\ callback.pc # "idle" => callback.skb \in Skbs
    /\ callback.pc = "took" => callback.seen \in Skbs

OutsideTypeOK ==
    /\ receiving \in BOOLEAN /\ clash \in BOOLEAN
    /\ out \subseteq Frames /\ lost \subseteq Frames /\ device \subseteq Frames
    /\ in \in Seq(Frames)
    /\ wire \subseteq Skbs /\ echoed \subseteq Skbs /\ dropped \subseteq Skbs

\* Type invariant.
TypeOK == StackTypeOK /\ DriverTypeOK /\ ThreadTypeOK /\ OutsideTypeOK

\* The frame of a thread that is at one of the given steps.
FrameOf(thread, pcs) ==
    IF thread.pc \in pcs THEN {[id |-> thread.id, skb |-> thread.skb]} ELSE {}

\* start_xmit has a context, then also a slot, until the URB is submitted or both
\* are given up; the callback finds a context and takes the skb from its slot, then
\* frees it.
Allocated == FrameOf(xmit, {"allocated", "cleared"})
Sending   == FrameOf(xmit, {"put", "counted", "undo", "killed"})
Found     == FrameOf(callback, {"found", "read", "stamped", "took"})
Taken     == FrameOf(callback, {"taken"})

\* Frames the driver has submitted and not seen again.
Submitted == out \cup lost \cup device \cup Held(in)

Users == Allocated \cup Sending \cup Submitted \cup Found \cup Taken

Distinct(s) == \A k, l \in DOMAIN s : s[k] = s[l] => k = l

\* The places where a frame with a context can be are disjoint.
OnePlace ==
    /\ out \cap lost = {} /\ out \cap device = {} /\ lost \cap device = {}
    /\ Held(in) \cap (out \cup lost \cup device) = {}
    /\ (Allocated \cup Sending) \cap Submitted = {}
    /\ (Found \cup Taken) \cap (Submitted \cup Allocated \cup Sending) = {}
    /\ Distinct(in)

\* A context in use belongs to exactly one frame, which is in one place, and a
\* free one to none: no interleaving of gs_can_start_xmit with the callback leaks
\* a context or gives it to two frames.
ContextOwned ==
    /\ \A i \in Ids : Free(i) <=> \A f \in Users : f.id # i
    /\ \A f, g \in Users : f.id = g.id => f = g
    /\ OnePlace

\* The skb that an echo will complete is the one that was sent with it: while
\* its frame is under way, the slot of its echo_id holds that skb.
EchoFindsItsSkb == \A f \in Sending \cup Submitted \cup Found : echo_skb[f.id] = f.skb

\* A free context has an empty echo_skb slot, so that can_put_echo_skb never
\* finds its slot occupied.
FreeContextFreeSlot == \A i \in Ids : Free(i) => echo_skb[i] = NoSkb

\* active_tx_urbs counts the contexts in use, up to the steps between taking or
\* freeing a context and counting it.
ActiveTxUrbsExact ==
    active_tx_urbs = Cardinality({i \in Ids : ~Free(i)})
                     - Cardinality(FrameOf(xmit, {"allocated", "put", "undo",
                                                  "killed", "cleared"}))
                     + Cardinality(FrameOf(callback, {"freed"}))

\* An skb is looped back or freed, never both; no slot keeps one that was, save the
\* one start_xmit is emptying; and the skb the callback is about to stamp or to loop
\* back was not freed.  This holds whatever the device echoes, stale echoes included,
\* with one exception: a stale echo handled while start_xmit gives up the frame of
\* the same echo_id, whose slot both then work on without a lock.
SettledOnce ==
    \/ clash
    \/ /\ echoed \cap dropped = {}
       /\ \A i \in Ids : \/ echo_skb[i] \notin echoed \cup dropped
                         \/ At(xmit, "killed") /\ xmit.id = i
       /\ \A i, j \in Ids : echo_skb[i] = echo_skb[j] /\ i # j => echo_skb[i] = NoSkb
       /\ callback.pc \in {"read", "took"} => callback.seen \notin echoed \cup dropped

\* "bad devices send bad echo_ids" (gs_usb.c:649): a device that echoes each frame
\* once, with its own echo_id, is never blamed for an unused one, and its echoes
\* never meet a start_xmit that gives up the same echo_id.
GoodDeviceNotBlamed == callback.pc # "unused" /\ ~clash

\* "Slow down tx path" (gs_usb.c:845): a queue that gs_can_start_xmit stopped is
\* slowed, that is, an echo is to come whose callback wakes it.
StoppedQueueWillBeWoken ==
    opened /\ running /\ present /\ ~queue
       => Submitted # {} \/ callback.pc \notin {"idle", "unused"}

\* Every skb taken from the stack is looped back to the sockets or freed, with three
\* exceptions, in which it may wait in its slot for the close: its TX URB completed
\* with an error (gs_usb.c:750), the RX URB with its echo was lost (gs_usb.c:586), or
\* no RX URB is left to bring the echo (gs_usb.c:612, 626, 690).
EverySkbSettles ==
    \A s \in Skbs :
       s < next ~> s \in echoed \cup dropped \cup {f.skb : f \in lost} \/ ~receiving

-----------------------------------------------------------------------------
\* The skbs in the slots, but for one that is freed and about to leave its slot.
Slots == {echo_skb[i] : i \in Ids}
         \ ({NoSkb} \cup {f.skb : f \in FrameOf(xmit, {"killed"})})

\* What the channel promises the stack: see TxService.
Service == INSTANCE TxService
              WITH Window <- MaxTxUrbs, held <- Slots

ImplementsTxService == Service!Spec
=============================================================================
