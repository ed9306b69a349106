--------------------------- MODULE GsUsbChannels ---------------------------
(***************************************************************************)
(* The life of a device and of its channels in the SocketCAN driver        *)
(* (kernel/6.14/gs_usb.c): probe, ndo_open, ndo_stop and disconnect.  The  *)
(* channels share the RX URBs and the timestamp worker: the first channel  *)
(* to open starts them and the last one to close stops them.               *)
(*                                                                         *)
(* ndo_open and ndo_stop run under the rtnl lock, an open in several       *)
(* steps, because each of them can fail.  Meanwhile the receive callback   *)
(* loses RX URBs or detaches the interfaces, the device is unplugged, and  *)
(* probe registers further channels.                                       *)
(***************************************************************************)
EXTENDS Integers, FiniteSets

CONSTANTS
    NChannels,       \* icount: channels of the device
    TsChannels,      \* channels with GS_CAN_FEATURE_HW_TIMESTAMP
    MaxRxUrbs,       \* GS_MAX_RX_URBS
    OpenMayFail,     \* allocations and transfers of an open may fail
    MaxOpens,        \* bound: number of opens
    MaxLosses        \* bound: RX URBs that are not submitted again

Channels == 0 .. NChannels - 1
NoOne    == NChannels

ASSUME ChannelsAssumption == NChannels \in Nat \ {0} /\ TsChannels \subseteq Channels
ASSUME LimitsAssumption ==
    MaxRxUrbs \in Nat \ {0} /\ MaxOpens \in Nat /\ MaxLosses \in Nat
ASSUME FailAssumption == OpenMayFail \in BOOLEAN

VARIABLES
    phase,      \* of the interface: probing, bound, failing, disconnecting, gone
    plugged,    \* the device still answers
    made,       \* channels 0 .. made - 1 have been registered
    destroyed,  \* of these 0 .. destroyed - 1 are unregistered
    present,    \* channels with netif_device_present
    up,         \* channels that are open
    started,    \* channels the device runs (GS_CAN_MODE_START, no RESET since)
    opener,     \* the channel whose ndo_open holds the rtnl lock, or NoOne
    step,       \* what that ndo_open does next: "none", "urbs", "start", "undo"
    active,     \* active_channels
    rx,         \* RX URBs submitted (rx_submitted)
    worker,     \* the timestamp worker is scheduled
    opens,      \* opens so far
    losses      \* RX URBs lost so far

lock  == <<opener, step>>
intf  == <<phase, plugged, made, destroyed>>
chans == <<present, up, started>>
rest  == <<active, rx, worker, opens, losses>>
vars  == <<intf, chans, lock, rest>>

\* Channels that user space can open or close.
Registered == destroyed .. made - 1

Init ==
    /\ phase = "probing" /\ plugged = TRUE /\ made = 0 /\ destroyed = 0
    /\ present = {} /\ up = {} /\ started = {}
    /\ opener = NoOne /\ step = "none"
    /\ active = 0 /\ rx = 0 /\ worker = FALSE /\ opens = 0 /\ losses = 0

-----------------------------------------------------------------------------
(***************************************************************************)
(* gs_usb_probe                                                            *)
(***************************************************************************)

\* gs_make_candev registers one more channel; it can be opened from then on.
MakeCandev ==
    /\ phase = "probing" /\ opener = NoOne
    /\ made' = made + 1
    /\ present' = present \cup {made}
    /\ phase' = IF made + 1 = NChannels THEN "bound" ELSE "probing"
    /\ UNCHANGED <<plugged, destroyed, up, started, lock, rest>>

\* It fails: the channels made so far are destroyed.
MakeCandevFails ==
    /\ phase = "probing" /\ opener = NoOne
    /\ phase' = "failing"
    /\ UNCHANGED <<plugged, made, destroyed, chans, lock, rest>>

(***************************************************************************)
(* gs_can_open                                                             *)
(***************************************************************************)

OpenBegin(c) ==
    /\ opener = NoOne /\ opens < MaxOpens
    /\ c \in Registered \ up /\ c \in present
    /\ opener' = c
    /\ opens' = opens + 1
    /\ IF active = 0
       THEN step' = "urbs" /\ worker' = (worker \/ c \in TsChannels)
       ELSE step' = "start" /\ UNCHANGED worker
    /\ UNCHANGED <<intf, chans, active, rx, losses>>

SubmitRxUrbs ==
    /\ step = "urbs" /\ plugged
    /\ rx' = rx + MaxRxUrbs
    /\ step' = "start"
    /\ UNCHANGED <<intf, chans, opener, active, worker, opens, losses>>

\* No memory, or usb_submit_urb fails, after n of the URBs; -ENODEV detaches.
SubmitRxUrbsFails ==
    /\ step = "urbs" /\ (OpenMayFail \/ ~plugged)
    /\ \E n \in IF plugged THEN 0 .. MaxRxUrbs - 1 ELSE {0} : rx' = rx + n
    /\ \/ UNCHANGED present
       \/ present' = present \ {opener}
    /\ step' = "undo"
    /\ UNCHANGED <<intf, up, started, opener, active, worker, opens, losses>>

\* GS_USB_BREQ_MODE with GS_CAN_MODE_START.
StartDevice ==
    /\ step = "start" /\ plugged
    /\ started' = started \cup {opener}
    /\ up' = up \cup {opener}
    /\ active' = active + 1
    /\ opener' = NoOne /\ step' = "none"
    /\ UNCHANGED <<intf, present, rx, worker, opens, losses>>

StartDeviceFails ==
    /\ step = "start" /\ (OpenMayFail \/ ~plugged)
    /\ step' = "undo"
    /\ UNCHANGED <<intf, chans, opener, rest>>

\* Mutant: the error path leaves the timestamp worker alone.
UndoOpenKeepsWorker ==
    /\ step = "undo"
    /\ opener' = NoOne /\ step' = "none"
    /\ UNCHANGED <<intf, chans, rest>>

\* Mutant: the error path returns without releasing the lock.
UndoOpenKeepsLock ==
    /\ step = "undo"
    /\ worker' = (worker /\ (active > 0 \/ opener \notin TsChannels))
    /\ step' = "none"
    /\ UNCHANGED <<intf, chans, opener, active, rx, opens, losses>>

\* Label out_usb_kill_anchored_urbs: it kills the channel's TX URBs, of which
\* there are none, and leaves the RX URBs where they are.
UndoOpen ==
    /\ step = "undo"
    /\ worker' = (worker /\ (active > 0 \/ opener \notin TsChannels))
    /\ opener' = NoOne /\ step' = "none"
    /\ UNCHANGED <<intf, chans, active, rx, opens, losses>>

(***************************************************************************)
(* gs_can_close                                                            *)
(***************************************************************************)

\* Mutant: a close that leaves one channel open stops polling for it.
StopPollingEarly(c) ==
    /\ active' = active - 1
    /\ IF active <= 2
       THEN rx' = 0 /\ losses' = 0 /\ worker' = (worker /\ c \notin TsChannels)
       ELSE UNCHANGED <<rx, losses, worker>>

\* The last channel kills the RX URBs and stops the worker.
StopPolling(c) ==
    /\ active' = active - 1
    /\ IF active = 1
       THEN rx' = 0 /\ losses' = 0 /\ worker' = (worker /\ c \notin TsChannels)
       ELSE UNCHANGED <<rx, losses, worker>>

\* Mutant: a channel can be closed again.
CloseAgain(c) ==
    /\ UNCHANGED <<up, started>>
    /\ StopPolling(c)

\* The result of gs_cmd_reset is not looked at.
CloseChannel(c) ==
    /\ up' = up \ {c}
    /\ \/ plugged /\ started' = started \ {c}
       \/ UNCHANGED started
    /\ StopPolling(c)

Close(c) ==
    /\ opener = NoOne /\ c \in up
    /\ CloseChannel(c)
    /\ UNCHANGED <<intf, present, lock, opens>>

(***************************************************************************)
(* gs_usb_receive_bulk_callback, where it does not submit its URB again    *)
(***************************************************************************)

\* The URB failed, no skb, the channel is detached, or submitting it failed.
LoseRxUrb ==
    /\ rx > 0 /\ losses < MaxLosses
    /\ rx' = rx - 1 /\ losses' = losses + 1
    /\ UNCHANGED <<intf, chans, lock, active, worker, opens>>

\* Label device_detach: a channel out of range, or -ENODEV.
DetachAll ==
    /\ rx > 0 /\ losses < MaxLosses
    /\ rx' = rx - 1 /\ losses' = losses + 1
    /\ present' = {}
    /\ UNCHANGED <<intf, up, started, lock, active, worker, opens>>

(***************************************************************************)
(* Unplugging, gs_usb_disconnect and the end of a failed probe             *)
(***************************************************************************)

\* The USB core ends all URBs and then calls gs_usb_disconnect.
Disconnect ==
    /\ phase = "bound"
    /\ plugged' = FALSE
    /\ phase' = "disconnecting"
    /\ losses' = losses + rx
    /\ rx' = 0
    /\ UNCHANGED <<made, destroyed, chans, lock, active, worker, opens>>

\* Mutant: the channel is not closed first.
DestroyOpenCandev ==
    /\ phase \in {"failing", "disconnecting"} /\ opener = NoOne
    /\ destroyed < made
    /\ up' = up \ {destroyed}
    /\ destroyed' = destroyed + 1
    /\ UNCHANGED <<phase, plugged, made, present, started, lock, rest>>

\* gs_destroy_candev: unregister_candev closes a channel that is open.
DestroyCandev ==
    /\ phase \in {"failing", "disconnecting"} /\ opener = NoOne
    /\ destroyed < made
    /\ IF destroyed \in up
       THEN CloseChannel(destroyed)
       ELSE UNCHANGED <<up, started, active, rx, worker, losses>>
    /\ destroyed' = destroyed + 1
    /\ UNCHANGED <<phase, plugged, made, present, lock, opens>>

\* All are destroyed: a failed probe kills the RX URBs; parent is freed.
FreeParent ==
    /\ phase \in {"failing", "disconnecting"} /\ destroyed = made
    /\ rx' = IF phase = "failing" THEN 0 ELSE rx
    /\ losses' = IF phase = "failing" THEN 0 ELSE losses
    /\ phase' = "gone"
    /\ UNCHANGED <<plugged, made, destroyed, chans, lock, active, worker, opens>>

-----------------------------------------------------------------------------
OpenStep == \/ SubmitRxUrbs \/ SubmitRxUrbsFails \/ StartDevice
            \/ StartDeviceFails \/ UndoOpen

Next ==
    \/ MakeCandev \/ MakeCandevFails
    \/ \E c \in Channels : OpenBegin(c) \/ Close(c)
    \/ OpenStep
    \/ LoseRxUrb \/ DetachAll
    \/ Disconnect \/ DestroyCandev \/ FreeParent

Spec == Init /\ [][Next]_vars

\* An open goes on to its end, probe and disconnect go on to theirs; nobody need
\* open or close a channel or unplug the device.
FairSpec ==
    /\ Spec
    /\ WF_vars(OpenStep) /\ WF_vars(MakeCandev)
    /\ SF_vars(DestroyCandev) /\ WF_vars(FreeParent)

-----------------------------------------------------------------------------
(***************************************************************************)
(* Properties.                                                             *)
(***************************************************************************)

\* Type invariant.
TypeOK ==
    /\ phase \in {"probing", "bound", "failing", "disconnecting", "gone"}
    /\ plugged \in BOOLEAN /\ worker \in BOOLEAN
    /\ made \in 0 .. NChannels /\ destroyed \in 0 .. made
    /\ present \subseteq Channels /\ up \subseteq Channels /\ started \subseteq Channels
    /\ opener \in Channels \cup {NoOne} /\ step \in {"none", "urbs", "start", "undo"}
    /\ active \in Nat /\ rx \in Nat /\ opens \in Nat /\ losses \in Nat

\* active_channels, by which an open decides to start the shared RX URBs and a
\* close to stop them, is the number of open channels, whatever failed or vanished.
ActiveChannelsExact == active = Cardinality(up)

\* While a channel is open the RX URBs of the channels are submitted, but for those
\* the callback has lost: closing a channel, or failing to open one, does not take
\* reception away from another.
ReceptionGoesOn == up # {} => rx + losses >= MaxRxUrbs

\* The timestamp worker runs while a channel with hardware timestamps is open, and
\* does not when no channel is open, after failed opens too.
WorkerWhileOpen ==
    /\ up \cap TsChannels # {} => worker
    /\ up = {} /\ opener = NoOne => ~worker

\* Nothing that uses struct gs_usb outlives its kfree.
NothingOutlivesParent ==
    phase = "gone" => up = {} /\ opener = NoOne /\ active = 0 /\ rx = 0 /\ ~worker

\* "Only launch a max of GS_MAX_RX_URBS usb requests at a time" (gs_usb.c:285).
RxUrbsLimited == rx <= MaxRxUrbs

\* A disconnect or a failed probe comes to its end, although channels are opened
\* and closed meanwhile.
DestructionEnds == phase \in {"failing", "disconnecting"} ~> phase = "gone"
=============================================================================
