------------------------ MODULE GsUsbChannelsProofs ------------------------
(***************************************************************************)
(* Proofs about GsUsbChannels, for every number of channels, of RX URBs,   *)
(* of opens and of failures.                                               *)
(***************************************************************************)
EXTENDS GsUsbChannels, FiniteSetTheorems, TLAPS

USE ChannelsAssumption, LimitsAssumption, FailAssumption DEF Channels, NoOne

-----------------------------------------------------------------------------
(***************************************************************************)
(* The inductive invariant.                                                *)
(***************************************************************************)

\* The rtnl lock is held by the ndo_open of a channel that is registered and not
\* open yet; what is open is registered.
LockHeld ==
    /\ opener = NoOne <=> step = "none"
    /\ opener # NoOne => opener \in Registered \ up
    /\ up \subseteq Registered

\* probe registers, disconnect unregisters, and polls no more.
Phases ==
    /\ phase = "probing" => made < NChannels
    /\ phase \in {"probing", "bound"} => destroyed = 0
    /\ phase = "disconnecting" => ~plugged /\ rx = 0
    /\ phase = "gone" => destroyed = made /\ rx = 0

\* An open submits the RX URBs if it is the first, and starts the device only when
\* they were submitted.
UrbsFirst ==
    /\ step = "urbs" => up = {}
    /\ step = "start" => rx + losses >= MaxRxUrbs

IInv == TypeOK /\ ActiveChannelsExact /\ LockHeld /\ Phases /\ UrbsFirst /\ ReceptionGoesOn

-----------------------------------------------------------------------------
(***************************************************************************)
(* active_channels as a cardinality.                                       *)
(***************************************************************************)

\* A set of channels is finite, and its size is 0 only for the empty set.
LEMMA ChannelSets ==
  ASSUME NEW S \in SUBSET Channels
  PROVE  /\ IsFiniteSet(S) /\ Cardinality(S) \in Nat
         /\ Cardinality(S) = 0 <=> S = {}
<1>1. IsFiniteSet(Channels)
  <2>1. 0 \in Int /\ NChannels - 1 \in Int OBVIOUS
  <2> QED BY <2>1, FS_Interval
<1>2. IsFiniteSet(S) BY <1>1, FS_Subset
<1> QED BY <1>2, FS_CardinalityType, FS_EmptySet

\* One channel more is open.
LEMMA OneMoreOpen ==
  ASSUME NEW S \in SUBSET Channels, NEW c \in Channels \ S
  PROVE  Cardinality(S \cup {c}) = Cardinality(S) + 1
BY ChannelSets, FS_AddElement

\* One less; it was the only one if the size was 1.
LEMMA OneLessOpen ==
  ASSUME NEW S \in SUBSET Channels, NEW c \in S
  PROVE  /\ Cardinality(S \ {c}) = Cardinality(S) - 1
         /\ Cardinality(S) \in Nat \ {0}
         /\ S \ {c} = {} <=> Cardinality(S) = 1
<1>1. Cardinality(S \ {c}) = Cardinality(S) - 1 BY ChannelSets, FS_RemoveElement
<1>2. Cardinality(S \ {c}) = 0 <=> S \ {c} = {}
  <2>1. S \ {c} \in SUBSET Channels OBVIOUS
  <2> QED BY <2>1, ChannelSets
<1>3. Cardinality(S) \in Nat /\ Cardinality(S) # 0 BY ChannelSets
<1> QED BY <1>1, <1>2, <1>3

-----------------------------------------------------------------------------
\* Registering channels keeps the invariant.
LEMMA ProbeStep ==
  ASSUME IInv, MakeCandev \/ MakeCandevFails PROVE IInv'
<1> USE DEF IInv, TypeOK, LockHeld, Phases, UrbsFirst, ReceptionGoesOn, ActiveChannelsExact,
            Registered, chans, lock, rest
<1>1. CASE MakeCandev
  <2>1. made' \in 0 .. NChannels /\ made \in Channels BY <1>1 DEF MakeCandev
  <2> QED BY <1>1, <2>1 DEF MakeCandev
<1>2. CASE MakeCandevFails BY <1>2 DEF MakeCandevFails
<1> QED BY <1>1, <1>2

\* gs_can_open keeps the invariant, step by step.
LEMMA OpenSteps ==
  ASSUME IInv, (\E c \in Channels : OpenBegin(c)) \/ OpenStep PROVE IInv'
<1> USE DEF IInv, TypeOK, LockHeld, Phases, UrbsFirst, ReceptionGoesOn, ActiveChannelsExact,
            Registered, intf, chans, lock, rest
<1>1. ASSUME NEW c \in Channels, OpenBegin(c) PROVE IInv'
  <2>1. active = 0 <=> up = {} BY ChannelSets
  <2>2. worker' \in BOOLEAN BY <1>1 DEF OpenBegin
  <2>3. UNCHANGED <<intf, chans, active, rx, losses>> BY <1>1 DEF OpenBegin
  <2>4. /\ opener' = c /\ opens' = opens + 1 /\ step' \in {"urbs", "start"}
        /\ step' = "urbs" => up = {}
        /\ step' = "start" => up # {}
        /\ c \in Registered \ up
    BY <1>1, <2>1 DEF OpenBegin
  <2> QED BY <2>2, <2>3, <2>4
<1>2. CASE SubmitRxUrbs BY <1>2 DEF SubmitRxUrbs
<1>3. CASE SubmitRxUrbsFails
  <2>1. PICK n \in Nat : rx' = rx + n /\ (~plugged => n = 0)
    BY <1>3 DEF SubmitRxUrbsFails
  <2>2. present' \subseteq Channels /\ step' = "undo" /\ opener # NoOne
    BY <1>3 DEF SubmitRxUrbsFails
  <2>3. UNCHANGED <<intf, up, started, opener, active, worker, opens, losses>>
    BY <1>3 DEF SubmitRxUrbsFails
  <2> QED BY <2>1, <2>2, <2>3
<1>4. CASE StartDevice
  <2>1. opener \in Channels \ up BY <1>4 DEF StartDevice
  <2>2. active + 1 = Cardinality(up \cup {opener}) BY <2>1, OneMoreOpen
  <2> QED BY <1>4, <2>1, <2>2 DEF StartDevice
<1>5. CASE StartDeviceFails BY <1>5 DEF StartDeviceFails
<1>6. CASE UndoOpen BY <1>6 DEF UndoOpen
<1> QED BY <1>1, <1>2, <1>3, <1>4, <1>5, <1>6 DEF OpenStep

\* What closing a channel does to the shared state.
LEMMA ClosingOne ==
  ASSUME IInv, NEW c \in up, CloseChannel(c)
  PROVE  /\ up' = up \ {c} /\ started' \subseteq Channels
         /\ active' \in Nat /\ active' = Cardinality(up')
         /\ rx' \in Nat /\ losses' \in Nat /\ worker' \in BOOLEAN
         /\ rx = 0 => rx' = 0
         /\ up' # {} => UNCHANGED <<rx, losses, worker>>
         /\ up' = {} => worker' = (worker /\ c \notin TsChannels)
<1> USE DEF IInv, TypeOK, ActiveChannelsExact
<1>1. up' = up \ {c} /\ started' \subseteq Channels BY DEF CloseChannel
<1>2. active' = active - 1 BY DEF CloseChannel, StopPolling
<1>3. active \in Nat \ {0} /\ Cardinality(up') = active - 1 /\ (up' = {} <=> active = 1)
  BY <1>1, OneLessOpen
<1>4. worker' \in BOOLEAN BY DEF CloseChannel, StopPolling
<1>5. active = 1 => rx' = 0 /\ losses' = 0 /\ worker' = (worker /\ c \notin TsChannels)
  BY DEF CloseChannel, StopPolling
<1>6. active # 1 => UNCHANGED <<rx, losses, worker>>
  BY DEF CloseChannel, StopPolling
<1>7. rx' \in Nat /\ losses' \in Nat /\ (rx = 0 => rx' = 0)
  <2>1. (rx' = 0 /\ losses' = 0) \/ (rx' = rx /\ losses' = losses) BY <1>5, <1>6
  <2> QED BY <2>1
<1>8. active' \in Nat /\ active' = Cardinality(up') BY <1>2, <1>3
<1> QED BY <1>1, <1>3, <1>4, <1>5, <1>6, <1>7, <1>8, Zenon

\* gs_can_close, and the close that comes with unregistering, keep the invariant.
LEMMA CloseSteps ==
  ASSUME IInv, (\E c \in Channels : Close(c)) \/ DestroyCandev PROVE IInv'
<1> USE DEF IInv, TypeOK, LockHeld, Phases, UrbsFirst, ReceptionGoesOn, ActiveChannelsExact,
            Registered, intf, lock
<1>1. ASSUME NEW c \in Channels, Close(c) PROVE IInv'
  <2>1. c \in up /\ CloseChannel(c) /\ opener = NoOne BY <1>1 DEF Close
  <2>2. UNCHANGED <<intf, present, lock, opens>> BY <1>1 DEF Close
  <2> QED BY <2>1, <2>2, ClosingOne
<1>2. CASE DestroyCandev
  <2>1. /\ destroyed < made /\ destroyed' = destroyed + 1 /\ opener = NoOne
        /\ phase \in {"failing", "disconnecting"}
        /\ UNCHANGED <<phase, plugged, made, present, lock, opens>>
    BY <1>2 DEF DestroyCandev
  <2>2. CASE destroyed \in up
    <3>1. CloseChannel(destroyed) BY <1>2, <2>2 DEF DestroyCandev
    <3>2. /\ up' = up \ {destroyed} /\ started' \subseteq Channels
          /\ active' \in Nat /\ active' = Cardinality(up')
          /\ rx' \in Nat /\ losses' \in Nat /\ worker' \in BOOLEAN
          /\ rx = 0 => rx' = 0
          /\ up' # {} => rx' = rx /\ losses' = losses
      BY <2>2, <3>1, ClosingOne
    <3>3. TypeOK' BY <2>1, <3>2
    <3>4. LockHeld' BY <2>1, <3>2
    <3>5. Phases' /\ UrbsFirst' BY <2>1, <3>2
    <3>6. ReceptionGoesOn' /\ ActiveChannelsExact' BY <3>2
    <3> QED BY <3>3, <3>4, <3>5, <3>6
  <2>3. CASE destroyed \notin up
    <3>1. UNCHANGED <<up, started, active, rx, worker, losses>>
      BY <1>2, <2>3 DEF DestroyCandev
    <3> QED BY <2>1, <2>3, <3>1
  <2> QED BY <2>2, <2>3
<1> QED BY <1>1, <1>2

\* Losing RX URBs, unplugging and the last kfree keep the invariant.
LEMMA OtherSteps ==
  ASSUME IInv, LoseRxUrb \/ DetachAll \/ Disconnect \/ FreeParent \/ UNCHANGED vars
  PROVE  IInv'
<1> USE DEF IInv, TypeOK, LockHeld, Phases, UrbsFirst, ReceptionGoesOn, ActiveChannelsExact,
            Registered, intf, chans, lock, rest
<1>1. CASE LoseRxUrb BY <1>1 DEF LoseRxUrb
<1>2. CASE DetachAll BY <1>2 DEF DetachAll
<1>3. CASE Disconnect
  <2>1. ~plugged' /\ plugged' \in BOOLEAN BY <1>3 DEF Disconnect
  <2>2. /\ phase = "bound" /\ phase' = "disconnecting" /\ losses' = losses + rx /\ rx' = 0
        /\ UNCHANGED <<made, destroyed, chans, lock, active, worker, opens>>
    BY <1>3 DEF Disconnect
  <2> QED BY <2>1, <2>2
<1>4. CASE FreeParent
  <2>1. up = {} /\ opener = NoOne BY <1>4 DEF FreeParent
  <2> QED BY <1>4, <2>1 DEF FreeParent
<1>5. CASE UNCHANGED vars BY <1>5 DEF vars
<1> QED BY <1>1, <1>2, <1>3, <1>4, <1>5

\* The inductive invariant holds in every order of opens, closes, failures and
\* unplugging.
THEOREM InductiveInvariant == Spec => []IInv
<1>1. Init => IInv
  <2> SUFFICES ASSUME Init PROVE IInv
    OBVIOUS
  <2>1. Cardinality(up) = 0 BY FS_EmptySet DEF Init
  <2>2. TypeOK
    <3>1. plugged \in BOOLEAN /\ worker \in BOOLEAN BY DEF Init
    <3> QED BY <3>1 DEF Init, TypeOK
  <2>3. ActiveChannelsExact BY <2>1 DEF Init, ActiveChannelsExact
  <2>4. LockHeld /\ Phases /\ UrbsFirst /\ ReceptionGoesOn
    BY DEF Init, LockHeld, Phases, UrbsFirst, ReceptionGoesOn, Registered
  <2> QED BY <2>2, <2>3, <2>4 DEF IInv
<1>2. IInv /\ [Next]_vars => IInv'
  BY ProbeStep, OpenSteps, CloseSteps, OtherSteps DEF Next
<1> QED BY <1>1, <1>2, PTL DEF Spec

\* All variables keep their types.
THEOREM TypeCorrect == Spec => []TypeOK
<1>1. IInv => TypeOK BY DEF IInv
<1> QED BY <1>1, InductiveInvariant, PTL

\* active_channels is the number of open channels, whatever fails or vanishes
\* (gs_usb.c:899, 988, 1056).
THEOREM ActiveChannelsCounted == Spec => []ActiveChannelsExact
<1>1. IInv => ActiveChannelsExact BY DEF IInv
<1> QED BY <1>1, InductiveInvariant, PTL

\* No close and no failed open of a channel takes the shared RX URBs from another.
THEOREM ReceptionKept == Spec => []ReceptionGoesOn
<1>1. IInv => ReceptionGoesOn BY DEF IInv
<1> QED BY <1>1, InductiveInvariant, PTL

-----------------------------------------------------------------------------
(***************************************************************************)
(* The timestamp worker.  It is scheduled by the first channel to open,    *)
(* and cancelled by the last to close, if that channel has hardware        *)
(* timestamps: this is right for devices whose channels are all alike.     *)
(***************************************************************************)
ChannelsAlike == TsChannels \in {{}, Channels}

\* A first open has scheduled the worker before anything else, and nothing
\* schedules it for a device without hardware timestamps.
WorkerScheduled ==
    /\ opener # NoOne /\ opener \in TsChannels /\ up = {} => worker
    /\ TsChannels = {} => ~worker

WInv == IInv /\ WorkerWhileOpen /\ WorkerScheduled

\* Steps that change neither the worker nor what it depends on.
LEMMA WorkerUntouched ==
  ASSUME WInv, IInv', UNCHANGED <<worker, up, opener>> PROVE WInv'
BY DEF WInv, WorkerWhileOpen, WorkerScheduled

\* Closing the last channel cancels the worker, closing another does not.
LEMMA WorkerClose ==
  ASSUME ChannelsAlike, WInv, IInv', NEW c \in up, CloseChannel(c), opener = NoOne,
         opener' = NoOne
  PROVE  WInv'
<1>1. up' = up \ {c} /\ (up' # {} => worker' = worker)
      /\ (up' = {} => worker' = (worker /\ c \notin TsChannels))
  BY ClosingOne DEF WInv
<1>2. c \in Channels BY DEF WInv, IInv, TypeOK
<1>3. CASE up' = {}
  <2>1. TsChannels = {} \/ c \in TsChannels BY <1>2 DEF ChannelsAlike
  <2>2. ~worker' BY <1>1, <1>3, <2>1, Zenon DEF WInv, WorkerScheduled
  <2> QED BY <1>3, <2>2, Zenon DEF WInv, WorkerWhileOpen, WorkerScheduled
<1>4. CASE up' # {}
  <2>1. worker' = worker BY <1>1, <1>4
  <2>2. up' \cap TsChannels # {} => up \cap TsChannels # {} BY <1>1
  <2> QED BY <1>4, <2>1, <2>2, Zenon DEF WInv, WorkerWhileOpen, WorkerScheduled
<1> QED BY <1>3, <1>4

\* Every step keeps the worker as the open channels need it.
LEMMA WorkerStep ==
  ASSUME ChannelsAlike, WInv, IInv', [Next]_vars PROVE WInv'
<1>1. ASSUME NEW c \in Channels, OpenBegin(c) PROVE WInv'
  <2>1. opener = NoOne /\ opener' = c /\ c # NoOne /\ up' = up
    BY <1>1 DEF OpenBegin, chans
  <2>2. active = 0 <=> up = {}
    BY ChannelSets DEF WInv, IInv, TypeOK, ActiveChannelsExact
  <2>3. CASE up = {}
    <3>1. worker' = (worker \/ c \in TsChannels) BY <1>1, <2>2, <2>3 DEF OpenBegin
    <3>2. up' \cap TsChannels = {} BY <2>1, <2>3
    <3> QED BY <2>1, <3>1, <3>2, Zenon DEF WInv, WorkerWhileOpen, WorkerScheduled
  <2>4. CASE up # {}
    <3>1. worker' = worker BY <1>1, <2>2, <2>4 DEF OpenBegin
    <3> QED BY <2>1, <2>4, <3>1, Zenon DEF WInv, WorkerWhileOpen, WorkerScheduled
  <2> QED BY <2>3, <2>4
<1>2. ASSUME NEW c \in Channels, Close(c) PROVE WInv'
  BY <1>2, WorkerClose DEF Close, lock
<1>3. CASE DestroyCandev
  <2>1. CASE destroyed \in up BY <1>3, <2>1, WorkerClose DEF DestroyCandev, lock
  <2>2. CASE destroyed \notin up
    BY <1>3, <2>2, WorkerUntouched DEF DestroyCandev, lock
  <2> QED BY <2>1, <2>2
<1>4. CASE StartDevice
  <2>1. /\ opener # NoOne /\ opener \in Channels /\ opener' = NoOne
        /\ up' = up \cup {opener} /\ worker' = worker
    BY <1>4 DEF StartDevice, WInv, IInv, LockHeld, TypeOK
  <2>2. up' \cap TsChannels # {} => worker
    <3>1. up' \cap TsChannels # {} => opener \in TsChannels \/ up \cap TsChannels # {}
      BY <2>1
    <3>2. opener \in TsChannels /\ up # {} => up \cap TsChannels # {}
      BY <2>1 DEF ChannelsAlike, WInv, IInv, TypeOK
    <3> QED BY <2>1, <3>1, <3>2, Zenon DEF WInv, WorkerWhileOpen, WorkerScheduled
  <2> QED BY <2>1, <2>2, Zenon DEF WInv, WorkerWhileOpen, WorkerScheduled
<1>5. CASE UndoOpen
  <2>1. /\ opener # NoOne /\ opener \in Channels /\ opener' = NoOne /\ up' = up
        /\ worker' = (worker /\ (active > 0 \/ opener \notin TsChannels))
    BY <1>5 DEF UndoOpen, chans, WInv, IInv, LockHeld, TypeOK
  <2>2. active > 0 <=> up # {}
    <3>1. up \in SUBSET Channels /\ active = Cardinality(up)
      BY DEF WInv, IInv, TypeOK, ActiveChannelsExact
    <3>2. active \in Nat /\ (active = 0 <=> up = {}) BY <3>1, ChannelSets
    <3> QED BY <3>2
  <2>3. TsChannels = {} \/ opener \in TsChannels BY <2>1 DEF ChannelsAlike
  <2>4. up \cap TsChannels # {} => up # {} OBVIOUS
  <2> QED BY <2>1, <2>2, <2>3, <2>4, Zenon DEF WInv, WorkerWhileOpen, WorkerScheduled
<1>6. CASE MakeCandev \/ MakeCandevFails \/ SubmitRxUrbs \/ SubmitRxUrbsFails
           \/ StartDeviceFails \/ LoseRxUrb \/ DetachAll \/ Disconnect \/ FreeParent
           \/ UNCHANGED vars
  <2>1. UNCHANGED <<worker, up, opener>>
    BY <1>6 DEF MakeCandev, MakeCandevFails, SubmitRxUrbs, SubmitRxUrbsFails,
                StartDeviceFails, LoseRxUrb, DetachAll, Disconnect, FreeParent,
                vars, intf, chans, lock, rest
  <2> QED BY <2>1, WorkerUntouched
<1> QED BY <1>1, <1>2, <1>3, <1>4, <1>5, <1>6 DEF Next, OpenStep

\* On a device whose channels are alike the timestamp worker runs while a channel
\* with hardware timestamps is open, and is cancelled by the last close and by a
\* first open that fails (gs_usb.c:899-901, 999-1003, 1057-1061).
THEOREM WorkerRuns == ASSUME ChannelsAlike PROVE Spec => []WorkerWhileOpen
<1>1. Init => WorkerWhileOpen /\ WorkerScheduled
  BY Zenon DEF Init, WorkerWhileOpen, WorkerScheduled
<1>2. IInv /\ IInv' /\ WorkerWhileOpen /\ WorkerScheduled /\ [Next]_vars
        => WorkerWhileOpen' /\ WorkerScheduled'
  BY WorkerStep DEF WInv
<1> QED BY <1>1, <1>2, InductiveInvariant, PTL DEF Spec

\* When struct gs_usb is freed no channel is open, none is being opened, no RX URB is
\* submitted and the worker is cancelled.
THEOREM NothingOutlives == ASSUME ChannelsAlike PROVE Spec => []NothingOutlivesParent
<1>1. IInv /\ WorkerWhileOpen => NothingOutlivesParent
  <2> SUFFICES ASSUME IInv, WorkerWhileOpen, phase = "gone"
               PROVE  up = {} /\ opener = NoOne /\ active = 0 /\ rx = 0 /\ ~worker
    BY DEF NothingOutlivesParent
  <2>1. Registered = {} BY DEF IInv, Phases, Registered, TypeOK
  <2>2. up = {} /\ opener = NoOne BY <2>1 DEF IInv, LockHeld
  <2>3. active = 0 BY <2>2, FS_EmptySet DEF IInv, ActiveChannelsExact
  <2>4. rx = 0 BY DEF IInv, Phases
  <2>5. ~worker BY <2>2 DEF WorkerWhileOpen
  <2> QED BY <2>2, <2>3, <2>4, <2>5
<1> QED BY <1>1, InductiveInvariant, WorkerRuns, PTL
=============================================================================
