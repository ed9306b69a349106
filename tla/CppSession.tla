----------------------------- MODULE CppSession -----------------------------
(***************************************************************************)
(* The shared USB session of the C++ SDK (sdk/gsusb-cpp/src/gsusb.cpp).    *)
(* The registry holds weak pointers; a session lives as long as a bus      *)
(* object, or a thread that is making one, points to it, and its           *)
(* destructor closes it.  It is closed earlier by the bus object whose     *)
(* remove_bus leaves no reference.  There is no reader thread: recv polls  *)
(* the pipe and delivers what it reads to every listener.                  *)
(*                                                                         *)
(* The application uses one registry key, and one thread per bus object.   *)
(* A session is named after the bus object that created it.  Work under    *)
(* g_registry_lock or bus_lock_ is one step; finding a session and         *)
(* attaching to it are two, and so are detaching and closing.  A transfer  *)
(* of a closed session fails.                                              *)
(***************************************************************************)
EXTENDS Integers, Sequences, FiniteSets

CONSTANTS
    Buses,         \* bus objects, each used by a thread of its own
    NoBus,
    Channels,      \* logical channels of the adapter
    ChannelOf,     \* gsusb_channel of each bus object
    FdBuses,       \* bus objects opened with fd
    BadBuses,      \* bus objects opened with a channel the adapter does not have
    MaxFrames      \* bound: frames each channel receives from its CAN bus

ASSUME CppBusesAssumption   ==
    IsFiniteSet(Buses) /\ NoBus \notin Buses /\ FdBuses \cup BadBuses \subseteq Buses
ASSUME CppChannelAssumption == ChannelOf \in [Buses -> Channels]
ASSUME CppFramesAssumption  == MaxFrames \in [Channels -> Nat]

VARIABLES
    registry,   \* the session under the key (a weak pointer), or NoBus
    claimed,    \* the session that holds the interface, or NoBus
    overlap,    \* a bus object was made while another was being shut down
    pc,         \* where the thread of a bus object is
    transfer,   \* the next control transfer of its configure_channel
    session,    \* session_ of a bus object, or NoBus
    queue,      \* frames put in its queue and not received
    seen,       \* all frames ever put in its queue
    since,      \* frames received on its channel when it was attached
    frame,      \* the frame its thread has read in recv
    todo,       \* the listeners its thread still gives that frame
    listeners,  \* per session: the bus objects in buses_
    refs,       \* per session: refs_
    closed,     \* per session: closed_
    channel,    \* per channel of the device: runs, and who set what
    received,   \* per channel of the device: frames received so far
    pipe        \* frames in the bulk IN pipe

regVars   == <<registry, claimed, overlap>>
busVars   == <<pc, transfer, session>>
queueVars == <<queue, seen, since>>
pollVars  == <<frame, todo>>
sessVars  == <<listeners, refs, closed>>
devVars   == <<channel, received, pipe>>
vars == <<regVars, busVars, queueVars, pollVars, sessVars, devVars>>

Frames == [chan : Channels, n : Nat]

Settings == {"BITTIMING", "DATA_BITTIMING", "TERMINATION"}

\* The control transfers of configure_channel, in order.
Transfers(b) ==
    <<"RESET", "BITTIMING">> \o
    (IF b \in FdBuses THEN <<"DATA_BITTIMING">> ELSE <<>>) \o
    <<"TERMINATION", "START">>

Holders(s) == {b \in Buses : session[b] = s}

Opening  == {"acquired", "added"}
Stopping == {"stopped", "remove", "close", "reset"}

Init ==
    /\ registry = NoBus /\ claimed = NoBus /\ overlap = FALSE
    /\ pc = [b \in Buses |-> "new"]
    /\ transfer = [b \in Buses |-> 1]
    /\ session = [b \in Buses |-> NoBus]
    /\ queue = [b \in Buses |-> <<>>]
    /\ seen = [b \in Buses |-> <<>>]
    /\ since = [b \in Buses |-> 0]
    /\ frame \in [Buses -> {[chan |-> CHOOSE c \in Channels : TRUE, n |-> 1]}]
    /\ todo = [b \in Buses |-> {}]
    /\ listeners = [s \in Buses |-> {}]
    /\ refs = [s \in Buses |-> 0]
    /\ closed = [s \in Buses |-> FALSE]
    /\ channel = [c \in Channels |-> [on |-> FALSE, set |-> [r \in Settings |-> NoBus]]]
    /\ received = [c \in Channels |-> 0]
    /\ pipe = <<>>

-----------------------------------------------------------------------------
(***************************************************************************)
(* Making a bus object: the constructor of GsUsbBus::Impl                  *)
(***************************************************************************)

Goto(b, to) == pc' = [pc EXCEPT ![b] = to]

\* History: making one bus object and shutting another down overlap.
NoteOverlap(pcs) == overlap' = (overlap \/ \E b \in Buses : pc[b] \in pcs)

\* The weak pointer of the registry still leads to a session.
Registered == registry # NoBus /\ Holders(registry) # {}

\* acquire_session finds a session: b shares its ownership, but is not counted.
AcquireSession(b) ==
    /\ pc[b] = "new" /\ Registered
    /\ session' = [session EXCEPT ![b] = registry]
    /\ Goto(b, "acquired") /\ NoteOverlap(Stopping)
    /\ UNCHANGED <<registry, claimed, transfer, queueVars, pollVars, sessVars, devVars>>

\* It finds none and creates one: the device is found and its interface claimed.
CreateSession(b) ==
    /\ pc[b] = "new" /\ ~Registered /\ claimed = NoBus
    /\ session' = [session EXCEPT ![b] = b]
    /\ registry' = b /\ claimed' = b
    /\ Goto(b, "acquired") /\ NoteOverlap(Stopping)
    /\ UNCHANGED <<transfer, queueVars, pollVars, sessVars, devVars>>

\* It cannot be queried: the constructor throws, no destructor runs, and the
\* handle keeps the interface.
CreateSessionLeaks(b) ==
    /\ pc[b] = "new" /\ ~Registered /\ claimed = NoBus
    /\ claimed' = b
    /\ Goto(b, "leaked")
    /\ UNCHANGED <<registry, overlap, transfer, session, queueVars, pollVars, sessVars, devVars>>

\* There is no device, it cannot be opened, or its interface is taken.
SessionFails(b) ==
    /\ pc[b] = "new" /\ ~Registered
    /\ Goto(b, "failed")
    /\ UNCHANGED <<regVars, transfer, session, queueVars, pollVars, sessVars, devVars>>

AddBus(b) ==
    /\ pc[b] = "acquired"
    /\ listeners' = [listeners EXCEPT ![session[b]] = @ \cup {b}]
    /\ refs' = [refs EXCEPT ![session[b]] = @ + 1]
    /\ since' = [since EXCEPT ![b] = received[ChannelOf[b]]]
    /\ Goto(b, IF b \in BadBuses THEN "added" ELSE "configure")
    /\ UNCHANGED <<regVars, transfer, session, queue, seen, pollVars, closed, devVars>>

\* Mutant of ReleaseSession: the destructor does not close.
ReleaseWithoutClose(b) ==
    /\ session' = [session EXCEPT ![b] = NoBus]
    /\ UNCHANGED <<closed, claimed>>

\* Mutant of ReleaseSession: the pointer stays.
ReleaseNothing(b) == UNCHANGED <<session, closed, claimed>>

\* b's shared pointer goes; the last one takes the session, which is closed, along.
ReleaseSession(b) ==
    /\ session' = [session EXCEPT ![b] = NoBus]
    /\ LET s == session[b] IN
       IF Holders(s) = {b}
       THEN /\ closed' = [closed EXCEPT ![s] = TRUE]
            /\ claimed' = IF claimed = s THEN NoBus ELSE claimed
       ELSE UNCHANGED <<closed, claimed>>

\* channels().at throws outside the try block: reference and listener stay.
NoSuchChannel(b) ==
    /\ pc[b] = "added"
    /\ ReleaseSession(b)
    /\ Goto(b, "failed")
    /\ UNCHANGED <<registry, overlap, transfer, queueVars, pollVars, listeners, refs, devVars>>

Reachable(b) == ~closed[session[b]] /\ claimed = session[b]

\* What the device makes of a request for the channel of b.
Request(b, r) ==
    channel' = [channel EXCEPT ![ChannelOf[b]] =
        CASE r = "RESET"    -> [@ EXCEPT !.on = FALSE]
          [] r = "START"    -> [@ EXCEPT !.on = TRUE]
          [] r \in Settings -> [@ EXCEPT !.set[r] = b]]

\* Mutant of ConfigureStep: the FD timing is left out.
ConfigureSkips(b) ==
    /\ pc[b] = "configure" /\ Reachable(b)
    /\ Request(b, Transfers(b)[transfer[b]])
    /\ IF transfer[b] + 1 >= Len(Transfers(b))
       THEN Goto(b, "open") /\ UNCHANGED transfer
       ELSE transfer' = [transfer EXCEPT ![b] = @ + 1] /\ UNCHANGED pc
    /\ UNCHANGED <<regVars, session, queueVars, pollVars, sessVars, received, pipe>>

ConfigureStep(b) ==
    /\ pc[b] = "configure" /\ Reachable(b)
    /\ Request(b, Transfers(b)[transfer[b]])
    /\ IF transfer[b] = Len(Transfers(b))
       THEN Goto(b, "open") /\ UNCHANGED transfer
       ELSE transfer' = [transfer EXCEPT ![b] = @ + 1] /\ UNCHANGED pc
    /\ UNCHANGED <<regVars, session, queueVars, pollVars, sessVars, received, pipe>>

\* No timing can be derived, or a transfer fails: the constructor shuts down.
ConfigureFails(b) ==
    /\ pc[b] = "configure"
    /\ Goto(b, "stopped") /\ NoteOverlap(Opening)
    /\ UNCHANGED <<registry, claimed, transfer, session, queueVars, pollVars, sessVars, devVars>>

(***************************************************************************)
(* Sending and receiving                                                   *)
(***************************************************************************)

\* A channel that runs hands a frame to the host.
FrameFor(c) ==
    /\ channel[c].on /\ received[c] < MaxFrames[c]
    /\ received' = [received EXCEPT ![c] = @ + 1]
    /\ pipe' = Append(pipe, [chan |-> c, n |-> received'[c]])

\* send_frame: the adapter loops the frame back.
Send(b) ==
    /\ pc[b] = "open" /\ Reachable(b) /\ FrameFor(ChannelOf[b])
    /\ UNCHANGED <<regVars, busVars, queueVars, pollVars, sessVars, channel>>

\* recv, when the queue has a frame.
RecvQueued(b) ==
    /\ pc[b] = "open" /\ queue[b] # <<>>
    /\ queue' = [queue EXCEPT ![b] = Tail(@)]
    /\ UNCHANGED <<regVars, busVars, seen, since, pollVars, sessVars, devVars>>

\* recv, when it has none: poll_once reads a frame.
PollRead(b) ==
    /\ pc[b] = "open" /\ queue[b] = <<>>
    /\ Reachable(b) /\ pipe # <<>>
    /\ frame' = [frame EXCEPT ![b] = Head(pipe)]
    /\ pipe' = Tail(pipe)
    /\ Goto(b, "snapshot")
    /\ UNCHANGED <<regVars, transfer, session, queueVars, todo, sessVars, channel, received>>

\* Mutant of PollSnapshot: the frame goes to the bus object that polled only.
PollForMyself(b) ==
    /\ pc[b] = "snapshot"
    /\ todo' = [todo EXCEPT ![b] = {l \in {b} : ChannelOf[l] = frame[b].chan}]
    /\ Goto(b, "deliver")
    /\ UNCHANGED <<regVars, transfer, session, queueVars, frame, sessVars, devVars>>

\* The listeners of the frame's channel are copied under bus_lock_.
PollSnapshot(b) ==
    /\ pc[b] = "snapshot"
    /\ todo' = [todo EXCEPT ![b] = {l \in listeners[session[b]] \ BadBuses :
                                       ChannelOf[l] = frame[b].chan}]
    /\ Goto(b, "deliver")
    /\ UNCHANGED <<regVars, transfer, session, queueVars, frame, sessVars, devVars>>

\* on_message_received: a bus object that is shutting down takes no frames.
OnMessageReceived(l, n) ==
    IF pc[l] \in Stopping \cup {"shut"}
    THEN UNCHANGED <<queue, seen>>
    ELSE /\ queue' = [queue EXCEPT ![l] = Append(@, n)]
         /\ seen' = [seen EXCEPT ![l] = Append(@, n)]

\* Mutant of PollDeliver: the loop starts over after a listener was served.
PollDeliverAgain(b) ==
    /\ pc[b] = "deliver"
    /\ \/ Goto(b, "open") /\ todo' = [todo EXCEPT ![b] = {}] /\ UNCHANGED <<queue, seen>>
       \/ \E l \in todo[b] :
             /\ Len(seen[l]) <= MaxFrames[ChannelOf[l]]
             /\ OnMessageReceived(l, frame[b].n) /\ UNCHANGED <<pc, todo>>
    /\ UNCHANGED <<regVars, transfer, session, since, frame, sessVars, devVars>>

\* The listeners are served one by one, without the lock.
PollDeliver(b) ==
    /\ pc[b] = "deliver"
    /\ \/ todo[b] = {} /\ Goto(b, "open") /\ UNCHANGED <<queue, seen, todo>>
       \/ \E l \in todo[b] :
             /\ OnMessageReceived(l, frame[b].n)
             /\ todo' = [todo EXCEPT ![b] = @ \ {l}]
             /\ UNCHANGED pc
    /\ UNCHANGED <<regVars, transfer, session, since, frame, sessVars, devVars>>

\* A frame arrives from a CAN bus.
Receive(c) ==
    /\ FrameFor(c)
    /\ UNCHANGED <<regVars, busVars, queueVars, pollVars, sessVars, channel>>

(***************************************************************************)
(* shutdown                                                                *)
(***************************************************************************)

\* The first call sets stopped_; later calls do nothing.
Shutdown(b) ==
    /\ pc[b] = "open"
    /\ Goto(b, "stopped") /\ NoteOverlap(Opening)
    /\ UNCHANGED <<registry, claimed, transfer, session, queueVars, pollVars, sessVars, devVars>>

\* close_channel; a transfer that fails is ignored.
CloseChannel(b) ==
    /\ pc[b] = "stopped"
    /\ \/ Reachable(b) /\ Request(b, "RESET")
       \/ UNCHANGED channel
    /\ Goto(b, "remove")
    /\ UNCHANGED <<regVars, transfer, session, queueVars, pollVars, sessVars, received, pipe>>

Dropped(n) == IF n > 0 THEN n - 1 ELSE 0

\* Mutant of RemoveBus: whoever leaves closes the session.
RemoveBusAny(b) ==
    /\ pc[b] = "remove"
    /\ LET s == session[b] IN
       /\ listeners' = [listeners EXCEPT ![s] = @ \ {b}]
       /\ refs' = [refs EXCEPT ![s] = Dropped(@)]
       /\ registry' = NoBus
    /\ Goto(b, "close")
    /\ UNCHANGED <<claimed, overlap, transfer, session, queueVars, pollVars, closed, devVars>>

\* remove_bus under g_registry_lock; the last one also clears the registry of
\* its session and of sessions that are gone.
RemoveBus(b) ==
    /\ pc[b] = "remove"
    /\ LET s == session[b] IN
       /\ listeners' = [listeners EXCEPT ![s] = @ \ {b}]
       /\ refs' = [refs EXCEPT ![s] = Dropped(@)]
       /\ IF Dropped(refs[s]) = 0
          THEN /\ registry' = IF registry = s \/ ~Registered THEN NoBus ELSE registry
               /\ Goto(b, "close")
          ELSE Goto(b, "reset") /\ UNCHANGED registry
    /\ UNCHANGED <<claimed, overlap, transfer, session, queueVars, pollVars, closed, devVars>>

\* close, without any lock.
CloseSession(b) ==
    /\ pc[b] = "close"
    /\ closed' = [closed EXCEPT ![session[b]] = TRUE]
    /\ claimed' = IF claimed = session[b] THEN NoBus ELSE claimed
    /\ Goto(b, "reset")
    /\ UNCHANGED <<registry, overlap, transfer, session, queueVars, pollVars, listeners, refs, devVars>>

\* session_.reset()
ResetSession(b) ==
    /\ pc[b] = "reset"
    /\ ReleaseSession(b)
    /\ Goto(b, "shut")
    /\ UNCHANGED <<registry, overlap, transfer, queueVars, pollVars, listeners, refs, devVars>>

-----------------------------------------------------------------------------
Constructor(b) == \/ AcquireSession(b) \/ CreateSession(b) \/ CreateSessionLeaks(b)
                  \/ SessionFails(b) \/ AddBus(b)
                  \/ NoSuchChannel(b) \/ ConfigureStep(b) \/ ConfigureFails(b)

Use(b) == \/ Send(b) \/ RecvQueued(b)
          \/ PollRead(b) \/ PollSnapshot(b) \/ PollDeliver(b)

Stop(b) == \/ Shutdown(b) \/ CloseChannel(b) \/ RemoveBus(b)
           \/ CloseSession(b) \/ ResetSession(b)

Next == \/ \E b \in Buses : Constructor(b) \/ Use(b) \/ Stop(b)
        \/ \E c \in Channels : Receive(c)

Spec == Init /\ [][Next]_vars

-----------------------------------------------------------------------------
(***************************************************************************)
(* Properties.                                                             *)
(***************************************************************************)

Live(b) == pc[b] \in {"configure", "open", "snapshot", "deliver"}

\* Type invariant.
TypeOK ==
    /\ {registry, claimed} \subseteq Buses \cup {NoBus} /\ overlap \in BOOLEAN
    /\ pc \in [Buses -> {"new", "failed", "leaked", "acquired", "added", "configure", "open",
                         "snapshot", "deliver", "stopped", "remove", "close", "reset", "shut"}]
    /\ \A b \in Buses : transfer[b] \in 1 .. Len(Transfers(b))
    /\ session \in [Buses -> Buses \cup {NoBus}]
    /\ \A b \in Buses : session[b] # NoBus <=> pc[b] \notin {"new", "failed", "leaked", "shut"}
    /\ seen \in [Buses -> Seq(Nat)] /\ queue \in [Buses -> Seq(Nat)]
    /\ since \in [Buses -> Nat] /\ todo \in [Buses -> SUBSET Buses]
    /\ listeners \in [Buses -> SUBSET Buses] /\ closed \in [Buses -> BOOLEAN]
    /\ refs \in [Buses -> 0 .. Cardinality(Buses)]
    /\ received \in [Channels -> Nat] /\ \A c \in Channels : received[c] <= MaxFrames[c]
    /\ pipe \in Seq(Frames)

\* A bus object that was not shut down has a session that is open and holds the
\* interface, as long as the application does not make one bus object while it
\* shuts another down: refs_ does not count a bus object between acquire_session
\* and add_bus, and the session may then be closed under it.
LiveBusIsServed ==
    ~overlap => \A b \in Buses : Live(b) =>
        b \in listeners[session[b]] /\ ~closed[session[b]] /\ claimed = session[b]

\* When no bus object is left the interface is free again, whichever constructors
\* failed where, also at channels().at, which leaves a reference behind: what
\* remove_bus then does not close, the session's destructor does.  (The one
\* exception is a session whose own constructor threw after it had claimed.)
InterfaceGivenBack ==
    (\A b \in Buses : pc[b] \in {"new", "failed", "shut"}) => claimed = NoBus

\* An open bus object finds its channel running with what it asked for, although
\* several configure their channels at once.  (No two share a channel.)
ChannelIsMine ==
    \A b \in Buses : Live(b) /\ pc[b] # "configure" =>
        LET c == channel[ChannelOf[b]] IN
        /\ c.on
        /\ \A r \in Settings : r # "DATA_BITTIMING" \/ b \in FdBuses => c.set[r] = b

\* The frames of a channel that are on their way through the thread of a bus
\* object to l.
OnTheWay(l) ==
    {frame[b].n : b \in {p \in Buses : frame[p].chan = ChannelOf[l] /\
        (pc[p] = "snapshot" \/ (pc[p] = "deliver" /\ l \in todo[p]))}}

\* A frame received while a bus object is open is in its queue or on its way
\* there, whichever thread took it from the pipe the bus objects share, as long
\* as making and shutting down do not overlap (a bus object whose session was
\* closed under it gets nothing of what the next session reads); and no frame
\* is put in a queue twice, overlap or not.
NoFrameLostOrDoubled ==
    \A l \in Buses : Live(l) =>
        /\ ~overlap =>
             \A n \in since[l] + 1 .. received[ChannelOf[l]] :
                \/ n \in {seen[l][i] : i \in DOMAIN seen[l]}
                \/ n \in OnTheWay(l)
                \/ [chan |-> ChannelOf[l], n |-> n] \in {pipe[i] : i \in DOMAIN pipe}
        /\ \A i, j \in DOMAIN seen[l] : seen[l][i] = seen[l][j] => i = j
=============================================================================
