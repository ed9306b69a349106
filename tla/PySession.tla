----------------------------- MODULE PySession -----------------------------
(***************************************************************************)
(* The shared USB session of the Python SDK                                *)
(* (sdk/python-can-gsusb/src/gsusb/bus.py): bus objects that several       *)
(* threads of an application create, use and shut down, the registry       *)
(* _SESSIONS under _SESSIONS_LOCK, and the reader thread of each session.  *)
(*                                                                         *)
(* The application uses one selector, hence one registry key.  A session   *)
(* is named after the bus object that created it.  The work done under     *)
(* _SESSIONS_LOCK is one step where nobody can watch it; closing a session *)
(* is not, because the reader thread goes on until it is joined, and after *)
(* that when the join timed out.  The firmware and pyusb are external: a   *)
(* transfer on an interface that was given back may fail or not, and a     *)
(* frame read comes complete.                                              *)
(***************************************************************************)
EXTENDS Integers, Sequences, FiniteSets

CONSTANTS
    Buses,         \* bus objects, each used by a thread of its own
    NoBus,
    Channels,      \* logical channels of the adapter
    ChannelOf,     \* gsusb_channel of each bus object
    FdBuses,       \* bus objects opened with fd=True
    ShutdownOnce,  \* the application calls shutdown once per bus object
    MaxFrames      \* bound: frames each channel receives from its CAN bus

ASSUME BusesAssumption   == IsFiniteSet(Buses) /\ NoBus \notin Buses /\ FdBuses \subseteq Buses
ASSUME ChannelAssumption == ChannelOf \in [Buses -> Channels]
ASSUME OnceAssumption    == ShutdownOnce \in BOOLEAN
ASSUME FramesAssumption  == MaxFrames \in [Channels -> Nat]

VARIABLES
    lock,       \* the bus object whose thread holds _SESSIONS_LOCK, or NoBus
    registry,   \* the session under the key, or NoBus
    claimed,    \* the session whose device object holds the interface, or NoBus
    pc,         \* where the thread of a bus object is
    transfer,   \* the next control transfer of its configure_channel
    session,    \* its session, or NoBus
    queue,      \* frames put in its queue and not received
    seen,       \* all frames ever put in its queue
    since,      \* frames received on its channel when it was attached
    listeners,  \* per session: the bus objects in buses
    refs,       \* per session
    running,    \* per session
    reader,     \* per session: where its reader thread is
    frame,      \* per session: the frame read last, a channel and a number
    todo,       \* per session: the listeners that still get that frame
    channel,    \* per channel of the device: runs, and who configured it
    received,   \* per channel of the device: frames received so far
    pipe        \* frames in the bulk IN pipe

regVars    == <<lock, registry, claimed>>
busVars    == <<pc, transfer, session>>
queueVars  == <<queue, seen, since>>
userVars   == <<listeners, refs, running>>
readerVars == <<reader, frame, todo>>
devVars    == <<channel, received, pipe>>
vars == <<regVars, busVars, queueVars, userVars, readerVars, devVars>>

Frames == [chan : Channels, n : Nat]

Stopped == [on |-> FALSE, nominal |-> NoBus, data |-> NoBus, term |-> NoBus]

\* The control transfers of configure_channel, in order.
Transfers(b) ==
    <<"RESET", "BITTIMING">> \o
    (IF b \in FdBuses THEN <<"DATA_BITTIMING">> ELSE <<>>) \o
    <<"SET_TERMINATION", "START">>

Attached(b) == session[b] # NoBus /\ b \in listeners[session[b]]

Init ==
    /\ lock = NoBus /\ registry = NoBus /\ claimed = NoBus
    /\ pc = [b \in Buses |-> "new"]
    /\ transfer = [b \in Buses |-> 1]
    /\ session = [b \in Buses |-> NoBus]
    /\ queue = [b \in Buses |-> <<>>]
    /\ seen = [b \in Buses |-> <<>>]
    /\ since = [b \in Buses |-> 0]
    /\ listeners = [s \in Buses |-> {}]
    /\ refs = [s \in Buses |-> 0]
    /\ running = [s \in Buses |-> FALSE]
    /\ reader = [s \in Buses |-> "none"]
    /\ frame \in [Buses -> {[chan |-> CHOOSE c \in Channels : TRUE, n |-> 1]}]
    /\ todo = [s \in Buses |-> {}]
    /\ channel = [c \in Channels |-> Stopped]
    /\ received = [c \in Channels |-> 0]
    /\ pipe = <<>>

-----------------------------------------------------------------------------
(* Opening a bus object.                                                   *)

\* Thread b goes on at pc = to.
Goto(b, to) == pc' = [pc EXCEPT ![b] = to]

AddBus(b, s) ==
    /\ session' = [session EXCEPT ![b] = s]
    /\ listeners' = [listeners EXCEPT ![s] = @ \cup {b}]
    /\ refs' = [refs EXCEPT ![s] = @ + 1]
    /\ since' = [since EXCEPT ![b] = received[ChannelOf[b]]]

\* The key is registered: share that session.
Join(b) ==
    /\ pc[b] = "new" /\ lock = NoBus /\ registry # NoBus
    /\ AddBus(b, registry)
    /\ Goto(b, "configure")
    /\ UNCHANGED <<regVars, transfer, queue, seen, running, readerVars, devVars>>

\* It is not: find the device, claim its interface, start the reader thread.
CreateSession(b) ==
    /\ pc[b] = "new" /\ lock = NoBus /\ registry = NoBus /\ claimed = NoBus
    /\ claimed' = b /\ registry' = b
    /\ running' = [running EXCEPT ![b] = TRUE]
    /\ reader' = [reader EXCEPT ![b] = "loop"]
    /\ AddBus(b, b)
    /\ Goto(b, "configure")
    /\ UNCHANGED <<lock, transfer, queue, seen, frame, todo, devVars>>

\* The interface is claimed, but the device does not answer: the constructor
\* raises without giving the interface back, and the key is not registered.
CreateSessionLeaks(b) ==
    /\ pc[b] = "new" /\ lock = NoBus /\ registry = NoBus /\ claimed = NoBus
    /\ claimed' = b
    /\ Goto(b, "leaked")
    /\ UNCHANGED <<lock, registry, transfer, session, queueVars, userVars, readerVars, devVars>>

\* pyusb gives the interface back when it collects the device object of a
\* constructor that raised, whenever that is.
CollectDevice(b) ==
    /\ pc[b] = "leaked" /\ claimed = b
    /\ claimed' = NoBus
    /\ UNCHANGED <<lock, registry, busVars, queueVars, userVars, readerVars, devVars>>

\* There is no device, or its interface is taken.
SessionFails(b) ==
    /\ pc[b] = "new" /\ lock = NoBus /\ registry = NoBus
    /\ Goto(b, "failed")
    /\ UNCHANGED <<regVars, transfer, session, queueVars, userVars, readerVars, devVars>>

\* A transfer of thread b reaches the device.
Reachable(b) == claimed \in {session[b], NoBus}

\* What the device makes of a request for the channel of b.
Request(b, r) ==
    channel' = [channel EXCEPT ![ChannelOf[b]] =
        CASE r = "RESET"           -> [@ EXCEPT !.on = FALSE]
          [] r = "BITTIMING"       -> [@ EXCEPT !.nominal = b]
          [] r = "DATA_BITTIMING"  -> [@ EXCEPT !.data = b]
          [] r = "SET_TERMINATION" -> [@ EXCEPT !.term = b]
          [] r = "START"           -> [@ EXCEPT !.on = TRUE]]

\* Mutant of ConfigureStep: one transfer too many.
ConfigureStepPastEnd(b) ==
    /\ pc[b] = "configure" /\ Reachable(b)
    /\ Request(b, Transfers(b)[transfer[b]])
    /\ IF transfer[b] > Len(Transfers(b))
         THEN Goto(b, "open") /\ UNCHANGED transfer
         ELSE transfer' = [transfer EXCEPT ![b] = @ + 1] /\ UNCHANGED pc
    /\ UNCHANGED <<regVars, session, queueVars, userVars, readerVars, received, pipe>>

ConfigureStep(b) ==
    /\ pc[b] = "configure" /\ Reachable(b)
    /\ Request(b, Transfers(b)[transfer[b]])
    /\ IF transfer[b] = Len(Transfers(b))
         THEN Goto(b, "open") /\ UNCHANGED transfer
         ELSE transfer' = [transfer EXCEPT ![b] = @ + 1] /\ UNCHANGED pc
    /\ UNCHANGED <<regVars, session, queueVars, userVars, readerVars, received, pipe>>

\* The timing cannot be derived or a transfer fails: the constructor shuts down.
ConfigureFails(b) ==
    /\ pc[b] = "configure"
    /\ Goto(b, "shutdown")
    /\ UNCHANGED <<regVars, transfer, session, queueVars, userVars, readerVars, devVars>>

-----------------------------------------------------------------------------
(* Using and shutting down a bus object.                                   *)

\* A channel that runs hands a frame to the host.
FrameFor(c) ==
    /\ channel[c].on /\ received[c] < MaxFrames[c]
    /\ received' = [received EXCEPT ![c] = @ + 1]
    /\ pipe' = Append(pipe, [chan |-> c, n |-> received'[c]])

\* send: the adapter loops the frame back (echo id 0xFFFFFFFF).
Send(b) ==
    /\ pc[b] = "open" /\ Reachable(b) /\ FrameFor(ChannelOf[b])
    /\ UNCHANGED <<regVars, busVars, queueVars, userVars, readerVars, channel>>

Recv(b) ==
    /\ pc[b] = "open" /\ queue[b] # <<>>
    /\ queue' = [queue EXCEPT ![b] = Tail(@)]
    /\ UNCHANGED <<regVars, busVars, seen, since, userVars, readerVars, devVars>>

\* shutdown, which has no guard of its own against a second call.
Shutdown(b) ==
    /\ \/ pc[b] = "open"
       \/ pc[b] = "shut" /\ ~ShutdownOnce
    /\ Goto(b, "shutdown")
    /\ UNCHANGED <<regVars, transfer, session, queueVars, userVars, readerVars, devVars>>

\* Mutant of CloseChannel: the request resets every channel.
CloseAllChannels(b) ==
    /\ pc[b] = "shutdown"
    /\ \/ Reachable(b) /\ channel' = [c \in Channels |-> [channel[c] EXCEPT !.on = FALSE]]
       \/ UNCHANGED channel
    /\ Goto(b, "remove")
    /\ UNCHANGED <<regVars, transfer, session, queueVars, userVars, readerVars, received, pipe>>

\* close_channel; shutdown swallows the exception of a failed transfer.
CloseChannel(b) ==
    /\ pc[b] = "shutdown"
    /\ \/ Reachable(b) /\ Request(b, "RESET")
       \/ UNCHANGED channel
    /\ Goto(b, "remove")
    /\ UNCHANGED <<regVars, transfer, session, queueVars, userVars, readerVars, received, pipe>>

Dropped(n) == IF n > 0 THEN n - 1 ELSE 0

\* Mutant of RemoveBus: every bus object closes the session.
RemoveBusAny(b) ==
    /\ pc[b] = "remove" /\ lock = NoBus
    /\ LET s == session[b] IN
         /\ listeners' = [listeners EXCEPT ![s] = @ \ {b}]
         /\ refs' = [refs EXCEPT ![s] = Dropped(@)]
         /\ running' = [running EXCEPT ![s] = FALSE]
    /\ lock' = b
    /\ Goto(b, "join")
    /\ UNCHANGED <<registry, claimed, transfer, session, queueVars, readerVars, devVars>>

\* Mutant of RemoveBus: close does not tell the reader thread to stop.
RemoveBusLeavesReader(b) ==
    /\ pc[b] = "remove" /\ lock = NoBus
    /\ LET s == session[b] IN
         /\ listeners' = [listeners EXCEPT ![s] = @ \ {b}]
         /\ refs' = [refs EXCEPT ![s] = Dropped(@)]
         /\ IF Dropped(refs[s]) = 0
              THEN lock' = b /\ Goto(b, "join")
              ELSE Goto(b, "shut") /\ UNCHANGED lock
    /\ UNCHANGED <<registry, claimed, transfer, session, queueVars, running, readerVars, devVars>>

\* remove_bus; the last one out tells the reader thread to stop.
RemoveBus(b) ==
    /\ pc[b] = "remove" /\ lock = NoBus
    /\ LET s == session[b] IN
         /\ listeners' = [listeners EXCEPT ![s] = @ \ {b}]
         /\ refs' = [refs EXCEPT ![s] = Dropped(@)]
         /\ IF Dropped(refs[s]) = 0
              THEN /\ lock' = b
                   /\ running' = [running EXCEPT ![s] = FALSE]
                   /\ Goto(b, "join")
              ELSE Goto(b, "shut") /\ UNCHANGED <<lock, running>>
    /\ UNCHANGED <<registry, claimed, transfer, session, queueVars, readerVars, devVars>>

\* Mutant of CloseSession: the key stays in the registry.
CloseKeepsKey(b) ==
    /\ pc[b] = "join"
    /\ claimed' = IF claimed = session[b] THEN NoBus ELSE claimed
    /\ lock' = NoBus
    /\ Goto(b, "shut")
    /\ UNCHANGED <<registry, transfer, session, queueVars, userVars, readerVars, devVars>>

\* The rest of close, once the reader thread has ended or a second has passed,
\* and the registry forgets the key.
CloseSession(b) ==
    /\ pc[b] = "join"
    /\ claimed' = IF claimed = session[b] THEN NoBus ELSE claimed
    /\ registry' = NoBus
    /\ lock' = NoBus
    /\ Goto(b, "shut")
    /\ UNCHANGED <<transfer, session, queueVars, userVars, readerVars, devVars>>

-----------------------------------------------------------------------------
(* The reader thread of session s, and the CAN buses.                      *)

ReaderGoto(s, to) == reader' = [reader EXCEPT ![s] = to]

\* while self.running
TestRunning(s) ==
    /\ reader[s] = "loop"
    /\ ReaderGoto(s, IF running[s] THEN "read" ELSE "ended")
    /\ UNCHANGED <<regVars, busVars, queueVars, userVars, frame, todo, devVars>>

\* The thread of a session that was closed may read too, if it was not joined.
ReadFrame(s) ==
    /\ reader[s] = "read" /\ claimed \in {s, NoBus} /\ pipe # <<>>
    /\ frame' = [frame EXCEPT ![s] = Head(pipe)]
    /\ pipe' = Tail(pipe)
    /\ ReaderGoto(s, "snapshot")
    /\ UNCHANGED <<regVars, busVars, queueVars, userVars, todo, channel, received>>

\* Mutant of ReadFails: the frame that waits is lost.
ReadFailsLosesFrame(s) ==
    /\ reader[s] = "read"
    /\ ReaderGoto(s, "loop")
    /\ pipe' = IF pipe = <<>> THEN pipe ELSE Tail(pipe)
    /\ UNCHANGED <<regVars, busVars, queueVars, userVars, frame, todo, channel, received>>

\* A timeout after 5 ms, or an error.
ReadFails(s) ==
    /\ reader[s] = "read"
    /\ ReaderGoto(s, "loop")
    /\ UNCHANGED <<regVars, busVars, queueVars, userVars, frame, todo, devVars>>

\* The listeners are copied under bus_lock and served without it.
Snapshot(s) ==
    /\ reader[s] = "snapshot"
    /\ todo' = [todo EXCEPT ![s] = {b \in listeners[s] : ChannelOf[b] = frame[s].chan}]
    /\ ReaderGoto(s, "deliver")
    /\ UNCHANGED <<regVars, busVars, queueVars, userVars, frame, devVars>>

OnMessageReceived(b, n) ==
    /\ queue' = [queue EXCEPT ![b] = Append(@, n)]
    /\ seen' = [seen EXCEPT ![b] = Append(@, n)]

\* Mutant of Deliver: a listener may be served again.
DeliverAgain(s) ==
    /\ reader[s] = "deliver"
    /\ \/ ReaderGoto(s, "loop") /\ todo' = [todo EXCEPT ![s] = {}] /\ UNCHANGED <<queue, seen>>
       \/ \E b \in todo[s] : OnMessageReceived(b, frame[s].n) /\ UNCHANGED <<reader, todo>>
    /\ UNCHANGED <<regVars, busVars, since, userVars, frame, devVars>>

Deliver(s) ==
    /\ reader[s] = "deliver"
    /\ \/ /\ todo[s] = {}
          /\ ReaderGoto(s, "loop")
          /\ UNCHANGED <<queue, seen, todo>>
       \/ \E b \in todo[s] :
            /\ OnMessageReceived(b, frame[s].n)
            /\ todo' = [todo EXCEPT ![s] = @ \ {b}]
            /\ UNCHANGED reader
    /\ UNCHANGED <<regVars, busVars, since, userVars, frame, devVars>>

\* A frame arrives from a CAN bus.
Receive(c) ==
    /\ FrameFor(c)
    /\ UNCHANGED <<regVars, busVars, queueVars, userVars, readerVars, channel>>

Reader(s) == TestRunning(s) \/ ReadFrame(s) \/ ReadFails(s) \/ Snapshot(s) \/ Deliver(s)

Thread(b) ==
    \/ Join(b) \/ CreateSession(b) \/ CreateSessionLeaks(b) \/ SessionFails(b)
    \/ ConfigureStep(b) \/ ConfigureFails(b)
    \/ CloseChannel(b) \/ RemoveBus(b) \/ CloseSession(b)

Application(b) == Send(b) \/ Recv(b) \/ Shutdown(b)

Next == \/ \E b \in Buses : Thread(b) \/ Application(b) \/ Reader(b) \/ CollectDevice(b)
        \/ \E c \in Channels : Receive(c)

Spec == Init /\ [][Next]_vars

\* Threads and readers run.  Reads do not fail for ever while a frame waits,
\* and _SESSIONS_LOCK does not starve a thread.
FairSpec ==
    /\ Spec
    /\ \A b \in Buses : WF_vars(Thread(b)) /\ SF_vars(RemoveBus(b))
    /\ \A s \in Buses : WF_vars(Reader(s)) /\ SF_vars(ReadFrame(s))

-----------------------------------------------------------------------------
(* Properties.                                                             *)

Sessions == Buses \cup {NoBus}

\* Every variable keeps its type, and a queue is a suffix of what was put in it.
TypeOK ==
    /\ {lock, registry, claimed} \subseteq Sessions
    /\ pc \in [Buses -> {"new", "configure", "open", "shutdown", "remove", "join", "shut",
                       "failed", "leaked"}]
    /\ \A b \in Buses : transfer[b] \in 1 .. Len(Transfers(b))
    /\ session \in [Buses -> Sessions]
    /\ seen \in [Buses -> Seq(Nat)]
    /\ \A b \in Buses : \E k \in 0 .. Len(seen[b]) : queue[b] = SubSeq(seen[b], k + 1, Len(seen[b]))
    /\ since \in [Buses -> Nat]
    /\ listeners \in [Buses -> SUBSET Buses]
    /\ refs \in [Buses -> 0 .. Cardinality(Buses)]
    /\ running \in [Buses -> BOOLEAN]
    /\ reader \in [Buses -> {"none", "loop", "read", "snapshot", "deliver", "ended"}]
    /\ frame \in [Buses -> Frames]
    /\ todo \in [Buses -> SUBSET Buses]
    /\ channel \in [Channels -> [on : BOOLEAN, nominal : Sessions, data : Sessions, term : Sessions]]
    /\ received \in [Channels -> Nat] /\ \A c \in Channels : received[c] <= MaxFrames[c]
    /\ pipe \in Seq(Frames)

\* A bus object that was not shut down is served: its session holds the
\* interface and its reader thread runs ("Multiple python-can bus objects
\* share the same USB bulk session", python-can-gsusb/README.md:10).
LiveBusIsServed ==
    \A b \in Buses : pc[b] \in {"configure", "open"} =>
        /\ Attached(b)
        /\ claimed = session[b]
        /\ running[session[b]] /\ reader[session[b]] \notin {"none", "ended"}

\* Whoever takes _SESSIONS_LOCK finds in the registry the session that holds
\* the interface, in use, or no session and the interface free: a new bus
\* object never joins a dead session nor runs into a forgotten one.  Excepted:
\* a constructor that raised after it had claimed the interface (bus.py:456 to
\* 463) keeps it, unregistered, until its device object is collected.
RegistryMatchesClaim ==
    lock = NoBus =>
        \/ registry = claimed /\ (claimed # NoBus => listeners[claimed] # {})
        \/ registry = NoBus /\ claimed # NoBus /\ pc[claimed] = "leaked"

\* An open bus object finds its channel running with the timing and the
\* termination it asked for: the transfers of several bus objects interleave
\* on the one interface.  (For bus objects that do not share a channel.)
ChannelIsMine ==
    \A b \in Buses : pc[b] = "open" =>
        LET c == channel[ChannelOf[b]] IN
        c.on /\ c.nominal = b /\ c.term = b /\ (b \in FdBuses => c.data = b)

\* A bus object gets the frames of its channel in the order of the bus, none
\* twice and none left out in between, though listeners come and go while the
\* reader thread delivers without bus_lock.
FramesInOrder ==
    \A b \in Buses : \A i \in 1 .. Len(seen[b]) - 1 : seen[b][i + 1] = seen[b][i] + 1

\* What a channel receives while a bus object is open reaches its queue.
EveryFrameIsDelivered ==
    \A b \in Buses : \A n \in 1 .. MaxFrames[ChannelOf[b]] :
        (pc[b] = "open" /\ since[b] < n /\ n <= received[ChannelOf[b]])
            ~> (pc[b] # "open" \/ \E i \in 1 .. Len(seen[b]) : seen[b][i] = n)

\* The session goes on for others, or its reader thread is gone.
ReaderDone(s) == s = registry \/ reader[s] = "ended"

\* shutdown returns, with nobody left waiting for _SESSIONS_LOCK, and if it
\* closed the session, the reader thread ends, though the join may have timed out.
ShutdownEnds ==
    \A b \in Buses :
        pc[b] = "shutdown" ~> /\ pc[b] = "shut"
                              /\ \E s \in Buses : s = session[b] /\ ReaderDone(s)

\* The session implements SharedSession: the interface is claimed as long as
\* a bus object is attached, and released only when none is.  (What a
\* constructor that raised keeps is no session's claim.)
Shared == INSTANCE SharedSession WITH
    users   <- {b \in Buses : Attached(b)},
    claimed <- claimed # NoBus /\ pc[claimed] # "leaked"
ImplementsSharedSession == Shared!Spec
=============================================================================
