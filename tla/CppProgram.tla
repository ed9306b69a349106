----------------------------- MODULE CppProgram -----------------------------
(***************************************************************************)
(* A program of the C++ SDK from its start to its end: one thread that     *)
(* loads libusb, finds the adapter, opens its bus objects one after the    *)
(* other on one shared session, sends and receives as the examples do, and *)
(* shuts down; an exception anywhere unwinds what was made so far.         *)
(* CppSession has the same session with a thread per bus object; here each *)
(* constructor, call and destructor runs to its end, but libusb, the       *)
(* adapter and the plug may fail it at every step.                         *)
(*                                                                         *)
(* A scenario is the example, its arguments, the DLLs that can be loaded,  *)
(* libusb's device list, for how many rounds of sending the duration       *)
(* lasts, and whether the program first lists the devices (lists), tries   *)
(* again (retries), and may lose the adapter (unplugs).  No program puts   *)
(* two bus objects on one channel.                                         *)
(***************************************************************************)
EXTENDS CppExamples, CppAdapter, CppTiming, CppFrame

CONSTANTS
    Scenarios,    \* the scenarios
    InFlight,     \* frames the adapter takes before they are on the bus
    Swapping      \* bound: senders whose echo may come after the peer's frame

ASSUME CppProgramAssumption ==
    /\ InFlight \in Nat \ {0} /\ Swapping \subseteq Nat
    /\ \A s \in Scenarios :
          /\ s.example \in ExampleNames /\ s.args \in Seq(Argument)
          /\ s.list \in Seq(Device) /\ \A d \in ToSet(s.list) : Len(d.channels) <= 8
          /\ \A i, j \in DOMAIN s.list : s.list[i].bus = s.list[j].bus
                /\ s.list[i].address = s.list[j].address => i = j
          /\ \A arg \in ToSet(s.args) : arg.name = "selector" =>
                \/ arg.value = <<>> \/ Numeric(arg.value)
                \/ Len(arg.value) = 1 /\ arg.value[1].text # ""
          /\ s.rounds \in Nat /\ 0 .. s.rounds - 1 \subseteq Counters
          /\ Understood(s.args) =>
                IsInjective(Example(s.example, ParseCommonOptions(s.args)).channels)

VARIABLES
    scenario,
    pc,         \* where the program is
    attempt,    \* number of times it was started
    api,        \* LibUsbApi: module_ set, and the symbols found
    usb,        \* what libusb has given out: contexts, lists, open and claimed devices
    lost,       \* an exception left some of that to nobody
    why,        \* the last exception
    options,    \* CommonOptions
    listed,     \* what enumerate_devices returned
    index,      \* the candidate of the session's constructor
    session,    \* the shared session: device and interface, channels_, refs_
    buses,      \* the bus objects, as the channels they are on
    at,         \* the bus object whose turn it is
    round,      \* messages each channel has sent
    stats,      \* tx_count and rx_count per channel
    queue,      \* per channel: the frames its bus object has queued
    adapter,    \* per channel: on, and the timings and mode it was given
    wire,       \* frames the adapter has not sent yet
    pipe,       \* host frames in the bulk IN pipe
    plugged,
    got,        \* history: per channel, the messages recv returned
    traffic     \* history: per channel, the messages seen on its bus

progVars == <<scenario, pc, attempt, why, options, listed>>
usbVars  == <<api, usb, lost, index>>
runVars  == <<at, round, stats>>
busVars  == <<session, buses, queue>>
devVars  == <<adapter, wire, pipe, plugged>>
histVars == <<got, traffic>>
vars == <<progVars, usbVars, runVars, busVars, devVars, histVars>>

AllChannels == 0 .. 7
NoSession == [device |-> 0]
ChannelOff == [on |-> FALSE]
Held == [contexts : Nat, lists : Nat, open : SUBSET (Nat \X Nat),
         claimed : SUBSET [by : Nat, device : Nat, interface : Nat]]
Nothing == [contexts |-> 0, lists |-> 0, open |-> {}, claimed |-> {}]

Program == Example(scenario.example, options)
Channels == Program.channels
BusOptions(c) == MakeBusOptions(options, c, Program.fd, Program.custom)
Want == ParseSelector(options.selector, None, "")

Init ==
    /\ scenario \in Scenarios
    /\ pc = "start" /\ attempt = 1 /\ why = "none"
    /\ options = CommonOptions /\ listed = <<>>
    /\ api = [module |-> FALSE, symbols |-> {}]
    /\ usb = Nothing /\ lost = FALSE /\ index = 1
    /\ session = NoSession /\ buses = <<>>
    /\ at = 1 /\ round = 0
    /\ stats = [c \in AllChannels |-> [tx |-> 0, rx |-> 0]]
    /\ queue = [c \in AllChannels |-> <<>>]
    /\ adapter = [c \in AllChannels |-> ChannelOff]
    /\ wire = <<>> /\ pipe = <<>> /\ plugged = TRUE
    /\ got = [c \in AllChannels |-> <<>>] /\ traffic = [c \in AllChannels |-> <<>>]

Goto(to) == pc' = to /\ UNCHANGED <<scenario, attempt, why, options, listed>>

\* An exception: the bus objects made so far are destroyed.
Throw(what) == pc' = "unwind" /\ why' = what /\ UNCHANGED <<scenario, attempt, options, listed>>

-----------------------------------------------------------------------------
(***************************************************************************)
(* Starting: options and libusb                                            *)
(***************************************************************************)

\* main parses its arguments.  An application may first list the devices.
Start ==
    /\ pc = "start"
    /\ UNCHANGED <<usbVars, runVars, busVars, devVars, histVars>>
    /\ IF Understood(scenario.args)
       THEN /\ options' = ParseCommonOptions(scenario.args)
            /\ pc' = IF scenario.lists THEN "load" ELSE "next"
            /\ UNCHANGED <<scenario, attempt, why, listed>>
       ELSE Throw("args")

\* The order in which ensure_loaded looks for the DLL, and for its symbols.
Places == <<"GSUSB_LIBUSB_DLL", "executable_dir", "search path", "D:/n32", "d:/n32">>

Symbols ==
    <<"init", "exit", "get_device_list", "free_device_list", "get_bus_number",
      "get_device_address", "get_device_descriptor", "open", "close",
      "get_string_descriptor_ascii", "get_active_config_descriptor", "get_config_descriptor",
      "free_config_descriptor", "set_configuration", "claim_interface", "release_interface",
      "control_transfer", "bulk_transfer">>

\* load_symbol throws at the first symbol that is missing.
LoadSymbols(dll) ==
    {Symbols[i] : i \in {j \in DOMAIN Symbols : \A k \in 1 .. j : Symbols[k] \in dll}}

AfterLoad == IF scenario.lists /\ listed = <<>> /\ why = "none" THEN "list" ELSE "init"

\* ensure_loaded: module_ is set before the symbols are loaded, and when it is set
\* nothing is loaded again.
EnsureLoaded ==
    LET there == {i \in DOMAIN Places : Places[i] \in DOMAIN scenario.dlls}
        found == LoadSymbols(scenario.dlls[Places[Min(there)]])
    IN
    /\ pc = "load"
    /\ IF api.module THEN Goto(AfterLoad) /\ UNCHANGED api
       ELSE IF there = {} THEN Throw("library") /\ UNCHANGED api
       ELSE /\ api' = [module |-> TRUE, symbols |-> found]
            /\ IF found = ToSet(Symbols) THEN Goto(AfterLoad) ELSE Throw("symbol")
    /\ UNCHANGED <<usb, lost, index, runVars, busVars, devVars, histVars>>

\* What the steps of the program call through LibUsbApi's pointers.
Calls(step) ==
    CASE step \in {"list", "init"} -> {"init", "exit", "get_device_list", "free_device_list"}
      [] step = "scan"   -> {"get_device_descriptor", "get_active_config_descriptor",
                             "get_config_descriptor", "free_config_descriptor", "get_bus_number",
                             "get_device_address", "get_string_descriptor_ascii", "open", "close",
                             "free_device_list", "exit"}
      [] step = "claim"  -> {"set_configuration", "claim_interface", "release_interface",
                             "close", "exit"}
      [] step = "query"  -> {"control_transfer"}
      [] step = "configure" -> {"control_transfer"}
      [] step = "send"   -> {"bulk_transfer"}      \* and so do the polls that follow
      [] OTHER -> {}

At(step) == pc = step /\ Calls(step) \subseteq api.symbols

\* A call through a null pointer.
Crash ==
    /\ ~(Calls(pc) \subseteq api.symbols)
    /\ Goto("crashed")
    /\ UNCHANGED <<usbVars, runVars, busVars, devVars, histVars>>

\* enumerate_devices, which gives back what it takes.  The application then selects
\* one of the entries as BUS:ADDR:IF.
List ==
    /\ At("list")
    /\ UNCHANGED <<usbVars, runVars, busVars, devVars, histVars>>
    /\ \/ Throw("list")
       \/ EnumerateDevices(scenario.list) = <<>> /\ Throw("nothing listed")
       \/ \E d \in ToSet(EnumerateDevices(scenario.list)) :
             /\ listed' = EnumerateDevices(scenario.list)
             /\ options' = [options EXCEPT !.selector =
                    <<Number(d.bus), Number(d.address), Number(d.interface)>>]
             /\ pc' = "next"
             /\ UNCHANGED <<scenario, attempt, why>>

-----------------------------------------------------------------------------
(***************************************************************************)
(* Making a bus object                                                     *)
(***************************************************************************)

\* The next bus object, on the session there is or on a new one.
NextBus ==
    /\ pc = "next"
    /\ Goto(IF Len(buses) = Len(Channels) THEN "send"
            ELSE IF session = NoSession THEN "load" ELSE "add")
    /\ UNCHANGED <<usbVars, runVars, busVars, devVars, histVars>>

\* The session's constructor: libusb_init and libusb_get_device_list.
SessionInit ==
    /\ At("init")
    /\ \/ Throw("init") /\ UNCHANGED <<usb, index>>
       \/ /\ usb' = [usb EXCEPT !.contexts = @ + 1, !.lists = @ + 1]
          /\ index' = IF plugged THEN 1 ELSE Len(scenario.list) + 1
          /\ Goto("scan")
    /\ UNCHANGED <<api, lost, runVars, busVars, devVars, histVars>>

\* A device as it answers: one that is gone cannot be opened.
Seen(d) == IF plugged THEN d ELSE [d EXCEPT !.fails = @ \cup {"open"}]

\* One round of its loop over the list; the first device that answers is opened.
SessionScan ==
    /\ At("scan") /\ index \in DOMAIN scenario.list
    /\ LET d    == scenario.list[index]
           says == Considers(Seen(d), Want)
       IN
       CASE says = "skip"  -> index' = index + 1 /\ UNCHANGED <<progVars, usb, lost, session>>
         [] says = "throw" -> /\ Throw("candidate") /\ lost' = TRUE
                              /\ UNCHANGED <<usb, index, session>>
         [] says = "take"  -> /\ usb' = [usb EXCEPT !.open = @ \cup {<<attempt, index>>},
                                                    !.lists = @ - 1]
                              /\ session' = [device |-> index, refs |-> 0,
                                             interface |-> FindBulkInterface(d, Want.interface)]
                              /\ Goto("claim")
                              /\ UNCHANGED <<index, lost>>
    /\ UNCHANGED <<api, runVars, buses, queue, devVars, histVars>>

NoneFound ==
    /\ At("scan") /\ index \notin DOMAIN scenario.list
    /\ usb' = [usb EXCEPT !.contexts = @ - 1, !.lists = @ - 1]
    /\ Throw("no device")
    /\ UNCHANGED <<api, lost, index, runVars, busVars, devVars, histVars>>

Chosen == scenario.list[session.device]

MyClaim == [by |-> attempt, device |-> session.device, interface |-> session.interface]

\* Mutant of Cleanup: the context is not cleared, and exited again.
CleanupTwice ==
    usb' = [usb EXCEPT !.contexts = @ - 2,
                       !.open = @ \ {<<attempt, session.device>>},
                       !.claimed = @ \ {MyClaim}]

\* cleanup: interface, handle and context are given back.
Cleanup ==
    usb' = [usb EXCEPT !.contexts = @ - 1,
                       !.open = @ \ {<<attempt, session.device>>},
                       !.claimed = @ \ {MyClaim}]

Claim ==
    /\ At("claim")
    /\ IF /\ "claim" \notin Chosen.fails /\ plugged
          /\ \A other \in usb.claimed : [other EXCEPT !.by = attempt] # MyClaim
       THEN /\ usb' = [usb EXCEPT !.claimed = @ \cup {MyClaim}]
            /\ Goto("query")
            /\ UNCHANGED session
       ELSE Cleanup /\ session' = NoSession /\ Throw("claim")
    /\ UNCHANGED <<api, lost, index, runVars, buses, queue, devVars, histVars>>

\* send_host_format and read_device_info.  If they fail the constructor has no
\* destructor to run: handle, interface and context stay.
Query ==
    /\ At("query")
    /\ IF InfoReadable(Chosen) /\ plugged
       THEN /\ session' = [device |-> session.device, refs |-> session.refs,
                           interface |-> session.interface, channels |-> ReadDeviceInfo(Chosen)]
            /\ Goto("add")
            /\ UNCHANGED lost
       ELSE session' = NoSession /\ lost' = TRUE /\ Throw("query")
    /\ UNCHANGED <<api, usb, index, runVars, buses, queue, devVars, histVars>>

NextChannel == Channels[Len(buses) + 1]

\* Mutant of Release: the destructor does not close the session.
ReleaseByRefs(owners, refs) ==
    IF refs = 0
    THEN Cleanup /\ session' = NoSession
    ELSE session' = [session EXCEPT !.refs = refs] /\ UNCHANGED usb

\* The last pointer to the session goes, or the last reference: it is closed.
Release(owners, refs) ==
    IF owners = 0 \/ refs = 0
    THEN Cleanup /\ session' = NoSession
    ELSE session' = [session EXCEPT !.refs = refs] /\ UNCHANGED usb

\* add_bus, and the capabilities.  There may be no such channel: the reference stays.
AddBus ==
    /\ pc = "add"
    /\ IF NextChannel \in DOMAIN session.channels
       THEN /\ session' = [session EXCEPT !.refs = @ + 1]
            /\ Goto("configure")
            /\ UNCHANGED usb
       ELSE Release(Len(buses), session.refs + 1) /\ Throw("channel")
    /\ UNCHANGED <<api, lost, index, runVars, buses, queue, devVars, histVars>>

\* The timings the bus object uses; NoTiming where the constructor throws.
NominalTiming(o, cap) ==
    IF o.nominal_timing # <<>> THEN o.nominal_timing[1]
    ELSE CalculateTiming(cap.nominal, o.bitrate[1], 80)

DataTiming(o, cap) ==
    IF o.data_timing # <<>> THEN o.data_timing[1]
    ELSE IF cap.data = NoLimits THEN NoTiming
    ELSE CalculateTiming(cap.data, o.data_bitrate[1], 80)

\* configure_channel after its RESET, as the adapter sees it.
Configured(o, cap) ==
    [on          |-> TRUE,
     nominal     |-> NominalTiming(o, cap),
     data        |-> IF o.fd THEN DataTiming(o, cap) ELSE NoTiming,
     fd          |-> o.fd,
     timestamp   |-> cap.timestamp,
     termination |-> cap.termination /\ o.termination]

\* shutdown of a bus object that is counted: its channel is reset, if the adapter is
\* there, and its reference given back.
ShutdownBus(c, owners) ==
    /\ adapter' = IF plugged THEN [adapter EXCEPT ![c] = ChannelOff] ELSE adapter
    /\ Release(owners, session.refs - 1)

\* The rest of the constructor: timings and configure_channel.
Configure ==
    LET c   == NextChannel
        cap == session.channels[c]
        o   == BusOptions(c)
        fails ==
            IF NominalTiming(o, cap) = NoTiming THEN "timing"
            ELSE IF o.fd /\ o.data_timing = <<>> /\ cap.data = NoLimits THEN "fd"
            ELSE IF o.fd /\ DataTiming(o, cap) = NoTiming THEN "timing"
            ELSE IF ~plugged THEN "transfer"
            ELSE IF o.fd /\ (~cap.fd \/ cap.data = NoLimits) THEN "fd" ELSE "none"
    IN
    /\ At("configure")
    /\ IF fails = "none"
       THEN /\ adapter' = [adapter EXCEPT ![c] = Configured(o, cap)]
            /\ buses' = Append(buses, c)
            /\ Goto("next")
            /\ UNCHANGED <<session, usb>>
       ELSE ShutdownBus(c, Len(buses)) /\ Throw(fails) /\ UNCHANGED buses
    /\ UNCHANGED <<api, lost, index, runVars, queue, wire, pipe, plugged, histVars>>

-----------------------------------------------------------------------------
(***************************************************************************)
(* Sending and receiving                                                   *)
(***************************************************************************)

Cap(c) == session.channels[c]
Turn == buses[at]
Later == IF at = Len(buses) THEN 1 ELSE at + 1

\* Who sends in a round: the sender of a pair, or everybody in turn.
SentAll == Program.kind # "summary" \/ at = Len(buses)

\* send: the adapter takes the frame, or the transfer times out or fails.
Send ==
    /\ At("send") /\ round < scenario.rounds
    /\ IF plugged /\ Len(wire) < InFlight
       THEN /\ wire' = Append(wire, HostFrame(Cap(Turn), Turn, Program.message[Turn][round]))
            /\ stats' = [stats EXCEPT ![Turn].tx = @ + 1]
            /\ IF SentAll
               THEN /\ Goto("recv") /\ round' = round + 1
                    /\ at' = IF Program.kind = "summary" THEN 1 ELSE 2
               ELSE at' = at + 1 /\ UNCHANGED <<progVars, round>>
       ELSE Throw("send") /\ UNCHANGED <<wire, runVars>>
    /\ UNCHANGED <<usbVars, busVars, adapter, pipe, plugged, histVars>>

\* Where recv's caller goes on, with a message or without.
AfterRecv(received) ==
    \/ /\ Program.kind = "once"
       /\ IF received THEN Goto("stop") ELSE Throw("nothing received")
       /\ UNCHANGED <<at, round>>
    \/ /\ Program.kind = "periodic"
       /\ Goto(IF round < scenario.rounds THEN "send" ELSE "stop")
       /\ at' = 1 /\ UNCHANGED round
    \/ /\ Program.kind = "summary"
       /\ at' = Later /\ UNCHANGED <<progVars, round>>

\* recv, when there is a message in the queue.
RecvQueued ==
    /\ pc \in {"recv", "drain"} /\ queue[Turn] # <<>>
    /\ queue' = [queue EXCEPT ![Turn] = Tail(@)]
    /\ got' = [got EXCEPT ![Turn] = Append(@, Head(queue[Turn]))]
    /\ stats' = [stats EXCEPT ![Turn].rx = @ + 1]
    /\ AfterRecv(TRUE)
    /\ UNCHANGED <<usbVars, session, buses, devVars, traffic>>

\* Mutant of PollOnce: the frame is given to the bus object that polled.
PollOnceForMyself ==
    /\ pc \in {"recv", "drain"} /\ queue[Turn] = <<>> /\ plugged /\ pipe # <<>>
    /\ pipe' = Tail(pipe)
    /\ queue' = [queue EXCEPT ![Turn] = Append(@, ParseFrame(Head(pipe)))]
    /\ UNCHANGED <<progVars, usbVars, runVars, session, buses, adapter, wire, plugged, histVars>>

\* rx_frame_size_: a transfer larger than this fails.
RxFrameSize == Max({80} \cup {CalcRxSize(Cap(c)) : c \in DOMAIN session.channels})

\* poll_once in recv: a frame goes to the bus object of its channel, whichever polls.
PollOnce ==
    /\ pc \in {"recv", "drain"} /\ queue[Turn] = <<>> /\ plugged /\ pipe # <<>>
    /\ pipe' = Tail(pipe)
    /\ LET raw == Head(pipe) IN
       queue' = IF raw.size \notin 20 .. RxFrameSize \/ raw.channel \notin ToSet(buses)
                THEN queue
                ELSE [queue EXCEPT ![raw.channel] = Append(@, ParseFrame(raw))]
    /\ UNCHANGED <<progVars, usbVars, runVars, session, buses, adapter, wire, plugged, histVars>>

\* The deadline of recv has passed.
RecvNothing ==
    /\ pc \in {"recv", "drain"} /\ queue[Turn] = <<>>
    /\ AfterRecv(FALSE)
    /\ UNCHANGED <<usbVars, stats, busVars, devVars, histVars>>

\* run_multi_summary_demo: the next tick has come, or the duration is over.
NextTick ==
    /\ pc = "recv" /\ Program.kind = "summary" /\ at = 1
    /\ Goto("send") /\ at' = 1
    /\ UNCHANGED <<usbVars, round, stats, busVars, devVars, histVars>>

DurationOver ==
    /\ pc = "send" /\ Program.kind = "summary" /\ at = 1
    /\ Goto("drain")
    /\ UNCHANGED <<usbVars, runVars, busVars, devVars, histVars>>

DrainOver ==
    /\ pc = "drain" /\ at = 1
    /\ Goto("stop")
    /\ UNCHANGED <<usbVars, runVars, busVars, devVars, histVars>>

\* The adapter's channels are wired in pairs.
Peer(c) == IF c % 2 = 0 THEN c + 1 ELSE c - 1

\* A frame is on the bus, which takes a peer to acknowledge it: its sender's channel
\* echoes it and its peer's receives it, in either order.
Transmit ==
    /\ wire # <<>> /\ plugged
    /\ LET raw  == Head(wire)
           c    == raw.channel
           p    == Peer(c)
           echo == FromBus(Cap(c), c, raw)
           recv == FromBus(Cap(p), p, raw)
           msg  == Program.message[c][raw.stamp[2]]
       IN
       /\ adapter[c].on /\ adapter[p].on
       /\ \/ pipe' = pipe \o <<echo, recv>>
          \/ c \in Swapping /\ pipe' = pipe \o <<recv, echo>>
       /\ traffic' = [traffic EXCEPT ![c] = Append(@, AsSent(c, msg)),
                                     ![p] = Append(@, AsSent(p, msg))]
    /\ wire' = Tail(wire)
    /\ UNCHANGED <<progVars, usbVars, runVars, busVars, adapter, plugged, got>>

Unplug ==
    /\ plugged /\ scenario.unplugs
    /\ pc \notin {"start", "load", "list", "init", "done", "failed", "crashed"}
    /\ plugged' = FALSE
    /\ UNCHANGED <<progVars, usbVars, runVars, busVars, adapter, wire, pipe, histVars>>

-----------------------------------------------------------------------------
(***************************************************************************)
(* The end                                                                 *)
(***************************************************************************)

\* shutdown, or the destructor, of a bus object.
ShutdownNext ==
    /\ pc \in {"stop", "unwind"} /\ buses # <<>>
    /\ ShutdownBus(Head(buses), Len(buses) - 1)
    /\ buses' = Tail(buses)
    /\ UNCHANGED <<progVars, api, lost, index, runVars, queue, wire, pipe, plugged, histVars>>

\* An application that waits for its adapter: it catches what opening throws, and
\* tries once more.
Retries == /\ scenario.retries /\ attempt = 1
           /\ why \notin {"args", "send", "nothing received"}

Exit ==
    /\ pc \in {"stop", "unwind"} /\ buses = <<>> /\ ~(pc = "unwind" /\ Retries)
    /\ Goto(IF pc = "stop" THEN "done" ELSE "failed")
    /\ UNCHANGED <<usbVars, runVars, busVars, devVars, histVars>>

Retry ==
    /\ pc = "unwind" /\ buses = <<>> /\ Retries
    /\ pc' = "next" /\ attempt' = 2
    /\ UNCHANGED <<scenario, why, options, listed, usbVars, runVars, busVars, devVars, histVars>>

Library == Start \/ EnsureLoaded \/ List

Construct == \/ NextBus \/ SessionInit \/ SessionScan \/ NoneFound
             \/ Claim \/ Query \/ AddBus \/ Configure

Traffic == \/ Send \/ RecvQueued \/ PollOnce \/ RecvNothing
           \/ NextTick \/ DurationOver \/ DrainOver

End == ShutdownNext \/ Exit \/ Retry

Next == \/ Crash
        \/ Library \/ Construct \/ Traffic \/ End
        \/ Transmit \/ Unplug

Spec == Init /\ [][Next]_vars

-----------------------------------------------------------------------------
(***************************************************************************)
(* Properties.                                                             *)
(***************************************************************************)

\* Type invariant.
TypeOK ==
    /\ attempt \in 1 .. 2
    /\ api.module \in BOOLEAN /\ api.symbols \subseteq ToSet(Symbols)
    /\ usb \in Held /\ lost \in BOOLEAN /\ plugged \in BOOLEAN
    /\ ToSet(buses) \subseteq AllChannels /\ IsInjective(buses)
    /\ session # NoSession => session.device \in DOMAIN scenario.list
    /\ round \in 0 .. scenario.rounds /\ stats \in [AllChannels -> [tx : Nat, rx : Nat]]

\* messages are what a channel's bus object will find in the pipe, in their order.
InPipe(c, messages) ==
    \E place \in Bijection(DOMAIN messages, {i \in DOMAIN pipe : pipe[i].channel = c}) :
        \A m \in DOMAIN messages :
            /\ ParseFrame(pipe[place[m]]) = messages[m]
            /\ \A n \in DOMAIN messages : m < n => place[m] < place[n]

\* print_stats_summary's SUM line.
Total(of) == of[0] + of[1] + of[2] + of[3] + of[4] + of[5] + of[6] + of[7]
TotalTx == Total([c \in AllChannels |-> stats[c].tx])
TotalRx == Total([c \in AllChannels |-> stats[c].rx])

\* Every frame is handed to the adapter within its buffer, and what the bus object of
\* a channel has received, has queued and will find in the pipe it shares with the
\* others are the frames that were on its bus, once each, in order and as they were
\* sent: "RX is expected to be about 2x TX" (gsusb-cpp/README.md:107), never more.
ArrivesAsSent ==
    /\ \A i \in DOMAIN wire : 12 + wire[i].kept <= wire[i].size
    /\ \A c \in ToSet(buses) : plugged /\ Len(buses) = Len(Channels) /\ pc # "unwind" =>
          LET had == got[c] \o queue[c] IN
          /\ IsPrefix(had, traffic[c])
          /\ InPipe(c, SubSeq(traffic[c], Len(had) + 1, Len(traffic[c])))
    /\ TotalRx <= 2 * TotalTx

\* The device a user means: by the selector's parts, or any.
Means(selector, d) ==
    /\ d.ours
    /\ \/ selector = <<>>
       \/ /\ Numeric(selector)
          /\ <<d.bus, d.address>> = <<selector[1].value, selector[2].value>>
          /\ Len(selector) = 3 => selector[3].value \in {d.alts[i].number : i \in DOMAIN d.alts}
       \/ ~Numeric(selector) /\ selector[1].text = d.serial

\* An adapter at which a search throws: it cannot be read, has not the interface that
\* is asked for, or is meant and cannot be opened.
Obstructs(selector, d) ==
    /\ d.ours /\ "descriptor" \notin d.fails
    /\ \/ "config" \in d.fails
       \/ ~\E i \in DOMAIN d.alts :
              /\ HasBulk(d.alts[i], "in") /\ HasBulk(d.alts[i], "out")
              /\ Numeric(selector) /\ Len(selector) = 3 => d.alts[i].number = selector[3].value
       \/ Means(selector, d) /\ "open" \in d.fails

\* The session is on the device the user means, and on the interface that was listed.
\* A search that finds none has passed over nothing that is meant and works.  The one
\* exception: the constructor throws, where enumerate_devices goes on, at an adapter
\* that obstructs it (gsusb.cpp:492, 505), so that one which is meant, works and was
\* listed is not reached if such an adapter, which may work too, comes before it.
RightAdapter ==
    /\ session # NoSession =>
          /\ Means(options.selector, Chosen)
          /\ listed # <<>> => BuildSummary(Chosen, session.interface) \in ToSet(listed)
    /\ why \in {"no device", "candidate"} /\ plugged =>
          \A i \in DOMAIN scenario.list :
             Means(options.selector, scenario.list[i]) /\ scenario.list[i].fails = {} =>
                /\ why = "candidate"
                /\ \E j \in 1 .. i : Obstructs(options.selector, scenario.list[j])

\* The timings of a bus object just made are the ones given, or legal and as near to
\* a sample point of 80 % as any; none is found only if there is none.
RightTimings ==
    /\ pc = "next" => \A c \in ToSet(buses) :
          LET o == BusOptions(c) IN
          /\ adapter[c].fd = o.fd
          /\ IF o.nominal_timing # <<>> THEN adapter[c].nominal = o.nominal_timing[1]
             ELSE IsNearest(adapter[c].nominal, Cap(c).nominal, o.bitrate[1], 80)
          /\ o.fd => IF o.data_timing # <<>> THEN adapter[c].data = o.data_timing[1]
                     ELSE IsNearest(adapter[c].data, Cap(c).data, o.data_bitrate[1], 80)
    /\ pc = "unwind" /\ why = "timing" =>
          \E d \in ToSet(scenario.list) : \E ch \in ToSet(d.channels) :
             \/ LegalTimings(ch.nominal, options.bitrate) = {}
             \/ Program.fd /\ LegalTimings(ch.data, options.data_bitrate) = {}

\* The limits of the scenarios' adapters, and the rates that are asked of them.
AskedOf(phase, rate) ==
    UNION {{<<ch[phase], ParseCommonOptions(s.args)[rate]>> :
              ch \in UNION {ToSet(d.channels) : d \in ToSet(s.list)}} :
           s \in {t \in Scenarios : Understood(t.args)}}

\* What RightTimings needs of them: a second segment and a jump width there can be,
\* and no legal timing that calculate_timing overlooks.
TimingsFound ==
    \A asked \in AskedOf("nominal", "bitrate") \cup AskedOf("data", "data_bitrate") :
        /\ asked[1].tseg2_min > 0 /\ asked[1].sjw_max > 0
        /\ SearchSuffices(asked[1], asked[2], 80)

\* What a program opened is what it was asked to open, through parse_selector, the
\* search of the device list, the descriptors, capabilities and calculate_timing.
OpenedAsAsked == RightAdapter /\ RightTimings

\* However a program ends, it has stopped its channels and closed its session, also
\* when a channel does not exist and its reference stays; what it had of libusb is
\* given back unless the constructor of a session threw.  It calls no function that
\* was not found, unless it tries again after a DLL that lacked one: module_ is then
\* set, and the DLL taken for loaded.
EndsCleanly ==
    /\ pc \in {"done", "failed"} =>
          /\ session = NoSession
          /\ plugged => \A c \in AllChannels : adapter[c] = ChannelOff
          /\ ~lost => usb = Nothing
    /\ pc = "crashed" => attempt = 2 /\ why = "symbol"
=============================================================================
