---------------------------- MODULE CppExamples -----------------------------
(***************************************************************************)
(* The example programs of the C++ SDK (sdk/gsusb-cpp/examples): the       *)
(* options they parse, the bus objects they make and the messages they     *)
(* send.  An example is a record: kind says how it runs (once: one frame   *)
(* and one recv, periodic: the same in a loop, summary: all channels send  *)
(* and receive), channels in the order they are opened, fd and custom      *)
(* (timings) for make_bus_options, and message[c][n], the n-th message of  *)
(* a channel.                                                              *)
(***************************************************************************)
EXTENDS Integers, Sequences, SequencesExt, CppAdapter

CONSTANT Counters        \* bound: numbers of a channel's messages, from 0

(***************************************************************************)
(* demo_common                                                             *)
(***************************************************************************)

CommonOptions ==
    [selector       |-> <<>>,
     bitrate        |-> 1000,      \* kHz
     data_bitrate   |-> 5000,
     classic        |-> FALSE,
     no_termination |-> FALSE,
     tx_channel     |-> 0,
     rx_channel     |-> 1,
     channel_count  |-> 8,
     payload_len    |-> 12]

Flags == {"classic", "no_termination"}

\* An argument is a name and what follows it, in parts as selectors are.
Argument == [name : STRING, value : Seq([value : Nat \cup {None}, text : STRING])]

\* An unknown name, and a number that is none, throw.
Understood(args) ==
    \A i \in DOMAIN args :
        /\ args[i].name \in DOMAIN CommonOptions
        /\ args[i].name \notin Flags \cup {"selector"} =>
              Len(args[i].value) = 1 /\ IsNumber(args[i].value[1])

ParsedValue(arg) ==
    IF arg.name = "selector" THEN arg.value
    ELSE IF arg.name \in Flags THEN TRUE ELSE arg.value[1].value

\* parse_common_options: the last of several arguments of a name counts.
ParseCommonOptions(args) ==
    [name \in DOMAIN CommonOptions |->
        LET given == {i \in DOMAIN args : args[i].name = name}
        IN  IF given = {} THEN CommonOptions[name] ELSE ParsedValue(args[Max(given)])]

\* get_demo_custom_timings
CustomNominal == [brp |-> 2, prop_seg |-> 0, phase_seg1 |-> 31, phase_seg2 |-> 8, sjw |-> 8]
CustomData    == [brp |-> 1, prop_seg |-> 0, phase_seg1 |-> 7, phase_seg2 |-> 2, sjw |-> 2]

\* make_payload, of whatever prefix: the prefix is cut or filled up.
MakePayload(c, n, total) == [stamp |-> <<c, n>>, len |-> total]

CanMessage(id, ext, use_fd, data) ==
    [id |-> id, ext |-> ext, rtr |-> FALSE, fd |-> use_fd, brs |-> use_fd, esi |-> FALSE,
     data |-> data]

\* make_bus_options: explicit timings instead of rates, data rates only with fd.
MakeBusOptions(o, channel, fd, custom) ==
    [selector        |-> o.selector,
     channel         |-> channel,
     fd              |-> fd,
     termination     |-> ~o.no_termination,
     nominal_timing  |-> IF custom THEN <<CustomNominal>> ELSE <<>>,
     bitrate         |-> IF custom THEN <<>> ELSE <<o.bitrate>>,
     data_timing     |-> IF fd /\ custom THEN <<CustomData>> ELSE <<>>,
     data_bitrate    |-> IF fd /\ ~custom THEN <<o.data_bitrate>> ELSE <<>>]

(***************************************************************************)
(* The examples                                                            *)
(***************************************************************************)

\* A sender and a receiver.
Pair(o, kind, fd, custom, messages) ==
    [kind |-> kind, channels |-> <<o.tx_channel, o.rx_channel>>, fd |-> fd, custom |-> custom,
     message |-> [c \in {o.tx_channel} |-> messages]]

\* run_multi_summary_demo with the factories that the mains give it.
Summary(channels, fd, custom, id, len) ==
    [kind |-> "summary", channels |-> channels, fd |-> fd, custom |-> custom,
     message |-> [c \in ToSet(channels) |->
                     [n \in Counters |-> CanMessage(id + c, FALSE, fd, MakePayload(c, n, len))]]]

Four  == <<0, 1, 2, 3>>
Eight == <<0, 1, 2, 3, 4, 5, 6, 7>>

UseFd(o) == ~o.classic
FdOr8(o, len) == IF o.classic THEN 8 ELSE len

SimpleStd(o) ==
    Pair(o, "once", FALSE, FALSE,
         [n \in Counters |-> CanMessage(\h123, FALSE, FALSE, MakePayload(o.tx_channel, n, 4))])

Periodic(o) ==
    Pair(o, "periodic", FALSE, FALSE,
         [n \in Counters |-> CanMessage(\h100, FALSE, FALSE, MakePayload(o.tx_channel, n, 4))])

ExtendedId == \h1FFFFFF0

SimpleFd(o) ==
    Pair(o, "once", TRUE, FALSE,
         [n \in Counters |-> CanMessage(ExtendedId, TRUE, TRUE, MakePayload(o.tx_channel, n, 64))])

CustomTiming(o) ==
    Pair(o, "once", TRUE, TRUE,
         [n \in Counters |-> CanMessage(\h7F0, FALSE, TRUE, MakePayload(o.tx_channel, n, 12))])

MultiStdAsyncio(o)  == Summary(Four,  UseFd(o), FALSE, \h300, FdOr8(o, 12))
Pair4chThreading(o) == Summary(Four,  UseFd(o), FALSE, \h500, FdOr8(o, 12))
Pair8chThreading(o) == Summary(Eight, UseFd(o), FALSE, \h600, FdOr8(o, 12))
Pair4chWrapper(o)   == Summary(Four,  UseFd(o), FALSE, \h500, FdOr8(o, 12))
Pair8chWrapper(o)   == Summary(Eight, UseFd(o), FALSE, \h600, FdOr8(o, 12))
Pair4chAsyncio(o)   == Summary(Four,  UseFd(o), FALSE, \h300, FdOr8(o, 12))
Pair8chAsyncio(o)   == Summary(Eight, UseFd(o), FALSE, \h600, FdOr8(o, 12))
MultiCustomThreading(o) == Summary(Four, TRUE, TRUE, \h700, 20)
\* 0x800 + c does not fit in the 11 bits of a standard id.
MultiCustomAsyncio(o)   == Summary(Four, TRUE, TRUE, \h800, 20)

LongRunStress(o) ==
    Summary(IF o.channel_count = 4 THEN Four ELSE Eight, UseFd(o), FALSE, \h680,
            IF o.classic /\ o.payload_len > 8 THEN 8 ELSE o.payload_len)

ExampleNames ==
    {"01_simple_std", "02_periodic", "03_simple_fd", "04_custom_timing", "04_multi_std_asyncio",
     "01_pair_4ch_threading", "02_pair_8ch_threading", "05_pair_4ch_threading",
     "06_pair_8ch_threading", "07_pair_4ch_asyncio", "08_pair_8ch_asyncio",
     "09_multi_custom_timing_threading", "10_multi_custom_timing_asyncio", "11_long_run_stress"}

Example(name, o) ==
    CASE name = "01_simple_std"                  -> SimpleStd(o)
      [] name = "02_periodic"                    -> Periodic(o)
      [] name = "03_simple_fd"                   -> SimpleFd(o)
      [] name = "04_custom_timing"               -> CustomTiming(o)
      [] name = "04_multi_std_asyncio"           -> MultiStdAsyncio(o)
      [] name = "01_pair_4ch_threading"          -> Pair4chThreading(o)
      [] name = "02_pair_8ch_threading"          -> Pair8chThreading(o)
      [] name = "05_pair_4ch_threading"          -> Pair4chWrapper(o)
      [] name = "06_pair_8ch_threading"          -> Pair8chWrapper(o)
      [] name = "07_pair_4ch_asyncio"            -> Pair4chAsyncio(o)
      [] name = "08_pair_8ch_asyncio"            -> Pair8chAsyncio(o)
      [] name = "09_multi_custom_timing_threading" -> MultiCustomThreading(o)
      [] name = "10_multi_custom_timing_asyncio" -> MultiCustomAsyncio(o)
      [] name = "11_long_run_stress"             -> LongRunStress(o)
=============================================================================
