--------------------------- MODULE MCCppProgram -----------------------------
(* Instances of CppProgram: every example on an adapter that suits it, and    *)
(* one of them on every kind of adapter, device list, DLL and argument.       *)
EXTENDS CppProgram

Limits(clock, t1, t2, s, b) ==
    [fclk |-> clock, tseg1_min |-> 1, tseg1_max |-> t1, tseg2_min |-> 1, tseg2_max |-> t2,
     sjw_max |-> s, brp_min |-> 1, brp_max |-> b, brp_inc |-> 1]

Bulk == {[dir |-> "in", type |-> "bulk"], [dir |-> "out", type |-> "bulk"]}
Hid  == {[dir |-> "in", type |-> "interrupt"]}

\* Channels: CAN FD with timestamps and termination, the same without the extended
\* limits, and classic CAN.
FdChannel == [ext |-> TRUE, bt |-> TRUE, features |-> {"FD", "HW_TIMESTAMP", "TERMINATION"},
              nominal |-> Limits(80000, 256, 128, 128, 512), data |-> Limits(80000, 32, 16, 16, 32)]
NoExt     == [FdChannel EXCEPT !.ext = FALSE]
Classic   == [NoExt EXCEPT !.features = {}, !.nominal = Limits(48000, 16, 8, 4, 1024)]
Mute      == [NoExt EXCEPT !.bt = FALSE]

Board(n, ch) ==
    [ours |-> TRUE, bus |-> 1, address |-> 5, serial |-> "S1",
     alts |-> <<[number |-> 0, endpoints |-> Bulk]>>, fails |-> {},
     channels |-> [i \in 1 .. n |-> ch]]

Good     == Board(4, FdChannel)
Second   == [Board(2, Classic) EXCEPT !.address = 3, !.serial = "S2",
                 !.alts = <<[number |-> 0, endpoints |-> Hid], [number |-> 1, endpoints |-> Bulk]>>]
Mouse    == [Good EXCEPT !.ours = FALSE, !.address = 4]

Lists == {<<>>, <<Good>>, <<Mouse, Second>>, <<Good, Second>>, <<Second, Good>>,
          <<Board(2, NoExt)>>, <<Board(2, Mute)>>}
            \cup {<<[Good EXCEPT !.fails = {f}], Second>> :
                    f \in {"descriptor", "config", "open", "claim", "info"}}

Txt(t)     == [value |-> None, text |-> t]
Selectors  == {<<>>, <<Number(1), Number(5)>>, <<Number(1), Number(3), Number(1)>>,
               <<Number(1), Number(5), Number(1)>>,
               <<Txt("S2")>>, <<Number(7)>>}

Arg(n, v) == [name |-> n, value |-> <<Number(v)>>]
Flag(n)   == [name |-> n, value |-> <<>>]

AllSymbols == ToSet(Symbols)
WholeDll   == [p \in {"search path"} |-> AllSymbols]
Dlls == {[p \in {} |-> {}],
         [p \in {"search path"} |-> AllSymbols \ {"get_device_list"}],
         [p \in {"GSUSB_LIBUSB_DLL", "search path"} |->
            IF p = "search path" THEN AllSymbols ELSE AllSymbols \ {"bulk_transfer"}]}

Scenario(example, args, list) ==
    [example |-> example, args |-> args, list |-> list, dlls |-> WholeDll,
     rounds |-> 1, lists |-> FALSE, retries |-> FALSE, unplugs |-> FALSE]

Rates == {Arg("bitrate", r) : r \in {0, 50, 83, 125, 250, 500, 800, 1000}}
            \cup {Arg("data_bitrate", r) : r \in {1000, 2000, 4000, 5000, 8000}}

TheScenarios ==
    {Scenario(e, <<>>, <<Good>>) :
       e \in {"01_simple_std", "02_periodic", "03_simple_fd", "04_custom_timing",
              "04_multi_std_asyncio", "01_pair_4ch_threading", "05_pair_4ch_threading",
              "07_pair_4ch_asyncio", "09_multi_custom_timing_threading",
              "10_multi_custom_timing_asyncio", "02_pair_8ch_threading"}}
    \cup {Scenario(e, <<>>, <<Board(8, FdChannel)>>) :
            e \in {"02_pair_8ch_threading", "06_pair_8ch_threading", "08_pair_8ch_asyncio"}}
    \cup {Scenario("04_multi_std_asyncio", <<Flag("classic")>>, <<Board(4, Classic)>>)}
    \cup {Scenario("11_long_run_stress", <<Arg("channel_count", 4), Arg("payload_len", n)>>,
                   <<Good>>) :
            n \in {0, 7, 13, 16, 33, 70}}
    \cup {Scenario("11_long_run_stress", <<Arg("channel_count", 8), Arg("channel_count", 4),
                     Flag("classic")>>, <<Good>>)}
    \cup {Scenario("03_simple_fd", <<r>>, <<Good>>) : r \in Rates}
    \cup {Scenario("01_simple_std", <<r>>, <<Board(2, Classic)>>) : r \in Rates}
    \cup {Scenario("01_simple_std", <<Arg("rx_channel", 2)>>, <<Good>>),
          Scenario("01_simple_std", <<Arg("speed", 1)>>, <<Good>>),
          Scenario("01_simple_std", <<[name |-> "bitrate", value |-> <<Txt("fast")>>]>>, <<Good>>)}
    \cup {[Scenario(e, <<[name |-> "selector", value |-> s]>>, l)
             EXCEPT !.lists = n, !.retries = r, !.unplugs = u] :
            e \in {"01_simple_std", "03_simple_fd"}, s \in Selectors, l \in Lists,
            n, r, u \in BOOLEAN}
    \cup {[Scenario("01_simple_std", <<>>, <<Good>>) EXCEPT !.dlls = d, !.lists = n, !.retries = r] :
            d \in Dlls, n, r \in BOOLEAN}
    \cup {[Scenario(e, <<>>, <<Good>>) EXCEPT !.rounds = 2] :
            e \in {"02_periodic", "10_multi_custom_timing_asyncio"}}
    \cup {[Scenario("01_pair_4ch_threading", <<>>, <<Good>>) EXCEPT !.unplugs = TRUE]}

\* No adapter here has a legal timing that the search overlooks.
ASSUME MCTimingsFound == TimingsFound
=============================================================================
