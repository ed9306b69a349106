----------------------------- MODULE CppAdapter -----------------------------
(***************************************************************************)
(* How the C++ SDK finds an adapter and learns what it can do              *)
(* (sdk/gsusb-cpp/src/gsusb.cpp).  libusb's device list is a sequence of   *)
(* device records; the calls that fail for a device are in its "fails".    *)
(* Strings other than the serial number, and endpoint addresses, are left  *)
(* out; a selector is the sequence of its parts between colons.            *)
(***************************************************************************)
EXTENDS Integers, Sequences, FiniteSetsExt, SequencesExt, TLC

None == -1                \* std::nullopt of a number

TimingLimits ==
    [fclk : Nat, tseg1_min : Nat, tseg1_max : Nat, tseg2_min : Nat, tseg2_max : Nat,
     sjw_max : Nat, brp_min : Nat, brp_max : Nat, brp_inc : Nat]

\* A channel of the firmware: which of the two requests for its limits it answers,
\* and with what.
Channel ==
    [ext : BOOLEAN, bt : BOOLEAN, features : SUBSET {"FD", "HW_TIMESTAMP", "TERMINATION"},
     nominal : TimingLimits, data : TimingLimits]

Endpoint == [dir : {"in", "out"}, type : {"bulk", "interrupt"}]

\* A device as libusb has it: its descriptor, the altsettings of its interfaces in
\* order, and, for the adapter behind it, its channels.
Device ==
    [ours : BOOLEAN, bus : Nat, address : Nat, serial : STRING,
     alts : Seq([number : Nat, endpoints : SUBSET Endpoint]),
     fails : SUBSET {"descriptor", "config", "open", "claim", "info"},
     channels : Seq(Channel)]

(***************************************************************************)
(* Selectors                                                               *)
(***************************************************************************)

Number(n) == [value |-> n, text |-> ToString(n)]

IsNumber(part) == part.value # None

Numeric(selector) ==
    /\ Len(selector) \in {2, 3}
    /\ \A i \in DOMAIN selector : IsNumber(selector[i])

\* parse_selector_bus_address: nothing ("auto"), BUS:ADDR, BUS:ADDR:IF, or a serial
\* number, on top of what the options ask for.
ParseSelector(selector, interface, serial) ==
    IF selector = <<>>
    THEN [bus |-> None, address |-> None, interface |-> interface, serial |-> serial]
    ELSE IF Numeric(selector)
    THEN [bus |-> selector[1].value, address |-> selector[2].value,
          interface |-> IF Len(selector) = 3 THEN selector[3].value ELSE interface,
          serial |-> serial]
    ELSE [bus |-> None, address |-> None, interface |-> interface,
          serial |-> selector[1].text]

(***************************************************************************)
(* Descriptors                                                             *)
(***************************************************************************)

HasBulk(alt, dir) == \E e \in alt.endpoints : e.dir = dir /\ e.type = "bulk"

\* Mutant of FindBulkInterface: the hint is forgotten.
FindAnyBulkInterface(d, hint) ==
    LET fits == {i \in DOMAIN d.alts : HasBulk(d.alts[i], "in") /\ HasBulk(d.alts[i], "out")}
    IN  IF "config" \in d.fails \/ fits = {} THEN None ELSE d.alts[Min(fits)].number

\* The first altsetting, of the hinted interface if there is a hint, with a bulk
\* endpoint in each direction; None where the code throws.
FindBulkInterface(d, hint) ==
    LET fits == {i \in DOMAIN d.alts :
                    /\ hint = None \/ d.alts[i].number = hint
                    /\ HasBulk(d.alts[i], "in") /\ HasBulk(d.alts[i], "out")}
    IN  IF "config" \in d.fails \/ fits = {} THEN None ELSE d.alts[Min(fits)].number

\* The device is opened for it; an empty string if that fails.
ReadSerial(d) == IF "open" \in d.fails THEN "" ELSE d.serial

BuildSummary(d, interface) ==
    [bus |-> d.bus, address |-> d.address, interface |-> interface, serial |-> ReadSerial(d)]

Before(x, y) ==
    \/ x.bus < y.bus
    \/ x.bus = y.bus /\ x.address < y.address
    \/ x.bus = y.bus /\ x.address = y.address /\ x.interface < y.interface

\* enumerate_devices: a device that cannot be read is left out, and the rest sorted.
EnumerateDevices(list) ==
    LET found == {BuildSummary(list[i], FindBulkInterface(list[i], None)) :
                    i \in {j \in DOMAIN list :
                              /\ list[j].ours /\ "descriptor" \notin list[j].fails
                              /\ FindBulkInterface(list[j], None) # None}}
    IN  CHOOSE s \in SetToSeqs(found) : \A i, j \in DOMAIN s : i < j => Before(s[i], s[j])

\* What the session's constructor makes of a device of the list: it goes on to the
\* next, throws, or takes it.
Considers(d, want) ==
    IF "descriptor" \in d.fails \/ ~d.ours THEN "skip"
    ELSE LET interface == FindBulkInterface(d, want.interface)
             summary   == BuildSummary(d, interface)
         IN  IF interface = None THEN "throw"
             ELSE IF \/ want.bus # None /\ want.bus # summary.bus
                     \/ want.address # None /\ want.address # summary.address
                     \/ want.serial # "" /\ want.serial # summary.serial
             THEN "skip"
             ELSE IF "open" \in d.fails THEN "throw" ELSE "take"

(***************************************************************************)
(* Capabilities                                                            *)
(***************************************************************************)

NoLimits == [fclk |-> 0]

\* GS_USB_BREQ_BT_CONST_EXT, and BT_CONST if the device does not know it: then there
\* are no limits of the data phase.
Answers(channel) == channel.ext \/ channel.bt

ReadChannelCapabilities(channel) ==
    [fd          |-> "FD" \in channel.features,
     timestamp   |-> "HW_TIMESTAMP" \in channel.features,
     termination |-> "TERMINATION" \in channel.features,
     nominal     |-> channel.nominal,
     data        |-> IF channel.ext THEN channel.data ELSE NoLimits]

\* read_device_info, where no request fails.
InfoReadable(d) ==
    /\ "info" \notin d.fails
    /\ \A i \in DOMAIN d.channels : Answers(d.channels[i])

ReadDeviceInfo(d) ==
    [i \in 0 .. Len(d.channels) - 1 |-> ReadChannelCapabilities(d.channels[i + 1])]
=============================================================================
