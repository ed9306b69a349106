-------------------------- MODULE CppProgramProofs --------------------------
(***************************************************************************)
(* Proofs about CppProgram, for every set of scenarios, every number of    *)
(* frames the adapter takes, and whichever echoes come late.               *)
(***************************************************************************)
EXTENDS CppProgram, FiniteSetTheorems, SequenceTheorems, WellFoundedInduction, TLAPS

-----------------------------------------------------------------------------
(***************************************************************************)
(* The examples.                                                           *)
(***************************************************************************)

\* What the loops of the examples need of an example: somebody sends, on a
\* channel that is opened, messages that carry their sender and number.
Runnable(e) ==
    /\ \/ e.kind \in {"once", "periodic"} /\ Len(e.channels) = 2
       \/ e.kind = "summary" /\ e.channels \in {Four, Eight}
    /\ e.channels \in Seq({e.channels[i] : i \in DOMAIN e.channels})

Senders(e) == IF e.kind = "summary" THEN ToSet(e.channels) ELSE {e.channels[1]}

Sendable(e, msg, c, n) ==
    /\ msg.data.stamp = <<c, n>> /\ msg.data.len \in Nat
    /\ msg.fd = e.fd /\ msg.rtr = FALSE /\ msg.ext \in BOOLEAN

LEMMA PairRuns ==
  ASSUME NEW o, NEW kind \in {"once", "periodic"}, NEW fd \in BOOLEAN, NEW custom, NEW messages
  PROVE  LET e == Pair(o, kind, fd, custom, messages)
         IN  /\ Runnable(e) /\ Senders(e) = {o.tx_channel} /\ e.kind = kind /\ e.fd = fd
             /\ e.channels = <<o.tx_channel, o.rx_channel>>
             /\ \A n \in Counters : e.message[o.tx_channel][n] = messages[n]
<1> DEFINE e == Pair(o, kind, fd, custom, messages)
<1>1. e.kind = kind /\ e.channels = <<o.tx_channel, o.rx_channel>> /\ e.fd = fd
  BY DEF Pair
<1>2. Senders(e) = {o.tx_channel}
  BY <1>1 DEF Senders
<1>3. Runnable(e)
  <2>1. e.channels \in Seq({e.channels[i] : i \in DOMAIN e.channels})
    BY <1>1
  <2>2. Len(e.channels) = 2
    BY <1>1
  <2> HIDE DEF e
  <2> QED
    BY <1>1, <2>1, <2>2 DEF Runnable
<1>4. ASSUME NEW n \in Counters PROVE e.message[o.tx_channel][n] = messages[n]
  BY DEF Pair
<1> QED
  BY <1>1, <1>2, <1>3, <1>4

LEMMA SummaryRuns ==
  ASSUME NEW channels \in {Four, Eight}, NEW fd \in BOOLEAN, NEW custom, NEW id, NEW len \in Nat
  PROVE  LET e == Summary(channels, fd, custom, id, len)
         IN  /\ Runnable(e) /\ Senders(e) = ToSet(channels) /\ e.kind = "summary" /\ e.fd = fd
             /\ e.channels = channels
             /\ \A c \in ToSet(channels), n \in Counters : Sendable(e, e.message[c][n], c, n)
<1> DEFINE e == Summary(channels, fd, custom, id, len)
<1>1. e.kind = "summary" /\ e.channels = channels /\ e.fd = fd
  BY DEF Summary
<1>2. Senders(e) = ToSet(channels)
  BY <1>1 DEF Senders
<1>3. Runnable(e)
  <2>1. channels \in Seq({channels[i] : i \in DOMAIN channels})
    BY DEF Four, Eight
  <2> HIDE DEF e
  <2> QED
    BY <1>1, <2>1 DEF Runnable
<1>4. ASSUME NEW c \in ToSet(channels), NEW n \in Counters
      PROVE  Sendable(e, e.message[c][n], c, n)
  <2>1. e.message[c][n] = CanMessage(id + c, FALSE, fd, MakePayload(c, n, len))
    BY DEF Summary
  <2> QED
    BY <1>1, <2>1 DEF Sendable, CanMessage, MakePayload
<1> QED
  BY <1>1, <1>2, <1>3, <1>4

Runs(e) ==
    /\ Runnable(e) /\ e.fd \in BOOLEAN
    /\ \A c \in Senders(e), n \in Counters : Sendable(e, e.message[c][n], c, n)

\* The four examples with a sender and a receiver.
LEMMA PairMessages ==
  ASSUME NEW o, NEW kind \in {"once", "periodic"}, NEW fd \in BOOLEAN, NEW custom, NEW messages,
         \A n \in Counters :
            /\ messages[n].data.stamp = <<o.tx_channel, n>> /\ messages[n].data.len \in Nat
            /\ messages[n].fd = fd /\ messages[n].rtr = FALSE /\ messages[n].ext \in BOOLEAN
  PROVE  Runs(Pair(o, kind, fd, custom, messages))
<1> DEFINE e == Pair(o, kind, fd, custom, messages)
<1>1. /\ Runnable(e) /\ Senders(e) = {o.tx_channel} /\ e.fd = fd
      /\ \A n \in Counters : e.message[o.tx_channel][n] = messages[n]
  BY PairRuns
<1> HIDE DEF e
<1>2. ASSUME NEW n \in Counters PROVE Sendable(e, e.message[o.tx_channel][n], o.tx_channel, n)
  BY <1>1 DEF Sendable
<1>3. Runs(e)
  BY <1>1, <1>2 DEF Runs
<1> QED
  BY <1>3 DEF e

LEMMA PairExamplesRun ==
  ASSUME NEW o
  PROVE  Runs(SimpleStd(o)) /\ Runs(Periodic(o)) /\ Runs(SimpleFd(o)) /\ Runs(CustomTiming(o))
<1>1. Runs(SimpleStd(o))
  <2> DEFINE messages == [n \in Counters |-> CanMessage(\h123, FALSE, FALSE, MakePayload(o.tx_channel, n, 4))]
  <2>1. ASSUME NEW n \in Counters
        PROVE  /\ messages[n].data.stamp = <<o.tx_channel, n>> /\ messages[n].data.len \in Nat
               /\ messages[n].fd = FALSE /\ messages[n].rtr = FALSE
               /\ messages[n].ext \in BOOLEAN
    BY DEF CanMessage, MakePayload
  <2> HIDE DEF messages
  <2>2. Runs(Pair(o, "once", FALSE, FALSE, messages))
    BY <2>1, PairMessages
  <2> QED
    BY <2>2 DEF messages, SimpleStd
<1>2. Runs(Periodic(o))
  <2> DEFINE messages == [n \in Counters |-> CanMessage(\h100, FALSE, FALSE, MakePayload(o.tx_channel, n, 4))]
  <2>1. ASSUME NEW n \in Counters
        PROVE  /\ messages[n].data.stamp = <<o.tx_channel, n>> /\ messages[n].data.len \in Nat
               /\ messages[n].fd = FALSE /\ messages[n].rtr = FALSE
               /\ messages[n].ext \in BOOLEAN
    BY DEF CanMessage, MakePayload
  <2> HIDE DEF messages
  <2>2. Runs(Pair(o, "periodic", FALSE, FALSE, messages))
    BY <2>1, PairMessages
  <2> QED
    BY <2>2 DEF messages, Periodic
<1>3. Runs(SimpleFd(o))
  <2> DEFINE messages == [n \in Counters |->
                            CanMessage(ExtendedId, TRUE, TRUE, MakePayload(o.tx_channel, n, 64))]
  <2>1. ASSUME NEW n \in Counters
        PROVE  /\ messages[n].data.stamp = <<o.tx_channel, n>> /\ messages[n].data.len \in Nat
               /\ messages[n].fd = TRUE /\ messages[n].rtr = FALSE
               /\ messages[n].ext \in BOOLEAN
    BY DEF CanMessage, MakePayload
  <2> HIDE DEF messages
  <2>2. Runs(Pair(o, "once", TRUE, FALSE, messages))
    BY <2>1, PairMessages
  <2> QED
    BY <2>2 DEF messages, SimpleFd
<1>4. Runs(CustomTiming(o))
  <2> DEFINE messages == [n \in Counters |-> CanMessage(\h7F0, FALSE, TRUE, MakePayload(o.tx_channel, n, 12))]
  <2>1. ASSUME NEW n \in Counters
        PROVE  /\ messages[n].data.stamp = <<o.tx_channel, n>> /\ messages[n].data.len \in Nat
               /\ messages[n].fd = TRUE /\ messages[n].rtr = FALSE
               /\ messages[n].ext \in BOOLEAN
    BY DEF CanMessage, MakePayload
  <2> HIDE DEF messages
  <2>2. Runs(Pair(o, "once", TRUE, TRUE, messages))
    BY <2>1, PairMessages
  <2> QED
    BY <2>2 DEF messages, CustomTiming
<1> QED
  BY <1>1, <1>2, <1>3, <1>4

\* The ten examples in which every channel sends.
LEMMA SummaryExamplesRun ==
  ASSUME NEW o, o.classic \in BOOLEAN, o.payload_len \in Nat
  PROVE  /\ Runs(MultiStdAsyncio(o)) /\ Runs(Pair4chThreading(o)) /\ Runs(Pair8chThreading(o))
         /\ Runs(Pair4chWrapper(o)) /\ Runs(Pair8chWrapper(o))
         /\ Runs(Pair4chAsyncio(o)) /\ Runs(Pair8chAsyncio(o))
         /\ Runs(MultiCustomThreading(o)) /\ Runs(MultiCustomAsyncio(o))
         /\ Runs(LongRunStress(o))
<1>1. ASSUME NEW channels \in {Four, Eight}, NEW fd \in BOOLEAN, NEW custom, NEW id, NEW len \in Nat
      PROVE  Runs(Summary(channels, fd, custom, id, len))
  BY SummaryRuns DEF Runs
<1>2. UseFd(o) \in BOOLEAN
  BY DEF UseFd
<1>3. FdOr8(o, 12) \in Nat
  BY DEF FdOr8
<1>4. \A id \in Int, len \in Nat :
         /\ Runs(Summary(Four, UseFd(o), FALSE, id, len))
         /\ Runs(Summary(Eight, UseFd(o), FALSE, id, len))
         /\ Runs(Summary(Four, TRUE, TRUE, id, len))
  BY <1>1, <1>2, Zenon
<1>5. Runs(MultiStdAsyncio(o))
  <2>1. PICK id \in Int : id = \h300
    OBVIOUS
  <2>2. MultiStdAsyncio(o) = Summary(Four, UseFd(o), FALSE, id, FdOr8(o, 12))
    BY <2>1 DEF MultiStdAsyncio
  <2> QED
    BY <1>3, <1>4, <2>2
<1>6. Runs(Pair4chThreading(o))
  <2>1. PICK id \in Int : id = \h500
    OBVIOUS
  <2>2. Pair4chThreading(o) = Summary(Four, UseFd(o), FALSE, id, FdOr8(o, 12))
    BY <2>1 DEF Pair4chThreading
  <2> QED
    BY <1>3, <1>4, <2>2
<1>7. Runs(Pair8chThreading(o))
  <2>1. PICK id \in Int : id = \h600
    OBVIOUS
  <2>2. Pair8chThreading(o) = Summary(Eight, UseFd(o), FALSE, id, FdOr8(o, 12))
    BY <2>1 DEF Pair8chThreading
  <2> QED
    BY <1>3, <1>4, <2>2
<1>8. Runs(Pair4chWrapper(o))
  <2>1. PICK id \in Int : id = \h500
    OBVIOUS
  <2>2. Pair4chWrapper(o) = Summary(Four, UseFd(o), FALSE, id, FdOr8(o, 12))
    BY <2>1 DEF Pair4chWrapper
  <2> QED
    BY <1>3, <1>4, <2>2
<1>9. Runs(Pair8chWrapper(o))
  <2>1. PICK id \in Int : id = \h600
    OBVIOUS
  <2>2. Pair8chWrapper(o) = Summary(Eight, UseFd(o), FALSE, id, FdOr8(o, 12))
    BY <2>1 DEF Pair8chWrapper
  <2> QED
    BY <1>3, <1>4, <2>2
<1>10. Runs(Pair4chAsyncio(o))
  <2>1. PICK id \in Int : id = \h300
    OBVIOUS
  <2>2. Pair4chAsyncio(o) = Summary(Four, UseFd(o), FALSE, id, FdOr8(o, 12))
    BY <2>1 DEF Pair4chAsyncio
  <2> QED
    BY <1>3, <1>4, <2>2
<1>11. Runs(Pair8chAsyncio(o))
  <2>1. PICK id \in Int : id = \h600
    OBVIOUS
  <2>2. Pair8chAsyncio(o) = Summary(Eight, UseFd(o), FALSE, id, FdOr8(o, 12))
    BY <2>1 DEF Pair8chAsyncio
  <2> QED
    BY <1>3, <1>4, <2>2
<1>12. Runs(MultiCustomThreading(o))
  <2>1. PICK id \in Int : id = \h700
    OBVIOUS
  <2>2. MultiCustomThreading(o) = Summary(Four, TRUE, TRUE, id, 20)
    BY <2>1 DEF MultiCustomThreading
  <2> QED
    BY <1>3, <1>4, <2>2
<1>13. Runs(MultiCustomAsyncio(o))
  <2>1. PICK id \in Int : id = \h800
    OBVIOUS
  <2>2. MultiCustomAsyncio(o) = Summary(Four, TRUE, TRUE, id, 20)
    BY <2>1 DEF MultiCustomAsyncio
  <2> QED
    BY <1>3, <1>4, <2>2
<1>14. Runs(LongRunStress(o))
  <2>0. PICK id \in Int : id = \h680
    OBVIOUS
  <2> DEFINE len == IF o.classic /\ o.payload_len > 8 THEN 8 ELSE o.payload_len
  <2>1. len \in Nat
    OBVIOUS
  <2> HIDE DEF len
  <2>3. CASE o.channel_count = 4
    <3>1. LongRunStress(o) = Summary(Four, UseFd(o), FALSE, id, len)
      BY <2>0, <2>3 DEF LongRunStress, len
    <3> QED
      BY <1>4, <2>1, <3>1
  <2>4. CASE o.channel_count # 4
    <3>1. LongRunStress(o) = Summary(Eight, UseFd(o), FALSE, id, len)
      BY <2>0, <2>4 DEF LongRunStress, len
    <3> QED
      BY <1>4, <2>1, <3>1
  <2> QED
    BY <2>3, <2>4
<1> QED
  BY <1>5, <1>6, <1>7, <1>8, <1>9, <1>10, <1>11, <1>12, <1>13, <1>14

LEMMA ExampleRuns ==
  ASSUME NEW name \in ExampleNames, NEW o, o.classic \in BOOLEAN, o.payload_len \in Nat
  PROVE  Runs(Example(name, o))
<1>1. CASE name = "01_simple_std"
  BY <1>1, PairExamplesRun DEF Example
<1>2. CASE name = "02_periodic"
  BY <1>2, PairExamplesRun DEF Example
<1>3. CASE name = "03_simple_fd"
  BY <1>3, PairExamplesRun DEF Example
<1>4. CASE name = "04_custom_timing"
  BY <1>4, PairExamplesRun DEF Example
<1>5. CASE name = "04_multi_std_asyncio"
  BY <1>5, SummaryExamplesRun DEF Example
<1>6. CASE name = "01_pair_4ch_threading"
  BY <1>6, SummaryExamplesRun DEF Example
<1>7. CASE name = "02_pair_8ch_threading"
  BY <1>7, SummaryExamplesRun DEF Example
<1>8. CASE name = "05_pair_4ch_threading"
  BY <1>8, SummaryExamplesRun DEF Example
<1>9. CASE name = "06_pair_8ch_threading"
  BY <1>9, SummaryExamplesRun DEF Example
<1>10. CASE name = "07_pair_4ch_asyncio"
  BY <1>10, SummaryExamplesRun DEF Example
<1>11. CASE name = "08_pair_8ch_asyncio"
  BY <1>11, SummaryExamplesRun DEF Example
<1>12. CASE name = "09_multi_custom_timing_threading"
  BY <1>12, SummaryExamplesRun DEF Example
<1>13. CASE name = "10_multi_custom_timing_asyncio"
  BY <1>13, SummaryExamplesRun DEF Example
<1>14. CASE name = "11_long_run_stress"
  BY <1>14, SummaryExamplesRun DEF Example
<1> QED
  BY <1>1, <1>2, <1>3, <1>4, <1>5, <1>6, <1>7, <1>8, <1>9, <1>10, <1>11, <1>12, <1>13, <1>14 DEF ExampleNames

-----------------------------------------------------------------------------
(***************************************************************************)
(* The host frame: what a message is when it comes back.                   *)
(***************************************************************************)

\* The lengths of CAN FD, up to a length that must fit.
FdLengths == 0 .. 8 \cup {12, 16, 20, 24, 32, 48, 64}

\* The smallest n that fits is what Min chooses.
LEMMA MinIs ==
  ASSUME NEW S \in SUBSET Int, NEW n \in S, \A m \in S : n <= m
  PROVE  Min(S) = n
<1>1. \A x \in S : (\A m \in S : x <= m) => x = n
  <2> SUFFICES ASSUME NEW x \in S, \A m \in S : x <= m PROVE x = n
    OBVIOUS
  <2>1. x <= n /\ n <= x
    OBVIOUS
  <2> QED
    BY <2>1
<1>2. \E x \in S : \A m \in S : x <= m
  OBVIOUS
<1>3. Min(S) \in S /\ \A m \in S : Min(S) <= m
  BY <1>2, Zenon DEF Min
<1> QED
  BY <1>1, <1>3

LEMMA LengthsCounted ==
  /\ Cardinality({}) = 0 /\ Cardinality({12}) = 1 /\ Cardinality({12, 16}) = 2
  /\ Cardinality({12, 16, 20}) = 3 /\ Cardinality({12, 16, 20, 24}) = 4
  /\ Cardinality({12, 16, 20, 24, 32}) = 5 /\ Cardinality({12, 16, 20, 24, 32, 48}) = 6
<1>0. IsFiniteSet({}) /\ Cardinality({}) = 0
  BY FS_EmptySet
<1>1. IsFiniteSet({12}) /\ Cardinality({12}) = 1
  BY FS_Singleton
<1>2. IsFiniteSet({12, 16}) /\ Cardinality({12, 16}) = 2
  <2>1. {12, 16} = {12} \cup {16} /\ 16 \notin {12}
    OBVIOUS
  <2>2. IsFiniteSet({12} \cup {16}) /\ Cardinality({12} \cup {16}) = 1 + 1
    BY <1>1, <2>1, FS_AddElement
  <2> QED
    BY <2>1, <2>2
<1>3. IsFiniteSet({12, 16, 20}) /\ Cardinality({12, 16, 20}) = 3
  <2>1. {12, 16, 20} = {12, 16} \cup {20} /\ 20 \notin {12, 16}
    OBVIOUS
  <2>2. IsFiniteSet({12, 16} \cup {20}) /\ Cardinality({12, 16} \cup {20}) = 2 + 1
    BY <1>2, <2>1, FS_AddElement
  <2> QED
    BY <2>1, <2>2
<1>4. IsFiniteSet({12, 16, 20, 24}) /\ Cardinality({12, 16, 20, 24}) = 4
  <2>1. {12, 16, 20, 24} = {12, 16, 20} \cup {24} /\ 24 \notin {12, 16, 20}
    OBVIOUS
  <2>2. IsFiniteSet({12, 16, 20} \cup {24}) /\ Cardinality({12, 16, 20} \cup {24}) = 3 + 1
    BY <1>3, <2>1, FS_AddElement
  <2> QED
    BY <2>1, <2>2
<1>5. IsFiniteSet({12, 16, 20, 24, 32}) /\ Cardinality({12, 16, 20, 24, 32}) = 5
  <2>1. {12, 16, 20, 24, 32} = {12, 16, 20, 24} \cup {32} /\ 32 \notin {12, 16, 20, 24}
    OBVIOUS
  <2>2. IsFiniteSet({12, 16, 20, 24} \cup {32}) /\ Cardinality({12, 16, 20, 24} \cup {32}) = 4 + 1
    BY <1>4, <2>1, FS_AddElement
  <2> QED
    BY <2>1, <2>2
<1>6. IsFiniteSet({12, 16, 20, 24, 32, 48}) /\ Cardinality({12, 16, 20, 24, 32, 48}) = 6
  <2>1. {12, 16, 20, 24, 32, 48} = {12, 16, 20, 24, 32} \cup {48} /\ 48 \notin {12, 16, 20, 24, 32}
    OBVIOUS
  <2>2. IsFiniteSet({12, 16, 20, 24, 32} \cup {48}) /\ Cardinality({12, 16, 20, 24, 32} \cup {48}) = 5 + 1
    BY <1>5, <2>1, FS_AddElement
  <2> QED
    BY <2>1, <2>2
<1> QED
  BY <1>0, <1>1, <1>2, <1>3, <1>4, <1>5, <1>6

\* len_to_dlc and dlc_to_len: the next length that CAN FD has.
LEMMA NextLength ==
  ASSUME NEW len \in Nat
  PROVE  /\ LenToDlc(len) \in 0 .. 15
         /\ DlcToLen(LenToDlc(len)) = Min({l \in FdLengths : l >= Lower(len, 64)})
         /\ DlcToLen(LenToDlc(len)) \in 0 .. 64
         /\ DlcToLen(LenToDlc(len)) >= Lower(len, 64)
<1> DEFINE fits == {l \in FdLengths : l >= Lower(len, 64)}
           past == {n \in {12, 16, 20, 24, 32, 48} : len > n}
<1>0. fits \in SUBSET Int
  BY DEF FdLengths
<1>1. CASE len <= 8
  <2>1. LenToDlc(len) = len /\ DlcToLen(len) = len
    BY <1>1 DEF LenToDlc, DlcToLen, DlcMap, Lower
  <2>2. len \in fits /\ \A m \in fits : len <= m
    BY <1>1 DEF FdLengths, Lower
  <2>3. Min(fits) = len
    BY <1>0, <2>2, MinIs
  <2> QED
    BY <1>1, <2>1, <2>3 DEF Lower
<1>2. CASE 8 < len /\ len <= 12
  <2>1. past = {}
    BY <1>2
  <2>2. LenToDlc(len) = 9
    BY <1>2, <2>1, LengthsCounted DEF LenToDlc
  <2>3. DlcToLen(9) = 12
    BY DEF DlcToLen, DlcMap, Lower
  <2>4. 12 \in fits /\ \A m \in fits : 12 <= m
    BY <1>2 DEF FdLengths, Lower
  <2>5. Min(fits) = 12
    BY <1>0, <2>4, MinIs
  <2> QED
    BY <1>2, <2>2, <2>3, <2>5 DEF Lower
<1>3. CASE 12 < len /\ len <= 16
  <2>1. past = {12}
    BY <1>3
  <2>2. LenToDlc(len) = 10
    BY <1>3, <2>1, LengthsCounted DEF LenToDlc
  <2>3. DlcToLen(10) = 16
    BY DEF DlcToLen, DlcMap, Lower
  <2>4. 16 \in fits /\ \A m \in fits : 16 <= m
    BY <1>3 DEF FdLengths, Lower
  <2>5. Min(fits) = 16
    BY <1>0, <2>4, MinIs
  <2> QED
    BY <1>3, <2>2, <2>3, <2>5 DEF Lower
<1>4. CASE 16 < len /\ len <= 20
  <2>1. past = {12, 16}
    BY <1>4
  <2>2. LenToDlc(len) = 11
    BY <1>4, <2>1, LengthsCounted DEF LenToDlc
  <2>3. DlcToLen(11) = 20
    BY DEF DlcToLen, DlcMap, Lower
  <2>4. 20 \in fits /\ \A m \in fits : 20 <= m
    BY <1>4 DEF FdLengths, Lower
  <2>5. Min(fits) = 20
    BY <1>0, <2>4, MinIs
  <2> QED
    BY <1>4, <2>2, <2>3, <2>5 DEF Lower
<1>5. CASE 20 < len /\ len <= 24
  <2>1. past = {12, 16, 20}
    BY <1>5
  <2>2. LenToDlc(len) = 12
    BY <1>5, <2>1, LengthsCounted DEF LenToDlc
  <2>3. DlcToLen(12) = 24
    BY DEF DlcToLen, DlcMap, Lower
  <2>4. 24 \in fits /\ \A m \in fits : 24 <= m
    BY <1>5 DEF FdLengths, Lower
  <2>5. Min(fits) = 24
    BY <1>0, <2>4, MinIs
  <2> QED
    BY <1>5, <2>2, <2>3, <2>5 DEF Lower
<1>6. CASE 24 < len /\ len <= 32
  <2>1. past = {12, 16, 20, 24}
    BY <1>6
  <2>2. LenToDlc(len) = 13
    BY <1>6, <2>1, LengthsCounted DEF LenToDlc
  <2>3. DlcToLen(13) = 32
    BY DEF DlcToLen, DlcMap, Lower
  <2>4. 32 \in fits /\ \A m \in fits : 32 <= m
    BY <1>6 DEF FdLengths, Lower
  <2>5. Min(fits) = 32
    BY <1>0, <2>4, MinIs
  <2> QED
    BY <1>6, <2>2, <2>3, <2>5 DEF Lower
<1>7. CASE 32 < len /\ len <= 48
  <2>1. past = {12, 16, 20, 24, 32}
    BY <1>7
  <2>2. LenToDlc(len) = 14
    BY <1>7, <2>1, LengthsCounted DEF LenToDlc
  <2>3. DlcToLen(14) = 48
    BY DEF DlcToLen, DlcMap, Lower
  <2>4. 48 \in fits /\ \A m \in fits : 48 <= m
    BY <1>7 DEF FdLengths, Lower
  <2>5. Min(fits) = 48
    BY <1>0, <2>4, MinIs
  <2> QED
    BY <1>7, <2>2, <2>3, <2>5 DEF Lower
<1>8. CASE 48 < len
  <2>1. past = {12, 16, 20, 24, 32, 48}
    BY <1>8
  <2>2. LenToDlc(len) = 15
    BY <1>8, <2>1, LengthsCounted DEF LenToDlc
  <2>3. DlcToLen(15) = 64
    BY DEF DlcToLen, DlcMap, Lower
  <2>4. 64 \in fits /\ \A m \in fits : 64 <= m
    BY <1>8 DEF FdLengths, Lower
  <2>5. Min(fits) = 64
    BY <1>0, <2>4, MinIs
  <2> QED
    BY <1>8, <2>2, <2>3, <2>5 DEF Lower
<1> QED
  BY <1>1, <1>2, <1>3, <1>4, <1>5, <1>6, <1>7, <1>8

\* The same for classic CAN, whose lengths are up to 8.
LEMMA ClassicLength ==
  ASSUME NEW len \in Nat
  PROVE  Lower(len, 8) = Min({l \in 0 .. 8 : l >= Lower(len, 8)}) /\ Lower(len, 8) \in 0 .. 8
<1> DEFINE n == Lower(len, 8)
           fits == {l \in 0 .. 8 : l >= n}
<1>1. n \in 0 .. 8
  BY DEF Lower
<1> HIDE DEF n
<1>2. fits \in SUBSET Int /\ n \in fits /\ \A m \in fits : n <= m
  BY <1>1
<1>3. Min(fits) = n
  BY <1>2, MinIs
<1> QED
  BY <1>1, <1>3 DEF n

\* send_frame, the adapter's echo or its peer's reception, and parse_frame: what
\* comes out of a channel is the message that was sent, in the next length there is.
THEOREM RoundTrip ==
  ASSUME NEW cap, NEW own, NEW sender, NEW channel, NEW msg,
         msg.fd \in BOOLEAN, msg.rtr \in BOOLEAN, msg.ext \in BOOLEAN, msg.data.len \in Nat
  PROVE  ParseFrame(FromBus(own, channel, HostFrame(cap, sender, msg))) = AsSent(channel, msg)
<1> DEFINE raw  == HostFrame(cap, sender, msg)
           back == FromBus(own, channel, raw)
           len  == msg.data.len
           most == IF msg.fd THEN 64 ELSE 8
           next == Min({l \in (IF msg.fd THEN FdLengths ELSE 0 .. 8) : l >= Lower(len, most)})
<1>1. /\ raw.noEcho = TRUE /\ raw.id = msg.id /\ raw.eff = msg.ext /\ raw.rtr = msg.rtr
      /\ raw.fd = msg.fd /\ raw.brs = msg.brs /\ raw.esi = msg.esi
      /\ raw.stamp = msg.data.stamp
      /\ raw.dlc = IF msg.fd THEN LenToDlc(len) ELSE Lower(len, 8)
      /\ raw.kept = IF msg.rtr THEN 0
                    ELSE Lower(IF msg.fd THEN DlcToLen(LenToDlc(len)) ELSE Lower(len, 8), len)
  BY DEF HostFrame
<1>2. {"noEcho", "id", "eff", "rtr", "fd", "brs", "esi", "stamp", "dlc", "kept", "channel", "size"}
        = DOMAIN raw
  BY DEF HostFrame
<1> HIDE DEF raw
<1>3. /\ back.noEcho = raw.noEcho /\ back.id = raw.id /\ back.eff = raw.eff /\ back.rtr = raw.rtr
      /\ back.fd = raw.fd /\ back.brs = raw.brs /\ back.esi = raw.esi
      /\ back.stamp = raw.stamp /\ back.dlc = raw.dlc /\ back.kept = raw.kept
      /\ back.channel = channel
      /\ back.size = (IF raw.fd THEN 76 ELSE 20) + (IF own.timestamp THEN 4 ELSE 0)
  BY <1>2 DEF FromBus
<1> HIDE DEF back
<1> DEFINE got_len == Lower(IF back.fd THEN DlcToLen(back.dlc) ELSE Lower(back.dlc, 8), back.size - 12)
<1>4. got_len = next
  <2>1. CASE msg.fd = TRUE
    <3>1. next = DlcToLen(LenToDlc(len)) /\ DlcToLen(LenToDlc(len)) \in 0 .. 64
      BY <2>1, NextLength
    <3>2. back.fd = TRUE /\ back.dlc = LenToDlc(len) /\ back.size \in {76, 80}
      BY <1>1, <1>3, <2>1
    <3> QED
      BY <3>1, <3>2 DEF Lower
  <2>2. CASE msg.fd = FALSE
    <3>1. next = Lower(len, 8) /\ Lower(len, 8) \in 0 .. 8
      BY <2>2, ClassicLength
    <3>2. back.fd = FALSE /\ back.dlc = Lower(len, 8) /\ back.size \in {20, 24}
      BY <1>1, <1>3, <2>2
    <3> QED
      BY <3>1, <3>2 DEF Lower
  <2> QED
    BY <2>1, <2>2
<1>5. Lower(back.kept, got_len) = IF msg.rtr THEN 0 ELSE Lower(len, most)
  <2>1. CASE msg.rtr = TRUE
    <3>1. back.kept = 0 /\ got_len \in Nat
      <4>1. CASE msg.fd = TRUE
        BY <1>1, <1>3, <1>4, <2>1, <4>1, NextLength
      <4>2. CASE msg.fd = FALSE
        BY <1>1, <1>3, <1>4, <2>1, <4>2, ClassicLength
      <4> QED
        BY <4>1, <4>2
    <3> QED
      BY <2>1, <3>1 DEF Lower
  <2>2. CASE msg.rtr = FALSE /\ msg.fd = TRUE
    <3>1. next = DlcToLen(LenToDlc(len)) /\ next \in 0 .. 64 /\ next >= Lower(len, 64)
      BY <2>2, NextLength
    <3>2. back.kept = Lower(next, len)
      BY <1>1, <1>3, <2>2, <3>1
    <3> HIDE DEF next, got_len
    <3> QED
      BY <1>4, <2>2, <3>1, <3>2 DEF Lower
  <2>3. CASE msg.rtr = FALSE /\ msg.fd = FALSE
    <3>1. next = Lower(len, 8) /\ Lower(len, 8) \in 0 .. 8
      BY <2>3, ClassicLength
    <3>2. back.kept = Lower(Lower(len, 8), len)
      BY <1>1, <1>3, <2>3
    <3> HIDE DEF next, got_len
    <3> QED
      BY <1>4, <2>3, <3>1, <3>2 DEF Lower
  <2> QED
    BY <2>1, <2>2, <2>3
<1>6. (IF back.eff THEN back.id % 2^29 ELSE back.id % 2^11)
        = msg.id % (IF msg.ext THEN 2^29 ELSE 2^11)
  BY <1>1, <1>3
<1> HIDE DEF got_len
<1>7. ParseFrame(back) =
        [id   |-> msg.id % (IF msg.ext THEN 2^29 ELSE 2^11),
         ext  |-> msg.ext, rtr |-> msg.rtr,
         fd   |-> msg.fd, brs |-> msg.brs, esi |-> msg.esi,
         rx   |-> TRUE,
         channel |-> channel,
         data |-> [stamp |-> msg.data.stamp,
                   kept  |-> IF msg.rtr THEN 0 ELSE Lower(len, most), len |-> next]]
  BY <1>1, <1>3, <1>4, <1>5, <1>6 DEF ParseFrame, got_len
<1>8. next = Min({l \in (IF msg.fd THEN 0 .. 8 \cup {12, 16, 20, 24, 32, 48, 64} ELSE 0 .. 8) :
                    l >= Lower(len, most)})
  BY DEF FdLengths
<1> QED
  BY <1>7, <1>8 DEF AsSent, back, raw

-----------------------------------------------------------------------------
(***************************************************************************)
(* Arguments, devices and symbols.                                         *)
(***************************************************************************)

\* Sets of positions have a first and a last element.
LEMMA LeastIn ==
  ASSUME NEW S, S \subseteq Nat, S # {}
  PROVE  Min(S) \in S /\ \A n \in S : Min(S) <= n
<1>1. \E m \in S : \A n \in S : ~(<<n, m>> \in OpToRel(<, Nat))
  BY NatLessThanWellFounded, WFMin
<1>2. \E m \in S : \A n \in S : ~(n < m)
  BY <1>1 DEF OpToRel
<1>3. PICK m \in S : \A n \in S : m <= n
  BY <1>2
<1>4. S \subseteq Int
  OBVIOUS
<1> QED
  BY <1>3, <1>4, MinIs

LEMMA MaxIn ==
  ASSUME NEW n \in Nat, NEW S, S \subseteq 1 .. n, S # {}
  PROVE  Max(S) \in S
<1> DEFINE below == {n - m : m \in S}
<1>1. below \subseteq Nat /\ below # {}
  <2>1. ASSUME NEW m \in S PROVE n - m \in Nat
    <3>1. m \in 1 .. n OBVIOUS
    <3> HIDE DEF below
    <3> QED BY <3>1
  <2>2. below \subseteq Nat BY <2>1
  <2>3. PICK m \in S : TRUE OBVIOUS
  <2>4. n - m \in below BY <2>3
  <2> QED BY <2>2, <2>4
<1>2. Min(below) \in below /\ \A e \in below : Min(below) <= e
  BY <1>1, LeastIn
<1>3. PICK d \in below : \A e \in below : d <= e
  BY <1>2
<1>4. PICK m \in S : d = n - m
  BY <1>3
<1>5. \A k \in S : m >= k
  <2> TAKE k \in S
  <2>1. n - k \in below /\ m \in 1 .. n /\ k \in 1 .. n
    OBVIOUS
  <2>2. d <= n - k
    BY <1>3, <2>1
  <2> HIDE DEF below
  <2> QED
    BY <1>4, <2>1, <2>2
<1>6. \E x \in S : \A y \in S : x >= y
  BY <1>5
<1> QED
  BY <1>6, Zenon DEF Max

\* parse_common_options: numbers are numbers, and flags are true.
LEMMA OptionsParsed ==
  ASSUME NEW args \in Seq(Argument), Understood(args)
  PROVE  LET o == ParseCommonOptions(args)
         IN  DOMAIN o = DOMAIN CommonOptions /\ o.classic \in BOOLEAN /\ o.payload_len \in Nat
<1> DEFINE o == ParseCommonOptions(args)
           given(name) == {i \in DOMAIN args : args[i].name = name}
<1>1. DOMAIN o = DOMAIN CommonOptions
  BY DEF ParseCommonOptions
<1>2. {"classic", "payload_len"} \subseteq DOMAIN CommonOptions
  BY DEF CommonOptions
<1>3. ASSUME NEW name \in DOMAIN CommonOptions
      PROVE  o[name] = IF given(name) = {} THEN CommonOptions[name]
                       ELSE ParsedValue(args[Max(given(name))])
  BY DEF ParseCommonOptions
<1>4. ASSUME NEW name, given(name) # {}
      PROVE  Max(given(name)) \in DOMAIN args /\ args[Max(given(name))].name = name
  <2>1. given(name) \subseteq 1 .. Len(args) /\ Len(args) \in Nat
    OBVIOUS
  <2>2. Max(given(name)) \in given(name)
    BY <1>4, <2>1, MaxIn
  <2> QED
    BY <2>2
<1>5. o.classic \in BOOLEAN
  <2>1. CASE given("classic") = {}
    <3>1. o.classic = CommonOptions.classic
      BY <1>2, <1>3, <2>1
    <3>2. CommonOptions.classic = FALSE
      BY DEF CommonOptions
    <3> QED
      BY <3>1, <3>2
  <2>2. CASE given("classic") # {}
    <3>1. o.classic = ParsedValue(args[Max(given("classic"))])
      BY <1>2, <1>3, <2>2
    <3>2. args[Max(given("classic"))].name = "classic"
      BY <1>4, <2>2
    <3> QED
      BY <3>1, <3>2 DEF ParsedValue, Flags
  <2> QED
    BY <2>1, <2>2
<1>6. o.payload_len \in Nat
  <2>1. CASE given("payload_len") = {}
    <3>1. o.payload_len = CommonOptions.payload_len
      BY <1>2, <1>3, <2>1
    <3>2. CommonOptions.payload_len = 12
      BY DEF CommonOptions
    <3> QED
      BY <3>1, <3>2
  <2>2. CASE given("payload_len") # {}
    <3> DEFINE i == Max(given("payload_len"))
    <3>1. o.payload_len = ParsedValue(args[i])
      BY <1>2, <1>3, <2>2
    <3>2. i \in DOMAIN args /\ args[i].name = "payload_len"
      BY <1>4, <2>2
    <3> HIDE DEF i
    <3>3. args[i] \in Argument
      BY <3>2
    <3>4. Len(args[i].value) = 1 /\ IsNumber(args[i].value[1])
      BY <3>2 DEF Understood, Flags
    <3>5. args[i].value \in Seq([value : Nat \cup {None}, text : STRING])
      BY <3>3 DEF Argument
    <3>6. args[i].value[1] \in [value : Nat \cup {None}, text : STRING]
      <4> DEFINE v == args[i].value
      <4>1. Len(v) = 1 /\ v \in Seq([value : Nat \cup {None}, text : STRING])
        BY <3>4, <3>5
      <4> HIDE DEF v
      <4>2. 1 \in 1 .. Len(v)
        BY <4>1
      <4>3. v[1] \in [value : Nat \cup {None}, text : STRING]
        BY <4>1, <4>2, ElementOfSeq, Zenon
      <4> QED
        BY <4>3 DEF v
    <3>7. args[i].value[1].value \in Nat \cup {None} /\ args[i].value[1].value # None
      BY <3>4, <3>6 DEF IsNumber
    <3> QED
      BY <3>1, <3>2, <3>7 DEF ParsedValue, Flags
  <2> QED
    BY <2>1, <2>2
<1> QED
  BY <1>1, <1>5, <1>6

\* The channels of an example.
ChannelsOf(name, o) ==
    IF name \in {"01_simple_std", "02_periodic", "03_simple_fd", "04_custom_timing"}
    THEN <<o.tx_channel, o.rx_channel>>
    ELSE IF \/ name \in {"02_pair_8ch_threading", "06_pair_8ch_threading", "08_pair_8ch_asyncio"}
            \/ name = "11_long_run_stress" /\ o.channel_count # 4
    THEN Eight ELSE Four

LEMMA ExampleChannels ==
  ASSUME NEW name \in ExampleNames, NEW o
  PROVE  Example(name, o).channels = ChannelsOf(name, o)
<1> USE DEF ChannelsOf, Example, Pair, Summary
<1>1. CASE name = "01_simple_std"
  BY <1>1, SMT DEF SimpleStd
<1>2. CASE name = "02_periodic"
  BY <1>2, SMT DEF Periodic
<1>3. CASE name = "03_simple_fd"
  BY <1>3, SMT DEF SimpleFd
<1>4. CASE name = "04_custom_timing"
  BY <1>4, SMT DEF CustomTiming
<1>5. CASE name = "04_multi_std_asyncio"
  BY <1>5, SMT DEF MultiStdAsyncio
<1>6. CASE name = "01_pair_4ch_threading"
  BY <1>6, SMT DEF Pair4chThreading
<1>7. CASE name = "02_pair_8ch_threading"
  BY <1>7, SMT DEF Pair8chThreading
<1>8. CASE name = "05_pair_4ch_threading"
  BY <1>8, SMT DEF Pair4chWrapper
<1>9. CASE name = "06_pair_8ch_threading"
  BY <1>9, SMT DEF Pair8chWrapper
<1>10. CASE name = "07_pair_4ch_asyncio"
  BY <1>10, SMT DEF Pair4chAsyncio
<1>11. CASE name = "08_pair_8ch_asyncio"
  BY <1>11, SMT DEF Pair8chAsyncio
<1>12. CASE name = "09_multi_custom_timing_threading"
  BY <1>12, SMT DEF MultiCustomThreading
<1>13. CASE name = "10_multi_custom_timing_asyncio"
  BY <1>13, SMT DEF MultiCustomAsyncio
<1>14. CASE name = "11_long_run_stress"
  <2>1. CASE o.channel_count = 4
    BY <1>14, <2>1, SMT DEF LongRunStress
  <2>2. CASE o.channel_count # 4
    BY <1>14, <2>2, SMT DEF LongRunStress
  <2> QED
    BY <2>1, <2>2
<1> QED
  BY <1>1, <1>2, <1>3, <1>4, <1>5, <1>6, <1>7, <1>8, <1>9, <1>10, <1>11, <1>12, <1>13, <1>14 DEF ExampleNames

\* They are not the selector's business, and without arguments they are distinct.
LEMMA SameChannels ==
  ASSUME NEW name \in ExampleNames, NEW o, NEW s, DOMAIN o = DOMAIN CommonOptions
  PROVE  Example(name, [o EXCEPT !.selector = s]).channels = Example(name, o).channels
<1>1. {"tx_channel", "rx_channel", "channel_count"} \subseteq DOMAIN o
  BY DEF CommonOptions
<1> DEFINE p == [o EXCEPT !.selector = s]
<1>2. p.tx_channel = o.tx_channel /\ p.rx_channel = o.rx_channel
        /\ p.channel_count = o.channel_count
  BY <1>1
<1> HIDE DEF p
<1>3. ChannelsOf(name, p) = ChannelsOf(name, o)
  BY <1>2 DEF ChannelsOf
<1>4. Example(name, p).channels = Example(name, o).channels
  BY <1>3, ExampleChannels
<1> QED
  BY <1>4 DEF p

LEMMA DefaultChannels ==
  ASSUME NEW name \in ExampleNames
  PROVE  IsInjective(Example(name, CommonOptions).channels)
<1>1. CommonOptions.tx_channel = 0 /\ CommonOptions.rx_channel = 1
  BY DEF CommonOptions
<1> DEFINE two == <<CommonOptions.tx_channel, CommonOptions.rx_channel>>
<1>2. Example(name, CommonOptions).channels \in {two, Four, Eight}
  BY ExampleChannels DEF ChannelsOf
<1>3. IsInjective(two) /\ IsInjective(Four) /\ IsInjective(Eight)
  BY <1>1 DEF IsInjective, Four, Eight
<1> QED
  BY <1>2, <1>3

\* The interface of a device that has a bulk endpoint in each direction.
LEMMA InterfaceFound ==
  ASSUME NEW d \in Device, NEW hint, FindBulkInterface(d, hint) # None
  PROVE  FindBulkInterface(d, hint) \in Nat
<1> DEFINE fits == {i \in DOMAIN d.alts :
                      /\ hint = None \/ d.alts[i].number = hint
                      /\ HasBulk(d.alts[i], "in") /\ HasBulk(d.alts[i], "out")}
<1>1. fits # {} /\ FindBulkInterface(d, hint) = d.alts[Min(fits)].number
  BY DEF FindBulkInterface
<1>2. d.alts \in Seq([number : Nat, endpoints : SUBSET Endpoint])
  BY DEF Device
<1>3. DOMAIN d.alts \subseteq Nat
  BY <1>2
<1>4. Min(fits) \in DOMAIN d.alts
  <2>1. fits \subseteq Nat
    BY <1>3
  <2>2. Min(fits) \in fits
    BY <1>1, <2>1, LeastIn
  <2> QED
    BY <2>2
<1> DEFINE i == Min(fits)
           alt == [number : Nat, endpoints : SUBSET Endpoint]
<1>5. i \in 1 .. Len(d.alts) /\ d.alts \in Seq(alt)
  BY <1>2, <1>4
<1> HIDE DEF i, fits, alt
<1>6. d.alts[i] \in alt
  BY <1>5, ElementOfSeq, Zenon
<1>7. d.alts[i] \in [number : Nat, endpoints : SUBSET Endpoint]
  BY <1>6 DEF alt
<1>8. d.alts[i].number \in Nat
  BY <1>7
<1>9. FindBulkInterface(d, hint) = d.alts[i].number
  BY <1>1 DEF i
<1> QED
  BY <1>8, <1>9

LEMMA DeviceChannels ==
  ASSUME NEW d \in Device, Len(d.channels) <= 8
  PROVE  DOMAIN ReadDeviceInfo(d) \subseteq AllChannels
<1>1. d.channels \in Seq(Channel)
  BY DEF Device
<1> QED
  BY <1>1 DEF ReadDeviceInfo, AllChannels

LEMMA ConsidersThree ==
  ASSUME NEW d, NEW want
  PROVE  Considers(d, want) \in {"skip", "throw", "take"}
BY DEF Considers

\* The steps call only functions that ensure_loaded looks for.
LEMMA CallsKnown ==
  ASSUME NEW step
  PROVE  /\ Calls(step) \subseteq ToSet(Symbols)
         /\ Calls(step) # {} => step \in {"list", "init", "scan", "claim", "query", "configure", "send"}
<1>1. /\ Symbols[1] = "init" /\ Symbols[2] = "exit" /\ Symbols[3] = "get_device_list"
      /\ Symbols[4] = "free_device_list" /\ Symbols[5] = "get_bus_number"
      /\ Symbols[6] = "get_device_address" /\ Symbols[7] = "get_device_descriptor"
      /\ Symbols[8] = "open" /\ Symbols[9] = "close"
      /\ Symbols[10] = "get_string_descriptor_ascii"
      /\ Symbols[11] = "get_active_config_descriptor" /\ Symbols[12] = "get_config_descriptor"
      /\ Symbols[13] = "free_config_descriptor" /\ Symbols[14] = "set_configuration"
      /\ Symbols[15] = "claim_interface" /\ Symbols[16] = "release_interface"
      /\ Symbols[17] = "control_transfer" /\ Symbols[18] = "bulk_transfer"
      /\ DOMAIN Symbols = 1 .. 18
  BY DEF Symbols
<1>2. {"init", "exit", "get_device_list", "free_device_list", "get_bus_number",
       "get_device_address", "get_device_descriptor", "open", "close",
       "get_string_descriptor_ascii", "get_active_config_descriptor", "get_config_descriptor",
       "free_config_descriptor", "set_configuration", "claim_interface", "release_interface",
       "control_transfer", "bulk_transfer"} \subseteq ToSet(Symbols)
  BY <1>1 DEF ToSet
<1> QED
  BY <1>2 DEF Calls

LEMMA LoadedKnown ==
  ASSUME NEW dll
  PROVE  LoadSymbols(dll) \subseteq ToSet(Symbols)
BY DEF LoadSymbols, ToSet

-----------------------------------------------------------------------------
(***************************************************************************)
(* The session, from its constructor to its cleanup: the inductive         *)
(* invariant of EndsCleanly and of TypeOK.  A program that crashed is left *)
(* out of it: it does nothing any more.                                    *)
(***************************************************************************)

Opening == {"claim", "query", "add", "configure"}
Sending == {"send", "recv", "drain"}
Before1st == {"start", "load", "list", "init", "scan"}
Pcs == Before1st \cup {"next"} \cup Opening \cup Sending
         \cup {"stop", "unwind", "done", "failed", "crashed"}

\* The options are of their types, and name two channels if they name any.
OptionsRight ==
    /\ DOMAIN options = DOMAIN CommonOptions
    /\ options.classic \in BOOLEAN /\ options.payload_len \in Nat
    /\ IsInjective(Channels)

Types ==
    /\ scenario \in Scenarios /\ pc \in Pcs /\ attempt \in 1 .. 2
    /\ api \in [module : BOOLEAN, symbols : SUBSET ToSet(Symbols)]
    /\ usb \in Held /\ lost \in BOOLEAN /\ plugged \in BOOLEAN /\ index \in Nat \ {0}
    /\ buses \in Seq(AllChannels) /\ IsInjective(buses)
    /\ round \in 0 .. scenario.rounds
    /\ stats \in [AllChannels -> [tx : Nat, rx : Nat]]

\* A session is on a device of the list, and after read_device_info it knows the
\* device's channels.
SessionKnown ==
    session # NoSession =>
        /\ {"device", "refs", "interface"} \subseteq DOMAIN session
        /\ session.device \in DOMAIN scenario.list
        /\ session.interface \in Nat /\ session.refs \in Nat
        /\ pc \in {"claim", "query"} => "channels" \notin DOMAIN session
        /\ pc \notin {"claim", "query", "crashed"} =>
              /\ "channels" \in DOMAIN session
              /\ session.channels = ReadDeviceInfo(Chosen)

\* There is a session exactly while somebody owns it: the bus objects, or the
\* constructor that is making the next one.  It counts at least its owners.
Owned ==
    /\ pc \in Before1st \cup {"claim", "query", "done", "failed"} => buses = <<>>
    /\ pc \in Opening => session # NoSession
    /\ pc \notin Opening \cup {"crashed"} => (session = NoSession <=> buses = <<>>)
    /\ pc # "crashed" /\ session # NoSession => session.refs >= Len(buses)
    /\ pc = "configure" => session.refs >= Len(buses) + 1

\* The bus objects are on the first of the example's channels.
OnTheirChannels ==
    /\ pc \in {"next"} \cup Opening \cup Sending =>
          /\ Len(buses) <= Len(Channels)
          /\ \A i \in DOMAIN buses : buses[i] = Channels[i]
    /\ pc \in Opening => Len(buses) < Len(Channels)
    /\ pc = "configure" => NextChannel \in DOMAIN session.channels
    /\ pc \in Sending => Len(buses) = Len(Channels)

\* What libusb has given out, as long as nothing is lost: what the session has, or
\* what its constructor has so far.
Accounted ==
    /\ pc = "scan" => usb.contexts >= 1 /\ usb.lists >= 1
    /\ pc # "crashed" /\ session # NoSession => usb.contexts >= 1
    /\ lost = FALSE /\ pc # "crashed" =>
          IF session = NoSession
          THEN usb = IF pc = "scan"
                     THEN [contexts |-> 1, lists |-> 1, open |-> {}, claimed |-> {}] ELSE Nothing
          ELSE usb = [contexts |-> 1, lists |-> 0, open |-> {<<attempt, session.device>>},
                      claimed |-> IF pc = "claim" THEN {} ELSE {MyClaim}]

\* A channel that is on has its bus object, unless the adapter is gone.
OnlyBusesOn ==
    /\ DOMAIN adapter = AllChannels
    /\ plugged = TRUE => \A c \in AllChannels :
          adapter[c] # ChannelOff => c \in ToSet(buses)

\* Every function is there that is called, except after an exception of load_symbol:
\* before a second start nothing is called then.
SymbolsThere ==
    /\ pc \in Sending \cup Opening \cup {"list", "init", "scan"} => api.module = TRUE
    /\ session # NoSession => api.module = TRUE
    /\ api.module = TRUE =>
          \/ api.symbols = ToSet(Symbols)
          \/ why = "symbol" /\ (attempt = 2 \/ pc \in {"unwind", "failed"})
          \/ attempt = 2 /\ pc \in {"unwind", "failed"}
    /\ pc = "crashed" => attempt = 2 /\ why = "symbol"

LifeInv == /\ Types /\ OptionsRight /\ SessionKnown /\ Owned /\ OnTheirChannels
           /\ Accounted /\ OnlyBusesOn /\ SymbolsThere

-----------------------------------------------------------------------------
\* What is known of a scenario, of an example's channels, and of a session's device.
LEMMA ScenarioRight ==
  ASSUME NEW s \in Scenarios
  PROVE  /\ s.example \in ExampleNames /\ s.args \in Seq(Argument) /\ s.list \in Seq(Device)
         /\ \A i \in DOMAIN s.list : s.list[i] \in Device /\ Len(s.list[i].channels) <= 8
         /\ s.rounds \in Nat /\ 0 .. s.rounds - 1 \subseteq Counters
         /\ Understood(s.args) =>
               IsInjective(Example(s.example, ParseCommonOptions(s.args)).channels)
<1>1. s.list \in Seq(Device) /\ \A d \in ToSet(s.list) : Len(d.channels) <= 8
  BY CppProgramAssumption
<1>2. ASSUME NEW i \in DOMAIN s.list
      PROVE  s.list[i] \in Device /\ Len(s.list[i].channels) <= 8
  BY <1>1 DEF ToSet
<1> QED
  BY <1>1, <1>2, CppProgramAssumption

LEMMA ChannelsThere ==
  ASSUME NEW name \in ExampleNames, NEW o
  PROVE  /\ Len(Example(name, o).channels) \in {2, 4, 8}
         /\ DOMAIN Example(name, o).channels = 1 .. Len(Example(name, o).channels)
<1>1. \A x, y : Len(<<x, y>>) = 2 /\ DOMAIN <<x, y>> = 1 .. 2
  OBVIOUS
<1>2. Len(Four) = 4 /\ Len(Eight) = 8 /\ DOMAIN Four = 1 .. 4 /\ DOMAIN Eight = 1 .. 8
  BY DEF Four, Eight
<1> DEFINE channels == Example(name, o).channels
<1>3. channels \in {<<o.tx_channel, o.rx_channel>>, Four, Eight}
  BY ExampleChannels DEF ChannelsOf
<1> HIDE DEF channels
<1>4. Len(channels) \in {2, 4, 8} /\ DOMAIN channels = 1 .. Len(channels)
  BY <1>1, <1>2, <1>3
<1> QED
  BY <1>4 DEF channels

LEMMA SessionsDevice ==
  ASSUME scenario \in Scenarios, SessionKnown, session # NoSession
  PROVE  /\ Chosen \in Device /\ DOMAIN ReadDeviceInfo(Chosen) \subseteq AllChannels
         /\ pc \notin {"claim", "query", "crashed"} => DOMAIN session.channels \subseteq AllChannels
<1>1. Chosen \in Device /\ Len(Chosen.channels) <= 8
  BY ScenarioRight DEF SessionKnown, Chosen
<1> QED
  BY <1>1, DeviceChannels DEF SessionKnown

\* cleanup gives back a context, and all that a session has.
LEMMA CleanedUp ==
  ASSUME usb \in Held, usb.contexts >= 1, Cleanup
  PROVE  /\ usb' \in Held
         /\ \A claims : usb = [contexts |-> 1, lists |-> 0,
                               open |-> {<<attempt, session.device>>}, claimed |-> claims]
                          /\ claims \subseteq {MyClaim} => usb' = Nothing
<1>1. usb' \in Held
  <2>1. PICK contexts \in Nat, lists \in Nat, open \in SUBSET (Nat \X Nat),
             claimed \in SUBSET [by : Nat, device : Nat, interface : Nat] :
          usb = [contexts |-> contexts, lists |-> lists, open |-> open, claimed |-> claimed]
    BY DEF Held
  <2>2. usb' = [contexts |-> contexts - 1, lists |-> lists,
                open |-> open \ {<<attempt, session.device>>}, claimed |-> claimed \ {MyClaim}]
    BY <2>1 DEF Cleanup
  <2>3. contexts >= 1
    BY <2>1
  <2> QED
    BY <2>2, <2>3 DEF Held
<1>2. ASSUME NEW claims,
             usb = [contexts |-> 1, lists |-> 0,
                    open |-> {<<attempt, session.device>>}, claimed |-> claims],
             claims \subseteq {MyClaim}
      PROVE  usb' = Nothing
  <2>1. usb' = [contexts |-> 1 - 1, lists |-> 0,
                open |-> {<<attempt, session.device>>} \ {<<attempt, session.device>>},
                claimed |-> claims \ {MyClaim}]
    BY <1>2 DEF Cleanup
  <2> QED
    BY <1>2, <2>1 DEF Nothing
<1> QED
  BY <1>1, <1>2

LEMMA StatsTyped ==
  ASSUME stats \in [AllChannels -> [tx : Nat, rx : Nat]], NEW c
  PROVE  /\ [stats EXCEPT ![c].tx = @ + 1] \in [AllChannels -> [tx : Nat, rx : Nat]]
         /\ [stats EXCEPT ![c].rx = @ + 1] \in [AllChannels -> [tx : Nat, rx : Nat]]
<1> DEFINE t == [stats EXCEPT ![c].tx = @ + 1]
           r == [stats EXCEPT ![c].rx = @ + 1]
<1>1. DOMAIN t = AllChannels /\ DOMAIN r = AllChannels
  OBVIOUS
<1>2. ASSUME NEW d \in AllChannels
      PROVE  t[d] \in [tx : Nat, rx : Nat] /\ r[d] \in [tx : Nat, rx : Nat]
  <2>1. PICK m \in Nat, n \in Nat : stats[d] = [tx |-> m, rx |-> n]
    BY <1>2
  <2>2. CASE c # d
    BY <1>2, <2>2
  <2>3. CASE c = d
    <3>1. t[d] = [tx |-> m + 1, rx |-> n] /\ r[d] = [tx |-> m, rx |-> n + 1]
      BY <2>1, <2>3
    <3> HIDE DEF t, r
    <3> QED
      BY <3>1
  <2> QED
    BY <2>2, <2>3
<1> HIDE DEF t, r
<1>3. t = [d \in AllChannels |-> t[d]] /\ r = [d \in AllChannels |-> r[d]]
  BY <1>1 DEF t, r
<1>4. t \in [AllChannels -> [tx : Nat, rx : Nat]] /\ r \in [AllChannels -> [tx : Nat, rx : Nat]]
  BY <1>2, <1>3
<1> QED
  BY <1>4 DEF t, r

\* What a destructor, or a constructor that throws, leaves: the session is closed
\* with its last owner, and otherwise counts the others.
LEMMA Released ==
  ASSUME NEW owners \in Nat, NEW refs \in Nat, refs >= owners, Release(owners, refs),
         Types, SessionKnown, Accounted, session # NoSession, pc \in {"add", "configure", "stop", "unwind"}
  PROVE  /\ usb' \in Held
         /\ owners = 0 => session' = NoSession
         /\ owners # 0 => /\ session' # NoSession /\ session' = [session EXCEPT !.refs = refs]
                          /\ DOMAIN session' = DOMAIN session /\ session'.device = session.device
                          /\ session'.interface = session.interface /\ session'.refs = refs
                          /\ session'.channels = session.channels /\ usb' = usb
         /\ lost = FALSE /\ owners = 0 => usb' = Nothing
<1>1. usb \in Held /\ usb.contexts >= 1
  BY DEF Types, Accounted
<1>2. CASE owners = 0
  <2>1. Cleanup /\ session' = NoSession
    BY <1>2 DEF Release
  <2>2. usb' \in Held
    BY <1>1, <2>1, CleanedUp
  <2>3. ASSUME lost = FALSE PROVE usb' = Nothing
    <3>1. usb = [contexts |-> 1, lists |-> 0, open |-> {<<attempt, session.device>>},
                 claimed |-> {MyClaim}]
      BY <2>3 DEF Accounted
    <3> QED
      BY <1>1, <2>1, <3>1, CleanedUp
  <2> QED
    BY <1>2, <2>1, <2>2, <2>3
<1>3. CASE owners # 0
  <2>1. refs # 0
    BY <1>3
  <2>2. session' = [session EXCEPT !.refs = refs] /\ usb' = usb
    BY <1>3, <2>1 DEF Release
  <2>3. /\ "refs" \in DOMAIN session' /\ DOMAIN session' = DOMAIN session /\ session'.refs = refs
        /\ session'.device = session.device /\ session'.interface = session.interface
        /\ session'.channels = session.channels
    <3>1. {"device", "refs", "interface", "channels"} \subseteq DOMAIN session
      BY DEF SessionKnown
    <3> QED
      BY <2>2, <3>1
  <2>4. "refs" \notin DOMAIN NoSession
    BY DEF NoSession
  <2> QED
    BY <1>1, <1>3, <2>2, <2>3, <2>4
<1> QED
  BY <1>2, <1>3

\* Each step keeps each part of the invariant.
LEMMA LifeKept == LifeInv /\ Next => LifeInv'
<1> SUFFICES ASSUME LifeInv, Next PROVE LifeInv'
  OBVIOUS
<1> USE DEF Before1st, Opening, Sending, Pcs, progVars, usbVars, runVars, busVars, devVars, histVars
<1>0. Types /\ OptionsRight /\ SessionKnown /\ Owned /\ OnTheirChannels /\ Accounted /\ OnlyBusesOn
        /\ SymbolsThere
  BY DEF LifeInv
<1>f. /\ scenario.example \in ExampleNames /\ scenario.args \in Seq(Argument)
      /\ scenario.list \in Seq(Device)
      /\ \A i \in DOMAIN scenario.list :
            scenario.list[i] \in Device /\ Len(scenario.list[i].channels) <= 8
      /\ scenario.rounds \in Nat /\ 0 .. scenario.rounds - 1 \subseteq Counters
      /\ Understood(scenario.args) =>
            IsInjective(Example(scenario.example, ParseCommonOptions(scenario.args)).channels)
  BY <1>0, ScenarioRight DEF Types
<1>g. Len(Channels) \in {2, 4, 8} /\ DOMAIN Channels = 1 .. Len(Channels)
  BY <1>f, ChannelsThere DEF Channels, Program
<1>1. CASE Crash
  <2>1. Types'
    BY <1>1, <1>0 DEF Types, Owned, Crash, Goto
  <2>2. OptionsRight'
    BY <1>1, <1>0 DEF OptionsRight, Channels, Program, Types, Owned, Crash, Goto
  <2>3. SessionKnown'
    BY <1>1, <1>0 DEF SessionKnown, Chosen, Types, Owned, Crash, Goto
  <2>4. Owned'
    BY <1>1, <1>0 DEF Owned, Types, Crash, Goto
  <2>5. OnTheirChannels'
    BY <1>1, <1>0 DEF OnTheirChannels, Channels, Program, NextChannel, Types, Owned, Crash, Goto
  <2>6. Accounted'
    BY <1>1, <1>0 DEF Accounted, MyClaim, Nothing, Types, Owned, Crash, Goto, SessionKnown, Held
  <2>7. OnlyBusesOn'
    BY <1>1, <1>0 DEF OnlyBusesOn, Types, Owned, Crash, Goto
  <2>8. SymbolsThere'
    <3>1. Calls(pc) # {} /\ ~(Calls(pc) \subseteq api.symbols) /\ pc' = "crashed"
            /\ UNCHANGED <<attempt, api, why, session>>
      BY <1>1 DEF Crash, Goto
    <3>2. pc \in {"list", "init", "scan", "claim", "query", "configure", "send"}
            /\ Calls(pc) \subseteq ToSet(Symbols)
      BY <3>1, CallsKnown
    <3>3. api.module = TRUE /\ api.symbols # ToSet(Symbols)
      BY <1>0, <3>1, <3>2 DEF SymbolsThere
    <3>4. attempt = 2 /\ why = "symbol"
      BY <1>0, <3>2, <3>3 DEF SymbolsThere
    <3> QED
      BY <3>1, <3>3, <3>4 DEF SymbolsThere
  <2> QED
    BY <2>1, <2>2, <2>3, <2>4, <2>5, <2>6, <2>7, <2>8 DEF LifeInv
<1>2. CASE Start
  <2>1. Types'
    BY <1>2, <1>0 DEF Types, Owned, Start, Throw
  <2>2. OptionsRight'
    <3>1. CASE Understood(scenario.args)
      <4>1. options' = ParseCommonOptions(scenario.args) /\ scenario' = scenario
        BY <1>2, <3>1 DEF Start
      <4> QED
        BY <1>f, <3>1, <4>1, OptionsParsed DEF OptionsRight, Channels, Program
    <3>2. CASE ~Understood(scenario.args)
      BY <1>2, <1>0, <3>2 DEF Start, Throw, OptionsRight, Channels, Program
    <3> QED
      BY <3>1, <3>2
  <2>3. SessionKnown'
    BY <1>2, <1>0 DEF SessionKnown, Chosen, Types, Owned, Start, Throw
  <2>4. Owned'
    BY <1>2, <1>0 DEF Owned, Types, Start, Throw
  <2>5. OnTheirChannels'
    BY <1>2, <1>0 DEF OnTheirChannels, Channels, Program, NextChannel, Types, Owned, Start, Throw
  <2>6. Accounted'
    BY <1>2, <1>0 DEF Accounted, MyClaim, Nothing, Types, Owned, Start, Throw, SessionKnown, Held
  <2>7. OnlyBusesOn'
    BY <1>2, <1>0 DEF OnlyBusesOn, Types, Owned, Start, Throw
  <2>8. SymbolsThere'
    BY <1>2, <1>0 DEF SymbolsThere, Types, Owned, Start, Throw
  <2> QED
    BY <2>1, <2>2, <2>3, <2>4, <2>5, <2>6, <2>7, <2>8 DEF LifeInv
<1>3. CASE EnsureLoaded
  <2>1. Types'
    <3>1. api' = api \/ \E dll : api' = [module |-> TRUE, symbols |-> LoadSymbols(dll)]
      BY <1>3 DEF EnsureLoaded
    <3>2. api' \in [module : BOOLEAN, symbols : SUBSET ToSet(Symbols)]
      <4>1. CASE api' = api
        BY <1>0, <4>1 DEF Types
      <4>2. ASSUME NEW dll, api' = [module |-> TRUE, symbols |-> LoadSymbols(dll)]
            PROVE  api' \in [module : BOOLEAN, symbols : SUBSET ToSet(Symbols)]
        <5>1. LoadSymbols(dll) \in SUBSET ToSet(Symbols) /\ TRUE \in BOOLEAN
          BY LoadedKnown
        <5> QED
          BY <4>2, <5>1, Zenon
      <4> QED
        BY <3>1, <4>1, <4>2
    <3>3. pc' \in {"list", "init", "unwind"}
      BY <1>3 DEF EnsureLoaded, Goto, Throw, AfterLoad
    <3> QED
      BY <1>3, <1>0, <3>2, <3>3 DEF EnsureLoaded, Goto, Throw, Types
  <2>2. OptionsRight'
    BY <1>3, <1>0 DEF OptionsRight, Channels, Program, Types, Owned, EnsureLoaded, Goto, Throw,
       AfterLoad
  <2>3. SessionKnown'
    BY <1>3, <1>0 DEF SessionKnown, Chosen, Types, Owned, EnsureLoaded, Goto, Throw, AfterLoad
  <2>4. Owned'
    BY <1>3, <1>0 DEF Owned, Types, EnsureLoaded, Goto, Throw, AfterLoad
  <2>5. OnTheirChannels'
    BY <1>3, <1>0 DEF OnTheirChannels, Channels, Program, NextChannel, Types, Owned, EnsureLoaded,
       Goto, Throw, AfterLoad
  <2>6. Accounted'
    BY <1>3, <1>0 DEF Accounted, MyClaim, Nothing, Types, Owned, EnsureLoaded, Goto, Throw,
       AfterLoad, SessionKnown, Held
  <2>7. OnlyBusesOn'
    BY <1>3, <1>0 DEF OnlyBusesOn, Types, Owned, EnsureLoaded, Goto, Throw, AfterLoad
  <2>8. SymbolsThere'
    BY <1>3, <1>0 DEF SymbolsThere, Types, Owned, EnsureLoaded, Goto, Throw, AfterLoad
  <2> QED
    BY <2>1, <2>2, <2>3, <2>4, <2>5, <2>6, <2>7, <2>8 DEF LifeInv
<1>4. CASE List
  <2>1. Types'
    BY <1>4, <1>0 DEF Types, Owned, List, Throw, At
  <2>2. OptionsRight'
    <3>1. scenario' = scenario
            /\ (options' = options \/ \E s : options' = [options EXCEPT !.selector = s])
      BY <1>4 DEF List, Throw
    <3>2. CASE options' = options
      BY <1>0, <3>1, <3>2 DEF OptionsRight, Channels, Program
    <3>3. ASSUME NEW s, options' = [options EXCEPT !.selector = s]
          PROVE  OptionsRight'
      <4>1. {"classic", "payload_len"} \subseteq DOMAIN options
        BY <1>0 DEF OptionsRight, CommonOptions
      <4>2. options'.classic = options.classic /\ options'.payload_len = options.payload_len
              /\ DOMAIN options' = DOMAIN options
        BY <3>3, <4>1
      <4>3. Example(scenario.example, options').channels = Channels
        BY <1>0, <1>f, <3>3, SameChannels DEF OptionsRight, Channels, Program
      <4> QED
        BY <1>0, <3>1, <4>2, <4>3 DEF OptionsRight, Channels, Program
    <3> QED
      BY <3>1, <3>2, <3>3
  <2>3. SessionKnown'
    BY <1>4, <1>0 DEF SessionKnown, Chosen, Types, Owned, List, Throw, At
  <2>4. Owned'
    BY <1>4, <1>0 DEF Owned, Types, List, Throw, At
  <2>5. OnTheirChannels'
    <3>1. buses' = <<>> /\ pc' \in {"next", "unwind"} /\ scenario' = scenario
      BY <1>4, <1>0 DEF List, At, Throw, Owned
    <3>2. Len(Channels') \in {2, 4, 8}
      BY <1>f, <3>1, ChannelsThere DEF Channels, Program
    <3> QED
      BY <3>1, <3>2 DEF OnTheirChannels
  <2>6. Accounted'
    BY <1>4, <1>0 DEF Accounted, MyClaim, Nothing, Types, Owned, List, Throw, At, SessionKnown, Held
  <2>7. OnlyBusesOn'
    BY <1>4, <1>0 DEF OnlyBusesOn, Types, Owned, List, Throw, At
  <2>8. SymbolsThere'
    BY <1>4, <1>0 DEF SymbolsThere, Types, Owned, List, Throw, At
  <2> QED
    BY <2>1, <2>2, <2>3, <2>4, <2>5, <2>6, <2>7, <2>8 DEF LifeInv
<1>5. CASE NextBus
  <2>1. Types'
    BY <1>5, <1>0 DEF Types, Owned, NextBus, Goto
  <2>2. OptionsRight'
    BY <1>5, <1>0 DEF OptionsRight, Channels, Program, Types, Owned, NextBus, Goto
  <2>3. SessionKnown'
    BY <1>5, <1>0 DEF SessionKnown, Chosen, Types, Owned, NextBus, Goto
  <2>4. Owned'
    BY <1>5, <1>0 DEF Owned, Types, NextBus, Goto
  <2>5. OnTheirChannels'
    BY <1>5, <1>0 DEF OnTheirChannels, Channels, Program, NextChannel, Types, Owned, NextBus, Goto
  <2>6. Accounted'
    BY <1>5, <1>0 DEF Accounted, MyClaim, Nothing, Types, Owned, NextBus, Goto, SessionKnown, Held
  <2>7. OnlyBusesOn'
    BY <1>5, <1>0 DEF OnlyBusesOn, Types, Owned, NextBus, Goto
  <2>8. SymbolsThere'
    <3>1. CASE Len(buses) = Len(Channels)
      <4>1. session # NoSession
        BY <1>5, <1>0, <1>g, <3>1 DEF NextBus, Owned
      <4> QED
        BY <1>5, <1>0, <3>1, <4>1 DEF NextBus, Goto, SymbolsThere
    <3>2. CASE Len(buses) # Len(Channels)
      BY <1>5, <1>0, <3>2 DEF NextBus, Goto, SymbolsThere
    <3> QED
      BY <3>1, <3>2
  <2> QED
    BY <2>1, <2>2, <2>3, <2>4, <2>5, <2>6, <2>7, <2>8 DEF LifeInv
<1>6. CASE SessionInit
  <2>1. Types'
    <3>1. usb' \in Held
      <4>1. PICK contexts \in Nat, lists \in Nat, open \in SUBSET (Nat \X Nat),
                 claimed \in SUBSET [by : Nat, device : Nat, interface : Nat] :
              usb = [contexts |-> contexts, lists |-> lists, open |-> open, claimed |-> claimed]
        BY <1>0 DEF Types, Held
      <4>2. usb' = usb \/ usb' = [contexts |-> contexts + 1, lists |-> lists + 1,
                                  open |-> open, claimed |-> claimed]
        BY <1>6, <4>1 DEF SessionInit
      <4> QED
        BY <1>0, <4>2 DEF Types, Held
    <3>2. index' \in Nat \ {0} /\ pc' \in {"unwind", "scan"}
      BY <1>6, <1>0, <1>f DEF SessionInit, Throw, Goto, Types
    <3> QED
      BY <1>6, <1>0, <3>1, <3>2 DEF SessionInit, Throw, Goto, Types
  <2>2. OptionsRight'
    BY <1>6, <1>0 DEF OptionsRight, Channels, Program, Types, Owned, SessionInit, At, Throw, Goto
  <2>3. SessionKnown'
    BY <1>6, <1>0 DEF SessionKnown, Chosen, Types, Owned, SessionInit, At, Throw, Goto
  <2>4. Owned'
    BY <1>6, <1>0 DEF Owned, Types, SessionInit, At, Throw, Goto
  <2>5. OnTheirChannels'
    BY <1>6, <1>0 DEF OnTheirChannels, Channels, Program, NextChannel, Types, Owned, SessionInit,
       At, Throw, Goto
  <2>6. Accounted'
    <3>1. pc = "init" /\ session = NoSession /\ session' = session /\ lost' = lost
      BY <1>6, <1>0 DEF SessionInit, At, Owned
    <3>2. CASE usb' = usb /\ pc' = "unwind"
      BY <1>0, <3>1, <3>2 DEF Accounted
    <3>3. CASE usb' = [usb EXCEPT !.contexts = @ + 1, !.lists = @ + 1] /\ pc' = "scan"
      <4>1. usb'.contexts >= 1 /\ usb'.lists >= 1
        BY <1>0, <3>3 DEF Types, Held
      <4>2. ASSUME lost = FALSE
            PROVE  usb' = [contexts |-> 1, lists |-> 1, open |-> {}, claimed |-> {}]
        <5>1. usb = Nothing
          BY <1>0, <3>1, <4>2 DEF Accounted
        <5>2. usb' = [contexts |-> 0 + 1, lists |-> 0 + 1, open |-> {}, claimed |-> {}]
          BY <3>3, <5>1 DEF Nothing
        <5> QED
          BY <5>2
      <4> QED
        BY <3>1, <3>3, <4>1, <4>2 DEF Accounted
    <3> QED
      BY <1>6, <3>2, <3>3 DEF SessionInit, Throw, Goto
  <2>7. OnlyBusesOn'
    BY <1>6, <1>0 DEF OnlyBusesOn, Types, Owned, SessionInit, At, Throw, Goto
  <2>8. SymbolsThere'
    BY <1>6, <1>0 DEF SymbolsThere, Types, Owned, SessionInit, At, Throw, Goto
  <2> QED
    BY <2>1, <2>2, <2>3, <2>4, <2>5, <2>6, <2>7, <2>8 DEF LifeInv
<1>7. CASE SessionScan
  <2>a. /\ pc = "scan" /\ session = NoSession /\ buses = <<>> /\ index \in DOMAIN scenario.list
        /\ UNCHANGED <<api, buses, round, stats, adapter, plugged>>
        /\ usb.contexts >= 1 /\ usb.lists >= 1
    BY <1>7, <1>0 DEF SessionScan, At, Owned, Accounted
  <2>b. /\ UNCHANGED <<scenario, attempt, options>>
        /\ \/ index' = index + 1 /\ UNCHANGED <<pc, why, usb, lost, session>>
           \/ pc' = "unwind" /\ lost' = TRUE /\ why' = "candidate" /\ UNCHANGED <<usb, index,
              session>>
           \/ /\ pc' = "claim" /\ UNCHANGED <<index, lost, why>>
              /\ usb' = [usb EXCEPT !.open = @ \cup {<<attempt, index>>}, !.lists = @ - 1]
              /\ \E interface \in Nat :
                    session' = [device |-> index, refs |-> 0, interface |-> interface]
    <3> DEFINE d == scenario.list[index]
               says == Considers(Seen(d), Want)
    <3>1. d \in Device
      BY <1>f, <2>a
    <3>2. says \in {"skip", "throw", "take"}
      BY ConsidersThree
    <3>3. CASE says = "skip"
      BY <1>7, <3>3 DEF SessionScan
    <3>4. CASE says = "throw"
      BY <1>7, <3>4 DEF SessionScan, Throw
    <3>5. CASE says = "take"
      <4>1. FindBulkInterface(d, Want.interface) \in Nat
        <5>1. plugged \in BOOLEAN /\ "fails" \in DOMAIN d
          BY <1>0, <3>1 DEF Types, Device
        <5>2. CASE plugged = TRUE
          <6>1. Considers(d, Want) = "take"
            BY <3>5, <5>2 DEF Seen
          <6>2. FindBulkInterface(d, Want.interface) # None
            BY <6>1 DEF Considers
          <6> QED
            BY <3>1, <6>2, InterfaceFound
        <5>3. CASE plugged = FALSE
          <6>1. "open" \in Seen(d).fails
            BY <5>1, <5>3 DEF Seen
          <6> QED
            BY <3>5, <6>1 DEF Considers
        <5> QED
          BY <5>1, <5>2, <5>3
      <4>2. /\ usb' = [usb EXCEPT !.open = @ \cup {<<attempt, index>>}, !.lists = @ - 1]
            /\ session' = [device |-> index, refs |-> 0,
                            interface |-> FindBulkInterface(d, Want.interface)]
            /\ Goto("claim") /\ UNCHANGED <<index, lost>>
        BY <1>7, <3>5 DEF SessionScan
      <4> QED
        BY <4>1, <4>2 DEF Goto
    <3> QED
      BY <3>2, <3>3, <3>4, <3>5
  <2>1. Types'
    <3>1. usb' \in Held
      <4>1. PICK contexts \in Nat, lists \in Nat, open \in SUBSET (Nat \X Nat),
                 claimed \in SUBSET [by : Nat, device : Nat, interface : Nat] :
              usb = [contexts |-> contexts, lists |-> lists, open |-> open, claimed |-> claimed]
        BY <1>0 DEF Types, Held
      <4>2. usb' = usb \/ usb' = [contexts |-> contexts, lists |-> lists - 1,
                                  open |-> open \cup {<<attempt, index>>}, claimed |-> claimed]
        BY <2>b, <4>1
      <4>3. <<attempt, index>> \in Nat \X Nat /\ lists >= 1
        BY <1>0, <2>a, <4>1 DEF Types
      <4> QED
        BY <1>0, <4>2, <4>3 DEF Types, Held
    <3>2. index' \in Nat \ {0} /\ pc' \in Pcs
      BY <1>0, <2>a, <2>b DEF Types
    <3>3. lost' \in BOOLEAN
      BY <1>0, <2>b, Zenon DEF Types
    <3> QED
      BY <1>0, <2>a, <2>b, <3>1, <3>2, <3>3 DEF Types
  <2>2. OptionsRight'
    BY <1>0, <2>a, <2>b DEF OptionsRight, Channels, Program
  <2>3. SessionKnown'
    BY <2>a, <2>b DEF SessionKnown, NoSession
  <2>4. Owned'
    <3>1. ASSUME NEW interface,
                 session' = [device |-> index, refs |-> 0, interface |-> interface]
          PROVE  session' # NoSession /\ session'.refs = 0
      BY <3>1 DEF NoSession
    <3> QED
      BY <2>a, <2>b, <3>1 DEF Owned
  <2>5. OnTheirChannels'
    <3>1. Len(Channels') \in {2, 4, 8} /\ buses' = <<>>
      BY <1>g, <2>a, <2>b DEF Channels, Program
    <3>2. pc' \in {"scan", "unwind", "claim"}
      BY <2>a, <2>b
    <3> QED
      BY <3>1, <3>2, SMTT(30) DEF OnTheirChannels
  <2>6. Accounted'
    <3>1. CASE UNCHANGED <<pc, usb, lost, session>>
      BY <1>0, <2>a, <3>1 DEF Accounted
    <3>2. CASE pc' = "unwind" /\ lost' = TRUE /\ UNCHANGED <<usb, session>>
      BY <2>a, <3>2 DEF Accounted
    <3>3. ASSUME pc' = "claim", UNCHANGED lost,
                 usb' = [usb EXCEPT !.open = @ \cup {<<attempt, index>>}, !.lists = @ - 1],
                 NEW interface \in Nat,
                 session' = [device |-> index, refs |-> 0, interface |-> interface]
          PROVE  Accounted'
      <4>1. session'.device = index /\ session' # NoSession
        BY <3>3 DEF NoSession
      <4>2. usb'.contexts >= 1
        BY <1>0, <2>a, <3>3 DEF Types, Held
      <4>3. ASSUME lost = FALSE
            PROVE  usb' = [contexts |-> 1, lists |-> 0, open |-> {<<attempt, index>>},
               claimed |-> {}]
        <5>1. usb = [contexts |-> 1, lists |-> 1, open |-> {}, claimed |-> {}]
          BY <1>0, <2>a, <4>3 DEF Accounted
        <5>2. usb' = [contexts |-> 1, lists |-> 1 - 1, open |-> {} \cup {<<attempt, index>>},
                      claimed |-> {}]
          BY <3>3, <5>1
        <5> QED
          BY <5>2
      <4> QED
        BY <2>a, <2>b, <3>3, <4>1, <4>2, <4>3 DEF Accounted
    <3> QED
      BY <2>b, <3>1, <3>2, <3>3
  <2>7. OnlyBusesOn'
    BY <1>7, <1>0 DEF OnlyBusesOn, Types, Owned, SessionScan, At, Throw, Goto
  <2>8. SymbolsThere'
    BY <1>0, <1>7, <2>a, <2>b, CallsKnown DEF SymbolsThere, SessionScan, At
  <2> QED
    BY <2>1, <2>2, <2>3, <2>4, <2>5, <2>6, <2>7, <2>8 DEF LifeInv
<1>8. CASE NoneFound
  <2>a. /\ pc = "scan" /\ session = NoSession /\ buses = <<>> /\ pc' = "unwind"
        /\ usb.contexts >= 1 /\ usb.lists >= 1
        /\ usb' = [usb EXCEPT !.contexts = @ - 1, !.lists = @ - 1]
        /\ UNCHANGED <<scenario, attempt, options, api, lost, index, session, buses, round, stats,
                       adapter, plugged>>
    BY <1>8, <1>0 DEF NoneFound, At, Throw, Owned, Accounted
  <2>1. Types'
    <3>1. usb' \in Held
      <4>1. PICK contexts \in Nat, lists \in Nat, open \in SUBSET (Nat \X Nat),
                 claimed \in SUBSET [by : Nat, device : Nat, interface : Nat] :
              usb = [contexts |-> contexts, lists |-> lists, open |-> open, claimed |-> claimed]
        BY <1>0 DEF Types, Held
      <4>2. usb' = [contexts |-> contexts - 1, lists |-> lists - 1, open |-> open,
         claimed |-> claimed]
        BY <2>a, <4>1
      <4>3. contexts >= 1 /\ lists >= 1
        BY <2>a, <4>1
      <4> QED
        BY <4>2, <4>3 DEF Held
    <3> QED
      BY <1>0, <2>a, <3>1 DEF Types
  <2>2. OptionsRight'
    BY <1>8, <1>0 DEF OptionsRight, Channels, Program, Types, Owned, NoneFound, At, Throw
  <2>3. SessionKnown'
    BY <1>8, <1>0 DEF SessionKnown, Chosen, Types, Owned, NoneFound, At, Throw
  <2>4. Owned'
    BY <1>8, <1>0 DEF Owned, Types, NoneFound, At, Throw
  <2>5. OnTheirChannels'
    BY <1>8, <1>0 DEF OnTheirChannels, Channels, Program, NextChannel, Types, Owned, NoneFound, At,
       Throw
  <2>6. Accounted'
    <3>1. ASSUME lost = FALSE PROVE usb' = Nothing
      <4>1. usb = [contexts |-> 1, lists |-> 1, open |-> {}, claimed |-> {}]
        BY <1>0, <2>a, <3>1 DEF Accounted
      <4>2. usb' = [contexts |-> 1 - 1, lists |-> 1 - 1, open |-> {}, claimed |-> {}]
        BY <2>a, <4>1
      <4> QED
        BY <4>2 DEF Nothing
    <3> QED
      BY <2>a, <3>1 DEF Accounted
  <2>7. OnlyBusesOn'
    BY <1>8, <1>0 DEF OnlyBusesOn, Types, Owned, NoneFound, At, Throw
  <2>8. SymbolsThere'
    BY <1>8, <1>0 DEF SymbolsThere, Types, Owned, NoneFound, At, Throw
  <2> QED
    BY <2>1, <2>2, <2>3, <2>4, <2>5, <2>6, <2>7, <2>8 DEF LifeInv
<1>9. CASE Claim
  <2>a. /\ pc = "claim" /\ session # NoSession /\ buses = <<>> /\ usb.contexts >= 1 /\ usb \in Held
        /\ UNCHANGED <<scenario, attempt, options, api, lost, index, buses, round, stats,
                       adapter, plugged>>
    BY <1>9, <1>0 DEF Claim, At, Throw, Goto, Owned, Accounted, Types
  <2>b. \/ pc' = "query" /\ session' = session /\ usb' = [usb EXCEPT !.claimed = @ \cup {MyClaim}]
        \/ pc' = "unwind" /\ session' = NoSession /\ Cleanup
    BY <1>9 DEF Claim, Throw, Goto
  <2>1. Types'
    <3>1. ASSUME usb' = [usb EXCEPT !.claimed = @ \cup {MyClaim}] PROVE usb' \in Held
      <4>1. PICK contexts \in Nat, lists \in Nat, open \in SUBSET (Nat \X Nat),
                 claimed \in SUBSET [by : Nat, device : Nat, interface : Nat] :
              usb = [contexts |-> contexts, lists |-> lists, open |-> open, claimed |-> claimed]
        BY <2>a DEF Held
      <4>2. MyClaim \in [by : Nat, device : Nat, interface : Nat]
        BY <1>0, <1>f, <2>a DEF MyClaim, SessionKnown, Types
      <4>3. usb' = [contexts |-> contexts, lists |-> lists, open |-> open,
                    claimed |-> claimed \cup {MyClaim}]
        BY <3>1, <4>1
      <4> QED
        BY <4>2, <4>3 DEF Held
    <3>2. ASSUME Cleanup PROVE usb' \in Held
      BY <2>a, <3>2, CleanedUp
    <3>3. usb' \in Held /\ pc' \in Pcs
      BY <2>b, <3>1, <3>2
    <3> QED
      BY <1>0, <2>a, <3>3 DEF Types
  <2>2. OptionsRight'
    BY <1>9, <1>0 DEF OptionsRight, Channels, Program, Types, Owned, Claim, At, Throw, Goto,
       Cleanup, MyClaim, Chosen
  <2>3. SessionKnown'
    BY <1>9, <1>0 DEF SessionKnown, Chosen, Types, Owned, Claim, At, Throw, Goto, Cleanup, MyClaim
  <2>4. Owned'
    BY <1>9, <1>0 DEF Owned, Types, Claim, At, Throw, Goto, Cleanup, MyClaim, Chosen
  <2>5. OnTheirChannels'
    BY <1>9, <1>0 DEF OnTheirChannels, Channels, Program, NextChannel, Types, Owned, Claim, At,
       Throw, Goto, Cleanup, MyClaim, Chosen
  <2>6. Accounted'
    <3>1. CASE pc' = "query" /\ session' = session /\ usb' = [usb EXCEPT !.claimed = @ \cup {MyClaim}]
      <4>1. MyClaim' = MyClaim
        BY <2>a, <3>1 DEF MyClaim
      <4>2. usb'.contexts >= 1
        BY <2>a, <3>1 DEF Held
      <4>3. ASSUME lost = FALSE
            PROVE  usb' = [contexts |-> 1, lists |-> 0, open |-> {<<attempt, session.device>>},
                           claimed |-> {MyClaim}]
        <5>1. usb = [contexts |-> 1, lists |-> 0, open |-> {<<attempt, session.device>>},
                     claimed |-> {}]
          BY <1>0, <2>a, <4>3 DEF Accounted
        <5> QED
          BY <3>1, <5>1
      <4> QED
        BY <2>a, <3>1, <4>1, <4>2, <4>3 DEF Accounted
    <3>2. CASE pc' = "unwind" /\ session' = NoSession /\ Cleanup
      <4>1. ASSUME lost = FALSE PROVE usb' = Nothing
        <5>1. usb = [contexts |-> 1, lists |-> 0, open |-> {<<attempt, session.device>>},
                     claimed |-> {}]
          BY <1>0, <2>a, <4>1 DEF Accounted
        <5> QED
          BY <2>a, <3>2, <5>1, CleanedUp
      <4> QED
        BY <2>a, <3>2, <4>1 DEF Accounted
    <3> QED
      BY <2>b, <3>1, <3>2
  <2>7. OnlyBusesOn'
    BY <1>9, <1>0 DEF OnlyBusesOn, Types, Owned, Claim, At, Throw, Goto, Cleanup, MyClaim, Chosen
  <2>8. SymbolsThere'
    BY <1>9, <1>0 DEF SymbolsThere, Types, Owned, Claim, At, Throw, Goto, Cleanup, MyClaim, Chosen
  <2> QED
    BY <2>1, <2>2, <2>3, <2>4, <2>5, <2>6, <2>7, <2>8 DEF LifeInv
<1>10. CASE Query
  <2>a. /\ pc = "query" /\ session # NoSession /\ buses = <<>>
        /\ {"device", "refs", "interface"} \subseteq DOMAIN session /\ session.refs \in Nat
        /\ UNCHANGED <<scenario, attempt, options, api, usb, index, buses, round, stats,
                       adapter, plugged>>
    BY <1>10, <1>0 DEF Query, At, Throw, Goto, Owned, SessionKnown
  <2>b. \/ /\ pc' = "add" /\ lost' = lost /\ session' # NoSession
           /\ {"device", "refs", "interface", "channels"} \subseteq DOMAIN session'
           /\ session'.device = session.device /\ session'.refs = session.refs
           /\ session'.interface = session.interface /\ session'.channels = ReadDeviceInfo(Chosen)
        \/ pc' = "unwind" /\ session' = NoSession /\ lost' = TRUE
    <3> DEFINE known == [device |-> session.device, refs |-> session.refs,
                         interface |-> session.interface, channels |-> ReadDeviceInfo(Chosen)]
    <3>1. known # NoSession
      BY DEF NoSession
    <3>2. /\ DOMAIN known = {"device", "refs", "interface", "channels"}
          /\ known.device = session.device /\ known.refs = session.refs
          /\ known.interface = session.interface /\ known.channels = ReadDeviceInfo(Chosen)
      OBVIOUS
    <3>3. \/ session' = known /\ pc' = "add" /\ lost' = lost
          \/ pc' = "unwind" /\ session' = NoSession /\ lost' = TRUE
      BY <1>10 DEF Query, Throw, Goto
    <3> HIDE DEF known
    <3> QED
      BY <2>a, <3>1, <3>2, <3>3
  <2>1. Types'
    BY <1>10, <1>0 DEF Types, Owned, Query, At, Throw, Goto, Chosen
  <2>2. OptionsRight'
    BY <1>10, <1>0 DEF OptionsRight, Channels, Program, Types, Owned, Query, At, Throw, Goto, Chosen
  <2>3. SessionKnown'
    <3>1. CASE pc' = "unwind" /\ session' = NoSession
      BY <3>1 DEF SessionKnown
    <3>2. CASE pc' = "add" /\ session' # NoSession
      BY <1>0, <2>a, <2>b, <3>2 DEF SessionKnown, Chosen
    <3> QED
      BY <2>b, <3>1, <3>2
  <2>4. Owned'
    BY <1>0, <2>a, <2>b DEF Owned
  <2>5. OnTheirChannels'
    BY <1>10, <1>0 DEF OnTheirChannels, Channels, Program, NextChannel, Types, Owned, Query, At,
       Throw, Goto, Chosen
  <2>6. Accounted'
    <3>1. CASE pc' = "unwind" /\ session' = NoSession /\ lost' = TRUE
      BY <3>1 DEF Accounted
    <3>2. CASE pc' = "add" /\ lost' = lost
      <4>1. MyClaim' = MyClaim /\ session'.device = session.device /\ usb' = usb /\ attempt' = attempt
        BY <2>a, <2>b, <3>2 DEF MyClaim
      <4>2. session' # NoSession /\ pc = "query" /\ session # NoSession
        BY <2>a, <2>b, <3>2
      <4> QED
        BY <1>0, <3>2, <4>1, <4>2 DEF Accounted
    <3> QED
      BY <2>b, <3>1, <3>2
  <2>7. OnlyBusesOn'
    BY <1>10, <1>0 DEF OnlyBusesOn, Types, Owned, Query, At, Throw, Goto, Chosen
  <2>8. SymbolsThere'
    BY <1>10, <1>0 DEF SymbolsThere, Types, Owned, Query, At, Throw, Goto, Chosen
  <2> QED
    BY <2>1, <2>2, <2>3, <2>4, <2>5, <2>6, <2>7, <2>8 DEF LifeInv
<1>11. CASE AddBus
  <2>a. /\ pc = "add" /\ session # NoSession /\ Len(buses) \in Nat /\ session.refs \in Nat
        /\ session.refs >= Len(buses)
        /\ {"device", "refs", "interface", "channels"} \subseteq DOMAIN session
        /\ UNCHANGED <<scenario, attempt, options, api, lost, index, buses, round, stats,
                       adapter, plugged>>
    BY <1>11, <1>0 DEF AddBus, Throw, Goto, Types, Owned, SessionKnown
  <2>b. \/ /\ pc' = "configure" /\ usb' = usb /\ NextChannel \in DOMAIN session.channels
           /\ session' # NoSession /\ DOMAIN session' = DOMAIN session
           /\ session'.device = session.device /\ session'.refs = session.refs + 1
           /\ session'.interface = session.interface /\ session'.channels = session.channels
        \/ /\ pc' = "unwind" /\ Len(buses) = 0 /\ session' = NoSession /\ usb' \in Held
           /\ lost = FALSE => usb' = Nothing
        \/ /\ pc' = "unwind" /\ Len(buses) # 0 /\ usb' = usb
           /\ session' # NoSession /\ DOMAIN session' = DOMAIN session
           /\ session'.device = session.device /\ session'.refs = session.refs + 1
           /\ session'.interface = session.interface /\ session'.channels = session.channels
    <3> DEFINE more == [session EXCEPT !.refs = session.refs + 1]
    <3>1. /\ DOMAIN more = DOMAIN session /\ more.refs = session.refs + 1
          /\ more.device = session.device /\ more.interface = session.interface
          /\ more.channels = session.channels
      BY <2>a
    <3>2. more # NoSession
      BY <2>a, <3>1 DEF NoSession
    <3>3. CASE NextChannel \in DOMAIN session.channels
      <4>1. session' = more /\ usb' = usb /\ pc' = "configure"
        BY <1>11, <3>3 DEF AddBus, Goto
      <4> HIDE DEF more
      <4> QED
        BY <3>1, <3>2, <3>3, <4>1
    <3>4. CASE NextChannel \notin DOMAIN session.channels
      <4>1. Release(Len(buses), session.refs + 1) /\ pc' = "unwind"
        BY <1>11, <3>4 DEF AddBus, Throw
      <4>2. /\ usb' \in Held
            /\ Len(buses) = 0 => session' = NoSession
            /\ Len(buses) # 0 => session' # NoSession /\ session' = more /\ usb' = usb
            /\ lost = FALSE /\ Len(buses) = 0 => usb' = Nothing
        <5>1. session.refs + 1 \in Nat /\ session.refs + 1 >= Len(buses)
          BY <2>a
        <5> QED
          BY <1>0, <2>a, <4>1, <5>1, Released
      <4> HIDE DEF more
      <4> QED
        BY <3>1, <4>1, <4>2
    <3> QED
      BY <3>3, <3>4
  <2>1. Types'
    <3>1. usb' \in Held /\ pc' \in Pcs
      BY <1>0, <2>b DEF Types
    <3> QED
      BY <1>0, <2>a, <3>1 DEF Types
  <2>2. OptionsRight'
    BY <1>11, <1>0 DEF OptionsRight, Channels, Program, Types, Owned, AddBus, Throw, Goto, Release,
       Cleanup, MyClaim
  <2>3. SessionKnown'
    <3>1. CASE session' = NoSession
      BY <3>1 DEF SessionKnown
    <3>2. CASE session' # NoSession
      <4>1. session.channels = ReadDeviceInfo(Chosen) /\ session.device \in DOMAIN scenario.list
              /\ session.interface \in Nat
        BY <1>0, <2>a DEF SessionKnown
      <4>2. Chosen' = Chosen
        BY <2>a, <2>b, <3>2 DEF Chosen
      <4> QED
        BY <2>a, <2>b, <3>2, <4>1, <4>2 DEF SessionKnown
    <3> QED
      BY <3>1, <3>2
  <2>4. Owned'
    <3>1. buses = <<>> <=> Len(buses) = 0
      BY <1>0 DEF Types
    <3>2. pc' \in {"configure", "unwind"} /\ buses' = buses
      BY <2>a, <2>b
    <3>3. session' # NoSession => session'.refs >= Len(buses) + 1 /\ session'.refs \in Nat
      BY <2>a, <2>b
    <3>4. pc' = "configure" => session' # NoSession
      BY <2>b
    <3>5. pc' = "unwind" => (session' = NoSession <=> buses = <<>>)
      BY <2>b, <3>1
    <3> QED
      BY <2>a, <3>1, <3>2, <3>3, <3>4, <3>5 DEF Owned
  <2>5. OnTheirChannels'
    <3>1. /\ Len(buses) <= Len(Channels) /\ Len(buses) < Len(Channels)
          /\ \A i \in DOMAIN buses : buses[i] = Channels[i]
      BY <1>0, <2>a DEF OnTheirChannels
    <3>2. Channels' = Channels /\ NextChannel' = NextChannel /\ buses' = buses
      BY <2>a DEF Channels, Program, NextChannel
    <3>3. pc' = "unwind" \/ (pc' = "configure" /\ NextChannel \in DOMAIN session'.channels)
      BY <2>b
    <3> QED
      BY <3>1, <3>2, <3>3 DEF OnTheirChannels
  <2>6. Accounted'
    <3>1. CASE session' = NoSession
      BY <2>a, <2>b, <3>1 DEF Accounted
    <3>2. CASE session' # NoSession
      <4>1. MyClaim' = MyClaim /\ session'.device = session.device /\ usb' = usb
              /\ pc' \notin {"claim", "scan", "crashed"}
        BY <2>a, <2>b, <3>2 DEF MyClaim
      <4> QED
        BY <1>0, <2>a, <3>2, <4>1 DEF Accounted
    <3> QED
      BY <3>1, <3>2
  <2>7. OnlyBusesOn'
    BY <1>11, <1>0 DEF OnlyBusesOn, Types, Owned, AddBus, Throw, Goto, Release, Cleanup, MyClaim
  <2>8. SymbolsThere'
    BY <1>11, <1>0 DEF SymbolsThere, Types, Owned, AddBus, Throw, Goto, Release, Cleanup, MyClaim
  <2> QED
    BY <2>1, <2>2, <2>3, <2>4, <2>5, <2>6, <2>7, <2>8 DEF LifeInv
<1>12. CASE Configure
  <2>a. /\ pc = "configure" /\ session # NoSession /\ Len(buses) \in Nat /\ session.refs \in Nat
        /\ session.refs >= Len(buses) + 1 /\ Len(buses) < Len(Channels)
        /\ buses \in Seq(AllChannels) /\ \A i \in DOMAIN buses : buses[i] = Channels[i]
        /\ NextChannel \in DOMAIN session.channels
        /\ UNCHANGED <<scenario, attempt, options, api, lost, index, round, stats, plugged>>
    BY <1>12, <1>0 DEF Configure, At, Throw, Goto, Types, Owned, SessionKnown, OnTheirChannels,
       Before1st, Opening, runVars
  <2>b. NextChannel \in AllChannels /\ NextChannel \notin ToSet(buses)
    <3>1. NextChannel \in AllChannels
      BY <1>0, <2>a, SessionsDevice DEF Types
    <3>2. IsInjective(Channels)
      BY <1>0 DEF OptionsRight
    <3>3. ASSUME NEW i \in DOMAIN buses PROVE buses[i] # NextChannel
      <4>1. i \in DOMAIN Channels /\ Len(buses) + 1 \in DOMAIN Channels /\ i # Len(buses) + 1
        BY <1>g, <2>a
      <4> QED
        BY <2>a, <3>2, <4>1 DEF IsInjective, NextChannel
    <3> QED
      BY <3>1, <3>3 DEF ToSet
  <2>c. \/ /\ pc' = "next" /\ UNCHANGED <<usb, session>> /\ buses' = Append(buses, NextChannel)
           /\ \E configured : adapter' = [adapter EXCEPT ![NextChannel] = configured]
        \/ /\ pc' = "unwind" /\ buses' = buses
           /\ adapter' = IF plugged THEN [adapter EXCEPT ![NextChannel] = ChannelOff] ELSE adapter
           /\ Release(Len(buses), session.refs - 1)
    BY <1>12 DEF Configure, ShutdownBus, Goto, Throw
  <2>d. ASSUME pc' = "unwind"
        PROVE  \/ /\ Len(buses) = 0 /\ session' = NoSession /\ usb' \in Held
                  /\ lost = FALSE => usb' = Nothing
               \/ /\ Len(buses) # 0 /\ session' # NoSession /\ usb' = usb
                  /\ DOMAIN session' = DOMAIN session
                  /\ session'.device = session.device /\ session'.refs = session.refs - 1
                  /\ session'.interface = session.interface
                  /\ session'.channels = session.channels
    <3>1. session.refs - 1 \in Nat /\ session.refs - 1 >= Len(buses)
      BY <2>a
    <3>2. Release(Len(buses), session.refs - 1)
      BY <2>c, <2>d
    <3> QED
      BY <1>0, <2>a, <3>1, <3>2, Released
  <2>1. Types'
    <3>1. usb' \in Held /\ pc' \in Pcs
      BY <1>0, <2>c, <2>d DEF Types
    <3>2. buses' \in Seq(AllChannels) /\ IsInjective(buses')
      <4>1. CASE buses' = buses
        BY <1>0, <4>1 DEF Types
      <4>2. CASE buses' = Append(buses, NextChannel)
        <5>1. /\ buses' \in Seq(AllChannels) /\ Len(buses') = Len(buses) + 1
              /\ DOMAIN buses' = 1 .. Len(buses) + 1 /\ DOMAIN buses = 1 .. Len(buses)
              /\ \A i \in DOMAIN buses : buses'[i] = buses[i] /\ buses[i] # NextChannel
              /\ buses'[Len(buses) + 1] = NextChannel
          BY <2>a, <2>b, <4>2 DEF ToSet
        <5>2. IsInjective(buses)
          BY <1>0 DEF Types
        <5> QED
          BY <2>a, <5>1, <5>2 DEF IsInjective
      <4> QED
        BY <2>c, <4>1, <4>2
    <3> QED
      BY <1>0, <2>a, <3>1, <3>2 DEF Types
  <2>2. OptionsRight'
    BY <1>12, <1>0 DEF OptionsRight, Channels, Program, Types, Owned, Configure, At, Throw, Goto,
       ShutdownBus, Release, Cleanup, MyClaim
  <2>3. SessionKnown'
    <3>1. CASE session' = NoSession
      BY <3>1 DEF SessionKnown
    <3>2. CASE session' # NoSession
      <4>1. /\ session.channels = ReadDeviceInfo(Chosen) /\ session.device \in DOMAIN scenario.list
            /\ session.interface \in Nat
            /\ {"device", "refs", "interface", "channels"} \subseteq DOMAIN session
        BY <1>0, <2>a DEF SessionKnown
      <4>2. /\ DOMAIN session' = DOMAIN session /\ session'.device = session.device
            /\ session'.interface = session.interface /\ session'.channels = session.channels
            /\ session'.refs \in Nat /\ pc' \in {"next", "unwind"}
        <5>1. CASE pc' = "next" /\ session' = session
          BY <2>a, <5>1
        <5>2. CASE pc' = "unwind"
          <6>1. session'.refs = session.refs - 1
            BY <2>d, <3>2, <5>2
          <6>2. session'.refs \in Nat
            BY <2>a, <6>1
          <6> QED
            BY <2>d, <3>2, <5>2, <6>2
        <5> QED
          BY <2>c, <5>1, <5>2
      <4>3. Chosen' = Chosen
        BY <2>a, <4>2 DEF Chosen
      <4> QED
        BY <2>a, <3>2, <4>1, <4>2, <4>3 DEF SessionKnown
    <3> QED
      BY <3>1, <3>2
  <2>4. Owned'
    <3>1. CASE pc' = "next" /\ session' = session /\ buses' = Append(buses, NextChannel)
      <4>1. Len(buses') = Len(buses) + 1 /\ buses' # <<>>
        BY <2>a, <2>b, <3>1
      <4> QED
        BY <2>a, <3>1, <4>1 DEF Owned
    <3>2. CASE pc' = "unwind" /\ buses' = buses
      <4>1. buses = <<>> <=> Len(buses) = 0
        BY <2>a
      <4>2. session' = NoSession <=> buses = <<>>
        BY <2>d, <3>2, <4>1
      <4>3. ASSUME session' # NoSession PROVE session'.refs >= Len(buses)
        <5>1. session'.refs = session.refs - 1
          BY <2>d, <3>2, <4>3
        <5> QED
          BY <2>a, <5>1
      <4> QED
        BY <3>2, <4>2, <4>3 DEF Owned
    <3> QED
      BY <2>c, <3>1, <3>2
  <2>5. OnTheirChannels'
    <3>1. CASE pc' = "unwind"
      BY <3>1 DEF OnTheirChannels
    <3>2. CASE pc' = "next" /\ buses' = Append(buses, NextChannel)
      <4>1. Channels' = Channels
        BY <2>a DEF Channels, Program
      <4>2. /\ Len(buses') = Len(buses) + 1 /\ DOMAIN buses' = 1 .. Len(buses) + 1
            /\ \A i \in DOMAIN buses : buses'[i] = buses[i]
            /\ buses'[Len(buses) + 1] = Channels[Len(buses) + 1]
        BY <2>a, <2>b, <3>2 DEF NextChannel
      <4>3. Len(buses') <= Len(Channels)
        BY <1>g, <2>a, <4>2
      <4>4. \A i \in DOMAIN buses' : buses'[i] = Channels[i]
        BY <2>a, <4>2
      <4> QED
        BY <3>2, <4>1, <4>3, <4>4 DEF OnTheirChannels
    <3> QED
      BY <2>c, <3>1, <3>2
  <2>6. Accounted'
    <3>1. CASE session' = NoSession
      <4>1. pc' = "unwind" /\ (lost = FALSE => usb' = Nothing)
        BY <2>a, <2>c, <2>d, <3>1
      <4> QED
        BY <2>a, <3>1, <4>1 DEF Accounted
    <3>2. CASE session' # NoSession
      <4>1. MyClaim' = MyClaim /\ session'.device = session.device /\ usb' = usb
              /\ pc' \notin {"claim", "scan", "crashed"}
        BY <2>a, <2>c, <2>d, <3>2 DEF MyClaim
      <4> QED
        BY <1>0, <2>a, <3>2, <4>1 DEF Accounted
    <3> QED
      BY <3>1, <3>2
  <2>7. OnlyBusesOn'
    <3>1. /\ DOMAIN adapter' = AllChannels /\ plugged' = plugged
          /\ ToSet(buses) \subseteq ToSet(buses')
      <4>1. buses' = buses \/ buses' = Append(buses, NextChannel)
        BY <2>c
      <4>2. ToSet(buses) \subseteq ToSet(buses')
        BY <2>a, <2>b, <4>1 DEF ToSet
      <4> QED
        BY <1>0, <2>a, <2>c, <4>2 DEF OnlyBusesOn
    <3>2. ASSUME plugged = TRUE, NEW c \in AllChannels, adapter'[c] # ChannelOff
          PROVE  c \in ToSet(buses')
      <4>1. CASE c # NextChannel
        <5>1. adapter'[c] = adapter[c]
          BY <1>0, <2>b, <2>c, <3>2, <4>1 DEF OnlyBusesOn
        <5> QED
          BY <1>0, <3>1, <3>2, <5>1 DEF OnlyBusesOn
      <4>2. CASE c = NextChannel /\ pc' = "unwind"
        <5>1. adapter'[c] = ChannelOff
          BY <1>0, <2>b, <2>c, <3>2, <4>2 DEF OnlyBusesOn
        <5> QED
          BY <3>2, <5>1
      <4>3. CASE c = NextChannel /\ buses' = Append(buses, NextChannel)
        <5>1. buses'[Len(buses) + 1] = NextChannel /\ Len(buses) + 1 \in DOMAIN buses'
          BY <2>a, <2>b, <4>3
        <5> QED
          BY <4>3, <5>1 DEF ToSet
      <4> QED
        BY <2>c, <4>1, <4>2, <4>3
    <3> QED
      BY <3>1, <3>2 DEF OnlyBusesOn
  <2>8. SymbolsThere'
    BY <1>12, <1>0 DEF SymbolsThere, Types, Owned, Configure, At, Throw, Goto, ShutdownBus,
       Release, Cleanup, MyClaim
  <2> QED
    BY <2>1, <2>2, <2>3, <2>4, <2>5, <2>6, <2>7, <2>8 DEF LifeInv
<1>13. CASE Send
  <2>1. Types'
    <3>1. stats' \in [AllChannels -> [tx : Nat, rx : Nat]]
      <4>1. stats' = stats \/ stats' = [stats EXCEPT ![Turn].tx = @ + 1]
        BY <1>13 DEF Send
      <4>2. CASE stats' = stats
        BY <1>0, <4>2 DEF Types
      <4>3. CASE stats' = [stats EXCEPT ![Turn].tx = @ + 1]
        BY <1>0, <4>3, StatsTyped DEF Types
      <4> QED
        BY <4>1, <4>2, <4>3
    <3>2. round' \in 0 .. scenario.rounds /\ pc' \in Pcs
      BY <1>13, <1>0, <1>f DEF Send, At, Throw, Goto, Types
    <3>3. UNCHANGED <<scenario, attempt, api, usb, lost, plugged, index, buses>>
      BY <1>13 DEF Send, Throw, Goto
    <3> QED
      BY <1>0, <3>1, <3>2, <3>3 DEF Types
  <2>2. OptionsRight'
    BY <1>13, <1>0 DEF OptionsRight, Channels, Program, Types, Owned, Send, At, Goto, Throw
  <2>3. SessionKnown'
    BY <1>13, <1>0 DEF SessionKnown, Chosen, Types, Owned, Send, At, Goto, Throw
  <2>4. Owned'
    BY <1>13, <1>0 DEF Owned, Types, Send, At, Goto, Throw
  <2>5. OnTheirChannels'
    BY <1>13, <1>0 DEF OnTheirChannels, Channels, Program, NextChannel, Types, Owned, Send, At,
       Goto, Throw
  <2>6. Accounted'
    BY <1>13, <1>0 DEF Accounted, MyClaim, Nothing, Types, Owned, Send, At, Goto, Throw,
       SessionKnown, Held
  <2>7. OnlyBusesOn'
    BY <1>13, <1>0 DEF OnlyBusesOn, Types, Owned, Send, At, Goto, Throw
  <2>8. SymbolsThere'
    BY <1>13, <1>0 DEF SymbolsThere, Types, Owned, Send, At, Goto, Throw
  <2> QED
    BY <2>1, <2>2, <2>3, <2>4, <2>5, <2>6, <2>7, <2>8 DEF LifeInv
<1>14. CASE RecvQueued
  <2>1. Types'
    <3>1. stats' \in [AllChannels -> [tx : Nat, rx : Nat]]
      BY <1>14, <1>0, StatsTyped DEF RecvQueued, Types
    <3>2. round' = round /\ pc' \in Pcs /\ scenario' = scenario /\ attempt' = attempt
      BY <1>14, <1>0 DEF RecvQueued, AfterRecv, Throw, Goto, Types
    <3>3. UNCHANGED <<api, usb, lost, plugged, index, buses>>
      BY <1>14 DEF RecvQueued
    <3> QED
      BY <1>0, <3>1, <3>2, <3>3 DEF Types
  <2>2. OptionsRight'
    BY <1>14, <1>0 DEF OptionsRight, Channels, Program, Types, Owned, RecvQueued, AfterRecv, Goto,
       Throw
  <2>3. SessionKnown'
    BY <1>14, <1>0 DEF SessionKnown, Chosen, Types, Owned, RecvQueued, AfterRecv, Goto, Throw
  <2>4. Owned'
    BY <1>14, <1>0 DEF Owned, Types, RecvQueued, AfterRecv, Goto, Throw
  <2>5. OnTheirChannels'
    BY <1>14, <1>0 DEF OnTheirChannels, Channels, Program, NextChannel, Types, Owned, RecvQueued,
       AfterRecv, Goto, Throw
  <2>6. Accounted'
    BY <1>14, <1>0 DEF Accounted, MyClaim, Nothing, Types, Owned, RecvQueued, AfterRecv, Goto,
       Throw, SessionKnown, Held
  <2>7. OnlyBusesOn'
    BY <1>14, <1>0 DEF OnlyBusesOn, Types, Owned, RecvQueued, AfterRecv, Goto, Throw
  <2>8. SymbolsThere'
    BY <1>14, <1>0 DEF SymbolsThere, Types, Owned, RecvQueued, AfterRecv, Goto, Throw
  <2> QED
    BY <2>1, <2>2, <2>3, <2>4, <2>5, <2>6, <2>7, <2>8 DEF LifeInv
<1>15. CASE PollOnce
  <2>1. Types'
    BY <1>15, <1>0 DEF Types, Owned, PollOnce
  <2>2. OptionsRight'
    BY <1>15, <1>0 DEF OptionsRight, Channels, Program, Types, Owned, PollOnce
  <2>3. SessionKnown'
    BY <1>15, <1>0 DEF SessionKnown, Chosen, Types, Owned, PollOnce
  <2>4. Owned'
    BY <1>15, <1>0 DEF Owned, Types, PollOnce
  <2>5. OnTheirChannels'
    BY <1>15, <1>0 DEF OnTheirChannels, Channels, Program, NextChannel, Types, Owned, PollOnce
  <2>6. Accounted'
    BY <1>15, <1>0 DEF Accounted, MyClaim, Nothing, Types, Owned, PollOnce, SessionKnown, Held
  <2>7. OnlyBusesOn'
    BY <1>15, <1>0 DEF OnlyBusesOn, Types, Owned, PollOnce
  <2>8. SymbolsThere'
    BY <1>15, <1>0 DEF SymbolsThere, Types, Owned, PollOnce
  <2> QED
    BY <2>1, <2>2, <2>3, <2>4, <2>5, <2>6, <2>7, <2>8 DEF LifeInv
<1>16. CASE RecvNothing
  <2>1. Types'
    BY <1>16, <1>0 DEF Types, Owned, RecvNothing, AfterRecv, Goto, Throw
  <2>2. OptionsRight'
    BY <1>16, <1>0 DEF OptionsRight, Channels, Program, Types, Owned, RecvNothing, AfterRecv, Goto,
       Throw
  <2>3. SessionKnown'
    BY <1>16, <1>0 DEF SessionKnown, Chosen, Types, Owned, RecvNothing, AfterRecv, Goto, Throw
  <2>4. Owned'
    BY <1>16, <1>0 DEF Owned, Types, RecvNothing, AfterRecv, Goto, Throw
  <2>5. OnTheirChannels'
    BY <1>16, <1>0 DEF OnTheirChannels, Channels, Program, NextChannel, Types, Owned, RecvNothing,
       AfterRecv, Goto, Throw
  <2>6. Accounted'
    BY <1>16, <1>0 DEF Accounted, MyClaim, Nothing, Types, Owned, RecvNothing, AfterRecv, Goto,
       Throw, SessionKnown, Held
  <2>7. OnlyBusesOn'
    BY <1>16, <1>0 DEF OnlyBusesOn, Types, Owned, RecvNothing, AfterRecv, Goto, Throw
  <2>8. SymbolsThere'
    BY <1>16, <1>0 DEF SymbolsThere, Types, Owned, RecvNothing, AfterRecv, Goto, Throw
  <2> QED
    BY <2>1, <2>2, <2>3, <2>4, <2>5, <2>6, <2>7, <2>8 DEF LifeInv
<1>17. CASE NextTick
  <2>1. Types'
    BY <1>17, <1>0 DEF Types, Owned, NextTick, Goto
  <2>2. OptionsRight'
    BY <1>17, <1>0 DEF OptionsRight, Channels, Program, Types, Owned, NextTick, Goto
  <2>3. SessionKnown'
    BY <1>17, <1>0 DEF SessionKnown, Chosen, Types, Owned, NextTick, Goto
  <2>4. Owned'
    BY <1>17, <1>0 DEF Owned, Types, NextTick, Goto
  <2>5. OnTheirChannels'
    BY <1>17, <1>0 DEF OnTheirChannels, Channels, Program, NextChannel, Types, Owned, NextTick, Goto
  <2>6. Accounted'
    BY <1>17, <1>0 DEF Accounted, MyClaim, Nothing, Types, Owned, NextTick, Goto, SessionKnown, Held
  <2>7. OnlyBusesOn'
    BY <1>17, <1>0 DEF OnlyBusesOn, Types, Owned, NextTick, Goto
  <2>8. SymbolsThere'
    BY <1>17, <1>0 DEF SymbolsThere, Types, Owned, NextTick, Goto
  <2> QED
    BY <2>1, <2>2, <2>3, <2>4, <2>5, <2>6, <2>7, <2>8 DEF LifeInv
<1>18. CASE DurationOver
  <2>1. Types'
    BY <1>18, <1>0 DEF Types, Owned, DurationOver, Goto
  <2>2. OptionsRight'
    BY <1>18, <1>0 DEF OptionsRight, Channels, Program, Types, Owned, DurationOver, Goto
  <2>3. SessionKnown'
    BY <1>18, <1>0 DEF SessionKnown, Chosen, Types, Owned, DurationOver, Goto
  <2>4. Owned'
    BY <1>18, <1>0 DEF Owned, Types, DurationOver, Goto
  <2>5. OnTheirChannels'
    BY <1>18, <1>0 DEF OnTheirChannels, Channels, Program, NextChannel, Types, Owned, DurationOver,
       Goto
  <2>6. Accounted'
    BY <1>18, <1>0 DEF Accounted, MyClaim, Nothing, Types, Owned, DurationOver, Goto, SessionKnown,
       Held
  <2>7. OnlyBusesOn'
    BY <1>18, <1>0 DEF OnlyBusesOn, Types, Owned, DurationOver, Goto
  <2>8. SymbolsThere'
    BY <1>18, <1>0 DEF SymbolsThere, Types, Owned, DurationOver, Goto
  <2> QED
    BY <2>1, <2>2, <2>3, <2>4, <2>5, <2>6, <2>7, <2>8 DEF LifeInv
<1>19. CASE DrainOver
  <2>1. Types'
    BY <1>19, <1>0 DEF Types, Owned, DrainOver, Goto
  <2>2. OptionsRight'
    BY <1>19, <1>0 DEF OptionsRight, Channels, Program, Types, Owned, DrainOver, Goto
  <2>3. SessionKnown'
    BY <1>19, <1>0 DEF SessionKnown, Chosen, Types, Owned, DrainOver, Goto
  <2>4. Owned'
    BY <1>19, <1>0 DEF Owned, Types, DrainOver, Goto
  <2>5. OnTheirChannels'
    BY <1>19, <1>0 DEF OnTheirChannels, Channels, Program, NextChannel, Types, Owned, DrainOver,
       Goto
  <2>6. Accounted'
    BY <1>19, <1>0 DEF Accounted, MyClaim, Nothing, Types, Owned, DrainOver, Goto, SessionKnown,
       Held
  <2>7. OnlyBusesOn'
    BY <1>19, <1>0 DEF OnlyBusesOn, Types, Owned, DrainOver, Goto
  <2>8. SymbolsThere'
    BY <1>19, <1>0 DEF SymbolsThere, Types, Owned, DrainOver, Goto
  <2> QED
    BY <2>1, <2>2, <2>3, <2>4, <2>5, <2>6, <2>7, <2>8 DEF LifeInv
<1>20. CASE ShutdownNext
  <2>a. /\ pc \in {"stop", "unwind"} /\ session # NoSession /\ Len(buses) \in Nat \ {0}
        /\ session.refs \in Nat /\ session.refs >= Len(buses) /\ buses \in Seq(AllChannels)
        /\ buses # <<>> /\ buses' = Tail(buses) /\ pc' = pc
        /\ UNCHANGED <<scenario, attempt, options, api, lost, index, round, stats, plugged>>
    BY <1>20, <1>0 DEF ShutdownNext, Types, Owned, SessionKnown
  <2>b. adapter' = IF plugged THEN [adapter EXCEPT ![Head(buses)] = ChannelOff] ELSE adapter
    BY <1>20 DEF ShutdownNext, ShutdownBus
  <2>c. /\ Len(buses') = Len(buses) - 1 /\ DOMAIN buses' = 1 .. Len(buses) - 1
        /\ buses' \in Seq(AllChannels) /\ Head(buses) = buses[1]
        /\ \A i \in DOMAIN buses' : buses'[i] = buses[i + 1]
    BY <2>a
  <2>d. \/ /\ buses' = <<>> /\ session' = NoSession /\ usb' \in Held
           /\ lost = FALSE => usb' = Nothing
        \/ /\ buses' # <<>> /\ session' # NoSession /\ usb' = usb
           /\ DOMAIN session' = DOMAIN session
           /\ session'.device = session.device /\ session'.refs = session.refs - 1
           /\ session'.interface = session.interface
           /\ session'.channels = session.channels
    <3>1. session.refs - 1 \in Nat /\ session.refs - 1 >= Len(buses) - 1 /\ Len(buses) - 1 \in Nat
      BY <2>a
    <3>2. Release(Len(buses) - 1, session.refs - 1)
      BY <1>20 DEF ShutdownNext, ShutdownBus
    <3>3. Len(buses) - 1 = 0 <=> buses' = <<>>
      BY <2>c
    <3> QED
      BY <1>0, <2>a, <3>1, <3>2, <3>3, Released
  <2>1. Types'
    <3>1. usb' \in Held
      BY <1>0, <2>d DEF Types
    <3>2. IsInjective(buses')
      <4>1. IsInjective(buses)
        BY <1>0 DEF Types
      <4> QED
        BY <2>a, <2>c, <4>1 DEF IsInjective
    <3> QED
      BY <1>0, <2>a, <2>c, <3>1, <3>2 DEF Types
  <2>2. OptionsRight'
    BY <1>20, <1>0 DEF OptionsRight, Channels, Program, Types, Owned, ShutdownNext, ShutdownBus,
       Release, Cleanup, MyClaim
  <2>3. SessionKnown'
    <3>1. CASE session' = NoSession
      BY <3>1 DEF SessionKnown
    <3>2. CASE session' # NoSession
      <4>1. /\ session.channels = ReadDeviceInfo(Chosen) /\ session.device \in DOMAIN scenario.list
            /\ session.interface \in Nat
            /\ {"device", "refs", "interface", "channels"} \subseteq DOMAIN session
        BY <1>0, <2>a DEF SessionKnown
      <4>2. /\ DOMAIN session' = DOMAIN session /\ session'.device = session.device
            /\ session'.interface = session.interface /\ session'.channels = session.channels
            /\ session'.refs \in Nat /\ pc' \in {"stop", "unwind"}
        BY <2>a, <2>d, <3>2
      <4>3. Chosen' = Chosen
        BY <2>a, <4>2 DEF Chosen
      <4> QED
        BY <2>a, <3>2, <4>1, <4>2, <4>3 DEF SessionKnown
    <3> QED
      BY <3>1, <3>2
  <2>4. Owned'
    <3>1. session' = NoSession <=> buses' = <<>>
      BY <2>d
    <3>2. session' # NoSession => session'.refs >= Len(buses')
      BY <2>a, <2>c, <2>d
    <3> QED
      BY <2>a, <3>1, <3>2 DEF Owned
  <2>5. OnTheirChannels'
    BY <1>20, <1>0 DEF OnTheirChannels, Channels, Program, NextChannel, Types, Owned, ShutdownNext,
       ShutdownBus, Release, Cleanup, MyClaim
  <2>6. Accounted'
    <3>1. CASE session' = NoSession
      <4>1. lost = FALSE => usb' = Nothing
        BY <2>d, <3>1
      <4> QED
        BY <2>a, <3>1, <4>1 DEF Accounted
    <3>2. CASE session' # NoSession
      <4>1. MyClaim' = MyClaim /\ session'.device = session.device /\ usb' = usb
              /\ pc \notin {"claim", "scan", "crashed"}
        BY <2>a, <2>d, <3>2 DEF MyClaim
      <4> QED
        BY <1>0, <2>a, <3>2, <4>1 DEF Accounted
    <3> QED
      BY <3>1, <3>2
  <2>7. OnlyBusesOn'
    <3>1. ASSUME plugged = TRUE, NEW c \in AllChannels, adapter'[c] # ChannelOff
          PROVE  c \in ToSet(buses')
      <4>1. c # Head(buses) /\ adapter[c] # ChannelOff
        BY <1>0, <2>b, <3>1 DEF OnlyBusesOn
      <4>2. PICK i \in DOMAIN buses : buses[i] = c
        BY <1>0, <3>1, <4>1 DEF OnlyBusesOn, ToSet
      <4>3. i \in 2 .. Len(buses)
        BY <2>a, <2>c, <4>1, <4>2
      <4>4. i - 1 \in DOMAIN buses' /\ buses'[i - 1] = c
        BY <2>a, <2>c, <4>2, <4>3
      <4> QED
        BY <4>4 DEF ToSet
    <3> QED
      BY <1>0, <2>a, <2>b, <3>1 DEF OnlyBusesOn
  <2>8. SymbolsThere'
    BY <1>20, <1>0 DEF SymbolsThere, Types, Owned, ShutdownNext, ShutdownBus, Release, Cleanup,
       MyClaim
  <2> QED
    BY <2>1, <2>2, <2>3, <2>4, <2>5, <2>6, <2>7, <2>8 DEF LifeInv
<1>21. CASE Exit
  <2>1. Types'
    BY <1>21, <1>0 DEF Types, Owned, Exit, Goto
  <2>2. OptionsRight'
    BY <1>21, <1>0 DEF OptionsRight, Channels, Program, Types, Owned, Exit, Goto
  <2>3. SessionKnown'
    BY <1>21, <1>0 DEF SessionKnown, Chosen, Types, Owned, Exit, Goto
  <2>4. Owned'
    BY <1>21, <1>0 DEF Owned, Types, Exit, Goto
  <2>5. OnTheirChannels'
    BY <1>21, <1>0 DEF OnTheirChannels, Channels, Program, NextChannel, Types, Owned, Exit, Goto
  <2>6. Accounted'
    BY <1>21, <1>0 DEF Accounted, MyClaim, Nothing, Types, Owned, Exit, Goto, SessionKnown, Held
  <2>7. OnlyBusesOn'
    BY <1>21, <1>0 DEF OnlyBusesOn, Types, Owned, Exit, Goto
  <2>8. SymbolsThere'
    BY <1>21, <1>0 DEF SymbolsThere, Types, Owned, Exit, Goto
  <2> QED
    BY <2>1, <2>2, <2>3, <2>4, <2>5, <2>6, <2>7, <2>8 DEF LifeInv
<1>22. CASE Retry
  <2>a. /\ pc = "unwind" /\ buses = <<>> /\ session = NoSession /\ pc' = "next" /\ attempt = 1
        /\ attempt' = 2
        /\ UNCHANGED <<scenario, why, options, api, usb, lost, index, session, buses, round, stats,
                       adapter, plugged>>
    BY <1>22, <1>0 DEF Retry, Retries, Owned
  <2>1. Types'
    BY <1>0, <2>a DEF Types
  <2>2. OptionsRight'
    BY <1>22, <1>0 DEF OptionsRight, Channels, Program, Types, Owned, Retry, Retries
  <2>3. SessionKnown'
    BY <1>22, <1>0 DEF SessionKnown, Chosen, Types, Owned, Retry, Retries
  <2>4. Owned'
    BY <1>22, <1>0 DEF Owned, Types, Retry, Retries
  <2>5. OnTheirChannels'
    <3>1. Len(Channels') \in {2, 4, 8}
      BY <1>g, <2>a DEF Channels, Program
    <3> QED
      BY <2>a, <3>1 DEF OnTheirChannels
  <2>6. Accounted'
    BY <1>22, <1>0 DEF Accounted, MyClaim, Nothing, Types, Owned, Retry, Retries, SessionKnown, Held
  <2>7. OnlyBusesOn'
    BY <1>22, <1>0 DEF OnlyBusesOn, Types, Owned, Retry, Retries
  <2>8. SymbolsThere'
    BY <1>0, <2>a DEF SymbolsThere
  <2> QED
    BY <2>1, <2>2, <2>3, <2>4, <2>5, <2>6, <2>7, <2>8 DEF LifeInv
<1>23. CASE Transmit
  <2>1. Types'
    BY <1>23, <1>0 DEF Types, Owned, Transmit
  <2>2. OptionsRight'
    BY <1>23, <1>0 DEF OptionsRight, Channels, Program, Types, Owned, Transmit
  <2>3. SessionKnown'
    BY <1>23, <1>0 DEF SessionKnown, Chosen, Types, Owned, Transmit
  <2>4. Owned'
    BY <1>23, <1>0 DEF Owned, Types, Transmit
  <2>5. OnTheirChannels'
    BY <1>23, <1>0 DEF OnTheirChannels, Channels, Program, NextChannel, Types, Owned, Transmit
  <2>6. Accounted'
    BY <1>23, <1>0 DEF Accounted, MyClaim, Nothing, Types, Owned, Transmit, SessionKnown, Held
  <2>7. OnlyBusesOn'
    BY <1>23, <1>0 DEF OnlyBusesOn, Types, Owned, Transmit
  <2>8. SymbolsThere'
    BY <1>23, <1>0 DEF SymbolsThere, Types, Owned, Transmit
  <2> QED
    BY <2>1, <2>2, <2>3, <2>4, <2>5, <2>6, <2>7, <2>8 DEF LifeInv
<1>24. CASE Unplug
  <2>1. Types'
    BY <1>24, <1>0 DEF Types, Owned, Unplug
  <2>2. OptionsRight'
    BY <1>24, <1>0 DEF OptionsRight, Channels, Program, Types, Owned, Unplug
  <2>3. SessionKnown'
    BY <1>24, <1>0 DEF SessionKnown, Chosen, Types, Owned, Unplug
  <2>4. Owned'
    BY <1>24, <1>0 DEF Owned, Types, Unplug
  <2>5. OnTheirChannels'
    BY <1>24, <1>0 DEF OnTheirChannels, Channels, Program, NextChannel, Types, Owned, Unplug
  <2>6. Accounted'
    BY <1>24, <1>0 DEF Accounted, MyClaim, Nothing, Types, Owned, Unplug, SessionKnown, Held
  <2>7. OnlyBusesOn'
    BY <1>24, <1>0 DEF OnlyBusesOn, Types, Owned, Unplug
  <2>8. SymbolsThere'
    BY <1>24, <1>0 DEF SymbolsThere, Types, Owned, Unplug
  <2> QED
    BY <2>1, <2>2, <2>3, <2>4, <2>5, <2>6, <2>7, <2>8 DEF LifeInv
<1> QED
  BY <1>1, <1>2, <1>3, <1>4, <1>5, <1>6, <1>7, <1>8, <1>9, <1>10, <1>11, <1>12, <1>13, <1>14,
     <1>15, <1>16, <1>17, <1>18, <1>19, <1>20, <1>21, <1>22, <1>23, <1>24 DEF Next, Library,
        Construct, Traffic, End

LEMMA LifeInitially == Init => LifeInv
<1> SUFFICES ASSUME Init PROVE LifeInv
  OBVIOUS
<1>1. IsInjective(Channels)
  BY ScenarioRight, DefaultChannels DEF Init, Channels, Program
<1>2. OptionsRight
  BY <1>1 DEF Init, OptionsRight, CommonOptions
<1>3. Types
  <2>1. usb \in Held
    BY DEF Init, Nothing, Held
  <2>2. api \in [module : BOOLEAN, symbols : SUBSET ToSet(Symbols)]
    <3>1. FALSE \in BOOLEAN /\ {} \in SUBSET ToSet(Symbols)
      OBVIOUS
    <3> QED
      BY <3>1, Zenon DEF Init
  <2>3. lost \in BOOLEAN /\ plugged \in BOOLEAN
    BY Zenon DEF Init
  <2>4. buses \in Seq(AllChannels) /\ IsInjective(buses)
    BY DEF Init, IsInjective
  <2>5. round \in 0 .. scenario.rounds /\ stats \in [AllChannels -> [tx : Nat, rx : Nat]]
    BY ScenarioRight DEF Init
  <2> QED
    BY <2>1, <2>2, <2>3, <2>4, <2>5 DEF Init, Types, Pcs, Before1st
<1>4. SessionKnown /\ Owned /\ OnTheirChannels
  BY DEF Init, SessionKnown, Owned, OnTheirChannels, Before1st, Opening, Sending
<1>5. Accounted /\ OnlyBusesOn
  BY DEF Init, Accounted, OnlyBusesOn
<1>6. SymbolsThere
  BY DEF Init, SymbolsThere, Opening, Sending
<1> QED
  BY <1>2, <1>3, <1>4, <1>5, <1>6 DEF LifeInv

\* The invariant of a program's life: who owns the session, what libusb has given
\* out, which channels are on and which functions are there.
THEOREM LifeInvariant == Spec => []LifeInv
<1>1. LifeInv /\ [Next]_vars => LifeInv'
  <2>1. ASSUME LifeInv, UNCHANGED vars PROVE LifeInv'
    <3> USE <2>1 DEF vars, progVars, usbVars, runVars, busVars, devVars, histVars
    <3>1. Types' /\ Owned'
      BY DEF LifeInv, Types, Owned
    <3>2. OptionsRight' /\ OnTheirChannels'
      BY DEF LifeInv, OptionsRight, OnTheirChannels, Channels, Program, NextChannel
    <3>3. SessionKnown'
      BY DEF LifeInv, SessionKnown, Chosen
    <3>4. Accounted'
      BY DEF LifeInv, Accounted, MyClaim
    <3>5. OnlyBusesOn' /\ SymbolsThere'
      BY DEF LifeInv, OnlyBusesOn, SymbolsThere
    <3> QED
      BY <3>1, <3>2, <3>3, <3>4, <3>5 DEF LifeInv
  <2> QED
    BY <2>1, LifeKept
<1> QED
  BY <1>1, LifeInitially, PTL DEF Spec

\* Every state's variables have their types, a session is on a device of the list, and
\* no channel has two bus objects.
THEOREM TypeCorrect == Spec => []TypeOK
<1>1. LifeInv => TypeOK
  <2> SUFFICES ASSUME LifeInv PROVE TypeOK
    OBVIOUS
  <2>1. ToSet(buses) \subseteq AllChannels
    BY DEF LifeInv, Types, ToSet
  <2>2. api.module \in BOOLEAN /\ api.symbols \subseteq ToSet(Symbols)
    <3>1. api \in [module : BOOLEAN, symbols : SUBSET ToSet(Symbols)]
      BY DEF LifeInv, Types
    <3>2. api.module \in BOOLEAN
      BY <3>1, Zenon
    <3>3. api.symbols \in SUBSET ToSet(Symbols)
      BY <3>1
    <3> QED
      BY <3>2, <3>3
  <2>3. session # NoSession => session.device \in DOMAIN scenario.list
    BY DEF LifeInv, SessionKnown
  <2> QED
    BY <2>1, <2>2, <2>3 DEF LifeInv, Types, TypeOK
<1> QED
  BY <1>1, LifeInvariant, PTL

\* However a program ends, its session is closed and its channels are off, and what it
\* had of libusb is given back unless a session's constructor threw; it crashes only on
\* a second start after a DLL without one of the functions.
THEOREM CleanEnd == Spec => []EndsCleanly
<1>1. LifeInv => EndsCleanly
  <2> SUFFICES ASSUME LifeInv PROVE EndsCleanly
    OBVIOUS
  <2>1. ASSUME pc \in {"done", "failed"} PROVE session = NoSession /\ buses = <<>>
    BY <2>1 DEF LifeInv, Owned, Before1st, Opening
  <2>2. ASSUME pc \in {"done", "failed"}, plugged = TRUE, NEW c \in AllChannels
        PROVE  adapter[c] = ChannelOff
    <3>1. c \notin ToSet(buses)
      BY <2>1, <2>2 DEF ToSet
    <3> QED
      BY <2>2, <3>1 DEF LifeInv, OnlyBusesOn
  <2>3. ASSUME pc \in {"done", "failed"}, lost = FALSE PROVE usb = Nothing
    BY <2>1, <2>3 DEF LifeInv, Accounted
  <2>4. pc = "crashed" => attempt = 2 /\ why = "symbol"
    BY DEF LifeInv, SymbolsThere
  <2>5. lost \in BOOLEAN /\ plugged \in BOOLEAN
    BY DEF LifeInv, Types
  <2>6. pc \in {"done", "failed"} =>
          (plugged => \A c \in AllChannels : adapter[c] = ChannelOff)
    BY <2>2, <2>5, Zenon
  <2>7. pc \in {"done", "failed"} => (~lost => usb = Nothing)
    BY <2>3, <2>5, Zenon
  <2> QED
    BY <2>1, <2>4, <2>6, <2>7, Zenon DEF EndsCleanly
<1> QED
  BY <1>1, LifeInvariant, PTL

-----------------------------------------------------------------------------
(***************************************************************************)
(* What is sent, until it is received: the inductive invariant of          *)
(* ArrivesAsSent.                                                          *)
(***************************************************************************)

IsList(s) == s \in Seq(ToSet(s))

\* All of the example's bus objects are there.
AllOpen == Len(buses) = Len(Channels) /\ pc # "unwind"

\* A program starts to send once: what it throws then it does not catch.
Started == \/ pc \in Sending \cup {"stop", "done", "failed", "crashed"}
           \/ pc = "unwind" /\ why \in {"send", "nothing received"}

NothingSent ==
    ~Started =>
        /\ at = 1 /\ wire = <<>> /\ pipe = <<>>
        /\ \A c \in AllChannels : queue[c] = <<>> /\ got[c] = <<>> /\ traffic[c] = <<>>

\* Whose turn it is.
Turns ==
    /\ pc \in Sending => at \in DOMAIN buses
    /\ pc = "send" /\ Program.kind # "summary" => at = 1

AreLists ==
    /\ IsList(wire) /\ IsList(pipe)
    /\ DOMAIN queue = AllChannels /\ DOMAIN got = AllChannels /\ DOMAIN traffic = AllChannels
    /\ \A c \in AllChannels : IsList(queue[c]) /\ IsList(got[c]) /\ IsList(traffic[c])

\* A frame fits the buffer it is sent from, and the one it is received in.
Sizes ==
    /\ \A i \in DOMAIN wire :
          /\ {"channel", "size"} \subseteq DOMAIN wire[i] /\ wire[i].channel \in AllChannels
          /\ 12 + wire[i].kept <= wire[i].size
    /\ \A i \in DOMAIN pipe : pipe[i].size \in {20, 24, 76, 80}

\* Each frame sent is on the wire, or two frames in the pipe, in a queue, received or
\* dropped.
Counted ==
    TotalRx + Total([c \in AllChannels |-> Len(queue[c])]) + Len(pipe) + 2 * Len(wire)
        <= 2 * TotalTx

\* The channels that are open are the example's, and can do what it asks for.
Ready ==
    /\ Len(buses) <= Len(Channels)
    /\ AllOpen => \A i \in DOMAIN buses : buses[i] = Channels[i]
    /\ \A c \in ToSet(buses) :
          /\ "channels" \in DOMAIN session /\ c \in DOMAIN session.channels
          /\ Program.fd = TRUE => Cap(c).fd = TRUE

\* What is on the wire are messages of the channels that send.
OnWire ==
    AllOpen => \A i \in DOMAIN wire : \E c \in Senders(Program), n \in Counters :
        wire[i] = HostFrame(Cap(c), c, Program.message[c][n])

\* The frames of a channel in the pipe are its messages after the first had ones.
InPlace(had, raws, c, messages) ==
    LET left == 1 .. Len(messages) - had
        mine == {i \in DOMAIN raws : raws[i].channel = c}
    IN
    \E place \in [left -> mine] :
        /\ \A m \in left : ParseFrame(raws[place[m]]) = messages[had + m]
        /\ \A m, n \in left : m < n => place[m] < place[n]
        /\ \A i \in mine : \E m \in left : place[m] = i

\* A channel's traffic is, in this order, what was received, what is queued and what
\* is in the pipe for the channel.
Follows(received, queued, raws, c, messages) ==
    /\ Len(received) + Len(queued) <= Len(messages)
    /\ \A i \in DOMAIN received : received[i] = messages[i]
    /\ \A i \in DOMAIN queued : queued[i] = messages[Len(received) + i]
    /\ InPlace(Len(received) + Len(queued), raws, c, messages)

Arrived ==
    AllOpen /\ plugged = TRUE =>
        /\ \A i \in DOMAIN pipe : pipe[i].channel \in ToSet(buses)
        /\ \A c \in ToSet(buses) : Follows(got[c], queue[c], pipe, c, traffic[c])

FlowInv == NothingSent /\ Turns /\ AreLists /\ Sizes /\ Counted /\ Ready /\ OnWire /\ Arrived

LEMMA Appended ==
  ASSUME NEW s, IsList(s), NEW e
  PROVE  /\ IsList(Append(s, e)) /\ Len(Append(s, e)) = Len(s) + 1 /\ Len(s) \in Nat
         /\ DOMAIN s = 1 .. Len(s) /\ DOMAIN Append(s, e) = 1 .. Len(s) + 1
         /\ \A i \in 1 .. Len(s) : Append(s, e)[i] = s[i]
         /\ Append(s, e)[Len(s) + 1] = e
<1> DEFINE S == ToSet(s) \cup {e}
           t == Append(s, e)
<1>1. s \in Seq(ToSet(s))
  BY DEF IsList
<1>2. s \in Seq(S) /\ e \in S
  BY <1>1
<1> HIDE DEF S
<1>3. /\ t \in Seq(S) /\ Len(t) = Len(s) + 1 /\ Len(s) \in Nat
      /\ DOMAIN s = 1 .. Len(s) /\ DOMAIN t = 1 .. Len(s) + 1
      /\ \A i \in 1 .. Len(s) : t[i] = s[i]
      /\ t[Len(s) + 1] = e
  BY <1>2
<1> HIDE DEF t
<1>4. t \in Seq(ToSet(t))
  BY <1>3 DEF ToSet
<1> QED
  BY <1>3, <1>4 DEF IsList, t

LEMMA Removed ==
  ASSUME NEW s, IsList(s), s # <<>>
  PROVE  /\ IsList(Tail(s)) /\ Len(s) \in Nat \ {0} /\ Len(Tail(s)) = Len(s) - 1
         /\ DOMAIN s = 1 .. Len(s) /\ DOMAIN Tail(s) = 1 .. Len(s) - 1
         /\ \A i \in 1 .. Len(s) - 1 : Tail(s)[i] = s[i + 1]
         /\ Head(s) = s[1]
<1> DEFINE S == ToSet(s)
           t == Tail(s)
<1>1. s \in Seq(S)
  BY DEF IsList
<1> HIDE DEF S
<1>2. /\ t \in Seq(S) /\ Len(s) \in Nat \ {0} /\ Len(t) = Len(s) - 1
      /\ DOMAIN s = 1 .. Len(s) /\ DOMAIN t = 1 .. Len(s) - 1
      /\ \A i \in 1 .. Len(s) - 1 : t[i] = s[i + 1]
      /\ Head(s) = s[1]
  BY <1>1
<1> HIDE DEF t
<1>3. t \in Seq(ToSet(t))
  BY <1>2 DEF ToSet
<1> QED
  BY <1>2, <1>3 DEF IsList, t

LEMMA EmptyList == IsList(<<>>) /\ Len(<<>>) = 0 /\ DOMAIN <<>> = 1 .. 0
BY DEF IsList

LEMMA Listed ==
  ASSUME NEW s, IsList(s)
  PROVE  Len(s) \in Nat /\ DOMAIN s = 1 .. Len(s) /\ (s = <<>> <=> Len(s) = 0)
BY DEF IsList

LEMMA AppendedTwice ==
  ASSUME NEW s, IsList(s), NEW x, NEW y
  PROVE  s \o <<x, y>> = Append(Append(s, x), y)
<1>1. s \in Seq(ToSet(s) \cup {x, y})
  BY DEF IsList
<1> QED
  BY <1>1

\* Nothing yet.
LEMMA FollowsNothing ==
  ASSUME NEW c
  PROVE  Follows(<<>>, <<>>, <<>>, c, <<>>)
<1>1. /\ Len(<<>>) = 0 /\ DOMAIN <<>> = {} /\ 1 .. 0 - 0 = {} /\ 0 + 0 = 0
      /\ {i \in {} : <<>>[i].channel = c} = {}
  OBVIOUS
<1>2. InPlace(0, <<>>, c, <<>>)
  <2> DEFINE place == [m \in {} |-> 0]
  <2>1. place \in [{} -> {}]
    OBVIOUS
  <2> QED
    BY <1>1, <2>1 DEF InPlace
<1> QED
  BY <1>1, <1>2 DEF Follows

\* recv takes the first that is queued.
LEMMA FollowsReceived ==
  ASSUME NEW received, NEW queued, NEW raws, NEW c, NEW messages,
         IsList(received), IsList(queued), IsList(messages), queued # <<>>,
         Follows(received, queued, raws, c, messages)
  PROVE  Follows(Append(received, Head(queued)), Tail(queued), raws, c, messages)
<1> DEFINE r == Append(received, Head(queued))
           q == Tail(queued)
<1>1. /\ Len(r) = Len(received) + 1 /\ Len(received) \in Nat
      /\ DOMAIN received = 1 .. Len(received) /\ DOMAIN r = 1 .. Len(received) + 1
      /\ \A i \in 1 .. Len(received) : r[i] = received[i]
      /\ r[Len(received) + 1] = Head(queued)
  BY Appended
<1>2. /\ Len(queued) \in Nat \ {0} /\ Len(q) = Len(queued) - 1
      /\ DOMAIN queued = 1 .. Len(queued) /\ DOMAIN q = 1 .. Len(queued) - 1
      /\ \A i \in 1 .. Len(queued) - 1 : q[i] = queued[i + 1]
      /\ Head(queued) = queued[1]
  BY Removed
<1> HIDE DEF r, q
<1>3. Len(r) + Len(q) = Len(received) + Len(queued)
  BY <1>1, <1>2
<1>4. ASSUME NEW i \in DOMAIN r PROVE r[i] = messages[i]
  <2>1. CASE i \in 1 .. Len(received)
    BY <1>1, <2>1 DEF Follows
  <2>2. CASE i = Len(received) + 1
    <3>1. r[i] = queued[1] /\ 1 \in DOMAIN queued
      BY <1>1, <1>2, <2>2
    <3> QED
      BY <2>2, <3>1 DEF Follows
  <2> QED
    BY <1>1, <2>1, <2>2
<1>5. ASSUME NEW i \in DOMAIN q PROVE q[i] = messages[Len(r) + i]
  <2>1. i + 1 \in DOMAIN queued /\ q[i] = queued[i + 1] /\ i \in Nat
    BY <1>2
  <2>2. q[i] = messages[Len(received) + (i + 1)]
    BY <2>1 DEF Follows
  <2>3. Len(received) + (i + 1) = Len(r) + i
    BY <1>1, <2>1
  <2> QED
    BY <2>2, <2>3
<1>6. Follows(r, q, raws, c, messages)
  BY <1>3, <1>4, <1>5 DEF Follows
<1> QED
  BY <1>6 DEF r, q

\* A poll takes the first frame of the pipe: for the channel, or for another.
LEMMA PlaceTaken ==
  ASSUME NEW had \in Nat, NEW raws, NEW c, NEW messages, IsList(raws), IsList(messages),
         raws # <<>>, Head(raws).channel = c, InPlace(had, raws, c, messages)
  PROVE  /\ had + 1 <= Len(messages) /\ ParseFrame(Head(raws)) = messages[had + 1]
         /\ InPlace(had + 1, Tail(raws), c, messages)
<1> DEFINE left == 1 .. Len(messages) - had
           mine == {i \in DOMAIN raws : raws[i].channel = c}
           rest == Tail(raws)
           left2 == 1 .. Len(messages) - (had + 1)
           mine2 == {i \in DOMAIN rest : rest[i].channel = c}
<1>1. PICK place \in [left -> mine] :
        /\ \A m \in left : ParseFrame(raws[place[m]]) = messages[had + m]
        /\ \A m, n \in left : m < n => place[m] < place[n]
        /\ \A i \in mine : \E m \in left : place[m] = i
  BY DEF InPlace
<1>2. /\ Len(raws) \in Nat \ {0} /\ DOMAIN raws = 1 .. Len(raws)
      /\ DOMAIN rest = 1 .. Len(raws) - 1 /\ Head(raws) = raws[1]
      /\ \A i \in 1 .. Len(raws) - 1 : rest[i] = raws[i + 1]
  BY Removed
<1>3. Len(messages) \in Nat
  BY Listed
<1> HIDE DEF rest
<1>4. \A m \in left : place[m] \in 1 .. Len(raws) /\ raws[place[m]].channel = c
  BY <1>1, <1>2
<1>5. 1 \in left /\ place[1] = 1
  <2>1. 1 \in mine
    BY <1>2
  <2>2. PICK m \in left : place[m] = 1
    BY <1>1, <2>1
  <2>3. m \in Nat \ {0} /\ 1 \in left
    BY <1>3, <2>2
  <2>4. ~(1 < m)
    <3> SUFFICES ASSUME 1 < m PROVE FALSE
      OBVIOUS
    <3>1. place[1] < place[m] /\ place[1] \in 1 .. Len(raws)
      BY <1>1, <1>4, <2>2, <2>3
    <3> QED
      BY <1>2, <2>2, <3>1
  <2>5. m = 1
    BY <2>3, <2>4
  <2> QED
    BY <2>2, <2>3, <2>5
<1>6. had + 1 <= Len(messages) /\ ParseFrame(Head(raws)) = messages[had + 1]
  <2>1. had + 1 <= Len(messages)
    BY <1>3, <1>5
  <2>2. ParseFrame(raws[place[1]]) = messages[had + 1]
    BY <1>1, <1>5
  <2> QED
    BY <1>2, <1>5, <2>1, <2>2
<1>7. ASSUME NEW m \in left2
      PROVE  /\ m + 1 \in left /\ m \in Nat /\ place[m + 1] - 1 \in mine2
             /\ place[m + 1] \in Nat /\ raws[place[m + 1]] = rest[place[m + 1] - 1]
  <2>1. m + 1 \in left /\ 1 < m + 1 /\ m \in Nat
    BY <1>3
  <2>2. place[m + 1] \in 1 .. Len(raws) /\ raws[place[m + 1]].channel = c /\ place[m + 1] > 1
    BY <1>1, <1>4, <1>5, <2>1
  <2>3. place[m + 1] - 1 \in 1 .. Len(raws) - 1 /\ (place[m + 1] - 1) + 1 = place[m + 1]
    BY <1>2, <2>2
  <2> QED
    BY <1>2, <2>1, <2>2, <2>3
<1> DEFINE next == [m \in left2 |-> place[m + 1] - 1]
<1>8. next \in [left2 -> mine2]
  BY <1>7
<1>9. ASSUME NEW m \in left2 PROVE ParseFrame(rest[next[m]]) = messages[(had + 1) + m]
  <2>1. ParseFrame(rest[next[m]]) = messages[had + (m + 1)]
    BY <1>1, <1>7
  <2>2. had + (m + 1) = (had + 1) + m
    BY <1>7
  <2> QED
    BY <2>1, <2>2
<1>10. ASSUME NEW m \in left2, NEW n \in left2, m < n PROVE next[m] < next[n]
  <2>1. m + 1 < n + 1 /\ m + 1 \in left /\ n + 1 \in left
    BY <1>7, <1>10
  <2>2. place[m + 1] < place[n + 1]
    BY <1>1, <2>1
  <2> QED
    BY <1>7, <2>2
<1>11. ASSUME NEW i \in mine2 PROVE \E m \in left2 : next[m] = i
  <2>1. i \in Nat \ {0} /\ i + 1 \in mine
    BY <1>2
  <2>2. PICK k \in left : place[k] = i + 1
    BY <1>1, <2>1
  <2>3. k # 1
    BY <1>5, <2>1, <2>2
  <2>4. k - 1 \in left2 /\ (k - 1) + 1 = k
    BY <1>3, <2>3
  <2>5. next[k - 1] = i
    BY <2>1, <2>2, <2>4
  <2> QED
    BY <2>4, <2>5
<1> HIDE DEF next
<1>12. InPlace(had + 1, rest, c, messages)
  BY <1>8, <1>9, <1>10, <1>11 DEF InPlace
<1> QED
  BY <1>6, <1>12 DEF rest

LEMMA PlaceSkipped ==
  ASSUME NEW had \in Nat, NEW raws, NEW c, NEW messages, IsList(raws), IsList(messages),
         raws # <<>>, Head(raws).channel # c, InPlace(had, raws, c, messages)
  PROVE  InPlace(had, Tail(raws), c, messages)
<1> DEFINE left == 1 .. Len(messages) - had
           mine == {i \in DOMAIN raws : raws[i].channel = c}
           rest == Tail(raws)
           mine2 == {i \in DOMAIN rest : rest[i].channel = c}
<1>1. PICK place \in [left -> mine] :
        /\ \A m \in left : ParseFrame(raws[place[m]]) = messages[had + m]
        /\ \A m, n \in left : m < n => place[m] < place[n]
        /\ \A i \in mine : \E m \in left : place[m] = i
  BY DEF InPlace
<1>2. /\ Len(raws) \in Nat \ {0} /\ DOMAIN raws = 1 .. Len(raws)
      /\ DOMAIN rest = 1 .. Len(raws) - 1 /\ Head(raws) = raws[1]
      /\ \A i \in 1 .. Len(raws) - 1 : rest[i] = raws[i + 1]
  BY Removed
<1> HIDE DEF rest
<1>3. ASSUME NEW m \in left
      PROVE  /\ place[m] - 1 \in mine2 /\ place[m] \in Nat
             /\ raws[place[m]] = rest[place[m] - 1]
  <2>1. place[m] \in 1 .. Len(raws) /\ raws[place[m]].channel = c
    BY <1>1, <1>2
  <2>2. place[m] # 1
    BY <1>2, <2>1
  <2>3. place[m] - 1 \in 1 .. Len(raws) - 1 /\ (place[m] - 1) + 1 = place[m]
    BY <1>2, <2>1, <2>2
  <2> QED
    BY <1>2, <2>1, <2>3
<1> DEFINE next == [m \in left |-> place[m] - 1]
<1>4. next \in [left -> mine2]
  BY <1>3
<1>5. ASSUME NEW m \in left PROVE ParseFrame(rest[next[m]]) = messages[had + m]
  BY <1>1, <1>3
<1>6. ASSUME NEW m \in left, NEW n \in left, m < n PROVE next[m] < next[n]
  <2>1. place[m] < place[n]
    BY <1>1, <1>6
  <2> QED
    BY <1>3, <2>1
<1>7. ASSUME NEW i \in mine2 PROVE \E m \in left : next[m] = i
  <2>1. i \in Nat \ {0} /\ i + 1 \in mine
    BY <1>2
  <2>2. PICK k \in left : place[k] = i + 1
    BY <1>1, <2>1
  <2>3. next[k] = i
    BY <2>1, <2>2
  <2> QED
    BY <2>3
<1> HIDE DEF next
<1>8. InPlace(had, rest, c, messages)
  BY <1>4, <1>5, <1>6, <1>7 DEF InPlace
<1> QED
  BY <1>8 DEF rest

\* A frame comes into the pipe: for the channel, or for another.
LEMMA PlaceAdded ==
  ASSUME NEW had \in Nat, NEW raws, NEW c, NEW messages, NEW raw, NEW message,
         IsList(raws), IsList(messages), had <= Len(messages),
         raw.channel = c, ParseFrame(raw) = message, InPlace(had, raws, c, messages)
  PROVE  InPlace(had, Append(raws, raw), c, Append(messages, message))
<1> DEFINE left == 1 .. Len(messages) - had
           mine == {i \in DOMAIN raws : raws[i].channel = c}
           more == Append(raws, raw)
           told == Append(messages, message)
           left2 == 1 .. Len(told) - had
           mine2 == {i \in DOMAIN more : more[i].channel = c}
           last == Len(messages) + 1 - had
<1>1. PICK place \in [left -> mine] :
        /\ \A m \in left : ParseFrame(raws[place[m]]) = messages[had + m]
        /\ \A m, n \in left : m < n => place[m] < place[n]
        /\ \A i \in mine : \E m \in left : place[m] = i
  BY DEF InPlace
<1>2. /\ Len(raws) \in Nat /\ DOMAIN raws = 1 .. Len(raws) /\ DOMAIN more = 1 .. Len(raws) + 1
      /\ \A i \in 1 .. Len(raws) : more[i] = raws[i]
      /\ more[Len(raws) + 1] = raw
  BY Appended
<1>3. /\ Len(messages) \in Nat /\ Len(told) = Len(messages) + 1
      /\ \A i \in 1 .. Len(messages) : told[i] = messages[i]
      /\ told[Len(messages) + 1] = message
  BY Appended
<1> HIDE DEF more, told
<1>4. /\ last \in Nat \ {0} /\ last \notin left /\ left2 = left \cup {last}
      /\ had + last = Len(messages) + 1 /\ \A m \in left : m < last
  BY <1>3
<1>5. ASSUME NEW m \in left
      PROVE  /\ place[m] \in 1 .. Len(raws) /\ place[m] \in mine2 /\ more[place[m]] = raws[place[m]]
             /\ told[had + m] = messages[had + m]
  <2>1. place[m] \in 1 .. Len(raws) /\ raws[place[m]].channel = c
    BY <1>1, <1>2
  <2>2. had + m \in 1 .. Len(messages)
    BY <1>3
  <2> QED
    BY <1>2, <1>3, <2>1, <2>2
<1>6. Len(raws) + 1 \in mine2
  BY <1>2
<1> DEFINE next == [m \in left2 |-> IF m \in left THEN place[m] ELSE Len(raws) + 1]
<1>7. /\ \A m \in left : next[m] = place[m]
      /\ next[last] = Len(raws) + 1
  BY <1>4
<1>8. next \in [left2 -> mine2]
  BY <1>5, <1>6
<1>9. ASSUME NEW m \in left2 PROVE ParseFrame(more[next[m]]) = told[had + m]
  <2>1. CASE m \in left
    BY <1>1, <1>5, <1>7, <2>1
  <2>2. CASE m = last
    BY <1>2, <1>3, <1>4, <1>7, <2>2
  <2> HIDE DEF last, left2, left
  <2> QED
    BY <1>4, <2>1, <2>2
<1>10. ASSUME NEW m \in left2, NEW n \in left2, m < n PROVE next[m] < next[n]
  <2>1. CASE n \in left
    <3>1. m \in left
      BY <1>10, <2>1
    <3> QED
      BY <1>1, <1>7, <1>10, <2>1, <3>1
  <2>2. CASE n = last
    <3>1. m \in left
      BY <1>4, <1>10, <2>2
    <3>2. next[m] = place[m] /\ next[n] = Len(raws) + 1 /\ place[m] \in 1 .. Len(raws)
      BY <1>5, <1>7, <2>2, <3>1
    <3> QED
      BY <1>2, <3>2
  <2> HIDE DEF last, left2, left
  <2> QED
    BY <1>4, <2>1, <2>2
<1>11. ASSUME NEW i \in mine2 PROVE \E m \in left2 : next[m] = i
  <2>1. CASE i = Len(raws) + 1
    BY <1>4, <1>7, <2>1
  <2>2. CASE i \in 1 .. Len(raws)
    <3>1. i \in mine
      BY <1>2, <2>2
    <3>2. PICK m \in left : place[m] = i
      BY <1>1, <3>1
    <3>3. m \in left2 /\ next[m] = i
      BY <1>4, <1>7, <3>2
    <3> QED
      BY <3>3
  <2> QED
    BY <1>2, <2>1, <2>2
<1> HIDE DEF next
<1>12. InPlace(had, more, c, told)
  BY <1>8, <1>9, <1>10, <1>11 DEF InPlace
<1> QED
  BY <1>12 DEF more, told

LEMMA PlaceForeign ==
  ASSUME NEW had \in Nat, NEW raws, NEW c, NEW messages, NEW raw,
         IsList(raws), raw.channel # c, InPlace(had, raws, c, messages)
  PROVE  InPlace(had, Append(raws, raw), c, messages)
<1> DEFINE left == 1 .. Len(messages) - had
           mine == {i \in DOMAIN raws : raws[i].channel = c}
           more == Append(raws, raw)
           mine2 == {i \in DOMAIN more : more[i].channel = c}
<1>1. PICK place \in [left -> mine] :
        /\ \A m \in left : ParseFrame(raws[place[m]]) = messages[had + m]
        /\ \A m, n \in left : m < n => place[m] < place[n]
        /\ \A i \in mine : \E m \in left : place[m] = i
  BY DEF InPlace
<1>2. /\ Len(raws) \in Nat /\ DOMAIN raws = 1 .. Len(raws) /\ DOMAIN more = 1 .. Len(raws) + 1
      /\ \A i \in 1 .. Len(raws) : more[i] = raws[i]
      /\ more[Len(raws) + 1] = raw
  BY Appended
<1> HIDE DEF more
<1>3. mine2 = mine
  BY <1>2
<1>4. ASSUME NEW m \in left PROVE ParseFrame(more[place[m]]) = messages[had + m]
  <2>1. place[m] \in 1 .. Len(raws)
    BY <1>1, <1>2
  <2> QED
    BY <1>1, <1>2, <2>1
<1>5. InPlace(had, more, c, messages)
  <2> HIDE DEF mine, mine2
  <2>1. place \in [left -> mine2] /\ \A i \in mine2 : \E m \in left : place[m] = i
    BY <1>1, <1>3
  <2> USE DEF mine2
  <2> QED
    BY <1>1, <1>4, <2>1 DEF InPlace
<1> QED
  BY <1>5 DEF more

\* The same for what a channel's bus object has had, too.
LEMMA FollowsPolled ==
  ASSUME NEW received, NEW queued, NEW raws, NEW c, NEW messages,
         IsList(received), IsList(queued), IsList(raws), IsList(messages),
         raws # <<>>, Follows(received, queued, raws, c, messages)
  PROVE  /\ Head(raws).channel = c =>
               Follows(received, Append(queued, ParseFrame(Head(raws))), Tail(raws), c, messages)
         /\ Head(raws).channel # c => Follows(received, queued, Tail(raws), c, messages)
<1> DEFINE had == Len(received) + Len(queued)
<1>1. Len(received) \in Nat /\ Len(queued) \in Nat /\ had \in Nat
  BY Listed
<1>2. had <= Len(messages) /\ InPlace(had, raws, c, messages)
  BY DEF Follows
<1>3. ASSUME Head(raws).channel = c
      PROVE  Follows(received, Append(queued, ParseFrame(Head(raws))), Tail(raws), c, messages)
  <2> DEFINE q == Append(queued, ParseFrame(Head(raws)))
  <2>1. /\ had + 1 <= Len(messages) /\ ParseFrame(Head(raws)) = messages[had + 1]
        /\ InPlace(had + 1, Tail(raws), c, messages)
    <3> HIDE DEF had
    <3> QED
      BY <1>1, <1>2, <1>3, PlaceTaken
  <2>2. /\ Len(q) = Len(queued) + 1 /\ DOMAIN queued = 1 .. Len(queued)
        /\ DOMAIN q = 1 .. Len(queued) + 1
        /\ \A i \in 1 .. Len(queued) : q[i] = queued[i]
        /\ q[Len(queued) + 1] = ParseFrame(Head(raws))
    BY Appended
  <2> HIDE DEF q
  <2>3. Len(received) + Len(q) = had + 1
    BY <1>1, <2>2
  <2>4. ASSUME NEW i \in DOMAIN q PROVE q[i] = messages[Len(received) + i]
    <3>1. CASE i \in 1 .. Len(queued)
      BY <2>2, <3>1 DEF Follows
    <3>2. CASE i = Len(queued) + 1
      <4>1. Len(received) + i = had + 1
        BY <1>1, <3>2
      <4> HIDE DEF had
      <4> QED
        BY <2>1, <2>2, <3>2, <4>1
    <3> QED
      BY <1>1, <2>2, <3>1, <3>2
  <2> HIDE DEF had
  <2>5. Follows(received, q, Tail(raws), c, messages)
    BY <2>1, <2>3, <2>4 DEF Follows
  <2> QED
    BY <2>5 DEF q
<1>4. ASSUME Head(raws).channel # c
      PROVE  Follows(received, queued, Tail(raws), c, messages)
  <2>1. InPlace(had, Tail(raws), c, messages)
    <3> HIDE DEF had
    <3> QED
      BY <1>1, <1>2, <1>4, PlaceSkipped
  <2> QED
    BY <2>1 DEF Follows
<1> QED
  BY <1>3, <1>4

LEMMA FollowsAdded ==
  ASSUME NEW received, NEW queued, NEW raws, NEW c, NEW messages, NEW raw, NEW message,
         IsList(received), IsList(queued), IsList(raws), IsList(messages),
         Follows(received, queued, raws, c, messages)
  PROVE  /\ raw.channel = c /\ ParseFrame(raw) = message =>
               Follows(received, queued, Append(raws, raw), c, Append(messages, message))
         /\ raw.channel # c => Follows(received, queued, Append(raws, raw), c, messages)
<1> DEFINE had == Len(received) + Len(queued)
<1>1. Len(received) \in Nat /\ Len(queued) \in Nat /\ had \in Nat /\ Len(messages) \in Nat
  BY Listed
<1>2. had <= Len(messages) /\ InPlace(had, raws, c, messages)
  BY DEF Follows
<1>3. ASSUME raw.channel = c, ParseFrame(raw) = message
      PROVE  Follows(received, queued, Append(raws, raw), c, Append(messages, message))
  <2> DEFINE told == Append(messages, message)
  <2>1. InPlace(had, Append(raws, raw), c, told)
    <3> HIDE DEF had
    <3> QED
      BY <1>1, <1>2, <1>3, PlaceAdded
  <2>2. Len(told) = Len(messages) + 1 /\ \A i \in 1 .. Len(messages) : told[i] = messages[i]
    BY Appended
  <2>3. DOMAIN received = 1 .. Len(received) /\ DOMAIN queued = 1 .. Len(queued)
    BY Listed
  <2> HIDE DEF told
  <2>4. \A i \in DOMAIN received : received[i] = told[i]
    BY <1>1, <1>2, <2>2, <2>3 DEF Follows
  <2>5. \A i \in DOMAIN queued : queued[i] = told[Len(received) + i]
    BY <1>1, <1>2, <2>2, <2>3 DEF Follows
  <2>6. had <= Len(told)
    BY <1>1, <1>2, <2>2
  <2>7. Follows(received, queued, Append(raws, raw), c, told)
    BY <2>1, <2>4, <2>5, <2>6 DEF Follows
  <2> QED
    BY <2>7 DEF told
<1>4. ASSUME raw.channel # c
      PROVE  Follows(received, queued, Append(raws, raw), c, messages)
  <2>1. InPlace(had, Append(raws, raw), c, messages)
    <3> HIDE DEF had
    <3> QED
      BY <1>1, <1>2, <1>4, PlaceForeign
  <2> QED
    BY <2>1 DEF Follows
<1> QED
  BY <1>3, <1>4

\* Sums over the channels.
LEMMA TotalAt ==
  ASSUME NEW f, NEW g, NEW c \in AllChannels, NEW d \in Int,
         \A e \in AllChannels : f[e] \in Int /\ (e # c => g[e] = f[e]), g[c] = f[c] + d
  PROVE  Total(g) = Total(f) + d /\ Total(f) \in Int
<1>1. AllChannels = {0, 1, 2, 3, 4, 5, 6, 7}
  BY DEF AllChannels
<1>2. /\ f[0] \in Int /\ f[1] \in Int /\ f[2] \in Int /\ f[3] \in Int
      /\ f[4] \in Int /\ f[5] \in Int /\ f[6] \in Int /\ f[7] \in Int
  BY <1>1
<1>3. CASE c = 0
  BY <1>1, <1>2, <1>3 DEF Total
<1>4. CASE c = 1
  BY <1>1, <1>2, <1>4 DEF Total
<1>5. CASE c = 2
  BY <1>1, <1>2, <1>5 DEF Total
<1>6. CASE c = 3
  BY <1>1, <1>2, <1>6 DEF Total
<1>7. CASE c = 4
  BY <1>1, <1>2, <1>7 DEF Total
<1>8. CASE c = 5
  BY <1>1, <1>2, <1>8 DEF Total
<1>9. CASE c = 6
  BY <1>1, <1>2, <1>9 DEF Total
<1>10. CASE c = 7
  BY <1>1, <1>2, <1>10 DEF Total
<1> QED
  BY <1>1, <1>3, <1>4, <1>5, <1>6, <1>7, <1>8, <1>9, <1>10

LEMMA TotalTyped ==
  ASSUME NEW f, \A e \in AllChannels : f[e] \in Nat
  PROVE  Total(f) \in Nat
<1>1. /\ f[0] \in Nat /\ f[1] \in Nat /\ f[2] \in Nat /\ f[3] \in Nat
      /\ f[4] \in Nat /\ f[5] \in Nat /\ f[6] \in Nat /\ f[7] \in Nat
  BY DEF AllChannels
<1> QED
  BY <1>1 DEF Total

-----------------------------------------------------------------------------
\* The largest of numbers is what Max chooses.
LEMMA MaxIs ==
  ASSUME NEW S \in SUBSET Int, NEW n \in S, \A m \in S : n >= m
  PROVE  Max(S) = n
<1>1. \E x \in S : \A y \in S : x >= y
  OBVIOUS
<1>2. PICK x : x = Max(S)
  OBVIOUS
<1>3. x \in S /\ \A y \in S : x >= y
  BY <1>1, <1>2, Zenon DEF Max
<1>4. x \in Int /\ n \in Int /\ x >= n /\ n >= x
  BY <1>3
<1> QED
  BY <1>2, <1>4

LEMMA ReceiveSize ==
  ASSUME \A c \in DOMAIN session.channels :
            Cap(c).fd \in BOOLEAN /\ Cap(c).timestamp \in BOOLEAN
  PROVE  RxFrameSize = 80
<1> DEFINE sizes == {CalcRxSize(Cap(c)) : c \in DOMAIN session.channels}
<1>1. ASSUME NEW c \in DOMAIN session.channels PROVE CalcRxSize(Cap(c)) \in {20, 24, 76, 80}
  <2> DEFINE cap == Cap(c)
  <2>1. cap.fd \in BOOLEAN /\ cap.timestamp \in BOOLEAN
    OBVIOUS
  <2> HIDE DEF cap
  <2>2. CASE cap.fd = TRUE /\ cap.timestamp = TRUE
    BY <2>2 DEF CalcRxSize
  <2>3. CASE cap.fd = TRUE /\ cap.timestamp = FALSE
    BY <2>3 DEF CalcRxSize
  <2>4. CASE cap.fd = FALSE /\ cap.timestamp = TRUE
    BY <2>4 DEF CalcRxSize
  <2>5. CASE cap.fd = FALSE /\ cap.timestamp = FALSE
    BY <2>5 DEF CalcRxSize
  <2>6. (cap.fd = TRUE \/ cap.fd = FALSE) /\ (cap.timestamp = TRUE \/ cap.timestamp = FALSE)
    BY <2>1
  <2> QED
    BY <2>2, <2>3, <2>4, <2>5, <2>6
<1>2. sizes \subseteq {20, 24, 76, 80}
  BY <1>1
<1> HIDE DEF sizes
<1>3. {80} \cup sizes \in SUBSET Int /\ 80 \in {80} \cup sizes /\ \A m \in {80} \cup sizes : 80 >= m
  BY <1>2
<1>4. Max({80} \cup sizes) = 80
  BY <1>3, MaxIs
<1> QED
  BY <1>4 DEF RxFrameSize, sizes

\* send_frame copies no more than the buffer holds.
LEMMA FitsBuffer ==
  ASSUME NEW cap, NEW c, NEW msg, msg.data.len \in Nat, msg.fd \in BOOLEAN, msg.rtr = FALSE,
         msg.fd = TRUE => cap.fd = TRUE
  PROVE  LET raw == HostFrame(cap, c, msg)
         IN  /\ 12 + raw.kept <= raw.size /\ raw.channel = c /\ raw.stamp = msg.data.stamp
             /\ {"channel", "size"} \subseteq DOMAIN raw
<1> DEFINE raw == HostFrame(cap, c, msg)
           len == msg.data.len
<1>1. /\ raw.channel = c /\ raw.stamp = msg.data.stamp
      /\ raw.kept = IF msg.rtr THEN 0
                    ELSE Lower(IF msg.fd THEN DlcToLen(LenToDlc(len)) ELSE Lower(len, 8), len)
      /\ raw.size = CalcTxSize(cap)
      /\ {"channel", "size"} \subseteq DOMAIN raw
  BY DEF HostFrame
<1> HIDE DEF raw
<1>2. CASE msg.fd = TRUE
  <2>1. raw.size = 76
    BY <1>1, <1>2 DEF CalcTxSize
  <2>2. DlcToLen(LenToDlc(len)) \in 0 .. 64
    BY NextLength
  <2>3. raw.kept = Lower(DlcToLen(LenToDlc(len)), len)
    BY <1>1, <1>2
  <2> QED
    BY <1>1, <2>1, <2>2, <2>3 DEF raw, Lower
<1>3. CASE msg.fd = FALSE
  <2>1. raw.size \in {20, 76}
    BY <1>1 DEF CalcTxSize
  <2>2. Lower(len, 8) \in 0 .. 8
    BY ClassicLength
  <2>3. raw.kept = Lower(Lower(len, 8), len)
    BY <1>1, <1>3
  <2> QED
    BY <1>1, <2>1, <2>2, <2>3 DEF raw, Lower
<1> QED
  BY <1>2, <1>3

LEMMA SizeBack ==
  ASSUME NEW own, NEW channel, NEW raw, {"channel", "size"} \subseteq DOMAIN raw
  PROVE  LET back == FromBus(own, channel, raw)
         IN  back.channel = channel /\ back.size \in {20, 24, 76, 80}
<1> DEFINE size == (IF raw.fd THEN 76 ELSE 20) + (IF own.timestamp THEN 4 ELSE 0)
<1>1. size \in {20, 24, 76, 80}
  OBVIOUS
<1> HIDE DEF size
<1>2. FromBus(own, channel, raw) = [raw EXCEPT !.channel = channel, !.size = size]
  BY DEF FromBus, size
<1> QED
  BY <1>1, <1>2

LEMMA Paired ==
  ASSUME NEW c \in AllChannels
  PROVE  Peer(c) \in AllChannels /\ Peer(c) # c
<1>1. c % 2 = 0 \/ c % 2 = 1
  BY DEF AllChannels
<1>2. CASE c % 2 = 0
  <2>1. c \in {0, 2, 4, 6}
    BY <1>2 DEF AllChannels
  <2> QED
    BY <1>2, <2>1 DEF Peer, AllChannels
<1>3. CASE c % 2 = 1
  <2>1. c \in {1, 3, 5, 7}
    BY <1>3 DEF AllChannels
  <2> QED
    BY <1>3, <2>1 DEF Peer, AllChannels
<1> QED
  BY <1>1, <1>2, <1>3

\* A frame that was on the bus is there for two channels.
LEMMA FollowsTransmitted ==
  ASSUME NEW received, NEW queued, NEW raws, NEW d, NEW messages, NEW a, NEW b, NEW ma, NEW mb,
         IsList(received), IsList(queued), IsList(raws), IsList(messages),
         Follows(received, queued, raws, d, messages),
         a.channel # b.channel, ParseFrame(a) = ma, ParseFrame(b) = mb
  PROVE  Follows(received, queued, raws \o <<a, b>>, d,
                 IF d = a.channel THEN Append(messages, ma)
                 ELSE IF d = b.channel THEN Append(messages, mb) ELSE messages)
<1> DEFINE one == Append(raws, a)
           two == Append(one, b)
<1>1. raws \o <<a, b>> = two
  BY AppendedTwice
<1>2. IsList(one) /\ IsList(Append(messages, ma))
  BY Appended
<1>3. CASE d = a.channel
  <2> DEFINE told == Append(messages, ma)
  <2>1. Follows(received, queued, one, d, told)
    BY <1>3, FollowsAdded
  <2> HIDE DEF told, one
  <2>2. Follows(received, queued, two, d, told)
    BY <1>2, <1>3, <2>1, FollowsAdded DEF told
  <2> QED
    BY <1>1, <1>3, <2>2 DEF told
<1>4. CASE d # a.channel /\ d = b.channel
  <2>1. Follows(received, queued, one, d, messages)
    BY <1>4, FollowsAdded
  <2> HIDE DEF one
  <2>2. Follows(received, queued, two, d, Append(messages, mb))
    BY <1>2, <1>4, <2>1, FollowsAdded
  <2> QED
    BY <1>1, <1>4, <2>2
<1>5. CASE d # a.channel /\ d # b.channel
  <2>1. Follows(received, queued, one, d, messages)
    BY <1>5, FollowsAdded
  <2> HIDE DEF one
  <2>2. Follows(received, queued, two, d, messages)
    BY <1>2, <1>5, <2>1, FollowsAdded
  <2> QED
    BY <1>1, <1>5, <2>2
<1> QED
  BY <1>3, <1>4, <1>5

LEMMA ProgramRuns ==
  ASSUME Types, OptionsRight
  PROVE  Runs(Program) /\ Len(Channels) \in {2, 4, 8} /\ DOMAIN Channels = 1 .. Len(Channels)
<1>1. scenario.example \in ExampleNames
  BY ScenarioRight DEF Types
<1> QED
  BY <1>1, ExampleRuns, ChannelsThere DEF OptionsRight, Program, Channels

-----------------------------------------------------------------------------
\* Before a program sends, there is nothing on its way.
LEMMA NothingOnItsWay ==
  ASSUME FlowInv, ~Started, UNCHANGED <<at, wire, pipe, queue, got, traffic, stats>>,
         buses' \in Seq(AllChannels)
  PROVE  NothingSent' /\ AreLists' /\ Sizes' /\ Counted' /\ OnWire' /\ Arrived'
<1>1. /\ at' = 1 /\ wire' = <<>> /\ pipe' = <<>>
      /\ \A c \in AllChannels : queue'[c] = <<>> /\ got'[c] = <<>> /\ traffic'[c] = <<>>
  BY DEF FlowInv, NothingSent
<1>2. NothingSent' /\ OnWire'
  BY <1>1 DEF NothingSent, OnWire
<1>3. AreLists' /\ Sizes'
  BY DEF FlowInv, AreLists, Sizes
<1>4. Counted'
  BY DEF FlowInv, Counted, TotalRx, TotalTx
<1>5. Arrived'
  <2>1. ASSUME NEW c \in ToSet(buses')
        PROVE  Follows(got'[c], queue'[c], pipe', c, traffic'[c])
    <3>1. c \in AllChannels
      BY DEF ToSet
    <3> QED
      BY <1>1, <3>1, FollowsNothing
  <2> QED
    BY <1>1, <2>1 DEF Arrived
<1> QED
  BY <1>2, <1>3, <1>4, <1>5

\* What is on its way stays there while the program does something else.
LEMMA StillOnTheWire ==
  ASSUME OnWire, UNCHANGED wire,
         AllOpen' => /\ AllOpen /\ UNCHANGED <<scenario, options>>
                     /\ session'.channels = session.channels
  PROVE  OnWire'
BY DEF OnWire, Program, Cap

LEMMA StillArrived ==
  ASSUME Arrived, UNCHANGED <<pipe, queue, got, traffic>>,
         AllOpen' => AllOpen /\ UNCHANGED buses, plugged' = TRUE => plugged = TRUE
  PROVE  Arrived'
BY DEF Arrived

LEMMA StillOnItsWay ==
  ASSUME FlowInv, Started', UNCHANGED <<wire, pipe, queue, got, traffic, stats>>,
         AllOpen' => /\ AllOpen /\ UNCHANGED <<buses, scenario, options>>
                     /\ session'.channels = session.channels,
         plugged' = TRUE => plugged = TRUE
  PROVE  NothingSent' /\ AreLists' /\ Sizes' /\ Counted' /\ OnWire' /\ Arrived'
<1>1. NothingSent'
  BY DEF NothingSent
<1>2. AreLists' /\ Sizes'
  BY DEF FlowInv, AreLists, Sizes
<1>3. Counted'
  BY DEF FlowInv, Counted, TotalRx, TotalTx
<1>4. OnWire' /\ Arrived'
  BY StillOnTheWire, StillArrived DEF FlowInv
<1> QED
  BY <1>1, <1>2, <1>3, <1>4

\* What can do what is asked for can do it afterwards.
LEMMA StillReady ==
  ASSUME Ready, UNCHANGED <<buses, session, scenario, options>>, AllOpen' => AllOpen
  PROVE  Ready'
BY DEF Ready, Channels, Program, Cap

LEMMA NobodyReady ==
  ASSUME Types', buses' = <<>>
  PROVE  Ready' /\ ~AllOpen'
<1>1. scenario' \in Scenarios
  BY DEF Types
<1>2. scenario'.example \in ExampleNames
  BY <1>1, ScenarioRight
<1>3. Len(Channels') \in {2, 4, 8}
  BY <1>2, ChannelsThere DEF Channels, Program
<1>4. Len(buses') = 0 /\ ToSet(buses') = {}
  BY DEF ToSet
<1>5. ~AllOpen'
  <2>1. Len(buses') # Len(Channels')
    BY <1>3, <1>4
  <2>2. AllOpen' => Len(buses') = Len(Channels')
    BY DEF AllOpen
  <2> QED
    BY <2>1, <2>2
<1>6. Len(buses') <= Len(Channels')
  BY <1>3, <1>4
<1> QED
  BY <1>4, <1>5, <1>6 DEF Ready

\* The sums of a program that has sent nothing.
LEMMA FlowInitially == Init => FlowInv
<1> SUFFICES ASSUME Init PROVE FlowInv
  OBVIOUS
<1>1. /\ pc = "start" /\ buses = <<>> /\ at = 1 /\ wire = <<>> /\ pipe = <<>>
      /\ \A c \in AllChannels : queue[c] = <<>> /\ got[c] = <<>> /\ traffic[c] = <<>>
      /\ DOMAIN queue = AllChannels /\ DOMAIN got = AllChannels /\ DOMAIN traffic = AllChannels
      /\ \A c \in AllChannels : stats[c] = [tx |-> 0, rx |-> 0]
  BY DEF Init
<1>2. Types
  BY LifeInitially DEF LifeInv
<1>3. Turns /\ NothingSent /\ OnWire /\ Sizes
  BY <1>1 DEF Turns, NothingSent, OnWire, Sizes, Sending
<1>4. AreLists
  BY <1>1, EmptyList DEF AreLists
<1>5. Counted
  <2>1. Total([c \in AllChannels |-> Len(queue[c])]) = 0
    BY <1>1 DEF Total, AllChannels
  <2>2. TotalRx = 0 /\ TotalTx = 0
    BY <1>1 DEF Total, TotalRx, TotalTx, AllChannels
  <2>3. Len(wire) = 0 /\ Len(pipe) = 0
    BY <1>1
  <2> QED
    BY <2>1, <2>2, <2>3 DEF Counted
<1>6. Ready /\ ~AllOpen
  <2>1. Len(Channels) \in {2, 4, 8}
    BY <1>2, ScenarioRight, ChannelsThere DEF Types, Channels, Program
  <2>2. Len(buses) = 0 /\ ToSet(buses) = {}
    BY <1>1 DEF ToSet
  <2> QED
    BY <2>1, <2>2 DEF Ready, AllOpen
<1>7. Arrived
  BY <1>6 DEF Arrived
<1> QED
  BY <1>3, <1>4, <1>5, <1>6, <1>7 DEF FlowInv

\* What a program that sends and receives does with the whole of what is on its way.
LEMMA SendFlows ==
  ASSUME LifeInv, FlowInv, Send
  PROVE  FlowInv'
<1> USE DEF progVars, usbVars, runVars, busVars, devVars, histVars
<1>0. /\ Types /\ OptionsRight /\ OnTheirChannels
      /\ Turns /\ AreLists /\ Sizes /\ Counted /\ Ready /\ OnWire /\ Arrived
  BY DEF LifeInv, FlowInv
<1>1. /\ Runs(Program) /\ Len(Channels) \in {2, 4, 8} /\ DOMAIN Channels = 1 .. Len(Channels)
  BY <1>0, ProgramRuns
<1>2. pc = "send" /\ round < scenario.rounds
  BY DEF Send, At
<1>3. AllOpen /\ DOMAIN buses = 1 .. Len(buses) /\ Len(buses) = Len(Channels)
  BY <1>0, <1>2 DEF AllOpen, OnTheirChannels, Sending, Types
<1>4. at \in 1 .. Len(Channels) /\ Turn = Channels[at] /\ Turn \in ToSet(buses)
  BY <1>0, <1>1, <1>2, <1>3 DEF Turns, Sending, Ready, Turn, ToSet
<1>5. Turn \in AllChannels /\ ToSet(buses) \subseteq AllChannels
  BY <1>0, <1>4 DEF Types, ToSet
<1>6. Turn \in Senders(Program)
  BY <1>0, <1>1, <1>2, <1>4 DEF Turns, Senders, Channels, ToSet
<1>7. round \in Counters
  <2>1. scenario.rounds \in Nat /\ 0 .. scenario.rounds - 1 \subseteq Counters
    BY <1>0, ScenarioRight DEF Types
  <2>2. round \in 0 .. scenario.rounds
    BY <1>0 DEF Types
  <2>3. round \in 0 .. scenario.rounds - 1
    BY <1>2, <2>1, <2>2
  <2> QED
    BY <2>1, <2>3
<1>8. UNCHANGED <<scenario, options, session, buses, pipe, queue, got, traffic, plugged>>
  BY DEF Send, Goto, Throw
<1>9. CASE wire' = wire /\ Throw("send") /\ UNCHANGED runVars
  <2>1. Started' /\ ~AllOpen' /\ pc' = "unwind"
    BY <1>9 DEF Throw, Started, AllOpen
  <2>2. NothingSent' /\ AreLists' /\ Sizes' /\ Counted' /\ OnWire' /\ Arrived'
    BY <1>8, <1>9, <2>1, StillOnItsWay
  <2>3. Ready'
    BY <1>0, <1>8, <2>1, StillReady
  <2>4. Turns'
    BY <2>1 DEF Turns, Sending
  <2> QED
    BY <2>2, <2>3, <2>4 DEF FlowInv
<1>10. CASE /\ wire' = Append(wire, HostFrame(Cap(Turn), Turn, Program.message[Turn][round]))
            /\ stats' = [stats EXCEPT ![Turn].tx = @ + 1]
            /\ IF SentAll
               THEN /\ Goto("recv") /\ round' = round + 1
                    /\ at' = IF Program.kind = "summary" THEN 1 ELSE 2
               ELSE at' = at + 1 /\ UNCHANGED <<progVars, round>>
  <2> DEFINE msg == Program.message[Turn][round]
             raw == HostFrame(Cap(Turn), Turn, msg)
  <2>1. Started' /\ AllOpen'
    BY <1>2, <1>3, <1>8, <1>10 DEF Goto, Started, Sending, AllOpen, Channels, Program
  <2>2. NothingSent'
    BY <2>1 DEF NothingSent
  <2>3. Turns'
    <3>1. Program' = Program
      BY <1>8 DEF Program
    <3>2. CASE SentAll
      BY <1>1, <1>3, <1>8, <1>10, <3>2 DEF Turns, Goto, Sending
    <3>3. CASE ~SentAll
      <4>1. Program.kind = "summary" /\ at # Len(buses) /\ at' = at + 1
        BY <1>10, <3>3 DEF SentAll
      <4>2. at + 1 \in 1 .. Len(buses)
        <5>1. Len(buses) \in {2, 4, 8} /\ at \in 1 .. Len(buses)
          BY <1>1, <1>3, <1>4
        <5> QED
          BY <4>1, <5>1
      <4> QED
        BY <1>3, <1>8, <3>1, <4>1, <4>2 DEF Turns
    <3> QED
      BY <3>2, <3>3
  <2>4. Sendable(Program, msg, Turn, round)
    BY <1>1, <1>6, <1>7 DEF Runs
  <2>5. /\ 12 + raw.kept <= raw.size /\ raw.channel = Turn
        /\ {"channel", "size"} \subseteq DOMAIN raw
    <3>1. /\ msg.data.len \in Nat /\ msg.fd \in BOOLEAN /\ msg.rtr = FALSE
          /\ msg.fd = TRUE => Cap(Turn).fd = TRUE
      BY <1>0, <1>1, <1>4, <2>4 DEF Sendable, Runs, Ready
    <3>2. PICK cap, c, m : cap = Cap(Turn) /\ c = Turn /\ m = msg
      OBVIOUS
    <3>3. raw = HostFrame(cap, c, m)
      BY <3>2
    <3>4. m.data.len \in Nat /\ m.fd \in BOOLEAN /\ m.rtr = FALSE /\ (m.fd = TRUE => cap.fd = TRUE)
      BY <3>1, <3>2
    <3>5. LET r == HostFrame(cap, c, m)
          IN  /\ 12 + r.kept <= r.size /\ r.channel = c /\ r.stamp = m.data.stamp
              /\ {"channel", "size"} \subseteq DOMAIN r
      BY <3>4, FitsBuffer, Zenon
    <3> HIDE DEF raw
    <3> QED
      BY <3>2, <3>3, <3>5
  <2>6. wire' = Append(wire, raw)
    BY <1>10
  <2> HIDE DEF raw
  <2>7. /\ IsList(wire') /\ Len(wire') = Len(wire) + 1 /\ Len(wire) \in Nat
        /\ DOMAIN wire = 1 .. Len(wire) /\ DOMAIN wire' = 1 .. Len(wire) + 1
        /\ \A i \in 1 .. Len(wire) : wire'[i] = wire[i]
        /\ wire'[Len(wire) + 1] = raw
    BY <1>0, <2>6, Appended DEF AreLists
  <2>8. AreLists'
    BY <1>0, <1>8, <2>7 DEF AreLists
  <2>9. Sizes'
    <3>1. ASSUME NEW i \in DOMAIN wire'
          PROVE  /\ {"channel", "size"} \subseteq DOMAIN wire'[i] /\ wire'[i].channel \in AllChannels
                 /\ 12 + wire'[i].kept <= wire'[i].size
      <4>1. CASE i \in 1 .. Len(wire)
        BY <1>0, <2>7, <4>1 DEF Sizes
      <4>2. CASE i = Len(wire) + 1
        BY <1>5, <2>5, <2>7, <4>2
      <4> QED
        BY <2>7, <4>1, <4>2
    <3> QED
      BY <1>0, <1>8, <3>1 DEF Sizes
  <2>10. Counted'
    <3> DEFINE f == [c \in AllChannels |-> stats[c].tx]
               g == [c \in AllChannels |-> stats'[c].tx]
    <3>1. stats \in [AllChannels -> [tx : Nat, rx : Nat]]
      BY <1>0 DEF Types
    <3>2. /\ \A e \in AllChannels : f[e] \in Int /\ (e # Turn => g[e] = f[e])
          /\ g[Turn] = f[Turn] + 1
      BY <1>5, <1>10, <3>1
    <3> HIDE DEF f, g
    <3>3. Total(g) = Total(f) + 1 /\ Total(f) \in Int
      BY <1>5, <3>2, TotalAt
    <3>4. TotalTx = Total(f) /\ TotalTx' = Total(g)
      BY DEF TotalTx, f, g
    <3>5. [c \in AllChannels |-> stats'[c].rx] = [c \in AllChannels |-> stats[c].rx]
      BY <1>5, <1>10, <3>1
    <3>6. TotalRx' = TotalRx
      BY <3>5 DEF TotalRx
    <3>7. TotalRx \in Nat /\ Total([c \in AllChannels |-> Len(queue[c])]) \in Nat
      <4>1. \A c \in AllChannels : stats[c].rx \in Nat /\ Len(queue[c]) \in Nat
        BY <1>0, <3>1, Listed DEF AreLists
      <4> QED
        BY <4>1, TotalTyped DEF TotalRx
    <3>8. Len(pipe) \in Nat
      BY <1>0, Listed DEF AreLists
    <3> QED
      BY <1>0, <1>8, <2>7, <3>3, <3>4, <3>6, <3>7, <3>8 DEF Counted
  <2>11. Ready'
    BY <1>0, <1>3, <1>8, StillReady
  <2>12. OnWire'
    <3>1. ASSUME NEW i \in DOMAIN wire'
          PROVE  \E c \in Senders(Program), n \in Counters :
                    wire'[i] = HostFrame(Cap(c), c, Program.message[c][n])
      <4>1. CASE i \in 1 .. Len(wire)
        BY <1>0, <1>3, <2>7, <4>1 DEF OnWire
      <4>2. CASE i = Len(wire) + 1
        BY <1>6, <1>7, <2>7, <4>2 DEF raw
      <4> QED
        BY <2>7, <4>1, <4>2
    <3>2. Program' = Program /\ session' = session
      BY <1>8 DEF Program
    <3> QED
      BY <3>1, <3>2 DEF OnWire, Cap
  <2>13. Arrived'
    BY <1>0, <1>3, <1>8, StillArrived
  <2> QED
    BY <2>2, <2>3, <2>8, <2>9, <2>10, <2>11, <2>12, <2>13 DEF FlowInv
<1> QED
  BY <1>9, <1>10 DEF Send

LEMMA TurnAfter ==
  ASSUME LifeInv, FlowInv, pc \in {"recv", "drain"}, AfterRecv(TRUE) \/ AfterRecv(FALSE),
         UNCHANGED buses
  PROVE  /\ Turns' /\ Started' /\ UNCHANGED <<scenario, options>>
         /\ AllOpen /\ Turn \in ToSet(buses) /\ Turn \in AllChannels
<1>0. Types /\ OptionsRight /\ OnTheirChannels /\ Turns
  BY DEF LifeInv, FlowInv
<1>1. Runs(Program) /\ Len(Channels) \in {2, 4, 8}
  BY <1>0, ProgramRuns
<1>2. /\ AllOpen /\ DOMAIN buses = 1 .. Len(buses) /\ Len(buses) \in {2, 4, 8}
      /\ at \in 1 .. Len(buses)
  BY <1>0, <1>1 DEF AllOpen, OnTheirChannels, Sending, Types, Turns
<1>3. Turn \in ToSet(buses) /\ Turn \in AllChannels
  <2>1. Turn \in ToSet(buses)
    BY <1>2 DEF Turn, ToSet
  <2>2. ToSet(buses) \subseteq AllChannels
    BY <1>0 DEF Types, ToSet
  <2> QED
    BY <2>1, <2>2
<1>4. \/ /\ pc' \in {"stop", "unwind"} /\ UNCHANGED <<scenario, options>>
         /\ pc' = "unwind" => why' = "nothing received"
      \/ /\ pc' \in {"send", "stop"} /\ at' = 1 /\ UNCHANGED <<scenario, options>>
         /\ Program.kind = "periodic"
      \/ pc' = pc /\ at' = Later /\ UNCHANGED <<scenario, options>>
  BY DEF AfterRecv, Goto, Throw, progVars
<1>5. Program' = Program
  BY <1>4 DEF Program
<1>6. Started'
  BY <1>4 DEF Started, Sending
<1>7. Turns'
  <2>1. CASE pc' \in {"stop", "unwind"}
    BY <2>1 DEF Turns, Sending
  <2>2. CASE at' = 1 /\ pc' \in {"send", "stop"}
    BY <1>2, <2>2 DEF Turns
  <2>3. CASE pc' = pc /\ at' = Later
    <3>1. Later \in 1 .. Len(buses)
      <4>1. CASE at = Len(buses)
        BY <1>2, <4>1 DEF Later
      <4>2. CASE at # Len(buses)
        <5>1. Len(buses) \in Nat /\ at \in 1 .. Len(buses)
          BY <1>2
        <5> QED
          BY <4>2, <5>1 DEF Later
      <4> QED
        BY <4>1, <4>2
    <3> QED
      BY <1>2, <2>3, <3>1 DEF Turns
  <2> QED
    BY <1>4, <2>1, <2>2, <2>3
<1> QED
  BY <1>2, <1>3, <1>4, <1>6, <1>7

LEMMA ReceiveFlows ==
  ASSUME LifeInv, FlowInv, RecvQueued
  PROVE  FlowInv'
<1> USE DEF progVars, usbVars, runVars, busVars, devVars, histVars
<1>0. Types /\ Turns /\ AreLists /\ Sizes /\ Counted /\ Ready /\ OnWire /\ Arrived
  BY DEF LifeInv, FlowInv
<1>1. /\ pc \in {"recv", "drain"} /\ queue[Turn] # <<>> /\ AfterRecv(TRUE)
      /\ queue' = [queue EXCEPT ![Turn] = Tail(queue[Turn])]
      /\ got' = [got EXCEPT ![Turn] = Append(got[Turn], Head(queue[Turn]))]
      /\ stats' = [stats EXCEPT ![Turn].rx = @ + 1]
      /\ UNCHANGED <<session, buses, wire, pipe, plugged, traffic>>
  BY DEF RecvQueued
<1>2. /\ Turns' /\ Started' /\ UNCHANGED <<scenario, options>>
      /\ AllOpen /\ Turn \in ToSet(buses) /\ Turn \in AllChannels
  BY <1>1, TurnAfter
<1>3. NothingSent'
  BY <1>2 DEF NothingSent
<1>4. PICK t \in AllChannels : t = Turn
  BY <1>2
<1>5. /\ IsList(queue[t]) /\ IsList(got[t]) /\ IsList(traffic[t]) /\ queue[t] # <<>>
      /\ queue'[t] = Tail(queue[t]) /\ got'[t] = Append(got[t], Head(queue[t]))
      /\ \A d \in AllChannels : d # t => queue'[d] = queue[d] /\ got'[d] = got[d]
      /\ DOMAIN queue' = AllChannels /\ DOMAIN got' = AllChannels
  BY <1>0, <1>1, <1>4 DEF AreLists
<1>6. AreLists'
  <2>1. IsList(queue'[t]) /\ IsList(got'[t])
    BY <1>5, Appended, Removed
  <2>2. \A d \in AllChannels : IsList(queue'[d]) /\ IsList(got'[d])
    BY <1>0, <1>5, <2>1 DEF AreLists
  <2> QED
    BY <1>0, <1>1, <1>5, <2>2 DEF AreLists
<1>7. Sizes'
  BY <1>0, <1>1 DEF Sizes
<1>8. Counted'
  <2> DEFINE f == [c \in AllChannels |-> stats[c].rx]
             g == [c \in AllChannels |-> stats'[c].rx]
             q == [c \in AllChannels |-> Len(queue[c])]
             r == [c \in AllChannels |-> Len(queue'[c])]
  <2>1. stats \in [AllChannels -> [tx : Nat, rx : Nat]]
    BY <1>0 DEF Types
  <2>2. /\ \A e \in AllChannels : f[e] \in Int /\ (e # t => g[e] = f[e])
        /\ g[t] = f[t] + 1
    BY <1>1, <1>4, <2>1
  <2>3. Len(queue'[t]) = Len(queue[t]) - 1
    BY <1>5, Removed
  <2>. PICK less \in Int : less = -1
    OBVIOUS
  <2>4. /\ \A e \in AllChannels : q[e] \in Int /\ (e # t => r[e] = q[e])
        /\ r[t] = q[t] + less
    <3>1. \A e \in AllChannels : Len(queue[e]) \in Nat
      BY <1>0, Listed DEF AreLists
    <3> QED
      BY <1>5, <2>3, <3>1
  <2>5. [c \in AllChannels |-> stats'[c].tx] = [c \in AllChannels |-> stats[c].tx]
    BY <1>1, <1>4, <2>1
  <2> HIDE DEF f, g, q, r
  <2>6. Total(g) = Total(f) + 1 /\ Total(f) \in Int
    BY <2>2, TotalAt
  <2>7. Total(r) = Total(q) + less /\ Total(q) \in Int
    BY <2>4, TotalAt
  <2>8. TotalTx' = TotalTx
    BY <2>5 DEF TotalTx
  <2>9. TotalRx = Total(f) /\ TotalRx' = Total(g)
    BY DEF TotalRx, f, g
  <2>10. Total(f) + Total(q) + Len(pipe) + 2 * Len(wire) <= 2 * TotalTx
    BY <1>0, <2>9 DEF Counted, q
  <2>11. Total(g) + Total(r) = Total(f) + Total(q)
    BY <2>6, <2>7
  <2>12. Total(g) + Total(r) + Len(pipe) + 2 * Len(wire) <= 2 * TotalTx
    BY <2>10, <2>11
  <2> QED
    BY <1>1, <2>8, <2>9, <2>12 DEF Counted, r
<1>9. /\ AllOpen' => AllOpen
      /\ Program' = Program /\ Channels' = Channels
  BY <1>2 DEF Program, Channels
<1>10. Ready'
  BY <1>0, <1>1, <1>2, StillReady
<1>11. OnWire'
  BY <1>0, <1>1, <1>2, StillOnTheWire
<1>12. Arrived'
  <2> SUFFICES ASSUME AllOpen', plugged' = TRUE
               PROVE  /\ \A i \in DOMAIN pipe' : pipe'[i].channel \in ToSet(buses')
                      /\ \A c \in ToSet(buses') : Follows(got'[c], queue'[c], pipe', c, traffic'[c])
    BY DEF Arrived
  <2>1. /\ \A i \in DOMAIN pipe : pipe[i].channel \in ToSet(buses)
        /\ \A c \in ToSet(buses) : Follows(got[c], queue[c], pipe, c, traffic[c])
    BY <1>0, <1>1, <1>2 DEF Arrived
  <2>2. ASSUME NEW c \in ToSet(buses)
        PROVE  Follows(got'[c], queue'[c], pipe, c, traffic[c])
    <3>1. c \in AllChannels
      BY <1>0 DEF Types, ToSet
    <3>2. CASE c = t
      <4>1. Follows(Append(got[t], Head(queue[t])), Tail(queue[t]), pipe, t, traffic[t])
        BY <1>5, <2>1, <3>2, FollowsReceived
      <4> QED
        BY <1>5, <3>2, <4>1
    <3>3. CASE c # t
      BY <1>5, <2>1, <3>1, <3>3
    <3> QED
      BY <3>2, <3>3
  <2> QED
    BY <1>1, <2>1, <2>2
<1> QED
  BY <1>2, <1>3, <1>6, <1>7, <1>8, <1>10, <1>11, <1>12 DEF FlowInv

LEMMA CapabilitiesTyped ==
  ASSUME NEW d \in Device, NEW c \in DOMAIN ReadDeviceInfo(d)
  PROVE  ReadDeviceInfo(d)[c].fd \in BOOLEAN /\ ReadDeviceInfo(d)[c].timestamp \in BOOLEAN
<1>1. ReadDeviceInfo(d)[c] = ReadChannelCapabilities(d.channels[c + 1])
  BY DEF ReadDeviceInfo
<1>2. PICK ch : ch = d.channels[c + 1]
  OBVIOUS
<1>3. ReadChannelCapabilities(ch).fd \in BOOLEAN /\ ReadChannelCapabilities(ch).timestamp \in BOOLEAN
  BY DEF ReadChannelCapabilities
<1> QED
  BY <1>1, <1>2, <1>3

LEMMA PollFlows ==
  ASSUME LifeInv, FlowInv, PollOnce
  PROVE  FlowInv'
<1> USE DEF progVars, usbVars, runVars, busVars, devVars, histVars
<1>0. /\ Types /\ SessionKnown /\ OnTheirChannels
      /\ NothingSent /\ Turns /\ AreLists /\ Sizes /\ Counted /\ Ready /\ OnWire /\ Arrived
  BY DEF LifeInv, FlowInv
<1>1. /\ pc \in {"recv", "drain"} /\ plugged = TRUE /\ pipe # <<>> /\ pipe' = Tail(pipe)
      /\ UNCHANGED <<scenario, options, pc, why, at, stats, session, buses, wire, plugged, got, traffic>>
  BY <1>0, Zenon DEF PollOnce, Types
<1>2. AllOpen
  BY <1>0, <1>1 DEF AllOpen, OnTheirChannels, Sending
<1>3. ToSet(buses) \subseteq AllChannels
  BY <1>0 DEF Types, ToSet
<1>4. PICK raw : raw = Head(pipe)
  OBVIOUS
<1>5. /\ IsList(pipe') /\ Len(pipe) \in Nat \ {0} /\ Len(pipe') = Len(pipe) - 1
      /\ DOMAIN pipe = 1 .. Len(pipe) /\ DOMAIN pipe' = 1 .. Len(pipe) - 1
      /\ \A i \in 1 .. Len(pipe) - 1 : pipe'[i] = pipe[i + 1]
      /\ raw = pipe[1]
  BY <1>0, <1>1, <1>4, Removed DEF AreLists
<1>6. raw.size \in {20, 24, 76, 80} /\ raw.channel \in ToSet(buses)
  BY <1>0, <1>1, <1>2, <1>5 DEF Sizes, Arrived
<1>7. PICK c \in AllChannels : c = raw.channel
  BY <1>3, <1>6
<1>8. RxFrameSize = 80
  <2>1. session # NoSession /\ session.channels = ReadDeviceInfo(Chosen)
    <3>1. "channels" \in DOMAIN session
      BY <1>0, <1>6 DEF Ready
    <3>2. "channels" \notin DOMAIN NoSession
      BY DEF NoSession
    <3> QED
      BY <1>0, <1>1, <3>1, <3>2 DEF SessionKnown
  <2>2. \A d \in DOMAIN session.channels : Cap(d).fd \in BOOLEAN /\ Cap(d).timestamp \in BOOLEAN
    <3>1. PICK chosen : chosen = Chosen
      OBVIOUS
    <3>2. chosen \in Device /\ session.channels = ReadDeviceInfo(chosen)
      BY <1>0, <2>1, <3>1, SessionsDevice DEF Types
    <3>3. \A d \in DOMAIN ReadDeviceInfo(chosen) :
             ReadDeviceInfo(chosen)[d].fd \in BOOLEAN /\ ReadDeviceInfo(chosen)[d].timestamp \in BOOLEAN
      BY <3>2, CapabilitiesTyped
    <3> QED
      BY <3>2, <3>3 DEF Cap
  <2> QED
    BY <2>2, ReceiveSize
<1>9. queue' = [queue EXCEPT ![c] = Append(queue[c], ParseFrame(raw))]
  BY <1>4, <1>6, <1>7, <1>8 DEF PollOnce
<1>10. /\ IsList(queue[c]) /\ queue'[c] = Append(queue[c], ParseFrame(raw))
       /\ \A d \in AllChannels : d # c => queue'[d] = queue[d]
       /\ DOMAIN queue' = AllChannels
  BY <1>0, <1>9 DEF AreLists
<1>11. IsList(queue'[c]) /\ Len(queue'[c]) = Len(queue[c]) + 1
  BY <1>10, Appended
<1>12. NothingSent' /\ Turns'
  <2>1. Started'
    BY <1>1 DEF Started, Sending
  <2> QED
    BY <1>0, <1>1, <2>1 DEF NothingSent, Turns, Program
<1>13. AreLists'
  <2>1. \A d \in AllChannels : IsList(queue'[d])
    BY <1>0, <1>10, <1>11 DEF AreLists
  <2> QED
    BY <1>0, <1>1, <1>5, <1>10, <2>1 DEF AreLists
<1>14. Sizes'
  BY <1>0, <1>1, <1>5 DEF Sizes
<1>15. Counted'
  <2> DEFINE q == [d \in AllChannels |-> Len(queue[d])]
             r == [d \in AllChannels |-> Len(queue'[d])]
  <2>1. /\ \A e \in AllChannels : q[e] \in Int /\ (e # c => r[e] = q[e])
        /\ r[c] = q[c] + 1
    <3>1. \A e \in AllChannels : Len(queue[e]) \in Nat
      BY <1>0, Listed DEF AreLists
    <3> QED
      BY <1>10, <1>11, <3>1
  <2>2. TotalTx' = TotalTx /\ TotalRx' = TotalRx
    BY <1>1 DEF TotalTx, TotalRx
  <2> HIDE DEF q, r
  <2>3. Total(r) = Total(q) + 1 /\ Total(q) \in Int
    BY <2>1, TotalAt
  <2>4. TotalRx + Total(q) + Len(pipe) + 2 * Len(wire) <= 2 * TotalTx
    BY <1>0 DEF Counted, q
  <2>5. Total(r) + Len(pipe') = Total(q) + Len(pipe)
    BY <1>5, <2>3
  <2>6. TotalRx \in Nat
    <3>1. \A d \in AllChannels : stats[d].rx \in Nat
      BY <1>0 DEF Types
    <3> QED
      BY <3>1, TotalTyped DEF TotalRx
  <2>7. Len(wire) \in Nat
    BY <1>0, Listed DEF AreLists
  <2>8. TotalRx + Total(r) + Len(pipe') + 2 * Len(wire) <= 2 * TotalTx
    BY <1>5, <2>3, <2>4, <2>5, <2>6, <2>7
  <2> QED
    BY <1>1, <2>2, <2>8 DEF Counted, r
<1>16. AllOpen'
  BY <1>1, <1>2 DEF AllOpen, Channels, Program
<1>17. Ready' /\ OnWire'
  BY <1>0, <1>1, <1>2, StillReady, StillOnTheWire
<1>18. Arrived'
  <2>1. /\ \A i \in DOMAIN pipe : pipe[i].channel \in ToSet(buses)
        /\ \A d \in ToSet(buses) : Follows(got[d], queue[d], pipe, d, traffic[d])
    BY <1>0, <1>1, <1>2 DEF Arrived
  <2>2. ASSUME NEW i \in DOMAIN pipe' PROVE pipe'[i].channel \in ToSet(buses)
    <3>1. i + 1 \in DOMAIN pipe /\ pipe'[i] = pipe[i + 1]
      BY <1>5
    <3> QED
      BY <2>1, <3>1
  <2>3. ASSUME NEW d \in ToSet(buses)
        PROVE  Follows(got[d], queue'[d], pipe', d, traffic[d])
    <3>1. /\ d \in AllChannels /\ IsList(got[d]) /\ IsList(queue[d]) /\ IsList(traffic[d])
          /\ IsList(pipe) /\ Follows(got[d], queue[d], pipe, d, traffic[d])
      BY <1>0, <1>3, <2>1 DEF AreLists
    <3>2. CASE d = c
      <4>1. Follows(got[d], Append(queue[d], ParseFrame(Head(pipe))), Tail(pipe), d, traffic[d])
        BY <1>1, <1>4, <1>7, <3>1, <3>2, FollowsPolled
      <4> QED
        BY <1>1, <1>4, <1>10, <3>2, <4>1
    <3>3. CASE d # c
      <4>1. Follows(got[d], queue[d], Tail(pipe), d, traffic[d])
        BY <1>1, <1>4, <1>7, <3>1, <3>3, FollowsPolled
      <4> QED
        BY <1>1, <1>10, <3>1, <3>3, <4>1
    <3> QED
      BY <3>2, <3>3
  <2> QED
    BY <1>1, <2>2, <2>3 DEF Arrived
<1> QED
  BY <1>12, <1>13, <1>14, <1>15, <1>17, <1>18 DEF FlowInv

LEMMA TransmitFlows ==
  ASSUME LifeInv, FlowInv, Transmit
  PROVE  FlowInv'
<1> USE DEF progVars, usbVars, runVars, busVars, devVars, histVars
<1>0. /\ Types /\ OptionsRight /\ OnlyBusesOn
      /\ NothingSent /\ Turns /\ AreLists /\ Sizes /\ Counted /\ Ready /\ OnWire /\ Arrived
  BY DEF LifeInv, FlowInv
<1>1. PICK raw : raw = Head(wire)
  OBVIOUS
<1>2. /\ wire # <<>> /\ plugged = TRUE /\ wire' = Tail(wire)
      /\ UNCHANGED <<scenario, options, pc, why, at, stats, session, buses, queue, plugged, got>>
  BY <1>0, Zenon DEF Transmit, Types
<1>3. /\ IsList(wire') /\ Len(wire) \in Nat \ {0} /\ Len(wire') = Len(wire) - 1
      /\ DOMAIN wire = 1 .. Len(wire) /\ DOMAIN wire' = 1 .. Len(wire) - 1
      /\ \A i \in 1 .. Len(wire) - 1 : wire'[i] = wire[i + 1]
      /\ raw = wire[1]
  BY <1>0, <1>1, <1>2, Removed DEF AreLists
<1>4. /\ {"channel", "size"} \subseteq DOMAIN raw /\ raw.channel \in AllChannels
  BY <1>0, <1>3 DEF Sizes
<1>5. PICK c \in AllChannels : c = raw.channel
  BY <1>4
<1>6. PICK p \in AllChannels : p = Peer(c) /\ p # c
  BY Paired
<1>7. PICK echo, recv : echo = FromBus(Cap(c), c, raw) /\ recv = FromBus(Cap(p), p, raw)
  OBVIOUS
<1>8. PICK ma, mb : /\ ma = AsSent(c, Program.message[c][raw.stamp[2]])
                    /\ mb = AsSent(p, Program.message[c][raw.stamp[2]])
  OBVIOUS
<1>9. /\ adapter[c].on /\ adapter[p].on
      /\ pipe' = pipe \o <<echo, recv>> \/ pipe' = pipe \o <<recv, echo>>
      /\ traffic' = [traffic EXCEPT ![c] = Append(@, ma), ![p] = Append(@, mb)]
  BY <1>1, <1>5, <1>6, <1>7, <1>8 DEF Transmit
<1>10. /\ echo.channel = c /\ echo.size \in {20, 24, 76, 80}
       /\ recv.channel = p /\ recv.size \in {20, 24, 76, 80}
  BY <1>4, <1>7, SizeBack
<1>11. PICK a, b : /\ \/ a = echo /\ b = recv
                      \/ a = recv /\ b = echo
                   /\ pipe' = pipe \o <<a, b>>
  BY <1>9
<1>12. /\ IsList(pipe') /\ Len(pipe) \in Nat /\ Len(pipe') = Len(pipe) + 2
       /\ DOMAIN pipe = 1 .. Len(pipe) /\ DOMAIN pipe' = 1 .. Len(pipe) + 2
       /\ \A i \in 1 .. Len(pipe) : pipe'[i] = pipe[i]
       /\ pipe'[Len(pipe) + 1] = a /\ pipe'[Len(pipe) + 2] = b
  <2> DEFINE one == Append(pipe, a)
             two == Append(one, b)
  <2>1. pipe' = two
    BY <1>0, <1>11, AppendedTwice DEF AreLists
  <2>2. /\ IsList(one) /\ Len(one) = Len(pipe) + 1 /\ Len(pipe) \in Nat
        /\ DOMAIN pipe = 1 .. Len(pipe)
        /\ \A i \in 1 .. Len(pipe) : one[i] = pipe[i]
        /\ one[Len(pipe) + 1] = a
    BY <1>0, Appended DEF AreLists
  <2> HIDE DEF one
  <2>3. /\ IsList(two) /\ Len(two) = Len(one) + 1
        /\ DOMAIN two = 1 .. Len(one) + 1
        /\ \A i \in 1 .. Len(one) : two[i] = one[i]
        /\ two[Len(one) + 1] = b
    BY <2>2, Appended
  <2> HIDE DEF two
  <2>4. Len(one) + 1 = Len(pipe) + 2
    BY <2>2
  <2> QED
    BY <2>1, <2>2, <2>3, <2>4
<1>13. /\ \A d \in AllChannels :
             traffic'[d] = IF d = c THEN Append(traffic[d], ma)
                           ELSE IF d = p THEN Append(traffic[d], mb) ELSE traffic[d]
       /\ DOMAIN traffic' = AllChannels
  BY <1>0, <1>6, <1>9 DEF AreLists
<1>14. NothingSent' /\ Turns'
  <2>1. Started
    BY <1>0, <1>2 DEF NothingSent
  <2>2. Started'
    BY <1>2, <2>1 DEF Started
  <2> QED
    BY <1>0, <1>2, <2>2 DEF NothingSent, Turns, Program
<1>15. AreLists'
  <2>1. ASSUME NEW d \in AllChannels PROVE IsList(traffic'[d])
    <3>1. IsList(traffic[d])
      BY <1>0 DEF AreLists
    <3>2. traffic'[d] = traffic[d] \/ traffic'[d] = Append(traffic[d], ma)
            \/ traffic'[d] = Append(traffic[d], mb)
      BY <1>13
    <3>3. IsList(Append(traffic[d], ma)) /\ IsList(Append(traffic[d], mb))
      BY <3>1, Appended
    <3> QED
      BY <3>1, <3>2, <3>3
  <2> QED
    BY <1>0, <1>2, <1>3, <1>12, <1>13, <2>1 DEF AreLists
<1>16. Sizes'
  <2>1. ASSUME NEW i \in DOMAIN wire'
        PROVE  /\ {"channel", "size"} \subseteq DOMAIN wire'[i] /\ wire'[i].channel \in AllChannels
               /\ 12 + wire'[i].kept <= wire'[i].size
    <3>1. i + 1 \in DOMAIN wire /\ wire'[i] = wire[i + 1]
      BY <1>3
    <3> QED
      BY <1>0, <3>1 DEF Sizes
  <2>2. ASSUME NEW i \in DOMAIN pipe' PROVE pipe'[i].size \in {20, 24, 76, 80}
    <3>1. CASE i \in 1 .. Len(pipe)
      BY <1>0, <1>12, <3>1 DEF Sizes
    <3>2. CASE i = Len(pipe) + 1
      BY <1>10, <1>11, <1>12, <3>2
    <3>3. CASE i = Len(pipe) + 2
      BY <1>10, <1>11, <1>12, <3>3
    <3> QED
      BY <1>12, <3>1, <3>2, <3>3
  <2> QED
    BY <2>1, <2>2 DEF Sizes
<1>17. Counted'
  <2>1. TotalTx' = TotalTx /\ TotalRx' = TotalRx
    BY <1>2 DEF TotalTx, TotalRx
  <2>2. Len(pipe') + 2 * Len(wire') = Len(pipe) + 2 * Len(wire)
    BY <1>3, <1>12
  <2> DEFINE q == Total([d \in AllChannels |-> Len(queue[d])])
  <2>3. TotalRx \in Nat /\ q \in Nat
    <3>1. \A d \in AllChannels : stats[d].rx \in Nat /\ Len(queue[d]) \in Nat
      BY <1>0, Listed DEF Types, AreLists
    <3> QED
      BY <3>1, TotalTyped DEF TotalRx
  <2>4. TotalRx + q + Len(pipe) + 2 * Len(wire) <= 2 * TotalTx
    BY <1>0 DEF Counted
  <2>5. q' = q
    BY <1>2
  <2> HIDE DEF q
  <2>6. TotalRx + q + Len(pipe') + 2 * Len(wire') <= 2 * TotalTx
    BY <1>3, <1>12, <2>2, <2>3, <2>4
  <2> QED
    BY <2>1, <2>5, <2>6 DEF Counted, q
<1>18. AllOpen' => AllOpen
  BY <1>2 DEF AllOpen, Channels, Program
<1>19. Ready'
  BY <1>0, <1>2, <1>18, StillReady
<1>20. OnWire'
  <2> SUFFICES ASSUME AllOpen', NEW i \in DOMAIN wire'
               PROVE  (\E d \in Senders(Program), n \in Counters :
                          wire[i] = HostFrame(Cap(d), d, Program.message[d][n]))'
    BY DEF OnWire
  <2>1. i + 1 \in DOMAIN wire /\ wire'[i] = wire[i + 1]
    BY <1>3
  <2>2. PICK d \in Senders(Program), n \in Counters :
          wire[i + 1] = HostFrame(Cap(d), d, Program.message[d][n])
    BY <1>0, <1>18, <2>1 DEF OnWire
  <2>3. Program' = Program /\ session' = session
    BY <1>2 DEF Program
  <2> QED
    BY <2>1, <2>2, <2>3 DEF Cap
<1>21. Arrived'
  <2> SUFFICES ASSUME AllOpen'
               PROVE  /\ \A i \in DOMAIN pipe' : pipe'[i].channel \in ToSet(buses')
                      /\ \A d \in ToSet(buses') : Follows(got'[d], queue'[d], pipe', d, traffic'[d])
    BY DEF Arrived
  <2>1. /\ \A i \in DOMAIN pipe : pipe[i].channel \in ToSet(buses)
        /\ \A d \in ToSet(buses) : Follows(got[d], queue[d], pipe, d, traffic[d])
    BY <1>0, <1>2, <1>18 DEF Arrived
  <2>2. c \in ToSet(buses) /\ p \in ToSet(buses)
    <3>1. ASSUME NEW d \in AllChannels, adapter[d].on PROVE adapter[d] # ChannelOff
      <4>1. ChannelOff.on = FALSE
        BY DEF ChannelOff
      <4>2. adapter[d] = ChannelOff => adapter[d].on = ChannelOff.on
        OBVIOUS
      <4> QED
        BY <3>1, <4>1, <4>2, Zenon
    <3> QED
      BY <1>0, <1>2, <1>9, <3>1 DEF OnlyBusesOn
  <2>3. \A i \in DOMAIN pipe' : pipe'[i].channel \in ToSet(buses)
    <3> SUFFICES ASSUME NEW i \in DOMAIN pipe' PROVE pipe'[i].channel \in ToSet(buses)
      OBVIOUS
    <3>1. CASE i \in 1 .. Len(pipe)
      BY <1>12, <2>1, <3>1
    <3>2. CASE i = Len(pipe) + 1
      BY <1>10, <1>11, <1>12, <2>2, <3>2
    <3>3. CASE i = Len(pipe) + 2
      BY <1>10, <1>11, <1>12, <2>2, <3>3
    <3> QED
      BY <1>12, <3>1, <3>2, <3>3
  <2>4. ParseFrame(echo) = ma /\ ParseFrame(recv) = mb
    <3>1. PICK s \in Senders(Program), n \in Counters :
            raw = HostFrame(Cap(s), s, Program.message[s][n])
      BY <1>0, <1>3, <1>18 DEF OnWire
    <3>2. PICK cap, msg : cap = Cap(s) /\ msg = Program.message[s][n]
      OBVIOUS
    <3>3. /\ msg.data.stamp = <<s, n>> /\ msg.data.len \in Nat /\ msg.rtr = FALSE
          /\ msg.ext \in BOOLEAN /\ msg.fd \in BOOLEAN
      BY <1>0, <3>2, ProgramRuns DEF Runs, Sendable
    <3>4. raw = HostFrame(cap, s, msg)
      BY <3>1, <3>2
    <3>5. raw.channel = s /\ raw.stamp = msg.data.stamp
      BY <3>4 DEF HostFrame
    <3>6. s = c /\ raw.stamp[2] = n
      BY <1>5, <3>3, <3>5
    <3>7. ma = AsSent(c, msg) /\ mb = AsSent(p, msg)
      BY <1>8, <3>2, <3>6
    <3>8. PICK mine, theirs : mine = Cap(c) /\ theirs = Cap(p)
      OBVIOUS
    <3>9. ASSUME NEW own, NEW channel
          PROVE  ParseFrame(FromBus(own, channel, HostFrame(cap, s, msg))) = AsSent(channel, msg)
      <4>1. msg.fd \in BOOLEAN /\ msg.rtr \in BOOLEAN /\ msg.ext \in BOOLEAN /\ msg.data.len \in Nat
        BY <3>3
      <4> QED
        BY <4>1, RoundTrip
    <3>10. echo = FromBus(mine, c, HostFrame(cap, s, msg)) /\ recv = FromBus(theirs, p, HostFrame(cap, s, msg))
      BY <1>7, <3>4, <3>8
    <3> QED
      BY <3>7, <3>9, <3>10
  <2>5. ASSUME NEW d \in ToSet(buses)
        PROVE  Follows(got[d], queue[d], pipe', d, traffic'[d])
    <3>1. d \in AllChannels
      BY <1>0 DEF Types, ToSet
    <3>2. /\ IsList(got[d]) /\ IsList(queue[d]) /\ IsList(pipe) /\ IsList(traffic[d])
          /\ Follows(got[d], queue[d], pipe, d, traffic[d])
      BY <1>0, <2>1, <3>1 DEF AreLists
    <3>3. CASE a = echo /\ b = recv
      <4> DEFINE told == IF d = a.channel THEN Append(traffic[d], ma)
                         ELSE IF d = b.channel THEN Append(traffic[d], mb) ELSE traffic[d]
      <4>1. Follows(got[d], queue[d], pipe \o <<a, b>>, d, told)
        BY <1>6, <1>10, <2>4, <3>2, <3>3, FollowsTransmitted
      <4>2. told = traffic'[d]
        BY <1>6, <1>10, <1>13, <3>1, <3>3
      <4> HIDE DEF told
      <4> QED
        BY <1>11, <4>1, <4>2
    <3>4. CASE a = recv /\ b = echo
      <4> DEFINE told == IF d = a.channel THEN Append(traffic[d], mb)
                         ELSE IF d = b.channel THEN Append(traffic[d], ma) ELSE traffic[d]
      <4>1. Follows(got[d], queue[d], pipe \o <<a, b>>, d, told)
        BY <1>6, <1>10, <2>4, <3>2, <3>4, FollowsTransmitted
      <4>2. told = traffic'[d]
        BY <1>6, <1>10, <1>13, <3>1, <3>4
      <4> HIDE DEF told
      <4> QED
        BY <1>11, <4>1, <4>2
    <3> QED
      BY <1>11, <3>3, <3>4
  <2> QED
    BY <1>2, <2>3, <2>5
<1> QED
  BY <1>14, <1>15, <1>16, <1>17, <1>19, <1>20, <1>21 DEF FlowInv

\* What opening, closing and the adapter's plug do with it.
LEMMA OpeningFlows ==
  ASSUME LifeInv, FlowInv, LifeInv',
         Start \/ EnsureLoaded \/ List \/ SessionInit \/ SessionScan \/ NoneFound \/ Claim \/ Query
  PROVE  FlowInv'
<1> USE DEF progVars, usbVars, runVars, busVars, devVars, histVars
<1>1. pc \in Before1st \cup {"claim", "query"}
  BY DEF Start, EnsureLoaded, List, SessionInit, SessionScan, NoneFound, Claim, Query, At, Before1st
<1>2. buses = <<>> /\ UNCHANGED <<buses, at, wire, pipe, queue, got, traffic, stats>>
  <2>1. buses = <<>>
    BY <1>1 DEF LifeInv, Owned
  <2> QED
    BY <2>1 DEF Start, EnsureLoaded, List, SessionInit, SessionScan, NoneFound, Claim, Query
<1>3. pc' \in Before1st \cup {"next", "claim", "query", "add", "unwind"}
  <2>1. CASE Start \/ EnsureLoaded \/ List
    BY <2>1 DEF Start, EnsureLoaded, List, Goto, Throw, AfterLoad, Before1st
  <2>2. CASE SessionInit \/ NoneFound
    BY <2>2 DEF SessionInit, NoneFound, Goto, Throw, Before1st
  <2>3. CASE SessionScan
    BY <2>3, ConsidersThree DEF SessionScan, At, Goto, Throw, Before1st
  <2>4. CASE Claim \/ Query
    BY <2>4 DEF Claim, Query, Goto, Throw
  <2> QED
    BY <2>1, <2>2, <2>3, <2>4
<1>4. ~Started
  BY <1>1 DEF Started, Sending, Before1st
<1>5. buses' \in Seq(AllChannels)
  BY DEF LifeInv, Types
<1>6. NothingSent' /\ AreLists' /\ Sizes' /\ Counted' /\ OnWire' /\ Arrived'
  BY <1>2, <1>4, <1>5, NothingOnItsWay
<1>7. Ready'
  BY <1>2, NobodyReady DEF LifeInv
<1>8. Turns'
  BY <1>3 DEF Turns, Sending, Before1st
<1> QED
  BY <1>6, <1>7, <1>8 DEF FlowInv

LEMMA NextBusFlows ==
  ASSUME LifeInv, FlowInv, LifeInv', NextBus \/ Retry
  PROVE  FlowInv'
<1> USE DEF progVars, usbVars, runVars, busVars, devVars, histVars
<1>1. UNCHANGED <<scenario, options, session, buses, at, wire, pipe, queue, got, traffic, stats>>
  BY DEF NextBus, Retry, Goto
<1>2. ~Started
  BY DEF NextBus, Retry, Retries, Started, Sending
<1>3. buses' \in Seq(AllChannels)
  BY DEF LifeInv, Types
<1>4. NothingSent' /\ AreLists' /\ Sizes' /\ Counted' /\ OnWire' /\ Arrived'
  BY <1>1, <1>2, <1>3, NothingOnItsWay
<1>5. Len(Channels) \in {2, 4, 8}
  BY ProgramRuns DEF LifeInv
<1>6. Ready' /\ Turns'
  <2>1. CASE NextBus
    <3>1. AllOpen' => AllOpen
      BY <1>1, <2>1 DEF AllOpen, NextBus, Channels, Program
    <3>2. at' = 1
      BY <1>1, <1>2 DEF FlowInv, NothingSent
    <3>3. pc' \in Sending => Len(buses) = Len(Channels)
      BY <2>1 DEF NextBus, Goto, Sending
    <3>4. DOMAIN buses' = 1 .. Len(buses')
      BY <1>3
    <3>5. Turns'
      <4>1. ASSUME pc' \in Sending PROVE at' \in DOMAIN buses'
        <5>1. Len(buses') \in {2, 4, 8}
          BY <1>1, <1>5, <3>3, <4>1
        <5>2. 1 \in 1 .. Len(buses')
          BY <5>1
        <5> QED
          BY <3>2, <3>4, <5>2
      <4> QED
        BY <3>2, <4>1 DEF Turns
    <3> QED
      BY <1>1, <3>1, <3>5, StillReady DEF FlowInv
  <2>2. CASE Retry
    <3>1. buses' = <<>> /\ pc' = "next"
      BY <1>1, <2>2 DEF Retry
    <3> QED
      BY <3>1, NobodyReady DEF LifeInv, Turns, Sending
  <2> QED
    BY <2>1, <2>2
<1> QED
  BY <1>4, <1>6 DEF FlowInv

LEMMA AddFlows ==
  ASSUME LifeInv, FlowInv, LifeInv', AddBus
  PROVE  FlowInv'
<1> USE DEF progVars, usbVars, runVars, busVars, devVars, histVars
<1>0. Types /\ SessionKnown /\ Owned /\ OnTheirChannels /\ Accounted /\ Ready
  BY DEF LifeInv, FlowInv
<1>1. /\ pc = "add" /\ pc' \in {"configure", "unwind"}
      /\ UNCHANGED <<scenario, options, buses, at, wire, pipe, queue, got, traffic, stats>>
  BY DEF AddBus, Goto, Throw
<1>2. ~Started
  BY <1>1 DEF Started, Sending
<1>3. buses' \in Seq(AllChannels)
  BY DEF LifeInv, Types
<1>4. NothingSent' /\ AreLists' /\ Sizes' /\ Counted' /\ OnWire' /\ Arrived'
  BY <1>1, <1>2, <1>3, NothingOnItsWay
<1>5. Turns'
  BY <1>1 DEF Turns, Sending
<1>6. Ready'
  <2>1. session # NoSession /\ session.refs \in Nat /\ session.refs >= Len(buses)
          /\ {"refs", "channels"} \subseteq DOMAIN session /\ Len(buses) \in Nat
    BY <1>0, <1>1, <1>3 DEF Owned, SessionKnown, Opening
  <2>2. CASE /\ DOMAIN session' = DOMAIN session /\ session'.channels = session.channels
    <3>1. Program' = Program /\ Channels' = Channels /\ ~AllOpen
      BY <1>0, <1>1 DEF Program, Channels, AllOpen, OnTheirChannels, Opening
    <3>2. ~AllOpen'
      BY <1>1, <3>1 DEF AllOpen
    <3> QED
      BY <1>0, <1>1, <2>2, <3>1, <3>2 DEF Ready, Cap
  <2>3. CASE session' = [session EXCEPT !.refs = @ + 1]
    BY <2>1, <2>2, <2>3
  <2>4. CASE Release(Len(buses), session.refs + 1)
    <3>1. CASE Len(buses) = 0
      <4>1. buses' = <<>>
        BY <1>1, <1>3, <3>1
      <4> QED
        BY <4>1, NobodyReady DEF LifeInv
    <3>2. CASE Len(buses) # 0
      <4>1. PICK owners \in Nat, refs \in Nat : owners = Len(buses) /\ refs = session.refs + 1
        BY <2>1
      <4>2. refs >= owners /\ Release(owners, refs) /\ owners # 0
        BY <2>1, <2>4, <3>2, <4>1
      <4>3. DOMAIN session' = DOMAIN session /\ session'.channels = session.channels
        BY <1>0, <1>1, <2>1, <4>2, Released
      <4> QED
        BY <2>2, <4>3
    <3> QED
      BY <3>1, <3>2
  <2> QED
    BY <2>3, <2>4 DEF AddBus
<1> QED
  BY <1>4, <1>5, <1>6 DEF FlowInv

LEMMA ConfigureFlows ==
  ASSUME LifeInv, FlowInv, LifeInv', Configure
  PROVE  FlowInv'
<1> USE DEF progVars, usbVars, runVars, busVars, devVars, histVars
<1>0. Types /\ SessionKnown /\ Owned /\ OnTheirChannels /\ Accounted /\ Ready
  BY DEF LifeInv, FlowInv
<1>1. /\ pc = "configure" /\ pc' \in {"next", "unwind"}
      /\ UNCHANGED <<scenario, options, at, wire, pipe, queue, got, traffic, stats>>
  BY DEF Configure, At, Goto, Throw
<1>2. ~Started
  BY <1>1 DEF Started, Sending
<1>3. buses \in Seq(AllChannels) /\ buses' \in Seq(AllChannels)
  BY DEF LifeInv, Types
<1>4. NothingSent' /\ AreLists' /\ Sizes' /\ Counted' /\ OnWire' /\ Arrived'
  BY <1>1, <1>2, <1>3, NothingOnItsWay
<1>5. Turns'
  BY <1>1 DEF Turns, Sending
<1>6. Program' = Program /\ Channels' = Channels
  BY <1>1 DEF Program, Channels
<1>7. session # NoSession /\ session.refs \in Nat /\ session.refs >= Len(buses) + 1
        /\ {"refs", "channels"} \subseteq DOMAIN session /\ Len(buses) \in Nat
        /\ Len(buses) < Len(Channels)
  BY <1>0, <1>1, <1>3 DEF Owned, SessionKnown, Opening, OnTheirChannels
<1>8. CASE /\ pc' = "unwind" /\ buses' = buses /\ Release(Len(buses), session.refs - 1)
  <2>1. CASE Len(buses) = 0
    <3>1. buses' = <<>>
      BY <1>3, <1>8, <2>1
    <3>2. Ready'
      BY <3>1, NobodyReady DEF LifeInv
    <3> QED
      BY <1>4, <1>5, <3>2 DEF FlowInv
  <2>2. CASE Len(buses) # 0
    <3>1. PICK owners \in Nat, refs \in Nat : owners = Len(buses) /\ refs = session.refs - 1
      BY <1>7
    <3>2. refs >= owners /\ Release(owners, refs) /\ owners # 0
      BY <1>7, <1>8, <2>2, <3>1
    <3>3. DOMAIN session' = DOMAIN session /\ session'.channels = session.channels
      BY <1>0, <1>1, <1>7, <3>2, Released
    <3>4. ~AllOpen'
      BY <1>8 DEF AllOpen
    <3>5. Ready'
      BY <1>0, <1>6, <1>8, <3>3, <3>4 DEF Ready, Cap
    <3> QED
      BY <1>4, <1>5, <3>5 DEF FlowInv
  <2> QED
    BY <2>1, <2>2
<1>9. CASE /\ pc' = "next" /\ buses' = Append(buses, NextChannel) /\ session' = session
           /\ BusOptions(NextChannel).fd => Cap(NextChannel).fd
  <2>1. NextChannel \in DOMAIN session.channels
    BY <1>0, <1>1 DEF OnTheirChannels
  <2>2. Program.fd = TRUE => Cap(NextChannel).fd = TRUE
    <3>1. BusOptions(NextChannel).fd = Program.fd
      BY DEF BusOptions, MakeBusOptions
    <3>2. Program.fd = TRUE => Cap(NextChannel).fd
      BY <1>9, <3>1, Zenon
    <3>3. Cap(NextChannel).fd \in BOOLEAN
      <4>1. PICK chosen, c : chosen = Chosen /\ c = NextChannel
        OBVIOUS
      <4>2. chosen \in Device /\ session.channels = ReadDeviceInfo(chosen)
        BY <1>0, <1>1, <1>7, <4>1, SessionsDevice DEF Types, SessionKnown
      <4>3. ReadDeviceInfo(chosen)[c].fd \in BOOLEAN
        BY <2>1, <4>1, <4>2, CapabilitiesTyped
      <4> QED
        BY <4>1, <4>2, <4>3 DEF Cap
    <3> QED
      BY <3>2, <3>3, Zenon
  <2>3. ToSet(buses') = ToSet(buses) \cup {NextChannel}
    <3>1. IsList(buses)
      BY <1>3 DEF IsList, ToSet
    <3>2. PICK c : c = NextChannel
      OBVIOUS
    <3>3. /\ DOMAIN buses = 1 .. Len(buses) /\ DOMAIN buses' = 1 .. Len(buses) + 1
          /\ \A i \in 1 .. Len(buses) : buses'[i] = buses[i]
          /\ buses'[Len(buses) + 1] = c
      BY <1>9, <3>1, <3>2, Appended
    <3> QED
      BY <1>7, <3>2, <3>3 DEF ToSet
  <2>4. Len(buses') <= Len(Channels') /\ \A i \in DOMAIN buses' : buses'[i] = Channels'[i]
    BY <1>9 DEF LifeInv, OnTheirChannels
  <2>5. \A c \in ToSet(buses') :
           /\ "channels" \in DOMAIN session' /\ c \in DOMAIN session'.channels
           /\ Program'.fd = TRUE => session'.channels[c].fd = TRUE
    BY <1>0, <1>6, <1>7, <1>9, <2>1, <2>2, <2>3 DEF Ready, Cap
  <2>6. Ready'
    BY <2>4, <2>5 DEF Ready, Cap
  <2> QED
    BY <1>4, <1>5, <2>6 DEF FlowInv
<1>10. \/ /\ pc' = "unwind" /\ buses' = buses /\ Release(Len(buses), session.refs - 1)
       \/ /\ pc' = "next" /\ buses' = Append(buses, NextChannel) /\ session' = session
          /\ BusOptions(NextChannel).fd => Cap(NextChannel).fd
  <2> DEFINE c   == NextChannel
             cap == session.channels[c]
             o   == BusOptions(c)
             fails ==
               IF NominalTiming(o, cap) = NoTiming THEN "timing"
               ELSE IF o.fd /\ o.data_timing = <<>> /\ cap.data = NoLimits THEN "fd"
               ELSE IF o.fd /\ DataTiming(o, cap) = NoTiming THEN "timing"
               ELSE IF ~plugged THEN "transfer"
               ELSE IF o.fd /\ (~cap.fd \/ cap.data = NoLimits) THEN "fd" ELSE "none"
  <2>1. fails = "none" => ~(o.fd /\ (~cap.fd \/ cap.data = NoLimits))
    OBVIOUS
  <2>2. \/ /\ fails # "none" /\ ShutdownBus(c, Len(buses)) /\ pc' = "unwind" /\ buses' = buses
        \/ /\ fails = "none" /\ buses' = Append(buses, c) /\ pc' = "next" /\ session' = session
    BY DEF Configure, Goto, Throw
  <2> HIDE DEF fails
  <2> QED
    BY <2>1, <2>2, Zenon DEF ShutdownBus, Cap
<1> QED
  BY <1>8, <1>9, <1>10

LEMMA ShutdownFlows ==
  ASSUME LifeInv, FlowInv, LifeInv', ShutdownNext
  PROVE  FlowInv'
<1> USE DEF progVars, usbVars, runVars, busVars, devVars, histVars
<1>0. Types /\ SessionKnown /\ Owned /\ Accounted /\ Ready
  BY DEF LifeInv, FlowInv
<1>1. /\ pc \in {"stop", "unwind"} /\ buses # <<>> /\ buses' = Tail(buses)
      /\ Release(Len(buses) - 1, session.refs - 1)
      /\ UNCHANGED <<scenario, options, pc, why, at, wire, pipe, queue, got, traffic, stats, plugged>>
  BY DEF ShutdownNext, ShutdownBus
<1>2. buses \in Seq(AllChannels) /\ buses' \in Seq(AllChannels)
  BY DEF LifeInv, Types
<1>3. /\ Len(buses) \in Nat \ {0} /\ Len(buses') = Len(buses) - 1
      /\ ToSet(buses') \subseteq ToSet(buses)
  BY <1>1, <1>2 DEF ToSet
<1>4. Program' = Program /\ Channels' = Channels
  BY <1>1 DEF Program, Channels
<1>5. Len(buses') < Len(Channels')
  <2>1. Len(Channels) \in {2, 4, 8}
    BY ProgramRuns DEF LifeInv
  <2> QED
    BY <1>0, <1>3, <1>4, <2>1 DEF Ready
<1>6. ~AllOpen'
  <2>1. Len(buses') # Len(Channels')
    <3>1. Len(buses') \in Nat
      BY <1>3
    <3> QED
      BY <1>5, <3>1
  <2> QED
    BY <2>1 DEF AllOpen
<1>7. NothingSent' /\ AreLists' /\ Sizes' /\ Counted' /\ OnWire' /\ Arrived'
  <2>1. CASE Started
    <3>1. Started'
      BY <1>1, <2>1 DEF Started
    <3> QED
      BY <1>1, <1>6, <3>1, StillOnItsWay
  <2>2. CASE ~Started
    BY <1>1, <1>2, <2>2, NothingOnItsWay
  <2> QED
    BY <2>1, <2>2
<1>8. Turns'
  BY <1>1 DEF Turns, Sending
<1>9. Ready'
  <2>1. session # NoSession /\ session.refs \in Nat /\ session.refs >= Len(buses)
    BY <1>0, <1>1 DEF Owned, SessionKnown, Opening
  <2>2. CASE Len(buses) = 1
    <3>1. buses' = <<>>
      BY <1>2, <1>3, <2>2
    <3> QED
      BY <3>1, NobodyReady DEF LifeInv
  <2>3. CASE Len(buses) # 1
    <3>1. PICK owners \in Nat, refs \in Nat : owners = Len(buses) - 1 /\ refs = session.refs - 1
      BY <1>3, <2>1
    <3>2. refs >= owners /\ Release(owners, refs) /\ owners # 0
      BY <1>1, <1>3, <2>1, <2>3, <3>1
    <3>3. DOMAIN session' = DOMAIN session /\ session'.channels = session.channels
      BY <1>0, <1>1, <2>1, <3>2, Released
    <3>4. Len(buses') <= Len(Channels')
      <4>1. Len(buses') \in Nat /\ Len(Channels') \in Nat
        <5>1. Len(Channels) \in {2, 4, 8}
          BY ProgramRuns DEF LifeInv
        <5> QED
          BY <1>3, <1>4, <5>1
      <4> QED
        BY <1>5, <4>1
    <3> QED
      BY <1>0, <1>3, <1>4, <1>6, <3>3, <3>4 DEF Ready, Cap
  <2> QED
    BY <2>2, <2>3
<1> QED
  BY <1>7, <1>8, <1>9 DEF FlowInv

\* A step that touches no bus object, no frame and no count.
LEMMA IdleFlows ==
  ASSUME LifeInv, FlowInv, LifeInv',
         Crash \/ RecvNothing \/ NextTick \/ DurationOver \/ DrainOver \/ Exit \/ Unplug
  PROVE  FlowInv'
<1> USE DEF progVars, usbVars, runVars, busVars, devVars, histVars
<1>0. Types /\ Owned /\ Turns /\ NothingSent /\ Ready
  BY DEF LifeInv, FlowInv
<1>1. /\ UNCHANGED <<scenario, options, session, buses, wire, pipe, queue, got, traffic, stats>>
      /\ plugged' = plugged \/ plugged' = FALSE
  <2>1. CASE RecvNothing
    BY <2>1 DEF RecvNothing, AfterRecv, Goto, Throw
  <2>2. CASE Crash \/ NextTick \/ DurationOver \/ DrainOver \/ Exit \/ Unplug
    BY <2>2 DEF Crash, NextTick, DurationOver, DrainOver, Exit, Unplug, Goto
  <2> QED
    BY <2>1, <2>2
<1>2. Program' = Program /\ Channels' = Channels
  BY <1>1 DEF Program, Channels
<1>3. Len(Channels) \in {2, 4, 8}
  BY ProgramRuns DEF LifeInv
<1>4. (AllOpen' => AllOpen) /\ (Started => Started')
  <2>1. CASE RecvNothing
    <3>1. pc \in {"recv", "drain"} /\ (AfterRecv(TRUE) \/ AfterRecv(FALSE))
      BY <2>1 DEF RecvNothing
    <3> QED
      BY <1>1, <3>1, TurnAfter
  <2>2. CASE Crash
    <3>1. pc # "unwind"
      BY <2>2, CallsKnown DEF Crash
    <3> QED
      BY <1>1, <1>2, <2>2, <3>1 DEF Crash, Goto, AllOpen, Started
  <2>3. CASE NextTick \/ DurationOver \/ DrainOver
    BY <1>1, <1>2, <2>3 DEF NextTick, DurationOver, DrainOver, Goto, AllOpen, Started, Sending
  <2>4. CASE Exit
    <3>1. buses = <<>> /\ pc' \in {"done", "failed"}
      BY <2>4 DEF Exit, Goto
    <3>2. Len(buses') # Len(Channels')
      <4>1. Len(buses') = 0
        BY <1>1, <3>1
      <4> QED
        BY <1>2, <1>3, <4>1
    <3> QED
      BY <3>1, <3>2 DEF AllOpen, Started
  <2>5. CASE Unplug
    BY <1>1, <1>2, <2>5 DEF Unplug, AllOpen, Started
  <2> QED
    BY <2>1, <2>2, <2>3, <2>4, <2>5
<1>5. Turns'
  <2>1. CASE RecvNothing
    <3>1. pc \in {"recv", "drain"} /\ (AfterRecv(TRUE) \/ AfterRecv(FALSE))
      BY <2>1 DEF RecvNothing
    <3> QED
      BY <1>1, <3>1, TurnAfter
  <2>2. CASE Crash \/ DrainOver \/ Exit
    BY <2>2 DEF Crash, DrainOver, Exit, Goto, Turns, Sending
  <2>3. CASE NextTick \/ DurationOver
    <3>1. at \in DOMAIN buses /\ at = 1 /\ at' = 1
      BY <1>0, <2>3 DEF NextTick, DurationOver, Turns, Sending
    <3> QED
      BY <1>1, <3>1 DEF Turns
  <2>4. CASE Unplug
    BY <1>0, <1>1, <1>2, <2>4 DEF Unplug, Turns
  <2> QED
    BY <2>1, <2>2, <2>3, <2>4
<1>6. Ready'
  BY <1>0, <1>1, <1>4, StillReady
<1>7. NothingSent' /\ AreLists' /\ Sizes' /\ Counted' /\ OnWire' /\ Arrived'
  <2>1. CASE Started'
    <3>1. plugged' = TRUE => plugged = TRUE
      BY <1>1
    <3> QED
      BY <1>1, <1>4, <2>1, <3>1, StillOnItsWay
  <2>2. CASE ~Started'
    <3>1. ~Started
      BY <1>4, <2>2
    <3>2. UNCHANGED at
      BY <2>2 DEF Crash, RecvNothing, AfterRecv, NextTick, DurationOver, DrainOver, Exit, Unplug,
         Goto, Throw, Started, Sending
    <3>3. buses' \in Seq(AllChannels)
      BY DEF LifeInv, Types
    <3> QED
      BY <1>1, <3>1, <3>2, <3>3, NothingOnItsWay
  <2> QED
    BY <2>1, <2>2
<1> QED
  BY <1>5, <1>6, <1>7 DEF FlowInv

LEMMA FlowKept == LifeInv /\ LifeInv' /\ FlowInv /\ Next => FlowInv'
<1> SUFFICES ASSUME LifeInv, LifeInv', FlowInv, Next PROVE FlowInv'
  OBVIOUS
<1>1. CASE Library
  BY <1>1, OpeningFlows DEF Library
<1>2. CASE Construct
  BY <1>2, OpeningFlows, NextBusFlows, AddFlows, ConfigureFlows DEF Construct
<1>3. CASE Traffic
  BY <1>3, SendFlows, ReceiveFlows, PollFlows, IdleFlows DEF Traffic
<1>4. CASE End
  BY <1>4, ShutdownFlows, IdleFlows, NextBusFlows DEF End
<1>5. CASE Crash \/ Transmit \/ Unplug
  BY <1>5, IdleFlows, TransmitFlows
<1> QED
  BY <1>1, <1>2, <1>3, <1>4, <1>5 DEF Next

\* The invariant of what is sent, until it is received.
THEOREM FlowInvariant == Spec => []FlowInv
<1>1. FlowInv /\ UNCHANGED vars => FlowInv'
  <2> SUFFICES ASSUME FlowInv, UNCHANGED vars PROVE FlowInv'
    OBVIOUS
  <2> USE DEF vars, progVars, usbVars, runVars, busVars, devVars, histVars
  <2>1. (Started' <=> Started) /\ (AllOpen' <=> AllOpen)
    BY DEF Started, AllOpen, Channels, Program
  <2>2. NothingSent' /\ AreLists' /\ Sizes'
    BY <2>1 DEF FlowInv, NothingSent, AreLists, Sizes
  <2>3. Turns' /\ Ready'
    BY <2>1, StillReady DEF FlowInv, Turns, Program
  <2>4. Counted'
    BY DEF FlowInv, Counted, TotalRx, TotalTx
  <2>5. OnWire' /\ Arrived'
    BY <2>1, StillOnTheWire, StillArrived DEF FlowInv
  <2> QED
    BY <2>2, <2>3, <2>4, <2>5 DEF FlowInv
<1>2. LifeInv /\ LifeInv' /\ FlowInv /\ [Next]_vars => FlowInv'
  BY <1>1, FlowKept
<1> QED
  BY <1>2, FlowInitially, LifeInvariant, PTL DEF Spec

\* What follows a channel's traffic is what ArrivesAsSent says of it.
LEMMA FollowsMeans ==
  ASSUME NEW received, NEW queued, NEW c, NEW messages,
         IsList(received), IsList(queued), IsList(messages), IsList(pipe),
         Follows(received, queued, pipe, c, messages)
  PROVE  LET had == received \o queued
         IN  /\ IsPrefix(had, messages)
             /\ InPipe(c, SubSeq(messages, Len(had) + 1, Len(messages)))
<1> DEFINE had  == received \o queued
           S    == ToSet(received) \cup ToSet(queued) \cup ToSet(messages)
           n    == Len(received) + Len(queued)
           rest == SubSeq(messages, Len(had) + 1, Len(messages))
<1>1. /\ received \in Seq(S) /\ queued \in Seq(S) /\ messages \in Seq(S)
      /\ Len(received) \in Nat /\ Len(queued) \in Nat /\ Len(messages) \in Nat
      /\ DOMAIN received = 1 .. Len(received) /\ DOMAIN queued = 1 .. Len(queued)
      /\ DOMAIN messages = 1 .. Len(messages)
  BY DEF IsList
<1>2. /\ n <= Len(messages) /\ n \in Nat
      /\ \A i \in DOMAIN received : received[i] = messages[i]
      /\ \A i \in DOMAIN queued : queued[i] = messages[Len(received) + i]
      /\ InPlace(n, pipe, c, messages)
  BY <1>1 DEF Follows
<1> HIDE DEF S
<1>3. /\ had \in Seq(S) /\ Len(had) = n
      /\ \A i \in 1 .. n : had[i] = IF i <= Len(received) THEN received[i]
                                    ELSE queued[i - Len(received)]
  BY <1>1, ConcatProperties
<1> HIDE DEF had
<1>4. ASSUME NEW i \in 1 .. n PROVE had[i] = messages[i]
  <2>1. CASE i <= Len(received)
    BY <1>1, <1>2, <1>3, <2>1
  <2>2. CASE i > Len(received)
    <3>1. i - Len(received) \in DOMAIN queued /\ Len(received) + (i - Len(received)) = i
      BY <1>1, <2>2
    <3> QED
      BY <1>1, <1>2, <1>3, <2>2, <3>1
  <2> QED
    BY <1>1, <2>1, <2>2
<1>5. IsPrefix(had, messages)
  <2> HIDE DEF n
  <2>1. \A i \in 1 .. n : had[i] \in S /\ messages[i] \in S
    BY <1>1, <1>2, <1>3
  <2>2. /\ SubSeq(had, 1, n) \in Seq(S) /\ Len(SubSeq(had, 1, n)) = IF 1 <= n THEN n - 1 + 1 ELSE 0
        /\ \A i \in 1 .. n - 1 + 1 : SubSeq(had, 1, n)[i] = had[1 + i - 1]
    BY <1>2, <2>1, SubSeqProperties
  <2>3. /\ SubSeq(messages, 1, n) \in Seq(S) /\ Len(SubSeq(messages, 1, n)) = IF 1 <= n THEN n - 1 + 1 ELSE 0
        /\ \A i \in 1 .. n - 1 + 1 : SubSeq(messages, 1, n)[i] = messages[1 + i - 1]
    BY <1>2, <2>1, SubSeqProperties
  <2>4. \A i \in 1 .. n : SubSeq(had, 1, n)[i] = had[i] /\ SubSeq(messages, 1, n)[i] = messages[i]
    BY <1>2, <2>2, <2>3
  <2>5. Len(SubSeq(had, 1, n)) = n /\ Len(SubSeq(messages, 1, n)) = n
    BY <1>2, <2>2, <2>3
  <2>6. SubSeq(had, 1, n) = SubSeq(messages, 1, n)
    <3> DEFINE s == SubSeq(had, 1, n)
               t == SubSeq(messages, 1, n)
    <3>1. s \in Seq(S) /\ t \in Seq(S) /\ Len(s) = Len(t) /\ \A i \in 1 .. Len(s) : s[i] = t[i]
      BY <1>4, <2>2, <2>3, <2>4, <2>5
    <3> HIDE DEF s, t
    <3>2. s = t
      BY <3>1, SeqEqual
    <3> QED
      BY <3>2 DEF s, t
  <2> QED
    BY <1>2, <1>3, <2>6 DEF IsPrefix
<1>6. /\ DOMAIN rest = 1 .. Len(messages) - n
      /\ \A i \in 1 .. Len(messages) - n : rest[i] = messages[n + i]
  <2> HIDE DEF n
  <2>0. n \in Nat /\ Len(messages) \in Nat /\ n <= Len(messages)
    BY <1>1, <1>2
  <2>a. PICK last \in Int : last = Len(messages)
    BY <2>0
  <2>b. PICK k \in Int : k = n + 1
    BY <2>0
  <2>1. k = n + 1 /\ last = Len(messages)
    BY <2>a, <2>b
  <2>2. rest = SubSeq(messages, k, last)
    BY <1>3, <2>1
  <2> HIDE DEF rest
  <2>3. \A i \in k .. last : messages[i] \in S
    BY <1>1, <1>2, <2>1
  <2>4. /\ rest \in Seq(S) /\ Len(rest) = IF k <= last THEN last - k + 1 ELSE 0
        /\ \A i \in 1 .. last - k + 1 : rest[i] = messages[k + i - 1]
    BY <2>2, <2>3, SubSeqProperties
  <2>5. Len(rest) = Len(messages) - n /\ last - k + 1 = Len(messages) - n
    <3>1. Len(rest) = IF k <= last THEN last - k + 1 ELSE 0
      BY <2>4
    <3> QED
      BY <2>0, <2>1, <3>1
  <2>6. \A i \in 1 .. Len(messages) - n : k + i - 1 = n + i
    BY <1>2, <2>1
  <2> QED
    BY <2>4, <2>5, <2>6
<1>7. InPipe(c, rest)
  <2> HIDE DEF n, rest
  <2> DEFINE left == 1 .. Len(messages) - n
             mine == {i \in DOMAIN pipe : pipe[i].channel = c}
  <2>1. PICK place \in [left -> mine] :
          /\ \A m \in left : ParseFrame(pipe[place[m]]) = messages[n + m]
          /\ \A m, k \in left : m < k => place[m] < place[k]
          /\ \A i \in mine : \E m \in left : place[m] = i
    BY <1>2 DEF InPlace
  <2>2. \A i \in mine : i \in Int
    BY DEF IsList
  <2>3. DOMAIN place = left /\ \A m \in left : place[m] \in mine
    BY <2>1
  <2> HIDE DEF mine
  <2>4. IsInjective(place)
    <3> SUFFICES ASSUME NEW m \in left, NEW k \in left, place[m] = place[k] PROVE m = k
      BY <2>3 DEF IsInjective
    <3>1. m \in Int /\ k \in Int /\ place[m] \in Int /\ place[k] \in Int
      BY <2>2, <2>3
    <3>2. ~(m < k) /\ ~(k < m)
      BY <2>1, <3>1
    <3> QED
      BY <3>1, <3>2
  <2>5. place \in Bijection(DOMAIN rest, mine)
    <3>1. place \in Bijection(left, mine)
      BY <2>1, <2>4 DEF Bijection, Injection, Surjection
    <3> QED
      BY <1>6, <3>1
  <2>6. \A m \in DOMAIN rest :
           /\ ParseFrame(pipe[place[m]]) = rest[m]
           /\ \A k \in DOMAIN rest : m < k => place[m] < place[k]
    BY <1>6, <2>1
  <2> QED
    BY <2>5, <2>6 DEF InPipe, mine
<1> QED
  BY <1>5, <1>7 DEF had, rest

\* Every frame fits the buffer it is sent from; what a channel's bus object has received,
\* has queued and will find in the pipe are the frames that were on its bus, once each,
\* in their order and as they were sent; and the program counts no more than two frames
\* received for each that it sent.
THEOREM Arrival == Spec => []ArrivesAsSent
<1>1. LifeInv /\ FlowInv => ArrivesAsSent
  <2> SUFFICES ASSUME LifeInv, FlowInv PROVE ArrivesAsSent
    OBVIOUS
  <2>0. Types /\ AreLists /\ Sizes /\ Counted /\ Arrived
    BY DEF LifeInv, FlowInv
  <2>1. \A i \in DOMAIN wire : 12 + wire[i].kept <= wire[i].size
    BY <2>0 DEF Sizes
  <2>2. ASSUME NEW c \in ToSet(buses), plugged, Len(buses) = Len(Channels), pc # "unwind"
        PROVE  LET had == got[c] \o queue[c]
               IN  /\ IsPrefix(had, traffic[c])
                   /\ InPipe(c, SubSeq(traffic[c], Len(had) + 1, Len(traffic[c])))
    <3>1. c \in AllChannels
      BY <2>0 DEF Types, ToSet
    <3>2. IsList(got[c]) /\ IsList(queue[c]) /\ IsList(traffic[c]) /\ IsList(pipe)
      BY <2>0, <3>1 DEF AreLists
    <3>3. plugged = TRUE
      BY <2>0, <2>2, Zenon DEF Types
    <3>4. Follows(got[c], queue[c], pipe, c, traffic[c])
      BY <2>0, <2>2, <3>3 DEF Arrived, AllOpen
    <3> QED
      BY <3>2, <3>4, FollowsMeans
  <2>3. TotalRx <= 2 * TotalTx
    <3> DEFINE q == Total([c \in AllChannels |-> Len(queue[c])])
    <3>1. \A c \in AllChannels : stats[c].rx \in Nat /\ stats[c].tx \in Nat /\ Len(queue[c]) \in Nat
      BY <2>0, Listed DEF Types, AreLists
    <3>2. TotalRx \in Nat /\ TotalTx \in Nat /\ q \in Nat
      BY <3>1, TotalTyped DEF TotalRx, TotalTx
    <3>3. Len(pipe) \in Nat /\ Len(wire) \in Nat
      BY <2>0, Listed DEF AreLists
    <3>4. TotalRx + q + Len(pipe) + 2 * Len(wire) <= 2 * TotalTx
      BY <2>0 DEF Counted
    <3> HIDE DEF q
    <3> QED
      BY <3>2, <3>3, <3>4
  <2> QED
    BY <2>1, <2>2, <2>3 DEF ArrivesAsSent
<1> QED
  BY <1>1, LifeInvariant, FlowInvariant, PTL

-----------------------------------------------------------------------------
(***************************************************************************)
(* calculate_timing: the best of its candidates is as near to the sample   *)
(* point as any legal timing, where the search suffices.                   *)
(***************************************************************************)

\* A timing of at least four quanta that gives the rate exactly and keeps the limits.
Fits(limits, rate, c) ==
    /\ c = [brp |-> c.brp, tseg1 |-> c.tseg1, tseg2 |-> c.tseg2, total |-> c.total]
    /\ c.brp \in limits.brp_min .. limits.brp_max /\ c.brp * rate > 0
    /\ limits.fclk % (c.brp * rate) = 0 /\ c.total = limits.fclk \div (c.brp * rate)
    /\ c.total >= 4 /\ c.tseg1 \in 1 .. c.total /\ c.tseg2 = c.total - 1 - c.tseg1
    /\ WithinLimits(limits, c.tseg1, c.tseg2)

LEMMA LegalFits ==
  ASSUME NEW limits, NEW rate, NEW c
  PROVE  c \in LegalTimings(limits, rate) <=> Fits(limits, rate, c)
<1>1. ASSUME c \in LegalTimings(limits, rate) PROVE Fits(limits, rate, c)
  <2>1. PICK b \in limits.brp_min .. limits.brp_max :
          /\ b * rate > 0 /\ limits.fclk % (b * rate) = 0
          /\ LET total == limits.fclk \div (b * rate) IN
             \E t \in 1 .. total :
                /\ total >= 4 /\ WithinLimits(limits, t, total - 1 - t)
                /\ c = [brp |-> b, tseg1 |-> t, tseg2 |-> total - 1 - t, total |-> total]
    BY <1>1 DEF LegalTimings
  <2> QED
    BY <2>1 DEF Fits
<1>2. ASSUME Fits(limits, rate, c) PROVE c \in LegalTimings(limits, rate)
  <2> DEFINE total == limits.fclk \div (c.brp * rate)
             here == {[brp |-> c.brp, tseg1 |-> t, tseg2 |-> total - 1 - t, total |-> total] :
                        t \in {u \in 1 .. total : total >= 4 /\ WithinLimits(limits, u, total - 1 - u)}}
  <2>1. c \in here
    BY <1>2 DEF Fits
  <2> QED
    BY <1>2, <2>1 DEF Fits, LegalTimings
<1> QED
  BY <1>1, <1>2

LEMMA TargetAboveOne ==
  ASSUME NEW total \in Nat, total >= 4
  PROVE  Tseg1Target(total, 80) \in Nat /\ Tseg1Target(total, 80) >= 2
           /\ Tseg1Target(total, 80) < total
BY DEF Tseg1Target

LEMMA CandidateFits ==
  ASSUME NEW limits \in TimingLimits, NEW rate \in Nat, NEW c
  PROVE  c \in Candidates(limits, rate, 80) <=>
            /\ Fits(limits, rate, c) /\ c.brp \in Prescalers(limits, rate)
            /\ c.tseg1 - Tseg1Target(c.total, 80) \in {-1, 0, 1}
<1>1. ASSUME c \in Candidates(limits, rate, 80)
      PROVE  /\ Fits(limits, rate, c) /\ c.brp \in Prescalers(limits, rate)
             /\ c.tseg1 - Tseg1Target(c.total, 80) \in {-1, 0, 1}
  <2>1. PICK b \in Prescalers(limits, rate) :
          LET total == limits.fclk \div (b * rate) IN
          \E d \in {-1, 0, 1} : LET t == Tseg1Target(total, 80) + d IN
             /\ total >= 4 /\ WithinLimits(limits, t, total - 1 - t)
             /\ c = [brp |-> b, tseg1 |-> t, tseg2 |-> total - 1 - t, total |-> total]
    BY <1>1 DEF Candidates
  <2> DEFINE total == limits.fclk \div (b * rate)
  <2>2. /\ b \in limits.brp_min .. limits.brp_max /\ b * rate > 0
        /\ limits.fclk % (b * rate) = 0
    BY <2>1 DEF Prescalers
  <2>3. total \in Nat /\ total >= 4
    <3>1. limits.fclk \in Nat /\ limits.brp_min \in Nat
      BY DEF TimingLimits
    <3>2. b * rate \in Nat
      BY <2>2, <3>1
    <3>3. \A n \in Nat, m \in Nat \ {0} : n \div m \in Nat
      OBVIOUS
    <3> QED
      BY <2>1, <2>2, <3>1, <3>2, <3>3
  <2> HIDE DEF total
  <2>4. PICK d \in {-1, 0, 1} : LET t == Tseg1Target(total, 80) + d IN
             /\ WithinLimits(limits, t, total - 1 - t)
             /\ c = [brp |-> b, tseg1 |-> t, tseg2 |-> total - 1 - t, total |-> total]
    BY <2>1 DEF total
  <2>5. Tseg1Target(total, 80) + d \in 1 .. total /\ Tseg1Target(total, 80) \in Nat
    BY <2>3, TargetAboveOne
  <2>6. c.brp = b /\ c.total = total /\ c.tseg1 = Tseg1Target(total, 80) + d
    BY <2>4
  <2>7. c.total = limits.fclk \div (c.brp * rate)
    BY <2>6 DEF total
  <2>8. c.tseg1 - Tseg1Target(c.total, 80) = d
    BY <2>5, <2>6
  <2> QED
    BY <2>1, <2>2, <2>3, <2>4, <2>5, <2>6, <2>7, <2>8 DEF Fits
<1>2. ASSUME Fits(limits, rate, c), c.brp \in Prescalers(limits, rate),
             c.tseg1 - Tseg1Target(c.total, 80) \in {-1, 0, 1}
      PROVE  c \in Candidates(limits, rate, 80)
  <2> DEFINE total == limits.fclk \div (c.brp * rate)
             near  == {Tseg1Target(total, 80) + d : d \in {-1, 0, 1}}
             here  == {[brp |-> c.brp, tseg1 |-> t, tseg2 |-> total - 1 - t, total |-> total] :
                         t \in {u \in near : total >= 4 /\ WithinLimits(limits, u, total - 1 - u)}}
  <2>1. total = c.total /\ c.total \in Nat /\ c.tseg1 \in Nat /\ c.total >= 4
    <3>1. limits.fclk \in Nat /\ c.brp * rate > 0
      BY <1>2 DEF Fits, TimingLimits
    <3>2. c.tseg1 \in 1 .. c.total
      BY <1>2 DEF Fits
    <3>3. total \in Nat
      <4>1. c.brp * rate \in Nat
        BY <1>2, <3>1 DEF Fits, TimingLimits
      <4>2. \A n \in Nat, m \in Nat \ {0} : n \div m \in Nat
        OBVIOUS
      <4> QED
        BY <3>1, <4>1, <4>2
    <3>4. total = c.total
      BY <1>2 DEF Fits
    <3> HIDE DEF total
    <3> QED
      BY <1>2, <3>2, <3>3, <3>4 DEF Fits
  <2> HIDE DEF total
  <2>2. c.tseg1 \in near
    <3>1. Tseg1Target(c.total, 80) \in Nat
      BY <2>1, TargetAboveOne
    <3> QED
      BY <1>2, <2>1, <3>1
  <2>3. c \in here
    BY <1>2, <2>1, <2>2 DEF Fits
  <2> QED
    BY <1>2, <2>3 DEF Candidates, total
<1> QED
  BY <1>1, <1>2

LEMMA FitNumbers ==
  ASSUME NEW limits \in TimingLimits, NEW rate \in Nat, NEW c, Fits(limits, rate, c)
  PROVE  /\ c.brp \in Nat \ {0} /\ rate > 0 /\ c.tseg1 \in Nat /\ c.tseg2 \in Int
         /\ c.total \in Nat /\ c.total >= 4 /\ Off(c, 80) \in Nat
         /\ c.total * (c.brp * rate) = limits.fclk
<1>1. limits.fclk \in Nat /\ limits.brp_min \in Nat /\ limits.brp_max \in Nat
  BY DEF TimingLimits
<1>2. c.brp \in Nat /\ c.brp * rate > 0
  BY <1>1 DEF Fits
<1>3. c.brp \in Nat \ {0} /\ rate > 0 /\ c.brp * rate \in Nat \ {0}
  BY <1>2
<1>4. \A n \in Nat, m \in Nat \ {0} : n \div m \in Nat /\ (n % m = 0 => (n \div m) * m = n)
  OBVIOUS
<1>5. limits.fclk % (c.brp * rate) = 0 /\ c.total = limits.fclk \div (c.brp * rate)
        /\ c.total >= 4 /\ c.tseg1 \in 1 .. c.total /\ c.tseg2 = c.total - 1 - c.tseg1
  BY DEF Fits
<1> DEFINE k == c.brp * rate
<1>6. c.total \in Nat /\ c.total * k = limits.fclk
  <2>1. k \in Nat \ {0} /\ limits.fclk % k = 0 /\ c.total = limits.fclk \div k
    BY <1>3, <1>5
  <2> HIDE DEF k
  <2> QED
    BY <1>1, <1>4, <2>1
<1>7. c.tseg1 \in Nat
  BY <1>5, <1>6
<1>8. Off(c, 80) \in Nat
  <2>1. 100 * (1 + c.tseg1) - 80 * c.total \in Int
    BY <1>6, <1>7
  <2> QED
    BY <2>1 DEF Off, AbsOf
<1> QED
  BY <1>3, <1>5, <1>6, <1>7, <1>8

LEMMA ProductsLess ==
  ASSUME NEW x \in Nat, NEW y \in Nat, NEW m \in Nat \ {0}
  PROVE  x * m < y * m <=> x < y
<1>1. x < y => x * m < y * m
  <2> SUFFICES ASSUME x < y PROVE x * m < y * m
    OBVIOUS
  <2>1. PICK d \in Nat \ {0} : y = x + d
    <3>1. y - x \in Nat \ {0} /\ y = x + (y - x)
      OBVIOUS
    <3> QED
      BY <3>1
  <2>2. y * m = x * m + d * m
    BY <2>1
  <2>3. d * m > 0
    OBVIOUS
  <2> QED
    BY <2>2, <2>3
<1>2. y <= x => y * m <= x * m
  <2> SUFFICES ASSUME y <= x PROVE y * m <= x * m
    OBVIOUS
  <2>1. PICK d \in Nat : x = y + d
    <3>1. x - y \in Nat /\ x = y + (x - y)
      OBVIOUS
    <3> QED
      BY <3>1
  <2>2. x * m = y * m + d * m /\ d * m >= 0
    BY <2>1
  <2> QED
    BY <2>2
<1> QED
  BY <1>1, <1>2

\* The clock is the product of prescaler, rate and total: sample points compare as
\* what they are off times the prescaler.
LEMMA NearerByScore ==
  ASSUME NEW limits \in TimingLimits, NEW rate \in Nat, NEW c, NEW d,
         Fits(limits, rate, c), Fits(limits, rate, d)
  PROVE  Nearer(c, d, 80) <=> Off(c, 80) * c.brp < Off(d, 80) * d.brp
<1> DEFINE a == Off(c, 80)
           b == Off(d, 80)
           m == c.total * c.brp
<1>1. /\ a \in Nat /\ b \in Nat /\ c.brp \in Nat \ {0} /\ d.brp \in Nat \ {0} /\ rate \in Nat \ {0}
      /\ c.total \in Nat \ {0} /\ d.total \in Nat \ {0}
      /\ c.total * (c.brp * rate) = d.total * (d.brp * rate)
  BY FitNumbers
<1> HIDE DEF a, b
<1>2. m \in Nat \ {0} /\ d.total * d.brp \in Nat \ {0}
  BY <1>1
<1>3. m = d.total * d.brp
  <2>1. m * rate = (d.total * d.brp) * rate
    BY <1>1
  <2>2. ~(m < d.total * d.brp) /\ ~(d.total * d.brp < m)
    BY <1>1, <1>2, <2>1, ProductsLess
  <2> QED
    BY <1>2, <2>2
<1> DEFINE n == c.brp * d.brp
<1>4. n \in Nat \ {0} /\ a * d.total \in Nat /\ b * c.total \in Nat /\ a * c.brp \in Nat /\ b * d.brp \in Nat
  BY <1>1
<1>5. a * d.total < b * c.total <=> (a * d.total) * n < (b * c.total) * n
  BY <1>4, ProductsLess
<1>6. (a * d.total) * n = (a * c.brp) * (d.total * d.brp)
  BY <1>1
<1>7. (b * c.total) * n = (b * d.brp) * m
  BY <1>1
<1>8. a * d.total < b * c.total <=> (a * c.brp) * m < (b * d.brp) * m
  BY <1>3, <1>5, <1>6, <1>7
<1>9. (a * c.brp) * m < (b * d.brp) * m <=> a * c.brp < b * d.brp
  BY <1>2, <1>4, ProductsLess
<1> QED
  BY <1>8, <1>9 DEF Nearer, a, b

\* Of the timings with one prescaler, a candidate is as near as any but another one.
LEMMA CandidateAsNear ==
  ASSUME NEW limits \in TimingLimits, NEW rate \in Nat, NEW c, NEW t,
         c \in Candidates(limits, rate, 80), Fits(limits, rate, t), t.brp = c.brp
  PROVE  t \in Candidates(limits, rate, 80) \/ Off(c, 80) <= Off(t, 80)
<1>1. /\ Fits(limits, rate, c) /\ c.brp \in Prescalers(limits, rate)
      /\ c.tseg1 - Tseg1Target(c.total, 80) \in {-1, 0, 1}
  BY CandidateFits
<1>2. t.total = c.total
  BY <1>1 DEF Fits
<1>3. c.tseg1 \in Nat /\ t.tseg1 \in Nat /\ c.total \in Nat /\ c.total >= 4
  BY <1>1, FitNumbers
<1> DEFINE target == Tseg1Target(c.total, 80)
<1>4. target \in Int
  BY <1>3, TargetAboveOne
<1>5. CASE t.tseg1 - target \in {-1, 0, 1}
  BY <1>1, <1>2, <1>5, CandidateFits
<1>6. CASE t.tseg1 - target \notin {-1, 0, 1}
  <2>1. 200 * target <= 160 * c.total - 100 /\ 160 * c.total - 100 < 200 * target + 200
    BY <1>3 DEF Tseg1Target
  <2> HIDE DEF target
  <2>2. t.tseg1 >= target + 2 \/ t.tseg1 <= target - 2
    BY <1>3, <1>4, <1>6
  <2>3. target - 1 <= c.tseg1 /\ c.tseg1 <= target + 1
    BY <1>1, <1>3, <1>4 DEF target
  <2> QED
    BY <1>2, <1>3, <1>4, <2>1, <2>2, <2>3 DEF Off, AbsOf
<1> QED
  BY <1>5, <1>6

Score(c) == Off(c, 80) * c.brp

\* There is a best candidate, if there is one at all: the least score, of those the
\* least prescaler, of those the least second segment.
LEMMA BestThere ==
  ASSUME NEW limits \in TimingLimits, NEW rate \in Nat, Candidates(limits, rate, 80) # {}
  PROVE  \E c \in Candidates(limits, rate, 80) :
            \A d \in Candidates(limits, rate, 80) \ {c} : Better(c, d, 80)
<1> DEFINE all == Candidates(limits, rate, 80)
<1>1. ASSUME NEW c \in all
      PROVE  /\ Fits(limits, rate, c) /\ Score(c) \in Nat /\ c.brp \in Nat /\ c.tseg2 \in Nat
  <2>1. Fits(limits, rate, c)
    BY CandidateFits
  <2>2. c.tseg2 \in limits.tseg2_min .. limits.tseg2_max /\ limits.tseg2_min \in Nat
    BY <2>1 DEF Fits, WithinLimits, TimingLimits
  <2> QED
    BY <2>1, <2>2, FitNumbers DEF Score
<1> HIDE DEF all
<1> DEFINE scores == {Score(c) : c \in all}
<1>2. PICK c1 \in all : \A d \in all : Score(c1) <= Score(d)
  <2>1. scores \subseteq Nat /\ scores # {}
    BY <1>1 DEF all
  <2> HIDE DEF scores
  <2>2. PICK m \in scores : \A n \in scores : m <= n
    BY <2>1, LeastIn
  <2> QED
    BY <2>2 DEF scores
<1> DEFINE nearest == {c \in all : Score(c) = Score(c1)}
           brps == {c.brp : c \in nearest}
<1>3. PICK c2 \in nearest : \A d \in nearest : c2.brp <= d.brp
  <2>1. brps \subseteq Nat /\ brps # {}
    BY <1>1, <1>2
  <2> HIDE DEF brps
  <2>2. PICK m \in brps : \A n \in brps : m <= n
    BY <2>1, LeastIn
  <2> QED
    BY <2>2 DEF brps
<1> DEFINE lowest == {c \in nearest : c.brp = c2.brp}
           segs == {c.tseg2 : c \in lowest}
<1>4. PICK c3 \in lowest : \A d \in lowest : c3.tseg2 <= d.tseg2
  <2>1. segs \subseteq Nat /\ segs # {}
    BY <1>1, <1>2, <1>3
  <2> HIDE DEF segs
  <2>2. PICK m \in segs : \A n \in segs : m <= n
    BY <2>1, LeastIn
  <2> QED
    BY <2>2 DEF segs
<1>5. c3 \in all /\ Score(c3) = Score(c1) /\ c3.brp = c2.brp
  BY <1>4
<1>6. ASSUME NEW d \in all \ {c3} PROVE Better(c3, d, 80)
  <2>1. /\ Fits(limits, rate, c3) /\ Score(c3) \in Nat /\ c3.brp \in Nat /\ c3.tseg2 \in Nat
        /\ Fits(limits, rate, d) /\ Score(d) \in Nat /\ d.brp \in Nat /\ d.tseg2 \in Nat
    BY <1>1, <1>5
  <2>2. /\ Nearer(c3, d, 80) <=> Score(c3) < Score(d)
        /\ Nearer(d, c3, 80) <=> Score(d) < Score(c3)
    BY <2>1, NearerByScore DEF Score
  <2>3. Score(c3) <= Score(d)
    BY <1>2, <1>5
  <2>4. CASE Score(c3) < Score(d)
    BY <2>2, <2>4 DEF Better
  <2>5. CASE Score(d) = Score(c3)
    <3>1. d \in nearest /\ ~Nearer(d, c3, 80)
      BY <1>5, <2>1, <2>2, <2>5
    <3>2. c3.brp <= d.brp
      BY <1>3, <1>5, <3>1
    <3>3. CASE c3.brp < d.brp
      BY <3>1, <3>3 DEF Better
    <3>4. CASE c3.brp = d.brp
      <4>1. d \in lowest /\ c3.tseg2 <= d.tseg2
        BY <1>4, <1>5, <3>1, <3>4
      <4>2. c3.tseg2 # d.tseg2
        <5>1. ASSUME c3.tseg2 = d.tseg2 PROVE FALSE
          <6>1. c3.total = d.total /\ c3.total \in Nat /\ c3.tseg1 \in Nat /\ d.tseg1 \in Nat
            BY <2>1, <3>4, FitNumbers DEF Fits
          <6>2. c3.tseg1 = d.tseg1
            <7>1. c3.tseg2 = c3.total - 1 - c3.tseg1 /\ d.tseg2 = d.total - 1 - d.tseg1
              BY <2>1 DEF Fits
            <7>2. \A n, x, y \in Nat : n - 1 - x = n - 1 - y => x = y
              OBVIOUS
            <7>3. c3.total - 1 - c3.tseg1 = c3.total - 1 - d.tseg1
              BY <5>1, <6>1, <7>1, Zenon
            <7> QED
              BY <6>1, <7>2, <7>3, Zenon
          <6>3. c3 = d
            <7>1. c3 = [brp |-> c3.brp, tseg1 |-> c3.tseg1, tseg2 |-> c3.tseg2, total |-> c3.total]
              BY <2>1 DEF Fits
            <7>2. d = [brp |-> d.brp, tseg1 |-> d.tseg1, tseg2 |-> d.tseg2, total |-> d.total]
              BY <2>1 DEF Fits
            <7> QED
              BY <3>4, <5>1, <6>1, <6>2, <7>1, <7>2
          <6> QED
            BY <6>3
        <5> QED
          BY <5>1
      <4> QED
        BY <2>1, <3>1, <3>4, <4>1, <4>2 DEF Better
    <3> QED
      BY <2>1, <3>2, <3>3, <3>4
  <2> QED
    BY <2>1, <2>3, <2>4, <2>5
<1> QED
  BY <1>5, <1>6 DEF all

\* calculate_timing finds a legal timing, none nearer to a sample point of 80 %, or
\* there is none: if it overlooks none, and a jump width is possible.
THEOREM NearestTiming ==
  ASSUME NEW limits \in TimingLimits, NEW rate \in Nat,
         limits.tseg2_min > 0, limits.sjw_max > 0, SearchSuffices(limits, rate, 80)
  PROVE  LET timing == CalculateTiming(limits, rate, 80) IN
         IF timing = NoTiming THEN LegalTimings(limits, rate) = {}
         ELSE IsNearest(timing, limits, rate, 80)
<1> DEFINE all == Candidates(limits, rate, 80)
           timing == CalculateTiming(limits, rate, 80)
<1>1. CASE rate = 0
  <2>1. timing = NoTiming
    BY <1>1 DEF CalculateTiming
  <2>2. ASSUME NEW t \in LegalTimings(limits, rate) PROVE FALSE
    <3>1. Fits(limits, rate, t)
      BY LegalFits
    <3>2. rate > 0
      BY <3>1, FitNumbers
    <3> QED
      BY <1>1, <3>2
  <2> QED
    BY <2>1, <2>2
<1>2. CASE rate > 0 /\ all = {}
  <2>1. timing = NoTiming
    BY <1>2 DEF CalculateTiming
  <2>2. LegalTimings(limits, rate) = {}
    BY <1>2 DEF SearchSuffices
  <2> QED
    BY <2>1, <2>2
<1>3. CASE rate > 0 /\ all # {}
  <2> DEFINE best == CHOOSE c \in all : \A d \in all \ {c} : Better(c, d, 80)
  <2>1. best \in all /\ \A d \in all \ {best} : Better(best, d, 80)
    <3>1. \E c \in all : \A d \in all \ {c} : Better(c, d, 80)
      BY <1>3, BestThere
    <3> HIDE DEF all
    <3> QED
      BY <3>1, Zenon
  <2>2. timing = [brp |-> best.brp, prop_seg |-> 0, phase_seg1 |-> best.tseg1,
                  phase_seg2 |-> best.tseg2, sjw |-> Smaller(best.tseg2, limits.sjw_max)]
    BY <1>3 DEF CalculateTiming
  <2> HIDE DEF best, timing
  <2>3. Fits(limits, rate, best) /\ best \in LegalTimings(limits, rate)
    BY <2>1, CandidateFits, LegalFits
  <2>4. best.brp \in Nat \ {0} /\ Score(best) \in Nat
    BY <2>3, FitNumbers DEF Score
  <2>5. timing # NoTiming
    BY <2>2, <2>4 DEF NoTiming
  <2>6. Smaller(best.tseg2, limits.sjw_max) \in 1 .. Smaller(best.tseg2, limits.sjw_max)
    <3>1. best.tseg2 \in limits.tseg2_min .. limits.tseg2_max
      BY <2>3 DEF Fits, WithinLimits
    <3> QED
      BY <3>1 DEF Smaller, TimingLimits
  <2>7. ASSUME NEW c \in all PROVE Score(c) \in Nat /\ Score(best) <= Score(c)
    <3>1. Fits(limits, rate, c) /\ Score(c) \in Nat
      BY CandidateFits, FitNumbers DEF Score
    <3>2. CASE c # best
      <4>1. Better(best, c, 80)
        BY <2>1, <3>2
      <4>2. /\ Nearer(best, c, 80) <=> Score(best) < Score(c)
            /\ Nearer(c, best, 80) <=> Score(c) < Score(best)
        BY <2>3, <3>1, NearerByScore DEF Score
      <4> QED
        BY <2>4, <3>1, <4>1, <4>2 DEF Better
    <3> QED
      BY <2>4, <3>1, <3>2
  <2>8. ASSUME NEW t \in LegalTimings(limits, rate) PROVE ~Nearer(t, best, 80)
    <3>1. Fits(limits, rate, t) /\ Score(t) \in Nat
      BY LegalFits, FitNumbers DEF Score
    <3>2. PICK c \in all : c.brp = t.brp \/ ~Nearer(t, c, 80)
      BY DEF SearchSuffices
    <3>3. Fits(limits, rate, c) /\ Score(c) \in Nat /\ Score(best) <= Score(c)
      BY <2>7, CandidateFits
    <3>4. Score(best) <= Score(t)
      <4>1. CASE ~Nearer(t, c, 80)
        <5>1. ~(Score(t) < Score(c))
          BY <3>1, <3>3, <4>1, NearerByScore DEF Score
        <5> QED
          BY <2>4, <3>1, <3>3, <5>1
      <4>2. CASE c.brp = t.brp
        <5>1. t \in all \/ Off(c, 80) <= Off(t, 80)
          BY <3>1, <4>2, CandidateAsNear
        <5>2. CASE t \in all
          BY <2>7, <5>2
        <5>3. CASE Off(c, 80) <= Off(t, 80)
          <6>1. Off(c, 80) \in Nat /\ Off(t, 80) \in Nat /\ c.brp \in Nat \ {0}
            BY <3>1, <3>3, FitNumbers
          <6>2. ~(Off(t, 80) * c.brp < Off(c, 80) * c.brp)
            BY <5>3, <6>1, ProductsLess
          <6>3. Score(c) <= Score(t)
            BY <3>1, <3>3, <4>2, <6>2 DEF Score
          <6> QED
            BY <2>4, <3>1, <3>3, <6>3
        <5> QED
          BY <5>1, <5>2, <5>3
      <4> QED
        BY <3>2, <4>1, <4>2
    <3>5. Nearer(t, best, 80) <=> Score(t) < Score(best)
      BY <2>3, <3>1, NearerByScore DEF Score
    <3> QED
      BY <2>4, <3>1, <3>4, <3>5
  <2>9. IsNearest(timing, limits, rate, 80)
    <3>1. /\ timing.brp = best.brp /\ timing.phase_seg1 = best.tseg1
          /\ timing.phase_seg2 = best.tseg2 /\ timing.prop_seg = 0
          /\ timing.sjw = Smaller(best.tseg2, limits.sjw_max)
      BY <2>2
    <3> QED
      BY <2>3, <2>6, <2>8, <3>1 DEF IsNearest
  <2> QED
    BY <2>5, <2>9 DEF timing
<1> QED
  BY <1>1, <1>2, <1>3

\* The target of a total of quanta splits it, four parts to one.
LEMMA TargetSplits ==
  ASSUME NEW total \in Nat, total >= 4
  PROVE  LET u == Tseg1Target(total, 80) IN
         /\ u \in Nat /\ u >= 2 /\ total - 1 - u >= 1
         /\ 10 * u + 5 <= 8 * total /\ 10 * (total - 1 - u) <= 2 * total + 5
<1> QED BY DEF Tseg1Target

\* calculate_timing overlooks no legal timing of a channel that takes every prescaler,
\* and whose segments are long enough for four parts to one of every legal total.
THEOREM SearchReaches ==
  ASSUME NEW limits \in TimingLimits, NEW rate \in Nat,
         limits.brp_inc <= 1, limits.tseg1_min <= 2, limits.tseg2_min <= 1,
         \A t \in LegalTimings(limits, rate) :
            4 * t.total <= 5 * limits.tseg1_max /\ t.total <= 5 * limits.tseg2_max
  PROVE  SearchSuffices(limits, rate, 80)
<1> DEFINE all == Candidates(limits, rate, 80)
<1> SUFFICES ASSUME NEW t \in LegalTimings(limits, rate) PROVE \E c \in all : c.brp = t.brp
  BY DEF SearchSuffices
<1>1. PICK brp \in limits.brp_min .. limits.brp_max :
         /\ brp * rate > 0 /\ limits.fclk % (brp * rate) = 0
         /\ t.brp = brp /\ t.total = limits.fclk \div (brp * rate) /\ t.total >= 4
  BY DEF LegalTimings
<1>2. limits.fclk \in Nat /\ limits.brp_min \in Nat /\ limits.brp_max \in Nat /\ limits.brp_inc \in Nat
      /\ limits.tseg1_min \in Nat /\ limits.tseg1_max \in Nat
      /\ limits.tseg2_min \in Nat /\ limits.tseg2_max \in Nat
  BY DEF TimingLimits
<1>3. brp \in Prescalers(limits, rate)
  <2>1. Larger(limits.brp_inc, 1) = 1 BY <1>2 DEF Larger
  <2>2. (brp - limits.brp_min) % 1 = 0 BY <1>2
  <2> QED BY <1>1, <2>1, <2>2 DEF Prescalers
<1> DEFINE total == limits.fclk \div (brp * rate)
           u == Tseg1Target(total, 80)
<1>4. total \in Nat /\ total >= 4 /\ 4 * total <= 5 * limits.tseg1_max /\ total <= 5 * limits.tseg2_max
  <2>1. brp * rate \in Nat \ {0} BY <1>1, <1>2
  <2>2. total \in Nat BY <1>2, <2>1
  <2> QED BY <1>1, <2>2
<1> HIDE DEF total
<1>5. /\ u \in Nat /\ u >= 2 /\ total - 1 - u >= 1
      /\ 10 * u + 5 <= 8 * total /\ 10 * (total - 1 - u) <= 2 * total + 5
  BY <1>4, TargetSplits
<1> HIDE DEF u
<1>6. WithinLimits(limits, u, total - 1 - u)
  BY <1>2, <1>4, <1>5 DEF WithinLimits
<1>7. u \in {Tseg1Target(total, 80) + d : d \in {-1, 0, 1}}
  <2>1. u = Tseg1Target(total, 80) + 0 BY <1>5 DEF u
  <2> QED BY <2>1
<1>8. [brp |-> brp, tseg1 |-> u, tseg2 |-> total - 1 - u, total |-> total] \in all
  BY <1>3, <1>4, <1>6, <1>7 DEF Candidates, total
<1> QED BY <1>1, <1>8

-----------------------------------------------------------------------------
(***************************************************************************)
(* The devices that enumerate_devices lists.                               *)
(***************************************************************************)

\* Summaries that differ in bus or address, as libusb's devices do.
Keyed(S) ==
    /\ \A x \in S : x.bus \in Nat /\ x.address \in Nat
    /\ \A x, y \in S : x.bus = y.bus /\ x.address = y.address => x = y

Sorted(s) == \A i, j \in DOMAIN s : i < j => Before(s[i], s[j])

LEMMA FirstThere ==
  ASSUME NEW S, Keyed(S), S # {}
  PROVE  \E x \in S : \A y \in S \ {x} : Before(x, y)
<1> DEFINE numbers == {x.bus : x \in S}
<1>1. PICK u \in S : \A y \in S : u.bus <= y.bus
  <2>1. numbers \subseteq Nat /\ numbers # {}
    BY DEF Keyed
  <2> HIDE DEF numbers
  <2>2. PICK m \in numbers : \A n \in numbers : m <= n
    BY <2>1, LeastIn
  <2> QED
    BY <2>2 DEF numbers
<1> DEFINE near == {x \in S : x.bus = u.bus}
           addresses == {x.address : x \in near}
<1>2. PICK v \in near : \A y \in near : v.address <= y.address
  <2>1. addresses \subseteq Nat /\ addresses # {}
    BY DEF Keyed
  <2> HIDE DEF addresses
  <2>2. PICK m \in addresses : \A n \in addresses : m <= n
    BY <2>1, LeastIn
  <2> QED
    BY <2>2 DEF addresses
<1>3. ASSUME NEW y \in S \ {v} PROVE Before(v, y)
  <2>1. v \in S /\ v.bus = u.bus /\ u.bus <= y.bus /\ v.bus \in Nat /\ y.bus \in Nat
          /\ v.address \in Nat /\ y.address \in Nat
    BY <1>1, <1>2 DEF Keyed
  <2>2. CASE v.bus < y.bus
    BY <2>2 DEF Before
  <2>3. CASE v.bus = y.bus
    <3>1. v.address <= y.address
      BY <1>2, <2>1, <2>3
    <3>2. v.address # y.address
      BY <2>1, <2>3 DEF Keyed
    <3> QED
      BY <2>1, <2>3, <3>1, <3>2 DEF Before
  <2> QED
    BY <2>1, <2>2, <2>3
<1> QED
  BY <1>2, <1>3

\* A finite set of them can be sorted: if some set could not, so could not a smallest.
LEMMA SortedThere ==
  ASSUME NEW S, IsFiniteSet(S), Keyed(S)
  PROVE  \E s \in SetToSeqs(S) : Sorted(s)
<1> DEFINE bad == {T \in SUBSET S : ~\E s \in SetToSeqs(T) : Sorted(s)}
           sizes == {Cardinality(T) : T \in bad}
<1>0. ASSUME NEW T \in SUBSET S
      PROVE  IsFiniteSet(T) /\ Cardinality(T) \in Nat /\ Keyed(T)
  BY FS_Subset, FS_CardinalityType DEF Keyed
<1>1. ASSUME bad # {} PROVE FALSE
  <2>1. PICK T \in bad : \A U \in bad : Cardinality(T) <= Cardinality(U)
    <3>1. sizes \subseteq Nat /\ sizes # {}
      BY <1>0, <1>1
    <3> HIDE DEF sizes
    <3>2. PICK m \in sizes : \A n \in sizes : m <= n
      BY <3>1, LeastIn
    <3> QED
      BY <3>2 DEF sizes
  <2>2. IsFiniteSet(T) /\ Cardinality(T) \in Nat /\ Keyed(T)
    BY <1>0
  <2>3. T # {}
    <3>1. ASSUME T = {} PROVE FALSE
      <4>1. Cardinality(T) = 0
        BY <3>1, FS_EmptySet
      <4>2. <<>> \in SetToSeqs(T) /\ Sorted(<<>>)
        <5>1. <<>> \in [1 .. 0 -> {}] /\ DOMAIN <<>> = {}
          OBVIOUS
        <5> QED
          BY <3>1, <4>1, <5>1 DEF SetToSeqs, Sorted
      <4> QED
        BY <4>2
    <3> QED
      BY <3>1
  <2>4. PICK x \in T : \A y \in T \ {x} : Before(x, y)
    BY <2>2, <2>3, FirstThere
  <2> DEFINE U == T \ {x}
             n == Cardinality(U)
  <2>5. U \in SUBSET S /\ n \in Nat /\ Cardinality(T) = n + 1
    BY <1>0, <2>2, FS_RemoveElement
  <2>6. U \notin bad
    BY <2>1, <2>5
  <2>7. PICK s \in SetToSeqs(U) : Sorted(s)
    BY <2>5, <2>6
  <2>8. /\ s \in [1 .. n -> U] /\ \A i, j \in 1 .. n : i # j => s[i] # s[j]
        /\ \A i, j \in 1 .. n : i < j => Before(s[i], s[j])
    BY <2>7 DEF SetToSeqs, Sorted
  <2> DEFINE t == [i \in 1 .. n + 1 |-> IF i = 1 THEN x ELSE s[i - 1]]
  <2> HIDE DEF n, U, bad
  <2>9. ASSUME NEW i \in 1 .. n + 1, i # 1 PROVE i - 1 \in 1 .. n /\ t[i] = s[i - 1] /\ t[i] \in U
    BY <2>5, <2>8, <2>9
  <2>10. t \in [1 .. n + 1 -> T] /\ t[1] = x
    BY <2>4, <2>5, <2>9 DEF U
  <2>11. \A i, j \in 1 .. n + 1 : i # j => t[i] # t[j]
    BY <2>5, <2>8, <2>9, <2>10 DEF U
  <2>12. t \in SetToSeqs(T)
    BY <2>5, <2>10, <2>11 DEF SetToSeqs
  <2>13. Sorted(t)
    <3> SUFFICES ASSUME NEW i \in 1 .. n + 1, NEW j \in 1 .. n + 1, i < j
                 PROVE  Before(t[i], t[j])
      BY DEF Sorted
    <3>1. j # 1 /\ t[j] \in U
      BY <2>5, <2>9
    <3>2. CASE i = 1
      BY <2>4, <2>10, <3>1, <3>2 DEF U
    <3>3. CASE i # 1
      <4>1. i - 1 \in 1 .. n /\ j - 1 \in 1 .. n /\ i - 1 < j - 1 /\ t[i] = s[i - 1] /\ t[j] = s[j - 1]
        BY <2>5, <2>9, <3>1, <3>3
      <4> HIDE DEF t
      <4> QED
        BY <2>8, <4>1
    <3> QED
      BY <3>2, <3>3
  <2> QED
    BY <2>1, <2>12, <2>13 DEF bad
<1> QED
  BY <1>1

\* The devices that enumerate_devices can read, and what it says of one.
Readable(list) ==
    {i \in DOMAIN list : /\ list[i].ours /\ "descriptor" \notin list[i].fails
                         /\ FindBulkInterface(list[i], None) # None}

Shown(d) == BuildSummary(d, FindBulkInterface(d, None))

\* enumerate_devices lists each of them, and nothing else, by bus and address.
THEOREM EnumeratesReadable ==
  ASSUME NEW scen \in Scenarios
  PROVE  /\ ToSet(EnumerateDevices(scen.list)) = {Shown(scen.list[i]) : i \in Readable(scen.list)}
         /\ Sorted(EnumerateDevices(scen.list))
<1> DEFINE list == scen.list
           found == {Shown(list[i]) : i \in Readable(list)}
<1>1. list \in Seq(Device) /\ \A i \in DOMAIN list : list[i] \in Device
  BY ScenarioRight
<1>2. \A i, j \in DOMAIN list :
        list[i].bus = list[j].bus /\ list[i].address = list[j].address => i = j
  BY CppProgramAssumption
<1> HIDE DEF list
<1>3. \A i \in DOMAIN list : Shown(list[i]).bus = list[i].bus /\ Shown(list[i]).address = list[i].address
  BY DEF Shown, BuildSummary
<1>4. Keyed(found)
  <2>1. \A i \in DOMAIN list : list[i].bus \in Nat /\ list[i].address \in Nat
    BY <1>1 DEF Device
  <2>2. Readable(list) \subseteq DOMAIN list
    BY DEF Readable
  <2>3. \A x \in found : \E i \in DOMAIN list : x = Shown(list[i])
    BY <2>2
  <2> HIDE DEF found
  <2> QED
    BY <1>2, <1>3, <2>1, <2>3 DEF Keyed
<1>5. IsFiniteSet(found)
  <2>1. IsFiniteSet(DOMAIN list) /\ Readable(list) \in SUBSET DOMAIN list
    <3>1. DOMAIN list = 1 .. Len(list) /\ Len(list) \in Nat
      BY <1>1
    <3> QED
      BY <3>1, FS_Interval DEF Readable
  <2>2. IsFiniteSet(Readable(list))
    BY <2>1, FS_Subset
  <2> DEFINE f == [i \in Readable(list) |-> Shown(list[i])]
  <2>3. f \in Surjection(Readable(list), found)
    BY DEF Surjection
  <2> QED
    BY <2>2, <2>3, FS_Surjection
<1> HIDE DEF found
<1> DEFINE s == EnumerateDevices(list)
<1>6. s \in SetToSeqs(found) /\ Sorted(s)
  <2>1. s = CHOOSE t \in SetToSeqs(found) : \A i, j \in DOMAIN t : i < j => Before(t[i], t[j])
    BY DEF EnumerateDevices, found, Shown, Readable
  <2>2. \E t \in SetToSeqs(found) : \A i, j \in DOMAIN t : i < j => Before(t[i], t[j])
    BY <1>4, <1>5, SortedThere DEF Sorted
  <2> HIDE DEF s
  <2>3. s \in SetToSeqs(found) /\ \A i, j \in DOMAIN s : i < j => Before(s[i], s[j])
    BY <2>1, <2>2, Zenon
  <2> QED
    BY <2>3 DEF Sorted
<1> HIDE DEF s
<1>7. s \in Injection(1 .. Cardinality(found), found)
  BY <1>6 DEF SetToSeqs, Injection, IsInjective
<1>8. s \in Surjection(1 .. Cardinality(found), found)
  <2>1. Cardinality(found) \in Nat
    BY <1>5, FS_CardinalityType
  <2>2. Cardinality(1 .. Cardinality(found)) = Cardinality(found)
    BY <2>1, FS_Interval
  <2> QED
    BY <1>5, <1>7, <2>2, FS_Injection
<1>9. ToSet(s) = found
  BY <1>8 DEF ToSet, Surjection
<1> QED
  BY <1>6, <1>9 DEF s, found, list

-----------------------------------------------------------------------------
(***************************************************************************)
(* The device a selector means, and the search of the session.             *)
(***************************************************************************)

\* Nothing, BUS:ADDR, BUS:ADDR:IF or a serial number.
Selectable(selector) ==
    /\ DOMAIN selector = 1 .. Len(selector)
    /\ \/ selector = <<>> \/ Numeric(selector)
       \/ Len(selector) = 1 /\ selector[1].text # ""

Wanted(selector) == ParseSelector(selector, None, "")

\* The interface found is one of the device's, and the hinted one.
LEMMA InterfaceThere ==
  ASSUME NEW d \in Device, NEW hint, FindBulkInterface(d, hint) # None
  PROVE  /\ FindBulkInterface(d, hint) \in {d.alts[i].number : i \in DOMAIN d.alts}
         /\ hint # None => FindBulkInterface(d, hint) = hint
<1> DEFINE fits == {i \in DOMAIN d.alts :
                      /\ hint = None \/ d.alts[i].number = hint
                      /\ HasBulk(d.alts[i], "in") /\ HasBulk(d.alts[i], "out")}
<1>1. fits # {} /\ FindBulkInterface(d, hint) = d.alts[Min(fits)].number
  BY DEF FindBulkInterface
<1>2. fits \subseteq Nat
  <2>1. d.alts \in Seq([number : Nat, endpoints : SUBSET Endpoint])
    BY DEF Device
  <2> QED
    BY <2>1
<1>3. Min(fits) \in fits
  BY <1>1, <1>2, LeastIn
<1> QED
  BY <1>1, <1>3

\* None is found only in a descriptor that cannot be read, or without the endpoints.
LEMMA InterfaceMissing ==
  ASSUME NEW d \in Device, NEW hint, FindBulkInterface(d, hint) = None, "config" \notin d.fails,
         NEW i \in DOMAIN d.alts, HasBulk(d.alts[i], "in"), HasBulk(d.alts[i], "out"),
         hint = None \/ d.alts[i].number = hint
  PROVE  FALSE
<1> DEFINE fits == {k \in DOMAIN d.alts :
                      /\ hint = None \/ d.alts[k].number = hint
                      /\ HasBulk(d.alts[k], "in") /\ HasBulk(d.alts[k], "out")}
<1>1. i \in fits
  OBVIOUS
<1>2. d.alts \in Seq([number : Nat, endpoints : SUBSET Endpoint])
  BY DEF Device
<1>3. fits # {} /\ fits \subseteq Nat
  BY <1>1, <1>2
<1>4. d.alts[Min(fits)].number \in Nat
  <2>1. Min(fits) \in fits
    BY <1>3, LeastIn
  <2>2. Min(fits) \in DOMAIN d.alts
    BY <2>1
  <2> DEFINE alt == [number : Nat, endpoints : SUBSET Endpoint]
             alts == d.alts
  <2> HIDE DEF fits
  <2>3. alts \in Seq(alt)
    BY <1>2
  <2>4. \A a \in alt : a.number \in Nat
    OBVIOUS
  <2> HIDE DEF alt, alts
  <2>5. \A k \in DOMAIN alts : alts[k] \in alt
    BY <2>3
  <2> QED
    BY <2>2, <2>4, <2>5 DEF alts
<1>5. FindBulkInterface(d, hint) = d.alts[Min(fits)].number
  BY <1>1 DEF FindBulkInterface
<1> QED
  BY <1>4, <1>5 DEF None

LEMMA WantedRecord ==
  ASSUME NEW w, NEW b, NEW a, NEW i, NEW s,
         w = [bus |-> b, address |-> a, interface |-> i, serial |-> s]
  PROVE  w.bus = b /\ w.address = a /\ w.interface = i /\ w.serial = s
OBVIOUS

\* What a selector asks of a device's bus, address and serial number.
LEMMA WantedFields ==
  ASSUME NEW selector, Selectable(selector)
  PROVE  /\ selector = <<>> => Wanted(selector) =
               [bus |-> None, address |-> None, interface |-> None, serial |-> ""]
         /\ Numeric(selector) =>
               /\ selector # <<>>
               /\ Wanted(selector).bus = selector[1].value /\ selector[1].value # None
               /\ Wanted(selector).address = selector[2].value /\ selector[2].value # None
               /\ Wanted(selector).serial = ""
               /\ Len(selector) = 3 =>
                     Wanted(selector).interface = selector[3].value /\ selector[3].value # None
         /\ selector # <<>> /\ ~Numeric(selector) =>
               /\ Wanted(selector).bus = None /\ Wanted(selector).address = None
               /\ Wanted(selector).serial = selector[1].text /\ selector[1].text # ""
<1>1. CASE selector = <<>>
  <2>1. ~Numeric(selector)
    BY <1>1 DEF Numeric
  <2> QED
    BY <1>1, <2>1 DEF Wanted, ParseSelector
<1>2. CASE selector # <<>> /\ Numeric(selector)
  <2>1. Len(selector) \in {2, 3} /\ \A i \in 1 .. Len(selector) : selector[i].value # None
    BY <1>2 DEF Numeric, IsNumber, Selectable
  <2>2. PICK w, interface :
          /\ w = [bus |-> selector[1].value, address |-> selector[2].value,
                  interface |-> interface, serial |-> ""]
          /\ w = Wanted(selector)
          /\ Len(selector) = 3 => interface = selector[3].value
    BY <1>2 DEF Wanted, ParseSelector
  <2>3. selector[1].value # None /\ selector[2].value # None
          /\ (Len(selector) = 3 => selector[3].value # None)
    BY <2>1
  <2>4. /\ w.bus = selector[1].value /\ w.address = selector[2].value
        /\ w.interface = interface /\ w.serial = ""
    <3>1. w = [bus |-> selector[1].value, address |-> selector[2].value,
               interface |-> interface, serial |-> ""]
      BY <2>2, Zenon
    <3> QED
      BY <3>1, WantedRecord
  <2>5. /\ Wanted(selector).bus = selector[1].value
        /\ Wanted(selector).address = selector[2].value
        /\ Wanted(selector).interface = interface /\ Wanted(selector).serial = ""
    BY <2>2, <2>4, Zenon
  <2>6. Numeric(selector) =>
          /\ selector # <<>>
          /\ Wanted(selector).bus = selector[1].value /\ selector[1].value # None
          /\ Wanted(selector).address = selector[2].value /\ selector[2].value # None
          /\ Wanted(selector).serial = ""
    BY <1>2, <2>3, <2>5
  <2>7. Len(selector) = 3 => Wanted(selector).interface = selector[3].value /\ selector[3].value # None
    BY <2>2, <2>3, <2>5
  <2> QED
    BY <1>2, <2>6, <2>7
<1>3. CASE selector # <<>> /\ ~Numeric(selector)
  BY <1>3 DEF Wanted, ParseSelector, Selectable
<1> QED
  BY <1>1, <1>2, <1>3

LEMMA TakenIsMeant ==
  ASSUME NEW d \in Device, NEW selector, Selectable(selector),
         Considers(d, Wanted(selector)) = "take"
  PROVE  Means(selector, d) /\ FindBulkInterface(d, Wanted(selector).interface) # None
<1> DEFINE w == Wanted(selector)
<1>1. /\ d.ours = TRUE /\ FindBulkInterface(d, w.interface) # None /\ "open" \notin d.fails
      /\ w.bus = None \/ w.bus = d.bus
      /\ w.address = None \/ w.address = d.address
      /\ w.serial = "" \/ w.serial = ReadSerial(d)
  <2>1. d.ours \in BOOLEAN
    BY DEF Device
  <2> QED
    BY <2>1 DEF Considers, BuildSummary
<1>2. ReadSerial(d) = d.serial
  BY <1>1 DEF ReadSerial
<1> HIDE DEF w
<1>3. CASE selector = <<>>
  BY <1>1, <1>3 DEF Means, w
<1>4. CASE Numeric(selector)
  <2>1. d.bus = selector[1].value /\ d.address = selector[2].value
    BY <1>1, <1>4, WantedFields DEF w
  <2>2. ASSUME Len(selector) = 3
        PROVE  selector[3].value \in {d.alts[i].number : i \in DOMAIN d.alts}
    <3>1. w.interface = selector[3].value /\ w.interface # None
      BY <1>4, <2>2, WantedFields DEF w
    <3> QED
      BY <1>1, <3>1, InterfaceThere
  <2> QED
    BY <1>1, <1>4, <2>1, <2>2 DEF Means, w
<1>5. CASE selector # <<>> /\ ~Numeric(selector)
  <2>1. selector[1].text = d.serial
    BY <1>1, <1>2, <1>5, WantedFields DEF w
  <2> QED
    BY <1>1, <1>5, <2>1 DEF Means, w
<1> QED
  BY <1>3, <1>4, <1>5

LEMMA SkippedIsNotMeant ==
  ASSUME NEW d \in Device, NEW selector, Selectable(selector),
         Considers(d, Wanted(selector)) = "skip", Means(selector, d)
  PROVE  d.fails # {}
<1> SUFFICES ASSUME d.fails = {} PROVE FALSE
  OBVIOUS
<1> DEFINE w == Wanted(selector)
<1>1. d.ours = TRUE
  <2>1. d.ours \in BOOLEAN
    BY DEF Device
  <2> QED
    BY <2>1 DEF Means
<1>2. ReadSerial(d) = d.serial
  BY DEF ReadSerial
<1>3. \/ w.bus # None /\ w.bus # d.bus
      \/ w.address # None /\ w.address # d.address
      \/ w.serial # "" /\ w.serial # d.serial
  BY <1>1, <1>2 DEF Considers, BuildSummary
<1> HIDE DEF w
<1>4. CASE selector = <<>>
  <2>1. w = [bus |-> None, address |-> None, interface |-> None, serial |-> ""]
    BY <1>4, WantedFields DEF w
  <2>2. w.bus = None /\ w.address = None /\ w.serial = ""
    BY <2>1
  <2> QED
    BY <1>3, <2>2
<1>5. CASE Numeric(selector)
  <2>1. d.bus = selector[1].value /\ d.address = selector[2].value
    <3>1. <<d.bus, d.address>> = <<selector[1].value, selector[2].value>>
      BY <1>5, WantedFields DEF Means
    <3> QED
      BY <3>1
  <2> QED
    BY <1>3, <1>5, <2>1, WantedFields DEF w
<1>6. CASE selector # <<>> /\ ~Numeric(selector)
  <2>1. selector[1].text = d.serial
    BY <1>6 DEF Means
  <2> QED
    BY <1>3, <1>6, <2>1, WantedFields DEF w
<1> QED
  BY <1>4, <1>5, <1>6

\* The hint is the third part of a selector.
LEMMA HintOf ==
  ASSUME NEW selector, Selectable(selector), ~(Numeric(selector) /\ Len(selector) = 3)
  PROVE  Wanted(selector).interface = None
<1>1. PICK w, b, a, s : w = [bus |-> b, address |-> a, interface |-> None, serial |-> s]
                        /\ w = Wanted(selector)
  BY DEF Wanted, ParseSelector
<1> QED
  BY <1>1, WantedRecord

\* The search throws at nothing but an adapter that obstructs it.
LEMMA ThrownAtObstructs ==
  ASSUME NEW d \in Device, NEW selector, Selectable(selector),
         Considers(d, Wanted(selector)) = "throw"
  PROVE  Obstructs(selector, d)
<1> DEFINE w == Wanted(selector)
           Bulk(i) == HasBulk(d.alts[i], "in") /\ HasBulk(d.alts[i], "out")
<1>1. d.ours = TRUE /\ "descriptor" \notin d.fails
  <2>1. d.ours \in BOOLEAN
    BY DEF Device
  <2> QED
    BY <2>1 DEF Considers
<1>2. CASE "config" \in d.fails
  BY <1>1, <1>2 DEF Obstructs
<1>3. CASE "config" \notin d.fails /\ FindBulkInterface(d, w.interface) = None
  <2> SUFFICES ASSUME NEW i \in DOMAIN d.alts, Bulk(i),
                      Numeric(selector) /\ Len(selector) = 3 => d.alts[i].number = selector[3].value
               PROVE  FALSE
    BY <1>1 DEF Obstructs
  <2>1. w.interface = None \/ d.alts[i].number = w.interface
    <3>1. CASE Numeric(selector) /\ Len(selector) = 3
      BY <3>1, WantedFields
    <3>2. CASE ~(Numeric(selector) /\ Len(selector) = 3)
      BY <3>2, HintOf
    <3> QED
      BY <3>1, <3>2
  <2> HIDE DEF w
  <2> QED
    BY <1>3, <2>1, InterfaceMissing
<1>4. CASE FindBulkInterface(d, w.interface) # None
  <2>1. /\ "open" \in d.fails
        /\ w.bus = None \/ w.bus = d.bus
        /\ w.address = None \/ w.address = d.address
        /\ w.serial = "" \/ w.serial = ReadSerial(d)
    BY <1>1, <1>4 DEF Considers, BuildSummary
  <2>2. Means(selector, d)
    <3>1. ReadSerial(d) = ""
      BY <2>1 DEF ReadSerial
    <3> HIDE DEF w
    <3>2. CASE selector = <<>>
      BY <1>1, <3>2 DEF Means
    <3>3. CASE Numeric(selector)
      <4>1. d.bus = selector[1].value /\ d.address = selector[2].value
        BY <2>1, <3>3, WantedFields DEF w
      <4>2. ASSUME Len(selector) = 3
            PROVE  selector[3].value \in {d.alts[i].number : i \in DOMAIN d.alts}
        <5>1. w.interface = selector[3].value /\ w.interface # None
          BY <3>3, <4>2, WantedFields DEF w
        <5> QED
          BY <1>4, <5>1, InterfaceThere
      <4> QED
        BY <1>1, <3>3, <4>1, <4>2 DEF Means
    <3>4. CASE selector # <<>> /\ ~Numeric(selector)
      BY <2>1, <3>1, <3>4, WantedFields DEF w
    <3> QED
      BY <3>2, <3>3, <3>4
  <2> QED
    BY <1>1, <2>1, <2>2 DEF Obstructs
<1> QED
  BY <1>2, <1>3, <1>4

\* What is listed can be selected.
LEMMA ListedSelectable ==
  ASSUME NEW scen \in Scenarios, NEW e \in ToSet(EnumerateDevices(scen.list))
  PROVE  LET selector == <<Number(e.bus), Number(e.address), Number(e.interface)>>
         IN  /\ Numeric(selector) /\ Selectable(selector) /\ Len(selector) = 3
             /\ selector[1].value = e.bus /\ selector[2].value = e.address
             /\ selector[3].value = e.interface /\ e.interface # None
<1> DEFINE selector == <<Number(e.bus), Number(e.address), Number(e.interface)>>
<1>1. PICK j \in Readable(scen.list) : e = Shown(scen.list[j])
  BY EnumeratesReadable
<1>2. j \in DOMAIN scen.list /\ FindBulkInterface(scen.list[j], None) # None
        /\ e.bus = scen.list[j].bus /\ e.address = scen.list[j].address
        /\ e.interface = FindBulkInterface(scen.list[j], None)
  BY <1>1 DEF Readable, Shown, BuildSummary
<1>3. e.bus \in Nat /\ e.address \in Nat /\ e.interface \in Nat
  <2>1. scen.list[j] \in Device
    BY <1>2, ScenarioRight
  <2> QED
    BY <1>2, <2>1, InterfaceFound DEF Device
<1>4. /\ Len(selector) = 3 /\ DOMAIN selector = 1 .. 3 /\ selector[1].value = e.bus
      /\ selector[2].value = e.address /\ selector[3].value = e.interface
  BY DEF Number
<1>5. Numeric(selector) /\ Selectable(selector)
  <2>1. \A k \in 1 .. 3 : selector[k].value \in Nat
    BY <1>3, <1>4
  <2> QED
    BY <1>4, <2>1 DEF Numeric, Selectable, IsNumber, None
<1> QED
  BY <1>2, <1>4, <1>5

\* A device of the list that is listed, and chosen as BUS:ADDR:IF, is what the session
\* makes of the device it chose.
LEMMA ListedIsChosen ==
  ASSUME NEW scen \in Scenarios, NEW i \in DOMAIN scen.list, NEW e \in ToSet(EnumerateDevices(scen.list)),
         NEW selector, selector = <<Number(e.bus), Number(e.address), Number(e.interface)>>,
         Means(selector, scen.list[i]),
         FindBulkInterface(scen.list[i], Wanted(selector).interface) # None
  PROVE  BuildSummary(scen.list[i], FindBulkInterface(scen.list[i], Wanted(selector).interface)) = e
<1>1. PICK j \in Readable(scen.list) : e = Shown(scen.list[j])
  BY EnumeratesReadable
<1>2. j \in DOMAIN scen.list /\ FindBulkInterface(scen.list[j], None) # None
        /\ e.bus = scen.list[j].bus /\ e.address = scen.list[j].address
        /\ e.interface = FindBulkInterface(scen.list[j], None)
  BY <1>1 DEF Readable, Shown, BuildSummary
<1>3. scen.list[i] \in Device /\ scen.list[j] \in Device
  BY <1>2, ScenarioRight
<1>4. /\ Numeric(selector) /\ Selectable(selector) /\ Len(selector) = 3
      /\ selector[1].value = e.bus /\ selector[2].value = e.address
      /\ selector[3].value = e.interface /\ e.interface # None
  BY ListedSelectable
<1>7. scen.list[i].bus = e.bus /\ scen.list[i].address = e.address
  <2>1. <<scen.list[i].bus, scen.list[i].address>> = <<selector[1].value, selector[2].value>>
    BY <1>4, WantedFields DEF Means
  <2> QED
    BY <1>4, <2>1
<1>8. i = j
  BY <1>2, <1>7, CppProgramAssumption
<1>9. Wanted(selector).interface = e.interface /\ e.interface # None
  BY <1>4, WantedFields
<1>10. FindBulkInterface(scen.list[i], Wanted(selector).interface) = e.interface
  BY <1>3, <1>9, InterfaceThere
<1> QED
  BY <1>1, <1>2, <1>8, <1>10 DEF Shown

-----------------------------------------------------------------------------
(***************************************************************************)
(* What was asked for, and what was opened: the inductive invariant of     *)
(* OpenedAsAsked, next to LifeInv.                                         *)
(***************************************************************************)

\* The options are those of the arguments, if they were understood, but for the
\* selector, which may come from the list.
Asked ==
    /\ pc \in {"start", "list"} => why = "none"
    /\ pc = "start" => listed = <<>>
    /\ why = "args" => pc \in {"unwind", "failed"}
    /\ Selectable(options.selector)
    /\ pc = "start" \/ why = "args" \/
          /\ Understood(scenario.args)
          /\ options.bitrate = ParseCommonOptions(scenario.args).bitrate
          /\ options.data_bitrate = ParseCommonOptions(scenario.args).data_bitrate

FromList ==
    listed # <<>> =>
        /\ listed = EnumerateDevices(scenario.list)
        /\ \E d \in ToSet(listed) :
              options.selector = <<Number(d.bus), Number(d.address), Number(d.interface)>>

\* The session is on a device that is meant, and on the interface found for it.
OnItsDevice ==
    session # NoSession =>
        /\ Means(options.selector, Chosen)
        /\ session.interface = FindBulkInterface(Chosen, Want.interface)
        /\ session.interface # None

\* A device that is meant was passed over only if something fails on it.
PassedOver(i) == Means(options.selector, scenario.list[i]) => scenario.list[i].fails # {}

\* A device that is not looked at, for one at which the search threw.
NotReached(i) == \E j \in 1 .. i : Obstructs(options.selector, scenario.list[j])

Searched ==
    plugged = TRUE =>
        /\ pc = "scan" => \A i \in DOMAIN scenario.list : i < index => PassedOver(i)
        /\ why = "no device" => \A i \in DOMAIN scenario.list : PassedOver(i)
        /\ why = "candidate" => \A i \in DOMAIN scenario.list : PassedOver(i) \/ NotReached(i)

\* The channels that are open were configured, with the timings there are.
Tune(c) ==
    /\ c \in DOMAIN session.channels
    /\ adapter[c] = Configured(BusOptions(c), Cap(c))
    /\ NominalTiming(BusOptions(c), Cap(c)) # NoTiming
    /\ BusOptions(c).fd => /\ Cap(c).data # NoLimits
                           /\ DataTiming(BusOptions(c), Cap(c)) # NoTiming

Tuned == pc \in {"next", "add", "configure"} => \A c \in ToSet(buses) : Tune(c)

\* A channel whose limits leave no timing for the rates.
Untunable(ch) ==
    \/ CalculateTiming(ch.nominal, options.bitrate, 80) = NoTiming
    \/ Program.fd /\ CalculateTiming(ch.data, options.data_bitrate, 80) = NoTiming

Refused ==
    why = "timing" =>
        \E i \in DOMAIN scenario.list : \E j \in DOMAIN scenario.list[i].channels :
            Untunable(scenario.list[i].channels[j])

OpenInv == Asked /\ FromList /\ OnItsDevice /\ Searched /\ Tuned /\ Refused

-----------------------------------------------------------------------------
\* The last argument of a name, where there is one.
LEMMA LastGiven ==
  ASSUME NEW args \in Seq(Argument), NEW name \in DOMAIN CommonOptions
  PROVE  \/ ParseCommonOptions(args)[name] = CommonOptions[name]
         \/ \E i \in DOMAIN args : /\ args[i].name = name
                                   /\ ParseCommonOptions(args)[name] = ParsedValue(args[i])
<1> DEFINE given == {i \in DOMAIN args : args[i].name = name}
<1>1. ParseCommonOptions(args)[name] =
        IF given = {} THEN CommonOptions[name] ELSE ParsedValue(args[Max(given)])
  BY DEF ParseCommonOptions
<1>2. ASSUME given # {} PROVE Max(given) \in DOMAIN args /\ args[Max(given)].name = name
  <2>1. given \subseteq 1 .. Len(args) /\ Len(args) \in Nat
    OBVIOUS
  <2>2. Max(given) \in given
    BY <1>2, <2>1, MaxIn
  <2> QED
    BY <2>2
<1> QED
  BY <1>1, <1>2

\* A bit rate is a number, and a selector is one of those there are.
LEMMA RateParsed ==
  ASSUME NEW args \in Seq(Argument), Understood(args), NEW name \in {"bitrate", "data_bitrate"}
  PROVE  ParseCommonOptions(args)[name] \in Nat
<1>1. name \in DOMAIN CommonOptions /\ CommonOptions[name] \in Nat
  BY DEF CommonOptions
<1>2. CASE \E i \in DOMAIN args : /\ args[i].name = name
                                  /\ ParseCommonOptions(args)[name] = ParsedValue(args[i])
  <2>1. PICK i \in DOMAIN args : /\ args[i].name = name
                                 /\ ParseCommonOptions(args)[name] = ParsedValue(args[i])
    BY <1>2
  <2> DEFINE v == args[i].value
             part == [value : Nat \cup {None}, text : STRING]
  <2>2. Len(v) = 1 /\ IsNumber(v[1])
    BY <1>1, <2>1 DEF Understood, Flags
  <2>3. v \in Seq(part)
    <3>1. args[i] \in Argument
      OBVIOUS
    <3> QED
      BY <3>1 DEF Argument
  <2> HIDE DEF v, part
  <2>4. 1 \in 1 .. Len(v)
    BY <2>2
  <2>5. v[1] \in part
    BY <2>3, <2>4, ElementOfSeq, Zenon
  <2>6. v[1].value \in Nat \cup {None} /\ v[1].value # None
    BY <2>2, <2>5 DEF part, IsNumber
  <2>7. ParsedValue(args[i]) = v[1].value
    BY <2>1 DEF ParsedValue, Flags, v
  <2> QED
    BY <2>1, <2>6, <2>7
<1> QED
  BY <1>1, <1>2, LastGiven

LEMMA SelectorParsed ==
  ASSUME NEW s \in Scenarios
  PROVE  Selectable(ParseCommonOptions(s.args).selector)
<1>1. s.args \in Seq(Argument)
  BY ScenarioRight
<1>2. "selector" \in DOMAIN CommonOptions /\ Selectable(CommonOptions["selector"])
  BY DEF CommonOptions, Selectable
<1>3. ASSUME NEW i \in DOMAIN s.args, s.args[i].name = "selector"
      PROVE  Selectable(ParsedValue(s.args[i]))
  <2>1. s.args[i] \in ToSet(s.args)
    BY <1>1, <1>3 DEF ToSet
  <2>2. \/ s.args[i].value = <<>> \/ Numeric(s.args[i].value)
        \/ Len(s.args[i].value) = 1 /\ s.args[i].value[1].text # ""
    BY <1>3, <2>1, CppProgramAssumption
  <2>3. s.args[i].value \in Seq([value : Nat \cup {None}, text : STRING])
    <3>1. s.args[i] \in Argument
      BY <1>1
    <3> QED
      BY <3>1 DEF Argument
  <2>4. DOMAIN s.args[i].value = 1 .. Len(s.args[i].value)
    BY <2>3
  <2>5. ParsedValue(s.args[i]) = s.args[i].value
    BY <1>3 DEF ParsedValue
  <2> QED
    BY <2>2, <2>4, <2>5 DEF Selectable
<1>4. Selectable(ParseCommonOptions(s.args)["selector"])
  BY <1>1, <1>2, <1>3, LastGiven
<1> QED
  BY <1>4

-----------------------------------------------------------------------------
\* What a step may do to the options, to the exception and to where the program is.
LEMMA Steps ==
  ASSUME LifeInv, Next
  PROVE  /\ scenario' = scenario
         /\ Start \/ List \/ UNCHANGED <<options, listed>>
         /\ why' = why \/ Start \/ NoneFound \/ Configure
              \/ why' \notin {"args", "no device", "timing"}
         /\ why' = "candidate" => why = "candidate" \/ SessionScan
         /\ why' = why \/ pc' = "unwind"
         /\ pc' \in {"start", "list"} => pc' = pc \/ EnsureLoaded
         /\ plugged' = plugged \/ plugged' = FALSE
<1> USE DEF progVars, usbVars, runVars, busVars, devVars, histVars, Goto, Throw
<1>1. CASE Start
  BY <1>1 DEF Start
<1>2. CASE EnsureLoaded
  BY <1>2 DEF EnsureLoaded
<1>3. CASE List
  BY <1>3 DEF List
<1>4. CASE NextBus \/ SessionInit \/ NoneFound \/ Claim \/ Query \/ AddBus
  BY <1>4 DEF NextBus, SessionInit, NoneFound, Claim, Query, AddBus
<1>5. CASE SessionScan
  BY <1>5, ConsidersThree DEF SessionScan
<1>6. CASE Configure
  BY <1>6 DEF Configure
<1>7. CASE Send
  BY <1>7 DEF Send
<1>8. CASE RecvQueued \/ RecvNothing
  BY <1>8 DEF RecvQueued, RecvNothing, AfterRecv
<1>9. CASE PollOnce \/ NextTick \/ DurationOver \/ DrainOver
  BY <1>9 DEF PollOnce, NextTick, DurationOver, DrainOver
<1>10. CASE ShutdownNext \/ Exit \/ Retry
  BY <1>10 DEF ShutdownNext, Exit, Retry
<1>11. CASE Crash \/ Transmit \/ Unplug
  BY <1>11 DEF Crash, Transmit, Unplug
<1> QED
  BY <1>1, <1>2, <1>3, <1>4, <1>5, <1>6, <1>7, <1>8, <1>9, <1>10, <1>11
     DEF Next, Library, Construct, Traffic, End

\* The examples look at the options, but not at the selector.
LEMMA SelectedFrom ==
  ASSUME NEW o, NEW selector, DOMAIN o = DOMAIN CommonOptions
  PROVE  LET p == [o EXCEPT !.selector = selector]
         IN  p.selector = selector /\ p.bitrate = o.bitrate /\ p.data_bitrate = o.data_bitrate
<1>1. {"selector", "bitrate", "data_bitrate"} \subseteq DOMAIN o
  BY DEF CommonOptions
<1> QED
  BY <1>1

LEMMA AskedKept ==
  ASSUME LifeInv, Asked, Next
  PROVE  Asked'
<1> USE DEF progVars, usbVars, runVars, busVars, devVars, histVars, Goto, Throw
<1>0. scenario \in Scenarios /\ scenario' = scenario /\ DOMAIN options = DOMAIN CommonOptions
  BY Steps DEF LifeInv, Types, OptionsRight
<1>1. CASE Start
  <2>1. pc = "start" /\ pc' \in {"load", "next", "unwind"} /\ Selectable(options.selector)
    BY <1>1 DEF Start, Asked
  <2>2. CASE Understood(scenario.args)
    <3>1. options' = ParseCommonOptions(scenario.args) /\ UNCHANGED <<why, listed>> /\ why = "none"
            /\ pc' # "unwind"
      BY <1>1, <2>1, <2>2 DEF Start, Asked
    <3>2. Selectable(options'.selector)
      BY <1>0, <3>1, SelectorParsed
    <3> QED
      BY <1>0, <2>1, <2>2, <3>1, <3>2 DEF Asked
  <2>3. CASE ~Understood(scenario.args)
    <3>1. pc' = "unwind" /\ why' = "args" /\ UNCHANGED <<options, listed>>
      BY <1>1, <2>3 DEF Start
    <3> QED
      BY <1>0, <2>1, <3>1 DEF Asked
  <2> QED
    BY <2>2, <2>3
<1>2. CASE List
  <2>1. pc = "list" /\ why = "none" /\ pc' \in {"next", "unwind"} /\ why' # "args"
          /\ (pc' # "unwind" => why' = why)
    BY <1>2 DEF List, At, Asked
  <2>2. CASE UNCHANGED options
    BY <1>0, <2>1, <2>2 DEF Asked
  <2>3. CASE ~UNCHANGED options
    <3>1. PICK d \in ToSet(EnumerateDevices(scenario.list)) :
            options' = [options EXCEPT !.selector =
                           <<Number(d.bus), Number(d.address), Number(d.interface)>>]
      BY <1>2, <2>3 DEF List
    <3> DEFINE selector == <<Number(d.bus), Number(d.address), Number(d.interface)>>
    <3>2. options'.selector = selector /\ options'.bitrate = options.bitrate
            /\ options'.data_bitrate = options.data_bitrate
      BY <1>0, <3>1, SelectedFrom
    <3>3. Selectable(selector)
      BY <1>0, ListedSelectable
    <3> HIDE DEF selector
    <3> QED
      BY <1>0, <2>1, <3>2, <3>3 DEF Asked
  <2> QED
    BY <2>2, <2>3
<1>3. CASE ~Start /\ ~List
  <2>1. UNCHANGED <<options, listed>> /\ (why' = why \/ why' # "args") /\ (why' = why \/ pc' = "unwind")
    <3>1. Configure => why' = why \/ why' # "args"
      BY DEF Configure
    <3>2. NoneFound => why' # "args"
      BY DEF NoneFound
    <3> QED
      BY <1>3, <3>1, <3>2, Steps
  <2>2. pc' \in {"start", "list"} => pc' = pc \/ (EnsureLoaded /\ pc' = "list" /\ pc = "load")
    <3>1. EnsureLoaded => pc = "load" /\ pc' # "start"
      BY DEF EnsureLoaded, AfterLoad
    <3> QED
      BY <3>1, Steps
  <2>3. pc' \in {"start", "list"} => why' = "none"
    <3>1. CASE pc' \in {"start", "list"} /\ pc' = pc
      BY <2>1, <3>1 DEF Asked
    <3>2. CASE EnsureLoaded /\ pc' = "list"
      BY <3>2 DEF EnsureLoaded, AfterLoad
    <3> QED
      BY <2>2, <3>1, <3>2
  <2>4. pc' = "start" => pc = "start"
    BY <2>2
  <2>5. why' = "args" => pc' \in {"unwind", "failed"}
    <3>1. CASE why' # why
      BY <2>1, <3>1
    <3>2. CASE why' = why /\ why = "args"
      <4>1. pc \in {"unwind", "failed"}
        BY <3>2 DEF Asked
      <4>2. ~Crash
        BY <4>1, CallsKnown DEF Crash
      <4>3. ~Library /\ ~Construct /\ ~Traffic
        BY <1>3, <4>1 DEF Library, Construct, Traffic, EnsureLoaded, NextBus, SessionInit,
           SessionScan, NoneFound, Claim, Query, AddBus, Configure, Send, RecvQueued, PollOnce,
           RecvNothing, NextTick, DurationOver, DrainOver, At
      <4>4. ~Retry
        BY <3>2 DEF Retry, Retries
      <4> QED
        BY <4>1, <4>2, <4>3, <4>4 DEF Next, End, ShutdownNext, Exit, Transmit, Unplug
    <3> QED
      BY <2>1, <3>1, <3>2
  <2>6. pc = "start" => pc' = "start" \/ why' = "args"
    <3>1. ASSUME pc = "start" PROVE pc' = "start"
      <4>1. ~Crash
        BY <3>1, CallsKnown DEF Crash
      <4>2. ~Library /\ ~Construct /\ ~Traffic /\ ~End
        BY <1>3, <3>1 DEF Library, Construct, Traffic, End, EnsureLoaded, NextBus, SessionInit,
           SessionScan, NoneFound, Claim, Query, AddBus, Configure, Send, RecvQueued, PollOnce,
           RecvNothing, NextTick, DurationOver, DrainOver, At, ShutdownNext, Exit, Retry
      <4> QED
        BY <3>1, <4>1, <4>2 DEF Next, Transmit, Unplug
    <3> QED
      BY <3>1
  <2>7. why = "args" => why' = "args"
    <3>1. ASSUME why = "args", why' # "args" PROVE FALSE
      <4>1. pc' = "unwind" /\ pc \in {"unwind", "failed"}
        BY <2>1, <3>1 DEF Asked
      <4>2. ~Crash
        BY <4>1, CallsKnown DEF Crash
      <4> QED
        BY <1>3, <3>1, <4>1, <4>2 DEF Next, Library, Construct, Traffic, End, EnsureLoaded, NextBus, SessionInit,
           SessionScan, NoneFound, Claim, Query, AddBus, Configure, Send, RecvQueued, PollOnce,
           RecvNothing, NextTick, DurationOver, DrainOver, At, ShutdownNext, Exit, Retry, Transmit, Unplug
    <3> QED
      BY <3>1
  <2> QED
    BY <1>0, <2>1, <2>3, <2>4, <2>5, <2>6, <2>7 DEF Asked
<1> QED
  BY <1>1, <1>2, <1>3

LEMMA ListKept ==
  ASSUME LifeInv, Asked, FromList, Next
  PROVE  FromList'
<1> USE DEF progVars, usbVars, runVars, busVars, devVars, histVars, Goto, Throw
<1>0. scenario' = scenario /\ DOMAIN options = DOMAIN CommonOptions
  BY Steps DEF LifeInv, OptionsRight
<1>1. CASE Start
  BY <1>0, <1>1 DEF Start, FromList, Asked
<1>2. CASE List
  <2>1. CASE UNCHANGED <<options, listed>>
    BY <1>0, <2>1 DEF FromList
  <2>2. CASE ~UNCHANGED <<options, listed>>
    <3>1. PICK d \in ToSet(EnumerateDevices(scenario.list)) :
            /\ listed' = EnumerateDevices(scenario.list)
            /\ options' = [options EXCEPT !.selector =
                              <<Number(d.bus), Number(d.address), Number(d.interface)>>]
      BY <1>2, <2>2 DEF List
    <3>2. options'.selector = <<Number(d.bus), Number(d.address), Number(d.interface)>>
      BY <1>0, <3>1, SelectedFrom
    <3> QED
      BY <1>0, <3>1, <3>2 DEF FromList
  <2> QED
    BY <2>1, <2>2
<1>3. CASE UNCHANGED <<options, listed>>
  BY <1>0, <1>3 DEF FromList
<1> QED
  BY <1>1, <1>2, <1>3, Steps

-----------------------------------------------------------------------------
\* A session is made by the search, and stays on its device and interface.
LEMMA SessionStays ==
  ASSUME LifeInv, Next, ~SessionScan, session' # NoSession
  PROVE  /\ session # NoSession /\ session'.device = session.device
         /\ session'.interface = session.interface /\ UNCHANGED <<scenario, options, listed>>
<1> USE DEF progVars, usbVars, runVars, busVars, devVars, histVars, Goto, Throw
<1>0. Types /\ SessionKnown /\ Owned /\ Accounted
  BY DEF LifeInv
<1>1. CASE UNCHANGED session
  <2>1. pc \notin {"start", "list"}
    BY <1>0, <1>1 DEF Owned, Opening, Before1st
  <2> QED
    BY <1>1, <2>1, Steps DEF Start, List, At
<1>2. CASE Query
  <2>1. session # NoSession /\ UNCHANGED <<scenario, options, listed>>
    BY <1>0, <1>2 DEF Query, At, Owned, Opening
  <2>2. session' = [device |-> session.device, refs |-> session.refs,
                    interface |-> session.interface, channels |-> ReadDeviceInfo(Chosen)]
    BY <1>2 DEF Query
  <2> QED
    BY <2>1, <2>2
<1>3. ASSUME NEW refs, session' = [session EXCEPT !.refs = refs], session # NoSession
      PROVE  session'.device = session.device /\ session'.interface = session.interface
  <2>1. {"device", "refs", "interface"} \subseteq DOMAIN session
    BY <1>0, <1>3 DEF SessionKnown
  <2> QED
    BY <1>3, <2>1
<1>4. CASE AddBus \/ Configure
  <2>1. session # NoSession /\ UNCHANGED <<scenario, options, listed>>
    BY <1>0, <1>4 DEF AddBus, Configure, At, Owned, Opening
  <2>2. session' = session \/ \E refs : session' = [session EXCEPT !.refs = refs]
    BY <1>4 DEF AddBus, Configure, ShutdownBus, Release
  <2> QED
    BY <1>3, <2>1, <2>2
<1>5. CASE ShutdownNext
  <2>1. session # NoSession /\ UNCHANGED <<scenario, options, listed>>
    BY <1>0, <1>5 DEF ShutdownNext, Owned, Opening
  <2>2. \E refs : session' = [session EXCEPT !.refs = refs]
    BY <1>5 DEF ShutdownNext, ShutdownBus, Release
  <2> QED
    BY <1>3, <2>1, <2>2
<1>6. Claim => UNCHANGED session
  BY DEF Claim
<1>7. ASSUME ~Claim, ~Query, ~AddBus, ~Configure, ~ShutdownNext
      PROVE  UNCHANGED session
  BY <1>7 DEF Next, Library, Construct, Traffic, End, Start, EnsureLoaded, List, NextBus, SessionInit,
     NoneFound, Send, RecvQueued, PollOnce, RecvNothing, NextTick, DurationOver, DrainOver,
     Exit, Retry, Crash, Transmit, Unplug
<1> QED
  BY <1>1, <1>2, <1>4, <1>5, <1>6, <1>7

\* The device that is taken is there, as it is in the list.
LEMMA TakenIsThere ==
  ASSUME NEW d \in Device, NEW want, Considers(Seen(d), want) = "take"
  PROVE  plugged /\ Considers(d, want) = "take"
<1>1. ASSUME ~plugged PROVE FALSE
  <2>1. "open" \in Seen(d).fails
    BY <1>1 DEF Seen, Device
  <2> QED
    BY <2>1 DEF Considers
<1> QED
  BY <1>1 DEF Seen

LEMMA OnItsDeviceKept ==
  ASSUME LifeInv, Asked, OnItsDevice, Next
  PROVE  OnItsDevice'
<1> SUFFICES ASSUME session' # NoSession PROVE OnItsDevice'
  BY DEF OnItsDevice
<1>1. CASE ~SessionScan
  <2>1. /\ session # NoSession /\ session'.device = session.device
        /\ session'.interface = session.interface /\ UNCHANGED <<scenario, options, listed>>
    BY <1>1, SessionStays
  <2> QED
    BY <2>1 DEF OnItsDevice, Chosen, Want
<1>2. CASE SessionScan
  <2>1. session = NoSession
    <3>1. pc = "scan"
      BY <1>2 DEF SessionScan, At
    <3> QED
      BY <3>1 DEF LifeInv, Owned, Before1st, Opening
  <2> DEFINE d == scenario.list[index]
  <2>2. /\ Considers(Seen(d), Want) = "take" /\ index \in DOMAIN scenario.list
        /\ session' = [device |-> index, refs |-> 0,
                       interface |-> FindBulkInterface(d, Want.interface)]
        /\ UNCHANGED <<scenario, options>>
    BY <1>2, <2>1, ConsidersThree DEF SessionScan, progVars, Goto, Throw
  <2>3. d \in Device
    BY <2>2, ScenarioRight DEF LifeInv, Types
  <2>4. Considers(d, Want) = "take" /\ Want = Wanted(options.selector)
    BY <2>2, <2>3, TakenIsThere DEF Want, Wanted
  <2>5. Means(options.selector, d) /\ FindBulkInterface(d, Want.interface) # None
    BY <2>3, <2>4, TakenIsMeant DEF Asked
  <2>6. session'.device = index /\ session'.interface = FindBulkInterface(d, Want.interface)
    BY <2>2
  <2>7. Chosen' = d /\ Want' = Want
    BY <2>2, <2>6 DEF Chosen, Want
  <2> QED
    BY <2>2, <2>5, <2>6, <2>7 DEF OnItsDevice
<1> QED
  BY <1>1, <1>2

LEMMA SearchedKept ==
  ASSUME LifeInv, Asked, Searched, Next
  PROVE  Searched'
<1> USE DEF progVars, usbVars, runVars, busVars, devVars, histVars, Goto, Throw
<1> SUFFICES ASSUME plugged' = TRUE PROVE Searched'
  BY DEF Searched
<1>0. /\ plugged = TRUE /\ scenario' = scenario
      /\ scenario.list \in Seq(Device) /\ \A i \in DOMAIN scenario.list : scenario.list[i] \in Device
      /\ index \in Nat \ {0}
  <2>1. plugged = TRUE
    BY Steps DEF LifeInv, Types
  <2> QED
    BY <2>1, Steps, ScenarioRight DEF LifeInv, Types
<1>1. CASE Start \/ List
  <2>1. why = "none" /\ pc' # "scan" /\ why' # "no device" /\ why' # "candidate"
    BY <1>1 DEF Start, List, At, Asked
  <2> QED
    BY <2>1 DEF Searched
<1>2. CASE UNCHANGED <<options, listed>>
  <2>1. ASSUME NEW i PROVE /\ PassedOver(i)' <=> PassedOver(i)
                           /\ NotReached(i)' <=> NotReached(i)
    BY <1>0, <1>2 DEF PassedOver, NotReached
  <2>2. ASSUME why' = "no device" PROVE \A i \in DOMAIN scenario.list : PassedOver(i)
    <3>1. CASE why = "no device"
      BY <1>0, <3>1 DEF Searched
    <3>2. CASE why # "no device"
      <4>1. NoneFound
        <5>1. Configure => why' = why \/ why' # "no device"
          BY DEF Configure
        <5>2. Start => why' = why \/ why' # "no device"
          BY DEF Start
        <5> QED
          BY <2>2, <3>2, <5>1, <5>2, Steps
      <4>2. pc = "scan" /\ index \notin DOMAIN scenario.list
        BY <4>1 DEF NoneFound, At
      <4>3. \A i \in DOMAIN scenario.list : i < index
        <5>1. DOMAIN scenario.list = 1 .. Len(scenario.list) /\ Len(scenario.list) \in Nat
          BY <1>0
        <5> QED
          BY <1>0, <4>2, <5>1
      <4> QED
        BY <1>0, <4>2, <4>3 DEF Searched
    <3> QED
      BY <3>1, <3>2
  <2>3. ASSUME pc' = "scan" PROVE \A i \in DOMAIN scenario.list : i < index' => PassedOver(i)
    <3>1. CASE SessionInit
      <4>1. index' = 1
        BY <1>0, <2>3, <3>1 DEF SessionInit
      <4>2. DOMAIN scenario.list = 1 .. Len(scenario.list)
        BY <1>0
      <4> QED
        BY <4>1, <4>2
    <3>2. CASE SessionScan
      <4> DEFINE d == scenario.list[index]
      <4>1. /\ pc = "scan" /\ index \in DOMAIN scenario.list /\ Considers(Seen(d), Want) = "skip"
            /\ index' = index + 1
        BY <2>3, <3>2, ConsidersThree DEF SessionScan, At
      <4>2. Seen(d) = d /\ Want = Wanted(options.selector) /\ d \in Device
        BY <1>0, <4>1 DEF Seen, Want, Wanted
      <4>3. Means(options.selector, d) => d.fails # {}
        BY <4>1, <4>2, SkippedIsNotMeant DEF Asked
      <4>4. PassedOver(index)
        BY <4>3 DEF PassedOver
      <4>5. \A i \in DOMAIN scenario.list : i < index => PassedOver(i)
        BY <1>0, <4>1 DEF Searched
      <4>6. \A i \in DOMAIN scenario.list : i < index + 1 => i < index \/ i = index
        <5>1. DOMAIN scenario.list = 1 .. Len(scenario.list)
          BY <1>0
        <5> QED
          BY <1>0, <5>1
      <4> QED
        BY <4>1, <4>4, <4>5, <4>6
    <3>3. CASE ~SessionInit /\ ~SessionScan
      <4>1. pc = "scan" /\ index' = index
        BY <2>3, <3>3, CallsKnown DEF Next, Library, Construct, Traffic, End, Start, EnsureLoaded, AfterLoad,
           List, NextBus, NoneFound, Claim, Query, AddBus, Configure, Send, RecvQueued, PollOnce,
           RecvNothing, AfterRecv, NextTick, DurationOver, DrainOver, At, ShutdownNext, Exit, Retry,
           Crash, Transmit, Unplug
      <4> QED
        BY <1>0, <4>1 DEF Searched
    <3> QED
      BY <3>1, <3>2, <3>3
  <2>4. ASSUME why' = "candidate"
        PROVE  \A i \in DOMAIN scenario.list : PassedOver(i) \/ NotReached(i)
    <3>1. CASE why = "candidate"
      BY <1>0, <3>1 DEF Searched
    <3>2. CASE why # "candidate"
      <4>1. SessionScan
        BY <2>4, <3>2, Steps
      <4> DEFINE d == scenario.list[index]
      <4>2. /\ pc = "scan" /\ index \in DOMAIN scenario.list /\ Considers(Seen(d), Want) = "throw"
        BY <2>4, <3>2, <4>1, ConsidersThree DEF SessionScan, At
      <4>3. Seen(d) = d /\ Want = Wanted(options.selector) /\ d \in Device
        BY <1>0, <4>2 DEF Seen, Want, Wanted
      <4>4. Obstructs(options.selector, d)
        BY <4>2, <4>3, ThrownAtObstructs DEF Asked
      <4>5. \A i \in DOMAIN scenario.list : i < index \/ index \in 1 .. i
        <5>1. DOMAIN scenario.list = 1 .. Len(scenario.list)
          BY <1>0
        <5> QED
          BY <1>0, <5>1
      <4>6. \A i \in DOMAIN scenario.list : i < index => PassedOver(i)
        BY <1>0, <4>2 DEF Searched
      <4> QED
        BY <4>4, <4>5, <4>6 DEF NotReached
    <3> QED
      BY <3>1, <3>2
  <2> QED
    BY <1>0, <2>1, <2>2, <2>3, <2>4 DEF Searched
<1> QED
  BY <1>1, <1>2, Steps

-----------------------------------------------------------------------------
\* make_bus_options: the demo's timings, or the rates of the options.
LEMMA BusOptionsAre ==
  ASSUME NEW o, NEW c, NEW fd, NEW custom
  PROVE  LET m == MakeBusOptions(o, c, fd, custom) IN
         /\ m.fd = fd
         /\ \/ m.nominal_timing # <<>> /\ m.nominal_timing[1] = CustomNominal
            \/ m.nominal_timing = <<>> /\ m.bitrate[1] = o.bitrate
         /\ fd => \/ m.data_timing # <<>> /\ m.data_timing[1] = CustomData
                  \/ m.data_timing = <<>> /\ m.data_bitrate[1] = o.data_bitrate
<1> DEFINE m == MakeBusOptions(o, c, fd, custom)
           nt == IF custom THEN <<CustomNominal>> ELSE <<>>
           br == IF custom THEN <<>> ELSE <<o.bitrate>>
           dt == IF fd /\ custom THEN <<CustomData>> ELSE <<>>
           db == IF fd /\ ~custom THEN <<o.data_bitrate>> ELSE <<>>
<1>1. /\ m.fd = fd /\ m.nominal_timing = nt /\ m.bitrate = br
      /\ m.data_timing = dt /\ m.data_bitrate = db
  <2> HIDE DEF nt, br, dt, db
  <2>1. m = [selector |-> o.selector, channel |-> c, fd |-> fd, termination |-> ~o.no_termination,
             nominal_timing |-> nt, bitrate |-> br, data_timing |-> dt, data_bitrate |-> db]
    BY Zenon DEF MakeBusOptions, nt, br, dt, db
  <2> HIDE DEF m
  <2> QED
    BY <2>1
<1> HIDE DEF m
<1>2. \/ nt # <<>> /\ nt[1] = CustomNominal
      \/ nt = <<>> /\ br[1] = o.bitrate
  OBVIOUS
<1>3. fd => \/ dt # <<>> /\ dt[1] = CustomData
            \/ dt = <<>> /\ db[1] = o.data_bitrate
  OBVIOUS
<1> HIDE DEF nt, br, dt, db
<1>4. /\ m.fd = fd
      /\ \/ m.nominal_timing # <<>> /\ m.nominal_timing[1] = CustomNominal
         \/ m.nominal_timing = <<>> /\ m.bitrate[1] = o.bitrate
      /\ fd => \/ m.data_timing # <<>> /\ m.data_timing[1] = CustomData
               \/ m.data_timing = <<>> /\ m.data_bitrate[1] = o.data_bitrate
  BY <1>1, <1>2, <1>3
<1> QED
  BY <1>4 DEF m

LEMMA CustomThere == CustomNominal # NoTiming /\ CustomData # NoTiming
<1>1. CustomNominal.brp # NoTiming.brp /\ CustomData.brp # NoTiming.brp
  BY DEF CustomNominal, CustomData, NoTiming
<1> QED
  BY <1>1

\* What a session knows of a channel is what the device's channel has.
LEMMA CapabilityOf ==
  ASSUME scenario \in Scenarios, SessionKnown, session # NoSession,
         pc \notin {"claim", "query", "crashed"}, NEW c \in DOMAIN session.channels
  PROVE  \E i \in DOMAIN scenario.list : \E j \in DOMAIN scenario.list[i].channels :
            LET ch == scenario.list[i].channels[j] IN
            /\ ch \in Channel /\ Cap(c).nominal = ch.nominal
            /\ Cap(c).data # NoLimits => Cap(c).data = ch.data
<1> DEFINE i == session.device
           ch == scenario.list[i].channels[c + 1]
<1>1. /\ i \in DOMAIN scenario.list /\ session.channels = ReadDeviceInfo(scenario.list[i])
      /\ scenario.list[i] \in Device
  BY ScenarioRight DEF SessionKnown, Chosen
<1>2. scenario.list[i].channels \in Seq(Channel)
  BY <1>1 DEF Device
<1>3. c \in 0 .. Len(scenario.list[i].channels) - 1 /\ Cap(c) = ReadChannelCapabilities(ch)
  BY <1>1 DEF ReadDeviceInfo, Cap
<1>4. c + 1 \in DOMAIN scenario.list[i].channels
  BY <1>2, <1>3
<1>5. ch \in Channel
  BY <1>2, <1>4
<1>6. Cap(c).nominal = ch.nominal /\ (Cap(c).data # NoLimits => Cap(c).data = ch.data)
  <2>1. PICK l : /\ Cap(c) = [fd |-> "FD" \in ch.features, timestamp |-> "HW_TIMESTAMP" \in ch.features,
                              termination |-> "TERMINATION" \in ch.features, nominal |-> ch.nominal,
                              data |-> l]
                 /\ l = IF ch.ext THEN ch.data ELSE NoLimits
    BY <1>3 DEF ReadChannelCapabilities
  <2> HIDE DEF ch
  <2> QED
    BY <2>1
<1> QED
  BY <1>1, <1>4, <1>5, <1>6

-----------------------------------------------------------------------------
LEMMA StillTuned ==
  ASSUME NEW c, UNCHANGED <<scenario, options>>, adapter'[c] = adapter[c],
         session'.channels = session.channels, Tune(c)
  PROVE  Tune(c)'
BY DEF Tune, Cap, BusOptions, Program

\* Where configure_channel is reached there are timings, and what it sets is set.
LEMMA ConfigureTunes ==
  ASSUME LifeInv, Tuned, Configure, pc' = "next"
  PROVE  \A c \in ToSet(buses') : Tune(c)'
<1> DEFINE d == NextChannel
           cap == session.channels[d]
           o == BusOptions(d)
<1>0. /\ pc = "configure" /\ buses \in Seq(AllChannels) /\ DOMAIN adapter = AllChannels
      /\ d \in DOMAIN session.channels /\ d \in AllChannels
  <2>1. pc = "configure" /\ session # NoSession
    BY DEF LifeInv, Owned, Configure, At, Opening
  <2>2. d \in DOMAIN session.channels
    BY <2>1 DEF LifeInv, OnTheirChannels
  <2>3. DOMAIN session.channels \subseteq AllChannels
    BY <2>1, SessionsDevice DEF LifeInv, Types
  <2> QED
    BY <2>1, <2>2, <2>3 DEF LifeInv, Types, OnlyBusesOn
<1>1. /\ NominalTiming(o, cap) # NoTiming
      /\ o.fd => cap.data # NoLimits /\ DataTiming(o, cap) # NoTiming
      /\ adapter' = [adapter EXCEPT ![d] = Configured(o, cap)]
      /\ buses' = Append(buses, d) /\ UNCHANGED <<session, scenario, options>>
  <2> DEFINE fails ==
               IF NominalTiming(o, cap) = NoTiming THEN "timing"
               ELSE IF o.fd /\ o.data_timing = <<>> /\ cap.data = NoLimits THEN "fd"
               ELSE IF o.fd /\ DataTiming(o, cap) = NoTiming THEN "timing"
               ELSE IF ~plugged THEN "transfer"
               ELSE IF o.fd /\ (~cap.fd \/ cap.data = NoLimits) THEN "fd" ELSE "none"
  <2>1. /\ fails = "none" /\ adapter' = [adapter EXCEPT ![d] = Configured(o, cap)]
        /\ buses' = Append(buses, d) /\ UNCHANGED <<session, scenario, options>>
    BY DEF Configure, Goto, Throw
  <2> QED
    BY <2>1
<1> HIDE DEF d
<1>2. PICK e \in AllChannels : e = d
  BY <1>0
<1>3. Tune(e)'
  <2>1. adapter'[e] = Configured(o, cap)
    BY <1>0, <1>1, <1>2
  <2>2. /\ DOMAIN session'.channels = DOMAIN session.channels /\ Cap(e)' = Cap(e)
        /\ BusOptions(e)' = BusOptions(e) /\ Cap(e) = cap /\ BusOptions(e) = o
    BY <1>1, <1>2 DEF Cap, BusOptions, Program
  <2> HIDE DEF cap, o
  <2> QED
    BY <1>0, <1>1, <1>2, <2>1, <2>2 DEF Tune
<1>4. ASSUME NEW c \in ToSet(buses'), c # e
      PROVE  Tune(c)'
  <2>1. c \in ToSet(buses)
    BY <1>0, <1>1, <1>2, <1>4, Appended DEF ToSet
  <2>2. c \in AllChannels
    BY <1>0, <2>1 DEF ToSet
  <2>3. adapter'[c] = adapter[c] /\ Tune(c)
    BY <1>0, <1>1, <1>2, <1>4, <2>1, <2>2 DEF Tuned
  <2> QED
    BY <1>1, <2>3, StillTuned
<1> QED
  BY <1>3, <1>4

LEMMA TunedKept ==
  ASSUME LifeInv, Tuned, Next
  PROVE  Tuned'
<1> USE DEF progVars, usbVars, runVars, busVars, devVars, histVars, Goto, Throw
<1> SUFFICES ASSUME pc' \in {"next", "add", "configure"} PROVE \A c \in ToSet(buses') : Tune(c)'
  BY DEF Tuned
<1>0. Types /\ SessionKnown /\ Owned
  BY DEF LifeInv
<1>1. CASE buses' = <<>>
  BY <1>1 DEF ToSet
<1>2. CASE NextBus \/ Transmit \/ Unplug
  <2>1. pc \in {"next", "add", "configure"} /\ UNCHANGED <<scenario, options, session, adapter, buses>>
    BY <1>2 DEF NextBus, Transmit, Unplug
  <2> QED
    BY <2>1, StillTuned DEF Tuned
<1>3. CASE AddBus
  <2>1. /\ pc = "add" /\ session' = [session EXCEPT !.refs = @ + 1] /\ session # NoSession
        /\ UNCHANGED <<scenario, options, adapter, buses>>
    BY <1>0, <1>3 DEF AddBus, Owned, Opening
  <2>2. session'.channels = session.channels
    BY <1>0, <2>1 DEF SessionKnown
  <2> QED
    BY <2>1, <2>2, StillTuned DEF Tuned
<1>4. CASE Configure
  <2>1. pc' = "next"
    BY <1>4 DEF Configure
  <2> QED
    BY <1>4, <2>1, ConfigureTunes
<1>5. ASSUME Start \/ List \/ Query PROVE buses' = <<>>
  <2>1. pc \in Before1st \cup {"query"}
    BY <1>5 DEF Start, List, Query, At, Before1st
  <2> QED
    BY <1>0, <1>5, <2>1 DEF Start, List, Query, Owned
<1>6. Retry => buses' = <<>>
  BY DEF Retry
<1>7. ~(EnsureLoaded \/ SessionInit \/ SessionScan \/ NoneFound \/ Claim)
  <2>1. ~EnsureLoaded
    BY DEF EnsureLoaded, AfterLoad
  <2>2. ~SessionInit /\ ~NoneFound /\ ~Claim
    BY DEF SessionInit, NoneFound, Claim
  <2>3. ~SessionScan
    BY ConsidersThree DEF SessionScan, At
  <2> QED
    BY <2>1, <2>2, <2>3
<1>8. ~Traffic
  BY DEF Traffic, Send, RecvQueued, PollOnce, RecvNothing, AfterRecv, NextTick, DurationOver, DrainOver, At
<1>9. ~(ShutdownNext \/ Exit \/ Crash)
  BY DEF ShutdownNext, Exit, Crash
<1> QED
  BY <1>1, <1>2, <1>3, <1>4, <1>5, <1>6, <1>7, <1>8, <1>9 DEF Next, Library, Construct, End

\* configure gives up for want of a timing only where calculate_timing found none.
LEMMA ConfigureRefused ==
  ASSUME LifeInv, Configure, why' = "timing", why' # why
  PROVE  \E i \in DOMAIN scenario.list : \E j \in DOMAIN scenario.list[i].channels :
            Untunable(scenario.list[i].channels[j])
<1> DEFINE d == NextChannel
           cap == session.channels[d]
           o == BusOptions(d)
<1>1. pc = "configure" /\ session # NoSession /\ d \in DOMAIN session.channels
  BY DEF LifeInv, Owned, OnTheirChannels, Configure, At, Opening
<1>2. \/ NominalTiming(o, cap) = NoTiming
      \/ /\ o.fd /\ DataTiming(o, cap) = NoTiming
         /\ ~(o.data_timing = <<>> /\ cap.data = NoLimits)
  <2> DEFINE fails ==
               IF NominalTiming(o, cap) = NoTiming THEN "timing"
               ELSE IF o.fd /\ o.data_timing = <<>> /\ cap.data = NoLimits THEN "fd"
               ELSE IF o.fd /\ DataTiming(o, cap) = NoTiming THEN "timing"
               ELSE IF ~plugged THEN "transfer"
               ELSE IF o.fd /\ (~cap.fd \/ cap.data = NoLimits) THEN "fd" ELSE "none"
  <2>1. fails = "timing"
    BY DEF Configure, Goto, Throw
  <2> QED
    BY <2>1
<1>3. /\ o.fd = Program.fd
      /\ \/ o.nominal_timing # <<>> /\ o.nominal_timing[1] = CustomNominal
         \/ o.nominal_timing = <<>> /\ o.bitrate[1] = options.bitrate
      /\ o.fd => \/ o.data_timing # <<>> /\ o.data_timing[1] = CustomData
                 \/ o.data_timing = <<>> /\ o.data_bitrate[1] = options.data_bitrate
  BY BusOptionsAre DEF BusOptions
<1> HIDE DEF d, o
<1>4. PICK i \in DOMAIN scenario.list : \E j \in DOMAIN scenario.list[i].channels :
        LET ch == scenario.list[i].channels[j] IN
        /\ ch \in Channel /\ Cap(d).nominal = ch.nominal
        /\ Cap(d).data # NoLimits => Cap(d).data = ch.data
  BY <1>1, CapabilityOf DEF LifeInv, Types
<1>5. PICK j \in DOMAIN scenario.list[i].channels :
        LET ch == scenario.list[i].channels[j] IN
        /\ cap.nominal = ch.nominal /\ (cap.data # NoLimits => cap.data = ch.data)
  BY <1>4 DEF Cap
<1>6. CASE NominalTiming(o, cap) = NoTiming
  <2>1. CalculateTiming(cap.nominal, options.bitrate, 80) = NoTiming
    BY <1>3, <1>6, CustomThere DEF NominalTiming
  <2> QED
    BY <1>5, <2>1 DEF Untunable
<1>7. CASE /\ o.fd /\ DataTiming(o, cap) = NoTiming
           /\ ~(o.data_timing = <<>> /\ cap.data = NoLimits)
  <2>1. cap.data # NoLimits /\ CalculateTiming(cap.data, options.data_bitrate, 80) = NoTiming
    BY <1>3, <1>7, CustomThere DEF DataTiming
  <2> QED
    BY <1>3, <1>5, <1>7, <2>1 DEF Untunable
<1> QED
  BY <1>2, <1>6, <1>7

LEMMA RefusedKept ==
  ASSUME LifeInv, Asked, Refused, Next
  PROVE  Refused'
<1> USE DEF progVars, usbVars, runVars, busVars, devVars, histVars, Goto, Throw
<1> SUFFICES ASSUME why' = "timing" PROVE Refused'
  BY DEF Refused
<1>0. scenario' = scenario
  BY Steps
<1>1. ~Start /\ ~List /\ ~NoneFound
  BY DEF Start, List, At, NoneFound, Asked
<1>2. UNCHANGED <<scenario, options>>
  BY <1>1, Steps
<1>3. ASSUME NEW ch PROVE Untunable(ch)' <=> Untunable(ch)
  BY <1>2 DEF Untunable, Program
<1>4. \E i \in DOMAIN scenario.list : \E j \in DOMAIN scenario.list[i].channels :
        Untunable(scenario.list[i].channels[j])
  <2>1. CASE why = "timing"
    BY <2>1 DEF Refused
  <2>2. CASE why # "timing"
    <3>1. Configure
      BY <1>1, <2>2, Steps
    <3> QED
      BY <2>2, <3>1, ConfigureRefused
  <2> QED
    BY <2>1, <2>2
<1> QED
  BY <1>0, <1>3, <1>4 DEF Refused

-----------------------------------------------------------------------------
LEMMA OpenInitially == Init => OpenInv
<1> SUFFICES ASSUME Init PROVE OpenInv
  OBVIOUS
<1>1. /\ pc = "start" /\ why = "none" /\ options = CommonOptions /\ listed = <<>>
      /\ session = NoSession /\ buses = <<>>
  BY DEF Init
<1>2. Selectable(options.selector)
  BY <1>1 DEF CommonOptions, Selectable
<1> QED
  BY <1>1, <1>2 DEF OpenInv, Asked, FromList, OnItsDevice, Searched, Tuned, Refused

\* The options stay those that were asked for, the session on a device that they mean,
\* and the channels tuned for the rates that they ask for.
THEOREM OpenInvariant == Spec => []OpenInv
<1>1. LifeInv /\ OpenInv /\ Next => OpenInv'
  BY AskedKept, ListKept, OnItsDeviceKept, SearchedKept, TunedKept, RefusedKept DEF OpenInv
<1>2. OpenInv /\ UNCHANGED vars => OpenInv'
  <2> SUFFICES ASSUME OpenInv, UNCHANGED vars PROVE OpenInv'
    OBVIOUS
  <2> USE DEF vars, progVars, usbVars, busVars, devVars
  <2>1. Asked' /\ FromList'
    BY DEF OpenInv, Asked, FromList
  <2>2. OnItsDevice' /\ Searched'
    BY DEF OpenInv, OnItsDevice, Searched, PassedOver, NotReached, Chosen, Want
  <2>3. Tuned'
    BY StillTuned DEF OpenInv, Tuned
  <2>4. Refused'
    BY DEF OpenInv, Refused, Untunable, Program
  <2> QED
    BY <2>1, <2>2, <2>3, <2>4 DEF OpenInv
<1>3. LifeInv /\ OpenInv /\ [Next]_vars => OpenInv'
  BY <1>1, <1>2
<1> QED
  BY <1>3, OpenInitially, LifeInvariant, PTL DEF Spec

\* The session is on the device that the user means and the interface that was listed:
\* the SDK's search and its enumeration agree.  None that is meant and works was
\* overlooked, unless an adapter stopped the search before it, or is the one itself,
\* that cannot be read or lacks the interface, or is meant and cannot be opened.
THEOREM AdapterMeant == Spec => []RightAdapter
<1>1. LifeInv /\ OpenInv => RightAdapter
  <2> SUFFICES ASSUME LifeInv, OpenInv PROVE RightAdapter
    OBVIOUS
  <2>1. scenario \in Scenarios
    BY DEF LifeInv, Types
  <2>2. ASSUME session # NoSession
        PROVE  /\ Means(options.selector, Chosen)
               /\ listed # <<>> => BuildSummary(Chosen, session.interface) \in ToSet(listed)
    <3>1. /\ Means(options.selector, Chosen) /\ session.interface # None
          /\ session.interface = FindBulkInterface(Chosen, Wanted(options.selector).interface)
      BY <2>2 DEF OpenInv, OnItsDevice, Want, Wanted
    <3>2. ASSUME listed # <<>> PROVE BuildSummary(Chosen, session.interface) \in ToSet(listed)
      <4>1. listed = EnumerateDevices(scenario.list)
        BY <3>2 DEF OpenInv, FromList
      <4>2. PICK e \in ToSet(EnumerateDevices(scenario.list)) :
              options.selector = <<Number(e.bus), Number(e.address), Number(e.interface)>>
        BY <3>2, <4>1 DEF OpenInv, FromList
      <4>3. session.device \in DOMAIN scenario.list
        BY <2>2 DEF LifeInv, SessionKnown
      <4>4. BuildSummary(Chosen, session.interface) = e
        BY <2>1, <3>1, <4>2, <4>3, ListedIsChosen DEF Chosen
      <4> QED
        BY <4>1, <4>4
    <3> QED
      BY <3>1, <3>2
  <2>3. ASSUME why \in {"no device", "candidate"}, plugged, NEW i \in DOMAIN scenario.list,
               Means(options.selector, scenario.list[i]), scenario.list[i].fails = {}
        PROVE  /\ why = "candidate"
               /\ \E j \in 1 .. i : Obstructs(options.selector, scenario.list[j])
    <3>1. plugged = TRUE
      BY <2>3 DEF LifeInv, Types
    <3>2. ~PassedOver(i)
      BY <2>3 DEF PassedOver
    <3> QED
      BY <2>3, <3>1, <3>2 DEF OpenInv, Searched, NotReached
  <2> QED
    BY <2>2, <2>3 DEF RightAdapter
<1> QED
  BY <1>1, LifeInvariant, OpenInvariant, PTL

LEMMA ConfiguredFields ==
  ASSUME NEW o, NEW cap
  PROVE  LET a == Configured(o, cap) IN
         /\ a.fd = o.fd /\ a.nominal = NominalTiming(o, cap)
         /\ o.fd => a.data = DataTiming(o, cap)
<1> DEFINE a == Configured(o, cap)
<1>1. PICK data, n : /\ a = [on |-> TRUE, nominal |-> n, data |-> data, fd |-> o.fd,
                             timestamp |-> cap.timestamp,
                             termination |-> cap.termination /\ o.termination]
                     /\ n = NominalTiming(o, cap)
                     /\ data = IF o.fd THEN DataTiming(o, cap) ELSE NoTiming
  BY Zenon DEF Configured
<1> HIDE DEF a
<1>2. a.fd = o.fd /\ a.nominal = n /\ a.data = data
  <2>1. a = [on |-> TRUE, nominal |-> n, data |-> data, fd |-> o.fd,
             timestamp |-> cap.timestamp,
             termination |-> cap.termination /\ o.termination]
    BY <1>1, Zenon
  <2> QED
    BY <2>1
<1>3. o.fd => data = DataTiming(o, cap)
  BY <1>1
<1> QED
  BY <1>1, <1>2, <1>3 DEF a

\* The limits of a scenario's channel and the rates of its arguments are among those
\* of which TimingsFound speaks.
LEMMA FoundHere ==
  ASSUME TimingsFound, NEW s \in Scenarios, Understood(s.args),
         NEW i \in DOMAIN s.list, NEW j \in DOMAIN s.list[i].channels
  PROVE  LET ch   == s.list[i].channels[j]
             Good(limits, rate) == /\ limits.tseg2_min > 0 /\ limits.sjw_max > 0
                                   /\ SearchSuffices(limits, rate, 80)
         IN  /\ Good(ch.nominal, ParseCommonOptions(s.args).bitrate)
             /\ Good(ch.data, ParseCommonOptions(s.args).data_bitrate)
<1> DEFINE ch == s.list[i].channels[j]
           chs == UNION {ToSet(d.channels) : d \in ToSet(s.list)}
<1>1. ch \in chs
  <2>1. s.list[i] \in ToSet(s.list) /\ ch \in ToSet(s.list[i].channels)
    BY DEF ToSet
  <2> QED
    BY <2>1
<1> HIDE DEF ch
<1>2. ASSUME NEW phase, NEW rate
      PROVE  <<ch[phase], ParseCommonOptions(s.args)[rate]>> \in AskedOf(phase, rate)
  <2>1. s \in {t \in Scenarios : Understood(t.args)}
    OBVIOUS
  <2> DEFINE here == {<<x[phase], ParseCommonOptions(s.args)[rate]>> : x \in chs}
  <2>2. <<ch[phase], ParseCommonOptions(s.args)[rate]>> \in here
    BY <1>1
  <2>3. here \subseteq AskedOf(phase, rate)
    BY <2>1 DEF AskedOf
  <2> QED
    BY <2>2, <2>3
<1>3. ASSUME NEW l, NEW r,
             <<l, r>> \in AskedOf("nominal", "bitrate") \cup AskedOf("data", "data_bitrate")
      PROVE  l.tseg2_min > 0 /\ l.sjw_max > 0 /\ SearchSuffices(l, r, 80)
  <2>1. <<l, r>>[1] = l /\ <<l, r>>[2] = r
    OBVIOUS
  <2> QED
    BY <1>3, <2>1 DEF TimingsFound
<1>4. <<ch.nominal, ParseCommonOptions(s.args).bitrate>> \in AskedOf("nominal", "bitrate")
  BY <1>2
<1>5. <<ch.data, ParseCommonOptions(s.args).data_bitrate>> \in AskedOf("data", "data_bitrate")
  BY <1>2
<1> QED
  BY <1>3, <1>4, <1>5 DEF ch

\* Where the search of calculate_timing suffices for the adapters and the rates, a bus
\* object has the timings given, or legal ones as near to the sample point as any, and
\* it throws only if there is no legal timing.
THEOREM OpenedRight ==
  ASSUME TimingsFound
  PROVE  Spec => []OpenedAsAsked
<1>1. LifeInv /\ OpenInv => RightTimings
  <2> SUFFICES ASSUME LifeInv, OpenInv PROVE RightTimings
    OBVIOUS
  <2>1. scenario \in Scenarios
    BY DEF LifeInv, Types
  <2> DEFINE asked == ParseCommonOptions(scenario.args)
  <2>2. ASSUME why # "args", pc # "start"
        PROVE  /\ Understood(scenario.args) /\ scenario.args \in Seq(Argument)
               /\ options.bitrate = asked.bitrate /\ options.data_bitrate = asked.data_bitrate
               /\ options.bitrate \in Nat /\ options.data_bitrate \in Nat
    <3>1. /\ Understood(scenario.args) /\ scenario.args \in Seq(Argument)
          /\ options.bitrate = asked.bitrate /\ options.data_bitrate = asked.data_bitrate
      BY <2>1, <2>2, ScenarioRight DEF OpenInv, Asked
    <3>2. asked["bitrate"] \in Nat /\ asked["data_bitrate"] \in Nat
      BY <3>1, RateParsed
    <3> QED
      BY <3>1, <3>2
  <2>3. ASSUME NEW i \in DOMAIN scenario.list, NEW j \in DOMAIN scenario.list[i].channels,
               why # "args", pc # "start"
        PROVE  LET ch == scenario.list[i].channels[j]
                   Best(limits, rate) ==
                      LET timing == CalculateTiming(limits, rate, 80) IN
                      IF timing = NoTiming THEN LegalTimings(limits, rate) = {}
                      ELSE IsNearest(timing, limits, rate, 80)
               IN  Best(ch.nominal, options.bitrate) /\ Best(ch.data, options.data_bitrate)
    <3> DEFINE ch == scenario.list[i].channels[j]
    <3>1. ch.nominal \in TimingLimits /\ ch.data \in TimingLimits
      <4>1. scenario.list[i] \in Device
        BY <2>1, ScenarioRight
      <4>2. scenario.list[i].channels \in Seq(Channel)
        BY <4>1 DEF Device
      <4>3. ch \in Channel
        BY <2>3, <4>2
      <4> HIDE DEF ch
      <4> QED
        BY <4>3 DEF Channel
    <3>2. /\ ch.nominal.tseg2_min > 0 /\ ch.nominal.sjw_max > 0
          /\ SearchSuffices(ch.nominal, options.bitrate, 80)
          /\ ch.data.tseg2_min > 0 /\ ch.data.sjw_max > 0
          /\ SearchSuffices(ch.data, options.data_bitrate, 80)
      BY <2>1, <2>2, <2>3, FoundHere
    <3>3. options.bitrate \in Nat /\ options.data_bitrate \in Nat
      BY <2>2, <2>3
    <3> HIDE DEF ch
    <3> QED
      BY <3>1, <3>2, <3>3, NearestTiming DEF ch
  <2>4. ASSUME pc = "next", NEW c \in ToSet(buses)
        PROVE  LET o == BusOptions(c) IN
               /\ adapter[c].fd = o.fd
               /\ IF o.nominal_timing # <<>> THEN adapter[c].nominal = o.nominal_timing[1]
                  ELSE IsNearest(adapter[c].nominal, Cap(c).nominal, o.bitrate[1], 80)
               /\ o.fd => IF o.data_timing # <<>> THEN adapter[c].data = o.data_timing[1]
                          ELSE IsNearest(adapter[c].data, Cap(c).data, o.data_bitrate[1], 80)
    <3> DEFINE o == BusOptions(c)
    <3>1. Tune(c)
      BY <2>4 DEF OpenInv, Tuned
    <3>2. session # NoSession
      <4>1. buses # <<>>
        BY DEF ToSet
      <4> QED
        BY <2>4, <4>1 DEF LifeInv, Owned, Opening
    <3>3. why # "args"
      BY <2>4 DEF OpenInv, Asked
    <3>4. /\ adapter[c].fd = o.fd /\ adapter[c].nominal = NominalTiming(o, Cap(c))
          /\ adapter[c].nominal # NoTiming
          /\ o.fd => /\ adapter[c].data = DataTiming(o, Cap(c)) /\ adapter[c].data # NoTiming
                     /\ Cap(c).data # NoLimits
      BY <3>1, ConfiguredFields DEF Tune
    <3>5. /\ o.nominal_timing # <<>> \/ o.bitrate[1] = options.bitrate
          /\ o.fd => o.data_timing # <<>> \/ o.data_bitrate[1] = options.data_bitrate
      BY BusOptionsAre DEF BusOptions
    <3>6. PICK i \in DOMAIN scenario.list : \E j \in DOMAIN scenario.list[i].channels :
            LET ch == scenario.list[i].channels[j] IN
            /\ ch \in Channel /\ Cap(c).nominal = ch.nominal
            /\ Cap(c).data # NoLimits => Cap(c).data = ch.data
      BY <2>1, <2>4, <3>1, <3>2, CapabilityOf DEF LifeInv, Tune
    <3>7. PICK j \in DOMAIN scenario.list[i].channels :
            LET ch == scenario.list[i].channels[j] IN
            /\ Cap(c).nominal = ch.nominal
            /\ Cap(c).data # NoLimits => Cap(c).data = ch.data
      BY <3>6
    <3> HIDE DEF o
    <3>8. ASSUME o.nominal_timing = <<>>
          PROVE  IsNearest(adapter[c].nominal, Cap(c).nominal, o.bitrate[1], 80)
      <4>1. adapter[c].nominal = CalculateTiming(Cap(c).nominal, options.bitrate, 80)
        BY <3>4, <3>5, <3>8 DEF NominalTiming
      <4> QED
        BY <2>3, <2>4, <3>3, <3>4, <3>5, <3>7, <3>8, <4>1
    <3>9. ASSUME o.fd, o.data_timing = <<>>
          PROVE  IsNearest(adapter[c].data, Cap(c).data, o.data_bitrate[1], 80)
      <4>1. adapter[c].data = CalculateTiming(Cap(c).data, options.data_bitrate, 80)
        BY <3>4, <3>5, <3>9 DEF DataTiming
      <4> QED
        BY <2>3, <2>4, <3>3, <3>4, <3>5, <3>7, <3>9, <4>1
    <3>10. /\ o.nominal_timing # <<>> => adapter[c].nominal = o.nominal_timing[1]
           /\ o.fd /\ o.data_timing # <<>> => adapter[c].data = o.data_timing[1]
      BY <3>4 DEF NominalTiming, DataTiming
    <3>11. /\ adapter[c].fd = o.fd
           /\ IF o.nominal_timing # <<>> THEN adapter[c].nominal = o.nominal_timing[1]
              ELSE IsNearest(adapter[c].nominal, Cap(c).nominal, o.bitrate[1], 80)
           /\ o.fd => IF o.data_timing # <<>> THEN adapter[c].data = o.data_timing[1]
                      ELSE IsNearest(adapter[c].data, Cap(c).data, o.data_bitrate[1], 80)
      BY <3>4, <3>8, <3>9, <3>10
    <3> QED
      BY <3>11 DEF o
  <2>5. ASSUME pc = "unwind", why = "timing"
        PROVE  \E d \in ToSet(scenario.list) : \E ch \in ToSet(d.channels) :
                  \/ LegalTimings(ch.nominal, options.bitrate) = {}
                  \/ Program.fd /\ LegalTimings(ch.data, options.data_bitrate) = {}
    <3>1. PICK i \in DOMAIN scenario.list : \E j \in DOMAIN scenario.list[i].channels :
            Untunable(scenario.list[i].channels[j])
      BY <2>5 DEF OpenInv, Refused
    <3>2. PICK j \in DOMAIN scenario.list[i].channels : Untunable(scenario.list[i].channels[j])
      BY <3>1
    <3> DEFINE ch == scenario.list[i].channels[j]
    <3>3. scenario.list[i] \in ToSet(scenario.list) /\ ch \in ToSet(scenario.list[i].channels)
      BY DEF ToSet
    <3>4. \/ LegalTimings(ch.nominal, options.bitrate) = {}
          \/ Program.fd /\ LegalTimings(ch.data, options.data_bitrate) = {}
      BY <2>3, <2>5, <3>2 DEF Untunable
    <3> HIDE DEF ch
    <3> QED
      BY <3>3, <3>4
  <2> QED
    BY <2>4, <2>5 DEF RightTimings
<1>2. Spec => []RightTimings
  BY <1>1, LifeInvariant, OpenInvariant, PTL
<1> QED
  BY <1>2, AdapterMeant, PTL DEF OpenedAsAsked

=============================================================================
