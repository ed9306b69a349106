--------------------------- MODULE GsUsbCanProofs ---------------------------
(***************************************************************************)
(* Proofs about GsUsbCan, for every set of devices, whatever features they *)
(* announce, both versions of the driver, every number of frames and of    *)
(* opens, and every length of the rx-offload queue.                        *)
(***************************************************************************)
EXTENDS GsUsbCan, SequenceTheorems, FiniteSetTheorems, TLAPS

USE DevicesAssumption, BoundsAssumption

-----------------------------------------------------------------------------
(***************************************************************************)
(* Sequences.                                                              *)
(***************************************************************************)
LEMMA AppendRange ==
  ASSUME NEW S, NEW s \in Seq(S), NEW x \in S
  PROVE  Append(s, x) \in Seq(S) /\ Range(Append(s, x)) = Range(s) \cup {x}
<1> DEFINE u == Append(s, x)
           L == Len(s)
<1>1. L \in Nat /\ DOMAIN s = 1 .. L BY LenProperties
<1>2. u \in Seq(S) /\ DOMAIN u = 1 .. L + 1 /\ u[L + 1] = x /\ \A i \in 1 .. L : u[i] = s[i]
  <2>1. u \in Seq(S) /\ Len(u) = L + 1 /\ u[L + 1] = x /\ \A i \in 1 .. L : u[i] = s[i]
    BY AppendProperties
  <2> HIDE DEF u
  <2>2. DOMAIN u = 1 .. Len(u) BY <2>1, LenProperties
  <2> QED BY <2>1, <2>2
<1> HIDE DEF u, L
<1>3. ASSUME NEW y \in Range(u) PROVE y \in Range(s) \cup {x}
  <2>1. PICK i \in DOMAIN u : y = u[i] BY <1>3 DEF Range
  <2>2. i = L + 1 \/ i \in 1 .. L BY <1>1, <1>2
  <2> QED BY <1>1, <1>2, <2>1, <2>2 DEF Range
<1>4. ASSUME NEW y \in Range(s) PROVE y \in Range(u)
  <2>1. PICK i \in DOMAIN s : y = s[i] BY <1>4 DEF Range
  <2>2. i \in DOMAIN u /\ u[i] = s[i] BY <1>1, <1>2
  <2> QED BY <2>1, <2>2 DEF Range
<1>5. x \in Range(u)
  <2>1. L + 1 \in DOMAIN u BY <1>1, <1>2
  <2> QED BY <1>2, <2>1 DEF Range
<1> QED BY <1>2, <1>3, <1>4, <1>5 DEF u

LEMMA HeadRange ==
  ASSUME NEW S, NEW s \in Seq(S), s # <<>>
  PROVE  /\ Head(s) \in S /\ Tail(s) \in Seq(S)
         /\ Range(s) = Range(Tail(s)) \cup {Head(s)}
<1> DEFINE u == Tail(s)
           h == Head(s)
           L == Len(s)
<1>1. L \in Nat \ {0} /\ DOMAIN s = 1 .. L /\ h = s[1] /\ h \in S
  BY EmptySeq, LenProperties, HeadTailProperties
<1>2. u \in Seq(S) /\ DOMAIN u = 1 .. L - 1 /\ \A i \in 1 .. L - 1 : u[i] = s[i + 1]
  <2>1. u \in Seq(S) /\ Len(u) = L - 1 /\ \A i \in 1 .. Len(u) : u[i] = s[i + 1]
    BY HeadTailProperties
  <2> HIDE DEF u
  <2>2. DOMAIN u = 1 .. Len(u) BY <2>1, LenProperties
  <2> QED BY <2>1, <2>2
<1> HIDE DEF u, L, h
<1>3. ASSUME NEW y \in Range(u) PROVE y \in Range(s)
  <2>1. PICK i \in DOMAIN u : y = u[i] BY <1>3 DEF Range
  <2>2. i + 1 \in DOMAIN s /\ y = s[i + 1] BY <1>1, <1>2, <2>1
  <2> QED BY <2>2 DEF Range
<1>4. ASSUME NEW y \in Range(s) PROVE y \in Range(u) \cup {h}
  <2>1. PICK i \in DOMAIN s : y = s[i] BY <1>4 DEF Range
  <2>2. CASE i = 1 BY <1>1, <2>1, <2>2
  <2>3. CASE i # 1
    <3>1. i - 1 \in 1 .. L - 1 /\ (i - 1) + 1 = i BY <1>1, <2>3
    <3>2. u[i - 1] = s[i] BY <1>2, <3>1
    <3> QED BY <1>2, <2>1, <3>1, <3>2 DEF Range
  <2> QED BY <2>2, <2>3
<1>5. h \in Range(s)
  <2>1. 1 \in DOMAIN s BY <1>1
  <2> QED BY <1>1, <2>1 DEF Range
<1> QED BY <1>1, <1>2, <1>3, <1>4, <1>5 DEF u, h

LEMMA EmptyRange == Range(<<>>) = {}
BY DEF Range

LEMMA SeqRanges == ASSUME NEW S, NEW s \in Seq(S) PROVE Range(s) \subseteq S
<1>1. \A i \in DOMAIN s : s[i] \in S BY LenProperties, ElementOfSeq
<1> QED BY <1>1 DEF Range

LEMMA Widened == ASSUME NEW S, NEW U, S \subseteq U, NEW s \in Seq(S) PROVE s \in Seq(U)
<1>1. PICK n \in Nat : n = Len(s) /\ s \in [1 .. n -> S] BY LenProperties
<1>2. s \in [1 .. n -> U] BY <1>1
<1> QED BY <1>1, <1>2

LEMMA FourRanges ==
  ASSUME NEW S, NEW T, NEW a \in Seq(S), NEW b \in Seq(T), NEW c \in Seq(T), NEW d \in Seq(T)
  PROVE  Range(a \o b \o c \o d) = Range(a) \cup Range(b) \cup Range(c) \cup Range(d)
<1> DEFINE U == S \cup T
<1>1. a \in Seq(U) /\ b \in Seq(U) /\ c \in Seq(U) /\ d \in Seq(U)
  <2>1. S \subseteq U /\ T \subseteq U OBVIOUS
  <2> HIDE DEF U
  <2> QED BY <2>1, Widened
<1> HIDE DEF U
<1>2. \A x, y \in Seq(U) : x \o y \in Seq(U) /\ Range(x \o y) = Range(x) \cup Range(y)
  <2> SUFFICES ASSUME NEW x \in Seq(U), NEW y \in Seq(U)
               PROVE  x \o y \in Seq(U) /\ Range(x \o y) = Range(x) \cup Range(y)
    OBVIOUS
  <2>1. x \o y \in Seq(U) BY ConcatProperties
  <2>2. Range(x \o y) = Range(x) \cup Range(y) BY RangeConcatenation
  <2> QED BY <2>1, <2>2
<1>3. PICK x \in Seq(U) : x = a \o b /\ Range(x) = Range(a) \cup Range(b) BY <1>1, <1>2
<1>4. PICK y \in Seq(U) : y = x \o c /\ Range(y) = Range(x) \cup Range(c) BY <1>1, <1>2
<1>5. Range(y \o d) = Range(y) \cup Range(d) BY <1>1, <1>2
<1> QED BY <1>3, <1>4, <1>5

\* To hand on the head of one sequence to another leaves the two, put together, as they are.
LEMMA HandOn ==
  ASSUME NEW S, NEW s \in Seq(S), NEW t \in Seq(S), t # <<>>
  PROVE  Append(s, Head(t)) \o Tail(t) = s \o t
<1>1. PICK h \in S : h = Head(t) BY HeadTailProperties
<1>2. PICK u \in Seq(S) : u = Tail(t) BY HeadTailProperties
<1>3. t = <<h>> \o u
  <2>1. PICK L \in Nat \ {0} : L = Len(t) BY EmptySeq
  <2>2. SubSeq(t, 1, L) = t BY <2>1, SubSeqFull
  <2>3. 1 \in 1 .. L /\ L \in 1 .. L BY <2>1
  <2>4. SubSeq(t, 1, L) = <<t[1]>> \o SubSeq(t, 1 + 1, L) BY <2>1, <2>3, SubSeqRecursiveFirst
  <2>5. Tail(t) = SubSeq(t, 2, L) BY <2>1, TailIsSubSeq
  <2>6. Head(t) = t[1] OBVIOUS
  <2> QED BY <1>1, <1>2, <2>2, <2>4, <2>5, <2>6
<1>4. <<h>> \in Seq(S) OBVIOUS
<1>5. Append(s, h) = s \o <<h>> BY AppendIsConcat
<1>6. (s \o <<h>>) \o u = s \o (<<h>> \o u) BY <1>4, ConcatAssociative
<1> QED BY <1>1, <1>2, <1>3, <1>5, <1>6

LEMMA AppendBehind ==
  ASSUME NEW S, NEW s \in Seq(S), NEW t \in Seq(S), NEW x \in S
  PROVE  s \o Append(t, x) = Append(s \o t, x)
<1>1. <<x>> \in Seq(S) /\ s \o t \in Seq(S) BY ConcatProperties
<1>2. Append(t, x) = t \o <<x>> BY AppendIsConcat
<1>3. Append(s \o t, x) = (s \o t) \o <<x>> BY <1>1, AppendIsConcat
<1> QED BY <1>1, <1>2, <1>3, ConcatAssociative

-----------------------------------------------------------------------------
(***************************************************************************)
(* Types.                                                                  *)
(***************************************************************************)
Errors  == {"CRTL", "RESTARTED", "WARNING", "PASSIVE", "BUSOFF"}
FrameType == [n : Nat, kind : {"data", "echo"}, err : SUBSET Errors, over : BOOLEAN, open : Nat]
EntryType == [n : Nat, kind : {"data", "echo", "overflow"}, over : BOOLEAN, stamp : Nat]

NetType == [pc : {"probe", "down", "state", "mode", "up", "kill", "stop", "reset"},
            running : BOOLEAN, ctrlmode : SUBSET Modes, timed : BOOLEAN,
            fdTimed : BOOLEAN, error : BOOLEAN, napi : BOOLEAN, sched : BOOLEAN,
            urbs : BOOLEAN]
DevType == [feature : SUBSET Features, supported : SUBSET Modes,
            data : {"extended", "nominal", "none"}, berr : BOOLEAN]
FwType  == [started : BOOLEAN, flags : SUBSET Modes, timed : BOOLEAN,
            fdTimed : BOOLEAN, state : States, opens : Nat, sent : Nat, size : Nat]
CbType  == [pc : {"idle", "handle", "overflow", "finish"}, frame : FrameType]

\* The types of the channel and of the device.
ChannelTypes ==
    /\ env \in [device : Devices, kernel : Kernels, others : BOOLEAN]
    /\ dev \in DevType /\ net \in NetType /\ fw \in FwType
    /\ request \in Requests /\ state \in States /\ misled \in BOOLEAN
    /\ fw.opens <= MaxOpens /\ fw.sent <= MaxFrames[env.device]

\* The types of the frames and their queues.
FrameTypes ==
    /\ pipe \in Seq(FrameType) /\ cb \in CbType
    /\ irqQueue \in Seq(EntryType) /\ napiQueue \in Seq(EntryType) /\ got \in Seq(EntryType)
    /\ lost \subseteq Nat

LEMMA NoFrameTyped == NoFrame \in FrameType /\ CbIdle \in CbType
BY DEF NoFrame, CbIdle, FrameType, CbType

LEMMA TypesInit == Init => ChannelTypes /\ FrameTypes
<1> SUFFICES ASSUME Init PROVE ChannelTypes /\ FrameTypes
  OBVIOUS
<1>1. PICK d \in Devices, k \in Kernels, o \in OthersOpen :
        env = [device |-> d, kernel |-> k, others |-> o]
  BY DEF Init
<1>2. env \in [device : Devices, kernel : Kernels, others : BOOLEAN] /\ env.device = d BY <1>1
<1>3. dev \in DevType BY DEF Init, NoDev, DevType
<1>4. net \in NetType BY DEF Init, NetType
<1>5. fw \in FwType /\ fw.opens = 0 /\ fw.sent = 0 BY DEF Init, FwType, States
<1>6. request \in Requests /\ state \in States /\ misled \in BOOLEAN
  BY DEF Init, Requests, States
<1>7. 0 <= MaxOpens /\ 0 <= MaxFrames[d] OBVIOUS
<1>8. ChannelTypes BY <1>2, <1>3, <1>4, <1>5, <1>6, <1>7 DEF ChannelTypes
<1>9. FrameTypes
  <2>1. <<>> \in Seq(FrameType) /\ <<>> \in Seq(EntryType) BY EmptySeq
  <2> QED BY <2>1, NoFrameTyped DEF Init, FrameTypes
<1> QED BY <1>8, <1>9

\* What the driver makes of an announcement.
LEMMA DevOfTyped == ASSUME NEW d \in Devices PROVE DevOf(d) \in DevType
<1>1. d \in DeviceType OBVIOUS
<1>2. d.feature \subseteq Features BY <1>1 DEF DeviceType
<1>3. Quirks(d) \subseteq Features BY DEF Quirks, Features
<1>4. Supported(d) \subseteq Modes BY DEF Supported
<1>5. DataConst(d) \in {"extended", "nominal", "none"} BY DEF DataConst
<1>6. ("GET_STATE" \in d.feature) \in BOOLEAN OBVIOUS
<1>7. ((d.feature \ Dropped(d)) \cup Quirks(d)) \subseteq Features BY <1>2, <1>3
<1> QED BY <1>4, <1>5, <1>6, <1>7 DEF DevOf, DevType

LEMMA SizesTyped ==
  ASSUME NEW fd, NEW stamp, NEW quirk PROVE HostFrame(fd, stamp, quirk) \in Nat
BY DEF HostFrame

\* A configuration whose transfer `failed' fails, if any, and that leaves the mode.
ConfiguresWith(m, failed, mode) ==
    /\ net.pc = "down" /\ m \subseteq dev.supported
    /\ failed # "BITTIMING" => mode = m
    /\ net' = [net EXCEPT !.ctrlmode = mode, !.timed = TRUE,
                          !.fdTimed = "FD" \in mode /\ (net.fdTimed \/ failed # "BITTIMING"),
                          !.error = failed # "none"]
    /\ request' = IF failed # "none" THEN failed
                  ELSE IF "FD" \in m THEN DataRequest ELSE "BITTIMING"
    /\ fw' = [fw EXCEPT !.timed = fw.timed \/ failed # "BITTIMING",
                        !.fdTimed = fw.fdTimed \/ ("FD" \in m /\ failed = "none"
                                                  /\ Understands(env.device, DataRequest))]
    /\ UNCHANGED <<env, dev, state, misled>>

LEMMA Configuring ==
  ASSUME NEW m, Configure(m)
  PROVE  \E failed \in Timings(m) \cup {"none"}, mode \in {m, net.ctrlmode} :
            ConfiguresWith(m, failed, mode)
BY DEF Configure, ConfiguresWith

\* Every step of the channel and of the device keeps the types.
LEMMA ChannelTypesStep == ASSUME ChannelTypes, FrameTypes, [Next]_vars PROVE ChannelTypes'
<1> USE DEF ChannelTypes
<1> DEFINE same == UNCHANGED <<env, dev, net, fw, request, state, misled>>
<1>1. CASE MakeCandev
  <2>1. dev' \in DevType /\ UNCHANGED <<env, fw, state, misled>>
    BY <1>1, DevOfTyped DEF MakeCandev, reception
  <2>2. request' \in Requests BY <1>1 DEF MakeCandev, Requests
  <2>3. net' \in NetType BY <1>1 DEF MakeCandev, NetType
  <2> QED BY <2>1, <2>2, <2>3
<1>2. ASSUME NEW m \in LinkModes, Configure(m) PROVE ChannelTypes'
  <2>1. m \in SUBSET Modes OBVIOUS
  <2>2. PICK failed \in Timings(m) \cup {"none"}, mode \in {m, net.ctrlmode} :
          ConfiguresWith(m, failed, mode)
    BY <1>2, Configuring
  <2>3. net' \in NetType
    <3>1. mode \in SUBSET Modes BY <2>1 DEF NetType
    <3>2. PICK x \in BOOLEAN, y \in BOOLEAN :
            net' = [net EXCEPT !.ctrlmode = mode, !.timed = TRUE, !.fdTimed = x, !.error = y]
      BY <2>2 DEF ConfiguresWith
    <3> QED BY <3>1, <3>2 DEF NetType
  <2>4. request' \in Requests BY <2>2 DEF ConfiguresWith, Requests, Timings, DataRequest
  <2>5. PICK x \in BOOLEAN, y \in BOOLEAN : fw' = [fw EXCEPT !.timed = x, !.fdTimed = y]
    BY <2>2 DEF ConfiguresWith
  <2>6. fw' \in FwType /\ fw'.opens = fw.opens /\ fw'.sent = fw.sent BY <2>5 DEF FwType
  <2> QED BY <2>2, <2>3, <2>4, <2>6 DEF ConfiguresWith
<1>3. CASE SetPhysId \/ SetTermination \/ GetBerrCounter
  <2>1. request' \in Requests /\ UNCHANGED <<env, dev, net, fw, state, misled>>
    BY <1>3 DEF SetPhysId, SetTermination, GetBerrCounter, Requests, reception
  <2> QED BY <2>1
<1>4. CASE OpenBegin
  <2>1. net' \in NetType BY <1>4 DEF OpenBegin, NetType
  <2>2. PICK z \in Nat : z = TxSize(net.ctrlmode) BY SizesTyped DEF TxSize
  <2>3. PICK o \in Nat : o = fw.opens BY DEF FwType
  <2>4. fw' = [fw EXCEPT !.opens = o + 1, !.size = z] /\ o < MaxOpens
    BY <1>4, <2>2, <2>3 DEF OpenBegin
  <2>5. fw' \in FwType /\ fw'.opens = o + 1 /\ fw'.sent = fw.sent
    <3>1. PICK k \in Nat : k = o + 1 OBVIOUS
    <3> QED BY <2>4, <3>1 DEF FwType
  <2>6. o + 1 <= MaxOpens BY <2>4
  <2>7. UNCHANGED <<env, dev, request, state, misled>> BY <1>4 DEF OpenBegin
  <2> QED BY <2>1, <2>5, <2>6, <2>7
<1>5. CASE SetErrorActive \/ StartDeviceFails \/ CloseBegin \/ KillRxUrbs \/ SetStopped
  <2>1. net' \in NetType
    <3>1. CASE SetErrorActive BY <3>1 DEF SetErrorActive, NetType
    <3>2. CASE StartDeviceFails BY <3>2 DEF StartDeviceFails, NetType
    <3>3. CASE CloseBegin BY <3>3 DEF CloseBegin, NetType
    <3>4. CASE KillRxUrbs
      <4>1. env.others \in BOOLEAN OBVIOUS
      <4> QED BY <3>4, <4>1 DEF KillRxUrbs, NetType
    <3>5. CASE SetStopped BY <3>5 DEF SetStopped, NetType
    <3> QED BY <1>5, <3>1, <3>2, <3>3, <3>4, <3>5
  <2>2. state' \in States /\ request' \in Requests /\ misled' \in BOOLEAN
    BY <1>5 DEF SetErrorActive, StartDeviceFails, CloseBegin, KillRxUrbs, SetStopped, States,
                Requests, reception
  <2>3. UNCHANGED <<env, dev, fw>>
    BY <1>5 DEF SetErrorActive, StartDeviceFails, CloseBegin, KillRxUrbs, SetStopped, reception
  <2> QED BY <2>1, <2>2, <2>3
<1>6. CASE StartDevice \/ ResetAndDisable
  <2>1. net' \in NetType
    <3>1. CASE StartDevice BY <3>1 DEF StartDevice, NetType
    <3>2. CASE ResetAndDisable BY <3>2 DEF ResetAndDisable, NetType
    <3> QED BY <1>6, <3>1, <3>2
  <2>2. ModeFlags \subseteq Modes BY DEF ModeFlags, NetType, Modes
  <2>3. fw' \in FwType /\ fw'.opens = fw.opens /\ fw'.sent = fw.sent
    <3>1. CASE StartDevice
      <4>1. PICK fl \in SUBSET Modes : fl = ModeFlags BY <2>2
      <4>2. fw' = [fw EXCEPT !.started = TRUE, !.flags = fl, !.state = "ERROR_ACTIVE"]
        BY <3>1, <4>1 DEF StartDevice
      <4> QED BY <4>2 DEF FwType, States
    <3>2. CASE ResetAndDisable BY <3>2 DEF ResetAndDisable, FwType, States
    <3> QED BY <1>6, <3>1, <3>2
  <2>4. request' \in Requests /\ UNCHANGED <<env, dev, state, misled>>
    BY <1>6 DEF StartDevice, ResetAndDisable, Requests
  <2> QED BY <2>1, <2>3, <2>4
<1>7. CASE Enter \/ Overflow \/ OverflowNoSkb BY <1>7 DEF Enter, Overflow, OverflowNoSkb
<1>8. CASE Handle
  <2>1. \A err : StateTold(err) \in States BY DEF StateTold, States
  <2>2. state' \in States /\ misled' \in BOOLEAN BY <1>8, <2>1 DEF Handle
  <2>3. UNCHANGED <<env, dev, request, net, fw>> BY <1>8 DEF Handle
  <2> QED BY <2>2, <2>3
<1>9. CASE HandleNoSkb BY <1>9 DEF HandleNoSkb
<1>10. CASE Finish \/ Poll
  <2>1. PICK x \in BOOLEAN : net' = [net EXCEPT !.sched = x] BY <1>10 DEF Finish, Poll
  <2>2. UNCHANGED <<env, dev, request, state, fw, misled>> BY <1>10 DEF Finish, Poll
  <2> QED BY <2>1, <2>2 DEF NetType
<1>11. CASE SendFrame \/ ChangeState
  <2>1. PICK s \in States : \E f : Send(f, s)
    BY <1>11 DEF SendFrame, ChangeState, FwType
  <2>2. PICK n \in Nat : n = fw.sent BY DEF FwType
  <2>3. fw' = [fw EXCEPT !.sent = n + 1, !.state = s] /\ n < MaxFrames[env.device]
        /\ UNCHANGED <<env, dev, request, net, state, misled>>
    BY <2>1, <2>2 DEF Send
  <2>4. fw' \in FwType /\ fw'.opens = fw.opens /\ fw'.sent = n + 1
    <3>1. PICK k \in Nat : k = n + 1 OBVIOUS
    <3> QED BY <2>3, <3>1 DEF FwType
  <2>5. MaxFrames[env.device] \in Nat OBVIOUS
  <2>6. n + 1 <= MaxFrames[env.device] BY <2>3, <2>5
  <2> QED BY <2>3, <2>4, <2>6
<1>12. CASE UNCHANGED vars \/ OpenUntimed BY <1>12 DEF vars, OpenUntimed
<1> QED BY <1>1, <1>2, <1>3, <1>4, <1>5, <1>6, <1>7, <1>8, <1>9, <1>10, <1>11, <1>12
        DEF Next, Control, OpenClose, Callback

-----------------------------------------------------------------------------
(***************************************************************************)
(* Frames: the inductive invariant.                                        *)
(***************************************************************************)

\* What has been queued or delivered, in order; and as a set.
All   == got \o napiQueue \o irqQueue
Taken == Range(irqQueue) \cup Range(napiQueue) \cup Range(got)

\* Before the device is known nothing is under way.
Fresh ==
    net.pc = "probe" => pipe = <<>> /\ cb = CbIdle /\ irqQueue = <<>>

\* All frames of the running callback are stamped alike, so that a sorted insertion
\* puts the youngest frame last.
Stamped == \A e \in Range(irqQueue) : e.stamp = IF Hw THEN e.n ELSE 0

\* The device's numbers: what is in the pipe is younger than what the callback handles,
\* and that is younger than what it has queued; an overflow notice comes after its frame.
Numbered ==
    /\ \A i, j \in DOMAIN pipe : i < j => pipe[i].n < pipe[j].n
    /\ \A f \in Range(pipe) : f.n \in 1 .. fw.sent
    /\ cb.pc # "idle" =>
         cb.frame.n \in 1 .. fw.sent /\ \A f \in Range(pipe) : cb.frame.n < f.n
    /\ \A e \in Taken :
         /\ e.n \in 1 .. fw.sent /\ e.stamp \in 0 .. fw.sent
         /\ \A f \in Range(pipe) : e.n < f.n
         /\ cb.pc = "handle" => e.n < cb.frame.n
         /\ cb.pc = "overflow" =>
              e.n < cb.frame.n \/ (e.n = cb.frame.n /\ e.kind # "overflow")
    /\ lost \subseteq 1 .. fw.sent

NumbersOf(S) == {x.n : x \in S}

\* No number is missing, and only a frame that lacks its overflow notice waits for the
\* callback to run again.
Complete ==
    /\ cb.pc \in {"idle", "handle", "overflow"} /\ irqQueue # <<>> =>
         Last(irqQueue).over = TRUE /\ Last(irqQueue).kind # "overflow"
    /\ cb.pc = "overflow" => cb.frame.over = TRUE
    /\ 1 .. fw.sent = NumbersOf(Range(pipe)) \cup NumbersOf(Taken) \cup lost
                      \cup (IF cb.pc = "handle" THEN {cb.frame.n} ELSE {})

FramesInv == FrameTypes /\ Fresh /\ Stamped /\ Numbered /\ Complete /\ InOrder(All)

LEMMA AllTyped ==
  ASSUME FrameTypes
  PROVE  All \in Seq(EntryType) /\ Range(All) = Taken
<1> USE DEF FrameTypes
<1>1. got \in Seq(EntryType) /\ napiQueue \in Seq(EntryType) /\ irqQueue \in Seq(EntryType)
  OBVIOUS
<1>2. got \o napiQueue \in Seq(EntryType) BY <1>1, ConcatProperties
<1>3. Range(got \o napiQueue) = Range(got) \cup Range(napiQueue) BY <1>1, RangeConcatenation
<1>4. PICK q \in Seq(EntryType) : q = got \o napiQueue /\ Range(q) = Range(got) \cup Range(napiQueue)
  BY <1>2, <1>3
<1>5. q \o irqQueue \in Seq(EntryType) BY <1>1, ConcatProperties
<1>6. Range(q \o irqQueue) = Range(q) \cup Range(irqQueue) BY <1>1, RangeConcatenation
<1> QED BY <1>4, <1>5, <1>6 DEF All, Taken

LEMMA AllTogether ==
  ASSUME NEW g \in Seq(EntryType), NEW n \in Seq(EntryType), NEW i \in Seq(EntryType)
  PROVE  (g \o (n \o i)) \o <<>> = (g \o n) \o i
<1>1. PICK q \in Seq(EntryType) : q = n \o i BY ConcatProperties
<1>2. PICK a \in Seq(EntryType) : a = g \o q BY ConcatProperties
<1>3. a \o <<>> = a BY ConcatEmptySeq
<1>4. (g \o n) \o i = g \o (n \o i) BY ConcatAssociative, SMTT(30)
<1> QED BY <1>1, <1>2, <1>3, <1>4

LEMMA AllAppended ==
  ASSUME NEW g \in Seq(EntryType), NEW n \in Seq(EntryType), NEW i \in Seq(EntryType),
         NEW e \in EntryType
  PROVE  (g \o n) \o Append(i, e) = Append((g \o n) \o i, e)
<1>1. PICK q \in Seq(EntryType) : q = g \o n BY ConcatProperties
<1> QED BY <1>1, AppendBehind

\* The order is kept when something is put last that comes after everything.
LEMMA OrderAppend ==
  ASSUME NEW s \in Seq(EntryType), NEW e \in EntryType, InOrder(s),
         \A x \in Range(s) :
            x.n < e.n \/ (x.n = e.n /\ x.kind # "overflow" /\ e.kind = "overflow")
  PROVE  InOrder(Append(s, e))
<1> DEFINE u == Append(s, e)
           L == Len(s)
<1>1. L \in Nat /\ DOMAIN s = 1 .. L BY LenProperties
<1>2. DOMAIN u = 1 .. L + 1 /\ u[L + 1] = e /\ \A i \in 1 .. L : u[i] = s[i]
  <2>1. u \in Seq(EntryType) /\ Len(u) = L + 1 /\ u[L + 1] = e /\ \A i \in 1 .. L : u[i] = s[i]
    BY AppendProperties
  <2> HIDE DEF u
  <2>2. DOMAIN u = 1 .. Len(u) BY <2>1, LenProperties
  <2> QED BY <2>1, <2>2
<1> HIDE DEF u, L
<1>3. \A i \in 1 .. L : s[i] \in Range(s) BY <1>1 DEF Range
<1>4. InOrder(u)
  <2> SUFFICES ASSUME NEW i \in 1 .. L + 1, NEW j \in 1 .. L + 1, i < j
               PROVE  \/ u[i].n < u[j].n
                      \/ u[i].n = u[j].n /\ u[i].kind # "overflow" /\ u[j].kind = "overflow"
    BY <1>2 DEF InOrder
  <2>1. i \in 1 .. L BY <1>1
  <2>2. CASE j \in 1 .. L BY <1>1, <1>2, <2>1, <2>2 DEF InOrder
  <2>3. CASE j = L + 1 BY <1>2, <1>3, <2>1, <2>3
  <2> QED BY <1>1, <2>2, <2>3
<1> QED BY <1>4 DEF u

LEMMA LastAppended ==
  ASSUME NEW s \in Seq(EntryType), NEW e \in EntryType PROVE Last(Append(s, e)) = e
BY AppendProperties DEF Last

\* A sorted insertion of what is not older than the rest puts it last.
LEMMA SortedLast ==
  ASSUME NEW q \in Seq(EntryType), NEW e \in EntryType,
         \A x \in Range(q) : x.stamp <= e.stamp
  PROVE  Sorted(q, e) = Append(q, e)
<1>1. PICK L \in Nat : L = Len(q) /\ DOMAIN q = 1 .. L BY LenProperties
<1>2. {i \in DOMAIN q : q[i].stamp <= e.stamp} = 1 .. L BY <1>1 DEF Range
<1>3. Max({0} \cup 1 .. L) = L
  <2> DEFINE S == {0} \cup 1 .. L
  <2>1. L \in S /\ \A y \in S : L >= y OBVIOUS
  <2>2. \A x \in S : (\A y \in S : x >= y) => x = L OBVIOUS
  <2> QED BY <2>1, <2>2 DEF Max
<1>4. Sorted(q, e) = InsertAt(q, 1 + L, e) BY <1>2, <1>3 DEF Sorted
<1>5. PICK k \in Nat : k = 1 + L OBVIOUS
<1>6. InsertAt(q, k, e) = SubSeq(q, 1, k - 1) \o <<e>> \o SubSeq(q, k, L)
  BY <1>1 DEF InsertAt
<1>7. SubSeq(q, 1, k - 1) = q
  <2>1. k - 1 = L BY <1>5
  <2> QED BY <1>1, <2>1, SubSeqFull
<1>8. SubSeq(q, k, L) = <<>>
  <2>1. L < k BY <1>5
  <2> QED BY <2>1, SubSeqEmpty
<1>9. <<e>> \in Seq(EntryType) /\ q \o <<e>> \in Seq(EntryType)
  <2>1. <<e>> \in Seq(EntryType) OBVIOUS
  <2> QED BY <2>1, ConcatProperties
<1>10. (q \o <<e>>) \o <<>> = q \o <<e>> BY <1>9, ConcatEmptySeq
<1>11. Append(q, e) = q \o <<e>> BY AppendIsConcat
<1> QED BY <1>4, <1>5, <1>6, <1>7, <1>8, <1>10, <1>11

LEMMA EntryTyped ==
  ASSUME NEW f \in FrameType, NEW kind \in {"data", "echo", "overflow"}
  PROVE  /\ Entry(f, kind) \in EntryType
         /\ Entry(f, kind).n = f.n /\ Entry(f, kind).kind = kind /\ Entry(f, kind).over = f.over
         /\ Entry(f, kind).stamp = IF Hw THEN f.n ELSE 0
<1>1. f.n \in Nat /\ f.over \in BOOLEAN BY DEF FrameType
<1>2. PICK s \in Nat : s = (IF Hw THEN f.n ELSE 0) BY <1>1
<1>3. Entry(f, kind) = [n |-> f.n, kind |-> kind, over |-> f.over, stamp |-> s]
  BY <1>2 DEF Entry, EchoStamp
<1> QED BY <1>1, <1>2, <1>3 DEF EntryType

\* Whatever the kernel and the stamps, a queued frame is put last.
LEMMA Queued ==
  ASSUME FrameTypes, Stamped, NEW f \in FrameType, NEW kind \in {"data", "echo", "overflow"},
         \A e \in Range(irqQueue) : e.n <= f.n, Queue(f, kind)
  PROVE  \/ irqQueue' = Append(irqQueue, Entry(f, kind)) /\ lost' = lost
         \/ irqQueue' = irqQueue /\ lost' = lost \cup (IF kind = "overflow" THEN {} ELSE {f.n})
<1> USE DEF FrameTypes
<1>1. PICK e \in EntryType : e = Entry(f, kind) /\ e.stamp = IF Hw THEN f.n ELSE 0
  BY EntryTyped
<1>2. \A x \in Range(irqQueue) : x.stamp <= e.stamp
  <2>1. \A x \in Range(irqQueue) : x.stamp = IF Hw THEN x.n ELSE 0 BY DEF Stamped
  <2>2. 0 <= 0 OBVIOUS
  <2> QED BY <1>1, <2>1, <2>2
<1>3. Sorted(irqQueue, e) = Append(irqQueue, e) BY <1>2, SortedLast
<1> QED BY <1>1, <1>3 DEF Queue, EchoQueueTail, QueueTail

LEMMA FramesInit == Init => FramesInv
<1> SUFFICES ASSUME Init PROVE FramesInv
  OBVIOUS
<1>1. FrameTypes BY TypesInit
<1>2. /\ pipe = <<>> /\ cb = CbIdle /\ irqQueue = <<>> /\ napiQueue = <<>> /\ got = <<>>
      /\ lost = {} /\ fw.sent = 0
  BY DEF Init
<1>3. Range(pipe) = {} /\ Taken = {} BY <1>2, EmptyRange DEF Taken
<1>4. cb.pc = "idle" BY <1>2 DEF CbIdle
<1>5. Fresh BY <1>2 DEF Fresh
<1>6. Stamped BY <1>2, EmptyRange DEF Stamped
<1>7. Numbered BY <1>2, <1>3, <1>4 DEF Numbered
<1>8. Complete BY <1>2, <1>3, <1>4 DEF Complete, NumbersOf
<1>9. InOrder(All)
  <2>1. All \in Seq(EntryType) /\ Range(All) = {} BY <1>1, <1>3, AllTyped
  <2>2. DOMAIN All = {} BY <2>1 DEF Range
  <2> QED BY <2>2 DEF InOrder
<1> QED BY <1>1, <1>5, <1>6, <1>7, <1>8, <1>9 DEF FramesInv

\* A step that leaves the frames alone.
LEMMA QuietFrames ==
  ASSUME FramesInv, UNCHANGED <<pipe, cb, irqQueue, napiQueue, got, lost>>,
         fw'.sent = fw.sent, dev' = dev \/ irqQueue = <<>>,
         net'.pc = "probe" => net.pc = "probe"
  PROVE  FramesInv'
<1> USE DEF FramesInv
<1>1. FrameTypes' BY DEF FrameTypes
<1>2. Fresh' BY DEF Fresh
<1>3. Stamped'
  <2>1. CASE dev' = dev BY <2>1 DEF Stamped, Hw
  <2>2. CASE irqQueue = <<>>
    <3>1. Range(irqQueue') = {} BY <2>2, EmptyRange
    <3> QED BY <3>1 DEF Stamped
  <2> QED BY <2>1, <2>2
<1>4. Numbered' BY DEF Numbered, Taken
<1>5. Complete' BY DEF Complete, Taken
<1>6. All' = All BY DEF All
<1> QED BY <1>1, <1>2, <1>3, <1>4, <1>5, <1>6 DEF InOrder

\* A frame leaves the pipe, for the callback or lost.
LEMMA EnterStep ==
  ASSUME FramesInv, ChannelTypes, Enter PROVE FramesInv'
<1> USE DEF FramesInv, FrameTypes
<1>1. /\ cb.pc = "idle" /\ pipe # <<>> /\ pipe' = Tail(pipe)
      /\ UNCHANGED <<dev, fw, net, irqQueue, napiQueue, got>>
  BY DEF Enter, offload
<1>2. PICK h \in FrameType : h = Head(pipe) BY <1>1, HeadRange
<1>3. Tail(pipe) \in Seq(FrameType) /\ Range(pipe) = Range(pipe') \cup {h}
  BY <1>1, <1>2, HeadRange
<1>4. \/ cb' = [pc |-> "handle", frame |-> h] /\ lost' = lost
      \/ cb' = cb /\ lost' = lost \cup {h.n}
  BY <1>2 DEF Enter
<1>5. h \in Range(pipe) /\ h.n \in 1 .. fw.sent /\ h.n \in Nat
  BY <1>2, <1>3 DEF Numbered, FrameType
<1>6. \A i \in DOMAIN pipe' : i + 1 \in DOMAIN pipe /\ pipe'[i] = pipe[i + 1]
  <2>1. PICK L \in Nat \ {0} : L = Len(pipe) /\ DOMAIN pipe = 1 .. L
    BY <1>1, EmptySeq, LenProperties
  <2>2. Len(Tail(pipe)) = L - 1 /\ \A i \in 1 .. Len(Tail(pipe)) : Tail(pipe)[i] = pipe[i + 1]
    BY <1>1, <2>1, HeadTailProperties
  <2>3. DOMAIN pipe' = 1 .. Len(pipe') BY <1>1, <1>3, LenProperties
  <2> QED BY <1>1, <2>1, <2>2, <2>3
<1>7. \A f \in Range(pipe') : h.n < f.n
  <2> SUFFICES ASSUME NEW i \in DOMAIN pipe' PROVE h.n < pipe'[i].n
    BY DEF Range
  <2>1. i + 1 \in DOMAIN pipe /\ pipe'[i] = pipe[i + 1] BY <1>6
  <2>2. PICK L \in Nat \ {0} : L = Len(pipe) /\ DOMAIN pipe = 1 .. L
    BY <1>1, EmptySeq, LenProperties
  <2>3. 1 \in DOMAIN pipe /\ h = pipe[1] BY <1>1, <1>2, <2>2
  <2>4. i \in Int /\ i >= 1
    <3>1. DOMAIN pipe' = 1 .. Len(pipe') /\ Len(pipe') \in Nat BY <1>1, <1>3, LenProperties
    <3> QED BY <3>1
  <2>5. 1 < i + 1 BY <2>4
  <2> QED BY <2>1, <2>3, <2>5 DEF Numbered
<1>8. FrameTypes'
  <2>1. cb' \in CbType BY <1>2, <1>4 DEF CbType
  <2>2. lost' \subseteq Nat BY <1>4, <1>5
  <2> QED BY <1>1, <1>3, <2>1, <2>2
<1>9. Fresh'
  <2>1. net.pc # "probe" BY <1>1 DEF Fresh
  <2> QED BY <1>1, <2>1 DEF Fresh
<1>10. Stamped' BY <1>1 DEF Stamped, Hw
<1>11. Numbered'
  <2>1. \A i, j \in DOMAIN pipe' : i < j => pipe'[i].n < pipe'[j].n
    <3> SUFFICES ASSUME NEW i \in DOMAIN pipe', NEW j \in DOMAIN pipe', i < j
                 PROVE  pipe'[i].n < pipe'[j].n
      OBVIOUS
    <3>1. i + 1 \in DOMAIN pipe /\ j + 1 \in DOMAIN pipe
          /\ pipe'[i] = pipe[i + 1] /\ pipe'[j] = pipe[j + 1]
      BY <1>6
    <3>2. DOMAIN pipe' = 1 .. Len(pipe') /\ Len(pipe') \in Nat BY <1>1, <1>3, LenProperties
    <3>3. i + 1 < j + 1 BY <3>2
    <3> QED BY <3>1, <3>3 DEF Numbered
  <2>2. \A f \in Range(pipe') : f.n \in 1 .. fw.sent BY <1>3 DEF Numbered
  <2>3. cb'.pc # "idle" => cb'.frame = h BY <1>1, <1>4
  <2>4. cb'.pc # "overflow" /\ (cb'.pc = "handle" => cb'.frame = h) BY <1>1, <1>4
  <2>5. \A e \in Taken : /\ e.n \in 1 .. fw.sent /\ e.stamp \in 0 .. fw.sent
                         /\ \A f \in Range(pipe) : e.n < f.n
    BY DEF Numbered
  <2>6. lost' \subseteq 1 .. fw.sent BY <1>4, <1>5 DEF Numbered
  <2>7. Taken' = Taken BY <1>1 DEF Taken
  <2> QED BY <1>1, <1>3, <1>5, <1>7, <2>1, <2>2, <2>3, <2>4, <2>5, <2>6, <2>7 DEF Numbered
<1>12. Complete'
  <2>1. irqQueue # <<>> => Last(irqQueue).over = TRUE /\ Last(irqQueue).kind # "overflow"
    BY <1>1 DEF Complete
  <2>2. cb'.pc # "overflow" BY <1>1, <1>4
  <2>3. NumbersOf(Range(pipe)) = NumbersOf(Range(pipe')) \cup {h.n}
    BY <1>3 DEF NumbersOf
  <2>4. 1 .. fw.sent = NumbersOf(Range(pipe)) \cup NumbersOf(Taken) \cup lost
    BY <1>1 DEF Complete
  <2>5. Taken' = Taken BY <1>1 DEF Taken
  <2>6. CASE cb' = [pc |-> "handle", frame |-> h] /\ lost' = lost
    <3>1. 1 .. fw.sent = NumbersOf(Range(pipe')) \cup NumbersOf(Taken) \cup lost \cup {h.n}
      BY <2>3, <2>4
    <3> QED BY <1>1, <2>1, <2>2, <2>5, <2>6, <3>1 DEF Complete
  <2>7. CASE cb' = cb /\ lost' = lost \cup {h.n}
    <3>1. 1 .. fw.sent = NumbersOf(Range(pipe')) \cup NumbersOf(Taken) \cup lost'
      BY <2>3, <2>4, <2>7
    <3> QED BY <1>1, <2>1, <2>2, <2>5, <2>7, <3>1 DEF Complete
  <2> QED BY <1>4, <2>6, <2>7
<1>13. All' = All BY <1>1 DEF All
<1> QED BY <1>8, <1>9, <1>10, <1>11, <1>12, <1>13 DEF InOrder

\* The callback queues the frame it handles, or its overflow notice, and goes on.
LEMMA QueueStep ==
  ASSUME FramesInv, fw.sent \in Nat, NEW kind \in {"data", "echo", "overflow"}, NEW x \in {"overflow", "finish"},
         \/ cb.pc = "handle" /\ kind = cb.frame.kind /\ (x = "overflow" => cb.frame.over = TRUE)
         \/ cb.pc = "overflow" /\ kind = "overflow" /\ x = "finish",
         Queue(cb.frame, kind), cb' = [cb EXCEPT !.pc = x],
         UNCHANGED <<pipe, napiQueue, got, dev, fw, net>>
  PROVE  FramesInv'
<1> USE DEF FramesInv, FrameTypes
<1>1. PICK f \in FrameType : f = cb.frame BY DEF CbType
<1>2. cb'.pc = x /\ cb'.frame = f /\ cb' \in CbType /\ cb.pc \in {"handle", "overflow"}
  BY <1>1 DEF CbType
<1>3. f.n \in 1 .. fw.sent /\ f.n \in Nat /\ f.kind \in {"data", "echo"}
      /\ \A g \in Range(pipe) : f.n < g.n
  BY <1>1, <1>2 DEF Numbered, FrameType
<1>4. \A e \in Taken : \/ cb.pc = "handle" /\ e.n < f.n
                       \/ cb.pc = "overflow" /\ (e.n < f.n \/ (e.n = f.n /\ e.kind # "overflow"))
  BY <1>1, <1>2 DEF Numbered
<1>5. Range(irqQueue) \subseteq Taken /\ \A e \in Taken : e.n \in 1 .. fw.sent
  BY DEF Taken, Numbered
<1>6. \A e \in Range(irqQueue) : e.n <= f.n
  <2>1. \A e \in Taken : e.n \in Int /\ (e.n < f.n \/ e.n = f.n) BY <1>4, <1>5
  <2>2. ASSUME NEW e \in Taken PROVE e.n <= f.n
    <3>1. PICK k \in Int : k = e.n /\ (k < f.n \/ k = f.n) BY <2>1
    <3> QED BY <1>3, <3>1
  <2> QED BY <1>5, <2>2
<1>7. PICK e \in EntryType : /\ e = Entry(f, kind) /\ e.n = f.n /\ e.kind = kind
                             /\ e.over = f.over /\ e.stamp = IF Hw THEN f.n ELSE 0
  BY EntryTyped
<1>8. \/ irqQueue' = Append(irqQueue, e) /\ lost' = lost
      \/ irqQueue' = irqQueue /\ lost' = lost \cup (IF kind = "overflow" THEN {} ELSE {f.n})
  BY <1>1, <1>6, <1>7, Queued
<1>9. \/ irqQueue' = Append(irqQueue, e) /\ lost' = lost /\ Taken' = Taken \cup {e}
         /\ Range(irqQueue') = Range(irqQueue) \cup {e} /\ irqQueue' \in Seq(EntryType)
      \/ irqQueue' = irqQueue /\ Taken' = Taken
         /\ lost' = lost \cup (IF kind = "overflow" THEN {} ELSE {f.n})
  <2>1. /\ Append(irqQueue, e) \in Seq(EntryType)
        /\ Range(Append(irqQueue, e)) = Range(irqQueue) \cup {e}
    BY AppendRange
  <2> QED BY <1>8, <2>1 DEF Taken
<1>10. FrameTypes' BY <1>2, <1>3, <1>9
<1>11. Fresh'
  <2>1. cb.pc # "idle" BY <1>2
  <2>2. net.pc # "probe" BY <2>1 DEF Fresh, CbIdle
  <2> QED BY <2>2 DEF Fresh
<1>12. Stamped'
  <2>1. \A y \in Range(irqQueue) : y.stamp = IF Hw THEN y.n ELSE 0 BY DEF Stamped
  <2>2. \A y \in Range(irqQueue') : y.stamp = IF Hw THEN y.n ELSE 0 BY <1>7, <1>9, <2>1
  <2> QED BY <2>2 DEF Stamped, Hw
<1>13. e.stamp \in 0 .. fw.sent
  <2>1. 0 \in 0 .. fw.sent /\ f.n \in 0 .. fw.sent BY <1>3
  <2> QED BY <1>7, <2>1
<1>14. \A y \in Taken' : /\ y.n \in 1 .. fw.sent /\ y.stamp \in 0 .. fw.sent
                         /\ \A g \in Range(pipe) : y.n < g.n
  <2>1. \A y \in Taken : /\ y.n \in 1 .. fw.sent /\ y.stamp \in 0 .. fw.sent
                         /\ \A g \in Range(pipe) : y.n < g.n
    BY DEF Numbered
  <2> QED BY <1>3, <1>7, <1>9, <1>13, <2>1
<1>15. Numbered'
  <2>1. x = "overflow" => \A y \in Taken' : y.n < f.n \/ (y.n = f.n /\ y.kind # "overflow")
    BY <1>1, <1>3, <1>4, <1>7, <1>9
  <2>2. lost' \subseteq 1 .. fw.sent BY <1>3, <1>9 DEF Numbered
  <2>3. \A i, j \in DOMAIN pipe : i < j => pipe[i].n < pipe[j].n BY DEF Numbered
  <2>4. \A g \in Range(pipe) : g.n \in 1 .. fw.sent BY DEF Numbered
  <2> QED BY <1>2, <1>3, <1>14, <2>1, <2>2, <2>3, <2>4 DEF Numbered
<1>16. Complete'
  <2>1. 1 .. fw.sent = NumbersOf(Range(pipe)) \cup NumbersOf(Taken) \cup lost
                       \cup (IF cb.pc = "handle" THEN {f.n} ELSE {})
    BY <1>1 DEF Complete
  <2>2. \/ NumbersOf(Taken') = NumbersOf(Taken) \cup {f.n} /\ lost' = lost
        \/ NumbersOf(Taken') = NumbersOf(Taken)
           /\ lost' = lost \cup (IF kind = "overflow" THEN {} ELSE {f.n})
    BY <1>7, <1>9 DEF NumbersOf
  <2>3. kind = "overflow" <=> cb.pc = "overflow" BY <1>1, <1>3
  <2>4. 1 .. fw.sent = NumbersOf(Range(pipe)) \cup NumbersOf(Taken') \cup lost'
    BY <1>2, <1>3, <2>1, <2>2, <2>3
  <2>5. x = "overflow" => f.over = TRUE /\ kind # "overflow" BY <1>1, <1>3
  <2>6. x = "overflow" /\ irqQueue' # <<>> =>
          Last(irqQueue').over = TRUE /\ Last(irqQueue').kind # "overflow"
    <3>1. CASE irqQueue' = Append(irqQueue, e)
      <4>1. Last(irqQueue') = e BY <3>1, LastAppended
      <4> QED BY <1>7, <2>5, <4>1
    <3>2. CASE irqQueue' = irqQueue
      <4>1. irqQueue # <<>> => Last(irqQueue).over = TRUE /\ Last(irqQueue).kind # "overflow"
        BY <1>2 DEF Complete
      <4> QED BY <3>2, <4>1
    <3> QED BY <1>9, <3>1, <3>2
  <2> QED BY <1>2, <2>4, <2>5, <2>6 DEF Complete
<1>17. InOrder(All')
  <2>1. PICK a \in Seq(EntryType) : a = All /\ Range(a) = Taken BY AllTyped
  <2>2. CASE irqQueue' = irqQueue
    <3>1. All' = All BY <2>2 DEF All
    <3> QED BY <3>1
  <2>3. CASE irqQueue' = Append(irqQueue, e)
    <3>1. (got \o napiQueue) \o Append(irqQueue, e) = Append((got \o napiQueue) \o irqQueue, e)
      <4>1. /\ got \in Seq(EntryType) /\ napiQueue \in Seq(EntryType)
            /\ irqQueue \in Seq(EntryType) /\ e \in EntryType
        BY <1>7
      <4> QED BY <4>1, AllAppended, SMTT(30)
    <3>2. All' = Append(a, e) BY <2>1, <2>3, <3>1 DEF All
    <3>3. \A y \in Range(a) : y.n < e.n \/ (y.n = e.n /\ y.kind # "overflow" /\ e.kind = "overflow")
      BY <1>4, <1>7, <2>1
    <3>4. InOrder(a) BY <2>1
    <3>5. InOrder(Append(a, e)) BY <3>3, <3>4, OrderAppend
    <3> QED BY <3>2, <3>5
  <2> QED BY <1>9, <2>2, <2>3
<1> HIDE DEF FrameTypes
<1>18. InOrder(All)' BY <1>17 DEF InOrder
<1> QED BY <1>10, <1>11, <1>12, <1>15, <1>16, <1>18

\* For want of an skb the callback gives the frame up, or its overflow notice.
LEMMA GiveUpStep ==
  ASSUME FramesInv,
         \/ cb.pc = "handle" /\ lost' = lost \cup {cb.frame.n}
         \/ cb.pc = "overflow" /\ lost' = lost,
         cb' = CbIdle, UNCHANGED <<pipe, irqQueue, napiQueue, got, dev, fw, net>>
  PROVE  FramesInv'
<1> USE DEF FramesInv, FrameTypes
<1>1. cb'.pc = "idle" /\ cb' \in CbType BY NoFrameTyped DEF CbIdle
<1>2. cb.frame.n \in 1 .. fw.sent /\ cb.frame.n \in Nat
  <2>1. cb.pc # "idle" OBVIOUS
  <2>2. cb.frame \in FrameType BY DEF CbType
  <2> QED BY <2>1, <2>2 DEF Numbered, FrameType
<1>3. Taken' = Taken /\ All' = All BY DEF Taken, All
<1>4. FrameTypes' BY <1>1, <1>2
<1>5. Fresh'
  <2>1. net.pc # "probe" BY DEF Fresh, CbIdle
  <2> QED BY <2>1 DEF Fresh
<1>6. Stamped' BY DEF Stamped, Hw
<1>7. Numbered'
  <2>1. lost' \subseteq 1 .. fw.sent BY <1>2 DEF Numbered
  <2> QED BY <1>1, <1>3, <2>1 DEF Numbered
<1>8. Complete'
  <2>1. irqQueue # <<>> => Last(irqQueue).over = TRUE /\ Last(irqQueue).kind # "overflow"
    BY DEF Complete
  <2>2. 1 .. fw.sent = NumbersOf(Range(pipe)) \cup NumbersOf(Taken) \cup lost'
    BY DEF Complete
  <2> QED BY <1>1, <1>3, <2>1, <2>2 DEF Complete
<1> QED BY <1>3, <1>4, <1>5, <1>6, <1>7, <1>8 DEF InOrder

\* The callback hands its queue to NAPI, or NAPI a frame to the sockets.
LEMMA HandOnStep ==
  ASSUME FramesInv, net'.pc = net.pc, UNCHANGED <<pipe, dev, fw, lost>>,
         \/ /\ cb.pc = "finish" /\ cb' = CbIdle
            /\ napiQueue' = napiQueue \o irqQueue /\ irqQueue' = <<>> /\ got' = got
         \/ /\ napiQueue # <<>> /\ got' = Append(got, Head(napiQueue))
            /\ napiQueue' = Tail(napiQueue) /\ UNCHANGED <<cb, irqQueue>>
  PROVE  FramesInv'
<1> USE DEF FramesInv, FrameTypes
<1>1. CASE /\ cb.pc = "finish" /\ cb' = CbIdle
           /\ napiQueue' = napiQueue \o irqQueue /\ irqQueue' = <<>> /\ got' = got
  <2>1. cb'.pc = "idle" /\ cb' \in CbType BY <1>1, NoFrameTyped DEF CbIdle
  <2>2. napiQueue' \in Seq(EntryType) /\ irqQueue' \in Seq(EntryType)
        /\ Range(napiQueue') = Range(napiQueue) \cup Range(irqQueue) /\ Range(irqQueue') = {}
    <3>1. <<>> \in Seq(EntryType) BY EmptySeq
    <3> QED BY <1>1, <3>1, ConcatProperties, RangeConcatenation, EmptyRange
  <2>3. Taken' = Taken BY <1>1, <2>2 DEF Taken
  <2>4. All' = All
    <3>1. (got \o (napiQueue \o irqQueue)) \o <<>> = (got \o napiQueue) \o irqQueue
      BY AllTogether
    <3> QED BY <1>1, <3>1 DEF All
  <2>5. Fresh'
    <3>1. net.pc # "probe" BY <1>1 DEF Fresh, CbIdle
    <3> QED BY <3>1 DEF Fresh
  <2>6. Stamped' BY <2>2 DEF Stamped
  <2>7. Numbered' BY <2>1, <2>3 DEF Numbered
  <2>8. Complete' BY <1>1, <2>1, <2>3 DEF Complete
  <2>9. FrameTypes' BY <1>1, <2>1, <2>2
  <2> QED BY <2>4, <2>5, <2>6, <2>7, <2>8, <2>9 DEF InOrder
<1>2. CASE /\ napiQueue # <<>> /\ got' = Append(got, Head(napiQueue))
           /\ napiQueue' = Tail(napiQueue) /\ UNCHANGED <<cb, irqQueue>>
  <2>1. PICK h \in EntryType : h = Head(napiQueue) BY <1>2, HeadRange
  <2>2. napiQueue' \in Seq(EntryType) /\ Range(napiQueue) = Range(napiQueue') \cup {h}
    BY <1>2, <2>1, HeadRange
  <2>3. got' \in Seq(EntryType) /\ Range(got') = Range(got) \cup {h}
    BY <1>2, <2>1, AppendRange
  <2>4. Taken' = Taken BY <1>2, <2>2, <2>3 DEF Taken
  <2>5. All' = All
    <3>1. Append(got, Head(napiQueue)) \o Tail(napiQueue) = got \o napiQueue BY <1>2, HandOn
    <3> QED BY <1>2, <3>1 DEF All
  <2>6. FrameTypes' BY <1>2, <2>2, <2>3
  <2>7. Fresh' BY <1>2 DEF Fresh
  <2>8. Stamped' BY <1>2 DEF Stamped, Hw
  <2>9. Numbered' BY <1>2, <2>4 DEF Numbered
  <2>10. Complete' BY <1>2, <2>4 DEF Complete
  <2> QED BY <2>5, <2>6, <2>7, <2>8, <2>9, <2>10 DEF InOrder
<1> QED BY <1>1, <1>2

\* What the device sends: the next number, and what becomes of its state.
LEMMA Sent ==
  ASSUME ChannelTypes, SendFrame \/ ChangeState
  PROVE  \E f \in FrameType, s \in States :
           /\ f.n = fw.sent + 1 /\ f.open = fw.opens /\ fw.started
           /\ (f.err = {} /\ s = fw.state) \/ (f.err # {} /\ StateTold(f.err) = s)
           /\ fw' = [fw EXCEPT !.sent = fw.sent + 1, !.state = s]
           /\ pipe' = Append(pipe, f)
           /\ UNCHANGED <<env, dev, request, net, state, cb, irqQueue, napiQueue, got, lost, misled>>
<1> USE DEF ChannelTypes
<1>1. PICK n \in Nat, o \in Nat : n = fw.sent + 1 /\ o = fw.opens BY DEF FwType
<1>2. fw.state \in States BY DEF FwType
<1>3. CASE SendFrame
  <2>1. PICK kind \in {"data", "echo"}, over \in BOOLEAN :
          Send([n |-> n, kind |-> kind, err |-> {}, over |-> over, open |-> o], fw.state)
    BY <1>1, <1>3 DEF SendFrame
  <2>2. PICK f \in FrameType :
          f = [n |-> n, kind |-> kind, err |-> {}, over |-> over, open |-> o]
    BY DEF FrameType
  <2>3. f.n = n /\ f.open = o /\ f.err = {} BY <2>2
  <2>4. Send(f, fw.state) BY <2>1, <2>2
  <2>5. /\ fw' = [fw EXCEPT !.sent = fw.sent + 1, !.state = fw.state]
        /\ fw.started /\ pipe' = Append(pipe, f)
        /\ UNCHANGED <<env, dev, request, net, state, cb, irqQueue, napiQueue, got, lost, misled>>
    BY <2>4 DEF Send, offload
  <2> QED BY <1>1, <1>2, <2>3, <2>5
<1>4. CASE ChangeState
  <2>1. PICK s \in States \ {"STOPPED"} : \E err \in ErrorFrames(s) :
          Send([n |-> n, kind |-> "data", err |-> err, over |-> FALSE, open |-> o], s)
    BY <1>1, <1>4 DEF ChangeState
  <2>2. PICK err \in ErrorFrames(s) :
          Send([n |-> n, kind |-> "data", err |-> err, over |-> FALSE, open |-> o], s)
    BY <2>1
  <2>3. err \subseteq Errors /\ err # {} /\ StateTold(err) = s
    BY DEF ErrorFrames, States, Errors, StateTold
  <2>4. PICK f \in FrameType :
          f = [n |-> n, kind |-> "data", err |-> err, over |-> FALSE, open |-> o]
    BY <2>3 DEF FrameType
  <2>5. f.n = n /\ f.open = o /\ f.err = err BY <2>4
  <2> QED BY <1>1, <2>2, <2>3, <2>4, <2>5 DEF Send, offload
<1> QED BY <1>3, <1>4

\* The device sends the next frame.
LEMMA SendStep ==
  ASSUME FramesInv, ChannelTypes, NEW f \in FrameType, f.n = fw.sent + 1, fw'.sent = fw.sent + 1,
         net.pc # "probe", pipe' = Append(pipe, f),
         UNCHANGED <<dev, net, cb, irqQueue, napiQueue, got, lost>>
  PROVE  FramesInv'
<1> USE DEF FramesInv, FrameTypes
<1>1. PICK n \in Nat : n = fw.sent BY DEF ChannelTypes, FwType
<1>2. f.n = n + 1 /\ fw'.sent = n + 1 /\ f.n \in 1 .. n + 1 BY <1>1
<1>3. pipe' \in Seq(FrameType) /\ Range(pipe') = Range(pipe) \cup {f} BY AppendRange
<1>4. Taken' = Taken /\ All' = All BY DEF Taken, All
<1>5. 1 .. n \subseteq 1 .. n + 1 /\ 0 .. n \subseteq 0 .. n + 1 /\ 1 .. n + 1 = (1 .. n) \cup {n + 1}
  BY <1>1
<1>6. \A k \in 1 .. n : k < f.n BY <1>2
<1>7. FrameTypes' BY <1>3
<1>8. Fresh' BY DEF Fresh
<1>9. Stamped' BY DEF Stamped, Hw
<1>10. Numbered'
  <2>1. \A i, j \in DOMAIN pipe' : i < j => pipe'[i].n < pipe'[j].n
    <3>1. PICK L \in Nat : L = Len(pipe) /\ DOMAIN pipe = 1 .. L BY LenProperties
    <3>2. /\ Len(Append(pipe, f)) = L + 1 /\ Append(pipe, f)[L + 1] = f
          /\ \A i \in 1 .. L : Append(pipe, f)[i] = pipe[i]
      BY <3>1, AppendProperties
    <3>3. DOMAIN pipe' = 1 .. Len(pipe') BY <1>3, LenProperties
    <3>4. DOMAIN pipe' = 1 .. L + 1 /\ pipe'[L + 1] = f /\ \A i \in 1 .. L : pipe'[i] = pipe[i]
      BY <3>2, <3>3
    <3> SUFFICES ASSUME NEW i \in 1 .. L + 1, NEW j \in 1 .. L + 1, i < j
                 PROVE  pipe'[i].n < pipe'[j].n
      BY <3>4
    <3>5. i \in 1 .. L /\ (j \in 1 .. L \/ j = L + 1) BY <3>1
    <3>6. pipe[i] \in Range(pipe) BY <3>1, <3>5 DEF Range
    <3>7. pipe[i].n \in 1 .. n BY <1>1, <3>6 DEF Numbered
    <3>8. CASE j = L + 1 BY <1>6, <3>4, <3>5, <3>7, <3>8
    <3>9. CASE j \in 1 .. L BY <3>1, <3>4, <3>5, <3>9 DEF Numbered
    <3> QED BY <3>5, <3>8, <3>9
  <2>2. \A g \in Range(pipe') : g.n \in 1 .. n + 1
    <3>1. \A g \in Range(pipe) : g.n \in 1 .. n BY <1>1 DEF Numbered
    <3> QED BY <1>2, <1>3, <1>5, <3>1
  <2>3. cb.pc # "idle" =>
          cb.frame.n \in 1 .. n + 1 /\ \A g \in Range(pipe') : cb.frame.n < g.n
    <3> SUFFICES ASSUME cb.pc # "idle"
                 PROVE  cb.frame.n \in 1 .. n + 1 /\ \A g \in Range(pipe') : cb.frame.n < g.n
      OBVIOUS
    <3>1. cb.frame.n \in 1 .. n /\ \A g \in Range(pipe) : cb.frame.n < g.n
      BY <1>1 DEF Numbered
    <3> QED BY <1>3, <1>5, <1>6, <3>1
  <2>4. \A e \in Taken :
          /\ e.n \in 1 .. n + 1 /\ e.stamp \in 0 .. n + 1
          /\ \A g \in Range(pipe') : e.n < g.n
    <3> SUFFICES ASSUME NEW e \in Taken
                 PROVE  /\ e.n \in 1 .. n + 1 /\ e.stamp \in 0 .. n + 1
                        /\ \A g \in Range(pipe') : e.n < g.n
      OBVIOUS
    <3>1. e.n \in 1 .. n /\ e.stamp \in 0 .. n /\ \A g \in Range(pipe) : e.n < g.n
      BY <1>1 DEF Numbered
    <3> QED BY <1>3, <1>5, <1>6, <3>1
  <2>5. \A e \in Taken :
          /\ cb.pc = "handle" => e.n < cb.frame.n
          /\ cb.pc = "overflow" =>
               e.n < cb.frame.n \/ (e.n = cb.frame.n /\ e.kind # "overflow")
    BY DEF Numbered
  <2>6. lost \subseteq 1 .. n + 1 BY <1>1, <1>5 DEF Numbered
  <2> QED BY <1>2, <1>4, <2>1, <2>2, <2>3, <2>4, <2>5, <2>6 DEF Numbered
<1>11. Complete'
  <2>1. NumbersOf(Range(pipe')) = NumbersOf(Range(pipe)) \cup {n + 1}
    BY <1>2, <1>3 DEF NumbersOf
  <2>2. 1 .. n = NumbersOf(Range(pipe)) \cup NumbersOf(Taken) \cup lost
                 \cup (IF cb.pc = "handle" THEN {cb.frame.n} ELSE {})
    BY <1>1 DEF Complete
  <2>3. 1 .. n + 1 = NumbersOf(Range(pipe')) \cup NumbersOf(Taken) \cup lost
                     \cup (IF cb.pc = "handle" THEN {cb.frame.n} ELSE {})
    BY <1>5, <2>1, <2>2
  <2> QED BY <1>2, <1>4, <2>3 DEF Complete
<1> HIDE DEF FrameTypes
<1>12. InOrder(All)' BY <1>4 DEF InOrder
<1> QED BY <1>7, <1>8, <1>9, <1>10, <1>11, <1>12

\* The device runs only between its start and its reset.
Running == fw.started => net.pc \in {"up", "kill", "stop", "reset"}

LEMMA RunningStep == ASSUME ChannelTypes, Running, [Next]_vars PROVE Running'
<1> USE DEF ChannelTypes, Running
<1>1. ASSUME fw'.started = fw.started, net'.pc = net.pc PROVE Running' BY <1>1
<1>2. CASE MakeCandev \/ OpenBegin \/ SetErrorActive \/ StartDeviceFails
  <2>1. ~fw.started /\ fw'.started = fw.started
    BY <1>2 DEF MakeCandev, OpenBegin, SetErrorActive, StartDeviceFails, reception, FwType
  <2> QED BY <2>1
<1>3. CASE StartDevice \/ CloseBegin \/ KillRxUrbs \/ SetStopped
  BY <1>3 DEF StartDevice, CloseBegin, KillRxUrbs, SetStopped, NetType
<1>4. CASE ResetAndDisable BY <1>4 DEF ResetAndDisable, FwType
<1>5. ASSUME NEW m \in LinkModes, Configure(m) PROVE Running'
  <2>1. fw'.started = fw.started /\ net'.pc = net.pc BY <1>5 DEF Configure, FwType, NetType
  <2> QED BY <2>1
<1>6. CASE SetPhysId \/ SetTermination \/ GetBerrCounter \/ Callback \/ Poll \/ OpenUntimed
           \/ UNCHANGED vars
  <2>1. fw' = fw
    BY <1>6 DEF SetPhysId, SetTermination, GetBerrCounter, Callback, Enter, Handle, HandleNoSkb,
                Overflow, OverflowNoSkb, Finish, Poll, OpenUntimed, vars, reception
  <2>2. net'.pc = net.pc
    BY <1>6 DEF SetPhysId, SetTermination, GetBerrCounter, Callback, Enter, Handle, HandleNoSkb,
                Overflow, OverflowNoSkb, Finish, Poll, OpenUntimed, vars, NetType
  <2> QED BY <2>1, <2>2
<1>7. CASE SendFrame \/ ChangeState
  <2>1. PICK f \in FrameType, s \in States :
          fw' = [fw EXCEPT !.sent = fw.sent + 1, !.state = s] /\ net' = net
    BY <1>7, Sent
  <2>2. fw'.started = fw.started BY <2>1 DEF FwType
  <2> QED BY <2>1, <2>2
<1> QED BY <1>2, <1>3, <1>4, <1>5, <1>6, <1>7 DEF Next, Control, OpenClose

\* NAPI is scheduled only while it is enabled and something waits for it.
Napi == net.sched = TRUE => net.napi = TRUE /\ napiQueue # <<>>

LEMMA NapiStep == ASSUME ChannelTypes, FrameTypes, Napi, [Next]_vars PROVE Napi'
<1> USE DEF ChannelTypes, FrameTypes, Napi
<1>1. ASSUME napiQueue' = napiQueue, net'.sched = net.sched, net'.napi = net.napi PROVE Napi'
  BY <1>1
<1>2. CASE MakeCandev \/ SetErrorActive \/ StartDevice \/ CloseBegin \/ KillRxUrbs \/ SetStopped
  BY <1>1, <1>2 DEF MakeCandev, SetErrorActive, StartDevice, CloseBegin, KillRxUrbs, SetStopped,
                    NetType, reception, offload
<1>3. ASSUME NEW m \in LinkModes, Configure(m) PROVE Napi'
  BY <1>1, <1>3 DEF Configure, NetType, offload
<1>4. CASE SetPhysId \/ SetTermination \/ GetBerrCounter \/ Enter \/ Handle \/ HandleNoSkb
           \/ Overflow \/ OverflowNoSkb \/ OpenUntimed \/ UNCHANGED vars
  BY <1>1, <1>4 DEF SetPhysId, SetTermination, GetBerrCounter, Enter, Handle, HandleNoSkb,
                    Overflow, OverflowNoSkb, OpenUntimed, vars, reception, offload
<1>5. CASE OpenBegin BY <1>5 DEF OpenBegin, NetType, offload
<1>6. CASE StartDeviceFails
  <2>1. net.sched = FALSE BY <1>6 DEF StartDeviceFails, NetType
  <2>2. net'.sched = net.sched BY <1>6 DEF StartDeviceFails, NetType
  <2> QED BY <2>1, <2>2
<1>7. CASE ResetAndDisable
  <2>1. net.sched = FALSE BY <1>7 DEF ResetAndDisable, NetType
  <2>2. net'.sched = net.sched BY <1>7 DEF ResetAndDisable, NetType
  <2> QED BY <2>1, <2>2
<1>8. CASE Finish
  <2>1. PICK x \in BOOLEAN : x = (net.napi /\ napiQueue' # <<>>) OBVIOUS
  <2>2. PICK y \in BOOLEAN : y = (net.sched \/ x) OBVIOUS
  <2>3. net' = [net EXCEPT !.sched = y] BY <1>8, <2>1, <2>2 DEF Finish
  <2>4. net'.sched = y /\ net'.napi = net.napi BY <2>3 DEF NetType
  <2>5. y = TRUE => net.sched = TRUE \/ x = TRUE BY <2>2 DEF NetType
  <2>6. x = TRUE => net.napi = TRUE /\ napiQueue' # <<>> BY <2>1 DEF NetType
  <2>7. napiQueue # <<>> => napiQueue' # <<>>
    <3>1. napiQueue' = napiQueue \o irqQueue BY <1>8 DEF Finish
    <3>2. Len(napiQueue \o irqQueue) = Len(napiQueue) + Len(irqQueue) BY ConcatProperties
    <3>3. Len(napiQueue) \in Nat /\ Len(irqQueue) \in Nat BY LenProperties
    <3>4. napiQueue # <<>> => Len(napiQueue) # 0 BY EmptySeq
    <3>5. Len(<<>>) = 0 BY EmptySeq
    <3> QED BY <3>1, <3>2, <3>3, <3>4, <3>5
  <2> QED BY <2>4, <2>5, <2>6, <2>7
<1>9. CASE Poll
  <2>1. PICK y \in BOOLEAN : y = (napiQueue' # <<>>) OBVIOUS
  <2>2. net' = [net EXCEPT !.sched = y] BY <1>9, <2>1 DEF Poll
  <2>3. net'.sched = y /\ net'.napi = net.napi BY <2>2 DEF NetType
  <2>4. net.sched = TRUE BY <1>9 DEF Poll, NetType
  <2> QED BY <2>1, <2>3, <2>4
<1>10. CASE SendFrame \/ ChangeState
  <2>1. net' = net /\ napiQueue' = napiQueue
    BY <1>10 DEF SendFrame, ChangeState, Send, offload
  <2> QED BY <1>1, <2>1
<1> QED BY <1>2, <1>3, <1>4, <1>5, <1>6, <1>7, <1>8, <1>9, <1>10
        DEF Next, Control, OpenClose, Callback

LEMMA FramesStep ==
  ASSUME ChannelTypes, FramesInv, Napi, Running, [Next]_vars PROVE FramesInv'
<1> USE DEF ChannelTypes
<1>1. CASE MakeCandev
  <2>1. net.pc = "probe" /\ net'.pc = "down" BY <1>1 DEF MakeCandev, NetType
  <2>2. irqQueue = <<>> BY <2>1 DEF FramesInv, Fresh
  <2>3. UNCHANGED <<pipe, cb, irqQueue, napiQueue, got, lost>> /\ fw' = fw
    BY <1>1 DEF MakeCandev, reception, offload
  <2> QED BY <2>1, <2>2, <2>3, QuietFrames
<1>2. CASE \/ SetErrorActive \/ StartDevice \/ StartDeviceFails \/ CloseBegin \/ KillRxUrbs
           \/ SetStopped \/ ResetAndDisable \/ OpenBegin
  <2>1. net'.pc # "probe"
    <3>1. CASE SetErrorActive BY <3>1 DEF SetErrorActive, NetType
    <3>2. CASE StartDevice BY <3>2 DEF StartDevice, NetType
    <3>3. CASE StartDeviceFails BY <3>3 DEF StartDeviceFails, NetType
    <3>4. CASE CloseBegin BY <3>4 DEF CloseBegin, NetType
    <3>5. CASE KillRxUrbs BY <3>5 DEF KillRxUrbs, NetType
    <3>6. CASE SetStopped BY <3>6 DEF SetStopped, NetType
    <3>7. CASE ResetAndDisable BY <3>7 DEF ResetAndDisable, NetType
    <3>8. CASE OpenBegin BY <3>8 DEF OpenBegin, NetType
    <3> QED BY <1>2, <3>1, <3>2, <3>3, <3>4, <3>5, <3>6, <3>7, <3>8
  <2>2. fw'.sent = fw.sent
    <3>1. CASE SetErrorActive BY <3>1 DEF SetErrorActive, FwType, reception
    <3>2. CASE StartDevice BY <3>2 DEF StartDevice, FwType, reception
    <3>3. CASE StartDeviceFails BY <3>3 DEF StartDeviceFails, FwType, reception
    <3>4. CASE CloseBegin BY <3>4 DEF CloseBegin, FwType, reception
    <3>5. CASE KillRxUrbs BY <3>5 DEF KillRxUrbs, FwType, reception
    <3>6. CASE SetStopped BY <3>6 DEF SetStopped, FwType, reception
    <3>7. CASE ResetAndDisable BY <3>7 DEF ResetAndDisable, FwType, reception
    <3>8. CASE OpenBegin BY <3>8 DEF OpenBegin, FwType, reception
    <3> QED BY <1>2, <3>1, <3>2, <3>3, <3>4, <3>5, <3>6, <3>7, <3>8
  <2>3. UNCHANGED <<pipe, cb, irqQueue, napiQueue, got, lost, dev>>
    BY <1>2 DEF SetErrorActive, StartDevice, StartDeviceFails, CloseBegin, KillRxUrbs, SetStopped,
                ResetAndDisable, OpenBegin, reception, offload
  <2> QED BY <2>1, <2>2, <2>3, QuietFrames
<1>3. ASSUME NEW m \in LinkModes, Configure(m) PROVE FramesInv'
  <2>1. net'.pc = net.pc /\ fw'.sent = fw.sent BY <1>3 DEF Configure, NetType, FwType
  <2>2. UNCHANGED <<pipe, cb, irqQueue, napiQueue, got, lost, dev>> BY <1>3 DEF Configure, offload
  <2> QED BY <2>1, <2>2, QuietFrames
<1>4. CASE SetPhysId \/ SetTermination \/ GetBerrCounter \/ OpenUntimed \/ UNCHANGED vars
  <2>1. UNCHANGED <<pipe, cb, irqQueue, napiQueue, got, lost, dev, fw, net>>
    BY <1>4 DEF SetPhysId, SetTermination, GetBerrCounter, OpenUntimed, vars, reception, offload
  <2> QED BY <2>1, QuietFrames
<1>5. CASE Enter BY <1>5, EnterStep
<1>6. PICK n \in Nat : n = fw.sent BY DEF FwType
<1>7. CASE Handle
  <2>1. PICK f \in FrameType : f = cb.frame BY DEF FramesInv, FrameTypes, CbType
  <2>2. f.kind \in {"data", "echo", "overflow"} /\ f.over \in BOOLEAN BY DEF FrameType
  <2>3. Queue(f, f.kind) /\ cb.pc = "handle" /\ UNCHANGED <<pipe, napiQueue, got, dev, fw, net>>
    BY <1>7, <2>1 DEF Handle
  <2>4. cb' = [cb EXCEPT !.pc = IF f.over THEN "overflow" ELSE "finish"]
    BY <1>7, <2>1 DEF Handle
  <2>5. CASE f.over = TRUE
    <3>1. PICK x \in {"overflow", "finish"} : x = "overflow" OBVIOUS
    <3>2. cb' = [cb EXCEPT !.pc = x] BY <2>4, <2>5, <3>1
    <3> QED BY <1>6, <2>1, <2>2, <2>3, <2>5, <3>2, QueueStep
  <2>6. CASE f.over = FALSE
    <3>1. PICK x \in {"overflow", "finish"} : x = "finish" OBVIOUS
    <3>2. cb' = [cb EXCEPT !.pc = x] BY <2>4, <2>6, <3>1
    <3> QED BY <1>6, <2>1, <2>2, <2>3, <3>1, <3>2, QueueStep
  <2> QED BY <2>2, <2>5, <2>6
<1>8. CASE Overflow
  <2>1. PICK x \in {"overflow", "finish"} : x = "finish" OBVIOUS
  <2>2. PICK kind \in {"data", "echo", "overflow"} : kind = "overflow" OBVIOUS
  <2>3. /\ Queue(cb.frame, kind) /\ cb.pc = "overflow" /\ cb' = [cb EXCEPT !.pc = x]
        /\ UNCHANGED <<pipe, napiQueue, got, dev, fw, net>>
    BY <1>8, <2>1, <2>2 DEF Overflow
  <2> QED BY <1>6, <2>1, <2>2, <2>3, QueueStep
<1>9. CASE HandleNoSkb \/ OverflowNoSkb
  <2>1. \/ cb.pc = "handle" /\ lost' = lost \cup {cb.frame.n}
        \/ cb.pc = "overflow" /\ lost' = lost
    BY <1>9 DEF HandleNoSkb, OverflowNoSkb
  <2>2. cb' = CbIdle /\ UNCHANGED <<pipe, irqQueue, napiQueue, got, dev, fw, net>>
    BY <1>9 DEF HandleNoSkb, OverflowNoSkb, offload
  <2> QED BY <2>1, <2>2, GiveUpStep
<1>10. CASE Finish \/ Poll
  <2>1. net'.pc = net.pc BY <1>10 DEF Finish, Poll, NetType
  <2>2. UNCHANGED <<pipe, dev, fw, lost>> BY <1>10 DEF Finish, Poll
  <2>3. CASE Finish
    <3>1. /\ cb.pc = "finish" /\ cb' = CbIdle
          /\ napiQueue' = napiQueue \o irqQueue /\ irqQueue' = <<>> /\ got' = got
      BY <2>3 DEF Finish
    <3> QED BY <2>1, <2>2, <3>1, HandOnStep
  <2>4. CASE Poll
    <3>1. net.sched = TRUE BY <2>4 DEF Poll, NetType
    <3>2. napiQueue # <<>> BY <3>1 DEF Napi
    <3>3. got' = Append(got, Head(napiQueue)) /\ napiQueue' = Tail(napiQueue)
          /\ UNCHANGED <<cb, irqQueue>>
      BY <2>4 DEF Poll
    <3> QED BY <2>1, <2>2, <3>2, <3>3, HandOnStep
  <2> QED BY <1>10, <2>3, <2>4
<1>11. CASE SendFrame \/ ChangeState
  <2>1. PICK f \in FrameType, s \in States :
          /\ f.n = fw.sent + 1 /\ fw.started
          /\ fw' = [fw EXCEPT !.sent = fw.sent + 1, !.state = s]
          /\ pipe' = Append(pipe, f)
          /\ UNCHANGED <<dev, net, cb, irqQueue, napiQueue, got, lost>>
    BY <1>11, Sent
  <2>2. fw'.sent = fw.sent + 1 BY <2>1 DEF FwType
  <2>3. net.pc # "probe" BY <2>1 DEF Running
  <2> QED BY <2>1, <2>2, <2>3, SendStep
<1> QED BY <1>1, <1>2, <1>3, <1>4, <1>5, <1>7, <1>8, <1>9, <1>10, <1>11
        DEF Next, Control, OpenClose, Callback

CanInv == ChannelTypes /\ FramesInv /\ Napi /\ Running

\* The types of the channel and the order and the completeness of its frames are
\* inductive together: a sorted insertion is an append only because of the order.
THEOREM FramesInvariant == Spec => []CanInv
<1>1. Init => CanInv
  <2> SUFFICES ASSUME Init PROVE CanInv
    OBVIOUS
  <2>1. ChannelTypes /\ FramesInv BY TypesInit, FramesInit
  <2>2. Napi BY DEF Init, Napi
  <2>3. Running BY DEF Init, Running
  <2> QED BY <2>1, <2>2, <2>3 DEF CanInv
<1>2. CanInv /\ [Next]_vars => CanInv'
  <2> SUFFICES ASSUME CanInv, [Next]_vars PROVE CanInv'
    OBVIOUS
  <2>1. FrameTypes BY DEF CanInv, FramesInv
  <2> QED BY <2>1, ChannelTypesStep, FramesStep, NapiStep, RunningStep DEF CanInv
<1> QED BY <1>1, <1>2, PTL DEF Spec

\* The types, and that NAPI is scheduled only for something to deliver.
THEOREM TypeCorrect == Spec => []TypeOK
<1>1. CanInv => TypeOK
  <2> SUFFICES ASSUME CanInv PROVE TypeOK
    OBVIOUS
  <2> USE DEF CanInv, ChannelTypes, FramesInv, FrameTypes
  <2>1. env.device \in Devices /\ dev.feature \subseteq Features BY DEF DevType
  <2>2. net.ctrlmode \subseteq Modes /\ fw.flags \subseteq Modes /\ fw.state \in States
    BY DEF NetType, FwType
  <2>3. fw.opens \in 0 .. MaxOpens
    <3>1. fw.opens \in Nat /\ fw.opens <= MaxOpens BY DEF FwType
    <3> QED BY <3>1
  <2>4. fw.sent \in 0 .. MaxFrames[env.device]
    <3>1. PICK m \in Nat : m = MaxFrames[env.device] BY <2>1
    <3>2. fw.sent \in Nat /\ fw.sent <= m BY <3>1 DEF FwType
    <3> QED BY <3>1, <3>2
  <2>5. cb.pc \in {"idle", "handle", "overflow", "finish"} BY DEF CbType
  <2>6. Taken \subseteq Entries
    <3> SUFFICES ASSUME NEW e \in Taken PROVE e \in Entries
      OBVIOUS
    <3>1. e \in EntryType BY SeqRanges DEF Taken
    <3>2. e.n \in 1 .. fw.sent /\ e.stamp \in 0 .. fw.sent BY DEF Numbered
    <3> QED BY <3>1, <3>2 DEF EntryType, Entries
  <2>7. lost \subseteq 1 .. fw.sent BY DEF Numbered
  <2>8. net.sched => net.napi /\ napiQueue # <<>>
    <3>1. net.sched \in BOOLEAN /\ net.napi \in BOOLEAN BY DEF NetType
    <3> QED BY <3>1 DEF Napi
  <2> QED BY <2>1, <2>2, <2>3, <2>4, <2>5, <2>6, <2>7, <2>8 DEF TypeOK, Taken
<1> QED BY <1>1, FramesInvariant, PTL

\* The sockets see the frames in the order the device sent them (gs_usb.c:626-647).
THEOREM FramesOrdered == Spec => []FramesInOrder
<1>1. CanInv => FramesInOrder BY DEF CanInv, FramesInv, FramesInOrder, All
<1> QED BY <1>1, FramesInvariant, PTL

\* No frame disappears without being counted lost, and none is left behind.
THEOREM NothingIsStranded == Spec => []NothingStranded
<1>1. CanInv => NothingStranded
  <2> SUFFICES ASSUME CanInv PROVE NothingStranded
    OBVIOUS
  <2> USE DEF CanInv, FramesInv, FrameTypes
  <2>1. cb.pc = "idle" /\ irqQueue # <<>> =>
          Last(irqQueue).over /\ Last(irqQueue).kind # "overflow"
    BY DEF Complete
  <2>2. Numbers(pipe \o irqQueue \o napiQueue \o got) = NumbersOf(Range(pipe)) \cup NumbersOf(Taken)
    <3>1. PICK q : q = pipe \o irqQueue \o napiQueue \o got OBVIOUS
    <3>2. Range(q) = Range(pipe) \cup Taken BY <3>1, FourRanges DEF Taken
    <3>3. Numbers(q) = NumbersOf(Range(q)) BY DEF Numbers, NumbersOf, Range
    <3>4. NumbersOf(Range(pipe) \cup Taken) = NumbersOf(Range(pipe)) \cup NumbersOf(Taken)
      BY DEF NumbersOf
    <3> QED BY <3>1, <3>2, <3>3, <3>4
  <2> QED BY <2>1, <2>2 DEF NothingStranded, Complete
<1> QED BY <1>1, FramesInvariant, PTL

-----------------------------------------------------------------------------
(***************************************************************************)
(* Requests and modes.                                                     *)
(***************************************************************************)

\* The driver knows of the device what its announcement makes of it.
Known == dev = IF net.pc = "probe" THEN NoDev ELSE DevOf(env.device)

\* The modes are supported, and timed when their configuration did not fail; while the
\* channel is open the size of a frame is theirs, and the flags a device runs with are.
Configured ==
    /\ net.ctrlmode \subseteq dev.supported
    /\ net.error = FALSE /\ net.timed = TRUE => fw.timed = TRUE
    /\ net.error = FALSE /\ "FD" \in net.ctrlmode => fw.fdTimed = TRUE
    /\ net.pc \notin {"probe", "down"} =>
          net.timed = TRUE /\ fw.size = TxSize(net.ctrlmode)
    /\ fw.started => fw.flags = ModeFlags

\* What the driver looks for in a feature word it has completed and cut down.
LEMMA Announced ==
  ASSUME NEW d \in Devices
  PROVE  /\ "IDENTIFY" \in DevOf(d).feature => Understands(d, "IDENTIFY")
         /\ "TERMINATION" \in DevOf(d).feature => Understands(d, "SET_TERMINATION")
         /\ DevOf(d).berr = TRUE => Understands(d, "GET_STATE")
         /\ DevOf(d).data = "extended" => Understands(d, "BT_CONST_EXT")
         /\ "CANTACT_PRO" \in DevOf(d).feature <=> d.cantact /\ d.sw_version <= 2
         /\ "LPC546XX" \in DevOf(d).feature <=>
              "LPC546XX" \in d.feature \/ (d.cantact /\ d.sw_version <= 2)
         /\ "HW_TIMESTAMP" \in DevOf(d).feature <=> "HW_TIMESTAMP" \in d.feature
         /\ DevOf(d).supported \subseteq d.feature /\ "HW_TIMESTAMP" \notin DevOf(d).supported
         /\ DevOf(d).supported \subseteq Modes
         /\ \A r \in {"BITTIMING", "MODE", "BT_CONST", "GET_TERMINATION"} : Understands(d, r)
<1>1. d \in DeviceType OBVIOUS
<1>2. d.feature \subseteq Features \ {"CANTACT_PRO"} /\ d.sw_version \in 1 .. 3
      /\ d.cantact \in BOOLEAN /\ d.termination \in BOOLEAN
  BY <1>1 DEF DeviceType
<1>3. DevOf(d).feature = (d.feature \ Dropped(d)) \cup Quirks(d) BY DEF DevOf
<1>4. Quirks(d) \subseteq {"LPC546XX", "CANTACT_PRO"} BY DEF Quirks
<1>5. d.cantact /\ d.sw_version <= 2 <=> Quirks(d) = {"LPC546XX", "CANTACT_PRO"}
  BY DEF Quirks
<1>6. Quirks(d) = {} \/ Quirks(d) = {"LPC546XX", "CANTACT_PRO"} BY DEF Quirks
<1>7. Dropped(d) \subseteq {"TERMINATION", "IDENTIFY"} BY DEF Dropped
<1>8. "IDENTIFY" \in DevOf(d).feature => Understands(d, "IDENTIFY")
  <2>1. ~(d.sw_version > 1) => "IDENTIFY" \in Dropped(d) BY DEF Dropped
  <2> QED BY <1>3, <1>4, <2>1 DEF Understands
<1>9. "TERMINATION" \in DevOf(d).feature => Understands(d, "SET_TERMINATION")
  <2>1. ~d.termination => "TERMINATION" \in Dropped(d) BY DEF Dropped
  <2>2. "TERMINATION" \in DevOf(d).feature => d.termination BY <1>3, <1>4, <2>1
  <2> QED BY <2>2 DEF Understands
<1>10. DevOf(d).berr = TRUE => Understands(d, "GET_STATE") BY DEF DevOf, Understands
<1>11. DevOf(d).data = "extended" => Understands(d, "BT_CONST_EXT")
  BY DEF DevOf, DataConst, HasAll, Understands
<1>12. "CANTACT_PRO" \in DevOf(d).feature <=> d.cantact /\ d.sw_version <= 2
  BY <1>2, <1>3, <1>5, <1>6
<1>13. "LPC546XX" \in DevOf(d).feature <=>
          "LPC546XX" \in d.feature \/ (d.cantact /\ d.sw_version <= 2)
  BY <1>3, <1>5, <1>6, <1>7
<1>14. "HW_TIMESTAMP" \in DevOf(d).feature <=> "HW_TIMESTAMP" \in d.feature
  BY <1>3, <1>4, <1>7
<1>15. DevOf(d).supported \subseteq d.feature /\ "HW_TIMESTAMP" \notin DevOf(d).supported
       /\ DevOf(d).supported \subseteq Modes
  BY DEF DevOf, Supported
<1>16. \A r \in {"BITTIMING", "MODE", "BT_CONST", "GET_TERMINATION"} : Understands(d, r)
  BY DEF Understands
<1> QED BY <1>8, <1>9, <1>10, <1>11, <1>12, <1>13, <1>14, <1>15, <1>16

\* A CAN FD data bit timing is asked for in the form this device understands.
LEMMA DataAnnounced ==
  ASSUME NEW d \in Devices, dev = DevOf(d), "FD" \in dev.supported
  PROVE  Understands(d, DataRequest)
<1>1. "FD" \in d.feature BY Announced
<1>2. CASE d.cantact /\ d.sw_version <= 2
  <2>1. DataRequest = "8" BY <1>2, Announced DEF DataRequest
  <2> QED BY <1>1, <1>2, <2>1 DEF Understands
<1>3. CASE ~(d.cantact /\ d.sw_version <= 2)
  <2>1. DataRequest = "DATA_BITTIMING" BY <1>3, Announced DEF DataRequest
  <2> QED BY <1>1, <1>3, <2>1 DEF Understands
<1> QED BY <1>2, <1>3

LEMMA KnownStep == ASSUME ChannelTypes, Known, [Next]_vars PROVE Known'
<1> USE DEF ChannelTypes, Known
<1>1. ASSUME dev' = dev, env' = env, net'.pc = "probe" <=> net.pc = "probe" PROVE Known'
  BY <1>1 DEF DevOf, Dropped, Quirks, Supported, DataConst, HasAll, NoDev
<1>2. CASE MakeCandev
  <2>1. net'.pc = "down" BY <1>2 DEF MakeCandev, NetType
  <2>2. dev' = DevOf(env.device) /\ env' = env BY <1>2 DEF MakeCandev
  <2> QED BY <2>1, <2>2 DEF DevOf, Dropped, Quirks, Supported, DataConst, HasAll
<1>3. ASSUME NEW m \in LinkModes, Configure(m) PROVE Known'
  <2>1. net'.pc = net.pc BY <1>3 DEF Configure, NetType
  <2> QED BY <1>1, <1>3, <2>1 DEF Configure
<1>4. ASSUME dev' = dev, env' = env, net.pc # "probe", net'.pc # "probe" PROVE Known'
  BY <1>1, <1>4
<1>5. CASE OpenClose
  <2>1. CASE OpenBegin BY <1>4, <2>1 DEF OpenBegin, NetType
  <2>2. CASE OpenUntimed BY <1>1, <2>2 DEF OpenUntimed, vars
  <2>3. CASE SetErrorActive BY <1>4, <2>3 DEF SetErrorActive, NetType
  <2>4. CASE StartDevice BY <1>4, <2>4 DEF StartDevice, NetType
  <2>5. CASE StartDeviceFails BY <1>4, <2>5 DEF StartDeviceFails, NetType
  <2>6. CASE CloseBegin BY <1>4, <2>6 DEF CloseBegin, NetType
  <2>7. CASE KillRxUrbs BY <1>4, <2>7 DEF KillRxUrbs, NetType
  <2>8. CASE SetStopped BY <1>4, <2>8 DEF SetStopped, NetType
  <2>9. CASE ResetAndDisable BY <1>4, <2>9 DEF ResetAndDisable, NetType
  <2> QED BY <1>5, <2>1, <2>2, <2>3, <2>4, <2>5, <2>6, <2>7, <2>8, <2>9 DEF OpenClose
<1>6. CASE SetPhysId \/ SetTermination \/ GetBerrCounter \/ UNCHANGED vars
  BY <1>1, <1>6 DEF SetPhysId, SetTermination, GetBerrCounter, vars
<1>7. CASE Callback \/ Poll
  <2>1. dev' = dev /\ env' = env
    BY <1>7 DEF Callback, Enter, Handle, HandleNoSkb, Overflow, OverflowNoSkb, Finish, Poll
  <2>2. net'.pc = net.pc
    BY <1>7 DEF Callback, Enter, Handle, HandleNoSkb, Overflow, OverflowNoSkb, Finish, Poll,
                NetType
  <2> QED BY <1>1, <2>1, <2>2
<1>8. CASE SendFrame \/ ChangeState BY <1>1, <1>8 DEF SendFrame, ChangeState, Send
<1> QED BY <1>2, <1>3, <1>5, <1>6, <1>7, <1>8 DEF Next, Control

Understood == Understands(env.device, request)

LEMMA UnderstoodStep ==
  ASSUME ChannelTypes, Known, Understood, [Next]_vars PROVE Understood'
<1> USE DEF ChannelTypes, Understood
<1>1. PICK d \in Devices : d = env.device OBVIOUS
<1>2. ASSUME env' = env, NEW r, request' = r, Understands(d, r) PROVE Understood'
  BY <1>1, <1>2 DEF Understands
<1>3. ASSUME env' = env, request' = request PROVE Understood'
  BY <1>1, <1>3 DEF Understands
<1>4. \A r \in {"BITTIMING", "MODE", "BT_CONST", "GET_TERMINATION"} : Understands(d, r)
  BY Announced
<1>5. ASSUME env' = env, request' \in {"BITTIMING", "MODE", "BT_CONST", "GET_TERMINATION"}
      PROVE  Understood'
  BY <1>2, <1>4, <1>5
<1>6. CASE MakeCandev
  <2>1. env' = env /\ dev' = DevOf(d) BY <1>1, <1>6 DEF MakeCandev
  <2>2. \/ dev'.data = "extended" /\ request' = "BT_CONST_EXT"
        \/ request' \in {"BITTIMING", "MODE", "BT_CONST", "GET_TERMINATION"}
    BY <1>6 DEF MakeCandev
  <2>3. dev'.data = "extended" => Understands(d, "BT_CONST_EXT") BY <2>1, Announced
  <2> QED BY <1>2, <1>5, <2>1, <2>2, <2>3
<1>7. ASSUME NEW m \in LinkModes, Configure(m) PROVE Understood'
  <2>1. PICK failed \in Timings(m) \cup {"none"}, mode \in {m, net.ctrlmode} :
          ConfiguresWith(m, failed, mode)
    BY <1>7, Configuring
  <2>2. dev = DevOf(d) BY <1>1, <2>1 DEF Known, ConfiguresWith
  <2>3. "FD" \in m => Understands(d, DataRequest)
    BY <2>1, <2>2, DataAnnounced DEF ConfiguresWith
  <2>4. request' = "BITTIMING" \/ ("FD" \in m /\ request' = DataRequest)
    BY <2>1 DEF ConfiguresWith, Timings
  <2>5. env' = env BY <2>1 DEF ConfiguresWith
  <2> QED BY <1>2, <1>5, <2>3, <2>4, <2>5
<1>8. CASE SetPhysId \/ SetTermination \/ GetBerrCounter
  <2>1. dev = DevOf(d) BY <1>1, <1>8 DEF Known, SetPhysId, SetTermination, GetBerrCounter, Asks
  <2>2. dev.berr \in BOOLEAN BY DEF DevType
  <2>3. CASE SetPhysId
    <3>1. env' = env /\ request' = "IDENTIFY" /\ "IDENTIFY" \in dev.feature
      BY <2>3 DEF SetPhysId
    <3> QED BY <1>2, <2>1, <3>1, Announced
  <2>4. CASE SetTermination
    <3>1. env' = env /\ request' = "SET_TERMINATION" /\ "TERMINATION" \in dev.feature
      BY <2>4 DEF SetTermination
    <3> QED BY <1>2, <2>1, <3>1, Announced
  <2>5. CASE GetBerrCounter
    <3>1. env' = env /\ request' = "GET_STATE" /\ dev.berr = TRUE
      BY <2>2, <2>5 DEF GetBerrCounter
    <3> QED BY <1>2, <2>1, <3>1, Announced
  <2> QED BY <1>8, <2>3, <2>4, <2>5
<1>9. CASE StartDevice \/ StartDeviceFails \/ ResetAndDisable
  BY <1>5, <1>9 DEF StartDevice, StartDeviceFails, ResetAndDisable
<1>10. CASE OpenBegin \/ OpenUntimed \/ SetErrorActive \/ CloseBegin \/ KillRxUrbs \/ SetStopped
            \/ UNCHANGED vars
  BY <1>3, <1>10 DEF OpenBegin, OpenUntimed, SetErrorActive, CloseBegin, KillRxUrbs, SetStopped,
                     vars
<1>11. CASE Callback \/ Poll
  BY <1>3, <1>11 DEF Callback, Enter, Handle, HandleNoSkb, Overflow, OverflowNoSkb, Finish, Poll
<1>12. CASE SendFrame \/ ChangeState BY <1>3, <1>12 DEF SendFrame, ChangeState, Send
<1> QED BY <1>6, <1>7, <1>8, <1>9, <1>10, <1>11, <1>12 DEF Next, Control, OpenClose

\* A step that leaves the modes and what the device was told about them alone.
LEMMA ModesKept ==
  ASSUME Configured, dev' = dev, net'.ctrlmode = net.ctrlmode,
         net'.timed = net.timed, net'.error = net.error,
         fw'.timed = fw.timed, fw'.fdTimed = fw.fdTimed,
         fw'.started = fw.started, fw'.flags = fw.flags, fw'.size = fw.size,
         net'.pc \in {"probe", "down"} \/ net.pc \notin {"probe", "down"}
  PROVE  Configured'
BY DEF Configured, TxSize, HostFrame, ModeFlags, Hw

LEMMA ConfiguredStep ==
  ASSUME ChannelTypes, Known, Running, Configured, [Next]_vars PROVE Configured'
<1> USE DEF ChannelTypes
<1>1. PICK d \in Devices : d = env.device OBVIOUS
<1>2. CASE MakeCandev
  <2>1. dev = NoDev /\ net.pc = "probe" BY <1>2 DEF MakeCandev, Known
  <2>2. net.ctrlmode = {} BY <2>1 DEF Configured, NoDev
  <2>3. net'.pc = "down" /\ net'.ctrlmode = net.ctrlmode /\ fw' = fw
        /\ net'.error = net.error /\ net'.timed = net.timed
    BY <1>2 DEF MakeCandev, NetType, reception
  <2>4. ~fw.started BY <2>1 DEF Running
  <2> QED BY <2>2, <2>3, <2>4 DEF Configured
<1>3. ASSUME NEW m \in LinkModes, Configure(m) PROVE Configured'
  <2>1. PICK failed \in Timings(m) \cup {"none"}, mode \in {m, net.ctrlmode} :
          ConfiguresWith(m, failed, mode)
    BY <1>3, Configuring
  <2>2. net.pc = "down" /\ m \subseteq dev.supported /\ dev' = dev BY <2>1 DEF ConfiguresWith
  <2>3. /\ net'.pc = "down" /\ net'.ctrlmode = mode
        /\ net'.error = FALSE => failed = "none" /\ mode = m
    BY <2>1, <2>2 DEF ConfiguresWith, NetType
  <2>4. ~fw.started BY <2>2 DEF Running
  <2>5. dev = DevOf(d) BY <1>1, <2>2 DEF Known
  <2>6. "FD" \in m => Understands(d, DataRequest) BY <2>2, <2>5, DataAnnounced
  <2>7. PICK x \in BOOLEAN, y \in BOOLEAN :
          /\ x = (fw.timed \/ failed # "BITTIMING")
          /\ y = (fw.fdTimed \/ ("FD" \in m /\ failed = "none"
                                /\ Understands(env.device, DataRequest)))
    OBVIOUS
  <2>8. fw' = [fw EXCEPT !.timed = x, !.fdTimed = y] BY <2>1, <2>7 DEF ConfiguresWith
  <2>9. fw'.timed = x /\ fw'.fdTimed = y /\ fw'.started = fw.started BY <2>8 DEF FwType
  <2>10. failed = "none" => x = TRUE /\ ("FD" \in m => y = TRUE) BY <1>1, <2>6, <2>7
  <2>11. mode \subseteq dev.supported BY <2>2 DEF Configured
  <2> QED BY <2>2, <2>3, <2>4, <2>9, <2>10, <2>11 DEF Configured
<1>4. CASE OpenBegin
  <2>1. net.pc = "down" BY <1>4 DEF OpenBegin
  <2>2. ~fw.started BY <2>1 DEF Running
  <2>3. PICK o : fw' = [fw EXCEPT !.opens = o, !.size = TxSize(net.ctrlmode)]
    BY <1>4 DEF OpenBegin
  <2>4. /\ fw'.size = TxSize(net.ctrlmode) /\ fw'.started = fw.started
        /\ fw'.timed = fw.timed /\ fw'.fdTimed = fw.fdTimed
    BY <2>3 DEF FwType
  <2>5. /\ net'.ctrlmode = net.ctrlmode /\ net'.error = net.error
        /\ net'.timed = net.timed /\ net.timed = TRUE
    BY <1>4 DEF OpenBegin, Timed, NetType
  <2>6. dev' = dev BY <1>4 DEF OpenBegin
  <2> QED BY <2>2, <2>4, <2>5, <2>6 DEF Configured, TxSize, HostFrame
<1>5. CASE StartDevice
  <2>1. net.pc = "mode" /\ dev' = dev BY <1>5 DEF StartDevice
  <2>2. net'.ctrlmode = net.ctrlmode /\ net'.error = net.error /\ net'.timed = net.timed
    BY <1>5 DEF StartDevice, NetType
  <2>3. fw'.timed = fw.timed /\ fw'.fdTimed = fw.fdTimed /\ fw'.size = fw.size
    BY <1>5 DEF StartDevice, FwType
  <2>4. fw'.flags = ModeFlags BY <1>5 DEF StartDevice, FwType
  <2>5. fw.size = TxSize(net.ctrlmode) BY <2>1 DEF Configured
  <2> QED BY <2>1, <2>2, <2>3, <2>4, <2>5 DEF Configured, TxSize, HostFrame, ModeFlags, Hw
<1>6. CASE ResetAndDisable
  <2>1. net'.pc = "down" /\ net'.ctrlmode = net.ctrlmode
        /\ net'.error = net.error /\ net'.timed = net.timed
    BY <1>6 DEF ResetAndDisable, NetType
  <2>2. dev' = dev BY <1>6 DEF ResetAndDisable
  <2>3. fw'.started = FALSE /\ fw'.timed = fw.timed /\ fw'.fdTimed = fw.fdTimed
    BY <1>6 DEF ResetAndDisable, FwType
  <2> QED BY <2>1, <2>2, <2>3 DEF Configured
<1>7. CASE SetErrorActive BY <1>7, ModesKept DEF SetErrorActive, NetType
<1>8. CASE StartDeviceFails BY <1>8, ModesKept DEF StartDeviceFails, NetType, reception
<1>9. CASE CloseBegin BY <1>9, ModesKept DEF CloseBegin, NetType, reception
<1>10. CASE KillRxUrbs BY <1>10, ModesKept DEF KillRxUrbs, NetType, reception
<1>11. CASE SetStopped BY <1>11, ModesKept DEF SetStopped, NetType, reception
<1>12. CASE SetPhysId \/ SetTermination \/ GetBerrCounter \/ OpenUntimed \/ UNCHANGED vars
  BY <1>12, ModesKept DEF SetPhysId, SetTermination, GetBerrCounter, OpenUntimed, vars, reception
<1>13. CASE Callback \/ Poll
  <2>1. dev' = dev /\ fw' = fw
    BY <1>13 DEF Callback, Enter, Handle, HandleNoSkb, Overflow, OverflowNoSkb, Finish, Poll
  <2>2. net'.pc = net.pc /\ net'.ctrlmode = net.ctrlmode /\ net'.error = net.error
        /\ net'.timed = net.timed
    BY <1>13 DEF Callback, Enter, Handle, HandleNoSkb, Overflow, OverflowNoSkb, Finish, Poll,
                 NetType
  <2> QED BY <2>1, <2>2, ModesKept
<1>14. CASE SendFrame \/ ChangeState
  <2>1. PICK f \in FrameType, s \in States :
          /\ fw' = [fw EXCEPT !.sent = fw.sent + 1, !.state = s]
          /\ UNCHANGED <<dev, net>>
    BY <1>14, Sent
  <2>2. /\ fw'.timed = fw.timed /\ fw'.fdTimed = fw.fdTimed /\ fw'.started = fw.started
        /\ fw'.flags = fw.flags /\ fw'.size = fw.size
    BY <2>1 DEF FwType
  <2> QED BY <2>1, <2>2, ModesKept
<1> QED BY <1>2, <1>3, <1>4, <1>5, <1>6, <1>7, <1>8, <1>9, <1>10, <1>11, <1>12, <1>13, <1>14
        DEF Next, Control, OpenClose

ConfigInv == Known /\ Understood /\ Configured

THEOREM ConfigInvariant == Spec => []ConfigInv
<1>1. Init => ConfigInv
  <2> SUFFICES ASSUME Init PROVE ConfigInv
    OBVIOUS
  <2>1. Known /\ Configured BY DEF Init, Known, Configured, NoDev
  <2>2. Understood BY DEF Init, Understood, Understands
  <2> QED BY <2>1, <2>2 DEF ConfigInv
<1>2. CanInv /\ ConfigInv /\ [Next]_vars => ConfigInv'
  <2> SUFFICES ASSUME CanInv, ConfigInv, [Next]_vars PROVE ConfigInv'
    OBVIOUS
  <2> QED BY KnownStep, UnderstoodStep, ConfiguredStep DEF CanInv, ConfigInv
<1> QED BY <1>1, <1>2, FramesInvariant, PTL DEF Spec

\* Whatever a device announces, it is asked for nothing it does not understand, runs only
\* with flags it announced and, unless the last configuration was reported as failed, with
\* the timings its mode needs, and every frame fits its buffer.
THEOREM NothingUnannounced == Spec => []AnnouncedOnly
<1>1. CanInv /\ ConfigInv => AnnouncedOnly
  <2> SUFFICES ASSUME CanInv, ConfigInv PROVE AnnouncedOnly
    OBVIOUS
  <2> USE DEF CanInv, ConfigInv, ChannelTypes
  <2>1. PICK d \in Devices : d = env.device OBVIOUS
  <2>2. Understands(env.device, request) BY DEF Understood
  <2> SUFFICES ASSUME fw.started
      PROVE /\ net.error \/ (fw.timed /\ ("FD" \in fw.flags => fw.fdTimed))
            /\ fw.flags \subseteq env.device.feature
            /\ HostFrame("FD" \in fw.flags, "HW_TIMESTAMP" \in fw.flags, FALSE) <= RxSize
            /\ fw.size = HostFrame("FD" \in fw.flags, FALSE,
                                   \/ "LPC546XX" \in env.device.feature
                                   \/ env.device.cantact /\ env.device.sw_version <= 2)
            /\ PromisesStamps \/ EthIoctlTaken => "HW_TIMESTAMP" \in fw.flags
    BY <2>2 DEF AnnouncedOnly
  <2>3. net.pc \notin {"probe", "down"} BY DEF Running
  <2>4. dev = DevOf(d) BY <2>1, <2>3 DEF Known
  <2>5. /\ net.ctrlmode \subseteq dev.supported
        /\ net.error = FALSE =>
              fw.timed = TRUE /\ ("FD" \in net.ctrlmode => fw.fdTimed = TRUE)
        /\ fw.size = TxSize(net.ctrlmode) /\ fw.flags = ModeFlags
    BY <2>3 DEF Configured
  <2>6. "FD" \in fw.flags <=> "FD" \in net.ctrlmode BY <2>5 DEF ModeFlags
  <2>7. "HW_TIMESTAMP" \in fw.flags <=> Hw
    <3>1. "HW_TIMESTAMP" \notin dev.supported BY <2>4, Announced
    <3> QED BY <2>5, <3>1 DEF ModeFlags
  <2>8. Hw => "HW_TIMESTAMP" \in d.feature BY <2>4, Announced DEF Hw
  <2>9. fw.flags \subseteq env.device.feature
    <3>1. dev.supported \subseteq d.feature BY <2>4, Announced
    <3> QED BY <2>1, <2>5, <2>8, <3>1 DEF ModeFlags
  <2>10. HostFrame("FD" \in fw.flags, "HW_TIMESTAMP" \in fw.flags, FALSE) <= RxSize
    <3>1. "FD" \in fw.flags => "FD" \in dev.supported BY <2>5, <2>6
    <3>2. "HW_TIMESTAMP" \in fw.flags <=> "HW_TIMESTAMP" \in dev.feature BY <2>7 DEF Hw
    <3>3. HostFrame("FD" \in fw.flags, "HW_TIMESTAMP" \in fw.flags, FALSE)
          <= HostFrame("FD" \in dev.supported, "HW_TIMESTAMP" \in dev.feature, FALSE)
      BY <3>1, <3>2 DEF HostFrame
    <3> QED BY <3>3 DEF RxSize, Hw, HostFrame
  <2>11. fw.size = HostFrame("FD" \in fw.flags, FALSE,
                             \/ "LPC546XX" \in env.device.feature
                             \/ env.device.cantact /\ env.device.sw_version <= 2)
    <3>1. "LPC546XX" \in dev.feature <=>
             "LPC546XX" \in d.feature \/ (d.cantact /\ d.sw_version <= 2)
      BY <2>4, Announced
    <3> QED BY <2>1, <2>5, <2>6, <3>1 DEF TxSize, HostFrame
  <2>12. PromisesStamps \/ EthIoctlTaken => "HW_TIMESTAMP" \in fw.flags
    <3>1. PromisesStamps \/ EthIoctlTaken => Hw BY DEF PromisesStamps, EthIoctlTaken
    <3> QED BY <2>7, <3>1
  <2>13. net.error \/ (fw.timed /\ ("FD" \in fw.flags => fw.fdTimed))
    <3>1. net.error \in BOOLEAN BY DEF NetType
    <3> QED BY <2>5, <2>6, <3>1
  <2> QED BY <2>9, <2>10, <2>11, <2>12, <2>13
<1> QED BY <1>1, FramesInvariant, ConfigInvariant, PTL

-----------------------------------------------------------------------------
(***************************************************************************)
(* The state of the controller.                                            *)
(***************************************************************************)

\* Without RX URBs no callback runs, and then nothing but the open sets the state.
Quiet ==
    /\ net.urbs = FALSE => cb.pc = "idle"
    /\ net.pc = "probe" => net.urbs = FALSE
    /\ net.pc \in {"probe", "down", "reset"} /\ net.urbs = FALSE => state = "STOPPED"

LEMMA QuietStep == ASSUME ChannelTypes, FrameTypes, Quiet, [Next]_vars PROVE Quiet'
<1> USE DEF ChannelTypes, FrameTypes
<1>1. ASSUME net'.urbs = net.urbs, net'.pc = net.pc, cb'.pc = cb.pc \/ net.urbs = TRUE,
             state' = state \/ cb.pc # "idle"
      PROVE  Quiet'
  <2>1. net.urbs \in BOOLEAN BY DEF NetType
  <2> QED BY <1>1, <2>1 DEF Quiet
<1>2. CASE MakeCandev
  <2>1. net.pc = "probe" /\ net'.pc = "down" BY <1>2 DEF MakeCandev, NetType
  <2>2. cb' = cb /\ state' = state BY <1>2 DEF MakeCandev, reception
  <2> QED BY <2>1, <2>2 DEF Quiet
<1>3. ASSUME NEW m \in LinkModes, Configure(m) PROVE Quiet'
  BY <1>1, <1>3 DEF Configure, NetType
<1>4. CASE SetPhysId \/ SetTermination \/ GetBerrCounter \/ OpenUntimed \/ UNCHANGED vars
  BY <1>1, <1>4 DEF SetPhysId, SetTermination, GetBerrCounter, OpenUntimed, vars, reception
<1>5. CASE OpenBegin
  <2>1. net'.urbs = TRUE /\ net'.pc = "state" BY <1>5 DEF OpenBegin, NetType
  <2> QED BY <2>1 DEF Quiet
<1>6. CASE SetErrorActive \/ StartDevice
  <2>1. net'.urbs = net.urbs /\ net'.pc \in {"mode", "up"} /\ cb' = cb
    <3>1. CASE SetErrorActive BY <3>1 DEF SetErrorActive, NetType
    <3>2. CASE StartDevice BY <3>2 DEF StartDevice, NetType
    <3> QED BY <1>6, <3>1, <3>2
  <2> QED BY <2>1 DEF Quiet
<1>7. CASE StartDeviceFails
  <2>1. net'.urbs = net.urbs /\ net'.pc = "down" /\ cb' = cb /\ state' = "STOPPED"
    BY <1>7 DEF StartDeviceFails, NetType, reception
  <2> QED BY <2>1 DEF Quiet
<1>8. CASE CloseBegin
  <2>1. net'.urbs = net.urbs /\ net'.pc = "kill" /\ cb' = cb
    BY <1>8 DEF CloseBegin, NetType, reception
  <2> QED BY <2>1 DEF Quiet
<1>9. CASE KillRxUrbs
  <2>1. env.others \in BOOLEAN OBVIOUS
  <2>2. net'.urbs = env.others /\ net'.pc = "stop" /\ cb' = cb
    BY <1>9, <2>1 DEF KillRxUrbs, NetType, reception
  <2>3. env.others = TRUE \/ cb.pc = "idle" BY <1>9, <2>1 DEF KillRxUrbs
  <2> QED BY <2>2, <2>3 DEF Quiet
<1>10. CASE SetStopped
  <2>1. net'.urbs = net.urbs /\ net'.pc = "reset" /\ cb' = cb /\ state' = "STOPPED"
    BY <1>10 DEF SetStopped, NetType, reception
  <2> QED BY <2>1 DEF Quiet
<1>11. CASE ResetAndDisable
  <2>1. net'.urbs = net.urbs /\ net.pc = "reset" /\ net'.pc = "down" /\ cb' = cb /\ state' = state
    BY <1>11 DEF ResetAndDisable, NetType
  <2> QED BY <2>1 DEF Quiet
<1>12. CASE Enter
  <2>1. net.urbs = TRUE BY <1>12 DEF Enter, NetType
  <2> QED BY <1>1, <1>12, <2>1 DEF Enter
<1>13. CASE Handle \/ HandleNoSkb \/ Overflow \/ OverflowNoSkb \/ Finish
  <2>1. cb.pc # "idle" /\ net'.urbs = net.urbs /\ net'.pc = net.pc
    BY <1>13 DEF Handle, HandleNoSkb, Overflow, OverflowNoSkb, Finish, NetType
  <2>2. net.urbs = TRUE BY <2>1 DEF Quiet, NetType
  <2> QED BY <1>1, <2>1, <2>2
<1>14. CASE Poll BY <1>1, <1>14 DEF Poll, NetType
<1>15. CASE SendFrame \/ ChangeState BY <1>1, <1>15 DEF SendFrame, ChangeState, Send
<1> QED BY <1>2, <1>3, <1>4, <1>5, <1>6, <1>7, <1>8, <1>9, <1>10, <1>11, <1>12, <1>13, <1>14, <1>15
        DEF Next, Control, OpenClose, Callback

THEOREM StoppedInTheEnd == Spec => []StoppedWhenClosed
<1>1. Init => Quiet BY DEF Init, Quiet, CbIdle
<1>2. CanInv /\ Quiet /\ [Next]_vars => Quiet'
  BY QuietStep DEF CanInv, FramesInv
<1>3. CanInv /\ Quiet => StoppedWhenClosed
  BY DEF CanInv, ChannelTypes, NetType, Quiet, StoppedWhenClosed
<1> QED BY <1>1, <1>2, <1>3, FramesInvariant, PTL DEF Spec

\* The frames still to be handled, and those that tell the state of the running device.
Handled == IF cb.pc = "handle" THEN {cb.frame} ELSE {}
Ahead   == Range(pipe) \cup Handled
Tells(f) == f.err # {} /\ f.open = fw.opens
Tellers == {f \in Ahead : Tells(f)}

\* While the channel is up the youngest teller tells the state of the device; when there
\* is none, the driver has that state already, or was misled.
Followed ==
    /\ \A f \in Tellers : (\A g \in Tellers : g.n <= f.n) => StateTold(f.err) = fw.state
    /\ Tellers = {} => misled = TRUE \/ state = fw.state

\* Frames from before an open are recognised: none is current until the device starts.
StateInv ==
    /\ \A f \in Ahead : f.open <= fw.opens /\ (net.pc \in {"state", "mode"} => f.open < fw.opens)
    /\ net.pc \in {"state", "mode", "up"} => net.running = TRUE
    /\ net.pc = "mode" => misled = TRUE \/ state = "ERROR_ACTIVE"
    /\ net.pc = "up" => Followed

LEMMA AheadTyped ==
  ASSUME FrameTypes, Numbered, ChannelTypes
  PROVE  /\ fw.sent \in Nat
         /\ \A f \in Ahead : f \in FrameType /\ f.n \in 1 .. fw.sent
         /\ cb.pc = "handle" => \A f \in Range(pipe) : cb.frame.n < f.n
<1>1. fw.sent \in Nat BY DEF ChannelTypes, FwType
<1>2. \A f \in Range(pipe) : f \in FrameType
  <2>1. pipe \in Seq(FrameType) BY DEF FrameTypes
  <2> QED BY <2>1, SeqRanges
<1>3. cb.frame \in FrameType BY DEF FrameTypes, CbType
<1> QED BY <1>1, <1>2, <1>3 DEF Ahead, Handled, Numbered

\* A step that leaves alone what is told, and what is known.
LEMMA StateKept ==
  ASSUME StateInv, Ahead' = Ahead, fw'.opens = fw.opens, fw'.state = fw.state,
         state' = state, misled' = misled,
         \/ net'.pc = net.pc /\ net'.running = net.running
         \/ net'.pc \notin {"state", "mode", "up"}
  PROVE  StateInv'
<1>1. Tellers' = Tellers BY DEF Tellers, Tells
<1>2. Followed => Followed' BY <1>1 DEF Followed
<1> QED BY <1>2 DEF StateInv

\* The frame the callback handles is behind it, and its state followed, or missed.
LEMMA StateHandled ==
  ASSUME StateInv, FrameTypes, Numbered, ChannelTypes, cb.pc = "handle", cb'.pc # "handle",
         UNCHANGED <<pipe, fw, net>>,
         \/ /\ cb.frame.err # {} /\ state' = StateTold(cb.frame.err)
            /\ misled' = ~Current(cb.frame)
         \/ cb.frame.err = {} /\ state' = state /\ (misled = TRUE => misled' = TRUE)
         \/ /\ cb.frame.err # {} /\ state' = state
            /\ misled' = (misled \/ Current(cb.frame))
  PROVE  StateInv'
<1>1. PICK f \in FrameType : f = cb.frame BY DEF FrameTypes, CbType
<1>2. misled \in BOOLEAN BY DEF ChannelTypes
<1>3. f.open \in Nat /\ fw.opens \in Nat BY DEF FrameType, ChannelTypes, FwType
<1>4. Ahead = Range(pipe) \cup {f} /\ Ahead' = Range(pipe) BY <1>1 DEF Ahead, Handled
<1>5. Current(f) <=> f.open = fw.opens BY DEF Current
<1>6. \/ f.err # {} /\ f.open = fw.opens
         /\ (state' = StateTold(f.err) \/ misled' = TRUE)
      \/ f.err # {} /\ f.open # fw.opens
         /\ (misled' = TRUE \/ (state' = state /\ (misled = TRUE => misled' = TRUE)))
      \/ f.err = {} /\ state' = state /\ (misled = TRUE => misled' = TRUE)
  <2>1. CASE /\ f.err # {} /\ state' = StateTold(f.err) /\ misled' = ~Current(f)
    BY <1>5, <2>1
  <2>2. CASE f.err = {} /\ state' = state /\ (misled = TRUE => misled' = TRUE) BY <2>2
  <2>3. CASE f.err # {} /\ state' = state /\ misled' = (misled \/ Current(f))
    <3>1. CASE f.open = fw.opens
      <4>1. misled' = TRUE BY <1>2, <1>5, <2>3, <3>1
      <4> QED BY <2>3, <3>1, <4>1
    <3>2. CASE f.open # fw.opens
      <4>1. misled = TRUE => misled' = TRUE BY <1>2, <2>3
      <4> QED BY <2>3, <3>2, <4>1
    <3> QED BY <3>1, <3>2
  <2> QED BY <1>1, <2>1, <2>2, <2>3
<1>7. \A g \in Range(pipe) : f.n < g.n /\ f.n \in Int /\ g.n \in Int BY <1>1, <1>4, AheadTyped
<1>8. net.pc = "mode" => misled' = TRUE \/ state' = "ERROR_ACTIVE"
  <2> SUFFICES ASSUME net.pc = "mode" PROVE misled' = TRUE \/ state' = "ERROR_ACTIVE"
    OBVIOUS
  <2>1. f.open < fw.opens BY <1>4 DEF StateInv
  <2>2. f.open # fw.opens BY <1>3, <2>1
  <2>3. misled = TRUE \/ state = "ERROR_ACTIVE" BY DEF StateInv
  <2> QED BY <1>6, <2>2, <2>3
<1>9. net.pc = "up" => Followed'
  <2> SUFFICES ASSUME net.pc = "up" PROVE Followed'
    OBVIOUS
  <2>1. Followed BY DEF StateInv
  <2>2. Tellers' = {g \in Range(pipe) : Tells(g)} BY <1>4 DEF Tellers, Tells
  <2>3. Tellers = {g \in Range(pipe) \cup {f} : Tells(g)} BY <1>4 DEF Tellers
  <2>4. ASSUME NEW t \in Tellers', \A g \in Tellers' : g.n <= t.n
        PROVE  StateTold(t.err) = fw.state
    <3>1. t \in Tellers /\ f.n < t.n /\ f.n \in Int /\ t.n \in Int BY <1>7, <2>2, <2>3
    <3>2. f.n <= t.n BY <3>1
    <3>3. \A g \in Tellers : g.n <= t.n BY <2>2, <2>3, <2>4, <3>2
    <3> QED BY <2>1, <3>1, <3>3 DEF Followed
  <2>5. ASSUME Tellers' = {} PROVE misled' = TRUE \/ state' = fw.state
    <3>1. CASE Tells(f)
      <4>1. Tellers = {f} BY <2>2, <2>3, <2>5, <3>1
      <4>2. f.n <= f.n BY DEF FrameType
      <4>3. StateTold(f.err) = fw.state BY <2>1, <4>1, <4>2 DEF Followed
      <4> QED BY <1>6, <3>1, <4>3 DEF Tells
    <3>2. CASE ~Tells(f)
      <4>1. Tellers = {} BY <2>2, <2>3, <2>5, <3>2
      <4>2. misled = TRUE \/ state = fw.state BY <2>1, <4>1 DEF Followed
      <4> QED BY <1>6, <3>2, <4>2 DEF Tells
    <3> QED BY <3>1, <3>2
  <2> QED BY <2>4, <2>5 DEF Followed
<1>10. \A g \in Ahead' : g \in Ahead BY <1>4
<1> QED BY <1>8, <1>9, <1>10 DEF StateInv

\* The device sends a frame, and with an error frame its new state.
LEMMA StateSent ==
  ASSUME StateInv, FrameTypes, Numbered, ChannelTypes, Running, SendFrame \/ ChangeState
  PROVE  StateInv'
<1>1. PICK f \in FrameType, s \in States :
        /\ f.n = fw.sent + 1 /\ f.open = fw.opens /\ fw.started
        /\ (f.err = {} /\ s = fw.state) \/ (f.err # {} /\ StateTold(f.err) = s)
        /\ fw' = [fw EXCEPT !.sent = fw.sent + 1, !.state = s]
        /\ pipe' = Append(pipe, f)
        /\ UNCHANGED <<env, dev, request, net, state, cb, irqQueue, napiQueue, got, lost, misled>>
  BY Sent
<1>2. fw'.opens = fw.opens /\ fw'.state = s BY <1>1 DEF ChannelTypes, FwType
<1>3. net.pc \notin {"state", "mode"} BY <1>1 DEF Running
<1>4. Range(pipe') = Range(pipe) \cup {f} BY <1>1, AppendRange DEF FrameTypes
<1>5. Ahead' = Ahead \cup {f}
  <2>1. Handled' = Handled BY <1>1 DEF Handled
  <2> QED BY <1>4, <2>1 DEF Ahead
<1>6. \A g \in Ahead : g.n < f.n /\ g.n \in Int /\ f.n \in Int
  <2> SUFFICES ASSUME NEW g \in Ahead PROVE g.n < f.n /\ g.n \in Int /\ f.n \in Int
    OBVIOUS
  <2>1. PICK k \in Nat : k = fw.sent BY AheadTyped
  <2>2. g.n \in 1 .. k /\ f.n = k + 1 BY <1>1, <2>1, AheadTyped
  <2> QED BY <2>2
<1>7. f.open <= fw.opens BY <1>1 DEF FrameType
<1>8. Tellers' = {g \in Ahead \cup {f} : Tells(g)} BY <1>2, <1>5 DEF Tellers, Tells
<1>9. Followed => Followed'
  <2> SUFFICES ASSUME Followed PROVE Followed'
    OBVIOUS
  <2>1. CASE f.err = {} /\ s = fw.state
    <3>1. ~Tells(f) BY <2>1 DEF Tells
    <3>2. Tellers' = Tellers BY <1>8, <3>1 DEF Tellers
    <3> QED BY <1>1, <1>2, <2>1, <3>2 DEF Followed
  <2>2. CASE f.err # {} /\ StateTold(f.err) = s
    <3>1. f \in Tellers' BY <1>1, <1>8, <2>2 DEF Tells
    <3>2. ASSUME NEW t \in Tellers', \A g \in Tellers' : g.n <= t.n PROVE t = f
      <4>1. f.n <= t.n BY <3>1, <3>2
      <4>2. t \in Ahead => t.n < f.n /\ t.n \in Int /\ f.n \in Int BY <1>6
      <4>3. t \notin Ahead BY <4>1, <4>2
      <4> QED BY <1>8, <4>3
    <3> QED BY <1>2, <2>2, <3>1, <3>2 DEF Followed
  <2> QED BY <1>1, <2>1, <2>2
<1>10. \A g \in Ahead' : g.open <= fw'.opens /\ (net'.pc \in {"state", "mode"} => g.open < fw'.opens)
  BY <1>1, <1>2, <1>3, <1>5, <1>7 DEF StateInv
<1> QED BY <1>1, <1>3, <1>9, <1>10 DEF StateInv

LEMMA StateStep ==
  ASSUME ChannelTypes, FrameTypes, Numbered, Fresh, Running, StateInv, [Next]_vars
  PROVE  StateInv'
<1> USE DEF ChannelTypes, FrameTypes
<1>1. ASSUME UNCHANGED <<pipe, cb>> PROVE Ahead' = Ahead BY <1>1 DEF Ahead, Handled
<1>2. CASE MakeCandev
  <2>1. UNCHANGED <<fw, pipe, cb, state, misled>> BY <1>2 DEF MakeCandev, reception
  <2>2. net'.pc = "down" BY <1>2 DEF MakeCandev, NetType
  <2> QED BY <1>1, <2>1, <2>2, StateKept
<1>3. ASSUME NEW m \in LinkModes, Configure(m) PROVE StateInv'
  <2>1. UNCHANGED <<pipe, cb, state, misled>> BY <1>3 DEF Configure
  <2>2. net'.pc = net.pc /\ net'.running = net.running BY <1>3 DEF Configure, NetType
  <2>3. fw'.opens = fw.opens /\ fw'.state = fw.state BY <1>3 DEF Configure, FwType
  <2> QED BY <1>1, <2>1, <2>2, <2>3, StateKept
<1>4. CASE SetPhysId \/ SetTermination \/ GetBerrCounter \/ OpenUntimed \/ UNCHANGED vars
  <2>1. UNCHANGED <<fw, net, pipe, cb, state, misled>>
    BY <1>4 DEF SetPhysId, SetTermination, GetBerrCounter, OpenUntimed, vars, reception
  <2> QED BY <1>1, <2>1, StateKept
<1>5. CASE OpenBegin
  <2>1. UNCHANGED <<pipe, cb>> BY <1>5 DEF OpenBegin
  <2>2. net'.pc = "state" /\ net'.running = TRUE BY <1>5 DEF OpenBegin, NetType
  <2>3. PICK o \in Nat : o = fw.opens BY DEF FwType
  <2>4. PICK z : fw' = [fw EXCEPT !.opens = o + 1, !.size = z] BY <1>5, <2>3 DEF OpenBegin
  <2>5. fw'.opens = o + 1 BY <2>4 DEF FwType
  <2>6. \A f \in Ahead : f.open \in Nat /\ f.open <= o
    <3>1. \A f \in Ahead : f \in FrameType BY AheadTyped
    <3> QED BY <2>3, <3>1 DEF StateInv, FrameType
  <2>7. \A f \in Ahead : f.open <= o + 1 /\ f.open < o + 1 BY <2>6
  <2> QED BY <1>1, <2>1, <2>2, <2>5, <2>7 DEF StateInv
<1>6. CASE SetErrorActive
  <2>1. UNCHANGED <<pipe, cb, fw>> /\ state' = "ERROR_ACTIVE" /\ net.pc = "state"
    BY <1>6 DEF SetErrorActive
  <2>2. net'.pc = "mode" /\ net'.running = net.running BY <1>6 DEF SetErrorActive, NetType
  <2> QED BY <1>1, <2>1, <2>2 DEF StateInv
<1>7. CASE StartDevice
  <2>1. UNCHANGED <<pipe, cb, state, misled>> /\ net.pc = "mode" BY <1>7 DEF StartDevice
  <2>2. net'.pc = "up" /\ net'.running = net.running BY <1>7 DEF StartDevice, NetType
  <2>3. fw'.opens = fw.opens /\ fw'.state = "ERROR_ACTIVE" BY <1>7 DEF StartDevice, FwType
  <2>4. Ahead' = Ahead BY <1>1, <2>1
  <2>5. Tellers' = {}
    <3>1. \A f \in Ahead : f.open < fw.opens /\ f.open \in Nat
      <4>1. \A f \in Ahead : f \in FrameType BY AheadTyped
      <4> QED BY <2>1, <4>1 DEF StateInv, FrameType
    <3>2. fw.opens \in Nat BY DEF FwType
    <3>3. \A f \in Ahead : f.open # fw.opens BY <3>1, <3>2
    <3> QED BY <2>3, <2>4, <3>3 DEF Tellers, Tells
  <2>6. Followed' BY <2>1, <2>3, <2>5 DEF Followed, StateInv
  <2> QED BY <2>1, <2>2, <2>3, <2>4, <2>6 DEF StateInv
<1>8. CASE StartDeviceFails \/ CloseBegin \/ KillRxUrbs \/ SetStopped \/ ResetAndDisable
  <2>1. UNCHANGED <<pipe, cb>>
    BY <1>8 DEF StartDeviceFails, CloseBegin, KillRxUrbs, SetStopped, ResetAndDisable, reception
  <2>2. net'.pc \notin {"state", "mode", "up"}
    <3>1. CASE StartDeviceFails BY <3>1 DEF StartDeviceFails, NetType
    <3>2. CASE CloseBegin BY <3>2 DEF CloseBegin, NetType
    <3>3. CASE KillRxUrbs BY <3>3 DEF KillRxUrbs, NetType
    <3>4. CASE SetStopped BY <3>4 DEF SetStopped, NetType
    <3>5. CASE ResetAndDisable BY <3>5 DEF ResetAndDisable, NetType
    <3> QED BY <1>8, <3>1, <3>2, <3>3, <3>4, <3>5
  <2>3. fw'.opens = fw.opens
    BY <1>8 DEF StartDeviceFails, CloseBegin, KillRxUrbs, SetStopped, ResetAndDisable, reception,
                FwType
  <2> QED BY <1>1, <2>1, <2>2, <2>3 DEF StateInv
<1>9. CASE Enter
  <2>1. UNCHANGED <<net, state, fw, misled>> /\ cb.pc = "idle" /\ pipe # <<>> /\ pipe' = Tail(pipe)
    BY <1>9 DEF Enter
  <2>2. PICK h \in FrameType : h = Head(pipe) /\ Range(pipe) = Range(Tail(pipe)) \cup {h}
    BY <2>1, HeadRange
  <2>3. CASE net.running = TRUE
    <3>1. cb' = [pc |-> "handle", frame |-> h] BY <1>9, <2>2, <2>3 DEF Enter
    <3>2. Ahead' = Ahead BY <2>1, <2>2, <3>1 DEF Ahead, Handled
    <3> QED BY <2>1, <3>2, StateKept
  <2>4. CASE net.running = FALSE
    <3>1. cb' = cb BY <1>9, <2>4 DEF Enter
    <3>2. Ahead' \subseteq Ahead BY <2>1, <2>2, <3>1 DEF Ahead, Handled
    <3>3. net.pc \notin {"state", "mode", "up"} BY <2>4 DEF StateInv
    <3> QED BY <2>1, <3>2, <3>3 DEF StateInv
  <2> QED BY <2>3, <2>4 DEF NetType
<1>10. CASE Handle
  <2>1. cb.pc = "handle" /\ UNCHANGED <<pipe, fw, net>> BY <1>10 DEF Handle
  <2>2. cb'.pc # "handle" BY <1>10 DEF Handle, CbType
  <2>3. \/ /\ cb.frame.err # {} /\ state' = StateTold(cb.frame.err)
           /\ misled' = ~Current(cb.frame)
        \/ cb.frame.err = {} /\ state' = state /\ misled' = misled
    BY <1>10 DEF Handle
  <2> QED BY <2>1, <2>2, <2>3, StateHandled
<1>11. CASE HandleNoSkb
  <2>1. cb.pc = "handle" /\ UNCHANGED <<pipe, fw, net>> /\ state' = state
    BY <1>11 DEF HandleNoSkb
  <2>2. cb'.pc # "handle" BY <1>11 DEF HandleNoSkb, CbIdle
  <2>3. misled' = (misled \/ (cb.frame.err # {} /\ Current(cb.frame)))
    BY <1>11 DEF HandleNoSkb
  <2>4. CASE cb.frame.err = {}
    <3>1. misled = TRUE => misled' = TRUE BY <2>3
    <3> QED BY <2>1, <2>2, <2>4, <3>1, StateHandled
  <2>5. CASE cb.frame.err # {}
    <3>1. misled' = (misled \/ Current(cb.frame)) BY <2>3, <2>5
    <3> QED BY <2>1, <2>2, <2>5, <3>1, StateHandled
  <2> QED BY <2>4, <2>5
<1>12. CASE Overflow \/ OverflowNoSkb \/ Finish
  <2>1. cb.pc # "handle" /\ pipe' = pipe /\ UNCHANGED <<fw, state, misled>>
    BY <1>12 DEF Overflow, OverflowNoSkb, Finish
  <2>2. cb'.pc # "handle" BY <1>12 DEF Overflow, OverflowNoSkb, Finish, CbType, CbIdle
  <2>3. net'.pc = net.pc /\ net'.running = net.running
    BY <1>12 DEF Overflow, OverflowNoSkb, Finish, NetType
  <2>4. Ahead' = Ahead BY <2>1, <2>2 DEF Ahead, Handled
  <2> QED BY <2>1, <2>3, <2>4, StateKept
<1>13. CASE Poll
  <2>1. UNCHANGED <<pipe, cb, fw, state, misled>> BY <1>13 DEF Poll
  <2>2. net'.pc = net.pc /\ net'.running = net.running BY <1>13 DEF Poll, NetType
  <2> QED BY <1>1, <2>1, <2>2, StateKept
<1>14. CASE SendFrame \/ ChangeState BY <1>14, StateSent
<1> QED BY <1>2, <1>3, <1>4, <1>5, <1>6, <1>7, <1>8, <1>9, <1>10, <1>11, <1>12, <1>13, <1>14
        DEF Next, Control, OpenClose, Callback

\* While the channel is up and nothing tells of a change, the state the driver shows is the
\* controller's own.
THEOREM StateFollowed == Spec => []StateAgrees
<1>1. Init => StateInv
  <2> SUFFICES ASSUME Init PROVE StateInv
    OBVIOUS
  <2>1. Range(pipe) = {} BY EmptyRange DEF Init
  <2>2. Ahead = {} BY <2>1 DEF Init, Ahead, Handled, CbIdle
  <2> QED BY <2>2 DEF Init, StateInv
<1>2. CanInv /\ StateInv /\ [Next]_vars => StateInv'
  BY StateStep DEF CanInv, FramesInv
<1>3. CanInv /\ StateInv => StateAgrees
  <2> SUFFICES ASSUME CanInv, StateInv, net.pc = "up", ~misled,
                      cb.pc = "handle" => cb.frame.err = {},
                      \A i \in DOMAIN pipe : pipe[i].err = {}
               PROVE  state = fw.state
    BY DEF StateAgrees
  <2>1. \A f \in Ahead : f.err = {} BY DEF Ahead, Handled, Range
  <2>2. Tellers = {} BY <2>1 DEF Tellers, Tells
  <2> QED BY <2>2 DEF StateInv, Followed
<1> QED BY <1>1, <1>2, <1>3, FramesInvariant, PTL DEF Spec
=============================================================================
