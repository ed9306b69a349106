--------------------------- MODULE GsUsbTxProofs ---------------------------
(***************************************************************************)
(* Proofs about GsUsbTx, for every number of contexts, frames and reopens. *)
(***************************************************************************)
EXTENDS GsUsbTx, TLAPS

USE MaxTxUrbsAssumption, BoundsAssumption, FlagsAssumption DEF Ids, Skbs, NoSkb, Frames

\* The pipe's contents when an echo is appended to it or taken from it.
LEMMA HeldAppend ==
  ASSUME NEW S, NEW s \in Seq(S), NEW f \in S
  PROVE  /\ Append(s, f) \in Seq(S)
         /\ Held(Append(s, f)) = Held(s) \cup {f}
<1> DEFINE t == Append(s, f)
<1>1. t \in Seq(S) /\ DOMAIN t = 1 .. Len(s) + 1 /\ DOMAIN s = 1 .. Len(s)
  OBVIOUS
<1>2. \A k \in 1 .. Len(s) : t[k] = s[k]
  OBVIOUS
<1>3. t[Len(s) + 1] = f
  OBVIOUS
<1> HIDE DEF t
<1>4. Held(t) = Held(s) \cup {f}
  <2>1. ASSUME NEW k \in 1 .. Len(s) + 1 PROVE t[k] \in Held(s) \cup {f}
    <3>1. CASE k = Len(s) + 1 BY <3>1, <1>3
    <3>2. CASE k # Len(s) + 1
      <4>1. k \in 1 .. Len(s) /\ t[k] = s[k] BY <3>2, <1>2
      <4> QED BY <4>1, <1>1 DEF Held
    <3> QED BY <3>1, <3>2
  <2>2. ASSUME NEW k \in 1 .. Len(s) PROVE s[k] \in Held(t)
    <3>1. k \in 1 .. Len(s) + 1 /\ t[k] = s[k] BY <1>2
    <3> QED BY <3>1, <1>1 DEF Held
  <2>3. f \in Held(t)
    <3>1. Len(s) + 1 \in 1 .. Len(s) + 1 OBVIOUS
    <3> QED BY <3>1, <1>1, <1>3 DEF Held
  <2> QED BY <2>1, <2>2, <2>3, <1>1 DEF Held
<1> QED BY <1>1, <1>4 DEF t

\* Whatever the pipe holds is an element of its type.
LEMMA HeldSubset ==
  ASSUME NEW S, NEW s \in Seq(S) PROVE Held(s) \subseteq S
<1>1. DOMAIN s = 1 .. Len(s) /\ \A k \in 1 .. Len(s) : s[k] \in S
  OBVIOUS
<1> QED BY <1>1 DEF Held

\* Taking the head of the pipe leaves frames that were in it.
LEMMA HeldTail ==
  ASSUME NEW S, NEW s \in Seq(S), s # <<>>
  PROVE  /\ Tail(s) \in Seq(S) /\ Head(s) \in S
         /\ Held(s) = Held(Tail(s)) \cup {Head(s)}
         /\ Held(s) \subseteq S
<1> DEFINE t == Tail(s)
<1>1. Len(s) \in Nat \ {0} /\ DOMAIN s = 1 .. Len(s) /\ Head(s) = s[1]
  OBVIOUS
<1>2. t \in Seq(S) /\ DOMAIN t = 1 .. Len(s) - 1
  BY <1>1
<1>3. \A k \in 1 .. Len(s) - 1 : t[k] = s[k + 1]
  BY <1>1
<1>4. \A k \in 1 .. Len(s) : s[k] \in S
  BY <1>1
<1> HIDE DEF t
<1>5. Held(s) \subseteq Held(t) \cup {s[1]}
  <2> SUFFICES ASSUME NEW k \in 1 .. Len(s), k # 1 PROVE s[k] \in Held(t)
    BY <1>1 DEF Held
  <2>1. k - 1 \in 1 .. Len(s) - 1 /\ t[k - 1] = s[k]
    BY <1>1, <1>3
  <2> QED BY <1>2, <2>1 DEF Held
<1>6. Held(t) \cup {s[1]} \subseteq Held(s)
  BY <1>1, <1>2, <1>3 DEF Held
<1>7. Held(s) \subseteq S /\ s[1] \in S
  BY <1>1, <1>4 DEF Held
<1>8. Held(s) = Held(t) \cup {s[1]}
  BY <1>5, <1>6
<1> QED BY <1>1, <1>2, <1>7, <1>8 DEF t

\* Every step of the driver and of the stack keeps the types of what the
\* network stack sees: echo slots, fates and the queue.
LEMMA StackTypeStep ==
  ASSUME TypeOK, [Next]_vars PROVE StackTypeOK'
<1> USE DEF TypeOK, StackTypeOK
<1>1. CASE DropInvalid BY <1>1 DEF DropInvalid, XmitMayStart
<1>2. CASE AllocTxContext BY <1>2 DEF AllocTxContext, XmitMayStart
<1>3. CASE EndFailedXmit \/ Detach BY <1>3 DEF EndFailedXmit, Detach
<1>4. CASE StopQueue BY <1>4 DEF StopQueue
<1>5. CASE WakeQueue BY <1>5 DEF WakeQueue
<1>6. CASE CloseBegin BY <1>6 DEF CloseBegin
<1>7. CASE Close BY <1>7 DEF Close
<1>8. CASE Open BY <1>8 DEF Open
<1>9. CASE UNCHANGED stack BY <1>9 DEF stack
<1> QED
  BY <1>1, <1>2, <1>3, <1>4, <1>5, <1>6, <1>7, <1>8, <1>9
     DEF TxBusy, NoMem, PutEchoSkb, IncActive, SubmitTxUrb, SubmitFails, FreeEchoSkb,
         ClearEchoSkb, GiveBackTxContext, ReadActive, ReceiveEcho, IgnoreEcho,
         LogUnusedEchoId, ReadEchoSkb, StampEchoSkb, TakeEchoSkb, LoopBackEchoSkb,
         FreeTxContext, DecActive, LoseRxUrb, TxUrbDone, TxUrbFails, Transmit, Next,
         XmitStart, XmitContinue, CallbackStep, vars

\* Every step keeps the program counters and the variables of gs_can_start_xmit
\* and of the receive callback well typed.
LEMMA ThreadTypeStep ==
  ASSUME TypeOK, [Next]_vars PROVE ThreadTypeOK'
<1> USE DEF TypeOK, StackTypeOK, ThreadTypeOK, OutsideTypeOK, XmitPcs, CallbackPcs, At
<1>1. CASE AllocTxContext BY <1>1 DEF AllocTxContext, XmitMayStart
<1>2. CASE NoMem BY <1>2 DEF NoMem, Idle
<1>3. CASE PutEchoSkb BY <1>3 DEF PutEchoSkb, Goto
<1>4. CASE IncActive BY <1>4 DEF IncActive, Goto
<1>5. CASE SubmitTxUrb BY <1>5 DEF SubmitTxUrb, Goto
<1>6. CASE SubmitFails BY <1>6 DEF SubmitFails, Goto
<1>7. CASE FreeEchoSkb \/ ClearEchoSkb \/ GiveBackTxContext
  BY <1>7 DEF FreeEchoSkb, ClearEchoSkb, GiveBackTxContext, Goto
<1>8. CASE ReadActive BY <1>8, SMTT(30) DEF ReadActive, Goto, Idle
<1>9. CASE StopQueue \/ EndFailedXmit BY <1>9 DEF StopQueue, EndFailedXmit, Idle
<1>10. CASE ReceiveEcho
  <2>1. in # <<>> /\ in \in Seq(Frames) BY <1>10 DEF ReceiveEcho, EchoArrives
  <2>2. Head(in) \in Frames
    <3> HIDE DEF Frames
    <3> QED BY <2>1, HeldTail
  <2>3. Head(in).id \in Ids /\ Head(in).skb \in Skbs BY <2>2
  <2> QED BY <1>10, <2>3 DEF ReceiveEcho
<1>11. CASE LogUnusedEchoId BY <1>11 DEF LogUnusedEchoId, NoEcho
<1>12. CASE ReadEchoSkb \/ StampEchoSkb \/ TakeEchoSkb \/ LoopBackEchoSkb
  <2>1. callback.id \in Ids /\ echo_skb[callback.id] \in Skbs \cup {NoSkb}
    BY DEF DriverTypeOK
  <2> QED BY <1>12, <2>1
          DEF ReadEchoSkb, StampEchoSkb, TakeEchoSkb, LoopBackEchoSkb, CallbackGoto
<1>13. CASE FreeTxContext BY <1>13 DEF FreeTxContext, CallbackGoto
<1>14. CASE DecActive BY <1>14 DEF DecActive, CallbackGoto
<1>15. CASE WakeQueue BY <1>15 DEF WakeQueue, NoEcho
<1>16. CASE UNCHANGED <<xmit, callback>> BY <1>16
<1> QED
  BY <1>1, <1>2, <1>3, <1>4, <1>5, <1>6, <1>7, <1>8, <1>9, <1>10, <1>11,
     <1>12, <1>13, <1>14, <1>15, <1>16
     DEF DropInvalid, TxBusy, IgnoreEcho, LoseRxUrb, Detach, TxUrbDone, TxUrbFails,
         Transmit, CloseBegin, Close, Open, Next, XmitStart, XmitContinue, CallbackStep,
         vars

\* Every step keeps the contexts, active_tx_urbs and the state of the interface
\* well typed.
LEMMA DriverTypeStep ==
  ASSUME TypeOK, [Next]_vars PROVE DriverTypeOK'
<1> USE DEF TypeOK, DriverTypeOK, ThreadTypeOK, At
<1>1. CASE AllocTxContext BY <1>1 DEF AllocTxContext, XmitMayStart
<1>2. CASE NoMem BY <1>2 DEF NoMem
<1>3. CASE PutEchoSkb BY <1>3 DEF PutEchoSkb
<1>4. CASE IncActive BY <1>4 DEF IncActive
<1>5. CASE SubmitFails BY <1>5 DEF SubmitFails
<1>6. CASE ClearEchoSkb BY <1>6 DEF ClearEchoSkb
<1>12. CASE GiveBackTxContext BY <1>12 DEF GiveBackTxContext
<1>7. CASE LoopBackEchoSkb BY <1>7 DEF LoopBackEchoSkb
<1>8. CASE FreeTxContext BY <1>8 DEF FreeTxContext
<1>9. CASE DecActive BY <1>9 DEF DecActive
<1>10. CASE Close BY <1>10 DEF Close
<1>11. CASE UNCHANGED driver BY <1>11 DEF driver
<1> QED
  BY <1>1, <1>2, <1>3, <1>4, <1>5, <1>6, <1>7, <1>8, <1>9, <1>10, <1>11, <1>12
     DEF DropInvalid, TxBusy, SubmitTxUrb, FreeEchoSkb, EndFailedXmit, ReadActive,
         StopQueue, ReceiveEcho, IgnoreEcho, LogUnusedEchoId, ReadEchoSkb, StampEchoSkb,
         TakeEchoSkb, WakeQueue, LoseRxUrb, Detach, TxUrbDone, TxUrbFails, Transmit,
         CloseBegin, Open, Next, XmitStart, XmitContinue, CallbackStep, vars

\* Every step keeps the USB transfers and the device well typed.
LEMMA OutsideTypeStep ==
  ASSUME TypeOK, [Next]_vars PROVE OutsideTypeOK'
<1> USE DEF TypeOK, DriverTypeOK, ThreadTypeOK, OutsideTypeOK, At
<1>1. CASE DropInvalid BY <1>1 DEF DropInvalid, XmitMayStart, StackTypeOK, pipes
<1>2. CASE NoMem BY <1>2 DEF NoMem, pipes
<1>3. CASE PutEchoSkb BY <1>3 DEF PutEchoSkb, pipes
<1>4. CASE FreeEchoSkb
  <2>1. xmit.id \in Ids /\ echo_skb[xmit.id] \in Skbs \cup {NoSkb} OBVIOUS
  <2>2. dropped' \subseteq Skbs BY <1>4, <2>1 DEF FreeEchoSkb
  <2>3. UNCHANGED <<pipes, wire, echoed, clash>> BY <1>4 DEF FreeEchoSkb
  <2> HIDE DEF Frames
  <2> QED BY <2>2, <2>3 DEF pipes
<1>5. CASE SubmitTxUrb
  <2>1. [id |-> xmit.id, skb |-> xmit.skb] \in Frames
    BY <1>5 DEF SubmitTxUrb
  <2> QED BY <1>5, <2>1 DEF SubmitTxUrb, fates
<1>6. CASE ReceiveEcho \/ IgnoreEcho \/ (LoseRxUrb /\ in' = Tail(in) /\ in # <<>>)
  <2>1. in # <<>> /\ in \in Seq(Frames)
    BY <1>6 DEF ReceiveEcho, IgnoreEcho, EchoArrives
  <2>2. Tail(in) \in Seq(Frames) /\ Head(in) \in Frames
    <3> HIDE DEF Frames
    <3> QED BY <2>1, HeldTail
  <2>3. Unhandled(Head(in)) \subseteq Frames BY <2>2 DEF Unhandled
  <2>4. in' = Tail(in) BY <1>6 DEF ReceiveEcho, IgnoreEcho
  <2>5. lost' \subseteq Frames
    <3> HIDE DEF Frames
    <3> QED BY <1>6, <2>3 DEF ReceiveEcho, IgnoreEcho, LoseRxUrb
  <2>6. receiving' \in BOOLEAN /\ clash' \in BOOLEAN
    BY <1>6 DEF ReceiveEcho, IgnoreEcho, LoseRxUrb
  <2>7. UNCHANGED <<out, device, fates>>
    BY <1>6 DEF ReceiveEcho, IgnoreEcho, LoseRxUrb
  <2> QED BY <2>2, <2>4, <2>5, <2>6, <2>7 DEF fates
<1>7. CASE (LoseRxUrb /\ UNCHANGED in) \/ Detach \/ Open
  <2>1. UNCHANGED <<out, lost, device, in, fates, clash>> /\ receiving' \in BOOLEAN
    <3>1. CASE LoseRxUrb /\ UNCHANGED in
      <4>1. in \in Seq(Frames) OBVIOUS
      <4>2. in # <<>> => Tail(in) # in BY <4>1
      <4> QED BY <3>1, <4>2 DEF LoseRxUrb
    <3> QED BY <1>7, <3>1 DEF Detach, Open
  <2> QED BY <2>1 DEF fates
<1>8. CASE LoopBackEchoSkb BY <1>8 DEF LoopBackEchoSkb, pipes
<1>9. CASE TxUrbDone BY <1>9 DEF TxUrbDone, fates
<1>10. CASE TxUrbFails BY <1>10 DEF TxUrbFails, fates
<1>11. CASE Transmit
  <2>1. PICK f \in device :
           /\ in' = Append(in, f) /\ device' = device \ {f}
           /\ wire' = wire \cup {f.skb}
    BY <1>11 DEF Transmit
  <2>2. f \in Frames /\ in' \in Seq(Frames) BY <2>1, HeldAppend
  <2>3. f.skb \in Skbs BY <2>2
  <2>4. UNCHANGED <<receiving, out, lost, echoed, dropped, clash>> BY <1>11 DEF Transmit
  <2> QED BY <2>1, <2>2, <2>3, <2>4
<1>12. CASE Close
  <2>1. in' \in Seq(Frames) /\ device' \subseteq Frames
    <3>1. CASE ResetForgets
      <4>1. in' = <<>> /\ device' = {} BY <1>12, <3>1 DEF Close
      <4>2. <<>> \in Seq(Frames) OBVIOUS
      <4> QED BY <4>1, <4>2
    <3>2. CASE ~ResetForgets BY <1>12, <3>2 DEF Close
    <3> QED BY <3>1, <3>2
  <2>2. dropped' \subseteq Skbs
    <3>1. dropped' = dropped \cup ({echo_skb[i] : i \in Ids} \ {NoSkb})
      BY <1>12 DEF Close
    <3> QED BY <3>1
  <2>3. out' = {} /\ lost' = {} /\ UNCHANGED <<receiving, wire, echoed, clash>>
    BY <1>12 DEF Close
  <2> QED BY <2>1, <2>2, <2>3
<1>13. CASE UNCHANGED <<pipes, fates>> /\ clash' \in BOOLEAN
  BY <1>13 DEF pipes, fates
<1>14. CASE SubmitFails
  <2>1. UNCHANGED <<pipes, fates>> /\ clash' \in BOOLEAN BY <1>14 DEF SubmitFails
  <2> QED BY <1>13, <2>1
<1>15. CASE LoseRxUrb
  BY <1>6, <1>7, <1>15 DEF LoseRxUrb
<1> QED
  BY <1>1, <1>2, <1>3, <1>4, <1>5, <1>6, <1>7, <1>8, <1>9, <1>10, <1>11,
     <1>12, <1>13, <1>14, <1>15
     DEF AllocTxContext, TxBusy, IncActive, ClearEchoSkb, GiveBackTxContext,
         EndFailedXmit, ReadActive, StopQueue, LogUnusedEchoId, ReadEchoSkb,
         StampEchoSkb, TakeEchoSkb, FreeTxContext, DecActive, WakeQueue,
         CloseBegin, Next, XmitStart, XmitContinue, CallbackStep, vars

\* TypeOK is an invariant: in particular a context's echo_id is always its own
\* index or the free value, and a running thread has a frame.
THEOREM TypeCorrect == Spec => []TypeOK
<1>1. Init => TypeOK
  <2> SUFFICES ASSUME Init PROVE TypeOK
    OBVIOUS
  <2>1. StackTypeOK BY DEF Init, StackTypeOK
  <2>2. DriverTypeOK BY DEF Init, DriverTypeOK
  <2>3. ThreadTypeOK BY DEF Init, ThreadTypeOK, Idle, NoEcho, XmitPcs, CallbackPcs
  <2>4. OutsideTypeOK BY DEF Init, OutsideTypeOK
  <2> QED BY <2>1, <2>2, <2>3, <2>4 DEF TypeOK
<1>2. TypeOK /\ [Next]_vars => TypeOK'
  BY StackTypeStep, ThreadTypeStep, DriverTypeStep, OutsideTypeStep DEF TypeOK
<1> QED BY <1>1, <1>2, PTL DEF Spec

-----------------------------------------------------------------------------
(***************************************************************************)
(* A device that forgets what it holds when it is reset.  The inductive    *)
(* invariant adds to the ownership of contexts what their slots hold.      *)
(***************************************************************************)
EmptySlots == \A f \in Allocated \cup Taken : echo_skb[f.id] = NoSkb

IInv == TypeOK /\ ContextOwned /\ EchoFindsItsSkb /\ FreeContextFreeSlot /\ EmptySlots

\* A frame with a context no other echo in the pipe carries can join the pipe.
LEMMA DistinctAppend ==
  ASSUME NEW S, NEW s \in Seq(S), NEW f \in S, Distinct(s), f \notin Held(s)
  PROVE  Distinct(Append(s, f))
<1> DEFINE t == Append(s, f)
<1>1. DOMAIN t = 1 .. Len(s) + 1 /\ DOMAIN s = 1 .. Len(s)
  OBVIOUS
<1>2. \A k \in 1 .. Len(s) : t[k] = s[k] /\ t[k] # f
  BY <1>1 DEF Held
<1>3. t[Len(s) + 1] = f
  OBVIOUS
<1> HIDE DEF t
<1>4. Distinct(t)
  <2> SUFFICES ASSUME NEW k \in 1 .. Len(s) + 1, NEW l \in 1 .. Len(s) + 1, t[k] = t[l]
               PROVE  k = l
    BY <1>1 DEF Distinct
  <2>1. CASE k = Len(s) + 1 BY <2>1, <1>2, <1>3
  <2>2. CASE l = Len(s) + 1 BY <2>2, <1>2, <1>3
  <2>3. CASE k # Len(s) + 1 /\ l # Len(s) + 1
    <3>1. k \in DOMAIN s /\ l \in DOMAIN s /\ s[k] = s[l] BY <2>3, <1>1, <1>2
    <3> QED BY <3>1 DEF Distinct
  <2> QED BY <2>1, <2>2, <2>3
<1> QED BY <1>4 DEF t

\* The echoes that remain in the pipe still carry different contexts.
LEMMA DistinctTail ==
  ASSUME NEW S, NEW s \in Seq(S), s # <<>>, Distinct(s)
  PROVE  Distinct(Tail(s)) /\ Head(s) \notin Held(Tail(s))
<1> DEFINE t == Tail(s)
<1>1. Len(s) \in Nat \ {0} /\ DOMAIN s = 1 .. Len(s) /\ Head(s) = s[1]
  OBVIOUS
<1>2. DOMAIN t = 1 .. Len(s) - 1
  BY <1>1
<1>3. \A k \in 1 .. Len(s) - 1 : t[k] = s[k + 1] /\ k + 1 \in DOMAIN s
  BY <1>1
<1> HIDE DEF t
<1>4. Distinct(t)
  <2> SUFFICES ASSUME NEW k \in 1 .. Len(s) - 1, NEW l \in 1 .. Len(s) - 1, t[k] = t[l]
               PROVE  k = l
    BY <1>2 DEF Distinct
  <2>1. k + 1 = l + 1 BY <1>3 DEF Distinct
  <2> QED BY <2>1
<1>5. Head(s) \notin Held(t)
  <2> SUFFICES ASSUME NEW k \in 1 .. Len(s) - 1, t[k] = s[1] PROVE FALSE
    BY <1>1, <1>2 DEF Held
  <2>1. k + 1 = 1 BY <1>1, <1>3 DEF Distinct
  <2> QED BY <2>1
<1> QED BY <1>4, <1>5 DEF t

\* The frames of the threads are frames.
LEMMA UsersAreFrames ==
  ASSUME TypeOK PROVE Users \subseteq Frames
<1> USE DEF TypeOK, ThreadTypeOK, OutsideTypeOK
<1>1. Allocated \subseteq Frames BY DEF Allocated, FrameOf
<1>2. Sending \subseteq Frames BY DEF Sending, FrameOf
<1>3. Found \subseteq Frames BY DEF Found, FrameOf
<1>4. Taken \subseteq Frames BY DEF Taken, FrameOf
<1>5. Held(in) \subseteq Frames
  <2>1. in \in Seq(Frames) OBVIOUS
  <2> QED BY <2>1, HeldSubset
<1> QED BY <1>1, <1>2, <1>3, <1>4, <1>5 DEF Users, Submitted

\* A step that moves no frame and touches no context or slot.
LEMMA NothingMoves ==
  ASSUME IInv, TypeOK',
         UNCHANGED <<echo_id, echo_skb, Allocated, Sending, Found, Taken,
                     out, lost, device, in>>
  PROVE  IInv'
<1> USE DEF IInv
<1>1. UNCHANGED <<Submitted, Users, Held(in)>> BY DEF Submitted, Users, Held
<1>2. OnePlace'
  <2>1. OnePlace BY DEF ContextOwned
  <2>2. Distinct(in)' BY <2>1 DEF OnePlace, Distinct
  <2> QED BY <1>1, <2>1, <2>2 DEF OnePlace
<1>3. ContextOwned' BY <1>1, <1>2 DEF ContextOwned, Free
<1> QED BY <1>1, <1>3 DEF EchoFindsItsSkb, FreeContextFreeSlot, EmptySlots, Free

\* gs_can_start_xmit up to the allocation of its context (gs_usb.c:767-794) keeps
\* the invariant.
LEMMA XmitStartStep ==
  ASSUME IInv, TypeOK', XmitStart PROVE IInv'
<1>1. CASE DropInvalid
  BY <1>1, NothingMoves DEF DropInvalid, driver, pipes, Allocated, Sending, Found, Taken
<1>2. CASE AllocTxContext
  <2>1. PICK i \in Ids :
           /\ Free(i)
           /\ echo_id' = [echo_id EXCEPT ![i] = i]
           /\ xmit' = [pc |-> "allocated", id |-> i, skb |-> next]
    BY <1>2 DEF AllocTxContext
  <2> DEFINE f == [id |-> i, skb |-> next]
  <2>2. Allocated = {} /\ Sending = {}
    BY <1>2 DEF AllocTxContext, XmitMayStart, Idle, Allocated, Sending, FrameOf
  <2>3. Allocated' = {f} /\ Sending' = {}
    BY <2>1 DEF Allocated, Sending, FrameOf
  <2>4. UNCHANGED <<echo_skb, Found, Taken, out, lost, device, in>>
    BY <1>2 DEF AllocTxContext, Found, Taken, pipes
  <2>5. UNCHANGED Submitted /\ UNCHANGED Held(in)
    BY <2>4 DEF Submitted, Held
  <2>6. Users' = Users \cup {f} BY <2>2, <2>3, <2>4, <2>5 DEF Users
  <2>7. i < MaxTxUrbs /\ \A j \in Ids : Free(j)' <=> Free(j) /\ j # i
    BY <2>1 DEF Free, IInv, TypeOK, DriverTypeOK
  <2>8. \A g \in Users : g.id # i /\ g # f BY <2>1 DEF IInv, ContextOwned
  <2>9. f.id = i OBVIOUS
  <2> HIDE DEF f
  <2>10. OnePlace'
    <3>1. OnePlace BY DEF IInv, ContextOwned
    <3>2. f \notin Submitted \cup Found \cup Taken BY <2>8 DEF Users
    <3>3. Distinct(in)' BY <3>1, <2>4 DEF OnePlace, Distinct
    <3> QED BY <2>2, <2>3, <2>4, <2>5, <3>1, <3>2, <3>3 DEF OnePlace
  <2>11. \A j \in Ids : Free(j)' <=> \A g \in Users' : g.id # j
    BY <2>6, <2>7, <2>9 DEF IInv, ContextOwned
  <2>12. \A g, h \in Users' : g.id = h.id => g = h
    BY <2>6, <2>8, <2>9 DEF IInv, ContextOwned
  <2>13. ContextOwned' BY <2>10, <2>11, <2>12 DEF ContextOwned
  <2>14. EchoFindsItsSkb' BY <2>3, <2>4, <2>5 DEF EchoFindsItsSkb, IInv
  <2>15. FreeContextFreeSlot' BY <2>4, <2>7 DEF FreeContextFreeSlot, IInv
  <2>16. EmptySlots' BY <2>1, <2>2, <2>3, <2>4, <2>9 DEF EmptySlots, IInv, FreeContextFreeSlot
  <2> QED BY <2>13, <2>14, <2>15, <2>16 DEF IInv
<1>3. CASE TxBusy
  BY <1>3, NothingMoves
     DEF TxBusy, vars, driver, pipes, Allocated, Sending, Found, Taken
<1> QED BY <1>1, <1>2, <1>3 DEF XmitStart


\* A frame gives up its context and its slot.
LEMMA Released ==
  ASSUME IInv, TypeOK', NEW f \in Users,
         \/ f \in Allocated /\ Allocated' = {} /\ Sending' = {} /\ UNCHANGED Taken
         \/ f \in Sending /\ Allocated' = {} /\ Sending' = {} /\ UNCHANGED Taken
         \/ f \in Taken /\ Taken' = {} /\ UNCHANGED <<Allocated, Sending>>,
         Users' = Users \ {f},
         echo_id' = [echo_id EXCEPT ![f.id] = MaxTxUrbs],
         echo_skb' = [echo_skb EXCEPT ![f.id] = NoSkb],
         UNCHANGED <<Found, out, lost, device, in>>
  PROVE  IInv'
<1>1. f \in Frames BY UsersAreFrames DEF IInv
<1>2. f.id \in Ids BY <1>1
<1>3. \A j \in Ids : Free(j)' <=> Free(j) \/ j = f.id
  BY <1>2 DEF Free, IInv, TypeOK, DriverTypeOK
<1>4. \A g \in Users' : g \in Users /\ g # f /\ g.id # f.id
  BY DEF IInv, ContextOwned
<1>5. \A g \in Users' : echo_skb'[g.id] = echo_skb[g.id]
  BY <1>4, <1>2, UsersAreFrames DEF IInv, TypeOK, DriverTypeOK
<1>6. UNCHANGED Submitted /\ UNCHANGED Held(in) BY DEF Submitted, Held
<1>7. OnePlace'
  <2>1. OnePlace BY DEF IInv, ContextOwned
  <2>2. Distinct(in)' BY <2>1 DEF OnePlace, Distinct
  <2> QED BY <1>6, <2>1, <2>2 DEF OnePlace
<1>8. \A j \in Ids : Free(j)' <=> \A g \in Users' : g.id # j
  BY <1>3, <1>4 DEF IInv, ContextOwned
<1>9. ContextOwned'
  <2>1. \A g, h \in Users' : g.id = h.id => g = h BY DEF IInv, ContextOwned
  <2> QED BY <1>7, <1>8, <2>1 DEF ContextOwned
<1>10. EchoFindsItsSkb'
  <2>1. \A g \in (Sending \cup Submitted \cup Found)' : g \in Users' BY DEF Users
  <2>2. \A g \in (Sending \cup Submitted \cup Found)' : g \in Sending \cup Submitted \cup Found
    BY <1>6
  <2> QED BY <1>5, <2>1, <2>2 DEF IInv, EchoFindsItsSkb
<1>11. FreeContextFreeSlot'
  BY <1>2, <1>3 DEF IInv, TypeOK, DriverTypeOK, FreeContextFreeSlot
<1>12. EmptySlots'
  <2>1. \A g \in (Allocated \cup Taken)' : g \in Users' /\ g \in Allocated \cup Taken
    BY DEF Users
  <2> QED BY <1>5, <2>1 DEF IInv, EmptySlots
<1> QED BY <1>9, <1>10, <1>11, <1>12 DEF IInv

\* gs_can_start_xmit from can_put_echo_skb to its return, the failure of
\* usb_submit_urb included (gs_usb.c:825-864), keeps the invariant.
LEMMA XmitContinueStep ==
  ASSUME IInv, TypeOK', XmitContinue PROVE IInv'
<1> DEFINE f == [id |-> xmit.id, skb |-> xmit.skb]
<1> USE DEF IInv
<1>1. ASSUME UNCHANGED callback PROVE UNCHANGED <<Found, Taken>>
  BY <1>1 DEF Found, Taken
<1>2. CASE NoMem \/ GiveBackTxContext
  <2>1. Allocated = {f} /\ Sending = {} /\ Allocated' = {} /\ Sending' = {}
    BY <1>2 DEF NoMem, GiveBackTxContext, Goto, At, Idle, Allocated, Sending, FrameOf,
                TypeOK, ThreadTypeOK
  <2>2. UNCHANGED <<echo_skb, Found, Taken, out, lost, device, in>>
    BY <1>2, <1>1 DEF NoMem, GiveBackTxContext, pipes
  <2>3. f \in Users /\ f.id = xmit.id BY <2>1 DEF Users
  <2>4. echo_skb' = [echo_skb EXCEPT ![f.id] = NoSkb]
    <3>1. echo_skb[f.id] = NoSkb BY <2>1 DEF EmptySlots
    <3> QED BY <3>1, <2>2 DEF TypeOK, DriverTypeOK
  <2>5. Users' = Users \ {f}
    <3>1. f \notin Submitted \cup Found \cup Taken BY <2>1 DEF ContextOwned, OnePlace
    <3> QED BY <2>1, <2>2, <3>1 DEF Users, Submitted, Held
  <2>6. echo_id' = [echo_id EXCEPT ![f.id] = MaxTxUrbs]
    BY <1>2 DEF NoMem, GiveBackTxContext
  <2> HIDE DEF f
  <2> QED BY <2>1, <2>2, <2>3, <2>4, <2>5, <2>6, Released
<1>3. CASE PutEchoSkb
  <2>1. Allocated = {f} /\ Sending = {} /\ Allocated' = {} /\ Sending' = {f}
    BY <1>3 DEF PutEchoSkb, Goto, At, Allocated, Sending, FrameOf, TypeOK, ThreadTypeOK
  <2>2. UNCHANGED <<echo_id, Found, Taken, out, lost, device, in>>
    BY <1>3, <1>1 DEF PutEchoSkb, pipes
  <2>3. f.id \in Ids /\ f.skb = xmit.skb /\ f.id = xmit.id
    BY DEF TypeOK, ThreadTypeOK
  <2>4. echo_skb' = [echo_skb EXCEPT ![f.id] = f.skb]
    BY <1>3, <2>1, <2>3 DEF PutEchoSkb, EmptySlots
  <2> HIDE DEF f
  <2>5. UNCHANGED <<Submitted, Held(in), Users>>
    BY <2>1, <2>2 DEF Submitted, Held, Users
  <2>6. OnePlace'
    <3>1. OnePlace BY DEF ContextOwned
    <3>2. Distinct(in)' BY <2>2, <3>1 DEF OnePlace, Distinct
    <3> QED BY <2>1, <2>2, <2>5, <3>1, <3>2 DEF OnePlace
  <2>7. ContextOwned' BY <2>2, <2>5, <2>6 DEF ContextOwned, Free
  <2>8. \A g \in Users : g # f => echo_skb'[g.id] = echo_skb[g.id]
    <3>1. f \in Users BY <2>1 DEF Users
    <3> QED BY <2>3, <2>4, <3>1, UsersAreFrames DEF ContextOwned, TypeOK, DriverTypeOK
  <2>9. echo_skb'[f.id] = f.skb BY <2>3, <2>4 DEF TypeOK, DriverTypeOK
  <2>10. f \notin Found \cup Taken \cup Submitted
    BY <2>1 DEF ContextOwned, OnePlace
  <2>11. EchoFindsItsSkb'
    BY <2>1, <2>2, <2>5, <2>8, <2>9, <2>10 DEF EchoFindsItsSkb, Users
  <2>12. EmptySlots' BY <2>1, <2>2, <2>8, <2>10 DEF EmptySlots, Users
  <2>13. FreeContextFreeSlot'
    <3>1. \A j \in Ids : Free(j) => j # f.id BY <2>1 DEF ContextOwned, Users
    <3> QED BY <2>2, <2>3, <2>4, <3>1
            DEF FreeContextFreeSlot, Free, TypeOK, DriverTypeOK
  <2> QED BY <2>7, <2>11, <2>12, <2>13
<1>4. CASE IncActive
  <2>1. UNCHANGED <<Allocated, Sending>>
    BY <1>4 DEF IncActive, Goto, At, Allocated, Sending, FrameOf, TypeOK, ThreadTypeOK
  <2> QED BY <1>1, <1>4, <2>1, NothingMoves DEF IncActive, pipes
<1>5. CASE SubmitTxUrb
  <2>1. Sending = {f} /\ Allocated = {} /\ Allocated' = {} /\ Sending' = {}
    BY <1>5 DEF SubmitTxUrb, Goto, At, Allocated, Sending, FrameOf, TypeOK, ThreadTypeOK
  <2>2. UNCHANGED <<echo_id, echo_skb, Found, Taken, lost, device, in>>
    BY <1>5, <1>1 DEF SubmitTxUrb, driver
  <2>3. out' = out \cup {f} BY <1>5 DEF SubmitTxUrb
  <2> HIDE DEF f
  <2>4. UNCHANGED <<Held(in), Users>> /\ Submitted' = Submitted \cup {f}
    BY <2>1, <2>2, <2>3 DEF Submitted, Held, Users
  <2>5. OnePlace'
    <3>1. OnePlace BY DEF ContextOwned
    <3>2. Distinct(in)' BY <2>2, <3>1 DEF OnePlace, Distinct
    <3>3. f \notin Submitted \cup Found \cup Taken BY <2>1, <3>1 DEF OnePlace
    <3> QED BY <2>1, <2>2, <2>3, <2>4, <3>1, <3>2, <3>3 DEF OnePlace, Submitted
  <2>6. ContextOwned' BY <2>2, <2>4, <2>5 DEF ContextOwned, Free
  <2>7. EchoFindsItsSkb' BY <2>1, <2>2, <2>4 DEF EchoFindsItsSkb
  <2>8. EmptySlots' BY <2>1, <2>2 DEF EmptySlots
  <2>9. FreeContextFreeSlot' BY <2>2 DEF FreeContextFreeSlot, Free
  <2> QED BY <2>6, <2>7, <2>8, <2>9
<1>6. CASE SubmitFails \/ FreeEchoSkb
  <2>1. UNCHANGED <<Allocated, Sending>>
    <3>1. CASE SubmitFails
      BY <3>1 DEF SubmitFails, Goto, At, Allocated, Sending, FrameOf, TypeOK, ThreadTypeOK
    <3>2. CASE FreeEchoSkb
      <4>1. f \in Sending /\ xmit.skb \in Skbs /\ At(xmit, "undo")
        BY <3>2 DEF FreeEchoSkb, At, Sending, FrameOf, TypeOK, ThreadTypeOK
      <4>2. echo_skb[xmit.id] = xmit.skb BY <4>1 DEF EchoFindsItsSkb
      <4>3. Goto("killed") BY <3>2, <4>1, <4>2 DEF FreeEchoSkb
      <4> QED BY <4>1, <4>3 DEF Goto, At, Allocated, Sending, FrameOf, TypeOK, ThreadTypeOK
    <3> QED BY <1>6, <3>1, <3>2
  <2> QED BY <1>1, <1>6, <2>1, NothingMoves DEF SubmitFails, FreeEchoSkb, driver, pipes
<1>7. CASE ClearEchoSkb
  <2>1. Sending = {f} /\ Allocated = {} /\ Sending' = {} /\ Allocated' = {f}
    BY <1>7 DEF ClearEchoSkb, Goto, At, Allocated, Sending, FrameOf, TypeOK, ThreadTypeOK
  <2>2. UNCHANGED <<echo_id, Found, Taken, out, lost, device, in>>
    BY <1>7, <1>1 DEF ClearEchoSkb, pipes
  <2>3. f.id \in Ids /\ f.id = xmit.id BY DEF TypeOK, ThreadTypeOK
  <2>4. echo_skb' = [echo_skb EXCEPT ![f.id] = NoSkb] BY <1>7 DEF ClearEchoSkb
  <2> HIDE DEF f
  <2>5. UNCHANGED <<Submitted, Held(in), Users>>
    BY <2>1, <2>2 DEF Submitted, Held, Users
  <2>6. OnePlace'
    <3>1. OnePlace BY DEF ContextOwned
    <3>2. Distinct(in)' BY <2>2, <3>1 DEF OnePlace, Distinct
    <3> QED BY <2>1, <2>2, <2>5, <3>1, <3>2 DEF OnePlace
  <2>7. ContextOwned' BY <2>2, <2>5, <2>6 DEF ContextOwned, Free
  <2>8. \A g \in Users : g # f => echo_skb'[g.id] = echo_skb[g.id]
    <3>1. f \in Users BY <2>1 DEF Users
    <3> QED BY <2>3, <2>4, <3>1, UsersAreFrames DEF ContextOwned, TypeOK, DriverTypeOK
  <2>9. f \notin Found \cup Taken \cup Submitted
    BY <2>1 DEF ContextOwned, OnePlace
  <2>10. EchoFindsItsSkb'
    BY <2>1, <2>2, <2>5, <2>8, <2>9 DEF EchoFindsItsSkb, Users
  <2>11. echo_skb'[f.id] = NoSkb BY <2>3, <2>4 DEF TypeOK, DriverTypeOK
  <2>12. EmptySlots' BY <2>1, <2>2, <2>8, <2>9, <2>11 DEF EmptySlots, Users
  <2>13. FreeContextFreeSlot'
    BY <2>2, <2>3, <2>4 DEF FreeContextFreeSlot, Free, TypeOK, DriverTypeOK
  <2> QED BY <2>7, <2>10, <2>12, <2>13
<1>8. CASE ReadActive
  <2>1. UNCHANGED <<Allocated, Sending>>
    BY <1>8 DEF ReadActive, Goto, At, Idle, Allocated, Sending, FrameOf, TypeOK, ThreadTypeOK
  <2> QED BY <1>1, <1>8, <2>1, NothingMoves DEF ReadActive, driver, pipes
<1>9. CASE StopQueue \/ EndFailedXmit
  <2>1. UNCHANGED <<Allocated, Sending>>
    BY <1>9 DEF StopQueue, EndFailedXmit, At, Idle, Allocated, Sending, FrameOf, TypeOK,
                ThreadTypeOK
  <2> QED BY <1>1, <1>9, <2>1, NothingMoves DEF StopQueue, EndFailedXmit, driver, pipes
<1> QED BY <1>2, <1>3, <1>4, <1>5, <1>6, <1>7, <1>8, <1>9 DEF XmitContinue

\* An echo leaves the pipe.
LEMMA HeadOfPipe ==
  ASSUME IInv, in # <<>>
  PROVE  /\ Head(in) \in Frames /\ Head(in) \in Submitted /\ Head(in) \in Users
         /\ ~Free(Head(in).id)
         /\ Held(Tail(in)) = Held(in) \ {Head(in)} /\ Distinct(Tail(in))
<1>1. in \in Seq(Frames) /\ Distinct(in)
  BY DEF IInv, TypeOK, OutsideTypeOK, ContextOwned, OnePlace
<1> HIDE DEF Frames
<1>2. /\ Head(in) \in Frames /\ Held(in) = Held(Tail(in)) \cup {Head(in)}
  BY <1>1, HeldTail
<1>3. Distinct(Tail(in)) /\ Head(in) \notin Held(Tail(in))
  BY <1>1, DistinctTail
<1> USE DEF Frames
<1>4. Head(in) \in Submitted /\ Head(in) \in Users BY <1>2 DEF Submitted, Users
<1>5. Head(in).id \in Ids BY <1>2
<1> QED BY <1>2, <1>3, <1>4, <1>5 DEF IInv, ContextOwned

\* The receive callback (gs_usb.c:583-690) keeps the invariant: it settles the
\* frame at the head of the pipe and nobody else's.
LEMMA CallbackStepStep ==
  ASSUME IInv, TypeOK', CallbackStep \/ LoseRxUrb \/ Detach PROVE IInv'
<1> DEFINE f == [id |-> callback.id, skb |-> callback.skb]
<1> USE DEF IInv
<1>1. ASSUME UNCHANGED xmit PROVE UNCHANGED <<Allocated, Sending>>
  BY <1>1 DEF Allocated, Sending
<1>2. CASE ReceiveEcho
  <2> DEFINE h == Head(in)
  <2>1. in # <<>> /\ in' = Tail(in) BY <1>2 DEF ReceiveEcho, EchoArrives
  <2>2. /\ h \in Frames /\ h \in Submitted /\ h \in Users /\ ~Free(h.id)
        /\ Held(in)' = Held(in) \ {h} /\ Distinct(in)'
    <3>1. /\ h \in Frames /\ h \in Submitted /\ h \in Users /\ ~Free(h.id)
          /\ Held(Tail(in)) = Held(in) \ {h} /\ Distinct(Tail(in))
      BY <2>1, HeadOfPipe
    <3> HIDE DEF h
    <3>2. PICK t : t = Tail(in) OBVIOUS
    <3>3. in' = t BY <2>1, <3>2
    <3>4. Held(t) = Held(in) \ {h} /\ Distinct(t) BY <3>1, <3>2
    <3>5. Held(in)' = Held(t) /\ (Distinct(in)' <=> Distinct(t)) BY <3>3 DEF Held, Distinct
    <3> QED BY <3>1, <3>4, <3>5
  <2>3. callback' = [pc |-> "found", id |-> h.id, skb |-> h.skb, seen |-> NoSkb]
    BY <1>2, <2>2 DEF ReceiveEcho
  <2>4. Found = {} /\ Taken = {} /\ Taken' = {}
    BY <1>2, <2>3 DEF ReceiveEcho, EchoArrives, NoEcho, Found, Taken, FrameOf
  <2>5. Found' = {h} BY <2>2, <2>3 DEF Found, FrameOf
  <2>6. UNCHANGED <<echo_id, echo_skb, Allocated, Sending, out, lost, device>>
    BY <1>2, <1>1 DEF ReceiveEcho, driver
  <2> HIDE DEF h
  <2>7. h \in Held(in)
    BY <2>1, HeldTail, HeadOfPipe, SMTT(30) DEF TypeOK, OutsideTypeOK, h
  <2>8. Users' = Users /\ Submitted' \cup {h} = Submitted
    BY <2>2, <2>4, <2>5, <2>6, <2>7 DEF Users, Submitted
  <2>9. OnePlace'
    <3>1. OnePlace BY DEF ContextOwned
    <3>2. h \notin Allocated \cup Sending \cup out \cup lost \cup device
      BY <2>2, <2>7, <3>1 DEF OnePlace, Submitted
    <3>3. Submitted' = Submitted \ {h}
      BY <2>2, <2>6, <3>2 DEF Submitted
    <3> QED BY <2>2, <2>4, <2>5, <2>6, <3>1, <3>2, <3>3 DEF OnePlace
  <2>10. ContextOwned' BY <2>6, <2>8, <2>9 DEF ContextOwned, Free
  <2>11. EchoFindsItsSkb' BY <2>2, <2>5, <2>6, <2>8 DEF EchoFindsItsSkb
  <2> QED BY <2>4, <2>6, <2>10, <2>11 DEF EmptySlots, FreeContextFreeSlot, Free
<1>3. CASE (IgnoreEcho \/ LoseRxUrb) /\ ~UNCHANGED in
  <2> DEFINE h == Head(in)
  <2>1. in # <<>> /\ in' = Tail(in) BY <1>3 DEF IgnoreEcho, EchoArrives, LoseRxUrb
  <2>2. /\ h \in Frames /\ h \in Submitted /\ h \in Users /\ ~Free(h.id)
        /\ Held(in)' = Held(in) \ {h} /\ Distinct(in)'
    <3>1. /\ h \in Frames /\ h \in Submitted /\ h \in Users /\ ~Free(h.id)
          /\ Held(Tail(in)) = Held(in) \ {h} /\ Distinct(Tail(in))
      BY <2>1, HeadOfPipe
    <3> HIDE DEF h
    <3>2. PICK t : t = Tail(in) OBVIOUS
    <3>3. in' = t BY <2>1, <3>2
    <3>4. Held(t) = Held(in) \ {h} /\ Distinct(t) BY <3>1, <3>2
    <3>5. Held(in)' = Held(t) /\ (Distinct(in)' <=> Distinct(t)) BY <3>3 DEF Held, Distinct
    <3> QED BY <3>1, <3>4, <3>5
  <2>3. lost' = lost \cup {h} BY <1>3, <2>2 DEF IgnoreEcho, LoseRxUrb, Unhandled
  <2>4. UNCHANGED <<echo_id, echo_skb, Allocated, Sending, Found, Taken, out, device>>
    BY <1>3, <1>1 DEF IgnoreEcho, LoseRxUrb, driver, Found, Taken
  <2> HIDE DEF h
  <2>5. h \in Held(in)
    BY <2>1, HeldTail, HeadOfPipe, SMTT(30) DEF TypeOK, OutsideTypeOK, h
  <2>6. UNCHANGED <<Submitted, Users>>
    BY <2>2, <2>3, <2>4, <2>5 DEF Submitted, Users
  <2>7. OnePlace'
    <3>1. OnePlace BY DEF ContextOwned
    <3>2. h \notin out \cup device BY <2>5, <3>1 DEF OnePlace
    <3> QED BY <2>2, <2>3, <2>4, <2>6, <3>1, <3>2 DEF OnePlace
  <2>8. ContextOwned' BY <2>4, <2>6, <2>7 DEF ContextOwned, Free
  <2> QED BY <2>4, <2>6, <2>8 DEF EchoFindsItsSkb, EmptySlots, FreeContextFreeSlot, Free
<1>4. CASE LogUnusedEchoId
  <2>1. UNCHANGED <<Found, Taken>>
    BY <1>4 DEF LogUnusedEchoId, At, NoEcho, Found, Taken, FrameOf
  <2> QED BY <1>1, <1>4, <2>1, NothingMoves DEF LogUnusedEchoId, driver, pipes
<1>5. CASE LoopBackEchoSkb
  <2>1. Found = {f} /\ Taken = {} /\ Found' = {} /\ Taken' = {f}
    BY <1>5 DEF LoopBackEchoSkb, CallbackGoto, At, Found, Taken, FrameOf, TypeOK, ThreadTypeOK
  <2>2. UNCHANGED <<echo_id, Allocated, Sending, out, lost, device, in>>
    BY <1>5, <1>1 DEF LoopBackEchoSkb, pipes
  <2>3. f.id \in Ids /\ f.id = callback.id BY DEF TypeOK, ThreadTypeOK
  <2>4. echo_skb' = [echo_skb EXCEPT ![f.id] = NoSkb] BY <1>5 DEF LoopBackEchoSkb
  <2> HIDE DEF f
  <2>5. UNCHANGED <<Submitted, Held(in), Users>>
    BY <2>1, <2>2 DEF Submitted, Held, Users
  <2>6. OnePlace'
    <3>1. OnePlace BY DEF ContextOwned
    <3>2. Distinct(in)' BY <2>2, <3>1 DEF OnePlace, Distinct
    <3> QED BY <2>1, <2>2, <2>5, <3>1, <3>2 DEF OnePlace
  <2>7. ContextOwned' BY <2>2, <2>5, <2>6 DEF ContextOwned, Free
  <2>8. \A g \in Users : g # f => echo_skb'[g.id] = echo_skb[g.id]
    <3>1. f \in Users BY <2>1 DEF Users
    <3> QED BY <2>3, <2>4, <3>1, UsersAreFrames DEF ContextOwned, TypeOK, DriverTypeOK
  <2>9. f \notin Sending \cup Submitted \cup Allocated
    BY <2>1 DEF ContextOwned, OnePlace
  <2>10. EchoFindsItsSkb'
    BY <2>1, <2>2, <2>5, <2>8, <2>9 DEF EchoFindsItsSkb, Users
  <2>11. echo_skb'[f.id] = NoSkb BY <2>3, <2>4 DEF TypeOK, DriverTypeOK
  <2>12. EmptySlots' BY <2>1, <2>2, <2>8, <2>9, <2>11 DEF EmptySlots, Users
  <2>13. FreeContextFreeSlot'
    BY <2>2, <2>3, <2>4 DEF FreeContextFreeSlot, Free, TypeOK, DriverTypeOK
  <2> QED BY <2>7, <2>10, <2>12, <2>13
<1>6. CASE FreeTxContext
  <2>1. Taken = {f} /\ Found = {} /\ Found' = {} /\ Taken' = {}
    BY <1>6 DEF FreeTxContext, CallbackGoto, At, Found, Taken, FrameOf, TypeOK, ThreadTypeOK
  <2>2. UNCHANGED <<echo_skb, Allocated, Sending, out, lost, device, in>>
    BY <1>6, <1>1 DEF FreeTxContext, pipes
  <2>3. f \in Users /\ f.id = callback.id BY <2>1 DEF Users
  <2>4. echo_skb' = [echo_skb EXCEPT ![f.id] = NoSkb]
    <3>1. echo_skb[f.id] = NoSkb BY <2>1 DEF EmptySlots
    <3> QED BY <3>1, <2>2 DEF TypeOK, DriverTypeOK
  <2>5. Users' = Users \ {f}
    <3>1. f \notin Submitted \cup Allocated \cup Sending BY <2>1 DEF ContextOwned, OnePlace
    <3> QED BY <2>1, <2>2, <3>1 DEF Users, Submitted, Held
  <2>6. echo_id' = [echo_id EXCEPT ![f.id] = MaxTxUrbs] BY <1>6 DEF FreeTxContext
  <2> HIDE DEF f
  <2> QED BY <2>1, <2>2, <2>3, <2>4, <2>5, <2>6, Released
<1>7. CASE DecActive
  <2>1. UNCHANGED <<Found, Taken>>
    BY <1>7 DEF DecActive, CallbackGoto, At, Found, Taken, FrameOf, TypeOK, ThreadTypeOK
  <2> QED BY <1>1, <1>7, <2>1, NothingMoves DEF DecActive, pipes
<1>8. CASE WakeQueue
  <2>1. UNCHANGED <<Found, Taken>>
    BY <1>8 DEF WakeQueue, At, NoEcho, Found, Taken, FrameOf
  <2> QED BY <1>1, <1>8, <2>1, NothingMoves DEF WakeQueue, driver, pipes
<1>9. CASE ReadEchoSkb \/ StampEchoSkb
  <2>1. UNCHANGED <<Found, Taken>>
    BY <1>9 DEF ReadEchoSkb, StampEchoSkb, CallbackGoto, At, Found, Taken, FrameOf, TypeOK,
                ThreadTypeOK
  <2> QED BY <1>1, <1>9, <2>1, NothingMoves DEF ReadEchoSkb, StampEchoSkb, driver, pipes
<1>10. CASE TakeEchoSkb
  <2>1. At(callback, "stamped") /\ f \in Found /\ callback.skb \in Skbs
    BY <1>10 DEF TakeEchoSkb, At, Found, FrameOf, TypeOK, ThreadTypeOK
  <2>2. echo_skb[callback.id] = callback.skb BY <2>1 DEF EchoFindsItsSkb
  <2>3. callback' = [callback EXCEPT !.pc = "took", !.seen = callback.skb]
    <3>1. callback.skb # NoSkb BY <2>1
    <3>2. callback' = [callback EXCEPT !.pc = IF echo_skb[callback.id] = NoSkb
                                              THEN "taken" ELSE "took",
                                       !.seen = echo_skb[callback.id]]
      BY <1>10 DEF TakeEchoSkb
    <3> QED BY <2>2, <3>1, <3>2
  <2>4. UNCHANGED <<Found, Taken>>
    BY <2>1, <2>3 DEF At, Found, Taken, FrameOf, TypeOK, ThreadTypeOK
  <2> QED BY <1>1, <1>10, <2>4, NothingMoves DEF TakeEchoSkb, driver, pipes
<1>11. CASE Detach \/ (LoseRxUrb /\ UNCHANGED in)
  <2>1. UNCHANGED <<driver, xmit, callback, out, lost, device, in>>
    <3>1. CASE LoseRxUrb /\ UNCHANGED in
      <4>1. in \in Seq(Frames) BY DEF TypeOK, OutsideTypeOK
      <4>2. in # <<>> => Tail(in) # in BY <4>1
      <4> QED BY <3>1, <4>2 DEF LoseRxUrb
    <3> QED BY <1>11, <3>1 DEF Detach
  <2> QED BY <1>1, <2>1, NothingMoves DEF driver, Found, Taken
<1>12. IgnoreEcho => ~UNCHANGED in
  <2>1. in \in Seq(Frames) BY DEF TypeOK, OutsideTypeOK
  <2>2. in # <<>> => Tail(in) # in BY <2>1
  <2> QED BY <2>2 DEF IgnoreEcho, EchoArrives
<1> QED BY <1>2, <1>3, <1>4, <1>5, <1>6, <1>7, <1>8, <1>9, <1>10, <1>11, <1>12
        DEF CallbackStep

\* The frame moves from one place of the USB to another.
LEMMA UsbStep ==
  ASSUME IInv, TypeOK', TxUrbDone \/ TxUrbFails \/ Transmit PROVE IInv'
<1> USE DEF IInv
<1>1. UNCHANGED <<echo_id, echo_skb, Allocated, Sending, Found, Taken>>
  BY DEF TxUrbDone, TxUrbFails, Transmit, driver, Allocated, Sending, Found, Taken
<1>2. OnePlace BY DEF ContextOwned
<1>3. UNCHANGED Submitted /\ OnePlace'
  <2>1. CASE TxUrbDone
    <3>1. PICK f \in out : out' = out \ {f} /\ device' = device \cup {f}
      BY <2>1 DEF TxUrbDone
    <3>2. UNCHANGED <<lost, in>> BY <2>1 DEF TxUrbDone
    <3>3. UNCHANGED Held(in) /\ Distinct(in)' BY <3>2, <1>2 DEF Held, Distinct, OnePlace
    <3>4. UNCHANGED Submitted BY <3>1, <3>2, <3>3 DEF Submitted
    <3> QED BY <1>1, <1>2, <3>1, <3>2, <3>3, <3>4 DEF OnePlace
  <2>2. CASE TxUrbFails
    <3>1. PICK f \in out : out' = out \ {f} /\ lost' = lost \cup {f}
      BY <2>2 DEF TxUrbFails
    <3>2. UNCHANGED <<device, in>> BY <2>2 DEF TxUrbFails
    <3>3. UNCHANGED Held(in) /\ Distinct(in)' BY <3>2, <1>2 DEF Held, Distinct, OnePlace
    <3>4. UNCHANGED Submitted BY <3>1, <3>2, <3>3 DEF Submitted
    <3> QED BY <1>1, <1>2, <3>1, <3>2, <3>3, <3>4 DEF OnePlace
  <2>3. CASE Transmit
    <3>1. PICK f \in device : device' = device \ {f} /\ in' = Append(in, f)
      BY <2>3 DEF Transmit
    <3>2. UNCHANGED <<out, lost>> BY <2>3 DEF Transmit
    <3>3. f \in Frames /\ in \in Seq(Frames) /\ f \notin Held(in) /\ Distinct(in)
      BY <1>2 DEF OnePlace, TypeOK, OutsideTypeOK
    <3>4. Held(in)' = Held(in) \cup {f} /\ Distinct(in)'
      <4> HIDE DEF Frames
      <4>1. Held(Append(in, f)) = Held(in) \cup {f} BY <3>3, HeldAppend
      <4>2. Distinct(Append(in, f)) BY <3>3, DistinctAppend
      <4> QED BY <3>1, <4>1, <4>2 DEF Held, Distinct
    <3>5. UNCHANGED Submitted BY <3>1, <3>2, <3>4 DEF Submitted
    <3> QED BY <1>1, <1>2, <3>1, <3>2, <3>4, <3>5 DEF OnePlace
  <2> QED BY <2>1, <2>2, <2>3
<1>4. UNCHANGED Users BY <1>1, <1>3 DEF Users
<1>5. ContextOwned' BY <1>1, <1>3, <1>4 DEF ContextOwned, Free
<1> QED BY <1>1, <1>3, <1>5 DEF EchoFindsItsSkb, EmptySlots, FreeContextFreeSlot, Free

\* gs_can_close and gs_can_open (gs_usb.c:867-1085) keep the invariant.
LEMMA OpenCloseStep ==
  ASSUME ResetForgets, IInv, TypeOK', CloseBegin \/ Close \/ Open PROVE IInv'
<1> USE DEF IInv
<1>1. CASE CloseBegin
  BY <1>1, NothingMoves DEF CloseBegin, driver, pipes, Allocated, Sending, Found, Taken
<1>2. CASE Open
  BY <1>2, NothingMoves DEF Open, driver, pipes, Allocated, Sending, Found, Taken
<1>3. CASE Close
  <2>1. Allocated' = {} /\ Sending' = {} /\ Found' = {} /\ Taken' = {}
    BY <1>3 DEF Close, Idle, NoEcho, Allocated, Sending, Found, Taken, FrameOf
  <2>2. out' = {} /\ lost' = {} /\ device' = {} /\ in' = <<>> BY <1>3 DEF Close
  <2>3. Held(in)' = {} /\ Distinct(in)' BY <2>2 DEF Held, Distinct
  <2>4. Submitted' = {} /\ Users' = {} BY <2>1, <2>2, <2>3 DEF Submitted, Users
  <2>5. \A i \in Ids : Free(i)' /\ echo_skb'[i] = NoSkb BY <1>3 DEF Close, Free
  <2>6. OnePlace' BY <2>1, <2>2, <2>3, <2>4 DEF OnePlace
  <2>7. ContextOwned' BY <2>4, <2>5, <2>6 DEF ContextOwned
  <2> QED BY <2>1, <2>4, <2>5, <2>7 DEF EchoFindsItsSkb, EmptySlots, FreeContextFreeSlot
<1> QED BY <1>1, <1>2, <1>3

\* The inductive invariant holds whatever the interleaving of start_xmit with the
\* callback, of URB failures and of closing with either.
THEOREM InductiveInvariant == ASSUME ResetForgets PROVE Spec => []IInv
<1>1. Init => IInv
  <2> SUFFICES ASSUME Init PROVE IInv
    OBVIOUS
  <2>1. TypeOK
    <3>1. StackTypeOK BY DEF Init, StackTypeOK
    <3>2. DriverTypeOK BY DEF Init, DriverTypeOK
    <3>3. ThreadTypeOK BY DEF Init, ThreadTypeOK, Idle, NoEcho, XmitPcs, CallbackPcs
    <3>4. OutsideTypeOK BY DEF Init, OutsideTypeOK
    <3> QED BY <3>1, <3>2, <3>3, <3>4 DEF TypeOK
  <2>2. Allocated = {} /\ Sending = {} /\ Found = {} /\ Taken = {}
    BY DEF Init, Idle, NoEcho, Allocated, Sending, Found, Taken, FrameOf
  <2>3. out = {} /\ lost = {} /\ device = {} /\ in = <<>> BY DEF Init
  <2>4. Held(in) = {} /\ Distinct(in) BY <2>3 DEF Held, Distinct
  <2>5. Submitted = {} /\ Users = {} BY <2>2, <2>3, <2>4 DEF Submitted, Users
  <2>6. \A i \in Ids : Free(i) /\ echo_skb[i] = NoSkb BY DEF Init, Free
  <2>7. OnePlace BY <2>2, <2>3, <2>4, <2>5 DEF OnePlace
  <2>8. ContextOwned BY <2>5, <2>6, <2>7 DEF ContextOwned
  <2> QED BY <2>1, <2>2, <2>5, <2>6, <2>8
          DEF IInv, EchoFindsItsSkb, EmptySlots, FreeContextFreeSlot
<1>2. IInv /\ [Next]_vars => IInv'
  <2> SUFFICES ASSUME IInv, [Next]_vars PROVE IInv'
    OBVIOUS
  <2>1. TypeOK'
    BY StackTypeStep, ThreadTypeStep, DriverTypeStep, OutsideTypeStep DEF TypeOK, IInv
  <2>2. CASE UNCHANGED vars
    BY <2>1, <2>2, NothingMoves
       DEF vars, driver, pipes, Allocated, Sending, Found, Taken
  <2> QED BY <2>1, <2>2, XmitStartStep, XmitContinueStep, CallbackStepStep, UsbStep,
             OpenCloseStep DEF Next
<1> QED BY <1>1, <1>2, PTL DEF Spec

\* No context is leaked and none is given to two frames.
THEOREM ContextsOwned == ASSUME ResetForgets PROVE Spec => []ContextOwned
<1>1. IInv => ContextOwned BY DEF IInv
<1> QED BY <1>1, InductiveInvariant, PTL

\* The skb an echo completes is the skb of the frame the device sent.
THEOREM EchoesMatch == ASSUME ResetForgets PROVE Spec => []EchoFindsItsSkb
<1>1. IInv => EchoFindsItsSkb BY DEF IInv
<1> QED BY <1>1, InductiveInvariant, PTL

\* can_put_echo_skb never finds its slot occupied.
THEOREM SlotsFree == ASSUME ResetForgets PROVE Spec => []FreeContextFreeSlot
<1>1. IInv => FreeContextFreeSlot BY DEF IInv
<1> QED BY <1>1, InductiveInvariant, PTL

\* A device that forgets its frames on reset is never blamed for a bad echo_id, and no
\* echo of it meets a start_xmit that gives up the same echo_id.
THEOREM NoBlame == ASSUME ResetForgets PROVE Spec => []GoodDeviceNotBlamed
<1>1. Init => GoodDeviceNotBlamed
  BY DEF Init, GoodDeviceNotBlamed, NoEcho
<1>2. IInv /\ GoodDeviceNotBlamed /\ [Next]_vars => GoodDeviceNotBlamed'
  <2> SUFFICES ASSUME IInv, GoodDeviceNotBlamed, [Next]_vars PROVE GoodDeviceNotBlamed'
    OBVIOUS
  <2> USE DEF GoodDeviceNotBlamed
  <2> DEFINE f == [id |-> xmit.id, skb |-> xmit.skb]
  <2>0. OnePlace /\ \A g, h \in Users : g.id = h.id => g = h BY DEF IInv, ContextOwned
  <2>1. CASE ReceiveEcho
    <3> DEFINE h == Head(in)
    <3>1. ~Free(h.id) /\ h \in Submitted /\ h \in Users
      BY <2>1, HeadOfPipe DEF ReceiveEcho, EchoArrives
    <3>2. ~GivesUp(h.id)
      <4> SUFFICES ASSUME GivesUp(h.id) PROVE FALSE OBVIOUS
      <4>1. f \in Sending /\ f.id = h.id BY DEF GivesUp, Sending, FrameOf
      <4> HIDE DEF f, h
      <4>2. f = h BY <2>0, <3>1, <4>1 DEF Users
      <4> QED BY <2>0, <3>1, <4>1, <4>2 DEF OnePlace
    <3> QED BY <2>1, <3>1, <3>2 DEF ReceiveEcho
  <2>2. CASE SubmitFails
    <3> DEFINE g == [id |-> callback.id, skb |-> callback.skb]
    <3>1. f \in Sending BY <2>2 DEF SubmitFails, At, Sending, FrameOf
    <3>2. ~HandlesEcho(xmit.id)
      <4> SUFFICES ASSUME HandlesEcho(xmit.id) PROVE FALSE OBVIOUS
      <4>1. g \in Found /\ g.id = f.id BY DEF HandlesEcho, Found, FrameOf
      <4> HIDE DEF f, g
      <4>2. f = g BY <2>0, <3>1, <4>1 DEF Users
      <4> QED BY <2>0, <3>1, <4>1, <4>2 DEF OnePlace
    <3> QED BY <2>2, <3>2 DEF SubmitFails
  <2>3. CASE LogUnusedEchoId \/ WakeQueue BY <2>3 DEF LogUnusedEchoId, WakeQueue, NoEcho
  <2>4. CASE ReadEchoSkb \/ StampEchoSkb \/ TakeEchoSkb \/ LoopBackEchoSkb
             \/ FreeTxContext \/ DecActive
    <3>0. callback \in [pc : CallbackPcs, id : Ids, skb : Skbs \cup {NoSkb},
                        seen : Skbs \cup {NoSkb}]
      BY DEF IInv, TypeOK, ThreadTypeOK
    <3>1. CASE ReadEchoSkb \/ TakeEchoSkb
      <4>1. callback'.pc \in {"read", "taken", "took"} /\ UNCHANGED clash
        BY <3>0, <3>1 DEF ReadEchoSkb, TakeEchoSkb
      <4> QED BY <4>1
    <3>2. CASE StampEchoSkb \/ LoopBackEchoSkb \/ FreeTxContext \/ DecActive
      BY <3>0, <3>2 DEF StampEchoSkb, LoopBackEchoSkb, FreeTxContext, DecActive, CallbackGoto
    <3> QED BY <2>4, <3>1, <3>2
  <2>5. CASE UNCHANGED <<callback, clash>> BY <2>5
  <2> QED
    BY <2>1, <2>2, <2>3, <2>4, <2>5
       DEF Next, XmitStart, XmitContinue, CallbackStep, DropInvalid, AllocTxContext,
           TxBusy, NoMem, PutEchoSkb, IncActive, SubmitTxUrb, FreeEchoSkb, ClearEchoSkb,
           GiveBackTxContext, EndFailedXmit, ReadActive, StopQueue, IgnoreEcho,
           LoseRxUrb, Detach, TxUrbDone, TxUrbFails, Transmit, CloseBegin, Close, Open,
           vars
<1> QED BY <1>1, <1>2, InductiveInvariant, PTL DEF Spec
-----------------------------------------------------------------------------
(***************************************************************************)
(* No skb is used twice, whatever the device echoes: unlike the theorems   *)
(* above, this needs nothing of a reset.  An echo that clashed with a      *)
(* start_xmit giving up the same echo_id is the exception.                 *)
(***************************************************************************)

\* What the driver has taken so far; skbs that are settled or seen are among it.
TakenBefore ==
  /\ \A i \in Ids : echo_skb[i] < next
  /\ \A s \in echoed \cup dropped : s < next
  /\ callback.seen < next

\* The skb gs_can_start_xmit is about to put in a slot is nowhere else.
AllocatedIsNew ==
  At(xmit, "allocated") =>
     /\ xmit.skb < next /\ xmit.skb \notin echoed \cup dropped
     /\ callback.seen # xmit.skb /\ \A i \in Ids : echo_skb[i] # xmit.skb

\* The two threads do not work on one slot, and what the callback has seen in its
\* slot is still there.
Apart ==
  /\ \A i \in Ids : ~(HandlesEcho(i) /\ GivesUp(i))
  /\ callback.pc = "read" => callback.seen \in {NoSkb, echo_skb[callback.id]}
  /\ callback.pc = "took" => callback.seen = echo_skb[callback.id]

SettledInv == TypeOK /\ SettledOnce /\ (clash \/ Apart) /\ TakenBefore /\ AllocatedIsNew

\* Steps that touch neither slots nor the fate of an skb.
LEMMA SettledUntouched ==
  ASSUME SettledInv, TypeOK',
         UNCHANGED <<next, echo_skb, echoed, dropped, callback, clash>>,
         \/ UNCHANGED xmit
         \/ /\ xmit'.pc \notin {"allocated", "killed", "undo"}
            /\ xmit.pc # "killed"
  PROVE  SettledInv'
<1>1. TakenBefore' BY DEF SettledInv, TakenBefore
<1>2. AllocatedIsNew' BY DEF SettledInv, AllocatedIsNew, At
<1>3. (clash \/ Apart)' BY DEF SettledInv, Apart, HandlesEcho, GivesUp
<1>4. SettledOnce' BY DEF SettledInv, SettledOnce, At
<1> QED BY <1>1, <1>2, <1>3, <1>4 DEF SettledInv

\* gs_can_start_xmit takes an skb that no slot holds, puts it in an empty slot,
\* frees it, or frees what is in its slot.
LEMMA SettledXmit ==
  ASSUME SettledInv, TypeOK', XmitStart \/ XmitContinue PROVE SettledInv'
<1> USE DEF SettledInv
<1>0. /\ echo_skb \in [Ids -> Skbs \cup {NoSkb}] /\ next \in 1 .. NSkbs + 1
      /\ xmit.skb \in Skbs \cup {NoSkb} /\ xmit.id \in Ids
      /\ xmit \in [pc : XmitPcs, id : Ids, skb : Skbs \cup {NoSkb}]
      /\ callback.id \in Ids /\ callback.seen \in Skbs \cup {NoSkb}
      /\ callback.pc = "took" => callback.seen \in Skbs
      /\ echoed \subseteq Skbs /\ dropped \subseteq Skbs
      /\ xmit.pc # "idle" => xmit.skb \in Skbs
  BY DEF TypeOK, StackTypeOK, DriverTypeOK, ThreadTypeOK, OutsideTypeOK
<1>1. CASE DropInvalid
  <2>1. /\ next' = next + 1 /\ dropped' = dropped \cup {next}
        /\ UNCHANGED <<echo_skb, echoed, xmit, callback, clash>> /\ xmit = Idle
        /\ next \in Skbs
    BY <1>1 DEF DropInvalid, XmitMayStart, driver
  <2>2. SettledOnce'
    <3>1. \A i \in Ids : echo_skb[i] # next BY <1>0 DEF TakenBefore
    <3>2. next \notin echoed /\ callback.seen # next BY <1>0 DEF TakenBefore
    <3> QED BY <2>1, <3>1, <3>2 DEF SettledOnce, At
  <2>3. TakenBefore' BY <2>1, <1>0 DEF TakenBefore
  <2>4. AllocatedIsNew' BY <2>1 DEF AllocatedIsNew, At, Idle
  <2>5. (clash \/ Apart)' BY <2>1 DEF Apart, HandlesEcho, GivesUp
  <2> QED BY <2>2, <2>3, <2>4, <2>5
<1>2. CASE AllocTxContext
  <2>1. /\ next' = next + 1 /\ UNCHANGED <<echo_skb, echoed, dropped, callback, clash>>
        /\ xmit'.skb = next /\ next \in Skbs /\ xmit = Idle /\ xmit'.pc = "allocated"
    BY <1>2 DEF AllocTxContext, XmitMayStart, fates
  <2>2. SettledOnce' BY <2>1 DEF SettledOnce, At, Idle
  <2>3. TakenBefore' BY <2>1, <1>0 DEF TakenBefore
  <2>4. AllocatedIsNew' BY <2>1, <1>0 DEF AllocatedIsNew, TakenBefore
  <2>5. (clash \/ Apart)' BY <2>1 DEF Apart, HandlesEcho, GivesUp
  <2> QED BY <2>2, <2>3, <2>4, <2>5
<1>3. CASE NoMem
  <2>1. /\ dropped' = dropped \cup {xmit.skb} /\ xmit' = Idle
        /\ UNCHANGED <<next, echo_skb, echoed, callback, clash>> /\ At(xmit, "allocated")
        /\ xmit.skb \in Skbs
    BY <1>3, <1>0 DEF NoMem, stack, At
  <2>2. /\ xmit.skb \notin echoed /\ callback.seen # xmit.skb
        /\ \A i \in Ids : echo_skb[i] # xmit.skb
    BY <2>1 DEF AllocatedIsNew
  <2>3. SettledOnce' BY <2>1, <2>2 DEF SettledOnce, At, Idle
  <2>4. TakenBefore' BY <2>1 DEF TakenBefore, AllocatedIsNew
  <2>5. AllocatedIsNew' BY <2>1 DEF AllocatedIsNew, At, Idle
  <2>6. (clash \/ Apart)' BY <2>1 DEF Apart, HandlesEcho, GivesUp, Idle
  <2> QED BY <2>3, <2>4, <2>5, <2>6
<1>4. CASE PutEchoSkb
  <2>1. /\ At(xmit, "allocated") /\ UNCHANGED <<next, echoed, callback, clash>>
        /\ xmit'.pc = "put" /\ xmit.skb \in Skbs
    BY <1>4, <1>0 DEF PutEchoSkb, At, Goto, stack
  <2>2. AllocatedIsNew' BY <2>1 DEF AllocatedIsNew, At
  <2>3. /\ xmit.skb < next /\ xmit.skb \notin echoed \cup dropped
        /\ callback.seen # xmit.skb /\ \A i \in Ids : echo_skb[i] # xmit.skb
    BY <2>1 DEF AllocatedIsNew
  <2>4. CASE echo_skb[xmit.id] = NoSkb
    <3>1. echo_skb' = [echo_skb EXCEPT ![xmit.id] = xmit.skb] /\ UNCHANGED dropped
      BY <1>4, <2>4 DEF PutEchoSkb
    <3>2. \A i \in Ids : echo_skb'[i] = IF i = xmit.id THEN xmit.skb ELSE echo_skb[i]
      BY <3>1, <1>0
    <3>3. SettledOnce' BY <3>1, <3>2, <2>1, <2>3 DEF SettledOnce, At
    <3>4. TakenBefore' BY <3>1, <3>2, <2>1, <2>3 DEF TakenBefore
    <3>5. (clash \/ Apart)'
      BY <3>2, <2>1, <2>4, <1>0 DEF Apart, HandlesEcho, GivesUp
    <3> QED BY <3>3, <3>4, <3>5, <2>2
  <2>5. CASE echo_skb[xmit.id] # NoSkb
    <3>1. dropped' = dropped \cup {xmit.skb} /\ UNCHANGED echo_skb
      BY <1>4, <2>5 DEF PutEchoSkb
    <3>3. SettledOnce' BY <3>1, <2>1, <2>3 DEF SettledOnce, At
    <3>4. TakenBefore' BY <3>1, <2>1, <2>3 DEF TakenBefore
    <3>5. (clash \/ Apart)' BY <3>1, <2>1 DEF Apart, HandlesEcho, GivesUp
    <3> QED BY <3>3, <3>4, <3>5, <2>2
  <2> QED BY <2>4, <2>5
<1>5. CASE SubmitFails
  <2>1. /\ UNCHANGED <<next, echo_skb, echoed, dropped, callback>>
        /\ xmit'.pc = "undo" /\ xmit'.id = xmit.id /\ At(xmit, "counted")
        /\ clash' = (clash \/ HandlesEcho(xmit.id))
    BY <1>5, <1>0 DEF SubmitFails, Goto, stack, fates
  <2>2. SettledOnce' BY <2>1 DEF SettledOnce, At
  <2>3. (clash \/ Apart)'
    <3> SUFFICES ASSUME ~clash, ~HandlesEcho(xmit.id) PROVE Apart' BY <2>1
    <3> QED BY <2>1 DEF Apart, HandlesEcho, GivesUp
  <2>4. TakenBefore' BY <2>1 DEF TakenBefore
  <2>5. AllocatedIsNew' BY <2>1 DEF AllocatedIsNew, At
  <2> QED BY <2>2, <2>3, <2>4, <2>5
<1>6. CASE FreeEchoSkb
  <2>1. /\ At(xmit, "undo") /\ UNCHANGED <<next, echo_skb, echoed, callback, clash>>
        /\ xmit'.id = xmit.id
    BY <1>6, <1>0 DEF FreeEchoSkb, Goto, stack, driver
  <2>2. CASE echo_skb[xmit.id] = NoSkb
    <3>1. xmit'.pc = "cleared" /\ UNCHANGED dropped
      BY <1>6, <1>0, <2>2 DEF FreeEchoSkb, Goto
    <3> QED BY <2>1, <3>1, SettledUntouched DEF At
  <2>3. CASE echo_skb[xmit.id] # NoSkb
    <3> DEFINE s == echo_skb[xmit.id]
    <3>1. xmit'.pc = "killed" /\ dropped' = dropped \cup {s} /\ s \in Skbs
      BY <1>6, <1>0, <2>3 DEF FreeEchoSkb, Goto
    <3>2. TakenBefore' BY <2>1, <3>1, <1>0 DEF TakenBefore
    <3>3. AllocatedIsNew' BY <3>1 DEF AllocatedIsNew, At
    <3>4. (clash \/ Apart)' BY <2>1, <3>1 DEF Apart, HandlesEcho, GivesUp, At
    <3>5. ASSUME ~clash PROVE SettledOnce'
      <4>1. GivesUp(xmit.id) BY <2>1 DEF GivesUp, At
      <4>2. ~HandlesEcho(xmit.id) BY <1>0, <3>5, <4>1 DEF Apart
      <4>3. callback.pc \in {"read", "took"} => callback.id # xmit.id
        BY <4>2 DEF HandlesEcho
      <4>4. s \notin echoed /\ \A i \in Ids : i # xmit.id => echo_skb[i] # s
        BY <2>1, <2>3, <1>0, <3>5 DEF SettledOnce, At
      <4>5. callback.pc \in {"read", "took"} => callback.seen # s
        BY <4>3, <4>4, <2>3, <1>0, <3>5 DEF Apart
      <4> QED BY <2>1, <3>1, <3>5, <4>4, <4>5 DEF SettledOnce, At
    <3>6. clash => SettledOnce' BY <2>1 DEF SettledOnce
    <3> QED BY <3>2, <3>3, <3>4, <3>5, <3>6
  <2> QED BY <2>2, <2>3
<1>7. CASE ClearEchoSkb
  <2>1. /\ At(xmit, "killed") /\ UNCHANGED <<next, echoed, dropped, callback, clash>>
        /\ xmit'.id = xmit.id /\ xmit'.pc = "cleared"
        /\ echo_skb' = [echo_skb EXCEPT ![xmit.id] = NoSkb]
    BY <1>7, <1>0 DEF ClearEchoSkb, Goto, stack, fates
  <2>2. \A i \in Ids : echo_skb'[i] = IF i = xmit.id THEN NoSkb ELSE echo_skb[i]
    BY <2>1, <1>0
  <2>3. TakenBefore' BY <2>1, <2>2, <1>0 DEF TakenBefore
  <2>4. AllocatedIsNew' BY <2>1 DEF AllocatedIsNew, At
  <2>5. ASSUME ~clash PROVE SettledOnce' /\ Apart'
    <3>1. GivesUp(xmit.id) BY <2>1 DEF GivesUp, At
    <3>2. ~HandlesEcho(xmit.id) BY <1>0, <2>5, <3>1 DEF Apart
    <3>3. Apart' BY <2>1, <2>2, <2>5, <3>2, <1>0 DEF Apart, HandlesEcho, GivesUp
    <3>4. 0 \notin echoed \cup dropped BY <1>0
    <3>5. SettledOnce' BY <2>1, <2>2, <2>5, <3>4 DEF SettledOnce, At
    <3> QED BY <3>3, <3>5
  <2>6. clash => SettledOnce' /\ clash' BY <2>1 DEF SettledOnce
  <2> QED BY <2>3, <2>4, <2>5, <2>6
<1>8. CASE TxBusy
  <2>1. UNCHANGED <<next, echo_skb, echoed, dropped, callback, clash, xmit>>
    BY <1>8 DEF TxBusy, vars, stack, driver, fates
  <2> QED BY <2>1, SettledUntouched
<1>9. CASE IncActive \/ SubmitTxUrb \/ GiveBackTxContext \/ EndFailedXmit \/ ReadActive
           \/ StopQueue
  <2>1. UNCHANGED <<next, echo_skb, echoed, dropped, callback, clash>>
    BY <1>9 DEF IncActive, SubmitTxUrb, GiveBackTxContext, EndFailedXmit, ReadActive,
                StopQueue, stack, driver, fates
  <2>2. xmit'.pc \notin {"allocated", "killed", "undo"} /\ xmit.pc # "killed"
    BY <1>9, <1>0 DEF IncActive, SubmitTxUrb, GiveBackTxContext, EndFailedXmit, ReadActive,
                StopQueue, Goto, At, Idle
  <2> QED BY <2>1, <2>2, SettledUntouched
<1> QED
  BY <1>1, <1>2, <1>3, <1>4, <1>5, <1>6, <1>7, <1>8, <1>9 DEF XmitStart, XmitContinue

\* The callback settles what its slot holds and empties it; closing frees what
\* all the slots hold.
LEMMA SettledRest ==
  ASSUME SettledInv, TypeOK', CallbackStep \/ LoseRxUrb \/ Detach \/ TxUrbDone
                              \/ TxUrbFails \/ Transmit \/ CloseBegin \/ Close \/ Open
                              \/ UNCHANGED vars
  PROVE  SettledInv'
<1> USE DEF SettledInv
<1>0. /\ echo_skb \in [Ids -> Skbs \cup {NoSkb}] /\ callback.id \in Ids
      /\ callback \in [pc : CallbackPcs, id : Ids, skb : Skbs \cup {NoSkb},
                       seen : Skbs \cup {NoSkb}]
      /\ callback.pc = "took" => callback.seen \in Skbs
      /\ xmit.id \in Ids
      /\ echoed \subseteq Skbs /\ dropped \subseteq Skbs /\ next \in 1 .. NSkbs + 1
      /\ xmit.pc # "idle" => xmit.skb \in Skbs
  BY DEF TypeOK, StackTypeOK, DriverTypeOK, ThreadTypeOK, OutsideTypeOK
<1>1. CASE LoopBackEchoSkb
  <2>1. /\ echo_skb' = [echo_skb EXCEPT ![callback.id] = NoSkb]
        /\ echoed' = echoed \cup {callback.seen}
        /\ callback.pc = "took" /\ callback'.pc = "taken" /\ callback.seen \in Skbs
        /\ callback'.seen = callback.seen
        /\ UNCHANGED <<next, dropped, xmit, clash>>
    BY <1>1, <1>0 DEF LoopBackEchoSkb, stack, At, CallbackGoto
  <2>2. \A i \in Ids : echo_skb'[i] = IF i = callback.id THEN NoSkb ELSE echo_skb[i]
    BY <2>1, <1>0
  <2>3. TakenBefore' BY <2>1, <2>2, <1>0 DEF TakenBefore
  <2>4. AllocatedIsNew'
    <3> SUFFICES ASSUME At(xmit, "allocated") PROVE AllocatedIsNew'
      BY <2>1 DEF AllocatedIsNew
    <3>1. xmit.skb \in Skbs BY <1>0 DEF At
    <3>2. callback.seen # xmit.skb BY DEF AllocatedIsNew
    <3> QED BY <3>1, <3>2, <2>1, <2>2, <1>0 DEF AllocatedIsNew, At
  <2>5. ASSUME ~clash PROVE SettledOnce' /\ Apart'
    <3> DEFINE s == echo_skb[callback.id]
    <3>1. s = callback.seen /\ s \in Skbs /\ s # NoSkb BY <2>1, <2>5 DEF Apart
    <3>2. HandlesEcho(callback.id) BY <2>1 DEF HandlesEcho
    <3>3. ~GivesUp(callback.id) BY <1>0, <2>5, <3>2 DEF Apart
    <3>4. ~(At(xmit, "killed") /\ xmit.id = callback.id) BY <3>3 DEF GivesUp, At
    <3>5. s \notin echoed \cup dropped BY <3>4, <2>5, <1>0 DEF SettledOnce
    <3>6. \A i \in Ids : i # callback.id => echo_skb[i] # s
      BY <3>1, <2>5, <1>0 DEF SettledOnce
    <3>7. 0 \notin echoed \cup dropped BY <1>0
    <3>8. SettledOnce' BY <2>1, <2>2, <2>5, <3>1, <3>5, <3>6, <3>7 DEF SettledOnce, At
    <3>9. Apart' BY <2>1, <2>5 DEF Apart, HandlesEcho, GivesUp
    <3> QED BY <3>8, <3>9
  <2>6. clash => SettledOnce' /\ clash' BY <2>1 DEF SettledOnce
  <2> QED BY <2>3, <2>4, <2>5, <2>6
<1>2. CASE Close
  <2>1. /\ echo_skb' = [i \in Ids |-> NoSkb] /\ xmit = Idle /\ callback = NoEcho
        /\ dropped' = dropped \cup ({echo_skb[i] : i \in Ids} \ {NoSkb})
        /\ UNCHANGED <<next, echoed, xmit, callback, clash>>
    BY <1>2 DEF Close
  <2>2. SettledOnce'
    <3> SUFFICES ASSUME ~clash PROVE SettledOnce' BY <2>1 DEF SettledOnce
    <3>1. \A i \in Ids : echo_skb[i] \notin echoed BY <2>1 DEF SettledOnce, At, Idle
    <3>2. 0 \notin echoed \cup dropped BY <1>0
    <3>3. echoed' \cap dropped' = {} BY <3>1, <2>1 DEF SettledOnce
    <3>4. 0 \notin echoed' \cup dropped' BY <3>2, <2>1
    <3> QED BY <3>3, <3>4, <2>1 DEF SettledOnce, NoEcho
  <2>3. TakenBefore' BY <2>1, <1>0 DEF TakenBefore
  <2>4. AllocatedIsNew' BY <2>1 DEF AllocatedIsNew, At, Idle
  <2>5. Apart' BY <2>1 DEF Apart, HandlesEcho, GivesUp, Idle, NoEcho
  <2> QED BY <2>2, <2>3, <2>4, <2>5
<1>3. CASE ReceiveEcho
  <2> DEFINE h == Head(in)
  <2>1. /\ UNCHANGED <<next, echo_skb, echoed, dropped, xmit>>
        /\ callback'.pc \in {"unused", "found"} /\ callback'.id = h.id
        /\ callback'.pc = "found" => ~Free(h.id)
        /\ callback'.seen = NoSkb
        /\ clash' = (clash \/ (~Free(h.id) /\ GivesUp(h.id)))
    BY <1>3 DEF ReceiveEcho, stack, driver, fates
  <2> HIDE DEF h
  <2>2. SettledOnce' BY <2>1 DEF SettledOnce, At
  <2>3. (clash \/ Apart)'
    <3> SUFFICES ASSUME ~clash, ~(~Free(h.id) /\ GivesUp(h.id)) PROVE Apart' BY <2>1
    <3> QED BY <2>1 DEF Apart, HandlesEcho, GivesUp
  <2>4. TakenBefore' BY <2>1, <1>0 DEF TakenBefore
  <2>5. AllocatedIsNew' BY <2>1, <1>0 DEF AllocatedIsNew, At
  <2> QED BY <2>2, <2>3, <2>4, <2>5
<1>4. CASE ReadEchoSkb \/ TakeEchoSkb
  <2> DEFINE s == echo_skb[callback.id]
  <2>1. /\ UNCHANGED <<next, echo_skb, echoed, dropped, xmit, clash>>
        /\ callback'.id = callback.id /\ callback'.seen = s
        /\ callback.pc \in {"found", "stamped"} /\ callback'.pc \in {"read", "took", "taken"}
        /\ s \in Skbs \cup {NoSkb}
    BY <1>4, <1>0 DEF ReadEchoSkb, TakeEchoSkb, stack, driver, fates, At
  <2>2. TakenBefore' BY <2>1, <1>0 DEF TakenBefore
  <2>3. AllocatedIsNew' BY <2>1, <1>0 DEF AllocatedIsNew, At
  <2>4. ASSUME ~clash PROVE SettledOnce' /\ Apart'
    <3>1. HandlesEcho(callback.id) BY <2>1 DEF HandlesEcho
    <3>2. ~GivesUp(callback.id) BY <1>0, <2>4, <3>1 DEF Apart
    <3>3. ~(At(xmit, "killed") /\ xmit.id = callback.id) BY <3>2 DEF GivesUp, At
    <3>4. s \notin echoed \cup dropped BY <3>3, <2>4, <1>0 DEF SettledOnce
    <3>5. SettledOnce' BY <2>1, <2>4, <3>4 DEF SettledOnce, At
    <3>6. Apart' BY <2>1, <3>2, <1>0 DEF Apart, HandlesEcho, GivesUp
    <3> QED BY <3>5, <3>6
  <2>5. clash => SettledOnce' /\ clash' BY <2>1 DEF SettledOnce
  <2> QED BY <2>2, <2>3, <2>4, <2>5
<1>5. CASE LogUnusedEchoId \/ StampEchoSkb \/ FreeTxContext \/ DecActive \/ WakeQueue
  <2>1. UNCHANGED <<next, echo_skb, echoed, dropped, xmit, clash>>
    BY <1>5 DEF LogUnusedEchoId, StampEchoSkb, FreeTxContext, DecActive, WakeQueue,
                stack, driver, fates
  <2>2. /\ callback'.pc \in {"idle", "stamped", "freed", "uncounted"}
        /\ callback'.pc = "stamped" => callback.pc = "read" /\ callback'.id = callback.id
        /\ callback'.seen \in {callback.seen, NoSkb}
    BY <1>5, <1>0 DEF LogUnusedEchoId, StampEchoSkb, FreeTxContext, DecActive, WakeQueue,
                CallbackGoto, NoEcho, At
  <2>3. SettledOnce' BY <2>1, <2>2 DEF SettledOnce, At
  <2>4. (clash \/ Apart)' BY <2>1, <2>2 DEF Apart, HandlesEcho, GivesUp
  <2>5. TakenBefore' BY <2>1, <2>2, <1>0 DEF TakenBefore
  <2>6. AllocatedIsNew' BY <2>1, <2>2, <1>0 DEF AllocatedIsNew, At
  <2> QED BY <2>3, <2>4, <2>5, <2>6
<1>6. CASE IgnoreEcho \/ LoseRxUrb \/ Detach \/ TxUrbDone \/ TxUrbFails \/ Transmit
           \/ CloseBegin \/ Open \/ UNCHANGED vars
  <2>1. UNCHANGED <<next, echo_skb, echoed, dropped, callback, clash, xmit>>
    BY <1>6 DEF IgnoreEcho, LoseRxUrb, Detach, TxUrbDone, TxUrbFails, Transmit,
                CloseBegin, Open, vars, stack, driver, fates
  <2> QED BY <2>1, SettledUntouched
<1> QED BY <1>1, <1>2, <1>3, <1>4, <1>5, <1>6 DEF CallbackStep

LEMMA SettledAlways == Spec => []SettledInv
<1> DEFINE Inv == SettledOnce /\ (clash \/ Apart) /\ TakenBefore /\ AllocatedIsNew
<1>1. Init => Inv
  BY DEF Init, TakenBefore, AllocatedIsNew, SettledOnce, Apart, HandlesEcho, GivesUp,
         Idle, NoEcho, At
<1>2. TypeOK /\ TypeOK' /\ Inv /\ [Next]_vars => Inv'
  <2> SUFFICES ASSUME SettledInv, TypeOK', [Next]_vars PROVE SettledInv'
    BY DEF SettledInv
  <2> QED BY SettledXmit, SettledRest DEF Next
<1>3. TypeOK /\ Inv => SettledInv
  BY DEF SettledInv
<1> HIDE DEF Inv
<1>4. Spec => [](TypeOK /\ Inv)
  BY <1>1, <1>2, TypeCorrect, PTL DEF Spec
<1> QED BY <1>3, <1>4, PTL

\* An skb is looped back or freed and never both, and the callback stamps none that was
\* freed, also with a device that echoes frames from before a close (gs_usb.c:649),
\* unless such an echo meets a start_xmit that gives up the frame with its echo_id.
THEOREM EverySkbSettledOnce == Spec => []SettledOnce
<1>1. SettledInv => SettledOnce BY DEF SettledInv
<1> QED BY <1>1, SettledAlways, PTL
=============================================================================
