------------------------ MODULE GsUsbTxServiceProofs ------------------------
(***************************************************************************)
(* Two results about GsUsbTx built on the ownership of contexts that       *)
(* GsUsbTxProofs establishes: the counter active_tx_urbs is right, and the *)
(* channel keeps the promise of TxService.                                 *)
(***************************************************************************)
EXTENDS GsUsbTxProofs, FiniteSetTheorems

Busy == {i \in Ids : ~Free(i)}

\* The steps of start_xmit with a context that is not counted.
Uncounted == {"allocated", "put", "undo", "killed", "cleared"}

\* 1 if the thread is at one of the steps, else 0.
AtOne(thread, pcs) == IF thread.pc \in pcs THEN 1 ELSE 0

-----------------------------------------------------------------------------
(***************************************************************************)
(* active_tx_urbs.                                                         *)
(***************************************************************************)

\* The number of contexts in use is a number.
LEMMA BusyFinite == IsFiniteSet(Ids) /\ IsFiniteSet(Busy) /\ Cardinality(Busy) \in Nat
<1>1. 0 \in Int /\ MaxTxUrbs - 1 \in Int BY MaxTxUrbsAssumption
<1>2. IsFiniteSet(Ids) BY <1>1, FS_Interval DEF Ids
<1>3. Busy \in SUBSET Ids BY DEF Busy
<1>4. IsFiniteSet(Busy) BY <1>2, <1>3, FS_Subset
<1> QED BY <1>2, <1>4, FS_CardinalityType

\* A thread that is between taking or freeing a context and counting it accounts
\* for one.
LEMMA FrameCount ==
  ASSUME NEW thread, NEW pcs
  PROVE  Cardinality(FrameOf(thread, pcs)) = AtOne(thread, pcs)
<1>1. CASE thread.pc \in pcs
  <2> DEFINE f == [id |-> thread.id, skb |-> thread.skb]
  <2>1. FrameOf(thread, pcs) = {f} BY <1>1 DEF FrameOf
  <2>2. Cardinality({f}) = 1 BY FS_Singleton
  <2> QED BY <1>1, <2>1, <2>2 DEF AtOne
<1>2. CASE thread.pc \notin pcs
  <2>1. FrameOf(thread, pcs) = {} BY <1>2 DEF FrameOf
  <2> QED BY <1>2, <2>1, FS_EmptySet DEF AtOne
<1> QED BY <1>1, <1>2

\* ActiveTxUrbsExact without the cardinalities of at most one frame.
Counted ==
    active_tx_urbs = Cardinality(Busy)
                     - AtOne(xmit, Uncounted)
                     + AtOne(callback, {"freed"})

LEMMA CountedIsExact == ActiveTxUrbsExact <=> Counted
<1>1. /\ Cardinality(FrameOf(xmit, Uncounted)) = AtOne(xmit, Uncounted)
      /\ Cardinality(FrameOf(callback, {"freed"})) = AtOne(callback, {"freed"})
  BY FrameCount
<1>2. {i \in Ids : ~Free(i)} = Busy BY DEF Busy
<1> QED BY <1>1, <1>2 DEF ActiveTxUrbsExact, Counted, Uncounted

\* A context is taken: one more is busy.
LEMMA BusyTaken ==
  ASSUME TypeOK, NEW i \in Ids, Free(i), echo_id' = [echo_id EXCEPT ![i] = i]
  PROVE  Cardinality(Busy)' = Cardinality(Busy) + 1
<1>1. echo_id \in [Ids -> 0 .. MaxTxUrbs] BY DEF TypeOK, DriverTypeOK
<1>2. i # MaxTxUrbs BY MaxTxUrbsAssumption DEF Ids
<1>3. Busy' = Busy \cup {i} /\ i \notin Busy BY <1>1, <1>2 DEF Busy, Free
<1>4. Cardinality(Busy \cup {i}) = Cardinality(Busy) + 1
  BY <1>3, BusyFinite, FS_AddElement
<1> QED BY <1>3, <1>4

\* A context is freed: one less is busy.
LEMMA BusyFreed ==
  ASSUME TypeOK, NEW i \in Ids, ~Free(i), echo_id' = [echo_id EXCEPT ![i] = MaxTxUrbs]
  PROVE  Cardinality(Busy)' = Cardinality(Busy) - 1
<1>1. echo_id \in [Ids -> 0 .. MaxTxUrbs] BY DEF TypeOK, DriverTypeOK
<1>2. Busy' = Busy \ {i} /\ i \in Busy BY <1>1 DEF Busy, Free
<1>3. Cardinality(Busy \ {i}) = Cardinality(Busy) - 1
  BY <1>2, BusyFinite, FS_RemoveElement
<1> QED BY <1>2, <1>3

\* The context of a thread that works on it is not free.
LEMMA ThreadsHoldContexts ==
  ASSUME IInv
  PROVE  /\ xmit.pc \in Uncounted \cup {"counted"} => ~Free(xmit.id)
         /\ callback.pc \in {"found", "read", "stamped", "took", "taken"} => ~Free(callback.id)
         /\ xmit.id \in Ids /\ callback.id \in Ids
<1>1. xmit.id \in Ids /\ callback.id \in Ids
  BY DEF IInv, TypeOK, ThreadTypeOK
<1>2. \A f \in Users : f.id \in Ids => ~Free(f.id)
  BY DEF IInv, ContextOwned
<1>3. ASSUME xmit.pc \in Uncounted \cup {"counted"} PROVE ~Free(xmit.id)
  <2> DEFINE f == [id |-> xmit.id, skb |-> xmit.skb]
  <2>1. f \in Users BY <1>3 DEF Users, Allocated, Sending, FrameOf, Uncounted
  <2> QED BY <1>1, <1>2, <2>1
<1>4. ASSUME callback.pc \in {"found", "read", "stamped", "took", "taken"} PROVE ~Free(callback.id)
  <2> DEFINE f == [id |-> callback.id, skb |-> callback.skb]
  <2>1. f \in Users BY <1>4 DEF Users, Found, Taken, FrameOf
  <2> QED BY <1>1, <1>2, <2>1
<1> QED BY <1>1, <1>3, <1>4

\* Every step that takes or frees a context leaves a mark on the thread until the
\* context is counted, and the thread that counts removes the mark.
LEMMA CountedStep ==
  ASSUME IInv, Counted, active_tx_urbs \in Int, [Next]_vars,
         ResetForgets
  PROVE  Counted'
<1> DEFINE X == AtOne(xmit, Uncounted)
           C == AtOne(callback, {"freed"})
<1>0. TypeOK /\ xmit \in [pc : XmitPcs, id : Ids, skb : Skbs \cup {NoSkb}]
      /\ callback \in [pc : CallbackPcs, id : Ids, skb : Skbs \cup {NoSkb},
                       seen : Skbs \cup {NoSkb}]
      /\ Cardinality(Busy) \in Nat /\ X \in {0, 1} /\ C \in {0, 1}
  BY BusyFinite DEF IInv, TypeOK, ThreadTypeOK, AtOne
<1>1. ASSUME UNCHANGED echo_id PROVE UNCHANGED Cardinality(Busy)
  <2>1. UNCHANGED Busy BY <1>1 DEF Busy, Free
  <2> QED BY <2>1
<1>2. ASSUME UNCHANGED xmit PROVE UNCHANGED X
  BY <1>2
<1>3. ASSUME UNCHANGED callback PROVE UNCHANGED C
  BY <1>3
<1>4. CASE AllocTxContext
  <2>1. PICK i \in Ids :
           /\ Free(i)
           /\ echo_id' = [echo_id EXCEPT ![i] = i]
           /\ xmit' = [pc |-> "allocated", id |-> i, skb |-> next]
    BY <1>4 DEF AllocTxContext
  <2>2. Cardinality(Busy)' = Cardinality(Busy) + 1 BY <1>0, <2>1, BusyTaken
  <2>3. X = 0 /\ X' = 1 BY <1>4, <2>1 DEF AllocTxContext, XmitMayStart, Idle, AtOne, Uncounted
  <2>4. UNCHANGED <<C, active_tx_urbs>> BY <1>4, <1>3 DEF AllocTxContext
  <2> QED BY <1>0, <2>2, <2>3, <2>4 DEF Counted
<1>5. CASE NoMem \/ GiveBackTxContext
  <2>1. xmit.pc \in {"allocated", "cleared"} /\ xmit'.pc \in {"idle", "undone"}
        /\ echo_id' = [echo_id EXCEPT ![xmit.id] = MaxTxUrbs]
        /\ UNCHANGED <<callback, active_tx_urbs>>
    BY <1>5, <1>0 DEF NoMem, GiveBackTxContext, At, Goto, Idle
  <2>2. X = 1 /\ X' = 0 BY <2>1 DEF AtOne, Uncounted
  <2>3. ~Free(xmit.id) /\ xmit.id \in Ids BY <2>1, ThreadsHoldContexts DEF Uncounted
  <2>4. Cardinality(Busy)' = Cardinality(Busy) - 1
    BY <1>0, <2>1, <2>3, BusyFreed
  <2> QED BY <1>0, <1>3, <2>1, <2>2, <2>4 DEF Counted
<1>6. CASE PutEchoSkb \/ FreeEchoSkb \/ ClearEchoSkb
  <2>1. X = 1 /\ X' = 1
    BY <1>6, <1>0 DEF PutEchoSkb, FreeEchoSkb, ClearEchoSkb, At, Goto, AtOne, Uncounted
  <2>2. UNCHANGED <<echo_id, callback, active_tx_urbs>>
    BY <1>6 DEF PutEchoSkb, FreeEchoSkb, ClearEchoSkb, driver
  <2> QED BY <1>1, <1>3, <2>1, <2>2 DEF Counted
<1>7. CASE IncActive
  <2>1. X = 1 /\ X' = 0 BY <1>7, <1>0 DEF IncActive, At, Goto, AtOne, Uncounted
  <2>2. active_tx_urbs' = active_tx_urbs + 1 /\ UNCHANGED <<echo_id, callback>>
    BY <1>7 DEF IncActive
  <2> QED BY <1>0, <1>1, <1>3, <2>1, <2>2 DEF Counted
<1>8. CASE SubmitFails
  <2>1. X = 0 /\ X' = 1 BY <1>8, <1>0 DEF SubmitFails, At, Goto, AtOne, Uncounted
  <2>2. active_tx_urbs' = active_tx_urbs - 1 /\ UNCHANGED <<echo_id, callback>>
    BY <1>8 DEF SubmitFails
  <2> QED BY <1>0, <1>1, <1>3, <2>1, <2>2 DEF Counted
<1>9. CASE SubmitTxUrb \/ EndFailedXmit \/ ReadActive \/ StopQueue
  <2>1. X = 0 /\ X' = 0
    BY <1>9, <1>0
       DEF SubmitTxUrb, EndFailedXmit, ReadActive, StopQueue, At, Goto, Idle, AtOne,
           Uncounted
  <2>2. UNCHANGED <<echo_id, callback, active_tx_urbs>>
    BY <1>9 DEF SubmitTxUrb, EndFailedXmit, ReadActive, StopQueue, driver
  <2> QED BY <1>1, <1>3, <2>1, <2>2 DEF Counted
<1>10. CASE ReceiveEcho \/ LogUnusedEchoId \/ ReadEchoSkb \/ StampEchoSkb \/ TakeEchoSkb
            \/ LoopBackEchoSkb
  <2>1. C = 0 /\ C' = 0
    <3>1. CASE ReceiveEcho \/ ReadEchoSkb \/ TakeEchoSkb
      <4>1. callback.pc \in {"idle", "found", "stamped"}
        BY <3>1 DEF ReceiveEcho, EchoArrives, ReadEchoSkb, TakeEchoSkb, At, NoEcho
      <4>2. callback'.pc \in {"unused", "found", "read", "taken", "took"}
        <5>1. CASE ReceiveEcho BY <5>1 DEF ReceiveEcho
        <5>2. CASE ReadEchoSkb BY <5>2, <1>0 DEF ReadEchoSkb
        <5>3. CASE TakeEchoSkb BY <5>3, <1>0 DEF TakeEchoSkb
        <5> QED BY <3>1, <5>1, <5>2, <5>3
      <4> QED BY <4>1, <4>2 DEF AtOne
    <3>2. CASE LogUnusedEchoId \/ StampEchoSkb \/ LoopBackEchoSkb
      BY <3>2, <1>0
         DEF LogUnusedEchoId, StampEchoSkb, LoopBackEchoSkb, CallbackGoto, At, NoEcho, AtOne
    <3> QED BY <1>10, <3>1, <3>2
  <2>2. UNCHANGED <<echo_id, xmit, active_tx_urbs>>
    BY <1>10 DEF ReceiveEcho, LogUnusedEchoId, ReadEchoSkb, StampEchoSkb, TakeEchoSkb,
                 LoopBackEchoSkb, driver
  <2> QED BY <1>1, <1>2, <2>1, <2>2 DEF Counted
<1>11. CASE FreeTxContext
  <2>1. callback.pc = "taken" /\ echo_id' = [echo_id EXCEPT ![callback.id] = MaxTxUrbs]
        /\ UNCHANGED <<xmit, active_tx_urbs>>
    BY <1>11 DEF FreeTxContext, At
  <2>2. Cardinality(Busy)' = Cardinality(Busy) - 1
    BY <1>0, <2>1, ThreadsHoldContexts, BusyFreed
  <2>3. C = 0 /\ C' = 1 BY <1>11, <1>0 DEF FreeTxContext, At, CallbackGoto, AtOne
  <2> QED BY <1>0, <1>2, <2>1, <2>2, <2>3 DEF Counted
<1>12. CASE DecActive
  <2>1. C = 1 /\ C' = 0 BY <1>12, <1>0 DEF DecActive, At, CallbackGoto, AtOne
  <2>2. active_tx_urbs' = active_tx_urbs - 1 /\ UNCHANGED <<echo_id, xmit>>
    BY <1>12 DEF DecActive
  <2> QED BY <1>0, <1>1, <1>2, <2>1, <2>2 DEF Counted
<1>13. CASE WakeQueue
  <2>1. C = 0 /\ C' = 0 BY <1>13, <1>0 DEF WakeQueue, At, NoEcho, AtOne
  <2>2. UNCHANGED <<echo_id, xmit, active_tx_urbs>> BY <1>13 DEF WakeQueue, driver
  <2> QED BY <1>1, <1>2, <2>1, <2>2 DEF Counted
<1>14. CASE Close
  <2>1. xmit = Idle /\ callback = NoEcho /\ UNCHANGED <<xmit, callback>>
        /\ active_tx_urbs' = 0 /\ echo_id' = [i \in Ids |-> MaxTxUrbs]
    BY <1>14 DEF Close
  <2>2. X' = 0 /\ C' = 0 BY <2>1 DEF Idle, NoEcho, AtOne, Uncounted
  <2>3. Busy' = {} BY <2>1 DEF Busy, Free
  <2>4. Cardinality(Busy)' = 0 BY <2>3, FS_EmptySet
  <2> QED BY <2>1, <2>2, <2>4 DEF Counted
<1>15. CASE UNCHANGED <<echo_id, xmit, callback, active_tx_urbs>>
  BY <1>15, <1>1, <1>2, <1>3 DEF Counted
<1> QED
  BY <1>4, <1>5, <1>6, <1>7, <1>8, <1>9, <1>10, <1>11, <1>12, <1>13, <1>14, <1>15
     DEF Next, XmitStart, XmitContinue, CallbackStep, DropInvalid, TxBusy, IgnoreEcho,
         LoseRxUrb, Detach, TxUrbDone, TxUrbFails, Transmit, CloseBegin, Open, driver, vars

\* active_tx_urbs is the number of contexts in use, up to the steps between taking
\* or freeing one and counting it: the counter never drifts from the array, for any
\* interleaving of gs_can_start_xmit with the callback.
THEOREM CounterExact == ASSUME ResetForgets PROVE Spec => []ActiveTxUrbsExact
<1>1. Init => Counted
  <2> SUFFICES ASSUME Init PROVE Counted
    OBVIOUS
  <2>1. Busy = {} /\ active_tx_urbs = 0 BY DEF Init, Busy, Free
  <2>2. xmit = Idle /\ callback = NoEcho BY DEF Init
  <2>3. AtOne(xmit, Uncounted) = 0 /\ AtOne(callback, {"freed"}) = 0
    BY <2>2 DEF Idle, NoEcho, AtOne, Uncounted
  <2> QED BY <2>1, <2>3, FS_EmptySet DEF Counted
<1>2. IInv /\ Counted /\ [Next]_vars => Counted'
  <2>1. IInv => active_tx_urbs \in Int BY DEF IInv, TypeOK, DriverTypeOK
  <2> QED BY <2>1, CountedStep
<1>3. Spec => []Counted BY <1>1, <1>2, InductiveInvariant, PTL DEF Spec
<1>4. Counted => ActiveTxUrbsExact BY CountedIsExact
<1> QED BY <1>3, <1>4, PTL

-----------------------------------------------------------------------------
(***************************************************************************)
(* The promise of TxService.  What the channel holds for the stack is what *)
(* is in its slots, but for what start_xmit has just freed in one.         *)
(***************************************************************************)
Filled == {echo_skb[i] : i \in Ids} \ {NoSkb}

Freed == {f.skb : f \in FrameOf(xmit, {"killed"})}

LEMMA SlotsAreFilled == Slots = Filled \ Freed
BY DEF Slots, Filled, Freed

\* The frame start_xmit has taken from the stack and not put in a slot yet.
Fresh == FrameOf(xmit, {"allocated"})

\* Only what the driver took was on the bus; a frame is on the bus after the device
\* got it, and before its echo comes.
OnTheBus ==
    /\ \A s \in wire : s < next
    /\ \A f \in Fresh \cup Sending \cup out \cup device : f.skb \notin wire
    /\ \A f \in Held(in) \cup Found : f.skb \in wire

\* No slot holds a frame twice, and the context with the frame is known.
LEMMA SlotIsUnique ==
  ASSUME IInv, SettledInv, ~clash, NEW f \in Sending \cup Submitted \cup Found
  PROVE  /\ f \in Frames /\ f.id \in Ids /\ f.skb \in Skbs
         /\ echo_skb[f.id] = f.skb /\ f.skb \in Filled /\ f.skb < next
         /\ \A j \in Ids : echo_skb[j] = f.skb => j = f.id
<1>1. f \in Users BY DEF Users
<1>2. f \in Frames BY <1>1, UsersAreFrames DEF IInv
<1>3. f.id \in Ids /\ f.skb \in Skbs /\ f.skb # NoSkb BY <1>2 DEF Frames, Skbs, NoSkb
<1>4. echo_skb[f.id] = f.skb BY DEF IInv, EchoFindsItsSkb
<1>5. f.skb \in Filled BY <1>3, <1>4 DEF Filled
<1>6. f.skb < next BY <1>3, <1>4 DEF SettledInv, TakenBefore
<1>7. \A j \in Ids : echo_skb[j] = f.skb => j = f.id
  BY <1>3, <1>4 DEF SettledInv, SettledOnce
<1> QED BY <1>2, <1>3, <1>4, <1>5, <1>6, <1>7

\* A frame that the device transmits is no other frame's skb.
LEMMA TransmitStep ==
  ASSUME IInv, SettledInv, ~clash, OnTheBus, Transmit PROVE OnTheBus'
<1>1. PICK f \in device : /\ device' = device \ {f}
                          /\ wire' = wire \cup {f.skb}
                          /\ in' = Append(in, f)
  BY DEF Transmit
<1>2. UNCHANGED <<next, out, Fresh, Sending, Found>>
  BY DEF Transmit, stack, Fresh, Sending, Found
<1>3. f \in Submitted /\ f \in Frames BY <1>1, SlotIsUnique DEF Submitted
<1>4. f.skb < next /\ \A j \in Ids : echo_skb[j] = f.skb => j = f.id
  BY <1>3, SlotIsUnique
<1>5. ASSUME NEW g \in Sending \cup out \cup device, g # f PROVE g.skb # f.skb
  <2>1. g \in Users /\ f \in Users /\ g \in Sending \cup Submitted
    BY <1>3 DEF Users, Submitted
  <2>2. g.id # f.id BY <1>5, <2>1 DEF IInv, ContextOwned
  <2>3. g.id \in Ids /\ echo_skb[g.id] = g.skb BY <2>1, SlotIsUnique
  <2> QED BY <1>4, <2>2, <2>3
<1>6. ASSUME NEW g \in Fresh PROVE g.skb # f.skb
  <2>1. At(xmit, "allocated") /\ g.skb = xmit.skb
    BY DEF Fresh, FrameOf, At
  <2>2. echo_skb[f.id] = f.skb /\ f.id \in Ids BY <1>3, SlotIsUnique
  <2> QED BY <2>1, <2>2 DEF SettledInv, AllocatedIsNew
<1>7. f \notin Sending \cup out
  BY <1>1, <1>3 DEF IInv, ContextOwned, OnePlace
<1>8. in \in Seq(Frames) BY DEF IInv, TypeOK, OutsideTypeOK
<1> HIDE DEF Frames
<1>9. Held(in)' = Held(in) \cup {f}
  <2>1. Held(Append(in, f)) = Held(in) \cup {f} BY <1>3, <1>8, HeldAppend
  <2> QED BY <1>1, <2>1 DEF Held
<1>10. \A s \in wire' : s < next' BY <1>1, <1>2, <1>4 DEF OnTheBus
<1>11. \A g \in (Fresh \cup Sending \cup out \cup device)' : g.skb \notin wire'
  BY <1>1, <1>2, <1>5, <1>6, <1>7 DEF OnTheBus
<1>12. \A g \in (Held(in) \cup Found)' : g.skb \in wire'
  BY <1>1, <1>2, <1>9 DEF OnTheBus
<1> QED BY <1>10, <1>11, <1>12 DEF OnTheBus

LEMMA OnTheBusStep ==
  ASSUME ResetForgets, IInv, SettledInv, ~clash, OnTheBus, [Next]_vars PROVE OnTheBus'
<1> DEFINE f == [id |-> xmit.id, skb |-> xmit.skb]
<1>1. CASE Transmit BY <1>1, TransmitStep
<1>2. CASE DropInvalid
  <2>1. next' = next + 1 /\ next \in Int BY <1>2 DEF DropInvalid, XmitMayStart, Skbs
  <2>2. UNCHANGED <<Fresh, Sending, Found, Held(in), out, device, wire>>
    BY <1>2 DEF DropInvalid, pipes, Fresh, Sending, Found, Held
  <2>3. wire \subseteq Int BY DEF IInv, TypeOK, OutsideTypeOK, Skbs
  <2> QED BY <2>1, <2>2, <2>3 DEF OnTheBus
<1>3. CASE AllocTxContext
  <2>1. next' = next + 1 /\ next \in Int
        /\ xmit'.pc = "allocated" /\ xmit'.skb = next
    BY <1>3 DEF AllocTxContext, XmitMayStart, Skbs
  <2>2. UNCHANGED <<Found, Held(in), out, device, wire>>
    BY <1>3 DEF AllocTxContext, Found, Held, pipes, fates
  <2>3. wire \subseteq Int BY DEF IInv, TypeOK, OutsideTypeOK, Skbs
  <2>4. Sending' = {} /\ \A g \in Fresh' : g.skb = next
    BY <2>1 DEF Fresh, Sending, FrameOf
  <2>5. next \notin wire BY <2>1, <2>3 DEF OnTheBus
  <2> QED BY <2>1, <2>2, <2>3, <2>4, <2>5 DEF OnTheBus
<1>4. CASE XmitContinue
  <2>0. xmit \in [pc : XmitPcs, id : Ids, skb : Skbs \cup {NoSkb}]
    BY DEF IInv, TypeOK, ThreadTypeOK
  <2>1. UNCHANGED <<next, wire, Held(in), device, Found>>
    BY <1>4 DEF XmitContinue, NoMem, PutEchoSkb, IncActive, SubmitTxUrb, SubmitFails,
                FreeEchoSkb, ClearEchoSkb, GiveBackTxContext, EndFailedXmit, ReadActive,
                StopQueue, stack, pipes, fates, Held, Found
  <2>2. Fresh' \cup Sending' \cup out' \subseteq Fresh \cup Sending \cup out
    <3>1. CASE SubmitTxUrb
      <4>1. f \in Sending /\ out' = out \cup {f} BY <3>1 DEF SubmitTxUrb, At, Sending, FrameOf
      <4>2. Fresh' = {} /\ Sending' = {}
        BY <3>1, <2>0 DEF SubmitTxUrb, At, Goto, Fresh, Sending, FrameOf
      <4> QED BY <4>1, <4>2
    <3>2. CASE NoMem \/ GiveBackTxContext \/ EndFailedXmit \/ StopQueue \/ ReadActive
      <4>1. xmit'.pc \in {"idle", "undone", "full"} /\ UNCHANGED out
        BY <3>2, <2>0 DEF NoMem, GiveBackTxContext, EndFailedXmit, StopQueue, ReadActive,
                          Goto, Idle, pipes
      <4> QED BY <4>1 DEF Fresh, Sending, FrameOf
    <3>3. CASE PutEchoSkb \/ IncActive \/ SubmitFails \/ FreeEchoSkb \/ ClearEchoSkb
      <4>1. xmit.pc \in {"allocated", "put", "counted", "undo", "killed"}
            /\ xmit'.id = xmit.id /\ xmit'.skb = xmit.skb /\ UNCHANGED out
        BY <3>3, <2>0 DEF PutEchoSkb, IncActive, SubmitFails, FreeEchoSkb, ClearEchoSkb, At,
                          Goto, pipes
      <4>2. f \in Fresh \cup Sending BY <4>1 DEF Fresh, Sending, FrameOf
      <4>3. Fresh' \cup Sending' \subseteq {f} BY <4>1 DEF Fresh, Sending, FrameOf
      <4> QED BY <4>1, <4>2, <4>3
    <3> QED BY <1>4, <3>1, <3>2, <3>3 DEF XmitContinue
  <2> QED BY <2>1, <2>2 DEF OnTheBus
<1>5. CASE ReceiveEcho \/ IgnoreEcho \/ (LoseRxUrb /\ ~UNCHANGED in)
  <2>1. in # <<>> /\ in' = Tail(in)
    BY <1>5 DEF ReceiveEcho, IgnoreEcho, EchoArrives, LoseRxUrb
  <2>2. Head(in) \in Held(in) /\ Held(in)' \subseteq Held(in)
    <3>1. Held(Tail(in)) \subseteq Held(in) BY <2>1, HeadOfPipe
    <3>2. Head(in) \in Held(in)
      <4>1. in \in Seq(Frames) BY DEF IInv, TypeOK, OutsideTypeOK
      <4> HIDE DEF Frames
      <4> QED BY <2>1, <4>1, HeldTail
    <3> QED BY <2>1, <3>1, <3>2 DEF Held
  <2>3. UNCHANGED <<next, wire, out, device, Fresh, Sending>>
    BY <1>5 DEF ReceiveEcho, IgnoreEcho, LoseRxUrb, stack, fates, Fresh, Sending
  <2>4. \A g \in Found' : g.skb \in wire
    <3>1. CASE ReceiveEcho
      <4>1. callback'.skb = Head(in).skb BY <3>1 DEF ReceiveEcho
      <4>2. \A g \in Found' : g.skb = Head(in).skb BY <4>1 DEF Found, FrameOf
      <4> QED BY <4>2, <2>2 DEF OnTheBus
    <3>2. CASE IgnoreEcho \/ LoseRxUrb
      BY <3>2 DEF IgnoreEcho, LoseRxUrb, Found, OnTheBus
    <3> QED BY <1>5, <3>1, <3>2
  <2> QED BY <2>2, <2>3, <2>4 DEF OnTheBus
<1>6. CASE LogUnusedEchoId \/ ReadEchoSkb \/ StampEchoSkb \/ TakeEchoSkb
           \/ LoopBackEchoSkb \/ FreeTxContext \/ DecActive \/ WakeQueue
  <2>0. callback \in [pc : CallbackPcs, id : Ids, skb : Skbs \cup {NoSkb},
                      seen : Skbs \cup {NoSkb}]
    BY DEF IInv, TypeOK, ThreadTypeOK
  <2>1. UNCHANGED <<next, wire, out, device, Fresh, Sending, Held(in)>>
    BY <1>6 DEF LogUnusedEchoId, ReadEchoSkb, StampEchoSkb, TakeEchoSkb, LoopBackEchoSkb,
                FreeTxContext, DecActive, WakeQueue, stack, pipes, fates, Fresh,
                Sending, Held
  <2>2. Found' \subseteq Found
    <3>1. CASE ReadEchoSkb \/ TakeEchoSkb
      <4>1. callback.pc \in {"found", "stamped"}
            /\ callback'.id = callback.id /\ callback'.skb = callback.skb
        BY <3>1, <2>0 DEF ReadEchoSkb, TakeEchoSkb, At
      <4> QED BY <4>1 DEF Found, FrameOf
    <3>2. CASE StampEchoSkb
      BY <3>2, <2>0 DEF StampEchoSkb, CallbackGoto, At, Found, FrameOf
    <3>3. CASE LogUnusedEchoId \/ LoopBackEchoSkb \/ FreeTxContext \/ DecActive \/ WakeQueue
      <4>1. callback'.pc \in {"idle", "taken", "freed", "uncounted"}
        BY <3>3, <2>0 DEF LogUnusedEchoId, LoopBackEchoSkb, FreeTxContext, DecActive,
                          WakeQueue, CallbackGoto, NoEcho
      <4> QED BY <4>1 DEF Found, FrameOf
    <3> QED BY <1>6, <3>1, <3>2, <3>3
  <2> QED BY <2>1, <2>2 DEF OnTheBus
<1>7. CASE TxUrbDone \/ TxUrbFails
  <2>1. UNCHANGED <<next, wire, Fresh, Sending, Found, Held(in)>>
    BY <1>7 DEF TxUrbDone, TxUrbFails, stack, fates, Fresh, Sending, Found, Held
  <2>2. out' \cup device' \subseteq out \cup device
    BY <1>7 DEF TxUrbDone, TxUrbFails
  <2> QED BY <2>1, <2>2 DEF OnTheBus
<1>8. CASE Close
  <2>1. xmit' = Idle /\ callback' = NoEcho /\ out' = {} /\ device' = {} /\ in' = <<>>
        /\ UNCHANGED <<next, wire>>
    BY <1>8 DEF Close
  <2>2. Fresh' = {} /\ Sending' = {} /\ Found' = {} /\ Held(in)' = {}
    BY <2>1 DEF Idle, NoEcho, Fresh, Sending, Found, FrameOf, Held
  <2> QED BY <2>1, <2>2 DEF OnTheBus
<1>9. CASE CloseBegin \/ Open \/ Detach \/ (LoseRxUrb /\ UNCHANGED in) \/ UNCHANGED vars
  <2>1. UNCHANGED <<next, wire, out, device, in, xmit, callback>>
    BY <1>9 DEF CloseBegin, Open, Detach, LoseRxUrb, vars, stack, pipes, fates
  <2>2. UNCHANGED <<Fresh, Sending, Found, Held(in)>>
    BY <2>1 DEF Fresh, Sending, Found, Held
  <2> QED BY <2>1, <2>2 DEF OnTheBus
<1> QED
  BY <1>1, <1>2, <1>3, <1>4, <1>5, <1>6, <1>7, <1>8, <1>9
     DEF Next, XmitStart, TxBusy, CallbackStep

-----------------------------------------------------------------------------
(***************************************************************************)
(* How slots change.                                                       *)
(***************************************************************************)

\* A slot is emptied: one filled slot less.
LEMMA SlotEmptied ==
  ASSUME TypeOK, SettledOnce, ~clash, NEW i \in Ids, echo_skb[i] # NoSkb,
         echo_skb' = [echo_skb EXCEPT ![i] = NoSkb]
  PROVE  Filled' = Filled \ {echo_skb[i]} /\ echo_skb[i] \in Filled
<1>1. echo_skb \in [Ids -> Skbs \cup {NoSkb}] BY DEF TypeOK, DriverTypeOK
<1>2. \A j \in Ids : j # i => echo_skb[j] # echo_skb[i] BY DEF SettledOnce
<1>3. echo_skb'[i] = NoSkb /\ \A j \in Ids \ {i} : echo_skb'[j] = echo_skb[j] BY <1>1
<1>4. Filled' = {echo_skb'[j] : j \in Ids} \ {NoSkb} BY DEF Filled
<1> QED BY <1>2, <1>3, <1>4 DEF Filled

\* An empty slot is filled: one more.
LEMMA SlotFilled ==
  ASSUME TypeOK, NEW i \in Ids, echo_skb[i] = NoSkb, NEW s \in Skbs,
         echo_skb' = [echo_skb EXCEPT ![i] = s]
  PROVE  Filled' = Filled \cup {s}
<1>1. echo_skb \in [Ids -> Skbs \cup {NoSkb}] BY DEF TypeOK, DriverTypeOK
<1>2. echo_skb'[i] = s /\ \A j \in Ids \ {i} : echo_skb'[j] = echo_skb[j] BY <1>1
<1>3. Filled' = {echo_skb'[j] : j \in Ids} \ {NoSkb} BY DEF Filled
<1>4. s # NoSkb BY DEF Skbs, NoSkb
<1> QED BY <1>2, <1>3, <1>4 DEF Filled

\* While a slot is empty, the channel holds fewer than MaxTxUrbs skbs.
LEMMA RoomForOne ==
  ASSUME TypeOK, NEW i \in Ids, echo_skb[i] = NoSkb
  PROVE  Cardinality(Filled) \in Nat /\ Cardinality(Filled) < MaxTxUrbs
<1> DEFINE Full == {j \in Ids : echo_skb[j] # NoSkb}
           slot == [j \in Full |-> echo_skb[j]]
<1>1. IsFiniteSet(Ids) /\ Cardinality(Ids) = MaxTxUrbs
  <2>1. 0 \in Int /\ MaxTxUrbs - 1 \in Int /\ ~(0 > MaxTxUrbs - 1) BY MaxTxUrbsAssumption
  <2>2. Cardinality(Ids) = MaxTxUrbs - 1 - 0 + 1 BY <2>1, FS_Interval DEF Ids
  <2> QED BY <2>2, BusyFinite, MaxTxUrbsAssumption
<1>2. IsFiniteSet(Ids \ {i}) /\ Cardinality(Ids \ {i}) = MaxTxUrbs - 1
  BY <1>1, FS_RemoveElement
<1>3. Full \in SUBSET (Ids \ {i}) OBVIOUS
<1>4. IsFiniteSet(Full) /\ Cardinality(Full) <= MaxTxUrbs - 1
  BY <1>2, <1>3, FS_Subset
<1>5. slot \in Surjection(Full, Filled) BY DEF Surjection, Filled
<1>6. IsFiniteSet(Filled) /\ Cardinality(Filled) <= Cardinality(Full)
  BY <1>4, <1>5, FS_Surjection
<1>7. Cardinality(Full) \in Nat /\ Cardinality(Filled) \in Nat
  BY <1>4, <1>6, FS_CardinalityType
<1> QED BY <1>4, <1>6, <1>7, MaxTxUrbsAssumption

-----------------------------------------------------------------------------
(***************************************************************************)
(* Every step of the driver is a step of TxService or changes nothing of   *)
(* what it promises.                                                       *)
(***************************************************************************)
promised == <<Slots, wire, echoed, dropped>>

\* The frame that start_xmit refuses or accepts is fresh.
LEMMA NextIsFresh ==
  ASSUME IInv, SettledInv, ~clash, OnTheBus, next \in Skbs
  PROVE  next \notin Slots \cup wire \cup echoed \cup dropped
<1>1. /\ echo_skb \in [Ids -> Skbs \cup {NoSkb}] /\ wire \subseteq Skbs
      /\ echoed \subseteq Skbs /\ dropped \subseteq Skbs
  BY DEF IInv, TypeOK, DriverTypeOK, OutsideTypeOK
<1>2. \A s \in Slots : s < next BY SlotsAreFilled DEF Filled, SettledInv, TakenBefore
<1>3. \A s \in wire \cup echoed \cup dropped : s < next
  BY DEF OnTheBus, SettledInv, TakenBefore
<1>4. ~(next < next) BY DEF Skbs
<1> QED BY <1>2, <1>3, <1>4

LEMMA AllocatedIsFresh ==
  ASSUME IInv, SettledInv, ~clash, OnTheBus, At(xmit, "allocated")
  PROVE  /\ xmit.skb \in Skbs /\ xmit.id \in Ids /\ echo_skb[xmit.id] = NoSkb
         /\ xmit.skb \notin Slots \cup wire \cup echoed \cup dropped
<1> DEFINE f == [id |-> xmit.id, skb |-> xmit.skb]
<1>1. f \in Allocated /\ f \in Fresh BY DEF Allocated, Fresh, FrameOf, At
<1>2. xmit.skb \in Skbs /\ xmit.id \in Ids BY DEF At, IInv, TypeOK, ThreadTypeOK
<1>3. echo_skb[xmit.id] = NoSkb BY <1>1 DEF IInv, EmptySlots
<1>4. xmit.skb \notin wire BY <1>1 DEF OnTheBus
<1>5. xmit.skb \notin Slots \cup echoed \cup dropped
  BY SlotsAreFilled DEF SettledInv, AllocatedIsNew, Filled
<1> QED BY <1>2, <1>3, <1>4, <1>5

\* The steps of TxService that change what is held, in terms of the slots.
LEMMA SameCardinality == \A S : Service!Cardinality(S) = Cardinality(S)
BY DEF Service!Cardinality, Cardinality

LEMMA Accepts ==
  ASSUME NEW s \in Skbs, s \notin Slots \cup wire \cup echoed \cup dropped,
         Cardinality(Slots) < MaxTxUrbs, Slots' = Slots \cup {s},
         UNCHANGED <<wire, echoed, dropped>>
  PROVE  Service!Next
<1>1. Service!Accept(s)
  BY SameCardinality DEF Service!Accept, Service!Fresh
<1> QED BY <1>1 DEF Service!Next

LEMMA LoopsBack ==
  ASSUME NEW s \in Skbs, s \in Slots \cap wire, Slots' = Slots \ {s},
         echoed' = echoed \cup {s}, UNCHANGED <<wire, dropped>>
  PROVE  Service!Next
<1>1. Service!LoopBack(s) BY DEF Service!LoopBack
<1> QED BY <1>1 DEF Service!Next

LEMMA GivesUpSlots ==
  ASSUME NEW S \in SUBSET Slots, Slots' = Slots \ S,
         dropped' = dropped \cup S, UNCHANGED <<wire, echoed>>
  PROVE  Service!Next
<1>1. Service!GiveUp(S) BY DEF Service!GiveUp
<1> QED BY <1>1, Zenon DEF Service!Next

\* Unless start_xmit enters or leaves the step between freeing an skb and emptying its
\* slot, what the channel holds changes with the filled slots only.
LEMMA NothingFreed ==
  ASSUME xmit.pc # "killed", xmit'.pc # "killed"
  PROVE  Slots = Filled /\ Slots' = Filled'
<1>1. Freed = {} /\ Freed' = {} BY DEF Freed, FrameOf
<1> QED BY <1>1, SlotsAreFilled DEF Slots, Filled, Freed

LEMMA ServiceStep ==
  ASSUME ResetForgets, IInv, SettledInv, ~clash, OnTheBus, [Next]_vars
  PROVE  Service!Next \/ UNCHANGED promised
<1> DEFINE f == [id |-> xmit.id, skb |-> xmit.skb]
           g == [id |-> callback.id, skb |-> callback.skb]
<1>0. TypeOK /\ SettledOnce /\ xmit \in [pc : XmitPcs, id : Ids, skb : Skbs \cup {NoSkb}]
  BY DEF IInv, SettledInv, TypeOK, ThreadTypeOK
<1>a. ASSUME UNCHANGED <<echo_skb, xmit>> PROVE UNCHANGED Slots
  BY <1>a DEF Slots
<1>b. ASSUME UNCHANGED echo_skb, xmit.pc # "killed", xmit'.pc # "killed"
      PROVE  UNCHANGED Slots
  BY <1>b, NothingFreed DEF Filled
<1>1. CASE DropInvalid
  <2>1. /\ next \in Skbs /\ dropped' = dropped \cup {next}
        /\ UNCHANGED <<echo_skb, xmit, wire, echoed>>
    BY <1>1 DEF DropInvalid, XmitMayStart, driver
  <2>2. Service!Refuse(next)
    BY <2>1, <1>a, NextIsFresh DEF Service!Refuse, Service!Fresh
  <2> QED BY <2>1, <2>2 DEF Service!Next
<1>2. CASE NoMem
  <2>1. At(xmit, "allocated") /\ dropped' = dropped \cup {xmit.skb} /\ xmit' = Idle
        /\ UNCHANGED <<echo_skb, wire, echoed>>
    BY <1>2 DEF NoMem
  <2>2. UNCHANGED Slots BY <2>1, <1>b DEF At, Idle
  <2>3. Service!Refuse(xmit.skb)
    BY <2>1, <2>2, AllocatedIsFresh DEF Service!Refuse, Service!Fresh
  <2>4. xmit.skb \in Skbs BY <2>1, AllocatedIsFresh
  <2> QED BY <2>3, <2>4 DEF Service!Next
<1>3. CASE PutEchoSkb
  <2>1. At(xmit, "allocated") /\ xmit'.pc = "put" BY <1>3, <1>0 DEF PutEchoSkb, Goto
  <2>2. /\ xmit.skb \in Skbs /\ xmit.id \in Ids /\ echo_skb[xmit.id] = NoSkb
        /\ xmit.skb \notin Slots \cup wire \cup echoed \cup dropped
    BY <2>1, AllocatedIsFresh
  <2>3. echo_skb' = [echo_skb EXCEPT ![xmit.id] = xmit.skb]
        /\ UNCHANGED <<wire, echoed, dropped>>
    BY <1>3, <2>2 DEF PutEchoSkb
  <2>4. Slots = Filled /\ Slots' = Filled' BY <2>1, NothingFreed DEF At
  <2>5. Slots' = Slots \cup {xmit.skb} BY <1>0, <2>2, <2>3, <2>4, SlotFilled
  <2>6. Cardinality(Slots) < MaxTxUrbs BY <1>0, <2>2, <2>4, RoomForOne
  <2> QED BY <2>2, <2>3, <2>5, <2>6, Accepts
<1>4. CASE FreeEchoSkb
  <2>1. f \in Sending /\ At(xmit, "undo") BY <1>4 DEF FreeEchoSkb, At, Sending, FrameOf
  <2>2. echo_skb[xmit.id] = xmit.skb /\ xmit.skb \in Skbs /\ xmit.id \in Ids
        /\ xmit.skb \in Filled
    BY <2>1, SlotIsUnique
  <2>3. xmit.skb # NoSkb BY <2>2 DEF Skbs, NoSkb
  <2>4. /\ Goto("killed") /\ dropped' = dropped \cup {xmit.skb}
        /\ UNCHANGED <<echo_skb, wire, echoed>>
    BY <1>4, <2>2, <2>3 DEF FreeEchoSkb, driver
  <2>5. Freed = {} /\ Freed' = {xmit.skb}
    <3>1. xmit.pc = "undo" /\ xmit'.pc = "killed" /\ xmit'.skb = xmit.skb
      BY <2>1, <2>4, <1>0 DEF At, Goto
    <3>2. Freed = {} BY <3>1 DEF Freed, FrameOf
    <3>3. PICK e : e = [id |-> xmit'.id, skb |-> xmit'.skb] OBVIOUS
    <3>4. FrameOf(xmit, {"killed"})' = {e} BY <3>1, <3>3 DEF FrameOf
    <3>5. Freed' = {h.skb : h \in {e}} BY <3>4 DEF Freed
    <3>6. Freed' = {e.skb} BY <3>5
    <3> QED BY <3>1, <3>2, <3>3, <3>6
  <2>6. Slots = Filled /\ Slots' = Filled' \ Freed' /\ UNCHANGED Filled
    BY <2>4, <2>5, SlotsAreFilled DEF Filled, Slots, Freed
  <2>7. Slots' = Slots \ {xmit.skb} /\ {xmit.skb} \in SUBSET Slots
    BY <2>2, <2>5, <2>6
  <2> QED BY <2>4, <2>7, GivesUpSlots
<1>5. CASE ClearEchoSkb
  <2>1. f \in Sending /\ At(xmit, "killed") BY <1>5 DEF ClearEchoSkb, At, Sending, FrameOf
  <2>2. echo_skb[xmit.id] = xmit.skb /\ xmit.skb \in Skbs /\ xmit.id \in Ids
    BY <2>1, SlotIsUnique
  <2>3. xmit.skb # NoSkb BY <2>2 DEF Skbs, NoSkb
  <2>4. /\ Goto("cleared") /\ echo_skb' = [echo_skb EXCEPT ![xmit.id] = NoSkb]
        /\ UNCHANGED <<wire, echoed, dropped>>
    BY <1>5 DEF ClearEchoSkb, fates
  <2>5. Filled' = Filled \ {xmit.skb} BY <1>0, <2>2, <2>3, <2>4, SlotEmptied
  <2>6. Freed = {xmit.skb} /\ Freed' = {}
    <3>1. xmit.pc = "killed" /\ xmit'.pc = "cleared" BY <2>1, <2>4, <1>0 DEF At, Goto
    <3>2. FrameOf(xmit, {"killed"}) = {f} BY <3>1 DEF FrameOf
    <3>3. Freed = {h.skb : h \in {f}} BY <3>2 DEF Freed
    <3>4. Freed = {xmit.skb} BY <3>3
    <3>5. Freed' = {} BY <3>1 DEF Freed, FrameOf
    <3> QED BY <3>4, <3>5
  <2>7. Slots = Filled \ Freed /\ Slots' = Filled' \ Freed'
    BY SlotsAreFilled DEF Slots, Filled, Freed
  <2>8. UNCHANGED Slots BY <2>5, <2>6, <2>7
  <2> QED BY <2>4, <2>8 DEF promised
<1>6. CASE LoopBackEchoSkb
  <2>0. At(callback, "took") /\ UNCHANGED xmit BY <1>6 DEF LoopBackEchoSkb
  <2>1. g \in Found BY <2>0 DEF At, Found, FrameOf
  <2>2. echo_skb[callback.id] = callback.skb /\ callback.skb \in Skbs /\ callback.id \in Ids
        /\ callback.skb \in Filled
    BY <2>1, SlotIsUnique
  <2>3. callback.skb # NoSkb /\ callback.skb \in wire BY <2>1, <2>2 DEF Skbs, NoSkb, OnTheBus
  <2>4. callback.seen = callback.skb
    BY <2>0, <2>2 DEF SettledInv, Apart, At
  <2>5. echo_skb' = [echo_skb EXCEPT ![callback.id] = NoSkb]
        /\ echoed' = echoed \cup {callback.skb} /\ UNCHANGED <<wire, dropped>>
    BY <1>6, <2>4 DEF LoopBackEchoSkb
  <2>6. Filled' = Filled \ {callback.skb}
    BY <1>0, <2>2, <2>3, <2>5, SlotEmptied
  <2>7. Slots = Filled \ Freed /\ Slots' = Filled' \ Freed' /\ UNCHANGED Freed
    BY <2>0, SlotsAreFilled DEF Slots, Filled, Freed
  <2>8. callback.skb \notin Freed
    <3> SUFFICES ASSUME callback.skb \in Freed PROVE FALSE OBVIOUS
    <3>1. xmit.pc = "killed" /\ callback.skb = xmit.skb BY DEF Freed, FrameOf
    <3>2. f \in Sending BY <3>1 DEF Sending, FrameOf
    <3>3. echo_skb[xmit.id] = xmit.skb /\ xmit.id \in Ids BY <3>2, SlotIsUnique
    <3>4. callback.id = xmit.id
      BY <2>1, <3>1, <3>3, SlotIsUnique
    <3>5. HandlesEcho(xmit.id) /\ GivesUp(xmit.id)
      BY <2>0, <3>1, <3>4 DEF HandlesEcho, GivesUp, At
    <3> QED BY <3>3, <3>5 DEF SettledInv, Apart
  <2>9. Slots' = Slots \ {callback.skb} /\ callback.skb \in Slots
    BY <2>2, <2>6, <2>7, <2>8
  <2> QED BY <2>2, <2>3, <2>5, <2>9, LoopsBack
<1>7. CASE Transmit
  <2>1. PICK h \in device : wire' = wire \cup {h.skb} BY <1>7 DEF Transmit
  <2>2. UNCHANGED <<echo_skb, xmit, echoed, dropped>> BY <1>7 DEF Transmit, driver
  <2>3. UNCHANGED Slots BY <2>2, <1>a
  <2>4. h.skb \in Filled /\ h.skb \in Skbs /\ h \in Submitted /\ echo_skb[h.id] = h.skb
    BY <2>1, SlotIsUnique DEF Submitted
  <2>5. h.skb \notin wire BY <2>1 DEF OnTheBus
  <2>6. h.skb \in Slots
    <3>1. h.skb \notin Freed
      <4> SUFFICES ASSUME h.skb \in Freed PROVE FALSE OBVIOUS
      <4>1. xmit.pc = "killed" /\ h.skb = xmit.skb BY DEF Freed, FrameOf
      <4>2. f \in Sending /\ f.id = xmit.id /\ f.skb = xmit.skb BY <4>1 DEF Sending, FrameOf
      <4>3. echo_skb[xmit.id] = xmit.skb /\ xmit.id \in Ids BY <4>2, SlotIsUnique
      <4>4. h.id = f.id BY <2>4, <4>1, <4>2, <4>3, SlotIsUnique
      <4> HIDE DEF f
      <4>5. h = f BY <2>4, <4>2, <4>4 DEF IInv, ContextOwned, Users
      <4> QED BY <2>4, <4>2, <4>5 DEF IInv, ContextOwned, OnePlace
    <3> QED BY <2>4, <3>1, SlotsAreFilled
  <2>7. Service!Transmit(h.skb)
    BY <2>1, <2>2, <2>3, <2>5, <2>6 DEF Service!Transmit
  <2> QED BY <2>4, <2>7 DEF Service!Next
<1>8. CASE Close
  <2>1. echo_skb' = [i \in Ids |-> NoSkb] /\ dropped' = dropped \cup Filled
        /\ xmit = Idle /\ UNCHANGED <<xmit, wire, echoed>>
    BY <1>8 DEF Close, Filled
  <2>2. Slots = Filled /\ Slots' = Filled' BY <2>1, NothingFreed DEF Idle
  <2>3. Filled' = {} BY <2>1 DEF Filled
  <2>4. Slots \in SUBSET Slots /\ Slots' = Slots \ Slots BY <2>2, <2>3
  <2> QED BY <2>1, <2>2, <2>4, GivesUpSlots
<1>9. CASE AllocTxContext \/ IncActive \/ SubmitTxUrb \/ SubmitFails
           \/ GiveBackTxContext \/ EndFailedXmit \/ ReadActive \/ StopQueue
  <2>1. UNCHANGED <<echo_skb, wire, echoed, dropped>>
    BY <1>9 DEF AllocTxContext, IncActive, SubmitTxUrb, SubmitFails, GiveBackTxContext,
                EndFailedXmit, ReadActive, StopQueue, driver, fates
  <2>2. xmit.pc # "killed" /\ xmit'.pc # "killed"
    BY <1>9, <1>0 DEF AllocTxContext, XmitMayStart, IncActive, SubmitTxUrb, SubmitFails,
                GiveBackTxContext, EndFailedXmit, ReadActive, StopQueue, At, Goto, Idle
  <2> QED BY <2>1, <2>2, <1>b DEF promised
<1>10. CASE UNCHANGED <<echo_skb, xmit, wire, echoed, dropped>>
  BY <1>10, <1>a DEF promised
<1> QED
  BY <1>1, <1>2, <1>3, <1>4, <1>5, <1>6, <1>7, <1>8, <1>9, <1>10
     DEF Next, XmitStart, XmitContinue, CallbackStep, TxBusy, ReceiveEcho, IgnoreEcho,
         LogUnusedEchoId, ReadEchoSkb, StampEchoSkb, TakeEchoSkb, FreeTxContext, DecActive,
         WakeQueue, LoseRxUrb, Detach, TxUrbDone, TxUrbFails, CloseBegin, Open, vars,
         driver, fates

\* The channel holds at most MaxTxUrbs frames, loops each back once and only after it
\* was on the bus, and frees every other one and never sends it again.
THEOREM ServiceKept == ASSUME ResetForgets PROVE Spec => ImplementsTxService
<1>1. Init => Service!Init
  <2> SUFFICES ASSUME Init PROVE Service!Init
    OBVIOUS
  <2>1. echo_skb = [i \in Ids |-> NoSkb] BY DEF Init
  <2>2. Filled = {} BY <2>1 DEF Filled
  <2>3. Slots = {} BY <2>2, SlotsAreFilled
  <2> QED BY <2>3 DEF Init, Service!Init
<1>2. Init => OnTheBus
  BY DEF Init, OnTheBus, Idle, NoEcho, Allocated, Sending, Found, FrameOf, Held
<1>3. IInv /\ SettledInv /\ GoodDeviceNotBlamed /\ OnTheBus /\ [Next]_vars => OnTheBus'
  BY OnTheBusStep DEF GoodDeviceNotBlamed
<1>4. IInv /\ SettledInv /\ GoodDeviceNotBlamed /\ OnTheBus /\ [Next]_vars
        => Service!Next \/ UNCHANGED promised
  BY ServiceStep DEF GoodDeviceNotBlamed
<1>5. Service!Next \/ UNCHANGED promised => [Service!Next]_<<Slots, wire, echoed, dropped>>
  BY DEF promised
<1>6. Spec => []SettledInv
  BY SettledAlways
<1>7. Spec => []IInv BY InductiveInvariant
<1>8. Spec => []GoodDeviceNotBlamed BY NoBlame
<1> QED BY <1>1, <1>2, <1>3, <1>4, <1>5, <1>6, <1>7, <1>8, PTL
        DEF Spec, ImplementsTxService, Service!Spec
=============================================================================
