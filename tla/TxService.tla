----------------------------- MODULE TxService -----------------------------
(***************************************************************************)
(* What a CAN network interface promises for the frames it is given: it    *)
(* holds at most Window of them; it loops a frame back to the local        *)
(* sockets only after the frame was on the bus, and once; and a frame it   *)
(* neither holds nor looped back was freed, and is never sent again.       *)
(***************************************************************************)
EXTENDS Naturals, FiniteSets

CONSTANTS Skbs, Window

VARIABLES
    held,      \* frames accepted and not yet settled
    wire,      \* frames that were on the bus
    echoed,    \* frames looped back
    dropped    \* frames freed

Fresh(s) == s \notin held \cup wire \cup echoed \cup dropped

Init == held = {} /\ wire = {} /\ echoed = {} /\ dropped = {}

Accept(s) ==
    /\ Fresh(s) /\ Cardinality(held) < Window
    /\ held' = held \cup {s}
    /\ UNCHANGED <<wire, echoed, dropped>>

Refuse(s) ==
    /\ Fresh(s)
    /\ dropped' = dropped \cup {s}
    /\ UNCHANGED <<held, wire, echoed>>

Transmit(s) ==
    /\ s \in held \ wire
    /\ wire' = wire \cup {s}
    /\ UNCHANGED <<held, echoed, dropped>>

LoopBack(s) ==
    /\ s \in held \cap wire
    /\ held' = held \ {s}
    /\ echoed' = echoed \cup {s}
    /\ UNCHANGED <<wire, dropped>>

\* A failed submission gives up one frame, closing the interface all of them.
GiveUp(S) ==
    /\ S \subseteq held
    /\ held' = held \ S
    /\ dropped' = dropped \cup S
    /\ UNCHANGED <<wire, echoed>>

Next == \/ \E s \in Skbs : Accept(s) \/ Refuse(s) \/ Transmit(s) \/ LoopBack(s)
        \/ \E S \in SUBSET held : GiveUp(S)

Spec == Init /\ [][Next]_<<held, wire, echoed, dropped>>
=============================================================================
