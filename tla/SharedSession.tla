--------------------------- MODULE SharedSession ---------------------------
(***************************************************************************)
(* What the SDKs' shared USB session promises the bus objects of a         *)
(* process: the interface of the adapter is claimed as long as somebody    *)
(* uses it, and given back only when nobody does.                          *)
(***************************************************************************)
CONSTANT Buses

VARIABLES
    users,     \* bus objects that were attached and not detached since
    claimed    \* the process holds the interface

Init == users = {} /\ claimed = FALSE

Attach(b) ==
    /\ b \notin users
    /\ users' = users \cup {b}
    /\ claimed' = TRUE

Detach(b) ==
    /\ b \in users
    /\ users' = users \ {b}
    /\ UNCHANGED claimed

Release ==
    /\ claimed /\ users = {}
    /\ claimed' = FALSE
    /\ UNCHANGED users

Next == (\E b \in Buses : Attach(b) \/ Detach(b)) \/ Release

Spec == Init /\ [][Next]_<<users, claimed>>
=============================================================================
