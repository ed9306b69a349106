----------------------------- MODULE MCGsUsbCan -----------------------------
(***************************************************************************)
(* Four kinds of firmware: a classic one that is too old to identify       *)
(* itself, candleLight with CAN FD and stamps, and CANtact Pro before and  *)
(* after its USB and data bit timing were put right.                       *)
(***************************************************************************)
EXTENDS GsUsbCan

Classic   == [feature |-> {"LOOP_BACK", "IDENTIFY", "TERMINATION"}, sw_version |-> 1,
              cantact |-> FALSE, termination |-> FALSE]
Candle    == [feature |-> {"HW_TIMESTAMP", "FD", "BT_CONST_EXT", "IDENTIFY", "TERMINATION",
                           "BERR_REPORTING", "GET_STATE"},
              sw_version |-> 2, cantact |-> FALSE, termination |-> TRUE]
OldPro    == [feature |-> {"FD", "IDENTIFY"}, sw_version |-> 2, cantact |-> TRUE,
              termination |-> FALSE]
NewPro    == [OldPro EXCEPT !.sw_version = 3]

MCDevices   == {Classic, Candle, OldPro, NewPro}
MCRefusing  == MCDevices \ {Candle}
MCKernels   == {"5.15", "6.14"}
MCLinkModes == {{"LOOP_BACK"}, {"FD"}}
MCFrames    == [d \in MCDevices |-> CASE d = Candle -> 3 [] d = OldPro -> 2 [] OTHER -> 1]
MCOthers    == BOOLEAN
=============================================================================
