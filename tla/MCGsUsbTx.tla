----------------------------- MODULE MCGsUsbTx -----------------------------
(***************************************************************************)
(* The transmit path with two contexts: the queue fills, one is reused,    *)
(* and one is taken while the other is being freed.                        *)
(***************************************************************************)
EXTENDS GsUsbTx
=============================================================================
