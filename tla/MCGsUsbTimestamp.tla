-------------------------- MODULE MCGsUsbTimestamp --------------------------
(***************************************************************************)
(* A counter of 8 ticks that wraps two or three times.                       *)
(***************************************************************************)
EXTENDS GsUsbTimestamp
=============================================================================
