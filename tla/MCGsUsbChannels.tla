-------------------------- MODULE MCGsUsbChannels --------------------------
(***************************************************************************)
(* Two or three channels share two RX URBs.                                *)
(***************************************************************************)
EXTENDS GsUsbChannels

AllChannels  == Channels
=============================================================================
