---------------------------- MODULE MCCppSession ----------------------------
(* Instances of CppSession: two bus objects on two channels, and one with a  *)
(* channel that does not exist.                                               *)
EXTENDS CppSession, TLC
CONSTANTS b1, b2, b3, c1, c2

OwnChannelOf == b1 :> c1 @@ b2 :> c2 @@ b3 :> c1

FramesPerChannel == c1 :> 2 @@ c2 :> 1
=============================================================================
