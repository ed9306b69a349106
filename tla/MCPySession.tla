---------------------------- MODULE MCPySession ----------------------------
(* Instances of PySession: three bus objects, two of them on one channel    *)
(* (Shared), or each on its own (Own).                                       *)
EXTENDS PySession, TLC
CONSTANTS b1, b2, b3, c1, c2

SharedChannelOf == b1 :> c1 @@ b2 :> c1 @@ b3 :> c2
OwnChannelOf    == b1 :> c1 @@ b2 :> c2

OneFrame     == c1 :> 1 @@ c2 :> 0
OneFrameEach == c1 :> 1 @@ c2 :> 1
ThreeFrames  == c1 :> 2 @@ c2 :> 1

\* Two bus objects on one channel can be exchanged.
Interchangeable == Permutations({b1, b2})
=============================================================================
