\* Two bus objects on two channels, with a fair scheduler.
SPECIFICATION FairSpec
CONSTANTS
    b1 = b1
    b2 = b2
    b3 = b3
    c1 = c1
    c2 = c2
    NoBus        = NoBus
    Buses        = {b1, b2}
    Channels     = {c1, c2}
    ChannelOf   <- OwnChannelOf
    FdBuses      = {b2}
    ShutdownOnce = TRUE
    MaxFrames   <- ThreeFrames
INVARIANTS
    ChannelIsMine
    FramesInOrder
PROPERTIES
    EveryFrameIsDelivered
    ShutdownEnds
\* every bus object was shut down
CHECK_DEADLOCK FALSE
