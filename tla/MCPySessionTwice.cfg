\* The application calls shutdown twice on a bus object.
SPECIFICATION Spec
CONSTANTS
    b1 = b1
    b2 = b2
    b3 = b3
    c1 = c1
    c2 = c2
    NoBus        = NoBus
    Buses        = {b1, b2}
    Channels     = {c1, c2}
    ChannelOf   <- OwnChannelOf
    FdBuses      = {b2}
    ShutdownOnce = FALSE
    MaxFrames   <- OneFrameEach
INVARIANT
    LiveBusIsServed
CHECK_DEADLOCK FALSE
