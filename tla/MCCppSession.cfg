\* Two bus objects on two channels, and one whose constructor throws.
SPECIFICATION Spec
CONSTANTS
    b1 = b1
    b2 = b2
    b3 = b3
    c1 = c1
    c2 = c2
    NoBus      = NoBus
    Buses      = {b1, b2, b3}
    Channels   = {c1, c2}
    ChannelOf <- OwnChannelOf
    FdBuses    = {b2}
    BadBuses   = {b3}
    MaxFrames <- FramesPerChannel
INVARIANTS
    TypeOK
    LiveBusIsServed
    InterfaceGivenBack
    ChannelIsMine
    NoFrameLostOrDoubled
\* every bus object was shut down
CHECK_DEADLOCK FALSE
