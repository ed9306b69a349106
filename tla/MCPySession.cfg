\* Three bus objects, two of them on one channel.
SPECIFICATION Spec
CONSTANTS
    b1 = b1
    b2 = b2
    b3 = b3
    c1 = c1
    c2 = c2
    NoBus        = NoBus
    Buses        = {b1, b2, b3}
    Channels     = {c1, c2}
    ChannelOf   <- SharedChannelOf
    FdBuses      = {}
    ShutdownOnce = TRUE
    MaxFrames   <- OneFrame
SYMMETRY Interchangeable
INVARIANTS
    TypeOK
    LiveBusIsServed
    RegistryMatchesClaim
PROPERTY
    ImplementsSharedSession
\* every bus object was shut down
CHECK_DEADLOCK FALSE
