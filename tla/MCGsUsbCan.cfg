\* Three frames and one reopening; a queue that holds two frames is full.
SPECIFICATION Spec
CONSTANTS
    Devices    <- MCDevices
    Kernels    <- MCKernels
    Refusing   <- MCRefusing
    LinkModes  <- MCLinkModes
    OthersOpen <- MCOthers
    MaxFrames  <- MCFrames
    MaxOpens   = 2
    QueueMax   = 1
INVARIANTS
    TypeOK
    StateAgrees
    StoppedWhenClosed
    FramesInOrder
    NothingStranded
    AnnouncedOnly
