\* All channels have hardware timestamps; every step of an open may fail.
SPECIFICATION FairSpec
CONSTANTS
    NChannels   = 3
    TsChannels <- AllChannels
    MaxRxUrbs   = 2
    OpenMayFail = TRUE
    MaxOpens    = 4
    MaxLosses   = 2
INVARIANTS
    TypeOK
    ActiveChannelsExact
    ReceptionGoesOn
    WorkerWhileOpen
    NothingOutlivesParent
PROPERTY
    DestructionEnds
\* after the last open, or once the device is gone, nothing need happen
CHECK_DEADLOCK FALSE
