\* An open may fail; then the channel is opened again.
SPECIFICATION Spec
CONSTANTS
    NChannels   = 2
    TsChannels <- AllChannels
    MaxRxUrbs   = 2
    OpenMayFail = TRUE
    MaxOpens    = 4
    MaxLosses   = 2
INVARIANT
    RxUrbsLimited
\* after the last open, or once the device is gone, nothing need happen
CHECK_DEADLOCK FALSE
