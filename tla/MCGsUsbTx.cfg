\* A device that forgets its frames on reset; URBs and the device may fail.
SPECIFICATION FairSpec
CONSTANTS
    MaxTxUrbs    = 2
    NSkbs        = 4
    NReopens     = 1
    ResetForgets = TRUE
    UrbsFail     = TRUE
    MayVanish    = TRUE
INVARIANTS
    TypeOK
    ContextOwned
    EchoFindsItsSkb
    FreeContextFreeSlot
    ActiveTxUrbsExact
    GoodDeviceNotBlamed
PROPERTIES
    ImplementsTxService
    EverySkbSettles
\* a closed interface with nothing left to send rests
CHECK_DEADLOCK FALSE
