\* A device that still echoes the frames it held when it was reset.
SPECIFICATION Spec
CONSTANTS
    MaxTxUrbs    = 2
    NSkbs        = 4
    NReopens     = 1
    ResetForgets = FALSE
    UrbsFail     = TRUE
    MayVanish    = TRUE
INVARIANT
    SettledOnce
\* a closed interface with nothing left to send rests
CHECK_DEADLOCK FALSE
