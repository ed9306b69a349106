\* Nothing fails, nobody closes: only start_xmit and the callback interleave.
SPECIFICATION Spec
CONSTANTS
    MaxTxUrbs    = 2
    NSkbs        = 3
    NReopens     = 0
    ResetForgets = TRUE
    UrbsFail     = FALSE
    MayVanish    = FALSE
INVARIANT
    StoppedQueueWillBeWoken
\* a closed interface with nothing left to send rests
CHECK_DEADLOCK FALSE
