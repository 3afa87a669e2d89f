SPECIFICATION FairSpec
CONSTANTS
    e1 = e1
    e2 = e2
    Elem = {e1}
    Model = {1}
    MaxFrames = 2
    MaxRois = 1
    inference_interval = 1
    no_block = FALSE
    inference_region <- ListOnly
    batch_size = 1
    UintMax = 3
    MayFail = TRUE
    MayThrow = FALSE
    NULL = NULL
INVARIANTS AllPushedAtEos
\* A stopped element takes no more steps.
CHECK_DEADLOCK FALSE
