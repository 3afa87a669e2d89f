SPECIFICATION FairSpec
CONSTANTS
    e1 = e1
    e2 = e2
    Elem = {e1, e2}
    Model = {1, 2}
    MaxFrames = 2
    MaxRois = 1
    inference_interval = 2
    no_block = TRUE
    inference_region <- TwoRegions
    batch_size = 2
    UintMax = 3
    MayFail = FALSE
    MayThrow = FALSE
    NULL = NULL
PROPERTIES UsesInterface FlushEnds ImplementsFrameOrder
\* A stopped element takes no more steps.
CHECK_DEADLOCK FALSE
