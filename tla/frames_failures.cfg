SPECIFICATION Spec
CONSTANTS
    e1 = e1
    e2 = e2
    Elem = {e1, e2}
    Model = {1}
    MaxFrames = 2
    MaxRois = 2
    inference_interval = 2
    no_block = FALSE
    inference_region <- ListOnly
    batch_size = 2
    UintMax = 3
    MayFail = TRUE
    MayThrow = TRUE
    NULL = NULL
INVARIANTS TypeOK FrameOfImageQueued FramesInOrder CountExact IntervalKept
\* A stopped element takes no more steps.
CHECK_DEADLOCK FALSE
