SPECIFICATION Spec
CONSTANTS
    Object = {a, b, c}
    Untracked = Untracked
    CLASSIFICATION_HISTORY_SIZE = 2
    inference_interval = 2
    reclassify_interval = 2
    MaxFrames = 3
    MaxRegions = 2
    NULL = NULL
SYMMETRY Symmetry
INVARIANTS AlwaysLabelled
\* The stream is over.
CHECK_DEADLOCK FALSE
