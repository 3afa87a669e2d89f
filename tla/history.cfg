SPECIFICATION Spec
CONSTANTS
    Object = {a, b, c}
    Untracked = Untracked
    CLASSIFICATION_HISTORY_SIZE = 2
    inference_interval = 1
    reclassify_interval = 2
    MaxFrames = 3
    MaxRegions = 2
    NULL = NULL
SYMMETRY Symmetry
INVARIANTS TypeOK AlwaysLabelled LabelFresh ReclassifyInterval NoFutureMark
PROPERTIES LabelsAdvance
\* The stream is over.
CHECK_DEADLOCK FALSE
