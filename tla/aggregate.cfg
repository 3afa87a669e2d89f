SPECIFICATION FairSpec
CONSTANTS
    Pad = {1, 2}
    MaxFrames = 3
    MaxQueue = 2
    MaxTimeouts = 1
    MaxReconfigure = 1
INVARIANTS TypeOK FramesMerged
PROPERTIES EosForwarded
\* The stream ends.
CHECK_DEADLOCK FALSE
