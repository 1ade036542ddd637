SPECIFICATION Spec
CONSTANTS
    Frames = {f1, f2}
    Keys = {k1}
    NoFrame = NoFrame
    NoKey = NoKey
    SubBuffer = 1
    RelayCap = 1
    LaneCap = 1
    MaxSubs = 2
    MaxChunks = 1
    MaxMoves = 1
    MaxFull = 1
INVARIANTS
    EventLoopNeverBlocks
CHECK_DEADLOCK FALSE
SYMMETRY Symmetry
