SPECIFICATION FairSpec
CONSTANTS
    MaxSessions = 2
    MaxFrames = 2
    Recoverable = {1}
    EventCap = 1
    MruCap = 2
    MaxSaveFailures = 1
    MaxStops = 1
INVARIANTS
    ReleasedFramesHoldNothing
    RequestIsTracked
    LiveIsDurable
    StoppedNeverReturns
PROPERTIES
    ExitedFrameIsEvicted
    KeepsLedger
CHECK_DEADLOCK FALSE
