SPECIFICATION FairSpec
CONSTANTS
    root = root
    child = child
    r1 = r1
    r2 = r2
    r3 = r3
    a1 = a1
    q1 = q1
    Root = root
    Frame <- MCFrame
    Request <- MCRequest
    ThreadOf <- MCThreadOf
    Item <- MCItem
    ItemOf <- MCItemOf
    Questions <- MCQuestion
    EventCap = 2
INVARIANTS
    AnswerIsRecorded
PROPERTIES
    HeldIsTracked
    ReapAnswersApproval
    RequestIsAnswered
CHECK_DEADLOCK FALSE
