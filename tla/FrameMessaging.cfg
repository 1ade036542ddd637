SPECIFICATION Spec
CONSTANTS
    MaxFrames = 2
    MaxMessages = 2
    MaxReplies = 2
    MaxFaults = 2
INVARIANTS
    AcceptedSurvives
    RefusedLeavesNoTrace
    MessagesInOrder
    SummaryIsCurrent
PROPERTIES
    AnswerIsFinal
CHECK_DEADLOCK FALSE
