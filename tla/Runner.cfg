SPECIFICATION FairSpec
CONSTANTS
    MaxTurns = 3
    TurnTimeouts = {TRUE, FALSE}
INVARIANTS
    AfterRunOnce
    ProcessGoneFirst
    TurnsAreReal
PROPERTIES
    KilledWorkerExits
    AttemptEnds
