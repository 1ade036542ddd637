SPECIFICATION FairSpec
CONSTANTS
    p1 = p1
    p2 = p2
    repo = repo
    Prep <- MCTwoPreps
    Repo <- MCRepo
    RepoOf <- MCRepoOf
    ActiveCap = 1
    QueuedCap = 1
    RepoCap = 1
    DiskCap = 0
    EventCap = 2
    Commands <- MCCommands
    SaveFails = {p2}
    MaxRevision = 5
INVARIANTS WorkersAreCounted SessionHasClone
PROPERTIES EvidenceIsCurrent AcceptedCloneIsOwn InFlightSettles
