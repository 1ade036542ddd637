SPECIFICATION LifecycleFairSpec
CONSTANTS
    c1 = c1
    c2 = c2
    conn = conn
    None = None
    Clients <- MCClients
    Conns = {conn}
    ConnOf <- MCConnOf
    Sessions = {s1, s2}
    RecordLimit = 1
    OwnerCap = 1
    MaxRevisions = 2
INVARIANTS OneOutcome
PROPERTIES RevisionSettles
CHECK_DEADLOCK FALSE
