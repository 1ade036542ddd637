SPECIFICATION Spec
CONSTANTS
    i1 = i1
    i2 = i2
    s1 = s1
    s2 = s2
    s3 = s3
    Issue <- MCTwoIssues
    Rank <- MCRankTwo
    Session <- MCSessions
    State <- MCState
    Active = {"todo", "doing"}
    Terminal = {"done"}
    Todo = "todo"
    StateCap <- MCStateCap
    Limits = {1, 2}
    Validity = {TRUE, FALSE}
    StallDetection = TRUE
    DoneCap = 3
    MaxAttempt = 0
SYMMETRY Symmetry
INVARIANTS OneWorkerPerIssue
