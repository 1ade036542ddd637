SPECIFICATION FairSpec
CONSTANTS
    i1 = i1
    i2 = i2
    s1 = s1
    s2 = s2
    s3 = s3
    Issue <- MCTwoIssues
    Rank <- MCRankTwo
    Session <- MCTwoSessions
    State <- MCState
    Active = {"todo", "doing"}
    Terminal = {"done"}
    Todo = "todo"
    StateCap <- MCNoStateCap
    Limits = {2}
    Validity = {TRUE}
    StallDetection = TRUE
    DoneCap = 1
    MaxAttempt = 0
PROPERTIES ClaimedRetryIsTried LostExitIsRecovered
