SPECIFICATION TokenSpec
CONSTANTS
    i1 = i1
    i2 = i2
    t1 = t1
    t2 = t2
    t3 = t3
    Issue <- MCIssue
    Thread <- MCThread
    MaxTokens = 2
    ActivityCap = 2
SYMMETRY Symmetry
INVARIANT
    NoDoubleCount
PROPERTY
    TotalsNeverDecrease
