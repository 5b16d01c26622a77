\* Every ending is told: two runs of one issue, two crashes or failing calls.
SPECIFICATION FairSpec
CONSTANTS
    r1 = r1
    r2 = r2
    i1 = i1
    Runs = {r1, r2}
    Issues = {i1}
    IssueOf <- OneIssue
    NoRun = NoRun
    PageSize = 1
    LatePost = FALSE
    MaxQueue = 2
    MaxFaults = 2
    MaxNoise = 0
PROPERTIES
    KeepsPromise
CHECK_DEADLOCK FALSE
