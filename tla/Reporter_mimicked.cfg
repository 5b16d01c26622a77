\* Another bot's comment begins with a run's marker.
SPECIFICATION Spec
CONSTANTS
    r1 = r1
    r2 = r2
    i1 = i1
    Runs = {r1, r2}
    Issues = {i1}
    IssueOf <- OneIssue
    NoRun = NoRun
    PageSize = 1
    LatePost = FALSE
    MaxQueue = 1
    MaxFaults = 0
    MaxNoise = 1
SYMMETRY RunSymmetry
INVARIANTS
    OnlyOwnCount
CHECK_DEADLOCK FALSE
