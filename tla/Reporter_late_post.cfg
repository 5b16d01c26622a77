\* A POST whose sender died or gave up is executed later.
SPECIFICATION Spec
CONSTANTS
    r1 = r1
    r2 = r2
    i1 = i1
    Runs = {r1, r2}
    Issues = {i1}
    IssueOf <- OneIssue
    NoRun = NoRun
    PageSize = 1
    LatePost = TRUE
    MaxQueue = 1
    MaxFaults = 1
    MaxNoise = 0
SYMMETRY RunSymmetry
INVARIANTS
    FoundEitherWay
CHECK_DEADLOCK FALSE
