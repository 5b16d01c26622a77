\* A Job may be deleted before its ending was reported.
SPECIFICATION Spec
CONSTANTS
    r1 = r1
    r2 = r2
    i1 = i1
    Runs = {r1, r2}
    Issues = {i1}
    IssueOf <- OneIssue
    NoRun = NoRun
    PageSize = 1
    LatePost = FALSE
    MaxQueue = 1
    MaxFaults = 2
    MaxNoise = 0
SYMMETRY RunSymmetry
INVARIANTS
    CollectedWasReported
CHECK_DEADLOCK FALSE
