\* Two runs of one issue: a crash or a failure, a lost answer, a late POST, others' comments.
SPECIFICATION Spec
CONSTANTS
    r1 = r1
    r2 = r2
    i1 = i1
    Runs = {r1, r2}
    Issues = {i1}
    IssueOf <- OneIssue
    NoRun = NoRun
    PageSize = 1
    LatePost = TRUE
    MaxQueue = 1
    MaxFaults = 1
    MaxNoise = 1
SYMMETRY RunSymmetry
INVARIANTS
    ActiveIsUncommented
    ReportIsOwn
    BlobNotLost
    AtMostOneComment
    DoneIsRecorded
    IInv
CHECK_DEADLOCK FALSE
