\* A run whose agents do anything, and another that takes the branch from it or not.
SPECIFICATION Spec
CONSTANTS
    a = a
    b = b
    Runs = {a, b}
    NoRun = NoRun
    Agents <- OneOfEach
INVARIANTS
    PlanInv
    SuccessIsPushed
    WorkIsPushed
    CompletedIsReviewed
    ChannelsAgree
CHECK_DEADLOCK FALSE
