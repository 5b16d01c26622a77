\* Two deliveries for one issue, through to the comment, with the process killed once.
SPECIFICATION OrchFairSpec
CONSTANTS
    q1 = q1
    q2 = q2
    q3 = q3
    q4 = q4
    e1 = e1
    e2 = e2
    e3 = e3
    Fold <- TheFold
    Words <- TheWords
    Numbers = {"5"}
    MaxSlug = 4
    Runs = {q1, q2}
    Issues <- PairIssues
    IssueOf <- PairNames
    Events = {e1, e2}
    EventOf <- PairEvents
    Text <- PairTexts
    Commands = {}
    PayloadsOf <- PairPayloads
    MaxKills = 1
INVARIANTS
    OnlyTheTrigger
    AuthenticatesAsItself
PROPERTIES
    AnsweredUnlessKilled
    AcceptedIsTold
CHECK_DEADLOCK FALSE
