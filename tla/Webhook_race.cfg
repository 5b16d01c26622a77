\* One issue delivered and typed in two spellings, its lookalike and a comma typed; one kill.
SPECIFICATION WebhookSpec
CONSTANTS
    q1 = q1
    q2 = q2
    q3 = q3
    q4 = q4
    e1 = e1
    e2 = e2
    e3 = e3
    Fold <- TheFold
    Words <- TheWords
    Numbers = {"5"}
    MaxSlug = 4
    Runs = {q1, q2, q3, q4}
    Issues <- RaceIssues
    IssueOf <- RaceNames
    Events = {e1, e2, e3}
    EventOf <- RaceEvents
    Text <- RaceTexts
    Commands = {q2, q3, q4}
    PayloadsOf <- RacePayloads
    MaxKills = 1
INVARIANTS
    WebhookInv
    AcceptedHasRun
    OneJobPerIssue
    AuthenticatesAsItself
CHECK_DEADLOCK FALSE
