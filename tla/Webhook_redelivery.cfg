\* A label event redelivered after its Job was collected.
SPECIFICATION WebhookFairSpec
CONSTANTS
    q1 = q1
    q2 = q2
    q3 = q3
    q4 = q4
    e1 = e1
    e2 = e2
    e3 = e3
    Fold <- TheFold
    Words <- TheWords
    Numbers = {"5"}
    MaxSlug = 4
    Runs = {q1, q2}
    Issues <- TwiceIssues
    IssueOf <- TwiceNames
    Events = {e1}
    EventOf <- TwiceEvents
    Text <- TwiceTexts
    Commands = {}
    PayloadsOf <- TwicePayloads
    MaxKills = 0
PROPERTIES
    RedeliveryIsIdempotent
CHECK_DEADLOCK FALSE
