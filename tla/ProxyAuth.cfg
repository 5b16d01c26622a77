\* Two runs share one address, one after the other.
SPECIFICATION Spec
CONSTANTS
    p1 = p1
    p2 = p2
    x = x
    s1 = s1
    s2 = s2
    Runs = {p1, p2}
    Others = {}
    NoPod = NoPod
    IPs = {x}
    NoIP = NoIP
    Holds <- HandedOn
    Slots = {s1, s2}
    Burst = 1
    MaxReqs = 3
    MaxRefills = 1
SYMMETRY SlotSymmetry
INVARIANTS
    AuthInv
    IdentityIsEarned
    FirstRequestWaits
    FailuresAreBounded
    SettledCacheIsTrue
CHECK_DEADLOCK FALSE
