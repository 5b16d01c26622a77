\* Two connections, of one run or of two: CONNECTs to hosts that are due a credential or
\* not, and model calls, under every configuration that boots.
SPECIFICATION PortSpec
CONSTANTS
    r1 = r1
    r2 = r2
    c1 = c1
    c2 = c2
    Names <- AllNames
    SANs <- TheSANs
    Credentials <- TheCredentials
    Runs = {r1, r2}
    NoRun = NoRun
    Conns = {c1, c2}
    NoConn = NoConn
    Asked <- TheAsked
    Carried <- TheCarried
    TTL = 3
    Skew = 1
    MaxTime = 2
    Paths <- ThePaths
    Locations = {"global", "eu", "us-east5", "locations"}
    ModelCalls = {"m:rawPredict"}
SYMMETRY ConnSymmetry
INVARIANTS
    PortInv
    ModelCallIsDue
    CredentialIsDue
    NoSentinelUpstream
    TunnelIsDueNothing
    TokenOutlivesRequest
    NobodyParked
PROPERTIES
    MintedOnce
CHECK_DEADLOCK FALSE
