\* Renewals between the boot, the decision and the handshake of two connections.
SPECIFICATION TLSSpec
CONSTANTS
    c1 = c1
    c2 = c2
    github = github
    other = other
    Conns = {c1, c2}
    Main = Main
    NoCaller = NoCaller
    Hosts = {github, other}
    Credentialed = {github}
    NamedBy <- Certificates
    Missing <- MissingGens
    Broken <- BrokenGens
    MaxGen = 8
    MaxBoots = 2
SYMMETRY ConnSymmetry
INVARIANTS
    NeverStuck
    FreshAnswer
    DecidedIsPresented
    CredentialedIsIntercepted
    TLSInv
CHECK_DEADLOCK FALSE
