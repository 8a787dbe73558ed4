SPECIFICATION Spec
CONSTANTS
    i1 = i1
    i2 = i2
    i3 = i3
    s1 = s1
    s2 = s2
    c1 = c1
    c2 = c2
    IDs = {i1, i2, i3}
    Secrets = {s1}
    Certs = {c1}
    Configs <- EndpointConfigs
    CachedSessions <- MCCached
    Bad = Bad
    NoID = NoID
    NoCert = NoCert
    NoKeys = NoKeys
    NoSession = NoSession
    MaxRepeat = 2
    MaxStarts = 1
    MaxWrites = 1
INVARIANTS
    TypeOK
    ResumptionAgreed
    ServerAuthReported
    ClientAuthenticated
SYMMETRY IDSymmetry
CHECK_DEADLOCK FALSE
