SPECIFICATION Spec
CONSTANTS
    Device = {d1, d2}
    Contact = {c1}
    Alias = {a1}
    NoAlias = NoAlias
    ExpiresAt = 4
    Expires <- MCExpires
    MaxTime = 4
    Retention = 1
    ServiceDevice = {d2}
    MaxOps = 3
    MaxFaults = 1
CHECK_DEADLOCK FALSE
INVARIANTS TypeOK SettledMeansAgreed
PROPERTIES ImplementsRegister AliasKept
