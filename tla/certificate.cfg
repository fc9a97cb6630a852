SPECIFICATION FairSpec
CONSTANTS
    p1 = p1
    p2 = p2
    k1 = k1
    k2 = k2
    c1 = c1
    c2 = c2
    o1 = o1
    o2 = o2
    o3 = o3
    o4 = o4
    NoKey = NoKey
    NoCert = NoCert
    NoOp = NoOp
    Proc <- MCProc
    Key <- MCKey
    Cert <- MCCert
    OpId <- MCOpId
    Scenarios <- MCScenarios
INVARIANTS InventoryIsTrue BlockedHasOperation
PROPERTIES CertificatesSettle
