SPECIFICATION FairSpec
CONSTANTS
    p1 = p1
    p2 = p2
    k1 = k1
    k2 = k2
    r1 = r1
    r2 = r2
    NoRef = NoRef
    NoProc = NoProc
    Proc <- MCProc
    Key <- MCKey
    Ref <- MCRef
    Damaged <- MCDamaged
    SecretsFirst = TRUE
    MaxRevision = 2
    MaxFaults = 2
INVARIANTS TypeOK PublishedResolvable NoUntrackedSecret
PROPERTIES DeletesOnlyUnpublished MissingMeansOvertaken StoreRecovers
