SPECIFICATION Spec
CONSTANTS
    Path <- MCPath
    Above <- MCAbove
    Key <- MCKey
    Candidate <- MCCandidate
    Filtered = {"f"}
    Outside = Outside
    Cases <- MCCases
    ArchiveSize = 4
CHECK_DEADLOCK FALSE
INVARIANTS TypeOK UserFilesKept WrittenIsKept NoTraversal OrderIsSound StampingCompletes
