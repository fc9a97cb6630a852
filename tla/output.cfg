SPECIFICATION Spec
CONSTANTS
    Writer = {w1, w2, w3}
    Mixes = {{"refuse", "file_replace", "catalog"}, {"refuse", "replace", "secret"}, {"catalog", "secret"}}
    Filesystems = {"noreplace", "hardlink", "neither"}
    Nothing = Nothing
    Old = Old
    Directory = Directory
    SameClock = TRUE
    MaxAttempts = 2
    Chunks = 1
    MaxLosses = 1
SYMMETRY Symmetry
CHECK_DEADLOCK FALSE
INVARIANTS WholeOrNothing
PROPERTIES NothingIsLost
