SPECIFICATION CreateSpec
CONSTANTS
  p1 = p1
  p2 = p2
  Paths <- MCPaths
  Kinds = {"create"}
  RecentLimit = 1
  ByteStep = 2
  EntryStep = 2
  Interval = 1
  ArchiveBytes = {1, 3}
  Entries = 2
  MaxBytes = 2
  MaxTime = 1
  Formats = {"zip"}
  BareNames = {TRUE}
  Archives <- MCArchives
  DirectoriesAt = {3}
  Counts = {1}
  VolumeSize = 4
  SignatureSize = 1
  ThreeDigits = 2
  MaxVolumes = 3
  MaxIntrusions = 1
INVARIANT ReadsBack
CHECK_DEADLOCK FALSE
