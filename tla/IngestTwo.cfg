SPECIFICATION Spec
CONSTANTS
  long = long
  mid = mid
  short = short
  empty = empty
  NoFile = NoFile
  Workers = {1, 2}
  NumPaths = 2
  Contents = {long, mid, short}
  Chunks <- MCChunks
  Versions <- MCDistinct
  BatchSize = 1
  TopK = 12
  MaxCopies = 2
  EditsDuringRun = FALSE
  Faults = {}
INVARIANT NoOrphanedPart
