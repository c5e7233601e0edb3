SPECIFICATION Spec
CONSTANTS
  long = long
  mid = mid
  short = short
  empty = empty
  NoFile = NoFile
  Workers = {1, 2}
  NumPaths = 1
  Contents = {long}
  Chunks <- MCChunks
  Versions <- MCDistinct
  BatchSize = 2
  TopK = 10
  MaxCopies = 2
  EditsDuringRun = FALSE
  Faults = {"abort"}
INVARIANT QuietCompleteMeansWhole
