SPECIFICATION Spec
CONSTANTS
  long = long
  mid = mid
  short = short
  empty = empty
  NoFile = NoFile
  Workers = {1}
  NumPaths = 2
  Contents = {long, short}
  Chunks <- MCChunks
  Versions <- MCShared
  BatchSize = 2
  TopK = 10
  MaxCopies = 1
  EditsDuringRun = TRUE
  Faults = {"prepare", "write", "rollback", "abort"}
INVARIANT CompleteMeansWhole
INVARIANT NoDuplicateChunks
INVARIANT OneVersionPerSource
