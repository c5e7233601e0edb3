SPECIFICATION FairSpec
CONSTANTS
  long = long
  mid = mid
  short = short
  empty = empty
  NoFile = NoFile
  Workers = {1}
  NumPaths = 2
  Contents = {long, mid, short, empty}
  Chunks <- MCChunks
  Versions <- MCDistinct
  BatchSize = 2
  TopK = 10
  MaxCopies = 1
  EditsDuringRun = FALSE
  Faults = {"prepare", "write", "rollback", "abort"}
INVARIANT ReportIsTrue
PROPERTY Converges
PROPERTY ImplementsStore
