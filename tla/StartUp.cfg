CONSTANTS
  Procs <- MCProcs
  Jobs <- MCJobs
  Pages = {"page"}
  Yamls <- MCYamls
  Exports <- MCExports
  DotEnvs <- MCDotEnvs
  Lower <- MCLower
  Registry = {"local", "s3", "awsdocs_git"}
  Refers <- MCRefers
  Indexes <- MCIndexes
  OldIndexes <- MCOldIndexes
  Dimension <- MCDimension
  Tagged <- MCTagged
  MaxBreaks = 1
  MaxRounds = 4
SPECIFICATION FairSpec
INVARIANTS RoundsOfFixes KeysSuffice VectorsFitIndex
PROPERTY EveryoneServed
CHECK_DEADLOCK FALSE
