SPECIFICATION Spec
CONSTANTS
  MaxDocs = 4
  Scores <- MCScores
  Null = Null
  Settings <- MCSettings
  Corpora <- MCCorpora
  Length <- MCLength
  HeaderLength <- MCHeaderLength
  MaxBudget = 40
  Trailing <- MCTrailing
  Separator = 1
  Marker = 1
  MinChunk = 2
  MinFetch = 20
  File <- MCFile
  Replies <- MCReplies
  MaxAttempts = 2
INVARIANTS
  TypeOK
  VerdictIsTheBest
  ContextFits
  AnswerIsTraceable
  RetryNoWorse
  EvalPredictsAgent
CHECK_DEADLOCK FALSE
