SPECIFICATION FairSpec
CONSTANTS
  Threads = {q1, q2}
  Runs = {r1, r2}
  NoThread = NoThread
  MaxAttempts = 2
  Faults = {"retrieve", "answer"}
  Patient = TRUE
  LiveConfig <- MCUnset
INVARIANTS
  PageShowsStateOrRetry
PROPERTIES
  EveryQuestionEnds
  ImplementsRequest
CHECK_DEADLOCK FALSE
