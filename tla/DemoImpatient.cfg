SPECIFICATION Spec
CONSTANTS
  Threads = {q1, q2}
  Runs = {r1, r2}
  NoThread = NoThread
  MaxAttempts = 2
  Faults = {"retrieve"}
  Patient = FALSE
  LiveConfig <- MCLive
INVARIANTS
  AttemptsBounded
  AsksAboutLatestAnswer
  DemoNeverReachesJira
  OneOutcome
  ResolvedByUser
SYMMETRY Symmetry
CHECK_DEADLOCK FALSE
