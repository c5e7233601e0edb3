SPECIFICATION FairSpec
CONSTANTS
  Threads = {q1, q2}
  Runs = {invoke}
  Run1 = invoke
  NoThread = NoThread
  Off = Off
  MaxAttempts = 2
  DryRunWords = {"unset", "false", "flase"}
  Faults = {"retrieve", "answer", "escalate", "rejected", "landed"}
INVARIANTS
  AtMostOneIssue
  ToldWhatHappened
PROPERTIES
  NoIssueUnconfirmed
  EveryQuestionEnds
  ImplementsRequest
