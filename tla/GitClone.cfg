SPECIFICATION FairSpec
CONSTANTS
  Workers = {1, 2}
  NumFiles = 3
  Anchored = {1, 3}
  NumRevs = 2
  Edited <- MCEdited
  NoText = NoText
  FreshHeads = {2, 3}
  Faults = {"clone", "kill"}
INVARIANTS
  ListsWholeGuide
  ListsNoAnchor
  CutHasWriter
PROPERTIES
  Converges
