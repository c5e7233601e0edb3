SPECIFICATION FairSpec
CONSTANTS
  Callers = {1, 2}
  NumKeys = 1
  Contents = {old, new}
  Size <- MCDistinct
  NoObject = NoObject
  Second = 2
  MaxTime = 2
  Failing = {"fail"}
  old = old
  new = new
INVARIANTS
  FreshListing
PROPERTIES
  Converges
