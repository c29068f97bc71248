\* One upload, the event of which may come before the label is recorded.
SPECIFICATION Spec
CONSTANTS
  c1 = c1
  c2 = c2
  l1 = l1
  l2 = l2
  Contents <- MCContents
  Labels <- MCLabels
  NoCid = NoCid
  NoLabel = NoLabel
  MaxSessions = 2
  MaxCrashes = 0
  MaxSaveFailures = 0
CHECK_DEADLOCK FALSE
INVARIANT
  RemappedWhenComplete
