\* Two or three uploads, a crash, a failed write; fair threads.
SPECIFICATION FairSpec
CONSTANTS
  c1 = c1
  c2 = c2
  l1 = l1
  l2 = l2
  Contents <- MCContents
  Labels <- MCLabels
  NoCid = NoCid
  NoLabel = NoLabel
  MaxSessions = 3
  MaxCrashes = 1
  MaxSaveFailures = 1
CHECK_DEADLOCK FALSE
INVARIANTS
  TypeOK
  StoredIsTrue
  LabelsAreTrue
  SavedUnlessRaced
PROPERTIES
  LabelsAreKept
  UploadReturns
  LabelIsResolved
