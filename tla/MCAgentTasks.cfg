\* One task, three faults of any kind, fair scheduling.
SPECIFICATION FairSpec
CONSTANTS
  MaxTasks = 1
  MaxPays = 2
  MaxFaults = 3
INVARIANTS
  TypeOK
  TaskPaidOnce
  PaidWasRequested
  HashIsTrue
  SubmittedIsOnFile
  TopicsAreRemembered
PROPERTIES
  KeepsTaskPromise
  CallReturns
