\* No crash, a data directory that may fail to be written, fair scheduling.
SPECIFICATION FairSpec
CONSTANTS
  Skills = {"wallet_send", "program_deploy"}
  Amounts <- MCOneAmount
  MaxAmount = 3
  Limits <- MCLimits
  Periods <- MCPeriodTexts
  DefaultPeriod = 1
  MaxProps = 2
  MaxPays = 2
  MaxTime = 1
  MaxCrashes = 0
  MaxTimeouts = 1
  MaxSaveFailures = 1
INVARIANTS
  GateRestored
  RejectedNeverPaid
PROPERTIES
  ApprovedIsExecuted
