\* Crashes and timeouts, a data directory that can always be written.
SPECIFICATION Spec
CONSTANTS
  Skills = {"wallet_send_to", "program_call"}
  Amounts <- MCAmounts
  MaxAmount = 3
  Limits <- MCLimits
  Periods <- MCPeriods
  DefaultPeriod = 1
  MaxProps = 2
  MaxPays = 2
  MaxTime = 2
  MaxCrashes = 1
  MaxTimeouts = 1
  MaxSaveFailures = 0
INVARIANTS
  TypeOK
  AtMostOncePaid
  PaidAsApproved
  SpendCovered
  AutonomousWithinLimits
  ExposureIsWindowTotal
PROPERTIES
  ProposalLifecycle
  KeepsPromise
