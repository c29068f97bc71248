\* No fault at all: one held transfer, approved.
SPECIFICATION Spec
CONSTANTS
  Skills = {"wallet_send_to"}
  Amounts <- MCOneAmount
  MaxAmount = 3
  Limits <- MCLimits
  Periods <- MCPeriods
  DefaultPeriod = 1
  MaxProps = 1
  MaxPays = 1
  MaxTime = 1
  MaxCrashes = 0
  MaxTimeouts = 0
  MaxSaveFailures = 0
INVARIANT
  SpentWasPaid
