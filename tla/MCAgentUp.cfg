\* Runs of the command side by side or one after the other.
SPECIFICATION Spec
CONSTANTS
  MaxRuns = 2
  Dir = {"lez_wallet_module", "agent_module"}
  Values <- MCValues
  MaxFaults = 1
INVARIANTS
  TypeOK
  ConfiguredAsGiven
  OwnerFirst
  AgentLast
CHECK_DEADLOCK FALSE
