--------------------------- MODULE MCAgentSpending ---------------------------
(***************************************************************************)
(* Small instances of AgentSpending for TLC.  With a limit of 2, an amount *)
(* of 1 passes twice and then fills the window, and 3 is always held.      *)
(***************************************************************************)
EXTENDS AgentSpending

MCAmounts == {1, 3}
MCOneAmount == {3}
MCLimits == {2}
MCPeriods == {}
MCPeriodTexts == {Malformed}
=============================================================================
