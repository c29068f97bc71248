------------------------------ MODULE MCAgentUp ------------------------------
(***************************************************************************)
(* An instance of AgentUp for TLC: the options of a run are all plain, or  *)
(* one or two of them have a form of their own.                            *)
(***************************************************************************)
EXTENDS AgentUp

MCPlain == [k \in Keys |-> IF k = "owner_address" THEN "text" ELSE "number"]
MCValues == {MCPlain,
             [MCPlain EXCEPT !["owner_address"] = "comma", !["per_tx_limit"] = "literal"],
             [MCPlain EXCEPT !["per_period_limit"] = "quoted", !["period_seconds"] = "control"],
             [MCPlain EXCEPT !["period_seconds"] = "edge"]}
===============================================================================
