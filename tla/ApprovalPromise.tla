-------------------------- MODULE ApprovalPromise --------------------------
(***************************************************************************)
(* What the owner of the agent is promised about spends over the limits:   *)
(* such a spend is held; it moves value only while it stands approved and  *)
(* at most once; the owner may reject it for as long as the agent has not  *)
(* declared it executed, and then it never moves value again; executed and *)
(* rejected are final.  Nothing is said here of calls, files, crashes or   *)
(* of the wallet: AgentSpending implements this with them.                 *)
(***************************************************************************)
CONSTANTS PropIds, PayIds
VARIABLES
  standing,   \* of each proposal
  paid        \* the transfers that the wallet was handed for each

Init ==
  /\ standing = [p \in PropIds |-> "none"]
  /\ paid = [p \in PropIds |-> {}]

Move(p, from, to) ==
  /\ standing[p] = from
  /\ standing' = [standing EXCEPT ![p] = to]
  /\ UNCHANGED paid

Hold(p) == Move(p, "none", "pending_approval")
Approve(p) == Move(p, "pending_approval", "approved")
Close(p) == Move(p, "approved", "executed")
Reject(p) == Move(p, "pending_approval", "rejected") \/ Move(p, "approved", "rejected")

Pay(p) ==
  /\ standing[p] = "approved"
  /\ paid[p] = {}
  /\ \E transfer \in PayIds : paid' = [paid EXCEPT ![p] = {transfer}]
  /\ UNCHANGED standing

Next == \E p \in PropIds : Hold(p) \/ Approve(p) \/ Close(p) \/ Reject(p) \/ Pay(p)

Spec == Init /\ [][Next]_<<standing, paid>>
=============================================================================
