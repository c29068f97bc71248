---------------------------- MODULE TaskPromise ----------------------------
(***************************************************************************)
(* What the caller of agent_task is promised about a task for another      *)
(* agent: nothing is paid for it, and it is not reported, before its       *)
(* request was sent; the wallet is handed one transfer for it at most; the *)
(* hash it is reported with is that of a transfer which has settled; it is *)
(* submitted once, keeps its hash and stays in the table, where it can     *)
(* only be closed.                                                         *)
(*                                                                         *)
(* Nobody looks at a refusal of the chat or the delivery module, nor at a  *)
(* failed write.  After the first refusal a task may be paid for and       *)
(* reported without its request; after the first failed write, paid for    *)
(* again, and the table may go back to what it was.                        *)
(***************************************************************************)
CONSTANTS TaskIds, PayIds
VARIABLES
  requested,  \* the tasks whose request reached the peer
  paid,       \* the transfers that the wallet was handed for each
  settled,    \* the tasks of which one has settled
  entry,      \* the table: the status of each, and whether it has a hash
  refused,    \* a module has refused something
  unsaved     \* a write has failed

Statuses == {"none", "submitted", "canceled", "rejected"}

Init ==
  /\ requested = {}
  /\ paid = [t \in TaskIds |-> {}]
  /\ settled = {}
  /\ entry = [t \in TaskIds |-> [status |-> "none", hash |-> FALSE]]
  /\ refused = FALSE
  /\ unsaved = FALSE

Request(t) ==
  /\ requested' = requested \cup {t}
  /\ UNCHANGED <<paid, settled, entry>>

Pay(t) ==
  /\ refused \/ t \in requested
  /\ unsaved \/ paid[t] = {}
  /\ \E p \in PayIds :
       /\ \A u \in TaskIds : p \notin paid[u]
       /\ paid' = [paid EXCEPT ![t] = @ \cup {p}]
  /\ UNCHANGED <<requested, settled, entry>>

Settle(t) ==
  /\ paid[t] # {}
  /\ settled' = settled \cup {t}
  /\ UNCHANGED <<requested, paid, entry>>

Submit(t, hash) ==
  /\ refused \/ t \in requested
  /\ hash => t \in settled
  /\ entry[t].status = "none"
  /\ entry' = [entry EXCEPT ![t] = [status |-> "submitted", hash |-> hash]]
  /\ UNCHANGED <<requested, paid, settled>>

Close(t, status) ==
  /\ entry[t].status # "none"
  /\ entry' = [entry EXCEPT ![t].status = status]
  /\ UNCHANGED <<requested, paid, settled>>

Progress(t) ==
  \/ Request(t) \/ Pay(t) \/ Settle(t)
  \/ \E hash \in BOOLEAN : Submit(t, hash)
  \/ Close(t, "canceled") \/ Close(t, "rejected")

\* An earlier table: it has no task that this one has not, and each with its hash.
Forget ==
  /\ unsaved
  /\ entry' \in [TaskIds -> [status : Statuses, hash : BOOLEAN]]
  /\ \A t \in TaskIds :
       entry'[t].status # "none" => entry[t].status # "none" /\ entry'[t].hash = entry[t].hash
  /\ UNCHANGED <<requested, paid, settled>>

Next ==
  /\ refused => refused'
  /\ unsaved => unsaved'
  /\ \/ \E t \in TaskIds : Progress(t)
     \/ Forget
     \/ UNCHANGED <<requested, paid, settled, entry>>

Spec == Init /\ [][Next]_<<requested, paid, settled, entry, refused, unsaved>>
=============================================================================
