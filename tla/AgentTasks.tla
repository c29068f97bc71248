----------------------------- MODULE AgentTasks -----------------------------
(***************************************************************************)
(* Tasks for other agents (agent_task, agent_subscribe and agent_cancel in *)
(* agent_module_impl.cpp), with what the owner and a crash may do to them. *)
(*                                                                         *)
(* agent_task sends the request over chat, then pays the peer through      *)
(* wallet_send_to, whose gate may hold the payment for the owner, then     *)
(* puts the task in the table that proposals are in too.  Nothing links    *)
(* the task to its held payment; here the payment is held under the task.  *)
(* How the gate decides is the subject of AgentSpending; here it may let   *)
(* the payment through or hold it.                                         *)
(*                                                                         *)
(* One call is in progress at a time, in stages that end at a write to the *)
(* data directory or at a call of another module.                          *)
(***************************************************************************)
EXTENDS Integers

CONSTANTS
  MaxTasks,         \* bound: tasks
  MaxPays,          \* bound: transfers handed to the wallet
  MaxFaults         \* bound: faults, of the four kinds together

ASSUME TasksAssumption == MaxTasks \in Nat /\ MaxPays \in Nat /\ MaxFaults \in Nat

TaskIds == 1..MaxTasks
PayIds == 1..MaxPays

\* An entry "task_" + id of the table; `hash` says that pay_tx_hash is not empty.
Entries == [status : {"none", "submitted", "canceled", "rejected"}, hash : BOOLEAN]

\* pending_proposals: the tasks, and the proposals that hold their payments.
Tables == [task : [TaskIds -> Entries],
           held : [TaskIds -> {"none", "pending_approval", "approved", "executed", "rejected"}]]
NoTable == [task |-> [t \in TaskIds |-> [status |-> "none", hash |-> FALSE]],
            held |-> [t \in TaskIds |-> "none"]]

\* The configuration: whether a conversation with the peer is known ("convo_"),
\* and the topics to clean up ("task_sub_").
Configs == [convo : BOOLEAN, subs : SUBSET TaskIds]
NoConfig == [convo |-> FALSE, subs |-> {}]

Payments == [status : {"none", "inflight", "settled", "refused"}, task : 0..MaxTasks]
NoPayment == [status |-> "none", task |-> 0]

Stages == {"idle", "request", "gate", "pay", "await", "save", "finish",
           "topic", "remember", "notify", "unsubscribe", "forget", "mark"}
Calls == [stage : Stages, task : 0..MaxTasks, priced : BOOLEAN, approved : BOOLEAN,
          pay : 0..MaxPays, hash : BOOLEAN]
NoCall == [stage |-> "idle", task |-> 0, priced |-> FALSE, approved |-> FALSE,
           pay |-> 0, hash |-> FALSE]

VARIABLES
  pending_proposals, saved_pending,
  config, saved_config,
  call,
  next_task, next_pay,
  payments,          \* the wallet module's transfers (external)
  requests, cancels, \* the tasks whose request and cancellation reached the peer (external)
  topics,            \* the tasks whose topic the delivery module is subscribed to (external)
  crashes,           \* of the process
  throws,            \* calls of other modules that threw, perhaps after they took effect
  refusals,          \* calls of other modules that failed without throwing
  saveFailures,      \* writes to the data directory that failed
  answered           \* history: the tasks that were reported as submitted

table == <<pending_proposals, saved_pending>>
settings == <<config, saved_config>>
ids == <<next_task, next_pay>>
outside == <<payments, requests, cancels, topics>>
vars == <<table, settings, call, ids, outside, crashes, throws, refusals, saveFailures, answered>>

Init ==
  /\ pending_proposals = NoTable
  /\ saved_pending = NoTable
  /\ config = NoConfig
  /\ saved_config = NoConfig
  /\ call = NoCall
  /\ next_task = 1
  /\ next_pay = 1
  /\ payments = [p \in PayIds |-> NoPayment]
  /\ requests = {}
  /\ cancels = {}
  /\ topics = {}
  /\ crashes = 0
  /\ throws = 0
  /\ refusals = 0
  /\ saveFailures = 0
  /\ answered = {}

Faulty == crashes + throws + refusals + saveFailures < MaxFaults

\* save_json_file, whose result nobody looks at.
Save(file, content, empty) ==
  \/ file' = content /\ UNCHANGED saveFailures
  \/ /\ Faulty
     /\ saveFailures' = saveFailures + 1
     /\ file' \in {file, empty}

Enter(stage, task) ==
  /\ call.stage = "idle"
  /\ task \in 1..next_task - 1
  /\ call' = [NoCall EXCEPT !.stage = stage, !.task = task]
  /\ UNCHANGED <<table, settings, ids, outside, crashes, throws, refusals, saveFailures, answered>>

\* Another module refuses what it is asked and says so; nobody looks at it.
Refuse ==
  /\ Faulty
  /\ refusals' = refusals + 1

\* A call of another module throws; the skill returns an error, and what it
\* did before stays.
Throw ==
  /\ Faulty
  /\ throws' = throws + 1
  /\ call' = NoCall

(***************************************************************************)
(* agent_task                                                              *)
(***************************************************************************)

\* `priced`: the skill has a price and the peer's card says where to pay it.
Task(priced) ==
  /\ call.stage = "idle"
  /\ next_task <= MaxTasks
  /\ next_pay <= MaxPays
  /\ next_task' = next_task + 1
  /\ call' = [NoCall EXCEPT !.stage = "request", !.task = next_task, !.priced = priced]
  /\ UNCHANGED <<table, settings, next_pay, outside, crashes, throws, refusals, saveFailures,
                 answered>>

AfterRequest == call' = [call EXCEPT !.stage = IF call.priced THEN "gate" ELSE "save"]

\* A slip: a request that throws is taken for one that was sent.
SendRequestRegardless ==
  /\ call.stage = "request"
  /\ requests' \in {requests, requests \cup {call.task}}
  /\ AfterRequest
  /\ UNCHANGED <<table, settings, ids, payments, cancels, topics, crashes, throws, refusals,
                 saveFailures, answered>>

SendRequest ==
  /\ call.stage = "request"
  /\ \/ /\ requests' = requests \cup {call.task}
        /\ AfterRequest
        /\ UNCHANGED <<throws, refusals>>
     \/ /\ Refuse
        /\ AfterRequest
        /\ UNCHANGED <<requests, throws>>
     \/ /\ requests' \in {requests, requests \cup {call.task}}
        /\ Throw
        /\ UNCHANGED refusals
  /\ UNCHANGED <<table, settings, ids, payments, cancels, topics, crashes, saveFailures, answered>>

PassGate ==
  /\ call.stage = "gate"
  /\ call' = [call EXCEPT !.stage = "pay"]
  /\ UNCHANGED <<table, settings, ids, outside, crashes, throws, refusals, saveFailures, answered>>

\* wallet_send_to holds the payment, and agent_task goes on without it.
HoldPayment ==
  /\ call.stage = "gate"
  /\ pending_proposals' = [pending_proposals EXCEPT !.held[call.task] = "pending_approval"]
  /\ Save(saved_pending, pending_proposals', NoTable)
  /\ call' = [call EXCEPT !.stage = "save"]
  /\ UNCHANGED <<settings, ids, outside, crashes, throws, refusals, answered>>

Pay ==
  /\ call.stage = "pay"
  /\ payments' = [payments EXCEPT ![next_pay] = [status |-> "inflight", task |-> call.task]]
  /\ next_pay' = next_pay + 1
  /\ call' = [call EXCEPT !.stage = "await", !.pay = next_pay]
  /\ UNCHANGED <<table, settings, next_task, requests, cancels, topics, crashes, throws, refusals,
                 saveFailures, answered>>

Paid(hash) ==
  call' = [call EXCEPT !.stage = IF call.approved THEN "finish" ELSE "save", !.hash = hash]

\* A slip: any answer of the wallet counts as a success.
WalletReplyTrusting ==
  /\ call.stage = "await"
  /\ payments[call.pay].status \in {"settled", "refused"}
  /\ Paid(TRUE)
  /\ UNCHANGED <<table, settings, ids, outside, crashes, throws, refusals, saveFailures, answered>>

\* The wallet answers, or the call of it throws, which wallet_send_to turns
\* into an error: agent_task and approve_pending go on in each case.
WalletReply ==
  /\ call.stage = "await"
  /\ payments[call.pay].status \in {"settled", "refused"}
  /\ Paid(payments[call.pay].status = "settled")
  /\ UNCHANGED <<table, settings, ids, outside, crashes, throws, refusals, saveFailures, answered>>

WalletThrows ==
  /\ call.stage \in {"pay", "await"}
  /\ Faulty
  /\ throws' = throws + 1
  /\ Paid(FALSE)
  /\ UNCHANGED <<table, settings, ids, outside, crashes, refusals, saveFailures, answered>>

\* A slip: the task is reported before it is in the table.
SaveTaskUnsaved ==
  /\ call.stage = "save"
  /\ pending_proposals' = [pending_proposals EXCEPT
       !.task[call.task] = [status |-> "submitted", hash |-> call.hash]]
  /\ answered' = answered \cup {call.task}
  /\ call' = NoCall
  /\ UNCHANGED <<saved_pending, saveFailures, settings, ids, outside, crashes, throws, refusals>>

\* Whatever became of the request and of the payment, the task is submitted.
SaveTask ==
  /\ call.stage = "save"
  /\ pending_proposals' = [pending_proposals EXCEPT
       !.task[call.task] = [status |-> "submitted", hash |-> call.hash]]
  /\ Save(saved_pending, pending_proposals', NoTable)
  /\ answered' = answered \cup {call.task}
  /\ call' = NoCall
  /\ UNCHANGED <<settings, ids, outside, crashes, throws, refusals>>

(***************************************************************************)
(* agent_subscribe                                                         *)
(***************************************************************************)
Subscribe(task) == Enter("topic", task)

SubscribeTopic ==
  /\ call.stage = "topic"
  /\ \/ /\ topics' = topics \cup {call.task}
        /\ call' = [call EXCEPT !.stage = "remember"]
        /\ UNCHANGED <<throws, refusals>>
     \/ /\ Refuse
        /\ call' = [call EXCEPT !.stage = "remember"]
        /\ UNCHANGED <<topics, throws>>
     \/ topics' \in {topics, topics \cup {call.task}} /\ Throw /\ UNCHANGED refusals
  /\ UNCHANGED <<table, settings, ids, payments, requests, cancels, crashes, saveFailures,
                 answered>>

RememberTopic ==
  /\ call.stage = "remember"
  /\ config' = [config EXCEPT !.subs = @ \cup {call.task}]
  /\ Save(saved_config, config', NoConfig)
  /\ call' = NoCall
  /\ UNCHANGED <<table, ids, outside, crashes, throws, refusals, answered>>

(***************************************************************************)
(* agent_cancel                                                            *)
(***************************************************************************)
Cancel(task) == Enter("notify", task)

AfterNotice ==
  call' = [call EXCEPT !.stage = IF call.task \in config.subs THEN "unsubscribe" ELSE "mark"]

\* The peer is told only in a conversation that the configuration knows.
NotifyPeer ==
  /\ call.stage = "notify"
  /\ \/ /\ cancels' = IF config.convo THEN cancels \cup {call.task} ELSE cancels
        /\ AfterNotice
        /\ UNCHANGED <<throws, refusals>>
     \/ /\ config.convo
        /\ Refuse
        /\ AfterNotice
        /\ UNCHANGED <<cancels, throws>>
     \/ /\ config.convo
        /\ cancels' \in {cancels, cancels \cup {call.task}}
        /\ Throw
        /\ UNCHANGED refusals
  /\ UNCHANGED <<table, settings, ids, payments, requests, topics, crashes, saveFailures,
                 answered>>

\* A slip: the topic is forgotten and stays subscribed.
UnsubscribeNothing ==
  /\ call.stage = "unsubscribe"
  /\ call' = [call EXCEPT !.stage = "forget"]
  /\ UNCHANGED <<table, settings, ids, outside, crashes, throws, refusals, saveFailures, answered>>

Unsubscribe ==
  /\ call.stage = "unsubscribe"
  /\ \/ /\ topics' = topics \ {call.task}
        /\ call' = [call EXCEPT !.stage = "forget"]
        /\ UNCHANGED <<throws, refusals>>
     \/ /\ Refuse
        /\ call' = [call EXCEPT !.stage = "forget"]
        /\ UNCHANGED <<topics, throws>>
     \/ topics' \in {topics, topics \ {call.task}} /\ Throw /\ UNCHANGED refusals
  /\ UNCHANGED <<table, settings, ids, payments, requests, cancels, crashes, saveFailures,
                 answered>>

ForgetTopic ==
  /\ call.stage = "forget"
  /\ config' = [config EXCEPT !.subs = @ \ {call.task}]
  /\ Save(saved_config, config', NoConfig)
  /\ call' = [call EXCEPT !.stage = "mark"]
  /\ UNCHANGED <<table, ids, outside, crashes, throws, refusals, answered>>

InTable(task) == pending_proposals.task[task].status # "none"

\* Slips: the status is spelled otherwise; a task that is not yet in the table
\* is waited for.
MarkAs(status, otherwise) ==
  /\ call.stage = "mark"
  /\ IF InTable(call.task)
     THEN /\ pending_proposals' = [pending_proposals EXCEPT !.task[call.task].status = status]
          /\ Save(saved_pending, pending_proposals', NoTable)
          /\ call' = NoCall
     ELSE call' = otherwise /\ UNCHANGED <<table, saveFailures>>
  /\ UNCHANGED <<settings, ids, outside, crashes, throws, refusals, answered>>
MarkCancelled == MarkAs("cancelled", NoCall)
MarkWaiting == MarkAs("canceled", [call EXCEPT !.stage = "notify"])

\* A task that is not in the table is reported as canceled all the same.
MarkCanceled ==
  /\ call.stage = "mark"
  /\ IF InTable(call.task)
     THEN /\ pending_proposals' =
               [pending_proposals EXCEPT !.task[call.task].status = "canceled"]
          /\ Save(saved_pending, pending_proposals', NoTable)
     ELSE UNCHANGED <<table, saveFailures>>
  /\ call' = NoCall
  /\ UNCHANGED <<settings, ids, outside, crashes, throws, refusals, answered>>

(***************************************************************************)
(* The owner.                                                              *)
(***************************************************************************)

\* approve_pending takes a held payment, never a task; its bypass of the gate
\* is modelled in AgentSpending.
ApprovePayment(task) ==
  /\ call.stage = "idle"
  /\ next_pay <= MaxPays
  /\ pending_proposals.held[task] = "pending_approval"
  /\ pending_proposals' = [pending_proposals EXCEPT !.held[task] = "approved"]
  /\ Save(saved_pending, pending_proposals', NoTable)
  /\ call' = [NoCall EXCEPT !.stage = "pay", !.task = task, !.approved = TRUE]
  /\ UNCHANGED <<settings, ids, outside, crashes, throws, refusals, answered>>

\* Slips: a held payment that failed can be approved again; the task resumes.
FinishPaymentAs(held, task) ==
  /\ call.stage = "finish"
  /\ pending_proposals' = [pending_proposals EXCEPT
       !.held[call.task] = held, !.task[call.task].status = task]
  /\ Save(saved_pending, pending_proposals', NoTable)
  /\ call' = NoCall
  /\ UNCHANGED <<settings, ids, outside, crashes, throws, refusals, answered>>
FinishPaymentReopening ==
  FinishPaymentAs(IF call.hash THEN "executed" ELSE "pending_approval",
                  pending_proposals.task[call.task].status)
FinishPaymentResuming ==
  FinishPaymentAs("executed", IF InTable(call.task) THEN "submitted" ELSE "none")

FinishPayment ==
  /\ call.stage = "finish"
  /\ pending_proposals' = [pending_proposals EXCEPT !.held[call.task] = "executed"]
  /\ Save(saved_pending, pending_proposals', NoTable)
  /\ call' = NoCall
  /\ UNCHANGED <<settings, ids, outside, crashes, throws, refusals, answered>>

Reject(changed) ==
  /\ call.stage = "idle"
  /\ pending_proposals' = changed
  /\ Save(saved_pending, changed, NoTable)
  /\ UNCHANGED <<settings, call, ids, outside, crashes, throws, refusals, answered>>

RejectPayment(task) ==
  /\ pending_proposals.held[task] \in {"pending_approval", "approved"}
  /\ Reject([pending_proposals EXCEPT !.held[task] = "rejected"])

\* reject_pending takes a task for a proposal: neither of its statuses is final to it.
RejectTask(task) ==
  /\ pending_proposals.task[task].status \in {"submitted", "canceled"}
  /\ Reject([pending_proposals EXCEPT !.task[task].status = "rejected"])

\* meta_configure, for the one key that nothing else in the code writes.
ConfigureConvo ==
  /\ call.stage = "idle"
  /\ config' = [config EXCEPT !.convo = TRUE]
  /\ Save(saved_config, config', NoConfig)
  /\ UNCHANGED <<table, call, ids, outside, crashes, throws, refusals, answered>>

(***************************************************************************)
(* The wallet module (external), and crashes.                              *)
(***************************************************************************)
EndPayment(p, status) ==
  /\ payments[p].status = "inflight"
  /\ payments' = [payments EXCEPT ![p].status = status]
  /\ UNCHANGED <<table, settings, call, ids, requests, cancels, topics, crashes, throws, refusals,
                 saveFailures, answered>>

\* A new process loads the data directory; the other modules go on.
CrashRestart ==
  /\ Faulty
  /\ crashes' = crashes + 1
  /\ pending_proposals' = saved_pending
  /\ config' = saved_config
  /\ call' = NoCall
  /\ UNCHANGED <<saved_pending, saved_config, ids, outside, throws, refusals, saveFailures,
                 answered>>

Caller == (\E priced \in BOOLEAN : Task(priced)) \/ (\E t \in TaskIds : Subscribe(t) \/ Cancel(t))
Owner ==
  \/ \E t \in TaskIds : ApprovePayment(t) \/ RejectPayment(t) \/ RejectTask(t)
  \/ ConfigureConvo
AgentStep ==
  \/ SendRequest \/ PassGate \/ HoldPayment \/ Pay \/ WalletReply \/ SaveTask
  \/ SubscribeTopic \/ RememberTopic
  \/ NotifyPeer \/ Unsubscribe \/ ForgetTopic \/ MarkCanceled
  \/ FinishPayment
WalletStep == \E p \in PayIds : EndPayment(p, "settled") \/ EndPayment(p, "refused")

Next == Caller \/ Owner \/ AgentStep \/ WalletStep \/ WalletThrows \/ CrashRestart

Spec == Init /\ [][Next]_vars

\* A call is not abandoned, and the wallet module ends every transfer.
FairSpec == Spec /\ WF_vars(AgentStep) /\ WF_vars(WalletStep)

(***************************************************************************)
(* Properties.                                                             *)
(***************************************************************************)

\* Every variable keeps its type.
TypeOK ==
  /\ pending_proposals \in Tables
  /\ saved_pending \in Tables
  /\ config \in Configs
  /\ saved_config \in Configs
  /\ call \in Calls
  /\ next_task \in 1..MaxTasks + 1
  /\ next_pay \in 1..MaxPays + 1
  /\ payments \in [PayIds -> Payments]
  /\ requests \in SUBSET TaskIds
  /\ cancels \in SUBSET TaskIds
  /\ topics \in SUBSET TaskIds
  /\ crashes \in 0..MaxFaults
  /\ throws \in 0..MaxFaults
  /\ refusals \in 0..MaxFaults
  /\ saveFailures \in 0..MaxFaults
  /\ answered \in SUBSET TaskIds

PaymentsOf(task) == {p \in PayIds : payments[p].status # "none" /\ payments[p].task = task}

\* A task is paid for once at most: by agent_task itself, or by approve_pending
\* when the payment was held, and not by both or twice, crashes included, as
\* long as the data directory can be written.
TaskPaidOnce ==
  saveFailures = 0 =>
    \A task \in TaskIds : \A p, q \in PaymentsOf(task) : p = q

\* A peer is paid for a task only after its request was sent, unless the chat
\* module refused something: agent_task does not look at its answer.
PaidWasRequested ==
  refusals = 0 =>
    \A p \in PayIds : payments[p].status # "none" => payments[p].task \in requests

\* A task with a pay_tx_hash was paid: the wallet has settled its transfer.
HashIsTrue ==
  \A task \in TaskIds :
    pending_proposals.task[task].hash \/ saved_pending.task[task].hash =>
      \E p \in PaymentsOf(task) : payments[p].status = "settled"

\* A task that was reported as submitted is on file, with the payment held for
\* it, whatever happens later, as long as the data directory can be written.
SubmittedIsOnFile ==
  saveFailures = 0 =>
    \A task \in answered :
      /\ saved_pending.task[task].status # "none"
      /\ PaymentsOf(task) # {} /\ ~pending_proposals.task[task].hash /\ throws = 0 =>
           \/ saved_pending.held[task] # "none"
           \/ \E p \in PaymentsOf(task) : payments[p].status = "refused"

\* The topics the configuration remembers are those that are subscribed, but
\* for the one that a call is dealing with.  Every kind of fault but a failed
\* write may leave one subscribed that nothing will clean up.
TopicsAreRemembered ==
  crashes + throws + refusals = 0 =>
    LET busy == IF call.stage \in {"remember", "forget"} THEN {call.task} ELSE {} IN
    (topics \ config.subs) \cup (config.subs \ topics) \subseteq busy

\* Every call returns.
CallReturns == call.stage # "idle" ~> call.stage = "idle"

\* The requests, the transfers and the table of tasks keep the promise of TaskPromise, crashes,
\* exceptions and late answers included: a payment or a report without a request, a second
\* transfer for a task, a hash of nothing that has settled or a way back to "submitted" would be
\* no step of it, unless a module has refused something or a write has failed, and then only
\* what that costs is.
Promise == INSTANCE TaskPromise WITH
  requested <- requests,
  paid <- [task \in TaskIds |-> PaymentsOf(task)],
  settled <- {task \in TaskIds : \E p \in PaymentsOf(task) : payments[p].status = "settled"},
  entry <- pending_proposals.task,
  refused <- refusals > 0,
  unsaved <- saveFailures > 0
KeepsTaskPromise == Promise!Spec
=============================================================================
