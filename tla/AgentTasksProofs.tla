-------------------------- MODULE AgentTasksProofs --------------------------
(***************************************************************************)
(* Proofs about AgentTasks, for any number of tasks, transfers and faults: *)
(* its types, every safety property its run checks, and that it implements *)
(* TaskPromise.                                                            *)
(*                                                                         *)
(* Step says what a step does to the call, to the table and to the         *)
(* transfers, in a form that needs no record to be taken apart again; the  *)
(* invariants Typed, Transfers, Hashes, AsRequested, Once and OnFile are   *)
(* shown to be kept by it, and Behind too; Remembered by TopicStep.        *)
(***************************************************************************)
EXTENDS AgentTasks, TLAPS

(***************************************************************************)
(* Types.                                                                  *)
(***************************************************************************)

Faults == crashes + throws + refusals + saveFailures

\* What a call in progress knows: it deals with a task that has an identity, there is a
\* transfer left for it until it pays, while it waits it waits for one that was made, and it is
\* the owner's or agent_task.
CallBounds ==
  /\ call.stage # "idle" => call.task \in 1..next_task - 1
  /\ call.stage \in {"request", "gate", "pay"} => next_pay <= MaxPays
  /\ call.stage = "await" => call.pay \in 1..next_pay - 1
  /\ call.stage \in {"request", "gate", "save"} => ~call.approved
  /\ call.stage = "finish" => call.approved
  /\ call.hash => call.stage \in {"save", "finish"}

\* Nothing is known of a task that has no identity yet.
Fresh ==
  \A task \in TaskIds : task >= next_task =>
    /\ pending_proposals.held[task] = "none" /\ saved_pending.held[task] = "none"
    /\ pending_proposals.task[task].status = "none" /\ saved_pending.task[task].status = "none"
    /\ task \notin answered

Typed == TypeOK /\ CallBounds /\ Fresh /\ Faults <= MaxFaults

LEMMA EntryTypes ==
  /\ NoTable \in Tables /\ NoConfig \in Configs /\ NoCall \in Calls /\ NoPayment \in Payments
  /\ NoCall.stage = "idle" /\ NoCall.task = 0 /\ NoCall.hash = FALSE
  /\ NoCall.approved = FALSE
  /\ \A task \in TaskIds : /\ NoTable.held[task] = "none" /\ NoTable.task[task].status = "none"
                            /\ NoTable.task[task].hash = FALSE
BY TasksAssumption DEF NoTable, Tables, Entries, NoConfig, Configs, NoCall, Calls, Stages,
     NoPayment, Payments, TaskIds

LEMMA TypedInit == Init => Typed
<1> SUFFICES ASSUME Init PROVE Typed
  OBVIOUS
<1>1. TypeOK
  BY TasksAssumption, EntryTypes DEF Init, TypeOK
<1>2. CallBounds /\ Faults <= MaxFaults
  BY TasksAssumption, EntryTypes DEF Init, CallBounds, Faults
<1>3. Fresh
  BY EntryTypes DEF Init, Fresh
<1> QED
  BY <1>1, <1>2, <1>3 DEF Typed

(***************************************************************************)
(* What steps do to the call, to the table and to the transfers.           *)
(***************************************************************************)

Held(task, held) ==
  /\ pending_proposals' \in Tables
  /\ pending_proposals'.task = pending_proposals.task
  /\ pending_proposals'.held = [pending_proposals.held EXCEPT ![task] = held]

Entered(task, status, hash) ==
  /\ pending_proposals' \in Tables
  /\ pending_proposals'.held = pending_proposals.held
  /\ pending_proposals'.task =
       [pending_proposals.task EXCEPT ![task] = [status |-> status, hash |-> hash]]

Saved ==
  /\ saved_pending' \in {pending_proposals', saved_pending, NoTable}
  /\ saveFailures' = saveFailures \/ saveFailures' = saveFailures + 1
  /\ saveFailures' = saveFailures => saved_pending' = pending_proposals'

LEMMA Saving ==
  ASSUME Typed, Save(saved_pending, pending_proposals', NoTable)
  PROVE  Saved
BY DEF Save, Saved, Typed, TypeOK

LEMMA HeldTable ==
  ASSUME Typed, NEW task \in TaskIds,
         NEW held \in {"none", "pending_approval", "approved", "executed", "rejected"},
         pending_proposals' = [pending_proposals EXCEPT !.held[task] = held]
  PROVE  Held(task, held)
BY SMT DEF Typed, TypeOK, Tables, Held

LEMMA EnteredTable ==
  ASSUME Typed, NEW task \in TaskIds, NEW status \in {"none", "submitted", "canceled", "rejected"},
         NEW hash \in BOOLEAN,
         pending_proposals' =
           [pending_proposals EXCEPT !.task[task] = [status |-> status, hash |-> hash]]
  PROVE  Entered(task, status, hash)
<1>1. [status |-> status, hash |-> hash] \in Entries
  BY DEF Entries
<1> QED
  BY <1>1, SMT DEF Typed, TypeOK, Tables, Entered

LEMMA StatusTable ==
  ASSUME Typed, NEW task \in TaskIds, NEW status \in {"none", "submitted", "canceled", "rejected"},
         pending_proposals' = [pending_proposals EXCEPT !.task[task].status = status]
  PROVE  Entered(task, status, pending_proposals.task[task].hash)
<1>1. pending_proposals.task[task] \in Entries
  BY DEF Typed, TypeOK, Tables
<1>2. [pending_proposals.task[task] EXCEPT !.status = status]
        = [status |-> status, hash |-> pending_proposals.task[task].hash]
  BY <1>1 DEF Entries
<1>3. pending_proposals' = [pending_proposals EXCEPT
        !.task[task] = [status |-> status, hash |-> pending_proposals.task[task].hash]]
  BY <1>2, Zenon
<1>4. pending_proposals.task[task].hash \in BOOLEAN
  BY <1>1 DEF Entries
<1> QED
  BY <1>3, <1>4, EnteredTable

\* The call that a step leaves.
Calling(stage, task, approved, pay, hash) ==
  /\ call' \in Calls
  /\ call'.stage = stage /\ call'.task = task
  /\ call'.approved = approved /\ call'.pay = pay /\ call'.hash = hash

LEMMA NewCall ==
  ASSUME NEW stage \in Stages, NEW task \in 0..MaxTasks,
         \/ call' = [NoCall EXCEPT !.stage = stage, !.task = task]
         \/ \E priced \in BOOLEAN :
              call' = [NoCall EXCEPT !.stage = stage, !.task = task, !.priced = priced]
  PROVE  Calling(stage, task, FALSE, 0, FALSE)
<1> DEFINE n == NoCall
<1>1. n \in Calls /\ n.approved = FALSE /\ n.pay = 0 /\ n.hash = FALSE
  BY EntryTypes DEF NoCall
<1> HIDE DEF n
<1>2. ASSUME call' = [n EXCEPT !.stage = stage, !.task = task]
      PROVE  Calling(stage, task, FALSE, 0, FALSE)
  BY <1>1, <1>2, Zenon DEF Calls, Calling
<1>3. ASSUME NEW priced \in BOOLEAN,
             call' = [n EXCEPT !.stage = stage, !.task = task, !.priced = priced]
      PROVE  Calling(stage, task, FALSE, 0, FALSE)
  BY <1>1, <1>3, Zenon DEF Calls, Calling
<1> QED
  BY <1>2, <1>3 DEF n

LEMMA ApprovedCall ==
  ASSUME NEW stage \in Stages, NEW task \in 0..MaxTasks,
         call' = [NoCall EXCEPT !.stage = stage, !.task = task, !.approved = TRUE]
  PROVE  Calling(stage, task, TRUE, 0, FALSE)
<1> DEFINE n == NoCall
<1>1. n \in Calls /\ n.approved = FALSE /\ n.pay = 0 /\ n.hash = FALSE
  BY EntryTypes DEF NoCall
<1> HIDE DEF n
<1>2. ASSUME call' = [n EXCEPT !.stage = stage, !.task = task, !.approved = TRUE]
      PROVE  Calling(stage, task, TRUE, 0, FALSE)
  BY <1>1, <1>2, Zenon DEF Calls, Calling
<1> QED
  BY <1>2 DEF n

LEMMA TaskCall ==
  ASSUME Typed, \E priced \in BOOLEAN : Task(priced)
  PROVE  /\ call.stage = "idle" /\ next_task <= MaxTasks /\ next_pay <= MaxPays
         /\ Calling("request", next_task, FALSE, 0, FALSE)
<1>1. next_task \in 0..MaxTasks
  BY TasksAssumption DEF Task, Typed, TypeOK
<1>2. PICK priced \in BOOLEAN : Task(priced)
  OBVIOUS
<1>3. /\ call' = [NoCall EXCEPT !.stage = "request", !.task = next_task, !.priced = priced]
      /\ "request" \in Stages
  BY <1>2 DEF Task, Stages
<1>4. Calling("request", next_task, FALSE, 0, FALSE)
  BY <1>1, <1>3, NewCall, Zenon
<1> QED
  BY <1>4 DEF Task

LEMMA EnterCall ==
  ASSUME Typed, \E task \in TaskIds : Subscribe(task) \/ Cancel(task)
  PROVE  /\ call.stage = "idle"
         /\ \E task \in 1..next_task - 1, stage \in {"topic", "notify"} :
              Calling(stage, task, FALSE, 0, FALSE)
<1>1. PICK task \in TaskIds, stage \in {"topic", "notify"} : Enter(stage, task)
  BY DEF Subscribe, Cancel
<1>2. /\ call' = [NoCall EXCEPT !.stage = stage, !.task = task]
      /\ task \in 0..MaxTasks /\ stage \in Stages
  BY <1>1, TasksAssumption DEF Enter, TaskIds, Stages
<1>3. Calling(stage, task, FALSE, 0, FALSE)
  BY <1>2, NewCall, Zenon
<1> QED
  BY <1>1, <1>3 DEF Enter

LEMMA ApproveCall ==
  ASSUME Typed, NEW task \in TaskIds, ApprovePayment(task)
  PROVE  /\ Calling("pay", task, TRUE, 0, FALSE) /\ Held(task, "approved") /\ Saved
<1>1. task \in 0..MaxTasks /\ "pay" \in Stages
  BY TasksAssumption DEF TaskIds, Stages
<1>2. Calling("pay", task, TRUE, 0, FALSE)
  BY <1>1, ApprovedCall, Zenon DEF ApprovePayment
<1> QED
  BY <1>2, HeldTable, Saving DEF ApprovePayment

LEMMA PayCall ==
  ASSUME Typed, Pay
  PROVE  /\ Calling("await", call.task, call.approved, next_pay, call.hash)
         /\ next_pay \in PayIds /\ call.task \in TaskIds
<1>1. /\ next_pay \in 0..MaxPays /\ next_pay \in PayIds /\ call.task \in TaskIds
      /\ "await" \in Stages /\ call \in Calls
  BY TasksAssumption DEF Pay, Typed, TypeOK, CallBounds, PayIds, TaskIds, Stages
<1>2. ASSUME NEW c \in Calls, NEW stage \in Stages, NEW pay \in 0..MaxPays,
             call' = [c EXCEPT !.stage = stage, !.pay = pay]
      PROVE  Calling(stage, c.task, c.approved, pay, c.hash)
  BY <1>2, Zenon DEF Calls, Calling
<1> QED
  BY <1>1, <1>2, Zenon DEF Pay

LEMMA PaidCall ==
  ASSUME Typed, NEW hash \in BOOLEAN, Paid(hash)
  PROVE  Calling(IF call.approved THEN "finish" ELSE "save",
                 call.task, call.approved, call.pay, hash)
<1>1. (IF call.approved THEN "finish" ELSE "save") \in Stages /\ call \in Calls
  BY DEF Typed, TypeOK, Stages
<1>2. ASSUME NEW c \in Calls, NEW stage \in Stages,
             call' = [c EXCEPT !.stage = stage, !.hash = hash]
      PROVE  Calling(stage, c.task, c.approved, c.pay, hash)
  BY <1>2, Zenon DEF Calls, Calling
<1> QED
  BY <1>1, <1>2, Zenon DEF Paid

(***************************************************************************)
(* Every step of the specification, in terms of the fields that the        *)
(* invariants speak of.                                                    *)
(***************************************************************************)

Other == {"topic", "remember", "notify", "unsubscribe", "forget", "mark"}

\* Steps that change the call alone.
Starting ==
  /\ call.stage = "idle" /\ next_task <= MaxTasks /\ next_pay <= MaxPays
  /\ Calling("request", next_task, FALSE, 0, FALSE)
  /\ next_task' = next_task + 1
Entering ==
  /\ call.stage = "idle" /\ UNCHANGED next_task
  /\ \E task \in 1..next_task - 1, stage \in {"topic", "notify"} :
       Calling(stage, task, FALSE, 0, FALSE)
Moving ==
  /\ call.stage \in Other /\ UNCHANGED next_task
  /\ \E stage \in Other : Calling(stage, call.task, call.approved, call.pay, call.hash)
Returning == call' = NoCall /\ UNCHANGED next_task
Requesting ==
  /\ call.stage = "request" /\ UNCHANGED next_task
  /\ call.task \in requests' \/ refusals' > 0
  /\ \E stage \in {"gate", "save"} :
       Calling(stage, call.task, call.approved, call.pay, call.hash)
Passing ==
  /\ call.stage = "gate" /\ UNCHANGED next_task
  /\ Calling("pay", call.task, call.approved, call.pay, call.hash)
After(hash) ==
  Calling(IF call.approved THEN "finish" ELSE "save", call.task, call.approved, call.pay, hash)
Replying ==
  /\ call.stage = "await" /\ UNCHANGED next_task
  /\ payments[call.pay].status \in {"settled", "refused"}
  /\ After(payments[call.pay].status = "settled")
Failing ==
  /\ call.stage \in {"pay", "await"} /\ UNCHANGED next_task
  /\ throws' > 0
  /\ After(FALSE)
Idling == UNCHANGED <<call, next_task>>

\* Steps that change the proposals.
Holding ==
  /\ call.stage = "gate" /\ Held(call.task, "pending_approval")
  /\ Calling("save", call.task, call.approved, call.pay, call.hash)
  /\ UNCHANGED answered
Approving ==
  /\ call.stage = "idle" /\ next_pay <= MaxPays
  /\ \E task \in TaskIds :
       /\ pending_proposals.held[task] = "pending_approval"
       /\ Held(task, "approved")
       /\ Calling("pay", task, TRUE, 0, FALSE)
  /\ UNCHANGED answered
Finishing ==
  /\ call.stage = "finish" /\ Held(call.task, "executed")
  /\ call' = NoCall
  /\ UNCHANGED answered
Rejecting ==
  /\ call.stage = "idle"
  /\ \E task \in TaskIds :
       /\ pending_proposals.held[task] \in {"pending_approval", "approved"}
       /\ Held(task, "rejected")
  /\ UNCHANGED <<call, answered>>
Submitting ==
  /\ call.stage = "save" /\ Entered(call.task, "submitted", call.hash)
  /\ call' = NoCall
  /\ answered' = answered \cup {call.task}
Canceling ==
  /\ call.stage = "mark" /\ InTable(call.task)
  /\ Entered(call.task, "canceled", pending_proposals.task[call.task].hash)
  /\ call' = NoCall
  /\ UNCHANGED answered
Dropping ==
  /\ call.stage = "idle"
  /\ \E task \in TaskIds :
       /\ InTable(task)
       /\ Entered(task, "rejected", pending_proposals.task[task].hash)
  /\ UNCHANGED <<call, answered>>

\* Steps that change the transfers, and a crash.
Transferring ==
  /\ call.stage = "pay"
  /\ Calling("await", call.task, call.approved, next_pay, call.hash)
  /\ payments' = [payments EXCEPT ![next_pay] = [status |-> "inflight", task |-> call.task]]
  /\ next_pay' = next_pay + 1
Ending ==
  /\ \E p \in PayIds, status \in {"settled", "refused"} :
       /\ payments[p].status = "inflight"
       /\ payments' = [payments EXCEPT ![p].status = status]
  /\ UNCHANGED <<call, next_pay>>
Restarting ==
  /\ pending_proposals' = saved_pending
  /\ call' = NoCall
  /\ UNCHANGED <<saved_pending, saveFailures, answered, next_task, next_pay, payments>>

CallStep ==
  /\ Starting \/ Entering \/ Moving \/ Returning \/ Requesting \/ Passing \/ Replying \/ Failing
     \/ Idling
  /\ UNCHANGED <<table, answered, next_pay, payments>>
  /\ saveFailures' \in {saveFailures, saveFailures + 1}
HeldStep == Holding \/ Approving \/ Finishing \/ Rejecting
EntryStep == Submitting \/ Canceling \/ Dropping
TableStep == (HeldStep \/ EntryStep) /\ Saved /\ UNCHANGED <<next_task, next_pay, payments>>
PaymentStep ==
  /\ Transferring \/ Ending
  /\ UNCHANGED <<table, saveFailures, answered, next_task>>

Step == CallStep \/ TableStep \/ PaymentStep \/ Restarting

LEMMA StageCall ==
  ASSUME Typed, NEW stage \in Stages, call' = [call EXCEPT !.stage = stage]
  PROVE  Calling(stage, call.task, call.approved, call.pay, call.hash)
<1>1. call \in Calls
  BY DEF Typed, TypeOK
<1>2. ASSUME NEW c \in Calls, call' = [c EXCEPT !.stage = stage]
      PROVE  Calling(stage, c.task, c.approved, c.pay, c.hash)
  BY <1>2, Zenon DEF Calls, Calling
<1> QED
  BY <1>1, <1>2, Zenon

LEMMA CallSteps ==
  ASSUME Typed,
         \/ \E priced \in BOOLEAN : Task(priced)
         \/ \E task \in TaskIds : Subscribe(task) \/ Cancel(task)
         \/ ConfigureConvo \/ SendRequest \/ PassGate \/ WalletReply \/ WalletThrows
         \/ SubscribeTopic \/ NotifyPeer \/ Unsubscribe \/ ForgetTopic \/ RememberTopic
         \/ MarkCanceled /\ ~InTable(call.task)
         \/ UNCHANGED vars
  PROVE  CallStep
<1> USE DEF table, ids, outside, settings
<1>0. saveFailures' \in {saveFailures, saveFailures + 1}
  BY Zenon DEF Task, Subscribe, Cancel, Enter, ConfigureConvo, SendRequest, PassGate, WalletReply,
       WalletThrows, SubscribeTopic, NotifyPeer, Unsubscribe, ForgetTopic, RememberTopic,
       MarkCanceled, vars, Save
<1>1. CASE \E priced \in BOOLEAN : Task(priced)
  <2>1. UNCHANGED <<table, answered, next_pay, payments>> /\ next_task' = next_task + 1
    BY <1>1, Zenon DEF Task
  <2> QED
    BY <1>0, <1>1, <2>1, TaskCall, Zenon DEF CallStep, Starting
<1>2. CASE \E task \in TaskIds : Subscribe(task) \/ Cancel(task)
  <2>1. UNCHANGED <<table, answered, next_task, next_pay, payments>>
    BY <1>2, Zenon DEF Subscribe, Cancel, Enter
  <2>2. /\ call.stage = "idle"
        /\ \E task \in 1..next_task - 1, stage \in {"topic", "notify"} :
             Calling(stage, task, FALSE, 0, FALSE)
    BY <1>2, EnterCall, Zenon DEF Other
  <2> QED
    BY <1>0, <2>1, <2>2, Zenon DEF CallStep, Entering
<1>3. CASE ConfigureConvo
  BY <1>0, <1>3, Zenon DEF ConfigureConvo, CallStep, Idling
<1>4. CASE SendRequest
  <2>1. call.stage = "request" /\ UNCHANGED <<table, answered, next_task, next_pay, payments>>
    BY <1>4, Zenon DEF SendRequest
  <2>2. CASE AfterRequest /\ (requests' = requests \cup {call.task} \/ Refuse)
    <3>1. PICK stage \in {"gate", "save"} : call' = [call EXCEPT !.stage = stage]
      BY <2>2 DEF AfterRequest
    <3>2. Calling(stage, call.task, call.approved, call.pay, call.hash)
      BY <3>1, StageCall DEF Stages
    <3>3. call.task \in requests' \/ refusals' > 0
      BY <2>2 DEF Refuse, Typed, TypeOK
    <3> QED
      BY <1>0, <2>1, <3>2, <3>3, Zenon DEF CallStep, Requesting
  <2>3. CASE Throw
    BY <1>0, <2>1, <2>3, Zenon DEF Throw, CallStep, Returning
  <2> QED
    BY <1>4, <2>2, <2>3, Zenon DEF SendRequest
<1>5. CASE PassGate
  <2>1. Calling("pay", call.task, call.approved, call.pay, call.hash)
    BY <1>5, StageCall DEF PassGate, Stages
  <2> QED
    BY <1>0, <1>5, <2>1, Zenon DEF PassGate, CallStep, Passing
<1>6. CASE WalletReply
  <2>1. After(payments[call.pay].status = "settled")
    BY <1>6, PaidCall, Zenon DEF WalletReply, After
  <2> QED
    BY <1>0, <1>6, <2>1, Zenon DEF WalletReply, CallStep, Replying
<1>7. CASE WalletThrows
  <2>1. After(FALSE)
    BY <1>7, PaidCall, Zenon DEF WalletThrows, After
  <2>2. throws' > 0
    BY <1>7 DEF WalletThrows, Typed, TypeOK
  <2> QED
    BY <1>0, <1>7, <2>1, <2>2, Zenon DEF WalletThrows, CallStep, Failing
<1>8. CASE SubscribeTopic \/ NotifyPeer \/ Unsubscribe \/ ForgetTopic
  <2>1. call.stage \in Other /\ UNCHANGED <<table, answered, next_task, next_pay, payments>>
    BY <1>8, Zenon DEF SubscribeTopic, NotifyPeer, Unsubscribe, ForgetTopic, Other
  <2>2. (\E stage \in Other : call' = [call EXCEPT !.stage = stage]) \/ call' = NoCall
    <3>1. \/ call' = [call EXCEPT !.stage = "remember"] \/ call' = [call EXCEPT !.stage = "forget"]
          \/ call' = [call EXCEPT !.stage = "mark"] \/ call' = NoCall
          \/ call' = [call EXCEPT !.stage = IF call.task \in config.subs THEN "unsubscribe" ELSE "mark"]
      BY <1>8, Zenon DEF SubscribeTopic, NotifyPeer, Unsubscribe, ForgetTopic, AfterNotice, Throw
    <3> QED
      BY <3>1 DEF Other
  <2>3. ASSUME NEW stage \in Other, call' = [call EXCEPT !.stage = stage]
        PROVE  Calling(stage, call.task, call.approved, call.pay, call.hash)
    BY <2>3, StageCall DEF Other, Stages
  <2> QED
    BY <1>0, <2>1, <2>2, <2>3, Zenon DEF CallStep, Moving, Returning
<1>9. CASE RememberTopic \/ (MarkCanceled /\ ~InTable(call.task))
  BY <1>0, <1>9, Zenon DEF RememberTopic, MarkCanceled, CallStep, Returning
<1>10. CASE UNCHANGED vars
  BY <1>0, <1>10, Zenon DEF vars, CallStep, Idling
<1> QED
  BY <1>1, <1>2, <1>3, <1>4, <1>5, <1>6, <1>7, <1>8, <1>9, <1>10

LEMMA TableSteps ==
  ASSUME Typed,
         \/ \E task \in TaskIds : ApprovePayment(task) \/ RejectPayment(task) \/ RejectTask(task)
         \/ HoldPayment \/ SaveTask \/ FinishPayment
         \/ MarkCanceled /\ InTable(call.task)
  PROVE  TableStep
<1> USE DEF table, ids, outside
<1>1. call.stage # "idle" => call.task \in TaskIds
  BY TasksAssumption, SMT DEF Typed, TypeOK, CallBounds, TaskIds
<1>2. Saved /\ UNCHANGED <<next_task, next_pay, payments>>
  BY Saving, Zenon DEF ApprovePayment, RejectPayment, RejectTask, Reject, HoldPayment, SaveTask,
       FinishPayment, MarkCanceled
<1>3. CASE \E task \in TaskIds : ApprovePayment(task)
  <2>1. PICK task \in TaskIds : ApprovePayment(task)
    BY <1>3
  <2> QED
    BY <1>2, <2>1, ApproveCall, Zenon DEF ApprovePayment, TableStep, HeldStep, Approving
<1>4. CASE \E task \in TaskIds : RejectPayment(task)
  <2>1. PICK task \in TaskIds : RejectPayment(task)
    BY <1>4
  <2>2. Held(task, "rejected")
    BY <2>1, HeldTable DEF RejectPayment, Reject
  <2> QED
    BY <1>2, <2>1, <2>2, Zenon DEF RejectPayment, Reject, TableStep, HeldStep, Rejecting
<1>5. CASE \E task \in TaskIds : RejectTask(task)
  <2>1. PICK task \in TaskIds : RejectTask(task)
    BY <1>5
  <2>2. Entered(task, "rejected", pending_proposals.task[task].hash)
    BY <2>1, StatusTable DEF RejectTask, Reject
  <2>3. InTable(task)
    BY <2>1 DEF RejectTask, InTable
  <2> QED
    BY <1>2, <2>1, <2>2, <2>3, Zenon DEF RejectTask, Reject, TableStep, EntryStep, Dropping
<1>6. CASE HoldPayment
  <2>1. Held(call.task, "pending_approval")
    BY <1>1, <1>6, HeldTable DEF HoldPayment
  <2>2. Calling("save", call.task, call.approved, call.pay, call.hash)
    BY <1>6, StageCall DEF HoldPayment, Stages
  <2> QED
    BY <1>2, <1>6, <2>1, <2>2, Zenon DEF HoldPayment, TableStep, HeldStep, Holding
<1>7. CASE SaveTask
  <2>1. call.hash \in BOOLEAN
    BY DEF Typed, TypeOK, Calls
  <2>2. Entered(call.task, "submitted", call.hash)
    BY <1>1, <1>7, <2>1, EnteredTable DEF SaveTask
  <2> QED
    BY <1>2, <1>7, <2>2, Zenon DEF SaveTask, TableStep, EntryStep, Submitting
<1>8. CASE FinishPayment
  <2>1. Held(call.task, "executed")
    BY <1>1, <1>8, HeldTable DEF FinishPayment
  <2> QED
    BY <1>2, <1>8, <2>1, Zenon DEF FinishPayment, TableStep, HeldStep, Finishing
<1>9. CASE MarkCanceled /\ InTable(call.task)
  <2>1. Entered(call.task, "canceled", pending_proposals.task[call.task].hash)
    BY <1>1, <1>9, StatusTable DEF MarkCanceled
  <2> QED
    BY <1>2, <1>9, <2>1, Zenon DEF MarkCanceled, TableStep, EntryStep, Canceling
<1> QED
  BY <1>3, <1>4, <1>5, <1>6, <1>7, <1>8, <1>9

LEMMA Stepping ==
  ASSUME Typed, [Next]_vars
  PROVE  Step
<1> USE DEF table, ids, outside
<1>1. CASE Pay
  <2>1. Calling("await", call.task, call.approved, next_pay, call.hash)
    BY <1>1, PayCall
  <2> QED
    BY <1>1, <2>1, Zenon DEF Pay, Step, PaymentStep, Transferring
<1>2. CASE WalletStep
  BY <1>2, Zenon DEF WalletStep, EndPayment, Step, PaymentStep, Ending
<1>3. CASE CrashRestart
  BY <1>3, Zenon DEF CrashRestart, Step, Restarting
<1>4. CASE \/ \E priced \in BOOLEAN : Task(priced)
           \/ \E task \in TaskIds : Subscribe(task) \/ Cancel(task)
           \/ ConfigureConvo \/ SendRequest \/ PassGate \/ WalletReply \/ WalletThrows
           \/ SubscribeTopic \/ NotifyPeer \/ Unsubscribe \/ ForgetTopic \/ RememberTopic
           \/ MarkCanceled /\ ~InTable(call.task)
           \/ UNCHANGED vars
  BY <1>4, CallSteps, Zenon DEF Step
<1>5. CASE \/ \E task \in TaskIds : ApprovePayment(task) \/ RejectPayment(task) \/ RejectTask(task)
           \/ HoldPayment \/ SaveTask \/ FinishPayment
           \/ MarkCanceled /\ InTable(call.task)
  BY <1>5, TableSteps, Zenon DEF Step
<1> QED
  BY <1>1, <1>2, <1>3, <1>4, <1>5, Zenon DEF Next, Caller, Owner, AgentStep

(***************************************************************************)
(* Types, one group of variables at a time.                                *)
(***************************************************************************)

LEMMA CounterTypes ==
  ASSUME Typed, [Next]_vars
  PROVE  /\ crashes' \in crashes..MaxFaults /\ throws' \in throws..MaxFaults
         /\ refusals' \in refusals..MaxFaults /\ saveFailures' \in saveFailures..MaxFaults
         /\ Faults' <= MaxFaults
<1> USE TasksAssumption
<1>1. CASE HoldPayment
  BY <1>1, SMTT(20) DEF HoldPayment, Typed, TypeOK, Faults, Faulty, Save, table
<1>2. CASE SaveTask
  BY <1>2, SMTT(20) DEF SaveTask, Typed, TypeOK, Faults, Faulty, Save, table
<1>3. CASE RememberTopic
  BY <1>3, SMTT(20) DEF RememberTopic, Typed, TypeOK, Faults, Faulty, Save, table
<1>4. CASE ForgetTopic
  BY <1>4, SMTT(20) DEF ForgetTopic, Typed, TypeOK, Faults, Faulty, Save, table
<1>5. CASE MarkCanceled
  BY <1>5, SMTT(20) DEF MarkCanceled, InTable, Typed, TypeOK, Faults, Faulty, Save, table
<1>6. CASE FinishPayment
  BY <1>6, SMTT(20) DEF FinishPayment, Typed, TypeOK, Faults, Faulty, Save, table
<1>7. CASE \E t \in TaskIds : ApprovePayment(t)
  BY <1>7, SMTT(20) DEF ApprovePayment, Typed, TypeOK, Faults, Faulty, Save, table
<1>8. CASE \E t \in TaskIds : RejectPayment(t)
  BY <1>8, SMTT(20) DEF RejectPayment, Reject, Typed, TypeOK, Faults, Faulty, Save, table
<1>9. CASE \E t \in TaskIds : RejectTask(t)
  BY <1>9, SMTT(20) DEF RejectTask, Reject, Typed, TypeOK, Faults, Faulty, Save, table
<1>10. CASE ConfigureConvo
  BY <1>10, SMTT(20) DEF ConfigureConvo, Typed, TypeOK, Faults, Faulty, Save, table
<1>11. CASE SendRequest
  BY <1>11, SMTT(20) DEF SendRequest, Refuse, Throw, AfterRequest, Typed, TypeOK, Faults, Faulty,
       Save, table
<1>12. CASE SubscribeTopic
  BY <1>12, SMTT(20) DEF SubscribeTopic, Refuse, Throw, Typed, TypeOK, Faults, Faulty, Save, table
<1>13. CASE NotifyPeer
  BY <1>13, SMTT(20) DEF NotifyPeer, AfterNotice, Refuse, Throw, Typed, TypeOK, Faults, Faulty,
       Save, table
<1>14. CASE Unsubscribe
  BY <1>14, SMTT(20) DEF Unsubscribe, Refuse, Throw, Typed, TypeOK, Faults, Faulty, Save, table
<1>15. CASE WalletThrows
  BY <1>15, SMTT(20) DEF WalletThrows, Paid, Typed, TypeOK, Faults, Faulty, Save, table
<1>16. CASE CrashRestart
  BY <1>16, SMTT(20) DEF CrashRestart, Typed, TypeOK, Faults, Faulty, Save, table
<1>17. CASE (\E priced \in BOOLEAN : Task(priced)) \/ (\E t \in TaskIds : Subscribe(t))
       \/ (\E t \in TaskIds : Cancel(t)) \/ PassGate \/ Pay \/ WalletReply \/ WalletStep
       \/ UNCHANGED vars
  <2>1. UNCHANGED <<crashes, throws, refusals, saveFailures>>
    BY <1>17, Zenon DEF Task, Subscribe, Enter, Cancel, PassGate, Pay, WalletReply, Paid,
         WalletStep, EndPayment, vars, table, settings, ids, outside
  <2> QED
    BY <2>1, SMT DEF Typed, TypeOK, Faults, Faulty, Save, table
<1> QED
  BY <1>1, <1>2, <1>3, <1>4, <1>5, <1>6, <1>7, <1>8, <1>9, <1>10, <1>11, <1>12, <1>13, <1>14,
         <1>15, <1>16, <1>17 DEF Next, Caller, Owner, AgentStep, WalletStep

LEMMA ConfigTypes ==
  ASSUME Typed, [Next]_vars
  PROVE  config' \in Configs /\ saved_config' \in Configs
<1> USE EntryTypes, TasksAssumption
<1>1. CASE RememberTopic
  BY <1>1, SMTT(20) DEF RememberTopic, Typed, TypeOK, CallBounds, Save, settings, Configs, TaskIds
<1>2. CASE ForgetTopic
  BY <1>2, SMTT(20) DEF ForgetTopic, Typed, TypeOK, CallBounds, Save, settings, Configs, TaskIds
<1>3. CASE ConfigureConvo
  <2>1. config \in Configs /\ NoConfig \in Configs
    BY <1>3, EntryTypes DEF ConfigureConvo, Typed, TypeOK, CallBounds, TaskIds
  <2>2. ASSUME NEW c \in Configs PROVE [c EXCEPT !.convo = TRUE] \in Configs
    BY <2>2, Zenon DEF Configs
  <2>3. config' \in Configs
    BY <1>3, <2>1, <2>2, Zenon DEF ConfigureConvo
  <2>4. saved_config' \in {config', saved_config, NoConfig}
    BY <1>3, Zenon DEF ConfigureConvo, Save
  <2> QED
    BY <2>1, <2>3, <2>4, SMT DEF Typed, TypeOK
<1>4. CASE CrashRestart
  BY <1>4, SMTT(20) DEF CrashRestart, Typed, TypeOK, CallBounds, Save, settings, Configs, TaskIds
<1>5. CASE (\E priced \in BOOLEAN : Task(priced)) \/ (\E t \in TaskIds : Subscribe(t))
       \/ (\E t \in TaskIds : Cancel(t)) \/ (\E t \in TaskIds : ApprovePayment(t))
       \/ (\E t \in TaskIds : RejectPayment(t)) \/ (\E t \in TaskIds : RejectTask(t))
       \/ SendRequest \/ PassGate \/ HoldPayment \/ Pay \/ WalletReply \/ SaveTask
       \/ SubscribeTopic \/ NotifyPeer \/ Unsubscribe \/ MarkCanceled \/ FinishPayment
       \/ WalletStep \/ WalletThrows \/ UNCHANGED vars
  <2>1. UNCHANGED settings
    BY <1>5, Zenon DEF Task, Subscribe, Enter, Cancel, ApprovePayment, RejectPayment, Reject,
         RejectTask, SendRequest, Refuse, Throw, AfterRequest, PassGate, HoldPayment, Pay,
         WalletReply, Paid, SaveTask, SubscribeTopic, NotifyPeer, AfterNotice, Unsubscribe,
         MarkCanceled, InTable, FinishPayment, WalletStep, EndPayment, WalletThrows, vars, table,
         settings, ids, outside
  <2> QED
    BY <2>1, SMT DEF Typed, TypeOK, CallBounds, Save, settings, Configs, TaskIds
<1> QED
  BY <1>1, <1>2, <1>3, <1>4, <1>5 DEF Next, Caller, Owner, AgentStep, WalletStep

LEMMA SetTypes ==
  ASSUME Typed, [Next]_vars
  PROVE  /\ requests' \in SUBSET TaskIds /\ requests \subseteq requests'
         /\ cancels' \in SUBSET TaskIds /\ topics' \in SUBSET TaskIds
<1> USE TasksAssumption
<1>1. CASE SendRequest
  BY <1>1, SMTT(20) DEF SendRequest, Refuse, Throw, AfterRequest, Typed, TypeOK, CallBounds,
       outside, TaskIds
<1>2. CASE SubscribeTopic
  BY <1>2, SMTT(20) DEF SubscribeTopic, Refuse, Throw, Typed, TypeOK, CallBounds, outside, TaskIds
<1>3. CASE NotifyPeer
  BY <1>3, SMTT(20) DEF NotifyPeer, AfterNotice, Refuse, Throw, Typed, TypeOK, CallBounds,
       outside, TaskIds
<1>4. CASE Unsubscribe
  BY <1>4, SMTT(20) DEF Unsubscribe, Refuse, Throw, Typed, TypeOK, CallBounds, outside, TaskIds
<1>5. CASE (\E priced \in BOOLEAN : Task(priced)) \/ (\E t \in TaskIds : Subscribe(t))
       \/ (\E t \in TaskIds : Cancel(t)) \/ (\E t \in TaskIds : ApprovePayment(t))
       \/ (\E t \in TaskIds : RejectPayment(t)) \/ (\E t \in TaskIds : RejectTask(t))
       \/ ConfigureConvo \/ PassGate \/ HoldPayment \/ Pay \/ WalletReply \/ SaveTask
       \/ RememberTopic \/ ForgetTopic \/ MarkCanceled \/ FinishPayment \/ WalletStep
       \/ WalletThrows \/ CrashRestart \/ UNCHANGED vars
  <2>1. UNCHANGED <<requests, cancels, topics>>
    BY <1>5, Zenon DEF Task, Subscribe, Enter, Cancel, ApprovePayment, RejectPayment, Reject,
         RejectTask, ConfigureConvo, PassGate, HoldPayment, Pay, WalletReply, Paid, SaveTask,
         RememberTopic, ForgetTopic, MarkCanceled, InTable, FinishPayment, WalletStep, EndPayment,
         WalletThrows, CrashRestart, vars, table, settings, ids, outside
  <2> QED
    BY <2>1, SMT DEF Typed, TypeOK, CallBounds, outside, TaskIds
<1> QED
  BY <1>1, <1>2, <1>3, <1>4, <1>5 DEF Next, Caller, Owner, AgentStep, WalletStep

\* What the call in progress is about.
LEMMA CallTask ==
  ASSUME Typed, call.stage # "idle"
  PROVE  call.task \in TaskIds /\ call.task \in 1..next_task - 1
BY TasksAssumption, SMT DEF Typed, TypeOK, CallBounds, TaskIds

LEMMA CallPay ==
  ASSUME Typed, call.stage = "await"
  PROVE  call.pay \in PayIds
BY TasksAssumption, SMT DEF Typed, TypeOK, CallBounds, PayIds

LEMMA IdTypes ==
  ASSUME Typed, Step
  PROVE  next_task' \in next_task..MaxTasks + 1 /\ next_pay' \in next_pay..MaxPays + 1
<1> USE TasksAssumption DEF Typed, TypeOK
<1>1. CASE CallStep
  <2>1. /\ UNCHANGED next_pay
        /\ UNCHANGED next_task \/ (next_task <= MaxTasks /\ next_task' = next_task + 1)
    BY <1>1, Zenon DEF CallStep, Starting, Entering, Moving, Returning, Requesting, Passing,
         Replying, Failing, Idling
  <2> QED
    BY <2>1, SMT
<1>2. CASE TableStep \/ Restarting
  BY <1>2, SMT DEF TableStep, Restarting
<1>3. CASE PaymentStep
  BY <1>3, SMT DEF PaymentStep, Transferring, Ending, CallBounds
<1> QED
  BY <1>1, <1>2, <1>3 DEF Step

LEMMA TableTypes ==
  ASSUME Typed, Step
  PROVE  pending_proposals' \in Tables /\ saved_pending' \in Tables
<1>1. CASE TableStep
  <2>1. pending_proposals' \in Tables
    BY <1>1, Zenon DEF TableStep, HeldStep, Holding, Approving, Finishing, Rejecting, EntryStep,
         Submitting, Canceling, Dropping, Held, Entered
  <2> QED
    BY <1>1, <2>1, EntryTypes DEF TableStep, Saved, Typed, TypeOK
<1>2. CASE CallStep \/ PaymentStep \/ Restarting
  BY <1>2 DEF CallStep, PaymentStep, Restarting, table, Typed, TypeOK
<1> QED
  BY <1>1, <1>2 DEF Step

LEMMA PaymentTypes ==
  ASSUME Typed, Step
  PROVE  payments' \in [PayIds -> Payments]
<1>1. payments \in [PayIds -> Payments]
  BY DEF Typed, TypeOK
<1>2. CASE Transferring
  <2>1. call.task \in 0..MaxTasks
    BY <1>2, CallTask DEF Transferring, TaskIds
  <2>2. [status |-> "inflight", task |-> call.task] \in Payments
    BY <2>1 DEF Payments
  <2> QED
    BY <1>1, <1>2, <2>2 DEF Transferring
<1>3. CASE Ending
  <2>1. PICK p \in PayIds, status \in {"settled", "refused"} :
          payments' = [payments EXCEPT ![p].status = status]
    BY <1>3 DEF Ending
  <2>2. [payments[p] EXCEPT !.status = status] \in Payments
    BY <1>1, Zenon DEF Payments
  <2> QED
    BY <1>1, <2>1, <2>2
<1>4. CASE CallStep \/ TableStep \/ Restarting
  BY <1>1, <1>4 DEF CallStep, TableStep, Restarting
<1> QED
  BY <1>2, <1>3, <1>4 DEF Step, PaymentStep

LEMMA AnsweredType ==
  ASSUME Typed, Step
  PROVE  /\ answered' \in SUBSET TaskIds
         /\ \A task \in answered' : task \in answered \/ (Submitting /\ task = call.task)
<1> USE DEF Typed, TypeOK
<1>1. CASE Submitting
  BY <1>1, CallTask DEF Submitting
<1>2. CASE TableStep /\ ~Submitting
  BY <1>2 DEF TableStep, HeldStep, Holding, Approving, Finishing, Rejecting, EntryStep, Canceling,
       Dropping
<1>3. CASE CallStep \/ PaymentStep \/ Restarting
  BY <1>3 DEF CallStep, PaymentStep, Restarting
<1> QED
  BY <1>1, <1>2, <1>3 DEF Step

LEMMA CallTypes ==
  ASSUME Typed, Step
  PROVE  call' \in Calls /\ CallBounds'
<1> USE EntryTypes DEF Calling, CallBounds, Typed, TypeOK
<1>1. CASE CallStep
  BY <1>1, SMTT(60) DEF CallStep, Starting, Entering, Moving, Returning, Requesting, Passing,
       Replying, Failing, Idling, After, Other
<1>2. CASE TableStep
  <2>1. CASE Approving
    <3>1. PICK task \in TaskIds :
            pending_proposals.held[task] = "pending_approval" /\ Calling("pay", task, TRUE, 0, FALSE)
      BY <2>1, Zenon DEF Approving
    <3>2. task \in 1..next_task - 1
      BY <3>1, SMT DEF Fresh, TaskIds
    <3> QED
      BY <1>2, <2>1, <3>1, <3>2, SMT DEF Approving, TableStep
  <2>2. CASE ~Approving
    BY <1>2, <2>2, SMTT(60) DEF TableStep, HeldStep, Holding, Finishing, Rejecting, EntryStep,
         Submitting, Canceling, Dropping
  <2> QED
    BY <2>1, <2>2
<1>3. CASE PaymentStep
  BY <1>3, SMTT(60) DEF PaymentStep, Transferring, Ending
<1>4. CASE Restarting
  BY <1>4, SMT DEF Restarting
<1> QED
  BY <1>1, <1>2, <1>3, <1>4 DEF Step

\* A step that changes the proposals changes the entries of one task alone.
Leaves(t) ==
  /\ pending_proposals'.held[t] = pending_proposals.held[t]
  /\ pending_proposals'.task[t] = pending_proposals.task[t]

LEMMA HeldLeaves ==
  ASSUME Typed, NEW task \in TaskIds, NEW held, Held(task, held)
  PROVE  /\ \A t \in TaskIds : t # task => Leaves(t)
         /\ pending_proposals'.held[task] = held
         /\ pending_proposals'.task = pending_proposals.task
BY SMT DEF Typed, TypeOK, Tables, Held, Leaves

LEMMA EnteredLeaves ==
  ASSUME Typed, NEW task \in TaskIds, NEW status, NEW hash, Entered(task, status, hash)
  PROVE  /\ \A t \in TaskIds : t # task => Leaves(t)
         /\ pending_proposals'.task[task].status = status
         /\ pending_proposals'.task[task].hash = hash
         /\ pending_proposals'.held = pending_proposals.held
BY SMT DEF Typed, TypeOK, Tables, Entered, Leaves

LEMMA FreshLeaves ==
  ASSUME Typed, TableStep, NEW t \in TaskIds, t >= next_task
  PROVE  Leaves(t)
<1>1. pending_proposals.held[t] = "none" /\ pending_proposals.task[t].status = "none"
  BY DEF Typed, Fresh
<1>2. call.stage # "idle" => call.task \in TaskIds /\ call.task # t
  BY CallTask, SMT DEF Typed, TypeOK, TaskIds
<1>3. CASE Holding \/ Finishing
  BY <1>2, <1>3, HeldLeaves DEF Holding, Finishing
<1>4. CASE Approving \/ Rejecting
  BY <1>1, <1>4, HeldLeaves DEF Approving, Rejecting
<1>5. CASE Submitting \/ Canceling
  BY <1>2, <1>5, EnteredLeaves DEF Submitting, Canceling
<1>6. CASE Dropping
  BY <1>1, <1>6, EnteredLeaves DEF Dropping, InTable
<1> QED
  BY <1>3, <1>4, <1>5, <1>6, Zenon DEF TableStep, HeldStep, EntryStep

LEMMA FreshNext ==
  ASSUME Typed, Step
  PROVE  Fresh'
<1>1. next_task' >= next_task /\ next_task' \in Int /\ next_task \in Int
  BY IdTypes DEF Typed, TypeOK
<1> SUFFICES ASSUME NEW t \in TaskIds, t >= next_task'
             PROVE  /\ pending_proposals'.held[t] = "none" /\ saved_pending'.held[t] = "none"
                    /\ pending_proposals'.task[t].status = "none"
                    /\ saved_pending'.task[t].status = "none"
                    /\ t \notin answered'
  BY DEF Fresh
<1>2. t >= next_task
  BY <1>1, SMT DEF TaskIds
<1>3. /\ pending_proposals.held[t] = "none" /\ saved_pending.held[t] = "none"
      /\ pending_proposals.task[t].status = "none" /\ saved_pending.task[t].status = "none"
      /\ t \notin answered
  BY <1>2 DEF Typed, Fresh
<1>4. t \notin answered'
  <2>1. call.stage # "idle" => t # call.task
    BY <1>2, CallTask, SMT DEF Typed, TypeOK, TaskIds
  <2> QED
    BY <1>3, <2>1, AnsweredType DEF Submitting
<1>5. CASE TableStep
  <2>1. Leaves(t)
    BY <1>2, <1>5, FreshLeaves
  <2>2. NoTable.held[t] = "none" /\ NoTable.task[t].status = "none"
    BY EntryTypes
  <2> QED
    BY <1>3, <1>4, <1>5, <2>1, <2>2 DEF Leaves, Saved, TableStep
<1>6. CASE Restarting
  BY <1>3, <1>4, <1>6 DEF Restarting
<1>7. CASE CallStep \/ PaymentStep
  BY <1>3, <1>4, <1>7 DEF CallStep, PaymentStep, table
<1> QED
  BY <1>5, <1>6, <1>7 DEF Step

LEMMA TypedNext == Typed /\ [Next]_vars => Typed'
<1> SUFFICES ASSUME Typed, [Next]_vars PROVE Typed'
  OBVIOUS
<1>1. Step
  BY Stepping
<1>2. next_task' \in 1..MaxTasks + 1 /\ next_pay' \in 1..MaxPays + 1
  BY <1>1, IdTypes, TasksAssumption DEF Typed, TypeOK
<1>3. /\ crashes' \in 0..MaxFaults /\ throws' \in 0..MaxFaults
      /\ refusals' \in 0..MaxFaults /\ saveFailures' \in 0..MaxFaults
  BY CounterTypes, TasksAssumption DEF Typed, TypeOK
<1> QED
  BY <1>1, <1>2, <1>3, CounterTypes, TableTypes, ConfigTypes, PaymentTypes, SetTypes,
       AnsweredType, CallTypes, FreshNext, Zenon DEF Typed, TypeOK

LEMMA AlwaysTyped == Spec => []Typed
<1>1. Init => Typed
  BY TypedInit
<1>2. Typed /\ [Next]_vars => Typed'
  BY TypedNext
<1> QED
  BY <1>1, <1>2, PTL DEF Spec

\* Every variable keeps its type, whatever agent_task, agent_subscribe, agent_cancel, the owner,
\* the wallet and the faults do.
THEOREM TasksTypeCorrect == Spec => []TypeOK
<1>1. Typed => TypeOK
  BY DEF Typed
<1> QED
  BY <1>1, AlwaysTyped, PTL

(***************************************************************************)
(* Transfers, and the hashes that speak of them.                           *)
(***************************************************************************)

\* A transfer is one of a task that has an identity, and the one a call waits for is its task's.
Transfers ==
  /\ \A p \in PayIds : p >= next_pay => payments[p].status = "none"
  /\ \A p \in PayIds : payments[p].status # "none" => payments[p].task \in 1..next_task - 1
  /\ call.stage = "await" =>
       payments[call.pay].status # "none" /\ payments[call.pay].task = call.task

Settled(task) == \E p \in PaymentsOf(task) : payments[p].status = "settled"

Hashes == HashIsTrue /\ (call.hash => Settled(call.task))

\* A transfer that was made stays, and one that has ended stays as it is.
LEMMA TransfersStay ==
  ASSUME Typed, Transfers, Step, NEW p \in PayIds, payments[p].status # "none"
  PROVE  /\ payments'[p].status # "none" /\ payments'[p].task = payments[p].task
         /\ payments[p].status \in {"settled",
                "refused"} => payments'[p].status = payments[p].status
<1>1. payments \in [PayIds -> Payments] /\ payments[p] \in Payments
  BY DEF Typed, TypeOK
<1>2. CASE Transferring
  <2>1. p # next_pay
    BY SMT DEF Transfers, Typed, TypeOK, PayIds
  <2> QED
    BY <1>1, <1>2, <2>1 DEF Transferring
<1>3. CASE Ending
  <2>1. PICK q \in PayIds, status \in {"settled", "refused"} :
          payments[q].status = "inflight" /\ payments' = [payments EXCEPT ![q].status = status]
    BY <1>3 DEF Ending
  <2>2. [payments[q] EXCEPT !.status = status].status = status
        /\ [payments[q] EXCEPT !.status = status].task = payments[q].task
    BY <1>1, Zenon DEF Payments
  <2> QED
    BY <1>1, <2>1, <2>2
<1>4. CASE CallStep \/ TableStep \/ Restarting
  BY <1>4 DEF CallStep, TableStep, Restarting
<1> QED
  BY <1>2, <1>3, <1>4 DEF Step, PaymentStep

\* Only Pay makes a transfer, of the task it is about.
LEMMA TransfersCome ==
  ASSUME Typed, Transfers, Step, NEW p \in PayIds, payments[p].status = "none"
  PROVE  /\ ~(Transferring /\ p = next_pay) => payments'[p].status = "none"
         /\ Transferring /\ p = next_pay => payments'[p] = [status |-> "inflight",
                task |-> call.task]
<1>1. payments \in [PayIds -> Payments] /\ payments[p] \in Payments
  BY DEF Typed, TypeOK
<1>2. CASE Transferring
  BY <1>1, <1>2 DEF Transferring
<1>3. CASE Ending
  <2>1. PICK q \in PayIds, status \in {"settled", "refused"} :
          payments[q].status = "inflight" /\ payments' = [payments EXCEPT ![q].status = status]
    BY <1>3 DEF Ending
  <2>2. ~Transferring
    BY <1>3 DEF Ending, Transferring, Typed, TypeOK
  <2> QED
    BY <1>1, <2>1, <2>2
<1>4. CASE CallStep \/ TableStep \/ Restarting
  <2>1. ~Transferring
    BY <1>4 DEF CallStep, TableStep, Restarting, Transferring, Typed, TypeOK
  <2> QED
    BY <1>4, <2>1 DEF CallStep, TableStep, Restarting
<1> QED
  BY <1>2, <1>3, <1>4 DEF Step, PaymentStep

LEMMA PaymentsChange ==
  ASSUME Typed, Transfers, Step, NEW task \in TaskIds
  PROVE  /\ Transferring /\ task = call.task => PaymentsOf(task)' = PaymentsOf(task) \cup {next_pay}
         /\ ~(Transferring /\ task = call.task) => PaymentsOf(task)' = PaymentsOf(task)
<1>1. Transferring => next_pay \in PayIds /\ payments[next_pay].status = "none"
  BY SMT DEF Transferring, Transfers, Typed, TypeOK, CallBounds, PayIds
<1>2. ASSUME NEW p \in PayIds
      PROVE  p \in PaymentsOf(task)' <=>
               p \in PaymentsOf(task) \/ (Transferring /\ p = next_pay /\ task = call.task)
  <2>1. CASE payments[p].status = "none"
    BY <1>1, <2>1, TransfersCome DEF PaymentsOf
  <2>2. CASE payments[p].status # "none"
    BY <1>1, <2>2, TransfersStay DEF PaymentsOf
  <2> QED
    BY <2>1, <2>2
<1>3. PaymentsOf(task)' \subseteq PayIds /\ PaymentsOf(task) \subseteq PayIds
  BY DEF PaymentsOf
<1> QED
  BY <1>1, <1>2, <1>3

\* A task that is paid stays paid.
LEMMA SettledStays ==
  ASSUME Typed, Transfers, Step, NEW task \in TaskIds, Settled(task)
  PROVE  Settled(task)'
<1>1. PICK p \in PaymentsOf(task) : payments[p].status = "settled"
  BY DEF Settled
<1>2. p \in PayIds /\ p \in PaymentsOf(task)'
  BY PaymentsChange DEF PaymentsOf
<1>3. payments'[p].status = "settled"
  BY <1>1, <1>2, TransfersStay
<1> QED
  BY <1>2, <1>3 DEF Settled

LEMMA TransfersNext ==
  ASSUME Typed, Transfers, Step
  PROVE  Transfers'
<1>1. /\ next_pay' >= next_pay /\ next_pay' \in Int /\ next_pay \in Int
      /\ next_task' >= next_task /\ next_task' \in Int /\ next_task \in Int
  BY IdTypes DEF Typed, TypeOK
<1>2. ASSUME NEW p \in PayIds, p >= next_pay' PROVE payments'[p].status = "none"
  <2>1. p >= next_pay /\ payments[p].status = "none"
    BY <1>1, <1>2, SMT DEF Transfers, PayIds
  <2>2. ~(Transferring /\ p = next_pay)
    BY <1>1, <1>2, SMT DEF Transferring
  <2> QED
    BY <2>1, <2>2, TransfersCome
<1>3. ASSUME NEW p \in PayIds, payments'[p].status # "none"
      PROVE  payments'[p].task \in 1..next_task' - 1
  <2>1. CASE payments[p].status # "none"
    BY <1>1, <2>1, TransfersStay, SMT DEF Transfers
  <2>2. CASE payments[p].status = "none"
    <3>1. Transferring /\ p = next_pay
      BY <1>3, <2>2, TransfersCome
    <3>2. payments'[p].task = call.task
      BY <2>2, <3>1, TransfersCome
    <3>3. call.task \in 1..next_task - 1
      BY <3>1, CallTask DEF Transferring
    <3> QED
      BY <1>1, <3>2, <3>3, SMT
  <2> QED
    BY <2>1, <2>2
<1>4. ASSUME call'.stage = "await"
      PROVE  payments'[call'.pay].status # "none" /\ payments'[call'.pay].task = call'.task
  <2>1. CASE Transferring
    <3>1. next_pay \in PayIds /\ payments[next_pay].status = "none"
      BY <2>1, SMT DEF Transferring, Transfers, Typed, TypeOK, CallBounds, PayIds
    <3> QED
      BY <2>1, <3>1, TransfersCome DEF Transferring, Calling
  <2>2. CASE UNCHANGED call
    <3>1. call.pay \in PayIds
      BY <1>4, <2>2, CallPay
    <3> QED
      BY <1>4, <2>2, <3>1, TransfersStay DEF Transfers
  <2>3. Transferring \/ UNCHANGED call
    <3>1. CASE CallStep
      BY <1>4, <3>1, EntryTypes DEF CallStep, Starting, Entering, Moving, Returning, Requesting,
           Passing, Replying, Failing, Idling, After, Calling, Other
    <3>2. CASE TableStep
      BY <1>4, <3>2, EntryTypes DEF TableStep, HeldStep, Holding, Approving, Finishing, Rejecting,
           EntryStep, Submitting, Canceling, Dropping, Calling
    <3>3. CASE PaymentStep
      BY <3>3 DEF PaymentStep, Ending
    <3>4. CASE Restarting
      BY <1>4, <3>4, EntryTypes DEF Restarting
    <3> QED
      BY <3>1, <3>2, <3>3, <3>4 DEF Step
  <2> QED
    BY <2>1, <2>2, <2>3
<1> QED
  BY <1>2, <1>3, <1>4 DEF Transfers

LEMMA HashFrom ==
  ASSUME Typed, Step, call'.hash
  PROVE  /\ call.stage # "idle" /\ call'.task = call.task
         /\ call.hash \/ (Replying /\ payments[call.pay].status = "settled")
<1>1. call.hash => call.stage # "idle"
  BY DEF Typed, CallBounds
<1>2. call' # NoCall
  BY EntryTypes
<1>3. CASE CallStep /\ Replying
  <2>1. payments[call.pay].status = "settled" /\ call'.task = call.task
    BY <1>3, Zenon DEF Replying, After, Calling
  <2> QED
    BY <1>3, <2>1 DEF Replying
<1>4. CASE CallStep /\ ~Replying
  <2>1. call.hash /\ call'.task = call.task
    BY <1>2, <1>4, Zenon DEF CallStep, Starting, Entering, Moving, Returning, Requesting, Passing,
         Failing, Idling, After, Calling
  <2> QED
    BY <1>1, <2>1
<1>5. CASE TableStep \/ PaymentStep \/ Restarting
  <2>1. call.hash /\ call'.task = call.task
    BY <1>2, <1>5, Zenon DEF TableStep, HeldStep, Holding, Approving, Finishing, Rejecting,
         EntryStep, Submitting, Canceling, Dropping, PaymentStep, Transferring, Ending,
         Restarting, Calling
  <2> QED
    BY <1>1, <2>1
<1> QED
  BY <1>3, <1>4, <1>5 DEF Step

LEMMA EntryHash ==
  ASSUME Typed, TableStep, NEW task \in TaskIds, pending_proposals'.task[task].hash
  PROVE  pending_proposals.task[task].hash \/ (task = call.task /\ call.hash)
<1>1. call.stage # "idle" => call.task \in TaskIds
  BY CallTask
<1>2. CASE Holding \/ Finishing
  BY <1>1, <1>2, HeldLeaves DEF Holding, Finishing
<1>3. CASE Approving \/ Rejecting
  BY <1>3, HeldLeaves DEF Approving, Rejecting
<1>4. CASE Submitting \/ Canceling
  BY <1>1, <1>4, EnteredLeaves DEF Submitting, Canceling, Leaves
<1>5. CASE Dropping
  BY <1>5, EnteredLeaves DEF Dropping, Leaves
<1> QED
  BY <1>2, <1>3, <1>4, <1>5, Zenon DEF TableStep, HeldStep, EntryStep

LEMMA HashesNext ==
  ASSUME Typed, Transfers, Hashes, Step
  PROVE  Hashes'
<1>1. \A task \in TaskIds : Settled(task) => Settled(task)'
  BY SettledStays
<1>2. call.stage # "idle" => call.task \in TaskIds
  BY CallTask
<1>3. call'.hash => Settled(call.task)' /\ call'.task = call.task
  <2>1. CASE Replying /\ payments[call.pay].status = "settled"
    <3>1. call.pay \in PayIds
      BY <2>1, CallPay DEF Replying
    <3>2. Settled(call.task)
      BY <2>1, <3>1 DEF Replying, Transfers, Settled, PaymentsOf
    <3> QED
      BY <1>1, <1>2, <2>1, <3>2, HashFrom DEF Replying
  <2>2. CASE call.hash
    BY <1>1, <1>2, <2>2, HashFrom DEF Hashes
  <2> QED
    BY <2>1, <2>2, HashFrom
<1>4. ASSUME NEW task \in TaskIds, pending_proposals'.task[task].hash
       \/ saved_pending'.task[task].hash
      PROVE  Settled(task)'
  <2>1. pending_proposals.task[task].hash \/ saved_pending.task[task].hash => Settled(task)
    BY DEF Hashes, HashIsTrue, Settled
  <2>2. CASE TableStep
    <3>1. pending_proposals'.task[task].hash => Settled(task)
      BY <2>1, <2>2, EntryHash DEF Hashes
    <3>2. saved_pending'.task[task].hash => pending_proposals'.task[task].hash
           \/ saved_pending.task[task].hash
      BY <2>2, EntryTypes DEF TableStep, Saved
    <3> QED
      BY <1>1, <1>4, <2>1, <3>1, <3>2
  <2>3. CASE CallStep \/ PaymentStep
    BY <1>1, <1>4, <2>1, <2>3 DEF CallStep, PaymentStep, table
  <2>4. CASE Restarting
    BY <1>1, <1>4, <2>1, <2>4 DEF Restarting
  <2> QED
    BY <2>2, <2>3, <2>4 DEF Step
<1> QED
  BY <1>3, <1>4 DEF Hashes, HashIsTrue, Settled

LEMMA AlwaysHashes == Spec => [](Transfers /\ Hashes)
<1>1. Init => Transfers /\ Hashes
  BY EntryTypes DEF Init, Transfers, Hashes, HashIsTrue, NoPayment
<1>2. Typed /\ Transfers /\ Hashes /\ [Next]_vars => Transfers' /\ Hashes'
  BY Stepping, TransfersNext, HashesNext
<1> QED
  BY <1>1, <1>2, AlwaysTyped, PTL DEF Spec

\* A task whose entry has a pay_tx_hash, in the process or on file, was paid: whatever fails,
\* crashes or is written badly, the hash is that of a transfer the wallet has settled.
THEOREM HashesAreTrue == Spec => []HashIsTrue
<1>1. Hashes => HashIsTrue
  BY DEF Hashes
<1> QED
  BY <1>1, AlwaysHashes, PTL

(***************************************************************************)
(* Nothing is paid that was not requested.                                 *)
(***************************************************************************)

Charging == {"gate", "pay", "await", "save", "finish"}

\* While a call is past its request, and while a payment is held, the request was sent.
AsRequested ==
  refusals = 0 =>
    /\ call.stage \in Charging => call.task \in requests
    /\ \A task \in TaskIds :
         pending_proposals.held[task] # "none" \/ saved_pending.held[task] # "none" =>
           task \in requests
    /\ PaidWasRequested

\* A payment is held while the request is being paid for, and only then.
LEMMA EntryHeld ==
  ASSUME Typed, TableStep, NEW task \in TaskIds, pending_proposals'.held[task] # "none"
  PROVE  pending_proposals.held[task] # "none" \/ (call.stage \in Charging /\ task = call.task)
<1>1. call.stage # "idle" => call.task \in TaskIds
  BY CallTask
<1>2. CASE Holding \/ Finishing
  BY <1>1, <1>2, HeldLeaves DEF Holding, Finishing, Leaves, Charging
<1>3. CASE Approving \/ Rejecting
  BY <1>3, HeldLeaves DEF Approving, Rejecting, Leaves
<1>4. CASE Submitting \/ Canceling \/ Dropping
  BY <1>4 DEF Submitting, Canceling, Dropping, Entered
<1> QED
  BY <1>2, <1>3, <1>4, Zenon DEF TableStep, HeldStep, EntryStep

\* A call is on its way to a payment after its request, or because the payment was held.
LEMMA ChargingFrom ==
  ASSUME Typed, Step, call'.stage \in Charging
  PROVE  \/ /\ call'.task = call.task /\ call.task \in TaskIds
            /\ call.stage \in Charging \/ call.task \in requests' \/ refusals' > 0
         \/ /\ call'.task \in TaskIds
            /\ pending_proposals.held[call'.task] = "pending_approval"
<1> USE DEF Charging
<1>1. call.stage # "idle" => call.task \in TaskIds
  BY CallTask
<1>2. NoCall.stage = "idle"
  BY EntryTypes
<1>3. CASE CallStep /\ (Requesting \/ Passing \/ Replying \/ Failing \/ Idling)
  <2>1. call'.task = call.task /\ (call.stage \in Charging \/ Requesting)
    BY <1>3 DEF Requesting, Passing, Replying, Failing, Idling, After, Calling
  <2> QED
    BY <1>1, <2>1 DEF Requesting
<1>4. CASE CallStep /\ (Starting \/ Entering \/ Moving \/ Returning)
  BY <1>2, <1>4 DEF Starting, Entering, Moving, Returning, Calling, Other
<1>5. CASE TableStep
  <2>1. CASE Approving
    BY <2>1 DEF Approving, Calling
  <2>2. CASE Rejecting \/ Dropping
    BY <1>1, <2>2 DEF Rejecting, Dropping
  <2>3. CASE Holding
    BY <1>1, <2>3 DEF Holding, Calling
  <2>4. CASE Finishing \/ Submitting \/ Canceling
    BY <1>2, <2>4 DEF Finishing, Submitting, Canceling
  <2> QED
    BY <1>5, <2>1, <2>2, <2>3, <2>4, Zenon DEF TableStep, HeldStep, EntryStep
<1>6. CASE PaymentStep
  BY <1>1, <1>6 DEF PaymentStep, Transferring, Ending, Calling
<1>7. CASE Restarting
  BY <1>2, <1>7 DEF Restarting
<1> QED
  BY <1>3, <1>4, <1>5, <1>6, <1>7 DEF Step, CallStep

LEMMA RequestedNext ==
  ASSUME Typed, Transfers, AsRequested, Step,
         requests \subseteq requests', refusals' >= refusals, refusals' \in Nat
  PROVE  AsRequested'
<1> SUFFICES ASSUME refusals' = 0
             PROVE  /\ call'.stage \in Charging => call'.task \in requests'
                    /\ \A task \in TaskIds :
                         pending_proposals'.held[task] # "none"
                                \/ saved_pending'.held[task] # "none" =>
                           task \in requests'
                    /\ PaidWasRequested'
  BY DEF AsRequested
<1>1. /\ call.stage \in Charging => call.task \in requests'
      /\ \A task \in TaskIds :
           pending_proposals.held[task] # "none" \/ saved_pending.held[task] # "none" =>
             task \in requests'
      /\ \A p \in PayIds : payments[p].status # "none" => payments[p].task \in requests'
  <2>1. refusals = 0
    BY DEF Typed, TypeOK
  <2> QED
    BY <2>1 DEF AsRequested, PaidWasRequested
<1>2. ASSUME call'.stage \in Charging PROVE call'.task \in requests'
  <2>1. ~(refusals' > 0)
    OBVIOUS
  <2> QED
    BY <1>1, <1>2, <2>1, ChargingFrom
<1>3. ASSUME NEW task \in TaskIds, pending_proposals'.held[task] # "none"
       \/ saved_pending'.held[task] # "none"
      PROVE  task \in requests'
  <2>1. CASE TableStep
    <3>1. saved_pending'.held[task] # "none" =>
            pending_proposals'.held[task] # "none" \/ saved_pending.held[task] # "none"
      BY <2>1, EntryTypes DEF TableStep, Saved
    <3> QED
      BY <1>1, <1>3, <2>1, <3>1, EntryHeld
  <2>2. CASE CallStep \/ PaymentStep
    BY <1>1, <1>3, <2>2 DEF CallStep, PaymentStep, table
  <2>3. CASE Restarting
    BY <1>1, <1>3, <2>3 DEF Restarting
  <2> QED
    BY <2>1, <2>2, <2>3 DEF Step
<1>4. ASSUME NEW p \in PayIds, payments'[p].status # "none" PROVE payments'[p].task \in requests'
  <2>1. CASE payments[p].status # "none"
    BY <1>1, <2>1, TransfersStay
  <2>2. CASE payments[p].status = "none"
    <3>1. Transferring /\ payments'[p] = [status |-> "inflight", task |-> call.task]
      BY <1>4, <2>2, TransfersCome
    <3> QED
      BY <1>1, <3>1 DEF Transferring, Charging
  <2> QED
    BY <2>1, <2>2
<1> QED
  BY <1>2, <1>3, <1>4 DEF PaidWasRequested

LEMMA AlwaysRequested == Spec => []AsRequested
<1>1. Init => Transfers /\ AsRequested
  BY EntryTypes DEF Init, Transfers, AsRequested, PaidWasRequested, NoPayment, Charging
<1>2. Typed /\ Transfers /\ AsRequested /\ [Next]_vars => Transfers' /\ AsRequested'
  <2> SUFFICES ASSUME Typed, Transfers, AsRequested, [Next]_vars PROVE Transfers' /\ AsRequested'
    OBVIOUS
  <2>1. requests \subseteq requests' /\ refusals' >= refusals /\ refusals' \in Nat
    BY SetTypes, CounterTypes, SMT DEF Typed, TypeOK
  <2> QED
    BY <2>1, Stepping, TransfersNext, RequestedNext
<1> QED
  BY <1>1, <1>2, AlwaysTyped, PTL DEF Spec

\* A peer is paid for a task only after its request was sent, by agent_task or by approve_pending,
\* for any number of tasks, transfers, crashes, exceptions and failed writes, when the chat module
\* refuses nothing.
THEOREM PaidOnlyRequested == Spec => []PaidWasRequested
<1>1. AsRequested => PaidWasRequested
  BY DEF AsRequested, PaidWasRequested
<1> QED
  BY <1>1, AlwaysRequested, PTL

(***************************************************************************)
(* A task is paid for once, and stays on file, while the data directory    *)
(* can be written.                                                         *)
(***************************************************************************)

Asking == {"request", "gate", "pay", "await", "save"}
Paying == {"request", "gate", "pay"}

LEMMA TableChange ==
  ASSUME Typed, TableStep, NEW task \in TaskIds
  PROVE  /\ pending_proposals.held[task] # "none" => pending_proposals'.held[task] # "none"
         /\ pending_proposals'.held[task] = "pending_approval" =>
              pending_proposals.held[task] = "pending_approval" \/ (Holding /\ task = call.task)
         /\ ~(Submitting /\ task = call.task) =>
              /\ pending_proposals'.task[task].hash = pending_proposals.task[task].hash
              /\ \/ pending_proposals'.task[task] = pending_proposals.task[task]
                 \/ InTable(task) /\ pending_proposals'.task[task].status \in {"canceled",
                        "rejected"}
<1>1. call.stage # "idle" => call.task \in TaskIds
  BY CallTask
<1>2. CASE Holding \/ Finishing
  BY <1>1, <1>2, HeldLeaves DEF Holding, Finishing, Leaves
<1>3. CASE Approving \/ Rejecting
  BY <1>3, HeldLeaves DEF Approving, Rejecting, Leaves
<1>4. CASE Submitting
  <2>1. /\ \A t \in TaskIds : t # call.task => Leaves(t)
        /\ pending_proposals'.held = pending_proposals.held
    BY <1>1, <1>4, EnteredLeaves DEF Submitting
  <2> QED
    BY <1>4, <2>1 DEF Leaves
<1>5. CASE Canceling
  <2>1. /\ \A t \in TaskIds : t # call.task => Leaves(t)
        /\ pending_proposals'.task[call.task].status = "canceled"
        /\ pending_proposals'.task[call.task].hash = pending_proposals.task[call.task].hash
        /\ pending_proposals'.held = pending_proposals.held
    BY <1>1, <1>5, EnteredLeaves DEF Canceling
  <2> QED
    BY <1>5, <2>1 DEF Canceling, Leaves
<1>6. CASE Dropping
  <2>1. PICK t \in TaskIds : /\ InTable(t)
                             /\ Entered(t, "rejected", pending_proposals.task[t].hash)
    BY <1>6 DEF Dropping
  <2>2. /\ \A u \in TaskIds : u # t => Leaves(u)
        /\ pending_proposals'.task[t].status = "rejected"
        /\ pending_proposals'.task[t].hash = pending_proposals.task[t].hash
        /\ pending_proposals'.held = pending_proposals.held
    BY <2>1, EnteredLeaves
  <2> QED
    BY <2>1, <2>2 DEF Leaves
<1> QED
  BY <1>2, <1>3, <1>4, <1>5, <1>6, Zenon DEF TableStep, HeldStep, EntryStep

\* Where agent_task's and the owner's payments come from.
LEMMA AskingFrom ==
  ASSUME Typed, Step, call'.stage \in Asking
  PROVE  \/ CallStep /\ call'.task = next_task /\ next_task \in TaskIds /\ ~call'.approved
         \/ /\ TableStep /\ call'.approved /\ call'.task \in TaskIds /\ call'.stage = "pay"
            /\ pending_proposals.held[call'.task] = "pending_approval"
            /\ pending_proposals'.held[call'.task] = "approved"
         \/ /\ call.stage \in Asking
            /\ call'.task = call.task /\ call'.approved = call.approved
<1> USE DEF Asking
<1>1. NoCall.stage = "idle"
  BY EntryTypes
<1>2. CASE CallStep /\ Starting
  <2>1. call'.task = next_task /\ ~call'.approved
    BY <1>2 DEF Starting, Calling
  <2>2. next_task \in TaskIds
    BY <1>2, SMT DEF Starting, Typed, TypeOK, TaskIds
  <2> QED
    BY <1>2, <2>1, <2>2
<1>3. CASE CallStep /\ (Requesting \/ Passing \/ Replying \/ Failing \/ Idling)
  BY <1>3 DEF Requesting, Passing, Replying, Failing, Idling, After, Calling
<1>4. CASE CallStep /\ (Entering \/ Moving \/ Returning)
  BY <1>1, <1>4 DEF Entering, Moving, Returning, Calling, Other
<1>5. CASE TableStep
  <2>1. CASE Approving
    BY <1>5, <2>1, HeldLeaves DEF Approving, Calling
  <2>2. CASE Rejecting \/ Dropping
    BY <2>2 DEF Rejecting, Dropping
  <2>3. CASE Holding \/ Finishing \/ Submitting \/ Canceling
    BY <1>1, <2>3 DEF Holding, Finishing, Submitting, Canceling, Calling
  <2> QED
    BY <1>5, <2>1, <2>2, <2>3, Zenon DEF TableStep, HeldStep, EntryStep
<1>6. CASE PaymentStep
  BY <1>6 DEF PaymentStep, Transferring, Ending, Calling
<1>7. CASE Restarting
  BY <1>1, <1>7 DEF Restarting
<1> QED
  BY <1>2, <1>3, <1>4, <1>5, <1>6, <1>7 DEF Step, CallStep

\* The stages before a payment follow each other while no payment is made or held.
LEMMA PayingFrom ==
  ASSUME Typed, Step, call'.stage \in Paying, call.stage \in Asking, call'.task = call.task
  PROVE  call.stage \in Paying /\ (CallStep \/ (PaymentStep /\ ~Transferring))
<1> USE DEF Asking, Paying
<1>1. NoCall.stage = "idle"
  BY EntryTypes
<1>2. CASE CallStep
  BY <1>1, <1>2 DEF CallStep, Starting, Entering, Moving, Returning, Requesting, Passing,
       Replying, Failing, Idling, After, Calling, Other
<1>3. CASE TableStep
  BY <1>1, <1>3 DEF TableStep, HeldStep, Holding, Approving, Finishing, Rejecting, EntryStep,
       Submitting, Canceling, Dropping, Calling
<1>4. CASE PaymentStep
  BY <1>4 DEF PaymentStep, Transferring, Ending, Calling
<1>5. CASE Restarting
  BY <1>1, <1>5 DEF Restarting
<1> QED
  BY <1>2, <1>3, <1>4, <1>5 DEF Step

\* While nothing was lost, the file is the table, no payment is held that was made, and none was
\* made for the call that is about to make it.
Once ==
  saveFailures = 0 =>
    /\ saved_pending = pending_proposals
    /\ \A task \in TaskIds :
         /\ \A p, q \in PaymentsOf(task) : p = q
         /\ pending_proposals.held[task] = "pending_approval" => PaymentsOf(task) = {}
         /\ call.stage \in Paying /\ call.task = task =>
              PaymentsOf(task) = {} /\ pending_proposals.held[task] # "pending_approval"

LEMMA NoTransfer ==
  ASSUME Typed, CallStep \/ TableStep
  PROVE  ~Transferring
<1>1. next_pay' = next_pay /\ next_pay \in Int
  BY DEF CallStep, TableStep, Typed, TypeOK
<1> QED
  BY <1>1, SMT DEF Transferring

LEMMA SavesGrow ==
  ASSUME Typed, Step, saveFailures' = 0
  PROVE  saveFailures = 0
<1>1. saveFailures' = saveFailures \/ saveFailures' = saveFailures + 1
  BY Zenon DEF Step, CallStep, TableStep, Saved, PaymentStep, Restarting
<1> QED
  BY <1>1, SMT DEF Typed, TypeOK

LEMMA OnceNext ==
  ASSUME Typed, Transfers, Once, Step
  PROVE  Once'
<1> SUFFICES ASSUME saveFailures' = 0
             PROVE  /\ saved_pending' = pending_proposals'
                    /\ \A task \in TaskIds :
                         /\ \A p, q \in PaymentsOf(task)' : p = q
                         /\ pending_proposals'.held[task] = "pending_approval" => PaymentsOf(task)' = {}
                         /\ call'.stage \in Paying /\ call'.task = task =>
                              PaymentsOf(task)' = {} /\ pending_proposals'.held[task] # "pending_approval"
  BY DEF Once
<1>1. /\ saved_pending = pending_proposals
      /\ \A task \in TaskIds :
           /\ \A p, q \in PaymentsOf(task) : p = q
           /\ pending_proposals.held[task] = "pending_approval" => PaymentsOf(task) = {}
           /\ call.stage \in Paying /\ call.task = task =>
                PaymentsOf(task) = {} /\ pending_proposals.held[task] # "pending_approval"
  BY SavesGrow DEF Once
<1>2. call.stage # "idle" => call.task \in TaskIds
  BY CallTask
<1>3. saved_pending' = pending_proposals'
  BY <1>1 DEF Step, CallStep, TableStep, Saved, PaymentStep, Restarting, table, Typed, TypeOK
<1>4. pending_proposals' = pending_proposals \/ TableStep
  BY <1>1, Zenon DEF Step, CallStep, PaymentStep, Restarting, table
<1>5. ASSUME NEW task \in TaskIds PROVE \A p, q \in PaymentsOf(task)' : p = q
  <2>1. CASE Transferring /\ task = call.task
    BY <1>1, <2>1, PaymentsChange DEF Transferring, Paying
  <2>2. CASE ~(Transferring /\ task = call.task)
    BY <1>1, <2>2, PaymentsChange
  <2> QED
    BY <2>1, <2>2
<1>6. ASSUME NEW task \in TaskIds, pending_proposals'.held[task] = "pending_approval"
      PROVE  PaymentsOf(task)' = {}
  <2>1. PaymentsOf(task) = {} /\ ~(Transferring /\ task = call.task)
    <3>1. CASE TableStep
      BY <1>1, <1>6, <3>1, NoTransfer, TableChange DEF Holding, Paying
    <3>2. CASE pending_proposals' = pending_proposals
      BY <1>1, <1>6, <3>2 DEF Transferring, Paying
    <3> QED
      BY <1>4, <3>1, <3>2
  <2> QED
    BY <2>1, PaymentsChange
<1>7. ASSUME NEW task \in TaskIds, call'.stage \in Paying, call'.task = task
      PROVE  PaymentsOf(task)' = {} /\ pending_proposals'.held[task] # "pending_approval"
  <2>1. CASE CallStep /\ task = next_task
    <3>1. pending_proposals.held[task] = "none"
      BY <2>1, SMT DEF Typed, TypeOK, Fresh
    <3>2. PaymentsOf(task) = {}
      BY <2>1, SMT DEF Transfers, PaymentsOf, Typed, TypeOK
    <3> QED
      BY <2>1, <3>1, <3>2, PaymentsChange, NoTransfer DEF CallStep, table
  <2>2. CASE /\ TableStep
             /\ pending_proposals.held[task] = "pending_approval"
             /\ pending_proposals'.held[task] = "approved"
    BY <1>1, <2>2, PaymentsChange, NoTransfer
  <2>3. CASE call.stage \in Asking /\ task = call.task
    <3>1. call.stage \in Paying /\ (CallStep \/ (PaymentStep /\ ~Transferring))
      BY <1>7, <2>3, PayingFrom
    <3> QED
      BY <1>1, <2>3, <3>1, PaymentsChange, NoTransfer DEF CallStep, PaymentStep, table
  <2>4. call'.stage \in Asking
    BY <1>7 DEF Asking, Paying
  <2> QED
    BY <1>7, <2>1, <2>2, <2>3, <2>4, AskingFrom
<1> QED
  BY <1>3, <1>5, <1>6, <1>7

LEMMA AlwaysOnce == Spec => [](Typed /\ Transfers /\ Once)
<1>1. Init => Transfers /\ Once
  BY EntryTypes DEF Init, Transfers, Once, PaymentsOf, NoPayment, Paying
<1>2. Typed /\ Transfers /\ Once /\ [Next]_vars => Transfers' /\ Once'
  BY Stepping, TransfersNext, OnceNext
<1> QED
  BY <1>1, <1>2, AlwaysTyped, PTL DEF Spec

\* A task is paid for once at most, by agent_task or by approve_pending, for any number of tasks,
\* transfers, crashes, exceptions and refusals, while no write to the data directory fails.
THEOREM PaidOnce == Spec => []TaskPaidOnce
<1>1. Once => TaskPaidOnce
  BY DEF Once, TaskPaidOnce
<1> QED
  BY <1>1, AlwaysOnce, PTL

\* A task whose payment was made and has no hash has one that was held or refused, or a call of
\* the wallet threw.
Accounted(task) ==
  throws = 0 /\ PaymentsOf(task) # {} =>
    \/ pending_proposals.held[task] # "none"
    \/ \E p \in PaymentsOf(task) : payments[p].status = "refused"

\* While nothing was lost, agent_task has not put the task it deals with in the table, and what
\* it has reported is there with what became of its payment.
OnFile ==
  saveFailures = 0 =>
    \A task \in TaskIds :
      /\ call.stage \in Asking /\ ~call.approved /\ call.task = task =>
           ~InTable(task) /\ task \notin answered
      /\ call.approved /\ call.task = task => pending_proposals.held[task] # "none"
      /\ call.stage = "save" /\ call.task = task /\ ~call.hash => Accounted(task)
      /\ task \in answered => InTable(task)
      /\ task \in answered /\ ~pending_proposals.task[task].hash => Accounted(task)

LEMMA HeldStays ==
  ASSUME Typed, Step, saved_pending = pending_proposals, NEW task \in TaskIds,
         pending_proposals.held[task] # "none"
  PROVE  pending_proposals'.held[task] # "none"
<1>1. CASE TableStep
  BY <1>1, TableChange
<1>2. CASE ~TableStep
  BY <1>2 DEF Step, CallStep, PaymentStep, Restarting, table
<1> QED
  BY <1>1, <1>2

LEMMA AccountedStays ==
  ASSUME Typed, Transfers, Step, saved_pending = pending_proposals, throws' >= throws,
         throws' \in Nat,
         NEW task \in TaskIds, Accounted(task), ~(Transferring /\ task = call.task)
  PROVE  Accounted(task)'
<1> SUFFICES ASSUME throws' = 0, PaymentsOf(task)' # {}, pending_proposals'.held[task] = "none"
             PROVE  \E p \in PaymentsOf(task)' : payments'[p].status = "refused"
  BY DEF Accounted
<1>1. throws = 0
  BY DEF Typed, TypeOK
<1>2. PaymentsOf(task)' = PaymentsOf(task)
  BY PaymentsChange
<1>3. pending_proposals.held[task] = "none"
  BY HeldStays
<1>4. PICK p \in PaymentsOf(task) : payments[p].status = "refused"
  BY <1>1, <1>2, <1>3 DEF Accounted
<1>5. p \in PayIds
  BY DEF PaymentsOf
<1>6. payments'[p].status = "refused"
  BY <1>4, <1>5, TransfersStay
<1> QED
  BY <1>2, <1>6

\* A call reaches the table after its request, with its payment held, answered or failed.
LEMMA SaveFrom ==
  ASSUME Typed, Step, call'.stage = "save"
  PROVE  /\ call'.task = call.task
         /\ \/ CallStep /\ Requesting
            \/ TableStep /\ Holding
            \/ CallStep /\ Replying /\ call'.hash = (payments[call.pay].status = "settled")
            \/ throws' > 0
            \/ ~Transferring /\ UNCHANGED call
<1>1. NoCall.stage = "idle"
  BY EntryTypes
<1>2. CASE CallStep /\ (Requesting \/ Failing)
  BY <1>2 DEF Requesting, Failing, After, Calling
<1>3. CASE CallStep /\ Replying
  BY <1>3, Zenon DEF Replying, After, Calling
<1>4. CASE CallStep /\ Idling
  BY <1>4, NoTransfer DEF Idling
<1>5. CASE CallStep /\ (Starting \/ Entering \/ Moving \/ Returning \/ Passing)
  BY <1>1, <1>5 DEF Starting, Entering, Moving, Returning, Passing, Calling, Other
<1>6. CASE TableStep
  <2>1. CASE Rejecting \/ Dropping
    BY <1>6, <2>1, NoTransfer DEF Rejecting, Dropping
  <2>2. CASE Holding
    BY <1>6, <2>2 DEF Holding, Calling
  <2>3. CASE Approving \/ Finishing \/ Submitting \/ Canceling
    BY <1>1, <2>3 DEF Approving, Finishing, Submitting, Canceling, Calling
  <2> QED
    BY <1>6, <2>1, <2>2, <2>3, Zenon DEF TableStep, HeldStep, EntryStep
<1>7. CASE PaymentStep
  BY <1>7 DEF PaymentStep, Transferring, Ending, Calling
<1>8. CASE Restarting
  BY <1>1, <1>8 DEF Restarting
<1> QED
  BY <1>2, <1>3, <1>4, <1>5, <1>6, <1>7, <1>8 DEF Step, CallStep

\* Only the owner's approval makes a call that has it.
LEMMA ApprovedFrom ==
  ASSUME Typed, Step, call'.approved
  PROVE  \/ call.approved /\ call'.task = call.task
         \/ call'.task \in TaskIds /\ pending_proposals'.held[call'.task] = "approved"
<1>1. NoCall.approved = FALSE
  BY EntryTypes
<1>2. CASE CallStep
  BY <1>1, <1>2, Zenon DEF CallStep, Starting, Entering, Moving, Returning, Requesting, Passing,
       Replying, Failing, Idling, After, Calling
<1>3. CASE TableStep
  <2>1. CASE Approving
    BY <2>1, HeldLeaves DEF Approving, Calling
  <2>2. CASE ~Approving
    BY <1>1, <1>3, <2>2, Zenon DEF TableStep, HeldStep, Holding, Finishing, Rejecting, EntryStep,
         Submitting, Canceling, Dropping, Calling
  <2> QED
    BY <2>1, <2>2
<1>4. CASE PaymentStep
  BY <1>4, Zenon DEF PaymentStep, Transferring, Ending, Calling
<1>5. CASE Restarting
  BY <1>1, <1>5, Zenon DEF Restarting
<1> QED
  BY <1>2, <1>3, <1>4, <1>5 DEF Step

LEMMA OnFileNext ==
  ASSUME Typed, Transfers, Once, OnFile, Step, throws' >= throws, throws' \in Nat
  PROVE  OnFile'
<1> SUFFICES ASSUME saveFailures' = 0, NEW task \in TaskIds
             PROVE  /\ call'.stage \in Asking /\ ~call'.approved /\ call'.task = task =>
                         ~InTable(task)' /\ task \notin answered'
                    /\ call'.approved /\ call'.task = task => pending_proposals'.held[task] # "none"
                    /\ call'.stage = "save" /\ call'.task = task /\ ~call'.hash => Accounted(task)'
                    /\ task \in answered' => InTable(task)'
                    /\ task \in answered' /\ ~pending_proposals'.task[task].hash => Accounted(task)'
  BY DEF OnFile
<1>1. /\ call.stage \in Asking /\ ~call.approved /\ call.task = task =>
           ~InTable(task) /\ task \notin answered
      /\ call.approved /\ call.task = task => pending_proposals.held[task] # "none"
      /\ call.stage = "save" /\ call.task = task /\ ~call.hash => Accounted(task)
      /\ task \in answered => InTable(task)
      /\ task \in answered /\ ~pending_proposals.task[task].hash => Accounted(task)
  BY SavesGrow DEF OnFile
<1>2. /\ saved_pending = pending_proposals
      /\ call.stage \in Paying /\ call.task = task => PaymentsOf(task) = {}
  BY SavesGrow DEF Once
<1>3. Submitting => call.stage = "save" /\ ~call.approved /\ call' = NoCall /\ NoCall.stage = "idle"
  BY EntryTypes DEF Submitting, Typed, CallBounds
<1>4. pending_proposals' = pending_proposals \/ TableStep
  BY <1>2, Zenon DEF Step, CallStep, PaymentStep, Restarting, table
<1>5. ASSUME ~(Submitting /\ task = call.task)
      PROVE  /\ pending_proposals'.task[task].hash = pending_proposals.task[task].hash
             /\ InTable(task)' <=> InTable(task)
             /\ task \in answered' => task \in answered
  <2>1. CASE TableStep
    BY <1>5, <2>1, TableChange, AnsweredType DEF InTable
  <2>2. CASE pending_proposals' = pending_proposals
    BY <1>5, <2>2, AnsweredType DEF InTable
  <2> QED
    BY <1>4, <2>1, <2>2
<1>6. ASSUME call'.stage \in Asking, ~call'.approved, call'.task = task
      PROVE  ~InTable(task)' /\ task \notin answered'
  <2>1. ~Submitting
    BY <1>3, <1>6 DEF Asking
  <2>2. CASE CallStep /\ task = next_task
    <3>1. ~InTable(task) /\ task \notin answered
      BY <2>2, SMT DEF Typed, TypeOK, Fresh, InTable
    <3> QED
      BY <1>5, <2>1, <3>1
  <2>3. CASE call.stage \in Asking /\ call.task = task /\ ~call.approved
    BY <1>1, <1>5, <2>1, <2>3
  <2> QED
    BY <1>6, <2>2, <2>3, AskingFrom
<1>7. ASSUME call'.approved, call'.task = task
      PROVE  pending_proposals'.held[task] # "none"
  BY <1>1, <1>2, <1>7, ApprovedFrom, HeldStays
<1>8. ASSUME call'.stage = "save", call'.task = task, ~call'.hash
      PROVE  Accounted(task)'
  <2>1. CASE CallStep /\ Requesting /\ call.task = task
    <3>1. PaymentsOf(task) = {}
      BY <1>2, <2>1 DEF Requesting, Paying
    <3> QED
      BY <2>1, <3>1, PaymentsChange, NoTransfer DEF Accounted
  <2>2. CASE TableStep /\ Holding /\ call.task = task
    <3>1. pending_proposals'.held[task] # "none"
      BY <2>2, HeldLeaves DEF Holding
    <3> QED
      BY <3>1 DEF Accounted
  <2>3. CASE CallStep /\ Replying /\ payments[call.pay].status # "settled" /\ call.task = task
    <3>1. call.pay \in PaymentsOf(task) /\ payments[call.pay].status = "refused"
      BY <2>3, CallPay DEF Replying, Transfers, PaymentsOf
    <3> QED
      BY <1>2, <2>3, <3>1, AccountedStays, NoTransfer DEF Accounted
  <2>4. CASE throws' > 0
    BY <2>4 DEF Accounted
  <2>5. CASE ~Transferring /\ UNCHANGED call
    BY <1>1, <1>2, <1>8, <2>5, AccountedStays
  <2> QED
    BY <1>8, <2>1, <2>2, <2>3, <2>4, <2>5, SaveFrom
<1>9. CASE Submitting /\ task = call.task
  <2>1. /\ pending_proposals'.task[task].status = "submitted"
        /\ pending_proposals'.task[task].hash = call.hash
    BY <1>9, EnteredLeaves DEF Submitting
  <2>2. ~call.hash => Accounted(task)
    BY <1>1, <1>9 DEF Submitting
  <2>3. ~Transferring
    BY <1>9 DEF Submitting, Transferring
  <2>4. ~call.hash => Accounted(task)'
    BY <1>2, <2>2, <2>3, AccountedStays
  <2>5. InTable(task)'
    BY <2>1 DEF InTable
  <2>6. ~pending_proposals'.task[task].hash => Accounted(task)'
    BY <2>1, <2>4
  <2> QED
    BY <1>6, <1>7, <1>8, <2>5, <2>6
<1>10. CASE ~(Submitting /\ task = call.task)
  <2>1. ASSUME task \in answered, Accounted(task) PROVE Accounted(task)'
    <3>1. CASE Transferring /\ task = call.task
      <4>1. call.approved
        BY <1>1, <2>1, <3>1 DEF Transferring, Asking
      <4>2. pending_proposals'.held[task] # "none"
        BY <1>1, <1>2, <3>1, <4>1, HeldStays
      <4> QED
        BY <4>2 DEF Accounted
    <3>2. CASE ~(Transferring /\ task = call.task)
      BY <1>2, <2>1, <3>2, AccountedStays
    <3> QED
      BY <3>1, <3>2
  <2>2. task \in answered' => InTable(task)'
    BY <1>1, <1>5, <1>10
  <2>3. task \in answered' /\ ~pending_proposals'.task[task].hash => Accounted(task)'
    BY <1>1, <1>5, <1>10, <2>1
  <2> QED
    BY <1>6, <1>7, <1>8, <2>2, <2>3
<1> QED
  BY <1>9, <1>10

LEMMA AlwaysOnFile == Spec => [](Typed /\ Once /\ OnFile)
<1>1. Init => OnFile
  BY EntryTypes DEF Init, OnFile, Asking
<1>2. Typed /\ Transfers /\ Once /\ OnFile /\ [Next]_vars => OnFile'
  <2> SUFFICES ASSUME Typed, Transfers, Once, OnFile, [Next]_vars PROVE OnFile'
    OBVIOUS
  <2>1. throws' >= throws /\ throws' \in Nat
    BY CounterTypes, SMT DEF Typed, TypeOK
  <2> QED
    BY <2>1, Stepping, OnFileNext
<1> QED
  BY <1>1, <1>2, AlwaysOnce, PTL DEF Spec

\* A task that was reported as submitted is on file with what became of its payment, after any
\* number of crashes, refusals and later calls, while no write to the data directory fails.
THEOREM SubmittedStaysOnFile == Spec => []SubmittedIsOnFile
<1>1. Typed /\ Once /\ OnFile => SubmittedIsOnFile
  BY DEF Typed, TypeOK, Once, OnFile, InTable, Accounted, SubmittedIsOnFile
<1> QED
  BY <1>1, AlwaysOnFile, PTL

\* A task never leaves the table, is never submitted again and keeps its hash,
\* as long as the data directory can be written.
TaskLifecycle ==
  [][\A task \in TaskIds :
       LET old == pending_proposals.task[task]
           new == pending_proposals'.task[task]
       IN  saveFailures' = 0 /\ old.status # "none" /\ new # old =>
             new.status \in {"canceled", "rejected"} /\ new.hash = old.hash]_pending_proposals

\* A task never leaves the table, is never submitted again and keeps its hash, whoever deals with
\* it, while no write to the data directory fails.
THEOREM TasksKeepToLifecycle == Spec => TaskLifecycle
<1>1. ASSUME Typed, Once, OnFile, [Next]_vars, saveFailures' = 0, NEW task \in TaskIds,
             pending_proposals.task[task].status # "none",
             pending_proposals'.task[task] # pending_proposals.task[task]
      PROVE  /\ pending_proposals'.task[task].status \in {"canceled", "rejected"}
             /\ pending_proposals'.task[task].hash = pending_proposals.task[task].hash
  <2>1. Step
    BY <1>1, Stepping
  <2>2. saved_pending = pending_proposals
    BY <1>1, <2>1, SavesGrow DEF Once
  <2>3. TableStep
    BY <1>1, <2>1, <2>2, Zenon DEF Step, CallStep, PaymentStep, Restarting, table
  <2>4. ~(Submitting /\ task = call.task)
    BY <1>1, <2>1, SavesGrow DEF Submitting, OnFile, InTable, Asking, Typed, CallBounds
  <2> QED
    BY <1>1, <2>3, <2>4, TableChange
<1>2. Typed /\ Once /\ OnFile /\ [Next]_vars =>
        [\A task \in TaskIds :
           LET old == pending_proposals.task[task]
               new == pending_proposals'.task[task]
           IN  saveFailures' = 0 /\ old.status # "none" /\ new # old =>
                 new.status \in {"canceled", "rejected"} /\ new.hash = old.hash]_pending_proposals
  BY <1>1
<1> QED
  BY <1>2, AlwaysOnFile, PTL DEF Spec, TaskLifecycle

(***************************************************************************)
(* Topics.                                                                 *)
(***************************************************************************)

Topical == {"remember", "forget"}

\* The topics remembered and subscribed differ by the one that the call deals with, which is
\* subscribed before it is remembered and forgotten after it is not.
Remembered ==
  crashes + throws + refusals = 0 =>
    /\ \A task \in TaskIds :
         ~(task \in topics <=> task \in config.subs) => call.stage \in Topical /\ task = call.task
    /\ call.stage = "remember" => call.task \in topics
    /\ call.stage = "forget" => call.task \notin topics

\* What a step without a fault does to the topics.
TopicStep ==
  \/ /\ call.stage = "topic" /\ call'.stage = "remember" /\ call'.task = call.task
     /\ topics' = topics \cup {call.task} /\ UNCHANGED config
  \/ /\ call.stage = "unsubscribe" /\ call'.stage = "forget" /\ call'.task = call.task
     /\ topics' = topics \ {call.task} /\ UNCHANGED config
  \/ /\ call.stage = "remember" /\ call'.stage \notin Topical
     /\ config'.subs = config.subs \cup {call.task} /\ UNCHANGED topics
  \/ /\ call.stage = "forget" /\ call'.stage \notin Topical
     /\ config'.subs = config.subs \ {call.task} /\ UNCHANGED topics
  \/ /\ UNCHANGED call \/ (call.stage \notin Topical /\ call'.stage \notin Topical)
     /\ UNCHANGED topics /\ config'.subs = config.subs

LEMMA TopicSteps ==
  ASSUME Typed, [Next]_vars, crashes' + throws' + refusals' = 0
  PROVE  TopicStep
<1> USE DEF Topical, table, settings, ids, outside
<1>1. NoCall.stage = "idle"
  BY EntryTypes
<1>2. crashes' = 0 /\ throws' = 0 /\ refusals' = 0
  BY CounterTypes, SMT DEF Typed, TypeOK
<1>3. ~Refuse /\ ~Throw /\ ~WalletThrows /\ ~CrashRestart
  <2>1. crashes \in Nat /\ throws \in Nat /\ refusals \in Nat
    BY DEF Typed, TypeOK
  <2>2. /\ Refuse => refusals' = refusals + 1
        /\ Throw \/ WalletThrows => throws' = throws + 1
        /\ CrashRestart => crashes' = crashes + 1
    BY Zenon DEF Refuse, Throw, WalletThrows, CrashRestart
  <2> QED
    BY <1>2, <2>1, <2>2, SMT
<1>4. ASSUME NEW stage \in Stages, call' = [call EXCEPT !.stage = stage]
      PROVE  call'.stage = stage /\ call'.task = call.task
  BY <1>4, StageCall, Zenon DEF Calling
<1>5. ASSUME NEW c \in Configs, NEW subs \in SUBSET TaskIds
      PROVE  /\ [c EXCEPT !.subs = subs].subs = subs
             /\ [c EXCEPT !.convo = TRUE].subs = c.subs
  BY Zenon DEF Configs
<1>6. config \in Configs
  BY DEF Typed, TypeOK
<1>7. CASE SubscribeTopic
  <2>1. /\ call.stage = "topic" /\ call' = [call EXCEPT !.stage = "remember"]
        /\ topics' = topics \cup {call.task} /\ UNCHANGED config
    BY <1>3, <1>7, Zenon DEF SubscribeTopic
  <2> QED
    BY <1>4, <2>1 DEF TopicStep, Stages
<1>8. CASE Unsubscribe
  <2>1. /\ call.stage = "unsubscribe" /\ call' = [call EXCEPT !.stage = "forget"]
        /\ topics' = topics \ {call.task} /\ UNCHANGED config
    BY <1>3, <1>8, Zenon DEF Unsubscribe
  <2> QED
    BY <1>4, <2>1 DEF TopicStep, Stages
<1>9. CASE RememberTopic
  <2>1. config.subs \cup {call.task} \in SUBSET TaskIds
    BY <1>6, <1>9, CallTask DEF RememberTopic, Configs
  <2>2. config'.subs = config.subs \cup {call.task}
    BY <1>5, <1>6, <1>9, <2>1, Zenon DEF RememberTopic
  <2> QED
    BY <1>1, <1>9, <2>2 DEF RememberTopic, TopicStep
<1>10. CASE ForgetTopic
  <2>1. config.subs \ {call.task} \in SUBSET TaskIds
    BY <1>6 DEF Configs
  <2>2. config'.subs = config.subs \ {call.task}
    BY <1>5, <1>6, <1>10, <2>1, Zenon DEF ForgetTopic
  <2>3. call'.stage = "mark"
    BY <1>4, <1>10 DEF ForgetTopic, Stages
  <2> QED
    BY <1>10, <2>2, <2>3 DEF ForgetTopic, TopicStep
<1>11. CASE NotifyPeer \/ MarkCanceled
  <2>1. call.stage \in {"notify", "mark"} /\ UNCHANGED <<topics, config>>
    BY <1>11, Zenon DEF NotifyPeer, MarkCanceled
  <2>2. CASE AfterNotice
    <3>1. PICK stage \in {"unsubscribe", "mark"} : call' = [call EXCEPT !.stage = stage]
      BY <2>2 DEF AfterNotice
    <3> QED
      BY <1>4, <2>1, <3>1 DEF TopicStep, Stages
  <2>3. CASE call' = NoCall
    BY <1>1, <2>1, <2>3 DEF TopicStep
  <2> QED
    BY <1>3, <1>11, <2>2, <2>3, Zenon DEF NotifyPeer, MarkCanceled
<1>12. CASE \/ Caller \/ Owner \/ WalletStep \/ UNCHANGED vars
            \/ SendRequest \/ PassGate \/ HoldPayment \/ Pay \/ WalletReply \/ SaveTask
                   \/ FinishPayment
  <2>1. /\ UNCHANGED topics
        /\ \/ UNCHANGED call
           \/ call.stage \in {"idle", "request", "gate", "pay", "await", "save", "finish"}
    BY <1>12, Zenon DEF Caller, Task, Subscribe, Cancel, Enter, Owner, ApprovePayment,
         RejectPayment, RejectTask, Reject, ConfigureConvo, WalletStep, EndPayment, vars,
         SendRequest, PassGate, HoldPayment, Pay, WalletReply, SaveTask, FinishPayment
  <2>2. config' = config \/ config' = [config EXCEPT !.convo = TRUE]
    BY <1>12, Zenon DEF Caller, Task, Subscribe, Cancel, Enter, Owner, ApprovePayment,
         RejectPayment, RejectTask, Reject, ConfigureConvo, WalletStep, EndPayment, vars,
         SendRequest, PassGate, HoldPayment, Pay, WalletReply, SaveTask, FinishPayment
  <2>3. config'.subs = config.subs
    BY <1>5, <1>6, <2>2, Zenon
  <2>4. CASE UNCHANGED call
    BY <2>1, <2>3, <2>4 DEF TopicStep
  <2>5. CASE call.stage \in {"idle", "request", "gate", "pay", "await", "save", "finish"}
    <3>1. call.stage \notin Other
      BY <2>5 DEF Other
    <3>2. Step
      BY Stepping
    <3>3. call'.stage \notin Topical
      <4>1. CASE CallStep
        BY <1>1, <2>5, <3>1, <4>1 DEF CallStep, Starting, Entering, Moving, Returning, Requesting,
             Passing, Replying, Failing, Idling, After, Calling
      <4>2. CASE TableStep
        BY <1>1, <2>5, <4>2 DEF TableStep, HeldStep, Holding, Approving, Finishing, Rejecting,
             EntryStep, Submitting, Canceling, Dropping, Calling
      <4>3. CASE PaymentStep \/ Restarting
        BY <1>1, <2>5, <4>3 DEF PaymentStep, Transferring, Ending, Restarting, Calling
      <4> QED
        BY <3>2, <4>1, <4>2, <4>3 DEF Step
    <3> QED
      BY <2>1, <2>3, <2>5, <3>3 DEF TopicStep
  <2> QED
    BY <2>1, <2>4, <2>5
<1> QED
  BY <1>3, <1>7, <1>8, <1>9, <1>10, <1>11, <1>12, Zenon DEF Next, AgentStep

LEMMA RememberedNext ==
  ASSUME Typed, Remembered, [Next]_vars
  PROVE  Remembered'
<1> SUFFICES ASSUME crashes' + throws' + refusals' = 0
             PROVE  /\ \A task \in TaskIds :
                         ~(task \in topics' <=> task \in config'.subs) =>
                           call'.stage \in Topical /\ task = call'.task
                    /\ call'.stage = "remember" => call'.task \in topics'
                    /\ call'.stage = "forget" => call'.task \notin topics'
  BY DEF Remembered
<1>1. crashes + throws + refusals = 0
  BY CounterTypes, SMT DEF Typed, TypeOK
<1>2. TopicStep
  BY TopicSteps
<1> QED
  BY <1>1, <1>2 DEF Remembered, TopicStep, Topical

\* The topics the configuration remembers are the subscribed ones, but for the one a call deals
\* with, whatever is written badly, while nothing crashes, throws or refuses.
THEOREM TopicsStayRemembered == Spec => []TopicsAreRemembered
<1>1. Init => Remembered
  BY EntryTypes DEF Init, Remembered, NoConfig, Topical
<1>2. Typed /\ Remembered /\ [Next]_vars => Remembered'
  BY RememberedNext
<1>3. Typed /\ Remembered => TopicsAreRemembered
  BY DEF Typed, TypeOK, Configs, Remembered, TopicsAreRemembered, Topical
<1> QED
  BY <1>1, <1>2, <1>3, AlwaysTyped, PTL DEF Spec

(***************************************************************************)
(* The refinement of TaskPromise.                                          *)
(***************************************************************************)

\* What the file and the calls know of the tasks, whatever is written badly: the file has no task
\* that the table has not, and agent_task has not put its own there yet.
Behind ==
  /\ \A task \in TaskIds :
       saved_pending.task[task].status # "none" =>
         InTable(task) /\ saved_pending.task[task].hash = pending_proposals.task[task].hash
  /\ call.stage \in Asking /\ ~call.approved => ~InTable(call.task)

LEMMA BehindNext ==
  ASSUME Typed, Behind, Step
  PROVE  Behind'
<1>1. Submitting => call.stage = "save" /\ ~call.approved /\ call' = NoCall /\ NoCall.stage = "idle"
                    /\ call.task \in TaskIds
  BY EntryTypes, CallTask DEF Submitting, Typed, CallBounds
<1>2. ASSUME NEW task \in TaskIds, TableStep, ~(Submitting /\ task = call.task)
      PROVE  /\ pending_proposals'.task[task].hash = pending_proposals.task[task].hash
             /\ InTable(task)' <=> InTable(task)
  BY <1>2, TableChange DEF InTable
<1>3. ASSUME NEW task \in TaskIds, saved_pending'.task[task].status # "none"
      PROVE  InTable(task)' /\ saved_pending'.task[task].hash = pending_proposals'.task[task].hash
  <2>1. CASE UNCHANGED table
    BY <1>3, <2>1 DEF Behind, InTable, table
  <2>2. CASE Restarting
    BY <1>3, <2>2 DEF Restarting, InTable
  <2>3. CASE TableStep /\ saved_pending' = pending_proposals'
    BY <1>3, <2>3 DEF InTable
  <2>4. CASE TableStep /\ saved_pending' = NoTable
    BY <1>3, <2>4, EntryTypes
  <2>5. CASE TableStep /\ saved_pending' = saved_pending
    <3>1. InTable(task) /\ saved_pending.task[task].hash = pending_proposals.task[task].hash
      BY <1>3, <2>5 DEF Behind
    <3>2. ~(Submitting /\ task = call.task)
      BY <1>1, <3>1 DEF Behind, Asking
    <3> QED
      BY <1>2, <2>5, <3>1, <3>2
  <2> QED
    BY <2>1, <2>2, <2>3, <2>4, <2>5 DEF Step, CallStep, PaymentStep, TableStep, Saved
<1>4. ASSUME call'.stage \in Asking, ~call'.approved
      PROVE  pending_proposals'.task[call'.task].status = "none"
  <2>1. CASE CallStep /\ call'.task = next_task /\ next_task \in TaskIds
    <3>1. ~InTable(next_task)
      BY <2>1, SMT DEF Typed, TypeOK, Fresh, InTable
    <3> QED
      BY <2>1, <3>1 DEF CallStep, InTable, table
  <2>2. CASE call.stage \in Asking /\ call'.task = call.task /\ call'.approved = call.approved
    <3>1. ~InTable(call.task) /\ call.task \in TaskIds /\ ~Submitting
      BY <1>1, <1>4, <2>2, CallTask DEF Behind, Asking
    <3>2. CASE TableStep
      BY <1>2, <2>2, <3>1, <3>2 DEF InTable
    <3>3. CASE Restarting
      BY <1>4, <3>3, EntryTypes DEF Restarting, Asking
    <3> QED
      BY <2>2, <3>1, <3>2, <3>3 DEF Step, CallStep, PaymentStep, InTable, table
  <2> QED
    BY <1>4, <2>1, <2>2, AskingFrom
<1> QED
  BY <1>3, <1>4 DEF Behind, InTable

LEMMA AlwaysBehind == Spec => []Behind
<1>1. Init => Behind
  BY EntryTypes DEF Init, Behind, Asking
<1>2. Typed /\ Behind /\ [Next]_vars => Behind'
  BY Stepping, BehindNext
<1> QED
  BY <1>1, <1>2, AlwaysTyped, PTL DEF Spec

\* The promise's variables, as AgentTasks keeps them.
PaidBy == [task \in TaskIds |-> PaymentsOf(task)]
SettledTasks == {task \in TaskIds : Settled(task)}
Refused == refusals > 0
Unsaved == saveFailures > 0
Outcome == <<requests, PaidBy, SettledTasks, pending_proposals.task>>
Promised == <<requests, PaidBy, SettledTasks, pending_proposals.task, Refused, Unsaved>>

PromiseInv == Typed /\ Transfers /\ Hashes /\ AsRequested /\ Once /\ Behind

\* A request changes what the peer knows, and nothing else does.
LEMMA RequestSteps ==
  ASSUME Typed, [Next]_vars
  PROVE  \/ UNCHANGED requests
         \/ requests' = requests \cup {call.task} /\ call.task \in TaskIds
            /\ UNCHANGED <<table, payments>>
<1>1. CASE SendRequest
  <2>1. call.task \in TaskIds
    BY <1>1, CallTask DEF SendRequest
  <2> QED
    BY <1>1, <2>1, Zenon DEF SendRequest
<1>2. CASE (\E priced \in BOOLEAN : Task(priced)) \/ (\E t \in TaskIds : Subscribe(t))
       \/ (\E t \in TaskIds : Cancel(t)) \/ (\E t \in TaskIds : ApprovePayment(t))
       \/ (\E t \in TaskIds : RejectPayment(t)) \/ (\E t \in TaskIds : RejectTask(t))
       \/ ConfigureConvo \/ PassGate \/ HoldPayment \/ Pay \/ WalletReply \/ SaveTask
       \/ RememberTopic \/ ForgetTopic \/ MarkCanceled \/ FinishPayment \/ WalletStep
       \/ SubscribeTopic \/ NotifyPeer \/ Unsubscribe
       \/ WalletThrows \/ CrashRestart \/ UNCHANGED vars
  <2>1. UNCHANGED requests
    BY <1>2, Zenon DEF Task, Subscribe, Enter, Cancel, ApprovePayment, RejectPayment, Reject,
         RejectTask, ConfigureConvo, PassGate, HoldPayment, Pay, WalletReply, Paid, SaveTask,
         RememberTopic, ForgetTopic, MarkCanceled, InTable, FinishPayment, WalletStep, EndPayment,
         SubscribeTopic, NotifyPeer, Unsubscribe, WalletThrows, CrashRestart, vars, table,
         settings, ids, outside
  <2> QED
    BY <2>1
<1> QED
  BY <1>1, <1>2, Zenon DEF Next, Caller, Owner, AgentStep

\* What was settled is settled by the transfers alone.
LEMMA TransfersAlone ==
  ASSUME UNCHANGED payments
  PROVE  PaidBy' = PaidBy /\ SettledTasks' = SettledTasks
BY DEF PaidBy, SettledTasks, Settled, PaymentsOf

\* The transfer of a call is the promise's Pay.
LEMMA TransferPays ==
  ASSUME PromiseInv, Step, Transferring, UNCHANGED <<requests, table>>
  PROVE  \E task \in TaskIds : Promise!Pay(task)
<1>1. call.stage = "pay" /\ call.task \in TaskIds
  BY CallTask DEF Transferring, PromiseInv
<1>2. next_pay \in PayIds /\ Typed /\ Transfers
  BY <1>1, SMT DEF PromiseInv, Typed, TypeOK, CallBounds, PayIds
<1>3. payments[next_pay].status = "none" /\ refusals \in Nat /\ saveFailures \in Nat
  BY <1>2, SMT DEF Transfers, Typed, TypeOK, PayIds
<1>4. /\ Refused \/ call.task \in requests
      /\ Unsaved \/ PaymentsOf(call.task) = {}
  BY <1>1, <1>3 DEF PromiseInv, AsRequested, Charging, Once, Paying, Refused, Unsaved
<1>5. \A task \in TaskIds :
        /\ next_pay \notin PaymentsOf(task)
        /\ PaymentsOf(task)' =
             IF task = call.task THEN PaymentsOf(task) \cup {next_pay} ELSE PaymentsOf(task)
  BY <1>2, <1>3, PaymentsChange DEF PaymentsOf
<1>6. PaidBy' = [PaidBy EXCEPT ![call.task] = @ \cup {next_pay}]
  BY <1>1, <1>5 DEF PaidBy
<1>7. ASSUME NEW task \in TaskIds
      PROVE  Settled(task)' <=> Settled(task)
  <2>1. \A p \in PaymentsOf(task) : payments'[p] = payments[p]
    BY <1>3 DEF Transferring, PaymentsOf, PromiseInv, Typed, TypeOK
  <2>2. payments'[next_pay].status = "inflight"
    BY <1>2, <1>3, TransfersCome
  <2> QED
    BY <1>5, <2>1, <2>2 DEF Settled
<1>8. SettledTasks' = SettledTasks
  BY <1>7 DEF SettledTasks
<1>9. \A task \in TaskIds : next_pay \notin PaidBy[task]
  BY <1>5 DEF PaidBy
<1>10. Unsaved \/ PaidBy[call.task] = {}
  BY <1>1, <1>4 DEF PaidBy
<1>11. pending_proposals'.task = pending_proposals.task
  BY DEF table
<1> QED
  BY <1>1, <1>2, <1>4, <1>6, <1>8, <1>9, <1>10, <1>11
  DEF Promise!Pay, PaidBy, SettledTasks, Settled, Refused, Unsaved

\* The end of a transfer is the promise's Settle, or no step of it.
LEMMA EndSettles ==
  ASSUME PromiseInv, Step, Ending, UNCHANGED <<requests, table>>
  PROVE  UNCHANGED Outcome \/ \E task \in TaskIds : Promise!Settle(task)
<1>1. PICK p \in PayIds, status \in {"settled", "refused"} :
        payments[p].status = "inflight" /\ payments' = [payments EXCEPT ![p].status = status]
  BY DEF Ending
<1>2. payments \in [PayIds -> Payments] /\ Typed /\ Transfers
  BY DEF PromiseInv, Typed, TypeOK
<1>3. /\ \A q \in PayIds \ {p} : payments'[q] = payments[q]
      /\ payments'[p].status = status
  BY <1>1, <1>2 DEF Payments
<1>4. ~Transferring
  BY <1>2 DEF Ending, Transferring, Typed, TypeOK
<1>5. \A task \in TaskIds : PaymentsOf(task)' = PaymentsOf(task)
  BY <1>2, <1>4, PaymentsChange
<1>6. PaidBy' = PaidBy
  BY <1>5 DEF PaidBy
<1>7. PICK task \in TaskIds : payments[p].task = task
  <2>1. payments[p].task \in TaskIds
    BY <1>1, <1>2, TasksAssumption, SMT DEF Transfers, Typed, TypeOK, TaskIds
  <2> QED
    BY <2>1
<1>8. task \in TaskIds /\ p \in PaymentsOf(task)
  BY <1>1, <1>7 DEF PaymentsOf
<1>9. \A t \in TaskIds : p \in PaymentsOf(t) => t = task
  BY <1>7 DEF PaymentsOf
<1>10. \A t \in TaskIds \ {task} : Settled(t)' <=> Settled(t)
  <2> SUFFICES ASSUME NEW t \in TaskIds, t # task PROVE Settled(t)' <=> Settled(t)
    OBVIOUS
  <2>1. \A q \in PaymentsOf(t) : payments'[q] = payments[q]
    BY <1>3, <1>9 DEF PaymentsOf
  <2> QED
    BY <1>5, <2>1 DEF Settled
<1>11. pending_proposals'.task = pending_proposals.task
  BY DEF table
<1>12. CASE Settled(task)' <=> Settled(task)
  <2>1. SettledTasks' = SettledTasks
    BY <1>10, <1>12 DEF SettledTasks
  <2> QED
    BY <1>6, <1>11, <2>1 DEF Outcome
<1>13. CASE ~(Settled(task)' <=> Settled(task))
  <2>1. Settled(task)'
    BY <1>2, <1>8, <1>13, SettledStays
  <2>2. SettledTasks' = SettledTasks \cup {task}
    BY <1>8, <1>10, <2>1 DEF SettledTasks
  <2>3. PaidBy[task] # {}
    BY <1>8 DEF PaidBy
  <2> QED
    BY <1>6, <1>8, <1>11, <2>2, <2>3 DEF Promise!Settle, PaidBy, SettledTasks, Settled
<1> QED
  BY <1>12, <1>13

\* What enters the table is the promise's Submit, what is closed there its Close.
LEMMA EntryProgress ==
  ASSUME PromiseInv, TableStep, UNCHANGED requests
  PROVE  UNCHANGED Outcome \/ \E task \in TaskIds : Promise!Progress(task)
<1>1. Typed /\ PaidBy' = PaidBy /\ SettledTasks' = SettledTasks
  BY TransfersAlone DEF TableStep, PromiseInv
<1>2. CASE HeldStep
  BY <1>1, <1>2 DEF HeldStep, Holding, Approving, Finishing, Rejecting, Held, Outcome
<1>3. CASE Submitting
  <2>1. call.stage = "save" /\ ~call.approved /\ call.task \in TaskIds
    BY <1>1, <1>3, CallTask DEF Submitting, Typed, CallBounds
  <2>2. /\ ~InTable(call.task)
        /\ Refused \/ call.task \in requests
        /\ call.hash => Settled(call.task)
    <3>1. refusals \in Nat
      BY <1>1 DEF Typed, TypeOK
    <3> QED
      BY <2>1, <3>1 DEF PromiseInv, Behind, AsRequested, Hashes, Asking, Charging, Refused
  <2>3. pending_proposals'.task = [pending_proposals.task EXCEPT ![call.task] =
          [status |-> "submitted", hash |-> call.hash]]
    BY <1>3 DEF Submitting, Entered
  <2>4. call.hash \in BOOLEAN
    BY <1>1 DEF Typed, TypeOK, Calls
  <2>5. Promise!Submit(call.task, call.hash)
    BY <1>1, <2>1, <2>2, <2>3 DEF Promise!Submit, InTable, PaidBy, SettledTasks, Settled, Refused
  <2> QED
    BY <2>1, <2>4, <2>5 DEF Promise!Progress
<1>4. ASSUME NEW task \in TaskIds, NEW status \in {"canceled", "rejected"}, InTable(task),
             Entered(task, status, pending_proposals.task[task].hash)
      PROVE  \E t \in TaskIds : Promise!Progress(t)
  <2>1. pending_proposals.task \in [TaskIds -> Entries]
    BY <1>1 DEF Typed, TypeOK, Tables
  <2>2. [status |-> status, hash |-> pending_proposals.task[task].hash] =
          [pending_proposals.task[task] EXCEPT !.status = status]
    BY <2>1 DEF Entries
  <2>3. pending_proposals'.task = [pending_proposals.task EXCEPT ![task].status = status]
    BY <1>4, <2>1, <2>2 DEF Entered
  <2>4. Promise!Close(task, status)
    BY <1>1, <1>4, <2>3 DEF Promise!Close, InTable, PaidBy, SettledTasks, Settled
  <2> QED
    BY <2>4 DEF Promise!Progress
<1>5. CASE Canceling
  BY <1>1, <1>4, <1>5, CallTask DEF Canceling
<1>6. CASE Dropping
  BY <1>4, <1>6 DEF Dropping
<1> QED
  BY <1>2, <1>3, <1>5, <1>6, Zenon DEF TableStep, EntryStep

\* A crash is no step of the promise while the file is the table, and after a failed write its
\* Forget.
LEMMA CrashForgets ==
  ASSUME PromiseInv, Restarting, UNCHANGED requests
  PROVE  UNCHANGED Outcome \/ Promise!Forget
<1>1. PaidBy' = PaidBy /\ SettledTasks' = SettledTasks
  BY TransfersAlone DEF Restarting
<1>2. Typed /\ saveFailures \in Nat /\ pending_proposals' = saved_pending
  BY DEF PromiseInv, Typed, TypeOK, Restarting
<1>3. CASE saveFailures = 0
  BY <1>1, <1>2, <1>3 DEF PromiseInv, Once, Outcome
<1>4. CASE Unsaved
  <2>1. saved_pending.task \in [TaskIds -> [status : Promise!Statuses, hash : BOOLEAN]]
    BY <1>2 DEF Typed, TypeOK, Tables, Entries, Promise!Statuses
  <2>2. \A task \in TaskIds : saved_pending.task[task].status # "none" =>
          /\ pending_proposals.task[task].status # "none"
          /\ saved_pending.task[task].hash = pending_proposals.task[task].hash
    BY DEF PromiseInv, Behind, InTable
  <2> QED
    BY <1>1, <1>2, <1>4, <2>1, <2>2
    DEF Promise!Forget, PaidBy, SettledTasks, Settled, Unsaved
<1> QED
  BY <1>2, <1>3, <1>4 DEF Unsaved

LEMMA PromiseStep ==
  ASSUME PromiseInv, [Next]_vars
  PROVE  Promise!Next
<1>1. /\ Typed /\ Step
      /\ refusals \in Nat /\ refusals' \in Nat /\ refusals' >= refusals
      /\ saveFailures \in Nat /\ saveFailures' \in Nat /\ saveFailures' >= saveFailures
  BY Stepping, CounterTypes, SMT DEF PromiseInv, Typed, TypeOK
<1>2. (Refused => Refused') /\ (Unsaved => Unsaved')
  BY <1>1, SMT DEF Refused, Unsaved
<1>3. ASSUME UNCHANGED Outcome \/ Promise!Forget \/ \E task \in TaskIds : Promise!Progress(task)
      PROVE  Promise!Next
  BY <1>2, <1>3 DEF Promise!Next, Outcome, PaidBy, SettledTasks, Settled, Refused, Unsaved
<1>4. CASE requests' = requests \cup {call.task} /\ call.task \in TaskIds
           /\ UNCHANGED <<table, payments>>
  <2>1. PaidBy' = PaidBy /\ SettledTasks' = SettledTasks
    BY <1>4, TransfersAlone
  <2>2. Promise!Request(call.task)
    BY <1>4, <2>1 DEF Promise!Request, table, PaidBy, SettledTasks, Settled
  <2> QED
    BY <1>3, <1>4, <2>2 DEF Promise!Progress
<1>5. CASE UNCHANGED requests
  <2>1. CASE CallStep
    BY <1>3, <1>5, <2>1, TransfersAlone DEF CallStep, table, Outcome
  <2>2. CASE Restarting
    BY <1>3, <1>5, <2>2, CrashForgets
  <2>3. CASE TableStep
    BY <1>3, <1>5, <2>3, EntryProgress
  <2>4. CASE PaymentStep /\ Transferring
    <3>1. \E task \in TaskIds : Promise!Pay(task)
      BY <1>1, <1>5, <2>4, TransferPays DEF PaymentStep
    <3> QED
      BY <1>3, <3>1 DEF Promise!Progress
  <2>5. CASE PaymentStep /\ Ending
    <3>1. UNCHANGED Outcome \/ \E task \in TaskIds : Promise!Settle(task)
      BY <1>1, <1>5, <2>5, EndSettles DEF PaymentStep
    <3> QED
      BY <1>3, <3>1 DEF Promise!Progress
  <2> QED
    BY <1>1, <2>1, <2>2, <2>3, <2>4, <2>5 DEF Step, PaymentStep
<1> QED
  BY <1>1, <1>4, <1>5, RequestSteps

LEMMA PromiseInit == Init => Promise!Init
<1> SUFFICES ASSUME Init PROVE Promise!Init
  OBVIOUS
<1>1. \A task \in TaskIds : PaymentsOf(task) = {}
  BY DEF Init, PaymentsOf, NoPayment
<1>2. PaidBy = [task \in TaskIds |-> {}] /\ SettledTasks = {}
  BY <1>1 DEF PaidBy, SettledTasks, Settled
<1>3. pending_proposals.task = [task \in TaskIds |-> [status |-> "none", hash |-> FALSE]]
  BY DEF Init, NoTable
<1>4. Refused = FALSE /\ Unsaved = FALSE
  BY DEF Init, Refused, Unsaved
<1> QED
  BY <1>2, <1>3, <1>4 DEF Init, Promise!Init, PaidBy, SettledTasks, Settled, Refused, Unsaved

\* The agent keeps its promise about a task: every behaviour of AgentTasks is one of TaskPromise,
\* for any number of tasks, transfers and faults of each kind, crashes and late answers included.
THEOREM TaskPromiseKept == Spec => KeepsTaskPromise
<1>1. PromiseInv /\ [Next]_vars => [Promise!Next]_Promised
  BY PromiseStep
<1>2. Typed /\ (Transfers /\ Hashes) /\ AsRequested /\ Once /\ Behind => PromiseInv
  BY DEF PromiseInv
<1> QED
  BY <1>1, <1>2, PromiseInit, AlwaysTyped, AlwaysHashes, AlwaysRequested, AlwaysOnce, AlwaysBehind,
     PTL
  DEF Spec, KeepsTaskPromise, Promise!Spec, Promised, PaidBy, SettledTasks, Settled, Refused,
      Unsaved
=============================================================================
