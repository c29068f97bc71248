--------------------- MODULE AgentSpendingLimitsProofs ---------------------
(***************************************************************************)
(* Theorems about the spending window: period_spent against the value the  *)
(* wallet was handed, and the limits of autonomous spends.                 *)
(***************************************************************************)
EXTENDS AgentSpendingProofs, WellFoundedInduction

\* The allowance for faults, kept apart so that the rest is linear arithmetic.
Slack == Faults * MaxAmount

\* A call, and a proposal in the table, are of one of the four kinds; a
\* deployment carries no amount.
Kinded ==
  /\ call.stage # "idle" => call.kind \in Kinds
  /\ \A p \in PropIds : pending_proposals[p].status # "none" => pending_proposals[p].kind \in Kinds
  /\ call.stage \in {"gate", "submit", "await", "record"} /\ call.kind = "program_deploy" =>
       call.amount = 0

\* The call that waits for the wallet waits for its own transfer, made in the
\* window that is still current.
Waiting ==
  /\ call.stage \in {"await", "record"} =>
       /\ payments[call.pay].status # "none"
       /\ payments[call.pay].amount = call.amount
       /\ payments[call.pay].window = period_start_ts
  /\ call.stage = "record" => payments[call.pay].status = "settled"

LimitsInv == Kinded /\ Waiting /\ SpendCovered /\ AutonomousWithinLimits

\* The skill that returns leaves a call that is over, or the same call one
\* stage further.
LEMMA ReturnCall ==
  ASSUME TypeInv, NEW result \in BOOLEAN, Return(result)
  PROVE  \/ call'.stage = "idle"
         \/ call'.stage = "finish" /\ call'.kind = call.kind
<1>1. CASE call.prop = 0
  BY <1>1 DEF Return, NoCall
<1>2. CASE call.prop # 0
  <2>1. call' = [call EXCEPT !.stage = "finish", !.ok = result] /\ call \in Calls
    BY <1>2 DEF Return, TypeInv, TypeOK
  <2> QED
    BY <2>1 DEF Calls
<1> QED
  BY <1>1, <1>2

\* Every stage of a call that is not an entry keeps the kind of the call.
LEMMA KindedCall ==
  ASSUME TypeInv, Kinded,
         \/ call'.stage = "idle"
         \/ /\ call.stage # "idle" /\ call'.kind = call.kind
            /\ \/ call'.stage \in {"hold", "finish", "recount"}
               \/ /\ call.stage \in {"gate", "submit", "await", "record"}
                  /\ call'.amount = call.amount,
         \A p \in PropIds : pending_proposals'[p].status # "none" =>
           pending_proposals'[p].kind \in Kinds
  PROVE  Kinded'
BY DEF Kinded

LEMMA KindedStep ==
  ASSUME TypeInv, HeldInv, Kinded, [Next]_vars, CrashRestart => Durable
  PROVE  Kinded'
<1>0. call \in Calls /\ pending_proposals \in [PropIds -> Proposals]
  BY DEF TypeInv, TypeOK
<1> DEFINE KeepsKinds == \A p \in PropIds : pending_proposals'[p].status # "none" =>
                                            pending_proposals'[p].kind \in Kinds
<1>a. ASSUME UNCHANGED pending_proposals PROVE KeepsKinds
  BY <1>a DEF Kinded
<1>1. CASE UNCHANGED vars \/ MetaConfigure \/ WalletStep \/ Clock
  <2>1. UNCHANGED <<call, pending_proposals>>
    BY <1>1, ConfigureStep DEF vars, table, WalletStep, Settle, Refuse, Clock, SetClock
  <2> QED
    BY <2>1 DEF Kinded
<1>2. CASE CallSkill
  <2>1. /\ call'.kind \in Kinds /\ (call'.kind = "program_deploy" => call'.amount = 0)
        /\ UNCHANGED pending_proposals
    BY <1>2, ConstantsAssumption DEF CallSkill, Skill, NoCall, table, Kinds
  <2> QED
    BY <2>1, <1>a DEF Kinded
<1>3. CASE Approve
  <2>1. PICK prop \in PropIds : ApprovePending(prop)
    BY <1>3 DEF Approve
  <2>2. /\ pending_proposals[prop].kind \in Kinds
        /\ call'.kind = pending_proposals[prop].kind /\ call'.amount = ReplayedAmount(prop)
    BY <2>1 DEF ApprovePending, NoCall, Kinded
  <2>3. call'.kind = "program_deploy" => call'.amount = 0
    BY <2>2 DEF ReplayedAmount, Transfers
  <2>4. KeepsKinds
    BY <1>0, <2>1, <2>2 DEF ApprovePending, Kinded, Proposals
  <2> QED
    BY <2>2, <2>3, <2>4 DEF Kinded
<1>4. CASE Reject
  <2>1. KeepsKinds /\ UNCHANGED call
    BY <1>0, <1>4 DEF Reject, RejectPending, Rejectable, Kinded, Proposals
  <2> QED
    BY <2>1 DEF Kinded
<1>5. CASE Gate \/ GateDeploy
  <2>1. /\ call.stage = "gate" /\ UNCHANGED pending_proposals
        /\ Proceed \/ \E amount \in Nat \cup {Malformed} : Withhold(amount)
    BY <1>0, <1>5 DEF Gate, GateDeploy, table, Calls, TypeInv, TypeOK, LiveLimits
  <2>2. CASE Proceed
    BY <1>0, <1>a, <2>1, <2>2, KindedCall DEF Proceed, Calls
  <2>3. CASE \E amount \in Nat \cup {Malformed} : Withhold(amount)
    BY <1>0, <1>a, <2>1, <2>3, KindedCall DEF Withhold, Calls
  <2> QED
    BY <2>1, <2>2, <2>3
<1>6. CASE HoldProposal
  <2>1. call.stage = "hold" /\ call.kind \in Kinds /\ Return(TRUE)
    BY <1>6 DEF HoldProposal, Kinded
  <2>2. KeepsKinds
    BY <1>0, <1>6, <2>1 DEF HoldProposal, Kinded
  <2> QED
    BY <2>1, <2>2, ReturnCall, KindedCall
<1>7. CASE Submit \/ ReplyOk
  <2>1. /\ call.stage \in {"submit", "await"} /\ call'.stage \in {"await", "record"}
        /\ call'.kind = call.kind /\ call'.amount = call.amount
        /\ UNCHANGED pending_proposals
    BY <1>0, <1>7 DEF Submit, ReplyOk, Calls, table
  <2> QED
    BY <1>a, <2>1, KindedCall
<1>8. CASE ReplyError \/ WalletUnreachable \/ Timeout \/ RecordSpend
  <2>1. /\ Return(TRUE) \/ Return(FALSE)
        /\ call.stage # "idle" /\ UNCHANGED pending_proposals
    BY <1>8 DEF ReplyError, WalletUnreachable, Timeout, RecordSpend, table
  <2> QED
    BY <1>a, <2>1, ReturnCall, KindedCall
<1>9. CASE FinishApproval
  <2>1. call.stage = "finish" /\ call.prop \in PropIds
    BY <1>9 DEF FinishApproval, TypeInv, CallBounds
  <2>2. pending_proposals[call.prop].status = "approved"
    BY <2>1, ConstantsAssumption DEF HeldInv, Executing, PropIds
  <2>3. KeepsKinds
    BY <1>0, <1>9, <2>1, <2>2 DEF FinishApproval, Kinded, Proposals
  <2>4. call' = NoCall \/ call' = [call EXCEPT !.stage = "recount"]
    BY <1>9 DEF FinishApproval
  <2>5. CASE call' = NoCall
    BY <2>3, <2>5, KindedCall DEF NoCall
  <2>6. CASE call' = [call EXCEPT !.stage = "recount"]
    <3>1. call'.stage = "recount" /\ call'.kind = call.kind
      BY <1>0, <2>6 DEF Calls
    <3> QED
      BY <2>1, <2>3, <3>1, KindedCall
  <2> QED
    BY <2>4, <2>5, <2>6
<1>10. CASE Recount \/ CrashRestart
  <2>1. call'.stage = "idle" /\ UNCHANGED pending_proposals
    BY <1>10 DEF Recount, CrashRestart, NoCall, table, Durable
  <2> QED
    BY <1>a, <2>1, KindedCall
<1> QED
  BY <1>1, <1>2, <1>3, <1>4, <1>5, <1>6, <1>7, <1>8, <1>9, <1>10 DEF Next, AgentStep

LEMMA WaitingStep ==
  ASSUME TypeInv, Waiting, [Next]_vars
  PROVE  Waiting'
<1>0. call \in Calls /\ payments \in [PayIds -> Payments]
  BY DEF TypeInv, TypeOK
<1>a. ASSUME call'.stage \notin {"await", "record"} PROVE Waiting'
  BY <1>a DEF Waiting
<1>1. CASE UNCHANGED vars \/ MetaConfigure \/ Clock \/ Reject
  <2>1. UNCHANGED <<call, payments, period_start_ts>>
    BY <1>1, ConfigureStep DEF vars, spend, Clock, SetClock, Reject, RejectPending
  <2> QED
    BY <2>1 DEF Waiting
<1>2. CASE CallSkill \/ Approve \/ Recount \/ CrashRestart
  <2>1. CASE CallSkill
    BY <1>a, <2>1 DEF CallSkill, Skill, NoCall
  <2>2. CASE Approve
    BY <1>a, <2>2 DEF Approve, ApprovePending, NoCall
  <2>3. CASE Recount \/ CrashRestart
    BY <1>a, <2>3 DEF Recount, CrashRestart, NoCall
  <2> QED
    BY <1>2, <2>1, <2>2, <2>3
<1>3. CASE Gate \/ GateDeploy
  <2>1. call'.stage \in {"submit", "hold"}
    BY <1>0, <1>3 DEF Gate, GateDeploy, Proceed, Withhold, Calls
  <2> QED
    BY <1>a, <2>1
<1>4. CASE HoldProposal \/ ReplyError \/ WalletUnreachable \/ Timeout \/ RecordSpend
  <2>1. Return(TRUE) \/ Return(FALSE)
    BY <1>4 DEF HoldProposal, ReplyError, WalletUnreachable, Timeout, RecordSpend
  <2> QED
    BY <1>a, <2>1, ReturnCall
<1>5. CASE FinishApproval
  <2>1. call'.stage \in {"idle", "recount"}
    BY <1>0, <1>5 DEF FinishApproval, NoCall, Calls
  <2> QED
    BY <1>a, <2>1
<1>6. CASE Submit
  <2>1. /\ call'.stage = "await" /\ call'.pay = next_pay /\ call'.amount = call.amount
        /\ next_pay \in PayIds /\ UNCHANGED period_start_ts
    BY <1>0, <1>6, ConstantsAssumption DEF Submit, Calls, TypeInv, TypeOK, CallBounds, PayIds
  <2>2. payments'[next_pay] = [status |-> "inflight", prop |-> call.prop, kind |-> call.kind,
                               amount |-> call.amount, window |-> period_start_ts]
    BY <1>0, <1>6, <2>1 DEF Submit
  <2> QED
    BY <2>1, <2>2 DEF Waiting
<1>7. CASE ReplyOk
  <2>1. /\ call'.stage = "record" /\ call'.pay = call.pay /\ call'.amount = call.amount
        /\ call.stage = "await" /\ payments[call.pay].status = "settled"
        /\ UNCHANGED <<payments, period_start_ts>>
    BY <1>0, <1>7 DEF ReplyOk, Calls, spend
  <2> QED
    BY <2>1 DEF Waiting
<1>8. CASE WalletStep
  <2>1. PICK p \in PayIds : Settle(p) \/ Refuse(p)
    BY <1>8 DEF WalletStep
  <2>2. /\ payments[p].status = "inflight"
        /\ \E s \in {"settled", "refused"} : payments' = [payments EXCEPT ![p].status = s]
        /\ UNCHANGED <<call, period_start_ts>>
    BY <2>1 DEF Settle, Refuse, spend
  <2>3. \A q \in PayIds : /\ payments'[q].amount = payments[q].amount
                          /\ payments'[q].window = payments[q].window
                          /\ payments[q].status # "none" => payments'[q].status # "none"
                          /\ payments[q].status = "settled" => payments'[q].status = "settled"
    BY <1>0, <2>2 DEF Payments
  <2>4. call.stage \in {"await", "record"} => call.pay \in PayIds
    BY DEF TypeInv, CallBounds
  <2> QED
    BY <2>2, <2>3, <2>4 DEF Waiting
<1> QED
  BY <1>1, <1>2, <1>3, <1>4, <1>5, <1>6, <1>7, <1>8 DEF Next, AgentStep

\* One more fault allows for one more transfer.
LEMMA SlackStep ==
  ASSUME TypeInv
  PROVE  /\ Slack \in Nat
         /\ UNCHANGED faults => Slack' = Slack
         /\ Faults' = Faults + 1 => Slack' = Slack + MaxAmount
<1>1. Faults \in Nat /\ MaxAmount \in Nat
  BY ConstantsAssumption DEF TypeInv, TypeOK, Faults
<1>2. Slack \in Nat /\ (Faults + 1) * MaxAmount = Slack + MaxAmount
  BY <1>1 DEF Slack
<1> QED
  BY <1>2 DEF Slack, Faults, faults

\* A transfer is not larger than MaxAmount, nor is what the call has not recorded.
LEMMA UnrecordedBounds ==
  ASSUME TypeInv, Waiting
  PROVE  /\ Unrecorded \in 0..MaxAmount
         /\ call.stage \in {"await", "record"} => call.amount \in 0..MaxAmount
<1>1. CASE call.stage \in {"await", "record"}
  <2>1. call.pay \in PayIds
    BY <1>1 DEF TypeInv, CallBounds
  <2>2. payments[call.pay].amount \in 0..MaxAmount
    BY <2>1 DEF TypeInv, TypeOK, Payments
  <2> QED
    BY <1>1, <2>2, ConstantsAssumption DEF Waiting, Unrecorded
<1>2. CASE call.stage \notin {"await", "record"}
  BY <1>2, ConstantsAssumption DEF Unrecorded
<1> QED
  BY <1>1, <1>2

LEMMA CoveredStep ==
  ASSUME TypeInv, HeldInv, Kinded, Waiting, SpendCovered, [Next]_vars,
         CrashRestart => Durable
  PROVE  SpendCovered'
<1>0. /\ call \in Calls /\ payments \in [PayIds -> Payments]
      /\ period_spent \in Nat /\ exposure \in Int /\ MaxAmount \in Nat
  BY ConstantsAssumption DEF TypeInv, TypeOK
<1>b. /\ exposure <= period_spent + Unrecorded + Slack
      /\ Slack \in Nat /\ Unrecorded \in 0..MaxAmount
  BY SlackStep, UnrecordedBounds DEF SpendCovered, Slack
<1>c. ASSUME exposure' <= period_spent' + Unrecorded' + Slack' PROVE SpendCovered'
  BY <1>c DEF SpendCovered, Slack
<1>d. ASSUME call'.stage \notin {"await", "record"} PROVE Unrecorded' = 0
  BY <1>d DEF Unrecorded
<1>e. ASSUME call.stage \notin {"await", "record"} PROVE Unrecorded = 0
  BY <1>e DEF Unrecorded
<1>1. CASE UNCHANGED vars \/ MetaConfigure \/ Clock \/ Reject
  <2>1. UNCHANGED <<call, payments, period_spent, exposure, faults>>
    BY <1>1, ConfigureStep DEF vars, spend, Clock, SetClock, Reject, RejectPending
  <2>2. Unrecorded' = Unrecorded
    BY <2>1 DEF Unrecorded
  <2> QED
    BY <1>b, <1>c, <2>1, <2>2, SlackStep
<1>2. CASE CallSkill \/ Approve
  <2>1. call.stage = "idle" /\ UNCHANGED <<period_spent, exposure, faults>>
    BY <1>2 DEF CallSkill, Skill, Approve, ApprovePending, spend
  <2>3. call'.stage = "gate"
    <3>1. CASE CallSkill
      BY <3>1 DEF CallSkill, Skill, NoCall
    <3>2. CASE Approve
      BY <3>2 DEF Approve, ApprovePending, NoCall
    <3> QED
      BY <1>2, <3>1, <3>2
  <2> QED
    BY <1>b, <1>c, <1>d, <1>e, <2>1, <2>3, SlackStep
<1>3. CASE Gate \/ GateDeploy
  <2>1. call'.stage \in {"submit", "hold"} /\ call.stage = "gate" /\ UNCHANGED faults
    BY <1>0, <1>3 DEF Gate, GateDeploy, Proceed, Withhold, Calls
  <2>2. \/ UNCHANGED <<period_spent, exposure>>
        \/ period_spent' = 0 /\ exposure' = 0
    BY <1>3 DEF Gate, GateDeploy, WithinThreshold, RollWindow, spend
  <2>3. Slack' = Slack /\ Unrecorded = 0 /\ Unrecorded' = 0
    BY <1>d, <1>e, <2>1, SlackStep
  <2> QED
    BY <1>0, <1>b, <1>c, <2>2, <2>3
<1>4. CASE HoldProposal \/ WalletUnreachable
  <2>1. /\ call.stage \in {"hold", "submit"} /\ UNCHANGED <<period_spent, exposure, faults>>
        /\ Return(TRUE) \/ Return(FALSE)
    BY <1>4 DEF HoldProposal, WalletUnreachable, spend
  <2>2. Slack' = Slack /\ Unrecorded = 0 /\ Unrecorded' = 0
    BY <1>d, <1>e, <2>1, SlackStep, ReturnCall
  <2> QED
    BY <1>b, <1>c, <2>1, <2>2
<1>5. CASE FinishApproval
  <2>1. /\ call.stage = "finish" /\ UNCHANGED <<period_spent, exposure, faults>>
        /\ call'.stage \in {"idle", "recount"}
    BY <1>0, <1>5 DEF FinishApproval, NoCall, Calls, spend
  <2>2. Slack' = Slack /\ Unrecorded = 0 /\ Unrecorded' = 0
    BY <1>d, <1>e, <2>1, SlackStep
  <2> QED
    BY <1>b, <1>c, <2>1, <2>2
<1>6. CASE Submit
  <2>1. /\ call.stage = "submit" /\ call'.stage = "await" /\ call'.pay = next_pay
        /\ call'.amount = call.amount /\ next_pay \in PayIds
        /\ exposure' = exposure + call.amount /\ UNCHANGED <<period_spent, faults>>
    BY <1>0, <1>6, ConstantsAssumption DEF Submit, Calls, TypeInv, TypeOK, CallBounds, PayIds
  <2>2. payments'[next_pay].status = "inflight"
    BY <1>0, <1>6, <2>1 DEF Submit
  <2>3. Slack' = Slack /\ Unrecorded = 0 /\ Unrecorded' = call.amount
    BY <1>e, <2>1, <2>2, SlackStep DEF Unrecorded
  <2>4. call.amount \in Int
    BY <1>0 DEF Calls, Malformed
  <2> QED
    BY <1>0, <1>b, <1>c, <2>1, <2>3, <2>4
<1>7. CASE ReplyOk
  <2>1. /\ call.stage = "await" /\ call'.stage = "record" /\ call'.pay = call.pay
        /\ call'.amount = call.amount
        /\ UNCHANGED <<payments, period_spent, exposure, faults>>
    BY <1>0, <1>7 DEF ReplyOk, Calls, spend
  <2>2. Unrecorded' = Unrecorded
    BY <2>1 DEF Unrecorded
  <2> QED
    BY <1>b, <1>c, <2>1, <2>2, SlackStep
<1>8. CASE ReplyError
  <2>1. /\ Return(FALSE) /\ call.stage = "await" /\ payments[call.pay].status = "refused"
        /\ UNCHANGED <<period_spent, exposure, faults>>
    BY <1>8 DEF ReplyError, spend
  <2>2. Slack' = Slack /\ Unrecorded = 0 /\ Unrecorded' = 0
    BY <1>d, <2>1, SlackStep, ReturnCall DEF Unrecorded
  <2> QED
    BY <1>b, <1>c, <2>1, <2>2
<1>9. CASE Timeout \/ CrashRestart
  <2>1. UNCHANGED <<period_spent, exposure>>
    <3>1. CASE Timeout
      BY <3>1 DEF Timeout, spend
    <3>2. CASE CrashRestart
      BY <3>2 DEF CrashRestart, Durable
    <3> QED
      BY <1>9, <3>1, <3>2
  <2>2. Faults' = Faults + 1
    <3>1. crashes \in Nat /\ timeouts \in Nat
      BY ConstantsAssumption DEF TypeInv, TypeOK
    <3>2. CASE Timeout
      BY <3>1, <3>2 DEF Timeout, Faults
    <3>3. CASE CrashRestart
      BY <3>1, <3>3 DEF CrashRestart, Faults
    <3> QED
      BY <1>9, <3>2, <3>3
  <2>3. call'.stage \notin {"await", "record"}
    <3>1. CASE Timeout
      BY <3>1, ReturnCall DEF Timeout
    <3>2. CASE CrashRestart
      BY <3>2 DEF CrashRestart, NoCall
    <3> QED
      BY <1>9, <3>1, <3>2
  <2>4. Slack' = Slack + MaxAmount /\ Unrecorded' = 0
    BY <1>d, <2>2, <2>3, SlackStep
  <2> QED
    BY <1>0, <1>b, <1>c, <2>1, <2>4
<1>10. CASE RecordSpend
  <2>1. /\ Return(TRUE) /\ call.stage = "record" /\ UNCHANGED <<exposure, faults>>
        /\ IF Recorded(call.kind, call.amount) THEN period_spent' = period_spent + call.amount
           ELSE UNCHANGED period_spent
    BY <1>10 DEF RecordSpend, Add, spend
  <2>2. Slack' = Slack /\ Unrecorded' = 0
    BY <1>d, <2>1, SlackStep, ReturnCall
  <2>3. Unrecorded = call.amount /\ call.amount \in 0..MaxAmount
    BY <2>1, UnrecordedBounds DEF Waiting, Unrecorded
  <2>4. ~Recorded(call.kind, call.amount) => call.amount = 0
    BY <1>0, <2>1, <2>3 DEF Kinded, Recorded, Kinds
  <2> QED
    BY <1>0, <1>b, <1>c, <2>1, <2>2, <2>3, <2>4
<1>11. CASE Recount
  <2>1. /\ call.stage = "recount" /\ call'.stage = "idle" /\ UNCHANGED <<exposure, faults>>
        /\ period_spent' = period_spent + pending_proposals[call.prop].amount
    BY <1>11 DEF Recount, Add, NoCall
  <2>2. call.prop \in PropIds /\ pending_proposals[call.prop].amount > 0
    BY <2>1 DEF TypeInv, CallBounds
  <2>4. pending_proposals[call.prop].amount \in Nat
    BY <2>2 DEF TypeInv, TypeOK, Proposals, Malformed
  <2>3. Slack' = Slack /\ Unrecorded = 0 /\ Unrecorded' = 0
    BY <1>d, <1>e, <2>1, SlackStep
  <2> QED
    BY <1>0, <1>b, <1>c, <2>1, <2>3, <2>4
<1>12. CASE WalletStep
  <2>1. PICK p \in PayIds : Settle(p) \/ Refuse(p)
    BY <1>12 DEF WalletStep
  <2>2. /\ payments[p].status = "inflight" /\ UNCHANGED <<call, period_spent, faults>>
        /\ payments[p].amount \in 0..MaxAmount
    BY <1>0, <2>1 DEF Settle, Refuse, spend, Payments
  <2>3. CASE Settle(p)
    <3>1. /\ UNCHANGED exposure
          /\ \A q \in PayIds : payments'[q].status = "refused" <=> payments[q].status = "refused"
      BY <1>0, <2>2, <2>3 DEF Settle, spend
    <3>2. Unrecorded' = Unrecorded
      BY <2>2, <3>1 DEF Unrecorded, TypeInv, CallBounds
    <3> QED
      BY <1>b, <1>c, <2>2, <3>1, <3>2, SlackStep
  <2>4. CASE Refuse(p)
    <3>1. /\ payments' = [payments EXCEPT ![p].status = "refused"]
          /\ exposure' = IF payments[p].window = period_start_ts
                         THEN exposure - payments[p].amount ELSE exposure
      BY <2>4 DEF Refuse
    <3>2. CASE call.stage \in {"await", "record"} /\ call.pay = p
      <4>1. exposure' = exposure - call.amount /\ Unrecorded = call.amount
        BY <2>2, <3>1, <3>2 DEF Waiting, Unrecorded
      <4>2. Unrecorded' = 0
        BY <1>0, <2>2, <3>1, <3>2 DEF Unrecorded
      <4> QED
        BY <1>0, <1>b, <1>c, <2>2, <4>1, <4>2, SlackStep
    <3>3. CASE ~(call.stage \in {"await", "record"} /\ call.pay = p)
      <4>1. Unrecorded' = Unrecorded
        BY <1>0, <2>2, <3>1, <3>3 DEF Unrecorded, TypeInv, CallBounds
      <4>2. exposure' <= exposure /\ exposure' \in Int
        BY <1>0, <2>2, <3>1
      <4> QED
        BY <1>0, <1>b, <1>c, <2>2, <4>1, <4>2, SlackStep
    <3> QED
      BY <3>2, <3>3
  <2> QED
    BY <2>1, <2>3, <2>4
<1> QED
  BY <1>1, <1>2, <1>3, <1>4, <1>5, <1>6, <1>7, <1>8, <1>9, <1>10, <1>11, <1>12 DEF Next, AgentStep

\* What the gate lets through fits the window, as period_spent counts it.
LEMMA GatePasses ==
  ASSUME TypeInv, Gate, call'.stage = "submit"
  PROVE  /\ LimitSet(limits.tx) => call.amount <= limits.tx
         /\ LimitSet(limits.period) => period_spent' + call.amount <= limits.period
<1>1. PICK verdict \in BOOLEAN :
        /\ WithinThreshold(call.amount, verdict)
        /\ IF verdict THEN Proceed ELSE Withhold(call.amount)
  BY DEF Gate
<1>2. verdict = TRUE
  <2>1. CASE ~verdict
    <3>1. call' = [call EXCEPT !.stage = "hold", !.amount = call.amount, !.held = next_prop]
      BY <1>1, <2>1 DEF Withhold
    <3> QED
      BY <3>1 DEF TypeInv, TypeOK, Calls
  <2> QED
    BY <2>1
<1>3. CASE ~(LimitSet(limits.tx) \/ LimitSet(limits.period))
  BY <1>3
<1>4. CASE LimitSet(limits.tx) \/ LimitSet(limits.period)
  <2>1. WithinLimits(call.amount) /\ RollWindow
    <3>1. call.amount \in Int
      BY DEF TypeInv, TypeOK, Calls, Malformed
    <3>2. call.amount >= 0
      BY <1>1, <1>2, <3>1 DEF WithinThreshold
    <3>3. ~(call.amount < 0)
      BY <3>1, <3>2
    <3> QED
      BY <1>1, <1>2, <1>4, <3>3, Zenon DEF WithinThreshold
  <2>2. period_spent' = SpentInWindow
    BY <2>1 DEF RollWindow, SpentInWindow, spend
  <2> QED
    BY <2>1, <2>2 DEF WithinLimits
<1> QED
  BY <1>3, <1>4

\* A call of the agent's own in which nothing is added to the exposure.
LEMMA WithinKept ==
  ASSUME TypeInv, AutonomousWithinLimits, exposure' \in Int, exposure' <= exposure,
         UNCHANGED <<call, faults>>, call.stage # "idle" => UNCHANGED limits
  PROVE  AutonomousWithinLimits'
<1>1. /\ Slack \in Nat /\ Slack' = Slack
      /\ exposure \in Int /\ call \in Calls /\ limits \in LiveLimits
  BY SlackStep DEF TypeInv, TypeOK
<1>2. CASE call.stage \notin {"submit", "await", "record"}
  BY <1>2 DEF AutonomousWithinLimits
<1>3. CASE call.stage \in {"submit", "await", "record"}
  <2>1. limits' = limits /\ limits.period \in Int /\ call.amount \in Int
    BY <1>1, <1>3 DEF LiveLimits, Calls, Malformed
  <2>2. (Autonomous' <=> Autonomous) /\ UNCHANGED <<call, faults>>
    BY DEF Autonomous
  <2>3. Autonomous /\ LimitSet(limits.period) =>
          /\ call.stage = "submit" => exposure' + call.amount <= limits.period + Slack'
          /\ call.stage \in {"await", "record"} => exposure' <= limits.period + Slack'
    <3>1. Autonomous /\ LimitSet(limits.period) =>
            /\ call.stage = "submit" => exposure + call.amount <= limits.period + Slack
            /\ call.stage \in {"await", "record"} => exposure <= limits.period + Slack
      BY DEF AutonomousWithinLimits, Slack
    <3> QED
      BY <1>1, <2>1, <3>1
  <2>4. Autonomous /\ call.stage = "submit" /\ LimitSet(limits.tx) => call.amount <= limits.tx
    BY DEF AutonomousWithinLimits
  <2> QED
    BY <2>1, <2>2, <2>3, <2>4 DEF AutonomousWithinLimits, Slack, LimitSet
<1> QED
  BY <1>2, <1>3

LEMMA WithinStep ==
  ASSUME TypeInv, HeldInv, Kinded, Waiting, SpendCovered, AutonomousWithinLimits,
         [Next]_vars, CrashRestart => Durable
  PROVE  AutonomousWithinLimits'
<1>0. /\ call \in Calls /\ payments \in [PayIds -> Payments]
      /\ period_spent \in Nat /\ exposure \in Int /\ limits \in LiveLimits
      /\ Slack \in Nat
  BY SlackStep DEF TypeInv, TypeOK
<1>a. ASSUME call'.stage \notin {"submit", "await", "record"} PROVE AutonomousWithinLimits'
  BY <1>a DEF AutonomousWithinLimits
<1>1. CASE UNCHANGED vars \/ Clock \/ Reject \/ MetaConfigure
  <2>1. CASE UNCHANGED vars \/ Clock \/ Reject
    <3>1. UNCHANGED <<call, limits, exposure, faults>>
      BY <2>1 DEF vars, settings, spend, Clock, SetClock, Reject, RejectPending
    <3> QED
      BY <1>0, <3>1, WithinKept
  <2>2. CASE MetaConfigure
    <3>1. call.stage = "idle" /\ UNCHANGED call
      BY <2>2 DEF MetaConfigure, Configure
    <3> QED
      BY <1>a, <3>1
  <2> QED
    BY <1>1, <2>1, <2>2
<1>2. CASE CallSkill
  BY <1>a, <1>2 DEF CallSkill, Skill, NoCall
<1>3. CASE Approve
  BY <1>a, <1>3 DEF Approve, ApprovePending, NoCall
<1>4. CASE Recount \/ CrashRestart
  BY <1>a, <1>4 DEF Recount, CrashRestart, NoCall
<1>5. CASE HoldProposal \/ ReplyError \/ WalletUnreachable \/ Timeout \/ RecordSpend
  <2>1. Return(TRUE) \/ Return(FALSE)
    BY <1>5 DEF HoldProposal, ReplyError, WalletUnreachable, Timeout, RecordSpend
  <2> QED
    BY <1>a, <2>1, ReturnCall
<1>6. CASE FinishApproval
  <2>1. call'.stage \in {"idle", "recount"}
    BY <1>0, <1>6 DEF FinishApproval, NoCall, Calls
  <2> QED
    BY <1>a, <2>1
<1>7. CASE GateDeploy
  <2>1. call'.kind = "program_deploy" /\ call'.stage \in {"submit", "hold"}
    BY <1>0, <1>7 DEF GateDeploy, Proceed, Withhold, Calls
  <2> QED
    BY <2>1 DEF AutonomousWithinLimits, Autonomous
<1>8. CASE Gate
  <2>1. call'.stage \in {"submit", "hold"}
    BY <1>0, <1>8 DEF Gate, Proceed, Withhold, Calls
  <2>2. CASE call'.stage = "submit"
    <3>1. call'.amount = call.amount /\ UNCHANGED <<limits, faults>>
      BY <1>0, <1>8, <2>2 DEF Gate, Proceed, Withhold, Calls, settings
    <3>2. exposure' <= period_spent' + Slack
      <4>1. exposure' <= period_spent' + Unrecorded' + Slack'
        BY CoveredStep DEF SpendCovered, Slack
      <4>2. Unrecorded' = 0 /\ Slack' = Slack /\ period_spent' \in Int
        BY <1>0, <1>8, <2>2, <3>1, SlackStep
        DEF Unrecorded, Gate, WithinThreshold, RollWindow, spend
      <4> QED
        BY <1>0, <4>1, <4>2
    <3>3. /\ LimitSet(limits.tx) => call.amount <= limits.tx
          /\ LimitSet(limits.period) => period_spent' + call.amount <= limits.period
      BY <1>8, <2>2, GatePasses
    <3>4. exposure' \in Int /\ period_spent' \in Int /\ call.amount \in Int /\ limits.period \in Int
      BY <1>0, <1>8 DEF Gate, WithinThreshold, RollWindow, spend, Calls, LiveLimits, Malformed
    <3>5. LimitSet(limits.period) => exposure' + call.amount <= limits.period + Slack
      <4>1. SUFFICES ASSUME LimitSet(limits.period)
                     PROVE  exposure' + call.amount <= limits.period + Slack
        OBVIOUS
      <4>2. period_spent' + call.amount <= limits.period /\ Slack \in Int
        BY <1>0, <3>3, <4>1
      <4>3. \A a, b, c, d, e \in Int : a <= b + e /\ b + c <= d => a + c <= d + e
        OBVIOUS
      <4> QED
        BY <3>2, <3>4, <4>2, <4>3
    <3> QED
      BY <2>2, <3>1, <3>3, <3>5, SlackStep DEF AutonomousWithinLimits, Slack, LimitSet
  <2> QED
    BY <1>a, <2>1, <2>2
<1>9. CASE Submit
  <2>1. /\ call.stage = "submit" /\ call'.stage = "await"
        /\ call'.prop = call.prop /\ call'.kind = call.kind
        /\ exposure' = exposure + call.amount /\ UNCHANGED <<limits, faults>>
    BY <1>0, <1>9 DEF Submit, Calls, settings
  <2>2. Slack' = Slack /\ (Autonomous' <=> Autonomous)
    BY <2>1, SlackStep DEF Autonomous
  <2> QED
    BY <2>1, <2>2 DEF AutonomousWithinLimits, Slack
<1>10. CASE ReplyOk
  <2>1. /\ call.stage = "await" /\ call'.stage = "record"
        /\ call'.prop = call.prop /\ call'.kind = call.kind
        /\ UNCHANGED <<limits, exposure, faults>>
    BY <1>0, <1>10 DEF ReplyOk, Calls, settings, spend
  <2>2. Slack' = Slack /\ (Autonomous' <=> Autonomous)
    BY <2>1, SlackStep DEF Autonomous
  <2> QED
    BY <2>1, <2>2 DEF AutonomousWithinLimits, Slack
<1>11. CASE WalletStep
  <2>1. PICK p \in PayIds : Settle(p) \/ Refuse(p)
    BY <1>11 DEF WalletStep
  <2>2. payments[p].amount \in Nat /\ UNCHANGED <<call, limits, faults>>
    BY <1>0, <2>1 DEF Payments, Settle, Refuse, settings
  <2>3. exposure' \in Int /\ exposure' <= exposure
    <3>1. CASE Settle(p)
      BY <1>0, <3>1 DEF Settle, spend
    <3>2. CASE Refuse(p)
      BY <1>0, <2>2, <3>2 DEF Refuse
    <3> QED
      BY <2>1, <3>1, <3>2
  <2> QED
    BY <2>2, <2>3, WithinKept
<1> QED
  BY <1>1, <1>2, <1>3, <1>4, <1>5, <1>6, <1>7, <1>8, <1>9, <1>10, <1>11 DEF Next, AgentStep

LEMMA LimitsInit ==
  Init => LimitsInv
<1> SUFFICES ASSUME Init PROVE LimitsInv
  OBVIOUS
<1>1. call.stage = "idle" /\ exposure = 0 /\ period_spent = 0 /\ Faults = 0
  BY DEF Init, NoCall, Faults
<1>2. 0 * MaxAmount = 0
  BY ConstantsAssumption
<1>3. Kinded
  BY <1>1 DEF Init, Kinded, NoProposal, NoTable
<1> QED
  BY <1>1, <1>2, <1>3
  DEF LimitsInv, Waiting, SpendCovered, AutonomousWithinLimits, Unrecorded

LEMMA LimitsStep ==
  ASSUME TypeInv, TrustedInv, Trusted => LimitsInv, [Next]_vars, Trusted'
  PROVE  LimitsInv'
BY TrustedBefore, KindedStep, WaitingStep, CoveredStep, WithinStep DEF LimitsInv

LEMMA LimitsCorrect == Spec => [](Trusted => LimitsInv)
<1> DEFINE Inv == Trusted => LimitsInv
<1>1. Init => Inv
  BY LimitsInit
<1>2. TypeInv /\ TrustedInv /\ Inv /\ [Next]_vars => Inv'
  BY LimitsStep
<1> QED
  BY <1>1, <1>2, TrustedCorrect, PTL DEF Spec

\* Whatever the wallet does and whenever the process stops, period_spent lags
\* behind the value handed to the wallet by at most one transfer for each crash
\* and each reply that came too late, unless it restarts after a failed write.
THEOREM SpendIsCovered == Spec => [](Trusted => SpendCovered)
<1>1. (Trusted => LimitsInv) => (Trusted => SpendCovered)
  BY DEF LimitsInv
<1> QED
  BY <1>1, LimitsCorrect, PTL

\* What the agent spends without its owner stays within the owner's limits, but
\* for the same allowance and with the same exception.
THEOREM LimitsAreKept == Spec => [](Trusted => AutonomousWithinLimits)
<1>1. (Trusted => LimitsInv) => (Trusted => AutonomousWithinLimits)
  BY DEF LimitsInv
<1> QED
  BY <1>1, LimitsCorrect, PTL

(***************************************************************************)
(* The gate in force.  approve_pending keeps the configured limits aside   *)
(* from its entry until its one skill returns, and no longer; nothing else *)
(* touches the limits without the configuration.                           *)
(***************************************************************************)
InForce == limits = SyncConfigFields(config)
Bypass ==
  /\ call.stage = "idle" => call.prop = 0
  /\ call.prop # 0 => call.restore = SyncConfigFields(config)
  /\ call.prop = 0 \/ call.stage \in {"finish", "recount"} => InForce

\* A step inside the call, its proposal kept and the limits left alone.
LEMMA BypassKept ==
  ASSUME Bypass, UNCHANGED <<config, limits>>, call'.stage # "idle",
         call'.prop = call.prop, call'.restore = call.restore,
         call'.stage \in {"finish", "recount"} => call.stage \in {"finish", "recount"}
  PROVE  Bypass'
<1>1. SyncConfigFields(config)' = SyncConfigFields(config)
  BY DEF SyncConfigFields, LimitOf
<1> QED
  BY <1>1 DEF Bypass, InForce

\* The skill's return ends the bypass, whatever it returns.
LEMMA BypassReturn ==
  ASSUME TypeInv, Bypass, UNCHANGED config, NEW result \in BOOLEAN, Return(result)
  PROVE  Bypass'
<1>1. SyncConfigFields(config)' = SyncConfigFields(config)
  BY DEF SyncConfigFields, LimitOf
<1>2. CASE call.prop = 0
  BY <1>1, <1>2 DEF Return, NoCall, Bypass, InForce
<1>3. CASE call.prop # 0
  <2>1. /\ call' = [call EXCEPT !.stage = "finish", !.ok = result] /\ call \in Calls
        /\ limits' = call.restore
    BY <1>3 DEF Return, TypeInv, TypeOK
  <2>2. call'.stage = "finish" /\ call'.prop = call.prop /\ call'.restore = call.restore
    BY <2>1 DEF Calls
  <2> QED
    BY <1>1, <1>3, <2>1, <2>2 DEF Bypass, InForce
<1> QED
  BY <1>2, <1>3

\* A call that is over, with the limits of the configuration.
LEMMA BypassOver ==
  ASSUME call' = NoCall, InForce'
  PROVE  Bypass'
BY DEF NoCall, Bypass

LEMMA BypassStep ==
  ASSUME TypeInv, Bypass, [Next]_vars
  PROVE  Bypass'
<1>0. call \in Calls
  BY DEF TypeInv, TypeOK
<1>a. ASSUME UNCHANGED config PROVE SyncConfigFields(config)' = SyncConfigFields(config)
  BY <1>a DEF SyncConfigFields, LimitOf
<1>b. ASSUME UNCHANGED <<config, limits>>, InForce PROVE InForce'
  BY <1>a, <1>b DEF InForce
<1>1. CASE UNCHANGED vars \/ Reject \/ WalletStep \/ Clock
  <2>1. UNCHANGED <<call, limits, config>>
    BY <1>1 DEF vars, settings, Reject, RejectPending, WalletStep, Settle, Refuse, Clock, SetClock
  <2> QED
    BY <1>a, <2>1 DEF Bypass, InForce
<1>2. CASE MetaConfigure
  <2>1. call.stage = "idle" /\ UNCHANGED call /\ limits' = SyncConfigFields(config')
    BY <1>2, ConfigureStep
  <2>2. InForce'
    BY <2>1 DEF InForce, SyncConfigFields, LimitOf
  <2> QED
    BY <2>1, <2>2 DEF Bypass
<1>3. CASE CallSkill
  <2>1. /\ call.stage = "idle" /\ call'.prop = 0 /\ call'.stage = "gate"
        /\ UNCHANGED <<config, limits>>
    BY <1>3 DEF CallSkill, Skill, NoCall, settings
  <2> QED
    BY <1>b, <2>1 DEF Bypass
<1>4. CASE Approve
  <2>1. /\ call.stage = "idle" /\ call'.stage = "gate" /\ call'.prop \in PropIds
        /\ call'.restore = limits /\ UNCHANGED config
    BY <1>4 DEF Approve, ApprovePending, NoCall
  <2> QED
    BY <1>a, <2>1 DEF Bypass, InForce, PropIds
<1>5. CASE Gate \/ GateDeploy
  <2>1. /\ call'.stage \in {"submit", "hold"} /\ call'.prop = call.prop
        /\ call'.restore = call.restore /\ UNCHANGED <<config, limits>>
    BY <1>0, <1>5 DEF Gate, GateDeploy, Proceed, Withhold, Calls, settings
  <2> QED
    BY <2>1, BypassKept
<1>6. CASE Submit \/ ReplyOk
  <2>1. /\ call'.stage \in {"await", "record"} /\ call'.prop = call.prop
        /\ call'.restore = call.restore /\ UNCHANGED <<config, limits>>
    BY <1>0, <1>6 DEF Submit, ReplyOk, Calls, settings
  <2> QED
    BY <2>1, BypassKept
<1>7. CASE HoldProposal \/ ReplyError \/ WalletUnreachable \/ Timeout \/ RecordSpend
  <2>1. (Return(TRUE) \/ Return(FALSE)) /\ UNCHANGED config
    BY <1>7 DEF HoldProposal, ReplyError, WalletUnreachable, Timeout, RecordSpend
  <2> QED
    BY <2>1, BypassReturn
<1>8. CASE FinishApproval
  <2>1. call.stage = "finish" /\ InForce /\ UNCHANGED <<config, limits>>
    BY <1>8 DEF FinishApproval, Bypass, settings
  <2>2. CASE call' = NoCall
    BY <1>b, <2>1, <2>2, BypassOver
  <2>3. CASE call' = [call EXCEPT !.stage = "recount"]
    <3>1. /\ call'.stage = "recount" /\ call'.prop = call.prop
          /\ call'.restore = call.restore
      BY <1>0, <2>3 DEF Calls
    <3> QED
      BY <2>1, <3>1, BypassKept
  <2> QED
    BY <1>8, <2>2, <2>3 DEF FinishApproval
<1>9. CASE Recount
  <2>1. call' = NoCall /\ InForce /\ UNCHANGED <<config, limits>>
    BY <1>9 DEF Recount, Bypass, settings
  <2> QED
    BY <1>b, <2>1, BypassOver
<1>10. CASE CrashRestart
  <2>1. call' = NoCall /\ config' = saved_config /\ limits' = SyncConfigFields(saved_config)
    BY <1>10 DEF CrashRestart
  <2>2. InForce'
    BY <2>1 DEF InForce, SyncConfigFields, LimitOf
  <2> QED
    BY <2>1, <2>2, BypassOver
<1> QED
  BY <1>1, <1>2, <1>3, <1>4, <1>5, <1>6, <1>7, <1>8, <1>9, <1>10 DEF Next, AgentStep

\* The limits the owner configured are the limits in force, but for the one
\* skill that approve_pending executes; whatever fails, crashes or is not saved.
THEOREM GateIsRestored == Spec => []GateRestored
<1>1. Init => Bypass
  BY DEF Init, Bypass, InForce, NoCall
<1>2. Bypass => GateRestored
  BY DEF Bypass, InForce, GateRestored
<1>3. TypeInv /\ Bypass /\ [Next]_vars => Bypass'
  BY BypassStep
<1> QED
  BY <1>1, <1>2, <1>3, InitType, NextType, PTL DEF Spec

(***************************************************************************)
(* The total of a window is a recursive function of the transfers, and     *)
(* what it does takes an induction.  The library's induction theorems take *)
(* an operator, which no prover here can instantiate, so the induction is  *)
(* over a set of numbers, from the least number outside of it.             *)
(***************************************************************************)
LEMMA Minimal ==
  ASSUME NEW R, NEW S, IsWellFoundedOn(R, S), NEW T, T \subseteq S, T # {}
  PROVE  \E n \in T : \A m \in T : ~(<<m, n>> \in R)
BY WFMin

LEMMA Least ==
  ASSUME NEW T \in SUBSET Nat, T # {}
  PROVE  \E n \in T : \A m \in T : n <= m
<1>1. IsWellFoundedOn(OpToRel(<, Nat), Nat) /\ T \subseteq Nat
  BY NatLessThanWellFounded
<1>2. PICK n \in T : \A m \in T : ~(<<m, n>> \in OpToRel(<, Nat))
  BY <1>1, Minimal, Zenon
<1>3. \A m \in T : ~(m < n)
  BY <1>2 DEF OpToRel
<1> QED
  BY <1>3

LEMMA InductionOverSet ==
  ASSUME NEW S \in SUBSET Nat, 0 \in S, \A n \in S : n + 1 \in S
  PROVE  S = Nat
<1> SUFFICES ASSUME S # Nat PROVE FALSE
  OBVIOUS
<1>1. Nat \ S # {}
  OBVIOUS
<1>2. PICK n \in Nat \ S : \A m \in Nat \ S : n <= m
  BY <1>1, Least
<1>3. n # 0 /\ n - 1 \in Nat /\ n - 1 \notin Nat \ S
  BY <1>2
<1> QED
  BY <1>2, <1>3

\* f holds the partial sums of w up to N.
Sums(f, w, N) == f = [k \in 0..N |-> IF k = 0 THEN 0 ELSE f[k - 1] + w[k]]

LEMMA SumsExist ==
  ASSUME NEW w, NEW N \in Nat
  PROVE  \E f : Sums(f, w, N)
<1> DEFINE S == {n \in Nat : \E f : Sums(f, w, n)}
<1>1. 0 \in S
  <2> DEFINE f == [k \in 0..0 |-> 0]
  <2>1. Sums(f, w, 0)
    BY DEF Sums
  <2> QED
    BY <2>1
<1>2. ASSUME NEW n \in S
      PROVE  n + 1 \in S
  <2>1. PICK f : Sums(f, w, n)
    OBVIOUS
  <2> DEFINE g == [k \in 0..n + 1 |-> IF k = n + 1 THEN f[n] + w[n + 1] ELSE f[k]]
             h == [k \in 0..n + 1 |-> IF k = 0 THEN 0 ELSE g[k - 1] + w[k]]
  <2>2. ASSUME NEW k \in 0..n + 1
        PROVE  g[k] = h[k]
    <3>1. CASE k = n + 1
      BY <3>1
    <3>2. CASE k \in 0..n
      <4>1. g[k] = f[k] /\ (k # 0 => k - 1 \in 0..n /\ g[k - 1] = f[k - 1])
        BY <3>2
      <4>2. f[k] = IF k = 0 THEN 0 ELSE f[k - 1] + w[k]
        BY <2>1, <3>2 DEF Sums
      <4> QED
        BY <4>1, <4>2
    <3> QED
      BY <3>1, <3>2
  <2>3. g = [k \in 0..n + 1 |-> g[k]] /\ h = [k \in 0..n + 1 |-> h[k]]
    OBVIOUS
  <2>4. h = [k \in 0..n + 1 |-> IF k = 0 THEN 0 ELSE g[k - 1] + w[k]]
    OBVIOUS
  <2> HIDE DEF g, h
  <2>5. Sums(g, w, n + 1)
    BY <2>2, <2>3, <2>4 DEF Sums
  <2> QED
    BY <2>5
<1>3. S = Nat
  BY <1>1, <1>2, InductionOverSet
<1> QED
  BY <1>3

\* So the total is the last of the partial sums.
LEMMA TotalIsLastSum ==
  ASSUME NEW w
  PROVE  \E f : Sums(f, w, MaxPays) /\ Total(w) = f[MaxPays]
<1> DEFINE f == CHOOSE g : Sums(g, w, MaxPays)
<1>1. Sums(f, w, MaxPays)
  BY SumsExist, ConstantsAssumption
<1>2. Total(w) = f[MaxPays]
  BY DEF Total, Sums
<1> QED
  BY <1>1, <1>2

\* Where nothing counts, the total is 0.
LEMMA TotalOfNothing ==
  ASSUME NEW w, \A p \in PayIds : w[p] = 0
  PROVE  Total(w) = 0
<1>1. PICK f : Sums(f, w, MaxPays) /\ Total(w) = f[MaxPays]
  BY TotalIsLastSum
<1> DEFINE S == {n \in Nat : n <= MaxPays => f[n] = 0}
<1>2. ASSUME NEW n \in 0..MaxPays
      PROVE  f[n] = IF n = 0 THEN 0 ELSE f[n - 1] + w[n]
  BY <1>1 DEF Sums
<1>3. MaxPays \in Nat
  BY ConstantsAssumption
<1>4. 0 \in S
  BY <1>2, <1>3
<1>5. ASSUME NEW n \in S
      PROVE  n + 1 \in S
  <2> SUFFICES ASSUME n + 1 <= MaxPays PROVE f[n + 1] = 0
    OBVIOUS
  <2>1. n + 1 \in 0..MaxPays /\ n + 1 # 0 /\ (n + 1) - 1 = n /\ w[n + 1] = 0 /\ f[n] = 0
    BY <1>3 DEF PayIds
  <2> QED
    BY <1>2, <2>1
<1>6. S = Nat
  BY <1>4, <1>5, InductionOverSet
<1> QED
  BY <1>1, <1>3, <1>6

\* Where one transfer changes what it counts for, the total changes as much.
LEMMA TotalOfOneMore ==
  ASSUME NEW v \in [PayIds -> Int], NEW w \in [PayIds -> Int], NEW q \in PayIds, NEW d \in Int,
         w[q] = v[q] + d, \A p \in PayIds \ {q} : w[p] = v[p]
  PROVE  Total(w) = Total(v) + d
<1>1. PICK f : Sums(f, v, MaxPays) /\ Total(v) = f[MaxPays]
  BY TotalIsLastSum
<1>2. PICK g : Sums(g, w, MaxPays) /\ Total(w) = g[MaxPays]
  BY TotalIsLastSum
<1> DEFINE S == {n \in Nat : n <= MaxPays =>
                               /\ f[n] \in Int
                               /\ g[n] = IF n < q THEN f[n] ELSE f[n] + d}
<1>3. ASSUME NEW n \in 0..MaxPays
      PROVE  /\ f[n] = IF n = 0 THEN 0 ELSE f[n - 1] + v[n]
             /\ g[n] = IF n = 0 THEN 0 ELSE g[n - 1] + w[n]
  BY <1>1, <1>2 DEF Sums
<1>4. MaxPays \in Nat /\ q \in 1..MaxPays
  BY ConstantsAssumption DEF PayIds
<1>5. 0 \in S
  BY <1>3, <1>4
<1>6. ASSUME NEW n \in S
      PROVE  n + 1 \in S
  <2> SUFFICES ASSUME n + 1 <= MaxPays
               PROVE  /\ f[n + 1] \in Int
                      /\ g[n + 1] = IF n + 1 < q THEN f[n + 1] ELSE f[n + 1] + d
    OBVIOUS
  <2>1. /\ n + 1 \in 0..MaxPays /\ n + 1 # 0 /\ (n + 1) - 1 = n /\ n + 1 \in PayIds
        /\ f[n] \in Int /\ g[n] = IF n < q THEN f[n] ELSE f[n] + d
    BY <1>4 DEF PayIds
  <2>2. f[n + 1] = f[n] + v[n + 1] /\ g[n + 1] = g[n] + w[n + 1]
    BY <1>3, <2>1
  <2>3. v[n + 1] \in Int /\ w[n + 1] = IF n + 1 = q THEN v[n + 1] + d ELSE v[n + 1]
    BY <2>1
  <2> QED
    BY <1>4, <2>1, <2>2, <2>3
<1>7. S = Nat
  BY <1>5, <1>6, InductionOverSet
<1> QED
  BY <1>1, <1>2, <1>4, <1>7

(***************************************************************************)
(* The exposure is the total of the window.  A window that begins is later *)
(* than every window in which something was handed over, because the gate  *)
(* rolls it only with the clock ahead of its start; a clock set back does  *)
(* not reopen an old one.                                                  *)
(***************************************************************************)
NoLaterWindow == \A p \in PayIds : Made(p) => payments[p].window <= period_start_ts
WindowInv == NoLaterWindow /\ ExposureIsWindowTotal

LEMMA WorthType ==
  /\ TypeInv => Worth \in [PayIds -> Int]
  /\ TypeInv' => Worth' \in [PayIds -> Int]
<1>1. /\ TypeInv => \A p \in PayIds : payments[p].amount \in Int
      /\ TypeInv' => \A p \in PayIds : payments'[p].amount \in Int
  BY ConstantsAssumption DEF TypeInv, TypeOK, Payments
<1> QED
  BY <1>1 DEF Worth

LEMMA WindowKept ==
  ASSUME WindowInv, UNCHANGED <<payments, period_start_ts, exposure>>
  PROVE  WindowInv'
<1>1. Worth' = Worth
  BY DEF Worth, InWindow
<1> QED
  BY <1>1 DEF WindowInv, NoLaterWindow, ExposureIsWindowTotal, Made

\* A roll begins a window that nothing was handed over in.
LEMMA WindowRolled ==
  ASSUME TypeInv, WindowInv, RollDue, UNCHANGED payments, period_start_ts' = now, exposure' = 0
  PROVE  WindowInv'
<1>1. period_start_ts \in Nat /\ now \in Nat /\ period_start_ts < period_start_ts'
  BY ConstantsAssumption DEF TypeInv, TypeOK, RollDue, LiveLimits
<1>2. \A p \in PayIds : payments[p].window \in Nat
  BY ConstantsAssumption DEF TypeInv, TypeOK, Payments
<1>3. NoLaterWindow'
  BY <1>1, <1>2 DEF WindowInv, NoLaterWindow, Made
<1>4. \A p \in PayIds : ~InWindow(p)'
  BY <1>1, <1>2 DEF WindowInv, NoLaterWindow, Made, InWindow
<1>5. \A p \in PayIds : Worth'[p] = 0
  BY <1>4 DEF Worth
<1>6. Total(Worth') = 0
  BY <1>5, TotalOfNothing
<1> QED
  BY <1>3, <1>6 DEF WindowInv, ExposureIsWindowTotal

LEMMA WindowStep ==
  ASSUME TypeInv, TypeInv', HeldInv, WindowInv, [Next]_vars, CrashRestart => Durable
  PROVE  WindowInv'
<1>0. /\ call \in Calls /\ payments \in [PayIds -> Payments] /\ period_start_ts \in Nat
      /\ \A p \in PayIds : payments[p].amount \in Nat
      /\ Worth \in [PayIds -> Int] /\ Worth' \in [PayIds -> Int]
      /\ exposure = Total(Worth)
  BY ConstantsAssumption, WorthType
  DEF TypeInv, TypeOK, Payments, WindowInv, ExposureIsWindowTotal
<1>a. ASSUME UNCHANGED spend, UNCHANGED payments PROVE WindowInv'
  BY <1>a, WindowKept DEF spend
<1>1. CASE UNCHANGED vars \/ MetaConfigure \/ Clock \/ Reject \/ CallSkill \/ Approve
  <2>1. CASE UNCHANGED vars \/ MetaConfigure
    BY <2>1, ConfigureStep, WindowKept DEF vars, spend
  <2>2. CASE Clock \/ Reject \/ CallSkill \/ Approve
    BY <1>a, <2>2 DEF Clock, SetClock, Reject, RejectPending, CallSkill, Skill, Approve,
                      ApprovePending
  <2> QED
    BY <1>1, <2>1, <2>2
<1>2. CASE Gate
  <2>1. UNCHANGED payments /\ (UNCHANGED spend \/ RollWindow)
    BY <1>2 DEF Gate, WithinThreshold
  <2>2. CASE RollDue /\ RollWindow
    BY <2>1, <2>2, WindowRolled DEF RollWindow
  <2>3. CASE ~RollDue \/ UNCHANGED spend
    BY <1>a, <2>1, <2>3 DEF RollWindow
  <2> QED
    BY <2>1, <2>2, <2>3
<1>3. CASE \/ GateDeploy \/ HoldProposal \/ WalletUnreachable \/ ReplyOk \/ ReplyError
           \/ Timeout \/ FinishApproval
  BY <1>a, <1>3 DEF GateDeploy, HoldProposal, WalletUnreachable, ReplyOk, ReplyError, Timeout,
                    FinishApproval
<1>4. CASE RecordSpend \/ Recount
  BY <1>4, WindowKept DEF RecordSpend, Recount, Add, spend
<1>5. CASE CrashRestart
  BY <1>5, WindowKept DEF CrashRestart, Durable
<1>6. CASE Submit
  <2> DEFINE q == next_pay
  <2>1. /\ q \in PayIds /\ ~Made(q) /\ call.amount \in Int
        /\ UNCHANGED period_start_ts /\ exposure' = exposure + call.amount
    <3>1. q \in PayIds
      BY <1>6, ConstantsAssumption DEF Submit, TypeInv, TypeOK, CallBounds, PayIds
    <3>2. ~Made(q)
      BY <3>1, ConstantsAssumption DEF HeldInv, FreshIds, TypeInv, TypeOK, PayIds
    <3>3. call.amount \in Int
      BY <1>0 DEF Calls, Malformed
    <3> QED
      BY <1>6, <3>1, <3>2, <3>3 DEF Submit
  <2>2. payments' = [payments EXCEPT ![q] =
          [status |-> "inflight", prop |-> call.prop, kind |-> call.kind,
           amount |-> call.amount, window |-> period_start_ts]]
    BY <1>6 DEF Submit
  <2> HIDE DEF q
  <2>3. /\ payments'[q].status = "inflight" /\ payments'[q].amount = call.amount
        /\ payments'[q].window = period_start_ts
        /\ \A p \in PayIds \ {q} : payments'[p] = payments[p]
    BY <1>0, <2>1, <2>2
  <2>4. Worth[q] = 0 /\ Worth'[q] = call.amount
    BY <2>1, <2>3 DEF Worth, InWindow, Made
  <2>5. \A p \in PayIds \ {q} : Worth'[p] = Worth[p]
    BY <2>1, <2>3 DEF Worth, InWindow
  <2>6. Total(Worth') = Total(Worth) + call.amount
    BY <1>0, <2>1, <2>4, <2>5, TotalOfOneMore
  <2>7. NoLaterWindow'
    BY <1>0, <2>1, <2>3 DEF WindowInv, NoLaterWindow, Made
  <2> QED
    BY <1>0, <2>1, <2>6, <2>7 DEF WindowInv, ExposureIsWindowTotal
<1>7. CASE WalletStep
  <2>1. PICK p \in PayIds : Settle(p) \/ Refuse(p)
    BY <1>7 DEF WalletStep
  <2>2. /\ payments[p].status = "inflight"
        /\ UNCHANGED period_start_ts
        /\ \E s \in {"settled", "refused"} : payments' = [payments EXCEPT ![p].status = s]
    BY <2>1 DEF Settle, Refuse, spend
  <2>3. \A q \in PayIds : /\ payments'[q].window = payments[q].window
                          /\ payments'[q].amount = payments[q].amount
                          /\ Made(q)' => Made(q)
                          /\ q # p => payments'[q].status = payments[q].status
    BY <1>0, <2>2 DEF Payments, Made
  <2>4. NoLaterWindow'
    BY <2>2, <2>3 DEF WindowInv, NoLaterWindow
  <2>5. \A q \in PayIds \ {p} : Worth'[q] = Worth[q]
    BY <2>2, <2>3 DEF Worth, InWindow
  <2>6. CASE Settle(p)
    <3>1. payments'[p].status = "settled" /\ UNCHANGED exposure
      BY <1>0, <2>6 DEF Settle, spend, Payments
    <3>2. Worth'[p] = Worth[p] + 0
      BY <1>0, <2>2, <2>3, <3>1 DEF Worth, InWindow
    <3>3. Total(Worth') = Total(Worth) + 0
      BY <1>0, <2>5, <3>2, TotalOfOneMore
    <3>4. exposure \in Int
      BY DEF TypeInv, TypeOK
    <3> QED
      BY <1>0, <2>4, <3>1, <3>3, <3>4 DEF WindowInv, ExposureIsWindowTotal
  <2>7. CASE Refuse(p)
    <3> DEFINE d == IF payments[p].window = period_start_ts THEN 0 - payments[p].amount ELSE 0
    <3>1. payments'[p].status = "refused" /\ exposure' = exposure + d
      <4>1. payments[p].amount \in Int /\ exposure \in Int
        BY <1>0 DEF TypeInv, TypeOK
      <4> QED
        BY <1>0, <2>7, <4>1 DEF Refuse, Payments
    <3>2. d \in Int /\ Worth'[p] = Worth[p] + d
      BY <1>0, <2>2, <2>3, <3>1 DEF Worth, InWindow
    <3> HIDE DEF d
    <3>3. Total(Worth') = Total(Worth) + d
      BY <1>0, <2>5, <3>2, TotalOfOneMore
    <3> QED
      BY <1>0, <2>4, <3>1, <3>3 DEF WindowInv, ExposureIsWindowTotal
  <2> QED
    BY <2>1, <2>6, <2>7
<1> QED
  BY <1>1, <1>2, <1>3, <1>4, <1>5, <1>6, <1>7 DEF Next, AgentStep

LEMMA WindowInit ==
  Init => WindowInv
<1> SUFFICES ASSUME Init PROVE WindowInv
  OBVIOUS
<1>1. \A p \in PayIds : ~Made(p) /\ Worth[p] = 0
  BY DEF Init, Made, NoPayment, Worth, InWindow
<1>2. Total(Worth) = 0
  BY <1>1, TotalOfNothing
<1> QED
  BY <1>1, <1>2 DEF Init, WindowInv, NoLaterWindow, ExposureIsWindowTotal

\* What the exposure counts is the value of the transfers of the current window
\* that the wallet has not refused, however late it refuses them, and whatever
\* the clock and the process do, unless it restarts after a failed write.
THEOREM ExposureIsTheWindow == Spec => [](Trusted => ExposureIsWindowTotal)
<1> DEFINE Inv == Trusted => WindowInv
<1>1. Init => Inv
  BY WindowInit
<1>2. TypeInv /\ TypeInv' /\ TrustedInv /\ Inv /\ [Next]_vars => Inv'
  BY TrustedBefore, WindowStep
<1>3. Inv => (Trusted => ExposureIsWindowTotal)
  BY DEF WindowInv
<1> QED
  BY <1>1, <1>2, <1>3, TrustedCorrect, PTL DEF Spec
=============================================================================
