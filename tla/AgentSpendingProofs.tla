------------------------ MODULE AgentSpendingProofs ------------------------
(***************************************************************************)
(* Theorems about AgentSpending and their proofs.                          *)
(***************************************************************************)
EXTENDS AgentSpending, TLAPS

(***************************************************************************)
(* Type correctness.  TypeOK is not inductive: that an amount, a proposal  *)
(* or a payment fits its type when it is used was settled when the call    *)
(* went through the gate.                                                  *)
(***************************************************************************)
CallBounds ==
  /\ call.stage \in {"gate", "submit"} => next_pay <= MaxPays
  /\ call.stage = "gate" /\ call.prop # 0 => limits.tx = 0 /\ limits.period = 0
  /\ call.stage = "gate" /\ (call.prop = 0 \/ call.amount < 0) => next_prop <= MaxProps
  /\ call.stage = "gate" /\ call.kind = "program_deploy" => call.amount = 0
  /\ call.stage \in {"gate", "submit", "await", "record"} => call.amount <= MaxAmount
  /\ call.stage \in {"submit", "await", "record"} => call.amount >= 0
  /\ call.stage = "hold" => call.held \in PropIds
  /\ call.stage = "hold" /\ call.kind \in Transfers => call.amount <= MaxAmount
  /\ call.stage \in {"await", "record"} => call.pay \in PayIds
  /\ call.stage \in {"finish", "recount"} => call.prop \in PropIds
  /\ call.stage = "recount" => pending_proposals[call.prop].amount > 0

AmountBounds(table_) ==
  \A p \in PropIds : table_[p].kind \in Transfers => table_[p].amount <= MaxAmount

TypeInv ==
  /\ TypeOK
  /\ CallBounds
  /\ AmountBounds(pending_proposals)
  /\ AmountBounds(saved_pending)

\* What each action can touch: the definitions of the state's values.
LEMMA SyncType ==
  ASSUME NEW c \in Configs
  PROVE  SyncConfigFields(c) \in LiveLimits
BY ConstantsAssumption DEF Configs, LiveLimits, SyncConfigFields, LimitOf, NoKey, Malformed

\* What is read from a file that is missing or cut short.
LEMMA EmptyType ==
  /\ NoConfig \in Configs
  /\ NoSpend \in [spent : Nat, start : 0..MaxTime]
  /\ NoTable \in [PropIds -> Proposals]
  /\ AmountBounds(NoTable)
BY ConstantsAssumption
DEF NoConfig, Configs, NoSpend, NoTable, NoProposal, Proposals, AmountBounds, Transfers, Kinds

LEMMA InitType == Init => TypeInv
<1> SUFFICES ASSUME Init PROVE TypeInv
  OBVIOUS
<1> USE ConstantsAssumption DEF NoKey, Malformed
<1>1. config \in Configs /\ saved_config \in Configs
  BY EmptyType DEF Init
<1>2. limits \in LiveLimits
  BY <1>1, SyncType DEF Init
<1>3. call \in Calls /\ call.stage = "idle"
  BY DEF Init, Calls, Stages, NoCall, NoLimits, LiveLimits
<1>4. pending_proposals \in [PropIds -> Proposals] /\ saved_pending \in [PropIds -> Proposals]
  BY EmptyType DEF Init
<1>5. payments \in [PayIds -> Payments]
  BY DEF Init, Payments, NoPayment
<1>6. TypeOK
  BY <1>1, <1>2, <1>3, <1>4, <1>5, EmptyType DEF Init, TypeOK
<1>7. CallBounds
  BY <1>3 DEF CallBounds
<1>8. AmountBounds(pending_proposals) /\ AmountBounds(saved_pending)
  BY EmptyType DEF Init
<1> QED
  BY <1>6, <1>7, <1>8 DEF TypeInv

LEMMA NoCallType == NoCall \in Calls
BY ConstantsAssumption DEF Calls, NoCall, NoLimits, LiveLimits, Stages

\* A call enters the gate, directly or for a proposal.
LEMMA EnterType ==
  ASSUME NEW kind \in Kinds \cup {"none"}, NEW amount \in Nat \cup {Malformed}
  PROVE  [NoCall EXCEPT !.stage = "gate", !.kind = kind, !.amount = amount] \in Calls
BY NoCallType DEF Calls, Stages

LEMMA EnterApprovedType ==
  ASSUME NEW kind \in Kinds \cup {"none"}, NEW amount \in Nat \cup {Malformed},
         NEW prop \in 0..MaxProps, NEW restore \in LiveLimits
  PROVE  [NoCall EXCEPT !.stage = "gate", !.prop = prop, !.kind = kind, !.amount = amount,
                        !.restore = restore] \in Calls
BY NoCallType DEF Calls, Stages

\* Save leaves the file as it was or with the new content.
LEMMA SaveType ==
  ASSUME TypeOK,
         \/ UNCHANGED saveFailures
         \/ saveFailures < MaxSaveFailures /\ saveFailures' = saveFailures + 1
  PROVE  saveFailures' \in 0..MaxSaveFailures
BY ConstantsAssumption DEF TypeOK

LEMMA SkillType ==
  ASSUME TypeInv, CallSkill PROVE TypeInv'
<1>1. PICK kind \in Kinds, amount \in 0..MaxAmount \cup {Malformed} :
        Skill(kind, amount) /\ (kind = "program_deploy" => amount = 0)
  BY ConstantsAssumption DEF CallSkill, Kinds
<1>2. call' \in Calls
  <2>1. amount \in Nat \cup {Malformed} /\ kind \in Kinds \cup {"none"}
    BY ConstantsAssumption
  <2> QED
    BY <1>1, <2>1, EnterType DEF Skill
<1>3. /\ call'.stage = "gate" /\ call'.prop = 0
      /\ call'.kind = kind /\ call'.amount = amount
  BY <1>1 DEF Skill, NoCall
<1>4. next_pay <= MaxPays /\ next_prop <= MaxProps
  BY <1>1 DEF Skill
<1>5. UNCHANGED <<settings, spend, table, payments, ids, now, faults, saveFailures>>
  BY <1>1 DEF Skill
<1>6. TypeOK'
  BY <1>2, <1>5 DEF TypeInv, TypeOK, settings, spend, table, ids, faults
<1>7. CallBounds'
  BY <1>1, <1>3, <1>4, <1>5, ConstantsAssumption DEF CallBounds, Malformed, ids
<1> QED
  BY <1>5, <1>6, <1>7 DEF TypeInv, AmountBounds, table

LEMMA ApproveType ==
  ASSUME TypeInv, Approve PROVE TypeInv'
<1>1. PICK prop \in PropIds : ApprovePending(prop)
  BY DEF Approve
<1>2. pending_proposals[prop] \in Proposals
  BY DEF TypeInv, TypeOK
<1>3. ReplayedAmount(prop) \in Nat \cup {Malformed} /\ ReplayedAmount(prop) <= MaxAmount
  BY <1>2, ConstantsAssumption DEF ReplayedAmount, Proposals, TypeInv, AmountBounds, Malformed
<1>4. call' \in Calls
  <2>1. /\ pending_proposals[prop].kind \in Kinds \cup {"none"}
        /\ prop \in 0..MaxProps
        /\ limits \in LiveLimits
    BY <1>2, ConstantsAssumption DEF Proposals, PropIds, TypeInv, TypeOK
  <2> QED
    BY <1>1, <1>3, <2>1, EnterApprovedType DEF ApprovePending
<1>5. limits' \in LiveLimits /\ limits'.tx = 0 /\ limits'.period = 0
  BY <1>1 DEF ApprovePending, LiveLimits, TypeInv, TypeOK
<1>6. /\ pending_proposals' \in [PropIds -> Proposals]
      /\ AmountBounds(pending_proposals')
  BY <1>1 DEF ApprovePending, Proposals, TypeInv, TypeOK, AmountBounds
<1>7. /\ saved_pending' \in [PropIds -> Proposals]
      /\ AmountBounds(saved_pending')
      /\ saveFailures' \in 0..MaxSaveFailures
  BY <1>1, <1>6, SaveType, EmptyType DEF ApprovePending, Save, TypeInv, TypeOK
<1>8. UNCHANGED <<config, saved_config, spend, payments, ids, now, faults>>
  BY <1>1 DEF ApprovePending
<1>9. TypeOK'
  BY <1>4, <1>5, <1>6, <1>7, <1>8 DEF TypeInv, TypeOK, spend, ids, faults
<1>10. /\ call'.stage = "gate" /\ call'.prop = prop
       /\ call'.kind = pending_proposals[prop].kind /\ call'.amount = ReplayedAmount(prop)
  BY <1>1 DEF ApprovePending, NoCall
<1>11. /\ next_pay <= MaxPays
       /\ call'.amount < 0 => next_prop <= MaxProps
       /\ call'.kind = "program_deploy" => call'.amount = 0
  BY <1>1, <1>2, <1>10 DEF ApprovePending, ReplayedAmount, Transfers
<1>12. CallBounds'
  BY <1>3, <1>5, <1>8, <1>10, <1>11, ConstantsAssumption DEF CallBounds, ids, PropIds
<1> QED
  BY <1>6, <1>7, <1>9, <1>12 DEF TypeInv, AmountBounds

LEMMA RejectType ==
  ASSUME TypeInv, Reject PROVE TypeInv'
<1>1. PICK prop \in PropIds : RejectPending(prop)
  BY DEF Reject
<1>2. /\ pending_proposals' \in [PropIds -> Proposals]
      /\ AmountBounds(pending_proposals')
  BY <1>1 DEF RejectPending, Proposals, TypeInv, TypeOK, AmountBounds
<1>3. /\ saved_pending' \in [PropIds -> Proposals]
      /\ AmountBounds(saved_pending')
      /\ saveFailures' \in 0..MaxSaveFailures
  BY <1>1, <1>2, SaveType, EmptyType DEF RejectPending, Save, TypeInv, TypeOK
<1>4. call.stage = "idle" /\ UNCHANGED <<settings, spend, call, payments, ids, now, faults>>
  BY <1>1 DEF RejectPending
<1>5. TypeOK'
  BY <1>2, <1>3, <1>4 DEF TypeInv, TypeOK, settings, spend, ids, faults
<1>6. CallBounds'
  BY <1>4 DEF CallBounds
<1> QED
  BY <1>2, <1>3, <1>5, <1>6 DEF TypeInv, AmountBounds

LEMMA ConfigureStep ==
  ASSUME TypeInv, MetaConfigure
  PROVE  /\ call.stage = "idle"
         /\ config' \in Configs
         /\ limits' = SyncConfigFields(config')
         /\ Save(saved_config, config', NoConfig)
         /\ UNCHANGED <<spend, table, call, payments, ids, now, faults>>
<1>1. config \in Configs
  BY DEF TypeInv, TypeOK
<1>2. CASE \E v \in Limits : Configure([config EXCEPT !.per_tx_limit = v])
  BY <1>1, <1>2 DEF Configure, Configs
<1>3. CASE \E v \in Limits : Configure([config EXCEPT !.per_period_limit = v])
  BY <1>1, <1>3 DEF Configure, Configs
<1>4. CASE \E v \in Periods : Configure([config EXCEPT !.period_seconds = v])
  BY <1>1, <1>4 DEF Configure, Configs
<1> QED
  BY <1>2, <1>3, <1>4 DEF MetaConfigure

LEMMA ConfigureType ==
  ASSUME TypeInv, MetaConfigure PROVE TypeInv'
<1>1. limits' \in LiveLimits
  BY ConfigureStep, SyncType
<1>2. saved_config' \in Configs /\ saveFailures' \in 0..MaxSaveFailures
  BY ConfigureStep, SaveType, EmptyType DEF Save, TypeInv, TypeOK
<1>3. TypeOK'
  BY <1>1, <1>2, ConfigureStep DEF TypeInv, TypeOK, spend, table, ids, faults
<1>4. CallBounds'
  BY ConfigureStep DEF CallBounds
<1> QED
  BY <1>3, <1>4, ConfigureStep DEF TypeInv, AmountBounds, table

\* Once a call is idle, or back in approve_pending, nothing hangs on its fields.
LEMMA QuietBounds ==
  ASSUME \/ call'.stage = "idle"
         \/ call'.stage = "finish" /\ call'.prop \in PropIds
  PROVE  CallBounds'
BY DEF CallBounds

LEMMA ReturnType ==
  ASSUME TypeInv, NEW result \in BOOLEAN, Return(result)
  PROVE  /\ call' \in Calls
         /\ limits' \in LiveLimits
         /\ \/ call'.stage = "idle"
            \/ call'.stage = "finish" /\ call'.prop \in PropIds
<1>1. call \in Calls /\ limits \in LiveLimits
  BY DEF TypeInv, TypeOK
<1>2. CASE call.prop = 0
  <2>1. call' = NoCall /\ UNCHANGED limits
    BY <1>2 DEF Return
  <2>2. NoCall.stage = "idle"
    BY DEF NoCall
  <2> QED
    BY <1>1, <2>1, <2>2, NoCallType
<1>3. CASE call.prop # 0
  <2>1. call' = [call EXCEPT !.stage = "finish", !.ok = result] /\ limits' = call.restore
    BY <1>3 DEF Return
  <2>2. call.prop \in PropIds /\ call.restore \in LiveLimits
    BY <1>1, <1>3, ConstantsAssumption DEF Calls, PropIds
  <2> QED
    BY <1>1, <2>1, <2>2 DEF Calls, Stages
<1> QED
  BY <1>2, <1>3

LEMMA HoldType ==
  ASSUME NEW c \in Calls, NEW amount \in Nat \cup {Malformed}, NEW prop \in 0..MaxProps
  PROVE  [c EXCEPT !.stage = "hold", !.amount = amount, !.held = prop] \in Calls
BY DEF Calls, Stages

\* What happens at the gate stays in the types, and a call that the gate holds
\* has an identity left for its proposal.
LEMMA GateType ==
  ASSUME TypeInv, Gate PROVE TypeInv'
<1>1. PICK verdict \in BOOLEAN :
        /\ WithinThreshold(call.amount, verdict)
        /\ IF verdict THEN Proceed ELSE Withhold(call.amount)
  BY DEF Gate
<1>2. /\ call \in Calls /\ call.stage = "gate" /\ call.kind # "program_deploy"
      /\ UNCHANGED <<settings, table, payments, next_pay, now, faults>>
  BY DEF Gate, TypeInv, TypeOK
<1>3. /\ period_spent' \in Nat
      /\ period_start_ts' \in 0..MaxTime
      /\ saved_spend' \in [spent : Nat, start : 0..MaxTime]
      /\ saveFailures' \in 0..MaxSaveFailures
      /\ exposure' \in Int
  BY <1>1, SaveType, EmptyType, ConstantsAssumption DEF WithinThreshold, RollWindow, Save, spend, TypeInv, TypeOK
<1>4. call.amount \in Nat \cup {Malformed} /\ (verdict => call.amount >= 0)
  BY <1>1, <1>2 DEF WithinThreshold, Calls
<1>5. ~verdict => next_prop \in PropIds
  <2>1. ASSUME ~verdict, call.prop # 0 PROVE call.amount < 0
    <3>1. ~LimitSet(limits.tx) /\ ~LimitSet(limits.period)
      BY <1>2, <2>1 DEF TypeInv, CallBounds, LimitSet
    <3> QED
      BY <1>1, <1>2, <2>1, <3>1 DEF WithinThreshold, Calls, Malformed
  <2> QED
    BY <1>2, <2>1, ConstantsAssumption DEF TypeInv, TypeOK, CallBounds, PropIds
<1>6. /\ call' \in Calls
      /\ next_prop' \in 1..MaxProps + 1
      /\ call'.amount = call.amount /\ call'.prop = call.prop /\ call'.kind = call.kind
      /\ verdict => call'.stage = "submit"
      /\ ~verdict => call'.stage = "hold" /\ call'.held \in PropIds
  <2>1. next_prop \in 1..MaxProps + 1
    BY DEF TypeInv, TypeOK
  <2>2. CASE verdict
    BY <1>1, <1>2, <2>1, <2>2 DEF Proceed, Calls, Stages
  <2>3. CASE ~verdict
    <3>1. next_prop \in 0..MaxProps /\ next_prop + 1 \in 1..MaxProps + 1
      BY <1>5, <2>3, ConstantsAssumption DEF PropIds
    <3>2. call' = [call EXCEPT !.stage = "hold", !.amount = call.amount, !.held = next_prop]
      BY <1>1, <2>3 DEF Withhold
    <3>3. call' \in Calls
      BY <1>2, <3>1, <3>2, HoldType DEF Calls
    <3>4. next_prop' = next_prop + 1
      BY <1>1, <2>3 DEF Withhold
    <3> QED
      BY <1>2, <1>5, <2>3, <3>1, <3>2, <3>3, <3>4 DEF Calls
  <2> QED
    BY <2>2, <2>3
<1>7. TypeOK'
  BY <1>2, <1>3, <1>6 DEF TypeInv, TypeOK, settings, table, faults
<1>8. CallBounds'
  BY <1>2, <1>4, <1>6 DEF TypeInv, CallBounds
<1> QED
  BY <1>2, <1>7, <1>8 DEF TypeInv, AmountBounds, table

LEMMA GateDeployType ==
  ASSUME TypeInv, GateDeploy PROVE TypeInv'
<1>1. /\ call \in Calls /\ call.stage = "gate" /\ call.kind = "program_deploy"
      /\ call.amount = 0 /\ limits.tx \in Nat \cup {Malformed}
      /\ UNCHANGED <<settings, spend, table, payments, next_pay, now, faults, saveFailures>>
  BY DEF GateDeploy, TypeInv, TypeOK, CallBounds, LiveLimits
<1>2. limits.tx # 0 => next_prop \in PropIds
  BY <1>1, ConstantsAssumption DEF TypeInv, TypeOK, CallBounds, PropIds
<1>3. /\ call' \in Calls
      /\ next_prop' \in 1..MaxProps + 1
      /\ call'.prop = call.prop /\ call'.kind = call.kind
      /\ limits.tx = 0 => call'.stage = "submit" /\ call'.amount = 0
      /\ limits.tx # 0 => call'.stage = "hold" /\ call'.held \in PropIds
  <2>1. next_prop \in 1..MaxProps + 1
    BY DEF TypeInv, TypeOK
  <2>2. CASE limits.tx = 0
    BY <1>1, <2>1, <2>2 DEF GateDeploy, LimitSet, Proceed, Calls, Stages
  <2>3. CASE limits.tx # 0
    <3>1. next_prop \in 0..MaxProps /\ next_prop + 1 \in 1..MaxProps + 1
      BY <1>2, <2>3, ConstantsAssumption DEF PropIds
    <3>2. /\ call' = [call EXCEPT !.stage = "hold", !.amount = limits.tx, !.held = next_prop]
          /\ next_prop' = next_prop + 1
      BY <2>3 DEF GateDeploy, Withhold, LimitSet
    <3>3. call' \in Calls
      BY <1>1, <3>1, <3>2, HoldType
    <3> QED
      BY <1>1, <1>2, <2>3, <3>1, <3>2, <3>3 DEF Calls
  <2> QED
    BY <2>2, <2>3
<1>4. TypeOK'
  BY <1>1, <1>3 DEF TypeInv, TypeOK, settings, spend, table, faults
<1>5. CallBounds'
  BY <1>1, <1>3, ConstantsAssumption DEF TypeInv, CallBounds, Transfers
<1> QED
  BY <1>1, <1>4, <1>5 DEF TypeInv, AmountBounds, table

LEMMA HoldProposalType ==
  ASSUME TypeInv, HoldProposal PROVE TypeInv'
<1>1. /\ call \in Calls /\ call.stage = "hold" /\ call.held \in PropIds
      /\ Return(TRUE)
      /\ UNCHANGED <<config, saved_config, spend, payments, ids, now, faults>>
  BY DEF HoldProposal, TypeInv, TypeOK, CallBounds
<1>2. call' \in Calls /\ limits' \in LiveLimits /\ CallBounds'
  BY <1>1, ReturnType, QuietBounds
<1>3. [status |-> "pending_approval", kind |-> call.kind, amount |-> call.amount] \in Proposals
  BY <1>1 DEF Calls, Proposals
<1>4. /\ pending_proposals' \in [PropIds -> Proposals]
      /\ AmountBounds(pending_proposals')
  BY <1>1, <1>3 DEF HoldProposal, TypeInv, TypeOK, CallBounds, AmountBounds
<1>5. /\ saved_pending' \in [PropIds -> Proposals]
      /\ AmountBounds(saved_pending')
      /\ saveFailures' \in 0..MaxSaveFailures
  BY <1>4, SaveType, EmptyType DEF HoldProposal, Save, TypeInv, TypeOK
<1>6. TypeOK'
  BY <1>1, <1>2, <1>4, <1>5 DEF TypeInv, TypeOK, spend, ids, faults
<1> QED
  BY <1>2, <1>4, <1>5, <1>6 DEF TypeInv, AmountBounds

LEMMA SubmitType ==
  ASSUME TypeInv, Submit PROVE TypeInv'
<1>1. /\ call \in Calls /\ call.stage = "submit" /\ call.amount \in 0..MaxAmount
      /\ next_pay \in PayIds
      /\ UNCHANGED <<settings, period_spent, period_start_ts, saved_spend, table,
                     next_prop, now, faults, saveFailures>>
  BY ConstantsAssumption DEF Submit, TypeInv, TypeOK, CallBounds, Calls, Malformed, PayIds
<1>2. [status |-> "inflight", prop |-> call.prop, kind |-> call.kind,
       amount |-> call.amount, window |-> period_start_ts] \in Payments
  BY <1>1 DEF Calls, Payments, TypeInv, TypeOK
<1>3. payments' \in [PayIds -> Payments]
  BY <1>1, <1>2 DEF Submit, TypeInv, TypeOK
<1>4. exposure' \in Int /\ next_pay' \in 1..MaxPays + 1
  <2>1. exposure' = exposure + call.amount /\ next_pay' = next_pay + 1
    BY DEF Submit
  <2>2. exposure \in Int /\ MaxAmount \in Nat /\ MaxPays \in Nat
    BY ConstantsAssumption DEF TypeInv, TypeOK
  <2> QED
    BY <1>1, <2>1, <2>2 DEF PayIds
<1>5. /\ call' \in Calls
      /\ call'.stage = "await" /\ call'.pay \in PayIds /\ call'.amount = call.amount
  <2>1. call' = [call EXCEPT !.stage = "await", !.pay = next_pay] /\ next_pay \in 0..MaxPays
    BY <1>1, ConstantsAssumption DEF Submit, PayIds
  <2> QED
    BY <1>1, <2>1 DEF Calls, Stages
<1>6. TypeOK'
  BY <1>1, <1>3, <1>4, <1>5 DEF TypeInv, TypeOK, settings, table, faults
<1>7. CallBounds'
  BY <1>1, <1>5, ConstantsAssumption DEF CallBounds
<1> QED
  BY <1>1, <1>6, <1>7 DEF TypeInv, AmountBounds, table

LEMMA ReplyType ==
  ASSUME TypeInv, ReplyOk PROVE TypeInv'
<1>1. /\ call \in Calls /\ call.stage = "await"
      /\ call' = [call EXCEPT !.stage = "record"]
      /\ UNCHANGED <<settings, spend, table, payments, ids, now, faults, saveFailures>>
  BY DEF ReplyOk, TypeInv, TypeOK
<1>2. /\ call' \in Calls
      /\ call'.stage = "record" /\ call'.pay = call.pay /\ call'.amount = call.amount
  BY <1>1 DEF Calls, Stages
<1>3. TypeOK'
  BY <1>1, <1>2 DEF TypeInv, TypeOK, settings, spend, table, ids, faults
<1>4. CallBounds'
  BY <1>1, <1>2 DEF TypeInv, CallBounds
<1> QED
  BY <1>1, <1>3, <1>4 DEF TypeInv, AmountBounds, table

\* The error returns leave everything but the call, the limits and the count
\* of timeouts as it was.
LEMMA ErrorType ==
  ASSUME TypeInv, WalletUnreachable \/ ReplyError \/ Timeout PROVE TypeInv'
<1>1. /\ Return(FALSE)
      /\ UNCHANGED <<config, saved_config, spend, table, payments, ids, now, crashes,
                     saveFailures>>
      /\ timeouts' \in 0..MaxTimeouts
  <2>1. timeouts \in 0..MaxTimeouts /\ MaxTimeouts \in Nat
    BY ConstantsAssumption DEF TypeInv, TypeOK
  <2>2. CASE WalletUnreachable
    BY <2>1, <2>2 DEF WalletUnreachable, faults
  <2>3. CASE ReplyError
    BY <2>1, <2>3 DEF ReplyError, faults
  <2>4. CASE Timeout
    <3>1. timeouts < MaxTimeouts /\ timeouts' = timeouts + 1
      BY <2>4 DEF Timeout
    <3>2. timeouts' \in 0..MaxTimeouts
      BY <2>1, <3>1
    <3> QED
      BY <2>4, <3>2 DEF Timeout
  <2> QED
    BY <2>2, <2>3, <2>4
<1>2. call' \in Calls /\ limits' \in LiveLimits /\ CallBounds'
  BY <1>1, ReturnType, QuietBounds
<1>3. TypeOK'
  BY <1>1, <1>2 DEF TypeInv, TypeOK, spend, table, ids
<1> QED
  BY <1>1, <1>2, <1>3 DEF TypeInv, AmountBounds, table

LEMMA AddType ==
  ASSUME TypeInv, NEW amount \in Nat, Add(amount)
  PROVE  /\ period_spent' \in Nat
         /\ saved_spend' \in [spent : Nat, start : 0..MaxTime]
         /\ saveFailures' \in 0..MaxSaveFailures
         /\ UNCHANGED <<period_start_ts, exposure>>
BY SaveType, EmptyType DEF Add, Save, TypeInv, TypeOK

LEMMA RecordType ==
  ASSUME TypeInv, RecordSpend PROVE TypeInv'
<1>1. /\ call.amount \in Nat
      /\ Return(TRUE)
      /\ UNCHANGED <<config, saved_config, table, payments, ids, now, faults>>
  <2>1. call \in Calls /\ call.amount >= 0
    BY DEF RecordSpend, TypeInv, TypeOK, CallBounds
  <2>2. call.amount \in Nat
    BY <2>1 DEF Calls, Malformed
  <2> QED
    BY <2>2 DEF RecordSpend
<1>2. call' \in Calls /\ limits' \in LiveLimits /\ CallBounds'
  BY <1>1, ReturnType, QuietBounds
<1>3. /\ period_spent' \in Nat
      /\ saved_spend' \in [spent : Nat, start : 0..MaxTime]
      /\ saveFailures' \in 0..MaxSaveFailures
      /\ UNCHANGED <<period_start_ts, exposure>>
  BY <1>1, AddType DEF RecordSpend, spend, TypeInv, TypeOK
<1>4. TypeOK'
  BY <1>1, <1>2, <1>3 DEF TypeInv, TypeOK, table, ids, faults
<1> QED
  BY <1>1, <1>2, <1>4 DEF TypeInv, AmountBounds, table

LEMMA FinishType ==
  ASSUME TypeInv, FinishApproval PROVE TypeInv'
<1>1. /\ call \in Calls /\ call.stage = "finish" /\ call.prop \in PropIds
      /\ UNCHANGED <<settings, spend, payments, ids, now, faults>>
  BY DEF FinishApproval, TypeInv, TypeOK, CallBounds
<1>2. /\ pending_proposals' \in [PropIds -> Proposals]
      /\ AmountBounds(pending_proposals')
      /\ pending_proposals'[call.prop].amount = pending_proposals[call.prop].amount
  BY <1>1 DEF FinishApproval, Proposals, TypeInv, TypeOK, AmountBounds
<1>3. /\ saved_pending' \in [PropIds -> Proposals]
      /\ AmountBounds(saved_pending')
      /\ saveFailures' \in 0..MaxSaveFailures
  BY <1>2, SaveType, EmptyType DEF FinishApproval, Save, TypeInv, TypeOK
<1>4. call' \in Calls /\ CallBounds'
  <2>1. CASE call' = NoCall
    BY <2>1, NoCallType, QuietBounds DEF NoCall
  <2>2. CASE call' = [call EXCEPT !.stage = "recount"] /\ pending_proposals[call.prop].amount > 0
    BY <1>1, <1>2, <2>2 DEF Calls, Stages, CallBounds
  <2> QED
    BY <2>1, <2>2 DEF FinishApproval
<1>5. TypeOK'
  BY <1>1, <1>2, <1>3, <1>4 DEF TypeInv, TypeOK, settings, spend, ids, faults
<1> QED
  BY <1>2, <1>3, <1>4, <1>5 DEF TypeInv, AmountBounds

LEMMA RecountType ==
  ASSUME TypeInv, Recount PROVE TypeInv'
<1>1. /\ pending_proposals[call.prop].amount \in Nat
      /\ UNCHANGED <<settings, table, payments, ids, now, faults>>
      /\ call' = NoCall
  BY DEF Recount, TypeInv, TypeOK, CallBounds, Proposals, Malformed
<1>2. call' \in Calls /\ CallBounds'
  BY <1>1, NoCallType, QuietBounds DEF NoCall
<1>3. /\ period_spent' \in Nat
      /\ saved_spend' \in [spent : Nat, start : 0..MaxTime]
      /\ saveFailures' \in 0..MaxSaveFailures
      /\ UNCHANGED <<period_start_ts, exposure>>
  BY <1>1, AddType DEF Recount
<1>4. TypeOK'
  BY <1>1, <1>2, <1>3 DEF TypeInv, TypeOK, settings, table, ids, faults
<1> QED
  BY <1>1, <1>2, <1>4 DEF TypeInv, AmountBounds, table

LEMMA WalletType ==
  ASSUME TypeInv, WalletStep PROVE TypeInv'
<1>1. PICK p \in PayIds : Settle(p) \/ Refuse(p)
  BY DEF WalletStep
<1>2. payments' \in [PayIds -> Payments]
  BY <1>1 DEF Settle, Refuse, Payments, TypeInv, TypeOK
<1>3. exposure' \in Int
  BY <1>1 DEF Settle, Refuse, Payments, TypeInv, TypeOK, spend
<1>4. UNCHANGED <<settings, period_spent, period_start_ts, saved_spend, table, call, ids,
                  now, faults, saveFailures>>
  BY <1>1 DEF Settle, Refuse, spend
<1>5. TypeOK'
  BY <1>2, <1>3, <1>4 DEF TypeInv, TypeOK, settings, table, ids, faults
<1>6. CallBounds'
  BY <1>4 DEF TypeInv, CallBounds, settings, table, ids
<1> QED
  BY <1>4, <1>5, <1>6 DEF TypeInv, AmountBounds, table

LEMMA ClockType ==
  ASSUME TypeInv, Clock PROVE TypeInv'
<1>1. /\ now' \in 1..MaxTime
      /\ UNCHANGED <<settings, spend, table, call, payments, ids, faults, saveFailures>>
  BY DEF Clock, SetClock
<1>2. TypeOK'
  BY <1>1 DEF TypeInv, TypeOK, settings, spend, table, ids, faults
<1>3. CallBounds'
  BY <1>1 DEF TypeInv, CallBounds, settings, table, ids
<1> QED
  BY <1>1, <1>2, <1>3 DEF TypeInv, AmountBounds, table

LEMMA CrashType ==
  ASSUME TypeInv, CrashRestart PROVE TypeInv'
<1>1. limits' \in LiveLimits
  BY SyncType DEF CrashRestart, TypeInv, TypeOK
<1>2. call' \in Calls /\ CallBounds'
  BY NoCallType, QuietBounds DEF CrashRestart, NoCall
<1>3. crashes' \in 0..MaxCrashes
  BY ConstantsAssumption DEF CrashRestart, TypeInv, TypeOK
<1>4. TypeOK'
  BY <1>1, <1>2, <1>3 DEF CrashRestart, TypeInv, TypeOK, ids
<1> QED
  BY <1>2, <1>4 DEF CrashRestart, TypeInv, AmountBounds

LEMMA NextType == TypeInv /\ [Next]_vars => TypeInv'
<1> SUFFICES ASSUME TypeInv, [Next]_vars PROVE TypeInv'
  OBVIOUS
<1>1. CASE UNCHANGED vars
  BY <1>1 DEF vars, settings, table, ids, faults, TypeInv, TypeOK, CallBounds, AmountBounds
<1>2. CASE CallSkill \/ Approve \/ Reject \/ MetaConfigure
  BY <1>2, SkillType, ApproveType, RejectType, ConfigureType
<1>3. CASE AgentStep
  BY <1>3, GateType, GateDeployType, HoldProposalType, SubmitType, ReplyType, ErrorType,
     RecordType, FinishType, RecountType DEF AgentStep
<1>4. CASE WalletStep \/ WalletUnreachable \/ Timeout \/ Clock \/ CrashRestart
  BY <1>4, WalletType, ErrorType, ClockType, CrashType
<1> QED
  BY <1>1, <1>2, <1>3, <1>4 DEF Next

\* Every variable of the agent keeps its type, whatever fails.
THEOREM TypeCorrect == Spec => []TypeOK
<1>1. Spec => []TypeInv
  BY InitType, NextType, PTL DEF Spec
<1>2. TypeInv => TypeOK
  BY DEF TypeInv
<1> QED
  BY <1>1, <1>2, PTL

(***************************************************************************)
(* Held proposals.  A proposal is marked approved, for good, before the    *)
(* wallet is called for it.  As long as no write has failed, what a new    *)
(* process loads is what the old one had, so a crash takes nothing back.   *)
(***************************************************************************)
Durable ==
  /\ saved_config = config
  /\ saved_spend = [spent |-> period_spent, start |-> period_start_ts]
  /\ saved_pending = pending_proposals

\* Identities not yet given out are not in use.
FreshIds ==
  /\ \A p \in PayIds : Made(p) => p < next_pay
  /\ \A p \in PropIds : pending_proposals[p].status # "none" => p < next_prop
  /\ call.stage = "hold" => /\ call.held < next_prop
                            /\ pending_proposals[call.held].status = "none"

\* While approve_pending executes a proposal, the proposal is approved, and
\* until the wallet is called nothing was paid for it and the call is its.
Executing ==
  /\ call.stage = "idle" => call.prop = 0
  /\ call.prop # 0 /\ call.stage # "recount" => pending_proposals[call.prop].status = "approved"
  /\ call.prop # 0 /\ call.stage \in {"gate", "submit"} =>
       /\ \A p \in PayIds : Made(p) => payments[p].prop # call.prop
       /\ call.kind = pending_proposals[call.prop].kind
       /\ call.kind \in Transfers => call.amount = pending_proposals[call.prop].amount

HeldInv == FreshIds /\ Executing /\ AtMostOncePaid /\ PaidAsApproved

\* A step in which no write fails.
LEMMA DurableStep ==
  ASSUME TypeInv, Durable, [Next]_vars, saveFailures' = saveFailures
  PROVE  Durable'
<1>1. saveFailures' # saveFailures + 1
  BY ConstantsAssumption DEF TypeInv, TypeOK
<1> USE <1>1 DEF Durable
<1>2. CASE UNCHANGED vars
  BY <1>2 DEF vars, settings, table
<1>3. CASE CallSkill
  BY <1>3 DEF CallSkill, Skill, settings, spend, table
<1>4. CASE Approve
  BY <1>4 DEF Approve, ApprovePending, Save, spend
<1>5. CASE Reject
  BY <1>5 DEF Reject, RejectPending, Save, settings, spend
<1>6. CASE MetaConfigure
  BY <1>6, ConfigureStep DEF Save, spend, table
<1>7. CASE Gate
  BY <1>7 DEF Gate, WithinThreshold, RollWindow, Save, settings, spend, table
<1>8. CASE GateDeploy \/ Submit \/ ReplyOk \/ ReplyError \/ WalletUnreachable \/ Timeout
  BY <1>8 DEF GateDeploy, Submit, ReplyOk, ReplyError, WalletUnreachable, Timeout,
     settings, spend, table
<1>9. CASE HoldProposal
  BY <1>9 DEF HoldProposal, Save, spend
<1>10. CASE RecordSpend
  BY <1>10 DEF RecordSpend, Add, Save, spend, table
<1>11. CASE FinishApproval
  BY <1>11 DEF FinishApproval, Save, settings, spend
<1>12. CASE Recount
  BY <1>12 DEF Recount, Add, Save, settings, table
<1>13. CASE WalletStep \/ Clock
  BY <1>13 DEF WalletStep, Settle, Refuse, Clock, SetClock, settings, spend, table
<1>14. CASE CrashRestart
  BY <1>14 DEF CrashRestart
<1> QED
  BY <1>2, <1>3, <1>4, <1>5, <1>6, <1>7, <1>8, <1>9, <1>10, <1>11, <1>12, <1>13, <1>14
  DEF Next, AgentStep

\* What a step may do to the call, for the steps that leave the proposals and
\* the transfers alone.
LEMMA NeutralStep ==
  ASSUME TypeInv, HeldInv,
         UNCHANGED <<pending_proposals, payments, next_pay>>,
         next_prop' \in Nat /\ next_prop <= next_prop',
         call'.stage = "hold" => /\ call'.held < next_prop'
                                 /\ pending_proposals[call'.held].status = "none",
         Executing'
  PROVE  FreshIds' /\ Executing' /\ AtMostOncePaid' /\ PaidAsApproved'
<1>1. \A p \in PropIds : pending_proposals'[p].status # "none" => p < next_prop'
  BY ConstantsAssumption DEF HeldInv, FreshIds, TypeInv, TypeOK, PropIds
<1>2. FreshIds'
  BY <1>1 DEF HeldInv, FreshIds, Made
<1>3. AtMostOncePaid' /\ PaidAsApproved'
  BY DEF HeldInv, AtMostOncePaid, PaidAsApproved, Made
<1> QED
  BY <1>2, <1>3

\* A call that is over, or has come back to approve_pending, is executing what
\* it was executing.
LEMMA QuietExecuting ==
  ASSUME Executing, UNCHANGED pending_proposals,
         call'.stage \in {"idle", "finish", "await", "record", "recount"},
         call'.stage = "idle" => call'.prop = 0,
         call'.stage # "idle" /\ call'.prop # 0 /\ call'.stage # "recount" =>
           call'.prop = call.prop /\ call.stage # "recount"
  PROVE  Executing'
BY DEF Executing

LEMMA SkillApproval ==
  ASSUME TypeInv, HeldInv, CallSkill
  PROVE  FreshIds' /\ Executing' /\ AtMostOncePaid' /\ PaidAsApproved'
<1>1. /\ call'.stage = "gate" /\ call'.prop = 0
      /\ UNCHANGED <<pending_proposals, payments, next_pay, next_prop>>
  BY DEF CallSkill, Skill, NoCall, table, ids
<1>2. Executing'
  BY <1>1 DEF Executing
<1>3. next_prop \in Nat
  BY ConstantsAssumption DEF TypeInv, TypeOK
<1> QED
  BY <1>1, <1>2, <1>3, NeutralStep

LEMMA GateApproval ==
  ASSUME TypeInv, HeldInv, Gate \/ GateDeploy
  PROVE  FreshIds' /\ Executing' /\ AtMostOncePaid' /\ PaidAsApproved'
<1>1. /\ call \in Calls /\ call.stage = "gate"
      /\ next_prop \in Nat /\ next_prop \in 1..MaxProps + 1
      /\ UNCHANGED <<pending_proposals, payments, next_pay>>
  BY ConstantsAssumption DEF TypeInv, TypeOK, Gate, GateDeploy, table
<1>2. Proceed \/ \E amount \in Nat \cup {Malformed} : Withhold(amount)
  BY <1>1 DEF Gate, GateDeploy, Calls, TypeInv, TypeOK, LiveLimits
<1>3. CASE Proceed
  <2>1. /\ call'.stage = "submit" /\ call'.prop = call.prop
        /\ call'.kind = call.kind /\ call'.amount = call.amount
        /\ next_prop' = next_prop
    BY <1>1, <1>3 DEF Proceed, Calls
  <2>2. Executing'
    BY <1>1, <2>1 DEF HeldInv, Executing, Made
  <2> QED
    BY <1>1, <2>1, <2>2, NeutralStep
<1>4. CASE \E amount \in Nat \cup {Malformed} : Withhold(amount)
  <2>1. /\ call'.stage = "hold" /\ call'.prop = call.prop /\ call'.held = next_prop
        /\ next_prop' = next_prop + 1
    BY <1>1, <1>4 DEF Withhold, Calls
  <2>2. Executing'
    BY <1>1, <2>1 DEF HeldInv, Executing
  <2>3. call'.held \in PropIds
    BY <2>1, GateType, GateDeployType DEF TypeInv, CallBounds
  <2>4. pending_proposals[call'.held].status = "none"
    BY <1>1, <2>1, <2>3 DEF HeldInv, FreshIds, PropIds
  <2> QED
    BY <1>1, <2>1, <2>2, <2>4, NeutralStep
<1> QED
  BY <1>2, <1>3, <1>4

LEMMA ReturnExecuting ==
  ASSUME TypeInv, Executing, NEW result \in BOOLEAN, Return(result),
         call.stage \in {"submit", "await", "record"},
         UNCHANGED pending_proposals
  PROVE  /\ Executing'
         /\ call'.stage \in {"idle", "finish"}
<1>1. call \in Calls
  BY DEF TypeInv, TypeOK
<1>2. CASE call.prop = 0
  <2>1. call' = NoCall
    BY <1>2 DEF Return
  <2>2. call'.stage = "idle" /\ call'.prop = 0
    BY <2>1 DEF NoCall
  <2> QED
    BY <2>2, QuietExecuting
<1>3. CASE call.prop # 0
  <2>1. call'.stage = "finish" /\ call'.prop = call.prop
    BY <1>1, <1>3 DEF Return, Calls
  <2> QED
    BY <2>1, QuietExecuting
<1> QED
  BY <1>2, <1>3

\* Replies, errors and the records of spends.
LEMMA ReplyApproval ==
  ASSUME TypeInv, HeldInv,
         ReplyOk \/ ReplyError \/ WalletUnreachable \/ Timeout \/ RecordSpend \/ Recount
  PROVE  FreshIds' /\ Executing' /\ AtMostOncePaid' /\ PaidAsApproved'
<1>1. /\ call \in Calls /\ next_prop \in Nat
      /\ UNCHANGED <<pending_proposals, payments, next_pay, next_prop>>
  <2>1. call \in Calls /\ next_prop \in Nat
    BY ConstantsAssumption DEF TypeInv, TypeOK
  <2>2. UNCHANGED <<table, payments, ids>>
    BY DEF ReplyOk, ReplyError, WalletUnreachable, Timeout, RecordSpend, Recount
  <2> QED
    BY <2>1, <2>2 DEF table, ids
<1>2. CASE ReplyOk
  <2>1. call'.stage = "record" /\ call'.prop = call.prop /\ call.stage = "await"
    BY <1>1, <1>2 DEF ReplyOk, Calls
  <2>2. Executing'
    BY <1>1, <2>1, QuietExecuting DEF HeldInv
  <2> QED
    BY <1>1, <2>1, <2>2, NeutralStep
<1>3. CASE ReplyError \/ WalletUnreachable \/ Timeout \/ RecordSpend
  <2>1. /\ Return(TRUE) \/ Return(FALSE)
        /\ call.stage \in {"submit", "await", "record"}
    BY <1>3 DEF ReplyError, WalletUnreachable, Timeout, RecordSpend
  <2>2. Executing' /\ call'.stage \in {"idle", "finish"}
    BY <1>1, <2>1, ReturnExecuting DEF HeldInv
  <2> QED
    BY <1>1, <2>2, NeutralStep
<1>4. CASE Recount
  <2>1. call'.stage = "idle" /\ call'.prop = 0
    BY <1>4 DEF Recount, NoCall
  <2>2. Executing'
    BY <1>1, <2>1, QuietExecuting DEF HeldInv
  <2> QED
    BY <1>1, <2>1, <2>2, NeutralStep
<1> QED
  BY <1>2, <1>3, <1>4

\* The owner's other calls, the clock, and a restart from a faithful directory.
LEMMA IdleApproval ==
  ASSUME TypeInv, HeldInv, MetaConfigure \/ Clock \/ (CrashRestart /\ Durable)
  PROVE  FreshIds' /\ Executing' /\ AtMostOncePaid' /\ PaidAsApproved'
<1>1. /\ next_prop \in Nat
      /\ UNCHANGED <<pending_proposals, payments, next_pay, next_prop>>
      /\ call' = call \/ call' = NoCall
  BY ConstantsAssumption, ConfigureStep
  DEF TypeInv, TypeOK, Clock, SetClock, CrashRestart, Durable, table, ids
<1>2. CASE call' = call
  <2>1. Executing'
    BY <1>1, <1>2 DEF HeldInv, Executing, Made
  <2>2. call'.stage = "hold" => /\ call'.held < next_prop'
                                /\ pending_proposals[call'.held].status = "none"
    BY <1>1, <1>2 DEF HeldInv, FreshIds
  <2> QED
    BY <1>1, <2>1, <2>2, NeutralStep
<1>3. CASE call' = NoCall
  <2>1. call'.stage = "idle" /\ call'.prop = 0
    BY <1>3 DEF NoCall
  <2>2. Executing'
    BY <1>1, <2>1, QuietExecuting DEF HeldInv
  <2> QED
    BY <1>1, <2>1, <2>2, NeutralStep
<1> QED
  BY <1>1, <1>2, <1>3

LEMMA ApproveApproval ==
  ASSUME TypeInv, HeldInv, Approve
  PROVE  FreshIds' /\ Executing' /\ AtMostOncePaid' /\ PaidAsApproved'
<1>1. PICK prop \in PropIds : ApprovePending(prop)
  BY DEF Approve
<1>2. /\ pending_proposals \in [PropIds -> Proposals]
      /\ pending_proposals[prop].status = "pending_approval"
      /\ pending_proposals' = [pending_proposals EXCEPT ![prop].status = "approved"]
      /\ UNCHANGED <<payments, next_prop, next_pay>>
  BY <1>1 DEF ApprovePending, TypeInv, TypeOK, ids
<1>3. \A q \in PropIds :
        /\ pending_proposals'[q].kind = pending_proposals[q].kind
        /\ pending_proposals'[q].amount = pending_proposals[q].amount
        /\ q # prop => pending_proposals'[q].status = pending_proposals[q].status
        /\ q = prop => pending_proposals'[q].status = "approved"
  BY <1>2 DEF Proposals
<1>4. /\ call'.stage = "gate" /\ call'.prop = prop
      /\ call'.kind = pending_proposals[prop].kind /\ call'.amount = ReplayedAmount(prop)
  BY <1>1 DEF ApprovePending, NoCall
<1>5. \A p \in PayIds : Made(p) => payments[p].prop # prop
  BY <1>2, ConstantsAssumption DEF HeldInv, PaidAsApproved, PropIds
<1>6. FreshIds'
  BY <1>2, <1>3, <1>4 DEF HeldInv, FreshIds, Made
<1>7. Executing'
  BY <1>2, <1>3, <1>4, <1>5 DEF Executing, Made, ReplayedAmount
<1>8. AtMostOncePaid'
  BY <1>2 DEF HeldInv, AtMostOncePaid, Made
<1>9. PaidAsApproved'
  <2> SUFFICES ASSUME NEW p \in PayIds, Made(p), payments[p].prop # 0
               PROVE  LET proposal == pending_proposals'[payments[p].prop] IN
                      /\ proposal.status \notin {"none", "pending_approval"}
                      /\ proposal.kind = payments[p].kind
                      /\ proposal.kind \in Transfers => proposal.amount = payments[p].amount
    BY <1>2 DEF PaidAsApproved, Made
  <2>1. payments[p].prop \in PropIds
    BY ConstantsAssumption DEF TypeInv, TypeOK, Payments, PropIds
  <2> QED
    BY <1>3, <2>1 DEF HeldInv, PaidAsApproved
<1> QED
  BY <1>6, <1>7, <1>8, <1>9

\* Rejecting a proposal, or finishing its execution, changes its status alone,
\* and not back to one that waits for the owner.
LEMMA CloseApproval ==
  ASSUME TypeInv, HeldInv, Reject \/ FinishApproval
  PROVE  FreshIds' /\ Executing' /\ AtMostOncePaid' /\ PaidAsApproved'
<1>1. PICK prop \in PropIds :
        /\ pending_proposals[prop].status \in {"pending_approval", "approved"}
        /\ \E s \in {"executed", "rejected"} :
             pending_proposals' = [pending_proposals EXCEPT ![prop].status = s]
        /\ \/ call' = call /\ call.stage = "idle"
           \/ call' = NoCall
           \/ call' = [call EXCEPT !.stage = "recount"]
        /\ UNCHANGED <<payments, ids>>
  <2>1. CASE Reject
    BY <2>1 DEF Reject, RejectPending, Rejectable
  <2>2. CASE FinishApproval
    <3>1. call.stage = "finish" /\ call.prop \in PropIds
      BY <2>2 DEF FinishApproval, TypeInv, CallBounds
    <3>2. pending_proposals[call.prop].status = "approved"
      BY <3>1, ConstantsAssumption DEF HeldInv, Executing, PropIds
    <3> QED
      BY <2>2, <3>1, <3>2 DEF FinishApproval
  <2> QED
    BY <2>1, <2>2
<1>2. pending_proposals \in [PropIds -> Proposals] /\ call \in Calls
  BY DEF TypeInv, TypeOK
<1>3. \A q \in PropIds :
        /\ pending_proposals'[q].kind = pending_proposals[q].kind
        /\ pending_proposals'[q].amount = pending_proposals[q].amount
        /\ q # prop => pending_proposals'[q].status = pending_proposals[q].status
        /\ q = prop => pending_proposals'[q].status \in {"executed", "rejected"}
  BY <1>1, <1>2 DEF Proposals
<1>4. \/ call'.stage = "idle" /\ call'.prop = 0
      \/ call'.stage = "recount"
  BY <1>1, <1>2 DEF NoCall, Calls, HeldInv, Executing
<1>5. FreshIds'
  BY <1>1, <1>3, <1>4 DEF HeldInv, FreshIds, Made, ids
<1>6. Executing'
  BY <1>4 DEF Executing
<1>7. AtMostOncePaid'
  BY <1>1 DEF HeldInv, AtMostOncePaid, Made
<1>8. PaidAsApproved'
  <2> SUFFICES ASSUME NEW p \in PayIds, Made(p), payments[p].prop # 0
               PROVE  LET proposal == pending_proposals'[payments[p].prop] IN
                      /\ proposal.status \notin {"none", "pending_approval"}
                      /\ proposal.kind = payments[p].kind
                      /\ proposal.kind \in Transfers => proposal.amount = payments[p].amount
    BY <1>1 DEF PaidAsApproved, Made
  <2>1. payments[p].prop \in PropIds
    BY ConstantsAssumption DEF TypeInv, TypeOK, Payments, PropIds
  <2> QED
    BY <1>3, <2>1 DEF HeldInv, PaidAsApproved
<1> QED
  BY <1>5, <1>6, <1>7, <1>8

LEMMA HoldApproval ==
  ASSUME TypeInv, HeldInv, HoldProposal
  PROVE  FreshIds' /\ Executing' /\ AtMostOncePaid' /\ PaidAsApproved'
<1>1. /\ call \in Calls /\ call.stage = "hold" /\ call.held \in PropIds
      /\ pending_proposals \in [PropIds -> Proposals]
      /\ call.held < next_prop /\ pending_proposals[call.held].status = "none"
      /\ UNCHANGED <<payments, ids>>
      /\ Return(TRUE)
  BY DEF HoldProposal, TypeInv, TypeOK, CallBounds, HeldInv, FreshIds
<1>2. pending_proposals' = [pending_proposals EXCEPT ![call.held] =
        [status |-> "pending_approval", kind |-> call.kind, amount |-> call.amount]]
  BY DEF HoldProposal
<1>3. /\ \A q \in PropIds \ {call.held} : pending_proposals'[q] = pending_proposals[q]
      /\ pending_proposals'[call.held].status = "pending_approval"
  BY <1>1, <1>2
<1>4. /\ call'.stage \in {"idle", "finish"}
      /\ call'.stage = "idle" => call'.prop = 0
      /\ call'.stage = "finish" => call'.prop = call.prop /\ call.prop \in PropIds
  <2>1. CASE call.prop = 0
    BY <1>1, <2>1 DEF Return, NoCall
  <2>2. CASE call.prop # 0
    <3>1. call' = [call EXCEPT !.stage = "finish", !.ok = TRUE]
      BY <1>1, <2>2 DEF Return
    <3>2. call.prop \in PropIds
      BY <1>1, <2>2, ConstantsAssumption DEF Calls, PropIds
    <3> QED
      BY <1>1, <3>1, <3>2 DEF Calls
  <2> QED
    BY <2>1, <2>2
<1>5. FreshIds'
  BY <1>1, <1>3, <1>4 DEF HeldInv, FreshIds, Made, ids
<1>6. Executing'
  BY <1>1, <1>3, <1>4, ConstantsAssumption DEF HeldInv, Executing, PropIds
<1>7. AtMostOncePaid'
  BY <1>1 DEF HeldInv, AtMostOncePaid, Made
<1>8. PaidAsApproved'
  <2> SUFFICES ASSUME NEW p \in PayIds, Made(p), payments[p].prop # 0
               PROVE  pending_proposals'[payments[p].prop] = pending_proposals[payments[p].prop]
    BY <1>1 DEF HeldInv, PaidAsApproved, Made
  <2>1. payments[p].prop \in PropIds
    BY ConstantsAssumption DEF TypeInv, TypeOK, Payments, PropIds
  <2>2. payments[p].prop # call.held
    BY <1>1 DEF HeldInv, PaidAsApproved
  <2> QED
    BY <1>3, <2>1, <2>2
<1> QED
  BY <1>5, <1>6, <1>7, <1>8

LEMMA SubmitApproval ==
  ASSUME TypeInv, HeldInv, Submit
  PROVE  FreshIds' /\ Executing' /\ AtMostOncePaid' /\ PaidAsApproved'
<1>1. /\ call \in Calls /\ call.stage = "submit" /\ next_pay \in PayIds
      /\ payments \in [PayIds -> Payments]
      /\ next_pay' = next_pay + 1
      /\ UNCHANGED <<pending_proposals, next_prop>>
      /\ payments' = [payments EXCEPT ![next_pay] =
           [status |-> "inflight", prop |-> call.prop, kind |-> call.kind,
            amount |-> call.amount, window |-> period_start_ts]]
  BY ConstantsAssumption DEF Submit, TypeInv, TypeOK, CallBounds, PayIds, table
<1>2. /\ \A p \in PayIds \ {next_pay} : payments'[p] = payments[p]
      /\ payments'[next_pay].prop = call.prop /\ payments'[next_pay].kind = call.kind
      /\ payments'[next_pay].amount = call.amount
  BY <1>1
<1>3. call'.stage = "await" /\ call'.prop = call.prop
  BY <1>1 DEF Submit, Calls
<1>4. FreshIds'
  <2>1. ASSUME NEW p \in PayIds, Made(p)' PROVE p < next_pay'
    <3>1. CASE p = next_pay
      BY <1>1, <3>1 DEF PayIds
    <3>2. CASE p # next_pay
      BY <1>1, <1>2, <2>1, <3>2 DEF HeldInv, FreshIds, Made, PayIds
    <3> QED
      BY <3>1, <3>2
  <2> QED
    BY <1>1, <1>3, <2>1 DEF HeldInv, FreshIds
<1>5. Executing'
  BY <1>1, <1>3 DEF HeldInv, Executing
<1>6. call.prop # 0 =>
        /\ call.prop \in PropIds
        /\ pending_proposals[call.prop].status = "approved"
        /\ \A p \in PayIds : Made(p) => payments[p].prop # call.prop
        /\ call.kind = pending_proposals[call.prop].kind
        /\ call.kind \in Transfers => call.amount = pending_proposals[call.prop].amount
  BY <1>1, ConstantsAssumption DEF HeldInv, Executing, Calls, PropIds
<1>7. AtMostOncePaid'
  BY <1>2, <1>6 DEF HeldInv, AtMostOncePaid, Made
<1>8. PaidAsApproved'
  BY <1>1, <1>2, <1>6 DEF HeldInv, PaidAsApproved, Made
<1> QED
  BY <1>4, <1>5, <1>7, <1>8

LEMMA WalletApproval ==
  ASSUME TypeInv, HeldInv, WalletStep
  PROVE  FreshIds' /\ Executing' /\ AtMostOncePaid' /\ PaidAsApproved'
<1>1. PICK p \in PayIds : Settle(p) \/ Refuse(p)
  BY DEF WalletStep
<1>2. /\ payments[p].status = "inflight"
      /\ \E s \in {"settled", "refused"} : payments' = [payments EXCEPT ![p].status = s]
      /\ UNCHANGED <<pending_proposals, call, ids>>
  BY <1>1 DEF Settle, Refuse, table
<1>3. \A q \in PayIds :
        /\ Made(q)' <=> Made(q)
        /\ payments'[q].prop = payments[q].prop /\ payments'[q].kind = payments[q].kind
        /\ payments'[q].amount = payments[q].amount
  BY <1>2 DEF Made, TypeInv, TypeOK, Payments
<1>4. FreshIds'
  BY <1>2, <1>3 DEF HeldInv, FreshIds, ids
<1>5. Executing'
  BY <1>2, <1>3 DEF HeldInv, Executing
<1>6. AtMostOncePaid' /\ PaidAsApproved'
  BY <1>2, <1>3 DEF HeldInv, AtMostOncePaid, PaidAsApproved
<1> QED
  BY <1>4, <1>5, <1>6

\* Only a restart needs the directory to hold what the process held.
LEMMA HeldStep ==
  ASSUME TypeInv, HeldInv, [Next]_vars, CrashRestart => Durable
  PROVE  HeldInv'
<1> SUFFICES FreshIds' /\ Executing' /\ AtMostOncePaid' /\ PaidAsApproved'
  BY DEF HeldInv
<1>1. CASE UNCHANGED vars
  BY <1>1 DEF vars, table, ids, HeldInv, FreshIds, Executing, AtMostOncePaid, PaidAsApproved,
     Made
<1>2. CASE CallSkill \/ Approve \/ Reject \/ MetaConfigure
  BY <1>2, SkillApproval, ApproveApproval, CloseApproval, IdleApproval
<1>3. CASE AgentStep
  BY <1>3, GateApproval, HoldApproval, SubmitApproval, ReplyApproval, CloseApproval DEF AgentStep
<1>4. CASE WalletStep \/ WalletUnreachable \/ Timeout \/ Clock \/ CrashRestart
  BY <1>4, WalletApproval, ReplyApproval, IdleApproval
<1> QED
  BY <1>1, <1>2, <1>3, <1>4 DEF Next

LEMMA CrashesCount ==
  ASSUME TypeInv, [Next]_vars
  PROVE  /\ CrashRestart => crashes' # 0 /\ saveFailures' = saveFailures
         /\ crashes' = 0 => crashes = 0
<1>0. crashes \in Nat
  BY ConstantsAssumption DEF TypeInv, TypeOK
<1>1. CrashRestart => crashes' = crashes + 1 /\ saveFailures' = saveFailures
  BY DEF CrashRestart
<1>2. ~CrashRestart => crashes' = crashes
  <2>1. CASE UNCHANGED vars \/ CallSkill \/ Approve \/ Reject \/ MetaConfigure
    BY <2>1, ConfigureStep DEF vars, CallSkill, Skill, Approve, ApprovePending, Reject,
       RejectPending, faults
  <2>2. CASE AgentStep
    BY <2>2 DEF AgentStep, Gate, GateDeploy, HoldProposal, Submit, ReplyOk, ReplyError,
       RecordSpend, FinishApproval, Recount, faults
  <2>3. CASE WalletStep \/ WalletUnreachable \/ Timeout \/ Clock
    BY <2>3 DEF WalletStep, Settle, Refuse, WalletUnreachable, Timeout, Clock, SetClock, faults
  <2> QED
    BY <2>1, <2>2, <2>3 DEF Next
<1> QED
  BY <1>0, <1>1, <1>2

LEMMA FailuresCount ==
  ASSUME TypeInv, [Next]_vars
  PROVE  saveFailures' = saveFailures \/ saveFailures' = saveFailures + 1
<1>1. CASE UNCHANGED vars \/ CallSkill \/ Approve \/ Reject \/ MetaConfigure
  BY <1>1, ConfigureStep DEF vars, CallSkill, Skill, Approve, ApprovePending, Reject,
     RejectPending, Save
<1>2. CASE Gate \/ GateDeploy \/ HoldProposal \/ Submit \/ ReplyOk \/ ReplyError
  BY <1>2 DEF Gate, WithinThreshold, RollWindow, GateDeploy, HoldProposal, Submit, ReplyOk,
     ReplyError, Save
<1>3. CASE RecordSpend \/ FinishApproval \/ Recount \/ WalletUnreachable \/ Timeout
  BY <1>3 DEF RecordSpend, Add, FinishApproval, Recount, WalletUnreachable, Timeout, Save
<1>4. CASE WalletStep \/ Clock \/ CrashRestart
  BY <1>4 DEF WalletStep, Settle, Refuse, Clock, SetClock, CrashRestart
<1> QED
  BY <1>1, <1>2, <1>3, <1>4 DEF Next, AgentStep

\* What the process knows of its proposals is what it did: it never restarted,
\* or it found everything as it had written it.
Trusted == crashes = 0 \/ saveFailures = 0
TrustedInv == (saveFailures = 0 => Durable) /\ (Trusted => HeldInv)

LEMMA InitTrusted == Init => TrustedInv
BY DEF Init, TrustedInv, HeldInv, Durable, FreshIds, Executing, AtMostOncePaid, PaidAsApproved,
   Made, NoCall, NoPayment, NoProposal, NoSpend, NoTable

\* A trusted state comes from one, and a restart that leads to one reads a
\* directory that holds everything.
LEMMA TrustedBefore ==
  ASSUME TypeInv, TrustedInv, [Next]_vars, Trusted'
  PROVE  HeldInv /\ Trusted /\ (CrashRestart => Durable)
<1>1. saveFailures \in Nat
  BY ConstantsAssumption DEF TypeInv, TypeOK
<1>2. saveFailures' = 0 => saveFailures = 0
  BY <1>1, FailuresCount
<1> QED
  BY <1>2, CrashesCount DEF Trusted, TrustedInv

LEMMA NextTrusted == TypeInv /\ TrustedInv /\ [Next]_vars => TrustedInv'
<1> SUFFICES ASSUME TypeInv, TrustedInv, [Next]_vars PROVE TrustedInv'
  OBVIOUS
<1>1. Trusted' => HeldInv'
  BY TrustedBefore, HeldStep
<1>2. saveFailures' = 0 => Durable'
  <2>1. saveFailures \in Nat
    BY ConstantsAssumption DEF TypeInv, TypeOK
  <2> QED
    BY <2>1, FailuresCount, DurableStep DEF TrustedInv
<1> QED
  BY <1>1, <1>2 DEF TrustedInv

LEMMA TrustedCorrect == Spec => [](TypeInv /\ TrustedInv)
BY InitType, NextType, InitTrusted, NextTrusted, PTL DEF Spec

\* Where nothing can fail to be written, or nothing crashes, all is trusted.
LEMMA AlwaysTrusted ==
  ASSUME MaxSaveFailures = 0 \/ MaxCrashes = 0, TypeInv, TrustedInv
  PROVE  HeldInv /\ Trusted /\ (CrashRestart => Durable)
BY DEF TypeInv, TypeOK, TrustedInv, Trusted, CrashRestart

\* Unless the process restarted and a write had failed, no proposal is paid
\* twice, however often it crashes or the wallet times out.
THEOREM NeverPaidTwice == Spec => [](Trusted => AtMostOncePaid)
<1>1. TypeInv /\ TrustedInv => (Trusted => AtMostOncePaid)
  BY DEF TrustedInv, HeldInv
<1> QED
  BY <1>1, TrustedCorrect, PTL

\* In the same circumstances, what is paid for a proposal is what the owner approved.
THEOREM PaidWhatWasApproved == Spec => [](Trusted => PaidAsApproved)
<1>1. TypeInv /\ TrustedInv => (Trusted => PaidAsApproved)
  BY DEF TrustedInv, HeldInv
<1> QED
  BY <1>1, TrustedCorrect, PTL

(***************************************************************************)
(* The refinement: how each step changes the table of proposals, the life  *)
(* of a proposal, and what ApprovalPromise promises of it.                 *)
(***************************************************************************)

\* A new proposal enters the table under an identity that was free.
Entered ==
  \E p \in PropIds, new \in Proposals :
    /\ pending_proposals[p].status = "none" /\ new.status = "pending_approval"
    /\ pending_proposals' = [pending_proposals EXCEPT ![p] = new]

\* A proposal in the table moves forward, its content kept.
Moved ==
  \E p \in PropIds, s \in {"approved", "executed", "rejected"} :
    /\ pending_proposals[p].status # "none"
    /\ <<pending_proposals[p].status, s>> \in Edges
    /\ pending_proposals' = [pending_proposals EXCEPT ![p].status = s]

\* The transfers made, and the proposals they were made for, stay the same.
PaysUnchanged ==
  \A p \in PayIds : (Made(p)' <=> Made(p)) /\ payments'[p].prop = payments[p].prop

LEMMA ApproveMoves ==
  ASSUME TypeInv, Approve
  PROVE  Moved /\ UNCHANGED payments
<1>1. PICK prop \in PropIds : ApprovePending(prop)
  BY DEF Approve
<1>2. <<pending_proposals[prop].status, "approved">> \in Edges
  BY <1>1 DEF ApprovePending, Edges
<1> QED
  BY <1>1, <1>2 DEF ApprovePending, Moved

LEMMA RejectMoves ==
  ASSUME TypeInv, Reject
  PROVE  Moved /\ UNCHANGED payments
<1>1. PICK prop \in PropIds : RejectPending(prop)
  BY DEF Reject
<1>2. /\ pending_proposals[prop].status # "none"
      /\ <<pending_proposals[prop].status, "rejected">> \in Edges
  BY <1>1 DEF RejectPending, Rejectable, Edges
<1> QED
  BY <1>1, <1>2 DEF RejectPending, Moved

LEMMA FinishMoves ==
  ASSUME TypeInv, HeldInv, FinishApproval
  PROVE  Moved /\ UNCHANGED payments
<1>1. call.prop \in PropIds /\ call.stage = "finish" /\ UNCHANGED payments
  BY DEF FinishApproval, TypeInv, CallBounds
<1>2. pending_proposals[call.prop].status = "approved"
  BY <1>1, ConstantsAssumption DEF HeldInv, Executing, PropIds
<1>3. <<pending_proposals[call.prop].status, "executed">> \in Edges
  BY <1>2 DEF Edges
<1> QED
  BY <1>1, <1>2, <1>3 DEF FinishApproval, Moved

LEMMA HoldEnters ==
  ASSUME TypeInv, HeldInv, HoldProposal
  PROVE  Entered /\ UNCHANGED payments
<1> DEFINE new == [status |-> "pending_approval", kind |-> call.kind, amount |-> call.amount]
<1>1. /\ call.held \in PropIds /\ pending_proposals[call.held].status = "none"
      /\ pending_proposals' = [pending_proposals EXCEPT ![call.held] = new]
      /\ UNCHANGED payments
  BY DEF HoldProposal, TypeInv, CallBounds, HeldInv, FreshIds
<1>2. new \in Proposals /\ new.status = "pending_approval"
  BY DEF TypeInv, TypeOK, Calls, Proposals
<1> QED
  BY <1>1, <1>2 DEF Entered

\* What a step does to the table and to the transfers.
LEMMA TableStep ==
  ASSUME TypeInv, HeldInv, [Next]_vars, CrashRestart => Durable
  PROVE  \/ UNCHANGED pending_proposals /\ PaysUnchanged
         \/ UNCHANGED pending_proposals /\ Submit
         \/ Moved /\ PaysUnchanged
         \/ Entered /\ PaysUnchanged
<1>a. ASSUME UNCHANGED payments PROVE PaysUnchanged
  BY <1>a DEF PaysUnchanged, Made
<1>1. CASE UNCHANGED vars \/ CallSkill \/ MetaConfigure \/ Gate \/ GateDeploy
  <2>1. UNCHANGED <<pending_proposals, payments>>
    BY <1>1, ConfigureStep DEF vars, table, CallSkill, Skill, Gate, GateDeploy
  <2> QED
    BY <1>a, <2>1
<1>2. CASE ReplyOk \/ ReplyError \/ RecordSpend \/ Recount \/ WalletUnreachable \/ Timeout \/ Clock
  <2>1. UNCHANGED <<pending_proposals, payments>>
    BY <1>2 DEF table, ReplyOk, ReplyError, RecordSpend, Recount, WalletUnreachable, Timeout,
       Clock, SetClock
  <2> QED
    BY <1>a, <2>1
<1>3. CASE CrashRestart
  BY <1>a, <1>3 DEF CrashRestart, Durable
<1>4. CASE Approve \/ Reject \/ FinishApproval
  BY <1>a, <1>4, ApproveMoves, RejectMoves, FinishMoves
<1>5. CASE HoldProposal
  BY <1>a, <1>5, HoldEnters
<1>6. CASE Submit
  BY <1>6 DEF Submit, table
<1>7. CASE WalletStep
  <2>1. PICK p \in PayIds : Settle(p) \/ Refuse(p)
    BY <1>7 DEF WalletStep
  <2>2. /\ payments[p].status = "inflight" /\ UNCHANGED pending_proposals
        /\ \E s \in {"settled", "refused"} : payments' = [payments EXCEPT ![p].status = s]
    BY <2>1 DEF Settle, Refuse, table
  <2>3. PaysUnchanged
    BY <2>2 DEF PaysUnchanged, Made, TypeInv, TypeOK, Payments
  <2> QED
    BY <2>2, <2>3
<1> QED
  BY <1>1, <1>2, <1>3, <1>4, <1>5, <1>6, <1>7 DEF Next, AgentStep

\* A proposal keeps its content and moves only forward: crashes included, as long
\* as the table can be written, and failed writes included, as long as there
\* are no crashes.
THEOREM ProposalsMoveForward ==
  ASSUME MaxSaveFailures = 0 \/ MaxCrashes = 0
  PROVE  Spec => ProposalLifecycle
<1> DEFINE Forward(p) ==
      LET old == pending_proposals[p]
          new == pending_proposals'[p]
      IN  old # new =>
            /\ <<old.status, new.status>> \in Edges
            /\ old.status # "none" => new.kind = old.kind /\ new.amount = old.amount
<1>1. ASSUME TypeInv, TrustedInv, [Next]_vars, NEW p \in PropIds
      PROVE  Forward(p)
  <2>0. pending_proposals \in [PropIds -> Proposals]
    BY <1>1 DEF TypeInv, TypeOK
  <2>1. CASE UNCHANGED pending_proposals
    BY <2>1
  <2>2. CASE Moved
    <3>1. PICK q \in PropIds, s \in {"approved", "executed", "rejected"} :
            /\ pending_proposals[q].status # "none"
            /\ <<pending_proposals[q].status, s>> \in Edges
            /\ pending_proposals' = [pending_proposals EXCEPT ![q].status = s]
      BY <2>2 DEF Moved
    <3>2. CASE p = q
      <4>1. pending_proposals'[p] = [pending_proposals[p] EXCEPT !.status = s]
        BY <2>0, <3>1, <3>2
      <4>2. /\ pending_proposals'[p].status = s
            /\ pending_proposals'[p].kind = pending_proposals[p].kind
            /\ pending_proposals'[p].amount = pending_proposals[p].amount
        BY <2>0, <4>1 DEF Proposals
      <4> QED
        BY <3>1, <3>2, <4>2
    <3>3. CASE p # q
      BY <2>0, <3>1, <3>3
    <3> QED
      BY <3>2, <3>3
  <2>3. CASE Entered
    <3>1. PICK q \in PropIds, new \in Proposals :
            /\ pending_proposals[q].status = "none" /\ new.status = "pending_approval"
            /\ pending_proposals' = [pending_proposals EXCEPT ![q] = new]
      BY <2>3 DEF Entered
    <3>2. CASE p = q
      BY <2>0, <3>1, <3>2 DEF Edges
    <3>3. CASE p # q
      BY <2>0, <3>1, <3>3
    <3> QED
      BY <3>2, <3>3
  <2> QED
    BY <1>1, <2>1, <2>2, <2>3, AlwaysTrusted, TableStep
<1>2. TypeInv /\ TrustedInv /\ [Next]_vars => [\A p \in PropIds : Forward(p)]_pending_proposals
  BY <1>1
<1> QED
  BY <1>2, TrustedCorrect, PTL DEF Spec, ProposalLifecycle

(***************************************************************************)
(* Rejected proposals.  A transfer belongs to a proposal that is executed, *)
(* or is being executed; the owner is not heard meanwhile, and only an     *)
(* executed proposal is left behind.  A restart breaks the second part: it *)
(* leaves an approved proposal with its transfer at the wallet.            *)
(***************************************************************************)
PaidIsClosed ==
  \A p \in PayIds :
    Made(p) /\ payments[p].prop # 0 =>
      \/ pending_proposals[payments[p].prop].status = "executed"
      \/ call.prop = payments[p].prop /\ call.stage # "recount"

\* Only its end takes a proposal out of execution.
LEMMA ExecutionGoesOn ==
  ASSUME TypeInv, HeldInv, [Next]_vars, ~CrashRestart, ~FinishApproval,
         call.prop # 0, call.stage # "recount"
  PROVE  call'.prop = call.prop /\ call'.stage # "recount"
<1>0. call \in Calls /\ call.stage # "idle"
  BY DEF TypeInv, TypeOK, HeldInv, Executing
<1>1. CASE UNCHANGED vars \/ WalletStep \/ Clock
  <2>1. UNCHANGED call
    BY <1>1 DEF vars, WalletStep, Settle, Refuse, Clock, SetClock
  <2> QED
    BY <1>0, <2>1
<1>2. CASE Gate \/ GateDeploy
  <2>1. Proceed \/ \E amount \in Nat \cup {Malformed} : Withhold(amount)
    BY <1>0, <1>2 DEF Gate, GateDeploy, Calls, TypeInv, TypeOK, LiveLimits
  <2> QED
    BY <1>0, <2>1 DEF Proceed, Withhold, Calls
<1>3. CASE Submit \/ ReplyOk
  BY <1>0, <1>3 DEF Submit, ReplyOk, Calls
<1>4. CASE HoldProposal \/ ReplyError \/ WalletUnreachable \/ Timeout \/ RecordSpend
  <2>1. Return(TRUE) \/ Return(FALSE)
    BY <1>4 DEF HoldProposal, ReplyError, WalletUnreachable, Timeout, RecordSpend
  <2> QED
    BY <1>0, <2>1 DEF Return, Calls
<1>5. ~(CallSkill \/ Approve \/ Reject \/ MetaConfigure \/ Recount)
  BY <1>0, ConfigureStep DEF CallSkill, Skill, Approve, ApprovePending, Reject, RejectPending, Recount
<1> QED
  BY <1>1, <1>2, <1>3, <1>4, <1>5 DEF Next, AgentStep

LEMMA ClosedStep ==
  ASSUME TypeInv, HeldInv, PaidIsClosed, [Next]_vars, ~CrashRestart
  PROVE  PaidIsClosed'
<1> SUFFICES ASSUME NEW p \in PayIds, Made(p)', payments'[p].prop # 0,
                    ~(call'.prop = payments'[p].prop /\ call'.stage # "recount")
             PROVE  pending_proposals'[payments'[p].prop].status = "executed"
  BY DEF PaidIsClosed
<1>0. /\ pending_proposals \in [PropIds -> Proposals] /\ payments \in [PayIds -> Payments]
      /\ payments[p].prop \in PropIds \cup {0}
  BY ConstantsAssumption DEF TypeInv, TypeOK, Payments, PropIds
<1>1. CASE FinishApproval
  <2>1. /\ call.stage = "finish" /\ call.prop \in PropIds /\ UNCHANGED payments
        /\ pending_proposals' = [pending_proposals EXCEPT ![call.prop].status = "executed"]
    BY <1>1 DEF FinishApproval, TypeInv, CallBounds
  <2>2. Made(p) /\ payments'[p].prop = payments[p].prop
    BY <2>1 DEF Made
  <2>3. CASE payments[p].prop = call.prop
    BY <1>0, <2>1, <2>2, <2>3 DEF Proposals
  <2>4. CASE payments[p].prop # call.prop
    BY <1>0, <2>1, <2>2, <2>4 DEF PaidIsClosed
  <2> QED
    BY <2>3, <2>4
<1>2. CASE ~FinishApproval
  <2>1. ASSUME Made(p), payments'[p].prop = payments[p].prop
        PROVE  pending_proposals[payments[p].prop].status = "executed"
    BY <1>2, <2>1, ExecutionGoesOn DEF PaidIsClosed
  <2>2. CASE UNCHANGED pending_proposals /\ PaysUnchanged
    BY <2>1, <2>2 DEF PaysUnchanged
  <2>3. CASE UNCHANGED pending_proposals /\ Submit
    <3>1. /\ call.stage = "submit" /\ next_pay \in PayIds
          /\ payments' = [payments EXCEPT ![next_pay] =
               [status |-> "inflight", prop |-> call.prop, kind |-> call.kind,
                amount |-> call.amount, window |-> period_start_ts]]
      BY <2>3, ConstantsAssumption DEF Submit, TypeInv, TypeOK, CallBounds, PayIds
    <3>2. p # next_pay
      BY <1>0, <1>2, <3>1, ExecutionGoesOn
    <3>3. payments'[p] = payments[p]
      BY <1>0, <3>1, <3>2
    <3> QED
      BY <2>1, <2>3, <3>3 DEF Made
  <2>4. CASE Moved /\ PaysUnchanged
    <3>1. PICK q \in PropIds, s \in {"approved", "executed", "rejected"} :
            /\ <<pending_proposals[q].status, s>> \in Edges
            /\ pending_proposals' = [pending_proposals EXCEPT ![q].status = s]
      BY <2>4 DEF Moved
    <3>2. Made(p) /\ payments'[p].prop = payments[p].prop
      BY <2>4 DEF PaysUnchanged
    <3>3. pending_proposals[payments[p].prop].status = "executed"
      BY <2>1, <3>2
    <3>4. q # payments[p].prop
      BY <3>1, <3>3 DEF Edges
    <3> QED
      BY <1>0, <3>1, <3>2, <3>3, <3>4
  <2>5. CASE Entered /\ PaysUnchanged
    <3>1. PICK q \in PropIds, new \in Proposals :
            /\ pending_proposals[q].status = "none"
            /\ pending_proposals' = [pending_proposals EXCEPT ![q] = new]
      BY <2>5 DEF Entered
    <3>2. Made(p) /\ payments'[p].prop = payments[p].prop
      BY <2>5 DEF PaysUnchanged
    <3>3. pending_proposals[payments[p].prop].status = "executed"
      BY <2>1, <3>2
    <3> QED
      BY <1>0, <3>1, <3>2, <3>3
  <2> QED
    BY <2>2, <2>3, <2>4, <2>5, TableStep
<1> QED
  BY <1>1, <1>2

\* Until the process restarts, nothing settles for a proposal that the owner
\* rejected, whatever is not saved and however late the wallet answers.
THEOREM RejectedIsNeverPaid == Spec => [](crashes = 0 => RejectedNeverPaid)
<1> DEFINE Inv == crashes = 0 => PaidIsClosed
<1>1. Init => Inv
  BY DEF Init, PaidIsClosed, Made, NoPayment
<1>2. TypeInv /\ TrustedInv /\ Inv /\ [Next]_vars => Inv'
  <2> SUFFICES ASSUME TypeInv, TrustedInv, Inv, [Next]_vars, crashes' = 0
               PROVE  PaidIsClosed'
    OBVIOUS
  <2>1. crashes = 0 /\ ~CrashRestart
    BY CrashesCount
  <2>2. HeldInv /\ PaidIsClosed
    BY <2>1 DEF TrustedInv, Trusted
  <2> QED
    BY <2>1, <2>2, ClosedStep
<1>3. TypeInv /\ TrustedInv /\ Inv => (crashes = 0 => RejectedNeverPaid)
  <2> SUFFICES ASSUME TypeInv, HeldInv, PaidIsClosed,
                      NEW p \in PayIds, payments[p].status = "settled", payments[p].prop # 0
               PROVE  pending_proposals[payments[p].prop].status # "rejected"
    BY DEF TrustedInv, Trusted, RejectedNeverPaid
  <2>1. Made(p)
    BY DEF Made
  <2>2. CASE call.prop = payments[p].prop /\ call.stage # "recount"
    BY <2>2 DEF HeldInv, Executing
  <2>3. CASE ~(call.prop = payments[p].prop /\ call.stage # "recount")
    BY <2>1, <2>3 DEF PaidIsClosed
  <2> QED
    BY <2>2, <2>3
<1> QED
  BY <1>1, <1>2, <1>3, TrustedCorrect, PTL DEF Spec

(***************************************************************************)
(* The refinement mapping.                                                 *)
(***************************************************************************)

\* The promise's two variables, as AgentSpending keeps them.
Standing == [p \in PropIds |-> pending_proposals[p].status]
Paid == [prop \in PropIds |-> {p \in PayIds : Made(p) /\ payments[p].prop = prop}]

\* One status changed in the table is one standing changed.
LEMMA StandingMoves ==
  ASSUME TypeInv, NEW p \in PropIds, NEW s,
         \A q \in PropIds \ {p} : pending_proposals'[q].status = pending_proposals[q].status,
         pending_proposals'[p].status = s
  PROVE  Standing' = [Standing EXCEPT ![p] = s]
BY DEF Standing

LEMMA PaidStays ==
  ASSUME PaysUnchanged
  PROVE  Paid' = Paid
BY DEF PaysUnchanged, Paid

LEMMA PromiseInit == Init => Promise!Init
<1> SUFFICES ASSUME Init PROVE Promise!Init
  OBVIOUS
<1>1. Standing = [p \in PropIds |-> "none"]
  BY DEF Init, Standing, NoProposal, NoTable
<1>2. Paid = [p \in PropIds |-> {}]
  BY DEF Init, Paid, Made, NoPayment
<1> QED
  BY <1>1, <1>2 DEF Promise!Init, Standing, Paid

\* The transfer of an approved proposal is the promise's Pay; an autonomous one
\* is no step of it.
LEMMA SubmitPays ==
  ASSUME TypeInv, HeldInv, Submit
  PROVE  \/ UNCHANGED <<Standing, Paid>>
         \/ \E prop \in PropIds : Promise!Pay(prop)
<1>1. /\ call.stage = "submit" /\ call \in Calls /\ next_pay \in PayIds
      /\ payments \in [PayIds -> Payments] /\ UNCHANGED pending_proposals
      /\ payments' = [payments EXCEPT ![next_pay] =
           [status |-> "inflight", prop |-> call.prop, kind |-> call.kind,
            amount |-> call.amount, window |-> period_start_ts]]
  BY ConstantsAssumption DEF Submit, TypeInv, TypeOK, CallBounds, PayIds, table
<1>2. /\ payments'[next_pay].status = "inflight" /\ payments'[next_pay].prop = call.prop
      /\ \A p \in PayIds \ {next_pay} : payments'[p] = payments[p]
  BY <1>1
<1>3. ~Made(next_pay)
  BY <1>1 DEF HeldInv, FreshIds, PayIds
<1>4. \A prop \in PropIds :
        Paid'[prop] = IF prop = call.prop THEN Paid[prop] \cup {next_pay} ELSE Paid[prop]
  BY <1>1, <1>2, <1>3 DEF Paid, Made
<1>5. Standing' = Standing
  BY <1>1 DEF Standing
<1>6. CASE call.prop = 0
  <2>1. \A prop \in PropIds : prop # call.prop
    BY <1>6, ConstantsAssumption DEF PropIds
  <2>2. \A prop \in PropIds : Paid'[prop] = Paid[prop]
    BY <1>4, <2>1
  <2> QED
    BY <1>5, <2>2 DEF Paid
<1>7. CASE call.prop # 0
  <2>1. call.prop \in PropIds
    BY <1>1, <1>7, ConstantsAssumption DEF Calls, PropIds
  <2>2. Standing[call.prop] = "approved" /\ Paid[call.prop] = {}
    BY <1>1, <1>7, <2>1 DEF HeldInv, Executing, Standing, Paid
  <2>3. Paid' = [Paid EXCEPT ![call.prop] = {next_pay}]
    <3>1. \A prop \in PropIds :
            Paid'[prop] = IF prop = call.prop THEN {next_pay} ELSE Paid[prop]
      BY <1>4, <2>2
    <3>2. /\ Paid = [prop \in PropIds |-> Paid[prop]]
          /\ Paid' = [prop \in PropIds |-> Paid'[prop]]
      BY DEF Paid
    <3> QED
      BY <2>1, <3>1, <3>2
  <2> QED
    BY <1>1, <1>5, <2>1, <2>2, <2>3 DEF Promise!Pay, Standing, Paid
<1> QED
  BY <1>6, <1>7

LEMMA PromiseStep ==
  ASSUME TypeInv, HeldInv, [Next]_vars, CrashRestart => Durable
  PROVE  Promise!Next \/ UNCHANGED <<Standing, Paid>>
<1>0. pending_proposals \in [PropIds -> Proposals]
  BY DEF TypeInv, TypeOK
<1>1. CASE UNCHANGED pending_proposals /\ PaysUnchanged
  BY <1>1, PaidStays DEF Standing
<1>2. CASE Submit
  BY <1>2, SubmitPays DEF Promise!Next
<1>3. CASE Moved /\ PaysUnchanged
  <2>1. PICK p \in PropIds, s \in {"approved", "executed", "rejected"} :
          /\ pending_proposals[p].status # "none"
          /\ <<pending_proposals[p].status, s>> \in Edges
          /\ pending_proposals' = [pending_proposals EXCEPT ![p].status = s]
    BY <1>3 DEF Moved
  <2>2. /\ pending_proposals'[p].status = s
        /\ \A q \in PropIds \ {p} : pending_proposals'[q] = pending_proposals[q]
    BY <1>0, <2>1 DEF Proposals
  <2>3. Promise!Move(p, pending_proposals[p].status, s)
    <3>1. Standing' = [Standing EXCEPT ![p] = s] /\ Paid' = Paid
      BY <1>3, <2>2, StandingMoves, PaidStays
    <3>2. Standing[p] = pending_proposals[p].status
      BY DEF Standing
    <3> QED
      BY <3>1, <3>2 DEF Promise!Move, Standing, Paid
  <2>4. \/ pending_proposals[p].status = "pending_approval" /\ s = "approved"
        \/ pending_proposals[p].status = "approved" /\ s = "executed"
        \/ pending_proposals[p].status \in {"pending_approval", "approved"} /\ s = "rejected"
    BY <2>1 DEF Edges
  <2>5. Promise!Approve(p) \/ Promise!Close(p) \/ Promise!Reject(p)
    BY <2>3, <2>4 DEF Promise!Approve, Promise!Close, Promise!Reject
  <2> QED
    BY <2>5 DEF Promise!Next
<1>4. CASE Entered /\ PaysUnchanged
  <2>1. PICK p \in PropIds, new \in Proposals :
          /\ pending_proposals[p].status = "none" /\ new.status = "pending_approval"
          /\ pending_proposals' = [pending_proposals EXCEPT ![p] = new]
    BY <1>4 DEF Entered
  <2>2. /\ pending_proposals'[p].status = "pending_approval"
        /\ \A q \in PropIds \ {p} : pending_proposals'[q] = pending_proposals[q]
    BY <1>0, <2>1
  <2>3. Promise!Hold(p)
    <3>1. Standing' = [Standing EXCEPT ![p] = "pending_approval"] /\ Paid' = Paid
      BY <1>4, <2>2, StandingMoves, PaidStays
    <3>2. Standing[p] = "none"
      BY <2>1 DEF Standing
    <3> QED
      BY <3>1, <3>2 DEF Promise!Hold, Promise!Move, Standing, Paid
  <2> QED
    BY <2>3 DEF Promise!Next
<1> QED
  BY <1>1, <1>2, <1>3, <1>4, TableStep

\* The agent keeps its promise to the owner: every behaviour of AgentSpending
\* is one of ApprovalPromise, for every number of proposals, transfers and
\* timeouts, and of crashes or failed writes, but not both.
THEOREM PromiseKept ==
  ASSUME MaxSaveFailures = 0 \/ MaxCrashes = 0
  PROVE  Spec => KeepsPromise
<1>1. TypeInv /\ TrustedInv /\ [Next]_vars => [Promise!Next]_<<Standing, Paid>>
  BY AlwaysTrusted, PromiseStep
<1> QED
  BY <1>1, PromiseInit, TrustedCorrect, PTL DEF Spec, KeepsPromise, Promise!Spec, Standing, Paid
=============================================================================
