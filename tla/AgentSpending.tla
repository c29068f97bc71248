--------------------------- MODULE AgentSpending ---------------------------
(***************************************************************************)
(* The spending core of the agent module (agent_module_impl.cpp): the      *)
(* threshold gate, the four skills that move value (wallet_send,           *)
(* wallet_send_to, program_call, program_deploy), the table of held        *)
(* proposals with the owner's approve and reject calls, meta_configure,    *)
(* and the files in the data directory from which a new process starts.    *)
(*                                                                         *)
(* Calls reach the module one at a time on its RPC thread, so one record,  *)
(* `call`, stands for the call in progress; the wallet module settles or   *)
(* refuses a transfer on its own, and the process may stop between any two *)
(* steps.  Text is abstracted: an amount or a limit is the number          *)
(* parse_amount reads, Malformed (-1) when it cannot read one.             *)
(***************************************************************************)
EXTENDS Integers

CONSTANTS
  Skills,           \* the skills that callers use
  Amounts,          \* the well-formed amounts that callers ask for
  MaxAmount,        \* no amount is larger
  Limits,           \* what the owner may write as a per-tx or per-period limit
  Periods,          \* what the owner may write as period_seconds
  DefaultPeriod,    \* the period when period_seconds is absent or unreadable (86400)
  MaxProps,         \* bound: proposals built
  MaxPays,          \* bound: transfers handed to the wallet
  MaxTime,          \* bound: wall-clock readings are 1..MaxTime
  MaxCrashes,       \* bound: process crashes
  MaxTimeouts,      \* bound: wallet calls that outlive the RPC window
  MaxSaveFailures   \* bound: writes to the data directory that fail

Transfers == {"wallet_send", "wallet_send_to"}
Kinds == Transfers \cup {"program_call", "program_deploy"}
Malformed == -1
NoKey == -2         \* a configuration key that was never written

ASSUME ConstantsAssumption ==
  /\ Skills \subseteq Kinds
  /\ MaxAmount \in Nat
  /\ Amounts \subseteq 0..MaxAmount
  /\ Limits \subseteq Nat \cup {Malformed}
  /\ Periods \subseteq Nat \cup {Malformed}
  /\ DefaultPeriod \in Nat \ {0}
  /\ MaxProps \in Nat
  /\ MaxPays \in Nat
  /\ MaxTime \in Nat \ {0}
  /\ MaxCrashes \in Nat
  /\ MaxTimeouts \in Nat
  /\ MaxSaveFailures \in Nat

PropIds == 1..MaxProps
PayIds == 1..MaxPays

(***************************************************************************)
(* The values of the state.                                                *)
(***************************************************************************)
Configs == [per_tx_limit : Limits \cup {NoKey},
            per_period_limit : Limits \cup {NoKey},
            period_seconds : Periods \cup {NoKey}]

\* per_tx_limit_, per_period_limit_ and period_seconds_, parsed.  A limit of 0
\* is the text "0" (or the empty text), which the gate takes for "not set".
LiveLimits == [tx : Nat \cup {Malformed}, period : Nat \cup {Malformed}, seconds : Nat]

Proposals == [status : {"none", "pending_approval", "approved", "executed", "rejected"},
              kind : Kinds \cup {"none"},
              amount : Nat \cup {Malformed}]

\* A transfer in the hands of the wallet module: the proposal it executes (0
\* for an autonomous one) and the start of the spending window it was made in.
Payments == [status : {"none", "inflight", "settled", "refused"},
             prop : 0..MaxProps,
             kind : Kinds \cup {"none"},
             amount : 0..MaxAmount,
             window : 0..MaxTime]

Stages == {"idle", "gate", "hold", "submit", "await", "record", "finish", "recount"}

\* The call in progress: `prop` is the proposal being approved (0 when a skill
\* was called directly), `held` the proposal just built, `ok` what the executed
\* skill returned, `restore` the limits approve_pending keeps aside.
Calls == [stage : Stages,
          prop : 0..MaxProps,
          kind : Kinds \cup {"none"},
          amount : Nat \cup {Malformed},
          held : 0..MaxProps,
          pay : 0..MaxPays,
          ok : BOOLEAN,
          restore : LiveLimits]

NoProposal == [status |-> "none", kind |-> "none", amount |-> 0]
NoPayment == [status |-> "none", prop |-> 0, kind |-> "none", amount |-> 0, window |-> 0]
NoLimits == [tx |-> 0, period |-> 0, seconds |-> DefaultPeriod]
NoCall == [stage |-> "idle", prop |-> 0, kind |-> "none", amount |-> 0, held |-> 0,
           pay |-> 0, ok |-> FALSE, restore |-> NoLimits]

VARIABLES
  config,          \* the configuration map
  limits,          \* the three members copied from it
  period_spent,
  period_start_ts,
  pending_proposals,
  saved_config,    \* config.json
  saved_spend,     \* spend_state.json
  saved_pending,   \* pending_proposals.json
  call,            \* the call on the RPC thread
  payments,        \* the wallet module's transfers (external)
  next_prop, next_pay,   \* the next fresh identities
  now,             \* the wall clock
  crashes, timeouts, saveFailures,
  exposure         \* history: value handed to the wallet in the current window
                   \* and not refused by it

memory == <<config, limits, period_spent, period_start_ts, pending_proposals>>
spend == <<period_spent, period_start_ts, saved_spend, exposure>>
table == <<pending_proposals, saved_pending>>
settings == <<config, limits, saved_config>>
ids == <<next_prop, next_pay>>
faults == <<crashes, timeouts>>
vars == <<settings, period_spent, period_start_ts, saved_spend, exposure, table,
          call, payments, ids, now, faults, saveFailures>>

\* The content load_all finds in a file that is not there, or cut short.
NoConfig == [per_tx_limit |-> NoKey, per_period_limit |-> NoKey, period_seconds |-> NoKey]
NoSpend == [spent |-> 0, start |-> 0]
NoTable == [p \in PropIds |-> NoProposal]

\* save_json_file writes a temporary file and renames it over the old one.  When
\* it cannot open the first or rename it the old content stays; when it cannot
\* write all of it, which it does not look at, what is left reads as empty.
\* Nobody looks at what it returns.
Save(file, content, empty) ==
  \/ /\ file' = content
     /\ UNCHANGED saveFailures
  \/ /\ saveFailures < MaxSaveFailures
     /\ saveFailures' = saveFailures + 1
     /\ file' \in {file, empty}

\* sync_config_fields
LimitOf(v) == IF v = NoKey THEN 0 ELSE v
SyncConfigFields(c) ==
  [tx |-> LimitOf(c.per_tx_limit),
   period |-> LimitOf(c.per_period_limit),
   seconds |-> IF c.period_seconds \in {NoKey, Malformed} THEN DefaultPeriod
               ELSE c.period_seconds]

Init ==
  /\ config = NoConfig
  /\ limits = SyncConfigFields(config)
  /\ period_spent = 0
  /\ period_start_ts = 0
  /\ pending_proposals = NoTable
  /\ saved_config = config
  /\ saved_spend = NoSpend
  /\ saved_pending = pending_proposals
  /\ call = NoCall
  /\ payments = [p \in PayIds |-> NoPayment]
  /\ next_prop = 1
  /\ next_pay = 1
  /\ now = 1
  /\ crashes = 0
  /\ timeouts = 0
  /\ saveFailures = 0
  /\ exposure = 0

(***************************************************************************)
(* The threshold gate.                                                     *)
(***************************************************************************)
LimitSet(l) == l # 0

RollDue ==
  /\ limits.seconds > 0
  /\ \/ period_start_ts = 0
     \/ now - period_start_ts >= limits.seconds

SpentInWindow == IF RollDue THEN 0 ELSE period_spent

\* A slip: the window is emptied but keeps its start.
RollWindowKeepingStart ==
  IF RollDue
  THEN /\ period_spent' = 0
       /\ exposure' = 0
       /\ Save(saved_spend, [spent |-> 0, start |-> period_start_ts], NoSpend)
       /\ UNCHANGED period_start_ts
  ELSE UNCHANGED <<spend, saveFailures>>

RollWindow ==
  IF RollDue
  THEN /\ period_spent' = 0
       /\ period_start_ts' = now
       /\ exposure' = 0
       /\ Save(saved_spend, [spent |-> 0, start |-> now], NoSpend)
  ELSE UNCHANGED <<spend, saveFailures>>

\* A slip: the window is compared with its limit before the amount is added.
WithinLimitsBefore(amount) ==
  /\ LimitSet(limits.tx) => amount <= limits.tx
  /\ LimitSet(limits.period) => SpentInWindow <= limits.period

WithinLimits(amount) ==
  /\ LimitSet(limits.tx) => amount <= limits.tx
  /\ LimitSet(limits.period) => SpentInWindow + amount <= limits.period

\* A slip: a malformed amount is let through when no limit is set.
WithinThresholdUnparsed(amount, verdict) ==
  \/ /\ ~(LimitSet(limits.tx) \/ LimitSet(limits.period))
     /\ verdict = TRUE
     /\ UNCHANGED <<spend, saveFailures>>
  \/ /\ LimitSet(limits.tx) \/ LimitSet(limits.period)
     /\ verdict = WithinLimits(amount)
     /\ RollWindow

\* A malformed amount, or no limit at all, decides before the window is looked at.
WithinThreshold(amount, verdict) ==
  \/ /\ amount < 0 \/ ~(LimitSet(limits.tx) \/ LimitSet(limits.period))
     /\ verdict = (amount >= 0)
     /\ UNCHANGED <<spend, saveFailures>>
  \/ /\ amount >= 0
     /\ LimitSet(limits.tx) \/ LimitSet(limits.period)
     /\ verdict = WithinLimits(amount)
     /\ RollWindow

(***************************************************************************)
(* A skill that moves value, called directly or by approve_pending.  Every *)
(* stage ends where the process may stop: at a write to the data directory *)
(* or at a call to another module.                                         *)
(***************************************************************************)
Skill(kind, amount) ==
  /\ call.stage = "idle"
  /\ next_prop <= MaxProps
  /\ next_pay <= MaxPays
  /\ call' = [NoCall EXCEPT !.stage = "gate", !.kind = kind, !.amount = amount]
  /\ UNCHANGED <<settings, spend, table, payments, ids, now, faults, saveFailures>>

\* The skill is let through, or held as a proposal for `amount` under a fresh id.
Proceed == call' = [call EXCEPT !.stage = "submit"] /\ UNCHANGED next_prop
Withhold(amount) ==
  /\ call' = [call EXCEPT !.stage = "hold", !.amount = amount, !.held = next_prop]
  /\ next_prop' = next_prop + 1

Gate ==
  /\ call.stage = "gate"
  /\ call.kind # "program_deploy"
  /\ \E verdict \in BOOLEAN :
       /\ WithinThreshold(call.amount, verdict)
       /\ IF verdict THEN Proceed ELSE Withhold(call.amount)
  /\ UNCHANGED <<settings, table, payments, next_pay, now, faults>>

\* program_deploy is held whenever a per-tx limit is set, with that limit as
\* the amount, and never looks at the period.
GateDeploy ==
  /\ call.stage = "gate"
  /\ call.kind = "program_deploy"
  /\ IF LimitSet(limits.tx) THEN Withhold(limits.tx) ELSE Proceed
  /\ UNCHANGED <<settings, spend, table, payments, next_pay, now, faults, saveFailures>>

\* A slip: the limits are put back only after a skill that succeeded.
ReturnRestoringOnSuccess(result) ==
  IF call.prop = 0
  THEN call' = NoCall /\ UNCHANGED limits
  ELSE /\ call' = [call EXCEPT !.stage = "finish", !.ok = result]
       /\ limits' = IF result THEN call.restore ELSE limits

\* The skill returns its envelope.  approve_pending goes on with it, the limits
\* it had zeroed put back.
Return(result) ==
  IF call.prop = 0
  THEN call' = NoCall /\ UNCHANGED limits
  ELSE /\ call' = [call EXCEPT !.stage = "finish", !.ok = result]
       /\ limits' = call.restore

\* The owner has been notified (or three attempts have failed, which the
\* proposal records); now the proposal enters the table.
HoldProposal ==
  /\ call.stage = "hold"
  /\ pending_proposals' = [pending_proposals EXCEPT ![call.held] =
       [status |-> "pending_approval", kind |-> call.kind, amount |-> call.amount]]
  /\ Save(saved_pending, pending_proposals', NoTable)
  /\ Return(TRUE)
  /\ UNCHANGED <<config, saved_config, spend, payments, ids, now, faults>>

\* The call to the wallet module.
Submit ==
  /\ call.stage = "submit"
  /\ payments' = [payments EXCEPT ![next_pay] =
       [status |-> "inflight", prop |-> call.prop, kind |-> call.kind,
        amount |-> call.amount, window |-> period_start_ts]]
  /\ exposure' = exposure + call.amount
  /\ call' = [call EXCEPT !.stage = "await", !.pay = next_pay]
  /\ next_pay' = next_pay + 1
  /\ UNCHANGED <<settings, period_spent, period_start_ts, saved_spend, table,
                 next_prop, now, faults, saveFailures>>

\* The wallet module is not there: binding it, or the call, throws.
WalletUnreachable ==
  /\ call.stage = "submit"
  /\ Return(FALSE)
  /\ UNCHANGED <<config, saved_config, spend, table, payments, ids, now, faults, saveFailures>>

ReplyOk ==
  /\ call.stage = "await"
  /\ payments[call.pay].status = "settled"
  /\ call' = [call EXCEPT !.stage = "record"]
  /\ UNCHANGED <<settings, spend, table, payments, ids, now, faults, saveFailures>>

ReplyError ==
  /\ call.stage = "await"
  /\ payments[call.pay].status = "refused"
  /\ Return(FALSE)
  /\ UNCHANGED <<config, saved_config, spend, table, payments, ids, now, faults, saveFailures>>

\* The call outlives the RPC window and throws, whatever the wallet did or will do.
Timeout ==
  /\ call.stage = "await"
  /\ timeouts < MaxTimeouts
  /\ timeouts' = timeouts + 1
  /\ Return(FALSE)
  /\ UNCHANGED <<config, saved_config, spend, table, payments, ids, now, crashes, saveFailures>>

\* record_spend
Add(amount) ==
  /\ period_spent' = period_spent + amount
  /\ Save(saved_spend, [spent |-> period_spent', start |-> period_start_ts], NoSpend)
  /\ UNCHANGED <<period_start_ts, exposure>>

\* A slip: wallet_send_to, added later, is not recorded.
RecordedSendOnly(kind, amount) == kind = "wallet_send" \/ (kind = "program_call" /\ amount > 0)

\* A transfer is always recorded, a program call when its amount is positive,
\* a deployment never.
Recorded(kind, amount) == kind \in Transfers \/ (kind = "program_call" /\ amount > 0)

RecordSpend ==
  /\ call.stage = "record"
  /\ IF Recorded(call.kind, call.amount) THEN Add(call.amount)
     ELSE UNCHANGED <<spend, saveFailures>>
  /\ Return(TRUE)
  /\ UNCHANGED <<config, saved_config, table, payments, ids, now, faults>>

(***************************************************************************)
(* The owner: approve_pending, reject_pending, meta_configure.             *)
(***************************************************************************)

\* A slip: the amount of a held wallet_send_to is not read back.
ReplayedAmountSendOnly(prop) ==
  IF pending_proposals[prop].kind = "wallet_send" THEN pending_proposals[prop].amount ELSE 0

\* The amount the executed skill is called with.  The proposal of a program
\* call keeps neither instruction nor params: the call is made with "" and
\* "{}", whose amount is "0".  A deployment takes no amount.
ReplayedAmount(prop) ==
  IF pending_proposals[prop].kind \in Transfers THEN pending_proposals[prop].amount ELSE 0

\* A slip: the approved mark is not written to the data directory.
ApproveInMemory(prop) ==
  /\ call.stage = "idle"
  /\ next_pay <= MaxPays
  /\ pending_proposals[prop].amount < 0 => next_prop <= MaxProps
  /\ pending_proposals[prop].status = "pending_approval"
  /\ pending_proposals' = [pending_proposals EXCEPT ![prop].status = "approved"]
  /\ call' = [NoCall EXCEPT !.stage = "gate", !.prop = prop,
                            !.kind = pending_proposals[prop].kind,
                            !.amount = ReplayedAmount(prop),
                            !.restore = limits]
  /\ limits' = [limits EXCEPT !.tx = 0, !.period = 0]
  /\ UNCHANGED <<config, saved_config, saved_pending, saveFailures, spend, payments, ids,
                 now, faults>>

ApprovePending(prop) ==
  /\ call.stage = "idle"
  /\ next_pay <= MaxPays
  /\ pending_proposals[prop].amount < 0 => next_prop <= MaxProps
  /\ pending_proposals[prop].status = "pending_approval"
  /\ pending_proposals' = [pending_proposals EXCEPT ![prop].status = "approved"]
  /\ Save(saved_pending, pending_proposals', NoTable)
  /\ call' = [NoCall EXCEPT !.stage = "gate", !.prop = prop,
                            !.kind = pending_proposals[prop].kind,
                            !.amount = ReplayedAmount(prop),
                            !.restore = limits]
  /\ limits' = [limits EXCEPT !.tx = 0, !.period = 0]
  /\ UNCHANGED <<config, saved_config, spend, payments, ids, now, faults>>

\* Slips: a proposal whose execution failed goes back to the owner, is left as
\* it is, or counts as rejected.
FinishAs(failed) ==
  /\ call.stage = "finish"
  /\ pending_proposals' = [pending_proposals EXCEPT
       ![call.prop].status = IF call.ok THEN "executed" ELSE failed]
  /\ Save(saved_pending, pending_proposals', NoTable)
  /\ call' = IF call.ok /\ pending_proposals[call.prop].amount > 0
             THEN [call EXCEPT !.stage = "recount"] ELSE NoCall
  /\ UNCHANGED <<settings, spend, payments, ids, now, faults>>
FinishRetrying == FinishAs("pending_approval")
FinishSilently == FinishAs("approved")
FinishRejecting == FinishAs("rejected")

\* Whatever the skill returned, the proposal is executed.
FinishApproval ==
  /\ call.stage = "finish"
  /\ pending_proposals' = [pending_proposals EXCEPT ![call.prop].status = "executed"]
  /\ Save(saved_pending, pending_proposals', NoTable)
  /\ call' = IF call.ok /\ pending_proposals[call.prop].amount > 0
             THEN [call EXCEPT !.stage = "recount"] ELSE NoCall
  /\ UNCHANGED <<settings, spend, payments, ids, now, faults>>

\* approve_pending records the proposal's amount, after the skill did.
Recount ==
  /\ call.stage = "recount"
  /\ Add(pending_proposals[call.prop].amount)
  /\ call' = NoCall
  /\ UNCHANGED <<settings, table, payments, ids, now, faults>>

\* A slip: what is already executed or rejected can be rejected.
RejectableAlways(status) == status # "none"
Rejectable(status) == status \in {"pending_approval", "approved"}

RejectPending(prop) ==
  /\ call.stage = "idle"
  /\ Rejectable(pending_proposals[prop].status)
  /\ pending_proposals' = [pending_proposals EXCEPT ![prop].status = "rejected"]
  /\ Save(saved_pending, pending_proposals', NoTable)
  /\ UNCHANGED <<settings, spend, call, payments, ids, now, faults>>

Configure(c) ==
  /\ call.stage = "idle"
  /\ config' = c
  /\ limits' = SyncConfigFields(c)
  /\ Save(saved_config, c, NoConfig)
  /\ UNCHANGED <<spend, table, call, payments, ids, now, faults>>

MetaConfigure ==
  \/ \E v \in Limits : Configure([config EXCEPT !.per_tx_limit = v])
  \/ \E v \in Limits : Configure([config EXCEPT !.per_period_limit = v])
  \/ \E v \in Periods : Configure([config EXCEPT !.period_seconds = v])

(***************************************************************************)
(* The wallet module (external) settles or refuses what it was handed, in  *)
(* any order and also after the agent has stopped waiting or has stopped.  *)
(***************************************************************************)
Settle(p) ==
  /\ payments[p].status = "inflight"
  /\ payments' = [payments EXCEPT ![p].status = "settled"]
  /\ UNCHANGED <<settings, spend, table, call, ids, now, faults, saveFailures>>

Refuse(p) ==
  /\ payments[p].status = "inflight"
  /\ payments' = [payments EXCEPT ![p].status = "refused"]
  /\ exposure' = IF payments[p].window = period_start_ts
                 THEN exposure - payments[p].amount ELSE exposure
  /\ UNCHANGED <<settings, period_spent, period_start_ts, saved_spend, table, call, ids,
                 now, faults, saveFailures>>

\* system_clock: wall time, which may also be set back.
SetClock(t) ==
  /\ now' = t
  /\ UNCHANGED <<settings, spend, table, call, payments, ids, faults, saveFailures>>

\* The process stops and a new one loads the data directory.
CrashRestart ==
  /\ crashes < MaxCrashes
  /\ crashes' = crashes + 1
  /\ config' = saved_config
  /\ limits' = SyncConfigFields(saved_config)
  /\ period_spent' = saved_spend.spent
  /\ period_start_ts' = saved_spend.start
  /\ pending_proposals' = saved_pending
  /\ call' = NoCall
  /\ UNCHANGED <<saved_config, saved_spend, saved_pending, payments, ids, now, timeouts,
                 saveFailures, exposure>>

CallSkill ==
  \/ \E kind \in Skills \ {"program_deploy"}, amount \in Amounts \cup {Malformed} :
       Skill(kind, amount)
  \/ "program_deploy" \in Skills /\ Skill("program_deploy", 0)

Approve == \E prop \in PropIds : ApprovePending(prop)
Reject == \E prop \in PropIds : RejectPending(prop)

\* The steps the RPC thread takes by itself once a call is under way.
AgentStep ==
  \/ Gate \/ GateDeploy \/ HoldProposal \/ Submit \/ ReplyOk \/ ReplyError
  \/ RecordSpend \/ FinishApproval \/ Recount

WalletStep == \E p \in PayIds : Settle(p) \/ Refuse(p)
Clock == \E t \in 1..MaxTime : SetClock(t)

Next ==
  \/ CallSkill \/ Approve \/ Reject \/ MetaConfigure
  \/ AgentStep \/ WalletStep \/ WalletUnreachable \/ Timeout
  \/ Clock \/ CrashRestart

Spec == Init /\ [][Next]_vars

\* A call on the RPC thread is not abandoned, and the wallet module ends every
\* transfer one way or the other.
FairSpec == Spec /\ WF_vars(AgentStep) /\ WF_vars(WalletStep)

(***************************************************************************)
(* Properties.                                                             *)
(***************************************************************************)

\* Every variable keeps its type.
TypeOK ==
  /\ config \in Configs
  /\ limits \in LiveLimits
  /\ period_spent \in Nat
  /\ period_start_ts \in 0..MaxTime
  /\ pending_proposals \in [PropIds -> Proposals]
  /\ saved_config \in Configs
  /\ saved_spend \in [spent : Nat, start : 0..MaxTime]
  /\ saved_pending \in [PropIds -> Proposals]
  /\ call \in Calls
  /\ payments \in [PayIds -> Payments]
  /\ next_prop \in 1..MaxProps + 1
  /\ next_pay \in 1..MaxPays + 1
  /\ now \in 1..MaxTime
  /\ crashes \in 0..MaxCrashes
  /\ timeouts \in 0..MaxTimeouts
  /\ saveFailures \in 0..MaxSaveFailures
  /\ exposure \in Int

Made(p) == payments[p].status # "none"

\* approve_pending marks a proposal before it executes it, so that it hands the
\* wallet at most one transfer for one proposal, whatever crashes, timeouts
\* and repeated approvals there are.
AtMostOncePaid ==
  \A p, q \in PayIds :
    Made(p) /\ Made(q) /\ payments[p].prop = payments[q].prop /\ payments[p].prop # 0
      => p = q

\* What the wallet is handed for a proposal is what the proposal says: the
\* same skill and, for a transfer, the same amount; and the owner had approved it.
PaidAsApproved ==
  \A p \in PayIds :
    Made(p) /\ payments[p].prop # 0 =>
      LET proposal == pending_proposals[payments[p].prop] IN
      /\ proposal.status \notin {"none", "pending_approval"}
      /\ proposal.kind = payments[p].kind
      /\ proposal.kind \in Transfers => proposal.amount = payments[p].amount

Faults == crashes + timeouts

\* What the call in progress has handed over and not yet recorded.
Unrecorded ==
  IF call.stage \in {"await", "record"} /\ payments[call.pay].status # "refused"
  THEN call.amount ELSE 0

\* period_spent may fall behind the value handed to the wallet in the current
\* window (a crash between the transfer and record_spend, a reply that came
\* too late), but by no more than one transfer for each such fault.
SpendCovered == exposure <= period_spent + Unrecorded + Faults * MaxAmount

Autonomous == call.prop = 0 /\ call.kind # "program_deploy"

\* A transfer or program call made without the owner stays within the per-tx
\* limit, and the value out in the window within the per-period limit, except
\* for one transfer for each crash or timeout.
AutonomousWithinLimits ==
  /\ (Autonomous /\ call.stage = "submit") =>
       /\ LimitSet(limits.tx) => call.amount <= limits.tx
       /\ LimitSet(limits.period) =>
            exposure + call.amount <= limits.period + Faults * MaxAmount
  /\ (Autonomous /\ call.stage \in {"await", "record"} /\ LimitSet(limits.period)) =>
       exposure <= limits.period + Faults * MaxAmount

\* The value handed to the wallet since period_start_ts and not refused by it:
\* the window that period_spent is about is the one its transfers were made in.
InWindow(p) ==
  payments[p].status \in {"inflight", "settled"} /\ payments[p].window = period_start_ts
Worth == [p \in PayIds |-> IF InWindow(p) THEN payments[p].amount ELSE 0]
Total(worth) ==
  LET upTo[n \in 0..MaxPays] == IF n = 0 THEN 0 ELSE upTo[n - 1] + worth[n]
  IN  upTo[MaxPays]
ExposureIsWindowTotal == exposure = Total(Worth)

\* The gate the owner configured is the gate in force: the limits differ from
\* the configuration only while approve_pending executes its one skill.
GateRestored ==
  \/ limits = SyncConfigFields(config)
  \/ call.prop # 0 /\ call.restore = SyncConfigFields(config)

\* The wallet has settled nothing for a proposal that stands rejected.  Only
\* without crashes: a restart finds the proposal "approved" with its transfer at
\* the wallet, and reject_pending takes it.
RejectedNeverPaid ==
  \A p \in PayIds :
    payments[p].status = "settled" /\ payments[p].prop # 0 =>
      pending_proposals[payments[p].prop].status # "rejected"

\* The life of a proposal: its content never changes once it is in the table,
\* it never leaves the table, and its status moves only forward.
Edges == {<<"none", "pending_approval">>, <<"pending_approval", "approved">>,
          <<"approved", "executed">>, <<"pending_approval", "rejected">>,
          <<"approved", "rejected">>}
ProposalLifecycle ==
  [][\A p \in PropIds :
       LET old == pending_proposals[p]
           new == pending_proposals'[p]
       IN  old # new =>
             /\ <<old.status, new.status>> \in Edges
             /\ old.status # "none" => new.kind = old.kind /\ new.amount = old.amount
    ]_pending_proposals

\* A proposal the owner approved is executed.
ApprovedIsExecuted ==
  \A prop \in PropIds :
    pending_proposals[prop].status = "approved" ~> pending_proposals[prop].status = "executed"

\* What period_spent counts was handed to the wallet and not refused by it.
\* The comment on record_spend says it is called "after a transaction is
\* confirmed executed"; approve_pending calls it once more for the same one.
SpentWasPaid == call.stage = "idle" => period_spent <= exposure

\* An approved program call is the call that was held, its amount included.
\* approve_pending's comment says that instruction and params "are stored in
\* proposal if we saved them"; no code saves them.
ApprovedCallReplayed ==
  \A p \in PayIds :
    Made(p) /\ payments[p].prop # 0 /\ payments[p].kind = "program_call" =>
      payments[p].amount = pending_proposals[payments[p].prop].amount

\* The table of proposals and the transfers made for them keep the promise of
\* ApprovalPromise: a second transfer for a proposal, one for a proposal not
\* approved, or a way back from executed or rejected would be no step of it.
\* (A transfer with proposal 0 is autonomous and no concern of the promise.)
Promise == INSTANCE ApprovalPromise WITH
  standing <- [p \in PropIds |-> pending_proposals[p].status],
  paid <- [prop \in PropIds |-> {p \in PayIds : Made(p) /\ payments[p].prop = prop}]
KeepsPromise == Promise!Spec
=============================================================================
