# Verification of the Logos agent module

This directory holds TLA+ specifications of the agent module
(`src/scaffold/src/agent_module_impl.cpp` and its header), of the wallet core it pays
with (the Rust crate `src/lez-wallet-module/lez-wallet-core` and the `lez` command) and
of the command line that brings an agent up (`src/agent-cli`); the configurations with
which TLC checks them on small instances; and proofs, checked by the TLA+ proof system,
that the properties that matter most hold for every value of the constants. `PROJECT.json` maps every definition to the lines it models and lists
the runs, the mutants that show each property can fail, the hazards, the
disagreements between code and documentation that came up, and the theorems.

1. [The system](#1-the-system)
2. [The modules](#2-the-modules)
3. [The runs](#3-the-runs)
4. [The proofs](#4-the-proofs)
5. [What is only model-checked, and what is not modelled](#5-what-is-only-model-checked-and-what-is-not-modelled)
6. [Plan](#6-plan)

## 1. The system

An agent is a module in a Logos Core process. It acts for an owner: it stores
files, sends messages, spends the funds of a wallet and works for other agents.
What makes it more than a set of wrappers is that it spends *within limits*: a
spend over the limits is held until the owner approves or rejects it, and all of
this survives a restart of the process.

| Component | State | Operations | Hard behaviours |
| --- | --- | --- | --- |
| Spending gate and owner approval | limits, `period_spent`, `period_start_ts`, `pending_proposals`; `config.json`, `spend_state.json`, `pending_proposals.json` | `wallet_send`, `wallet_send_to`, `program_call`, `program_deploy`, `approve_pending`, `reject_pending`, `meta_configure` | a crash between two writes; a wallet call that outlives the RPC window; the limits zeroed for one approved call; a window that rolls by wall clock; a write that fails |
| Storage skills and labels | `cid_labels`, `session_cid`, `cid_labels.json`, the subscription | `storage_upload`, the `storageUploadDone` handler, `storage_list`, `storage_download`, `storage_share` | two threads on one map, one of them saving it without the lock; an event before the label is recorded; a lost reply; the bounded poll |
| A2A task lifecycle | tasks, kept in `pending_proposals` | `agent_task`, `agent_subscribe`, `agent_cancel` | request sent before the payment is decided; crash between the payment and the save of the task; cancel against a held payment |
| Discovery and agent card | `agent_npk`, `agent_vpk`, the signing key, `g_discovered_peers`, one delivery subscription | `agent_card`, `agent_discover`, the `messageReceived` handler | subscription taken once; a map of peers with a cap; an own card that is not recognised; a configuration read by one thread and written by another; the wallet's errors are text like its keys |
| Messaging skills | `joined_groups` in the configuration | `messaging_send`, `messaging_join`, `messaging_create_group` | a subscription taken before it is recorded; answers of other modules that are not looked at |
| Meta skills | the configuration | `meta_configure`, `meta_skills`, `meta_status` | settings read by the event thread of discovery without a lock |
| LEZ wallet core (Rust) | `keystore.json`, `wallet_storage.json`; the sequencer's chain outside | `ensure_account`, `sync_private`, keys, balance, history, transfers, program calls | two files written one after the other, in place; several processes on one directory, each with its passphrase; two derivations of an account from one mnemonic |
| `lez-agent-cli` (Rust) | none | `lez`, one wallet call per process | may be killed in the middle of a call, and runs beside the wallet module |
| LEZ wallet Qt module | none; a fixed passphrase | marshalling | passes error envelopes on as text |
| Agent CLI (Rust) | the logoscore daemon, what is loaded into it, the agent's configuration | `deploy`, `configure`, `fund`, `status`, `up` | a failure between loading the agent and giving it its limits; a call given up that is still carried out; a daemon of an earlier run; values cut at commas |
| Basecamp owner app | none | presentation | none |

How they interact. Skills reach the agent as remote calls on one RPC thread. The
agent calls other modules synchronously (wallet, storage, chat, delivery), each
call under an RPC window; it never calls itself except that `approve_pending`
runs the approved skill in the same call. Other modules reach the agent through
events, handled on a thread of theirs. Everything that must survive a restart is
written by `save_json_file` (a temporary file renamed over the old one, the
result not looked at) and read back by `load_all`.

What would make each of them correct:

- *Spending and approval.* No proposal is paid twice; what is paid for a
  proposal is what the owner saw and approved; a proposal moves only forward;
  autonomous spends stay within the limits, `period_spent` never falling behind
  by more than the faults explain; the limits in force are those the owner
  configured; every call returns and an approved proposal is executed.
- *Storage.* The content address returned is that of the file uploaded; a label
  is only ever put on content it was given for; it is not lost; the file agrees
  with the map; every call returns, every running upload's label is resolved.
- *A2A.* A task is paid for at most once and not after it is cancelled; a
  proposal and a task are not taken for one another.
- *Discovery and messaging.* The agent does not discover itself; a known peer is
  refreshed when the map is full; what the agent listens to, and what it remembers
  as joined, is subscribed; the name in its card is that of its account.
- *Wallet core.* Whatever is killed, and however processes overlap: an account that is
  handed out can be recovered from a mnemonic the operator has seen, one that is announced
  is sealed under the caller's passphrase; the two files belong to one mnemonic, and an
  account once announced stays.
- *Agent CLI.* A configuration that completes is the one that was given; the owner is set
  before any limit; the agent module is loaded after what it depends on.

The hazards behind these, each at its line, are listed in `PROJECT.json`.

## 2. The modules

### `AgentSpending` — the spending core

`config` is the configuration map (its three keys that matter here), `limits`
the members `per_tx_limit_`, `per_period_limit_` and `period_seconds_` copied
from it by `sync_config_fields`. `period_spent`, `period_start_ts` and
`pending_proposals` are the members of `Impl` with these names, the `saved_...`
variables the three files. `payments` is what the wallet module has been handed;
`exposure` is a history variable, the value handed over in the current window
and not refused.

The RPC thread runs one call at a time, the record `call`. A skill passes through
the stages

    gate -> submit -> await -> record            (within the limits)
    gate -> hold                                 (held for the owner)

and `approve_pending` adds `finish -> recount` behind the skill it runs. Stages
end where the process may stop with something changed outside of memory: at a
write to the data directory or at a call of another module.

| Action | Code |
| --- | --- |
| `Skill`, `Gate`, `GateDeploy` | entry of the four skills, `within_threshold` with the roll of the window; `program_deploy` is held whenever a per-tx limit is set |
| `HoldProposal` | `create_pending_proposal`: the owner is notified, then the proposal enters the table and its file |
| `Submit`, `WalletUnreachable`, `ReplyOk`, `ReplyError`, `Timeout` | the wallet call and its five endings |
| `RecordSpend` | `record_spend` by the skill |
| `ApprovePending` | the mark "approved", its save, and the limits zeroed for one call |
| `FinishApproval`, `Recount` | "executed" whatever the skill returned, its save, and the second `record_spend` |
| `RejectPending`, `MetaConfigure` | the owner's other calls |
| `Settle`, `Refuse` | the wallet module (external): it ends a transfer in either way, also when nobody waits for it any more |
| `SetClock` | the wall clock, which may be set back |
| `CrashRestart` | the process stops anywhere and a new one runs `load_all` |

Abstractions. Amounts and limits are the numbers `parse_amount` reads from their
text, `Malformed` when it reads none; the text "0" is the limit 0, which the gate
takes for "not set". (A limit whose text is another zero, such as "0.0", counts as
set in the code; the model has no such text.) Recipients, program ids and messages
do not matter to any property. Identities made by `make_id` are fresh, across
restarts too. `Save` writes the file, or leaves the old content, or leaves a file
that reads as empty, and the caller goes on in each case. Other writers of the
same files are not part of this module: tasks are the subject of `AgentTasks`, and the
keys that `agent_card`, `agent_discover` and the messaging skills write do not concern the
limits.

### `ApprovalPromise` — what the owner is promised

A small abstract specification: each proposal stands at "none",
"pending_approval", "approved", "executed" or "rejected" and moves only forward;
the wallet is handed one transfer for it at most, and only while it stands approved.
It knows nothing of calls, files, crashes or the wallet. `AgentSpending` implements it
under the mapping `standing` = the status in the table in memory, `paid` = the
transfers made for each proposal (`KeepsPromise`). That a crash is a stuttering step
is the point: what is in memory is always also in the file when it matters.

### `StorageLabels` — uploads and their labels

Two threads share `cid_labels`. The RPC thread (`rpc`) runs `storage_upload`:
subscribe, call `uploadUrl`, record the label under the session, save the map, poll
for the content address. The event thread (`handler`) runs the
`storageUploadDone` handler: record the content address, put the label under it,
erase the pending entry, save. `storage_mu` protects the map (`LockFree`), but the
RPC thread copies it to the file without the lock: `CopyLabels` reads the part of
the pending entries and the part of the named ones in either order, with the
handler's steps between, and `WriteCopy` writes what it read. `uploads` is the
storage module (external), `asked` and `reply` remember what each call wanted and
got, and `raced` that the handler changed the map while the RPC thread was saving
it. A reply of `uploadUrl` may be an error or lost, with the upload running or not;
the agent then goes on under a session of its own. That the unlocked iteration may
bring the process down is the action `CrashRestart`.

### `AgentTasks` — tasks for other agents

`agent_task` sends the request, pays, and puts the task in the table, in this order;
`agent_subscribe` subscribes to the topic of a task and then remembers it; `agent_cancel`
tells the peer, unsubscribes, forgets the topic and marks the task. `call` goes through
the stages

    request -> (gate -> pay -> await ->) save          agent_task
    topic -> remember                                  agent_subscribe
    notify -> (unsubscribe -> forget ->) mark          agent_cancel
    pay -> await -> finish                             approve_pending

`pending_proposals` has two parts, as in the code: the entries `"task_" + id` and the
proposals, of which only those that hold the payment of a task are in this model.
`saved_pending` is its file; `config` and `saved_config` are the two kinds of keys that
matter here. The peer (`requests`, `cancels`), the delivery module (`topics`) and the
wallet (`payments`) are external. The gate is one step, `PassGate` or `HoldPayment`: what
decides between them, and the bypass of `approve_pending`, are the subject of
`AgentSpending`, whose transfers `Pay` and `EndPayment` are seen here by task. Faults are
of four kinds: the process crashes, a call of another module throws (having taken effect
or not), it fails without throwing and nobody looks, a write fails.

What ties a payment to its task in the model, the index, is more than the code has: the
proposal that holds it keeps no `task_id`. `RejectTask` is `reject_pending` called with the
key of a task, which it takes like any proposal. `ConfigureConvo` is the only way in which
a `convo_` key is ever written.

### `TaskPromise` — what the caller of `agent_task` is promised

The abstract specification of a task: it is requested, paid for with one transfer at most and
only after its request, put in the table once and only after its request, with a hash only when a
transfer for it has settled, and then closed there, its hash unchanged. `AgentTasks` implements it
(`KeepsTaskPromise`) with `requested` = what reached the peer, `paid` and `settled` = the transfers
by task, `entry` = the part of the table in memory that holds tasks. The calls with their stages,
the gate, the held payments, the files and the crashes are what it leaves out: a payment by the
owner's approval and one by `agent_task` are the same `Pay`. Nobody looks at a refusal of another
module or at a failed write, and the promise says what each of them costs: after the first refusal
(`refused`) a task may be paid for and reported without its request; after the first failed write
(`unsaved`) it may be paid for again, with another transfer, and a crash may bring back an earlier
table (`Forget`), but none with a task that was not there or with another hash.

### `WalletHome` — the wallet core on its home directory

Processes of two kinds share a home directory: those that hold the wallet module, and `lez`
commands. Each is in one `call` at a time, with a passphrase of its own (the Qt module has
"agent" fixed in its code). A function of `provider.rs` is a sequence of stages, `Plan`; a
stage reads or writes one file, checks the input or asks the sequencer. The writing ones are

    exists -> init -> touch -> save -> print -> store      ensure_account, the first time
    exists -> keystore                                     ensure_account, later
    open -> tip -> blocks -> store                         sync_private

| Action | Code |
| --- | --- |
| `Begin`, `Reply` | an exported function of `ffi.rs` or a `lez` command; its result or error |
| `EnsureAccount`, `NewInitStorage`, `PrintMnemonic` | the branches of `ensure_account` |
| `TouchKeystore`, `SaveKeystore` | `keystore::save`: `fs::write` empties the file, then fills it |
| `Store` | `store_persistent_data` of WalletCore |
| `AccountFromStorage`, `PublicAccountId`, `AccountIdFromKeystore`, `OpenWallet` | the reads that functions begin with |
| `CheckInput`, `CheckRecipient`, `Ask` | amounts, keys, programs; what the sequencer answers |
| `Kill` | a process ends in the middle; a file being written may be lost |

Cryptography is ideal: a keystore opens under its passphrase and no other. The two
derivations of an account from a mnemonic are the functions `KeystoreAccount` (keys.rs) and
`WalletAccount` (WalletCore, external), which do not meet: `ensure_account` announces the
first, `npk`, `vpk` and transfers use the second, and so `send`, which compares its recipient
with the second, never accepts what `ensure_account` announced. Where WalletCore puts accounts
in its file is external; the functions look in two places, so both are members of `Layout`.
Every file is read as a whole and `storage` is written as a whole or torn. How an error is
worded does not matter here, nor how `lez` prints it.

### `AgentUp` — bringing an agent up

A run of the command goes through the stages of `Plan`: it checks the directory, spawns a
daemon, waits for it, loads the modules, waits for the agent and sets four keys. `daemon` says
what has become of the daemon of each run; `loaded`, `inbox` and `conf` belong to logoscore and
the agent module (external): one daemon serves at a time, calls are handled in the order they
come, also those that nobody waits for any more. `CallExpr` is what becomes of a value on its
way through the call expression, which is put together and split again at every comma, and
through logoscore, which takes an argument that is a JSON value for that value:

| Form of the value | What arrives |
| --- | --- |
| `number`: digits, '.' and '-' only, which `main.rs` puts in quotes again | the same text |
| `text`: no JSON value, no comma, no control character | the same text |
| `literal`: any other JSON value that is no string, such as 1e3, true or null | no string: the module refuses the call |
| `quoted`: a JSON string, quotes and all | the text without its quotes |
| `control`: with control characters | them escaped |
| `comma`: with a comma inside | two arguments: the module refuses the call |
| `edge`: with a comma at either end | nothing: a lone quote is left, on which `main.rs` panics |

A refusal ends the run, or goes `unseen`: `main.rs` looks for an exit status and for an
"error" in an object and goes on when there is neither.
`MetaConfigure` sends a call, `HandleConfigure` carries it out, `CallFails` gives it up. `era`
numbers the configurations, so that a value can be told from the same value of another run.

### `Discovery` — agent cards, peers and topics

Two threads again. The RPC thread runs one skill at a time in the stages of `Plan`:

    subscribe -> listen -> npk -> vpk -> cache -> sign -> send -> last   agent_discover
                           npk -> vpk -> cache -> sign                   agent_card
    subscribe -> record                                messaging_join, messaging_create_group
    set                                                meta_configure

`agent_discover` skips the first two as soon as a handler is registered (`my_topic`), whatever
topic it is called for. The event thread takes one message at a time in two steps, as in the
code: `CheckCard` compares the topic and the sender with the configuration, without a lock, and
`KeepCard` puts the card into `peers` under one. `Changing` names the stages in which the RPC
thread may be inserting a key meanwhile; a search of the map may then miss `agent_npk`. Not
finding it is the outcome the model gives to the race; that the process dies of it is
`CrashRestart`. A key of the wallet that could not be asked for leaves a card of
"npk_unavailable", or one under the right name that is not in the configuration. The wallet,
the relay and the other agents are external; the relay delivers in any order, once or never,
and a subscription may be refused in an answer that nobody looks at.

### `MCAgentSpending`, `MCStorageLabels`, `MCAgentTasks`, `MCWalletHome`, `MCAgentUp`, `MCDiscovery`

Give the constants small values.

### Modules of proofs

`AgentSpendingProofs`, `AgentSpendingLimitsProofs`, `StorageLabelsProofs`,
`AgentTasksProofs`, `WalletHomeProofs`, `AgentUpProofs`, `AgentUpOrderProofs`,
`DiscoveryProofs`: the theorems, see section 4.

Operators whose comment begins with "A slip" are not part of the specification:
they are plausible mistakes in the code they stand beside, and each property is
shown to fail when one of them takes the place of the real definition.

## 3. The runs

Each passing property has a mutant in `PROJECT.json`: the specification with one
definition replaced by a slip, in which TLC finds the property violated.

### `crash` — the spending core with crashes and late replies

`wallet_send_to` and `program_call` with amounts 1 and 3 and a malformed one, limits
unset or 2, a period of one tick of a clock that reads 1 or 2, two proposals, two
transfers, one crash, one late reply. With a limit of 2 an amount of 1 passes until the
window is full and an amount of 3 is always held. Two proposals and two transfers are
what a second payment of a proposal, a payment of the wrong one, and a window filled by
two spends need; the crash and the late reply come at every point, also the two of them
together. Writes succeed here (section 5 says why).

- `AtMostOncePaid`, `PaidAsApproved`: no transfer is made twice for one proposal, and
  every one made for a proposal is what the proposal says and was approved.
- `SpendCovered`: `period_spent` plus what the call in progress has yet to record is at
  least the value handed to the wallet in this window, less one transfer for each crash
  or late reply. The allowance is the honest one: a crash between `transfer` and
  `record_spend` loses a spend, and so does a reply that comes after the RPC window.
- `AutonomousWithinLimits`: what an autonomous spend hands over keeps both limits, up to
  the same allowance, when it is made and for as long as its call goes on.
- `ExposureIsWindowTotal`: the history variable behind the last two is what it is said
  to be, the sum of the transfers made in the current window and not refused, however the
  clock is set.
- `ProposalLifecycle`, `KeepsPromise`: proposals keep their content and move only
  forward; `AgentSpending` implements `ApprovalPromise`.

### `live` — liveness, with failing writes

`wallet_send` and `program_deploy`, no crash, one write that fails, one late reply, a
`period_seconds` that cannot be read. Fairness: `WF(AgentStep)`, since the RPC thread
does not abandon a call and each of its steps ends, and `WF(WalletStep)`, since the
wallet module ends every transfer in one of two ways. No fairness on callers, the owner,
the clock, crashes or timeouts; in particular no call relies on a timeout to return.

- `ApprovedIsExecuted`: an approved proposal is executed. With a crash this is false, and
  the code has no way to resume it: the proposal stays "approved" until it is rejected.
- `GateRestored`: the limits in force are the configured ones except during the one
  approved call, however it ends.
- `RejectedNeverPaid`: without crashes, nothing settles for a rejected proposal. With a
  crash in the middle of an approval the proposal stays "approved" with its transfer at the
  wallet, and `reject_pending` takes it.

### `labels` — uploads, labels and the two threads

Two contents and two labels, so that two files may have the same content and different
labels; three sessions, one crash, one write that fails. A call whose reply is lost uses
two sessions (the storage module's and its own), the others one, so that there are
behaviours of two and of three sessions. Deadlock is not checked: nobody has to call
again, and session ids run out. Fairness: both threads go on and an upload ends; there is
no fairness on calls and crashes. `Poll` and `GiveUp` are both steps of the RPC thread:
which of them comes depends on how long the storage module takes.

- `StoredIsTrue`: the content address returned is that of the file of this very call,
  and its upload has ended.
- `LabelsAreTrue`: a label stands on a content, in memory or in the file, only if some
  finished upload gave it that label, torn copies and crashes included.
- `SavedUnlessRaced`: when both threads are at rest the file holds the map, unless a write
  failed or the handler changed the map during the RPC thread's unlocked copy. The
  exception is the hazard of `save_cid_map`: the copy may be written over a newer one.
- `LabelsAreKept`: a step other than a crash never loses the label of an upload.
- `UploadReturns`, `LabelIsResolved`: `storage_upload` returns, and a label recorded
  while the upload was running ends under its content address.

### `tasks` — a task for another agent

One task, two transfers, three faults of any kind, in one after the other or all in the
same call. One task is enough here: each action reads and writes what is indexed by its own
task, calls do not overlap, and two tasks meet only in that the table is written as a
whole. A second transfer is what a second payment of the task needs. (Two tasks with one
fault, 2.0 million states, give the same results, and section 4 proves the safety properties
for any number of tasks.) Fairness as in `live`.

- `TaskPaidOnce`: a task is paid for once at most, whether by `agent_task` or through the
  owner's approval of the held payment, when the data directory can be written.
- `PaidWasRequested`: the peer is paid only for a request it received, unless the chat
  module refused something without throwing, which `agent_task` does not notice.
- `HashIsTrue`: a task with a `pay_tx_hash` has a settled transfer, in memory and on file.
- `SubmittedIsOnFile`: a task reported as submitted is on file, and its payment, if there
  is one, can be told from its hash or from the proposal that held it, or was refused.
- `TopicsAreRemembered`: what is subscribed and what the configuration remembers agree,
  but for the task a call is dealing with and for what a fault leaves behind.
- `KeepsTaskPromise`: requests, transfers and table together implement `TaskPromise`, before any
  fault, and after a refusal or a failed write as far as the promise goes then. A task that is
  in the table never leaves it, for one, and is never submitted again.
- `CallReturns`: every call returns.

### `wallet` — two processes on one home directory

The wallet module and one `lez` process with the operator's passphrase, each making any call
at any time; two mnemonics, so that a second account could come about; one block, so that a
sync changes something; one kill or failed write. Any two functions overlap stage by stage
(1.3 million states, the two mnemonics being symmetric). A second fault adds nothing that
matters to these properties, as the theorems of section 4 show for any number of processes
and faults.

- `AddressRecoverable`: keys that `npk` or `vpk` return belong to a mnemonic that was printed
  before. It rests on the order of `print` and `store`.
- `AnnouncedWasSealed`: `ensure_account` returns the account of a keystore that was
  completely written under the caller's own passphrase.
- `OneWallet`: the two files never belong to different mnemonics, unless two updating calls
  overlapped. (`raced`: the code takes no lock on the directory, and two first calls of
  `ensure_account` at once do mix two mnemonics.)
- `ReturnedIsOnDisk`: what a successful first `ensure_account` or `sync_private` computed is
  on disk, with the same exception.
- `AccountStands`: an announced account's keystore never changes again, whatever passphrase
  the next caller has, with the same exception.

### `up` — runs of the agent command

Two runs, of any of the six commands and side by side or one after the other; the agent module
and one that it depends on; options that are plain, or some of which have one of the other forms
(an owner with a comma and a limit that is another JSON value, a limit in quotes and a period
with a control character, a period that ends in a comma); one interrupt, ended daemon or failed
load (2.0 million states). Two runs are what a late call of another run and a daemon of another
run need. Deadlock is not checked: all runs may be over.

- `ConfiguredAsGiven`: a run that has said "Configuration complete" and is the latest leaves
  its own values behind, as far as they are `number` or `text`: neither a call that an earlier
  run gave up nor a daemon that ends takes one back. The other forms arrive changed or are
  refused: it claims of all four keys, in whichever form they arrived, that they are of this
  configuration unless the refusal of one went unseen.
- `OwnerFirst`: wherever a configuration ends half-way, no limit is newer than the owner it
  was meant for, unless configurations overlapped or a refusal was taken for an answer
  (`unseen`).
- `AgentLast`: the agent module is loaded only when every other module of the directory is,
  unless a warning said so or a daemon has ended.

### `discovery` — cards and topics

Two topics, of which one is also joined and the one first discovered decides what is listened
to; a new group; two other agents, which differ in name only (symmetry), and a map of peers
that is full with one name, so that both a known and an unknown name come when it is full; two
cards of others, beside the agent's own; two calls of `agent_discover`; one fault: a crash, an
exception, a lost message, a refused subscription or a failed write (5.4 million states).

- `OwnCardSkipped`: the agent is not among its peers, crashes included, unless a call of the
  wallet threw or a write failed (`lapsed`) or the handler's unlocked read met a change of the
  configuration (`raced`). It rests on the name being saved before a card is sent.
- `PeersAreCurrent`: between messages the map holds, under every name, the last card that came
  under it, however long it has been full; only names that came when it was full, and the
  agent's own, are missing.
- `SubscriptionsStand`: what the agent listens to, and the groups it remembers, in memory and
  on file, are topics that its node is subscribed to, unless a subscription was refused.

### Runs that end in a violation

Five places where the code does not do what its comments say:

- `double` (`SpentWasPaid`): an approved transfer is recorded by the skill and again by
  `approve_pending`, so that `period_spent` exceeds what was spent and later spends are
  held too early.
- `replay` (`ApprovedCallReplayed`): an approved `program_call` is executed with an empty
  instruction, parameters `{}` and so amount 0, since nothing saved them.
- `remap` (`RemappedWhenComplete`): when `storageUploadDone` comes before `storage_upload`
  records the label, the label stays under the session.
- `usable` (`EnsuredIsUsable`): a process that ends between the two files of the first
  `ensure_account` leaves a keystore without a wallet; every later `ensure_account` succeeds,
  and every other function fails with the advice to run `ensure_account`.
- `identity` (`CardNamesAccount`): a card asked for before the wallet has an account keeps an
  error envelope as the agent's npk, for good.

## 4. The proofs

Where TLC looks at two proposals, processes or runs, the theorems hold for any number of them,
and of faults.

### `AgentSpending`

The theorems hold for any number of proposals, transfers, crashes, timeouts, failed writes,
amounts and limits. The only assumption on the constants is `ConstantsAssumption` of
`AgentSpending` (amounts and limits are naturals or malformed, bounds are naturals, the default
period is positive), which TLC evaluates in every run. `Trusted` says of a state that no process
has restarted or no write has failed so far: what the agent knows of its proposals and its window
is what it did. Beyond that the code promises nothing (section 5). The two theorems marked (*) are
about steps and not states, and assume of the constants that writes succeed or nothing crashes.

| Theorem | Statement |
| --- | --- |
| `TypeCorrect` | `Spec => []TypeOK` |
| `NeverPaidTwice` | `Spec => [](Trusted => AtMostOncePaid)` |
| `PaidWhatWasApproved` | `Spec => [](Trusted => PaidAsApproved)` |
| `RejectedIsNeverPaid` | `Spec => [](crashes = 0 => RejectedNeverPaid)` |
| `SpendIsCovered` | `Spec => [](Trusted => SpendCovered)` |
| `LimitsAreKept` | `Spec => [](Trusted => AutonomousWithinLimits)` |
| `ExposureIsTheWindow` | `Spec => [](Trusted => ExposureIsWindowTotal)` |
| `GateIsRestored` | `Spec => []GateRestored` |
| `ProposalsMoveForward` (*) | `Spec => ProposalLifecycle` |
| `PromiseKept` (*) | `Spec => KeepsPromise` |

**Types.** `TypeOK` is not inductive: that an amount fits the type of a payment, or an
identity is in range, was decided when the call entered the gate. `TypeInv` adds
`CallBounds`, what each stage of the call knows, and `AmountBounds`, that a held transfer
is no larger than `MaxAmount`, in memory and in the file. The interesting case is a
malformed amount: the gate holds it even under zeroed limits, which is why a payment's
amount is a natural.

**Approval.** `HeldInv` adds to the two properties two facts. `FreshIds`: identities not yet
given out belong to nothing. `Executing`: while a call runs for a proposal, the proposal is
approved, with the kind and amount the call carries, and there is no transfer for it until the
call itself makes one. Together they make `ApprovePending` the only way into an execution, and
it takes a proposal out of "pending_approval" before anything is paid. `HeldInv` survives every
step but a crash on its own; a crash also needs `Durable`, that the files hold what is in memory,
which is invariant until a first write fails. `TrustedInv` puts the two together: `Durable` as
long as no write failed, `HeldInv` as long as `Trusted`.

**Rejection.** `PaidIsClosed`: a proposal for which a transfer was made is executed, or its call is
still in progress. Nothing can be rejected during a call, and what is executed is not rejectable.
A crash leaves an approved proposal with a transfer and no call, which is why the theorem ends there.

**Limits.** `LimitsInv` joins `SpendCovered` and `AutonomousWithinLimits`, which need each
other, with `Kinded` (every call and proposal is of one of the four kinds; a deployment
carries no amount) and `Waiting` (the call that waits for the wallet waits for its own
transfer, made in the window that is still current: the window rolls only at the gate).
The step lemmas are linear arithmetic in `exposure`, `period_spent` and one opaque term,
`Faults * MaxAmount`, which `SlackStep` shows to grow by one transfer with each fault.

**The window.** `NoLaterWindow`: no transfer was made in a window later than the current one. A
window that begins is strictly later than the last, because the gate rolls it only when the clock
is ahead of its start, so nothing is in it yet. `Total` is a recursive function, and what it does is
shown by induction: the library's induction theorems take an operator, but its `WFMin` does not, and
from the least number outside a set of numbers `InductionOverSet` follows. With it `SumsExist` (the
function is defined), `TotalOfNothing` and `TotalOfOneMore` (one summand changes by d, and so does the
total), which is what a transfer, a refusal and a roll need.

**The gate.** `Bypass` says which stages run with zeroed limits and that the call keeps
the configured ones aside; no other action changes `limits` without `config`.

**The promise.** Every change of the table is an entry or a move along `Edges`
(`TableStep`); from this follow `ProposalLifecycle` and, with `SubmitPays` (a transfer for
a proposal is made while it stands approved and was never paid), the refinement: an
initial state maps to an initial state, each step to a step of `ApprovalPromise` or to
none.

### `StorageLabels`

For any files, labels, uploads, crashes and failed writes, and any interleaving of the two threads,
from `StorageAssumption` alone (the marks `NoCid` and `NoLabel` are no content and no label).

| Theorem | Statement |
| --- | --- |
| `StorageTypeCorrect` | `Spec => []TypeOK` |
| `StoredMeansStored` | `Spec => []StoredIsTrue` |
| `LabelsTellTheTruth` | `Spec => []LabelsAreTrue` |
| `LabelsSurviveTheMove` | `Spec => LabelsAreKept` |
| `TheFileIsTheMap` | `Spec => []SavedUnlessRaced` |

`Typed` adds to `TypeOK` that a call under way has the session given out last (`CallBounds`) and
that a session not given out is nobody's (`Fresh`). `UploadsAsAsked`: an upload is of the file asked
for under its session, a cid in memory is that of an upload that was told, and the handler holds one
that was. `MapsAreTrue`: the map in memory, the map in the file and the copy on its way there each hold
only labels that were asked for, the copy too when it is torn, since each of its parts was true when it
was copied. `NamedBeforeErased`: between the handler's two steps the label stands under the content as
well. `CopyIsCurrent`: as long as the handler has not come between, what the RPC thread has copied is
what the map still is; this is exactly what `raced` takes away.

### `AgentTasks`

For any number of tasks, transfers and faults of each kind, from `TasksAssumption` alone (the
bounds are naturals). Every safety property of the `tasks` run is proved.

| Theorem | Statement |
| --- | --- |
| `TasksTypeCorrect` | `Spec => []TypeOK` |
| `HashesAreTrue` | `Spec => []HashIsTrue` |
| `PaidOnlyRequested` | `Spec => []PaidWasRequested` |
| `PaidOnce` | `Spec => []TaskPaidOnce` |
| `SubmittedStaysOnFile` | `Spec => []SubmittedIsOnFile` |
| `TasksKeepToLifecycle` | `Spec => TaskLifecycle` |
| `TopicsStayRemembered` | `Spec => []TopicsAreRemembered` |
| `TaskPromiseKept` | `Spec => KeepsTaskPromise` |

`Typed` adds to `TypeOK` what a stage knows of its call (`CallBounds`) and that nothing is known
of a task without an identity (`Fresh`); only with it are the identities of approved payments
those of tasks. `Stepping` then shows each step to be a `Step`, which says of the call, the table
and the transfers what the other invariants need:

- `Transfers` and `Hashes`: the transfer that a call waits for is of its own task and stays what
  it has ended as, so a hash in the call, and then in the table, is that of a settled transfer.
- `AsRequested`: a call past its request, and a payment that is held or was, is of
  a task whose request went out. The request comes before the gate, and an approval finds only
  what was held.
- `Once`: the file is the table; a payment that waits for the owner was never made; a call that is
  about to pay has no transfer yet and no payment waiting. This is why a crash between the payment
  and the save of the task, after which nothing is on file, cannot lead to a second payment.
- `OnFile`: a task that `agent_task` is dealing with is not in the table yet, a call of the owner's
  has a held payment, and what reaches the table without a hash is accounted for (`Accounted`).
- `Remembered`, for steps without a fault (`TopicStep`): a topic is subscribed before it is
  remembered and unsubscribed before it is forgotten.

**The promise.** `PromiseInv` joins these, but for the last two, with `Behind`: the file has no task that
the table has not, and `agent_task` has not put its own there yet, whatever is written badly. Every
step maps to a step of `TaskPromise` or to none: `RequestSteps` (only a request changes what the peer
knows), `TransferPays` (a transfer is new, and the first for a task that was requested, by `Once` and
`AsRequested`), `EndSettles` (the end of a transfer changes the settled tasks by its own task, or not
at all), `EntryProgress` (what enters the table was requested and was not there, by `Behind`, with the
hash of a settled transfer, by `Hashes`; what is there is only closed), `CrashForgets` (the file is the
table, or a write has failed and it is an earlier one). For this `AsRequested` covers the call up to
the report, also when there is nothing to pay.

`TaskLifecycle`, stated with its proof, is one consequence of the promise said directly: a task that is in
the table never leaves it, is never submitted again and keeps its hash, while no write fails. No run checks
it, since `KeepsTaskPromise` does.

### `WalletHome`

For any processes, passphrases, mnemonics, blocks and faults, from `WalletAssumption` alone
(a mnemonic is not one of the marks `None`, "missing" or "torn").

| Theorem | Statement |
| --- | --- |
| `WalletTypeCorrect` | `Spec => []TypeOK` |
| `WalletAddressRecoverable` | `Spec => []AddressRecoverable` |
| `WalletAnnouncedWasSealed` | `Spec => []AnnouncedWasSealed` |
| `WalletOneWallet` | `Spec => []OneWallet` |
| `WalletReturnedIsOnDisk` | `Spec => []ReturnedIsOnDisk` |
| `WalletAccountStands` | `Spec => AccountStands` |

`Typed` adds to `TypeOK` which parts of a call are filled at which stage. `Known` says that
what is in a file, and what a call has read or is about to write, was printed or sealed before;
it is inductive although calls overlap freely. The other three need `Undisturbed`, which holds
as long as `raced` does not: at most one call updates the files, and it finds them as its stage has
read or left them; as long as there is no keystore, there is no wallet storage and nobody has
seen an account.

### `AgentUp`

For any number of runs, any modules, options and faults, from `UpAssumption` alone.

| Theorem | Statement |
| --- | --- |
| `UpTypeCorrect` | `Spec => []TypeOK` |
| `UpAgentLast` | `Spec => []AgentLast` |
| `UpConfiguredAsGiven` | `Spec => []ConfiguredAsGiven` |
| `UpOwnerFirst` | `Spec => []OwnerFirst` |

Each step is shown to be one of a few kinds (a run goes on, fails, begins a configuration,
sends a call, has one answered), and the invariants are then proved kind by kind. `Tried`: a
run that loads has tried all that it has not still to load. `Queue`: each call under way is of
the run that waits for it or of one that gave up; configurations have numbers of their own.
`Order`: if no configurations overlapped, calls wait in the order of their configurations, and
what a run has set is there, as `CallExpr` lets it arrive, and no call still under way can take it
back (`IsSet`); what a run has passed over without setting it was refused, and the refusal not
seen (`Heeded`). `Arrival` shows which forms arrive, and that `number` and `text` do so unchanged.
`Owner`: no key that is set, and none under way, is newer than the owner that is set or under way
before it.

### `Discovery`

For any topics, groups, agents and cards, from `DiscoveryAssumption` alone (among others, that the mark
`None` is no name, no topic and no card).

| Theorem | Statement |
| --- | --- |
| `DiscoveryTypeCorrect` | `Spec => []TypeOK` |
| `SubscriptionsHold` | `Spec => []SubscriptionsStand` |
| `PeersStayCurrent` | `Spec => []PeersAreCurrent` |
| `AgentSkipsItself` | `Spec => []OwnCardSkipped` |

A skill is a plan of stages, in which `Go` looks up the one that follows; the lemmas from `GoesOn` to
`PlanMoves` show what that is for each stage, and `InPlan` says which stages each skill has. `Typed` adds to `TypeOK` this and that the map of peers is finite.

- `Subscribed`: a topic is about to be listened to, or remembered, only after the node was
  subscribed to it.
- `PeersInv`: a handler is registered once in the life of a process, and before it nothing was
  heard (`ListensOnce`); cards name whose they are (`TrueCards`); a name once known stands
  (`NameStands`); and the map is current but for the one card in the handler's hands, which is the last
  heard under its name (`UpToDate`). That the limit of the map is compared with the number of its
  names takes the theorems on finite sets.
- `OwnInv`: while the wallet answers and writes succeed, one name is published, and it is the one in
  the configuration and in its file (`OneName`), so that a new process skips it too; without the race
  the handler keeps no card of the agent's own (`NotOwn`).

## 5. What is only model-checked, and what is not modelled

Only checked by TLC: liveness (`ApprovedIsExecuted`, `UploadReturns`, `LabelIsResolved`,
`CallReturns` of `AgentTasks`), which needs fairness and ENABLED. Every invariant and every
action property of the runs that pass is a theorem. No liveness is stated for `WalletHome`,
`AgentUp` and `Discovery`: the waits of the command line and of the sequencer's client end by
their own time limits, whatever happens, and that a card arrives is nothing the agent can do
anything about.

What a failed write costs: with `MaxSaveFailures > 0` and a crash, an approval can be
forgotten and given again, and a spend or a limit forgotten; the code does not notice that
a write failed, and no document says what should happen then, so no property of the
project claims anything about it beyond the type and the gate.

Behaviour that is in the models, and that no property speaks of:

- A limit of "0" lets every amount through; the gate takes it for "not set", where the comment at
  line 394 has it mean "never".
- `agent_task` sends its request before the owner has approved the payment
  (`SendRequest` and `HoldPayment` of `AgentTasks`; compare `docs/A2A_BINDING.md:198-201`).
- `agent_cancel` reports a task as canceled without telling the peer, since no code ever
  writes the `convo_` key under which it looks (`ConfigureConvo`; compare
  `docs/A2A_BINDING.md:123`).
- `agent_discover` on a second topic neither subscribes to it nor listens to it, and says
  "subscribed_and_published" (`Skips` of `Discovery`; compare `docs/A2A_BINDING.md:103`).
- A limit such as 1e3, which `parse_amount` would read, is refused by the module as a JSON number,
  and the command may yet call the configuration complete (`unseen`). Whether `period_seconds`
  keeps its quotes, which `stoll` does not take, is up to logoscore: `AgentSpending` has a period
  that cannot be read.
- After a crash a proposal may stay "approved", with its transfer at the wallet: it is never
  executed, and `reject_pending` takes it (`RejectedNeverPaid` and `ApprovedIsExecuted` are
  checked without crashes).
- `agent_task` pays for a request that the chat module refused without throwing (`Refuse`), and
  a crash may forget a task that is paid for; `agent_cancel` leaves a held payment approvable.
- A throw or a crash in the middle of `agent_cancel` leaves a topic subscribed.
- A keystore torn before the first account was announced is never replaced.
- `joined_groups` and `last_discover_topic` are never read back, so nothing is subscribed anew
  by a new process.
- A module that fails to load is a warning of the command line, which says "All modules
  loaded." all the same; a run that fails leaves the daemon it has started.

Not modelled, and why:

- `storage_list`, `storage_download`, `storage_share`, `wallet_balance`, `wallet_history`,
  `program_query`, `messaging_send`, `meta_skills`, `meta_status`: they change no state of the
  agent. (`storage_list` reads the labels while the event thread changes them; what comes of
  it is an answer, or a crash, which is `CrashRestart`.)
- Signatures of agent cards, encryption of messages, key derivation: cryptography, ideal
  where the models need it.
- WalletCore, the sequencer, logoscore, the storage, chat and delivery modules: external,
  modelled by what the code relies on.
- Text: the wording of results, errors and events, among them `error_result`, which does not
  escape line breaks, and texts of numbers other than those `parse_amount` reads as a finite
  number. ("inf" and "nan" are hazards in the list.)
- The Basecamp owner app is presentation: its approve and reject are `ApprovePending` and
  `RejectPending`. The vendored signature code, the interfaces and the build scaffolding have
  no state.

## 6. Plan

In this order, the most important behaviour first.

1. *Done:* `AgentSpending` with `ApprovalPromise`, `StorageLabels`, `AgentTasks` with `TaskPromise`,
   `WalletHome`, `AgentUp` and `Discovery`, checked and, but for liveness, proved.
2. Properties for the hazards that none covers yet: a limit of 0, a spend that is not finite, the
   conversation `agent_task` does not remember, a request before its approval, a second topic, the
   text of an error.
3. An abstract specification of the upload labels that `StorageLabels` implements, as the two
   promises are for proposals and tasks.
