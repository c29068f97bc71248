------------------------------- MODULE AgentUp -------------------------------
(***************************************************************************)
(* The agent command line (agent-cli): `agent deploy`, `configure`, `fund`,*)
(* `status`, and `up`, which does the first three in one run.              *)
(*                                                                         *)
(* A run starts the logoscore daemon, waits for it, has it load the        *)
(* modules of a directory, waits for the agent module and sets four keys   *)
(* of its configuration.  Everything else goes through short-lived calls   *)
(* of logoscore, each of which may fail.  Several shells may run it, a run *)
(* may end anywhere, and so may the daemon.                                *)
(*                                                                         *)
(* Of logoscore, which is external: one daemon serves at a time, a module  *)
(* takes its calls in the order they come, and a call that nobody waits    *)
(* for any more is still carried out.                                      *)
(***************************************************************************)
EXTENDS Naturals, Sequences

CONSTANTS
  MaxRuns,       \* bound: runs of the command
  Dir,           \* the modules in the modules directory
  Values,        \* bound: what the four options may be in a run, [Keys -> Forms]
  MaxFaults      \* bound: interrupts, dead daemons and failed loads together

Runs == 1..MaxRuns
Keys == {"owner_address", "per_tx_limit", "per_period_limit", "period_seconds"}

\* What the text of an option may look like: digits, '.' and '-' only ("number"); any other
\* JSON value that is no string, such as 1e3, true or null ("literal"); a JSON string, quotes
\* and all ("quoted"); with control characters; with commas inside; with commas that leave a
\* quote on its own, as one at an end does ("edge"); or else, text that is no JSON value and
\* no flag of logoscore.
Forms == {"text", "number", "literal", "quoted", "control", "comma", "edge"}

ASSUME UpAssumption ==
  /\ MaxRuns \in Nat /\ MaxFaults \in Nat
  /\ Values \subseteq [Keys -> Forms]

\* The order in which configure sets the keys.
LimitsFirstPairs == <<"per_tx_limit", "per_period_limit", "period_seconds", "owner_address">>
Pairs == <<"owner_address", "per_tx_limit", "per_period_limit", "period_seconds">>

\* The stages of a run.
Plan ==
  [deploy |-> <<"dir", "spawn", "ready", "read", "load", "agent", "keep">>,
   deploy_detach |-> <<"dir", "spawn", "ready", "read", "load", "agent">>,
   configure |-> <<"pairs", "set">>,
   fund |-> <<"dir", "fund">>,
   status |-> <<"dir", "status">>,
   up |-> <<"dir", "spawn", "ready", "read", "load", "agent", "pairs", "set">>,
   up_fund |-> <<"dir", "spawn", "ready", "read", "load", "agent", "pairs", "set", "dir", "fund">>]

\* A value is put into the call expression as a JSON string, and the expression is split at
\* every comma again and each part freed of its quotes: a comma makes two arguments, a lone
\* quote is one on which the slicing panics, an escaped control character stays escaped.
\* logoscore takes an argument that is a JSON value for that value, and meta_configure takes
\* strings only.  So a number gets its quotes back, and arrives as that text (whether with the
\* quotes is logoscore's, and parse_amount reads both); every other JSON value goes as it is,
\* and is no string, or one without the quotes that it had.
\* Slips: a number does not get its quotes back; the rest of a value with a comma is dropped.
UntypedCallExpr ==
  [text |-> <<"same">>, number |-> <<"no string">>, literal |-> <<"no string">>,
   quoted |-> <<"unquoted">>, control |-> <<"escaped">>, comma |-> <<"part", "part">>, edge |-> <<>>]
CutCallExpr ==
  [text |-> <<"same">>, number |-> <<"same">>, literal |-> <<"no string">>,
   quoted |-> <<"unquoted">>, control |-> <<"escaped">>, comma |-> <<"part">>, edge |-> <<>>]
CallExpr ==
  [text |-> <<"same">>, number |-> <<"same">>, literal |-> <<"no string">>,
   quoted |-> <<"unquoted">>, control |-> <<"escaped">>, comma |-> <<"part", "part">>, edge |-> <<>>]

Arriving == {"same", "escaped", "unquoted"}
Panics(form) == CallExpr[form] = <<>>
Accepted(form) == Len(CallExpr[form]) = 1 /\ CallExpr[form][1] # "no string"

Commands == [cmd : DOMAIN Plan \cup {"none"},
             pc : 1..11,
             out : {"running", "failed"},
             given : [Keys -> Forms],
             todo : SUBSET Dir,     \* modules that it has still to load
             pos : 1..5,            \* in Pairs; past the end they are all set
             call : {"none", "sent"},  \* of meta_configure; sent, it waits for the answer
             era : Nat]              \* which configuration it makes, from the first on

Stage(r) == IF r.cmd = "none" THEN "idle"
            ELSE IF r.out = "failed" \/ r.pc > Len(Plan[r.cmd]) THEN "end"
            ELSE Plan[r.cmd][r.pc]

VARIABLES
  cli,        \* the runs of the command, in the order they start
  daemon,     \* the daemon each run has started
  loaded,     \* the modules loaded into the daemon that serves
  inbox,      \* calls of meta_configure that the agent module has not handled yet
  conf,       \* the agent's configuration: of which era, and how it arrived (external)
  era,        \* configurations begun
  faults,
  warned,     \* history: modules that failed to load, or were lost with their daemon
  overlap,    \* history: two configurations overlapped
  unseen      \* history: the refusal of a malformed call was taken for an answer

hosts == <<daemon, loaded, warned>>
settings == <<inbox, conf, era, overlap, unseen>>
vars == <<cli, hosts, settings, faults>>

NoOptions == [k \in Keys |-> "text"]
NewRun(cmd, out) == [cmd |-> cmd, pc |-> 1, out |-> out, given |-> NoOptions, todo |-> {},
                     pos |-> 1, call |-> "none", era |-> 0]

Init ==
  /\ cli = [r \in Runs |-> NewRun("none", "running")]
  /\ daemon = [r \in Runs |-> "none"]
  /\ loaded = {} /\ warned = {}
  /\ inbox = <<>>
  /\ conf = [k \in Keys |-> [era |-> 0, as |-> "same"]]
  /\ era = 0
  /\ faults = 0
  /\ overlap = FALSE /\ unseen = FALSE

At(r, stage) == Stage(cli[r]) = stage
Set(r, new) == cli' = [cli EXCEPT ![r] = new]
Go(r) == Set(r, [cli[r] EXCEPT !.pc = @ + 1])
Fail(r) == Set(r, NewRun(cli[r].cmd, "failed"))

Fault == faults < MaxFaults /\ faults' = faults + 1

Serving == \E r \in Runs : daemon[r] = "running"
AgentUp == Serving /\ "agent_module" \in loaded

(***************************************************************************)
(* deploy.                                                                 *)
(***************************************************************************)

Start(r) ==
  /\ cli[r].cmd = "none"
  /\ \A s \in Runs : s < r => cli[s].cmd # "none"
  /\ \E cmd \in DOMAIN Plan : Set(r, NewRun(cmd, "running"))
  /\ UNCHANGED <<hosts, settings, faults>>

Canonicalize(r) ==
  /\ At(r, "dir")
  /\ Go(r) \/ Fail(r)
  /\ UNCHANGED <<hosts, settings, faults>>

SpawnDaemon(r) ==
  /\ At(r, "spawn")
  /\ \/ daemon' = [daemon EXCEPT ![r] = "starting"] /\ Go(r)
     \/ Fail(r) /\ UNCHANGED daemon
  /\ UNCHANGED <<loaded, warned, settings, faults>>

\* Any daemon that runs is good enough, the one of an earlier run as well.
WaitForCapability(r) ==
  /\ At(r, "ready")
  /\ Serving
  /\ Go(r)
  /\ UNCHANGED <<hosts, settings, faults>>

\* Both waits give up in the end; the daemon stays as it is.
Timeout(r) ==
  /\ At(r, "ready") \/ At(r, "agent")
  /\ Fail(r)
  /\ UNCHANGED <<hosts, settings, faults>>

ReadModulesDir(r) ==
  /\ At(r, "read")
  /\ Set(r, [cli[r] EXCEPT !.todo = Dir, !.pc = @ + 1]) \/ Fail(r)
  /\ UNCHANGED <<hosts, settings, faults>>

\* A slip: the modules are loaded as the directory lists them.
UnsortedNextModule(r) == cli[r].todo

\* The modules that the agent depends on first.
NextModule(r) ==
  IF cli[r].todo \subseteq {"agent_module"} THEN cli[r].todo ELSE cli[r].todo \ {"agent_module"}

\* A module that fails to load is a warning.
LoadModule(r) ==
  /\ At(r, "load")
  /\ \E n \in NextModule(r) :
       /\ Set(r, [cli[r] EXCEPT !.todo = @ \ {n}])
       /\ \/ /\ Serving
             /\ loaded' = loaded \cup {n}
             /\ warned' = warned \ {n}
             /\ UNCHANGED faults
          \/ /\ ~Serving
             /\ warned' = warned \cup {n}
             /\ UNCHANGED <<loaded, faults>>
          \/ /\ Fault
             /\ warned' = warned \cup {n}
             /\ loaded' \in IF Serving THEN {loaded, loaded \cup {n}} ELSE {loaded}
  /\ UNCHANGED <<daemon, settings>>

\* All are tried, or logoscore itself is not there.
ModulesTried(r) ==
  /\ At(r, "load")
  /\ \/ cli[r].todo = {} /\ Go(r)
     \/ cli[r].todo # {} /\ Fail(r)
  /\ UNCHANGED <<hosts, settings, faults>>

WaitForDaemon(r) ==
  /\ At(r, "agent")
  /\ AgentUp
  /\ Go(r)
  /\ UNCHANGED <<hosts, settings, faults>>

\* Without --detach the command ends with its daemon.
WaitForChild(r) ==
  /\ At(r, "keep")
  /\ daemon[r] = "gone"
  /\ Go(r) \/ Fail(r)
  /\ UNCHANGED <<hosts, settings, faults>>

(***************************************************************************)
(* configure, fund and status.                                             *)
(***************************************************************************)

BeginConfigure(r) ==
  /\ At(r, "pairs")
  /\ \/ /\ \E given \in Values :
             Set(r, [cli[r] EXCEPT !.pc = @ + 1, !.given = given, !.era = era + 1])
        /\ era' = era + 1
        /\ overlap' = (overlap \/ \E s \in Runs : At(s, "set"))
     \/ Fail(r) /\ UNCHANGED <<era, overlap>>
  /\ UNCHANGED <<hosts, inbox, conf, unseen, faults>>

Key(r) == Pairs[cli[r].pos]
Ready(r) == At(r, "set") /\ cli[r].call = "none" /\ cli[r].pos \in 1..4

\* One key: the call is under way, or it is refused where it should be handled.
MetaConfigure(r) ==
  /\ Ready(r)
  /\ LET form == cli[r].given[Key(r)] IN
     /\ ~Panics(form)
     /\ \/ /\ AgentUp /\ Accepted(form)
           /\ inbox' = Append(inbox, [run |-> r, key |-> Key(r), era |-> cli[r].era,
                                      as |-> CallExpr[form][1]])
           /\ Set(r, [cli[r] EXCEPT !.call = "sent"])
           /\ UNCHANGED unseen
        \/ Fail(r) /\ UNCHANGED <<inbox, unseen>>
        \/ /\ AgentUp /\ ~Accepted(form)    \* an answer that shows no "error"
           /\ Set(r, [cli[r] EXCEPT !.pos = @ + 1])
           /\ unseen' = TRUE
           /\ UNCHANGED inbox
  /\ UNCHANGED <<hosts, conf, era, overlap, faults>>

Panic(r) ==
  /\ \/ Ready(r) /\ Panics(cli[r].given[Key(r)])
     \/ At(r, "fund")
  /\ Fail(r)
  /\ UNCHANGED <<hosts, settings, faults>>

\* The caller gives up, or the daemon is gone; the call may still be handled.
CallFails(r) ==
  /\ cli[r].call = "sent"
  /\ Fail(r)
  /\ UNCHANGED <<hosts, settings, faults>>

\* "Configuration complete."
Configured(r) ==
  /\ At(r, "set") /\ cli[r].pos = 5
  /\ Go(r)
  /\ UNCHANGED <<hosts, settings, faults>>

\* A call that changes nothing; wallet_fund is a method that the wallet module lacks.
Call(r) ==
  /\ At(r, "status") \/ At(r, "fund")
  /\ Go(r) \/ Fail(r)
  /\ UNCHANGED <<hosts, settings, faults>>

\* An operator's interrupt.
Interrupt(r) ==
  /\ cli[r].cmd # "none" /\ ~At(r, "end")
  /\ Fault
  /\ Fail(r)
  /\ UNCHANGED <<hosts, settings>>

(***************************************************************************)
(* logoscore.                                                              *)
(***************************************************************************)

\* A daemon that finds another one serving ends.
DaemonStarts(r) ==
  /\ daemon[r] = "starting"
  /\ daemon' = [daemon EXCEPT ![r] = IF Serving THEN "gone" ELSE "running"]
  /\ UNCHANGED <<cli, loaded, warned, settings, faults>>

\* What it has loaded goes with it; the configuration is on disk.
DaemonDies(r) ==
  /\ daemon[r] \in {"starting", "running"}
  /\ Fault
  /\ daemon' = [daemon EXCEPT ![r] = "gone"]
  /\ IF daemon[r] = "running"
     THEN loaded' = {} /\ warned' = warned \cup loaded /\ inbox' = <<>>
     ELSE UNCHANGED <<loaded, warned, inbox>>
  /\ UNCHANGED <<cli, conf, era, overlap, unseen>>

\* meta_configure, which saves before it answers.
HandleConfigure ==
  /\ inbox # <<>>
  /\ LET e == Head(inbox) IN
     /\ conf' = [conf EXCEPT ![e.key] = [era |-> e.era, as |-> e.as]]
     /\ \/ /\ cli[e.run].call = "sent"
           /\ Set(e.run, [cli[e.run] EXCEPT !.call = "none", !.pos = @ + 1])
        \/ /\ cli[e.run].call # "sent"
           /\ UNCHANGED cli
  /\ inbox' = Tail(inbox)
  /\ UNCHANGED <<hosts, era, overlap, unseen, faults>>

Step(r) ==
  \/ Canonicalize(r) \/ SpawnDaemon(r) \/ WaitForCapability(r) \/ Timeout(r)
  \/ ReadModulesDir(r) \/ LoadModule(r) \/ ModulesTried(r) \/ WaitForDaemon(r) \/ WaitForChild(r)
  \/ BeginConfigure(r) \/ MetaConfigure(r) \/ Panic(r) \/ CallFails(r) \/ Configured(r) \/ Call(r)

Next ==
  \/ \E r \in Runs : Start(r) \/ Step(r) \/ Interrupt(r) \/ DaemonStarts(r) \/ DaemonDies(r)
  \/ HandleConfigure

Spec == Init /\ [][Next]_vars

(***************************************************************************)
(* Properties.                                                             *)
(***************************************************************************)

Pending == [run : Runs, key : Keys, era : Nat, as : Arriving]

\* Every variable keeps its type.
TypeOK ==
  /\ cli \in [Runs -> Commands]
  /\ daemon \in [Runs -> {"none", "starting", "running", "gone"}]
  /\ loaded \in SUBSET Dir
  /\ inbox \in Seq(Pending)
  /\ conf \in [Keys -> [era : Nat, as : Arriving]]
  /\ era \in Nat
  /\ faults \in 0..MaxFaults
  /\ warned \in SUBSET Dir
  /\ overlap \in BOOLEAN /\ unseen \in BOOLEAN

\* A run that has said "Configuration complete" leaves its own values behind: as they were
\* given, if they are numbers of digits, '.' and '-', or text that is no JSON value and has no
\* control characters and commas; and all four, in whichever form they arrived, unless the
\* refusal of one went unseen.  Neither a call that an earlier run gave up nor a daemon that
\* ends takes one back.
ConfiguredAsGiven ==
  \A r \in Runs :
    cli[r].pos = 5 /\ cli[r].out = "running" /\ cli[r].era = era /\ ~overlap =>
      \A k \in Keys :
        /\ cli[r].given[k] \in {"text", "number"} => conf[k] = [era |-> era, as |-> "same"]
        /\ ~unseen => conf[k].era = era

\* The owner is set first: wherever a configuration ends half-way, no limit is newer
\* than the owner it was meant for.
OwnerFirst ==
  ~overlap /\ ~unseen => \A k \in Keys : conf[k].era <= conf["owner_address"].era

\* The agent module starts only when all it depends on is there, unless a warning
\* said so or a daemon has ended.
AgentLast == "agent_module" \in loaded => Dir \subseteq loaded \cup warned
===============================================================================
