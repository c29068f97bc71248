------------------------- MODULE AgentUpOrderProofs -------------------------
(***************************************************************************)
(* Proofs about AgentUp: the agent module is loaded last, the owner is set *)
(* first, and what a run has set is there when it says so, for any number  *)
(* of runs, daemons, interrupts and calls given up.                        *)
(***************************************************************************)
EXTENDS AgentUpProofs

(***************************************************************************)
(* The order of loading.                                                   *)
(***************************************************************************)

\* A run has tried all the modules that it has not still to load.
Tried == \A r \in Runs : At(r, "load") => Dir \subseteq cli[r].todo \cup loaded \cup warned

\* No other step than reading the directory leads a run to "load".
LEMMA GoElsewhere ==
  ASSUME Typed, NEW r \in Runs, Stage(cli[r]) \notin {"idle", "end", "pairs", "read"},
         cli[r].call = "none", Go(r)
  PROVE  Alone(r) /\ Stage(cli'[r]) # "load"
<1> DEFINE new == [cli[r] EXCEPT !.pc = @ + 1]
<1>1. Set(r, new) /\ new \in {[cli[r] EXCEPT !.pc = @ + 1], [cli[r] EXCEPT !.todo = Dir, !.pc = @ + 1]}
  BY DEF Go
<1> HIDE DEF new
<1>2. cli' \in [Runs -> Commands] /\ Alone(r) /\ cli'[r].pc = cli[r].pc + 1
  BY <1>1, Going
<1>3. cli[r] \in Commands /\ cli[r].pc \in 1..10 /\ (cli[r].pc = 4 => Stage(cli[r]) = "read")
  BY StageOf DEF Typed, TypeOK
<1>4. cli'[r] \in Commands /\ cli'[r].pc # 5
  BY <1>2, <1>3
<1> QED
  BY <1>2, <1>4, StageOf

LEMMA Elsewhere ==
  ASSUME Typed, NEW r \in Runs,
         Start(r) \/ (Step(r) /\ ~ReadModulesDir(r) /\ ~LoadModule(r)) \/ Interrupt(r)
  PROVE  Alone(r) /\ Stage(cli'[r]) # "load"
<1>1. cli \in [Runs -> Commands] /\ cli[r] \in Commands /\ Sound(cli[r])
  BY DEF Typed, TypeOK
<1>2. ASSUME Fail(r), cli[r].cmd # "none"
      PROVE  Alone(r) /\ Stage(cli'[r]) # "load"
  BY <1>2, Failing DEF Quits
<1>3. CASE Start(r)
  BY <1>3, Starting DEF Starts
<1>4. CASE Canonicalize(r) \/ WaitForCapability(r) \/ Timeout(r)
           \/ ModulesTried(r) \/ WaitForDaemon(r) \/ WaitForChild(r) \/ Call(r) \/ SpawnDaemon(r)
  <2>1. Go(r) \/ Fail(r)
    BY <1>4 DEF Canonicalize, WaitForCapability, Timeout, ModulesTried, WaitForDaemon, WaitForChild,
                Call, SpawnDaemon
  <2>2. Stage(cli[r]) \in {"dir", "spawn", "ready", "agent", "load", "keep", "status", "fund"}
    BY <1>4 DEF Canonicalize, WaitForCapability, Timeout, ModulesTried, WaitForDaemon, WaitForChild,
                Call, SpawnDaemon, At
  <2> QED
    BY <1>2, <2>1, <2>2, NoneSent, GoElsewhere
<1>5. CASE BeginConfigure(r) \/ MetaConfigure(r)
  <2>1. Stage(cli[r]) \in {"pairs", "set"} /\ cli[r].cmd # "none"
    BY <1>5, NoneSent DEF BeginConfigure, MetaConfigure, Ready, At
  <2>2. CASE Fail(r)
    BY <1>2, <2>1, <2>2
  <2>3. ASSUME NEW given \in Values, At(r, "pairs"),
               Set(r, [cli[r] EXCEPT !.pc = @ + 1, !.given = given, !.era = era + 1]),
               era' = era + 1, overlap' = (overlap \/ \E s \in Runs : At(s, "set")),
               UNCHANGED <<inbox, conf, unseen>>
        PROVE  Alone(r) /\ Stage(cli'[r]) # "load"
    BY <2>3, Beginning DEF Begins
  <2>4. ASSUME MetaConfigure(r), ~Fail(r)
        PROVE  Alone(r) /\ Stage(cli'[r]) # "load"
    <3>1. Ready(r) /\ UNCHANGED <<conf, era, overlap>>
      BY <2>4 DEF MetaConfigure
    <3>2. \/ /\ Accepted(cli[r].given[Key(r)])
             /\ inbox' = Append(inbox, [run |-> r, key |-> Key(r), era |-> cli[r].era,
                                         as |-> CallExpr[cli[r].given[Key(r)]][1]])
             /\ Set(r, [cli[r] EXCEPT !.call = "sent"])
             /\ UNCHANGED unseen
          \/ /\ ~Accepted(cli[r].given[Key(r)])
             /\ Set(r, [cli[r] EXCEPT !.pos = @ + 1])
             /\ unseen' = TRUE
             /\ UNCHANGED inbox
      BY <2>4, Zenon DEF MetaConfigure
    <3> QED
      BY <3>1, <3>2, Calling DEF Sends, Skips
  <2>5. BeginConfigure(r) /\ ~Fail(r) =>
          \E given \in Values :
            /\ At(r, "pairs")
            /\ Set(r, [cli[r] EXCEPT !.pc = @ + 1, !.given = given, !.era = era + 1])
            /\ era' = era + 1 /\ overlap' = (overlap \/ \E s \in Runs : At(s, "set"))
            /\ UNCHANGED <<inbox, conf, unseen>>
    BY DEF BeginConfigure
  <2> QED
    BY <1>5, <2>2, <2>3, <2>4, <2>5
<1>6. CASE Panic(r) \/ CallFails(r) \/ Interrupt(r)
  <2>1. Fail(r)
    BY <1>6 DEF Panic, CallFails, Interrupt
  <2>2. CASE Interrupt(r)
    BY <1>2, <2>1, <2>2 DEF Interrupt
  <2>3. CASE Panic(r)
    <3>1. Stage(cli[r]) \in {"set", "fund"}
      BY <2>3 DEF Panic, Ready, At
    <3> QED
      BY <1>2, <2>1, <3>1, NoneSent
  <2>4. CASE CallFails(r)
    <3>1. Stage(cli[r]) = "set"
      BY <1>1, <2>4 DEF CallFails, Sound
    <3> QED
      BY <1>2, <2>1, <3>1, NoneSent
  <2> QED
    BY <1>6, <2>2, <2>3, <2>4
<1>7. CASE Configured(r)
  <2>1. Stage(cli[r]) = "set" /\ cli[r].pos = 5 /\ Go(r)
    BY <1>7 DEF Configured, At
  <2>2. cli[r].call = "none"
    BY <1>1, <2>1 DEF Sound, Commands
  <2> QED
    BY <2>1, <2>2, GoElsewhere
<1> QED
  BY <1>3, <1>4, <1>5, <1>6, <1>7 DEF Step

LEMMA TriedInit == Init => Tried /\ AgentLast
<1> SUFFICES ASSUME Init
             PROVE  Tried /\ AgentLast
  OBVIOUS
<1>1. Typed
  BY TypedInit
<1>2. ASSUME NEW r \in Runs
      PROVE  ~At(r, "load")
  <2>1. cli[r] = NewRun("none", "running")
    BY DEF Init
  <2>2. cli[r].cmd = "none"
    BY <2>1, NewRuns
  <2> QED
    BY <2>2 DEF At, Stage
<1> QED
  BY <1>2 DEF Init, Tried, AgentLast

\* A step that keeps what is loaded or warned about, and takes no run to "load".
LEMMA StaysTried ==
  ASSUME Tried, NEW r \in Runs, Alone(r), Stage(cli'[r]) # "load",
         loaded \cup warned \subseteq loaded' \cup warned'
  PROVE  Tried'
<1>1. ASSUME NEW s \in Runs, At(s, "load")'
      PROVE  Dir \subseteq cli'[s].todo \cup loaded' \cup warned'
  <2>1. s # r /\ cli'[s] = cli[s]
    BY <1>1 DEF Alone, At
  <2> QED
    BY <1>1, <2>1 DEF Tried, At
<1> QED
  BY <1>1 DEF Tried

LEMMA TriedStep ==
  ASSUME Typed, Tried, AgentLast, [Next]_vars
  PROVE  Tried' /\ AgentLast'
<1>1. cli \in [Runs -> Commands] /\ loaded \in SUBSET Dir
  BY DEF Typed, TypeOK
<1>2. ASSUME UNCHANGED <<loaded, warned>>
      PROVE  AgentLast' /\ loaded \cup warned \subseteq loaded' \cup warned'
  BY <1>2 DEF AgentLast
<1>3. ASSUME NEW r \in Runs, Start(r) \/ (Step(r) /\ ~ReadModulesDir(r) /\ ~LoadModule(r)) \/ Interrupt(r)
      PROVE  Tried' /\ AgentLast'
  <2>1. UNCHANGED <<loaded, warned>>
    BY <1>3 DEF Step, Start, Interrupt, Canonicalize, WaitForCapability, Timeout, ModulesTried, WaitForDaemon,
                WaitForChild, Call, SpawnDaemon, BeginConfigure, MetaConfigure, Panic, CallFails, Configured, hosts
  <2> QED
    BY <1>2, <1>3, <2>1, Elsewhere, StaysTried
<1>4. ASSUME NEW r \in Runs, ReadModulesDir(r)
      PROVE  Tried' /\ AgentLast'
  <2>1. UNCHANGED <<loaded, warned>> /\ Stage(cli[r]) = "read"
    BY <1>4 DEF ReadModulesDir, hosts, At
  <2>2. CASE Fail(r)
    <3>1. Alone(r) /\ Stage(cli'[r]) # "load"
      BY <2>1, <2>2, NoneSent, Failing DEF Quits
    <3> QED
      BY <1>2, <2>1, <3>1, StaysTried
  <2>3. CASE ~Fail(r)
    <3> DEFINE new == [cli[r] EXCEPT !.todo = Dir, !.pc = @ + 1]
    <3>1. Set(r, new)
      BY <1>4, <2>3 DEF ReadModulesDir
    <3>2. new \in {[cli[r] EXCEPT !.pc = @ + 1], [cli[r] EXCEPT !.todo = Dir, !.pc = @ + 1]}
      OBVIOUS
    <3>3. new.todo = Dir
      BY <1>1 DEF Commands
    <3> HIDE DEF new
    <3>4. Alone(r) /\ cli'[r].todo = Dir
      BY <2>1, <3>1, <3>2, <3>3, NoneSent, Going
    <3>5. ASSUME NEW s \in Runs, At(s, "load")'
          PROVE  Dir \subseteq cli'[s].todo \cup loaded' \cup warned'
      BY <2>1, <3>4, <3>5 DEF Alone, At, Tried
    <3> QED
      BY <1>2, <2>1, <3>5 DEF Tried
  <2> QED
    BY <2>2, <2>3
<1>5. ASSUME NEW r \in Runs, LoadModule(r)
      PROVE  Tried' /\ AgentLast'
  <2>1. PICK n \in NextModule(r) :
          /\ Set(r, [cli[r] EXCEPT !.todo = @ \ {n}])
          /\ \/ loaded' = loaded \cup {n} /\ warned' = warned \ {n}
             \/ loaded' = loaded /\ warned' = warned \cup {n}
             \/ loaded' \in {loaded, loaded \cup {n}} /\ warned' = warned \cup {n}
    BY <1>5 DEF LoadModule
  <2>2. loaded \cup warned \cup {n} \subseteq loaded' \cup warned' /\ loaded' \subseteq loaded \cup {n}
    BY <2>1
  <2>3. Alone(r) /\ cli'[r].todo = cli[r].todo \ {n} /\ At(r, "load")
    BY <1>5, <2>1, Loading DEF LoadModule
  <2>4. Dir \subseteq cli[r].todo \cup loaded \cup warned
    BY <2>3 DEF Tried
  <2>5. Tried'
    <3>1. ASSUME NEW s \in Runs, At(s, "load")'
          PROVE  Dir \subseteq cli'[s].todo \cup loaded' \cup warned'
      <4>1. CASE s = r
        BY <2>2, <2>3, <2>4, <4>1
      <4>2. CASE s # r
        BY <2>2, <2>3, <3>1, <4>2 DEF Alone, At, Tried
      <4> QED
        BY <4>1, <4>2
    <3> QED
      BY <3>1 DEF Tried
  <2>6. AgentLast'
    <3>1. CASE "agent_module" \in loaded
      BY <2>2, <3>1 DEF AgentLast
    <3>2. CASE "agent_module" \notin loaded /\ "agent_module" \in loaded'
      <4>1. n = "agent_module"
        BY <2>2, <3>2
      <4>2. cli[r].todo \subseteq {"agent_module"}
        BY <2>1, <4>1 DEF NextModule
      <4> QED
        BY <2>2, <2>4, <4>1, <4>2 DEF AgentLast
    <3> QED
      BY <3>1, <3>2 DEF AgentLast
  <2> QED
    BY <2>5, <2>6
<1>6. ASSUME NEW r \in Runs, DaemonStarts(r) \/ DaemonDies(r)
      PROVE  Tried' /\ AgentLast'
  <2>1. UNCHANGED cli
    BY <1>6 DEF DaemonStarts, DaemonDies
  <2>2. UNCHANGED <<loaded, warned>> \/ (loaded' = {} /\ warned' = warned \cup loaded)
    BY <1>6 DEF DaemonStarts, DaemonDies
  <2> QED
    BY <2>1, <2>2 DEF Tried, AgentLast, At
<1>7. ASSUME HandleConfigure
      PROVE  Tried' /\ AgentLast'
  <2> DEFINE e == Head(inbox)
  <2>1. UNCHANGED <<loaded, warned>>
    BY <1>7 DEF HandleConfigure, hosts
  <2>2. e.run \in Runs
    BY <1>7, Answering DEF Pending
  <2>3. CASE cli' = cli
    BY <2>1, <2>3 DEF Tried, AgentLast, At
  <2>4. CASE cli[e.run].call = "sent"
    <3>1. Stage(cli[e.run]) = "set"
      BY <2>2, <2>4 DEF Typed, Sound
    <3>2. Hears(e.run)
      BY <1>7, <2>4, Answering
    <3>3. Alone(e.run) /\ Stage(cli'[e.run]) # "load"
      BY <3>1, <3>2 DEF Hears
    <3> QED
      BY <1>2, <2>1, <2>2, <3>3, StaysTried
  <2> QED
    BY <1>7, <2>3, <2>4, Answering
<1>8. CASE UNCHANGED vars
  BY <1>8 DEF vars, hosts, Tried, AgentLast, At
<1> QED
  BY <1>3, <1>4, <1>5, <1>6, <1>7, <1>8 DEF Next, Step

\* The agent module starts only when all that it depends on has been tried, whatever
\* runs load modules at the same time and whatever daemons end meanwhile.
THEOREM UpAgentLast == Spec => []AgentLast
<1>1. Init => Typed /\ Tried /\ AgentLast
  BY TypedInit, TriedInit
<1>2. Typed /\ Tried /\ AgentLast /\ [Next]_vars => (Typed /\ Tried /\ AgentLast)'
  BY TypedStep, TriedStep
<1> QED
  BY <1>1, <1>2, PTL DEF Spec

(***************************************************************************)
(* The calls under way.                                                    *)
(***************************************************************************)

Slots == 1..Len(inbox)

\* A call is that of the run that waits for it, or of one that gave up.
SameCall(e, c) ==
  /\ c.call = "sent" /\ e.key = Pairs[c.pos] /\ e.era = c.era
  /\ e.as = CallExpr[c.given[e.key]][1] /\ Accepted(c.given[e.key])
Owned == \A i \in Slots : LET c == cli[inbox[i].run] IN c.out = "failed" \/ SameCall(inbox[i], c)

\* Configurations are numbered, each is of one run, and a run has one call.
Numbered ==
  /\ \A i \in Slots : inbox[i].era \in 1..era
  /\ \A r \in Runs : cli[r].era <= era
  /\ \A k \in Keys : conf[k].era <= era
Unique ==
  /\ \A i \in Slots, r \in Runs : cli[r].era = inbox[i].era => inbox[i].run = r
  /\ \A i, j \in Slots : inbox[i].run = inbox[j].run => i = j
  /\ \A r, s \in Runs : cli[r].era = cli[s].era => r = s \/ cli[r].era = 0
Queue == Owned /\ Numbered /\ Unique

\* The calls that are left after a step that sends none.
Left(d) ==
  /\ d \in 0..1
  /\ \A i \in 1..Len(inbox') : i + d \in Slots /\ inbox'[i] = inbox[i + d]

LEMMA Taken ==
  ASSUME TypeOK, inbox # <<>>, inbox' = Tail(inbox)
  PROVE  Left(1) /\ 1 \in Slots /\ Head(inbox) = inbox[1]
<1>1. inbox \in Seq(Pending) /\ Len(inbox) \in Nat /\ Len(inbox) # 0
  BY DEF TypeOK
<1>2. Len(inbox') = Len(inbox) - 1
  BY <1>1
<1>3. ASSUME NEW i \in 1..Len(inbox')
      PROVE  i + 1 \in Slots /\ inbox'[i] = inbox[i + 1]
  BY <1>1, <1>2, <1>3 DEF Slots
<1> QED
  BY <1>1, <1>3 DEF Left, Slots

LEMMA Dropped ==
  ASSUME TypeOK, inbox' \in {inbox, <<>>}
  PROVE  Left(0)
<1>1. inbox \in Seq(Pending) /\ Len(inbox) \in Nat
  BY DEF TypeOK
<1>2. CASE inbox' = inbox
  BY <1>1, <1>2 DEF Left, Slots
<1>3. CASE inbox' = <<>>
  <2>1. Len(inbox') = 0
    BY <1>3
  <2> QED
    BY <2>1 DEF Left
<1> QED
  BY <1>2, <1>3

LEMMA Added ==
  ASSUME TypeOK, NEW e \in Pending, inbox' = Append(inbox, e)
  PROVE  \A i \in 1..Len(inbox') : (i \in Slots /\ inbox'[i] = inbox[i]) \/ (i = Len(inbox) + 1 /\ inbox'[i] = e)
<1>1. inbox \in Seq(Pending) /\ Len(inbox) \in Nat
  BY DEF TypeOK
<1>2. Len(inbox') = Len(inbox) + 1
  BY <1>1
<1>3. ASSUME NEW i \in 1..Len(inbox')
      PROVE  (i \in Slots /\ inbox'[i] = inbox[i]) \/ (i = Len(inbox) + 1 /\ inbox'[i] = e)
  BY <1>1, <1>2, <1>3 DEF Slots
<1> QED
  BY <1>3

\* The call that a run sends.
LEMMA Sending ==
  ASSUME Typed, NEW r \in Runs, Sends(r)
  PROVE  \E e \in Pending :
           /\ inbox' = Append(inbox, e)
           /\ e.run = r /\ e.era = cli[r].era /\ e.key = Pairs[cli[r].pos]
           /\ e.as = CallExpr[cli[r].given[e.key]][1] /\ Accepted(cli[r].given[e.key])
           /\ At(r, "set") /\ cli[r].pos \in 1..4 /\ cli[r].call = "none" /\ cli[r].out = "running"
           /\ cli[r].era \in Nat \ {0}
<1>1. At(r, "set") /\ cli[r].pos \in 1..4 /\ cli[r].call = "none"
  BY DEF Sends, Ready
<1>2. cli[r] \in Commands /\ cli[r].out = "running" /\ cli[r].era # 0
  BY <1>1, SettingRun
<1>3. Key(r) \in Keys /\ cli[r].era \in Nat /\ cli[r].given \in [Keys -> Forms]
  BY <1>1, <1>2, KeyType DEF Key, Commands
<1>4. CallExpr[cli[r].given[Key(r)]][1] \in Arriving
  BY <1>3, Arrival DEF Sends
<1> DEFINE e == [run |-> r, key |-> Key(r), era |-> cli[r].era, as |-> CallExpr[cli[r].given[Key(r)]][1]]
<1>5. e \in Pending
  BY <1>3, <1>4 DEF Pending
<1>6. /\ e.run = r /\ e.era = cli[r].era /\ e.key = Key(r)
      /\ e.as = CallExpr[cli[r].given[Key(r)]][1]
  OBVIOUS
<1>7. inbox' = Append(inbox, e) /\ Accepted(cli[r].given[Key(r)])
  BY DEF Sends
<1> HIDE DEF e
<1> QED
  BY <1>1, <1>2, <1>3, <1>5, <1>6, <1>7 DEF Key

\* A run that waits for an answer.
LEMMA Waits ==
  ASSUME Typed, NEW r \in Runs, cli[r].call = "sent"
  PROVE  /\ At(r, "set") /\ cli[r].out = "running" /\ cli[r].pos \in 1..4 /\ cli[r].era # 0
BY DEF Typed, TypeOK, Sound, Commands, At

\* Every run, in a step that neither begins a configuration nor makes a call.
Rested(s) ==
  \/ /\ cli'[s].out = cli[s].out /\ cli'[s].era = cli[s].era /\ cli'[s].given = cli[s].given
     /\ cli'[s].pos = cli[s].pos /\ cli'[s].call = cli[s].call
     /\ Stage(cli'[s]) = "set" => Stage(cli[s]) = "set"
  \/ Quits(s) \/ Starts(s)

LEMMA CalmRuns ==
  ASSUME NEW r \in Runs, Calms(r), NEW s \in Runs
  PROVE  Rested(s)
<1>1. CASE s = r
  BY <1>1 DEF Calms, Rested, Keeps
<1>2. CASE s # r
  BY <1>2 DEF Calms, Alone, Rested
<1> QED
  BY <1>1, <1>2

LEMMA RestedEra ==
  ASSUME NEW s \in Runs, Rested(s)
  PROVE  /\ cli'[s].era \in {0, cli[s].era}
         /\ cli'[s].era # 0 => /\ cli'[s].era = cli[s].era /\ cli'[s].pos = cli[s].pos
                               /\ cli'[s].given = cli[s].given
         /\ At(s, "set")' => At(s, "set") /\ cli'[s].era = cli[s].era /\ cli'[s].pos = cli[s].pos
BY DEF Rested, Quits, Starts, At

LEMMA Entries ==
  ASSUME Typed
  PROVE  \A i \in Slots : inbox[i] \in Pending /\ inbox[i].run \in Runs
<1>1. \A i \in Slots : inbox[i] \in Pending
  BY DEF Typed, TypeOK, Slots
<1> QED
  BY <1>1 DEF Pending

\* A run without a call, before and after the step.
Free(s) == cli'[s].era = cli[s].era /\ \A i \in 1..Len(inbox') : inbox'[i].run # s

\* Steps that begin no configuration and send no call.
LEMMA QueueLeft ==
  ASSUME Typed, Queue, era' = era, \A k \in Keys : conf'[k].era <= era, NEW d, Left(d),
         \A s \in Runs : Rested(s) \/ Free(s)
  PROVE  Queue'
<1>1. \A i \in Slots' : i + d \in Slots /\ inbox'[i] = inbox[i + d]
  BY DEF Left, Slots
<1>2. \A i \in Slots : inbox[i].run \in Runs
  BY Entries
<1>3. d \in 0..1 /\ Slots \subseteq Nat /\ Slots' \subseteq Nat
  BY DEF Left, Slots
<1>4. Owned'
  <2>1. ASSUME NEW i \in Slots'
        PROVE  LET c == cli'[inbox'[i].run] IN c.out = "failed" \/ SameCall(inbox'[i], c)
    <3> DEFINE e == inbox[i + d]
    <3>1. inbox'[i] = e /\ e.run \in Runs
      BY <1>1, <1>2
    <3>2. cli[e.run].out = "failed" \/ SameCall(e, cli[e.run])
      BY <1>1 DEF Queue, Owned
    <3>3. Rested(e.run)
      BY <3>1 DEF Free, Slots
    <3> HIDE DEF e
    <3>4. CASE Quits(e.run)
      BY <3>1, <3>4 DEF Quits
    <3>5. CASE Starts(e.run)
      BY <3>1, <3>2, <3>5 DEF Starts, SameCall
    <3>6. CASE ~Quits(e.run) /\ ~Starts(e.run)
      BY <3>1, <3>2, <3>3, <3>6 DEF Rested, SameCall
    <3> QED
      BY <3>4, <3>5, <3>6
  <2> QED
    BY <2>1 DEF Owned
<1>5. \A s \in Runs : cli'[s].era \in {0, cli[s].era}
  BY RestedEra DEF Free
<1>6. Numbered'
  <2>1. era \in Nat /\ \A r \in Runs : cli[r].era <= era
    BY DEF Queue, Numbered, Typed, TypeOK
  <2>2. \A r \in Runs : cli'[r].era <= era
    BY <1>5, <2>1
  <2> QED
    BY <1>1, <2>2 DEF Queue, Numbered
<1>7. Unique'
  <2>1. ASSUME NEW i \in Slots', NEW r \in Runs, cli'[r].era = inbox'[i].era
        PROVE  inbox'[i].run = r
    <3>1. inbox'[i].era # 0
      BY <1>1 DEF Queue, Numbered
    <3>2. cli[r].era = inbox'[i].era
      BY <1>5, <2>1, <3>1
    <3> QED
      BY <1>1, <3>2 DEF Queue, Unique
  <2>2. ASSUME NEW i \in Slots', NEW j \in Slots', inbox'[i].run = inbox'[j].run
        PROVE  i = j
    <3>1. i + d = j + d
      BY <1>1, <2>2 DEF Queue, Unique
    <3> QED
      BY <1>3, <3>1
  <2>3. ASSUME NEW r \in Runs, NEW s \in Runs, cli'[r].era = cli'[s].era
        PROVE  r = s \/ cli'[r].era = 0
    BY <1>5, <2>3 DEF Queue, Unique
  <2> QED
    BY <2>1, <2>2, <2>3 DEF Unique
<1> QED
  BY <1>4, <1>6, <1>7 DEF Queue

\* A run that waits for no answer has no call under way.
LEMMA NoCallOf ==
  ASSUME Typed, Queue, NEW r \in Runs, cli[r].out = "running", cli[r].call = "none"
  PROVE  \A i \in Slots : inbox[i].run # r
BY DEF Queue, Owned, SameCall

LEMMA QueueBegin ==
  ASSUME Typed, Queue, NEW r \in Runs, Begins(r)
  PROVE  Queue'
<1>1. /\ Alone(r) /\ cli'[r].era = era + 1 /\ era' = era + 1 /\ inbox' = inbox /\ conf' = conf
      /\ era \in Nat
  BY DEF Begins, Typed, TypeOK
<1>2. cli[r].out = "running" /\ cli[r].call = "none"
  <2>1. Stage(cli[r]) = "pairs" /\ cli[r] \in Commands
    BY DEF Begins, Typed, TypeOK
  <2> QED
    BY <2>1, StageOf, NoneSent
<1>3. \A i \in Slots : inbox[i].run \in Runs \ {r} /\ cli'[inbox[i].run] = cli[inbox[i].run]
  BY <1>1, <1>2, NoCallOf, Entries DEF Alone
<1>4. Slots' = Slots
  BY <1>1 DEF Slots
<1>5. Owned'
  BY <1>1, <1>3, <1>4 DEF Queue, Owned
<1>6. \A s \in Runs : cli[s].era \in Nat /\ cli[s].era <= era
  BY DEF Queue, Numbered, Typed, TypeOK, Commands
<1>7. \A k \in Keys : conf[k].era \in Nat /\ conf[k].era <= era
  BY DEF Queue, Numbered, Typed, TypeOK
<1>8. \A s \in Runs : cli'[s].era \in Nat /\ cli'[s].era <= era + 1 /\ (cli'[s].era = era + 1 <=> s = r)
  BY <1>1, <1>6 DEF Alone
<1>9. \A i \in Slots : inbox[i].era \in 1..era
  BY DEF Queue, Numbered
<1>10. Numbered'
  BY <1>1, <1>4, <1>7, <1>8, <1>9 DEF Numbered
<1>11. Unique'
  <2>1. ASSUME NEW i \in Slots', NEW s \in Runs, cli'[s].era = inbox'[i].era
        PROVE  inbox'[i].run = s
    <3>1. s # r
      BY <1>1, <1>4, <1>8, <1>9, <2>1
    <3> QED
      BY <1>1, <1>4, <2>1, <3>1 DEF Alone, Queue, Unique
  <2>2. ASSUME NEW s \in Runs, NEW t \in Runs, cli'[s].era = cli'[t].era
        PROVE  s = t \/ cli'[s].era = 0
    BY <1>1, <1>8, <2>2 DEF Alone, Queue, Unique
  <2> QED
    BY <1>1, <1>4, <2>1, <2>2 DEF Queue, Unique
<1> QED
  BY <1>5, <1>10, <1>11 DEF Queue

LEMMA QueueSend ==
  ASSUME Typed, Queue, NEW r \in Runs, Sends(r)
  PROVE  Queue'
<1>1. PICK e \in Pending :
           /\ inbox' = Append(inbox, e)
           /\ e.run = r /\ e.era = cli[r].era /\ e.key = Pairs[cli[r].pos]
           /\ e.as = CallExpr[cli[r].given[e.key]][1] /\ Accepted(cli[r].given[e.key])
           /\ At(r, "set") /\ cli[r].pos \in 1..4 /\ cli[r].call = "none" /\ cli[r].out = "running"
           /\ cli[r].era \in Nat \ {0}
  BY Sending
<1>2. /\ Alone(r) /\ UNCHANGED <<conf, era>> /\ cli'[r].era = cli[r].era
      /\ cli'[r].call = "sent" /\ cli'[r].pos = cli[r].pos /\ cli'[r].given = cli[r].given
  BY DEF Sends
<1>3. \A i \in Slots' : (i \in Slots /\ inbox'[i] = inbox[i]) \/ (i = Len(inbox) + 1 /\ inbox'[i] = e)
  BY <1>1, Added DEF Typed, Slots
<1>4. \A i \in Slots : inbox[i].run \in Runs \ {r} /\ cli'[inbox[i].run] = cli[inbox[i].run]
  BY <1>1, <1>2, NoCallOf, Entries DEF Alone
<1>5. SameCall(e, cli'[r])
  BY <1>1, <1>2 DEF SameCall
<1>6. Owned'
  BY <1>1, <1>3, <1>4, <1>5 DEF Queue, Owned
<1>7. \A s \in Runs : cli'[s].era = cli[s].era
  BY <1>2 DEF Alone
<1>8. Numbered'
  <2>1. era \in Nat /\ cli[r].era \in 1..era
    BY <1>1 DEF Queue, Numbered, Typed, TypeOK
  <2> QED
    BY <1>1, <1>2, <1>3, <1>7, <2>1 DEF Queue, Numbered
<1>9. Unique'
  <2>1. e.run = r /\ e.era = cli[r].era /\ e.era # 0
    BY <1>1
  <2>2. ASSUME NEW i \in Slots', NEW s \in Runs, cli'[s].era = inbox'[i].era
        PROVE  inbox'[i].run = s
    <3>1. cli[s].era = inbox'[i].era
      BY <1>7, <2>2
    <3>2. CASE i \in Slots /\ inbox'[i] = inbox[i]
      BY <3>1, <3>2 DEF Queue, Unique
    <3>3. CASE inbox'[i] = e
      BY <2>1, <3>1, <3>3 DEF Queue, Unique
    <3> QED
      BY <1>3, <3>2, <3>3
  <2>3. ASSUME NEW i \in Slots', NEW j \in Slots', inbox'[i].run = inbox'[j].run
        PROVE  i = j
    <3>1. CASE i \in Slots /\ j \in Slots /\ inbox'[i] = inbox[i] /\ inbox'[j] = inbox[j]
      BY <2>3, <3>1 DEF Queue, Unique
    <3>2. CASE i = Len(inbox) + 1 /\ j = Len(inbox) + 1
      BY <3>2
    <3>3. ASSUME NEW x \in Slots, NEW y, inbox'[x] = inbox[x], inbox'[y] = e
          PROVE  inbox'[x].run # inbox'[y].run
      BY <1>4, <2>1, <3>3
    <3> QED
      BY <1>3, <2>3, <3>1, <3>2, <3>3
  <2> QED
    BY <1>7, <2>2, <2>3 DEF Queue, Unique
<1> QED
  BY <1>6, <1>8, <1>9 DEF Queue

\* A step that handles a call.
LEMMA Handled ==
  ASSUME Typed, Queue, Answers
  PROVE  \E e \in Pending :
           /\ 1 \in Slots /\ e = inbox[1] /\ e.run \in Runs /\ e.key \in Keys /\ e.era \in 1..era
           /\ inbox' = Tail(inbox) /\ Left(1)
           /\ conf' = [conf EXCEPT ![e.key] = [era |-> e.era, as |-> e.as]]
           /\ UNCHANGED <<era, overlap, unseen>>
           /\ \/ cli[e.run].call = "sent" /\ Hears(e.run) /\ SameCall(e, cli[e.run])
              \/ cli' = cli
           /\ \A i \in 1..Len(inbox') : inbox'[i].run # e.run
<1>1. inbox # <<>> /\ inbox' = Tail(inbox) /\ TypeOK
  BY DEF Answers, Typed
<1>2. Left(1) /\ 1 \in Slots /\ Head(inbox) = inbox[1]
  BY <1>1, Taken
<1> DEFINE e == inbox[1]
<1>3. /\ e \in Pending /\ conf' = [conf EXCEPT ![e.key] = [era |-> e.era, as |-> e.as]]
      /\ UNCHANGED <<era, overlap, unseen>>
      /\ cli[e.run].call = "sent" => Hears(e.run)
      /\ cli[e.run].call # "sent" => cli' = cli
  BY <1>2 DEF Answers
<1>4. e.run \in Runs /\ e.key \in Keys /\ e.era \in 1..era
  BY <1>2, <1>3 DEF Pending, Queue, Numbered
<1>5. cli[e.run].call = "sent" => SameCall(e, cli[e.run])
  BY <1>2, <1>4, Waits DEF Queue, Owned
<1>6. ASSUME NEW i \in 1..Len(inbox')
      PROVE  inbox'[i].run # e.run
  <2>1. i + 1 \in Slots /\ inbox'[i] = inbox[i + 1] /\ i + 1 # 1
    BY <1>2 DEF Left
  <2> QED
    BY <1>2, <2>1 DEF Queue, Unique
<1> HIDE DEF e
<1> QED
  BY <1>1, <1>2, <1>3, <1>4, <1>5, <1>6 DEF e

LEMMA QueueStep ==
  ASSUME Typed, Queue, Kinds
  PROVE  Queue'
<1>1. \A k \in Keys : conf[k].era <= era
  BY DEF Queue, Numbered
<1>2. ASSUME inbox' = inbox
      PROVE  Left(0)
  BY <1>2, Dropped DEF Typed
<1>3. ASSUME NEW r \in Runs, Calms(r)
      PROVE  Queue'
  <2>1. UNCHANGED <<inbox, conf, era>>
    BY <1>3 DEF Calms, settings
  <2> QED
    BY <1>1, <1>2, <1>3, <2>1, CalmRuns, QueueLeft
<1>4. ASSUME NEW r \in Runs, Skips(r)
      PROVE  Queue'
  <2>1. UNCHANGED <<inbox, conf, era>> /\ Alone(r) /\ cli'[r].era = cli[r].era /\ Ready(r)
    BY <1>4 DEF Skips
  <2>2. cli[r].out = "running" /\ cli[r].call = "none"
    BY <2>1, SettingRun DEF Ready
  <2>3. Free(r)
    BY <2>1, <2>2, NoCallOf DEF Free, Slots
  <2>4. \A s \in Runs : Rested(s) \/ Free(s)
    BY <2>1, <2>3 DEF Alone, Rested
  <2> QED
    BY <1>1, <1>2, <2>1, <2>4, QueueLeft
<1>5. ASSUME Answers
      PROVE  Queue'
  <2>1. PICK e \in Pending :
           /\ 1 \in Slots /\ e = inbox[1] /\ e.run \in Runs /\ e.key \in Keys /\ e.era \in 1..era
           /\ inbox' = Tail(inbox) /\ Left(1)
           /\ conf' = [conf EXCEPT ![e.key] = [era |-> e.era, as |-> e.as]]
           /\ UNCHANGED <<era, overlap, unseen>>
           /\ \/ cli[e.run].call = "sent" /\ Hears(e.run) /\ SameCall(e, cli[e.run])
              \/ cli' = cli
           /\ \A i \in 1..Len(inbox') : inbox'[i].run # e.run
    BY <1>5, Handled
  <2>2. era \in Nat /\ conf \in [Keys -> [era : Nat, as : Arriving]]
    BY DEF Typed, TypeOK
  <2>3. \A k \in Keys : conf'[k].era <= era
    BY <1>1, <2>1, <2>2
  <2>4. \A s \in Runs : Rested(s) \/ Free(s)
    BY <2>1 DEF Hears, Alone, Rested, Free
  <2> QED
    BY <2>1, <2>3, <2>4, QueueLeft
<1>6. ASSUME Rests
      PROVE  Queue'
  <2>1. UNCHANGED <<cli, conf, era>> /\ Left(0)
    BY <1>6, Dropped DEF Rests, Typed
  <2>2. \A s \in Runs : Rested(s)
    BY <2>1 DEF Rested
  <2> QED
    BY <1>1, <2>1, <2>2, QueueLeft
<1> QED
  BY <1>3, <1>4, <1>5, <1>6, QueueBegin, QueueSend DEF Kinds

\* The beginning.
LEMMA InitialRuns ==
  ASSUME Init
  PROVE  /\ \A r \in Runs : cli[r].era = 0 /\ cli[r].pos = 1 /\ Stage(cli[r]) = "idle"
         /\ Slots = {} /\ era = 0 /\ \A k \in Keys : conf[k].era = 0
<1>1. \A r \in Runs : cli[r].era = 0 /\ cli[r].pos = 1 /\ cli[r].cmd = "none"
  BY NewRuns DEF Init
<1>2. Slots = {}
  BY DEF Init, Slots
<1> QED
  BY <1>1, <1>2 DEF Init, Stage

LEMMA QueueInit == Init => Queue
BY InitialRuns DEF Queue, Owned, Numbered, Unique

(***************************************************************************)
(* What is set, as long as no two configurations overlap.                  *)
(***************************************************************************)

\* Only the newest configuration is being made; calls wait in the order of the
\* configurations, none of them older than the owner.
Current == \A r \in Runs : At(r, "set") => cli[r].era = era
Sorted == \A i, j \in Slots : i < j => inbox[i].era <= inbox[j].era
OwnerNext == \A i \in Slots : conf["owner_address"].era <= inbox[i].era

\* What a run has set is there, as it arrived, and no call is left that could take it back;
\* what is not was refused, and the refusal not seen.
IsSet(r, p) ==
  /\ conf[Pairs[p]] = [era |-> era, as |-> CallExpr[cli[r].given[Pairs[p]]][1]]
  /\ \A i \in Slots : inbox[i].key # Pairs[p]
Heeded(r, p) == IF Accepted(cli[r].given[Pairs[p]]) THEN IsSet(r, p) ELSE unseen
Done(r) == \A p \in 1..4 : p < cli[r].pos => Heeded(r, p)

Order == ~overlap => Current /\ Sorted /\ OwnerNext /\ \A r \in Runs : cli[r].era = era => Done(r)

\* Steps that neither begin a configuration, nor send a call or handle one.
LEMMA OrderLeft ==
  ASSUME Typed, Order, ~overlap, UNCHANGED <<conf, era, overlap, unseen>>, NEW d, Left(d),
         \A s \in Runs : Rested(s)
  PROVE  Order'
<1>1. /\ \A i \in Slots' : i + d \in Slots /\ inbox'[i] = inbox[i + d]
      /\ d \in 0..1 /\ Slots \subseteq Nat /\ Slots' \subseteq Nat
  BY DEF Left, Slots
<1>2. Current /\ Sorted /\ OwnerNext /\ \A r \in Runs : cli[r].era = era => Done(r)
  BY DEF Order
<1>3. Current'
  BY <1>2, RestedEra DEF Current
<1>4. Sorted'
  <2>1. ASSUME NEW i \in Slots', NEW j \in Slots', i < j
        PROVE  inbox'[i].era <= inbox'[j].era
    <3>1. i + d < j + d
      BY <1>1, <2>1
    <3> QED
      BY <1>1, <1>2, <3>1 DEF Sorted
  <2> QED
    BY <2>1 DEF Sorted
<1>5. OwnerNext'
  BY <1>1, <1>2 DEF OwnerNext
<1>6. ASSUME NEW r \in Runs, cli'[r].era = era
      PROVE  Done(r)'
  <2>1. cli'[r].pos = 1 \/ (cli'[r].pos = cli[r].pos /\ cli'[r].given = cli[r].given /\ cli[r].era = era)
    BY <1>6, RestedEra DEF Rested, Quits, Starts
  <2>2. CASE cli'[r].pos = 1
    BY <2>2 DEF Done
  <2>3. CASE cli'[r].pos = cli[r].pos /\ cli'[r].given = cli[r].given /\ cli[r].era = era
    <3>1. ASSUME NEW p \in 1..4, p < cli'[r].pos
          PROVE  Heeded(r, p)'
      <4>1. Heeded(r, p)
        BY <1>2, <2>3, <3>1 DEF Done
      <4> QED
        BY <1>1, <2>3, <4>1 DEF Heeded, IsSet
    <3> QED
      BY <3>1 DEF Done
  <2> QED
    BY <2>1, <2>2, <2>3
<1> QED
  BY <1>3, <1>4, <1>5, <1>6 DEF Order

LEMMA OrderBegin ==
  ASSUME Typed, Queue, Order, NEW r \in Runs, Begins(r)
  PROVE  Order'
<1> SUFFICES ASSUME ~overlap'
             PROVE  Order'
  BY DEF Order
<1>1. /\ Alone(r) /\ cli'[r].era = era + 1 /\ cli'[r].pos = 1 /\ era' = era + 1
      /\ inbox' = inbox /\ conf' = conf /\ era \in Nat
  BY DEF Begins, Typed, TypeOK
<1>2. ~overlap /\ \A s \in Runs : ~At(s, "set")
  BY DEF Begins
<1>3. Sorted /\ OwnerNext
  BY <1>2 DEF Order
<1>4. Sorted' /\ OwnerNext'
  BY <1>1, <1>3 DEF Sorted, OwnerNext, Slots
<1>5. Current'
  BY <1>1, <1>2 DEF Current, Alone, At
<1>6. ASSUME NEW s \in Runs, cli'[s].era = era'
      PROVE  Done(s)'
  <2>1. \A t \in Runs : cli[t].era \in Nat /\ cli[t].era <= era
    BY DEF Queue, Numbered, Typed, TypeOK, Commands
  <2>2. s = r
    BY <1>1, <1>6, <2>1 DEF Alone
  <2> QED
    BY <1>1, <2>2 DEF Done
<1> QED
  BY <1>4, <1>5, <1>6 DEF Order

\* A run that makes the newest configuration is the only one.
LEMMA OnlyOne ==
  ASSUME Typed, Queue, Current, NEW r \in Runs, At(r, "set"), NEW s \in Runs, cli[s].era = era
  PROVE  s = r /\ cli[r].era = era /\ era # 0
<1>1. cli[r].era = era /\ cli[r].era # 0
  BY SettingRun DEF Current
<1> QED
  BY <1>1 DEF Queue, Unique

LEMMA OrderSend ==
  ASSUME Typed, Queue, Order, ~overlap, NEW r \in Runs, Sends(r)
  PROVE  Order'
<1>1. PICK e \in Pending :
           /\ inbox' = Append(inbox, e)
           /\ e.run = r /\ e.era = cli[r].era /\ e.key = Pairs[cli[r].pos]
           /\ e.as = CallExpr[cli[r].given[e.key]][1] /\ Accepted(cli[r].given[e.key])
           /\ At(r, "set") /\ cli[r].pos \in 1..4 /\ cli[r].call = "none" /\ cli[r].out = "running"
           /\ cli[r].era \in Nat \ {0}
  BY Sending
<1>2. /\ Alone(r) /\ UNCHANGED <<conf, era, overlap, unseen>> /\ cli'[r].era = cli[r].era
      /\ At(r, "set")' /\ cli'[r].pos = cli[r].pos /\ cli'[r].given = cli[r].given
  BY DEF Sends, At
<1>3. \A i \in Slots' : (i \in Slots /\ inbox'[i] = inbox[i]) \/ (i = Len(inbox) + 1 /\ inbox'[i] = e)
  BY <1>1, Added DEF Typed, Slots
<1>4. Current /\ Sorted /\ OwnerNext /\ \A s \in Runs : cli[s].era = era => Done(s)
  BY DEF Order
<1>5. e.era = era
  BY <1>1, <1>4 DEF Current
<1>6. Current'
  BY <1>1, <1>2, <1>4 DEF Current, Alone, At
<1>7. Len(inbox) \in Nat /\ \A i \in Slots : i <= Len(inbox) /\ inbox[i].era <= era
  BY DEF Queue, Numbered, Slots, Typed, TypeOK
<1>8. Sorted'
  <2>1. ASSUME NEW i \in Slots', NEW j \in Slots', i < j
        PROVE  inbox'[i].era <= inbox'[j].era
    <3>1. i \in Slots /\ inbox'[i] = inbox[i]
      BY <1>3, <1>7, <2>1 DEF Slots
    <3>2. CASE j \in Slots /\ inbox'[j] = inbox[j]
      BY <1>4, <2>1, <3>1, <3>2 DEF Sorted
    <3>3. CASE inbox'[j] = e
      BY <1>5, <1>7, <3>1, <3>3
    <3> QED
      BY <1>3, <3>2, <3>3
  <2> QED
    BY <2>1 DEF Sorted
<1>9. OwnerNext'
  <2>1. conf["owner_address"].era <= era
    BY DEF Queue, Numbered, Keys
  <2> QED
    BY <1>2, <1>3, <1>4, <1>5, <2>1 DEF OwnerNext
<1>10. ASSUME NEW s \in Runs, cli'[s].era = era
       PROVE  Done(s)'
  <2>1. s = r
    BY <1>1, <1>2, <1>4, <1>10, OnlyOne DEF Alone
  <2>2. ASSUME NEW p \in 1..4, p < cli'[r].pos
        PROVE  Heeded(r, p)'
    <3>1. Heeded(r, p)
      BY <1>1, <1>2, <1>4, <1>5, <2>2 DEF Done
    <3>2. e.key # Pairs[p]
      BY <1>1, <1>2, <2>2, Distinct
    <3> QED
      BY <1>2, <1>3, <3>1, <3>2 DEF Heeded, IsSet
  <2> QED
    BY <2>1, <2>2 DEF Done
<1> QED
  BY <1>2, <1>6, <1>8, <1>9, <1>10 DEF Order

LEMMA OrderSkip ==
  ASSUME Typed, Queue, Order, ~overlap, NEW r \in Runs, Skips(r)
  PROVE  Order'
<1>1. /\ Alone(r) /\ UNCHANGED <<inbox, conf, era, overlap>> /\ cli'[r].era = cli[r].era /\ At(r, "set")'
      /\ cli'[r].pos = cli[r].pos + 1 /\ cli'[r].given = cli[r].given
      /\ At(r, "set") /\ cli[r].pos \in 1..4 /\ ~Accepted(cli[r].given[Pairs[cli[r].pos]])
  BY DEF Skips, At, Ready, Key
<1>2. Current /\ Sorted /\ OwnerNext /\ \A s \in Runs : cli[s].era = era => Done(s)
  BY DEF Order
<1>3. Current' /\ Sorted' /\ OwnerNext'
  BY <1>1, <1>2 DEF Current, Sorted, OwnerNext, Slots, Alone, At
<1>4. ASSUME NEW s \in Runs, cli'[s].era = era
      PROVE  Done(s)'
  <2>1. s = r /\ cli[r].era = era
    BY <1>1, <1>2, <1>4, OnlyOne DEF Alone
  <2>2. ASSUME NEW p \in 1..4, p < cli'[r].pos
        PROVE  Heeded(r, p)'
    <3>1. unseen' = TRUE
      BY DEF Skips
    <3>2. CASE ~Accepted(cli[r].given[Pairs[p]])
      BY <1>1, <3>1, <3>2 DEF Heeded
    <3>3. CASE Accepted(cli[r].given[Pairs[p]])
      <4>1. p < cli[r].pos
        BY <1>1, <2>2, <3>3
      <4>2. IsSet(r, p)
        BY <1>2, <2>1, <3>3, <4>1 DEF Done, Heeded
      <4> QED
        BY <1>1, <3>3, <4>2 DEF Heeded, IsSet, Slots
    <3> QED
      BY <3>2, <3>3
  <2> QED
    BY <2>1, <2>2 DEF Done
<1> QED
  BY <1>1, <1>3, <1>4 DEF Order

\* A call that is handled: it is older than what is set after it, or the very last.
LEMMA OrderAnswer ==
  ASSUME Typed, Queue, Order, ~overlap, Answers
  PROVE  Order'
<1>1. PICK e \in Pending :
         /\ 1 \in Slots /\ e = inbox[1] /\ e.run \in Runs /\ e.key \in Keys /\ e.era \in 1..era
         /\ inbox' = Tail(inbox) /\ Left(1)
         /\ conf' = [conf EXCEPT ![e.key] = [era |-> e.era, as |-> e.as]]
         /\ UNCHANGED <<era, overlap, unseen>>
         /\ \/ cli[e.run].call = "sent" /\ Hears(e.run) /\ SameCall(e, cli[e.run])
            \/ cli' = cli
         /\ \A i \in 1..Len(inbox') : inbox'[i].run # e.run
  BY Handled
<1>2. /\ \A i \in Slots' : i + 1 \in Slots /\ inbox'[i] = inbox[i + 1]
      /\ Slots \subseteq Nat /\ Slots' \subseteq Nat /\ \A i \in Slots' : 1 <= i
  BY <1>1 DEF Left, Slots
<1>3. Current /\ Sorted /\ OwnerNext /\ \A s \in Runs : cli[s].era = era => Done(s)
  BY DEF Order
<1>4. conf \in [Keys -> [era : Nat, as : Arriving]] /\ "owner_address" \in Keys /\ era \in Nat
  BY DEF Typed, TypeOK, Keys
<1>5. Current'
  BY <1>1, <1>3 DEF Current, Hears, Alone, At
<1>6. Sorted'
  <2>1. ASSUME NEW i \in Slots', NEW j \in Slots', i < j
        PROVE  inbox'[i].era <= inbox'[j].era
    <3>1. i + 1 < j + 1
      BY <1>2, <2>1
    <3> QED
      BY <1>2, <1>3, <3>1 DEF Sorted
  <2> QED
    BY <2>1 DEF Sorted
<1>7. \A i \in Slots' : e.era <= inbox'[i].era
  <2>1. ASSUME NEW i \in Slots'
        PROVE  e.era <= inbox'[i].era
    <3>1. i + 1 \in Slots /\ 1 < i + 1 /\ inbox'[i] = inbox[i + 1]
      BY <1>2
    <3>2. 1 \in Slots /\ e = inbox[1]
      BY <1>1
    <3>3. inbox[1].era <= inbox[i + 1].era
      BY <1>3, <3>1, <3>2 DEF Sorted
    <3> QED
      BY <3>1, <3>2, <3>3
  <2> QED
    BY <2>1
<1>8. OwnerNext'
  <2>1. CASE e.key = "owner_address"
    <3>1. conf'["owner_address"].era = e.era
      BY <1>1, <1>4, <2>1
    <3> QED
      BY <1>7, <3>1 DEF OwnerNext
  <2>2. CASE e.key # "owner_address"
    <3>1. conf'["owner_address"] = conf["owner_address"]
      BY <1>1, <1>4, <2>2
    <3> QED
      BY <1>2, <1>3, <3>1 DEF OwnerNext
  <2> QED
    BY <2>1, <2>2
<1>9. ASSUME NEW s \in Runs, cli'[s].given = cli[s].given, NEW p \in 1..4, IsSet(s, p)
      PROVE  IsSet(s, p)'
  <2>1. e.key # Pairs[p] /\ Pairs[p] \in Keys
    BY <1>1, <1>9, KeyType DEF IsSet
  <2>2. conf'[Pairs[p]] = conf[Pairs[p]]
    BY <1>1, <1>4, <2>1
  <2> QED
    BY <1>1, <1>2, <1>9, <2>2 DEF IsSet
<1>10. ASSUME NEW s \in Runs, cli'[s].era = era
       PROVE  Done(s)'
  <2>1. CASE cli' = cli
    BY <1>1, <1>3, <1>9, <1>10, <2>1 DEF Done, Heeded
  <2>2. CASE cli[e.run].call = "sent" /\ Hears(e.run) /\ SameCall(e, cli[e.run])
    <3>1. At(e.run, "set") /\ cli[e.run].pos \in 1..4 /\ cli[e.run] \in Commands
      BY <1>1, <2>2, Waits, SettingRun
    <3>2. s = e.run /\ cli[s].era = era /\ era # 0
      BY <1>1, <1>3, <1>10, <2>2, <3>1, OnlyOne DEF Hears, Alone
    <3>3. /\ e.era = era /\ e.key = Pairs[cli[s].pos] /\ e.as = CallExpr[cli[s].given[e.key]][1]
          /\ Accepted(cli[s].given[e.key])
      BY <2>2, <3>2 DEF SameCall
    <3>4. Slots' = {}
      <4>1. ASSUME NEW i \in Slots'
            PROVE  FALSE
        <5>1. inbox'[i].era <= era
          BY <1>2 DEF Queue, Numbered
        <5>2. inbox'[i].era = era
          BY <1>2, <1>4, <1>7, <3>3, <5>1 DEF Queue, Numbered
        <5>3. inbox'[i].run = s
          BY <1>2, <3>2, <5>2 DEF Queue, Unique
        <5> QED
          BY <1>1, <3>2, <5>3 DEF Slots
      <4> QED
        BY <4>1
    <3>5. ASSUME NEW p \in 1..4, p < cli'[s].pos
          PROVE  Heeded(s, p)'
      <4>1. cli'[s].pos = cli[s].pos + 1 /\ cli'[s].given = cli[s].given
        BY <2>2, <3>2 DEF Hears
      <4>2. CASE p = cli[s].pos
        <5>1. conf'[Pairs[p]] = [era |-> era, as |-> CallExpr[cli[s].given[Pairs[p]]][1]]
          BY <1>1, <1>4, <3>3, <4>2
        <5> QED
          BY <1>1, <3>3, <3>4, <4>1, <4>2, <5>1 DEF Heeded, IsSet
      <4>3. CASE p # cli[s].pos
        <5>1. p < cli[s].pos
          BY <3>1, <3>2, <3>5, <4>1, <4>3
        <5>2. Heeded(s, p)
          BY <1>3, <3>2, <5>1 DEF Done
        <5> QED
          BY <1>1, <1>9, <4>1, <5>2 DEF Heeded
      <4> QED
        BY <4>2, <4>3
    <3> QED
      BY <3>5 DEF Done
  <2> QED
    BY <1>1, <2>1, <2>2
<1> QED
  BY <1>1, <1>5, <1>6, <1>8, <1>10 DEF Order

LEMMA OrderStep ==
  ASSUME Typed, Queue, Order, Kinds
  PROVE  Order'
<1>1. overlap => overlap' \/ (\E r \in Runs : Begins(r))
  BY DEF Kinds, Calms, Begins, Sends, Skips, Answers, Rests, settings
<1>2. CASE overlap
  BY <1>1, <1>2, OrderBegin DEF Order
<1>3. CASE ~overlap
  <2>1. ASSUME NEW r \in Runs, Calms(r)
        PROVE  Order'
    <3>1. UNCHANGED <<inbox, conf, era, overlap, unseen>>
      BY <2>1 DEF Calms, settings
    <3>2. Left(0)
      BY <3>1, Dropped DEF Typed
    <3> QED
      BY <1>3, <2>1, <3>1, <3>2, CalmRuns, OrderLeft
  <2>2. ASSUME Rests
        PROVE  Order'
    <3>1. UNCHANGED <<cli, conf, era, overlap, unseen>> /\ Left(0)
      BY <2>2, Dropped DEF Rests, Typed
    <3>2. \A s \in Runs : Rested(s)
      BY <3>1 DEF Rested
    <3> QED
      BY <1>3, <3>1, <3>2, OrderLeft
  <2> QED
    BY <1>3, <2>1, <2>2, OrderBegin, OrderSend, OrderSkip, OrderAnswer DEF Kinds
<1> QED
  BY <1>2, <1>3

LEMMA OrderInit == Init => Order
<1> SUFFICES ASSUME Init
             PROVE  Order
  OBVIOUS
<1>1. /\ \A r \in Runs : cli[r].era = 0 /\ cli[r].pos = 1 /\ Stage(cli[r]) = "idle"
      /\ Slots = {}
  BY InitialRuns
<1>2. Current /\ Sorted /\ OwnerNext
  BY <1>1 DEF Current, Sorted, OwnerNext, At
<1>3. \A r \in Runs : Done(r)
  BY <1>1 DEF Done
<1> QED
  BY <1>2, <1>3 DEF Order

\* A run that has said "Configuration complete" leaves its own values behind, as far as they
\* can arrive and no refusal went unseen, whatever calls were given up before it and whatever
\* daemons and runs end meanwhile.
THEOREM UpConfiguredAsGiven == Spec => []ConfiguredAsGiven
<1>1. Init => Typed /\ Queue /\ Order
  BY TypedInit, QueueInit, OrderInit
<1>2. Typed /\ Queue /\ Order /\ [Next]_vars => (Typed /\ Queue /\ Order)'
  BY TypedStep, KindsOfSteps, QueueStep, OrderStep
<1>3. Typed /\ Order => ConfiguredAsGiven
  <2>1. \A k \in Keys : \E p \in 1..4 : k = Pairs[p]
    BY DEF Keys, Pairs
  <2> SUFFICES ASSUME Typed, Order,
                      NEW r \in Runs, cli[r].pos = 5, cli[r].era = era, ~overlap, NEW k \in Keys
               PROVE  /\ cli[r].given[k] \in {"text", "number"} => conf[k] = [era |-> era, as |-> "same"]
                      /\ ~unseen => conf[k].era = era
    BY DEF ConfiguredAsGiven
  <2>2. Done(r) /\ cli[r].given[k] \in Forms
    BY DEF Order, Typed, TypeOK, Commands
  <2>3. PICK p \in 1..4 : k = Pairs[p]
    BY <2>1
  <2>4. Heeded(r, p)
    BY <2>2 DEF Done
  <2>5. Accepted(cli[r].given[k]) => conf[k] = [era |-> era, as |-> CallExpr[cli[r].given[k]][1]]
    BY <2>3, <2>4 DEF Heeded, IsSet
  <2>6. ~unseen => Accepted(cli[r].given[k])
    BY <2>3, <2>4 DEF Heeded
  <2> QED
    BY <2>2, <2>5, <2>6, Arrival
<1> QED
  BY <1>1, <1>2, <1>3, PTL DEF Spec

(***************************************************************************)
(* The owner first.                                                        *)
(***************************************************************************)

\* Every call for a limit comes after its owner, and a run past the first key has
\* set the owner.
OwnerKnown ==
  /\ \A k \in Keys : conf[k].era <= conf["owner_address"].era
  /\ \A i \in Slots : inbox[i].key # "owner_address" => inbox[i].era <= conf["owner_address"].era
  /\ \A r \in Runs : At(r, "set") /\ cli[r].pos > 1 => conf["owner_address"].era = era
Owner == ~overlap /\ ~unseen => OwnerKnown

LEMMA OwnerLeft ==
  ASSUME Typed, OwnerKnown, UNCHANGED <<conf, era>>, NEW d, Left(d), \A s \in Runs : Rested(s)
  PROVE  OwnerKnown'
<1>1. \A i \in Slots' : i + d \in Slots /\ inbox'[i] = inbox[i + d]
  BY DEF Left, Slots
<1>2. \A r \in Runs : At(r, "set")' => At(r, "set") /\ cli'[r].pos = cli[r].pos
  BY RestedEra
<1> QED
  BY <1>1, <1>2 DEF OwnerKnown

LEMMA OwnerAnswer ==
  ASSUME Typed, Queue, Order, ~overlap, OwnerKnown, Answers
  PROVE  OwnerKnown'
<1>1. PICK e \in Pending :
         /\ 1 \in Slots /\ e = inbox[1] /\ e.run \in Runs /\ e.key \in Keys /\ e.era \in 1..era
         /\ inbox' = Tail(inbox) /\ Left(1)
         /\ conf' = [conf EXCEPT ![e.key] = [era |-> e.era, as |-> e.as]]
         /\ UNCHANGED <<era, overlap, unseen>>
         /\ \/ cli[e.run].call = "sent" /\ Hears(e.run) /\ SameCall(e, cli[e.run])
            \/ cli' = cli
         /\ \A i \in 1..Len(inbox') : inbox'[i].run # e.run
  BY Handled
<1>2. \A i \in Slots' : i + 1 \in Slots /\ inbox'[i] = inbox[i + 1]
  BY <1>1 DEF Left, Slots
<1>3. /\ conf \in [Keys -> [era : Nat, as : Arriving]] /\ "owner_address" \in Keys /\ era \in Nat
      /\ \A i \in Slots : inbox[i].era \in Nat
  BY DEF Typed, TypeOK, Keys, Queue, Numbered
<1>4. 1 \in Slots /\ e = inbox[1]
  BY <1>1
<1>5. /\ conf["owner_address"].era <= e.era
      /\ e.key # "owner_address" => e.era <= conf["owner_address"].era
  BY <1>4 DEF Order, OwnerNext, OwnerKnown
<1>6. /\ \A k \in Keys \ {e.key} : conf'[k] = conf[k]
      /\ conf'[e.key].era = e.era
  BY <1>1, <1>3
<1>7. conf'["owner_address"].era \in Nat /\ conf["owner_address"].era <= conf'["owner_address"].era
  BY <1>1, <1>3, <1>5, <1>6
<1>8. \A k \in Keys : conf'[k].era <= conf'["owner_address"].era
  <2>1. ASSUME NEW k \in Keys
        PROVE  conf'[k].era <= conf'["owner_address"].era
    <3>1. CASE k = e.key
      BY <1>3, <1>5, <1>6, <1>7, <3>1
    <3>2. CASE k # e.key
      BY <1>3, <1>6, <1>7, <3>2 DEF OwnerKnown
    <3> QED
      BY <3>1, <3>2
  <2> QED
    BY <2>1
<1>9. ASSUME NEW i \in Slots', inbox'[i].key # "owner_address"
      PROVE  inbox'[i].era <= conf'["owner_address"].era
  <2>1. inbox'[i].era \in Nat /\ inbox'[i].era <= conf["owner_address"].era
    BY <1>2, <1>3, <1>9 DEF OwnerKnown
  <2> QED
    BY <1>3, <1>7, <2>1
<1>10. ASSUME NEW r \in Runs, At(r, "set")', cli'[r].pos > 1
       PROVE  conf'["owner_address"].era = era
  <2>1. conf'["owner_address"].era <= era
    BY <1>1, <1>3, <1>6 DEF Queue, Numbered
  <2>2. CASE At(r, "set") /\ cli[r].pos > 1
    <3>1. conf["owner_address"].era = era
      BY <2>2 DEF OwnerKnown
    <3> QED
      BY <1>3, <1>7, <2>1, <3>1
  <2>3. CASE ~(At(r, "set") /\ cli[r].pos > 1)
    <3>1. /\ cli[e.run].call = "sent" /\ Hears(e.run) /\ SameCall(e, cli[e.run])
          /\ r = e.run
      BY <1>1, <1>10, <2>3 DEF Hears, Alone, At
    <3>2. At(r, "set") /\ cli[r].pos \in 1..4
      BY <3>1, Waits
    <3>3. cli[r].pos = 1 /\ cli[r].era = era
      BY <2>3, <3>2 DEF Order, Current
    <3>4. e.key = "owner_address" /\ e.era = era
      BY <3>1, <3>3, KeyType DEF SameCall
    <3> QED
      BY <1>6, <3>4
  <2> QED
    BY <2>2, <2>3
<1> QED
  BY <1>1, <1>8, <1>9, <1>10 DEF OwnerKnown

LEMMA OwnerStep ==
  ASSUME Typed, Queue, Order, Owner, Kinds
  PROVE  Owner'
<1> SUFFICES ASSUME ~overlap', ~unseen'
             PROVE  OwnerKnown'
  BY DEF Owner
<1>1. ~overlap /\ ~unseen /\ \A r \in Runs : ~Skips(r)
  <2>1. \A r \in Runs : ~Skips(r)
    BY DEF Skips
  <2>2. overlap => overlap' \/ (\E r \in Runs : Begins(r))
    BY DEF Kinds, Calms, Begins, Sends, Skips, Answers, Rests, settings
  <2>3. unseen => unseen' \/ (\E r \in Runs : Skips(r))
    BY DEF Kinds, Calms, Begins, Sends, Skips, Answers, Rests, settings
  <2>4. ASSUME NEW r \in Runs, Begins(r)
        PROVE  ~overlap
    BY <2>4 DEF Begins
  <2> QED
    BY <2>1, <2>2, <2>3, <2>4
<1>2. OwnerKnown
  BY <1>1 DEF Owner
<1>3. ASSUME NEW r \in Runs, Calms(r)
      PROVE  OwnerKnown'
  <2>1. UNCHANGED <<inbox, conf, era>>
    BY <1>3 DEF Calms, settings
  <2>2. Left(0)
    BY <2>1, Dropped DEF Typed
  <2> QED
    BY <1>2, <1>3, <2>1, <2>2, CalmRuns, OwnerLeft
<1>4. ASSUME Rests
      PROVE  OwnerKnown'
  <2>1. UNCHANGED <<cli, conf, era>> /\ Left(0)
    BY <1>4, Dropped DEF Rests, Typed
  <2>2. \A s \in Runs : Rested(s)
    BY <2>1 DEF Rested
  <2> QED
    BY <1>2, <2>1, <2>2, OwnerLeft
<1>5. ASSUME NEW r \in Runs, Begins(r)
      PROVE  OwnerKnown'
  <2>1. Alone(r) /\ inbox' = inbox /\ conf' = conf /\ cli'[r].pos = 1 /\ \A s \in Runs : ~At(s, "set")
    BY <1>5 DEF Begins
  <2>2. ASSUME NEW s \in Runs, At(s, "set")', cli'[s].pos > 1
        PROVE  FALSE
    BY <2>1, <2>2 DEF Alone, At
  <2> QED
    BY <1>2, <2>1, <2>2 DEF OwnerKnown, Slots
<1>6. ASSUME NEW r \in Runs, Sends(r)
      PROVE  OwnerKnown'
  <2>1. PICK e \in Pending :
           /\ inbox' = Append(inbox, e)
           /\ e.run = r /\ e.era = cli[r].era /\ e.key = Pairs[cli[r].pos]
           /\ e.as = CallExpr[cli[r].given[e.key]][1] /\ Accepted(cli[r].given[e.key])
           /\ At(r, "set") /\ cli[r].pos \in 1..4 /\ cli[r].call = "none" /\ cli[r].out = "running"
           /\ cli[r].era \in Nat \ {0}
    BY <1>6, Sending
  <2>2. /\ Alone(r) /\ UNCHANGED <<conf, era>> /\ cli'[r].pos = cli[r].pos
    BY <1>6 DEF Sends
  <2>3. \A i \in Slots' : (i \in Slots /\ inbox'[i] = inbox[i]) \/ (i = Len(inbox) + 1 /\ inbox'[i] = e)
    BY <2>1, Added DEF Typed, Slots
  <2>4. e.era = era
    BY <1>1, <2>1 DEF Order, Current
  <2>5. e.key # "owner_address" => era <= conf["owner_address"].era
    <3>1. e.key # "owner_address" => cli[r].pos > 1
      BY <2>1, KeyType
    <3>2. era \in Nat
      BY DEF Typed, TypeOK
    <3> QED
      BY <1>2, <2>1, <3>1, <3>2 DEF OwnerKnown
  <2>6. \A i \in Slots' : inbox'[i].key # "owner_address" => inbox'[i].era <= conf["owner_address"].era
    BY <1>2, <2>3, <2>4, <2>5 DEF OwnerKnown
  <2>7. \A s \in Runs : At(s, "set")' /\ cli'[s].pos > 1 => conf["owner_address"].era = era
    BY <1>2, <2>1, <2>2 DEF OwnerKnown, Alone, At
  <2> QED
    BY <1>2, <2>2, <2>6, <2>7 DEF OwnerKnown
<1> QED
  BY <1>1, <1>2, <1>3, <1>4, <1>5, <1>6, OwnerAnswer DEF Kinds

LEMMA OwnerInit == Init => Owner
<1> SUFFICES ASSUME Init
             PROVE  OwnerKnown
  BY DEF Owner
<1>1. /\ \A r \in Runs : Stage(cli[r]) = "idle"
      /\ Slots = {} /\ \A k \in Keys : conf[k].era = 0
  BY InitialRuns
<1>2. "owner_address" \in Keys
  BY DEF Keys
<1> QED
  BY <1>1, <1>2 DEF OwnerKnown, At

\* No limit is newer than the owner it was meant for, wherever configurations end
\* half-way and however late their calls are handled.
THEOREM UpOwnerFirst == Spec => []OwnerFirst
<1>1. Init => Typed /\ Queue /\ Order /\ Owner
  BY TypedInit, QueueInit, OrderInit, OwnerInit
<1>2. Typed /\ Queue /\ Order /\ Owner /\ [Next]_vars => (Typed /\ Queue /\ Order /\ Owner)'
  BY TypedStep, KindsOfSteps, QueueStep, OrderStep, OwnerStep
<1>3. Owner => OwnerFirst
  BY DEF Owner, OwnerKnown, OwnerFirst
<1> QED
  BY <1>1, <1>2, <1>3, PTL DEF Spec
=============================================================================
