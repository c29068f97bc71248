---------------------------- MODULE AgentUpProofs ----------------------------
(***************************************************************************)
(* Proofs about AgentUp, for any number of runs, modules, options and      *)
(* faults.                                                                 *)
(***************************************************************************)
EXTENDS AgentUp, TLAPS

(***************************************************************************)
(* Where a run is.                                                         *)
(***************************************************************************)

\* The run has begun to configure.
Past(cmd, pc) == (cmd = "configure" /\ pc > 1) \/ (cmd \in {"up", "up_fund"} /\ pc > 7)

\* What holds of a run wherever it is.
Sound(c) ==
  /\ c.out = "failed" => c.era = 0 /\ c.cmd # "none"
  /\ c.era = 0 => c.pos = 1 /\ c.call = "none"
  /\ c.call = "sent" => Stage(c) = "set" /\ c.pos \in 1..4
  /\ c.out = "running" => (c.era # 0 <=> Past(c.cmd, c.pc))

Typed == TypeOK /\ \A r \in Runs : Sound(cli[r])

\* A run that has a stage is running, and where it has begun to configure.
LEMMA StageOf ==
  ASSUME NEW c \in Commands, Stage(c) \notin {"idle", "end"}
  PROVE  /\ c.cmd \in DOMAIN Plan /\ c.out = "running" /\ c.pc \in 1..10
         /\ c.pc <= Len(Plan[c.cmd]) /\ Stage(c) = Plan[c.cmd][c.pc]
         /\ Stage(c) = "pairs" => Past(c.cmd, c.pc + 1) /\ ~Past(c.cmd, c.pc)
         /\ Stage(c) = "pairs" <=> (c.cmd = "configure" /\ c.pc = 1) \/ (c.cmd \in {"up", "up_fund"} /\ c.pc = 7)
         /\ Stage(c) = "set" <=> (c.cmd = "configure" /\ c.pc = 2) \/ (c.cmd \in {"up", "up_fund"} /\ c.pc = 8)
         /\ Stage(c) = "set" => Past(c.cmd, c.pc)
         /\ Stage(c) # "pairs" => (Past(c.cmd, c.pc + 1) <=> Past(c.cmd, c.pc))
         /\ Stage(c) = "load" <=> c.pc = 5
         /\ Stage(c) = "read" => c.pc = 4
         /\ c.pc = 4 => Stage(c) = "read"
<1>1. /\ c.cmd \in DOMAIN Plan /\ c.out = "running" /\ c.pc <= Len(Plan[c.cmd])
      /\ Stage(c) = Plan[c.cmd][c.pc] /\ c.pc \in 1..11
  BY DEF Stage, Commands
<1>2. CASE c.cmd = "deploy"
  <2>1. Plan[c.cmd] = <<"dir", "spawn", "ready", "read", "load", "agent", "keep">>
    BY <1>2 DEF Plan
  <2>2. c.pc \in 1..7
    BY <1>1, <2>1
  <2> QED
    BY <1>1, <1>2, <2>1, <2>2 DEF Past
<1>3. CASE c.cmd = "deploy_detach"
  <2>1. Plan[c.cmd] = <<"dir", "spawn", "ready", "read", "load", "agent">>
    BY <1>3 DEF Plan
  <2>2. c.pc \in 1..6
    BY <1>1, <2>1
  <2> QED
    BY <1>1, <1>3, <2>1, <2>2 DEF Past
<1>4. CASE c.cmd \in {"configure", "fund", "status"}
  <2>1. CASE c.cmd = "configure"
    <3>1. Plan[c.cmd] = <<"pairs", "set">>
      BY <2>1 DEF Plan
    <3>2. c.pc \in 1..2
      BY <1>1, <3>1
    <3> QED
      BY <1>1, <2>1, <3>1, <3>2 DEF Past
  <2>2. CASE c.cmd \in {"fund", "status"}
    <3>1. Plan[c.cmd] \in {<<"dir", "fund">>, <<"dir", "status">>}
      BY <2>2 DEF Plan
    <3>2. c.pc \in 1..2
      BY <1>1, <3>1
    <3> QED
      BY <1>1, <2>2, <3>1, <3>2 DEF Past
  <2> QED
    BY <1>4, <2>1, <2>2
<1>5. CASE c.cmd = "up"
  <2>1. Plan[c.cmd] = <<"dir", "spawn", "ready", "read", "load", "agent", "pairs", "set">>
    BY <1>5 DEF Plan
  <2>2. c.pc \in 1..8
    BY <1>1, <2>1
  <2>3. Past(c.cmd, c.pc) <=> c.pc = 8
    BY <1>5, <2>2 DEF Past
  <2>4. Past(c.cmd, c.pc + 1) <=> c.pc \in 7..8
    BY <1>5, <2>2 DEF Past
  <2> QED
    BY <1>1, <1>5, <2>1, <2>2, <2>3, <2>4
<1>6. CASE c.cmd = "up_fund"
  <2>1. Plan[c.cmd] = <<"dir", "spawn", "ready", "read", "load", "agent", "pairs", "set", "dir", "fund">>
    BY <1>6 DEF Plan
  <2>2. c.pc \in 1..10
    BY <1>1, <2>1
  <2>3. Past(c.cmd, c.pc) <=> c.pc \in 8..10
    BY <1>6, <2>2 DEF Past
  <2>4. Past(c.cmd, c.pc + 1) <=> c.pc \in 7..10
    BY <1>6, <2>2 DEF Past
  <2> QED
    BY <1>1, <1>6, <2>1, <2>2, <2>3, <2>4
<1> QED
  BY <1>1, <1>2, <1>3, <1>4, <1>5, <1>6 DEF Plan

(***************************************************************************)
(* What the steps do to a run.                                             *)
(***************************************************************************)

\* The other runs do not change.
Alone(r) == \A s \in Runs \ {r} : cli'[s] = cli[s]

\* The run gives up.
Quits(r) ==
  /\ cli'[r].out = "failed" /\ cli'[r].era = 0 /\ cli'[r].pos = 1 /\ cli'[r].call = "none"
  /\ Stage(cli'[r]) = "end"

\* It starts, or goes on without setting a key.
Starts(r) ==
  /\ cli[r].era = 0 /\ cli[r].pos = 1 /\ cli[r].call = "none" /\ cli[r].out = "running"
  /\ cli'[r].era = 0 /\ cli'[r].pos = 1 /\ cli'[r].call = "none" /\ cli'[r].out = "running"
  /\ Stage(cli'[r]) \notin {"set", "load"}
Keeps(r) ==
  /\ cli'[r].out = cli[r].out /\ cli'[r].era = cli[r].era /\ cli'[r].given = cli[r].given
  /\ cli'[r].pos = cli[r].pos /\ cli'[r].call = cli[r].call
  /\ Stage(cli'[r]) = "set" => Stage(cli[r]) = "set"

LEMMA Setting ==
  ASSUME TypeOK, NEW r \in Runs, NEW new \in Commands, Set(r, new)
  PROVE  cli' \in [Runs -> Commands] /\ cli'[r] = new /\ Alone(r)
BY DEF TypeOK, Set, Alone

LEMMA NewRuns ==
  ASSUME NEW cmd \in DOMAIN Plan \cup {"none"}, NEW out \in {"running", "failed"}
  PROVE  LET new == NewRun(cmd, out) IN
         /\ new \in Commands /\ new.cmd = cmd /\ new.out = out /\ new.pc = 1 /\ new.era = 0
         /\ new.pos = 1 /\ new.call = "none" /\ new.todo = {}
<1>1. NoOptions \in [Keys -> Forms]
  BY DEF NoOptions, Forms
<1>2. 0 \in 0..MaxRuns /\ {} \in SUBSET Dir
  BY UpAssumption
<1> QED
  BY <1>1, <1>2 DEF Commands, NewRun

LEMMA Failing ==
  ASSUME Typed, NEW r \in Runs, cli[r].cmd # "none", Fail(r)
  PROVE  cli' \in [Runs -> Commands] /\ Quits(r) /\ Alone(r) /\ Sound(cli'[r])
<1> DEFINE new == NewRun(cli[r].cmd, "failed")
<1>1. cli[r].cmd \in DOMAIN Plan \cup {"none"} /\ cli[r].cmd # "none"
  BY DEF Typed, TypeOK, Commands
<1>2. /\ new \in Commands /\ new.cmd = cli[r].cmd /\ new.out = "failed" /\ new.era = 0
      /\ new.pos = 1 /\ new.call = "none"
  BY <1>1, NewRuns
<1>3. Set(r, new)
  BY DEF Fail
<1> HIDE DEF new
<1>4. cli' \in [Runs -> Commands] /\ cli'[r] = new /\ Alone(r)
  BY <1>2, <1>3, Setting DEF Typed
<1> QED
  BY <1>1, <1>2, <1>4 DEF Quits, Sound, Stage

LEMMA Starting ==
  ASSUME Typed, NEW r \in Runs, Start(r)
  PROVE  cli' \in [Runs -> Commands] /\ Starts(r) /\ Alone(r) /\ Sound(cli'[r])
<1>1. PICK cmd \in DOMAIN Plan : Set(r, NewRun(cmd, "running"))
  BY DEF Start
<1> DEFINE new == NewRun(cmd, "running")
<1>2. /\ new \in Commands /\ new.cmd = cmd /\ new.out = "running" /\ new.pc = 1 /\ new.era = 0
      /\ new.pos = 1 /\ new.call = "none"
  BY NewRuns
<1> HIDE DEF new
<1>3. cli' \in [Runs -> Commands] /\ cli'[r] = new /\ Alone(r)
  BY <1>1, <1>2, Setting DEF Typed, new
<1>4. cli[r] \in Commands /\ Sound(cli[r]) /\ cli[r].cmd = "none"
  BY DEF Typed, TypeOK, Start
<1>5. cli[r].out = "running"
  BY <1>4 DEF Sound, Commands
<1>6. cli[r].era = 0
  BY <1>4, <1>5 DEF Sound, Past
<1>7. Stage(new) \notin {"set", "load"}
  BY <1>2, StageOf
<1>8. Sound(new)
  BY <1>2 DEF Sound, Past
<1> QED
  BY <1>3, <1>4, <1>2, <1>5, <1>6, <1>7, <1>8 DEF Starts, Sound

LEMMA Going ==
  ASSUME Typed, NEW r \in Runs, Stage(cli[r]) \notin {"idle", "end", "pairs"}, cli[r].call = "none",
         NEW new, new \in {[cli[r] EXCEPT !.pc = @ + 1], [cli[r] EXCEPT !.todo = Dir, !.pc = @ + 1]},
         Set(r, new)
  PROVE  /\ cli' \in [Runs -> Commands] /\ Keeps(r) /\ Alone(r) /\ Sound(cli'[r])
         /\ cli'[r] = new /\ cli'[r].pc = cli[r].pc + 1
<1>1. /\ cli[r] \in Commands /\ cli[r].pc \in 1..10 /\ cli[r].out = "running" /\ Sound(cli[r])
      /\ Past(cli[r].cmd, cli[r].pc + 1) <=> Past(cli[r].cmd, cli[r].pc)
  BY StageOf DEF Typed, TypeOK
<1>2. /\ new \in Commands /\ new.cmd = cli[r].cmd /\ new.out = cli[r].out /\ new.pc = cli[r].pc + 1
      /\ new.era = cli[r].era /\ new.given = cli[r].given /\ new.pos = cli[r].pos
      /\ new.call = cli[r].call
  <2>1. CASE new = [cli[r] EXCEPT !.pc = @ + 1]
    BY <1>1, <2>1 DEF Commands
  <2>2. CASE new = [cli[r] EXCEPT !.todo = Dir, !.pc = @ + 1]
    <3>1. /\ new.cmd = cli[r].cmd /\ new.out = cli[r].out /\ new.pc = cli[r].pc + 1
          /\ new.era = cli[r].era /\ new.given = cli[r].given /\ new.pos = cli[r].pos
          /\ new.call = cli[r].call /\ new.todo = Dir
      BY <1>1, <2>2 DEF Commands
    <3>2. new \in Commands
      <4> DEFINE mid == [cli[r] EXCEPT !.todo = Dir]
      <4>1. mid \in Commands /\ mid.pc = cli[r].pc
        BY <1>1 DEF Commands
      <4>2. new = [mid EXCEPT !.pc = @ + 1]
        BY <2>2
      <4> HIDE DEF mid
      <4> QED
        BY <1>1, <4>1, <4>2 DEF Commands
    <3> QED
      BY <3>1, <3>2
  <2> QED
    BY <2>1, <2>2
<1>3. cli' \in [Runs -> Commands] /\ cli'[r] = new /\ Alone(r)
  BY <1>2, Setting DEF Typed
<1>4. Sound(new)
  BY <1>1, <1>2 DEF Sound
<1>5. Stage(new) = "set" => Stage(cli[r]) = "set"
  BY <1>1, <1>2, StageOf
<1> QED
  BY <1>1, <1>2, <1>3, <1>4, <1>5 DEF Keeps

LEMMA Loading ==
  ASSUME Typed, NEW r \in Runs, At(r, "load"), NEW n, Set(r, [cli[r] EXCEPT !.todo = @ \ {n}])
  PROVE  /\ cli' \in [Runs -> Commands] /\ Keeps(r) /\ Alone(r) /\ Sound(cli'[r])
         /\ cli'[r].todo = cli[r].todo \ {n}
<1> DEFINE new == [cli[r] EXCEPT !.todo = @ \ {n}]
<1>1. cli[r] \in Commands /\ Sound(cli[r])
  BY DEF Typed, TypeOK
<1>2. /\ new \in Commands /\ new.cmd = cli[r].cmd /\ new.out = cli[r].out /\ new.pc = cli[r].pc
      /\ new.era = cli[r].era /\ new.given = cli[r].given /\ new.pos = cli[r].pos
      /\ new.call = cli[r].call /\ new.todo = cli[r].todo \ {n}
  BY <1>1 DEF Commands
<1>3. Set(r, new)
  OBVIOUS
<1> HIDE DEF new
<1>4. cli' \in [Runs -> Commands] /\ cli'[r] = new /\ Alone(r)
  BY <1>2, <1>3, Setting DEF Typed
<1>5. Stage(new) = Stage(cli[r])
  BY <1>2 DEF Stage
<1>6. Sound(new)
  BY <1>1, <1>2, <1>5 DEF Sound
<1> QED
  BY <1>2, <1>4, <1>5, <1>6 DEF Keeps

\* The steps that set up and make a configuration.
Begins(r) ==
  /\ Alone(r) /\ Stage(cli[r]) = "pairs" /\ Stage(cli'[r]) = "set"
  /\ cli'[r].out = "running" /\ cli'[r].era = era + 1 /\ cli'[r].pos = 1 /\ cli'[r].call = "none"
  /\ era' = era + 1
  /\ overlap' = (overlap \/ \E s \in Runs : At(s, "set"))
  /\ UNCHANGED <<inbox, conf, unseen>>

Sends(r) ==
  /\ Alone(r) /\ Ready(r) /\ Accepted(cli[r].given[Key(r)]) /\ Stage(cli'[r]) = "set"
  /\ cli'[r].out = cli[r].out /\ cli'[r].era = cli[r].era /\ cli'[r].given = cli[r].given
  /\ cli'[r].pos = cli[r].pos /\ cli'[r].call = "sent"
  /\ inbox' = Append(inbox, [run |-> r, key |-> Key(r), era |-> cli[r].era,
                              as |-> CallExpr[cli[r].given[Key(r)]][1]])
  /\ UNCHANGED <<conf, era, overlap, unseen>>

Skips(r) ==
  /\ Alone(r) /\ Ready(r) /\ ~Accepted(cli[r].given[Key(r)]) /\ Stage(cli'[r]) = "set"
  /\ cli'[r].out = cli[r].out /\ cli'[r].era = cli[r].era /\ cli'[r].given = cli[r].given
  /\ cli'[r].pos = cli[r].pos + 1 /\ cli'[r].call = cli[r].call
  /\ unseen' = TRUE
  /\ UNCHANGED <<inbox, conf, era, overlap>>

Hears(r) ==
  /\ Alone(r) /\ Stage(cli'[r]) = Stage(cli[r])
  /\ cli'[r].out = cli[r].out /\ cli'[r].era = cli[r].era /\ cli'[r].given = cli[r].given
  /\ cli'[r].pos = cli[r].pos + 1 /\ cli'[r].call = "none"

LEMMA Beginning ==
  ASSUME Typed, NEW r \in Runs, At(r, "pairs"), NEW given \in Values,
         Set(r, [cli[r] EXCEPT !.pc = @ + 1, !.given = given, !.era = era + 1]),
         era' = era + 1, overlap' = (overlap \/ \E s \in Runs : At(s, "set")),
         UNCHANGED <<inbox, conf, unseen>>
  PROVE  cli' \in [Runs -> Commands] /\ Begins(r) /\ Sound(cli'[r])
<1>1. /\ cli[r] \in Commands /\ Sound(cli[r]) /\ era \in Nat /\ given \in [Keys -> Forms]
      /\ Stage(cli[r]) = "pairs"
  BY UpAssumption DEF Typed, TypeOK, At
<1>2. /\ cli[r].out = "running" /\ cli[r].pc \in 1..10
      /\ Past(cli[r].cmd, cli[r].pc + 1) /\ ~Past(cli[r].cmd, cli[r].pc)
      /\ (cli[r].cmd = "configure" /\ cli[r].pc = 1) \/ (cli[r].cmd \in {"up", "up_fund"} /\ cli[r].pc = 7)
  BY <1>1, StageOf
<1>3. cli[r].era = 0 /\ cli[r].pos = 1 /\ cli[r].call = "none"
  BY <1>1, <1>2 DEF Sound
<1> DEFINE one == [cli[r] EXCEPT !.pc = @ + 1]
           two == [one EXCEPT !.given = given]
           new == [two EXCEPT !.era = era + 1]
<1>4. /\ one \in Commands /\ one.pc = cli[r].pc + 1 /\ one.cmd = cli[r].cmd /\ one.out = "running"
      /\ one.pos = 1 /\ one.call = "none"
  BY <1>1, <1>2, <1>3 DEF Commands
<1>5. Set(r, new)
  OBVIOUS
<1> HIDE DEF one
<1>6. /\ two \in Commands /\ two.pc = cli[r].pc + 1 /\ two.cmd = cli[r].cmd /\ two.out = "running"
      /\ two.pos = 1 /\ two.call = "none"
  BY <1>1, <1>4 DEF Commands
<1> HIDE DEF two
<1>7. /\ new \in Commands /\ new.pc = cli[r].pc + 1 /\ new.cmd = cli[r].cmd /\ new.out = "running"
      /\ new.pos = 1 /\ new.call = "none" /\ new.era = era + 1
  BY <1>1, <1>6 DEF Commands
<1> HIDE DEF new
<1>8. cli' \in [Runs -> Commands] /\ cli'[r] = new /\ Alone(r)
  BY <1>5, <1>7, Setting DEF Typed
<1>9. Stage(new) = "set"
  <2>1. CASE new.cmd = "configure" /\ new.pc = 2
    <3>1. Plan[new.cmd] = <<"pairs", "set">>
      BY <2>1 DEF Plan
    <3> QED
      BY <1>7, <2>1, <3>1 DEF Stage
  <2>2. CASE new.cmd = "up" /\ new.pc = 8
    <3>1. Plan[new.cmd] = <<"dir", "spawn", "ready", "read", "load", "agent", "pairs", "set">>
      BY <2>2 DEF Plan
    <3> QED
      BY <1>7, <2>2, <3>1 DEF Stage
  <2>3. CASE new.cmd = "up_fund" /\ new.pc = 8
    <3>1. Plan[new.cmd] = <<"dir", "spawn", "ready", "read", "load", "agent", "pairs", "set", "dir", "fund">>
      BY <2>3 DEF Plan
    <3> QED
      BY <1>7, <2>3, <3>1 DEF Stage
  <2> QED
    BY <1>2, <1>7, <2>1, <2>2, <2>3
<1>10. Sound(new)
  BY <1>1, <1>2, <1>7 DEF Sound
<1> QED
  BY <1>1, <1>7, <1>8, <1>9, <1>10 DEF Begins

\* What a run at "set" is.
LEMMA SettingRun ==
  ASSUME Typed, NEW r \in Runs, At(r, "set")
  PROVE  /\ cli[r] \in Commands /\ cli[r].out = "running" /\ cli[r].cmd # "none"
         /\ cli[r].era # 0 /\ Past(cli[r].cmd, cli[r].pc)
<1>1. cli[r] \in Commands /\ Sound(cli[r]) /\ Stage(cli[r]) = "set"
  BY DEF Typed, TypeOK, At
<1>2. cli[r].out = "running" /\ cli[r].cmd \in DOMAIN Plan /\ Past(cli[r].cmd, cli[r].pc)
  BY <1>1, StageOf
<1>3. "none" \notin DOMAIN Plan
  BY DEF Plan
<1> QED
  BY <1>1, <1>2, <1>3 DEF Sound

LEMMA KeyType ==
  ASSUME NEW p \in 1..4
  PROVE  Pairs[p] \in Keys /\ (Pairs[p] = "owner_address" <=> p = 1)
BY DEF Pairs, Keys

LEMMA Distinct ==
  ASSUME NEW p \in 1..4, NEW q \in 1..4, Pairs[p] = Pairs[q]
  PROVE  p = q
BY DEF Pairs

LEMMA Arrival ==
  ASSUME NEW form \in Forms
  PROVE  /\ Accepted(form) => CallExpr[form][1] \in Arriving
         /\ form \in {"text", "number"} => Accepted(form) /\ CallExpr[form][1] = "same"
<1>1. CASE form \in {"text", "number"}
  <2>1. CallExpr["text"] = <<"same">> /\ CallExpr["number"] = <<"same">>
    BY DEF CallExpr
  <2>2. Len(<<"same">>) = 1 /\ <<"same">>[1] = "same" /\ "same" # "no string"
    OBVIOUS
  <2>3. Accepted(form) /\ CallExpr[form][1] = "same"
    BY <1>1, <2>1, <2>2, Zenon DEF Accepted
  <2> QED
    BY <2>3 DEF Arriving
<1>2. CASE form = "control"
  <2>1. CallExpr[form] = <<"escaped">>
    BY <1>2 DEF CallExpr
  <2>2. <<"escaped">>[1] = "escaped"
    OBVIOUS
  <2>3. CallExpr[form][1] = "escaped"
    BY <2>1, <2>2, Zenon
  <2> QED
    BY <1>2, <2>3 DEF Arriving
<1>3. CASE form \in {"comma", "edge"}
  <2>1. CallExpr["comma"] = <<"part", "part">> /\ CallExpr["edge"] = <<>>
    BY DEF CallExpr
  <2>2. Len(<<"part", "part">>) # 1 /\ Len(<<>>) # 1
    OBVIOUS
  <2>3. ~Accepted(form)
    BY <1>3, <2>1, <2>2, Zenon DEF Accepted
  <2> QED
    BY <1>3, <2>3
<1>4. CASE form = "quoted"
  <2>1. CallExpr[form] = <<"unquoted">>
    BY <1>4 DEF CallExpr
  <2>2. <<"unquoted">>[1] = "unquoted"
    OBVIOUS
  <2>3. CallExpr[form][1] = "unquoted"
    BY <2>1, <2>2, Zenon
  <2> QED
    BY <1>4, <2>3 DEF Arriving
<1>5. CASE form = "literal"
  <2>1. CallExpr["literal"] = <<"no string">>
    BY DEF CallExpr
  <2>2. <<"no string">>[1] = "no string"
    OBVIOUS
  <2>3. ~Accepted(form)
    BY <1>5, <2>1, <2>2, Zenon DEF Accepted
  <2> QED
    BY <1>5, <2>3
<1> QED
  BY <1>1, <1>2, <1>3, <1>4, <1>5 DEF Forms

LEMMA Calling ==
  ASSUME Typed, NEW r \in Runs, Ready(r), UNCHANGED <<conf, era, overlap>>,
         \/ /\ Accepted(cli[r].given[Key(r)])
            /\ inbox' = Append(inbox, [run |-> r, key |-> Key(r), era |-> cli[r].era,
                                        as |-> CallExpr[cli[r].given[Key(r)]][1]])
            /\ Set(r, [cli[r] EXCEPT !.call = "sent"])
            /\ UNCHANGED unseen
         \/ /\ ~Accepted(cli[r].given[Key(r)])
            /\ Set(r, [cli[r] EXCEPT !.pos = @ + 1])
            /\ unseen' = TRUE
            /\ UNCHANGED inbox
  PROVE  cli' \in [Runs -> Commands] /\ (Sends(r) \/ Skips(r)) /\ Sound(cli'[r])
<1>1. Ready(r) /\ At(r, "set") /\ cli[r].pos \in 1..4 /\ cli[r].call = "none"
  BY DEF Ready
<1>2. /\ cli[r] \in Commands /\ cli[r].out = "running" /\ cli[r].era # 0 /\ Sound(cli[r])
      /\ Stage(cli[r]) = "set"
  BY <1>1, SettingRun DEF Typed, At
<1>3. CASE /\ Accepted(cli[r].given[Key(r)])
           /\ inbox' = Append(inbox, [run |-> r, key |-> Key(r), era |-> cli[r].era,
                                       as |-> CallExpr[cli[r].given[Key(r)]][1]])
           /\ Set(r, [cli[r] EXCEPT !.call = "sent"])
           /\ UNCHANGED <<conf, era, overlap, unseen>>
  <2> DEFINE new == [cli[r] EXCEPT !.call = "sent"]
  <2>1. /\ new \in Commands /\ new.cmd = cli[r].cmd /\ new.pc = cli[r].pc /\ new.out = cli[r].out
        /\ new.given = cli[r].given /\ new.pos = cli[r].pos /\ new.call = "sent" /\ new.era = cli[r].era
    BY <1>2 DEF Commands
  <2>2. Set(r, new)
    BY <1>3
  <2> HIDE DEF new
  <2>3. cli' \in [Runs -> Commands] /\ cli'[r] = new /\ Alone(r)
    BY <2>1, <2>2, Setting DEF Typed
  <2>4. Stage(new) = "set"
    BY <1>2, <2>1 DEF Stage
  <2>5. Sound(new)
    BY <1>1, <1>2, <2>1, <2>4 DEF Sound
  <2> QED
    BY <1>1, <1>3, <2>1, <2>3, <2>4, <2>5 DEF Sends
<1>4. CASE /\ ~Accepted(cli[r].given[Key(r)])
           /\ Set(r, [cli[r] EXCEPT !.pos = @ + 1])
           /\ unseen' = TRUE
           /\ UNCHANGED <<inbox, conf, era, overlap>>
  <2> DEFINE new == [cli[r] EXCEPT !.pos = @ + 1]
  <2>1. /\ new \in Commands /\ new.cmd = cli[r].cmd /\ new.pc = cli[r].pc /\ new.out = cli[r].out
        /\ new.given = cli[r].given /\ new.pos = cli[r].pos + 1 /\ new.call = "none" /\ new.era = cli[r].era
    BY <1>1, <1>2 DEF Commands
  <2>2. Set(r, new)
    BY <1>4
  <2> HIDE DEF new
  <2>3. cli' \in [Runs -> Commands] /\ cli'[r] = new /\ Alone(r)
    BY <2>1, <2>2, Setting DEF Typed
  <2>4. Stage(new) = "set"
    BY <1>2, <2>1 DEF Stage
  <2>5. Sound(new)
    BY <1>1, <1>2, <2>1, <2>4 DEF Sound
  <2> QED
    BY <1>1, <1>4, <2>1, <2>3, <2>4, <2>5 DEF Skips
<1> QED
  BY <1>3, <1>4

LEMMA Answering ==
  ASSUME Typed, HandleConfigure
  PROVE  LET e == Head(inbox) IN
         /\ inbox # <<>> /\ e \in Pending /\ inbox' = Tail(inbox)
         /\ conf' = [conf EXCEPT ![e.key] = [era |-> e.era, as |-> e.as]]
         /\ UNCHANGED <<era, overlap, unseen>>
         /\ cli' \in [Runs -> Commands] /\ \A s \in Runs : Sound(cli'[s])
         /\ cli[e.run].call = "sent" => Hears(e.run)
         /\ cli[e.run].call # "sent" => cli' = cli
<1> DEFINE e == Head(inbox)
           c == cli[e.run]
<1>1. /\ inbox # <<>> /\ inbox' = Tail(inbox) /\ UNCHANGED <<era, overlap, unseen>>
      /\ conf' = [conf EXCEPT ![e.key] = [era |-> e.era, as |-> e.as]]
  BY DEF HandleConfigure
<1>2. e \in Pending
  BY <1>1 DEF Typed, TypeOK
<1>3. e.run \in Runs /\ c \in Commands /\ Sound(c) /\ cli \in [Runs -> Commands]
  BY <1>2 DEF Pending, Typed, TypeOK
<1>4. \/ c.call = "sent" /\ Set(e.run, [c EXCEPT !.call = "none", !.pos = @ + 1])
      \/ c.call # "sent" /\ cli' = cli
  BY DEF HandleConfigure
<1>5. CASE c.call = "sent"
  <2> DEFINE one == [c EXCEPT !.call = "none"]
             new == [one EXCEPT !.pos = @ + 1]
  <2>1. Stage(c) = "set" /\ c.pos \in 1..4 /\ c.era # 0
    BY <1>3, <1>5 DEF Sound
  <2>2. /\ one \in Commands /\ one.cmd = c.cmd /\ one.pc = c.pc /\ one.out = c.out
        /\ one.given = c.given /\ one.pos = c.pos /\ one.call = "none" /\ one.era = c.era
    BY <1>3 DEF Commands
  <2>3. Set(e.run, new)
    BY <1>4, <1>5
  <2> HIDE DEF one, e
  <2>4. /\ new \in Commands /\ new.cmd = c.cmd /\ new.pc = c.pc /\ new.out = c.out
        /\ new.given = c.given /\ new.pos = c.pos + 1 /\ new.call = "none" /\ new.era = c.era
    BY <2>1, <2>2 DEF Commands
  <2> HIDE DEF new
  <2>5. cli' \in [Runs -> Commands] /\ cli'[e.run] = new /\ Alone(e.run)
    BY <1>3, <2>3, <2>4, Setting DEF Typed
  <2>6. Stage(new) = "set"
    BY <2>1, <2>4 DEF Stage
  <2>7. Sound(new)
    BY <1>3, <2>1, <2>4, <2>6 DEF Sound
  <2>8. \A s \in Runs : Sound(cli'[s])
    BY <2>5, <2>7 DEF Alone, Typed
  <2>9. Hears(e.run)
    BY <2>1, <2>4, <2>5, <2>6 DEF Hears
  <2> QED
    BY <1>1, <1>2, <1>5, <2>5, <2>8, <2>9 DEF e
<1>6. CASE c.call # "sent"
  <2>1. cli' = cli
    BY <1>3, <1>4, <1>6
  <2> QED
    BY <1>1, <1>2, <1>3, <1>6, <2>1 DEF Typed
<1> QED
  BY <1>5, <1>6

(***************************************************************************)
(* Every step is of one of these kinds.                                    *)
(***************************************************************************)

Calms(r) == Alone(r) /\ (Quits(r) \/ Starts(r) \/ Keeps(r)) /\ UNCHANGED settings
Answers ==
  LET e == Head(inbox) IN
  /\ inbox # <<>> /\ e \in Pending /\ inbox' = Tail(inbox)
  /\ conf' = [conf EXCEPT ![e.key] = [era |-> e.era, as |-> e.as]]
  /\ UNCHANGED <<era, overlap, unseen>>
  /\ cli[e.run].call = "sent" => Hears(e.run)
  /\ cli[e.run].call # "sent" => cli' = cli
Rests == UNCHANGED <<cli, conf, era, overlap, unseen>> /\ inbox' \in {inbox, <<>>}

Kinds ==
  \/ \E r \in Runs : Calms(r) \/ Begins(r) \/ Sends(r) \/ Skips(r)
  \/ Answers
  \/ Rests

SoundRuns == cli' \in [Runs -> Commands] /\ \A s \in Runs : Sound(cli'[s])

\* A failing step.
LEMMA Failures ==
  ASSUME Typed, NEW r \in Runs, cli[r].cmd # "none", Fail(r), UNCHANGED settings
  PROVE  Calms(r) /\ SoundRuns
BY Failing DEF Calms, SoundRuns, Alone, Typed

\* A step that only goes on.
LEMMA Progress ==
  ASSUME Typed, NEW r \in Runs, Stage(cli[r]) \notin {"idle", "end", "pairs"}, cli[r].call = "none",
         Go(r), UNCHANGED settings
  PROVE  Calms(r) /\ SoundRuns
<1> DEFINE new == [cli[r] EXCEPT !.pc = @ + 1]
<1>1. Set(r, new)
  BY DEF Go
<1> HIDE DEF new
<1>2. new \in {[cli[r] EXCEPT !.pc = @ + 1], [cli[r] EXCEPT !.todo = Dir, !.pc = @ + 1]}
  BY DEF new
<1> QED
  BY <1>1, <1>2, Going DEF Calms, SoundRuns, Alone, Typed

\* A run outside "set" waits for no answer.
LEMMA NoneSent ==
  ASSUME Typed, NEW r \in Runs, Stage(cli[r]) \notin {"idle", "end"}
  PROVE  /\ cli[r].cmd # "none" /\ cli[r] \in Commands
         /\ Stage(cli[r]) # "set" => cli[r].call = "none"
<1>1. cli[r] \in Commands /\ Sound(cli[r])
  BY DEF Typed, TypeOK
<1>2. cli[r].cmd \in DOMAIN Plan
  BY <1>1, StageOf
<1>3. "none" \notin DOMAIN Plan
  BY DEF Plan
<1> QED
  BY <1>1, <1>2, <1>3 DEF Sound, Commands

LEMMA KindsOfSteps ==
  ASSUME Typed, [Next]_vars
  PROVE  Kinds /\ SoundRuns
<1>1. cli \in [Runs -> Commands] /\ \A s \in Runs : cli[s] \in Commands /\ Sound(cli[s])
  BY DEF Typed, TypeOK
<1>2. ASSUME NEW r \in Runs, Calms(r)
      PROVE  Kinds
  BY <1>2 DEF Kinds
<1>3. ASSUME NEW r \in Runs, Start(r)
      PROVE  Kinds /\ SoundRuns
  <2>1. UNCHANGED settings
    BY <1>3 DEF Start
  <2> QED
    BY <1>1, <1>2, <1>3, <2>1, Starting DEF Calms, SoundRuns, Alone
<1>4. ASSUME NEW r \in Runs, Canonicalize(r) \/ WaitForCapability(r) \/ Timeout(r)
             \/ ModulesTried(r) \/ WaitForDaemon(r) \/ WaitForChild(r) \/ Call(r) \/ SpawnDaemon(r)
      PROVE  Kinds /\ SoundRuns
  <2>1. (Go(r) \/ Fail(r)) /\ UNCHANGED settings
    BY <1>4 DEF Canonicalize, WaitForCapability, Timeout, ModulesTried, WaitForDaemon, WaitForChild,
                Call, SpawnDaemon
  <2>2. Stage(cli[r]) \in {"dir", "spawn", "ready", "agent", "load", "keep", "status", "fund"}
    BY <1>4 DEF Canonicalize, WaitForCapability, Timeout, ModulesTried, WaitForDaemon, WaitForChild,
                Call, SpawnDaemon, At
  <2> QED
    BY <1>2, <2>1, <2>2, NoneSent, Failures, Progress
<1>5. ASSUME NEW r \in Runs, ReadModulesDir(r)
      PROVE  Kinds /\ SoundRuns
  <2>1. Stage(cli[r]) = "read" /\ UNCHANGED settings
    BY <1>5 DEF ReadModulesDir, At
  <2>2. CASE Fail(r)
    BY <1>2, <2>1, <2>2, NoneSent, Failures
  <2>3. CASE ~Fail(r)
    <3> DEFINE new == [cli[r] EXCEPT !.todo = Dir, !.pc = @ + 1]
    <3>1. Set(r, new)
      BY <1>5, <2>3 DEF ReadModulesDir
    <3>2. new \in {[cli[r] EXCEPT !.pc = @ + 1], [cli[r] EXCEPT !.todo = Dir, !.pc = @ + 1]}
      OBVIOUS
    <3> HIDE DEF new
    <3>3. cli[r].call = "none"
      BY <2>1, NoneSent
    <3> QED
      BY <1>1, <1>2, <2>1, <3>1, <3>2, <3>3, Going DEF Calms, SoundRuns, Alone
  <2> QED
    BY <2>2, <2>3
<1>6. ASSUME NEW r \in Runs, LoadModule(r)
      PROVE  Kinds /\ SoundRuns
  <2>1. PICK n \in NextModule(r) : Set(r, [cli[r] EXCEPT !.todo = @ \ {n}])
    BY <1>6 DEF LoadModule
  <2>2. At(r, "load") /\ UNCHANGED settings
    BY <1>6 DEF LoadModule
  <2> QED
    BY <1>1, <1>2, <2>1, <2>2, Loading DEF Calms, SoundRuns, Alone
<1>7. ASSUME NEW r \in Runs, BeginConfigure(r)
      PROVE  Kinds /\ SoundRuns
  <2>1. At(r, "pairs") /\ UNCHANGED <<inbox, conf, unseen>>
    BY <1>7 DEF BeginConfigure
  <2>2. \/ \E given \in Values :
            /\ Set(r, [cli[r] EXCEPT !.pc = @ + 1, !.given = given, !.era = era + 1])
            /\ era' = era + 1
            /\ overlap' = (overlap \/ \E s \in Runs : At(s, "set"))
        \/ Fail(r) /\ UNCHANGED <<era, overlap>>
    BY <1>7 DEF BeginConfigure
  <2>3. CASE Fail(r) /\ UNCHANGED <<era, overlap>>
    <3>1. UNCHANGED settings /\ Stage(cli[r]) = "pairs"
      BY <2>1, <2>3 DEF At, settings
    <3> QED
      BY <1>2, <2>3, <3>1, NoneSent, Failures
  <2>4. ASSUME NEW given \in Values,
               Set(r, [cli[r] EXCEPT !.pc = @ + 1, !.given = given, !.era = era + 1]),
               era' = era + 1, overlap' = (overlap \/ \E s \in Runs : At(s, "set"))
        PROVE  Kinds /\ SoundRuns
    <3>1. cli' \in [Runs -> Commands] /\ Begins(r) /\ Sound(cli'[r])
      BY <2>1, <2>4, Beginning
    <3>2. SoundRuns
      BY <1>1, <3>1 DEF SoundRuns, Begins, Alone
    <3> QED
      BY <3>1, <3>2 DEF Kinds
  <2> QED
    BY <2>2, <2>3, <2>4
<1>8. ASSUME NEW r \in Runs, MetaConfigure(r)
      PROVE  Kinds /\ SoundRuns
  <2>1. Ready(r) /\ Stage(cli[r]) = "set" /\ UNCHANGED <<conf, era, overlap>>
    BY <1>8 DEF MetaConfigure, Ready, At
  <2> DEFINE Sending ==
               /\ Accepted(cli[r].given[Key(r)])
               /\ inbox' = Append(inbox, [run |-> r, key |-> Key(r), era |-> cli[r].era,
                                           as |-> CallExpr[cli[r].given[Key(r)]][1]])
               /\ Set(r, [cli[r] EXCEPT !.call = "sent"])
               /\ UNCHANGED unseen
             Skipping ==
               /\ ~Accepted(cli[r].given[Key(r)])
               /\ Set(r, [cli[r] EXCEPT !.pos = @ + 1])
               /\ unseen' = TRUE
               /\ UNCHANGED inbox
  <2>2. Sending \/ Skipping \/ (Fail(r) /\ UNCHANGED <<inbox, unseen>>)
    BY <1>8, Zenon DEF MetaConfigure
  <2>3. CASE Fail(r) /\ UNCHANGED <<inbox, unseen>>
    <3>1. UNCHANGED settings
      BY <2>1, <2>3 DEF settings
    <3> QED
      BY <1>2, <2>1, <2>3, <3>1, NoneSent, Failures
  <2>4. CASE Sending \/ Skipping
    <3>1. cli' \in [Runs -> Commands] /\ (Sends(r) \/ Skips(r)) /\ Sound(cli'[r])
      BY <2>1, <2>4, Calling
    <3>2. SoundRuns
      BY <1>1, <3>1 DEF SoundRuns, Sends, Skips, Alone
    <3> QED
      BY <3>1, <3>2 DEF Kinds
  <2> QED
    BY <2>2, <2>3, <2>4
<1>9. ASSUME NEW r \in Runs, Panic(r) \/ CallFails(r) \/ Interrupt(r)
      PROVE  Kinds /\ SoundRuns
  <2>1. Fail(r) /\ UNCHANGED settings
    BY <1>9 DEF Panic, CallFails, Interrupt
  <2>2. cli[r].cmd # "none"
    <3>1. CASE Stage(cli[r]) \in {"set", "fund"}
      BY <3>1, NoneSent
    <3>2. CASE cli[r].call = "sent"
      BY <1>1, <3>1, <3>2 DEF Sound
    <3>3. CASE Interrupt(r)
      BY <3>3 DEF Interrupt
    <3> QED
      BY <1>9, <3>1, <3>2, <3>3 DEF Panic, CallFails, Ready, At
  <2> QED
    BY <1>2, <2>1, <2>2, Failures
<1>10. ASSUME NEW r \in Runs, Configured(r)
       PROVE  Kinds /\ SoundRuns
  <2>1. Stage(cli[r]) = "set" /\ cli[r].pos = 5 /\ Go(r) /\ UNCHANGED settings
    BY <1>10 DEF Configured, At
  <2>2. cli[r].call = "none"
    BY <1>1, <2>1 DEF Sound, Commands
  <2> QED
    BY <1>2, <2>1, <2>2, Progress
<1>11. ASSUME NEW r \in Runs, DaemonStarts(r) \/ DaemonDies(r)
       PROVE  Kinds /\ SoundRuns
  <2>1. Rests
    BY <1>11 DEF DaemonStarts, DaemonDies, Rests, settings
  <2> QED
    BY <1>1, <2>1 DEF Kinds, SoundRuns, Rests
<1>12. CASE HandleConfigure
  BY <1>12, Answering DEF Kinds, Answers, SoundRuns
<1>13. CASE UNCHANGED vars
  BY <1>1, <1>13 DEF Kinds, Rests, SoundRuns, vars, settings
<1> QED
  BY <1>3, <1>4, <1>5, <1>6, <1>7, <1>8, <1>9, <1>10, <1>11, <1>12, <1>13 DEF Next, Step

(***************************************************************************)
(* Types.                                                                  *)
(***************************************************************************)

LEMMA HostTypes ==
  ASSUME TypeOK, [Next]_vars
  PROVE  /\ daemon' \in [Runs -> {"none", "starting", "running", "gone"}]
         /\ loaded' \in SUBSET Dir /\ warned' \in SUBSET Dir /\ faults' \in 0..MaxFaults
<1>1. /\ daemon \in [Runs -> {"none", "starting", "running", "gone"}]
      /\ loaded \in SUBSET Dir /\ warned \in SUBSET Dir /\ faults \in 0..MaxFaults
  BY DEF TypeOK
<1>2. Fault => faults' \in 0..MaxFaults
  BY <1>1, UpAssumption DEF Fault
<1>3. CASE UNCHANGED <<hosts, faults>>
  BY <1>1, <1>3 DEF hosts
<1>4. ASSUME NEW r \in Runs, Interrupt(r)
      PROVE  UNCHANGED hosts /\ Fault
  BY <1>4 DEF Interrupt
<1>5. ASSUME NEW r \in Runs, SpawnDaemon(r) \/ DaemonStarts(r)
      PROVE  /\ daemon' \in [Runs -> {"none", "starting", "running", "gone"}]
             /\ UNCHANGED <<loaded, warned, faults>>
  BY <1>1, <1>5 DEF SpawnDaemon, DaemonStarts
<1>6. ASSUME NEW r \in Runs, DaemonDies(r)
      PROVE  /\ daemon' \in [Runs -> {"none", "starting", "running", "gone"}]
             /\ loaded' \in SUBSET Dir /\ warned' \in SUBSET Dir /\ Fault
  BY <1>1, <1>6 DEF DaemonDies
<1>7. ASSUME NEW r \in Runs, LoadModule(r)
      PROVE  /\ UNCHANGED daemon /\ loaded' \in SUBSET Dir /\ warned' \in SUBSET Dir
             /\ UNCHANGED faults \/ Fault
  <2>1. PICK n \in NextModule(r) :
          /\ loaded' \in {loaded, loaded \cup {n}}
          /\ warned' \in {warned \ {n}, warned \cup {n}}
          /\ UNCHANGED faults \/ Fault
    BY <1>7 DEF LoadModule
  <2>2. n \in Dir
    BY DEF NextModule, TypeOK, Commands
  <2> QED
    BY <1>1, <1>7, <2>1, <2>2 DEF LoadModule
<1>8. ASSUME NEW r \in Runs,
             \/ Start(r) \/ Canonicalize(r) \/ WaitForCapability(r) \/ Timeout(r) \/ ReadModulesDir(r)
             \/ ModulesTried(r) \/ WaitForDaemon(r) \/ WaitForChild(r) \/ BeginConfigure(r)
             \/ MetaConfigure(r) \/ Panic(r) \/ CallFails(r) \/ Configured(r) \/ Call(r)
      PROVE  UNCHANGED <<hosts, faults>>
  BY <1>8 DEF Start, Canonicalize, WaitForCapability, Timeout, ReadModulesDir, ModulesTried, WaitForDaemon,
              WaitForChild, BeginConfigure, MetaConfigure, Panic, CallFails, Configured, Call
<1>9. HandleConfigure \/ UNCHANGED vars => UNCHANGED <<hosts, faults>>
  BY DEF HandleConfigure, vars
<1> QED
  BY <1>1, <1>2, <1>3, <1>4, <1>5, <1>6, <1>7, <1>8, <1>9 DEF Next, Step, hosts

LEMMA SettingTypes ==
  ASSUME Typed, Kinds
  PROVE  /\ inbox' \in Seq(Pending) /\ conf' \in [Keys -> [era : Nat, as : Arriving]]
         /\ era' \in Nat /\ overlap' \in BOOLEAN /\ unseen' \in BOOLEAN
<1>1. /\ inbox \in Seq(Pending) /\ conf \in [Keys -> [era : Nat, as : Arriving]]
      /\ era \in Nat /\ overlap \in BOOLEAN /\ unseen \in BOOLEAN
  BY DEF Typed, TypeOK
<1>2. ASSUME NEW r \in Runs, Calms(r)
      PROVE  UNCHANGED settings
  BY <1>2 DEF Calms
<1>3. ASSUME NEW r \in Runs, Begins(r)
      PROVE  UNCHANGED <<inbox, conf, unseen>> /\ era' \in Nat /\ overlap' \in BOOLEAN
  BY <1>1, <1>3 DEF Begins
<1>4. ASSUME NEW r \in Runs, Sends(r)
      PROVE  UNCHANGED <<conf, era, overlap, unseen>> /\ inbox' \in Seq(Pending)
  <2>1. At(r, "set") /\ cli[r].pos \in 1..4 /\ cli[r] \in Commands
    BY <1>4 DEF Sends, Ready, Typed, TypeOK
  <2>2. Key(r) \in Keys /\ cli[r].era \in Nat /\ cli[r].given \in [Keys -> Forms]
    BY <2>1, KeyType DEF Key, Commands
  <2>3. CallExpr[cli[r].given[Key(r)]][1] \in Arriving
    BY <1>4, <2>2, Arrival DEF Sends
  <2> DEFINE e == [run |-> r, key |-> Key(r), era |-> cli[r].era, as |-> CallExpr[cli[r].given[Key(r)]][1]]
  <2>4. e \in Pending
    BY <2>2, <2>3 DEF Pending
  <2>5. inbox' = Append(inbox, e)
    BY <1>4 DEF Sends
  <2> HIDE DEF e
  <2> QED
    BY <1>1, <1>4, <2>4, <2>5 DEF Sends
<1>5. ASSUME NEW r \in Runs, Skips(r)
      PROVE  UNCHANGED <<inbox, conf, era, overlap>> /\ unseen' \in BOOLEAN
  BY <1>5 DEF Skips
<1>6. ASSUME Answers
      PROVE  /\ inbox' \in Seq(Pending) /\ conf' \in [Keys -> [era : Nat, as : Arriving]]
             /\ UNCHANGED <<era, overlap, unseen>>
  <2>1. inbox # <<>> /\ inbox' = Tail(inbox) /\ UNCHANGED <<era, overlap, unseen>>
    BY <1>6 DEF Answers
  <2>2. PICK e \in Pending : conf' = [conf EXCEPT ![e.key] = [era |-> e.era, as |-> e.as]]
    BY <1>6 DEF Answers
  <2>3. conf' \in [Keys -> [era : Nat, as : Arriving]]
    BY <1>1, <2>2 DEF Pending
  <2>4. Tail(inbox) \in Seq(Pending)
    BY <1>1, <2>1
  <2> QED
    BY <2>1, <2>3, <2>4
<1>7. ASSUME Rests
      PROVE  UNCHANGED <<conf, era, overlap, unseen>> /\ inbox' \in Seq(Pending)
  <2>1. <<>> \in Seq(Pending)
    OBVIOUS
  <2> QED
    BY <1>1, <1>7, <2>1 DEF Rests
<1> QED
  BY <1>1, <1>2, <1>3, <1>4, <1>5, <1>6, <1>7 DEF Kinds, settings

LEMMA TypedInit == Init => Typed
<1> SUFFICES ASSUME Init
             PROVE  Typed
  OBVIOUS
<1> DEFINE new == NewRun("none", "running")
<1>1. cli = [r \in Runs |-> new]
  BY DEF Init
<1>2. /\ new \in Commands /\ new.cmd = "none" /\ new.out = "running" /\ new.pc = 1 /\ new.era = 0
      /\ new.pos = 1 /\ new.call = "none"
  BY NewRuns
<1> HIDE DEF new
<1>3. Sound(new)
  BY <1>2 DEF Sound, Past
<1>4. cli \in [Runs -> Commands] /\ \A r \in Runs : Sound(cli[r])
  BY <1>1, <1>2, <1>3
<1>5. "same" \in Arriving /\ 0 \in 0..MaxFaults
  BY UpAssumption DEF Arriving
<1>6. inbox \in Seq(Pending)
  BY DEF Init
<1>7. conf \in [Keys -> [era : Nat, as : Arriving]]
  BY <1>5 DEF Init
<1> QED
  BY <1>4, <1>5, <1>6, <1>7 DEF Init, Typed, TypeOK

LEMMA TypedStep == Typed /\ [Next]_vars => Typed'
<1> SUFFICES ASSUME Typed, [Next]_vars
             PROVE  Typed'
  OBVIOUS
<1>1. Kinds /\ SoundRuns
  BY KindsOfSteps
<1>2. TypeOK'
  BY <1>1, HostTypes, SettingTypes DEF Typed, TypeOK, SoundRuns
<1> QED
  BY <1>1, <1>2 DEF Typed, SoundRuns

\* Every variable keeps its type, whatever the runs of the command line, the daemons
\* and the faults.
THEOREM UpTypeCorrect == Spec => []TypeOK
<1>1. Init => Typed
  BY TypedInit
<1>2. Typed /\ [Next]_vars => Typed'
  BY TypedStep
<1>3. Typed => TypeOK
  BY DEF Typed
<1> QED
  BY <1>1, <1>2, <1>3, PTL DEF Spec
=============================================================================
