---------------------------- MODULE DiscoveryProofs ----------------------------
(***************************************************************************)
(* Proofs about Discovery, for any topics, groups, agents and cards: what  *)
(* the agent is subscribed to, what it knows of its peers, and that it     *)
(* does not take itself for one of them.                                   *)
(***************************************************************************)
EXTENDS Discovery, FiniteSetTheorems, TLAPS

(***************************************************************************)
(* The plans, stage by stage.                                              *)
(***************************************************************************)
Goes(r, stage) == call' = [r EXCEPT !.stage = stage]

\* The stage that stands at a position of a plan, and nowhere else in it, is
\* followed by the one at the next position.
LEMMA GoesOn ==
  ASSUME NEW r, Go(r), NEW n \in Nat, DOMAIN Plan[r.op] = 1..n,
         NEW i \in 1..n, Plan[r.op][i] = r.stage, \A j \in 1..n : Plan[r.op][j] = r.stage => j = i
  PROVE  IF i = n THEN Return ELSE Goes(r, Plan[r.op][i + 1])
<1> DEFINE plan == Plan[r.op]
           next == {k + 1 : k \in {j \in DOMAIN plan : plan[j] = r.stage}} \cap DOMAIN plan
<1>1. next = IF i = n THEN {} ELSE {i + 1}
  <2>1. {j \in DOMAIN plan : plan[j] = r.stage} = {i}
    OBVIOUS
  <2> QED
    BY <2>1
<1>2. call' = IF next = {} THEN NoCall ELSE [r EXCEPT !.stage = plan[CHOOSE k \in next : TRUE]]
  BY DEF Go
<1> HIDE DEF next
<1>3. i # n => (CHOOSE k \in next : TRUE) = i + 1
  BY <1>1
<1> QED
  BY <1>1, <1>2, <1>3 DEF Return, Goes

LEMMA CardPlan ==
  ASSUME NEW r, r.op = "agent_card", Go(r)
  PROVE  /\ r.stage = "npk" => Goes(r, "vpk")
         /\ r.stage = "vpk" => Goes(r, "cache")
         /\ r.stage = "cache" => Goes(r, "sign")
         /\ r.stage = "sign" => Return
<1> DEFINE plan == Plan[r.op]
<1>1. plan = <<"npk", "vpk", "cache", "sign">>
  BY DEF Plan
<1>2. /\ DOMAIN plan = 1..4 /\ plan[1] = "npk" /\ plan[2] = "vpk" /\ plan[3] = "cache" /\ plan[4] = "sign"
  BY <1>1
<1> HIDE DEF plan
<1>3. ASSUME NEW i \in 1..4, plan[i] = r.stage
      PROVE  IF i = 4 THEN Return ELSE Goes(r, plan[i + 1])
  <2>1. \A j \in 1..4 : plan[j] = r.stage => j = i
    BY <1>2, <1>3
  <2> QED
    BY <1>2, <1>3, <2>1, GoesOn DEF plan
<1> QED
  BY <1>2, <1>3

LEMMA DiscoverPlan ==
  ASSUME NEW r, r.op = "agent_discover", Go(r)
  PROVE  /\ r.stage = "subscribe" => Goes(r, "listen")
         /\ r.stage = "listen" => Goes(r, "npk")
         /\ r.stage = "npk" => Goes(r, "vpk")
         /\ r.stage = "vpk" => Goes(r, "cache")
         /\ r.stage = "cache" => Goes(r, "sign")
         /\ r.stage = "sign" => Goes(r, "send")
         /\ r.stage = "send" => Goes(r, "last")
         /\ r.stage = "last" => Return
<1> DEFINE plan == Plan[r.op]
<1>1. plan = <<"subscribe", "listen", "npk", "vpk", "cache", "sign", "send", "last">>
  BY DEF Plan
<1>2. /\ DOMAIN plan = 1..8 /\ plan[1] = "subscribe" /\ plan[2] = "listen" /\ plan[3] = "npk" /\ plan[4] = "vpk"
      /\ plan[5] = "cache" /\ plan[6] = "sign" /\ plan[7] = "send" /\ plan[8] = "last"
  BY <1>1
<1> HIDE DEF plan
<1>3. ASSUME NEW i \in 1..8, plan[i] = r.stage
      PROVE  IF i = 8 THEN Return ELSE Goes(r, plan[i + 1])
  <2>1. \A j \in 1..8 : plan[j] = r.stage => j = i
    BY <1>2, <1>3
  <2> QED
    BY <1>2, <1>3, <2>1, GoesOn DEF plan
<1> QED
  BY <1>2, <1>3

LEMMA JoinPlan ==
  ASSUME NEW r, r.op = "messaging_join", Go(r)
  PROVE  /\ r.stage = "subscribe" => Goes(r, "record")
         /\ r.stage = "record" => Return
<1> DEFINE plan == Plan[r.op]
<1>1. plan = <<"subscribe", "record">>
  BY DEF Plan
<1>2. /\ DOMAIN plan = 1..2 /\ plan[1] = "subscribe" /\ plan[2] = "record"
  BY <1>1
<1> HIDE DEF plan
<1>3. ASSUME NEW i \in 1..2, plan[i] = r.stage
      PROVE  IF i = 2 THEN Return ELSE Goes(r, plan[i + 1])
  <2>1. \A j \in 1..2 : plan[j] = r.stage => j = i
    BY <1>2, <1>3
  <2> QED
    BY <1>2, <1>3, <2>1, GoesOn DEF plan
<1> QED
  BY <1>2, <1>3

LEMMA GroupPlan ==
  ASSUME NEW r, r.op = "messaging_create_group", Go(r)
  PROVE  /\ r.stage = "subscribe" => Goes(r, "record")
         /\ r.stage = "record" => Return
<1> DEFINE plan == Plan[r.op]
<1>1. plan = <<"subscribe", "record">>
  BY DEF Plan
<1>2. /\ DOMAIN plan = 1..2 /\ plan[1] = "subscribe" /\ plan[2] = "record"
  BY <1>1
<1> HIDE DEF plan
<1>3. ASSUME NEW i \in 1..2, plan[i] = r.stage
      PROVE  IF i = 2 THEN Return ELSE Goes(r, plan[i + 1])
  <2>1. \A j \in 1..2 : plan[j] = r.stage => j = i
    BY <1>2, <1>3
  <2> QED
    BY <1>2, <1>3, <2>1, GoesOn DEF plan
<1> QED
  BY <1>2, <1>3

LEMMA ConfigurePlan ==
  ASSUME NEW r, r.op = "meta_configure", Go(r)
  PROVE  r.stage = "set" => Return
<1> DEFINE plan == Plan[r.op]
<1>1. plan = <<"set">>
  BY DEF Plan
<1>2. /\ DOMAIN plan = 1..1 /\ plan[1] = "set"
  BY <1>1
<1> HIDE DEF plan
<1>3. ASSUME NEW i \in 1..1, plan[i] = r.stage
      PROVE  IF i = 1 THEN Return ELSE Goes(r, plan[i + 1])
  <2>1. \A j \in 1..1 : plan[j] = r.stage => j = i
    BY <1>2, <1>3
  <2> QED
    BY <1>2, <1>3, <2>1, GoesOn DEF plan
<1> QED
  BY <1>2, <1>3

(***************************************************************************)
(* Types.  What a skill is about at each of its stages is part of them.    *)
(***************************************************************************)
InPlan(r) ==
  \/ r.op = "agent_card" /\ r.stage \in {"npk", "vpk", "cache", "sign"}
  \/ r.op = "agent_discover"
     /\ r.stage \in {"subscribe", "listen", "npk", "vpk", "cache", "sign", "send", "last"}
  \/ r.op \in {"messaging_join", "messaging_create_group"} /\ r.stage \in {"subscribe", "record"}
  \/ r.op = "meta_configure" /\ r.stage = "set"

OwnNames == {Own, Envelope, Unavailable}

CallBounds ==
  /\ call = NoCall \/ InPlan(call)
  /\ call.op = "agent_discover" => call.topic \in Topics
  /\ call.op \in {"messaging_join", "messaging_create_group"} => call.topic \in Joins \cup Groups
  /\ call.stage \in {"vpk", "cache"} => call.npk \in {Own, Envelope}
  /\ call.stage \in {"sign", "send", "last"} => call.npk \in OwnNames

HandlerBounds == handler.keep => handler.card # None

Typed == TypeOK /\ IsFiniteSet(Known) /\ CallBounds /\ HandlerBounds

LEMMA EntryTypes ==
  /\ NoConfig \in Configs /\ NoConfig.agent_npk = None /\ NoConfig.joined = {}
  /\ NoCall \in Calls /\ NoCall.stage = "idle" /\ NoCall.op = "none"
  /\ Resting \in Handlers /\ Resting.card = None /\ Resting.keep = FALSE
BY DEF NoConfig, Configs, NoCall, Calls, Stages, Resting, Handlers

\* The skill goes on to another stage, perhaps with a name for its card.
Moves(stage, npk) ==
  /\ call' \in Calls
  /\ call'.stage = stage /\ call'.npk = npk
  /\ call'.op = call.op /\ call'.topic = call.topic

LEMMA StageMoves ==
  ASSUME call \in Calls, NEW stage \in Stages, NEW npk \in Names \cup {None}
  PROVE  /\ Goes(call, stage) => Moves(stage, call.npk)
         /\ Goes([call EXCEPT !.npk = npk], stage) => Moves(stage, npk)
         /\ call' = [call EXCEPT !.stage = stage, !.npk = npk] => Moves(stage, npk)
BY DEF Calls, Goes, Moves

\* What follows each stage of a skill that is now to name its card npk.
Follows(npk) ==
  /\ At("subscribe") => Moves(IF call.op = "agent_discover" THEN "listen" ELSE "record", npk)
  /\ At("listen") => Moves("npk", npk)
  /\ At("npk") => Moves("vpk", npk)
  /\ At("vpk") => Moves("cache", npk)
  /\ At("cache") => Moves("sign", npk)
  /\ At("sign") => Return \/ (call.op = "agent_discover" /\ Moves("send", npk))
  /\ At("send") => Moves("last", npk)
  /\ call.stage \in {"last", "record", "set"} => Return

LEMMA PlanMoves ==
  ASSUME NEW r, InPlan(r), Go(r)
  PROVE  /\ r.stage = "subscribe" => Goes(r, IF r.op = "agent_discover" THEN "listen" ELSE "record")
         /\ r.stage = "listen" => Goes(r, "npk")
         /\ r.stage = "npk" => Goes(r, "vpk")
         /\ r.stage = "vpk" => Goes(r, "cache")
         /\ r.stage = "cache" => Goes(r, "sign")
         /\ r.stage = "sign" => Return \/ (r.op = "agent_discover" /\ Goes(r, "send"))
         /\ r.stage = "send" => Goes(r, "last")
         /\ r.stage \in {"last", "record", "set"} => Return
<1>1. CASE r.op = "agent_card"
  BY <1>1, CardPlan DEF InPlan
<1>2. CASE r.op = "agent_discover"
  BY <1>2, DiscoverPlan DEF InPlan
<1>3. CASE r.op = "messaging_join" \/ r.op = "messaging_create_group"
  BY <1>3, JoinPlan, GroupPlan DEF InPlan
<1>4. CASE r.op = "meta_configure"
  BY <1>4, ConfigurePlan DEF InPlan
<1> QED
  BY <1>1, <1>2, <1>3, <1>4 DEF InPlan

LEMMA GoFollows ==
  ASSUME call \in Calls, InPlan(call)
  PROVE  /\ Go(call) => Follows(call.npk)
         /\ \A npk \in Names \cup {None} : Go([call EXCEPT !.npk = npk]) => Follows(npk)
<1>1. ASSUME Go(call)
      PROVE  Follows(call.npk)
  <2>1. \A stage \in Stages : Goes(call, stage) => Moves(stage, call.npk)
    BY StageMoves DEF Calls
  <2> QED
    BY <1>1, <2>1, PlanMoves DEF Follows, At, Stages
<1>2. ASSUME NEW npk \in Names \cup {None}, Go([call EXCEPT !.npk = npk])
      PROVE  Follows(npk)
  <2> DEFINE r == [call EXCEPT !.npk = npk]
  <2>1. r.op = call.op /\ r.stage = call.stage /\ InPlan(r) /\ Go(r)
    BY <1>2 DEF Calls, InPlan
  <2>2. \A stage \in Stages : Goes(r, stage) => Moves(stage, npk)
    BY StageMoves
  <2> HIDE DEF r
  <2> QED
    BY <2>1, <2>2, PlanMoves DEF Follows, At, Stages
<1> QED
  BY <1>1, <1>2

LEMMA SaveMoves ==
  ASSUME Typed, config' \in Configs, Save
  PROVE  /\ saved_config' \in Configs /\ faults' \in 0..MaxFaults /\ lapsed' \in BOOLEAN
         /\ saved_config' \in {config', saved_config, NoConfig}
         /\ ~lapsed' => ~lapsed /\ saved_config' = config'
<1>1. CASE saved_config' = config' /\ UNCHANGED <<faults, lapsed>>
  BY <1>1 DEF Typed, TypeOK
<1>2. CASE Fault /\ saved_config' \in {saved_config, NoConfig} /\ lapsed' = TRUE
  BY <1>2, EntryTypes, DiscoveryAssumption DEF Fault, Typed, TypeOK
<1> QED
  BY <1>1, <1>2 DEF Save

LEMMA FaultCounts == Typed /\ Fault => faults' \in 0..MaxFaults
BY DiscoveryAssumption DEF Fault, Typed, TypeOK

\* The card gets its name, or is completed without one.
Named ==
  /\ At("npk")
  /\ \E npk \in {Own, Envelope} : config.agent_npk \in {None, npk} /\ Moves("vpk", npk)
Unnamed ==
  /\ call.stage \in {"npk", "vpk"} /\ lapsed' = TRUE
  /\ \E npk \in OwnNames : Moves("sign", npk)

LEMMA UnderWay == Typed /\ call.stage # "idle" => InPlan(call) /\ call \in Calls
BY EntryTypes DEF Typed, TypeOK, CallBounds

\* How a step of the RPC thread moves the skill on.
LEMMA CallGoes ==
  ASSUME Typed, Rpc
  PROVE  Return \/ Named \/ Unnamed \/ (~At("npk") /\ Follows(call.npk))
<1>0. InPlan(call) /\ call \in Calls /\ config.agent_npk \in {None, Own, Envelope}
  BY UnderWay DEF Rpc, Subscribe, Listen, AskNpk, AskVpk, CacheKeys, SignCard, SendCard,
     RememberTopic, RecordMembership, Configure, At, Typed, TypeOK, Configs
<1>1. CASE AskNpk
  <2>1. At("npk") /\ WalletAnswer \in {Own, Envelope}
    BY <1>1 DEF AskNpk, WalletAnswer
  <2>2. CASE \E npk \in {Own, Envelope} :
               config.agent_npk \in {None, npk} /\ Go([call EXCEPT !.npk = npk])
    <3>1. PICK npk \in {Own, Envelope} :
            config.agent_npk \in {None, npk} /\ Go([call EXCEPT !.npk = npk])
      BY <2>2
    <3>2. npk \in Names \cup {None}
      BY DEF Names, Agents
    <3>3. Moves("vpk", npk)
      BY <1>0, <2>1, <3>1, <3>2, GoFollows DEF Follows
    <3> QED
      BY <2>1, <3>1, <3>3 DEF Named
  <2>3. CASE lapsed' = TRUE /\ \E npk \in OwnNames : call' = [call EXCEPT !.stage = "sign", !.npk = npk]
    <3>1. PICK npk \in OwnNames : call' = [call EXCEPT !.stage = "sign", !.npk = npk]
      BY <2>3
    <3>2. npk \in Names \cup {None} /\ "sign" \in Stages
      BY DEF Names, Agents, OwnNames, Stages
    <3>3. Moves("sign", npk)
      BY <1>0, <3>1, <3>2, StageMoves
    <3> QED
      BY <2>1, <2>3, <3>3 DEF Unnamed, At
  <2>4. \/ config.agent_npk # None /\ Go([call EXCEPT !.npk = config.agent_npk])
        \/ config.agent_npk = None /\ Go([call EXCEPT !.npk = WalletAnswer])
        \/ /\ lapsed' = TRUE
           /\ call' = [call EXCEPT !.stage = "sign",
                         !.npk = IF config.agent_npk = None THEN Unavailable ELSE config.agent_npk]
    BY <1>1 DEF AskNpk
  <2> QED
    BY <1>0, <2>1, <2>2, <2>3, <2>4 DEF OwnNames
<1>2. CASE AskVpk
  <2>1. call.npk \in OwnNames /\ call.npk \in Names \cup {None} /\ "sign" \in Stages /\ At("vpk")
    BY <1>2 DEF AskVpk, At, Typed, CallBounds, OwnNames, Names, Agents, Stages
  <2>2. Go(call) => Follows(call.npk)
    BY <1>0, GoFollows
  <2>3. call' = [call EXCEPT !.stage = "sign"] => Moves("sign", call.npk)
    BY <1>0, <2>1, StageMoves DEF Goes
  <2>4. Go(call) \/ (lapsed' = TRUE /\ call' = [call EXCEPT !.stage = "sign"])
    BY <1>2 DEF AskVpk
  <2> QED
    BY <2>1, <2>2, <2>3, <2>4 DEF Unnamed, At
<1>3. CASE ~AskNpk /\ ~AskVpk
  <2>1. ~At("npk") /\ (Go(call) \/ Return)
    BY <1>3 DEF Rpc, Subscribe, Listen, CacheKeys, SignCard, SendCard, RememberTopic,
       RecordMembership, Configure, Throw, At
  <2> QED
    BY <1>0, <2>1, GoFollows
<1> QED
  BY <1>1, <1>2, <1>3

LEMMA CallTypes ==
  ASSUME Typed, Rpc
  PROVE  call' \in Calls /\ CallBounds'
<1>0. InPlan(call) /\ CallBounds /\ call.stage # "idle"
  BY UnderWay DEF Rpc, Subscribe, Listen, AskNpk, AskVpk, CacheKeys, SignCard, SendCard,
     RememberTopic, RecordMembership, Configure, At, Typed
<1>1. CASE Return
  BY <1>1, EntryTypes DEF Return, CallBounds
<1>2. CASE Named
  BY <1>0, <1>2 DEF Named, At, Moves, CallBounds, InPlan
<1>3. CASE Unnamed
  BY <1>0, <1>3 DEF Unnamed, At, Moves, CallBounds, InPlan
<1>4. CASE ~At("npk") /\ Follows(call.npk) /\ ~Return
  <2>1. PICK stage \in Stages :
          /\ Moves(stage, call.npk)
          /\ \/ call.stage = "subscribe"
                /\ stage = IF call.op = "agent_discover" THEN "listen" ELSE "record"
             \/ call.stage = "listen" /\ stage = "npk"
             \/ call.stage = "vpk" /\ stage = "cache"
             \/ call.stage = "cache" /\ stage = "sign"
             \/ call.stage = "sign" /\ stage = "send" /\ call.op = "agent_discover"
             \/ call.stage = "send" /\ stage = "last"
    BY <1>0, <1>4 DEF Follows, At, InPlan, Stages
  <2>2. InPlan(call')
    BY <1>0, <2>1 DEF Moves, InPlan
  <2> QED
    BY <1>0, <2>1, <2>2 DEF Moves, CallBounds, OwnNames
<1> QED
  BY <1>1, <1>2, <1>3, <1>4, CallGoes

\* What the steps of the RPC thread write into the configuration.
LEMMA ConfigTypes ==
  ASSUME Typed, Rpc
  PROVE  /\ config' \in Configs /\ saved_config' \in Configs
         /\ faults' \in 0..MaxFaults /\ lapsed' \in BOOLEAN
<1>0. config \in Configs /\ saved_config \in Configs /\ lapsed \in BOOLEAN /\ faults \in 0..MaxFaults
  BY DEF Typed, TypeOK
<1>1. CASE Subscribe \/ Listen \/ AskNpk \/ AskVpk \/ SendCard
  BY <1>0, <1>1, FaultCounts DEF Subscribe, Listen, AskNpk, AskVpk, SendCard, Throw, files, records, world
<1>2. CASE CacheKeys \/ SignCard \/ RememberTopic \/ RecordMembership \/ Configure
  <2>1. config' \in Configs
    <3>1. CASE CacheKeys
      BY <1>0, <3>1 DEF CacheKeys, At, Typed, CallBounds, Configs
    <3>2. CASE SignCard \/ RememberTopic \/ Configure
      BY <1>0, <3>2 DEF SignCard, RememberTopic, Configure, Configs
    <3>3. CASE RecordMembership
      <4>1. InPlan(call) /\ call.stage = "record"
        BY <3>3, UnderWay DEF RecordMembership, At
      <4>2. call.topic \in Joins \cup Groups
        BY <4>1 DEF InPlan, Typed, CallBounds
      <4> QED
        BY <1>0, <3>3, <4>2 DEF RecordMembership, Configs
    <3> QED
      BY <1>2, <3>1, <3>2, <3>3
  <2>2. Save \/ UNCHANGED <<saved_config, faults, lapsed>>
    BY <1>2 DEF CacheKeys, SignCard, RememberTopic, RecordMembership, Configure
  <2> QED
    BY <1>0, <2>1, <2>2, SaveMoves
<1> QED
  BY <1>1, <1>2 DEF Rpc

\* What they leave alone.
LEMMA RpcLeaves ==
  Rpc => UNCHANGED <<handler, peers, account, cards, discovers, heard, raced>>
BY DEF Rpc, Subscribe, Listen, AskNpk, AskVpk, CacheKeys, SignCard, SendCard, RememberTopic,
   RecordMembership, Configure, agent, world, records

\* A skill publishes only the agent's own card.
OwnCard == [topic |-> call.topic, npk |-> call.npk, of |-> Own, no |-> 0]

LEMMA RpcWorld ==
  ASSUME Typed, Rpc
  PROVE  /\ my_topic' = my_topic \/ (At("listen") /\ my_topic' = call.topic)
         /\ node' = node \/ (At("subscribe") /\ node' = node \cup {call.topic})
         /\ net' = net \/ (At("send") /\ net' = net \cup {OwnCard})
         /\ refused' \in {refused, TRUE}
BY DEF Rpc, Subscribe, Listen, AskNpk, AskVpk, CacheKeys, SignCard, SendCard, RememberTopic,
   RecordMembership, Configure, agent, world, records, OwnCard

LEMMA OwnCardTypes ==
  ASSUME Typed, At("send")
  PROVE  OwnCard \in Cards /\ call.npk \in OwnNames
<1>1. call.op = "agent_discover" /\ call.topic \in Topics /\ call.npk \in OwnNames
  BY UnderWay DEF At, InPlan, Typed, CallBounds
<1>2. call.npk \in Names /\ Own \in Agents /\ 0 \in 0..MaxCards
  BY <1>1, DiscoveryAssumption DEF OwnNames, Names, Agents
<1> QED
  BY <1>1, <1>2 DEF OwnCard, Cards

LEMMA RpcTypes ==
  ASSUME Typed, Rpc
  PROVE  Typed'
<1>1. my_topic' \in Topics \cup {None}
  <2>1. At("listen") => call.topic \in Topics
    BY UnderWay DEF At, InPlan, Typed, CallBounds
  <2> QED
    BY <2>1, RpcWorld DEF Typed, TypeOK
<1>2. node' \in SUBSET (Topics \cup Groups)
  <2>1. At("subscribe") => call.topic \in Topics \cup Groups
    BY UnderWay, DiscoveryAssumption DEF At, InPlan, Typed, CallBounds
  <2> QED
    BY <2>1, RpcWorld DEF Typed, TypeOK
<1>3. net' \in SUBSET Cards
  BY RpcWorld, OwnCardTypes DEF Typed, TypeOK
<1>4. refused' \in BOOLEAN
  BY RpcWorld DEF Typed, TypeOK
<1>5. UNCHANGED <<Known, HandlerBounds>>
  BY RpcLeaves DEF Known, HandlerBounds
<1> QED
  BY <1>1, <1>2, <1>3, <1>4, <1>5, CallTypes, ConfigTypes, RpcLeaves DEF Typed, TypeOK

LEMMA BeginMoves ==
  ASSUME Typed, Begin
  PROVE  /\ call' \in Calls /\ CallBounds' /\ discovers' \in 0..MaxDiscovers
         /\ call'.stage \in {"npk", "subscribe", "set"}
         /\ call'.op = "agent_discover" /\ call'.stage = "subscribe" => my_topic = None
<1>0. PICK op \in DOMAIN Plan : \E topic \in TopicsOf(op) :
        call' = [NoCall EXCEPT !.op = op, !.topic = topic,
                               !.stage = IF Skips(op) THEN "npk" ELSE Plan[op][1]]
  BY DEF Begin
<1>1. PICK topic \in TopicsOf(op) :
        call' = [NoCall EXCEPT !.op = op, !.topic = topic,
                               !.stage = IF Skips(op) THEN "npk" ELSE Plan[op][1]]
  BY <1>0
<1> DEFINE stage == IF Skips(op) THEN "npk" ELSE Plan[op][1]
<1>2. /\ op \in {"agent_card", "agent_discover", "messaging_join", "messaging_create_group",
                 "meta_configure"}
      /\ op = "agent_card" => Plan[op][1] = "npk"
      /\ op \in {"agent_discover", "messaging_join", "messaging_create_group"} =>
           Plan[op][1] = "subscribe"
      /\ op = "meta_configure" => Plan[op][1] = "set"
  BY <1>1 DEF Plan
<1>3. /\ op = "agent_discover" => topic \in Topics /\ discovers < MaxDiscovers
      /\ op \in {"messaging_join", "messaging_create_group"} => topic \in Joins \cup Groups
      /\ topic \in Topics \cup Groups \cup {None}
  <2>1. CASE op = "agent_discover"
    BY <1>1, <2>1 DEF TopicsOf
  <2>2. CASE op = "messaging_join"
    BY <1>1, <2>2, DiscoveryAssumption DEF TopicsOf
  <2>3. CASE op = "messaging_create_group"
    BY <1>1, <2>3 DEF TopicsOf
  <2>4. CASE op \in {"agent_card", "meta_configure"}
    BY <1>1, <2>4 DEF TopicsOf
  <2> QED
    BY <1>2, <2>1, <2>2, <2>3, <2>4
<1>4. stage \in {"npk", "subscribe", "set"} /\ (op = "agent_discover" /\ stage = "subscribe" => my_topic = None)
  BY <1>2 DEF Skips
<1>5. /\ call'.op = op /\ call'.topic = topic /\ call'.stage = stage /\ call'.npk = None
      /\ call' \in Calls
  <2>1. call' = [op |-> op, stage |-> stage, topic |-> topic, npk |-> None]
    BY <1>1 DEF NoCall
  <2>2. op \in DOMAIN Plan \cup {"none"} /\ stage \in Stages
    BY <1>0, <1>4 DEF Stages
  <2> HIDE DEF stage
  <2> QED
    BY <1>3, <2>1, <2>2 DEF Calls
<1>6. InPlan(call')
  BY <1>2, <1>5 DEF Skips, InPlan
<1>7. CallBounds'
  BY <1>2, <1>3, <1>4, <1>5, <1>6 DEF CallBounds
<1>8. discovers' \in 0..MaxDiscovers
  BY <1>3, <1>5, DiscoveryAssumption DEF Begin, Typed, TypeOK
<1> QED
  BY <1>4, <1>5, <1>7, <1>8

LEMMA BeginTypes ==
  ASSUME Typed, Begin
  PROVE  Typed'
<1>1. UNCHANGED <<files, handler, agent, account, node, net, cards, faults, records>>
  BY DEF Begin
<1>2. UNCHANGED <<Known, HandlerBounds>>
  BY <1>1 DEF Known, HandlerBounds, agent
<1> QED
  BY <1>1, <1>2, BeginMoves DEF Typed, TypeOK, files, agent, records

\* The map of peers takes one name at a time, and no new one once it is full.
LEMMA KnownStep ==
  ASSUME Typed, KeepCard
  PROVE  /\ handler.card \in Cards /\ handler.card.npk \in Names
         /\ IF HasRoom(handler.card.npk)
            THEN /\ peers' = [peers EXCEPT ![handler.card.npk] = handler.card]
                 /\ Known' = Known \cup {handler.card.npk}
            ELSE UNCHANGED <<peers, Known>>
         /\ IsFiniteSet(Known') /\ Cardinality(Known') <= MaxPeers
<1>1. /\ handler.card \in Cards /\ handler.card.npk \in Names /\ handler.card # None
      /\ peers \in [Names -> Cards \cup {None}]
      /\ IsFiniteSet(Known) /\ Cardinality(Known) \in Nat /\ Cardinality(Known) <= MaxPeers
  BY FS_CardinalityType DEF KeepCard, Typed, TypeOK, Handlers, Cards
<1>2. CASE HasRoom(handler.card.npk)
  <2>1. peers' = [peers EXCEPT ![handler.card.npk] = handler.card]
    BY <1>2 DEF KeepCard
  <2>2. Known' = Known \cup {handler.card.npk}
    BY <1>1, <2>1 DEF Known
  <2>3. IsFiniteSet(Known') /\ Cardinality(Known') <= MaxPeers
    <3>1. CASE handler.card.npk \in Known
      <4>1. Known' = Known
        BY <2>2, <3>1
      <4> QED
        BY <1>1, <4>1
    <3>2. CASE handler.card.npk \notin Known
      <4>1. Cardinality(Known) < MaxPeers
        BY <1>2, <3>2 DEF HasRoom
      <4>2. IsFiniteSet(Known') /\ Cardinality(Known') = Cardinality(Known) + 1
        BY <1>1, <2>2, <3>2, FS_AddElement
      <4> QED
        BY <1>1, <4>1, <4>2, DiscoveryAssumption
    <3> QED
      BY <3>1, <3>2
  <2> QED
    BY <1>1, <1>2, <2>1, <2>2, <2>3
<1>3. CASE ~HasRoom(handler.card.npk)
  <2>1. UNCHANGED <<peers, Known>>
    BY <1>3 DEF KeepCard, Known
  <2> QED
    BY <1>1, <1>3, <2>1
<1> QED
  BY <1>2, <1>3

\* What the handler does to the message that it is at.
LEMMA CheckMoves ==
  ASSUME Typed, CheckCard
  PROVE  /\ handler.card \in Cards /\ ~handler.keep
         /\ UNCHANGED <<files, call, agent, world, faults, heard, lapsed, refused>>
         /\ raced' = (raced \/ Changing)
         /\ \E name \in OwnName :
              IF Filter(handler.card) /\ handler.card.npk # name
              THEN handler' \in Handlers /\ handler'.card = handler.card /\ handler'.keep = TRUE
              ELSE handler' = Resting
BY DEF CheckCard, Typed, TypeOK, Handlers

LEMMA HandlerTypes ==
  ASSUME Typed, Handle
  PROVE  Typed'
<1>1. CASE CheckCard
  <2>1. /\ handler' \in Handlers /\ HandlerBounds' /\ raced' \in BOOLEAN
    <3>1. handler.card # None
      BY <1>1 DEF CheckCard
    <3>2. raced' \in BOOLEAN
      BY <1>1 DEF CheckCard, Changing, At, Typed, TypeOK
    <3> QED
      BY <1>1, <3>1, <3>2, CheckMoves, EntryTypes DEF HandlerBounds
  <2>2. UNCHANGED <<Known, CallBounds>>
    BY <1>1 DEF CheckCard, Known, CallBounds, InPlan, agent
  <2> QED
    BY <1>1, <2>1, <2>2 DEF CheckCard, files, agent, world, Typed, TypeOK
<1>2. CASE KeepCard
  <2>1. peers' \in [Names -> Cards \cup {None}]
    BY <1>2, KnownStep DEF Typed, TypeOK
  <2>2. handler' = Resting /\ HandlerBounds'
    BY <1>2, EntryTypes DEF KeepCard, HandlerBounds
  <2>3. CallBounds'
    BY <1>2 DEF KeepCard, CallBounds, InPlan, Typed
  <2> QED
    BY <1>2, <2>1, <2>2, <2>3, KnownStep, EntryTypes DEF KeepCard, files, world, records, Typed, TypeOK
<1> QED
  BY <1>1, <1>2 DEF Handle

LEMMA NobodyKnown ==
  ASSUME peers' = [n \in Names |-> None]
  PROVE  Known' = {} /\ IsFiniteSet(Known') /\ Cardinality(Known') = 0
<1>1. Known' = {}
  BY DEF Known
<1> QED
  BY <1>1, FS_EmptySet

LEMMA WorldTypes ==
  ASSUME Typed, EnsureAccount \/ PeerPublishes \/ (\E card \in net : Deliver(card) \/ Lose(card))
  PROVE  Typed'
<1>1. UNCHANGED <<Known, CallBounds>>
  BY DEF EnsureAccount, PeerPublishes, Deliver, Lose, Known, CallBounds, InPlan, agent
<1>2. CASE EnsureAccount
  BY <1>1, <1>2 DEF EnsureAccount, files, agent, records, Typed, TypeOK, HandlerBounds
<1>3. CASE PeerPublishes
  <2>1. cards + 1 \in 0..MaxCards
    BY <1>3, DiscoveryAssumption DEF PeerPublishes, Typed, TypeOK
  <2>2. \A p \in Peers, topic \in Topics : [topic |-> topic, npk |-> p, of |-> p, no |-> cards + 1] \in Cards
    BY <2>1 DEF Cards, Names, Agents
  <2>3. net' \in SUBSET Cards
    BY <1>3, <2>2 DEF PeerPublishes, Typed, TypeOK
  <2> QED
    BY <1>1, <1>3, <2>1, <2>3 DEF PeerPublishes, files, agent, records, Typed, TypeOK, HandlerBounds
<1>4. CASE \E card \in net : Deliver(card)
  <2>1. PICK card \in net : Deliver(card)
    BY <1>4
  <2>2. card \in Cards /\ card.npk \in Names
    BY DEF Typed, TypeOK, Cards
  <2>3. handler' \in Handlers /\ HandlerBounds'
    <3>1. CASE UNCHANGED handler
      BY <3>1 DEF HandlerBounds, Typed, TypeOK
    <3>2. CASE handler' = [card |-> card, keep |-> FALSE]
      BY <2>2, <3>2 DEF Handlers, HandlerBounds
    <3> QED
      BY <2>1, <3>1, <3>2 DEF Deliver
  <2>4. heard' \in [Names -> Cards \cup {None}]
    BY <2>1, <2>2 DEF Deliver, Typed, TypeOK
  <2> QED
    BY <1>1, <2>1, <2>3, <2>4 DEF Deliver, files, agent, Typed, TypeOK
<1>5. CASE \E card \in net : Lose(card)
  BY <1>1, <1>5, FaultCounts DEF Lose, files, agent, records, Typed, TypeOK, HandlerBounds
<1> QED
  BY <1>2, <1>3, <1>4, <1>5

LEMMA CrashTypes ==
  ASSUME Typed, CrashRestart
  PROVE  Typed'
<1>1. Known' = {} /\ IsFiniteSet(Known') /\ Cardinality(Known') = 0
  BY NobodyKnown DEF CrashRestart
<1>2. CallBounds' /\ HandlerBounds'
  BY EntryTypes DEF CrashRestart, CallBounds, HandlerBounds
<1> QED
  BY <1>1, <1>2, EntryTypes, FaultCounts, DiscoveryAssumption DEF CrashRestart, world, Typed, TypeOK

LEMMA TypedInit == Init => Typed
<1> SUFFICES ASSUME Init PROVE Typed
  OBVIOUS
<1>1. Known = {} /\ IsFiniteSet(Known) /\ Cardinality(Known) = 0
  <2>1. Known = {}
    BY DEF Init, Known
  <2> QED
    BY <2>1, FS_EmptySet
<1>2. CallBounds /\ HandlerBounds
  BY EntryTypes DEF Init, CallBounds, HandlerBounds
<1>3. /\ config \in Configs /\ saved_config \in Configs /\ call \in Calls /\ handler \in Handlers
  BY EntryTypes DEF Init
<1>4. /\ cards \in 0..MaxCards /\ discovers \in 0..MaxDiscovers /\ faults \in 0..MaxFaults
      /\ Cardinality(Known) <= MaxPeers
  BY <1>1, DiscoveryAssumption DEF Init
<1> QED
  BY <1>1, <1>2, <1>3, <1>4 DEF Init, Typed, TypeOK

LEMMA TypedNext ==
  ASSUME Typed, [Next]_vars
  PROVE  Typed'
<1>1. CASE UNCHANGED vars
  <2>1. UNCHANGED <<Known, CallBounds, HandlerBounds>>
    BY <1>1 DEF vars, agent, Known, CallBounds, InPlan, HandlerBounds
  <2> QED
    BY <1>1, <2>1 DEF vars, files, agent, world, records, Typed, TypeOK
<1> QED
  BY <1>1, BeginTypes, RpcTypes, HandlerTypes, WorldTypes, CrashTypes DEF Next

\* Every variable keeps its type, and the map of peers its bound, whatever the
\* network delivers while skills and the handler take turns.
THEOREM DiscoveryTypeCorrect == Spec => []TypeOK
<1>1. Typed => TypeOK
  BY DEF Typed
<1> QED
  BY <1>1, TypedInit, TypedNext, PTL DEF Spec

(***************************************************************************)
(* What a step of the RPC thread does to the configuration, and where it   *)
(* can lead.                                                               *)
(***************************************************************************)
LEMMA ConfigMoves ==
  ASSUME Typed, Rpc
  PROVE  /\ config'.agent_npk = IF At("cache") THEN call.npk ELSE config.agent_npk
         /\ config'.joined = IF At("record") THEN config.joined \cup {call.topic} ELSE config.joined
         /\ saved_config' \in {config', saved_config, NoConfig}
         /\ ~lapsed' => /\ ~lapsed
                        /\ saved_config' = config' \/ UNCHANGED files
<1>0. config \in Configs /\ config' \in Configs /\ lapsed \in BOOLEAN
  BY ConfigTypes DEF Typed, TypeOK
<1>1. CASE Subscribe \/ Listen \/ AskNpk \/ AskVpk \/ SendCard
  BY <1>0, <1>1 DEF Subscribe, Listen, AskNpk, AskVpk, SendCard, At, files, world, records
<1>2. CASE CacheKeys \/ SignCard \/ RememberTopic \/ RecordMembership \/ Configure
  <2>1. /\ config'.agent_npk = IF At("cache") THEN call.npk ELSE config.agent_npk
        /\ config'.joined = IF At("record") THEN config.joined \cup {call.topic} ELSE config.joined
    BY <1>0, <1>2 DEF CacheKeys, SignCard, RememberTopic, RecordMembership, Configure, At, Configs
  <2>2. Save \/ (config' = config /\ UNCHANGED <<saved_config, lapsed>>)
    <3>1. CASE SignCard /\ config.signs
      <4>1. [config EXCEPT !.signs = TRUE] = config
        BY <1>0, <3>1 DEF Configs
      <4> QED
        BY <3>1, <4>1 DEF SignCard
    <3>2. CASE RecordMembership /\ call.topic \in config.joined
      <4>1. config.joined \cup {call.topic} = config.joined
        BY <3>2
      <4>2. [config EXCEPT !.joined = config.joined \cup {call.topic}] = config
        BY <1>0, <4>1 DEF Configs
      <4> QED
        BY <3>2, <4>2 DEF RecordMembership
    <3> QED
      BY <1>2, <3>1, <3>2 DEF CacheKeys, SignCard, RememberTopic, RecordMembership, Configure
  <2> QED
    BY <1>0, <2>1, <2>2, SaveMoves DEF files
<1> QED
  BY <1>1, <1>2 DEF Rpc

\* A stage is reached from the one before it in the plan.
LEMMA ReachedFrom ==
  ASSUME Typed, Rpc
  PROVE  /\ call'.stage \in {"listen", "record"} => At("subscribe")
         /\ call'.stage \in {"vpk", "cache"} =>
              /\ call.stage \in {"npk", "vpk"}
              /\ At("npk") => config.agent_npk \in {None, call'.npk}
              /\ At("vpk") => call'.npk = call.npk
         /\ call'.stage \in {"sign", "send", "last"} =>
              \/ call.stage \in {"cache", "sign", "send"} /\ call'.npk = call.npk
              \/ lapsed'
         /\ call'.stage # "subscribe"
         /\ call'.stage = "listen" => call'.op = "agent_discover"
         /\ call' = NoCall \/ call'.topic = call.topic
<1>0. InPlan(call) /\ NoCall.stage = "idle"
  BY UnderWay, EntryTypes DEF Rpc, Subscribe, Listen, AskNpk, AskVpk, CacheKeys, SignCard, SendCard,
     RememberTopic, RecordMembership, Configure, At
<1>1. CASE Return
  BY <1>0, <1>1 DEF Return
<1>2. CASE Named
  BY <1>2 DEF Named, At, Moves
<1>3. CASE Unnamed
  BY <1>3 DEF Unnamed, Moves
<1>4. CASE ~At("npk") /\ Follows(call.npk) /\ ~Return
  BY <1>0, <1>4 DEF Follows, At, InPlan, Moves
<1> QED
  BY <1>1, <1>2, <1>3, <1>4, CallGoes

(***************************************************************************)
(* Subscriptions.  A skill remembers a topic, or listens to it, only after *)
(* its node has been subscribed to it.                                     *)
(***************************************************************************)
Subscribed ==
  ~refused =>
    /\ my_topic # None => my_topic \in node
    /\ config.joined \subseteq node /\ saved_config.joined \subseteq node
    /\ call.stage \in {"listen", "record"} => call.topic \in node

LEMMA SubscribedRpc ==
  ASSUME Typed, Subscribed, Rpc
  PROVE  Subscribed'
<1> SUFFICES ASSUME ~refused'
             PROVE  /\ my_topic' # None => my_topic' \in node'
                    /\ config'.joined \subseteq node' /\ saved_config'.joined \subseteq node'
                    /\ call'.stage \in {"listen", "record"} => call'.topic \in node'
  BY DEF Subscribed
<1>1. ~refused /\ node \subseteq node'
  <2>1. refused \in BOOLEAN /\ refused' \in {refused, TRUE}
    BY RpcWorld DEF Typed, TypeOK
  <2> QED
    BY <2>1, RpcWorld
<1>2. my_topic' # None => my_topic' \in node'
  BY <1>1, RpcWorld DEF Subscribed, At
<1>3. config'.joined \subseteq node' /\ saved_config'.joined \subseteq node'
  BY <1>1, ConfigMoves, EntryTypes DEF Subscribed, At
<1>4. ASSUME call'.stage \in {"listen", "record"}
      PROVE  call'.topic \in node'
  <2>1. At("subscribe") /\ call'.topic = call.topic /\ ~Return
    BY <1>4, ReachedFrom, EntryTypes DEF Return
  <2>2. Subscribe
    BY <2>1 DEF Rpc, Listen, AskNpk, AskVpk, CacheKeys, SignCard, SendCard, RememberTopic,
       RecordMembership, Configure, At
  <2> QED
    BY <2>1, <2>2 DEF Subscribe, Throw
<1> QED
  BY <1>2, <1>3, <1>4

LEMMA SubscribedNext ==
  ASSUME Typed, Subscribed, [Next]_vars
  PROVE  Subscribed'
<1>1. CASE UNCHANGED vars
  BY <1>1 DEF vars, files, agent, world, records, Subscribed
<1>2. CASE Begin
  BY <1>2, BeginMoves DEF Begin, files, agent, records, Subscribed
<1>3. CASE Handle \/ EnsureAccount \/ PeerPublishes \/ (\E card \in net : Deliver(card) \/ Lose(card))
  BY <1>3 DEF Handle, CheckCard, KeepCard, EnsureAccount, PeerPublishes, Deliver, Lose, files, agent,
     world, records, Subscribed
<1>4. CASE CrashRestart
  BY <1>4, EntryTypes DEF CrashRestart, world, Subscribed
<1> QED
  BY <1>1, <1>2, <1>3, <1>4, SubscribedRpc DEF Next

\* Unless the delivery module refused a subscription, the agent listens to no
\* topic and remembers no group that its node is not subscribed to.
THEOREM SubscriptionsHold == Spec => []SubscriptionsStand
<1>1. Init => Subscribed
  BY EntryTypes DEF Init, Subscribed
<1>2. Subscribed => SubscriptionsStand
  BY DEF Subscribed, SubscriptionsStand
<1> QED
  BY <1>1, <1>2, TypedInit, TypedNext, SubscribedNext, PTL DEF Spec

(***************************************************************************)
(* Peers.  A handler is registered once in the life of a process, and      *)
(* before that nothing has been heard: no peer is left of another topic.   *)
(***************************************************************************)
ListensOnce ==
  /\ At("listen") \/ (At("subscribe") /\ call.op = "agent_discover") => my_topic = None
  /\ my_topic = None => /\ handler = Resting
                        /\ \A n \in Names : peers[n] = None /\ heard[n] = None

LEMMA ListensRpc ==
  ASSUME Typed, ListensOnce, Rpc
  PROVE  ListensOnce'
<1>1. ASSUME call'.stage \in {"listen", "subscribe"}
      PROVE  my_topic' = None
  <2>1. At("subscribe") /\ call'.stage = "listen" /\ call'.op = "agent_discover"
    BY <1>1, ReachedFrom
  <2>2. call.op = "agent_discover"
    <3>1. Follows(call.npk) /\ ~Return
      BY <2>1, CallGoes, EntryTypes DEF Named, Unnamed, At, Return
    <3> QED
      BY <2>1, <3>1 DEF Follows, Moves
  <2> QED
    BY <2>1, <2>2, RpcWorld DEF ListensOnce, At
<1>2. ASSUME my_topic' = None
      PROVE  my_topic = None
  <2>1. At("listen") => call.topic # None
    BY UnderWay, DiscoveryAssumption DEF At, InPlan, Typed, CallBounds
  <2> QED
    BY <1>2, <2>1, RpcWorld
<1> QED
  BY <1>1, <1>2, RpcLeaves DEF ListensOnce, At

LEMMA ListensNext ==
  ASSUME Typed, ListensOnce, [Next]_vars
  PROVE  ListensOnce'
<1>1. CASE UNCHANGED vars
  BY <1>1 DEF vars, agent, records, ListensOnce, At
<1>2. CASE Begin
  BY <1>2, BeginMoves DEF Begin, agent, records, ListensOnce, At
<1>3. CASE EnsureAccount \/ PeerPublishes \/ (\E card \in net : Lose(card))
  BY <1>3 DEF EnsureAccount, PeerPublishes, Lose, agent, records, ListensOnce, At
<1>4. CASE Handle \/ \E card \in net : Deliver(card)
  <2>1. /\ UNCHANGED <<my_topic, call>>
        /\ my_topic # None \/ UNCHANGED <<handler, peers, heard>>
    <3>1. CASE Handle
      BY <1>4, <3>1, EntryTypes DEF Handle, CheckCard, KeepCard, agent, ListensOnce
    <3>2. CASE \E card \in net : Deliver(card)
      BY <3>2 DEF Deliver, agent
    <3> QED
      BY <1>4, <3>1, <3>2
  <2> QED
    BY <2>1 DEF ListensOnce, At
<1>5. CASE CrashRestart
  BY <1>5, EntryTypes DEF CrashRestart, ListensOnce, At
<1> QED
  BY <1>1, <1>2, <1>3, <1>4, <1>5, ListensRpc DEF Next

\* Cards name whose they are, except the agent's own, which are all alike but
\* for their name and topic.
TrueCard(card) ==
  \/ card.of \in Peers /\ card.npk = card.of
  \/ card.of = Own /\ card.no = 0 /\ card.npk \in OwnNames

TrueCards ==
  /\ \A card \in net : TrueCard(card)
  /\ handler.card # None => TrueCard(handler.card)
  /\ \A n \in Known : TrueCard(peers[n]) /\ peers[n].npk = n /\ peers[n].topic = my_topic
  /\ handler.keep => handler.card.topic = my_topic

\* Two of the agent's own cards under one name on one topic are the same.
LEMMA SameOwnCard ==
  ASSUME NEW c \in Cards, NEW d \in Cards, TrueCard(c), TrueCard(d),
         c.npk = d.npk, c.topic = d.topic, c.npk \in OwnNames
  PROVE  c = d
<1>1. \A n \in OwnNames : n \notin Peers
  BY DiscoveryAssumption DEF OwnNames, Agents
<1> QED
  BY <1>1 DEF Cards, TrueCard

LEMMA TrueCardsNext ==
  ASSUME Typed, ListensOnce, TrueCards, [Next]_vars
  PROVE  TrueCards'
<1>1. CASE UNCHANGED vars \/ Begin \/ EnsureAccount \/ \E card \in net : Lose(card)
  <2>1. net' \subseteq net /\ UNCHANGED <<handler, peers, my_topic>>
    BY <1>1 DEF vars, Begin, EnsureAccount, Lose, agent, world
  <2>2. Known' = Known
    BY <2>1 DEF Known
  <2> QED
    BY <2>1, <2>2 DEF TrueCards, TrueCard
<1>2. CASE Rpc
  <2>1. UNCHANGED <<handler, peers>>
    BY <1>2, RpcLeaves
  <2>2. \A card \in net' : TrueCard(card)
    BY <1>2, RpcWorld, OwnCardTypes DEF TrueCards, TrueCard, OwnCard
  <2>3. my_topic' = my_topic \/ (Known = {} /\ handler = Resting)
    BY <1>2, RpcWorld DEF ListensOnce, Known
  <2>4. Known' = Known
    BY <2>1 DEF Known
  <2> QED
    BY <2>1, <2>2, <2>3, <2>4, EntryTypes DEF TrueCards, TrueCard
<1>3. CASE CheckCard
  <2>1. /\ UNCHANGED <<net, peers, my_topic>> /\ Known' = Known
        /\ handler.card # None
    BY <1>3 DEF CheckCard, agent, world, Known
  <2>2. \/ handler'.card = None /\ ~handler'.keep
        \/ handler'.card = handler.card /\ handler.card.topic = my_topic
    BY <1>3, CheckMoves, EntryTypes DEF Filter
  <2> QED
    BY <2>1, <2>2 DEF TrueCards, TrueCard
<1>4. CASE KeepCard
  <2>1. /\ UNCHANGED <<net, my_topic>> /\ handler' = Resting
        /\ TrueCard(handler.card) /\ handler.card.topic = my_topic
        /\ peers \in [Names -> Cards \cup {None}]
    BY <1>4 DEF KeepCard, world, TrueCards, Typed, TypeOK
  <2>2. \A n \in Known' : TrueCard(peers'[n]) /\ peers'[n].npk = n /\ peers'[n].topic = my_topic
    <3>1. CASE HasRoom(handler.card.npk)
      BY <1>4, <2>1, <3>1, KnownStep DEF TrueCards, Known
    <3>2. CASE ~HasRoom(handler.card.npk)
      BY <1>4, <3>2, KnownStep DEF TrueCards
    <3> QED
      BY <3>1, <3>2
  <2> QED
    BY <2>1, <2>2, EntryTypes DEF TrueCards, TrueCard
<1>5. CASE PeerPublishes
  <2>1. PICK p \in Peers, topic \in Topics :
          net' = net \cup {[topic |-> topic, npk |-> p, of |-> p, no |-> cards + 1]}
    BY <1>5 DEF PeerPublishes
  <2>2. UNCHANGED <<handler, peers, my_topic>> /\ Known' = Known
    BY <1>5 DEF PeerPublishes, agent, Known
  <2> QED
    BY <2>1, <2>2 DEF TrueCards, TrueCard
<1>6. CASE \E card \in net : Deliver(card)
  <2>1. PICK card \in net : Deliver(card)
    BY <1>6
  <2>2. net' \subseteq net /\ UNCHANGED <<peers, my_topic>> /\ Known' = Known
    BY <2>1 DEF Deliver, agent, Known
  <2>3. UNCHANGED handler \/ handler' = [card |-> card, keep |-> FALSE]
    BY <2>1 DEF Deliver
  <2>4. /\ handler'.card # None => TrueCard(handler'.card)
        /\ handler'.keep => handler'.card.topic = my_topic
    BY <2>3 DEF TrueCards
  <2> QED
    BY <2>2, <2>4 DEF TrueCards, TrueCard
<1>7. CASE CrashRestart
  <2>1. Known' = {} /\ handler' = Resting /\ UNCHANGED net
    BY <1>7, NobodyKnown DEF CrashRestart, world
  <2> QED
    BY <2>1, EntryTypes DEF TrueCards, TrueCard
<1> QED
  BY <1>1, <1>2, <1>3, <1>4, <1>5, <1>6, <1>7 DEF Next, Handle

\* A name that is known is kept until the process stops: what is to be cached is
\* asked for only as long as there is none.
NameStands == call.stage \in {"vpk", "cache"} => config.agent_npk \in {None, call.npk}

LEMMA NameKept ==
  ASSUME Typed, NameStands, [Next]_vars
  PROVE  /\ NameStands'
         /\ \/ config'.agent_npk = config.agent_npk \/ config.agent_npk = None
            \/ CrashRestart
<1>1. CASE UNCHANGED <<config, call>>
  BY <1>1 DEF NameStands
<1>2. CASE Begin
  BY <1>2, BeginMoves DEF Begin, files, NameStands
<1>3. CASE Rpc
  <2>1. config'.agent_npk = config.agent_npk \/ config.agent_npk = None
    BY <1>3, ConfigMoves DEF NameStands, At
  <2>2. NameStands'
    BY <1>3, ConfigMoves, ReachedFrom DEF NameStands, At
  <2> QED
    BY <2>1, <2>2
<1>4. CASE CrashRestart
  BY <1>4, EntryTypes DEF CrashRestart, NameStands
<1> QED
  BY <1>1, <1>2, <1>3, <1>4 DEF Next, vars, Handle, CheckCard, KeepCard, EnsureAccount, PeerPublishes,
     Deliver, Lose, files

(***************************************************************************)
(* The map of peers is current but for the one card that the handler has   *)
(* in its hands, which is then the last that was heard under its name.     *)
(***************************************************************************)
Current(n) ==
  \/ peers[n] = heard[n]
  \/ n \notin Known /\ (Cardinality(Known) = MaxPeers \/ n = config.agent_npk)

InHand == handler.card # None /\ handler.card.topic = my_topic

UpToDate ==
  /\ \A n \in Names : (InHand /\ n = handler.card.npk) \/ Current(n)
  /\ InHand => heard[handler.card.npk] = handler.card

PeersInv == ListensOnce /\ TrueCards /\ NameStands /\ UpToDate

\* Whatever does not touch the cards leaves them current; the agent's name may
\* come to be known.
LEMMA StaysCurrent ==
  ASSUME UpToDate, UNCHANGED <<handler, my_topic, peers, heard>>,
         config'.agent_npk = config.agent_npk \/ config.agent_npk \notin Names
  PROVE  UpToDate'
<1>1. Known' = Known
  BY DEF Known
<1> QED
  BY <1>1 DEF UpToDate, InHand, Current

\* The handler drops a card of the agent's own name: either there is none under
\* it, or it is this very card.
LEMMA CurrentCheck ==
  ASSUME Typed, PeersInv, CheckCard
  PROVE  UpToDate'
<1>0. /\ handler.card \in Cards /\ handler.card.npk \in Names /\ handler.card # None
      /\ UNCHANGED <<config, my_topic, peers, heard>> /\ Known' = Known
  BY CheckMoves DEF CheckCard, Cards, files, agent, Known
<1>1. CASE handler'.card = handler.card
  BY <1>0, <1>1 DEF PeersInv, UpToDate, InHand, Current
<1>2. CASE handler'.card # handler.card
  <2>1. PICK name \in OwnName :
          /\ ~(Filter(handler.card) /\ handler.card.npk # name)
          /\ handler' = Resting
    BY <1>2, CheckMoves
  <2>2. ~InHand'
    BY <2>1, EntryTypes DEF InHand
  <2>3. ASSUME InHand
        PROVE  Current(handler.card.npk)
    <3>1. handler.card.npk = config.agent_npk /\ config.agent_npk \in {Own, Envelope}
      BY <1>0, <2>1, <2>3, DiscoveryAssumption DEF InHand, Filter, OwnName, Typed, TypeOK, Configs
    <3>2. CASE handler.card.npk \in Known
      <4>1. /\ peers[handler.card.npk] \in Cards /\ TrueCard(peers[handler.card.npk])
            /\ peers[handler.card.npk].npk = handler.card.npk
            /\ peers[handler.card.npk].topic = handler.card.topic
        BY <1>0, <2>3, <3>2 DEF PeersInv, TrueCards, InHand, Known, Typed, TypeOK
      <4>2. TrueCard(handler.card) /\ handler.card.npk \in OwnNames
        BY <1>0, <3>1 DEF PeersInv, TrueCards, OwnNames
      <4>3. peers[handler.card.npk] = handler.card
        BY <1>0, <4>1, <4>2, SameOwnCard
      <4> QED
        BY <2>3, <4>3 DEF PeersInv, UpToDate, Current
    <3> QED
      BY <3>1, <3>2 DEF Current
  <2>4. \A n \in Names : Current(n)
    BY <2>3 DEF PeersInv, UpToDate
  <2> QED
    BY <1>0, <2>2, <2>4 DEF UpToDate, Current
<1> QED
  BY <1>1, <1>2

\* It keeps the card, unless it is of a new name and the map is full.
LEMMA CurrentKeep ==
  ASSUME Typed, PeersInv, KeepCard
  PROVE  UpToDate'
<1> DEFINE npk == handler.card.npk
<1>0. /\ handler.card \in Cards /\ npk \in Names /\ InHand
      /\ UNCHANGED <<config, heard>> /\ handler' = Resting /\ ~InHand'
      /\ heard[npk] = handler.card
      /\ Cardinality(Known) \in Nat /\ Cardinality(Known) <= MaxPeers
      /\ peers \in [Names -> Cards \cup {None}]
  BY KnownStep, EntryTypes, FS_CardinalityType
     DEF KeepCard, PeersInv, TrueCards, UpToDate, InHand, files, records, Typed, TypeOK
<1>1. CASE HasRoom(npk)
  <2>1. peers' = [peers EXCEPT ![npk] = handler.card] /\ Known' = Known \cup {npk}
    BY <1>1, KnownStep
  <2>2. Cardinality(Known) = MaxPeers => Known' = Known
    BY <1>0, <1>1, <2>1 DEF HasRoom
  <2>3. ASSUME NEW n \in Names
        PROVE  Current(n)'
    <3>1. CASE n = npk
      BY <1>0, <2>1, <3>1 DEF Current
    <3>2. CASE n # npk
      <4>1. Current(n) /\ peers'[n] = peers[n]
        BY <1>0, <2>1, <2>3, <3>2 DEF PeersInv, UpToDate
      <4> QED
        BY <1>0, <2>1, <2>2, <3>2, <4>1 DEF Current
    <3> QED
      BY <3>1, <3>2
  <2> QED
    BY <1>0, <2>3 DEF UpToDate
<1>2. CASE ~HasRoom(npk)
  <2>1. UNCHANGED <<peers, Known>>
    BY <1>2, KnownStep
  <2>2. npk \notin Known /\ Cardinality(Known) = MaxPeers
    BY <1>0, <1>2, DiscoveryAssumption DEF HasRoom
  <2>3. \A n \in Names : Current(n)
    BY <2>2 DEF PeersInv, UpToDate, Current
  <2> QED
    BY <1>0, <2>1, <2>3 DEF UpToDate, Current
<1> QED
  BY <1>1, <1>2

LEMMA CurrentDeliver ==
  ASSUME Typed, PeersInv, NEW card \in net, Deliver(card)
  PROVE  UpToDate'
<1>0. /\ handler = Resting /\ UNCHANGED <<config, my_topic, peers>> /\ Known' = Known
      /\ card \in Cards /\ card.npk \in Names /\ card # None
      /\ heard \in [Names -> Cards \cup {None}]
  BY DiscoveryAssumption DEF Deliver, files, agent, Known, Typed, TypeOK, Cards
<1>1. \A n \in Names : Current(n)
  BY <1>0, EntryTypes DEF PeersInv, UpToDate, InHand
<1>2. CASE UNCHANGED <<handler, heard>>
  BY <1>0, <1>1, <1>2 DEF UpToDate, Current, PeersInv, InHand
<1>3. CASE /\ handler' = [card |-> card, keep |-> FALSE]
           /\ heard' = IF card.topic = my_topic THEN [heard EXCEPT ![card.npk] = card] ELSE heard
  <2>1. handler'.card = card
    BY <1>3
  <2>2. CASE card.topic = my_topic
    <3>1. heard'[card.npk] = card /\ \A n \in Names : n # card.npk => heard'[n] = heard[n]
      BY <1>0, <1>3, <2>2
    <3> QED
      BY <1>0, <1>1, <2>1, <2>2, <3>1 DEF UpToDate, Current, InHand
  <2>3. CASE card.topic # my_topic
    BY <1>0, <1>1, <1>3, <2>1, <2>3 DEF UpToDate, Current, InHand
  <2> QED
    BY <2>2, <2>3
<1> QED
  BY <1>2, <1>3 DEF Deliver

LEMMA CurrentNext ==
  ASSUME Typed, PeersInv, [Next]_vars
  PROVE  UpToDate'
<1>1. CASE UNCHANGED vars \/ Begin \/ EnsureAccount \/ PeerPublishes \/ \E card \in net : Lose(card)
  BY <1>1, StaysCurrent DEF PeersInv, vars, Begin, EnsureAccount, PeerPublishes, Lose, files, agent, records
<1>2. CASE Rpc
  <2>1. config'.agent_npk = config.agent_npk \/ config.agent_npk \notin Names
    BY <1>2, ConfigMoves, DiscoveryAssumption DEF PeersInv, NameStands, At
  <2>2. CASE my_topic' = my_topic
    BY <1>2, <2>1, <2>2, RpcLeaves, StaysCurrent DEF PeersInv
  <2>3. CASE my_topic' # my_topic
    <3>1. handler' = Resting /\ \A n \in Names : peers'[n] = None /\ heard'[n] = None
      BY <1>2, <2>3, RpcWorld, RpcLeaves DEF PeersInv, ListensOnce
    <3> QED
      BY <3>1, EntryTypes DEF UpToDate, Current, InHand
  <2> QED
    BY <2>2, <2>3
<1>3. CASE CrashRestart
  BY <1>3, EntryTypes DEF CrashRestart, UpToDate, Current, InHand
<1> QED
  BY <1>1, <1>2, <1>3, CurrentCheck, CurrentKeep, CurrentDeliver DEF Next, Handle

LEMMA PeersAlways == Spec => [](Typed /\ PeersInv)
<1>1. Init => PeersInv
  <2> SUFFICES ASSUME Init PROVE PeersInv
    OBVIOUS
  <2>1. Known = {}
    BY DEF Init, Known
  <2> QED
    BY <2>1, EntryTypes DEF Init, PeersInv, ListensOnce, TrueCards, NameStands, UpToDate, Current, InHand, At
<1>2. ASSUME Typed, PeersInv, [Next]_vars
      PROVE  PeersInv'
  BY <1>2, ListensNext, TrueCardsNext, NameKept, CurrentNext DEF PeersInv
<1> QED
  BY <1>1, <1>2, TypedInit, TypedNext, PTL DEF Spec

\* Between messages the map holds the last card under every name that was heard
\* on the topic of discovery, however long it has been full, unless the name
\* came when it was full or is the agent's own.
THEOREM PeersStayCurrent == Spec => []PeersAreCurrent
<1>1. PeersInv => PeersAreCurrent
  BY EntryTypes DEF PeersInv, UpToDate, InHand, Current, PeersAreCurrent
<1> QED
  BY <1>1, PeersAlways, PTL

(***************************************************************************)
(* The agent's own card.  As long as the wallet answers and the file takes *)
(* what is written, one name is published, and it is the one that the      *)
(* handler skips, in this life of the process and in the next.             *)
(***************************************************************************)
OneName ==
  /\ saved_config = config
  /\ call.stage \in {"sign", "send", "last"} => call.npk = config.agent_npk
  /\ \A card \in net : card.of = Own => card.npk = config.agent_npk
  /\ handler.card # None /\ handler.card.of = Own => handler.card.npk = config.agent_npk

NotOwn == (handler.keep => handler.card.of # Own) /\ \A n \in Known : peers[n].of # Own

OwnInv == ~lapsed => OneName /\ (~raced => NotOwn)

LEMMA OneNameRpc ==
  ASSUME Typed, NameStands, OneName, Rpc, ~lapsed'
  PROVE  OneName'
<1>1. saved_config' = config'
  BY ConfigMoves DEF OneName, files
<1>2. call'.stage \in {"sign", "send", "last"} => call'.npk = config'.agent_npk
  BY ConfigMoves, ReachedFrom DEF OneName, At
<1>3. config'.agent_npk = config.agent_npk \/ config.agent_npk = None
  BY ConfigMoves DEF NameStands, At
<1>4. /\ \A card \in net : card.of = Own => card.npk = config'.agent_npk
      /\ handler.card # None /\ handler.card.of = Own => handler.card.npk = config'.agent_npk
  <2>1. \A card \in Cards : card.npk # None
    BY DiscoveryAssumption DEF Cards
  <2> QED
    BY <1>3, <2>1 DEF OneName, Typed, TypeOK, Handlers
<1>5. At("send") => OwnCard.npk = config'.agent_npk
  BY ConfigMoves DEF OneName, At, OwnCard
<1> QED
  BY <1>1, <1>2, <1>4, <1>5, RpcWorld, RpcLeaves DEF OneName

LEMMA OwnNext ==
  ASSUME Typed, NameStands, OwnInv, [Next]_vars
  PROVE  OwnInv'
<1>1. CASE UNCHANGED vars \/ Begin \/ EnsureAccount \/ PeerPublishes
           \/ \E card \in net : Deliver(card) \/ Lose(card)
  <2>1. /\ UNCHANGED <<files, peers, lapsed, raced>> /\ Known' = Known
        /\ call' = call \/ call'.stage \in {"npk", "subscribe", "set"}
    BY <1>1, BeginMoves DEF vars, Begin, EnsureAccount, PeerPublishes, Deliver, Lose, agent, records, Known
  <2>2. /\ \A card \in net' : card \in net \/ card.of # Own
        /\ handler' = handler \/ \E card \in net : handler' = [card |-> card, keep |-> FALSE]
    <3>1. CASE PeerPublishes
      BY <3>1, DiscoveryAssumption DEF PeerPublishes
    <3>2. CASE ~PeerPublishes
      BY <1>1, <3>2 DEF vars, Begin, EnsureAccount, Deliver, Lose, world
    <3> QED
      BY <3>1, <3>2
  <2>3. ASSUME ~lapsed
        PROVE  OneName'
    <3>1. /\ OneName
          /\ \A card \in net' : card.of = Own => card.npk = config'.agent_npk
      BY <2>1, <2>2, <2>3 DEF OwnInv, OneName, files
    <3>2. handler'.card # None /\ handler'.card.of = Own => handler'.card.npk = config'.agent_npk
      BY <2>1, <2>2, <3>1 DEF OneName, files
    <3> QED
      BY <2>1, <3>1, <3>2 DEF OneName, files
  <2>4. NotOwn => NotOwn'
    BY <2>1, <2>2 DEF NotOwn
  <2> QED
    BY <2>1, <2>3, <2>4 DEF OwnInv
<1>2. CASE Rpc
  <2>1. UNCHANGED <<NotOwn, raced>>
    BY <1>2, RpcLeaves DEF NotOwn, Known
  <2>2. ~lapsed' => ~lapsed
    BY <1>2, ConfigMoves
  <2> QED
    BY <1>2, <2>1, <2>2, OneNameRpc DEF OwnInv
<1>3. CASE CheckCard
  <2>1. /\ UNCHANGED <<files, call, peers, net, lapsed>> /\ Known' = Known
        /\ ~raced' => ~raced /\ ~Changing
    BY <1>3 DEF CheckCard, agent, world, Known
  <2>2. PICK name \in OwnName :
          IF Filter(handler.card) /\ handler.card.npk # name
          THEN handler' \in Handlers /\ handler'.card = handler.card /\ handler'.keep = TRUE
          ELSE handler' = Resting
    BY <1>3, CheckMoves
  <2>3. OneName => OneName'
    BY <2>1, <2>2, EntryTypes DEF OneName, files
  <2>4. ASSUME OneName, NotOwn, ~raced'
        PROVE  NotOwn'
    <3>1. name = config.agent_npk
      BY <2>1, <2>4 DEF OwnName
    <3>2. handler'.keep => handler'.card.of # Own
      BY <1>3, <2>2, <2>4, <3>1, EntryTypes DEF OneName, CheckCard
    <3> QED
      BY <2>1, <2>4, <3>2 DEF NotOwn
  <2> QED
    BY <2>1, <2>3, <2>4 DEF OwnInv
<1>4. CASE KeepCard
  <2>1. UNCHANGED <<files, call, net, lapsed, raced>> /\ handler' = Resting
    BY <1>4 DEF KeepCard, world, records
  <2>2. OneName => OneName'
    BY <2>1, EntryTypes DEF OneName, files
  <2>3. ASSUME NotOwn
        PROVE  NotOwn'
    <3>1. handler.card.of # Own /\ peers \in [Names -> Cards \cup {None}]
      BY <1>4, <2>3 DEF KeepCard, NotOwn, Typed, TypeOK
    <3>2. \A n \in Known' : peers'[n].of # Own
      <4>1. CASE HasRoom(handler.card.npk)
        BY <1>4, <2>3, <3>1, <4>1, KnownStep DEF NotOwn, Known
      <4>2. CASE ~HasRoom(handler.card.npk)
        BY <1>4, <2>3, <4>2, KnownStep DEF NotOwn
      <4> QED
        BY <4>1, <4>2
    <3> QED
      BY <2>1, <3>2, EntryTypes DEF NotOwn
  <2> QED
    BY <2>1, <2>2, <2>3 DEF OwnInv
<1>5. CASE CrashRestart
  <2>1. /\ config' = saved_config /\ UNCHANGED <<saved_config, net, lapsed, raced>>
        /\ call' = NoCall /\ handler' = Resting /\ Known' = {}
    BY <1>5, NobodyKnown DEF CrashRestart, world
  <2> QED
    BY <2>1, EntryTypes DEF OwnInv, OneName, NotOwn
<1> QED
  BY <1>1, <1>2, <1>3, <1>4, <1>5 DEF Next, Handle

\* The agent does not discover itself, in this life or after any crash, unless
\* the wallet threw, a write failed or the handler read the configuration while
\* it was being changed.
THEOREM AgentSkipsItself == Spec => []OwnCardSkipped
<1>1. Init => OwnInv
  <2> SUFFICES ASSUME Init PROVE OwnInv
    OBVIOUS
  <2>1. Known = {}
    BY DEF Init, Known
  <2> QED
    BY <2>1, EntryTypes DEF Init, OwnInv, OneName, NotOwn
<1>2. OwnInv => OwnCardSkipped
  BY DEF OwnInv, NotOwn, OwnCardSkipped
<1>3. ASSUME Typed, PeersInv, OwnInv, [Next]_vars
      PROVE  OwnInv'
  BY <1>3, OwnNext DEF PeersInv
<1> QED
  BY <1>1, <1>2, <1>3, PeersAlways, PTL DEF Spec
================================================================================
