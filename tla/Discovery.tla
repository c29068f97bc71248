------------------------------- MODULE Discovery -------------------------------
(***************************************************************************)
(* Agent cards, the discovery of other agents and the topics of groups     *)
(* (agent_card, agent_discover, the messageReceived handler,               *)
(* messaging_join and messaging_create_group in agent_module_impl.cpp).    *)
(*                                                                         *)
(* Two threads.  The RPC thread runs one skill at a time, in stages that   *)
(* end at a call of another module or a write to the data directory.  The  *)
(* event thread handles one message at a time: it reads the agent's own    *)
(* name out of the configuration, without a lock, and puts the sender's    *)
(* card into the map of peers.                                             *)
(*                                                                         *)
(* The relay (the delivery module and its network, external) passes on a   *)
(* message of a topic that the node is subscribed to once, or never, in    *)
(* any order, the agent's own messages too.  A node that nobody listens to *)
(* passes it on in vain.                                                   *)
(***************************************************************************)
EXTENDS Naturals, FiniteSets

CONSTANTS
  Topics,        \* what callers name
  Joins,         \* bound: topics that messaging_join is called for
  Groups,        \* topics of messaging_create_group: bounds its calls
  Peers,         \* other agents, by their npk
  Own,           \* the npk of the agent's account
  MaxPeers,      \* kMaxDiscoveredPeers
  MaxCards,      \* bound: cards of other agents
  MaxDiscovers,  \* bound: calls of agent_discover
  MaxFaults,     \* bound: faults of all kinds together
  Unavailable,   \* "npk_unavailable"
  Envelope,      \* an error envelope
  None

Agents == Peers \cup {Own}
Names == Agents \cup {Unavailable, Envelope}

\* Cards as they are published: the name in x-lez-identity, and whose card it is.
Cards == [topic : Topics, npk : Names, of : Agents, no : 0..MaxCards]

ASSUME DiscoveryAssumption ==
  /\ Topics \cap Groups = {} /\ Joins \subseteq Topics
  /\ MaxPeers \in Nat /\ MaxCards \in Nat /\ MaxDiscovers \in Nat /\ MaxFaults \in Nat
  /\ Own \notin Peers
  /\ Unavailable # Envelope
  /\ {Unavailable, Envelope} \cap Agents = {}
  /\ None \notin Names \cup Topics \cup Groups \cup Cards

\* The keys of the configuration that matter here: agent_npk, joined_groups, and whether there
\* is an agent_vpk, a key to sign with, and a last_discover_topic, which nothing reads.
Configs == [agent_npk : {None, Own, Envelope}, vpk : BOOLEAN, signs : BOOLEAN,
            joined : SUBSET (Joins \cup Groups), last : BOOLEAN]
NoConfig == [agent_npk |-> None, vpk |-> FALSE, signs |-> FALSE, joined |-> {}, last |-> FALSE]

\* A slip: the handler is registered before its topic is subscribed to.
ListenFirstPlan ==
  [agent_card |-> <<"npk", "vpk", "cache", "sign">>,
   agent_discover |-> <<"listen", "subscribe", "npk", "vpk", "cache", "sign", "send", "last">>,
   messaging_join |-> <<"subscribe", "record">>,
   messaging_create_group |-> <<"subscribe", "record">>,
   meta_configure |-> <<"set">>]

\* A skill as its stages; a card that could not be completed goes on at "sign".
Plan ==
  [agent_card |-> <<"npk", "vpk", "cache", "sign">>,
   agent_discover |-> <<"subscribe", "listen", "npk", "vpk", "cache", "sign", "send", "last">>,
   messaging_join |-> <<"subscribe", "record">>,
   messaging_create_group |-> <<"subscribe", "record">>,
   meta_configure |-> <<"set">>]

Stages == {"idle", "subscribe", "listen", "npk", "vpk", "cache", "sign", "send", "last", "record", "set"}

Calls == [op : DOMAIN Plan \cup {"none"}, stage : Stages, topic : Topics \cup Groups \cup {None},
          npk : Names \cup {None}]
NoCall == [op |-> "none", stage |-> "idle", topic |-> None, npk |-> None]

\* The handler: the message it is at, and whether it has decided to keep it.
Handlers == [card : Cards \cup {None}, keep : BOOLEAN]
Resting == [card |-> None, keep |-> FALSE]

VARIABLES
  config, saved_config,
  call,
  handler,
  my_topic,      \* discovery_handler_registered, with the topic its handler listens to
  peers,         \* g_discovered_peers, by name
  account,       \* the wallet has an account (external)
  node,          \* topics that the delivery node is subscribed to (external)
  net,           \* cards on their way to this agent (external)
  cards,         \* cards that other agents have published
  discovers,     \* calls of agent_discover
  faults,
  heard,         \* history: the last card under each name on my_topic
  lapsed,        \* history: a call of the wallet threw, or a write failed
  refused,       \* history: the delivery module refused a subscription
  raced          \* history: the handler read the configuration while it was being changed

files == <<config, saved_config>>
agent == <<my_topic, peers>>
world == <<account, node, net, cards, discovers>>
records == <<heard, lapsed, refused, raced>>
vars == <<files, call, handler, agent, world, faults, records>>

Init ==
  /\ config = NoConfig /\ saved_config = NoConfig
  /\ call = NoCall
  /\ handler = Resting
  /\ my_topic = None
  /\ peers = [n \in Names |-> None]
  /\ account = FALSE
  /\ node = {} /\ net = {} /\ cards = 0 /\ discovers = 0
  /\ faults = 0
  /\ heard = [n \in Names |-> None]
  /\ lapsed = FALSE /\ refused = FALSE /\ raced = FALSE

Fault == faults < MaxFaults /\ faults' = faults + 1

At(stage) == call.stage = stage
Return == call' = NoCall

\* The skill as it is in r goes on to the stage that follows in its plan.
Go(r) ==
  LET plan == Plan[r.op]
      next == {i + 1 : i \in {j \in DOMAIN plan : plan[j] = r.stage}} \cap DOMAIN plan IN
  call' = IF next = {} THEN NoCall ELSE [r EXCEPT !.stage = plan[CHOOSE i \in next : TRUE]]

\* A call of another module throws, after it took effect or not; the skill returns an error.
Throw == Fault /\ Return

\* save_json_file, whose result nobody looks at: the new content, or what a failed write leaves.
Save ==
  \/ saved_config' = config' /\ UNCHANGED <<faults, lapsed>>
  \/ Fault /\ saved_config' \in {saved_config, NoConfig} /\ lapsed' = TRUE

(***************************************************************************)
(* The RPC thread.                                                         *)
(***************************************************************************)

\* The topics that a skill may be called for; agent_card has none, and the topic of a new
\* group is one that nobody has used.
TopicsOf(op) ==
  CASE op = "agent_discover" -> IF discovers < MaxDiscovers THEN Topics ELSE {}
    [] op = "messaging_join" -> Joins
    [] op = "messaging_create_group" -> Groups \ (node \cup config.joined \cup saved_config.joined)
    [] OTHER -> {None}

\* agent_discover subscribes only as long as no handler is registered.
Skips(op) == op = "agent_discover" /\ my_topic # None

Begin ==
  /\ At("idle")
  /\ \E op \in DOMAIN Plan : \E topic \in TopicsOf(op) :
       call' = [NoCall EXCEPT !.op = op, !.topic = topic,
                              !.stage = IF Skips(op) THEN "npk" ELSE Plan[op][1]]
  /\ discovers' = IF call'.op = "agent_discover" THEN discovers + 1 ELSE discovers
  /\ UNCHANGED <<files, handler, agent, account, node, net, cards, faults, records>>

\* The answer of subscribe is not looked at: one that is refused goes on as well.
Subscribe ==
  /\ At("subscribe")
  /\ \/ node' = node \cup {call.topic} /\ Go(call) /\ UNCHANGED <<faults, refused>>
     \/ Fault /\ Go(call) /\ refused' = TRUE /\ UNCHANGED node
     \/ node' \in {node, node \cup {call.topic}} /\ Throw /\ UNCHANGED refused
  /\ UNCHANGED <<files, handler, agent, account, net, cards, discovers, heard, lapsed, raced>>

Listen ==
  /\ At("listen")
  /\ \/ my_topic' = call.topic /\ Go(call) /\ UNCHANGED faults
     \/ Throw /\ UNCHANGED my_topic
  /\ UNCHANGED <<files, handler, peers, world, records>>

\* What the wallet's npk and vpk answer, an error too, is text; before there is an account
\* it is an error envelope.
WalletAnswer == IF account THEN Own ELSE Envelope

\* A key that is known is not asked for again.  If the wallet throws nothing is cached, and a card
\* without a name is one of "npk_unavailable".
AskNpk ==
  /\ At("npk")
  /\ \/ /\ config.agent_npk # None
        /\ Go([call EXCEPT !.npk = config.agent_npk])
        /\ UNCHANGED <<faults, lapsed>>
     \/ /\ config.agent_npk = None
        /\ Go([call EXCEPT !.npk = WalletAnswer])
        /\ UNCHANGED <<faults, lapsed>>
     \/ /\ config.agent_npk = None \/ ~config.vpk
        /\ Fault /\ lapsed' = TRUE
        /\ call' = [call EXCEPT !.stage = "sign",
                                !.npk = IF config.agent_npk = None THEN Unavailable ELSE config.agent_npk]
  /\ UNCHANGED <<files, handler, agent, world, heard, refused, raced>>

AskVpk ==
  /\ At("vpk")
  /\ \/ Go(call) /\ UNCHANGED <<faults, lapsed>>
     \/ ~config.vpk /\ Fault /\ lapsed' = TRUE /\ call' = [call EXCEPT !.stage = "sign"]
  /\ UNCHANGED <<files, handler, agent, world, heard, refused, raced>>

\* A slip: only the vpk is kept.
VpkOnlyCacheKeys ==
  /\ At("cache")
  /\ config' = [config EXCEPT !.vpk = TRUE]
  /\ Save
  /\ Go(call)
  /\ UNCHANGED <<handler, agent, world, heard, refused, raced>>

\* The keys are kept, and saved, if one of them was asked for.
CacheKeys ==
  /\ At("cache")
  /\ config' = [config EXCEPT !.agent_npk = call.npk, !.vpk = TRUE]
  /\ IF config' = config THEN UNCHANGED <<saved_config, faults, lapsed>> ELSE Save
  /\ Go(call)
  /\ UNCHANGED <<handler, agent, world, heard, refused, raced>>

\* The key to sign cards with is made once.
SignCard ==
  /\ At("sign")
  /\ config' = [config EXCEPT !.signs = TRUE]
  /\ IF config.signs THEN UNCHANGED <<saved_config, faults, lapsed>> ELSE Save
  /\ Go(call)
  /\ UNCHANGED <<handler, agent, world, heard, refused, raced>>

\* The agent's card on the topic of this call; the answer of send is not looked at.
SendCard ==
  /\ At("send")
  /\ LET card == [topic |-> call.topic, npk |-> call.npk, of |-> Own, no |-> 0] IN
     \/ net' = net \cup {card} /\ Go(call) /\ UNCHANGED faults
     \/ Fault /\ Go(call) /\ UNCHANGED net
     \/ net' \in {net, net \cup {card}} /\ Throw
  /\ UNCHANGED <<files, handler, agent, account, node, cards, discovers, records>>

\* last_discover_topic; the reply lists the peers there are.
RememberTopic ==
  /\ At("last")
  /\ config' = [config EXCEPT !.last = TRUE]
  /\ Save
  /\ Go(call)
  /\ UNCHANGED <<handler, agent, world, heard, refused, raced>>

\* joined_groups.  A new group's members have been invited over chat before, whatever came of it.
RecordMembership ==
  /\ At("record")
  /\ config' = [config EXCEPT !.joined = @ \cup {call.topic}]
  /\ IF call.op = "messaging_join" /\ call.topic \in config.joined
     THEN UNCHANGED <<saved_config, faults, lapsed>> ELSE Save
  /\ Go(call)
  /\ UNCHANGED <<handler, agent, world, heard, refused, raced>>

\* meta_configure of a key that does not matter here: it changes the map and saves it.
Configure ==
  /\ At("set")
  /\ UNCHANGED config
  /\ Save
  /\ Go(call)
  /\ UNCHANGED <<handler, agent, world, heard, refused, raced>>

(***************************************************************************)
(* The event thread.                                                       *)
(***************************************************************************)

\* The stages in which the RPC thread may be inserting a key into the configuration.
Changing ==
  \/ At("cache") /\ (config.agent_npk = None \/ ~config.vpk)
  \/ At("sign") /\ ~config.signs
  \/ At("last") /\ ~config.last
  \/ At("record") /\ config.joined = {}
  \/ At("set")

\* What the handler reads as the agent's own name: a search of a map that is being
\* changed may miss the key.
OwnName == IF Changing THEN {config.agent_npk, None} ELSE {config.agent_npk}

Filter(card) == card.topic = my_topic

\* The message is dropped if it comes on another topic or has the agent's own name.
CheckCard ==
  /\ handler.card # None /\ ~handler.keep
  /\ \E name \in OwnName :
       handler' = IF Filter(handler.card) /\ handler.card.npk # name
                  THEN [handler EXCEPT !.keep = TRUE] ELSE Resting
  /\ raced' = (raced \/ Changing)
  /\ UNCHANGED <<files, call, agent, world, faults, heard, lapsed, refused>>

Known == {n \in Names : peers[n] # None}

\* A slip: a full map takes nothing, not even what it has.
FullIsFull(npk) == Cardinality(Known) < MaxPeers
\* A slip: one more than the bound.
OneMoreHasRoom(npk) == npk \in Known \/ Cardinality(Known) <= MaxPeers

HasRoom(npk) == npk \in Known \/ Cardinality(Known) < MaxPeers

\* Into the map, under its lock; known peers are still refreshed when it is full.
KeepCard ==
  /\ handler.card # None /\ handler.keep
  /\ LET npk == handler.card.npk IN
     peers' = IF HasRoom(npk) THEN [peers EXCEPT ![npk] = handler.card] ELSE peers
  /\ handler' = Resting
  /\ UNCHANGED <<files, call, my_topic, world, faults, records>>

(***************************************************************************)
(* Everything else.                                                        *)
(***************************************************************************)

EnsureAccount ==
  /\ ~account
  /\ account' = TRUE
  /\ UNCHANGED <<files, call, handler, agent, node, net, cards, discovers, faults, records>>

PeerPublishes ==
  /\ cards < MaxCards
  /\ cards' = cards + 1
  /\ \E p \in Peers, topic \in Topics :
       net' = net \cup {[topic |-> topic, npk |-> p, of |-> p, no |-> cards + 1]}
  /\ UNCHANGED <<files, call, handler, agent, account, node, discovers, faults, records>>

\* A message is passed on; without a handler it is gone.
Deliver(card) ==
  /\ card \in net /\ card.topic \in node
  /\ handler = Resting
  /\ net' = net \ {card}
  /\ IF my_topic = None THEN UNCHANGED <<handler, heard>>
     ELSE /\ handler' = [card |-> card, keep |-> FALSE]
          /\ heard' = IF card.topic = my_topic THEN [heard EXCEPT ![card.npk] = card] ELSE heard
  /\ UNCHANGED <<files, call, agent, account, node, cards, discovers, faults, lapsed, refused, raced>>

Lose(card) ==
  /\ card \in net
  /\ Fault
  /\ net' = net \ {card}
  /\ UNCHANGED <<files, call, handler, agent, account, node, cards, discovers, records>>

\* The process stops anywhere and a new one runs load_all; the node stays subscribed.
CrashRestart ==
  /\ Fault
  /\ config' = saved_config
  /\ call' = NoCall /\ handler' = Resting
  /\ my_topic' = None
  /\ peers' = [n \in Names |-> None]
  /\ heard' = [n \in Names |-> None]
  /\ UNCHANGED <<saved_config, world, lapsed, refused, raced>>

Rpc ==
  \/ Subscribe \/ Listen \/ AskNpk \/ AskVpk \/ CacheKeys \/ SignCard \/ SendCard
  \/ RememberTopic \/ RecordMembership \/ Configure

Handle == CheckCard \/ KeepCard

Next ==
  \/ Begin \/ Rpc \/ Handle
  \/ EnsureAccount \/ PeerPublishes \/ (\E card \in net : Deliver(card) \/ Lose(card))
  \/ CrashRestart

Spec == Init /\ [][Next]_vars

(***************************************************************************)
(* Properties.                                                             *)
(***************************************************************************)

\* Every variable keeps its type, and the map of peers its bound.
TypeOK ==
  /\ config \in Configs /\ saved_config \in Configs
  /\ call \in Calls
  /\ handler \in Handlers
  /\ my_topic \in Topics \cup {None}
  /\ peers \in [Names -> Cards \cup {None}]
  /\ Cardinality(Known) <= MaxPeers
  /\ account \in BOOLEAN
  /\ node \in SUBSET (Topics \cup Groups)
  /\ net \in SUBSET Cards
  /\ cards \in 0..MaxCards /\ discovers \in 0..MaxDiscovers
  /\ faults \in 0..MaxFaults
  /\ heard \in [Names -> Cards \cup {None}]
  /\ lapsed \in BOOLEAN /\ refused \in BOOLEAN /\ raced \in BOOLEAN

\* The agent does not discover itself, crashes included, unless the wallet threw, a write
\* failed or the handler's unlocked read met a change of the configuration.
OwnCardSkipped == ~lapsed /\ ~raced => \A n \in Known : peers[n].of # Own

\* Between messages the map holds, under every name that a card came under on the topic of
\* discovery, the last such card, however long it has been full; only a name that came when it
\* was full, or the agent's own, is not there.
PeersAreCurrent ==
  handler = Resting =>
    \A n \in Names :
      \/ peers[n] = heard[n]
      \/ n \notin Known /\ (Cardinality(Known) = MaxPeers \/ n = config.agent_npk)

\* Unless the delivery module refused a subscription, the agent listens to no topic, and remembers
\* no group, that its node is not subscribed to, whatever throws, fails to be written or crashes.
SubscriptionsStand ==
  ~refused =>
    (IF my_topic = None THEN {} ELSE {my_topic}) \cup config.joined \cup saved_config.joined \subseteq node

\* "NPK ties the A2A card to the LEZ shielded account": when the wallet has an account and
\* nothing is under way, the name of the agent is that of its account, or not known yet.
CardNamesAccount == account /\ At("idle") => config.agent_npk \in {None, Own}
===============================================================================
