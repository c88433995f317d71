----------------------------- MODULE Enrolment -----------------------------
(***************************************************************************)
(* How a host becomes an agent of the master and stays the same one        *)
(* (internal/store/enrol.go, internal/agent/enrol.go,                      *)
(* internal/api/enrol.go, internal/store/agents.go, cmd/smokeng/agent.go): *)
(* one-use tokens, redeemed over a network that may lose the request or    *)
(* the answer; the id a host saves beside its key; agents added by hand,   *)
(* renamed, disabled and removed; and the submissions of those that run.   *)
(*                                                                         *)
(* A host stands for its key: it makes one, and keeps it.  A target's      *)
(* agents list is the set of the names on it.  Every transaction of the    *)
(* store is a step; so is agentAdd, whose read and insert are two, because *)
(* the UNIQUE name refuses what came in between.                           *)
(***************************************************************************)
EXTENDS Naturals, FiniteSets

CONSTANTS
  AgentNames, AgentHosts, EnrolTargets,   \* names, hosts (their keys), targets
  Nobody,                        \* no id, no agent
  MaxAgents, MaxTokens, MaxOps,  \* bounds: ids and tokens made, and other requests
  TokenTTL, LastTick             \* a token's lifetime; bound: the clock

AgentIds == 1..MaxAgents
TokenIds == 1..MaxTokens

ASSUME EnrolmentAssumption ==
  /\ {MaxAgents, MaxTokens, MaxOps, TokenTTL, LastTick} \subseteq Nat
  /\ Nobody \notin AgentIds \cup TokenIds

VARIABLES
  agents,      \* id |-> its row
  lastAgent,   \* the counter ids are taken from
  tokens,      \* id |-> its row
  minted,      \* tokens made so far
  lists,       \* target |-> the names on its agents list
  hosts,       \* host |-> where its process is, and the id it saved
  asked,       \* requests to redeem a token that no one has handled
  admitted,    \* a submission between its signature and its rows
  keptAs,     \* whose rows are stored, by the id they are stored under
  clock, ops,
  (* ghosts *)
  madeBy       \* agent id |-> the token that made it

enrolVars ==
  <<agents, lastAgent, tokens, minted, lists, hosts, asked, admitted, keptAs, clock, ops, madeBy>>

NamesInUse == {agents[i].name : i \in DOMAIN agents}

With(f, x, v) == [y \in DOMAIN f \cup {x} |-> IF y = x THEN v ELSE f[y]]

Except(f, x) == [y \in DOMAIN f \ {x} |-> f[y]]

EnrolInit ==
  /\ agents = <<>> /\ lastAgent = 0
  /\ tokens = <<>> /\ minted = 0
  /\ lists = [t \in EnrolTargets |-> {}]
  /\ hosts = [h \in AgentHosts |-> [pc |-> "off", saved |-> Nobody, answer |-> Nobody]]
  /\ asked = {} /\ admitted = Nobody /\ keptAs = {}
  /\ clock = 0 /\ ops = 0
  /\ madeBy = <<>>

Op == ops < MaxOps /\ ops' = ops + 1

-----------------------------------------------------------------------------
(* Tokens.                                                                 *)

Mint(name) ==
  /\ minted < MaxTokens
  /\ name \notin NamesInUse
  /\ minted' = minted + 1
  /\ tokens' = With(tokens, minted + 1,
                    [name |-> name, expires |-> clock + TokenTTL, used |-> FALSE, agent |-> Nobody])
  /\ UNCHANGED <<agents, lastAgent, lists, hosts, asked, admitted, keptAs, clock, ops, madeBy>>

(* A spent token is kept: it tells how an agent came to be. *)
Revoke(t) ==
  /\ Op
  /\ t \in DOMAIN tokens /\ ~tokens[t].used
  /\ tokens' = Except(tokens, t)
  /\ UNCHANGED <<agents, lastAgent, minted, lists, hosts, asked, admitted, keptAs, clock, madeBy>>

(* The next id is never one that was given out before; in the variant with  *)
(* a fault it is the one after the highest in use.                          *)
NextAgentInUse ==
  IF agents = <<>> THEN 1 ELSE 1 + CHOOSE i \in DOMAIN agents : \A j \in DOMAIN agents : j <= i

NextAgent == lastAgent + 1

Allocate ==
  /\ NextAgent <= MaxAgents
  /\ lastAgent' = IF NextAgent > lastAgent THEN NextAgent ELSE lastAgent

(* What a token must be to be redeemed; the variant with a fault asks       *)
(* whether the agent it made is there, not whether it was used.             *)
MakesAnAgent(t) == tokens[t].agent = Nobody /\ clock <= tokens[t].expires

Redeemable(t) == ~tokens[t].used /\ clock <= tokens[t].expires

Answer(h, id) == hosts' = IF hosts[h].pc = "asking" THEN [hosts EXCEPT ![h].answer = id] ELSE hosts

(* The master handles a request: the token is spent and the agent made in   *)
(* one transaction, or nothing is.  A taken name leaves the token as it is. *)
Redeem(h, t) ==
  /\ <<h, t>> \in asked
  /\ asked' = asked \ {<<h, t>>}
  /\ IF t \in DOMAIN tokens /\ Redeemable(t) /\ tokens[t].name \notin NamesInUse
     THEN /\ Allocate
          /\ agents' = With(agents, NextAgent,
                            [name |-> tokens[t].name, key |-> h, enabled |-> TRUE])
          /\ tokens' = [tokens EXCEPT ![t].used = TRUE, ![t].agent = NextAgent]
          /\ madeBy' = With(madeBy, NextAgent, t)
          /\ Answer(h, NextAgent)
     ELSE /\ Answer(h, 0)
          /\ UNCHANGED <<agents, lastAgent, tokens, madeBy>>
  /\ UNCHANGED <<minted, lists, admitted, keptAs, clock, ops>>

-----------------------------------------------------------------------------
(* The host.                                                               *)

(* A start: a saved id is used, and only without one is a token spent. *)
Start(h, t) ==
  /\ hosts[h].pc = "off"
  /\ IF hosts[h].saved # Nobody
     THEN hosts' = [hosts EXCEPT ![h].pc = "running"] /\ UNCHANGED <<asked, ops>>
     ELSE /\ Op
          /\ hosts' = [hosts EXCEPT ![h].pc = "asking", ![h].answer = Nobody]
          /\ asked' = asked \cup {<<h, t>>}
  /\ UNCHANGED <<agents, lastAgent, tokens, minted, lists, admitted, keptAs, clock, madeBy>>

(* The answer arrives: the id is saved before it is used.  A refusal, or a  *)
(* file that cannot be written, ends the process.                           *)
Enrolled(h) ==
  /\ hosts[h].pc = "asking" /\ hosts[h].answer \in AgentIds
  /\ hosts' = [hosts EXCEPT ![h] = [pc |-> "running", saved |-> @.answer, answer |-> Nobody]]
  /\ UNCHANGED <<agents, lastAgent, tokens, minted, lists, asked, admitted, keptAs, clock, ops,
                 madeBy>>

(* The process ends: refused, not able to save the id, tired of waiting     *)
(* with the request or the answer still on its way, or for any other cause. *)
Ends(h) ==
  /\ hosts[h].pc # "off"
  /\ hosts' = [hosts EXCEPT ![h].pc = "off", ![h].answer = Nobody]
  /\ UNCHANGED <<agents, lastAgent, tokens, minted, lists, asked, admitted, keptAs, clock, ops,
                 madeBy>>

RequestLost(h, t) ==
  /\ <<h, t>> \in asked
  /\ asked' = asked \ {<<h, t>>}
  /\ UNCHANGED <<agents, lastAgent, tokens, minted, lists, hosts, admitted, keptAs, clock, ops,
                 madeBy>>

-----------------------------------------------------------------------------
(* Agents by hand, and what is done with them.                             *)

(* Adding the same key under the same name again changes nothing; another   *)
(* key is refused.  The operator starts the host with the id.               *)
AddByHand(h, name) ==
  LET same == {i \in DOMAIN agents : agents[i].name = name} IN
  /\ Op
  /\ hosts[h].pc = "off"
  /\ \A i \in same : agents[i].key = h
  /\ IF same # {}
     THEN /\ hosts' = [hosts EXCEPT ![h].saved = CHOOSE i \in same : TRUE]
          /\ UNCHANGED <<agents, lastAgent>>
     ELSE /\ Allocate
          /\ agents' = With(agents, NextAgent, [name |-> name, key |-> h, enabled |-> TRUE])
          /\ hosts' = [hosts EXCEPT ![h].saved = NextAgent]
  /\ UNCHANGED <<tokens, minted, lists, asked, admitted, keptAs, clock, madeBy>>

SetEnabled(i) ==
  /\ Op
  /\ agents' = [agents EXCEPT ![i].enabled = ~@]
  /\ UNCHANGED <<lastAgent, tokens, minted, lists, hosts, asked, admitted, keptAs, clock, madeBy>>

(* One that has rows stays; a token it came from forgets it. *)
RemoveAgent(i) ==
  /\ Op
  /\ \A row \in keptAs : row[1] # i
  /\ agents' = Except(agents, i)
  /\ tokens' = [t \in DOMAIN tokens |->
                 IF tokens[t].agent = i THEN [tokens[t] EXCEPT !.agent = Nobody] ELSE tokens[t]]
  /\ UNCHANGED <<lastAgent, minted, lists, hosts, asked, admitted, keptAs, clock, madeBy>>

(* The lists that name an agent follow its name.                            *)
Rewritten(old, new) ==
  [t \in EnrolTargets |-> IF old \in lists[t] THEN (lists[t] \ {old}) \cup {new} ELSE lists[t]]

Rename(i, name) ==
  /\ Op
  /\ name # agents[i].name /\ name \notin NamesInUse
  /\ agents' = [agents EXCEPT ![i].name = name]
  /\ lists' = Rewritten(agents[i].name, name)
  /\ UNCHANGED <<lastAgent, tokens, minted, hosts, asked, admitted, keptAs, clock, madeBy>>

(* A list may name only agents there are. *)
Assign(t, names) ==
  /\ Op
  /\ names \subseteq NamesInUse /\ names # lists[t]
  /\ lists' = [lists EXCEPT ![t] = names]
  /\ UNCHANGED <<agents, lastAgent, tokens, minted, hosts, asked, admitted, keptAs, clock, madeBy>>

-----------------------------------------------------------------------------
(* A submission: the signature is checked against the agent's key, and the  *)
(* rows are stored later, under the id and for the name that were read.     *)

Submit(h) ==
  LET i == hosts[h].saved IN
  /\ hosts[h].pc = "running" /\ admitted = Nobody
  /\ i \in DOMAIN agents /\ agents[i].enabled /\ agents[i].key = h
  /\ admitted' = [id |-> i, name |-> agents[i].name, host |-> h]
  /\ UNCHANGED <<agents, lastAgent, tokens, minted, lists, hosts, asked, keptAs, clock, ops,
                 madeBy>>

Store ==
  /\ admitted # Nobody
  /\ keptAs' = IF \E t \in EnrolTargets : admitted.name \in lists[t]
                THEN keptAs \cup {<<admitted.id, admitted.host>>} ELSE keptAs
  /\ admitted' = Nobody
  /\ UNCHANGED <<agents, lastAgent, tokens, minted, lists, hosts, asked, clock, ops, madeBy>>

EnrolTick ==
  /\ clock < LastTick
  /\ clock' = clock + 1
  /\ UNCHANGED <<agents, lastAgent, tokens, minted, lists, hosts, asked, admitted, keptAs, ops,
                 madeBy>>

EnrolNext ==
  \/ \E name \in AgentNames : Mint(name)
  \/ \E t \in DOMAIN tokens : Revoke(t)
  \/ \E h \in AgentHosts, t \in 1..minted : Start(h, t) \/ Redeem(h, t) \/ RequestLost(h, t)
  \/ \E h \in AgentHosts : Enrolled(h) \/ Ends(h) \/ Submit(h)
  \/ \E h \in AgentHosts, name \in AgentNames : AddByHand(h, name)
  \/ \E i \in DOMAIN agents : SetEnabled(i) \/ RemoveAgent(i) \/ \E name \in AgentNames : Rename(i, name)
  \/ \E t \in EnrolTargets, names \in SUBSET AgentNames : Assign(t, names)
  \/ Store
  \/ EnrolTick

EnrolSpec == EnrolInit /\ [][EnrolNext]_enrolVars

-----------------------------------------------------------------------------
(* An agent is one host and one enrolment, whatever is lost, asked again,   *)
(* revoked or removed in between.  A token makes one agent at most          *)
(* (enrol.go:118-120); the id a host saved is its own as long as anyone has *)
(* it, as no other key is ever enrolled under it; and what is stored under  *)
(* an id was measured by one host, even when the agent was removed while    *)
(* its rows were on their way (ids.go:11-30).                               *)
AnAgentIsOneHost ==
  /\ \A i, j \in DOMAIN madeBy : madeBy[i] = madeBy[j] => i = j
  /\ \A h \in AgentHosts : hosts[h].saved \in DOMAIN agents => agents[hosts[h].saved].key = h
  /\ \A r, s \in keptAs : r[1] = s[1] => r = s
=============================================================================
