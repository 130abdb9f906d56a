--------------------------- MODULE RuleSync_proofs ---------------------------
(***************************************************************************)
(* Theorems about RuleStore, and about RuleSync, which takes its steps,    *)
(* for every value of their constants.                                     *)
(***************************************************************************)
EXTENDS RuleSync, TLAPS

(***************************************************************************)
(* Part one: the store.                                                    *)
(***************************************************************************)

-----------------------------------------------------------------------------
(* Policies.                                                               *)

\* Whatever a request holds, the policy the panel stores is a normal one.
LEMMA PanelPolicyType ==
    ASSUME NEW raw \in RawPolicy
    PROVE  PanelPolicy(raw) \in Policy
<1>1. PanelMode(raw.mode) \in Modes
  BY DEF PanelMode, Modes
<1>2. NormalPorts(raw.sshPorts) \in (SUBSET PortNumbers) \ {{}}
  <2>1. CASE raw.sshPorts \cap PortNumbers = {}
    <3>1. NormalPorts(raw.sshPorts) = {22}
      BY <2>1 DEF NormalPorts
    <3>2. 22 \in PortNumbers
      BY DEF PortNumbers
    <3> QED BY <3>1, <3>2
  <2>2. CASE raw.sshPorts \cap PortNumbers # {}
    BY <2>2 DEF NormalPorts
  <2> QED BY <2>1, <2>2
<1>3. ClampSeconds(raw.rollback) \in 15..600
  BY DEF ClampSeconds, RawPolicy
<1> QED
  BY <1>1, <1>2, <1>3 DEF PanelPolicy, Policy

\* The agent's normalisation changes no policy the panel sends: otherwise
\* the agent would find a new policy in every heartbeat's answer and apply
\* its rules again each time (applyPanelFirewallPolicy).
THEOREM AgentKeepsPanelPolicy ==
    ASSUME NEW raw \in RawPolicy
    PROVE  AgentPolicy(PanelPolicy(raw)) = PanelPolicy(raw)
<1> DEFINE p == PanelPolicy(raw)
<1>1. p.mode \in Modes /\ p.sshPorts \in (SUBSET PortNumbers) \ {{}} /\ p.rollback \in 15..600
  BY PanelPolicyType DEF Policy
<1>2. (IF p.mode = "strict" THEN "strict" ELSE "managed") = p.mode
  BY <1>1 DEF Modes
<1>3. NormalPorts(p.sshPorts) = p.sshPorts
  BY <1>1 DEF NormalPorts
<1>4. ClampSeconds(p.rollback) = p.rollback
  BY <1>1 DEF ClampSeconds
<1>5. p = [mode |-> p.mode, sshPorts |-> p.sshPorts, rollback |-> p.rollback]
  BY Zenon DEF PanelPolicy
<1> QED
  BY <1>2, <1>3, <1>4, <1>5 DEF AgentPolicy

-----------------------------------------------------------------------------
(* Types.                                                                  *)

NodeMap == [NodeIds -> Policy \cup {Absent}]
RuleMap == [RuleIds -> Rule \cup {Absent}]
HistoryMap == [RuleIds -> NodeIds \cup {Absent}]

\* Replacing whole maps by maps of their types keeps the shape of Data.
LEMMA DataExcept ==
    ASSUME NEW d \in Data
    PROVE  /\ \A nodes \in NodeMap : [d EXCEPT !.nodes = nodes] \in Data
           /\ \A rules \in RuleMap, v \in Nat :
                 [d EXCEPT !.rules = rules, !.ruleVersion = v] \in Data
           /\ \A rules \in RuleMap, history \in HistoryMap :
                 [d EXCEPT !.history = history, !.rules = rules] \in Data
           /\ \A rules \in RuleMap, history \in HistoryMap, v \in Nat :
                 [d EXCEPT !.rules = rules, !.history = history, !.ruleVersion = v] \in Data
           /\ \A nodes \in NodeMap, rules \in RuleMap, v \in Nat :
                 [d EXCEPT !.nodes = nodes, !.rules = rules, !.ruleVersion = v] \in Data
           /\ \A nodes \in NodeMap, rules \in RuleMap, history \in HistoryMap, v \in Nat :
                 [d EXCEPT !.nodes = nodes, !.rules = rules, !.history = history,
                           !.ruleVersion = v] \in Data
  BY DEF Data, NodeMap, RuleMap, HistoryMap

LEMMA Fields ==
    ASSUME NEW d \in Data
    PROVE  /\ d.nodes \in NodeMap
           /\ d.rules \in RuleMap
           /\ d.history \in HistoryMap
           /\ d.ruleVersion \in Nat
  BY DEF Data, NodeMap, RuleMap, HistoryMap

LEMMA VersionType ==
    ASSUME data \in Data
    PROVE  NextVersion \in Nat
  BY DEF Data, NextVersion

LEMMA StoreRuleType ==
    ASSUME TypeOK, NEW id \in RuleIds, NEW body \in Body, NEW enabled \in BOOLEAN,
           NEW state \in ApplyStates, StoreRule(id, ToRule(body, enabled, state))
    PROVE  data' \in Data
<1> DEFINE rule == ToRule(body, enabled, state)
           rules == [data.rules EXCEPT ![id] = rule]
<1>1. data \in Data /\ NextVersion \in Nat
  BY VersionType DEF TypeOK
<1>2. rule \in Rule
  BY <1>1 DEF ToRule, Rule, Body
<1>3. rules \in RuleMap
  BY <1>1, <1>2, Fields DEF RuleMap
<1> QED
  BY <1>1, <1>3, DataExcept, Zenon DEF StoreRule

LEMMA DeleteRuleType ==
    ASSUME TypeOK, NEW id \in RuleIds, DeleteRule(id)
    PROVE  data' \in Data
<1> DEFINE rules == [data.rules EXCEPT ![id] = Absent]
           history == [data.history EXCEPT ![id] = Absent]
<1>1. data \in Data /\ NextVersion \in Nat
  BY VersionType DEF TypeOK
<1>2. rules \in RuleMap /\ history \in HistoryMap
  BY <1>1, Fields DEF RuleMap, HistoryMap
<1>3. data' = [data EXCEPT !.rules = rules, !.history = history, !.ruleVersion = NextVersion]
  BY Zenon DEF DeleteRule
<1> QED
  BY <1>1, <1>2, <1>3, DataExcept, Zenon

LEMMA RegisterNodeType ==
    ASSUME TypeOK, NEW n \in NodeIds, NEW raw \in RawPolicies, RegisterNode(n, raw)
    PROVE  data' \in Data
<1> DEFINE nodes == [data.nodes EXCEPT ![n] = PanelPolicy(raw)]
<1>1. data \in Data
  BY DEF TypeOK
<1>2. PanelPolicy(raw) \in Policy
  BY PanelPolicyType, StoreConstants
<1>3. nodes \in NodeMap
  BY <1>1, <1>2, Fields DEF NodeMap
<1> QED
  BY <1>1, <1>3, DataExcept, Zenon DEF RegisterNode

LEMMA UpdateNodeSettingsType ==
    ASSUME TypeOK, NEW n \in NodeIds, NEW raw \in RawPolicies, UpdateNodeSettings(n, raw)
    PROVE  data' \in Data
<1> DEFINE nodes == [data.nodes EXCEPT ![n] = PanelPolicy(raw)]
<1>1. data \in Data /\ NextVersion \in Nat
  BY VersionType DEF TypeOK
<1>2. PanelPolicy(raw) \in Policy
  BY PanelPolicyType, StoreConstants
<1>3. nodes \in NodeMap
  BY <1>1, <1>2, Fields DEF NodeMap
<1>4. ASSUME NEW r \in RuleIds
      PROVE  PendingRules(n)[r] \in Rule \cup {Absent}
  BY <1>1 DEF PendingRules, Data, Rule, Has, ApplyStates
<1>5. PendingRules(n) \in RuleMap
  BY <1>4 DEF PendingRules, RuleMap
<1>6. \/ data' = data
      \/ data' = [data EXCEPT !.nodes = nodes, !.rules = PendingRules(n),
                              !.ruleVersion = NextVersion]
  BY Zenon DEF UpdateNodeSettings
<1>7. [data EXCEPT !.nodes = nodes, !.rules = PendingRules(n), !.ruleVersion = NextVersion]
        \in Data
  BY <1>1, <1>3, <1>5, DataExcept, Zenon
<1> HIDE DEF nodes
<1> QED
  BY <1>1, <1>6, <1>7, Zenon

LEMMA DeleteNodeType ==
    ASSUME TypeOK, NEW n \in NodeIds, DeleteNode(n)
    PROVE  data' \in Data
<1> DEFINE nodes == [data.nodes EXCEPT ![n] = Absent]
           rules == [r \in RuleIds |-> IF r \in RulesOf(n) THEN Absent ELSE data.rules[r]]
           history == [r \in RuleIds |-> IF r \in RulesOf(n) THEN Absent ELSE data.history[r]]
<1>1. data \in Data /\ NextVersion \in Nat
  BY VersionType DEF TypeOK
<1>2. nodes \in NodeMap /\ rules \in RuleMap /\ history \in HistoryMap
  BY <1>1, Fields DEF NodeMap, RuleMap, HistoryMap
<1> QED
  BY <1>1, <1>2, DataExcept, Zenon DEF DeleteNode

LEMMA UpdateHeartbeatType ==
    ASSUME TypeOK, NEW n \in NodeIds, NEW states \in Reports, UpdateHeartbeat(n, states)
    PROVE  data' \in Data
<1> DEFINE rules == [r \in RuleIds |->
                        IF r \in DOMAIN states /\ Has(data.rules, r)
                        THEN [data.rules[r] EXCEPT !.state = states[r]]
                        ELSE data.rules[r]]
           history == [r \in RuleIds |->
                        IF r \in DOMAIN states THEN n ELSE data.history[r]]
<1>1. data \in Data
  BY DEF TypeOK
<1>2. ASSUME NEW r \in DOMAIN states
      PROVE  states[r] \in ApplyStates
  BY DEF Reports, ApplyStates
<1>3. ASSUME NEW r \in RuleIds
      PROVE  rules[r] \in Rule \cup {Absent}
  BY <1>1, <1>2 DEF Data, Rule, Has
<1>4. rules \in RuleMap
  BY <1>3 DEF RuleMap
<1>5. history \in HistoryMap
  BY <1>1, Fields DEF HistoryMap
<1> QED
  BY <1>1, <1>4, <1>5, DataExcept, Zenon DEF UpdateHeartbeat, RecordReports

\* Every step of the store keeps the shape of Data.
LEMMA TypeStep ==
    ASSUME TypeOK, [Next]_vars
    PROVE  TypeOK'
<1>1. ASSUME data' \in Data, Save PROVE disk' \in Data
  BY <1>1 DEF Save, TypeOK
<1>2. ASSUME NEW id \in RuleIds, NEW body \in Body, CreateRule(id, body) PROVE TypeOK'
  BY <1>1, <1>2, StoreRuleType DEF CreateRule, StoreRule, TypeOK, ApplyStates
<1>3. ASSUME NEW id \in RuleIds, NEW body \in Body, EditRule(id, body) PROVE TypeOK'
  <2>1. body.enabled \in BOOLEAN /\ data.rules[id].state \in ApplyStates
    BY <1>3 DEF EditRule, Body, TypeOK, Data, Rule, Has
  <2> QED
    BY <1>1, <1>3, <2>1, StoreRuleType DEF EditRule, StoreRule, TypeOK
<1>4. ASSUME NEW id \in RuleIds, NEW body \in Body, NEW state \in ApplyStates,
             RecreateRule(id, body, state)
      PROVE  TypeOK'
  <2>1. body.enabled \in BOOLEAN
    BY DEF Body
  <2> QED
    BY <1>1, <1>4, <2>1, StoreRuleType DEF RecreateRule, StoreRule, TypeOK
<1>5. ASSUME NEW id \in RuleIds, DeleteRule(id) PROVE TypeOK'
  BY <1>1, <1>5, DeleteRuleType DEF DeleteRule, TypeOK
<1>6. ASSUME NEW n \in NodeIds, NEW raw \in RawPolicies, RegisterNode(n, raw) PROVE TypeOK'
  BY <1>1, <1>6, RegisterNodeType DEF RegisterNode, TypeOK
<1>7. ASSUME NEW n \in NodeIds, NEW raw \in RawPolicies, UpdateNodeSettings(n, raw)
      PROVE  TypeOK'
  BY <1>1, <1>7, UpdateNodeSettingsType DEF UpdateNodeSettings, TypeOK
<1>8. ASSUME NEW n \in NodeIds, DeleteNode(n) PROVE TypeOK'
  BY <1>1, <1>8, DeleteNodeType DEF DeleteNode, TypeOK
<1>9. ASSUME NEW n \in NodeIds, NEW states \in Reports, UpdateHeartbeat(n, states)
      PROVE  TypeOK'
  BY <1>1, <1>9, UpdateHeartbeatType DEF UpdateHeartbeat, TypeOK
<1>10. CASE SaveOther
  BY <1>10 DEF SaveOther, Save, TypeOK
<1>11. CASE Restart
  BY <1>11 DEF Restart, TypeOK
<1>12. CASE Tick
  BY <1>12 DEF Tick, TypeOK
<1>13. CASE UNCHANGED vars
  BY <1>13 DEF vars, TypeOK
<1> QED
  BY <1>2, <1>3, <1>4, <1>5, <1>6, <1>7, <1>8, <1>9, <1>10, <1>11, <1>12, <1>13 DEF Next

\* Memory and the snapshot always have the shape of Data.
THEOREM TypeCorrect == Spec => []TypeOK
<1>1. Init => TypeOK
  BY DEF Init, TypeOK, EmptyData, Data
<1>2. TypeOK /\ [Next]_vars => TypeOK'
  BY TypeStep
<1> QED
  BY <1>1, <1>2, PTL DEF Spec

-----------------------------------------------------------------------------
(* What each action does to the map of rules.                              *)

\* e's rules are d's, less some, with other apply states.
NoNewRules(d, e) ==
    \A r \in RuleIds : Has(e.rules, r) => /\ Has(d.rules, r)
                                          /\ Wire(e.rules[r]) = Wire(d.rules[r])

\* e has one rule more than d, or another one, in id's place.
OneNewRule(d, e, id, rule) ==
    e.rules = [d.rules EXCEPT ![id] = rule]

LEMMA SameWire ==
    ASSUME NEW x \in Rule, NEW y \in Rule, Wire(x) = Wire(y)
    PROVE  /\ x.node = y.node
           /\ x.enabled = y.enabled
           /\ x.port = y.port
           /\ x.protocol = y.protocol
           /\ x.expireAt = y.expireAt
           /\ x.version = y.version
<1>1. x # Absent /\ y # Absent
  BY AbsentIsNoRule
<1>2. [x EXCEPT !.state = "pending"] = [y EXCEPT !.state = "pending"]
  BY <1>1 DEF Wire
<1> QED
  BY <1>2 DEF Rule

LEMMA DeleteRuleRules ==
    ASSUME TypeOK, NEW id \in RuleIds, DeleteRule(id)
    PROVE  NoNewRules(data, data')
<1>1. data'.rules = [data.rules EXCEPT ![id] = Absent]
  BY DEF DeleteRule, TypeOK, Data
<1> QED
  BY <1>1 DEF NoNewRules, Has, TypeOK, Data

LEMMA DeleteNodeRules ==
    ASSUME TypeOK, NEW n \in NodeIds, DeleteNode(n)
    PROVE  NoNewRules(data, data')
<1>1. data'.rules = [r \in RuleIds |-> IF r \in RulesOf(n) THEN Absent ELSE data.rules[r]]
  BY DEF DeleteNode, TypeOK, Data
<1> QED
  BY <1>1 DEF NoNewRules, Has

LEMMA PendingRulesRules ==
    ASSUME data \in Data, NEW n \in NodeIds, NEW r \in RuleIds
    PROVE  /\ Has(PendingRules(n), r) <=> Has(data.rules, r)
           /\ Wire(PendingRules(n)[r]) = Wire(data.rules[r])
<1>1. CASE Has(data.rules, r) /\ data.rules[r].node = n
  <2>1. data.rules[r] \in Rule
    BY <1>1 DEF Data, Has
  <2>2. PendingRules(n)[r] = [data.rules[r] EXCEPT !.state = "pending"]
    BY <1>1 DEF PendingRules
  <2>3. PendingRules(n)[r] \in Rule
    BY <2>1, <2>2 DEF Rule, ApplyStates
  <2> QED
    BY <2>1, <2>2, <2>3, AbsentIsNoRule DEF Wire, Has, Rule
<1>2. CASE ~(Has(data.rules, r) /\ data.rules[r].node = n)
  BY <1>2 DEF PendingRules, Has
<1> QED
  BY <1>1, <1>2

LEMMA UpdateNodeSettingsRules ==
    ASSUME TypeOK, NEW n \in NodeIds, NEW raw \in RawPolicies, UpdateNodeSettings(n, raw)
    PROVE  NoNewRules(data, data')
<1>1. \/ data' = data
      \/ data' = [data EXCEPT !.nodes[n] = PanelPolicy(raw), !.rules = PendingRules(n),
                              !.ruleVersion = NextVersion]
  BY Zenon DEF UpdateNodeSettings
<1>2. CASE data' = data
  BY <1>2 DEF NoNewRules
<1>3. CASE data' = [data EXCEPT !.nodes[n] = PanelPolicy(raw), !.rules = PendingRules(n),
                                !.ruleVersion = NextVersion]
  <2>1. data'.rules = PendingRules(n)
    BY <1>3 DEF TypeOK, Data
  <2> QED
    BY <2>1, PendingRulesRules DEF NoNewRules, Has, TypeOK
<1> QED
  BY <1>1, <1>2, <1>3

LEMMA UpdateHeartbeatRules ==
    ASSUME TypeOK, NEW n \in NodeIds, NEW states \in Reports, UpdateHeartbeat(n, states)
    PROVE  NoNewRules(data, data')
<1>1. data'.rules = [r \in RuleIds |->
                        IF r \in DOMAIN states /\ Has(data.rules, r)
                        THEN [data.rules[r] EXCEPT !.state = states[r]]
                        ELSE data.rules[r]]
  BY DEF UpdateHeartbeat, RecordReports, TypeOK, Data
<1>2. SUFFICES ASSUME NEW r \in RuleIds, Has(data'.rules, r)
               PROVE  /\ Has(data.rules, r)
                      /\ Wire(data'.rules[r]) = Wire(data.rules[r])
  BY Zenon DEF NoNewRules
<1>3. CASE r \in DOMAIN states /\ Has(data.rules, r)
  <2>1. data.rules[r] \in Rule
    BY <1>3 DEF TypeOK, Data, Has
  <2>2. data'.rules[r] = [data.rules[r] EXCEPT !.state = states[r]]
    BY <1>1, <1>3
  <2>3. data'.rules[r] \in Rule
    BY <2>1, <2>2, UpdateHeartbeatType, <1>2 DEF Data, Has
  <2> QED
    BY <1>3, <2>1, <2>2, <2>3, AbsentIsNoRule DEF Wire, Rule
<1>4. CASE ~(r \in DOMAIN states /\ Has(data.rules, r))
  BY <1>1, <1>2, <1>4 DEF Has
<1> QED
  BY <1>3, <1>4

LEMMA StoreRuleRules ==
    ASSUME TypeOK, NEW id \in RuleIds, NEW rule, StoreRule(id, rule)
    PROVE  OneNewRule(data, data', id, rule)
  BY DEF StoreRule, OneNewRule, TypeOK, Data

LEMMA RegisterNodeRules ==
    ASSUME TypeOK, NEW n \in NodeIds, NEW raw \in RawPolicies, RegisterNode(n, raw)
    PROVE  NoNewRules(data, data')
<1>1. data'.rules = data.rules
  BY DEF RegisterNode, TypeOK, Data
<1> QED
  BY <1>1 DEF NoNewRules

-----------------------------------------------------------------------------
(* Port conflicts.                                                         *)

\* The panel's overlap of protocols is the agent's overlap of transports.
LEMMA OverlapIsSharedTransport ==
    ASSUME NEW p \in Protocols, NEW q \in Protocols, ~ProtocolsOverlap(p, q)
    PROVE  Transports(p) \cap Transports(q) = {}
<1>1. p \in {"tcp", "udp", "both"} /\ q \in {"tcp", "udp", "both"}
  BY StoreConstants
<1> QED
  BY <1>1 DEF ProtocolsOverlap, Transports

LEMMA NoNewRulesConflictFree ==
    ASSUME NEW d \in Data, NEW e \in Data, NEW t \in Nat,
           ConflictFree(d, t), NoNewRules(d, e)
    PROVE  ConflictFree(e, t)
<1>1. ASSUME NEW r \in RuleIds, Has(e.rules, r)
      PROVE  /\ Has(d.rules, r)
             /\ e.rules[r].node = d.rules[r].node
             /\ e.rules[r].enabled = d.rules[r].enabled
             /\ e.rules[r].port = d.rules[r].port
             /\ e.rules[r].protocol = d.rules[r].protocol
             /\ e.rules[r].expireAt = d.rules[r].expireAt
  <2>1. Has(d.rules, r) /\ Wire(e.rules[r]) = Wire(d.rules[r])
    BY <1>1 DEF NoNewRules
  <2>2. e.rules[r] \in Rule /\ d.rules[r] \in Rule
    BY <1>1, <2>1 DEF Data, Has
  <2> QED
    BY <2>1, <2>2, SameWire
<1>2. ASSUME NEW n \in NodeIds, NEW r \in RulesForNode(e, n, t)
      PROVE  r \in RulesForNode(d, n, t)
  BY <1>1, <1>2 DEF RulesForNode, InForce, Expired
<1>3. ASSUME NEW n \in NodeIds, NEW a \in RulesForNode(e, n, t), NEW b \in RulesForNode(e, n, t),
             a # b, e.rules[a].port = e.rules[b].port
      PROVE  Transports(e.rules[a].protocol) \cap Transports(e.rules[b].protocol) = {}
  <2>1. a \in RulesForNode(d, n, t) /\ b \in RulesForNode(d, n, t)
    BY <1>2
  <2>2. a \in RuleIds /\ b \in RuleIds /\ Has(e.rules, a) /\ Has(e.rules, b)
    BY DEF RulesForNode
  <2> QED
    BY <1>1, <1>3, <2>1, <2>2 DEF ConflictFree
<1> QED
  BY <1>3, Zenon DEF ConflictFree

\* Storing a rule that passed checkRulePortConflictLocked.
LEMMA OneNewRuleConflictFree ==
    ASSUME TypeOK, NEW id \in RuleIds, NEW rule \in Rule, NEW e \in Data,
           ConflictFree(data, now), ~PortConflict(id, rule),
           OneNewRule(data, e, id, rule)
    PROVE  ConflictFree(e, now)
<1>1. e.rules[id] = rule
  BY DEF OneNewRule, TypeOK, Data
<1>2. ASSUME NEW r \in RuleIds \ {id}
      PROVE  e.rules[r] = data.rules[r]
  BY DEF OneNewRule, TypeOK, Data
<1>3. ASSUME NEW n \in NodeIds, NEW r \in RulesForNode(e, n, now), r # id
      PROVE  r \in RulesForNode(data, n, now) /\ e.rules[r] = data.rules[r]
  BY <1>2, <1>3 DEF RulesForNode, Has
<1>4. ASSUME NEW n \in NodeIds, id \in RulesForNode(e, n, now),
             NEW r \in RulesForNode(e, n, now), r # id, e.rules[r].port = rule.port
      PROVE  /\ Transports(rule.protocol) \cap Transports(e.rules[r].protocol) = {}
             /\ Transports(e.rules[r].protocol) \cap Transports(rule.protocol) = {}
  <2>1. InForce(rule, now) /\ rule.node = n
    BY <1>1, <1>4 DEF RulesForNode
  <2>2. r \in RulesForNode(data, n, now) /\ e.rules[r] = data.rules[r]
    BY <1>3, <1>4
  <2>3. r \in RuleIds \ {id} /\ Has(data.rules, r) /\ InForce(data.rules[r], now)
        /\ data.rules[r].node = n
    BY <1>4, <2>2 DEF RulesForNode
  <2>4. ~SamePort(data.rules[r], rule)
    BY <2>1, <2>3 DEF PortConflict
  <2>5. ~ProtocolsOverlap(data.rules[r].protocol, rule.protocol)
    BY <1>4, <2>1, <2>2, <2>3, <2>4 DEF SamePort
  <2>6. data.rules[r].protocol \in Protocols /\ rule.protocol \in Protocols
    BY <2>3 DEF TypeOK, Data, Rule, Has
  <2> QED
    BY <2>2, <2>5, <2>6, OverlapIsSharedTransport
<1>5. ASSUME NEW n \in NodeIds, NEW a \in RulesForNode(e, n, now),
             NEW b \in RulesForNode(e, n, now), a # b, e.rules[a].port = e.rules[b].port
      PROVE  Transports(e.rules[a].protocol) \cap Transports(e.rules[b].protocol) = {}
  <2>1. CASE a = id
    BY <1>1, <1>4, <1>5, <2>1
  <2>2. CASE b = id
    BY <1>1, <1>4, <1>5, <2>2
  <2>3. CASE a # id /\ b # id
    <3>1. /\ a \in RulesForNode(data, n, now) /\ e.rules[a] = data.rules[a]
          /\ b \in RulesForNode(data, n, now) /\ e.rules[b] = data.rules[b]
      BY <1>3, <2>3
    <3> QED
      BY <1>5, <3>1 DEF ConflictFree
  <2> QED
    BY <2>1, <2>2, <2>3
<1> QED
  BY <1>5, Zenon DEF ConflictFree

\* Expiry only takes rules out of force.
LEMMA LaterConflictFree ==
    ASSUME NEW d \in Data, NEW t \in Nat, ConflictFree(d, t)
    PROVE  ConflictFree(d, t + 1)
<1>1. ASSUME NEW n \in NodeIds, NEW r \in RulesForNode(d, n, t + 1)
      PROVE  r \in RulesForNode(d, n, t)
  <2>1. r \in RuleIds /\ Has(d.rules, r) /\ d.rules[r].node = n /\ InForce(d.rules[r], t + 1)
    BY DEF RulesForNode
  <2>2. d.rules[r].expireAt \in Times \cup {Never}
    BY <2>1 DEF Data, Rule, Has
  <2>3. InForce(d.rules[r], t)
    <3> DEFINE x == d.rules[r].expireAt
    <3>1. ~(x # Never /\ t + 1 > x)
      BY <2>1 DEF InForce, Expired
    <3>2. x = Never \/ x \in Nat
      BY <2>2, StoreConstants
    <3>3. ~(x # Never /\ t > x)
      <4> HIDE DEF x
      <4> QED BY <3>1, <3>2
    <3> QED
      BY <2>1, <3>3 DEF InForce, Expired
  <2> QED
    BY <2>1, <2>3 DEF RulesForNode
<1> QED
  BY <1>1 DEF ConflictFree

LEMMA InitConflictFree == ConflictFree(EmptyData, 0)
  BY DEF ConflictFree, RulesForNode, EmptyData, Has

\* No action of the store lets two rules in force share a port: for every
\* number of nodes, rules and ports, through failing saves and restarts.
THEOREM PortConflictFree == Spec => []NoPortConflict
<1>1. Init => NoPortConflict
  BY InitConflictFree DEF Init, NoPortConflict
<1>2. TypeOK /\ TypeOK' /\ NoPortConflict /\ [Next]_vars => NoPortConflict'
  <2> SUFFICES ASSUME TypeOK, TypeOK', NoPortConflict, [Next]_vars
               PROVE  ConflictFree(data', now') /\ ConflictFree(disk', now')
    BY Zenon DEF NoPortConflict
  <2>1. data \in Data /\ disk \in Data /\ data' \in Data /\ now \in Nat
        /\ ConflictFree(data, now) /\ ConflictFree(disk, now)
    BY DEF TypeOK, NoPortConflict
  <2>2. ASSUME NoNewRules(data, data'), Save, now' = now
        PROVE  ConflictFree(data', now') /\ ConflictFree(disk', now')
    BY <2>1, <2>2, NoNewRulesConflictFree DEF Save
  <2>3. ASSUME NEW id \in RuleIds, NEW body \in Body, NEW enabled \in BOOLEAN,
               NEW state \in ApplyStates, StoreRule(id, ToRule(body, enabled, state))
        PROVE  ConflictFree(data', now') /\ ConflictFree(disk', now')
    <3> DEFINE rule == ToRule(body, enabled, state)
    <3>1. rule \in Rule
      BY <2>1, VersionType DEF ToRule, Rule, Body
    <3>2. OneNewRule(data, data', id, rule) /\ ~PortConflict(id, rule) /\ Save /\ now' = now
      BY <2>3, StoreRuleRules DEF StoreRule
    <3>3. ConflictFree(data', now)
      BY <2>1, <3>1, <3>2, OneNewRuleConflictFree
    <3> QED
      BY <2>1, <3>2, <3>3 DEF Save
  <2>4. ASSUME NEW id \in RuleIds, NEW body \in Body, CreateRule(id, body)
        PROVE  ConflictFree(data', now') /\ ConflictFree(disk', now')
    BY <2>3, <2>4 DEF CreateRule, ApplyStates
  <2>5. ASSUME NEW id \in RuleIds, NEW body \in Body, EditRule(id, body)
        PROVE  ConflictFree(data', now') /\ ConflictFree(disk', now')
    <3>1. body.enabled \in BOOLEAN /\ data.rules[id].state \in ApplyStates
      BY <2>5 DEF EditRule, Body, TypeOK, Data, Rule, Has
    <3> QED
      BY <2>3, <2>5, <3>1 DEF EditRule
  <2>6. ASSUME NEW id \in RuleIds, NEW body \in Body, NEW state \in ApplyStates,
               RecreateRule(id, body, state)
        PROVE  ConflictFree(data', now') /\ ConflictFree(disk', now')
    <3>1. body.enabled \in BOOLEAN
      BY DEF Body
    <3> QED
      BY <2>3, <2>6, <3>1 DEF RecreateRule
  <2>7. ASSUME NEW id \in RuleIds, DeleteRule(id)
        PROVE  ConflictFree(data', now') /\ ConflictFree(disk', now')
    BY <2>2, <2>7, DeleteRuleRules DEF DeleteRule
  <2>8. ASSUME NEW n \in NodeIds, NEW raw \in RawPolicies,
               RegisterNode(n, raw) \/ UpdateNodeSettings(n, raw)
        PROVE  ConflictFree(data', now') /\ ConflictFree(disk', now')
    BY <2>2, <2>8, RegisterNodeRules, UpdateNodeSettingsRules
       DEF RegisterNode, UpdateNodeSettings
  <2>9. ASSUME NEW n \in NodeIds, DeleteNode(n)
        PROVE  ConflictFree(data', now') /\ ConflictFree(disk', now')
    BY <2>2, <2>9, DeleteNodeRules DEF DeleteNode
  <2>10. ASSUME NEW n \in NodeIds, NEW states \in Reports, UpdateHeartbeat(n, states)
         PROVE  ConflictFree(data', now') /\ ConflictFree(disk', now')
    BY <2>2, <2>10, UpdateHeartbeatRules DEF UpdateHeartbeat
  <2>11. CASE SaveOther
    BY <2>1, <2>11 DEF SaveOther, Save
  <2>12. CASE Restart
    BY <2>1, <2>12 DEF Restart
  <2>13. CASE Tick
    BY <2>1, <2>13, LaterConflictFree DEF Tick
  <2>14. CASE UNCHANGED vars
    BY <2>1, <2>14 DEF vars
  <2> QED
    BY <2>4, <2>5, <2>6, <2>7, <2>8, <2>9, <2>10, <2>11, <2>12, <2>13, <2>14 DEF Next
<1> QED
  BY <1>1, <1>2, TypeCorrect, PTL DEF Spec

-----------------------------------------------------------------------------
(* Rules and their nodes.                                                  *)

LEMMA NoNewRulesHaveNodes ==
    ASSUME NEW d \in Data, NEW e \in Data, HaveNodes(d), NoNewRules(d, e),
           \A n \in NodeIds : Has(d.nodes, n) => Has(e.nodes, n)
    PROVE  HaveNodes(e)
<1> SUFFICES ASSUME NEW r \in RuleIds, Has(e.rules, r)
             PROVE  Has(e.nodes, e.rules[r].node)
  BY DEF HaveNodes
<1>1. Has(d.rules, r) /\ Wire(e.rules[r]) = Wire(d.rules[r])
  BY DEF NoNewRules
<1>2. e.rules[r] \in Rule /\ d.rules[r] \in Rule
  BY <1>1 DEF Data, Has
<1>3. e.rules[r].node = d.rules[r].node /\ e.rules[r].node \in NodeIds
  BY <1>1, <1>2, SameWire DEF Rule
<1> QED
  BY <1>1, <1>3 DEF HaveNodes

LEMMA DeleteNodeHaveNodes ==
    ASSUME TypeOK, NEW n \in NodeIds, HaveNodes(data), DeleteNode(n)
    PROVE  HaveNodes(data')
<1>1. data'.rules = [r \in RuleIds |-> IF r \in RulesOf(n) THEN Absent ELSE data.rules[r]]
  BY DEF DeleteNode, TypeOK, Data
<1>2. data'.nodes = [data.nodes EXCEPT ![n] = Absent]
  BY DEF DeleteNode, TypeOK, Data
<1> SUFFICES ASSUME NEW r \in RuleIds, Has(data'.rules, r)
             PROVE  Has(data'.nodes, data'.rules[r].node)
  BY DEF HaveNodes
<1>3. r \notin RulesOf(n) /\ data'.rules[r] = data.rules[r]
  BY <1>1 DEF Has
<1>4. Has(data.rules, r)
  BY <1>3 DEF Has
<1>5. data.rules[r].node \in NodeIds \ {n}
  BY <1>3, <1>4 DEF RulesOf, TypeOK, Data, Rule, Has
<1> QED
  BY <1>2, <1>3, <1>4, <1>5 DEF HaveNodes, Has, TypeOK, Data

LEMMA StoreRuleHaveNodes ==
    ASSUME TypeOK, NEW id \in RuleIds, NEW rule \in Rule, HaveNodes(data), StoreRule(id, rule)
    PROVE  HaveNodes(data')
<1>1. /\ data'.rules = [data.rules EXCEPT ![id] = rule]
      /\ data'.nodes = data.nodes
      /\ Has(data.nodes, rule.node)
  BY DEF StoreRule, TypeOK, Data
<1> QED
  BY <1>1 DEF HaveNodes, Has, TypeOK, Data

\* No rule is ever left without its node, in memory or in a snapshot.
THEOREM RulesKeepNodes == Spec => []RulesHaveNodes
<1>1. Init => RulesHaveNodes
  BY DEF Init, RulesHaveNodes, HaveNodes, EmptyData, Has
<1>2. TypeOK /\ TypeOK' /\ RulesHaveNodes /\ [Next]_vars => RulesHaveNodes'
  <2> SUFFICES ASSUME TypeOK, TypeOK', RulesHaveNodes, [Next]_vars
               PROVE  HaveNodes(data') /\ HaveNodes(disk')
    BY Zenon DEF RulesHaveNodes
  <2>1. data \in Data /\ disk \in Data /\ data' \in Data
        /\ HaveNodes(data) /\ HaveNodes(disk)
    BY DEF TypeOK, RulesHaveNodes
  <2>2. ASSUME HaveNodes(data'), Save
        PROVE  HaveNodes(data') /\ HaveNodes(disk')
    BY <2>1, <2>2 DEF Save
  <2>3. ASSUME NoNewRules(data, data'), Save,
               \A n \in NodeIds : Has(data.nodes, n) => Has(data'.nodes, n)
        PROVE  HaveNodes(data') /\ HaveNodes(disk')
    BY <2>1, <2>2, <2>3, NoNewRulesHaveNodes
  <2>4. ASSUME NEW id \in RuleIds, NEW body \in Body, NEW enabled \in BOOLEAN,
               NEW state \in ApplyStates, StoreRule(id, ToRule(body, enabled, state))
        PROVE  HaveNodes(data') /\ HaveNodes(disk')
    <3>1. ToRule(body, enabled, state) \in Rule
      BY <2>1, VersionType DEF ToRule, Rule, Body
    <3> QED
      BY <2>1, <2>2, <2>4, <3>1, StoreRuleHaveNodes DEF StoreRule
  <2>5. ASSUME NEW id \in RuleIds, NEW body \in Body, CreateRule(id, body)
        PROVE  HaveNodes(data') /\ HaveNodes(disk')
    BY <2>4, <2>5 DEF CreateRule, ApplyStates
  <2>6. ASSUME NEW id \in RuleIds, NEW body \in Body, EditRule(id, body)
        PROVE  HaveNodes(data') /\ HaveNodes(disk')
    <3>1. body.enabled \in BOOLEAN /\ data.rules[id].state \in ApplyStates
      BY <2>6 DEF EditRule, Body, TypeOK, Data, Rule, Has
    <3> QED
      BY <2>4, <2>6, <3>1 DEF EditRule
  <2>7. ASSUME NEW id \in RuleIds, NEW body \in Body, NEW state \in ApplyStates,
               RecreateRule(id, body, state)
        PROVE  HaveNodes(data') /\ HaveNodes(disk')
    <3>1. body.enabled \in BOOLEAN
      BY DEF Body
    <3> QED
      BY <2>4, <2>7, <3>1 DEF RecreateRule
  <2>8. ASSUME NEW id \in RuleIds, DeleteRule(id)
        PROVE  HaveNodes(data') /\ HaveNodes(disk')
    <3>1. data'.nodes = data.nodes
      BY <2>8 DEF DeleteRule, TypeOK, Data
    <3> QED
      BY <2>3, <2>8, <3>1, DeleteRuleRules DEF DeleteRule
  <2>9. ASSUME NEW n \in NodeIds, NEW raw \in RawPolicies, RegisterNode(n, raw)
        PROVE  HaveNodes(data') /\ HaveNodes(disk')
    <3>1. data'.nodes = [data.nodes EXCEPT ![n] = PanelPolicy(raw)]
      BY <2>9 DEF RegisterNode, TypeOK, Data
    <3>2. PanelPolicy(raw) # Absent
      BY PanelPolicyType, StoreConstants
    <3>3. \A m \in NodeIds : Has(data.nodes, m) => Has(data'.nodes, m)
      BY <3>1, <3>2 DEF Has, TypeOK, Data
    <3> QED
      BY <2>3, <2>9, <3>3, RegisterNodeRules DEF RegisterNode
  <2>10. ASSUME NEW n \in NodeIds, NEW raw \in RawPolicies, UpdateNodeSettings(n, raw)
         PROVE  HaveNodes(data') /\ HaveNodes(disk')
    <3>1. \/ data' = data
          \/ data' = [data EXCEPT !.nodes[n] = PanelPolicy(raw), !.rules = PendingRules(n),
                                  !.ruleVersion = NextVersion]
      BY <2>10, Zenon DEF UpdateNodeSettings
    <3>2. data'.nodes = data.nodes \/ data'.nodes = [data.nodes EXCEPT ![n] = PanelPolicy(raw)]
      BY <3>1 DEF TypeOK, Data
    <3>3. PanelPolicy(raw) # Absent
      BY PanelPolicyType, StoreConstants
    <3>4. \A m \in NodeIds : Has(data.nodes, m) => Has(data'.nodes, m)
      BY <3>2, <3>3 DEF Has, TypeOK, Data
    <3> QED
      BY <2>3, <2>10, <3>4, UpdateNodeSettingsRules DEF UpdateNodeSettings
  <2>11. ASSUME NEW n \in NodeIds, DeleteNode(n)
         PROVE  HaveNodes(data') /\ HaveNodes(disk')
    BY <2>1, <2>2, <2>11, DeleteNodeHaveNodes DEF DeleteNode
  <2>12. ASSUME NEW n \in NodeIds, NEW states \in Reports, UpdateHeartbeat(n, states)
         PROVE  HaveNodes(data') /\ HaveNodes(disk')
    <3>1. data'.nodes = data.nodes
      BY <2>12 DEF UpdateHeartbeat, RecordReports, TypeOK, Data
    <3> QED
      BY <2>3, <2>12, <3>1, UpdateHeartbeatRules DEF UpdateHeartbeat
  <2>13. CASE SaveOther
    BY <2>1, <2>13 DEF SaveOther, Save
  <2>14. CASE Restart
    BY <2>1, <2>14 DEF Restart
  <2>15. CASE Tick
    BY <2>1, <2>15 DEF Tick
  <2>16. CASE UNCHANGED vars
    BY <2>1, <2>16 DEF vars
  <2> QED
    BY <2>5, <2>6, <2>7, <2>8, <2>9, <2>10, <2>11, <2>12, <2>13, <2>14, <2>15, <2>16 DEF Next
<1> QED
  BY <1>1, <1>2, TypeCorrect, PTL DEF Spec

-----------------------------------------------------------------------------
(* Versions.                                                               *)

\* VersionNamesRules, strengthened: the snapshot is never ahead, and every
\* node in it was issued, so that a new node is in neither.
VersionInv ==
    /\ VersionNamesRules
    /\ disk.ruleVersion <= data.ruleVersion
    /\ \A n \in NodeIds : Has(data.nodes, n) \/ Has(disk.nodes, n) => n \in issued

\* A handler that counts up is told from the snapshot whether or not its
\* save succeeds.
LEMMA CountedUp ==
    ASSUME TypeOK, VersionInv, Save, data'.ruleVersion = data.ruleVersion + 1
    PROVE  VersionNamesRules' /\ disk'.ruleVersion <= data'.ruleVersion
<1>1. data.ruleVersion \in Nat /\ disk.ruleVersion \in Nat
      /\ disk.ruleVersion <= data.ruleVersion
  BY Fields DEF TypeOK, VersionInv
<1>2. CASE disk' = data'
  BY <1>1, <1>2 DEF VersionNamesRules
<1>3. CASE disk' = disk
  <2>1. disk'.ruleVersion < data'.ruleVersion
    BY <1>1, <1>3
  <2> QED
    BY <1>1, <1>3, <2>1 DEF VersionNamesRules
<1> QED
  BY <1>2, <1>3 DEF Save

\* A handler that does not count up changes nothing a node of the snapshot
\* is told.
LEMMA NotCountedUp ==
    ASSUME TypeOK, VersionInv, Save,
           data'.ruleVersion = data.ruleVersion,
           \A r \in RuleIds : Wire(data'.rules[r]) = Wire(data.rules[r]),
           \A n \in NodeIds : Has(disk.nodes, n) => data'.nodes[n] = data.nodes[n]
    PROVE  VersionNamesRules' /\ disk'.ruleVersion <= data'.ruleVersion
<1>1. data.ruleVersion \in Nat /\ disk.ruleVersion \in Nat
      /\ disk.ruleVersion <= data.ruleVersion
  BY Fields DEF TypeOK, VersionInv
<1>2. CASE disk' = data'
  BY <1>1, <1>2 DEF VersionNamesRules
<1>3. CASE disk' = disk
  BY <1>1, <1>3 DEF VersionInv, VersionNamesRules
<1> QED
  BY <1>2, <1>3 DEF Save

LEMMA HeartbeatKeepsWire ==
    ASSUME TypeOK, NEW n \in NodeIds, NEW states \in Reports, UpdateHeartbeat(n, states),
           NEW r \in RuleIds
    PROVE  Wire(data'.rules[r]) = Wire(data.rules[r])
<1>1. CASE Has(data'.rules, r)
  BY <1>1, UpdateHeartbeatRules DEF NoNewRules
<1>2. CASE ~Has(data'.rules, r)
  <2>1. data'.rules = [q \in RuleIds |->
                        IF q \in DOMAIN states /\ Has(data.rules, q)
                        THEN [data.rules[q] EXCEPT !.state = states[q]]
                        ELSE data.rules[q]]
    BY DEF UpdateHeartbeat, RecordReports, TypeOK, Data
  <2>2. data'.rules[r] = Absent
    BY <1>2 DEF Has
  <2>3. ASSUME r \in DOMAIN states, Has(data.rules, r)
        PROVE  FALSE
    <3>1. data.rules[r] \in Rule
      BY <2>3 DEF TypeOK, Data, Has
    <3>2. states[r] \in ApplyStates
      BY <2>3 DEF Reports, ApplyStates
    <3>3. [data.rules[r] EXCEPT !.state = states[r]] \in Rule
      BY <3>1, <3>2 DEF Rule
    <3> QED
      BY <2>1, <2>2, <2>3, <3>3, AbsentIsNoRule
  <2>4. data.rules[r] = Absent
    BY <2>1, <2>2, <2>3 DEF Has
  <2> QED
    BY <2>2, <2>4
<1> QED
  BY <1>1, <1>2

LEMMA SettingsStep ==
    ASSUME TypeOK, NEW n \in NodeIds, NEW raw \in RawPolicies, UpdateNodeSettings(n, raw)
    PROVE  \/ data' = data
           \/ /\ data'.nodes = [data.nodes EXCEPT ![n] = PanelPolicy(raw)]
              /\ data'.ruleVersion = data.ruleVersion + 1
<1>1. \/ data' = data
      \/ data' = [data EXCEPT !.nodes[n] = PanelPolicy(raw), !.rules = PendingRules(n),
                              !.ruleVersion = NextVersion]
  BY Zenon DEF UpdateNodeSettings
<1> QED
  BY <1>1 DEF TypeOK, Data, NextVersion

\* Whatever happens to the store, the version tells whether rules changed, but
\* for a restart.
LEMMA VersionOrRules ==
    ASSUME TypeOK, [Next]_vars
    PROVE  \/ data'.ruleVersion = data.ruleVersion + 1
           \/ /\ data'.ruleVersion = data.ruleVersion
              /\ \A r \in RuleIds : Wire(data'.rules[r]) = Wire(data.rules[r])
           \/ Restart
<1> DEFINE Goal == \/ data'.ruleVersion = data.ruleVersion + 1
                   \/ /\ data'.ruleVersion = data.ruleVersion
                      /\ \A r \in RuleIds : Wire(data'.rules[r]) = Wire(data.rules[r])
                   \/ Restart
<1>1. ASSUME NEW id \in RuleIds, NEW body \in Body,
             \/ CreateRule(id, body)
             \/ EditRule(id, body)
             \/ \E state \in ApplyStates : RecreateRule(id, body, state)
      PROVE  Goal
  <2>1. PICK rule : StoreRule(id, rule)
    BY <1>1 DEF CreateRule, EditRule, RecreateRule
  <2> QED
    BY <2>1 DEF StoreRule, NextVersion, TypeOK, Data
<1>2. ASSUME NEW id \in RuleIds, DeleteRule(id)
      PROVE  Goal
  BY <1>2 DEF DeleteRule, NextVersion, TypeOK, Data
<1>3. ASSUME NEW n \in NodeIds, NEW raw \in RawPolicies, RegisterNode(n, raw)
      PROVE  Goal
  BY <1>3 DEF RegisterNode, TypeOK, Data
<1>4. ASSUME NEW n \in NodeIds, NEW raw \in RawPolicies, UpdateNodeSettings(n, raw)
      PROVE  Goal
  BY <1>4, SettingsStep
<1>5. ASSUME NEW n \in NodeIds, DeleteNode(n)
      PROVE  Goal
  BY <1>5 DEF DeleteNode, NextVersion, TypeOK, Data
<1>6. ASSUME NEW n \in NodeIds, NEW states \in Reports, UpdateHeartbeat(n, states)
      PROVE  Goal
  <2>1. data'.ruleVersion = data.ruleVersion
    BY <1>6 DEF UpdateHeartbeat, RecordReports, TypeOK, Data
  <2> QED
    BY <1>6, <2>1, HeartbeatKeepsWire
<1>7. CASE SaveOther \/ Tick \/ Restart \/ UNCHANGED vars
  BY <1>7 DEF SaveOther, Tick, vars
<1> QED
  BY <1>1, <1>2, <1>3, <1>4, <1>5, <1>6, <1>7 DEF Next

LEMMA VersionInvariance == Spec => []VersionInv
<1>1. Init => VersionInv
  BY DEF Init, VersionInv, VersionNamesRules, EmptyData, Has
<1>2. TypeOK /\ TypeOK' /\ VersionInv /\ [Next]_vars => VersionInv'
  <2> SUFFICES ASSUME TypeOK, TypeOK', VersionInv, [Next]_vars
               PROVE  VersionInv'
    OBVIOUS
  <2> DEFINE Known == \A n \in NodeIds : Has(data.nodes, n) \/ Has(disk.nodes, n) => n \in issued
  <2>1. Known
    BY DEF VersionInv
  <2>2. ASSUME Save, issued' = issued, data'.nodes = data.nodes
        PROVE  Known'
    BY <2>1, <2>2 DEF Save
  <2>3. ASSUME Known', data'.ruleVersion = data.ruleVersion + 1, Save
        PROVE  VersionInv'
    BY <2>3, CountedUp DEF VersionInv
  <2>4. ASSUME NEW id \in RuleIds, NEW rule, StoreRule(id, rule),
               issued' = issued \/ issued' = issued \cup {id}
        PROVE  VersionInv'
    <3>1. data'.nodes = data.nodes /\ data'.ruleVersion = data.ruleVersion + 1 /\ Save
      BY <2>4 DEF StoreRule, TypeOK, Data, NextVersion
    <3>2. Known'
      BY <2>1, <2>4, <3>1 DEF Save
    <3> QED
      BY <2>3, <3>1, <3>2
  <2>5. ASSUME NEW id \in RuleIds, NEW body \in Body,
               \/ CreateRule(id, body)
               \/ EditRule(id, body)
               \/ \E state \in ApplyStates : RecreateRule(id, body, state)
        PROVE  VersionInv'
    BY <2>4, <2>5 DEF CreateRule, EditRule, RecreateRule
  <2>6. ASSUME NEW id \in RuleIds, DeleteRule(id) PROVE VersionInv'
    <3>1. data'.nodes = data.nodes /\ data'.ruleVersion = data.ruleVersion + 1
      BY <2>6 DEF DeleteRule, TypeOK, Data, NextVersion
    <3> QED
      BY <2>2, <2>3, <2>6, <3>1 DEF DeleteRule
  <2>7. ASSUME NEW n \in NodeIds, NEW raw \in RawPolicies, RegisterNode(n, raw)
        PROVE  VersionInv'
    <3>1. /\ data'.nodes = [data.nodes EXCEPT ![n] = PanelPolicy(raw)]
          /\ data'.rules = data.rules
          /\ data'.ruleVersion = data.ruleVersion
          /\ Save /\ issued' = issued \cup {n} /\ n \notin issued
      BY <2>7 DEF RegisterNode, TypeOK, Data
    <3>2. \A m \in NodeIds : Has(disk.nodes, m) => data'.nodes[m] = data.nodes[m]
      BY <2>1, <3>1 DEF TypeOK, Data
    <3>3. Known'
      BY <2>1, <3>1 DEF Save, Has, TypeOK, Data
    <3> QED
      BY <3>1, <3>2, <3>3, NotCountedUp DEF VersionInv
  <2>8. ASSUME NEW n \in NodeIds, NEW raw \in RawPolicies, UpdateNodeSettings(n, raw)
        PROVE  VersionInv'
    <3>1. Save /\ issued' = issued /\ n \in issued
      BY <2>1, <2>8 DEF UpdateNodeSettings
    <3>2. CASE data' = data
      BY <2>2, <3>1, <3>2, NotCountedUp DEF VersionInv
    <3>3. CASE /\ data'.nodes = [data.nodes EXCEPT ![n] = PanelPolicy(raw)]
               /\ data'.ruleVersion = data.ruleVersion + 1
      <4>1. Known'
        BY <2>1, <3>1, <3>3 DEF Save, Has, TypeOK, Data
      <4> QED
        BY <2>3, <3>1, <3>3, <4>1
    <3> QED
      BY <2>8, <3>2, <3>3, SettingsStep
  <2>9. ASSUME NEW n \in NodeIds, DeleteNode(n) PROVE VersionInv'
    <3>1. /\ data'.nodes = [data.nodes EXCEPT ![n] = Absent]
          /\ data'.ruleVersion = data.ruleVersion + 1
          /\ Save /\ issued' = issued
      BY <2>9 DEF DeleteNode, TypeOK, Data, NextVersion
    <3>2. Known'
      BY <2>1, <3>1 DEF Save, Has, TypeOK, Data
    <3> QED
      BY <2>3, <3>1, <3>2
  <2>10. ASSUME NEW n \in NodeIds, NEW states \in Reports, UpdateHeartbeat(n, states)
         PROVE  VersionInv'
    <3>1. /\ data'.nodes = data.nodes
          /\ data'.ruleVersion = data.ruleVersion
          /\ Save /\ issued' = issued
      BY <2>10 DEF UpdateHeartbeat, RecordReports, TypeOK, Data
    <3>2. \A r \in RuleIds : Wire(data'.rules[r]) = Wire(data.rules[r])
      BY <2>10, HeartbeatKeepsWire
    <3> QED
      BY <2>2, <3>1, <3>2, NotCountedUp DEF VersionInv
  <2>11. CASE SaveOther
    BY <2>2, <2>11, NotCountedUp DEF SaveOther, VersionInv
  <2>12. CASE Restart
    <3>1. disk.ruleVersion \in Nat
      BY Fields DEF TypeOK
    <3> QED
      BY <2>12, <3>1 DEF Restart, VersionInv, VersionNamesRules
  <2>13. CASE Tick
    BY <2>13 DEF Tick, VersionInv, VersionNamesRules
  <2>14. CASE UNCHANGED vars
    BY <2>14 DEF vars, VersionInv, VersionNamesRules
  <2> QED
    BY <2>5, <2>6, <2>7, <2>8, <2>9, <2>10, <2>11, <2>12, <2>13, <2>14 DEF Next
<1> QED
  BY <1>1, <1>2, TypeCorrect, PTL DEF Spec

\* A version names one set of rules: a restart never brings back other rules
\* under the version the panel had, however many saves failed before.
THEOREM VersionsNameRules == Spec => []VersionNamesRules
<1>1. VersionInv => VersionNamesRules
  BY DEF VersionInv
<1> QED
  BY <1>1, VersionInvariance, PTL

\* Rules that keep their fields on the wire are served as before.
LEMMA SameServed ==
    ASSUME NEW d \in Data, NEW e \in Data, NEW n \in NodeIds,
           \A r \in RuleIds : Wire(e.rules[r]) = Wire(d.rules[r])
    PROVE  Served(e, n) = Served(d, n)
<1> DEFINE Of(f) == {q \in RuleIds : /\ Has(f.rules, q)
                                     /\ f.rules[q].node = n
                                     /\ f.rules[q].enabled}
<1>1. ASSUME NEW r \in RuleIds
      PROVE  Has(e.rules, r) <=> Has(d.rules, r)
  <2>1. ASSUME NEW f \in Data, Has(f.rules, r)
        PROVE  Wire(f.rules[r]) # Absent
    <3>1. f.rules[r] \in Rule
      BY <2>1 DEF Data, Has
    <3>2. [f.rules[r] EXCEPT !.state = "pending"] \in Rule
      BY <3>1 DEF Rule, ApplyStates
    <3> QED
      BY <2>1, <3>2, AbsentIsNoRule DEF Wire, Has
  <2>2. ASSUME NEW f \in Data, ~Has(f.rules, r)
        PROVE  Wire(f.rules[r]) = Absent
    BY <2>2 DEF Wire, Has
  <2> QED
    BY <2>1, <2>2
<1>2. ASSUME NEW r \in RuleIds, Has(d.rules, r)
      PROVE  e.rules[r].node = d.rules[r].node /\ e.rules[r].enabled = d.rules[r].enabled
  <2>1. d.rules[r] \in Rule /\ e.rules[r] \in Rule
    BY <1>1, <1>2 DEF Data, Has
  <2> QED
    BY <2>1, SameWire
<1>3. Of(e) = Of(d)
  BY <1>1, <1>2
<1>4. \A r \in Of(d) : Wire(e.rules[r]) = Wire(d.rules[r])
  OBVIOUS
<1> QED
  BY <1>3, <1>4, Zenon DEF Served

\* A step that counts up, is a restart, or leaves what node n is told.
LEMMA ServedStep ==
    ASSUME TypeOK, TypeOK', VersionInv, [Next]_vars,
           NEW n \in NodeIds, Has(data.nodes, n), Has(data'.nodes, n)
    PROVE  \/ data'.ruleVersion > data.ruleVersion
           \/ Restart
           \/ data'.nodes[n] = data.nodes[n] /\ Served(data', n) = Served(data, n)
<1>1. data \in Data /\ data' \in Data /\ data.ruleVersion \in Nat
  BY DEF TypeOK, Data
<1>2. ASSUME data'.nodes[n] = data.nodes[n],
             \A r \in RuleIds : Wire(data'.rules[r]) = Wire(data.rules[r])
      PROVE  data'.nodes[n] = data.nodes[n] /\ Served(data', n) = Served(data, n)
  BY <1>1, <1>2, SameServed
<1>3. ASSUME NEW id \in RuleIds, NEW rule, StoreRule(id, rule)
      PROVE  data'.ruleVersion > data.ruleVersion
  BY <1>1, <1>3 DEF StoreRule, Data, NextVersion
<1>4. ASSUME NEW id \in RuleIds, NEW body \in Body,
             \/ CreateRule(id, body)
             \/ EditRule(id, body)
             \/ \E state \in ApplyStates : RecreateRule(id, body, state)
      PROVE  data'.ruleVersion > data.ruleVersion
  BY <1>3, <1>4 DEF CreateRule, EditRule, RecreateRule
<1>5. ASSUME NEW id \in RuleIds, DeleteRule(id) PROVE data'.ruleVersion > data.ruleVersion
  BY <1>1, <1>5 DEF DeleteRule, Data, NextVersion
<1>6. ASSUME NEW m \in NodeIds, NEW raw \in RawPolicies, RegisterNode(m, raw)
      PROVE  data'.nodes[n] = data.nodes[n] /\ Served(data', n) = Served(data, n)
  <2>1. n \in issued /\ m \notin issued
    BY <1>6 DEF VersionInv, RegisterNode
  <2>2. data'.rules = data.rules /\ data'.nodes[n] = data.nodes[n]
    BY <1>1, <1>6, <2>1 DEF RegisterNode, Data
  <2> QED
    BY <1>2, <2>2
<1>7. ASSUME NEW m \in NodeIds, NEW raw \in RawPolicies, UpdateNodeSettings(m, raw)
      PROVE  data' = data \/ data'.ruleVersion > data.ruleVersion
  <2>1. data' = data \/ data'.ruleVersion = data.ruleVersion + 1
    BY <1>7, SettingsStep, Zenon
  <2> QED
    BY <1>1, <2>1
<1>8. ASSUME NEW m \in NodeIds, DeleteNode(m) PROVE data'.ruleVersion > data.ruleVersion
  <2>1. data'.ruleVersion = data.ruleVersion + 1
    BY <1>8 DEF DeleteNode, TypeOK, Data, NextVersion
  <2> QED
    BY <1>1, <2>1
<1>9. ASSUME NEW m \in NodeIds, NEW states \in Reports, UpdateHeartbeat(m, states)
      PROVE  data'.nodes[n] = data.nodes[n] /\ Served(data', n) = Served(data, n)
  <2>1. data'.nodes = data.nodes
    BY <1>1, <1>9 DEF UpdateHeartbeat, RecordReports, Data
  <2> QED
    BY <1>2, <1>9, <2>1, HeartbeatKeepsWire
<1>10. CASE SaveOther \/ Tick \/ UNCHANGED vars
  BY <1>10 DEF SaveOther, Tick, vars
<1> QED
  BY <1>4, <1>5, <1>6, <1>7, <1>8, <1>9, <1>10 DEF Next

\* Nothing a node is to run changes under a version it may already hold.
THEOREM ChangesCountUp == Spec => ServedChangeCountsUp
<1>1. TypeOK /\ TypeOK' /\ VersionInv /\ [Next]_vars
      => [\A n \in NodeIds :
            /\ Has(data.nodes, n) /\ Has(data'.nodes, n)
            /\ \/ data'.nodes[n] # data.nodes[n]
               \/ Served(data', n) # Served(data, n)
            => data'.ruleVersion > data.ruleVersion \/ Restart]_vars
  BY ServedStep
<1> QED
  BY <1>1, TypeCorrect, VersionInvariance, PTL DEF Spec, ServedChangeCountsUp

-----------------------------------------------------------------------------
(* The settings form of the console.                                       *)

LEMMA FormKeepsPolicy ==
    ASSUME NEW p \in Policy
    PROVE  PanelPolicy(SentSettings(SettingsForm(p))) = p
<1> DEFINE sent == SentSettings(SettingsForm(p))
<1>1. /\ p.mode \in Modes /\ p.rollback \in 15..600
      /\ p.sshPorts \in (SUBSET PortNumbers) \ {{}}
      /\ p = [mode |-> p.mode, sshPorts |-> p.sshPorts, rollback |-> p.rollback]
  BY DEF Policy
<1>2. NormalPorts(p.sshPorts) = p.sshPorts
  BY <1>1 DEF NormalPorts
<1>3. sent = p
  BY <1>1, <1>2 DEF SentSettings, SettingsForm
<1>4. PanelMode(p.mode) = p.mode
  BY <1>1 DEF PanelMode, Modes
<1>5. ClampSeconds(p.rollback) = p.rollback
  BY <1>1 DEF ClampSeconds
<1> HIDE DEF sent
<1> QED
  BY <1>1, <1>2, <1>3, <1>4, <1>5 DEF PanelPolicy, sent

\* Saving the settings form changes no policy the panel can have
\* (onSettingsSubmit of NodeManager, UpdateNodeSettings).
THEOREM RenamesKeepPolicy == Spec => []RenameKeepsPolicy
<1>1. TypeOK => RenameKeepsPolicy
  <2> SUFFICES ASSUME TypeOK, NEW n \in NodeIds, Has(data.nodes, n)
               PROVE  PanelPolicy(SentSettings(SettingsForm(data.nodes[n]))) = data.nodes[n]
    BY DEF RenameKeepsPolicy
  <2>1. data.nodes[n] \in Policy
    BY DEF TypeOK, Data, Has
  <2> QED
    BY <2>1, FormKeepsPolicy
<1> QED
  BY <1>1, TypeCorrect, PTL

(***************************************************************************)
(* Part two: the agent.                                                    *)
(***************************************************************************)

-----------------------------------------------------------------------------
(* Reports.                                                                *)

LEMMA ReportsOf ==
    ASSUME NEW S \in SUBSET (issued \cap RuleIds), NEW f \in [S -> ReportStates]
    PROVE  f \in Reports
  BY DEF Reports

\* The agent may always report what it once could: identifiers do not end.
LEMMA ReportsGrow ==
    ASSUME issued \subseteq issued'
    PROVE  Reports \subseteq Reports'
<1>1. SUFFICES ASSUME NEW S \in SUBSET (issued \cap RuleIds), NEW f \in [S -> ReportStates]
               PROVE  f \in Reports'
  BY DEF Reports
<1>2. S \in SUBSET (issued' \cap RuleIds)
  OBVIOUS
<1> QED
  BY <1>2 DEF Reports

LEMMA NoReportsIsReports == NoReports \in Reports
<1>1. NoReports \in [{} -> ReportStates]
  BY DEF NoReports
<1> QED
  BY <1>1, ReportsOf

-----------------------------------------------------------------------------
(* The panel's side of every step.                                         *)

LEMMA SyncFlags == Self \in NodeIds /\ Flags \in RawPolicies /\ Flags \in RawPolicy
  BY SyncConstants, StoreConstants

\* What a step does to the store, one of the store's own steps does.
LEMMA StoreStep ==
    ASSUME AgentTypeOK, [SyncNext]_syncVars
    PROVE  [Next]_vars
<1>1. request.reports \in Reports /\ late \in Reports
  BY DEF AgentTypeOK
<1>2. CASE HandleFirst
  BY <1>1, <1>2, SyncFlags DEF HandleFirst, Next
<1>3. CASE HandleLate
  BY <1>1, <1>3, SyncFlags DEF HandleLate, Next
<1>4. CASE Join
  BY <1>4, SyncFlags DEF Join, Next
<1>5. CASE PanelSteps
  BY <1>5 DEF PanelSteps, Next
<1>6. CASE PanelRestart
  BY <1>6 DEF PanelRestart, Next
<1>7. CASE HandleSecond
  BY <1>7 DEF HandleSecond
<1>8. CASE Agent
  BY <1>8 DEF Agent, SendHeartbeat, SendStatus, Post, TakePolicy, UpToDate, ApplyRules,
              SaveVersion, TakeStatus
<1>9. CASE HeartbeatFails \/ ApplyFails \/ AgentRestart \/ HostReboot
  BY <1>9 DEF HeartbeatFails, ApplyFails, AgentRestart, HostReboot, Start
<1>10. CASE UNCHANGED syncVars
  BY <1>10 DEF syncVars
<1> QED
  BY <1>2, <1>3, <1>4, <1>5, <1>6, <1>7, <1>8, <1>9, <1>10 DEF SyncNext, Handler

\* Every rule in memory or on disk has an identifier that was handed out.
StoreIssued == Present(data.rules) \cup Present(disk.rules) \subseteq issued

LEMMA FewerRules ==
    ASSUME NoNewRules(data, data')
    PROVE  Present(data'.rules) \subseteq Present(data.rules)
  BY DEF NoNewRules, Present

LEMMA OneMoreRule ==
    ASSUME TypeOK, NEW id \in RuleIds, NEW rule, StoreRule(id, rule)
    PROVE  Present(data'.rules) \subseteq Present(data.rules) \cup {id}
<1>1. data'.rules = [data.rules EXCEPT ![id] = rule]
  BY StoreRuleRules DEF OneNewRule
<1> QED
  BY <1>1 DEF Present, Has, TypeOK, Data

LEMMA IssuedStep ==
    ASSUME TypeOK, StoreIssued, [Next]_vars
    PROVE  StoreIssued' /\ issued \subseteq issued'
<1>1. ASSUME Present(data'.rules) \subseteq issued', issued \subseteq issued', Save
      PROVE  StoreIssued' /\ issued \subseteq issued'
  BY <1>1 DEF StoreIssued, Save
<1>2. ASSUME NEW id \in RuleIds, NEW rule, StoreRule(id, rule), id \in issued',
             issued \subseteq issued'
      PROVE  StoreIssued' /\ issued \subseteq issued'
  BY <1>1, <1>2, OneMoreRule DEF StoreRule, StoreIssued
<1>3. ASSUME NoNewRules(data, data'), Save, issued \subseteq issued'
      PROVE  StoreIssued' /\ issued \subseteq issued'
  BY <1>1, <1>3, FewerRules DEF StoreIssued
<1>4. ASSUME NEW id \in RuleIds, NEW body \in Body,
             \/ CreateRule(id, body)
             \/ EditRule(id, body)
             \/ \E state \in ApplyStates : RecreateRule(id, body, state)
      PROVE  StoreIssued' /\ issued \subseteq issued'
  <2>1. CASE CreateRule(id, body)
    BY <1>2, <2>1 DEF CreateRule
  <2>2. CASE EditRule(id, body)
    <3>1. id \in issued
      BY <2>2 DEF EditRule, StoreIssued, Present
    <3> QED
      BY <1>2, <2>2, <3>1 DEF EditRule
  <2>3. ASSUME NEW state \in ApplyStates, RecreateRule(id, body, state)
        PROVE  StoreIssued' /\ issued \subseteq issued'
    BY <1>2, <2>3 DEF RecreateRule
  <2> QED
    BY <1>4, <2>1, <2>2, <2>3
<1>5. ASSUME NEW id \in RuleIds, DeleteRule(id) PROVE StoreIssued' /\ issued \subseteq issued'
  BY <1>3, <1>5, DeleteRuleRules DEF DeleteRule
<1>6. ASSUME NEW n \in NodeIds, NEW raw \in RawPolicies, RegisterNode(n, raw)
      PROVE  StoreIssued' /\ issued \subseteq issued'
  BY <1>3, <1>6, RegisterNodeRules DEF RegisterNode
<1>7. ASSUME NEW n \in NodeIds, NEW raw \in RawPolicies, UpdateNodeSettings(n, raw)
      PROVE  StoreIssued' /\ issued \subseteq issued'
  BY <1>3, <1>7, UpdateNodeSettingsRules DEF UpdateNodeSettings
<1>8. ASSUME NEW n \in NodeIds, DeleteNode(n) PROVE StoreIssued' /\ issued \subseteq issued'
  BY <1>3, <1>8, DeleteNodeRules DEF DeleteNode
<1>9. ASSUME NEW n \in NodeIds, NEW sent \in Reports, UpdateHeartbeat(n, sent)
      PROVE  StoreIssued' /\ issued \subseteq issued'
  BY <1>3, <1>9, UpdateHeartbeatRules DEF UpdateHeartbeat
<1>10. CASE SaveOther
  BY <1>10 DEF SaveOther, Save, StoreIssued
<1>11. CASE Restart
  BY <1>11 DEF Restart, StoreIssued
<1>12. CASE Tick \/ UNCHANGED vars
  BY <1>12 DEF Tick, vars, StoreIssued
<1> QED
  BY <1>4, <1>5, <1>6, <1>7, <1>8, <1>9, <1>10, <1>11, <1>12 DEF Next

-----------------------------------------------------------------------------
(* The agent's side.                                                       *)

LEMMA PortNumbersAreInts == SUBSET PortNumbers \subseteq SUBSET Int
<1>1. \A q \in PortNumbers : q \in Int
  BY DEF PortNumbers
<1> QED
  BY <1>1

LEMMA FlagsType == Flags \in FlagPolicy
<1>1. Flags.mode \in Modes /\ Flags \in RawPolicy
  BY SyncFlags, SyncConstants
<1> QED
  BY <1>1 DEF RawPolicy, FlagPolicy

LEMMA AgentPolicyType ==
    ASSUME NEW p \in Policy
    PROVE  AgentPolicy(p) \in FlagPolicy
<1>1. NormalPorts(p.sshPorts) \in SUBSET PortNumbers
  <2>1. 22 \in PortNumbers
    BY DEF PortNumbers
  <2> QED
    BY <2>1 DEF NormalPorts
<1>2. ClampSeconds(p.rollback) \in Int
  BY DEF ClampSeconds, Policy
<1>3. (IF p.mode = "strict" THEN "strict" ELSE "managed") \in Modes
  BY DEF Modes
<1> QED
  BY <1>1, <1>2, <1>3, PortNumbersAreInts, Zenon DEF AgentPolicy, FlagPolicy

LEMMA NoRulesType == NoRules \in [RuleIds -> Rule \cup {Absent}] /\ Present(NoRules) = {}
  BY DEF NoRules, Present, Has

LEMMA RulesNowType ==
    ASSUME TypeOK
    PROVE  /\ RulesNow \in [RuleIds -> Rule \cup {Absent}]
           /\ Present(RulesNow) \subseteq Present(data.rules)
<1>1. ASSUME NEW r \in RuleIds, r \in RulesForNode(data, Self, now)
      PROVE  r \in Present(data.rules) /\ Wire(data.rules[r]) \in Rule
  <2>1. Has(data.rules, r)
    BY <1>1 DEF RulesForNode
  <2>2. data.rules[r] \in Rule
    BY <2>1 DEF Has, TypeOK, Data
  <2>3. [data.rules[r] EXCEPT !.state = "pending"] \in Rule
    BY <2>2 DEF Rule, ApplyStates
  <2> QED
    BY <2>1, <2>3 DEF Wire, Present, Has
<1> QED
  BY <1>1 DEF RulesNow, Present, Has

\* Every rule in an answer was once stored.
AnswerIssued == Present(response.rules) \subseteq issued

\* An answer of the handler has a version and a policy of the panel.
LEMMA HandleFirstAnswer ==
    ASSUME TypeOK, HandleFirst
    PROVE  /\ response' \in [version : Nat, policy : Policy,
                             rules : [RuleIds -> Rule \cup {Absent}]]
           /\ Present(response'.rules) = {}
<1>1. data.nodes[Self] \in Policy /\ data.ruleVersion \in Nat
  BY SyncFlags DEF HandleFirst, UpdateHeartbeat, Has, TypeOK, Data
<1>2. response' = [version |-> data.ruleVersion, policy |-> data.nodes[Self],
                   rules |-> NoRules]
  BY DEF HandleFirst
<1> QED
  BY <1>1, <1>2, NoRulesType

LEMMA HandleSecondAnswer ==
    ASSUME TypeOK, StoreIssued, AgentTypeOK, AnswerIssued, HandleSecond
    PROVE  /\ response' \in [version : Nat, policy : Policy,
                             rules : [RuleIds -> Rule \cup {Absent}]]
           /\ Present(response'.rules) \subseteq issued
<1>1. \/ response' = [response EXCEPT !.rules = RulesNow]
      \/ response' = response
  BY Zenon DEF HandleSecond
<1>2. CASE response' = response
  BY <1>2 DEF AgentTypeOK, AnswerIssued
<1>3. CASE response' = [response EXCEPT !.rules = RulesNow]
  <2> DEFINE rules == RulesNow
  <2>1. rules \in [RuleIds -> Rule \cup {Absent}] /\ Present(rules) \subseteq issued
    BY RulesNowType DEF StoreIssued
  <2>2. response' = [response EXCEPT !.rules = rules]
    BY <1>3
  <2> HIDE DEF rules
  <2>3. response'.rules = rules
    BY <2>2 DEF AgentTypeOK
  <2>4. response' \in [version : Nat, policy : Policy,
                       rules : [RuleIds -> Rule \cup {Absent}]]
    BY <2>1, <2>2 DEF AgentTypeOK
  <2> QED
    BY <2>1, <2>3, <2>4
<1> QED
  BY <1>1, <1>2, <1>3

LEMMA LoadedType ==
    ASSUME AgentTypeOK, NEW resolved \in SUBSET Present(response.rules)
    PROVE  Loaded(resolved) \in [RuleIds -> Rule \cup {Absent}]
  BY DEF Loaded, AgentTypeOK

LEMMA ApplyReports ==
    ASSUME AgentTypeOK, AnswerIssued, NEW f,
           f \in [Present(response.rules) -> {"applied", "error"}]
    PROVE  f \in Reports
<1>1. Present(response.rules) \in SUBSET (issued \cap RuleIds)
  BY DEF AnswerIssued, Present
<1>2. f \in [Present(response.rules) -> ReportStates]
  BY SyncConstants
<1> QED
  BY <1>1, <1>2, ReportsOf

\* SaveConfig writes what the agent holds, or nothing.
LEMMA SaveConfigType ==
    ASSUME AgentTypeOK, NEW ok \in BOOLEAN, SaveConfig(ok),
           version' \in Nat \cup {-1}, policy' \in FlagPolicy
    PROVE  saved' \in [version : Nat \cup {-1}, policy : FlagPolicy]
  BY DEF SaveConfig, AgentTypeOK

LEMMA StartType ==
    ASSUME AgentTypeOK, issued \subseteq issued', Start
    PROVE  /\ version' \in Nat \cup {-1}
           /\ policy' \in FlagPolicy
           /\ saved' \in [version : Nat \cup {-1}, policy : FlagPolicy]
           /\ reports' \in Reports'
           /\ late' \in Reports'
<1>1. version' \in Nat \cup {-1}
  BY DEF Start, StartVersion, AgentTypeOK
<1>2. policy' \in FlagPolicy
  BY FlagsType DEF Start
<1>3. saved' \in [version : Nat \cup {-1}, policy : FlagPolicy]
  BY <1>1, <1>2, SaveConfigType DEF Start
<1>4. reports' \in Reports'
  BY NoReportsIsReports, ReportsGrow DEF Start
<1>5. late' \in {late, request.reports}
  BY DEF Start
<1> QED
  BY <1>1, <1>2, <1>3, <1>4, <1>5, ReportsGrow DEF AgentTypeOK

\* Every step keeps the agent's side in shape.
LEMMA AgentStep ==
    ASSUME TypeOK, StoreIssued, AgentTypeOK, AnswerIssued, issued \subseteq issued',
           [SyncNext]_syncVars
    PROVE  AgentTypeOK' /\ AnswerIssued'
<1>1. Reports \subseteq Reports'
  BY ReportsGrow
<1> USE <1>1
<1>2. CASE HandleFirst
  BY <1>2, HandleFirstAnswer DEF HandleFirst, AgentTypeOK, AnswerIssued, Phases
<1>3. CASE HandleSecond
  BY <1>3, HandleSecondAnswer DEF HandleSecond, AgentTypeOK, AnswerIssued, Phases
<1>4. CASE HandleLate
  BY <1>4, NoReportsIsReports DEF HandleLate, AgentTypeOK, AnswerIssued
<1>5. CASE Join
  <2>1. version' \in Nat \cup {-1}
    BY <1>5 DEF Join
  <2>2. saved' \in [version : Nat \cup {-1}, policy : FlagPolicy]
    BY <1>5, <2>1 DEF Join, AgentTypeOK
  <2> QED
    BY <1>5, <2>1, <2>2 DEF Join, AgentTypeOK, AnswerIssued, Phases
<1>6. CASE SendHeartbeat \/ SendStatus
  <2>1. PICK c \in CallKinds : Post(c)
    BY <1>6 DEF SendHeartbeat, SendStatus, CallKinds, AgentTypeOK
  <2> QED
    BY <2>1 DEF Post, AgentTypeOK, AnswerIssued, Phases, vars
<1>7. CASE TakePolicy
  <2>1. policy' \in FlagPolicy
    BY <1>7, AgentPolicyType DEF TakePolicy, AgentTypeOK
  <2>2. version' \in Nat \cup {-1}
    BY <1>7 DEF TakePolicy, AgentTypeOK
  <2>3. saved' \in [version : Nat \cup {-1}, policy : FlagPolicy]
    BY <1>7, <2>1, <2>2, SaveConfigType DEF TakePolicy, AgentTypeOK
  <2>4. phase' \in Phases
    BY <1>7 DEF TakePolicy, Phases
  <2> QED
    BY <1>7, <2>1, <2>2, <2>3, <2>4 DEF TakePolicy, AgentTypeOK, AnswerIssued, vars
<1>8. CASE UpToDate
  BY <1>8 DEF UpToDate, AgentTypeOK, AnswerIssued, Phases, vars
<1>9. CASE ApplyRules
  <2>1. PICK resolved \in SUBSET Present(response.rules) :
           /\ kernel' = Loaded(resolved)
           /\ reports' = [r \in Present(response.rules) |->
                          IF r \in resolved THEN "applied" ELSE "error"]
           /\ skipped' = Present(response.rules) \ resolved
    BY <1>9 DEF ApplyRules
  <2>2. reports' \in Reports
    BY <2>1, ApplyReports
  <2>3. kernel' \in [RuleIds -> Rule \cup {Absent}]
    BY <2>1, LoadedType
  <2>4. skipped' \subseteq RuleIds
    BY <2>1 DEF Present
  <2>5. version' \in Nat \cup {-1}
    BY <1>9 DEF ApplyRules, AgentTypeOK
  <2> QED
    BY <1>9, <2>2, <2>3, <2>4, <2>5
    DEF ApplyRules, AgentTypeOK, AnswerIssued, Phases, CallKinds, vars
<1>10. CASE ApplyFails
  <2>1. reports' \in Reports
    BY <1>10, ApplyReports DEF ApplyFails
  <2>2. kernel' \in [RuleIds -> Rule \cup {Absent}]
    BY <1>10, LoadedType DEF ApplyFails, AgentTypeOK
  <2> QED
    BY <1>10, <2>1, <2>2 DEF ApplyFails, AgentTypeOK, AnswerIssued, Phases, CallKinds, vars
<1>11. CASE SaveVersion
  <2>1. saved' \in [version : Nat \cup {-1}, policy : FlagPolicy]
    BY <1>11, SaveConfigType DEF SaveVersion, AgentTypeOK
  <2> QED
    BY <1>11, <2>1 DEF SaveVersion, AgentTypeOK, AnswerIssued, Phases, vars
<1>12. CASE TakeStatus
  <2>1. policy' \in FlagPolicy
    BY <1>12, AgentPolicyType DEF TakeStatus, AgentTypeOK
  <2> QED
    BY <1>12, <2>1 DEF TakeStatus, AgentTypeOK, AnswerIssued, Phases, vars
<1>13. CASE HeartbeatFails
  <2>1. late' \in {late, request.reports}
    BY <1>13 DEF HeartbeatFails
  <2> QED
    BY <1>13, <2>1 DEF HeartbeatFails, AgentTypeOK, AnswerIssued, Phases, vars
<1>14. CASE AgentRestart \/ HostReboot
  <2>1. kernel' \in [RuleIds -> Rule \cup {Absent}]
    BY <1>14, NoRulesType DEF AgentRestart, HostReboot, AgentTypeOK
  <2>2. Start
    BY <1>14 DEF AgentRestart, HostReboot
  <2> QED
    BY <2>1, <2>2, StartType DEF Start, AgentTypeOK, AnswerIssued, Phases, vars
<1>15. CASE PanelSteps
  BY <1>15 DEF PanelSteps, agentVars, AgentTypeOK, AnswerIssued
<1>16. CASE PanelRestart
  BY <1>16 DEF PanelRestart, AgentTypeOK, AnswerIssued, Phases
<1>17. CASE UNCHANGED syncVars
  BY <1>17 DEF syncVars, agentVars, vars, AgentTypeOK, AnswerIssued
<1> QED
  BY <1>2, <1>3, <1>4, <1>5, <1>6, <1>7, <1>8, <1>9, <1>10, <1>11, <1>12, <1>13,
     <1>14, <1>15, <1>16, <1>17
  DEF SyncNext, Handler, Agent

-----------------------------------------------------------------------------
(* The invariant of the composition, and what it gives.                    *)

SyncInv == TypeOK /\ StoreIssued /\ AgentTypeOK /\ AnswerIssued

LEMMA SyncInitInv ==
    ASSUME SyncInit
    PROVE  SyncInv
<1>1. TypeOK
  BY DEF SyncInit, Init, TypeOK, EmptyData, Data
<1>2. StoreIssued
  BY DEF SyncInit, Init, StoreIssued, EmptyData, Present, Has
<1>3. PanelPolicy(Flags) \in Policy
  BY SyncFlags, PanelPolicyType
<1>4. AgentTypeOK
  BY <1>3, FlagsType, NoRulesType, NoReportsIsReports
  DEF SyncInit, AgentTypeOK, Phases, CallKinds
<1>5. AnswerIssued
  BY NoRulesType DEF SyncInit, AnswerIssued
<1> QED
  BY <1>1, <1>2, <1>4, <1>5 DEF SyncInv

LEMMA SyncInvStep ==
    ASSUME SyncInv, [SyncNext]_syncVars
    PROVE  SyncInv'
<1>1. TypeOK /\ StoreIssued /\ AgentTypeOK /\ AnswerIssued
  BY DEF SyncInv
<1>2. [Next]_vars
  BY <1>1, StoreStep
<1>3. TypeOK'
  BY <1>1, <1>2, TypeStep
<1>4. StoreIssued' /\ issued \subseteq issued'
  BY <1>1, <1>2, IssuedStep
<1>5. AgentTypeOK' /\ AnswerIssued'
  BY <1>1, <1>4, AgentStep
<1> QED
  BY <1>3, <1>4, <1>5 DEF SyncInv

LEMMA SyncInvariance == SyncSpec => []SyncInv
<1>1. SyncInit => SyncInv
  BY SyncInitInv
<1>2. SyncInv /\ [SyncNext]_syncVars => SyncInv'
  BY SyncInvStep
<1> QED
  BY <1>1, <1>2, PTL DEF SyncSpec

\* The agent's side of the state always has its shape; what it reports and
\* what it is sent are rules the panel once stored.
THEOREM AgentTypeCorrect == SyncSpec => []AgentTypeOK
<1>1. SyncInv => AgentTypeOK
  BY DEF SyncInv
<1> QED
  BY <1>1, SyncInvariance, PTL

\* The panel with its heartbeat handler and the agent implements the store.
THEOREM SyncRefinesStore == SyncSpec => PanelIsRuleStore
<1>1. SyncInit => Init
  BY DEF SyncInit
<1>2. SyncInv /\ [SyncNext]_syncVars => [Next]_vars
  BY StoreStep DEF SyncInv
<1> QED
  BY <1>1, <1>2, SyncInvariance, PTL DEF SyncSpec, PanelIsRuleStore, Spec

\* So the store's invariants hold while agents fetch, apply and report.
THEOREM SyncKeepsStoreSafe ==
    SyncSpec => [](NoPortConflict /\ RulesHaveNodes /\ VersionNamesRules)
  BY SyncRefinesStore, PortConflictFree, RulesKeepNodes, VersionsNameRules, PTL
  DEF PanelIsRuleStore

-----------------------------------------------------------------------------
(* Versions.                                                               *)

\* An answer on its way, or being applied, came from panel and snapshot.
Answering == phase \in {"half", "answered", "apply", "save"}

\* No version that the agent holds, keeps in agent.json or is being told is
\* above that of the snapshot, and the snapshot's is not above memory's.
VersionsOnDisk ==
    /\ disk.ruleVersion <= data.ruleVersion
    /\ version <= disk.ruleVersion
    /\ saved.version <= disk.ruleVersion
    /\ Answering => response.version <= disk.ruleVersion

\* The store counts up only, but for a restart.
LEMMA VersionStep ==
    ASSUME TypeOK, [Next]_vars, disk.ruleVersion <= data.ruleVersion
    PROVE  /\ disk.ruleVersion <= disk'.ruleVersion
           /\ disk'.ruleVersion <= data'.ruleVersion
           /\ \/ data'.ruleVersion = data.ruleVersion
              \/ data'.ruleVersion = data.ruleVersion + 1
              \/ data' = disk
<1>1. data.ruleVersion \in Nat /\ disk.ruleVersion \in Nat
  BY DEF TypeOK, Data
<1>2. ASSUME Save, \/ data'.ruleVersion = data.ruleVersion
                   \/ data'.ruleVersion = data.ruleVersion + 1
      PROVE  /\ disk.ruleVersion <= disk'.ruleVersion
             /\ disk'.ruleVersion <= data'.ruleVersion
  BY <1>1, <1>2 DEF Save
<1>3. ASSUME NEW id \in RuleIds, NEW rule, StoreRule(id, rule)
      PROVE  data'.ruleVersion = data.ruleVersion + 1 /\ Save
  BY <1>3 DEF StoreRule, NextVersion, TypeOK, Data
<1>4. ASSUME NEW id \in RuleIds, NEW body \in Body,
             \/ CreateRule(id, body)
             \/ EditRule(id, body)
             \/ \E state \in ApplyStates : RecreateRule(id, body, state)
      PROVE  data'.ruleVersion = data.ruleVersion + 1 /\ Save
  BY <1>3, <1>4 DEF CreateRule, EditRule, RecreateRule
<1>5. ASSUME NEW id \in RuleIds, DeleteRule(id)
      PROVE  data'.ruleVersion = data.ruleVersion + 1 /\ Save
  BY <1>5 DEF DeleteRule, NextVersion, TypeOK, Data
<1>6. ASSUME NEW n \in NodeIds, NEW raw \in RawPolicies, RegisterNode(n, raw)
      PROVE  data'.ruleVersion = data.ruleVersion /\ Save
  BY <1>6 DEF RegisterNode, TypeOK, Data
<1>7. ASSUME NEW n \in NodeIds, NEW raw \in RawPolicies, UpdateNodeSettings(n, raw)
      PROVE  /\ \/ data'.ruleVersion = data.ruleVersion
                \/ data'.ruleVersion = data.ruleVersion + 1
             /\ Save
  BY <1>7 DEF UpdateNodeSettings, NextVersion, TypeOK, Data
<1>8. ASSUME NEW n \in NodeIds, DeleteNode(n)
      PROVE  data'.ruleVersion = data.ruleVersion + 1 /\ Save
  BY <1>8 DEF DeleteNode, NextVersion, TypeOK, Data
<1>9. ASSUME NEW n \in NodeIds, NEW sent \in Reports, UpdateHeartbeat(n, sent)
      PROVE  data'.ruleVersion = data.ruleVersion /\ Save
  BY <1>9 DEF UpdateHeartbeat, RecordReports, TypeOK, Data
<1>10. CASE SaveOther
  BY <1>2, <1>10 DEF SaveOther
<1>11. CASE Restart
  BY <1>1, <1>11 DEF Restart
<1>12. CASE Tick \/ UNCHANGED vars
  BY <1>1, <1>12 DEF Tick, vars
<1> QED
  BY <1>2, <1>4, <1>5, <1>6, <1>7, <1>8, <1>9, <1>10, <1>11, <1>12 DEF Next

\* Steps that leave the agent's versions alone, and the phase outside Answering.
LEMMA SameVersionsOnDisk ==
    ASSUME SyncInv, SyncInv', VersionsOnDisk, disk.ruleVersion <= disk'.ruleVersion,
           disk'.ruleVersion <= data'.ruleVersion,
           version' \in {version, -1, 0}, saved'.version \in {saved.version, version'},
           Answering' => Answering /\ response'.version = response.version
    PROVE  VersionsOnDisk'
<1>1. /\ version \in Int /\ saved.version \in Int /\ response.version \in Int
      /\ disk.ruleVersion \in Nat /\ disk'.ruleVersion \in Nat /\ data'.ruleVersion \in Nat
  BY DEF SyncInv, AgentTypeOK, TypeOK, Data
<1>2. version' \in Int /\ version' <= disk'.ruleVersion
  BY <1>1 DEF VersionsOnDisk
<1>3. saved'.version <= disk'.ruleVersion
  BY <1>1, <1>2 DEF VersionsOnDisk
<1>4. Answering' => response'.version <= disk'.ruleVersion
  BY <1>1 DEF VersionsOnDisk
<1> QED
  BY <1>2, <1>3, <1>4 DEF VersionsOnDisk

LEMMA SavedVersions ==
    ASSUME SyncInv, NEW ok \in BOOLEAN, SaveConfig(ok)
    PROVE  saved'.version \in {saved.version, version'}
  BY DEF SaveConfig, SyncInv, AgentTypeOK

LEMMA VersionsOnDiskStep ==
    ASSUME SyncInv, VersionsOnDisk, [SyncNext]_syncVars
    PROVE  VersionsOnDisk'
<1>1. SyncInv'
  BY SyncInvStep
<1>2. TypeOK /\ [Next]_vars
  BY StoreStep DEF SyncInv
<1>3. disk.ruleVersion <= disk'.ruleVersion /\ disk'.ruleVersion <= data'.ruleVersion
  BY <1>2, VersionStep DEF VersionsOnDisk
<1>4. ASSUME version' \in {version, -1, 0}, saved'.version \in {saved.version, version'},
             Answering' => Answering /\ response'.version = response.version
      PROVE  VersionsOnDisk'
  BY <1>1, <1>3, <1>4, SameVersionsOnDisk
<1>5. CASE HandleFirst
  <2>1. version' = version /\ saved' = saved
    BY <1>5 DEF HandleFirst
  <2>2. CASE disk' = data'
    <3>1. response'.version = data.ruleVersion
      BY <1>5 DEF HandleFirst
    <3>2. data'.ruleVersion = data.ruleVersion
      BY <1>2, <1>5 DEF HandleFirst, UpdateHeartbeat, RecordReports, TypeOK, Data
    <3>3. response'.version <= disk'.ruleVersion
      BY <1>2, <2>2, <3>1, <3>2 DEF TypeOK, Data
    <3>4. /\ version \in Int /\ saved.version \in Int
          /\ disk.ruleVersion \in Nat /\ disk'.ruleVersion \in Nat
      BY <1>1 DEF SyncInv, AgentTypeOK, TypeOK, Data
    <3> QED
      BY <1>3, <2>1, <3>3, <3>4 DEF VersionsOnDisk
  <2>3. CASE disk' # data'
    <3>1. ~Answering'
      BY <1>5, <2>3 DEF HandleFirst, Answering
    <3> QED
      BY <1>4, <2>1, <3>1
  <2> QED
    BY <2>2, <2>3
<1>6. CASE HandleSecond
  <2>1. response'.version = response.version
    BY <1>6 DEF HandleSecond, SyncInv, AgentTypeOK
  <2> QED
    BY <1>4, <1>6, <2>1 DEF HandleSecond, Answering
<1>7. CASE HandleLate \/ HeartbeatFails \/ PanelRestart
  BY <1>4, <1>7 DEF HandleLate, HeartbeatFails, PanelRestart, Answering
<1>8. CASE Join
  BY <1>4, <1>8 DEF Join, Answering
<1>9. CASE SendHeartbeat \/ SendStatus
  BY <1>4, <1>9 DEF SendHeartbeat, SendStatus, Post, Answering
<1>10. CASE TakePolicy
  <2>1. saved'.version \in {saved.version, version'}
    BY <1>10, SavedVersions DEF TakePolicy
  <2> QED
    BY <1>4, <1>10, <2>1 DEF TakePolicy, Answering
<1>11. CASE UpToDate \/ ApplyFails \/ TakeStatus
  BY <1>4, <1>11 DEF UpToDate, ApplyFails, TakeStatus, Answering
<1>12. CASE ApplyRules
  <2>1. version' = response.version /\ saved' = saved /\ response' = response
        /\ disk' = disk /\ data' = data
    BY <1>12 DEF ApplyRules, vars
  <2>2. Answering
    BY <1>12 DEF ApplyRules, Answering
  <2> QED
    BY <2>1, <2>2 DEF VersionsOnDisk
<1>13. CASE SaveVersion
  <2>1. saved'.version \in {saved.version, version'}
    BY <1>13, SavedVersions DEF SaveVersion
  <2> QED
    BY <1>4, <1>13, <2>1 DEF SaveVersion, Answering
<1>14. CASE AgentRestart \/ HostReboot
  <2>1. Start
    BY <1>14 DEF AgentRestart, HostReboot
  <2>2. version' \in {-1, saved.version} /\ saved'.version = version' /\ ~Answering'
        /\ disk' = disk /\ data' = data
    BY <2>1 DEF Start, StartVersion, SaveConfig, Answering, vars
  <2>3. disk.ruleVersion \in Nat /\ saved.version \in Int
    BY DEF SyncInv, TypeOK, Data, AgentTypeOK
  <2> QED
    BY <2>2, <2>3 DEF VersionsOnDisk
<1>15. CASE PanelSteps
  BY <1>4, <1>15 DEF PanelSteps, agentVars, Answering
<1>16. CASE UNCHANGED syncVars
  BY <1>4, <1>16 DEF syncVars, agentVars, Answering
<1> QED
  BY <1>5, <1>6, <1>7, <1>8, <1>9, <1>10, <1>11, <1>12, <1>13, <1>14, <1>15, <1>16
  DEF SyncNext, Handler, Agent

\* The agent hears of every change: the version of a change that is being
\* made is never one the agent holds already, whatever saves failed and
\* whatever a restart took back.
THEOREM ChangesAreNews == SyncSpec => SavedRulesAreNews
<1>1. SyncInit => VersionsOnDisk
  BY DEF SyncInit, Init, EmptyData, VersionsOnDisk, Answering
<1>2. SyncInv /\ VersionsOnDisk /\ [SyncNext]_syncVars => VersionsOnDisk'
  BY VersionsOnDiskStep
<1>3. SyncInv /\ VersionsOnDisk /\ [SyncNext]_syncVars
      => [data'.ruleVersion > data.ruleVersion => version # data'.ruleVersion]_syncVars
  BY DEF SyncInv, VersionsOnDisk, AgentTypeOK, TypeOK, Data
<1> QED
  BY <1>1, <1>2, <1>3, SyncInvariance, PTL DEF SyncSpec, SavedRulesAreNews

-----------------------------------------------------------------------------
(* Equal versions, equal rules, while saves do not fail, on a host that    *)
(* does not reboot or has flags that say strict.  SameVersionSameRules is  *)
(* not inductive: rules come with an answer, and versions come back from   *)
(* agent.json.  The invariant says of every version the agent holds, has   *)
(* saved or is being told: if it is the panel's, so is what it came with.  *)

InHandlerOrLater == phase \in {"half", "answered", "apply"}

\* The panel knows the node and has counted up.
Counted == Has(data.nodes, Self) /\ data.ruleVersion > 0

\* The answer holds what node Self is to run.
Holds(rules) ==
    \A r \in RuleIds :
        IF Has(rules, r) /\ rules[r].node = Self /\ rules[r].enabled
        THEN \/ response.rules[r] = Wire(rules[r])
             \/ response.rules[r] = Absent /\ Expired(rules[r], now)
        ELSE response.rules[r] = Absent

NothingAtZero ==
    data.ruleVersion = 0 => /\ data.rules = NoRules
                            /\ kernel = NoRules
                            /\ response.rules = NoRules

AgentIsCurrent ==
    Counted /\ version = data.ruleVersion =>
        Runs(data.rules) /\ policy = AgentPolicy(data.nodes[Self])

SavedIsCurrent ==
    Counted /\ saved.version = data.ruleVersion =>
        version = data.ruleVersion /\ saved.policy = AgentPolicy(data.nodes[Self])

AnswerIsLater ==
    InHandlerOrLater => version <= response.version /\ saved.version <= response.version

AnswerIsCurrent ==
    Counted /\ InHandlerOrLater /\ response.version = data.ruleVersion =>
        /\ response.policy = data.nodes[Self]
        /\ phase # "half" /\ request.version # response.version => Holds(data.rules)

RequestIsOwn == phase \in {"sent", "half", "answered"} => request.version = version

PolicyIsTaken == phase = "apply" => policy = AgentPolicy(response.policy)

\* An answer without rules is never applied.
RulesWereAsked ==
    Counted /\ phase = "apply" /\ response.version = data.ruleVersion =>
        version = data.ruleVersion \/ request.version # data.ruleVersion

EqualInv ==
    /\ disk = data
    /\ NothingAtZero
    /\ AgentIsCurrent
    /\ SavedIsCurrent
    /\ AnswerIsLater
    /\ AnswerIsCurrent
    /\ RequestIsOwn
    /\ PolicyIsTaken
    /\ RulesWereAsked

\* What the panel would send is as it was.
Kept ==
    /\ data'.ruleVersion = data.ruleVersion
    /\ data'.nodes[Self] = data.nodes[Self]
    /\ \A r \in RuleIds : Wire(data'.rules[r]) = Wire(data.rules[r])
    /\ now <= now'

Bumped == data'.ruleVersion = data.ruleVersion + 1

LEMMA SavedAlways ==
    ASSUME ~SaveMayFail, Save
    PROVE  disk' = data'
  BY DEF Save

LEMMA KeptHeartbeat ==
    ASSUME TypeOK, NEW n \in NodeIds, NEW sent \in Reports, UpdateHeartbeat(n, sent)
    PROVE  Kept /\ Save /\ data'.nodes = data.nodes
<1>1. data'.ruleVersion = data.ruleVersion /\ data'.nodes = data.nodes
  BY DEF UpdateHeartbeat, RecordReports, TypeOK, Data
<1>2. now' = now /\ Save
  BY DEF UpdateHeartbeat
<1> QED
  BY <1>1, <1>2, HeartbeatKeepsWire DEF Kept, TypeOK

\* The panel's other requests count up or change nothing the agent is told.
LEMMA PanelMoves ==
    ASSUME TypeOK, ~SaveMayFail, disk = data, PanelSteps
    PROVE  (Kept \/ Bumped) /\ disk' = data'
<1>0. data.ruleVersion \in Nat /\ now \in Nat
  BY DEF TypeOK, Data
<1>1. ASSUME NEW id \in RuleIds, NEW rule, StoreRule(id, rule)
      PROVE  Bumped /\ disk' = data'
  BY <1>1, SavedAlways DEF StoreRule, NextVersion, TypeOK, Data, Bumped
<1>2. ASSUME NEW id \in RuleIds, NEW body \in Body,
             \/ CreateRule(id, body)
             \/ EditRule(id, body)
             \/ \E state \in ApplyStates : RecreateRule(id, body, state)
      PROVE  Bumped /\ disk' = data'
  BY <1>1, <1>2 DEF CreateRule, EditRule, RecreateRule
<1>3. ASSUME NEW id \in RuleIds, DeleteRule(id)
      PROVE  Bumped /\ disk' = data'
  BY <1>3, SavedAlways DEF DeleteRule, NextVersion, TypeOK, Data, Bumped
<1>4. ASSUME NEW n \in NodeIds \ {Self}, NEW raw \in RawPolicies, RegisterNode(n, raw)
      PROVE  Kept /\ disk' = data'
  <2>1. /\ data'.ruleVersion = data.ruleVersion /\ data'.rules = data.rules
        /\ data'.nodes[Self] = data.nodes[Self]
    BY <1>4 DEF RegisterNode, TypeOK, Data
  <2> QED
    BY <1>0, <1>4, <2>1, SavedAlways DEF RegisterNode, Kept
<1>5. ASSUME NEW n \in NodeIds, NEW raw \in RawPolicies, UpdateNodeSettings(n, raw)
      PROVE  (Kept \/ Bumped) /\ disk' = data'
  <2>1. Save /\ now' = now
    BY <1>5 DEF UpdateNodeSettings
  <2>2. data' = data \/ Bumped
    BY <1>5, SettingsStep DEF Bumped
  <2>3. CASE data' = data
    BY <1>0, <2>1, <2>3, SavedAlways DEF Kept
  <2> QED
    BY <2>1, <2>2, <2>3, SavedAlways
<1>6. ASSUME NEW n \in NodeIds, DeleteNode(n)
      PROVE  Bumped /\ disk' = data'
  BY <1>6, SavedAlways DEF DeleteNode, NextVersion, TypeOK, Data, Bumped
<1>7. ASSUME NEW n \in NodeIds, NEW sent \in Reports, UpdateHeartbeat(n, sent)
      PROVE  Kept /\ disk' = data'
  BY <1>7, KeptHeartbeat, SavedAlways
<1>8. CASE SaveOther
  BY <1>0, <1>8, SavedAlways DEF SaveOther, Kept
<1>9. CASE Tick
  BY <1>0, <1>9 DEF Tick, Kept
<1> QED
  BY <1>2, <1>3, <1>4, <1>5, <1>6, <1>7, <1>8, <1>9 DEF PanelSteps

LEMMA KeptRule ==
    ASSUME TypeOK, TypeOK', Kept, NEW r \in RuleIds
    PROVE  /\ Has(data'.rules, r) <=> Has(data.rules, r)
           /\ Has(data.rules, r) =>
                 /\ data'.rules[r].node = data.rules[r].node
                 /\ data'.rules[r].enabled = data.rules[r].enabled
                 /\ Expired(data.rules[r], now) => Expired(data'.rules[r], now')
<1>1. /\ data.rules[r] \in Rule \cup {Absent} /\ data'.rules[r] \in Rule \cup {Absent}
      /\ Wire(data'.rules[r]) = Wire(data.rules[r])
  BY DEF TypeOK, Data, Kept
<1>2. \A x \in Rule : Wire(x) # Absent
  <2>1. \A x \in Rule : [x EXCEPT !.state = "pending"] \in Rule
    BY DEF Rule, ApplyStates
  <2> QED
    BY <2>1, AbsentIsNoRule DEF Wire
<1>3. Wire(Absent) = Absent
  BY DEF Wire
<1>4. Has(data'.rules, r) <=> Has(data.rules, r)
  BY <1>1, <1>2, <1>3 DEF Has
<1>5. ASSUME Has(data.rules, r)
      PROVE  /\ data'.rules[r].node = data.rules[r].node
             /\ data'.rules[r].enabled = data.rules[r].enabled
             /\ data'.rules[r].expireAt = data.rules[r].expireAt
             /\ data.rules[r].expireAt \in Times \cup {Never}
  <2>1. data.rules[r] \in Rule /\ data'.rules[r] \in Rule
    BY <1>1, <1>4, <1>5 DEF Has
  <2>2. data.rules[r].expireAt \in Times \cup {Never}
    BY <2>1 DEF Rule
  <2> QED
    BY <1>1, <2>1, <2>2, SameWire
<1>6. ASSUME Has(data.rules, r), Expired(data.rules[r], now)
      PROVE  Expired(data'.rules[r], now')
  <2>1. now \in Nat /\ now' \in Nat /\ now <= now' /\ Times \subseteq Nat
    BY StoreConstants DEF TypeOK, Kept
  <2>2. data.rules[r].expireAt # Never /\ now > data.rules[r].expireAt
    BY <1>6 DEF Expired
  <2>3. data.rules[r].expireAt \in Nat
    BY <1>5, <1>6, <2>1, <2>2
  <2>4. now' > data.rules[r].expireAt
    BY <2>1, <2>2, <2>3
  <2>5. data'.rules[r].expireAt = data.rules[r].expireAt
    BY <1>5, <1>6
  <2> QED
    BY <2>2, <2>4, <2>5 DEF Expired
<1> QED
  BY <1>4, <1>5, <1>6

LEMMA KeptRuns ==
    ASSUME TypeOK, TypeOK', Kept, UNCHANGED <<kernel, skipped>>, Runs(data.rules)
    PROVE  Runs(data.rules)'
  BY KeptRule DEF Runs, Kept

LEMMA KeptHolds ==
    ASSUME TypeOK, TypeOK', Kept, response'.rules = response.rules, Holds(data.rules)
    PROVE  Holds(data.rules)'
  BY KeptRule DEF Holds, Kept

LEMMA Versions ==
    ASSUME SyncInv, VersionsOnDisk, EqualInv
    PROVE  /\ data.ruleVersion \in Nat /\ version \in Int /\ saved.version \in Int
           /\ response.version \in Nat /\ request.version \in Int
           /\ version <= data.ruleVersion /\ saved.version <= data.ruleVersion
           /\ InHandlerOrLater => response.version <= data.ruleVersion
<1>1. /\ data.ruleVersion \in Nat /\ version \in Int /\ saved.version \in Int
      /\ response.version \in Nat /\ request.version \in Int
  BY DEF SyncInv, TypeOK, Data, AgentTypeOK
<1>2. disk.ruleVersion = data.ruleVersion
  BY DEF EqualInv
<1> QED
  BY <1>1, <1>2 DEF VersionsOnDisk, Answering, InHandlerOrLater

\* Where there are no rules there stay none.
LEMMA KeptNothing ==
    ASSUME TypeOK, TypeOK', Kept, data.rules = NoRules
    PROVE  data'.rules = NoRules
<1>1. \A r \in RuleIds : data'.rules[r] = Absent
  BY KeptRule DEF NoRules, Has
<1>2. data'.rules \in [RuleIds -> Rule \cup {Absent}]
  BY DEF TypeOK, Data
<1> QED
  BY <1>1, <1>2 DEF NoRules

\* Steps of the panel, and of a call that goes no further.
LEMMA PanelEqual ==
    ASSUME SyncInv, SyncInv', VersionsOnDisk, EqualInv, Kept \/ Bumped, disk' = data',
           UNCHANGED <<version, policy, saved, kernel, request, response, skipped>>,
           phase' \in {phase, "idle"}
    PROVE  EqualInv'
<1>0. TypeOK /\ TypeOK'
  BY DEF SyncInv
<1>1. CASE Bumped
  <2>1. /\ data'.ruleVersion # 0 /\ version # data'.ruleVersion
        /\ saved.version # data'.ruleVersion
        /\ InHandlerOrLater => response.version # data'.ruleVersion
    BY <1>1, Versions DEF Bumped
  <2>2. NothingAtZero' /\ AgentIsCurrent' /\ SavedIsCurrent'
    BY <2>1 DEF NothingAtZero, AgentIsCurrent, SavedIsCurrent
  <2>3. AnswerIsLater' /\ RequestIsOwn' /\ PolicyIsTaken'
    BY DEF EqualInv, AnswerIsLater, RequestIsOwn, PolicyIsTaken, InHandlerOrLater
  <2>4. AnswerIsCurrent' /\ RulesWereAsked'
    BY <2>1 DEF AnswerIsCurrent, RulesWereAsked, InHandlerOrLater
  <2> QED
    BY <2>2, <2>3, <2>4 DEF EqualInv
<1>2. CASE Kept
  <2>1. data'.ruleVersion = data.ruleVersion /\ data'.nodes[Self] = data.nodes[Self]
        /\ (Counted <=> Counted')
    BY <1>2 DEF Kept, Counted, Has
  <2>2. NothingAtZero'
    BY <1>0, <1>2, <2>1, KeptNothing DEF EqualInv, NothingAtZero
  <2>3. AgentIsCurrent'
    BY <1>0, <1>2, <2>1, KeptRuns DEF EqualInv, AgentIsCurrent
  <2>4. SavedIsCurrent'
    BY <2>1 DEF EqualInv, SavedIsCurrent
  <2>5. AnswerIsLater' /\ RequestIsOwn' /\ PolicyIsTaken'
    BY DEF EqualInv, AnswerIsLater, RequestIsOwn, PolicyIsTaken, InHandlerOrLater
  <2>6. AnswerIsCurrent'
    BY <1>0, <1>2, <2>1, KeptHolds DEF EqualInv, AnswerIsCurrent, InHandlerOrLater
  <2>7. RulesWereAsked'
    BY <2>1 DEF EqualInv, RulesWereAsked
  <2> QED
    BY <2>2, <2>3, <2>4, <2>5, <2>6, <2>7 DEF EqualInv
<1> QED
  BY <1>1, <1>2

\* What an agent's step that loads nothing leaves alone.
LEMMA AgentKeeps ==
    ASSUME SyncInv, SyncInv', EqualInv, UNCHANGED <<vars, kernel, skipped>>
    PROVE  /\ disk' = data' /\ (Counted <=> Counted') /\ data' = data
           /\ Runs(data.rules) => Runs(data.rules)'
           /\ response'.rules = response.rules =>
                 NothingAtZero' /\ (Holds(data.rules) => Holds(data.rules)')
<1>1. TypeOK /\ TypeOK' /\ UNCHANGED <<data, disk, now>>
  BY DEF SyncInv, vars
<1>2. Kept
  BY <1>1 DEF Kept, TypeOK
<1>3. disk' = data' /\ (Counted <=> Counted')
  BY <1>1 DEF EqualInv, Counted
<1>4. Runs(data.rules) => Runs(data.rules)'
  BY <1>1, <1>2, KeptRuns
<1>5. ASSUME response'.rules = response.rules
      PROVE  NothingAtZero' /\ (Holds(data.rules) => Holds(data.rules)')
  BY <1>1, <1>2, <1>5, KeptHolds DEF EqualInv, NothingAtZero
<1> QED
  BY <1>1, <1>3, <1>4, <1>5

LEMMA HandleFirstEqual ==
    ASSUME SyncInv, SyncInv', VersionsOnDisk, EqualInv, ~SaveMayFail, HandleFirst
    PROVE  EqualInv'
<1>1. /\ phase = "sent" /\ phase' = "half" /\ disk' = data' /\ Kept
      /\ data'.nodes = data.nodes
      /\ response' = [version |-> data.ruleVersion, policy |-> data.nodes[Self],
                      rules |-> NoRules]
      /\ UNCHANGED <<version, policy, saved, kernel, request, skipped>>
  <2>1. UpdateHeartbeat(Self, request.reports) /\ request.reports \in Reports /\ TypeOK
    BY DEF HandleFirst, SyncInv, AgentTypeOK
  <2>2. Kept /\ Save /\ data'.nodes = data.nodes
    BY <2>1, SyncFlags, KeptHeartbeat
  <2>3. disk' = data'
    BY <2>2, SavedAlways
  <2> QED
    BY <2>2, <2>3 DEF HandleFirst
<1>2. TypeOK /\ TypeOK' /\ data'.ruleVersion = data.ruleVersion /\ (Counted <=> Counted')
  BY <1>1 DEF SyncInv, Counted, Kept
<1>3. NothingAtZero'
  BY <1>1, <1>2, KeptNothing DEF EqualInv, NothingAtZero
<1>4. AgentIsCurrent' /\ SavedIsCurrent'
  BY <1>1, <1>2, KeptRuns DEF EqualInv, AgentIsCurrent, SavedIsCurrent
<1>5. AnswerIsLater'
  BY <1>1, Versions DEF AnswerIsLater
<1>6. AnswerIsCurrent' /\ RequestIsOwn' /\ PolicyIsTaken' /\ RulesWereAsked'
  BY <1>1 DEF EqualInv, AnswerIsCurrent, RequestIsOwn, PolicyIsTaken, RulesWereAsked
<1> QED
  BY <1>1, <1>3, <1>4, <1>5, <1>6 DEF EqualInv

LEMMA RulesNowHold ==
    ASSUME UNCHANGED vars, response'.rules = RulesNow
    PROVE  Holds(data.rules)'
<1>1. UNCHANGED <<data, now>>
  BY DEF vars
<1>2. ASSUME NEW r \in RuleIds
      PROVE  response'.rules[r] = IF r \in RulesForNode(data, Self, now)
                                  THEN Wire(data.rules[r]) ELSE Absent
  BY DEF RulesNow
<1> QED
  BY <1>1, <1>2 DEF Holds, RulesForNode, InForce

LEMMA HandleSecondEqual ==
    ASSUME SyncInv, SyncInv', VersionsOnDisk, EqualInv, HandleSecond
    PROVE  EqualInv'
<1>1. /\ phase = "half" /\ phase' = "answered"
      /\ UNCHANGED <<vars, version, policy, saved, kernel, request, skipped>>
      /\ response' = IF request.version # response.version
                     THEN [response EXCEPT !.rules = RulesNow] ELSE response
  BY DEF HandleSecond
<1>2. /\ response'.version = response.version /\ response'.policy = response.policy
      /\ response'.rules = IF request.version # response.version THEN RulesNow
                           ELSE response.rules
  BY <1>1 DEF SyncInv, AgentTypeOK
<1>3. /\ disk' = data' /\ (Counted <=> Counted') /\ data' = data
      /\ Runs(data.rules) => Runs(data.rules)'
  BY <1>1, AgentKeeps
<1>4. NothingAtZero'
  <2>1. data.rules = NoRules => RulesNow = NoRules
    BY DEF RulesNow, RulesForNode, NoRules, Has
  <2> QED
    BY <1>1, <1>2, <1>3, <2>1 DEF EqualInv, NothingAtZero
<1>5. AgentIsCurrent' /\ SavedIsCurrent'
  BY <1>1, <1>3 DEF EqualInv, AgentIsCurrent, SavedIsCurrent
<1>6. AnswerIsLater' /\ RequestIsOwn' /\ PolicyIsTaken' /\ RulesWereAsked'
  BY <1>1, <1>2
  DEF EqualInv, AnswerIsLater, RequestIsOwn, PolicyIsTaken, RulesWereAsked, InHandlerOrLater
<1>7. AnswerIsCurrent'
  <2>1. request.version # response.version => Holds(data.rules)'
    BY <1>1, <1>2, RulesNowHold
  <2> QED
    BY <1>1, <1>2, <1>3, <2>1 DEF EqualInv, AnswerIsCurrent, InHandlerOrLater
<1> QED
  BY <1>3, <1>4, <1>5, <1>6, <1>7 DEF EqualInv

LEMMA JoinEqual ==
    ASSUME SyncInv, SyncInv', EqualInv, ~SaveMayFail, Join
    PROVE  EqualInv'
<1>1. /\ phase' = "idle" /\ disk' = data' /\ version' \in {-1, 0}
      /\ saved'.version = version' /\ UNCHANGED <<kernel, response>>
  BY DEF Join
<1>2. data'.rules = data.rules /\ data'.ruleVersion = data.ruleVersion
  BY DEF Join, RegisterNode, SyncInv, TypeOK, Data
<1>3. Counted' => version' # data'.ruleVersion /\ saved'.version # data'.ruleVersion
  BY <1>1 DEF Counted
<1>4. NothingAtZero' /\ AgentIsCurrent' /\ SavedIsCurrent'
  BY <1>1, <1>2, <1>3 DEF EqualInv, NothingAtZero, AgentIsCurrent, SavedIsCurrent
<1>5. AnswerIsLater' /\ AnswerIsCurrent' /\ RequestIsOwn' /\ PolicyIsTaken' /\ RulesWereAsked'
  BY <1>1 DEF AnswerIsLater, AnswerIsCurrent, RequestIsOwn, PolicyIsTaken, RulesWereAsked,
              InHandlerOrLater
<1> QED
  BY <1>1, <1>4, <1>5 DEF EqualInv

LEMMA PostEqual ==
    ASSUME SyncInv, SyncInv', EqualInv, NEW c \in CallKinds, Post(c)
    PROVE  EqualInv'
<1>1. /\ phase' = "sent" /\ request'.version = version
      /\ UNCHANGED <<vars, version, policy, saved, kernel, response, skipped>>
  BY DEF Post
<1>2. /\ disk' = data' /\ (Counted <=> Counted') /\ data' = data /\ NothingAtZero'
      /\ Runs(data.rules) => Runs(data.rules)'
  BY <1>1, AgentKeeps
<1>3. AgentIsCurrent' /\ SavedIsCurrent'
  BY <1>1, <1>2 DEF EqualInv, AgentIsCurrent, SavedIsCurrent
<1>4. AnswerIsLater' /\ AnswerIsCurrent' /\ RequestIsOwn' /\ PolicyIsTaken' /\ RulesWereAsked'
  BY <1>1 DEF AnswerIsLater, AnswerIsCurrent, RequestIsOwn, PolicyIsTaken, RulesWereAsked,
              InHandlerOrLater
<1> QED
  BY <1>2, <1>3, <1>4 DEF EqualInv

LEMMA TakePolicyEqual ==
    ASSUME SyncInv, SyncInv', VersionsOnDisk, EqualInv, TakePolicy
    PROVE  EqualInv'
<1>1. /\ phase = "answered" /\ policy' = AgentPolicy(response.policy)
      /\ UNCHANGED <<vars, kernel, request, response, skipped>>
  BY DEF TakePolicy
<1>2. /\ disk' = data' /\ (Counted <=> Counted') /\ data' = data /\ NothingAtZero'
      /\ Runs(data.rules) => Runs(data.rules)'
      /\ Holds(data.rules) => Holds(data.rules)'
  BY <1>1, AgentKeeps
<1>3. AnswerIsCurrent'
  BY <1>1, <1>2 DEF EqualInv, AnswerIsCurrent, InHandlerOrLater
<1>4. RequestIsOwn' /\ PolicyIsTaken'
  <2>1. phase' \in {"apply", "idle"}
    BY DEF TakePolicy
  <2> QED
    BY <1>1, <2>1 DEF RequestIsOwn, PolicyIsTaken
<1>5. request.version = version
  BY <1>1 DEF EqualInv, RequestIsOwn
<1>6. CASE policy' = policy
  <2>1. phase' = "apply" /\ UNCHANGED <<version, saved>>
    BY <1>6 DEF TakePolicy
  <2>2. AgentIsCurrent' /\ SavedIsCurrent'
    BY <1>2, <1>6, <2>1 DEF EqualInv, AgentIsCurrent, SavedIsCurrent
  <2>3. AnswerIsLater' /\ RulesWereAsked'
    BY <1>1, <1>2, <1>5, <2>1 DEF EqualInv, AnswerIsLater, RulesWereAsked, InHandlerOrLater
  <2> QED
    BY <1>2, <1>3, <1>4, <2>2, <2>3 DEF EqualInv
<1>7. CASE policy' # policy
  <2>1. version' = -1 /\ \/ phase' = "apply" /\ saved' = [version |-> version', policy |-> policy']
                         \/ phase' = "idle" /\ saved' = saved
    BY <1>7 DEF TakePolicy, SaveConfig
  <2>2. Counted /\ response.version = data.ruleVersion =>
           version # data.ruleVersion /\ saved.version # data.ruleVersion
    BY <1>1, <1>7 DEF EqualInv, AgentIsCurrent, SavedIsCurrent, AnswerIsCurrent,
                      InHandlerOrLater
  <2>3. AgentIsCurrent'
    BY <1>2, <2>1, Versions DEF AgentIsCurrent
  <2>4. SavedIsCurrent'
    <3>1. Counted => saved.version # data.ruleVersion
      BY <1>1, <2>2, Versions DEF EqualInv, AnswerIsLater, InHandlerOrLater
    <3> QED
      BY <1>2, <2>1, <3>1, Versions DEF SavedIsCurrent
  <2>5. AnswerIsLater'
    BY <1>1, <2>1, Versions DEF AnswerIsLater, InHandlerOrLater
  <2>6. RulesWereAsked'
    BY <1>1, <1>2, <1>5, <2>2 DEF RulesWereAsked
  <2> QED
    BY <1>2, <1>3, <1>4, <2>3, <2>4, <2>5, <2>6 DEF EqualInv
<1> QED
  BY <1>6, <1>7

\* The version the agent would take is the panel's, so its own is not.
LEMMA BehindAtApply ==
    ASSUME SyncInv, VersionsOnDisk, EqualInv, phase = "apply", response.version # version
    PROVE  Counted => version # data.ruleVersion /\ saved.version # data.ruleVersion
<1>1. version # data.ruleVersion
  BY Versions DEF EqualInv, AnswerIsLater, InHandlerOrLater
<1> QED
  BY <1>1 DEF EqualInv, SavedIsCurrent

LEMMA LoadedRuns ==
    ASSUME TypeOK, TypeOK', UNCHANGED vars, Holds(data.rules),
           NEW resolved \in SUBSET Present(response.rules), kernel' = Loaded(resolved),
           skipped' = Present(response.rules) \ resolved
    PROVE  Runs(data.rules)'
<1>1. UNCHANGED <<data, now>>
  BY DEF vars
<1>2. ASSUME NEW r \in RuleIds
      PROVE  /\ kernel'[r] = IF r \in resolved THEN response.rules[r] ELSE Absent
             /\ r \in resolved \/ response.rules[r] = Absent \/ r \in skipped'
  BY DEF Loaded, Present, Has
<1> QED
  BY <1>1, <1>2 DEF Holds, Runs

LEMMA LoadedNothing ==
    ASSUME response.rules = NoRules, NEW resolved \in SUBSET Present(response.rules)
    PROVE  Loaded(resolved) = NoRules
  BY DEF Loaded, NoRules, Present, Has

LEMMA ApplyRulesEqual ==
    ASSUME SyncInv, SyncInv', VersionsOnDisk, EqualInv, ApplyRules
    PROVE  EqualInv'
<1>1. /\ phase = "apply" /\ response.version # version /\ version' = response.version
      /\ phase' = "save" /\ UNCHANGED <<vars, policy, saved, request, response>>
  BY DEF ApplyRules
<1>2. PICK resolved \in SUBSET Present(response.rules) :
         kernel' = Loaded(resolved) /\ skipped' = Present(response.rules) \ resolved
  BY DEF ApplyRules
<1>3. /\ TypeOK /\ TypeOK' /\ data' = data /\ disk' = data' /\ (Counted <=> Counted')
  BY <1>1 DEF SyncInv, EqualInv, vars, Counted
<1>4. NothingAtZero'
  BY <1>1, <1>2, <1>3, LoadedNothing DEF EqualInv, NothingAtZero
<1>5. AgentIsCurrent'
  <2> SUFFICES ASSUME Counted, response.version = data.ruleVersion
               PROVE  Runs(data.rules)' /\ policy = AgentPolicy(data.nodes[Self])
    BY <1>1, <1>3 DEF AgentIsCurrent
  <2>1. request.version # response.version
    BY <1>1 DEF EqualInv, RulesWereAsked
  <2>2. Holds(data.rules) /\ response.policy = data.nodes[Self]
    BY <1>1, <2>1 DEF EqualInv, AnswerIsCurrent, InHandlerOrLater
  <2> QED
    BY <1>1, <1>2, <1>3, <2>2, LoadedRuns DEF EqualInv, PolicyIsTaken
<1>6. SavedIsCurrent'
  BY <1>1, <1>3, BehindAtApply DEF SavedIsCurrent
<1>7. AnswerIsLater' /\ AnswerIsCurrent' /\ RequestIsOwn' /\ PolicyIsTaken' /\ RulesWereAsked'
  BY <1>1 DEF AnswerIsLater, AnswerIsCurrent, RequestIsOwn, PolicyIsTaken, RulesWereAsked,
              InHandlerOrLater
<1> QED
  BY <1>3, <1>4, <1>5, <1>6, <1>7 DEF EqualInv

LEMMA ApplyFailsEqual ==
    ASSUME SyncInv, SyncInv', VersionsOnDisk, EqualInv, ApplyFails
    PROVE  EqualInv'
<1>1. /\ phase = "apply" /\ response.version # version
      /\ phase' = "status" /\ UNCHANGED <<vars, version, policy, saved, request, response>>
  BY DEF ApplyFails
<1>2. PICK resolved \in SUBSET Present(response.rules) : kernel' \in {kernel, Loaded(resolved)}
  BY DEF ApplyFails
<1>3. data' = data /\ disk' = data' /\ (Counted <=> Counted')
  BY <1>1 DEF EqualInv, vars, Counted
<1>4. NothingAtZero'
  BY <1>1, <1>2, <1>3, LoadedNothing DEF EqualInv, NothingAtZero
<1>5. AgentIsCurrent' /\ SavedIsCurrent'
  BY <1>1, <1>3, BehindAtApply DEF AgentIsCurrent, SavedIsCurrent
<1>6. AnswerIsLater' /\ AnswerIsCurrent' /\ RequestIsOwn' /\ PolicyIsTaken' /\ RulesWereAsked'
  BY <1>1 DEF AnswerIsLater, AnswerIsCurrent, RequestIsOwn, PolicyIsTaken, RulesWereAsked,
              InHandlerOrLater
<1> QED
  BY <1>3, <1>4, <1>5, <1>6 DEF EqualInv

LEMMA SaveVersionEqual ==
    ASSUME SyncInv, SyncInv', EqualInv, SaveVersion
    PROVE  EqualInv'
<1>1. /\ saved' \in {saved, [version |-> version, policy |-> policy]}
      /\ phase' \in {"status", "idle"}
      /\ UNCHANGED <<vars, version, policy, kernel, request, response, skipped>>
  BY DEF SaveVersion, SaveConfig
<1>2. /\ disk' = data' /\ (Counted <=> Counted') /\ data' = data /\ NothingAtZero'
      /\ Runs(data.rules) => Runs(data.rules)'
  BY <1>1, AgentKeeps
<1>3. AgentIsCurrent' /\ SavedIsCurrent'
  BY <1>1, <1>2 DEF EqualInv, AgentIsCurrent, SavedIsCurrent
<1>4. AnswerIsLater' /\ AnswerIsCurrent' /\ RequestIsOwn' /\ PolicyIsTaken' /\ RulesWereAsked'
  BY <1>1 DEF AnswerIsLater, AnswerIsCurrent, RequestIsOwn, PolicyIsTaken, RulesWereAsked,
              InHandlerOrLater
<1> QED
  BY <1>2, <1>3, <1>4 DEF EqualInv

LEMMA TakeStatusEqual ==
    ASSUME SyncInv, SyncInv', VersionsOnDisk, EqualInv, TakeStatus
    PROVE  EqualInv'
<1>1. /\ phase = "answered" /\ phase' = "idle" /\ policy' \in {policy, AgentPolicy(response.policy)}
      /\ UNCHANGED <<vars, version, saved, kernel, request, response, skipped>>
  BY DEF TakeStatus
<1>2. /\ disk' = data' /\ (Counted <=> Counted') /\ data' = data /\ NothingAtZero'
      /\ Runs(data.rules) => Runs(data.rules)'
  BY <1>1, AgentKeeps
<1>3. Counted /\ version = data.ruleVersion => response.policy = data.nodes[Self]
  <2>1. version = data.ruleVersion => response.version = data.ruleVersion
    BY <1>1, Versions DEF EqualInv, AnswerIsLater, InHandlerOrLater
  <2> QED
    BY <1>1, <2>1 DEF EqualInv, AnswerIsCurrent, InHandlerOrLater
<1>4. AgentIsCurrent' /\ SavedIsCurrent'
  BY <1>1, <1>2, <1>3 DEF EqualInv, AgentIsCurrent, SavedIsCurrent
<1>5. AnswerIsLater' /\ AnswerIsCurrent' /\ RequestIsOwn' /\ PolicyIsTaken' /\ RulesWereAsked'
  BY <1>1 DEF AnswerIsLater, AnswerIsCurrent, RequestIsOwn, PolicyIsTaken, RulesWereAsked,
              InHandlerOrLater
<1> QED
  BY <1>2, <1>4, <1>5 DEF EqualInv

LEMMA StartEqual ==
    ASSUME SyncInv, SyncInv', EqualInv, MayReboot => Flags.mode = "strict",
           AgentRestart \/ HostReboot
    PROVE  EqualInv'
<1>1. /\ phase' = "idle" /\ version' = StartVersion /\ policy' = Flags
      /\ saved' = [version |-> version', policy |-> policy']
      /\ kernel' = kernel \/ (MayReboot /\ kernel' = NoRules)
      /\ UNCHANGED <<vars, request, response, skipped>>
  BY DEF AgentRestart, HostReboot, Start, SaveConfig
<1>2. data' = data /\ disk' = data' /\ (Counted <=> Counted') /\ data.ruleVersion \in Nat
  BY <1>1 DEF SyncInv, EqualInv, vars, Counted, TypeOK, Data
<1>3. NothingAtZero'
  BY <1>1, <1>2 DEF EqualInv, NothingAtZero
<1>4. ASSUME Counted, version' = data.ruleVersion
      PROVE  /\ UNCHANGED <<version, kernel>> /\ policy' = AgentPolicy(data.nodes[Self])
             /\ Runs(data.rules)'
  <2>1. version' = saved.version /\ Flags.mode # "strict" /\ Flags = saved.policy
    BY <1>1, <1>2, <1>4 DEF StartVersion
  <2>2. kernel' = kernel
    BY <1>1, <2>1
  <2>3. version = data.ruleVersion /\ saved.policy = AgentPolicy(data.nodes[Self])
    BY <1>4, <2>1 DEF EqualInv, SavedIsCurrent
  <2>4. Runs(data.rules)
    BY <1>4, <2>3 DEF EqualInv, AgentIsCurrent
  <2> QED
    BY <1>1, <1>4, <2>1, <2>2, <2>3, <2>4, AgentKeeps
<1>5. AgentIsCurrent' /\ SavedIsCurrent'
  BY <1>1, <1>2, <1>4 DEF AgentIsCurrent, SavedIsCurrent
<1>6. AnswerIsLater' /\ AnswerIsCurrent' /\ RequestIsOwn' /\ PolicyIsTaken' /\ RulesWereAsked'
  BY <1>1 DEF AnswerIsLater, AnswerIsCurrent, RequestIsOwn, PolicyIsTaken, RulesWereAsked,
              InHandlerOrLater
<1> QED
  BY <1>2, <1>3, <1>5, <1>6 DEF EqualInv

LEMMA EqualStep ==
    ASSUME SyncInv, VersionsOnDisk, EqualInv, [SyncNext]_syncVars,
           ~SaveMayFail, MayReboot => Flags.mode = "strict"
    PROVE  EqualInv'
<1>0. SyncInv' /\ TypeOK /\ disk = data /\ data.ruleVersion \in Nat /\ now \in Nat
  BY SyncInvStep DEF SyncInv, EqualInv, TypeOK, Data
<1>1. CASE HandleFirst \/ HandleSecond
  BY <1>0, <1>1, HandleFirstEqual, HandleSecondEqual
<1>2. CASE HandleLate
  <2>1. UpdateHeartbeat(Self, late) /\ late \in Reports
    BY <1>2 DEF HandleLate, SyncInv, AgentTypeOK
  <2>2. Kept /\ disk' = data'
    BY <1>0, <2>1, SyncFlags, KeptHeartbeat, SavedAlways
  <2> QED
    BY <1>0, <1>2, <2>2, PanelEqual DEF HandleLate
<1>3. CASE Join
  BY <1>0, <1>3, JoinEqual
<1>4. CASE SendHeartbeat \/ SendStatus
  <2>1. PICK c \in CallKinds : Post(c)
    BY <1>4 DEF SendHeartbeat, SendStatus, CallKinds, SyncInv, AgentTypeOK
  <2> QED
    BY <1>0, <2>1, PostEqual
<1>5. CASE TakePolicy \/ ApplyRules \/ SaveVersion \/ TakeStatus
  BY <1>0, <1>5, TakePolicyEqual, ApplyRulesEqual, SaveVersionEqual, TakeStatusEqual
<1>6. CASE ApplyFails
  BY <1>0, <1>6, ApplyFailsEqual
<1>7. CASE AgentRestart \/ HostReboot
  BY <1>0, <1>7, StartEqual
<1>8. CASE PanelSteps
  BY <1>0, <1>8, PanelMoves, PanelEqual DEF PanelSteps, agentVars
<1>9. CASE PanelRestart \/ UpToDate \/ HeartbeatFails \/ UNCHANGED syncVars
  <2>1. /\ UNCHANGED <<version, policy, saved, kernel, request, response, skipped>>
        /\ phase' \in {phase, "idle"} /\ now' = now /\ data' = data /\ disk' = data'
    BY <1>0, <1>9 DEF PanelRestart, Restart, UpToDate, HeartbeatFails, syncVars, agentVars, vars
  <2>2. Kept
    BY <1>0, <2>1 DEF Kept
  <2> QED
    BY <1>0, <2>1, <2>2, PanelEqual
<1> QED
  BY <1>1, <1>2, <1>3, <1>4, <1>5, <1>6, <1>7, <1>8, <1>9 DEF SyncNext, Handler, Agent

LEMMA EqualStart ==
    ASSUME SyncInit
    PROVE  EqualInv
<1>1. /\ data = EmptyData /\ disk = EmptyData /\ kernel = NoRules /\ response.rules = NoRules
      /\ phase = "new"
  BY DEF SyncInit, Init
<1>2. NothingAtZero /\ ~Counted
  BY <1>1 DEF NothingAtZero, Counted, EmptyData, NoRules
<1> QED
  BY <1>1, <1>2 DEF EqualInv, AgentIsCurrent, SavedIsCurrent, AnswerIsLater, AnswerIsCurrent,
                    RequestIsOwn, PolicyIsTaken, RulesWereAsked, InHandlerOrLater

LEMMA EqualVersions ==
    ASSUME SyncInv, EqualInv
    PROVE  SameVersionSameRules
<1> SUFFICES ASSUME Has(data.nodes, Self), version = data.ruleVersion
             PROVE  Runs(data.rules) /\ (version > 0 => policy = AgentPolicy(data.nodes[Self]))
  BY DEF SameVersionSameRules
<1>1. CASE data.ruleVersion = 0
  <2>1. data.rules = NoRules /\ kernel = NoRules
    BY <1>1 DEF EqualInv, NothingAtZero
  <2>2. Runs(data.rules)
    BY <2>1 DEF Runs, NoRules, Has
  <2> QED
    BY <1>1, <2>2
<1>2. CASE data.ruleVersion # 0
  <2>1. Counted
    BY <1>2 DEF Counted, SyncInv, TypeOK, Data
  <2> QED
    BY <2>1 DEF EqualInv, AgentIsCurrent
<1> QED
  BY <1>1, <1>2

\* Equal versions mean equal rules, through any interleaving of saves,
\* heartbeats, lost answers, failed Applies and restarts, as long as the
\* panel's saves do not fail and the host does not reboot in managed mode.
THEOREM EqualVersionsEqualRules ==
    ASSUME ~SaveMayFail, MayReboot => Flags.mode = "strict"
    PROVE  SyncSpec => []SameVersionSameRules
<1>1. SyncInit => VersionsOnDisk
  BY DEF SyncInit, Init, EmptyData, VersionsOnDisk, Answering
<1>2. SyncInit => EqualInv
  BY EqualStart
<1>3. SyncInv /\ VersionsOnDisk /\ [SyncNext]_syncVars => VersionsOnDisk'
  BY VersionsOnDiskStep
<1>4. SyncInv /\ VersionsOnDisk /\ EqualInv /\ [SyncNext]_syncVars => EqualInv'
  BY EqualStep
<1>5. SyncInv /\ EqualInv => SameVersionSameRules
  BY EqualVersions
<1> QED
  BY <1>1, <1>2, <1>3, <1>4, <1>5, SyncInvariance, PTL DEF SyncSpec

=============================================================================
