------------------------------ MODULE RuleStore ------------------------------
(***************************************************************************)
(* The panel's rule and node store (internal/panel/store.go).              *)
(*                                                                         *)
(* Every handler locks Store.mu, changes Store.data in memory and then     *)
(* writes the whole of it to SQLite as one JSON snapshot (saveLocked).     *)
(* A handler is one atomic action.  When the write fails the handler       *)
(* answers with an error but the change stays in memory; a restart of the  *)
(* panel loads the last snapshot that was written.                         *)
(*                                                                         *)
(* What is abstracted: a rule's target, owner, name and source CIDRs (no   *)
(* decision below depends on them), node names and metrics, events.        *)
(* validateRule and the method and role checks of server.go only refuse    *)
(* requests: a refused request changes nothing and is not an action.       *)
(***************************************************************************)
EXTENDS Integers, FirewallPolicy

CONSTANTS
    NodeIds,      \* identifiers RandomID("nod") may return
    RuleIds,      \* identifiers RandomID("rul") may return or clients name
    Ports,        \* listen ports
    RawPolicies,  \* firewall settings a request may hold
    Protocols,    \* of "tcp", "udp" and "both", those in use
    Times,        \* values of expire_at
    ReportStates, \* the apply states agents report
    Absent,       \* "no entry" in a map
    Never,        \* expire_at = nil
    MaxVersion,   \* bound on RuleVersion
    MaxTime,      \* bound on the clock
    SaveMayFail   \* whether writing the snapshot may fail

ASSUME StoreConstants ==
    /\ NodeIds \cap RuleIds = {}
    /\ Protocols \subseteq {"tcp", "udp", "both"}
    /\ RawPolicies \subseteq RawPolicy
    /\ Times \subseteq Nat
    /\ MaxVersion \in Nat
    /\ MaxTime \in Nat
    /\ SaveMayFail \in BOOLEAN
    /\ Never \notin Nat
    /\ Absent \notin Policy
    /\ Absent \notin NodeIds

VARIABLES
    data,     \* Store.data: the maps in memory
    disk,     \* the snapshot last written to SQLite
    issued,   \* every identifier handed out so far: RandomID never repeats one
    now       \* the clock, read by each handler

vars == <<data, disk, issued, now>>

-----------------------------------------------------------------------------
(* The maps of Data, as functions whose value is Absent where there is no  *)
(* key.                                                                    *)

ApplyStates == {"pending"} \cup ReportStates

\* common.ForwardRule: what the conflict check, the filter of RulesForNode
\* and the status shown to the user depend on.
Rule == [node     : NodeIds,
         enabled  : BOOLEAN,
         port     : Ports,
         protocol : Protocols,
         expireAt : Times \cup {Never},
         version  : Nat,
         state    : ApplyStates]

ASSUME AbsentIsNoRule == Absent \notin Rule

\* Data.Nodes (by their firewall policy), Data.Rules, Data.RuleVersion and,
\* for Data.Counters, RuleReports, TrafficTotals, CounterHistory and
\* TargetHistory together, the node whose heartbeat last wrote a rule's entry.
Data == [nodes       : [NodeIds -> Policy \cup {Absent}],
         rules       : [RuleIds -> Rule \cup {Absent}],
         ruleVersion : Nat,
         history     : [RuleIds -> NodeIds \cup {Absent}]]

Has(map, k) == map[k] # Absent

EmptyData == [nodes       |-> [n \in NodeIds |-> Absent],
              rules       |-> [r \in RuleIds |-> Absent],
              ruleVersion |-> 0,
              history     |-> [r \in RuleIds |-> Absent]]

-----------------------------------------------------------------------------
(* Helpers of the store.  Definitions that begin with no comment of their  *)
(* own are faulty variants of the definition after them, used to test that *)
(* the properties notice.                                                  *)

\* ruleExpired
Expired(rule, t) == rule.expireAt # Never /\ t > rule.expireAt

OnlyEqualProtocolsOverlap(a, b) == a = b

\* protocolsOverlap
ProtocolsOverlap(a, b) == a = "both" \/ b = "both" \/ a = b

\* The two rules claim one port of one node.
SamePort(a, b) ==
    /\ a.node = b.node
    /\ a.port = b.port
    /\ ProtocolsOverlap(a.protocol, b.protocol)

InForce(rule, t) == rule.enabled /\ ~Expired(rule, t)

ConflictOnlyForNewRules(id, rule) ==
    /\ InForce(rule, now)
    /\ ~Has(data.rules, id)
    /\ \E e \in RuleIds : /\ Has(data.rules, e)
                          /\ InForce(data.rules[e], now)
                          /\ SamePort(data.rules[e], rule)

\* checkRulePortConflictLocked
PortConflict(id, rule) ==
    /\ InForce(rule, now)
    /\ \E e \in RuleIds \ {id} : /\ Has(data.rules, e)
                                 /\ InForce(data.rules[e], now)
                                 /\ SamePort(data.rules[e], rule)

\* RulesForNode: what is sent to an agent that asks
RulesForNode(d, n, t) ==
    {r \in RuleIds : /\ Has(d.rules, r)
                     /\ d.rules[r].node = n
                     /\ InForce(d.rules[r], t)}

\* saveLocked: the snapshot of everything in memory
Save == \/ disk' = data'
        \/ SaveMayFail /\ disk' = disk

\* RuleVersion++, under the model's bound
NextVersion == data.ruleVersion + 1
VersionLeft == data.ruleVersion < MaxVersion

-----------------------------------------------------------------------------
(* Rules.                                                                  *)

\* What a client sends: a rule whose version and state the store sets.
Body == [node : NodeIds, enabled : BOOLEAN, port : Ports,
         protocol : Protocols, expireAt : Times \cup {Never}]

ToRule(body, enabled, state) ==
    [node     |-> body.node,
     enabled  |-> enabled,
     port     |-> body.port,
     protocol |-> body.protocol,
     expireAt |-> body.expireAt,
     version  |-> NextVersion,
     state    |-> state]

\* The end of SaveRule, for a rule under the identifier id.
StoreRule(id, rule) ==
    /\ VersionLeft
    /\ Has(data.nodes, rule.node)
    /\ ~PortConflict(id, rule)
    /\ data' = [data EXCEPT !.rules[id] = rule, !.ruleVersion = NextVersion]
    /\ Save
    /\ UNCHANGED now

\* SaveRule without an identifier (POST /api/rules): a new rule is enabled
\* whatever the client says.
CreateRule(id, body) ==
    /\ id \notin issued
    /\ issued' = issued \cup {id}
    /\ StoreRule(id, ToRule(body, TRUE, "pending"))

\* SaveRule of an existing identifier (PUT /api/rules/<id>): the whole body
\* replaces the rule, which keeps its last apply state.
EditRule(id, body) ==
    /\ Has(data.rules, id)
    /\ StoreRule(id, ToRule(body, body.enabled, data.rules[id].state))
    /\ UNCHANGED issued

\* SaveRule of an identifier that has no rule (a PUT that arrives after the
\* rule's DELETE, or after a restart that lost it, or that names any other):
\* the rule comes back, with the client's apply state.
RecreateRule(id, body, state) ==
    /\ ~Has(data.rules, id)
    /\ issued' = issued \cup {id}
    /\ StoreRule(id, ToRule(body, body.enabled, state))

DeleteRuleUncounted(id) ==
    /\ Has(data.rules, id)
    /\ data' = [data EXCEPT !.rules[id] = Absent, !.history[id] = Absent]
    /\ Save
    /\ UNCHANGED <<issued, now>>

\* DeleteRule
DeleteRule(id) ==
    /\ VersionLeft
    /\ Has(data.rules, id)
    /\ data' = [data EXCEPT !.rules[id] = Absent,
                            !.history[id] = Absent,
                            !.ruleVersion = NextVersion]
    /\ Save
    /\ UNCHANGED <<issued, now>>

-----------------------------------------------------------------------------
(* Nodes.                                                                  *)

\* The second half of RegisterNode, once the token is consumed.
RegisterNode(n, raw) ==
    /\ n \notin issued
    /\ issued' = issued \cup {n}
    /\ data' = [data EXCEPT !.nodes[n] = PanelPolicy(raw)]
    /\ Save
    /\ UNCHANGED now

\* The rules of node n, whose apply state becomes pending.
PendingRules(n) ==
    [r \in RuleIds |->
        IF Has(data.rules, r) /\ data.rules[r].node = n
        THEN [data.rules[r] EXCEPT !.state = "pending"]
        ELSE data.rules[r]]

UpdateNodeSettingsUncounted(n, raw) ==
    /\ Has(data.nodes, n)
    /\ data' = [data EXCEPT !.nodes[n] = PanelPolicy(raw), !.rules = PendingRules(n)]
    /\ Save
    /\ UNCHANGED <<issued, now>>

\* UpdateNodeSettings.  A request may leave fields out: they keep the node's
\* value, which is the request that repeats it.
UpdateNodeSettings(n, raw) ==
    /\ Has(data.nodes, n)
    /\ IF PanelPolicy(raw) = data.nodes[n]
       THEN UNCHANGED data
       ELSE /\ VersionLeft
            /\ data' = [data EXCEPT !.nodes[n] = PanelPolicy(raw),
                                    !.rules = PendingRules(n),
                                    !.ruleVersion = NextVersion]
    /\ Save
    /\ UNCHANGED <<issued, now>>

EnabledRulesOf(n) ==
    {r \in RuleIds : Has(data.rules, r) /\ data.rules[r].node = n /\ data.rules[r].enabled}

\* The rules DeleteNode removes.
RulesOf(n) == {r \in RuleIds : Has(data.rules, r) /\ data.rules[r].node = n}

\* DeleteNode, with the deleteRuleLocked of every rule of the node
DeleteNode(n) ==
    /\ VersionLeft
    /\ Has(data.nodes, n)
    /\ data' = [data EXCEPT
                  !.nodes[n] = Absent,
                  !.rules = [r \in RuleIds |->
                                IF r \in RulesOf(n) THEN Absent ELSE data.rules[r]],
                  !.history = [r \in RuleIds |->
                                IF r \in RulesOf(n) THEN Absent ELSE data.history[r]],
                  !.ruleVersion = NextVersion]
    /\ Save
    /\ UNCHANGED <<issued, now>>

\* What UpdateHeartbeat writes for the reports of node n: reports maps the
\* rules the agent names to their states.  Nothing compares the rule's node
\* or version with the report's.
RecordReports(n, reports) ==
    [data EXCEPT
       !.history = [r \in RuleIds |->
                      IF r \in DOMAIN reports THEN n ELSE data.history[r]],
       !.rules = [r \in RuleIds |->
                      IF r \in DOMAIN reports /\ Has(data.rules, r)
                      THEN [data.rules[r] EXCEPT !.state = reports[r]]
                      ELSE data.rules[r]]]

\* UpdateHeartbeat
UpdateHeartbeat(n, reports) ==
    /\ Has(data.nodes, n)
    /\ data' = RecordReports(n, reports)
    /\ Save
    /\ UNCHANGED <<issued, now>>

-----------------------------------------------------------------------------
(* The rest of the process.                                                *)

\* Any other handler that saves: it writes this part of the snapshot as it is
\* in memory.
SaveOther ==
    /\ UNCHANGED <<data, issued, now>>
    /\ Save

\* OpenStore and load after the process ended: the last snapshot comes back.
\* (Defaults are filled in for maps and policies, which a snapshot written by
\* this version already has.)
Restart ==
    /\ data' = disk
    /\ UNCHANGED <<disk, issued, now>>

Tick ==
    /\ now < MaxTime
    /\ now' = now + 1
    /\ UNCHANGED <<data, disk, issued>>

Init ==
    /\ data = EmptyData
    /\ disk = EmptyData
    /\ issued = {}
    /\ now = 0

\* The reports a node may send: of rules that exist or once existed, since a
\* node may be behind the panel by any number of versions.
Reports == UNION {[S -> ReportStates] : S \in SUBSET (issued \cap RuleIds)}

Next ==
    \/ \E id \in RuleIds, body \in Body :
          \/ CreateRule(id, body)
          \/ EditRule(id, body)
          \/ \E state \in ApplyStates : RecreateRule(id, body, state)
    \/ \E id \in RuleIds : DeleteRule(id)
    \/ \E n \in NodeIds, raw \in RawPolicies :
          \/ RegisterNode(n, raw)
          \/ UpdateNodeSettings(n, raw)
    \/ \E n \in NodeIds : DeleteNode(n)
    \/ \E n \in NodeIds, reports \in Reports : UpdateHeartbeat(n, reports)
    \/ SaveOther
    \/ Restart
    \/ Tick

Spec == Init /\ [][Next]_vars


-----------------------------------------------------------------------------
(* Properties.                                                             *)

\* Both the maps in memory and the snapshot on disk have the shape of Data.
TypeOK ==
    /\ data \in Data
    /\ disk \in Data
    /\ issued \subseteq NodeIds \cup RuleIds
    /\ now \in Nat

\* The transports a rule takes its port on, as the agent renders it.
Transports(protocol) == IF protocol = "both" THEN {"tcp", "udp"} ELSE {protocol}

\* No two rules that may be sent to a node claim one port on one transport.
ConflictFree(d, t) ==
    \A n \in NodeIds : \A a, b \in RulesForNode(d, n, t) :
        /\ a # b
        /\ d.rules[a].port = d.rules[b].port
        => Transports(d.rules[a].protocol) \cap Transports(d.rules[b].protocol) = {}

\* SaveRule's conflict check keeps every node's rules free of port conflicts:
\* through creation, edits, moves to another node, enabling, expiry, a rule
\* brought back by a late PUT, and a restart from an older snapshot.
\* RenderNFTables relies on it: of two rules on one port its map keeps one.
NoPortConflict == ConflictFree(data, now) /\ ConflictFree(disk, now)

HaveNodes(d) ==
    \A r \in RuleIds : Has(d.rules, r) => Has(d.nodes, d.rules[r].node)

\* Every rule belongs to a node that exists: DeleteNode takes the node's
\* rules with it, and no save, late PUT or restart brings one back without
\* its node (SaveRule, DeleteNode, load).
RulesHaveNodes == HaveNodes(data) /\ HaveNodes(disk)

\* A rule without the fields that are not sent to change the agent's tables.
Wire(rule) == IF rule = Absent THEN Absent ELSE [rule EXCEPT !.state = "pending"]

\* A rule version stands for one set of rules and policies.  If memory and
\* the snapshot agree on the version, the panel may restart and no agent can
\* tell: what it would be sent is the same (SaveRule, DeleteRule,
\* UpdateNodeSettings and DeleteNode count up before they save).
VersionNamesRules ==
    data.ruleVersion = disk.ruleVersion =>
        /\ \A r \in RuleIds : Wire(data.rules[r]) = Wire(disk.rules[r])
        /\ \A n \in NodeIds : Has(disk.nodes, n) => data.nodes[n] = disk.nodes[n]

\* What node n is told when it asks: its policy and its enabled rules.
Served(d, n) ==
    {<<r, Wire(d.rules[r])>> : r \in {q \in RuleIds : /\ Has(d.rules, q)
                                                      /\ d.rules[q].node = n
                                                      /\ d.rules[q].enabled}}

\* What a node is to run never changes without a higher version, which is
\* all that makes the agent ask for it (handleAgentHeartbeat sends rules only
\* for another version).  The exceptions are a restart, and the passing of an
\* expiry date, which is no change of Served.
ServedChangeCountsUp ==
    [][\A n \in NodeIds :
          /\ Has(data.nodes, n) /\ Has(data'.nodes, n)
          /\ \/ data'.nodes[n] # data.nodes[n]
             \/ Served(data', n) # Served(data, n)
          => data'.ruleVersion > data.ruleVersion \/ Restart]_vars

\* Renaming a node in the console, whose form sends the firewall settings
\* along with the name, leaves the node's policy as it is: strict stays strict
\* (onSettingsSubmit of NodeManager, UpdateNodeSettings).
RenameKeepsPolicy ==
    \A n \in NodeIds : Has(data.nodes, n) =>
        PanelPolicy(SentSettings(SettingsForm(data.nodes[n]))) = data.nodes[n]

\* The documentation of node deletion (docs/PROGRESS.md:44): with a node go
\* its rules and its counter and report history, so what is kept of any rule
\* was written by a node that exists (DeleteNode, UpdateHeartbeat).
NodeHistoryRemoved ==
    \A r \in RuleIds :
        Has(data.history, r) => Has(data.nodes, data.history[r])

=============================================================================
