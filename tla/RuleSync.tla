------------------------------ MODULE RuleSync ------------------------------
(***************************************************************************)
(* How the rules of the panel reach the kernel of one node: RuleStore with *)
(* the heartbeat handler of internal/panel/server.go, and the agent of the *)
(* node Self (heartbeatOnce of internal/agent/agent.go, Apply of nft.go,   *)
(* the start of cmd/relaycore-agent/main.go).                              *)
(*                                                                         *)
(* The handler locks the store twice, once to record the heartbeat and     *)
(* read version and policy, once to select the rules; other handlers run   *)
(* between.  A call may be lost at any point; a request that the agent has *)
(* given up may still arrive.                                              *)
(*                                                                         *)
(* What is abstracted: signatures and nonces (a request is the agent's),   *)
(* metrics, counters and probes, the guard table (StrictFirewall), the     *)
(* rendering of rules (the kernel holds the rules themselves), the order   *)
(* of ports in flags (an unsorted list only makes the agent ask for rules  *)
(* more often), a registration anew after the panel forgot the node.  The  *)
(* agents of the other nodes are RuleStore's UpdateHeartbeat.              *)
(***************************************************************************)
EXTENDS RuleStore

CONSTANTS
    Self,         \* the node whose agent is modelled
    Flags,        \* the firewall settings of the agent's command line, which are
                  \* also those it registers with
    AgentMayFail, \* whether nft commands and SaveConfig may fail
    MayReboot     \* whether the host may reboot, which empties the kernel

ASSUME SyncConstants ==
    /\ Self \in NodeIds
    /\ Flags \in RawPolicies
    /\ Flags.mode \in Modes
    /\ {"applied", "error"} \subseteq ReportStates
    /\ AgentMayFail \in BOOLEAN
    /\ MayReboot \in BOOLEAN

VARIABLES
    version,  \* cfg.RuleVersion
    policy,   \* cfg's firewall fields, which NFTManager.firewall follows
    saved,    \* agent.json: the version and the policy
    kernel,   \* the rules in table ip relaycore
    reports,  \* NFTManager.lastReports: the state of each rule of the last Apply
    phase,    \* where heartbeatOnce or its call is
    call,     \* which of its calls that is
    request,  \* what the call sent
    response, \* what the panel has answered so far
    late,     \* the reports of a request the agent has given up (at most one)
    skipped   \* the rules the last Apply left out, which lastReports forgets at
              \* a restart

agentVars == <<version, policy, saved, kernel, reports, phase, call, request,
               response, late, skipped>>
syncVars == <<vars, agentVars>>

\* Not registered; between heartbeats; request on its way; between the two
\* halves of the handler; answer on its way; in Apply; in the SaveConfig after
\* it; about to send the status heartbeat.
Phases == {"new", "idle", "sent", "half", "answered", "apply", "save", "status"}

\* The heartbeat, the status heartbeat after an Apply that succeeded, and the
\* one after an Apply that failed.
CallKinds == {"heartbeat", "applied", "failed"}

\* What flags or agent.json may hold.
FlagPolicy == [mode : Modes, sshPorts : SUBSET Int, rollback : Int]

NoRules == [r \in RuleIds |-> Absent]
NoReports == [r \in {} |-> "pending"]

Present(rules) == {r \in RuleIds : Has(rules, r)}

\* The rules that are sent to the agent if it asks now.
RulesNow ==
    [r \in RuleIds |->
        IF r \in RulesForNode(data, Self, now) THEN Wire(data.rules[r]) ELSE Absent]

-----------------------------------------------------------------------------
(* The panel's handler.  Definitions that begin with no comment of their   *)
(* own are faulty variants of the one after them, used to test that the    *)
(* properties notice.                                                      *)

HandleUnsaved ==
    /\ phase = "sent"
    /\ Has(data.nodes, Self)
    /\ data' = RecordReports(Self, request.reports)
    /\ phase' = "half"
    /\ response' = [version |-> data.ruleVersion, policy |-> data.nodes[Self],
                    rules |-> NoRules]
    /\ UNCHANGED <<disk, issued, now, version, policy, saved, kernel, reports, call,
                   request, late, skipped>>

HandleUnknownNode ==
    /\ phase = "sent"
    /\ data' = RecordReports(Self, request.reports)
    /\ Save
    /\ phase' = "half"
    /\ response' = [version |-> data.ruleVersion, policy |-> data.nodes[Self],
                    rules |-> NoRules]
    /\ UNCHANGED <<issued, now, version, policy, saved, kernel, reports, call,
                   request, late, skipped>>

\* handleAgentHeartbeat up to UpdateHeartbeat, for a node the panel knows and
\* a request it accepts; an error of saveLocked is the answer.
HandleFirst ==
    /\ phase = "sent"
    /\ UpdateHeartbeat(Self, request.reports)
    /\ phase' = IF disk' = data' THEN "half" ELSE "idle"
    /\ response' = [version |-> data.ruleVersion, policy |-> data.nodes[Self],
                    rules |-> NoRules]
    /\ UNCHANGED <<version, policy, saved, kernel, reports, call, request, late, skipped>>

\* The rest of handleAgentHeartbeat: the rules, if the versions differ.
HandleSecond ==
    /\ phase = "half"
    /\ phase' = "answered"
    /\ response' = IF request.version # response.version
                   THEN [response EXCEPT !.rules = RulesNow]
                   ELSE response
    /\ UNCHANGED <<vars, version, policy, saved, kernel, reports, call, request, late, skipped>>

\* A request that outlived the agent's interest in it.
HandleLate ==
    /\ late # NoReports
    /\ UpdateHeartbeat(Self, late)
    /\ late' = NoReports
    /\ UNCHANGED <<version, policy, saved, kernel, reports, phase, call, request, response, skipped>>

-----------------------------------------------------------------------------
(* The agent.                                                              *)

\* Register and the SaveConfig after it.  (Where the answer is lost the panel
\* has a node that no agent knows: RegisterNode of another node.)  main asks
\* for rules in any case if the flags say strict.
Join ==
    /\ phase = "new"
    /\ RegisterNode(Self, Flags)
    /\ disk' = data'
    /\ phase' = "idle"
    /\ version' = IF Flags.mode = "strict" THEN -1 ELSE 0
    /\ saved' = [version |-> version', policy |-> policy]
    /\ UNCHANGED <<policy, kernel, reports, call, request, response, late, skipped>>

Post(c) ==
    /\ phase' = "sent"
    /\ call' = c
    /\ request' = [version |-> version, reports |-> reports]
    /\ UNCHANGED <<vars, version, policy, saved, kernel, reports, response, late, skipped>>

\* heartbeatOnce begins.
SendHeartbeat == phase = "idle" /\ Post("heartbeat")

\* The status heartbeat.
SendStatus == phase = "status" /\ Post(call)

\* The call fails: refused (also because the node is unknown), lost, timed
\* out.  The panel may yet get to see it.
HeartbeatFails ==
    /\ phase \in {"sent", "half", "answered"}
    /\ phase' = "idle"
    /\ late' \in IF phase = "sent" THEN {late, request.reports} ELSE {late}
    /\ UNCHANGED <<vars, version, policy, saved, kernel, reports, call, request, response, skipped>>

\* SaveConfig: whether agent.json is written
SaveConfig(ok) ==
    IF ok THEN saved' = [version |-> version', policy |-> policy']
          ELSE AgentMayFail /\ UNCHANGED saved

\* The answer to the heartbeat, up to Apply: applyPanelFirewallPolicy, and for
\* a policy that changed the version -1 and SaveConfig.
TakePolicy ==
    /\ phase = "answered"
    /\ call = "heartbeat"
    /\ policy' = AgentPolicy(response.policy)
    /\ IF policy' = policy
       THEN /\ phase' = "apply"
            /\ UNCHANGED <<version, saved>>
       ELSE /\ version' = -1
            /\ \E ok \in BOOLEAN : /\ SaveConfig(ok)
                                   /\ phase' = IF ok THEN "apply" ELSE "idle"
    /\ UNCHANGED <<vars, kernel, reports, call, request, response, late, skipped>>

UpToDate ==
    /\ phase = "apply"
    /\ response.version = version
    /\ phase' = "idle"
    /\ UNCHANGED <<vars, version, policy, saved, kernel, reports, call, request,
                   response, late, skipped>>

\* The table rendered from the rules of the answer whose target resolved.
Loaded(resolved) ==
    [r \in RuleIds |-> IF r \in resolved THEN response.rules[r] ELSE Absent]

\* Apply succeeds.  A rule whose target does not resolve is left out and
\* reported.
ApplyRules ==
    /\ phase = "apply"
    /\ response.version # version
    /\ \E resolved \in SUBSET Present(response.rules) :
          /\ kernel' = Loaded(resolved)
          /\ reports' = [r \in Present(response.rules) |->
                          IF r \in resolved THEN "applied" ELSE "error"]
          /\ skipped' = Present(response.rules) \ resolved
    /\ version' = response.version
    /\ phase' = "save"
    /\ call' = "applied"
    /\ UNCHANGED <<vars, policy, saved, request, response, late>>

ApplyFailsCounted ==
    /\ AgentMayFail
    /\ phase = "apply"
    /\ response.version # version
    /\ \E resolved \in SUBSET Present(response.rules) : kernel' \in {kernel, Loaded(resolved)}
    /\ reports' = [r \in Present(response.rules) |-> "error"]
    /\ version' = response.version
    /\ phase' = "status"
    /\ call' = "failed"
    /\ UNCHANGED <<vars, policy, saved, request, response, late, skipped>>

\* Apply fails, before or after it has loaded the rules.
ApplyFails ==
    /\ AgentMayFail
    /\ phase = "apply"
    /\ response.version # version
    /\ \E resolved \in SUBSET Present(response.rules) : kernel' \in {kernel, Loaded(resolved)}
    /\ reports' = [r \in Present(response.rules) |-> "error"]
    /\ phase' = "status"
    /\ call' = "failed"
    /\ UNCHANGED <<vars, version, policy, saved, request, response, late, skipped>>

\* SaveConfig of the new version
SaveVersion ==
    /\ phase = "save"
    /\ UNCHANGED <<version, policy>>
    /\ \E ok \in BOOLEAN : /\ SaveConfig(ok)
                           /\ phase' = IF ok THEN "status" ELSE "idle"
    /\ UNCHANGED <<vars, kernel, reports, call, request, response, late, skipped>>

\* The answer to the status heartbeat: of it only the policy is taken, and
\* neither saved nor applied.
TakeStatus ==
    /\ phase = "answered"
    /\ call # "heartbeat"
    /\ phase' = "idle"
    /\ policy' = IF call = "applied" THEN AgentPolicy(response.policy) ELSE policy
    /\ UNCHANGED <<vars, version, saved, kernel, reports, call, request, response, late, skipped>>

SavedVersion == saved.version

\* main: the rules are asked for if the flags say strict or differ from
\* agent.json (firewallConfigSignature).
StartVersion == IF Flags.mode = "strict" \/ Flags # saved.policy THEN -1 ELSE saved.version

\* main and Run up to the first heartbeat, of an agent that stopped or crashed
Start ==
    /\ phase # "new"
    /\ version' = StartVersion
    /\ policy' = Flags
    /\ SaveConfig(TRUE)
    /\ reports' = NoReports
    /\ phase' = "idle"
    /\ late' \in IF phase = "sent" THEN {late, request.reports} ELSE {late}
    /\ UNCHANGED <<vars, call, request, response, skipped>>

AgentRestart == Start /\ UNCHANGED kernel

\* The host restarts: the kernel's tables are gone too.
HostReboot == MayReboot /\ Start /\ kernel' = NoRules

-----------------------------------------------------------------------------
(* The panel's other handlers, and its restart, which ends the handler of  *)
(* the agent's call.                                                       *)

PanelSteps ==
    /\ \/ \E id \in RuleIds, body \in Body :
             \/ CreateRule(id, body)
             \/ EditRule(id, body)
             \/ \E state \in ApplyStates : RecreateRule(id, body, state)
       \/ \E id \in RuleIds : DeleteRule(id)
       \/ \E n \in NodeIds \ {Self}, raw \in RawPolicies : RegisterNode(n, raw)
       \/ \E n \in NodeIds, raw \in RawPolicies : UpdateNodeSettings(n, raw)
       \/ \E n \in NodeIds : DeleteNode(n)
       \/ \E n \in NodeIds \ {Self}, sent \in Reports : UpdateHeartbeat(n, sent)
       \/ SaveOther
       \/ Tick
    /\ UNCHANGED agentVars

PanelRestart ==
    /\ Restart
    /\ phase' = IF phase = "half" THEN "idle" ELSE phase
    /\ UNCHANGED <<version, policy, saved, kernel, reports, call, request, response, late, skipped>>

SyncInit ==
    /\ Init
    /\ version = 0
    /\ policy = Flags
    /\ saved = [version |-> 0, policy |-> Flags]
    /\ kernel = NoRules
    /\ reports = NoReports
    /\ phase = "new"
    /\ call = "heartbeat"
    /\ request = [version |-> 0, reports |-> NoReports]
    /\ response = [version |-> 0, policy |-> PanelPolicy(Flags), rules |-> NoRules]
    /\ late = NoReports
    /\ skipped = {}

Handler == HandleFirst \/ HandleSecond

Agent ==
    \/ SendHeartbeat
    \/ SendStatus
    \/ TakePolicy
    \/ UpToDate
    \/ ApplyRules
    \/ SaveVersion
    \/ TakeStatus

SyncNext ==
    \/ Handler
    \/ HandleLate
    \/ Join
    \/ Agent
    \/ HeartbeatFails
    \/ ApplyFails
    \/ AgentRestart
    \/ HostReboot
    \/ PanelSteps
    \/ PanelRestart

SyncSpec == SyncInit /\ [][SyncNext]_syncVars

\* The agent's loop runs (its ticker), and among the heartbeats, saves and
\* Applies that fail and the restarts there are always again ones that
\* succeed: each step of a heartbeat that is possible again and again is
\* taken.  Of the panel's users nothing is assumed.
FairSyncSpec ==
    /\ SyncSpec
    /\ WF_syncVars(SendHeartbeat)
    /\ SF_syncVars(HandleFirst /\ phase' = "half")
    /\ SF_syncVars(HandleSecond)
    /\ SF_syncVars(TakePolicy /\ phase' = "apply")
    /\ SF_syncVars(ApplyRules)
    /\ WF_syncVars(UpToDate)
    /\ WF_syncVars(SaveVersion)
    /\ WF_syncVars(SendStatus)
    /\ WF_syncVars(TakeStatus)

-----------------------------------------------------------------------------
(* Properties.                                                             *)

\* The agent's side of the state: versions are numbers or the -1 that asks for
\* rules in any case, and every report is of a rule the panel once stored.
AgentTypeOK ==
    /\ version \in Nat \cup {-1}
    /\ policy \in FlagPolicy
    /\ saved \in [version : Nat \cup {-1}, policy : FlagPolicy]
    /\ kernel \in [RuleIds -> Rule \cup {Absent}]
    /\ reports \in Reports
    /\ phase \in Phases
    /\ call \in CallKinds
    /\ request \in [version : Nat \cup {-1}, reports : Reports]
    /\ response \in [version : Nat, policy : Policy,
                     rules : [RuleIds -> Rule \cup {Absent}]]
    /\ late \in Reports
    /\ skipped \subseteq RuleIds

\* The kernel holds what node Self is to run: the enabled rules of the panel,
\* each exactly as it was saved, where neither its expiry nor a target that
\* did not resolve kept it out.
Runs(rules) ==
    \A r \in RuleIds :
        IF Has(rules, r) /\ rules[r].node = Self /\ rules[r].enabled
        THEN \/ kernel[r] = Wire(rules[r])
             \/ /\ kernel[r] = Absent
                /\ \/ Expired(rules[r], now)
                   \/ r \in skipped
        ELSE kernel[r] = Absent

\* Equal versions mean equal rules.  The version is all that agent and panel
\* compare: if the agent's is the panel's, the kernel holds the panel's rules
\* and the policy is the panel's, whatever interleaving of saves, heartbeats,
\* lost answers, failed Applies and restarts led there (handleAgentHeartbeat
\* takes the version before the rules, heartbeatOnce sets it after Apply).
SameVersionSameRules ==
    Has(data.nodes, Self) /\ version = data.ruleVersion =>
        /\ Runs(data.rules)
        /\ version > 0 => policy = AgentPolicy(data.nodes[Self])

\* To the panel's store a heartbeat is one more request: what the handlers do
\* to it is what RuleStore allows, so that what holds there holds here.
PanelIsRuleStore == Spec

\* The panel's changes arrive: once its version stops changing (here at the
\* latest at MaxVersion), the agent comes to hold that version and the kernel
\* its rules, through lost answers, failed Applies and restarts
\* (heartbeatOnce, handleAgentHeartbeat, main).
RulesArrive ==
    []<>(phase # "new" /\ Has(data.nodes, Self)
           => version = data.ruleVersion /\ Runs(data.rules))

\* Saving a rule gives the rules a version that the agent does not hold yet,
\* so that its next heartbeat fetches them (RuleForm.tsx:61): also after saves
\* that failed and a restart that took the version back, since no answer
\* leaves before the snapshot with its version is written (UpdateHeartbeat,
\* handleAgentHeartbeat, SaveRule, load).
SavedRulesAreNews ==
    [][data'.ruleVersion > data.ruleVersion => version # data'.ruleVersion]_syncVars

=============================================================================
