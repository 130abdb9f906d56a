------------------------------ MODULE RuleLoop ------------------------------
(***************************************************************************)
(* From the browser to the kernel: the rules page of RuleConsole and the   *)
(* agent of RuleSync at one panel, whose store is all that they share.     *)
(* The page's calls are handled between any two steps of the agent and of  *)
(* the heartbeat handler.                                                  *)
(***************************************************************************)
EXTENDS RuleSync, RuleConsole

loopVars == <<syncVars, pageVars>>

LoopInit == SyncInit /\ ConsoleInit

LoopNext ==
    \/ ConsoleSteps /\ UNCHANGED agentVars
    \/ SyncNext /\ UNCHANGED pageVars

LoopSpec == LoopInit /\ [][LoopNext]_loopVars

-----------------------------------------------------------------------------
(* Properties.                                                             *)

\* What the administrator reads is what the node runs: if the panel's rules are
\* at the version they had when the list on the page was read, and the agent has
\* that version, the kernel holds the rules of the list, however calls, fetches
\* and heartbeats overlapped (RulesPage, ListRules, handleAgentHeartbeat,
\* heartbeatOnce).  The page cannot tell that this is so: the rule_version in
\* the answer is read after the rules (handleRules) and may be newer.
ShownRulesRun ==
    /\ list.data # Nothing
    /\ Has(data.nodes, Self)
    /\ ShownVersion = data.ruleVersion
    /\ version = ShownVersion
    => Runs(list.data.rules)

\* To an agent the page is one more client of the panel, and to the page the
\* agent is: each behaves as its own module says.
AgentIsRuleSync == SyncSpec
PageIsRuleConsole == ConsoleSafety

=============================================================================
