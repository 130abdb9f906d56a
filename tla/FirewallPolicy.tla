--------------------------- MODULE FirewallPolicy ---------------------------
(***************************************************************************)
(* The firewall policy of a node, as the panel normalises it (store.go)    *)
(* and as the agent normalises what it receives (agent/nft.go).  A raw     *)
(* policy is what a request or a flag holds: any mode, any set of port     *)
(* numbers, any number of seconds.  The lists of ports are sorted and free *)
(* of duplicates once normalised, so they are sets here; modes are written *)
(* in lower case without the spaces around them, which both sides remove.  *)
(***************************************************************************)
EXTENDS Integers

Modes == {"managed", "strict"}

PortNumbers == 1..65535

Policy == [mode     : Modes,
           sshPorts : (SUBSET PortNumbers) \ {{}},
           rollback : 15..600]

RawPolicy == [mode : STRING, sshPorts : SUBSET Int, rollback : Int]

-----------------------------------------------------------------------------
(* The panel.                                                              *)

\* normalizeDesiredFirewallMode
PanelMode(mode) ==
    IF mode \in {"strict", "strict_pending", "strict-pending"}
    THEN "strict" ELSE "managed"

\* normalizePanelPorts; the agent's normalizePorts is the same
NormalPorts(ports) ==
    LET valid == ports \cap PortNumbers
    IN  IF valid = {} THEN {22} ELSE valid

\* clampFirewallRollbackSeconds; normalizeFirewallOptions does the same to a
\* duration
ClampSeconds(s) ==
    IF s <= 0 THEN 60 ELSE IF s < 15 THEN 15 ELSE IF s > 600 THEN 600 ELSE s

\* A faulty variant of PanelPolicy, for testing the properties.
PolicyAsSent(raw) == raw

\* nodeFirewallPolicy
PanelPolicy(raw) ==
    [mode     |-> PanelMode(raw.mode),
     sshPorts |-> NormalPorts(raw.sshPorts),
     rollback |-> ClampSeconds(raw.rollback)]

-----------------------------------------------------------------------------
(* The agent.                                                              *)

\* normalizeFirewallOptions
AgentPolicy(raw) ==
    [mode     |-> IF raw.mode = "strict" THEN "strict" ELSE "managed",
     sshPorts |-> NormalPorts(raw.sshPorts),
     rollback |-> ClampSeconds(raw.rollback)]

-----------------------------------------------------------------------------
(* The settings form of the console (NodeManager.tsx).                     *)

\* A faulty variant of SettingsForm: the select starts at its first option.
SettingsFormManaged(policy) ==
    [mode     |-> "managed",
     sshPorts |-> policy.sshPorts,
     rollback |-> policy.rollback]

\* What the fields hold when the form opens for a node.
SettingsForm(policy) ==
    [mode     |-> policy.mode,
     sshPorts |-> IF policy.sshPorts = {} THEN {22} ELSE policy.sshPorts,
     rollback |-> IF policy.rollback = 0 THEN 60 ELSE policy.rollback]

\* onSettingsSubmit: all fields are sent, whichever of them was changed.
SentSettings(fields) ==
    [mode     |-> fields.mode,
     sshPorts |-> NormalPorts(fields.sshPorts),
     rollback |-> IF fields.rollback = 0 THEN 60 ELSE fields.rollback]

=============================================================================
