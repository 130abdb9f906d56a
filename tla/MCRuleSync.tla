----------------------------- MODULE MCRuleSync -----------------------------
(* Instances of RuleSync for TLC. *)
EXTENDS RuleSync

Managed == [mode |-> "managed", sshPorts |-> {22}, rollback |-> 60]
Strict == [mode |-> "strict", sshPorts |-> {22}, rollback |-> 60]

MCRawPolicies == {Managed, Strict}

=============================================================================
