---------------------------- MODULE MCRuleConsole ----------------------------
(* Instances of RuleConsole for TLC. *)
EXTENDS RuleConsole

MCRawPolicies == {[mode |-> "managed", sshPorts |-> {22}, rollback |-> 60]}

=============================================================================
