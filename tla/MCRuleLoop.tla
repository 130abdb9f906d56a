----------------------------- MODULE MCRuleLoop -----------------------------
(* Instances of RuleLoop for TLC. *)
EXTENDS RuleLoop

Strict == [mode |-> "strict", sshPorts |-> {22}, rollback |-> 60]

MCRawPolicies == {Strict}

=============================================================================
