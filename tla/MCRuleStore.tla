----------------------------- MODULE MCRuleStore -----------------------------
(* Instances of RuleStore for TLC. *)
EXTENDS RuleStore, TLC

\* Two policies, the second one sent in a form the panel has to normalise.
MCRawPolicies ==
    {[mode |-> "managed", sshPorts |-> {22}, rollback |-> 60],
     [mode |-> "strict_pending", sshPorts |-> {0}, rollback |-> 1]}

Symmetric == Permutations(NodeIds) \cup Permutations(RuleIds)

=============================================================================
