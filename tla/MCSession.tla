----------------------------- MODULE MCSession -----------------------------
(* Instances of Session for TLC. *)
EXTENDS Session, TLC

Symmetric == Permutations(Users) \cup Permutations(Calls)

\* A page of everybody, the security page, and one of administrators, which is
\* also written in another way.
MCAddresses ==
    {[page |-> p, exact |-> TRUE] : p \in {"/", "/tokens", "/security"}}
        \cup {[page |-> "/tokens", exact |-> FALSE]}

=============================================================================
