------------------------------ MODULE MCTraffic ------------------------------
(* Instances of Traffic for TLC. *)
EXTENDS Traffic, TLC

Symmetric == Permutations(Protocols)

=============================================================================
