--------------------------- MODULE MCTokenConsole ---------------------------
(* Instances of TokenConsole for TLC. *)
EXTENDS TokenConsole, TLC

Symmetric == Permutations(TokenIds) \cup Permutations(NodeIds) \cup Permutations(Registrars)

=============================================================================
