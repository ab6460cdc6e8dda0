--------------------------- MODULE MCExeResolver ---------------------------
(* The exe resolver for TLC: ports and processes are interchangeable.      *)
EXTENDS ExeResolver, TLC

Symmetry == Permutations(Ports) \union Permutations(Processes)
=============================================================================
