------------------------------ MODULE MCRegistry ------------------------------
(* Instances of Registry for TLC.                                            *)
EXTENDS Registry

\* No action tells two callers, two publishers or two groups apart.
Symmetry == Permutations(Callers) \cup Permutations(Publishers)
                \cup Permutations(Groups)
===============================================================================
