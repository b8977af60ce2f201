------------------------------ MODULE MCLocalBus ------------------------------
(* Instances of LocalBus for TLC.                                            *)
EXTENDS LocalBus, TLC

\* Structs, callers and publishers are interchangeable: no action tells two of
\* them apart.  Used by runs that check no liveness property.
Symmetry == Permutations(Subs) \cup Permutations(Callers)
                \cup Permutations(Publishers) \cup Permutations(Stoppers)
===============================================================================
