----------------------------- MODULE MCMigrateGate ----------------------------
(* Instances of MigrateGate for TLC.                                         *)
EXTENDS MigrateGate, TLC

\* No action tells two replicas apart.
Symmetry == Permutations(Replicas)
===============================================================================
