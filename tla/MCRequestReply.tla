---------------------------- MODULE MCRequestReply ----------------------------
(* Instances of RequestReply for TLC.                                        *)
EXTENDS RequestReply, TLC

\* No action tells two waiters, two workers or two requesters apart.
Symmetry == Permutations(Waiters) \cup Permutations(Workers)
                \cup Permutations(Requesters)
===============================================================================
