------------------------------ MODULE RegistrySet -----------------------------
(***************************************************************************)
(* What the registry promises to the rest of the bus: a set of references  *)
(* that grows by the one that is registered and shrinks by the one that is *)
(* deregistered.  LocalBus takes it as such a set; Registry implements it. *)
(***************************************************************************)
CONSTANT Refs

VARIABLE reg

Init == reg = {}

Register(r)   == r \notin reg /\ reg' = reg \cup {r}
Deregister(r) == r \in reg /\ reg' = reg \ {r}

Next == \E r \in Refs : Register(r) \/ Deregister(r)

Spec == Init /\ [][Next]_reg
===============================================================================
