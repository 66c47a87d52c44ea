----------------------------- MODULE MCManagedState -----------------------------
(* Two calls of the provider at a time on one object, other writers, one controller. *)
EXTENDS ManagedState, TLC

CONSTANTS c1, c2, p1, bad, ctrl

MCClients == {c1, c2}
MCPlans == {p1, bad}
MCValidPlans == {p1}
MCHolders == {ctrl}

================================================================================
