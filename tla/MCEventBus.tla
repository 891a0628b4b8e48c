----------------------------- MODULE MCEventBus -----------------------------
(* EventBus on small instances. *)
EXTENDS EventBus, TLC

CONSTANTS c1, c2, u1, u2

Symmetric == Permutations(Consumers) \cup Permutations(Updates)

=============================================================================
