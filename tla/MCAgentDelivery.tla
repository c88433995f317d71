--------------------------- MODULE MCAgentDelivery ---------------------------
(* Small instances of AgentDelivery for TLC. *)
EXTENDS AgentDelivery, TLC

(* Targets are interchangeable, and so are nonces; no run of this module    *)
(* that uses the symmetry checks liveness.                                  *)
Symmetry == Permutations(Targets) \cup Permutations(Nonces)
=============================================================================
