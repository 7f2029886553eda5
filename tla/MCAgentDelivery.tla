-------------------------- MODULE MCAgentDelivery --------------------------
(* Two corrections of one fact, a snapshot runner and faults, for TLC. *)
EXTENDS AgentDelivery, TLC

Symmetry == Permutations(Deliveries)
=============================================================================
