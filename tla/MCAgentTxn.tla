----------------------------- MODULE MCAgentTxn -----------------------------
(* Instances of AgentTxn for TLC. *)
EXTENDS AgentTxn, TLC

Symmetry == Permutations(Contents)

=============================================================================
