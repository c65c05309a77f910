------------------------------ MODULE MCJournal -------------------------------
(* Instances of Journal for TLC. *)
EXTENDS Journal, TLC

MCBudget(faults, crashes, cuts, restores, rewinds) ==
  [faults |-> faults, crashes |-> crashes, cuts |-> cuts,
   restores |-> restores, rewinds |-> rewinds]

Everything == MCBudget(2, 1, 1, 1, 1)

=============================================================================
