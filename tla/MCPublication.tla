---------------------------- MODULE MCPublication -----------------------------
(* Instances of Publication for TLC. *)
EXTENDS Publication, TLC

\* A root list that expires first, its successor, one that revokes the issuer, and
\* two that would bring it back, one of them under the same number.
MCRootLists ==
  << [number |-> 1, revokes |-> FALSE, until |-> 2],
     [number |-> 2, revokes |-> FALSE, until |-> 9],
     [number |-> 3, revokes |-> TRUE, until |-> 9],
     [number |-> 3, revokes |-> FALSE, until |-> 9],
     [number |-> 4, revokes |-> FALSE, until |-> 9] >>

MCBudget(certificates, ticks, asks, faults, crashes, late, nginxActs, swaps) ==
  [certificates |-> certificates, ticks |-> ticks, asks |-> asks, faults |-> faults,
   crashes |-> crashes, late |-> late, nginx |-> nginxActs, swaps |-> swaps]

Mixes == {
  MCBudget(1, 1, 1, 0, 0, 0, 0, 0), MCBudget(2, 0, 0, 0, 0, 1, 0, 0),
  MCBudget(1, 0, 1, 1, 0, 0, 0, 0), MCBudget(1, 0, 0, 1, 1, 0, 0, 0),
  MCBudget(1, 0, 1, 0, 1, 0, 0, 0), MCBudget(1, 0, 1, 0, 0, 1, 0, 0),
  MCBudget(1, 0, 1, 0, 0, 0, 1, 0), MCBudget(1, 0, 0, 0, 0, 0, 0, 2),
  MCBudget(1, 2, 0, 0, 0, 0, 0, 1)}

=============================================================================
