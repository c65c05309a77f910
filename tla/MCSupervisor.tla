---------------------------- MODULE MCSupervisor ----------------------------
(* Instances of Supervisor for TLC. *)
EXTENDS Supervisor, TLC

CONSTANTS c1, c2

\* One caller who gives up and goes on, and two of them.
MCTurns == {c1 :> 3 @@ c2 :> 0, c1 :> 1 @@ c2 :> 1}

=============================================================================
