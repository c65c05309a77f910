--------------------------- MODULE MCManagerClient ---------------------------
(* Instances of ManagerClient for TLC. *)
EXTENDS ManagerClient, TLC

CONSTANTS u1, u2, p

Calls3(a, b, c) == u1 :> a @@ u2 :> b @@ p :> c

\* One user twice beside the poller, and everybody once; only the first meets
\* a panic.
MCBounds == {[calls |-> Calls3(2, 0, 1), panics |-> 1],
             [calls |-> Calls3(1, 1, 1), panics |-> 0]}

=============================================================================
