----------------------------- MODULE MCIdentity -----------------------------
(* Instances of Identity for TLC. *)
EXTENDS Identity, TLC

Budget(logins, renewals, ticks, requests, losses, crashes, faults) ==
  [logins |-> logins, renewals |-> renewals, ticks |-> ticks, requests |-> requests,
   losses |-> losses, crashes |-> crashes, faults |-> faults]

\* Two logins with a lost message, with a crash, or with time that passes; one
\* login that is renewed, with these, a failed write and a request.
Mixes ==
  {Budget(2, 0, 0, 0, 1, 0, 0), Budget(2, 0, 0, 0, 0, 1, 0), Budget(2, 0, 1, 0, 0, 0, 0),
   Budget(1, 1, 1, 1, 1, 0, 0), Budget(1, 1, 2, 1, 0, 0, 0), Budget(1, 1, 1, 0, 1, 0, 1)}

=============================================================================
