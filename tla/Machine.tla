-------------------------------- MODULE Machine --------------------------------
(* The computer the manager runs on, as it sees it: processes, whose ids are
   used again after they end, and the port a router listens on.  Its own
   process is one of them.

   A process is named by its id and its start, as a recorded identity is; the
   role stands for the executable.  Everything here is the operating system
   and other programs, except inspect, validate and signal, which are how the
   manager looks at a recorded identity. *)
EXTENDS Naturals, FiniteSets

CONSTANTS Pids, None,
          MaxBorn   \* bound on processes ever started

ASSUME MachineAssumption == MaxBorn \in Nat /\ Pids \subseteq Nat

\* app: this desktop; legacy: a router an earlier version left behind, and
\* oldapp its manager; sibling: one of an older package that already speaks this
\* protocol; cli: the command line's router; other: any program;
\* service: one the system manages; opaque: one whose identity cannot be read
\* (Windows only).
Roles == {"app", "legacy", "sibling", "oldapp", "cli", "other", "service", "opaque"}
Process == [pid: Pids, born: 1..MaxBorn, role: Roles]

VARIABLES live,     \* the processes that run
          born,     \* how many have been started
          bound,    \* the one that listens on the port
          doomed    \* those sent a signal they have not yet obeyed

machine == <<live, born, bound, doomed>>

MachineTypeOK ==
  /\ live \subseteq Process /\ born \in 0..MaxBorn
  /\ \A p, q \in live : p.pid = q.pid => p = q
  /\ bound \in live \union {None} /\ doomed \subseteq live

Fresh(role) ==
  {[pid |-> i, born |-> born + 1, role |-> role] : i \in Pids \ {p.pid : p \in live}}

\* A process starts under any free id.
Spawn(p) ==
  /\ born < MaxBorn /\ p \in Fresh(p.role) /\ p.role \in Roles
  /\ live' = live \union {p} /\ born' = born + 1

\* A process ends, and the port it held is free.
Die(p) ==
  /\ p \in live
  /\ live' = live \ {p} /\ doomed' = doomed \ {p}
  /\ bound' = IF bound = p THEN None ELSE bound
  /\ UNCHANGED born

\* inspect(): the process that has this id now.
Holder(pid) == {p \in live : p.pid = pid}

\* validate(): a recorded identity against the process that has its id.
Validate(p) ==
  IF Holder(p.pid) = {} THEN "absent" ELSE IF p \in live THEN "genuine" ELSE "stale"

\* signal(): the whole identity is validated first.
Signal(p) == Validate(p) = "genuine" /\ doomed' = doomed \union {p}

\* start_identities_distinct(): the id belongs to another start, which can be read.
Reused(p) == Validate(p) = "stale" /\ \A q \in Holder(p.pid) : q.role # "opaque"

================================================================================
