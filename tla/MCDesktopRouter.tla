---------------------------- MODULE MCDesktopRouter ----------------------------
(* Small computers for the model checker: each is a situation the desktop may
   find, with the requests and the mischief that matter in it. *)
EXTENDS DesktopRouter

App == [pid |-> 1, born |-> 1, role |-> "app"]
Legacy == [pid |-> 1, born |-> 1, role |-> "legacy"]
Sibling == [pid |-> 1, born |-> 1, role |-> "sibling"]
OldApp == [pid |-> 2, born |-> 2, role |-> "oldapp"]
Cli == [pid |-> 1, born |-> 1, role |-> "cli"]
Occupant(role) == [pid |-> 1, born |-> 1, role |-> role]

Quiet == [calls |-> 2, faults |-> 0, timeouts |-> 0, losses |-> 0, crashes |-> 0, exits |-> 0,
          respawns |-> 0, ops |-> {}, roles |-> {}]
Empty == [live |-> {}, dead |-> 0, bound |-> None, record |-> None, cli |-> None,
          attempt |-> None, left |-> Quiet]

\* Nothing there: the desktop starts and stops its own router.
Alone ==
  {[Empty EXCEPT !.left = [Quiet EXCEPT !.ops = {"start", "stop"}, !.calls = 4, !.faults = 2,
                                        !.losses = 1]],
   [Empty EXCEPT !.left = [Quiet EXCEPT !.ops = {"start", "stop", "status"}, !.calls = 4,
                                        !.timeouts = 2, !.faults = 1, !.crashes = 1]],
   [Empty EXCEPT !.left = [Quiet EXCEPT !.ops = {"start", "stop"}, !.calls = 3, !.respawns = 1,
                                        !.faults = 1]],
   [Empty EXCEPT !.left = [Quiet EXCEPT !.ops = {"start", "fetch"}, !.losses = 1,
                                        !.roles = {"other", "cli"}]]}

\* The last desktop crashed; its id may be another's by now.
Leftover ==
  {[Empty EXCEPT !.dead = 1, !.record = r,
                 !.left = [Quiet EXCEPT !.ops = {"start", "status"}, !.faults = 1, !.exits = 1,
                                        !.roles = {role}]]
     : r \in {Corrupt, [router |-> App, manager |-> App]}, role \in {"other", "opaque"}}

\* An earlier version left its router running.
Behind ==
  {[Empty EXCEPT !.live = {l} \union m, !.dead = 1 - Cardinality(m), !.bound = b,
                 !.record = [router |-> l, manager |-> OldApp], !.attempt = a,
                 !.left = [Quiet EXCEPT !.ops = {"migrate"}, !.faults = 1, !.crashes = 1,
                                        !.exits = 1, !.roles = {"other"}]]
     : l \in {Legacy, Sibling}, m \in {{}, {OldApp}}, b \in {None},
       a \in {None, Corrupt, [gen |-> 0, target |-> OldApp, signals |-> {"interrupt", "kill"},
                              outcome |-> "stopped"]}}
BehindBound ==
  {[w EXCEPT !.bound = w.record.router,
             !.left = [@ EXCEPT !.ops = {"start", "migrate"}, !.respawns = n, !.faults = 1 - n,
                                !.crashes = 1 - n]]
     : w \in {x \in Behind : x.attempt = None}, n \in {0, 1}}

\* The command line's router is used instead.
Beside ==
  {[Empty EXCEPT !.live = {Cli}, !.bound = Cli, !.cli = c,
                 !.left = [Quiet EXCEPT !.ops = {"start", "fetch", "inspect"}, !.exits = 1,
                                        !.roles = {"cli", "other"}]] : c \in {None, Cli, Corrupt}}

\* Another program holds the port.
Occupied ==
  {[Empty EXCEPT !.live = {Occupant(role)}, !.bound = Occupant(role),
                 !.left = [Quiet EXCEPT !.ops = {"inspect", "force"}, !.calls = 3, !.exits = 1,
                                        !.roles = {"other", "cli"}]]
     : role \in {"other", "opaque", "service"}}

MCWorlds == Alone \union Leftover \union Behind \union BehindBound \union Beside \union Occupied

================================================================================
