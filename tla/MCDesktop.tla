------------------------------- MODULE MCDesktop -------------------------------
(* Instances of Shell and of the workbench in it: each mix has room for one part. *)
EXTENDS Shell, TLC

CONSTANT Mix   \* the mixes to check

Nothing == [found |-> Missing, creates |-> 0, picks |-> 0, deletes |-> 0, imports |-> 0, sends |-> 0,
            regens |-> 0, stops |-> 0, faults |-> 0, ends |-> 0, images |-> Images]
Quietly == [starts |-> 1, commands |-> 0, updates |-> 0, listens |-> 0, drafts |-> 0, quits |-> 0,
            moves |-> 0, polls |-> 0, router |-> {"absent"}, windows |-> FALSE]
One == {CHOOSE i \in Images : TRUE}
Found == {"absent", "legacy", "other", "unknown"}

\* The workbench while the first launch finds another router, then the shell by
\* itself, then both at an exit.
Beside == [Quietly EXCEPT !.router = {"other"}]

AllMixes == [
  delete |-> [work |-> [Nothing EXCEPT !.found = 1, !.deletes = 1, !.imports = 1, !.sends = 1, !.images = One],
              play |-> Beside],
  crash  |-> [work |-> [Nothing EXCEPT !.found = 1, !.sends = 1, !.faults = 1, !.ends = 1],
              play |-> [Beside EXCEPT !.starts = 2]],
  drop   |-> [work |-> [Nothing EXCEPT !.found = 2, !.deletes = 1, !.sends = 1, !.images = One],
              play |-> Beside],
  refer  |-> [work |-> [Nothing EXCEPT !.found = 1, !.imports = 1, !.sends = 1, !.faults = 1, !.images = One],
              play |-> Beside],
  again  |-> [work |-> [Nothing EXCEPT !.found = 1, !.sends = 1, !.regens = 1, !.stops = 1],
              play |-> Beside],
  twice  |-> [work |-> [Nothing EXCEPT !.found = 1, !.sends = 2],
              play |-> Beside],
  pick   |-> [work |-> [Nothing EXCEPT !.found = 2, !.picks = 1, !.sends = 1, !.images = One],
              play |-> Beside],
  none   |-> [work |-> [Nothing EXCEPT !.found = Missing, !.creates = 1, !.imports = 1, !.faults = 2, !.ends = 1],
              play |-> [Beside EXCEPT !.starts = 2]],
  corrupt |-> [work |-> [Nothing EXCEPT !.found = Corrupt, !.creates = 1, !.imports = 1, !.faults = 2, !.ends = 1],
              play |-> [Beside EXCEPT !.starts = 2]],
  leave  |-> [work |-> [Nothing EXCEPT !.found = Corrupt], play |-> [Quietly EXCEPT !.starts = 2, !.quits = 1]],
  newer  |-> [work |-> [Nothing EXCEPT !.found = Incompatible, !.creates = 1, !.imports = 1, !.faults = 1],
              play |-> Beside],
  quit   |-> [work |-> Nothing,
              play |-> [Quietly EXCEPT !.commands = 1, !.drafts = 1, !.quits = 2]],
  listen |-> [work |-> Nothing,
              play |-> [Quietly EXCEPT !.drafts = 1, !.listens = 1, !.quits = 2]],
  update |-> [work |-> Nothing,
              play |-> [Quietly EXCEPT !.updates = 2, !.quits = 1, !.moves = 1, !.router = Found]],
  windows |-> [work |-> Nothing,
              play |-> [Quietly EXCEPT !.updates = 1, !.quits = 1, !.drafts = 1, !.commands = 1, !.windows = TRUE]],
  polls  |-> [work |-> Nothing,
              play |-> [Quietly EXCEPT !.commands = 1, !.polls = 2, !.moves = 1, !.router = {"unknown"}]],
  force  |-> [work |-> Nothing,
              play |-> [Quietly EXCEPT !.commands = 2, !.polls = 2, !.router = {"unknown"}]],
  exit   |-> [work |-> [Nothing EXCEPT !.found = 1, !.sends = 1, !.faults = 1, !.images = One],
              play |-> [Beside EXCEPT !.starts = 2, !.quits = 1]]]

MCMixes == {AllMixes[m] : m \in Mix}
MCWorks == {m.work : m \in MCMixes}

=============================================================================
