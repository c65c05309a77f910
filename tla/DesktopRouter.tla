----------------------------- MODULE DesktopRouter -----------------------------
(* The desktop's own router beside everything else that may hold its port: the
   manager's sessions start and stop it, discover what else is there, stop a
   router an earlier version left behind, end an occupant the user confirmed,
   and send the API key to a router they trust.

   Between two looks at the computer anything may happen: processes end, their
   ids are used again, the port changes hands, another writes the state file,
   the desktop crashes.  Each look (a read, a probe, a validation) and each
   change is a step of its own.

   The supervisor is the switch it implements (RouterSwitch): commands are
   queued, each takes effect in one step, and one whose caller gave up takes
   effect all the same.  A session the client replaced goes on with its call
   beside the new session; the backend is shared, the failure latch and the
   occupant's token are each session's own. *)
EXTENDS Machine, Sequences

CONSTANTS Corrupt,    \* a file that cannot be read
          Sessions,   \* 1..n, in the order they are created
          Worlds      \* initial computers and budgets: one is chosen at the start

ASSUME SessionsAssumption ==
         Sessions = 1..Cardinality(Sessions) /\ Sessions # {} /\ IsFiniteSet(Sessions)

VARIABLES self,       \* the desktop's process, if it runs
          on,         \* its supervisor holds the port
          queue,      \* commands sent to the supervisor
          record,     \* desktop-state.json
          cli,        \* the command line's state file
          attempt,    \* legacy-migration.json
          current,    \* the session the client uses
          at,         \* what each session is doing
          latch,      \* its latched startup failure
          token,      \* its occupant token
          left,       \* what is left of the budget
          signalled, forced, keys, tokens,  \* history
          mishaps     \* what the promises except: a session replaced in the middle of a
                      \* call, a call given up, a file that could not be removed

files == <<record, cli, attempt>>
switch == <<on, queue>>
history == <<signalled, forced, keys, tokens, mishaps>>
vars == <<machine, self, switch, files, current, at, latch, token, left, history>>

Ops == {"start", "stop", "status", "migrate", "inspect", "force", "fetch"}
Record == [router: Process, manager: Process]
Own == [router |-> self, manager |-> self]
Known(r) == r \notin {None, Corrupt}

\* Routers that report this deployment and protocol; those that report the
\* personal certificate too; those that report anything.
Same == {"app", "cli", "sibling"}
Personal == {"app", "cli"}
Speaks == Same \union {"legacy"}

Free == [op |-> "none", pc |-> "idle", rec |-> None, cli |-> None, seen |-> None,
         open |-> FALSE, class |-> "none", trust |-> None, answer |-> "none", given |-> 0,
         tried |-> None, round |-> 1, reply |-> "none"]

Attempt == [gen: {0, 1}, target: Process, signals: SUBSET {"interrupt", "kill"},
            outcome: {"pending", "stopped", "timeout", "changed", "refused", "reoccupied"}]

TypeOK ==
  /\ MachineTypeOK
  /\ self \in live \union {None} /\ on \in BOOLEAN
  /\ on => bound = self /\ self # None
  /\ \A i \in DOMAIN queue : queue[i].cmd \in {"start", "stop"} /\ queue[i].by \in Sessions \union {0}
  /\ record \in Record \union {None, Corrupt} /\ cli \in Process \union {None, Corrupt}
  /\ attempt \in Attempt \union {None, Corrupt}
  /\ current \in Sessions
  /\ \A s \in Sessions :
       /\ at[s].op \in Ops \union {"none"} /\ at[s].rec \in Record \union {None, Corrupt}
       /\ at[s].trust \in Process \union {None}
       /\ latch[s] \in {"none", "reconcile", "other"}
       /\ token[s] # None => token[s].id \in 1..tokens /\ token[s].target \in Process
  /\ mishaps \subseteq {"replaced", "given up", "kept"}

\* The computers a desktop may find: no process has the id of another, and what
\* the files name is, or was, a process of this computer.
ASSUME WorldsAssumption ==
  \A w \in Worlds :
    LET old == Cardinality(w.live) + w.dead
        Old == {p \in Process : p.born <= old}
    IN /\ old \in 0..MaxBorn
       /\ w.live \subseteq Old /\ \A p, q \in w.live : p.pid = q.pid => p = q
       /\ w.bound \in w.live \union {None}
       /\ w.record \in [router: Old, manager: Old] \union {None, Corrupt}
       /\ w.cli \in Old \union {None, Corrupt} /\ w.attempt \in Attempt \union {None, Corrupt}

\* A file that is missing or damaged is told from what it may hold.
ASSUME FilesAssumption ==
  None # Corrupt /\ {None, Corrupt} \intersect (Process \union Record \union Attempt) = {}

Init ==
  \E w \in Worlds :
    /\ live = w.live /\ born = Cardinality(w.live) + w.dead
    /\ bound = w.bound /\ doomed = {}
    /\ self = None /\ on = FALSE /\ queue = <<>>
    /\ record = w.record /\ cli = w.cli /\ attempt = w.attempt
    /\ current = 1 /\ at = [s \in Sessions |-> Free]
    /\ latch = [s \in Sessions |-> "none"] /\ token = [s \in Sessions |-> None]
    /\ left = w.left
    /\ signalled = {} /\ forced = {} /\ keys = {} /\ tokens = 0 /\ mishaps = {}

Spend(what) == left[what] > 0 /\ left' = [left EXCEPT ![what] = @ - 1]
Mishap(what) == mishaps' = mishaps \union {what}

\* A removal whose error nobody looks at.
TryRemove ==
  \/ record' = None /\ UNCHANGED <<left, mishaps>>
  \/ Spend("faults") /\ Mishap("kept") /\ UNCHANGED record

-----------------------------------------------------------------------------
(* Steps of a call. *)

At(s, pc) == at[s].pc = pc
Set(s, new) == at' = [at EXCEPT ![s] = new]
Goto(s, pc) == Set(s, [at[s] EXCEPT !.pc = pc])
Reply(s, code) == Set(s, [Free EXCEPT !.op = at[s].op, !.reply = code])

\* An error of start: staged errors are latched, for router.start and
\* router.migrate_legacy; the trusted channel only passes them on.
Refuse(s, code, stage) ==
  /\ Reply(s, code)
  /\ latch' = IF stage # "none" /\ at[s].op # "fetch" THEN [latch EXCEPT ![s] = stage] ELSE latch

\* start has succeeded: with this router or an external one.
Started(s, code) ==
  IF at[s].op = "fetch"
  THEN /\ Set(s, [at[s] EXCEPT !.pc = "ask", !.round = 3]) /\ UNCHANGED latch
  ELSE /\ Reply(s, code) /\ latch' = [latch EXCEPT ![s] = "none"]

\* The client's next request, to its session.
Call(s, op) ==
  /\ s = current /\ self # None /\ At(s, "idle") /\ op \in left.ops
  /\ Spend("calls")
  /\ \E t \in IF op = "force" THEN 1..tokens ELSE {0} :
       Set(s, [Free EXCEPT !.op = op, !.given = t,
                           !.pc = CASE op = "start" -> "begin"
                                    [] op = "stop" -> "halt"
                                    [] op = "migrate" -> "prepare"
                                    [] OTHER -> "ask"])
  /\ UNCHANGED <<machine, self, switch, files, current, latch, token, history>>

-----------------------------------------------------------------------------
(* Starting the router. *)

\* start(): already bound, or the recorded state is read.
Begin(s) ==
  /\ At(s, "begin")
  /\ \/ on /\ Started(s, "ok")
     \/ ~ on /\ record = Corrupt /\ Refuse(s, "stale", "reconcile")
     \/ /\ ~ on /\ record # Corrupt /\ UNCHANGED latch
        /\ Set(s, [at[s] EXCEPT !.rec = record, !.pc = IF record = None THEN "files" ELSE "vet"])
  /\ UNCHANGED <<machine, self, switch, files, current, token, left, history>>

\* A record of an earlier lineage whose manager is gone and whose router runs.
Migratable(r) ==
  /\ r.router.role \in {"legacy", "sibling"}
  /\ Validate(r.manager) = "absent" /\ Validate(r.router) = "genuine"

\* reconcile_recorded_state(): the desktop's own record is removed; what becomes of
\* another takes further looks.
Vet(s) ==
  LET r == at[s].rec
      status == Validate(r.router)
  IN /\ At(s, "vet")
     /\ \/ status = "genuine" /\ r = Own /\ TryRemove /\ Goto(s, "files")
        \/ /\ ~ (status = "genuine" /\ r = Own)
           /\ Goto(s, IF status = "genuine" THEN "kin" ELSE IF status = "absent" THEN "remove"
                      ELSE "stale")
           /\ UNCHANGED <<record, left, mishaps>>
     /\ UNCHANGED <<machine, self, switch, cli, attempt, current, latch, token, signalled, forced,
                    keys, tokens>>

\* Another desktop's record, of a router that ran.
Kin(s) ==
  /\ At(s, "kin")
  /\ Refuse(s, IF Migratable(at[s].rec) THEN "legacy" ELSE "already", "reconcile")
  /\ UNCHANGED <<machine, self, switch, files, current, token, left, history>>

\* Proof that the recorded process has ended: none has its id by now, or, with the
\* port idle, one whose different start can be read.
VetStale(s) ==
  LET p == at[s].rec.router
  IN /\ \/ At(s, "stale") /\ Goto(s, IF Validate(p) = "absent" THEN "remove" ELSE "port")
        \/ At(s, "port") /\ Goto(s, IF bound = None THEN "reused" ELSE "files")
        \/ At(s, "reused") /\ Goto(s, IF Reused(p) THEN "remove" ELSE "files")
     /\ UNCHANGED <<machine, self, switch, files, current, latch, token, left, history>>

RemoveRecord(s) ==
  /\ At(s, "remove")
  /\ \/ record' = None /\ Goto(s, "files") /\ UNCHANGED <<latch, left>>
     \/ Spend("faults") /\ Refuse(s, "stale", "reconcile") /\ UNCHANGED record
  /\ UNCHANGED <<machine, self, switch, cli, attempt, current, token, history>>

-----------------------------------------------------------------------------
(* Discovery: the files, then the port, then the processes the files name. *)

\* Other calls ask the supervisor first; its router may fail its own probe.
Ask(s) ==
  /\ At(s, "ask")
  /\ \/ /\ on
        /\ \E c \in {"desktop", "degraded"} :
             Set(s, [at[s] EXCEPT !.class = c, !.rec = Own, !.seen = self, !.pc = "decide"])
     \/ ~ on /\ Goto(s, "files")
  /\ UNCHANGED <<machine, self, switch, files, current, latch, token, left, history>>

ReadFiles(s) ==
  /\ At(s, "files")
  /\ Set(s, [at[s] EXCEPT !.rec = record, !.cli = cli, !.pc = "probe"])
  /\ UNCHANGED <<machine, self, switch, files, current, latch, token, left, history>>

\* The port, and GET /version of whoever holds it.
Probe(s) ==
  /\ At(s, "probe")
  /\ Set(s, [at[s] EXCEPT !.pc = "judge", !.open = bound # None,
                          !.seen = IF bound # None /\ bound.role \in Speaks
                                   THEN bound ELSE None])
  /\ UNCHANGED <<machine, self, switch, files, current, latch, token, left, history>>

\* validate(), of what a file may hold.
Status(p) == IF p = None THEN "absent" ELSE IF p = Corrupt THEN "stale" ELSE Validate(p)
RouterOf(r) == IF Known(r) THEN r.router ELSE r
ManagerOf(r) == IF Known(r) THEN r.manager ELSE None

\* The port is free: what the files say is left over, or not yet there.
ClosedClass(r, c, starting) ==
  LET router == Status(RouterOf(r))
      manager == Status(ManagerOf(r))
  IN IF \/ router = "stale"
        \/ (router = "genuine" /\ manager # "genuine")
        \/ (Status(c) = "stale" /\ ~ starting)
     THEN "stale"
     ELSE IF Known(r) /\ router = "genuine" /\ r.router.role \in Same THEN "degraded"
     ELSE IF Status(c) = "genuine" THEN "degraded cli"
     ELSE "absent"

\* Somebody holds the port: /version names an id (v is who answered).
OpenClass(r, c, v) ==
  LET router == Status(RouterOf(r))
      manager == Status(ManagerOf(r))
      names(p) == Known(p) /\ p.pid = v.pid
      says == v.role \in Same
  IN IF v = None THEN "unknown"
     ELSE IF /\ says /\ Known(r) /\ names(r.router) /\ r.router.role = "app"
             /\ router = "genuine" /\ manager = "genuine"
     THEN (IF v.role \in Personal THEN "desktop" ELSE "unknown")
     ELSE IF says /\ names(c) /\ Status(c) = "genuine"
     THEN (IF v.role \in Personal THEN "external" ELSE "unknown")
     ELSE IF /\ Known(r) /\ names(r.router) /\ router = "genuine"
             /\ r.router.role # "app"
     THEN "legacy"
     ELSE IF /\ says
             /\ \/ /\ Known(r) /\ names(r.router)
                   /\ router = "stale" \/ (router = "genuine" /\ manager # "genuine")
                \/ names(c) /\ Status(c) = "stale"
     THEN "stale"
     ELSE "unknown"

\* The trusted channel discovers, may start the router, and discovers again.
Starting(s) == at[s].op \in {"start", "migrate"} \/ at[s].round = 2

Class(s) ==
  IF at[s].open THEN OpenClass(at[s].rec, at[s].cli, at[s].seen)
  ELSE ClosedClass(at[s].rec, at[s].cli, Starting(s))

\* reconcile_port(): go on when the port is free, use the command line's router.
JudgePort(s) ==
  LET class == Class(s)
      migratable == Known(at[s].rec) /\ Migratable(at[s].rec)
  IN /\ At(s, "judge") /\ Starting(s)
     /\ \/ class = "absent" /\ Goto(s, "log") /\ UNCHANGED latch
        \/ class = "external" /\ Started(s, "external")
        \/ class = "degraded cli" /\ Refuse(s, "degraded", "none")
        \/ class \in {"degraded", "desktop"} /\ Refuse(s, "already", "reconcile")
        \/ class = "unknown" /\ Refuse(s, "occupied", "none")
        \/ class = "stale" /\ Refuse(s, "stale", "reconcile")
        \/ class = "legacy" /\ Refuse(s, IF migratable THEN "legacy" ELSE "already", "reconcile")
     /\ UNCHANGED <<machine, self, switch, files, current, token, left, history>>

\* What the other calls learn.
Judge(s) ==
  /\ At(s, "judge") /\ ~ Starting(s)
  /\ Set(s, [at[s] EXCEPT !.class = Class(s), !.pc = "decide"])
  /\ UNCHANGED <<machine, self, switch, files, current, latch, token, left, history>>

-----------------------------------------------------------------------------
(* The supervisor, its callers, and the state file. *)

\* The session's log file, then the command to start.
Launch(s) ==
  /\ At(s, "log")
  /\ \/ /\ queue' = Append(queue, [cmd |-> "start", by |-> s])
        /\ Goto(s, "binding") /\ UNCHANGED <<latch, left>>
     \/ Spend("faults") /\ Refuse(s, "log", "other") /\ UNCHANGED queue
  /\ UNCHANGED <<machine, self, on, files, current, token, history>>

\* The supervisor takes its next command.  A stop whose drain times out has
\* stopped the router too.
Execute ==
  LET m == Head(queue)
      Answers(a) == at' = [s \in Sessions |->
                             IF s = m.by THEN [at[s] EXCEPT !.answer = a] ELSE at[s]]
  IN /\ queue # <<>> /\ queue' = Tail(queue)
     /\ \/ /\ m.cmd = "start"
           /\ \/ on /\ Answers("running") /\ UNCHANGED <<on, bound, left>>
              \/ ~ on /\ bound = None /\ on' = TRUE /\ bound' = self /\ Answers("ok") /\ UNCHANGED left
              \/ ~ on /\ bound # None /\ Answers("failed") /\ UNCHANGED <<on, bound, left>>
              \/ ~ on /\ Spend("faults") /\ Answers("failed") /\ UNCHANGED <<on, bound>>
        \/ /\ m.cmd = "stop" /\ on' = FALSE /\ bound' = IF on THEN None ELSE bound
           /\ \/ Answers("ok") /\ UNCHANGED left
              \/ on /\ Spend("timeouts") /\ Answers("slow")
     /\ UNCHANGED <<live, born, doomed, self, files, current, latch, token, history>>

\* The listener breaks down.
LoseListener ==
  /\ on /\ Spend("losses") /\ on' = FALSE /\ bound' = None
  /\ UNCHANGED <<live, born, doomed, self, queue, files, current, at, latch, token, history>>

Bound(s) ==
  /\ At(s, "binding") /\ at[s].answer # "none"
  /\ \/ at[s].answer = "ok" /\ Goto(s, "persist") /\ UNCHANGED latch
     \/ at[s].answer = "running" /\ Refuse(s, "already", "none")
     \/ at[s].answer = "failed" /\ Refuse(s, "failed", "other")
  /\ UNCHANGED <<machine, self, switch, files, current, token, left, history>>

MutantPersist(s) ==
  /\ At(s, "persist")
  /\ \/ /\ record' = Own /\ Started(s, "ok") /\ UNCHANGED <<queue, left>>
     \/ /\ Spend("faults") /\ Refuse(s, "persist", "other")
        /\ UNCHANGED <<queue, record>>
  /\ UNCHANGED <<machine, self, on, cli, attempt, current, token, history>>

\* The state file is written; if that fails the router is stopped again.
Persist(s) ==
  /\ At(s, "persist")
  /\ \/ record' = Own /\ Started(s, "ok") /\ UNCHANGED <<queue, left>>
     \/ /\ Spend("faults")
        /\ queue' = Append(queue, [cmd |-> "stop", by |-> s])
        /\ Set(s, [at[s] EXCEPT !.pc = "unwind", !.answer = "none"])
        /\ UNCHANGED <<record, latch>>
  /\ UNCHANGED <<machine, self, on, cli, attempt, current, token, history>>

Unwind(s) ==
  /\ At(s, "unwind") /\ at[s].answer # "none"
  /\ Refuse(s, "persist", "other")
  /\ UNCHANGED <<machine, self, switch, files, current, token, left, history>>

\* The method's time, or the command's, is up while the supervisor is awaited.
\* The rest of the handler never runs, the command takes effect all the same.
GiveUp(s) ==
  /\ at[s].pc \in {"binding", "unwind", "stopping"}
  /\ Spend("timeouts") /\ Mishap("given up") /\ Reply(s, "timeout")
  /\ queue' = [i \in DOMAIN queue |-> IF queue[i].by = s THEN [queue[i] EXCEPT !.by = 0]
                                      ELSE queue[i]]
  /\ UNCHANGED <<machine, self, on, files, current, latch, token, signalled, forced, keys, tokens>>

\* stop()
Halt(s) ==
  /\ At(s, "halt")
  /\ \/ /\ on /\ queue' = Append(queue, [cmd |-> "stop", by |-> s])
        /\ Goto(s, "stopping") /\ UNCHANGED <<record, left, mishaps>>
     \/ ~ on /\ record = Own /\ TryRemove /\ Reply(s, "ok") /\ UNCHANGED queue
     \/ /\ ~ on /\ record # Own
        /\ Reply(s, CASE record = None -> "not found" [] record = Corrupt -> "stale"
                      [] OTHER -> "not owned")
        /\ UNCHANGED <<record, queue, left, mishaps>>
  /\ UNCHANGED <<machine, self, on, cli, attempt, current, latch, token, signalled, forced, keys,
                 tokens>>

\* Stopped: remove_own_state().  After a drain that timed out the file stays.
Stopped(s) ==
  /\ At(s, "stopping") /\ at[s].answer # "none"
  /\ IF at[s].answer = "ok" /\ record = Own THEN TryRemove ELSE UNCHANGED <<record, left, mishaps>>
  /\ Reply(s, at[s].answer)
  /\ UNCHANGED <<machine, self, switch, cli, attempt, current, latch, token, signalled, forced,
                 keys, tokens>>

-----------------------------------------------------------------------------
(* A router an earlier version left behind: prepare_legacy_stop(). *)

\* No state, nothing to stop.
Prepare(s) ==
  /\ At(s, "prepare")
  /\ \/ record = None /\ Goto(s, "begin") /\ UNCHANGED latch
     \/ record = Corrupt /\ Refuse(s, "stale", "reconcile")
     \/ /\ Known(record) /\ UNCHANGED latch
        /\ Set(s, [at[s] EXCEPT !.rec = record, !.pc = "vet legacy"])
  /\ UNCHANGED <<machine, self, switch, files, current, token, left, history>>

VetLegacy(s) ==
  LET r == at[s].rec
  IN /\ At(s, "vet legacy")
     /\ \/ Migratable(r) /\ Goto(s, "recall") /\ UNCHANGED latch
        \/ Validate(r.router) = "genuine" /\ ~ Migratable(r) /\ Refuse(s, "already", "reconcile")
        \/ Validate(r.router) = "absent" /\ Goto(s, "forget") /\ UNCHANGED latch
        \/ Validate(r.router) = "stale" /\ Refuse(s, "stale", "reconcile")
     /\ UNCHANGED <<machine, self, switch, files, current, token, left, history>>

\* The router has ended by itself.  An attempt on it that timed out succeeded.
Forget(s) ==
  LET target == at[s].rec.router
  IN /\ At(s, "forget")
     /\ \/ /\ record' = None /\ Goto(s, "begin") /\ UNCHANGED <<latch, left>>
           /\ attempt' = IF /\ Known(attempt) /\ attempt.gen = 1 /\ attempt.target = target
                            /\ attempt.signals # {}
                         THEN [attempt EXCEPT !.outcome = "stopped"] ELSE attempt
        \/ Spend("faults") /\ Refuse(s, "stale", "reconcile") /\ UNCHANGED <<record, attempt>>
     /\ UNCHANGED <<machine, self, switch, cli, current, token, history>>

MutantBlocks(a) == a.gen = 1 /\ a.signals # {}

\* This generation may already have terminated a router.
Blocks(a) == a.gen = 1 /\ (a.outcome = "pending" \/ a.signals # {})

Recall(s) ==
  /\ At(s, "recall")
  /\ \/ attempt = Corrupt /\ Refuse(s, "stale", "reconcile")
     \/ Known(attempt) /\ Blocks(attempt) /\ Refuse(s, "already", "reconcile")
     \/ /\ attempt # Corrupt /\ ~ (Known(attempt) /\ Blocks(attempt))
        /\ Goto(s, "announce") /\ UNCHANGED latch
  /\ UNCHANGED <<machine, self, switch, files, current, token, left, history>>

Pending(s) == [gen |-> 1, target |-> at[s].rec.router, signals |-> {}, outcome |-> "pending"]

\* The attempt is on disk before the first signal.
Announce(s) ==
  /\ At(s, "announce")
  /\ \/ /\ attempt' = Pending(s) /\ UNCHANGED <<latch, left>>
        /\ Set(s, [at[s] EXCEPT !.pc = "interrupt", !.tried = Pending(s)])
     \/ Spend("faults") /\ Refuse(s, "stale", "reconcile") /\ UNCHANGED attempt
  /\ UNCHANGED <<machine, self, switch, record, cli, current, token, history>>

Concludes(s, outcome) ==
  Set(s, [at[s] EXCEPT !.pc = "conclude", !.tried = [@ EXCEPT !.outcome = outcome]])

\* stop_verified(): validate; interrupt, and kill when that did not help.  The
\* signal may be refused; it validates too, and a process that ended in between
\* counts as interrupted.
SignalLegacy(s, kind, after) ==
  LET target == at[s].rec.router
  IN /\ At(s, kind)
     /\ \/ /\ Signal(target)
           /\ signalled' = signalled \union {[kind |-> kind, to |-> target,
                                              by |-> self, rec |-> at[s].rec]}
           /\ Set(s, [at[s] EXCEPT !.pc = after, !.tried.signals = @ \union {kind}])
           /\ UNCHANGED left
        \/ /\ Validate(target) = "genuine" /\ Spend("faults") /\ Concludes(s, "refused")
           /\ UNCHANGED <<doomed, signalled>>
        \/ /\ Validate(target) # "genuine" /\ Concludes(s, "changed")
           /\ UNCHANGED <<doomed, signalled, left>>
        \/ Validate(target) = "absent" /\ Goto(s, after) /\ UNCHANGED <<doomed, signalled, left>>
     /\ UNCHANGED <<live, born, bound, self, switch, files, current, latch, token,
                    forced, keys, tokens, mishaps>>

MutantWaitLegacy(s, pc, late) ==
  LET v == Validate(at[s].rec.router)
  IN /\ At(s, pc)
     /\ \/ v = "absent" /\ Goto(s, "gone")
        \/ v = "stale" /\ Concludes(s, "changed")
     /\ UNCHANGED <<machine, self, switch, files, current, latch, token, left, history>>

MutantStopsWaiting(s, pc, late) ==
  LET v == Validate(at[s].rec.router)
  IN /\ At(s, pc)
     /\ \/ v = "absent" /\ Goto(s, "gone")
        \/ v = "stale" /\ Concludes(s, "changed")
        \/ v = "genuine" /\ late = "kill" /\ Goto(s, late)
        \/ v = "genuine" /\ late = "timeout" /\ Goto(s, "gone")
     /\ UNCHANGED <<machine, self, switch, files, current, latch, token, left, history>>

\* wait_absent(): until the process has ended, or the time is up.
WaitLegacy(s, pc, late) ==
  LET v == Validate(at[s].rec.router)
  IN /\ At(s, pc)
     /\ \/ v = "absent" /\ Goto(s, "gone")
        \/ v = "stale" /\ Concludes(s, "changed")
        \/ v = "genuine" /\ late = "kill" /\ Goto(s, late)
        \/ v = "genuine" /\ late = "timeout" /\ Concludes(s, late)
     /\ UNCHANGED <<machine, self, switch, files, current, latch, token, left, history>>

\* The state file of the stopped router is removed, and the port sampled.
Clear(s) ==
  /\ At(s, "gone")
  /\ \/ /\ record' = None /\ UNCHANGED left
        /\ Concludes(s, IF bound = None THEN "stopped" ELSE "reoccupied")
     \/ /\ Spend("faults") /\ UNCHANGED record
        /\ Set(s, [at[s] EXCEPT !.pc = "conclude", !.tried = [@ EXCEPT !.outcome = "stopped"],
                                !.answer = "kept"])
  /\ UNCHANGED <<machine, self, switch, cli, attempt, current, latch, token, history>>

\* The attempt's end is recorded, if the disk allows; then the router starts.
Conclude(s) ==
  /\ At(s, "conclude")
  /\ \/ attempt' = at[s].tried /\ UNCHANGED left
     \/ UNCHANGED attempt /\ Spend("faults")
  /\ IF at[s].tried.outcome = "stopped" /\ at[s].answer # "kept"
     THEN Set(s, [at[s] EXCEPT !.pc = "begin", !.tried = None]) /\ UNCHANGED latch
     ELSE Refuse(s, at[s].tried.outcome, "reconcile")
  /\ UNCHANGED <<machine, self, switch, record, cli, current, token, history>>

-----------------------------------------------------------------------------
(* What the other calls do with what they learned. *)

\* router.status: a latched startup failure stands in for an absent router.
ReplyStatus(s) ==
  /\ At(s, "decide") /\ at[s].op = "status"
  /\ Reply(s, IF at[s].class \in {"absent", "stale"} /\ latch[s] # "none" THEN "start failed"
              ELSE at[s].class)
  /\ UNCHANGED <<machine, self, switch, files, current, latch, token, left, history>>

\* Processes no occupant call may end: the desktop, and every recorded router.
Protected(p) ==
  \/ self # None /\ p.pid = self.pid
  \/ Known(record) /\ record.router.pid = p.pid
  \/ Known(cli) /\ cli.pid = p.pid

\* inspect_linux(): the process that owns the listening socket.
Owner == bound

\* inspect_for(): the last token goes; a new one for an occupant that may be ended.
Inspect(s) ==
  /\ At(s, "decide") /\ at[s].op = "inspect"
  /\ IF /\ at[s].class = "unknown" /\ Owner # None
        /\ ~ Protected(Owner) /\ Owner.role # "service"
     THEN /\ token' = [token EXCEPT ![s] = [id |-> tokens + 1, target |-> Owner]]
          /\ tokens' = tokens + 1 /\ Reply(s, "forceable")
     ELSE /\ token' = [token EXCEPT ![s] = None] /\ Reply(s, "manual") /\ UNCHANGED tokens
  /\ UNCHANGED <<machine, self, switch, files, current, latch, left, signalled, forced, keys,
                 mishaps>>

\* force_terminate_inner(): the token is used up whatever comes of it; it may
\* have expired.
TakeToken(s) ==
  LET t == token[s]
  IN /\ At(s, "decide") /\ at[s].op = "force"
     /\ token' = [token EXCEPT ![s] = None]
     /\ \/ /\ t # None /\ t.id = at[s].given /\ at[s].class = "unknown"
           /\ Set(s, [at[s] EXCEPT !.pc = "look again", !.trust = t.target])
        \/ Reply(s, "refused")
     /\ UNCHANGED <<machine, self, switch, files, current, latch, left, history>>

MutantLookAgain(s) ==
  /\ At(s, "look again")
  /\ IF Owner # None /\ Owner.role # "service" /\ ~ Protected(Owner)
     THEN Set(s, [at[s] EXCEPT !.pc = "strike", !.seen = Owner])
     ELSE Reply(s, "changed")
  /\ UNCHANGED <<machine, self, switch, files, current, latch, token, left, history>>

\* The port's owner once more: the very process, or the same id when only the
\* id could be seen.
LookAgain(s) ==
  LET same == IF at[s].trust.role = "opaque" THEN Owner.pid = at[s].trust.pid
              ELSE Owner = at[s].trust
  IN /\ At(s, "look again")
     /\ IF /\ Owner # None /\ same /\ ~ Protected(Owner)
           /\ (at[s].trust.role = "opaque" \/ Owner.role # "service")
        THEN Set(s, [at[s] EXCEPT !.pc = "strike", !.seen = Owner])
        ELSE Reply(s, "changed")
     /\ UNCHANGED <<machine, self, switch, files, current, latch, token, left, history>>

\* The signal: to the identity, validated again, or to the id.
Strike(s) ==
  LET p == at[s].seen
      byId == at[s].trust.role = "opaque"
      hit == IF byId THEN Holder(p.pid) ELSE {p} \intersect live
  IN /\ At(s, "strike")
     /\ doomed' = doomed \union hit
     /\ forced' = forced \union {[to |-> q, shown |-> at[s].trust, id |-> at[s].given] : q \in hit}
     /\ IF hit = {} THEN Reply(s, "changed") ELSE Goto(s, "release")
     /\ UNCHANGED <<live, born, bound, self, switch, files, current, latch, token, left,
                    signalled, keys, tokens, mishaps>>

\* wait_released() or, by the id alone, wait_pid_released(); until the deadline.
Release(s) ==
  LET p == at[s].seen
      v == Validate(p)
      byId == at[s].trust.role = "opaque"
      other == bound # None /\ bound.pid # p.pid
  IN /\ At(s, "release")
     /\ \/ bound = None /\ (byId \/ v = "absent") /\ Reply(s, "released")
        \/ byId /\ other /\ Reply(s, "changed")
        \/ ~ byId /\ (v = "stale" \/ (v = "absent" /\ other)) /\ Reply(s, "changed")
        \/ (IF byId THEN ~ other ELSE v # "stale") /\ Reply(s, "not released")
     /\ UNCHANGED <<machine, self, switch, files, current, latch, token, left, history>>

\* establish(): a trusted router, started first if there is none and no failed
\* start stands against it.
Establish(s) ==
  /\ At(s, "decide") /\ at[s].op = "fetch"
  /\ \/ /\ at[s].class = "absent" /\ at[s].round = 1 /\ latch[s] # "other"
        /\ Set(s, [at[s] EXCEPT !.pc = "begin", !.round = 2])
     \/ at[s].class = "desktop" /\ Set(s, [at[s] EXCEPT !.pc = "dial", !.trust = at[s].rec.router])
     \/ at[s].class = "external" /\ Set(s, [at[s] EXCEPT !.pc = "dial", !.trust = at[s].cli])
     \/ /\ at[s].class \notin {"desktop", "external"}
        /\ at[s].class = "absent" => at[s].round = 3 \/ latch[s] = "other"
        /\ Reply(s, at[s].class)
  /\ UNCHANGED <<machine, self, switch, files, current, latch, token, left, history>>

\* One connection, over which /version is asked; at.seen is its other end.
Dial(s) ==
  /\ At(s, "dial")
  /\ IF bound # None /\ bound.role \in Personal /\ bound.pid = at[s].trust.pid
     THEN Set(s, [at[s] EXCEPT !.pc = "vouch", !.seen = bound])
     ELSE Reply(s, "stale")
  /\ UNCHANGED <<machine, self, switch, files, current, latch, token, left, history>>

\* The recorded process is the one that answered: validated after the answer.
Vouch(s) ==
  /\ At(s, "vouch")
  /\ IF Validate(at[s].trust) = "genuine" THEN Goto(s, "send") ELSE Reply(s, "stale")
  /\ UNCHANGED <<machine, self, switch, files, current, latch, token, left, history>>

MutantSend(s) ==
  /\ At(s, "send")
  /\ Reply(s, "ok")
  /\ keys' = IF bound = None THEN keys ELSE keys \union {[to |-> bound, trust |-> at[s].trust]}
  /\ UNCHANGED <<machine, self, switch, files, current, latch, token, left, signalled, forced,
                 tokens, mishaps>>

\* The request with the key, over the same connection.
Send(s) ==
  /\ At(s, "send")
  /\ Reply(s, "ok")
  /\ keys' = keys \union {[to |-> p, trust |-> at[s].trust] : p \in {at[s].seen} \intersect live}
  /\ UNCHANGED <<machine, self, switch, files, current, latch, token, left, signalled, forced,
                 tokens, mishaps>>

-----------------------------------------------------------------------------
(* The computer. *)

\* The desktop starts, or crashes: with it go its router, sessions and latches.
Open ==
  /\ self = None
  /\ \E p \in Fresh("app") : Spawn(p) /\ self' = p
  /\ current' = 1
  /\ UNCHANGED <<bound, doomed, switch, files, at, latch, token, left, history>>

Crash ==
  /\ self # None /\ Spend("crashes")
  /\ Die(self) /\ self' = None
  /\ on' = FALSE /\ queue' = <<>>
  /\ at' = [s \in Sessions |-> Free]
  /\ latch' = [s \in Sessions |-> "none"] /\ token' = [s \in Sessions |-> None]
  /\ UNCHANGED <<files, current, history>>

\* The client replaces a session that does not answer; its call goes on.
Respawn ==
  /\ ~ At(current, "idle") /\ current + 1 \in Sessions
  /\ Spend("respawns") /\ current' = current + 1 /\ Mishap("replaced")
  /\ UNCHANGED <<machine, self, switch, files, at, latch, token, signalled, forced, keys, tokens>>

\* Another program starts; it may take the port.
Arrive ==
  /\ \E role \in left.roles : \E p \in Fresh(role) :
       Spawn(p) /\ bound' \in IF bound = None THEN {None, p} ELSE {bound}
  /\ UNCHANGED <<doomed, self, switch, files, current, at, latch, token, left, history>>

\* The command line's router has the port and writes its state.
CliRecords ==
  /\ bound # None /\ bound.role = "cli" /\ cli # bound /\ cli' = bound
  /\ UNCHANGED <<machine, self, switch, record, attempt, current, at, latch, token, left, history>>

\* A process ends: of itself, or because it was told to.  The command line's
\* router takes its state along unless it crashes.
Leave ==
  /\ \E p \in live \ {self} :
       /\ Die(p)
       /\ \/ p \in doomed /\ UNCHANGED left
          \/ p \notin doomed /\ Spend("exits")
       /\ cli' \in IF cli = p THEN {cli, None} ELSE {cli}
  /\ UNCHANGED <<self, switch, record, attempt, current, at, latch, token, history>>

Step(s) ==
  \/ Begin(s) \/ Vet(s) \/ Kin(s) \/ VetStale(s) \/ RemoveRecord(s)
  \/ Ask(s) \/ ReadFiles(s) \/ Probe(s) \/ JudgePort(s) \/ Judge(s)
  \/ Launch(s) \/ Bound(s) \/ Persist(s) \/ Unwind(s) \/ Halt(s) \/ Stopped(s)
  \/ Prepare(s) \/ VetLegacy(s) \/ Forget(s) \/ Recall(s) \/ Announce(s)
  \/ SignalLegacy(s, "interrupt", "wait") \/ WaitLegacy(s, "wait", "kill")
  \/ SignalLegacy(s, "kill", "wait long") \/ WaitLegacy(s, "wait long", "timeout")
  \/ Clear(s) \/ Conclude(s)
  \/ ReplyStatus(s) \/ Inspect(s) \/ TakeToken(s) \/ LookAgain(s) \/ Strike(s) \/ Release(s)
  \/ Establish(s) \/ Dial(s) \/ Vouch(s) \/ Send(s)

Next ==
  \/ \E s \in Sessions : (\E op \in Ops : Call(s, op)) \/ Step(s) \/ GiveUp(s)
  \/ Execute \/ LoseListener
  \/ Open \/ Crash \/ Respawn \/ Arrive \/ CliRecords \/ Leave

Spec == Init /\ [][Next]_vars

\* A session's thread and the supervisor go on; nothing makes a process end.
FairSpec == Spec /\ (\A s \in Sessions : WF_vars(Step(s))) /\ WF_vars(Execute)

-----------------------------------------------------------------------------
(* Properties. *)

\* The API key only reaches a router of this generation, and the very process
\* whose record was trusted, whatever ends, starts or takes its id or the port
\* between discovery, connection, validation and request.  And a discovery about
\* to name a router as usable has seen that very process answer at the port,
\* though it compares process ids only, and looks at files, port and processes
\* one after the other.
KeyOnlyToTrusted ==
  /\ \A k \in keys : k.to = k.trust /\ k.to.role \in Personal
  /\ \A s \in Sessions :
       At(s, "judge") =>
         /\ Class(s) = "external" => at[s].seen = at[s].cli
         /\ Class(s) = "desktop" => at[s].seen = at[s].rec.router

\* "a crash, a relaunch, or an explicit retry within the same installation
\* generation can never signal a legacy router twice": one attempt, which
\* interrupts once and kills once at most, one router, whose manager is gone.
OneAttempt ==
  "replaced" \notin mishaps =>
    \A x, y \in signalled :
      /\ x.to = y.to /\ x.by = y.by
      /\ x.to.role \in {"legacy", "sibling"} /\ x.rec.manager \notin live

\* Only the process the user was shown, and confirmed, is ended, and once; never
\* the desktop itself, though a new one may have the id of what was shown.
ForceHitsConfirmed ==
  \A f \in forced :
    /\ f.to.pid = f.shown.pid /\ (f.shown.role # "opaque" => f.to = f.shown)
    /\ f.to # self
    /\ \A g \in forced : f.id = g.id => f = g

\* The state file is removed only when the router it names has ended or is this
\* desktop's own and not bound: a record is never taken from a running router.
RemovesOnlyEnded ==
  [][record # record' /\ record' = None /\ "replaced" \notin mishaps
       => Known(record) /\ (record.router \in live => record = Own /\ ~ on')]_vars

\* A stop that was confirmed has stopped the router and removed its record; and
\* unless a caller gave up, a router that is bound between calls is the one the
\* state file names: the next desktop can recognise what this one leaves.
RecordIsTrue ==
  /\ \A s \in Sessions :
       at[s].op = "stop" /\ at[s].reply = "ok" /\ mishaps = {}
         => ~ on /\ (self = None \/ record # Own)
  /\ (on /\ (\A s \in Sessions : At(s, "idle")) /\ mishaps \subseteq {"kept"}) => record = Own

\* Every call comes to an end although a process may ignore its signals.
CallEnds == \A s \in Sessions : ~ At(s, "idle") ~> At(s, "idle")

================================================================================
