------------------------------ MODULE Supervisor ------------------------------
(***************************************************************************)
(* The router's runtime thread:                                            *)
(* crates/router-core/src/router_core/supervisor.rs.                       *)
(*                                                                         *)
(* Callers send Start and Stop through a bounded queue and wait for the    *)
(* reply no longer than command_timeout; the actor executes one command at *)
(* a time, whether its caller still waits or not.  Between commands it     *)
(* accepts connections and collects the tasks that served them.            *)
(*                                                                         *)
(* Simplifications:                                                        *)
(*  - listener and serving are set and taken together, so one variable     *)
(*    stands for both; `gen` numbers the Serving values, each of which has *)
(*    a semaphore of its own;                                              *)
(*  - the fields of the status are written in one step; /version and       *)
(*    /health take no permit and change nothing, so they are left out;     *)
(*  - a timeout may strike whenever what it guards has not happened yet.   *)
(***************************************************************************)
EXTENDS Naturals, Sequences, FiniteSets

CONSTANTS
  Callers,      \* tasks that call start() and stop()
  Conns,        \* client connections
  None,         \* no caller, no command
  QueueSize,    \* limits.command_queue
  Cap,          \* limits.max_concurrent_requests
  Turns,        \* how many commands each caller gives, several ways
  MaxCalls, MaxAcceptErrors, MaxLeaks   \* bounds of a run

Kinds == {"start", "stop"}
Commands == [caller: Callers, id: Nat, kind: Kinds]

ASSUME SupervisorAssumption ==
  /\ None \notin Callers /\ None \notin Commands
  /\ IsFiniteSet(Conns)
  /\ QueueSize \in Nat \ {0} /\ Cap \in Nat \ {0}
  /\ Turns \subseteq [Callers -> Nat]
  /\ MaxCalls \in Nat /\ MaxAcceptErrors \in Nat /\ MaxLeaks \in Nat

VARIABLES
  \* --- callers ---
  call,      \* each caller's call: its number, kind and progress
  answer,    \* what its last call returned
  closed,    \* the command sender was dropped
  \* --- the actor ---
  queue,     \* commands sent and not yet taken
  step,      \* what the actor is doing
  cmd,       \* the command it executes
  listener,  \* it has a listener, and a Serving
  gen,       \* number of the last Serving
  \* --- shared status ---
  phase, bound, failure,
  active, maxActive,
  \* --- connection tasks ---
  conn,      \* state of each connection's task
  owner,     \* the Serving its task was spawned with
  spent      \* how much of each bound is spent

callers == <<call, answer, closed>>
shared == <<phase, bound, failure>>
counters == <<active, maxActive>>
tasks == <<conn, owner>>
vars == <<call, answer, closed, queue, step, cmd, listener, gen, phase, bound,
          failure, active, maxActive, conn, owner, spent>>

\* A task that was spawned and not yet collected by the JoinSet.
Inflight == {k \in Conns : conn[k] # "none"}
Live == {k \in Conns : conn[k] \notin {"none", "ended", "panicked"}}

\* Requests waiting for response headers; each holds a permit of its Serving.
Waiting == {k \in Conns : conn[k] = "serving"}

TypeOK ==
  /\ call \in [Callers -> [id: Nat, kind: Kinds,
                           at: {"idle", "sending", "waiting"}]]
  /\ answer \in [Callers -> {"none", "ok", "already", "startup", "timeout",
                             "shutdown_timeout", "disconnected"}]
  /\ closed \in BOOLEAN
  /\ queue \in Seq(Commands)
  /\ step \in {"loop", "starting", "draining", "ended"}
  /\ cmd \in Commands \union {None}
  /\ step \in {"starting", "draining"} => cmd \in Commands
  /\ listener \in BOOLEAN /\ gen \in Nat
  /\ phase \in {"Stopped", "Starting", "Running", "Degraded", "Failed"}
  /\ bound \in BOOLEAN
  /\ failure \in {"none", "panic", "listen", "shutdown"}
  /\ active \in Nat /\ maxActive \in Nat
  /\ conn \in [Conns -> {"none", "open", "queued", "serving", "body", "ended",
                         "panicked"}]
  /\ owner \in [Conns -> Nat]
  /\ spent \in [calls: Nat, left: [Callers -> Nat], acceptErrors: Nat, leaks: Nat]

Init ==
  /\ call = [c \in Callers |-> [id |-> 0, kind |-> "stop", at |-> "idle"]]
  /\ answer = [c \in Callers |-> "none"]
  /\ closed = FALSE
  /\ queue = <<>> /\ step = "loop" /\ cmd = None
  /\ listener = FALSE /\ gen = 0
  /\ phase = "Stopped" /\ bound = FALSE /\ failure = "none"
  /\ active = 0 /\ maxActive = 0
  /\ conn = [k \in Conns |-> "none"] /\ owner = [k \in Conns |-> 0]
  /\ \E t \in Turns :
       spent = [calls |-> 0, left |-> t, acceptErrors |-> 0, leaks |-> 0]

-------------------------------------------------------------------------------
(* Callers: RouterSupervisor::start, stop, shutdown.  A definition named
   Mutant... is the definition that follows it with a slip in it; it is used
   only to see that the properties notice. *)

Call(c, kind) ==
  /\ call[c].at = "idle" /\ ~ closed
  /\ spent.calls < MaxCalls /\ spent.left[c] > 0
  /\ spent' = [spent EXCEPT !.calls = @ + 1, !.left[c] = @ - 1]
  /\ call' = [call EXCEPT ![c] = [id |-> spent'.calls, kind |-> kind,
                                  at |-> "sending"]]
  /\ answer' = [answer EXCEPT ![c] = "none"]
  /\ UNCHANGED <<closed, queue, step, cmd, listener, gen, shared, counters, tasks>>

\* The queue has room.  The order of callers blocked on a full queue is left
\* open.
Send(c) ==
  /\ call[c].at = "sending"
  /\ Len(queue) < QueueSize
  /\ queue' = Append(queue, [caller |-> c, id |-> call[c].id,
                             kind |-> call[c].kind])
  /\ call' = [call EXCEPT ![c].at = "waiting"]
  /\ UNCHANGED <<answer, closed, step, cmd, listener, gen, shared, counters,
                 tasks, spent>>

\* command_timeout, while sending or while waiting; a command that was sent
\* stays in the queue.
CallTimeout(c) ==
  /\ call[c].at \in {"sending", "waiting"}
  /\ call' = [call EXCEPT ![c].at = "idle"]
  /\ answer' = [answer EXCEPT ![c] = "timeout"]
  /\ UNCHANGED <<closed, queue, step, cmd, listener, gen, shared, counters,
                 tasks, spent>>

\* The supervisor is dropped, by its owner or at the end of shutdown(): no
\* call is in progress, for it is borrowed by none.
Close ==
  /\ ~ closed
  /\ \A c \in Callers : call[c].at = "idle"
  /\ closed' = TRUE
  /\ UNCHANGED <<call, answer, queue, step, cmd, listener, gen, shared, counters,
                 tasks, spent>>

\* The actor answers its command; nobody may be waiting any more.
MutantAwaited == call[cmd.caller].at = "waiting"
Awaited == call[cmd.caller].at = "waiting" /\ call[cmd.caller].id = cmd.id

Reply(result) ==
  /\ cmd' = None
  /\ step' = "loop"
  /\ IF Awaited
     THEN /\ call' = [call EXCEPT ![cmd.caller].at = "idle"]
          /\ answer' = [answer EXCEPT ![cmd.caller] = result]
     ELSE UNCHANGED <<call, answer>>
  /\ UNCHANGED <<closed, queue>>

-------------------------------------------------------------------------------
(* The actor: actor_loop, start_router, stop_router *)

\* set_phase: no failure given keeps the last one, Starting forgets it.
SetPhase(p, b, f) ==
  /\ phase' = p /\ bound' = b
  /\ failure' = IF p = "Starting" THEN "none"
                ELSE IF f # "none" THEN f ELSE failure

\* A start while there is a listener is refused; otherwise it prepares, which
\* probes the upstream.
TakeStart ==
  /\ step = "loop" /\ queue # <<>> /\ Head(queue).kind = "start"
  /\ cmd' = Head(queue) /\ queue' = Tail(queue)
  /\ step' = "starting"
  /\ IF listener THEN UNCHANGED shared ELSE SetPhase("Starting", FALSE, "none")
  /\ UNCHANGED <<callers, listener, gen, counters, tasks, spent>>

Refuse ==
  /\ step = "starting" /\ listener
  /\ Reply("already")
  /\ UNCHANGED <<listener, gen, shared, counters, tasks, spent>>

Started ==
  /\ step = "starting" /\ ~ listener
  /\ listener' = TRUE /\ gen' = gen + 1
  /\ SetPhase("Running", TRUE, "none")
  /\ Reply("ok")
  /\ UNCHANGED <<counters, tasks, spent>>

\* Preparation or bind fails; or, after a bind that worked, the address of the
\* socket cannot be read, which leaves the phase as it is.
StartFails ==
  /\ step = "starting" /\ ~ listener
  /\ \/ SetPhase("Failed", FALSE, "none")
     \/ SetPhase("Failed", FALSE, "listen")
     \/ UNCHANGED shared
  /\ Reply("startup")
  /\ UNCHANGED <<listener, gen, counters, tasks, spent>>

\* A stop takes listener and Serving, then waits for the tasks.
TakeStop ==
  /\ step = "loop" /\ queue # <<>> /\ Head(queue).kind = "stop"
  /\ cmd' = Head(queue) /\ queue' = Tail(queue)
  /\ step' = "draining"
  /\ listener' = FALSE
  /\ UNCHANGED <<callers, gen, shared, counters, tasks, spent>>

Drained == step = "draining" /\ Inflight = {}

Stopped ==
  /\ Drained
  /\ SetPhase("Stopped", FALSE, "none")
  /\ Reply("ok")
  /\ UNCHANGED <<listener, gen, counters, tasks, spent>>

\* shutdown_timeout: the tasks that are left are aborted where they stand and
\* collected.  A request that was waiting is not counted out.
AbortAll == conn' = [k \in Conns |-> "none"] /\ UNCHANGED owner

MutantStopTimeout == FALSE /\ UNCHANGED vars
StopTimeout ==
  /\ step = "draining" /\ Live # {}
  /\ AbortAll
  /\ SetPhase("Stopped", FALSE, "shutdown")
  /\ Reply("shutdown_timeout")
  /\ UNCHANGED <<listener, gen, counters, spent>>

\* A task is collected.  Only the loop looks whether it panicked.
MutantJoin(k) ==
  /\ step \in {"loop", "draining"}
  /\ conn[k] = "panicked"
  /\ conn' = [conn EXCEPT ![k] = "none"]
  /\ UNCHANGED <<callers, queue, step, cmd, listener, gen, shared, counters,
                 owner, spent>>

Join(k) ==
  /\ step \in {"loop", "draining"}
  /\ conn[k] \in {"ended", "panicked"}
  /\ conn' = [conn EXCEPT ![k] = "none"]
  /\ IF step = "loop" /\ conn[k] = "panicked"
     THEN phase' = "Degraded" /\ failure' = "panic" /\ UNCHANGED bound
     ELSE UNCHANGED shared
  /\ UNCHANGED <<callers, queue, step, cmd, listener, gen, counters, owner, spent>>

Accept(k) ==
  /\ step = "loop" /\ listener
  /\ conn[k] = "none"
  /\ conn' = [conn EXCEPT ![k] = "open"]
  /\ owner' = [owner EXCEPT ![k] = gen]
  /\ UNCHANGED <<callers, queue, step, cmd, listener, gen, shared, counters, spent>>

\* accept() fails: the router stops listening, its tasks go on.
MutantListenerLost == SetPhase("Failed", bound, "listen")
ListenerLost == SetPhase("Failed", FALSE, "listen")

AcceptError ==
  /\ step = "loop" /\ listener
  /\ spent.acceptErrors < MaxAcceptErrors
  /\ spent' = [spent EXCEPT !.acceptErrors = @ + 1]
  /\ ListenerLost
  /\ listener' = FALSE
  /\ UNCHANGED <<callers, queue, step, cmd, gen, counters, tasks>>

\* The sender is gone and the queue empty: the thread ends, and its tasks are
\* dropped with its runtime.
End ==
  /\ step = "loop" /\ closed /\ queue = <<>>
  /\ step' = "ended"
  /\ listener' = FALSE
  /\ AbortAll
  /\ UNCHANGED <<callers, queue, cmd, gen, shared, counters, spent>>

-------------------------------------------------------------------------------
(* Connection tasks: serve_connection, supervised_request *)

Goes(k, from, to) ==
  /\ conn[k] = from
  /\ conn' = [conn EXCEPT ![k] = to]
  /\ UNCHANGED <<callers, queue, step, cmd, listener, gen, shared, owner>>

\* A proxied request asks for a permit ...
Request(k) == Goes(k, "open", "queued") /\ UNCHANGED <<counters, spent>>

\* ... and gets one of its Serving's ...
MutantPermitFree(k) == TRUE
PermitFree(k) == Cardinality({j \in Waiting : owner[j] = owner[k]}) < Cap

Acquire(k) ==
  /\ PermitFree(k)
  /\ Goes(k, "queued", "serving")
  /\ active' = active + 1
  /\ maxActive' = IF active' > maxActive THEN active' ELSE maxActive
  /\ UNCHANGED spent

\* ... or is answered 504 after request_timeout.
MutantQueueTimeout(k) ==
  /\ Goes(k, "queued", "body")
  /\ active' = active - 1
  /\ UNCHANGED <<maxActive, spent>>

QueueTimeout(k) == Goes(k, "queued", "body") /\ UNCHANGED <<counters, spent>>

\* Response headers, or 504: the request is counted out, the permit returned.
Respond(k) ==
  /\ Goes(k, "serving", "body")
  /\ active' = active - 1
  /\ UNCHANGED <<maxActive, spent>>

\* The response was sent; the connection waits for its next request.
Sent(k) == Goes(k, "body", "open") /\ UNCHANGED <<counters, spent>>

\* The client hangs up or sends no header in time, or the task panics: it ends
\* where it stands.  A request that was waiting returns its permit but is not
\* counted out.
HangUp(k) ==
  /\ spent.leaks < MaxLeaks \/ conn[k] \in {"open", "queued", "body"}
  /\ spent' = IF conn[k] = "serving" THEN [spent EXCEPT !.leaks = @ + 1] ELSE spent
  /\ \E from \in {"open", "queued", "serving", "body"} : Goes(k, from, "ended")
  /\ UNCHANGED counters

\* The proxy panics while it gets the headers or streams the body.
Panic(k) ==
  /\ spent.leaks < MaxLeaks
  /\ spent' = [spent EXCEPT !.leaks = @ + 1]
  /\ \E from \in {"serving", "body"} : Goes(k, from, "panicked")
  /\ UNCHANGED counters

Connection(k) ==
  \/ Request(k) \/ Acquire(k) \/ QueueTimeout(k) \/ Respond(k) \/ Sent(k)
  \/ HangUp(k) \/ Panic(k)

Executes ==
  \/ TakeStart \/ Refuse \/ Started \/ StartFails
  \/ TakeStop \/ Stopped \/ StopTimeout \/ End

Next ==
  \/ \E c \in Callers :
       \/ \E kind \in Kinds : Call(c, kind)
       \/ Send(c) \/ CallTimeout(c)
  \/ Close
  \/ Executes
  \/ \E k \in Conns : Join(k) \/ Accept(k) \/ Connection(k)
  \/ AcceptError

Spec == Init /\ [][Next]_vars

\* The actor takes a ready branch of its select, and its timers fire; so does
\* the timer of a request that waits for a permit or for headers.  Nothing
\* makes a client finish or leave.
FairSpec ==
  /\ Spec
  /\ WF_vars(Executes)
  /\ \A k \in Conns : WF_vars(Join(k))
                      /\ WF_vars(QueueTimeout(k) \/ Acquire(k))
                      /\ WF_vars(Respond(k))

-------------------------------------------------------------------------------
(* Properties *)

\* Between commands the status says "bound" exactly while there is a listener,
\* and then its phase is Running, or Degraded after a panic.
BoundIsTrue ==
  step = "loop" =>
    /\ bound = listener
    /\ listener => phase \in {"Running", "Degraded"}

\* A router reported as stopped serves nobody: no task of any Serving is left,
\* also of one whose listener was lost to an accept error before.
StoppedMeansIdle ==
  phase = "Stopped" => ~ listener /\ \A k \in Conns : conn[k] = "none"

\* What the status reports is the truth about listener and tasks.
StatusIsTrue == BoundIsTrue /\ StoppedMeansIdle

\* Every request that waits for headers is counted, so the reported number is
\* never below the real one and never wraps below zero.
EveryRequestCounted == active \in Nat /\ Cardinality(Waiting) <= active

\* Without an accept error the requests of all Serving values together stay
\* within the cap: a restart never adds a new semaphore beside one in use.
CapHolds == spent.acceptErrors = 0 => Cardinality(Waiting) <= Cap

\* A stop that was sent takes effect although no client ever finishes.
StopTakesEffect ==
  \A id \in 1..MaxCalls :
    (\E i \in 1..Len(queue) : queue[i].id = id /\ queue[i].kind = "stop")
      ~> (cmd = None /\ \A i \in 1..Len(queue) : queue[i].id # id)

\* And once the supervisor is dropped its thread ends, so that the join in
\* shutdown() returns; a proxied request is answered, or its connection ends.
ThreadEnds == closed ~> (step = "ended")
RequestEnds ==
  \A k \in Conns : conn[k] \in {"queued", "serving"}
                     ~> conn[k] \notin {"queued", "serving"}
NothingHangs == StopTakesEffect /\ ThreadEnds /\ RequestEnds

-------------------------------------------------------------------------------
(* The refinement of RouterSwitch *)

\* A command is outstanding while its caller has not sent it, while it is in
\* the queue and while the actor executes it.
Outstanding ==
  {[caller |-> c, id |-> call[c].id, kind |-> call[c].kind] :
     c \in {d \in Callers : call[d].at = "sending"}}
  \union {queue[i] : i \in 1..Len(queue)}
  \union ({cmd} \ {None})

Switch ==
  INSTANCE RouterSwitch WITH
    on <- bound, asked <- Outstanding,
    last <- [c \in Callers |-> call[c].id]

\* Seen from its callers the supervisor is a switch: every command takes effect
\* in one step, at most once, and its answer says what that step did.
ImplementsSwitch == Switch!Spec

===============================================================================
