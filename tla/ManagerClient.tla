---------------------------- MODULE ManagerClient ----------------------------
(***************************************************************************)
(* The desktop's client of its in-process manager:                         *)
(* desktop/src-tauri/src/manager.rs, the session threads it talks to       *)
(* (manager_core/session.rs) and the occupant confirmation that is bound   *)
(* to one session (commands.rs, orchestration.rs).                         *)
(*                                                                         *)
(* Calls wait in one bounded queue.  One actor takes them in turn, sends   *)
(* each to the session's thread and waits for its answer, no longer than   *)
(* the method's watchdog.  The first time this fails in a way that can be  *)
(* recovered from, the actor replaces the session, once and for all, and   *)
(* sends the call again unless its method must not be replayed.            *)
(*                                                                         *)
(* Simplifications:                                                        *)
(*  - a method is one of five kinds; a manager that answers, with a result *)
(*    or with an error of its own, is one outcome;                         *)
(*  - a write to a dead session and a read from it fail alike;             *)
(*  - the manager's answers are well-formed JSON and its build the         *)
(*    desktop's, for both are one binary;                                  *)
(*  - the event channel's 16 places are never all taken by late answers.   *)
(***************************************************************************)
EXTENDS Naturals, Sequences, FiniteSets

CONSTANTS
  Users,        \* tasks that serve the user's commands
  Poller,       \* the poll scheduler's task
  None,         \* no call, no token, no epoch expected
  QueueSize,    \* capacity of the call queue
  Bounds        \* how many calls each caller makes and how many handlers
                \* panic, several ways

ASSUME ClientAssumption ==
  /\ Poller \notin Users
  /\ None \notin Users \union {Poller} /\ None \notin Nat
  /\ QueueSize \in Nat \ {0}
  /\ Bounds \subseteq [calls: [Users \union {Poller} -> Nat], panics: Nat]

VARIABLES
  \* --- callers ---
  asked,     \* each caller's last call
  at,        \* how far it is
  got,       \* its reply
  token,     \* the occupant confirmation the desktop holds, or None
  \* --- the actor ---
  queue,     \* calls not yet taken
  doing,     \* the actor's next step
  current,   \* the call it works on, or None
  nextId,    \* request_id
  awaited,   \* id of the request it waits for
  session,   \* the session it talks to; 0: none
  epoch,     \* session_epoch
  recovered, \* recovery_used
  \* --- the sessions' threads ---
  thread,    \* each session's thread
  \* --- history ---
  ran,       \* requests the manager executed
  made,      \* how many calls were made: it numbers them
  left       \* how much of the bounds is left

clients == <<asked, at, got, token>>
actor == <<doing, current, nextId, awaited, session, epoch, recovered>>
vars == <<asked, at, got, token, queue, doing, current, nextId, awaited,
          session, epoch, recovered, thread, ran, made, left>>

Callers == Users \union {Poller}
Sessions == 1..2

\* "inspect" yields a token, "force" spends one; "once" stands for the other
\* methods that must not be replayed, "read" for those that may.
Kinds == {"read", "once", "inspect", "force"}

\* `epoch` is expected_session_epoch; `issuer` is the session whose token the
\* call carries, known to nobody.
Calls == [by: Callers, id: Nat, kind: Kinds, epoch: Nat \union {None},
          issuer: Nat]

\* The actor's own requests: manager.info, router.status, router.start.
Own(kind) == [by |-> None, id |-> 0, kind |-> kind, epoch |-> None, issuer |-> 0]
OwnCalls == {Own(kind) : kind \in {"info", "status", "start"}}

Requests == [id: Nat, call: Calls \union OwnCalls]

Replies == [what: {"none", "answer", "failed", "changed"}, of: Nat]
Reply(what, id) == [what |-> what, of |-> id]

TypeOK ==
  /\ asked \in [Callers -> Calls]
  /\ at \in [Callers -> {"idle", "sending", "waiting"}]
  /\ got \in [Callers -> Replies]
  /\ token \in [epoch: Nat, issuer: Sessions] \union {None}
  /\ queue \in Seq(Calls) /\ Len(queue) <= QueueSize
  /\ doing \in {"spawn", "handshake", "idle", "asking", "status", "start",
                "retry"}
  /\ current \in Calls \union {None}
  /\ doing \in {"asking", "status", "start", "retry"} => current \in Calls
  /\ nextId \in Nat /\ awaited \in Nat
  /\ session \in Sessions \union {0}
  /\ epoch \in Nat /\ recovered \in BOOLEAN
  /\ thread \in [Sessions -> [life: {"none", "up", "dead"},
                              requests: Seq(Requests),
                              busy: Requests \union {None}, done: BOOLEAN,
                              events: Seq(Requests)]]
  /\ ran \subseteq [request: Requests, session: Sessions]
  /\ made \in Nat /\ left \in [calls: [Callers -> Nat], panics: Nat]

NoCall(c) == [by |-> c, id |-> 0, kind |-> "read", epoch |-> None, issuer |-> 0]

Init ==
  /\ asked = [c \in Callers |-> NoCall(c)]
  /\ at = [c \in Callers |-> "idle"]
  /\ got = [c \in Callers |-> Reply("none", 0)]
  /\ token = None
  /\ queue = <<>>
  /\ doing = "spawn" /\ current = None
  /\ nextId = 1 /\ awaited = 0
  /\ session = 0 /\ epoch = 0 /\ recovered = FALSE
  /\ thread = [s \in Sessions |-> [life |-> "none", requests |-> <<>>,
                                   busy |-> None, done |-> FALSE,
                                   events |-> <<>>]]
  /\ ran = {}
  /\ made = 0 /\ left \in Bounds

-------------------------------------------------------------------------------
(* Callers.  A definition named Mutant... is the definition that follows it
   with a slip in it; it is used only to see that the properties notice. *)

HasRoom == Len(queue) < QueueSize

Busy == \E u \in Users : at[u] # "idle"

\* The pending confirmation is locked while it is renewed or spent.
TokenFree == \A u \in Users : at[u] # "idle" => asked[u].kind \notin {"inspect", "force"}

Makes(c, call) ==
  /\ at[c] = "idle" /\ left.calls[c] > 0
  /\ made' = made + 1 /\ left' = [left EXCEPT !.calls[c] = @ - 1]
  /\ asked' = [asked EXCEPT ![c] = call]
  /\ got' = [got EXCEPT ![c] = Reply("none", 0)]

Call(u) ==
  /\ \E kind \in {"read", "once", "inspect"} :
       /\ kind = "inspect" => TokenFree
       /\ Makes(u, [NoCall(u) EXCEPT !.id = made', !.kind = kind])
       /\ token' = IF kind = "inspect" THEN None ELSE token
  /\ at' = [at EXCEPT ![u] = "sending"]
  /\ UNCHANGED <<queue, actor, thread, ran>>

\* force_terminate_occupant: a token of the present epoch is spent on a call
\* that expects this epoch.
ForceTerminate(u) ==
  /\ token # None /\ TokenFree
  /\ token.epoch = epoch
  /\ Makes(u, [NoCall(u) EXCEPT !.id = made', !.kind = "force",
                                !.epoch = token.epoch, !.issuer = token.issuer])
  /\ at' = [at EXCEPT ![u] = "sending"]
  /\ token' = None
  /\ UNCHANGED <<queue, actor, thread, ran>>

\* A token of another epoch, or an expired one, is thrown away.
Expire(u) ==
  /\ token # None /\ TokenFree /\ at[u] = "idle"
  /\ token' = None
  /\ UNCHANGED <<asked, at, got, queue, actor, thread, ran, made, left>>

Send(u) ==
  /\ at[u] = "sending"
  /\ HasRoom
  /\ queue' = Append(queue, asked[u])
  /\ at' = [at EXCEPT ![u] = "waiting"]
  /\ UNCHANGED <<asked, got, token, actor, thread, ran, made, left>>

\* A poll is made only while no user's call is in progress, and never waits
\* for a place in the queue.
Poll ==
  /\ ~ Busy
  /\ HasRoom
  /\ Makes(Poller, [NoCall(Poller) EXCEPT !.id = made'])
  /\ queue' = Append(queue, asked'[Poller])
  /\ at' = [at EXCEPT ![Poller] = "waiting"]
  /\ UNCHANGED <<token, actor, thread, ran>>

-------------------------------------------------------------------------------
(* The actor: run_actor, start_and_handshake, recover, transact *)

\* read_response: the answer to the awaited request.
Matches(r) == r.id = awaited

Arrived == session # 0 /\ thread[session].events # <<>>
Event == Head(thread[session].events)
Answered == Arrived /\ Matches(Event)

\* The threads, with the event the actor has read taken away.
Taken == IF Arrived THEN [thread EXCEPT ![session].events = Tail(@)] ELSE thread

\* The answer to another request, the end of the thread, or the watchdog.
MutantFailed == Arrived /\ ~ Matches(Event)
Failed == ~ Answered

\* transact: the request goes to the session's thread.
Sent(threads, id, call) ==
  [threads EXCEPT ![session].requests = Append(@, [id |-> id, call |-> call])]

Ask(id, call) == awaited' = id /\ thread' = Sent(Taken, id, call)

\* The caller gets its reply and the actor turns to the next call.
Tell(reply) ==
  /\ at' = [at EXCEPT ![current.by] = "idle"]
  /\ got' = [got EXCEPT ![current.by] = reply]
  /\ doing' = "idle" /\ current' = None
  /\ UNCHANGED <<asked, queue, epoch, ran, made, left>>

\* request_id += 1
MutantFollowing(id) == id
Following(id) == id + 1

MutantUnexpected(call) == FALSE
Unexpected(call) == call.epoch \notin {None, epoch}

\* The next call is sent to the session, if there is one; what the session's
\* thread said in the meantime is not read before.
Take ==
  /\ doing = "idle" /\ queue # <<>>
  /\ ~ Unexpected(Head(queue))
  /\ queue' = Tail(queue) /\ current' = Head(queue)
  /\ doing' = "asking"
  /\ IF session = 0
     THEN UNCHANGED <<awaited, thread>>
     ELSE /\ awaited' = nextId
          /\ thread' = Sent(thread, nextId, Head(queue))
  /\ UNCHANGED <<clients, nextId, session, epoch, recovered, ran, made, left>>

\* OCCUPANT_CHANGED: the call expects another session.
TakeUnexpected ==
  /\ doing = "idle" /\ queue # <<>>
  /\ Unexpected(Head(queue))
  /\ queue' = Tail(queue)
  /\ LET call == Head(queue) IN
       /\ at' = [at EXCEPT ![call.by] = "idle"]
       /\ got' = [got EXCEPT ![call.by] = Reply("changed", call.id)]
  /\ UNCHANGED <<asked, token, actor, thread, ran, made, left>>

\* An inspection may have found an occupant that can be terminated; its token
\* goes with the epoch of the reply.
Answer ==
  /\ doing \in {"asking", "retry"}
  /\ Answered
  /\ nextId' = Following(nextId)
  /\ thread' = Taken
  /\ Tell(Reply("answer", Event.call.id))
  /\ \/ UNCHANGED token
     \/ current.kind = "inspect" /\ token' = [epoch |-> epoch, issuer |-> session]
  /\ UNCHANGED <<awaited, session, recovered>>

\* request_must_not_replay
MutantNotReplayed(call) == call.kind = "force"
NotReplayed(call) == call.kind \in {"once", "force"}

\* A call that fails for the first time takes the session with it.  The thread
\* is not stopped: it only finds its channels closed when it next uses them.
Recover ==
  /\ doing = "asking" /\ Failed /\ ~ recovered
  /\ recovered' = TRUE
  /\ nextId' = Following(nextId)
  /\ epoch' = IF session = 0 THEN epoch ELSE epoch + 1
  /\ session' = 0
  /\ thread' = Taken
  /\ doing' = "spawn"
  /\ UNCHANGED <<clients, queue, current, awaited, ran, made, left>>

\* After that the session, if any, is kept whatever happens.  A session that
\* was refused at startup may have left an error that is not recovered from.
Fail ==
  /\ (doing = "asking" /\ (recovered \/ session = 0)) \/ doing = "retry"
  /\ Failed
  /\ nextId' = Following(nextId)
  /\ thread' = Taken
  /\ Tell(Reply("failed", current.id)) /\ UNCHANGED token
  /\ UNCHANGED <<awaited, session, recovered>>

\* A new session: the first at startup, the second in recovery.
Spawn ==
  /\ doing = "spawn"
  /\ \E s \in Sessions :
       /\ thread[s].life = "none" /\ \A r \in 1..(s - 1) : thread[r].life # "none"
       /\ session' = s
       /\ thread' = [thread EXCEPT ![s].life = "up",
                                   ![s].requests = <<[id |-> 0, call |-> Own("info")]>>]
  /\ awaited' = 0
  /\ doing' = "handshake"
  /\ UNCHANGED <<clients, queue, current, nextId, epoch, recovered, ran, made, left>>

\* The session cannot be created, does not answer its first requests in time,
\* or answers them with an error or a router state that is not expected: it is
\* dropped.  In recovery this is the reply to the call.
NoSession ==
  /\ \/ doing = "spawn"
     \/ doing \in {"handshake", "status", "start"} /\ (Failed \/ Answered)
  /\ session' = 0
  /\ thread' = Taken
  /\ IF current = None
     THEN doing' = "idle" /\ UNCHANGED <<clients, queue, current, epoch, ran, made, left>>
     ELSE Tell(Reply("failed", current.id)) /\ UNCHANGED token
  /\ UNCHANGED <<nextId, awaited, recovered>>

\* The recovered session serves the call again, or only calls to come.
Resume(id) ==
  IF NotReplayed(current)
  THEN thread' = Taken /\ Tell(Reply("failed", current.id)) /\ UNCHANGED <<token, awaited>>
  ELSE Ask(id, current) /\ doing' = "retry"
       /\ UNCHANGED <<clients, queue, current, epoch, ran, made, left>>

Handshaken ==
  /\ doing = "handshake" /\ Answered
  /\ IF current = None
     THEN doing' = "idle" /\ thread' = Taken /\ UNCHANGED awaited
     ELSE doing' = "status" /\ Ask(nextId, Own("status"))
  /\ UNCHANGED <<clients, queue, current, nextId, session, epoch, recovered, ran, made, left>>

\* A stale or degraded router is started again before the call is.
StatusRead ==
  /\ doing = "status" /\ Answered
  /\ nextId' = Following(nextId)
  /\ \/ Resume(nextId')
     \/ /\ doing' = "start" /\ Ask(nextId', Own("start"))
        /\ UNCHANGED <<clients, queue, current, epoch, ran, made, left>>
  /\ UNCHANGED <<session, recovered>>

Restarted ==
  /\ doing = "start" /\ Answered
  /\ nextId' = Following(nextId)
  /\ Resume(nextId')
  /\ UNCHANGED <<session, recovered>>

Actor ==
  \/ Take \/ TakeUnexpected \/ Answer \/ Recover \/ Fail
  \/ Spawn \/ NoSession \/ Handshaken \/ StatusRead \/ Restarted

-------------------------------------------------------------------------------
(* A session's thread: start_session, serve_line *)

Becomes(s, t) ==
  /\ thread' = [thread EXCEPT ![s] = t]
  /\ UNCHANGED <<clients, queue, actor>>

\* A request that was sent is served even if the actor has dropped the session.
Serve(s) ==
  /\ thread[s].life = "up" /\ thread[s].busy = None /\ thread[s].requests # <<>>
  /\ Becomes(s, [thread[s] EXCEPT !.busy = Head(thread[s].requests),
                                  !.requests = Tail(@), !.done = FALSE])
  /\ UNCHANGED <<ran, made, left>>

Execute(s) ==
  /\ thread[s].life = "up" /\ thread[s].busy # None /\ ~ thread[s].done
  /\ ran' = ran \union {[request |-> thread[s].busy, session |-> s]}
  /\ Becomes(s, [thread[s] EXCEPT !.done = TRUE])
  /\ UNCHANGED <<made, left>>

\* The thread of a dropped session ends when it cannot send its answer.
Respond(s) ==
  /\ thread[s].life = "up" /\ thread[s].busy # None /\ thread[s].done
  /\ Becomes(s, [thread[s] EXCEPT
                   !.busy = None, !.done = FALSE,
                   !.life = IF session = s THEN "up" ELSE "dead",
                   !.events = IF session = s THEN Append(@, thread[s].busy) ELSE @])
  /\ UNCHANGED <<ran, made, left>>

\* ... or has nothing more to do.
End(s) ==
  /\ thread[s].life = "up" /\ session # s
  /\ thread[s].busy = None /\ thread[s].requests = <<>>
  /\ Becomes(s, [thread[s] EXCEPT !.life = "dead"])
  /\ UNCHANGED <<ran, made, left>>

\* A handler panics, before or after its effect.
Panic(s) ==
  /\ thread[s].life = "up" /\ thread[s].busy # None
  /\ left.panics > 0
  /\ left' = [left EXCEPT !.panics = @ - 1]
  /\ UNCHANGED made
  /\ Becomes(s, [thread[s] EXCEPT !.life = "dead", !.busy = None])
  /\ UNCHANGED ran

Thread(s) == Serve(s) \/ Execute(s) \/ Respond(s) \/ End(s) \/ Panic(s)

Next ==
  \/ \E u \in Users : Call(u) \/ ForceTerminate(u) \/ Expire(u) \/ Send(u)
  \/ Poll
  \/ Actor
  \/ \E s \in Sessions : Thread(s)

Spec == Init /\ [][Next]_vars

\* The actor's task runs, and its watchdogs fire; a caller blocked on the queue
\* gets its place.  Nothing makes a handler come to an end.
FairSpec == Spec /\ WF_vars(Actor) /\ \A u \in Users : SF_vars(Send(u))

-------------------------------------------------------------------------------
(* Properties *)

\* "Secret-bearing calls are never automatically replayed": a call that must
\* not be replayed is executed once at most, whatever became of its answer.
NeverReplayed ==
  \A x, y \in ran :
    x.request.call = y.request.call /\ x.request.call.kind \in {"once", "force"}
      => x = y

\* An answer told to a caller is the answer to its own call: an answer that
\* comes after the watchdog is never taken for that of a later call.
OwnAnswer == \A c \in Callers : got[c].what = "answer" => got[c].of = asked[c].id

\* A confirmation reaches only the session that issued it, although calls
\* queued before it may replace the session in the meantime.
ForceInIssuer ==
  \A x \in ran : x.request.call.kind = "force" => x.session = x.request.call.issuer

\* Every call is answered, although handlers may never end.
CallsAnswered == \A c \in Callers : at[c] # "idle" ~> at[c] = "idle"

===============================================================================
