------------------------------- MODULE Identity -------------------------------
(* The device's own certificate: the state file every client of a data
   directory shares, the clients that log in, poll, renew, log out and sweep
   what is left to revoke, the router's requests that use the certificate, and
   the enrolment server that issues and revokes it.

   Each change of the state file is one step: it is a read, a change and an
   atomic replacement under an exclusive file lock.  A client waits for the
   server between two changes, and everything may happen meanwhile.  A failed
   replacement is reported as an error whether or not the new state is already
   on disk.  A request or its answer may be lost; a client may stop anywhere (the
   two-second limit of a sweep cancels it the same way).

   A login makes one device, one key and one transaction of the server, so the
   three are one number; a renewal makes one operation and one key.  Clocks
   agree and move in whole ticks; an HTTP request takes less than one. *)
EXTENDS Naturals, FiniteSets

CONSTANTS Clients,      \* processes that use the data directory
          None,
          MaxTodo,      \* revocations and cancellations kept (32)
          Life,         \* ticks a certificate is valid
          RenewBefore,  \* ticks before its end a certificate may be renewed
          Recovery,     \* ticks a server repeats an answer
          Ttl,          \* ticks an enrolment may take
          MaxLogins,    \* bound on logins
          Budgets       \* how much may happen in a run: one is chosen at the start

\* Bounds: logins, renewals, ticks, requests of the router, lost messages,
\* crashes of a client, failures of a write.
Counts == [logins: 0..MaxLogins, renewals: Nat, ticks: Nat, requests: Nat,
           losses: Nat, crashes: Nat, faults: Nat]

\* The serial number of a certificate is its device and key (0: the login's).
Cert == [dev: Nat, key: Nat, until: Nat]
Pending == [dev: Nat, created: Nat, started: BOOLEAN]

ASSUME IdentityAssumption ==
  /\ MaxTodo \in Nat /\ Life \in Nat /\ RenewBefore \in Nat
  /\ Recovery \in Nat /\ Ttl \in Nat /\ MaxLogins \in Nat
  /\ Budgets \subseteq Counts /\ None \notin Cert \union Pending

VARIABLES state,    \* state.json
          call,     \* what each client is doing
          request,  \* the router's request to the relay, if any
          now,
          txn, issued, renewed, revoked, handed, published, disabled,  \* the server
          shown,    \* devices whose verification address the user was given
          refused,  \* certificates the gateway turned down
          left      \* what is left of the budget

server == <<txn, issued, renewed, revoked, handed, published, disabled>>
others == <<request, now, shown, refused>>
vars == <<state, call, request, now, server, shown, refused, left>>

Devices == 1..MaxLogins
Todo == [cert: Cert, op: Nat]
Cancellation == [dev: Nat, created: Nat]
Errors == {"none", "rejected", "reauth", "other"}

Idle == [at |-> "idle", gen |-> 0, dev |-> 0, op |-> 0, cert |-> None, live |-> FALSE,
         reply |-> "none", answer |-> None, cancels |-> {}, revs |-> {}]

Awaiting == {"start", "poll", "recover", "renew", "cancel", "trace", "revoke"}

TypeOK ==
  /\ state \in [gen: Nat, active: Cert \union {None}, pending: Pending \union {None},
                renewal: Nat, revs: SUBSET Todo, cancels: SUBSET Cancellation,
                err: Errors]
  /\ \A a \in Clients :
       /\ call[a].at \in Awaiting \union {"idle", "flush", "read", "sweep"}
       /\ call[a].reply \in {"none", "ok", "cert", "wait", "done", "conflict",
                             "rejected", "reauth", "network"}
       /\ call[a].reply = "cert" => call[a].answer \in issued
  /\ request \in [gen: Nat, cert: Cert] \union {None}
  /\ now \in Nat /\ left \in Counts
  /\ txn \in [Devices -> [status: {"none", "pending", "approved", "denied", "issued",
                                   "cancelled", "expired", "revocation_pending"},
                          at: Nat]]
  /\ issued \subseteq Cert /\ revoked \subseteq issued /\ published \subseteq revoked
  /\ handed \subseteq revoked
  /\ renewed \subseteq [op: Nat, old: Cert, new: Cert, until: Nat]
  /\ disabled \subseteq Devices /\ shown \subseteq Devices /\ refused \subseteq issued

Init ==
  /\ state = [gen |-> 0, active |-> None, pending |-> None, renewal |-> 0,
              revs |-> {}, cancels |-> {}, err |-> "none"]
  /\ call = [a \in Clients |-> Idle]
  /\ request = None /\ now = 0
  /\ txn = [d \in Devices |-> [status |-> "none", at |-> 0]]
  /\ issued = {} /\ renewed = {} /\ revoked = {} /\ handed = {} /\ published = {} /\ disabled = {}
  /\ shown = {} /\ refused = {}
  /\ left \in Budgets

-----------------------------------------------------------------------------
(* The state file. *)

\* atomic_write: a failure is reported before or after the file is replaced.
Written(new) == {state, new}

\* change(): the operation's new state is written and the client goes on, or
\* the write fails, before or after the replacement, and the call ends.
Change(a, new, next) ==
  \/ state' = new /\ call' = [call EXCEPT ![a] = next] /\ UNCHANGED left
  \/ /\ left.faults > 0
     /\ left' = [left EXCEPT !.faults = @ - 1]
     /\ state' \in Written(new)
     /\ call' = [call EXCEPT ![a] = Idle]

\* retire() gives up when its two lists are full.
CanRetire ==
  /\ state.active # None => Cardinality(state.revs) < MaxTodo
  /\ state.pending # None => Cardinality(state.cancels) < MaxTodo

\* A login that is to be cancelled and is still waited for.
MutantKeepsPending ==
  [state EXCEPT
     !.active = None, !.renewal = 0,
     !.revs = IF state.active = None THEN @
              ELSE @ \union {[cert |-> state.active, op |-> state.renewal]},
     !.cancels = IF state.pending = None THEN @
                 ELSE @ \union {[dev |-> p.dev, created |-> p.created] :
                                  p \in {q \in {state.pending} : q.started}},
     !.gen = @ + 1, !.err = "none"]

Retired ==
  [state EXCEPT
     !.active = None, !.pending = None, !.renewal = 0,
     !.revs = IF state.active = None THEN @
              ELSE @ \union {[cert |-> state.active, op |-> state.renewal]},
     !.cancels = IF state.pending = None THEN @
                 ELSE @ \union {[dev |-> p.dev, created |-> p.created] :
                                  p \in {q \in {state.pending} : q.started}},
     !.gen = @ + 1, !.err = "none"]

Returns(a) == call' = [call EXCEPT ![a] = Idle]

-----------------------------------------------------------------------------
(* Logging in. *)

\* connect(): begin_login, then the request is sent.
Connect(a) ==
  /\ call[a].at = "idle" /\ left.logins > 0
  /\ CanRetire
  /\ LET d == left.logins
         new == [Retired EXCEPT !.pending = [dev |-> d, created |-> now, started |-> FALSE]]
     IN \/ /\ state' = new
           /\ call' = [call EXCEPT ![a] = [Idle EXCEPT !.at = "start", !.gen = new.gen,
                                                       !.dev = d]]
           /\ left' = [left EXCEPT !.logins = @ - 1]
        \/ /\ left.faults > 0
           /\ left' = [left EXCEPT !.logins = @ - 1, !.faults = @ - 1]
           /\ state' = new /\ UNCHANGED call
  /\ UNCHANGED <<server, others>>

ServeStart(a) ==
  /\ call[a].at = "start" /\ call[a].reply = "none"
  /\ txn' = [txn EXCEPT ![call[a].dev] = [status |-> "pending", at |-> now]]
  /\ call' = [call EXCEPT ![a].reply = "ok"]
  /\ UNCHANGED <<state, issued, renewed, revoked, handed, published, disabled, others, left>>

\* The answer is recorded, and the user is given the address; or another login
\* or logout came between, and the call fails.
RecordStarted(a) ==
  /\ call[a].at = "start" /\ call[a].reply = "ok"
  /\ IF state.gen = call[a].gen /\ state.pending # None
     THEN /\ Change(a, [state EXCEPT !.pending.started = TRUE], Idle)
          /\ shown' = IF left' = left THEN shown \union {call[a].dev} ELSE shown
     ELSE Returns(a) /\ UNCHANGED <<state, shown, left>>
  /\ UNCHANGED <<server, request, now, refused>>

\* The user, in a browser, approves the enrolment or is turned down.
Browser(d) ==
  /\ d \in shown /\ txn[d].status = "pending" /\ now < txn[d].at + Ttl
  /\ \E verdict \in {"approved", "denied"} :
       txn' = [txn EXCEPT ![d].status = verdict]
  /\ UNCHANGED <<state, call, issued, renewed, revoked, handed, published, disabled, others, left>>

\* poll() reads the state without changing it.
Poll(a) ==
  /\ call[a].at = "idle"
  /\ state.pending # None /\ state.pending.started
  /\ call' = [call EXCEPT ![a] = [Idle EXCEPT !.at = "poll", !.gen = state.gen,
                                              !.dev = state.pending.dev]]
  /\ UNCHANGED <<state, server, others, left>>

\* The certificate of a device's login.  txn[d].at is when it was issued.
IssuedTo(d) == {c \in issued : c.dev = d /\ c.key = 0}

\* The server's answer to a poll.  An approved enrolment is issued here.
ServePoll(a) ==
  LET d == call[a].dev
      t == txn[d]
      late == t.status # "issued" /\ now >= t.at + Ttl
      Answers(code) == /\ call' = [call EXCEPT ![a].reply = code]
                       /\ UNCHANGED <<txn, issued>>
      Gives(c) == call' = [call EXCEPT ![a].reply = "cert", ![a].answer = c]
  IN /\ call[a].at = "poll" /\ call[a].reply = "none"
     /\ \/ t.status = "revocation_pending" /\ Answers("rejected")
        \/ t.status = "cancelled" /\ ~ late /\ Answers("rejected")
        \/ t.status \in {"denied", "expired"} /\ ~ late /\ Answers("reauth")
        \/ /\ late /\ t.status # "revocation_pending"
           /\ txn' = [txn EXCEPT ![d].status = "expired"]
           /\ call' = [call EXCEPT ![a].reply = "reauth"]
           /\ UNCHANGED issued
        \/ t.status = "pending" /\ ~ late /\ Answers("wait")
        \/ /\ t.status = "approved" /\ ~ late
           /\ LET c == [dev |-> d, key |-> 0, until |-> now + Life]
              IN issued' = issued \union {c} /\ Gives(c)
           /\ txn' = [txn EXCEPT ![d] = [status |-> "issued", at |-> now]]
        \/ /\ t.status = "issued"
           /\ \E c \in IssuedTo(d) :
                \/ d \in disabled /\ Answers("rejected")
                \/ d \notin disabled /\ now >= t.at + Recovery /\ Answers("reauth")
                \/ /\ d \notin disabled /\ now < t.at + Recovery
                   /\ IF c \in revoked THEN Answers("rejected")
                      ELSE Gives(c) /\ UNCHANGED <<txn, issued>>
     /\ UNCHANGED <<state, renewed, revoked, handed, published, disabled, others, left>>

\* IdentityTrust::validate: a certificate for this device and key, still valid.
Trusted(c, dev, key) == c.dev = dev /\ c.key = key /\ now < c.until

\* activate_login: the same generation still waits for this device's certificate.
ActivateLogin(a) ==
  LET c == call[a].answer
  IN /\ call[a].at = "poll" /\ call[a].reply = "cert"
     /\ IF /\ state.gen = call[a].gen /\ state.pending # None
           /\ Trusted(c, state.pending.dev, 0)
        THEN Change(a, [state EXCEPT !.active = c, !.pending = None, !.err = "none"], Idle)
        ELSE Returns(a) /\ UNCHANGED <<state, left>>
     /\ UNCHANGED <<server, others>>

Waits(a) ==
  /\ call[a].at = "poll" /\ call[a].reply = "wait"
  /\ Returns(a) /\ UNCHANGED <<state, server, others, left>>

MutantNoteError(a) ==
  /\ call[a].at \in {"start", "poll", "recover", "renew"}
  /\ call[a].reply \in {"network", "rejected", "reauth", "conflict"}
  /\ call[a].at = "recover" => ~ (call[a].reply = "conflict" /\ call[a].live)
  /\ IF state.gen = call[a].gen
     THEN Change(a, [state EXCEPT !.err = IF call[a].reply \in {"rejected", "reauth"}
                                          THEN call[a].reply ELSE "other"], Idle)
     ELSE Returns(a) /\ UNCHANGED <<state, left>>
  /\ UNCHANGED <<server, others>>

\* note_error: the failure is kept only while there is a login or a renewal of
\* the same generation that it can be about.
NoteError(a) ==
  LET code == IF call[a].reply \in {"rejected", "reauth"} THEN call[a].reply ELSE "other"
  IN /\ call[a].at \in {"start", "poll", "recover", "renew"}
     /\ call[a].reply \in {"network", "rejected", "reauth", "conflict"}
     /\ call[a].at = "recover" => ~ (call[a].reply = "conflict" /\ call[a].live)
     /\ IF /\ state.gen = call[a].gen
           /\ state.pending # None \/ state.renewal # 0
        THEN Change(a, [state EXCEPT !.err = code], Idle)
        ELSE Returns(a) /\ UNCHANGED <<state, left>>
     /\ UNCHANGED <<server, others>>

-----------------------------------------------------------------------------
(* Renewing. *)

\* begin_renewal: an operation already begun is taken up again.
Renew(a) ==
  LET again == state.renewal # 0
      op == IF again THEN state.renewal ELSE left.renewals
      next == [Idle EXCEPT !.at = "recover", !.gen = state.gen, !.op = op,
                           !.cert = state.active, !.live = now < state.active.until]
  IN /\ call[a].at = "idle" /\ state.active # None
     /\ \/ again /\ call' = [call EXCEPT ![a] = next] /\ UNCHANGED <<state, left>>
        \/ /\ ~ again /\ left.renewals > 0
           /\ now < state.active.until /\ state.active.until <= now + RenewBefore
           /\ state' = [state EXCEPT !.renewal = op]
           /\ \/ /\ call' = [call EXCEPT ![a] = next]
                 /\ left' = [left EXCEPT !.renewals = @ - 1]
              \/ /\ left.faults > 0 /\ UNCHANGED call
                 /\ left' = [left EXCEPT !.renewals = @ - 1, !.faults = @ - 1]
     /\ UNCHANGED <<server, others>>

\* readPredecessor, of a certificate that is being renewed.
Refused(c, recoverOnly) ==
  \/ c.dev \in disabled
  \/ c \in revoked /\ ~ (recoverOnly /\ c \in handed)

Outcome(code, c) == [code |-> code, cert |-> c]

\* recoverRenewal: what became of an operation on a certificate.
Recovered(op, old) ==
  LET done == {r \in renewed : r.op = op /\ r.old = old}
  IN IF Refused(old, TRUE) THEN Outcome("rejected", None)
     ELSE IF done = {} THEN Outcome("conflict", None)
     ELSE LET r == CHOOSE x \in done : TRUE
          IN IF now >= r.until THEN Outcome("reauth", None)
             ELSE IF r.new \in revoked \/ now >= r.new.until THEN Outcome("rejected", None)
             ELSE Outcome("cert", r.new)

ServeRecover(a) ==
  /\ call[a].at \in {"recover", "trace"} /\ call[a].reply = "none"
  /\ LET o == Recovered(call[a].op, call[a].cert)
     IN call' = [call EXCEPT ![a].reply = o.code, ![a].answer = o.cert]
  /\ UNCHANGED <<state, server, others, left>>

\* The operation is not known yet and the certificate is still valid.
AskRenewal(a) ==
  /\ call[a].at = "recover" /\ call[a].reply = "conflict" /\ call[a].live
  /\ call' = [call EXCEPT ![a].at = "renew", ![a].reply = "none"]
  /\ UNCHANGED <<state, server, others, left>>

\* renew: the predecessor's successor, once.
ServeRenew(a) ==
  LET old == call[a].cert
      o == Recovered(call[a].op, old)
      new == [dev |-> old.dev, key |-> call[a].op, until |-> now + Life]
      Answers(code, c) == /\ call' = [call EXCEPT ![a].reply = code, ![a].answer = c]
                          /\ UNCHANGED <<issued, renewed>>
  IN /\ call[a].at = "renew" /\ call[a].reply = "none"
     /\ IF Refused(old, FALSE) \/ old \in published \/ now >= old.until
        THEN Answers("rejected", None)
        ELSE IF o.code # "conflict" THEN Answers(o.code, o.cert)
        ELSE IF old.until > now + RenewBefore \/ \E r \in renewed : r.old = old
        THEN Answers("conflict", None)
        ELSE IF new.until <= old.until THEN Answers("reauth", None)
        ELSE /\ issued' = issued \union {new}
             /\ renewed' = renewed \union {[op |-> call[a].op, old |-> old, new |-> new,
                                            until |-> now + Recovery]}
             /\ call' = [call EXCEPT ![a].reply = "cert", ![a].answer = new]
     /\ UNCHANGED <<state, txn, revoked, handed, published, disabled, others, left>>

\* A renewed certificate under the old generation.
MutantActivateRenewal(a) ==
  LET c == call[a].answer
  IN /\ call[a].at \in {"recover", "renew"} /\ call[a].reply = "cert"
     /\ IF state.gen = call[a].gen /\ state.renewal = call[a].op /\ state.active # None
        THEN Change(a, [state EXCEPT !.active = c, !.renewal = 0, !.err = "none"], Idle)
        ELSE Returns(a) /\ UNCHANGED <<state, left>>
     /\ UNCHANGED <<server, others>>

\* activate_renewal: for the same generation, the operation under way and its
\* key; a later certificate of the same device.
ActivateRenewal(a) ==
  LET c == call[a].answer
      fits == /\ state.gen = call[a].gen /\ state.active # None
              /\ state.renewal # 0 /\ state.renewal = call[a].op
              /\ c # state.active /\ c.until > state.active.until
              /\ Trusted(c, state.active.dev, state.renewal)
  IN /\ call[a].at \in {"recover", "renew"} /\ call[a].reply = "cert"
     /\ IF fits
        THEN Change(a, [state EXCEPT !.active = c, !.renewal = 0, !.err = "none",
                                     !.gen = @ + 1], Idle)
        ELSE Returns(a) /\ UNCHANGED <<state, left>>
     /\ UNCHANGED <<server, others>>

-----------------------------------------------------------------------------
(* Logging out, and what is left to cancel or revoke at the server. *)

\* logout(): disable_local, then a sweep.
Logout(a) ==
  /\ call[a].at = "idle" /\ CanRetire
  /\ state.active # None \/ state.pending # None
  /\ Change(a, Retired, [Idle EXCEPT !.at = "flush"])
  /\ UNCHANGED <<server, others>>

\* No time allowed for a successor.
MutantPruned ==
  [state EXCEPT
     !.revs = {t \in @ : now < t.cert.until},
     !.cancels = {p \in @ : now < p.created + Ttl + Life}]

\* What can no longer be valid at the server is forgotten.
Pruned ==
  [state EXCEPT
     !.revs = {t \in @ : now < t.cert.until + (IF t.op # 0 THEN Life ELSE 0)},
     !.cancels = {p \in @ : now < p.created + Ttl + Life}]

Prune(a) ==
  /\ \/ call[a].at = "flush"
     \/ call[a].at = "idle" /\ (state.revs # {} \/ state.cancels # {})
  /\ Change(a, Pruned, [Idle EXCEPT !.at = "read"])
  /\ UNCHANGED <<server, others>>

\* The sweep goes on with what is left of its own copy of the lists.
Sweeping(cancels, revs) ==
  IF cancels = {} /\ revs = {} THEN Idle
  ELSE [Idle EXCEPT !.at = "sweep", !.cancels = cancels, !.revs = revs]

ReadTodos(a) ==
  /\ call[a].at = "read"
  /\ call' = [call EXCEPT ![a] = Sweeping(state.cancels, state.revs)]
  /\ UNCHANGED <<state, server, others, left>>

NextTodo(a) ==
  /\ call[a].at = "sweep"
  /\ \/ \E p \in call[a].cancels :
          call' = [call EXCEPT ![a] = [call[a] EXCEPT !.at = "cancel", !.dev = p.dev,
                                                      !.cancels = @ \ {p}]]
     \/ /\ call[a].cancels = {}
        /\ \E t \in call[a].revs :
             call' = [call EXCEPT ![a] =
                        [call[a] EXCEPT !.at = IF t.op # 0 THEN "trace" ELSE "revoke",
                                        !.op = t.op, !.cert = t.cert, !.revs = @ \ {t}]]
  /\ UNCHANGED <<state, server, others, left>>

Loaded(set) == set \subseteq published

\* The publication of the revocation is never looked at.
MutantServeCancel(a) ==
  LET d == call[a].dev
      pending == txn[d].status \in {"issued", "revocation_pending"}
  IN /\ call[a].at = "cancel" /\ call[a].reply = "none"
     /\ txn' = [txn EXCEPT ![d].status =
                  IF pending THEN "revocation_pending" ELSE "cancelled"]
     /\ revoked' = IF txn[d].status = "issued" THEN revoked \union IssuedTo(d) ELSE revoked
     /\ call' = [call EXCEPT ![a].reply = IF pending THEN "wait" ELSE "done"]
     /\ UNCHANGED <<state, issued, renewed, handed, published, disabled, others, left>>

\* cancelResult: a certificate already issued is revoked.
ServeCancel(a) ==
  LET d == call[a].dev
      pending == txn[d].status \in {"issued", "revocation_pending"}
      status == IF pending THEN "revocation_pending" ELSE "cancelled"
  IN /\ call[a].at = "cancel" /\ call[a].reply = "none"
     /\ txn' = [txn EXCEPT ![d].status = status]
     /\ revoked' = IF txn[d].status = "issued" THEN revoked \union IssuedTo(d) ELSE revoked
     /\ call' = [call EXCEPT ![a].reply =
                   IF pending /\ ~ Loaded(revoked') THEN "wait" ELSE "done"]
     /\ UNCHANGED <<state, issued, renewed, handed, published, disabled, others, left>>

\* The certificate the revocation is signed with: the successor when the
\* server told of one.
Target(a) == IF call[a].answer # None THEN call[a].answer ELSE call[a].cert

Traced(a) ==
  /\ call[a].at = "trace" /\ call[a].reply # "none"
  /\ call' = [call EXCEPT ![a].at = "revoke", ![a].reply = "none"]
  /\ UNCHANGED <<state, server, others, left>>

\* revokeDevice: every certificate of the device, and the device for good.
ServeRevoke(a) ==
  LET c == Target(a)
      answer == IF Loaded(revoked') THEN "done" ELSE "wait"
      Answers(code) == /\ call' = [call EXCEPT ![a].reply = code]
                       /\ UNCHANGED <<revoked, disabled>>
  IN /\ call[a].at = "revoke" /\ call[a].reply = "none"
     /\ \/ c.dev \in disabled /\ UNCHANGED <<revoked, disabled>>
           /\ call' = [call EXCEPT ![a].reply = answer]
        \/ c.dev \notin disabled /\ c \in revoked /\ Answers("rejected")
        \/ /\ c.dev \notin disabled /\ c \notin revoked
           /\ \E r \in renewed : r.old = c /\ r.until <= now
           /\ Answers("reauth")
        \/ /\ c.dev \notin disabled /\ c \notin revoked
           /\ ~ \E r \in renewed : r.old = c /\ r.until <= now
           /\ revoked' = revoked \union {x \in issued : x.dev = c.dev}
           /\ disabled' = disabled \union {c.dev}
           /\ call' = [call EXCEPT ![a].reply = answer]
     /\ UNCHANGED <<state, txn, issued, renewed, handed, published, others, left>>

\* The server has confirmed: the entry is removed.
Drop(a) ==
  LET next == Sweeping(call[a].cancels, call[a].revs)
  IN /\ call[a].reply = "done"
     /\ \/ /\ call[a].at = "cancel"
           /\ Change(a, [state EXCEPT !.cancels = {p \in @ : p.dev # call[a].dev}], next)
        \/ /\ call[a].at = "revoke"
           /\ Change(a, [state EXCEPT !.revs = {t \in @ : t.cert # call[a].cert}], next)
     /\ UNCHANGED <<server, others>>

\* It has not: the entry stays for the next sweep.
Keep(a) ==
  /\ call[a].at \in {"cancel", "revoke"} /\ call[a].reply \notin {"none", "done"}
  /\ call' = [call EXCEPT ![a] = Sweeping(call[a].cancels, call[a].revs)]
  /\ UNCHANGED <<state, server, others, left>>

-----------------------------------------------------------------------------
(* The network, the clients' ends, the clock and the gateway. *)

\* A request is lost before the server has it, or its answer afterwards.
Lose(a) ==
  /\ call[a].at \in Awaiting /\ call[a].reply # "network"
  /\ left.losses > 0
  /\ call' = [call EXCEPT ![a].reply = "network", ![a].answer = None]
  /\ left' = [left EXCEPT !.losses = @ - 1]
  /\ UNCHANGED <<state, server, others>>

Crash(a) ==
  /\ call[a].at # "idle" /\ left.crashes > 0
  /\ call' = [call EXCEPT ![a] = Idle]
  /\ left' = [left EXCEPT !.crashes = @ - 1]
  /\ UNCHANGED <<state, server, others>>

\* retirePredecessors: the repeat of a renewal's answer has run out.
HandOver ==
  LET past == {r \in renewed : r.until <= now}
      old == {r.old : r \in past} \ revoked
  IN /\ old # {}
     /\ revoked' = revoked \union old /\ handed' = handed \union old
     /\ UNCHANGED <<state, call, txn, issued, renewed, published, disabled, others, left>>

\* A new revocation list is loaded at the gateways.
Publish ==
  /\ published # revoked /\ published' = revoked
  /\ UNCHANGED <<state, call, txn, issued, renewed, revoked, handed, disabled, others, left>>

Tick ==
  /\ left.ticks > 0 /\ left' = [left EXCEPT !.ticks = @ - 1]
  /\ \A a \in Clients : ~ (call[a].at = "start" /\ call[a].reply = "none")
  /\ now' = now + 1
  /\ UNCHANGED <<state, call, server, request, shown, refused>>

\* connector_for_request: a request takes the certificate and its generation.
Snapshot ==
  /\ request = None /\ state.active # None /\ now < state.active.until
  /\ left.requests > 0 /\ left' = [left EXCEPT !.requests = @ - 1]
  /\ request' = [gen |-> state.gen, cert |-> state.active]
  /\ UNCHANGED <<state, call, server, now, shown, refused>>

\* The gateway turns a revoked or expired certificate down, and the router
\* records its verdict if the certificate is still the active one.
Verdict ==
  LET c == request.cert
      no == c \in published \/ now >= c.until
  IN /\ request # None /\ request' = None
     /\ refused' = IF no THEN refused \union {c} ELSE refused
     /\ state' = IF state.gen # request.gen \/ state.active # c THEN state
                 ELSE [state EXCEPT !.err = IF no THEN "rejected"
                                            ELSE IF @ = "rejected" THEN "none" ELSE @]
     /\ UNCHANGED <<call, server, now, shown, left>>

Step(a) ==
  \/ RecordStarted(a) \/ ActivateLogin(a) \/ Waits(a) \/ NoteError(a)
  \/ AskRenewal(a) \/ ActivateRenewal(a)
  \/ ReadTodos(a) \/ NextTodo(a) \/ Traced(a) \/ Drop(a) \/ Keep(a)

Serve(a) ==
  ServeStart(a) \/ ServePoll(a) \/ ServeRecover(a) \/ ServeRenew(a)
  \/ ServeCancel(a) \/ ServeRevoke(a)

Next ==
  \/ \E a \in Clients :
       \/ Connect(a) \/ Poll(a) \/ Renew(a) \/ Logout(a) \/ Prune(a)
       \/ Step(a) \/ Serve(a) \/ Lose(a) \/ Crash(a)
  \/ \E d \in Devices : Browser(d)
  \/ HandOver \/ Publish \/ Tick \/ Snapshot \/ Verdict

Spec == Init /\ [][Next]_vars

\* A client that began goes on, the server answers, lists are published, and
\* the maintenance loop sweeps again and again.
FairSpec ==
  /\ Spec
  /\ \A a \in Clients : WF_vars(Step(a)) /\ WF_vars(Serve(a)) /\ SF_vars(Prune(a))
  /\ WF_vars(Publish)

-----------------------------------------------------------------------------
(* Properties. *)

Accepted(c) == c \in issued /\ c \notin published /\ now < c.until

\* A certificate the gateway would accept always belongs to the login the state
\* file shows, to one it waits for, or to one it still means to revoke: no
\* interleaving of logins, logouts, sweeps, lost answers and crashes leaves a
\* valid certificate that nobody will ever revoke.  Whatever answer was lost, the
\* operation that can ask again for a renewed certificate, and the key it was made
\* for, are kept as long as it is accepted.
NoOrphan ==
  /\ \A c \in issued :
       Accepted(c) =>
         \/ state.active # None /\ state.active.dev = c.dev
         \/ state.pending # None /\ state.pending.dev = c.dev
         \/ \E t \in state.revs : t.cert.dev = c.dev
         \/ \E p \in state.cancels : p.dev = c.dev
  /\ \A r \in renewed :
       Accepted(r.new) =>
         \/ state.active # None /\ state.active = r.old /\ state.renewal = r.op
         \/ state.active # None /\ state.active.dev = r.new.dev /\ state.active.until >= r.new.until
         \/ \E t \in state.revs : \/ t.cert = r.old /\ t.op = r.op
                                  \/ t.cert.dev = r.new.dev /\ t.cert.until >= r.new.until

\* A login that was retired is never taken up again by a late answer.
NoReturn ==
  [][\A t \in state.revs \union state.cancels :
       LET d == IF "cert" \in DOMAIN t THEN t.cert.dev ELSE t.dev
       IN ~ (state'.active # None /\ state'.active.dev = d)]_vars

\* A generation names one certificate: the router's connection pool, keyed by
\* it, never carries a request under a certificate that was replaced.
OneCertificatePerGeneration ==
  [][/\ state'.gen >= state.gen
     /\ (state.active # None /\ state'.gen = state.gen) => state'.active = state.active]_vars

\* An error is shown only of a login or renewal still under way, or because the
\* gateway turned down the certificate now in use: a late failure never marks a
\* connection that another client has completed meanwhile.
ErrorIsCurrent ==
  state.err # "none" /\ state.pending = None /\ state.renewal = 0
    => state.err = "rejected" /\ state.active # None /\ state.active \in refused

\* What is left to cancel or revoke is dealt with in the end.  The exception is
\* a certificate whose renewal was answered, the answer lost, and the time to
\* ask for it again gone by: the server takes no revocation signed with the old
\* key any more.
Owed(d) == (\E t \in state.revs : t.cert.dev = d) \/ (\E p \in state.cancels : p.dev = d)
TooLate(d) == \E r \in renewed : r.old.dev = d /\ r.until <= now

TodosDischarged == \A d \in Devices : Owed(d) ~> (~ Owed(d) \/ TooLate(d))

=============================================================================
