----------------------------- MODULE IdentityProofs -----------------------------
(* Safety of the device's own certificate, for any number of clients, logins,
   renewals, faults and crashes, and for any times and limits. *)
EXTENDS Identity, TLAPS

-----------------------------------------------------------------------------
(* Types. *)

States == [gen: Nat, active: Cert \union {None}, pending: Pending \union {None},
           renewal: Nat, revs: SUBSET Todo, cancels: SUBSET Cancellation, err: Errors]
Places == Awaiting \union {"idle", "flush", "read", "sweep"}
Codes == {"none", "ok", "cert", "wait", "done", "conflict", "rejected", "reauth", "network"}
CallRecords == [at: Places, gen: Nat, dev: Nat, op: Nat, cert: Cert \union {None},
                live: BOOLEAN, reply: Codes, answer: Cert \union {None},
                cancels: SUBSET Cancellation, revs: SUBSET Todo]
Verdicts == {"none", "pending", "approved", "denied", "issued",
             "cancelled", "expired", "revocation_pending"}

\* A client's call: a login has a device, and what it asks about, is answered and
\* means to revoke are certificates of the server.
Fits(c) ==
  /\ c \in CallRecords
  /\ c.at \in {"start", "poll"} => c.dev \in Devices
  /\ c.at \in {"recover", "renew", "trace", "revoke"} => c.cert \in issued
  /\ c.reply = "cert" \/ c.answer # None => c.answer \in issued
  /\ \A t \in c.revs : t.cert \in issued

\* The same of the state file.
StateFits(x) ==
  /\ x \in States
  /\ x.active # None => x.active \in issued
  /\ x.pending # None => x.pending.dev \in Devices
  /\ \A t \in x.revs : t.cert \in issued

\* Every certificate anybody keeps is one the server issued to a device.
FromServer ==
  /\ call \in [Clients -> CallRecords]
  /\ \A a \in Clients : Fits(call[a])
  /\ StateFits(state)
  /\ request # None => request.cert \in issued
  /\ \A r \in renewed : r.old \in issued /\ r.new \in issued
  /\ \A c \in issued : c.dev \in Devices

TypeInv == TypeOK /\ FromServer

Calls == call \in [Clients -> CallRecords] /\ \A a \in Clients : Fits(call[a])

LEMMA Idles == Idle \in CallRecords /\ Fits(Idle)
  BY DEF Idle, CallRecords, Places, Codes, Fits, Devices

\* What one client's call becomes, while the server issues more certificates.
LEMMA Becoming ==
  ASSUME Calls, issued \subseteq issued',
         NEW a \in Clients, NEW c \in CallRecords, call' = [call EXCEPT ![a] = c],
         /\ c.at \in {"start", "poll"} => c.dev \in Devices
         /\ c.at \in {"recover", "renew", "trace", "revoke"} => c.cert \in issued'
         /\ c.reply = "cert" \/ c.answer # None => c.answer \in issued'
         /\ \A t \in c.revs : t.cert \in issued'
  PROVE  Calls'
<1>1. call' \in [Clients -> CallRecords]
  BY DEF Calls
<1>2. ASSUME NEW b \in Clients PROVE Fits(call[b])'
  <2>1. CASE b = a
    <3>1. call'[b] = c
      BY <2>1 DEF Calls
    <3>2. QED
      BY <3>1 DEF Fits
  <2>2. CASE b # a
    <3>1. call'[b] = call[b] /\ Fits(call[b])
      BY <2>2 DEF Calls
    <3>2. QED
      BY <3>1 DEF Fits
  <2>3. QED
    BY <2>1, <2>2
<1>3. QED
  BY <1>1, <1>2 DEF Calls

LEMMA Unmoved ==
  ASSUME Calls, issued \subseteq issued', call' = call
  PROVE  Calls'
<1>1. ASSUME NEW b \in Clients PROVE Fits(call[b])'
  <2>1. Fits(call[b]) /\ call'[b] = call[b]
    BY DEF Calls
  <2>2. QED
    BY <2>1 DEF Fits
<1>2. QED
  BY <1>1 DEF Calls

LEMMA Held == TypeInv => Calls /\ StateFits(state) /\ left \in Counts
  BY DEF TypeInv, TypeOK, FromServer, Calls

\* A change of the state file leaves the new state or the old one, and a call
\* that goes on or has ended.
LEMMA Changed ==
  ASSUME TypeInv, NEW a \in Clients, NEW new, StateFits(new), NEW next, Fits(next),
         Change(a, new, next)
  PROVE  /\ state' \in {state, new} /\ StateFits(state')
         /\ left' \in Counts /\ left'.logins = left.logins
         /\ issued' = issued => Calls'
<1>a. StateFits(state) /\ left \in Counts /\ Calls
  BY Held
<1>1. /\ state' \in {state, new}
      /\ left' \in Counts /\ left'.logins = left.logins
      /\ \E c \in {next, Idle} : call' = [call EXCEPT ![a] = c]
  <2>1. CASE left.faults > 0 /\ left' = [left EXCEPT !.faults = @ - 1]
    BY <1>a, <2>1 DEF Change, Written, Counts
  <2>2. CASE left' = left
    BY <1>a, <2>2 DEF Change, Written
  <2>3. QED
    BY <2>1, <2>2 DEF Change
<1>2. PICK c \in {next, Idle} : call' = [call EXCEPT ![a] = c]
  BY <1>1
<1>3. c \in CallRecords /\ Fits(c)
  BY <1>2, Idles DEF Fits
<1>4. issued' = issued => Calls'
  BY <1>a, <1>2, <1>3, Becoming DEF Fits
<1>5. QED
  BY <1>a, <1>1, <1>4

\* Steps of a client, which leave the server as it is.
LEMMA Local ==
  ASSUME TypeInv, UNCHANGED <<server, request, now, refused>>, StateFits(state)',
         left' \in Counts, Calls', shown' \subseteq Devices
  PROVE  TypeInv'
  BY DEF TypeInv, TypeOK, FromServer, server, StateFits, States, Calls, Fits, CallRecords,
         Places, Codes

\* Steps of the server, which leave the state file as it is.
LEMMA Served ==
  ASSUME TypeInv, UNCHANGED <<state, request, now, shown, refused, left>>, Calls',
         issued \subseteq issued', \A c \in issued' : c \in Cert /\ c.dev \in Devices,
         revoked \subseteq revoked', revoked' \subseteq issued',
         published' \subseteq revoked', handed' \subseteq revoked',
         txn' \in [Devices -> [status: Verdicts, at: Nat]],
         renewed' \subseteq [op: Nat, old: Cert, new: Cert, until: Nat],
         \A r \in renewed' : r.old \in issued' /\ r.new \in issued',
         disabled' \subseteq Devices
  PROVE  TypeInv'
<1>1. FromServer'
  BY DEF TypeInv, FromServer, StateFits, Calls
<1>2. TypeOK'
  <2>1. /\ state' \in States /\ left' \in Counts /\ now' \in Nat
        /\ request' \in [gen: Nat, cert: Cert] \union {None}
        /\ shown' \subseteq Devices /\ refused' \subseteq issued'
    BY DEF TypeInv, TypeOK, States
  <2>2. \A a \in Clients :
          /\ call'[a].at \in Places /\ call'[a].reply \in Codes
          /\ call'[a].reply = "cert" => call'[a].answer \in issued'
    BY DEF Calls, Fits, CallRecords
  <2>3. QED
    BY <2>1, <2>2 DEF TypeOK, States, Places, Codes, Verdicts
<1>3. QED
  BY <1>1, <1>2 DEF TypeInv

-----------------------------------------------------------------------------
(* The steps. *)

LEMMA RetiredFits ==
  ASSUME TypeInv
  PROVE  /\ StateFits(Retired) /\ Retired.gen = state.gen + 1
         /\ Retired.active = None /\ Retired.pending = None /\ Retired.err = "none"
         /\ \A t \in Retired.revs : t \in state.revs
                                    \/ (state.active # None /\ t.cert = state.active)
         /\ \A p \in Retired.cancels : p \in state.cancels
                                    \/ (state.pending # None /\ p.dev = state.pending.dev)
         /\ state.active # None => \E t \in Retired.revs : t.cert = state.active
<1>1. state \in States /\ StateFits(state)
  BY Held DEF StateFits
<1> DEFINE revs == IF state.active = None THEN state.revs
                   ELSE state.revs \union {[cert |-> state.active, op |-> state.renewal]}
           cancels == IF state.pending = None THEN state.cancels
                      ELSE state.cancels \union
                             {[dev |-> p.dev, created |-> p.created] :
                                p \in {q \in {state.pending} : q.started}}
<1>2. /\ revs \in SUBSET Todo
      /\ \A t \in revs : t \in state.revs \/ (state.active # None /\ t.cert = state.active)
      /\ state.active # None => \E t \in revs : t.cert = state.active
  <2> DEFINE new == [cert |-> state.active, op |-> state.renewal]
  <2>1. state.revs \subseteq Todo /\ (state.active # None => new \in Todo)
    BY <1>1 DEF States, Todo
  <2>2. new.cert = state.active
    OBVIOUS
  <2> HIDE DEF new
  <2>3. revs = IF state.active = None THEN state.revs ELSE state.revs \union {new}
    BY DEF new
  <2>4. QED
    BY <2>1, <2>2, <2>3
<1>3. /\ cancels \in SUBSET Cancellation
      /\ \A p \in cancels : p \in state.cancels
                            \/ (state.pending # None /\ p.dev = state.pending.dev)
  <2>1. CASE state.pending = None
    BY <1>1, <2>1 DEF States
  <2>2. CASE state.pending # None
    <3>1. state.pending \in Pending
      BY <1>1, <2>2 DEF States
    <3>2. [dev |-> state.pending.dev, created |-> state.pending.created] \in Cancellation
      BY <3>1 DEF Pending, Cancellation
    <3>3. QED
      BY <1>1, <2>2, <3>2 DEF States
  <2>3. QED
    BY <2>1, <2>2
<1>4. Retired = [state EXCEPT !.active = None, !.pending = None, !.renewal = 0,
                              !.revs = revs, !.cancels = cancels,
                              !.gen = state.gen + 1, !.err = "none"]
  BY DEF Retired
<1> HIDE DEF revs, cancels
<1>5. /\ Retired \in States /\ Retired.revs = revs /\ Retired.cancels = cancels
      /\ Retired.gen = state.gen + 1 /\ Retired.active = None /\ Retired.pending = None
      /\ Retired.err = "none"
  <2>1. "none" \in Errors /\ state.gen + 1 \in Nat /\ 0 \in Nat
    BY <1>1 DEF States, Errors
  <2>2. QED
    BY <1>1, <1>2, <1>3, <1>4, <2>1 DEF States
<1>6. StateFits(Retired)
  BY <1>1, <1>2, <1>5 DEF StateFits
<1>7. QED
  BY <1>2, <1>3, <1>5, <1>6

\* The steps of a client that change the state file: what the file becomes.
NewLogin == [Retired EXCEPT !.pending = [dev |-> left.logins, created |-> now, started |-> FALSE]]

LEMMA ConnectKept ==
  ASSUME TypeInv, NEW a \in Clients, Connect(a)
  PROVE  /\ TypeInv' /\ state' = NewLogin
         /\ left.logins \in Devices /\ left'.logins = left.logins - 1
         /\ NewLogin.active = None /\ NewLogin.pending.dev = left.logins
         /\ NewLogin.gen = state.gen + 1 /\ NewLogin.err = "none"
         /\ NewLogin.revs = Retired.revs /\ NewLogin.cancels = Retired.cancels
<1> DEFINE d == left.logins
           next == [Idle EXCEPT !.at = "start", !.gen = NewLogin.gen, !.dev = d]
<1> USE IdentityAssumption DEF IdentityAssumption
<1>a. left \in Counts /\ Calls /\ StateFits(state) /\ now \in Nat /\ shown \subseteq Devices
  BY Held DEF TypeInv, TypeOK
<1>1. d \in Devices
  BY <1>a DEF Connect, Counts, Devices
<1>2. [dev |-> d, created |-> now, started |-> FALSE] \in Pending
  BY <1>a, <1>1 DEF Pending, Devices
<1>3. /\ NewLogin \in States /\ NewLogin.active = None
      /\ NewLogin.pending = [dev |-> d, created |-> now, started |-> FALSE]
      /\ NewLogin.gen = state.gen + 1 /\ NewLogin.err = "none"
      /\ NewLogin.revs = Retired.revs /\ NewLogin.cancels = Retired.cancels
  BY <1>2, RetiredFits DEF NewLogin, States, StateFits
<1>4. StateFits(NewLogin)
  BY <1>1, <1>3, RetiredFits DEF StateFits
<1>5. next \in CallRecords
  <2>1. NewLogin.gen \in Nat /\ d \in Nat /\ "start" \in Places
    BY <1>1, <1>3 DEF States, Devices, Places, Awaiting
  <2>2. QED
    BY <2>1, Idles DEF CallRecords
<1>6. /\ state' = NewLogin /\ left' \in Counts /\ left'.logins = left.logins - 1
      /\ UNCHANGED <<server, others>>
  <2>1. state' = NewLogin /\ UNCHANGED <<server, others>> /\ left.logins > 0
    BY DEF Connect, NewLogin
  <2>2. CASE left' = [left EXCEPT !.logins = @ - 1]
    BY <1>a, <2>1, <2>2 DEF Counts
  <2>3. CASE left.faults > 0 /\ left' = [left EXCEPT !.logins = @ - 1, !.faults = @ - 1]
    <3>1. left.faults - 1 \in Nat /\ left.logins - 1 \in 0..MaxLogins
      BY <1>a, <2>1, <2>3 DEF Counts
    <3>2. QED
      BY <1>a, <2>1, <2>3, <3>1 DEF Counts
  <2>4. QED
    BY <2>1, <2>2, <2>3 DEF Connect
<1>7. Calls'
  <2>1. issued \subseteq issued'
    BY <1>6 DEF server
  <2>2. CASE call' = call
    BY <1>a, <2>1, <2>2, Unmoved
  <2>3. CASE call' = [call EXCEPT ![a] = next]
    <3>1. next.at = "start" /\ next.dev = d /\ next.reply = "none" /\ next.answer = None
          /\ next.revs = {}
      BY DEF Idle
    <3>2. QED
      BY <1>a, <1>1, <1>5, <2>1, <2>3, <3>1, Becoming
  <2>4. QED
    BY <2>2, <2>3 DEF Connect, NewLogin
<1>8. StateFits(state)'
  BY <1>4, <1>6 DEF StateFits, server
<1>9. shown' \subseteq Devices
  BY <1>a, <1>6 DEF others
<1>10. TypeInv'
  BY <1>6, <1>7, <1>8, <1>9, Local DEF others
<1>11. QED
  BY <1>1, <1>3, <1>6, <1>10

\* How the state file may change under the present login.
LEMMA Edited ==
  ASSUME TypeInv
  PROVE  /\ state.pending # None => StateFits([state EXCEPT !.pending.started = TRUE])
         /\ \A code \in Errors : StateFits([state EXCEPT !.err = code])
         /\ \A c \in issued : /\ StateFits([state EXCEPT !.active = c, !.pending = None, !.err = "none"])
                              /\ StateFits([state EXCEPT !.active = c, !.renewal = 0, !.err = "none",
                                                         !.gen = @ + 1])
         /\ \A op \in Nat : StateFits([state EXCEPT !.renewal = op])
         /\ \A revs \in SUBSET state.revs, cancels \in SUBSET state.cancels :
              StateFits([state EXCEPT !.revs = revs, !.cancels = cancels])
<1>1. state \in States /\ StateFits(state) /\ issued \subseteq Cert /\ "none" \in Errors
  BY Held DEF StateFits, TypeInv, TypeOK, Errors
<1>2. ASSUME state.pending # None PROVE StateFits([state EXCEPT !.pending.started = TRUE])
  <2> DEFINE p == [state.pending EXCEPT !.started = TRUE]
  <2>1. state.pending \in Pending
    BY <1>1, <1>2 DEF States
  <2>2. p \in Pending /\ p.dev = state.pending.dev
    BY <2>1 DEF Pending
  <2>3. [state EXCEPT !.pending.started = TRUE] = [state EXCEPT !.pending = p]
    BY <1>1 DEF States
  <2> HIDE DEF p
  <2>4. [state EXCEPT !.pending = p] \in States
    BY <1>1, <2>2 DEF States
  <2>5. QED
    BY <1>1, <1>2, <2>2, <2>3, <2>4 DEF StateFits, States
<1>3. ASSUME NEW code \in Errors PROVE StateFits([state EXCEPT !.err = code])
  BY <1>1 DEF StateFits, States
<1>4. ASSUME NEW c \in issued
      PROVE  /\ StateFits([state EXCEPT !.active = c, !.pending = None, !.err = "none"])
             /\ StateFits([state EXCEPT !.active = c, !.renewal = 0, !.err = "none",
                                        !.gen = @ + 1])
  <2>1. c \in Cert \union {None} /\ state.gen + 1 \in Nat /\ 0 \in Nat
    BY <1>1 DEF States
  <2>2. [state EXCEPT !.active = c, !.pending = None, !.err = "none"] \in States
    BY <1>1, <2>1 DEF States
  <2>3. [state EXCEPT !.active = c, !.renewal = 0, !.err = "none", !.gen = @ + 1] \in States
    BY <1>1, <2>1 DEF States
  <2>4. QED
    BY <1>1, <2>2, <2>3 DEF StateFits, States
<1>5. ASSUME NEW op \in Nat PROVE StateFits([state EXCEPT !.renewal = op])
  BY <1>1 DEF StateFits, States
<1>6. ASSUME NEW revs \in SUBSET state.revs, NEW cancels \in SUBSET state.cancels
      PROVE  StateFits([state EXCEPT !.revs = revs, !.cancels = cancels])
  <2>1. revs \in SUBSET Todo /\ cancels \in SUBSET Cancellation
    BY <1>1 DEF States
  <2>2. [state EXCEPT !.revs = revs, !.cancels = cancels] \in States
    BY <1>1, <2>1 DEF States
  <2>3. QED
    BY <1>1, <2>2 DEF StateFits, States
<1>7. QED
  BY <1>2, <1>3, <1>4, <1>5, <1>6

LEMMA SweepingFits ==
  ASSUME TypeInv, NEW cancels \in SUBSET Cancellation, NEW revs \in SUBSET Todo,
         \A t \in revs : t.cert \in issued
  PROVE  Fits(Sweeping(cancels, revs))
<1> DEFINE c == [Idle EXCEPT !.at = "sweep", !.cancels = cancels, !.revs = revs]
<1>1. "sweep" \in Places
  BY DEF Places
<1>2. c \in CallRecords
  BY <1>1, Idles DEF CallRecords
<1>3. c.at = "sweep" /\ c.reply = "none" /\ c.answer = None /\ c.revs = revs
  BY DEF Idle
<1>4. Fits(c)
  BY <1>2, <1>3 DEF Fits
<1>5. QED
  BY <1>4, Idles DEF Sweeping

\* Changes of the state file by a client, the login apart: each is one of those.
LEMMA ClientChange ==
  ASSUME TypeInv, NEW a \in Clients, NEW new, StateFits(new), NEW next, Fits(next),
         Change(a, new, next), UNCHANGED <<server, request, now, refused>>,
         shown' \subseteq Devices
  PROVE  TypeInv' /\ state' \in {state, new} /\ left'.logins = left.logins
<1>1. /\ state' \in {state, new} /\ StateFits(state') /\ left' \in Counts
      /\ left'.logins = left.logins /\ Calls'
  BY Changed DEF server
<1>2. StateFits(state)'
  BY <1>1 DEF StateFits, server
<1>3. QED
  BY <1>1, <1>2, Local

LEMMA LogoutKept ==
  ASSUME TypeInv, NEW a \in Clients, Logout(a)
  PROVE  TypeInv' /\ state' \in {state, Retired} /\ left'.logins = left.logins
<1> DEFINE next == [Idle EXCEPT !.at = "flush"]
<1>1. next.at = "flush" /\ next.reply = "none" /\ next.answer = None /\ next.revs = {}
  BY DEF Idle
<1>2. next \in CallRecords
  BY Idles DEF CallRecords, Places
<1>3. Fits(next)
  BY <1>1, <1>2 DEF Fits
<1>4. shown' \subseteq Devices
  BY DEF Logout, others, TypeInv, TypeOK
<1>5. StateFits(Retired) /\ Change(a, Retired, next) /\ UNCHANGED <<server, request, now, refused>>
  BY RetiredFits DEF Logout, others
<1> HIDE DEF next
<1>6. QED
  BY <1>3, <1>4, <1>5, ClientChange

LEMMA PruneKept ==
  ASSUME TypeInv, NEW a \in Clients, Prune(a)
  PROVE  /\ TypeInv' /\ left'.logins = left.logins
         /\ \E revs \in SUBSET state.revs, cancels \in SUBSET state.cancels :
              state' \in {state, [state EXCEPT !.revs = revs, !.cancels = cancels]}
<1> DEFINE next == [Idle EXCEPT !.at = "read"]
           revs == {t \in state.revs : now < t.cert.until + (IF t.op # 0 THEN Life ELSE 0)}
           cancels == {p \in state.cancels : now < p.created + Ttl + Life}
<1>1. next.at = "read" /\ next.reply = "none" /\ next.answer = None /\ next.revs = {}
  BY DEF Idle
<1>2. next \in CallRecords
  BY Idles DEF CallRecords, Places
<1>3. Fits(next)
  BY <1>1, <1>2 DEF Fits
<1>4. shown' \subseteq Devices /\ UNCHANGED <<server, request, now, refused>>
  BY DEF Prune, others, TypeInv, TypeOK
<1>5. Pruned = [state EXCEPT !.revs = revs, !.cancels = cancels]
  BY DEF Pruned
<1>6. revs \in SUBSET state.revs /\ cancels \in SUBSET state.cancels
  OBVIOUS
<1> HIDE DEF revs, cancels
<1>7. StateFits(Pruned)
  BY <1>5, <1>6, Edited
<1>8. Change(a, Pruned, next)
  BY DEF Prune
<1> HIDE DEF next
<1>9. QED
  BY <1>3, <1>4, <1>5, <1>6, <1>7, <1>8, ClientChange

LEMMA DropKept ==
  ASSUME TypeInv, NEW a \in Clients, Drop(a)
  PROVE  /\ TypeInv' /\ left'.logins = left.logins
         /\ \E revs \in SUBSET state.revs, cancels \in SUBSET state.cancels :
              state' \in {state, [state EXCEPT !.revs = revs, !.cancels = cancels]}
<1> DEFINE next == Sweeping(call[a].cancels, call[a].revs)
           fewer == {p \in state.cancels : p.dev # call[a].dev}
           less == {t \in state.revs : t.cert # call[a].cert}
<1>1. Fits(call[a]) /\ state \in States
  BY Held DEF Calls, StateFits
<1>2. Fits(next)
  BY <1>1, SweepingFits DEF Fits, CallRecords
<1>3. shown' \subseteq Devices /\ UNCHANGED <<server, request, now, refused>>
  BY DEF Drop, others, TypeInv, TypeOK
<1>4. \/ Change(a, [state EXCEPT !.revs = state.revs, !.cancels = fewer], next)
      \/ Change(a, [state EXCEPT !.revs = less, !.cancels = state.cancels], next)
  <2>1. /\ [state EXCEPT !.cancels = fewer] = [state EXCEPT !.revs = state.revs, !.cancels = fewer]
        /\ [state EXCEPT !.revs = less] = [state EXCEPT !.revs = less, !.cancels = state.cancels]
    BY <1>1 DEF States
  <2>2. \/ Change(a, [state EXCEPT !.cancels = fewer], next)
        \/ Change(a, [state EXCEPT !.revs = less], next)
    BY DEF Drop
  <2>3. QED
    BY <2>1, <2>2
<1>5. fewer \in SUBSET state.cancels /\ less \in SUBSET state.revs
  OBVIOUS
<1> HIDE DEF fewer, less, next
<1>6. PICK revs \in SUBSET state.revs, cancels \in SUBSET state.cancels :
        Change(a, [state EXCEPT !.revs = revs, !.cancels = cancels], next)
  BY <1>4, <1>5
<1>7. StateFits([state EXCEPT !.revs = revs, !.cancels = cancels])
  BY Edited
<1>8. QED
  BY <1>2, <1>3, <1>6, <1>7, ClientChange

LEMMA RecordStartedKept ==
  ASSUME TypeInv, NEW a \in Clients, RecordStarted(a)
  PROVE  /\ TypeInv' /\ left'.logins = left.logins
         /\ \/ state' = state
            \/ state.pending # None /\ state' = [state EXCEPT !.pending.started = TRUE]
<1>1. Fits(call[a]) /\ Calls /\ shown \subseteq Devices /\ StateFits(state) /\ left \in Counts
  BY Held DEF Calls, TypeInv, TypeOK
<1>2. shown' \subseteq Devices /\ UNCHANGED <<server, request, now, refused>>
  BY <1>1 DEF RecordStarted, Fits
<1>3. CASE state.pending # None /\ Change(a, [state EXCEPT !.pending.started = TRUE], Idle)
  <2>1. StateFits([state EXCEPT !.pending.started = TRUE])
    BY <1>3, Edited
  <2>2. QED
    BY <1>2, <1>3, <2>1, Idles, ClientChange
<1>4. CASE Returns(a) /\ UNCHANGED <<state, shown, left>>
  <2>1. Calls'
    BY <1>1, <1>2, <1>4, Becoming, Idles DEF Returns, server, Fits
  <2>2. QED
    BY <1>1, <1>2, <1>4, <2>1, Local DEF StateFits, server
<1>5. QED
  BY <1>3, <1>4 DEF RecordStarted

LEMMA ActivateLoginKept ==
  ASSUME TypeInv, NEW a \in Clients, ActivateLogin(a)
  PROVE  /\ TypeInv' /\ left'.logins = left.logins
         /\ \/ state' = state
            \/ \E c \in issued :
                 /\ state.pending # None /\ c.dev = state.pending.dev
                 /\ state' = [state EXCEPT !.active = c, !.pending = None, !.err = "none"]
<1>1. Fits(call[a]) /\ Calls /\ shown \subseteq Devices /\ StateFits(state) /\ left \in Counts
  BY Held DEF Calls, TypeInv, TypeOK
<1>2. shown' \subseteq Devices /\ UNCHANGED <<server, request, now, refused>>
  BY <1>1 DEF ActivateLogin, others
<1> DEFINE c == call[a].answer
           new == [state EXCEPT !.active = c, !.pending = None, !.err = "none"]
<1>3. c \in issued
  BY <1>1 DEF ActivateLogin, Fits
<1>4. CASE state.pending # None /\ Trusted(c, state.pending.dev, 0) /\ Change(a, new, Idle)
  <2>1. StateFits(new)
    BY <1>3, Edited
  <2>2. TypeInv' /\ state' \in {state, new} /\ left'.logins = left.logins
    BY <1>2, <1>4, <2>1, Idles, ClientChange
  <2>3. QED
    BY <1>3, <1>4, <2>2 DEF Trusted
<1>5. CASE Returns(a) /\ UNCHANGED <<state, left>>
  <2>1. Calls'
    BY <1>1, <1>2, <1>5, Becoming, Idles DEF Returns, server, Fits
  <2>2. QED
    BY <1>1, <1>2, <1>5, <2>1, Local DEF StateFits, server
<1>6. QED
  BY <1>4, <1>5 DEF ActivateLogin

LEMMA NoteErrorKept ==
  ASSUME TypeInv, NEW a \in Clients, NoteError(a)
  PROVE  /\ TypeInv' /\ left'.logins = left.logins
         /\ \/ state' = state
            \/ \E code \in Errors :
                 /\ state.pending # None \/ state.renewal # 0
                 /\ state' = [state EXCEPT !.err = code]
<1>1. Fits(call[a]) /\ Calls /\ shown \subseteq Devices /\ StateFits(state) /\ left \in Counts
  BY Held DEF Calls, TypeInv, TypeOK
<1>2. shown' \subseteq Devices /\ UNCHANGED <<server, request, now, refused>>
  BY <1>1 DEF NoteError, others
<1> DEFINE code == IF call[a].reply \in {"rejected", "reauth"} THEN call[a].reply ELSE "other"
<1>3. code \in Errors
  BY DEF Errors
<1>4. CASE /\ state.pending # None \/ state.renewal # 0
           /\ Change(a, [state EXCEPT !.err = code], Idle)
  <2> HIDE DEF code
  <2>1. StateFits([state EXCEPT !.err = code])
    BY <1>3, Edited
  <2>2. QED
    BY <1>2, <1>3, <1>4, <2>1, Idles, ClientChange
<1>5. CASE Returns(a) /\ UNCHANGED <<state, left>>
  <2>1. Calls'
    BY <1>1, <1>2, <1>5, Becoming, Idles DEF Returns, server, Fits
  <2>2. QED
    BY <1>1, <1>2, <1>5, <2>1, Local DEF StateFits, server
<1>6. QED
  BY <1>4, <1>5 DEF NoteError

LEMMA ActivateRenewalKept ==
  ASSUME TypeInv, NEW a \in Clients, ActivateRenewal(a)
  PROVE  /\ TypeInv' /\ left'.logins = left.logins
         /\ \/ state' = state
            \/ \E c \in issued :
                 /\ state.active # None /\ c.dev = state.active.dev
                 /\ state' = [state EXCEPT !.active = c, !.renewal = 0, !.err = "none",
                                           !.gen = @ + 1]
<1>1. Fits(call[a]) /\ Calls /\ shown \subseteq Devices /\ StateFits(state) /\ left \in Counts
  BY Held DEF Calls, TypeInv, TypeOK
<1>2. shown' \subseteq Devices /\ UNCHANGED <<server, request, now, refused>>
  BY <1>1 DEF ActivateRenewal, others
<1> DEFINE c == call[a].answer
           new == [state EXCEPT !.active = c, !.renewal = 0, !.err = "none", !.gen = @ + 1]
<1>3. c \in issued
  BY <1>1 DEF ActivateRenewal, Fits
<1>4. CASE /\ state.active # None /\ Trusted(c, state.active.dev, state.renewal)
           /\ Change(a, new, Idle)
  <2>1. StateFits(new)
    BY <1>3, Edited
  <2>2. TypeInv' /\ state' \in {state, new} /\ left'.logins = left.logins
    BY <1>2, <1>4, <2>1, Idles, ClientChange
  <2>3. QED
    BY <1>3, <1>4, <2>2 DEF Trusted
<1>5. CASE Returns(a) /\ UNCHANGED <<state, left>>
  <2>1. Calls'
    BY <1>1, <1>2, <1>5, Becoming, Idles DEF Returns, server, Fits
  <2>2. QED
    BY <1>1, <1>2, <1>5, <2>1, Local DEF StateFits, server
<1>6. QED
  BY <1>4, <1>5 DEF ActivateRenewal

LEMMA RenewKept ==
  ASSUME TypeInv, NEW a \in Clients, Renew(a)
  PROVE  /\ TypeInv' /\ left'.logins = left.logins
         /\ \/ state' = state
            \/ \E op \in Nat : op # 0 /\ state' = [state EXCEPT !.renewal = op]
<1>1. Calls /\ shown \subseteq Devices /\ StateFits(state) /\ state \in States /\ left \in Counts
  BY Held DEF TypeInv, TypeOK, StateFits
<1>2. shown' \subseteq Devices /\ UNCHANGED <<server, request, now, refused>> /\ issued' = issued
  BY <1>1 DEF Renew, others, server
<1> DEFINE op == IF state.renewal # 0 THEN state.renewal ELSE left.renewals
           live == now < state.active.until
           next == [Idle EXCEPT !.at = "recover", !.gen = state.gen, !.op = op,
                                !.cert = state.active, !.live = live]
<1>3. op \in Nat /\ live \in BOOLEAN /\ state.active \in issued
      /\ state.active \in Cert \union {None} /\ state.gen \in Nat /\ "recover" \in Places
  BY <1>1 DEF States, Counts, StateFits, Renew, Places, Awaiting
<1> HIDE DEF op, live
<1>4. next \in CallRecords
  BY <1>3, Idles DEF CallRecords
<1>5. next.at = "recover" /\ next.cert = state.active /\ next.reply = "none"
      /\ next.answer = None /\ next.revs = {}
  BY DEF Idle
<1>6. call' = call \/ call' = [call EXCEPT ![a] = next]
  BY DEF Renew, op, live
<1> HIDE DEF next
<1>7. Calls'
  BY <1>1, <1>2, <1>3, <1>4, <1>5, <1>6, Becoming, Unmoved
<1>8. /\ left' \in Counts /\ left'.logins = left.logins
      /\ \/ state' = state
         \/ op # 0 /\ state' = [state EXCEPT !.renewal = op]
  <2>1. CASE UNCHANGED <<state, left>>
    BY <1>1, <2>1
  <2>2. CASE /\ state.renewal = 0 /\ left.renewals > 0 /\ state' = [state EXCEPT !.renewal = op]
             /\ \/ left' = [left EXCEPT !.renewals = @ - 1]
                \/ /\ left.faults > 0
                   /\ left' = [left EXCEPT !.renewals = @ - 1, !.faults = @ - 1]
    <3>1. left.renewals - 1 \in Nat /\ (left.faults > 0 => left.faults - 1 \in Nat)
      BY <1>1, <2>2 DEF Counts
    <3>2. left' \in Counts /\ left'.logins = left.logins
      BY <1>1, <2>2, <3>1 DEF Counts
    <3>3. op # 0
      BY <1>1, <2>2 DEF op, Counts
    <3>4. QED
      BY <2>2, <3>2, <3>3
  <2>3. QED
    BY <2>1, <2>2 DEF Renew, op
<1>9. StateFits(state)'
  <2>1. StateFits([state EXCEPT !.renewal = op])
    BY <1>3, Edited
  <2>2. StateFits(state')
    BY <1>1, <1>8, <2>1
  <2>3. QED
    BY <1>2, <2>2 DEF StateFits
<1>10. QED
  BY <1>2, <1>3, <1>7, <1>8, <1>9, Local

\* The steps of a client, of the network and of its end that change its call only.
LEMMA Quiet ==
  ASSUME TypeInv, NEW a \in Clients, NEW c, Fits(c), call' = [call EXCEPT ![a] = c],
         UNCHANGED <<state, server, others>>, left' \in Counts
  PROVE  TypeInv'
<1>1. Calls /\ c \in CallRecords /\ shown \subseteq Devices /\ StateFits(state)
  BY Held DEF Fits, TypeInv, TypeOK
<1>2. Calls'
  BY <1>1, Becoming DEF Fits, server
<1>3. StateFits(state)' /\ shown' \subseteq Devices
  BY <1>1 DEF StateFits, server, others
<1>4. QED
  BY <1>2, <1>3, Local DEF others

\* A call with one of its fields changed.
LEMMA Answered ==
  ASSUME TypeInv, NEW a \in Clients
  PROVE  /\ \A code \in Codes, c \in issued \union {None} :
              (code = "cert" => c # None) =>
                /\ [call[a] EXCEPT !.reply = code, !.answer = c] \in CallRecords
                /\ Fits([call[a] EXCEPT !.reply = code, !.answer = c])
         /\ \A code \in Codes \ {"cert"} :
              /\ [call[a] EXCEPT !.reply = code] \in CallRecords
              /\ Fits([call[a] EXCEPT !.reply = code])
         /\ call[a] \in CallRecords /\ Fits(call[a])
<1>1. call[a] \in CallRecords /\ Fits(call[a]) /\ issued \subseteq Cert
  BY Held DEF Calls, TypeInv, TypeOK
<1>2. ASSUME NEW code \in Codes, NEW c \in issued \union {None}, code = "cert" => c # None
      PROVE  /\ [call[a] EXCEPT !.reply = code, !.answer = c] \in CallRecords
             /\ Fits([call[a] EXCEPT !.reply = code, !.answer = c])
  <2> DEFINE new == [call[a] EXCEPT !.reply = code, !.answer = c]
  <2>1. new \in CallRecords
    BY <1>1, <1>2 DEF CallRecords
  <2>2. /\ new.at = call[a].at /\ new.dev = call[a].dev /\ new.cert = call[a].cert
        /\ new.revs = call[a].revs /\ new.reply = code /\ new.answer = c
    BY <1>1 DEF CallRecords
  <2> HIDE DEF new
  <2>3. Fits(new)
    BY <1>1, <1>2, <2>1, <2>2 DEF Fits
  <2>4. QED
    BY <2>1, <2>3 DEF new
<1>3. ASSUME NEW code \in Codes \ {"cert"}
      PROVE  /\ [call[a] EXCEPT !.reply = code] \in CallRecords
             /\ Fits([call[a] EXCEPT !.reply = code])
  <2> DEFINE new == [call[a] EXCEPT !.reply = code]
  <2>1. new \in CallRecords
    BY <1>1, <1>3 DEF CallRecords
  <2>2. /\ new.at = call[a].at /\ new.dev = call[a].dev /\ new.cert = call[a].cert
        /\ new.revs = call[a].revs /\ new.reply = code /\ new.answer = call[a].answer
    BY <1>1 DEF CallRecords
  <2> HIDE DEF new
  <2>3. Fits(new)
    BY <1>1, <1>3, <2>1, <2>2 DEF Fits
  <2>4. QED
    BY <2>1, <2>3 DEF new
<1>4. QED
  BY <1>1, <1>2, <1>3

\* Those steps.
Calm(a) ==
  Poll(a) \/ Waits(a) \/ AskRenewal(a) \/ ReadTodos(a) \/ NextTodo(a) \/ Traced(a)
  \/ Keep(a) \/ Lose(a) \/ Crash(a)

LEMMA QuietKept ==
  ASSUME TypeInv, NEW a \in Clients, Calm(a)
  PROVE  TypeInv' /\ state' = state /\ left'.logins = left.logins
<1>1. /\ Fits(call[a]) /\ call[a] \in CallRecords /\ StateFits(state) /\ left \in Counts
      /\ state \in States /\ call \in [Clients -> CallRecords]
  BY Held, Answered DEF StateFits, Calls
<1>2. CASE Poll(a)
  <2> DEFINE next == [Idle EXCEPT !.at = "poll", !.gen = state.gen, !.dev = state.pending.dev]
  <2>1. state.pending.dev \in Devices /\ state.pending.dev \in Nat /\ state.gen \in Nat
    BY <1>1, <1>2 DEF Poll, StateFits, Devices, States
  <2>2. next \in CallRecords
    BY <2>1, Idles DEF CallRecords, Places, Awaiting
  <2>3. next.at = "poll" /\ next.dev = state.pending.dev /\ next.reply = "none"
        /\ next.answer = None /\ next.revs = {}
    BY DEF Idle
  <2>4. Fits(next)
    BY <2>1, <2>2, <2>3 DEF Fits
  <2> HIDE DEF next
  <2>5. QED
    BY <1>1, <1>2, <2>4, Quiet DEF Poll, next
<1>3. CASE Waits(a)
  BY <1>1, <1>3, Idles, Quiet DEF Waits, Returns
<1>4. CASE AskRenewal(a)
  <2> DEFINE next == [call[a] EXCEPT !.at = "renew", !.reply = "none"]
  <2>1. next \in CallRecords
    BY <1>1 DEF CallRecords, Places, Awaiting, Codes
  <2>2. /\ next.at = "renew" /\ next.cert = call[a].cert /\ next.reply = "none"
        /\ next.answer = call[a].answer /\ next.revs = call[a].revs
    BY <1>1 DEF CallRecords
  <2>3. Fits(next)
    BY <1>1, <1>4, <2>1, <2>2 DEF Fits, AskRenewal
  <2>4. call' = [call EXCEPT ![a] = next]
    BY <1>1, <1>4 DEF AskRenewal
  <2> HIDE DEF next
  <2>5. QED
    BY <1>1, <1>4, <2>3, <2>4, Quiet DEF AskRenewal
<1>5. CASE ReadTodos(a)
  <2>1. Fits(Sweeping(state.cancels, state.revs))
    BY <1>1, SweepingFits DEF StateFits, States
  <2>2. QED
    BY <1>1, <1>5, <2>1, Quiet DEF ReadTodos
<1>6. CASE NextTodo(a)
  <2>1. ASSUME NEW p \in call[a].cancels,
               call' = [call EXCEPT ![a] = [call[a] EXCEPT !.at = "cancel", !.dev = p.dev,
                                                           !.cancels = @ \ {p}]]
        PROVE  \E next : Fits(next) /\ call' = [call EXCEPT ![a] = next]
    <3> DEFINE next == [call[a] EXCEPT !.at = "cancel", !.dev = p.dev,
                                       !.cancels = call[a].cancels \ {p}]
    <3>1. p.dev \in Nat /\ call[a].cancels \ {p} \in SUBSET Cancellation
      BY <1>1 DEF CallRecords, Cancellation
    <3>2. next \in CallRecords
      BY <1>1, <3>1 DEF CallRecords, Places, Awaiting
    <3>3. /\ next.at = "cancel" /\ next.reply = call[a].reply
          /\ next.answer = call[a].answer /\ next.revs = call[a].revs
      BY <1>1 DEF CallRecords
    <3>4. call' = [call EXCEPT ![a] = next]
      BY <1>1, <2>1
    <3> HIDE DEF next
    <3>5. Fits(next)
      BY <1>1, <3>2, <3>3 DEF Fits
    <3>6. QED
      BY <3>4, <3>5
  <2>2. ASSUME NEW t \in call[a].revs,
               call' = [call EXCEPT ![a] =
                          [call[a] EXCEPT !.at = IF t.op # 0 THEN "trace" ELSE "revoke",
                                          !.op = t.op, !.cert = t.cert,
                                          !.revs = @ \ {t}]]
        PROVE  \E next : Fits(next) /\ call' = [call EXCEPT ![a] = next]
    <3> DEFINE at == IF t.op # 0 THEN "trace" ELSE "revoke"
               next == [call[a] EXCEPT !.at = at, !.op = t.op, !.cert = t.cert,
                                       !.revs = call[a].revs \ {t}]
    <3>1. /\ t.op \in Nat /\ t.cert \in Cert \union {None} /\ t.cert \in issued
          /\ call[a].revs \ {t} \in SUBSET Todo /\ at \in Places
          /\ at \in {"trace", "revoke"}
      BY <1>1 DEF CallRecords, Todo, Fits, Places, Awaiting
    <3>4. call' = [call EXCEPT ![a] = next]
      BY <1>1, <2>2
    <3> HIDE DEF at
    <3>2. next \in CallRecords
      BY <1>1, <3>1 DEF CallRecords
    <3>3. /\ next.at = at /\ next.reply = call[a].reply /\ next.cert = t.cert
          /\ next.answer = call[a].answer /\ next.revs = call[a].revs \ {t}
      BY <1>1 DEF CallRecords
    <3> HIDE DEF next
    <3>5. Fits(next)
      BY <1>1, <3>1, <3>2, <3>3 DEF Fits
    <3>6. QED
      BY <3>4, <3>5
  <2>3. PICK next : Fits(next) /\ call' = [call EXCEPT ![a] = next]
    BY <1>6, <2>1, <2>2 DEF NextTodo
  <2>4. QED
    BY <1>1, <1>6, <2>3, Quiet DEF NextTodo
<1>7. CASE Traced(a)
  <2> DEFINE next == [call[a] EXCEPT !.at = "revoke", !.reply = "none"]
  <2>1. next \in CallRecords
    BY <1>1 DEF CallRecords, Places, Awaiting, Codes
  <2>2. /\ next.at = "revoke" /\ next.cert = call[a].cert /\ next.reply = "none"
        /\ next.answer = call[a].answer /\ next.revs = call[a].revs
    BY <1>1 DEF CallRecords
  <2>3. Fits(next)
    BY <1>1, <1>7, <2>1, <2>2 DEF Fits, Traced
  <2>4. call' = [call EXCEPT ![a] = next]
    BY <1>1, <1>7 DEF Traced
  <2> HIDE DEF next
  <2>5. QED
    BY <1>1, <1>7, <2>3, <2>4, Quiet DEF Traced
<1>8. CASE Keep(a)
  <2>1. Fits(Sweeping(call[a].cancels, call[a].revs))
    BY <1>1, SweepingFits DEF Fits, CallRecords
  <2>2. QED
    BY <1>1, <1>8, <2>1, Quiet DEF Keep
<1>9. CASE Lose(a)
  <2> DEFINE next == [call[a] EXCEPT !.reply = "network", !.answer = None]
  <2>1. Fits(next)
    BY Answered DEF Codes
  <2>2. call' = [call EXCEPT ![a] = next]
    BY <1>1, <1>9 DEF Lose
  <2>3. left.losses - 1 \in Nat
    BY <1>1, <1>9 DEF Lose, Counts
  <2>4. left' \in Counts /\ left'.logins = left.logins
    BY <1>1, <1>9, <2>3 DEF Lose, Counts
  <2> HIDE DEF next
  <2>5. QED
    BY <1>9, <2>1, <2>2, <2>4, Quiet DEF Lose
<1>10. CASE Crash(a)
  <2>1. left.crashes - 1 \in Nat
    BY <1>1, <1>10 DEF Crash, Counts
  <2>2. left' \in Counts /\ left'.logins = left.logins
    BY <1>1, <1>10, <2>1 DEF Crash, Counts
  <2>3. QED
    BY <1>10, <2>2, Idles, Quiet DEF Crash
<1>11. QED
  BY <1>2, <1>3, <1>4, <1>5, <1>6, <1>7, <1>8, <1>9, <1>10 DEF Calm

\* The server's answer to a client's request.
LEMMA Reply ==
  ASSUME TypeInv, NEW a \in Clients, issued \subseteq issued', issued' \subseteq Cert,
         NEW code \in Codes, NEW c, c \in issued' \/ (c = None /\ code # "cert"),
         \/ call' = [call EXCEPT ![a].reply = code, ![a].answer = c]
         \/ code # "cert" /\ call' = [call EXCEPT ![a].reply = code]
  PROVE  Calls'
<1>1. Calls /\ call[a] \in CallRecords /\ Fits(call[a]) /\ call \in [Clients -> CallRecords]
  BY Held DEF Calls
<1>2. CASE call' = [call EXCEPT ![a].reply = code, ![a].answer = c]
  <2> DEFINE new == [call[a] EXCEPT !.reply = code, !.answer = c]
  <2>1. call' = [call EXCEPT ![a] = new]
    BY <1>1, <1>2
  <2>2. c \in Cert \union {None}
    OBVIOUS
  <2>3. new \in CallRecords
    BY <1>1, <2>2 DEF CallRecords
  <2>4. /\ new.at = call[a].at /\ new.dev = call[a].dev /\ new.cert = call[a].cert
        /\ new.revs = call[a].revs /\ new.reply = code /\ new.answer = c
    BY <1>1 DEF CallRecords
  <2> HIDE DEF new
  <2>5. /\ new.at \in {"start", "poll"} => new.dev \in Devices
        /\ new.at \in {"recover", "renew", "trace", "revoke"} => new.cert \in issued'
        /\ new.reply = "cert" \/ new.answer # None => new.answer \in issued'
        /\ \A t \in new.revs : t.cert \in issued'
    BY <1>1, <2>4 DEF Fits
  <2>6. QED
    BY <1>1, <2>1, <2>3, <2>5, Becoming
<1>3. CASE code # "cert" /\ call' = [call EXCEPT ![a].reply = code]
  <2> DEFINE new == [call[a] EXCEPT !.reply = code]
  <2>1. call' = [call EXCEPT ![a] = new]
    BY <1>1, <1>3
  <2>3. new \in CallRecords
    BY <1>1 DEF CallRecords
  <2>4. /\ new.at = call[a].at /\ new.dev = call[a].dev /\ new.cert = call[a].cert
        /\ new.revs = call[a].revs /\ new.reply = code /\ new.answer = call[a].answer
    BY <1>1 DEF CallRecords
  <2> HIDE DEF new
  <2>5. /\ new.at \in {"start", "poll"} => new.dev \in Devices
        /\ new.at \in {"recover", "renew", "trace", "revoke"} => new.cert \in issued'
        /\ new.reply = "cert" \/ new.answer # None => new.answer \in issued'
        /\ \A t \in new.revs : t.cert \in issued'
    BY <1>1, <1>3, <2>4 DEF Fits
  <2>6. QED
    BY <1>1, <2>1, <2>3, <2>5, Becoming
<1>4. QED
  BY <1>2, <1>3

\* What the server keeps, when it issues nothing.
LEMMA Server ==
  ASSUME TypeInv
  PROVE  /\ \A c \in issued : c \in Cert /\ c.dev \in Devices
         /\ issued \subseteq Cert /\ revoked \subseteq issued
         /\ published \subseteq revoked /\ handed \subseteq revoked
         /\ txn \in [Devices -> [status: Verdicts, at: Nat]]
         /\ renewed \subseteq [op: Nat, old: Cert, new: Cert, until: Nat]
         /\ \A r \in renewed : r.old \in issued /\ r.new \in issued
         /\ disabled \subseteq Devices /\ now \in Nat
  BY DEF TypeInv, TypeOK, FromServer, Verdicts

LEMMA ServeStartKept ==
  ASSUME TypeInv, NEW a \in Clients, ServeStart(a)
  PROVE  TypeInv' /\ state' = state /\ left' = left
<1>1. call[a].dev \in Devices
  BY Answered DEF ServeStart, Fits
<1>2. Calls'
  BY Reply, Server DEF ServeStart, Codes
<1>3. [status |-> "pending", at |-> now] \in [status: Verdicts, at: Nat]
  BY Server DEF Verdicts
<1>4. txn' \in [Devices -> [status: Verdicts, at: Nat]]
  BY <1>1, <1>3, Server DEF ServeStart
<1>5. QED
  BY <1>2, <1>4, Server, Served DEF ServeStart, others

LEMMA ServePollKept ==
  ASSUME TypeInv, NEW a \in Clients, ServePoll(a)
  PROVE  TypeInv' /\ state' = state /\ left' = left
<1> USE IdentityAssumption DEF IdentityAssumption
<1> DEFINE d == call[a].dev
           c0 == [dev |-> d, key |-> 0, until |-> now + Life]
<1>a. call[a].at = "poll"
  BY DEF ServePoll
<1>b. Fits(call[a])
  BY Answered
<1>1. d \in Devices /\ d \in Nat
  BY <1>a, <1>b DEF Fits, Devices
<1>2. UNCHANGED <<state, renewed, revoked, handed, published, disabled, others, left>>
  BY DEF ServePoll
<1>3. txn[d] \in [status: Verdicts, at: Nat]
  BY <1>1, Server
<1>4. c0 \in Cert /\ c0.dev \in Devices
  BY <1>1, Server DEF Cert
<1>5. /\ txn' \in [Devices -> [status: Verdicts, at: Nat]]
      /\ issued' = issued \/ issued' = issued \union {c0}
      /\ \E code \in Codes, c \in issued' \union {None} :
           /\ c \in issued' \/ (c = None /\ code # "cert")
           /\ \/ call' = [call EXCEPT ![a].reply = code, ![a].answer = c]
              \/ code # "cert" /\ call' = [call EXCEPT ![a].reply = code]
  <2>1. ASSUME NEW code \in {"rejected", "reauth", "wait"},
               call' = [call EXCEPT ![a].reply = code], UNCHANGED <<txn, issued>>
        PROVE  <1>5
    BY <2>1, Server DEF Codes
  <2>2. ASSUME NEW c \in IssuedTo(d), call' = [call EXCEPT ![a].reply = "cert", ![a].answer = c],
               UNCHANGED <<txn, issued>>
        PROVE  <1>5
    BY <2>2, Server DEF Codes, IssuedTo
  <2>3. ASSUME txn' = [txn EXCEPT ![d].status = "expired"],
               call' = [call EXCEPT ![a].reply = "reauth"], issued' = issued
        PROVE  <1>5
    <3>1. [txn[d] EXCEPT !.status = "expired"] \in [status: Verdicts, at: Nat]
      BY <1>3 DEF Verdicts
    <3>2. txn' = [txn EXCEPT ![d] = [txn[d] EXCEPT !.status = "expired"]]
      BY <1>1, <2>3, Server
    <3>3. txn' \in [Devices -> [status: Verdicts, at: Nat]]
      BY <1>1, <3>1, <3>2, Server
    <3>4. QED
      BY <2>3, <3>3 DEF Codes
  <2>4. ASSUME issued' = issued \union {c0},
               call' = [call EXCEPT ![a].reply = "cert", ![a].answer = c0],
               txn' = [txn EXCEPT ![d] = [status |-> "issued", at |-> now]]
        PROVE  <1>5
    <3>1. [status |-> "issued", at |-> now] \in [status: Verdicts, at: Nat]
      BY Server DEF Verdicts
    <3>2. txn' \in [Devices -> [status: Verdicts, at: Nat]]
      BY <1>1, <2>4, <3>1, Server
    <3> HIDE DEF c0
    <3>3. QED
      BY <2>4, <3>2 DEF Codes
  <2>5. QED
    BY <2>1, <2>2, <2>3, <2>4 DEF ServePoll
<1> HIDE DEF c0, d
<1>6. issued \subseteq issued' /\ \A c \in issued' : c \in Cert /\ c.dev \in Devices
  BY <1>4, <1>5, Server
<1>7. issued' \subseteq Cert
  BY <1>6
<1>8. Calls'
  BY <1>5, <1>6, <1>7, Reply
<1>9. revoked \subseteq revoked' /\ revoked' \subseteq issued'
      /\ published' \subseteq revoked' /\ handed' \subseteq revoked'
      /\ renewed' \subseteq [op: Nat, old: Cert, new: Cert, until: Nat]
      /\ disabled' \subseteq Devices
  BY <1>2, <1>6, Server
<1>10. \A r \in renewed' : r.old \in issued' /\ r.new \in issued'
  BY <1>2, <1>6, Server
<1>11. QED
  BY <1>2, <1>5, <1>6, <1>8, <1>9, <1>10, Served DEF others

\* What the server tells of an operation: a certificate it issued, or none.
LEMMA RecoveredIsIssued ==
  ASSUME TypeInv, NEW op, NEW old
  PROVE  LET o == Recovered(op, old)
         IN o.code \in Codes /\ (o.cert \in issued \/ (o.cert = None /\ o.code # "cert"))
<1> DEFINE done == {r \in renewed : r.op = op /\ r.old = old}
           x == CHOOSE r \in done : TRUE
           o == Recovered(op, old)
<1>1. \/ o = Outcome("rejected", None) \/ o = Outcome("conflict", None)
      \/ o = Outcome("reauth", None) \/ (done # {} /\ o = Outcome("cert", x.new))
  BY DEF Recovered
<1>2. done # {} => x \in renewed
  OBVIOUS
<1>3. done # {} => x.new \in issued
  BY <1>2, Server
<1> HIDE DEF x, done, o
<1>4. o.code \in Codes /\ (o.cert \in issued \/ (o.cert = None /\ o.code # "cert"))
  BY <1>1, <1>3 DEF Outcome, Codes
<1>5. QED
  BY <1>4 DEF o

LEMMA ServeRecoverKept ==
  ASSUME TypeInv, NEW a \in Clients, ServeRecover(a)
  PROVE  TypeInv' /\ state' = state /\ left' = left
<1> DEFINE o == Recovered(call[a].op, call[a].cert)
<1>1. o.code \in Codes /\ (o.cert \in issued \/ (o.cert = None /\ o.code # "cert"))
  BY RecoveredIsIssued
<1>2. /\ call' = [call EXCEPT ![a].reply = o.code, ![a].answer = o.cert]
      /\ UNCHANGED <<state, server, others, left>>
  BY DEF ServeRecover
<1> HIDE DEF o
<1>3. Calls'
  BY <1>1, <1>2, Reply, Server DEF server
<1>4. StateFits(state)' /\ shown' \subseteq Devices /\ left' \in Counts
  BY <1>2, Held DEF StateFits, server, others, TypeInv, TypeOK
<1>5. QED
  BY <1>2, <1>3, <1>4, Local DEF others

LEMMA ServeRenewKept ==
  ASSUME TypeInv, NEW a \in Clients, ServeRenew(a)
  PROVE  TypeInv' /\ state' = state /\ left' = left
<1> USE IdentityAssumption DEF IdentityAssumption
<1> DEFINE old == call[a].cert
           o == Recovered(call[a].op, old)
           new == [dev |-> old.dev, key |-> call[a].op, until |-> now + Life]
           entry == [op |-> call[a].op, old |-> old, new |-> new, until |-> now + Recovery]
<1>1. call[a].at = "renew" /\ Fits(call[a]) /\ call[a] \in CallRecords
  BY Answered DEF ServeRenew
<1>2. old \in issued /\ call[a].op \in Nat
  BY <1>1 DEF Fits, CallRecords
<1>3. new \in Cert /\ new.dev \in Devices
  BY <1>2, Server DEF Cert
<1>4. o.code \in Codes /\ (o.cert \in issued \/ (o.cert = None /\ o.code # "cert"))
  BY RecoveredIsIssued
<1>5. entry \in [op: Nat, old: Cert, new: Cert, until: Nat]
      /\ entry.old = old /\ entry.new = new
  BY <1>2, <1>3, Server
<1>6. UNCHANGED <<state, txn, revoked, handed, published, disabled, others, left>>
  BY DEF ServeRenew
<1>7. \/ /\ UNCHANGED <<issued, renewed>>
         /\ \E code \in Codes, c \in issued \union {None} :
              /\ c \in issued \/ (c = None /\ code # "cert")
              /\ call' = [call EXCEPT ![a].reply = code, ![a].answer = c]
      \/ /\ issued' = issued \union {new} /\ renewed' = renewed \union {entry}
         /\ call' = [call EXCEPT ![a].reply = "cert", ![a].answer = new]
  <2>1. \/ /\ UNCHANGED <<issued, renewed>>
           /\ \/ call' = [call EXCEPT ![a].reply = "rejected", ![a].answer = None]
              \/ call' = [call EXCEPT ![a].reply = "conflict", ![a].answer = None]
              \/ call' = [call EXCEPT ![a].reply = "reauth", ![a].answer = None]
              \/ call' = [call EXCEPT ![a].reply = o.code, ![a].answer = o.cert]
        \/ /\ issued' = issued \union {new} /\ renewed' = renewed \union {entry}
           /\ call' = [call EXCEPT ![a].reply = "cert", ![a].answer = new]
    BY DEF ServeRenew
  <2> HIDE DEF o, new, entry, old
  <2>2. {"rejected", "conflict", "reauth"} \subseteq Codes
    BY DEF Codes
  <2>3. QED
    BY <1>4, <2>1, <2>2
<1> HIDE DEF o, new, entry, old
<1>8. /\ issued \subseteq issued' /\ \A c \in issued' : c \in Cert /\ c.dev \in Devices
      /\ renewed' \subseteq [op: Nat, old: Cert, new: Cert, until: Nat]
      /\ \A r \in renewed' : r.old \in issued' /\ r.new \in issued'
  BY <1>2, <1>3, <1>5, <1>7, Server
<1>9. issued' \subseteq Cert /\ "cert" \in Codes
  BY <1>8 DEF Codes
<1>10. Calls'
  <2>1. CASE \E code \in Codes, c \in issued \union {None} :
           /\ c \in issued \/ (c = None /\ code # "cert")
           /\ call' = [call EXCEPT ![a].reply = code, ![a].answer = c]
    <3>1. PICK code \in Codes, c \in issued \union {None} :
           /\ c \in issued \/ (c = None /\ code # "cert")
           /\ call' = [call EXCEPT ![a].reply = code, ![a].answer = c]
      BY <2>1
    <3>2. c \in issued' \/ (c = None /\ code # "cert")
      BY <1>8, <3>1
    <3>3. QED
      BY <1>8, <1>9, <3>1, <3>2, Reply
  <2>2. CASE /\ issued' = issued \union {new}
             /\ call' = [call EXCEPT ![a].reply = "cert", ![a].answer = new]
    <3>1. new \in issued'
      BY <2>2
    <3>2. QED
      BY <1>8, <1>9, <2>2, <3>1, Reply
  <2>3. QED
    BY <1>7, <2>1, <2>2
<1>11. revoked \subseteq revoked' /\ revoked' \subseteq issued'
       /\ published' \subseteq revoked' /\ handed' \subseteq revoked'
       /\ txn' \in [Devices -> [status: Verdicts, at: Nat]] /\ disabled' \subseteq Devices
  BY <1>6, <1>8, Server
<1>12. QED
  BY <1>6, <1>8, <1>10, <1>11, Served DEF others

LEMMA ServeCancelKept ==
  ASSUME TypeInv, NEW a \in Clients, ServeCancel(a)
  PROVE  TypeInv' /\ state' = state /\ left' = left
<1> DEFINE d == call[a].dev
           pending == txn[d].status \in {"issued", "revocation_pending"}
           status == IF pending THEN "revocation_pending" ELSE "cancelled"
           code == IF pending /\ ~ Loaded(revoked') THEN "wait" ELSE "done"
<1>1. /\ txn' = [txn EXCEPT ![d].status = status]
      /\ call' = [call EXCEPT ![a].reply = code]
      /\ revoked' = IF txn[d].status = "issued" THEN revoked \union IssuedTo(d) ELSE revoked
      /\ UNCHANGED <<state, issued, renewed, handed, published, disabled, others, left>>
  BY DEF ServeCancel
<1>2. code \in Codes /\ code # "cert" /\ status \in Verdicts
  BY DEF Codes, Verdicts
<1> HIDE DEF d, code, status
<1>3. Calls'
  BY <1>1, <1>2, Reply, Server
<1>4. txn' \in [Devices -> [status: Verdicts, at: Nat]]
  <2>1. txn \in [Devices -> [status: Verdicts, at: Nat]]
    BY Server
  <2>2. CASE d \in Devices
    <3>1. [txn[d] EXCEPT !.status = status] \in [status: Verdicts, at: Nat]
      BY <1>2, <2>1, <2>2
    <3>2. txn' = [txn EXCEPT ![d] = [txn[d] EXCEPT !.status = status]]
      BY <1>1, <2>1, <2>2
    <3>3. QED
      BY <2>1, <2>2, <3>1, <3>2
  <2>3. CASE d \notin Devices
    BY <1>1, <2>1, <2>3
  <2>4. QED
    BY <2>2, <2>3
<1>5. revoked \subseteq revoked' /\ revoked' \subseteq issued
  BY <1>1, Server DEF IssuedTo
<1>6. QED
  BY <1>1, <1>3, <1>4, <1>5, Server, Served DEF others

LEMMA ServeRevokeKept ==
  ASSUME TypeInv, NEW a \in Clients, ServeRevoke(a)
  PROVE  TypeInv' /\ state' = state /\ left' = left
<1> DEFINE c == Target(a)
<1>1. /\ call[a].at = "revoke" /\ Fits(call[a])
      /\ UNCHANGED <<state, txn, issued, renewed, handed, published, others, left>>
  BY Answered DEF ServeRevoke
<1>2. c \in issued
  BY <1>1 DEF Target, Fits
<1>3. \E code \in {"done", "wait", "rejected", "reauth"} :
        call' = [call EXCEPT ![a].reply = code]
  BY DEF ServeRevoke
<1>4. \/ UNCHANGED <<revoked, disabled>>
      \/ /\ revoked' = revoked \union {x \in issued : x.dev = c.dev}
         /\ disabled' = disabled \union {c.dev}
  BY DEF ServeRevoke
<1> HIDE DEF c
<1>5. Calls'
  BY <1>1, <1>3, Reply, Server DEF Codes
<1>6. revoked \subseteq revoked' /\ revoked' \subseteq issued /\ disabled' \subseteq Devices
  BY <1>2, <1>4, Server
<1>7. QED
  BY <1>1, <1>5, <1>6, Server, Served DEF others

\* The user's browser, the server's own upkeep, the clock and the gateway.
LEMMA BrowserKept ==
  ASSUME TypeInv, NEW d \in Devices, Browser(d)
  PROVE  TypeInv' /\ state' = state /\ left' = left
<1>1. txn[d] \in [status: Verdicts, at: Nat]
  BY Server
<1>2. PICK verdict \in {"approved", "denied"} : txn' = [txn EXCEPT ![d].status = verdict]
  BY DEF Browser
<1>3. [txn[d] EXCEPT !.status = verdict] \in [status: Verdicts, at: Nat]
  BY <1>1 DEF Verdicts
<1>4. txn' = [txn EXCEPT ![d] = [txn[d] EXCEPT !.status = verdict]]
  BY <1>2, Server
<1>5. txn' \in [Devices -> [status: Verdicts, at: Nat]]
  BY <1>3, <1>4, Server
<1>6. Calls'
  BY Held, Unmoved DEF Browser
<1>7. QED
  BY <1>5, <1>6, Server, Served DEF Browser, others

LEMMA UpkeepKept ==
  ASSUME TypeInv, HandOver \/ Publish
  PROVE  TypeInv' /\ state' = state /\ left' = left
<1>1. Calls'
  BY Held, Unmoved DEF HandOver, Publish
<1>2. CASE HandOver
  BY <1>1, <1>2, Server, Served DEF HandOver, others
<1>3. CASE Publish
  BY <1>1, <1>3, Server, Served DEF Publish, others
<1>4. QED
  BY <1>2, <1>3

LEMMA TickKept ==
  ASSUME TypeInv, Tick
  PROVE  TypeInv' /\ state' = state /\ left'.logins = left.logins
<1>1. left.ticks - 1 \in Nat /\ left \in Counts
  BY Held DEF Tick, Counts
<1>2. left' \in Counts /\ left'.logins = left.logins
  BY <1>1 DEF Tick, Counts
<1>3. now' \in Nat
  BY Server DEF Tick
<1>4. FromServer'
  BY DEF TypeInv, FromServer, StateFits, Tick, server, Fits
<1>5. TypeOK'
  BY <1>2, <1>3 DEF TypeInv, TypeOK, Tick, server
<1>6. QED
  BY <1>2, <1>4, <1>5 DEF TypeInv, Tick

LEMMA SnapshotKept ==
  ASSUME TypeInv, Snapshot
  PROVE  TypeInv' /\ state' = state /\ left'.logins = left.logins
<1>1. left.requests - 1 \in Nat /\ left \in Counts /\ StateFits(state) /\ state \in States
  BY Held DEF Snapshot, Counts, StateFits
<1>2. left' \in Counts /\ left'.logins = left.logins
  BY <1>1 DEF Snapshot, Counts
<1>3. /\ request' \in [gen: Nat, cert: Cert] \union {None}
      /\ request'.cert \in issued
  BY <1>1, Server DEF Snapshot, States, StateFits
<1>4. FromServer'
  BY <1>3 DEF TypeInv, FromServer, StateFits, Snapshot, server, Fits
<1>5. TypeOK'
  BY <1>2, <1>3 DEF TypeInv, TypeOK, Snapshot, server
<1>6. QED
  BY <1>2, <1>4, <1>5 DEF TypeInv, Snapshot

LEMMA VerdictKept ==
  ASSUME TypeInv, Verdict
  PROVE  /\ TypeInv' /\ left' = left /\ refused \subseteq refused'
         /\ \/ state' = state
            \/ /\ state.active # None /\ state.active \in refused'
               /\ state' = [state EXCEPT !.err = "rejected"]
            \/ /\ state' = [state EXCEPT !.err = "none"]
<1> DEFINE c == request.cert
           no == c \in published \/ now >= c.until
           err == IF no THEN "rejected" ELSE IF state.err = "rejected" THEN "none" ELSE state.err
<1>1. /\ StateFits(state) /\ state \in States /\ c \in issued /\ c # None
      /\ refused \subseteq issued
  BY Held, Server, IdentityAssumption DEF StateFits, Verdict, TypeInv, TypeOK, FromServer,
     IdentityAssumption
<1>2. err \in Errors
  BY <1>1 DEF States, Errors
<1>3. /\ state' \in {state, [state EXCEPT !.err = err]}
      /\ request' = None /\ refused' \in {refused, refused \union {c}}
      /\ UNCHANGED <<call, server, now, shown, left>>
      /\ no => refused' = refused \union {c}
      /\ state' # state => state.active = c
  BY DEF Verdict
<1>4. \/ state' = state
      \/ /\ state.active # None /\ state.active \in refused'
         /\ state' = [state EXCEPT !.err = "rejected"]
      \/ state' = [state EXCEPT !.err = "none"]
  <2>1. CASE no
    BY <1>1, <1>3, <2>1
  <2>2. CASE ~ no /\ state.err = "rejected"
    BY <1>1, <1>3, <2>2
  <2>3. CASE ~ no /\ state.err # "rejected"
    BY <1>1, <1>3, <2>3 DEF States
  <2>4. QED
    BY <2>1, <2>2, <2>3
<1> HIDE DEF c, err, no
<1>5. StateFits([state EXCEPT !.err = err])
  BY <1>2, Edited
<1>6. StateFits(state') /\ issued' = issued
  BY <1>1, <1>3, <1>5 DEF server
<1>7. StateFits(state)' /\ refused \subseteq refused' /\ refused' \subseteq issued
  BY <1>1, <1>3, <1>6 DEF StateFits
<1>8. FromServer'
  <2>1. Calls'
    BY <1>3, <1>6, Held, Unmoved
  <2>2. QED
    BY <1>3, <1>7, <2>1 DEF TypeInv, FromServer, Calls, server
<1>9. TypeOK'
  <2>1. state' \in States
    BY <1>6 DEF StateFits
  <2>2. QED
    BY <1>3, <1>7, <2>1 DEF TypeInv, TypeOK, server, States
<1>10. QED
  BY <1>3, <1>4, <1>7, <1>8, <1>9 DEF TypeInv

-----------------------------------------------------------------------------
(* What a step does to the state file. *)

\* Everything that ever happens to it.  Only a login and a renewal put a certificate
\* in use: the login waited for, and the device that is connected.
Moves ==
  \/ /\ left'.logins = left.logins
     /\ \/ state' = state
        \/ state' = Retired
        \/ \E revs \in SUBSET state.revs, cancels \in SUBSET state.cancels :
             state' = [state EXCEPT !.revs = revs, !.cancels = cancels]
        \/ state.pending # None /\ state' = [state EXCEPT !.pending.started = TRUE]
        \/ \E c \in issued :
             /\ state.pending # None /\ c.dev = state.pending.dev
             /\ state' = [state EXCEPT !.active = c, !.pending = None, !.err = "none"]
        \/ \E code \in Errors : /\ state.pending # None \/ state.renewal # 0
                                /\ state' = [state EXCEPT !.err = code]
        \/ \E c \in issued :
             /\ state.active # None /\ c.dev = state.active.dev
             /\ state' = [state EXCEPT !.active = c, !.renewal = 0, !.err = "none",
                                       !.gen = @ + 1]
        \/ \E op \in Nat : op # 0 /\ state' = [state EXCEPT !.renewal = op]
        \/ /\ state.active # None /\ state.active \in refused'
           /\ state' = [state EXCEPT !.err = "rejected"]
        \/ state' = [state EXCEPT !.err = "none"]
  \/ /\ left.logins \in Devices /\ left'.logins = left.logins - 1
     /\ state' = NewLogin /\ NewLogin.active = None /\ NewLogin.pending.dev = left.logins
     /\ NewLogin.gen = state.gen + 1 /\ NewLogin.err = "none"
     /\ NewLogin.revs = Retired.revs /\ NewLogin.cancels = Retired.cancels

LEMMA StepMoves ==
  ASSUME TypeInv, [Next]_vars
  PROVE  TypeInv' /\ Moves /\ refused \subseteq refused'
<1>1. CASE UNCHANGED vars
  <2>1. TypeInv'
    BY <1>1 DEF TypeInv, TypeOK, FromServer, StateFits, Fits, vars, server, others
  <2>2. QED
    BY <1>1, <2>1 DEF Moves, vars
<1>2. ASSUME NEW a \in Clients, Connect(a) PROVE TypeInv' /\ Moves /\ refused \subseteq refused'
  <2>1. refused' = refused
    BY <1>2 DEF Connect, others
  <2>2. QED
    BY <1>2, <2>1, ConnectKept DEF Moves
<1>3. ASSUME NEW a \in Clients, Calm(a) PROVE TypeInv' /\ Moves /\ refused \subseteq refused'
  <2>1. refused' = refused
    BY <1>3 DEF Calm, Poll, Waits, AskRenewal, ReadTodos, NextTodo, Traced, Keep, Lose, Crash,
       others
  <2>2. QED
    BY <1>3, <2>1, QuietKept DEF Moves
<1>4. ASSUME NEW a \in Clients, Serve(a) PROVE TypeInv' /\ Moves /\ refused \subseteq refused'
  <2>1. refused' = refused
    BY <1>4 DEF Serve, ServeStart, ServePoll, ServeRecover, ServeRenew, ServeCancel, ServeRevoke,
       others
  <2>2. TypeInv' /\ state' = state /\ left' = left
    BY <1>4, ServeStartKept, ServePollKept, ServeRecoverKept, ServeRenewKept, ServeCancelKept,
       ServeRevokeKept DEF Serve
  <2>3. QED
    BY <2>1, <2>2 DEF Moves
<1>5. ASSUME NEW a \in Clients, Renew(a) PROVE TypeInv' /\ Moves /\ refused \subseteq refused'
  <2>1. refused' = refused
    BY <1>5 DEF Renew, others
  <2>2. QED
    BY <1>5, <2>1, RenewKept DEF Moves
<1>6. ASSUME NEW a \in Clients, Logout(a) PROVE TypeInv' /\ Moves /\ refused \subseteq refused'
  <2>1. refused' = refused
    BY <1>6 DEF Logout, others
  <2>2. QED
    BY <1>6, <2>1, LogoutKept DEF Moves
<1>7. ASSUME NEW a \in Clients, Prune(a) PROVE TypeInv' /\ Moves /\ refused \subseteq refused'
  <2>1. refused' = refused
    BY <1>7 DEF Prune, others
  <2>2. QED
    BY <1>7, <2>1, PruneKept DEF Moves
<1>8. ASSUME NEW a \in Clients, Drop(a) PROVE TypeInv' /\ Moves /\ refused \subseteq refused'
  <2>1. refused' = refused
    BY <1>8 DEF Drop, others
  <2>2. QED
    BY <1>8, <2>1, DropKept DEF Moves
<1>9. ASSUME NEW a \in Clients, RecordStarted(a)
      PROVE  TypeInv' /\ Moves /\ refused \subseteq refused'
  <2>1. refused' = refused
    BY <1>9 DEF RecordStarted
  <2>2. QED
    BY <1>9, <2>1, RecordStartedKept DEF Moves
<1>10. ASSUME NEW a \in Clients, ActivateLogin(a)
       PROVE  TypeInv' /\ Moves /\ refused \subseteq refused'
  <2>1. refused' = refused
    BY <1>10 DEF ActivateLogin, others
  <2>2. QED
    BY <1>10, <2>1, ActivateLoginKept DEF Moves
<1>11. ASSUME NEW a \in Clients, NoteError(a)
       PROVE  TypeInv' /\ Moves /\ refused \subseteq refused'
  <2>1. refused' = refused
    BY <1>11 DEF NoteError, others
  <2>2. QED
    BY <1>11, <2>1, NoteErrorKept DEF Moves
<1>12. ASSUME NEW a \in Clients, ActivateRenewal(a)
       PROVE  TypeInv' /\ Moves /\ refused \subseteq refused'
  <2>1. refused' = refused
    BY <1>12 DEF ActivateRenewal, others
  <2>2. QED
    BY <1>12, <2>1, ActivateRenewalKept DEF Moves
<1>13. ASSUME NEW d \in Devices, Browser(d)
       PROVE  TypeInv' /\ Moves /\ refused \subseteq refused'
  <2>1. refused' = refused
    BY <1>13 DEF Browser, others
  <2>2. QED
    BY <1>13, <2>1, BrowserKept DEF Moves
<1>14. CASE HandOver \/ Publish \/ Tick \/ Snapshot
  <2>1. refused' = refused
    BY <1>14 DEF HandOver, Publish, Tick, Snapshot, others
  <2>2. QED
    BY <1>14, <2>1, UpkeepKept, TickKept, SnapshotKept DEF Moves
<1>15. CASE Verdict
  BY <1>15, VerdictKept DEF Moves
<1>16. QED
  BY <1>1, <1>2, <1>3, <1>4, <1>5, <1>6, <1>7, <1>8, <1>9, <1>10, <1>11, <1>12, <1>13,
     <1>14, <1>15 DEF Next, Step, Calm

LEMMA Initially == Init => TypeInv
<1> SUFFICES ASSUME Init PROVE TypeInv
  OBVIOUS
<1>1. state \in States /\ StateFits(state)
  BY DEF Init, States, StateFits, Errors
<1>2. call \in [Clients -> CallRecords] /\ \A a \in Clients : Fits(call[a])
  BY Idles DEF Init
<1>3. FromServer
  BY <1>1, <1>2 DEF FromServer, Init
<1>4. TypeOK
  <2>1. \A a \in Clients : call[a].at = "idle" /\ call[a].reply = "none"
    BY DEF Init, Idle
  <2>2. left \in Counts
    BY IdentityAssumption DEF Init, IdentityAssumption
  <2>3. /\ now \in Nat /\ request = None
        /\ txn \in [Devices -> [status: Verdicts, at: Nat]]
        /\ issued = {} /\ renewed = {} /\ revoked = {} /\ handed = {} /\ published = {}
        /\ disabled = {} /\ shown = {} /\ refused = {}
    BY DEF Init, Verdicts
  <2>4. QED
    BY <1>1, <2>1, <2>2, <2>3 DEF TypeOK, States, Verdicts
<1>5. QED
  BY <1>3, <1>4 DEF TypeInv

\* Whatever clients, server, clock and network do: the state file, the calls under
\* way and the server's store hold what their types say, and every certificate
\* anybody holds was issued by the server (store.rs, enroll store.go).
THEOREM TypeCorrect == Spec => []TypeOK
<1>1. TypeInv /\ [Next]_vars => TypeInv'
  BY StepMoves
<1>2. TypeInv => TypeOK
  BY DEF TypeInv
<1>3. QED
  BY Initially, <1>1, <1>2, PTL DEF Spec

-----------------------------------------------------------------------------
(* Which devices the state file names.  Logins take their devices downwards from
   left.logins, so the devices still to come are 1..left.logins. *)

\* The devices that are to be cancelled or revoked.
Retiring == {t.cert.dev : t \in state.revs} \union {p.dev : p \in state.cancels}

\* A device is either connected, or waited for, or retiring; and it is not one
\* of those still to come.
Connected == state.active # None =>
  /\ state.pending = None
  /\ state.active.dev \notin Retiring /\ state.active.dev > left.logins
Awaited == state.pending # None =>
  state.pending.dev \notin Retiring /\ state.pending.dev > left.logins
Past == \A d \in Retiring : d > left.logins

Inv == TypeInv /\ Connected /\ Awaited /\ Past /\ ErrorIsCurrent

LEMMA Numbers ==
  ASSUME TypeInv
  PROVE  /\ left.logins \in Nat /\ state.gen \in Nat /\ state.renewal \in Nat
         /\ \A c \in issued : c.dev \in Nat /\ c # None
         /\ state.pending # None => state.pending.dev \in Nat
         /\ state.active # None => state.active.dev \in Nat
         /\ Retiring \subseteq Nat
<1>1. StateFits(state) /\ state \in States /\ left \in Counts /\ issued \subseteq Cert
      /\ None \notin Cert /\ MaxLogins \in Nat
  BY Held, Server, IdentityAssumption DEF StateFits, IdentityAssumption
<1>2. \A c \in issued : c.dev \in Nat /\ c # None
  BY <1>1 DEF Cert
<1>3. Retiring \subseteq Nat
  BY <1>1, <1>2 DEF Retiring, StateFits, States, Cancellation
<1>4. left.logins \in Nat /\ state.gen \in Nat /\ state.renewal \in Nat
  BY <1>1 DEF Counts, States
<1>5. QED
  BY <1>1, <1>2, <1>3, <1>4 DEF StateFits, States, Pending

\* A login retired: nobody is connected or waited for, and who was is retiring.
LEMMA RetiredApart ==
  ASSUME Inv, NEW revs, NEW cancels, revs = Retired.revs, cancels = Retired.cancels
  PROVE  \A d \in {t.cert.dev : t \in revs} \union {p.dev : p \in cancels} :
           d \in Nat /\ d > left.logins
<1>1. /\ \A t \in revs : t \in state.revs \/ (state.active # None /\ t.cert = state.active)
      /\ \A p \in cancels : p \in state.cancels
                            \/ (state.pending # None /\ p.dev = state.pending.dev)
  BY RetiredFits DEF Inv
<1>2. QED
  BY <1>1, Numbers DEF Inv, Connected, Awaited, Past, Retiring

LEMMA InvHolds ==
  ASSUME Inv, [Next]_vars
  PROVE  Inv'
<1>1. TypeInv' /\ Moves /\ refused \subseteq refused'
  BY StepMoves DEF Inv
<1>2. StateFits(state) /\ state \in States /\ None \notin Cert /\ issued \subseteq Cert
  BY Held, Server, IdentityAssumption DEF Inv, StateFits, IdentityAssumption
<1>3. ASSUME left'.logins = left.logins, state'.active = state.active,
             state'.pending \in {state.pending} \/
               (state.pending # None /\ state'.pending # None
                /\ state'.pending.dev = state.pending.dev),
             state'.revs \subseteq state.revs, state'.cancels \subseteq state.cancels
      PROVE  (Connected /\ Awaited /\ Past)'
  BY <1>3 DEF Inv, Connected, Awaited, Past, Retiring
<1>4. ASSUME state'.active = None, left'.logins <= left.logins, left'.logins \in Nat,
             state'.revs = Retired.revs, state'.cancels = Retired.cancels,
             state'.pending # None => /\ state'.pending.dev = left.logins
                                      /\ left'.logins < left.logins
      PROVE  (Connected /\ Awaited /\ Past)'
  <2>1. \A d \in Retiring' : d \in Nat /\ d > left.logins
    BY <1>4, RetiredApart DEF Retiring
  <2>2. QED
    BY <1>4, <2>1, Numbers DEF Inv, Connected, Awaited, Past
<1>5. ASSUME NEW c \in issued, left'.logins = left.logins, state'.active = c,
             state'.pending = None, state'.revs = state.revs, state'.cancels = state.cancels,
             \/ state.pending # None /\ c.dev = state.pending.dev
             \/ state.active # None /\ c.dev = state.active.dev
      PROVE  (Connected /\ Awaited /\ Past)'
  <2>1. Retiring' = Retiring
    BY <1>5 DEF Retiring
  <2>2. QED
    BY <1>5, <2>1 DEF Inv, Connected, Awaited, Past
<1>6. CASE state' = state /\ left'.logins = left.logins
  <2>1. (Connected /\ Awaited /\ Past)'
    BY <1>3, <1>6
  <2>2. QED
    BY <1>1, <1>6, <2>1 DEF Inv, ErrorIsCurrent
<1>7. CASE state' = Retired /\ left'.logins = left.logins
  <2>1. (Connected /\ Awaited /\ Past)'
    BY <1>4, <1>7, RetiredFits, Numbers DEF Inv
  <2>2. state'.err = "none"
    BY <1>7, RetiredFits DEF Inv
  <2>3. QED
    BY <1>1, <2>1, <2>2 DEF Inv, ErrorIsCurrent
<1>8. ASSUME left'.logins = left.logins, NEW revs \in SUBSET state.revs,
             NEW cancels \in SUBSET state.cancels,
             state' = [state EXCEPT !.revs = revs, !.cancels = cancels]
      PROVE  Inv'
  <2>1. /\ state'.active = state.active /\ state'.pending = state.pending
        /\ state'.revs = revs /\ state'.cancels = cancels
        /\ state'.err = state.err /\ state'.renewal = state.renewal
    BY <1>2, <1>8 DEF States
  <2>2. (Connected /\ Awaited /\ Past)'
    BY <1>3, <1>8, <2>1
  <2>3. QED
    BY <1>1, <2>1, <2>2 DEF Inv, ErrorIsCurrent
<1>9. CASE /\ left'.logins = left.logins /\ state.pending # None
           /\ state' = [state EXCEPT !.pending.started = TRUE]
  <2>1. state.pending \in Pending
    BY <1>2, <1>9 DEF States
  <2>2. /\ state'.active = state.active /\ state'.revs = state.revs
        /\ state'.cancels = state.cancels
        /\ state'.pending = [state.pending EXCEPT !.started = TRUE]
    BY <1>2, <1>9 DEF States
  <2>3. state'.pending.dev = state.pending.dev /\ state'.pending.started = TRUE
    BY <2>1, <2>2 DEF Pending
  <2>4. (Connected /\ Awaited /\ Past)'
    BY <1>9, <2>2, <2>3 DEF Inv, Connected, Awaited, Past, Retiring
  <2>5. state'.pending # None
    BY <2>1, <2>2, IdentityAssumption DEF Pending, IdentityAssumption
  <2>6. ErrorIsCurrent'
    BY <2>5 DEF ErrorIsCurrent
  <2>7. QED
    BY <1>1, <2>4, <2>6 DEF Inv
<1>10. ASSUME left'.logins = left.logins, NEW c \in issued, state.pending # None,
              c.dev = state.pending.dev,
              state' = [state EXCEPT !.active = c, !.pending = None, !.err = "none"]
       PROVE  Inv'
  <2>1. /\ state'.active = c /\ state'.pending = None /\ state'.revs = state.revs
        /\ state'.cancels = state.cancels /\ state'.err = "none"
    BY <1>2, <1>10 DEF States
  <2>2. (Connected /\ Awaited /\ Past)'
    BY <1>5, <1>10, <2>1
  <2>3. QED
    BY <1>1, <2>1, <2>2 DEF Inv, ErrorIsCurrent
<1>11. ASSUME left'.logins = left.logins, NEW code \in Errors,
              \/ state.pending # None \/ state.renewal # 0
              \/ code = "none"
              \/ code = "rejected" /\ state.active # None /\ state.active \in refused',
              state' = [state EXCEPT !.err = code]
       PROVE  Inv'
  <2>1. /\ state'.active = state.active /\ state'.pending = state.pending
        /\ state'.revs = state.revs /\ state'.cancels = state.cancels
        /\ state'.err = code /\ state'.renewal = state.renewal
    BY <1>2, <1>11 DEF States
  <2>2. (Connected /\ Awaited /\ Past)'
    BY <1>3, <1>11, <2>1
  <2>3. QED
    BY <1>1, <1>11, <2>1, <2>2 DEF Inv, ErrorIsCurrent
<1>12. ASSUME left'.logins = left.logins, NEW c \in issued, state.active # None,
              c.dev = state.active.dev,
              state' = [state EXCEPT !.active = c, !.renewal = 0, !.err = "none", !.gen = @ + 1]
       PROVE  Inv'
  <2>1. /\ state'.active = c /\ state'.pending = state.pending /\ state'.revs = state.revs
        /\ state'.cancels = state.cancels /\ state'.err = "none"
    BY <1>2, <1>12 DEF States
  <2>2. state.pending = None
    BY <1>12 DEF Inv, Connected
  <2>3. (Connected /\ Awaited /\ Past)'
    BY <1>5, <1>12, <2>1, <2>2
  <2>4. QED
    BY <1>1, <2>1, <2>3 DEF Inv, ErrorIsCurrent
<1>13. ASSUME left'.logins = left.logins, NEW op \in Nat, op # 0,
              state' = [state EXCEPT !.renewal = op]
       PROVE  Inv'
  <2>1. /\ state'.active = state.active /\ state'.pending = state.pending
        /\ state'.revs = state.revs /\ state'.cancels = state.cancels
        /\ state'.renewal = op
    BY <1>2, <1>13 DEF States
  <2>2. (Connected /\ Awaited /\ Past)'
    BY <1>3, <1>13, <2>1
  <2>3. QED
    BY <1>1, <1>13, <2>1, <2>2 DEF Inv, ErrorIsCurrent
<1>14. CASE /\ left.logins \in Devices /\ left'.logins = left.logins - 1
            /\ state' = NewLogin /\ NewLogin.active = None /\ NewLogin.pending.dev = left.logins
            /\ NewLogin.gen = state.gen + 1 /\ NewLogin.err = "none"
            /\ NewLogin.revs = Retired.revs /\ NewLogin.cancels = Retired.cancels
  <2>1. left.logins \in Nat /\ left.logins > 0 /\ MaxLogins \in Nat
    BY <1>14, Numbers, IdentityAssumption DEF Inv, Devices, IdentityAssumption
  <2>2. left'.logins \in Nat /\ left'.logins < left.logins
    BY <1>14, <2>1
  <2>3. (Connected /\ Awaited /\ Past)'
    BY <1>4, <1>14, <2>1, <2>2
  <2>4. QED
    BY <1>1, <1>14, <2>3 DEF Inv, ErrorIsCurrent
<1>15. QED
  BY <1>1, <1>6, <1>7, <1>8, <1>9, <1>10, <1>11, <1>12, <1>13, <1>14 DEF Moves, Errors

LEMMA InvInitially == Init => Inv
<1> SUFFICES ASSUME Init PROVE Inv
  OBVIOUS
<1>1. state.active = None /\ state.pending = None /\ state.revs = {} /\ state.cancels = {}
      /\ state.err = "none"
  BY DEF Init
<1>2. Retiring = {}
  BY <1>1 DEF Retiring
<1>3. QED
  BY <1>1, <1>2, Initially DEF Inv, Connected, Awaited, Past, ErrorIsCurrent

LEMMA InvAlways == Spec => []Inv
<1>1. Inv /\ [Next]_vars => Inv'
  BY InvHolds
<1>2. QED
  BY InvInitially, <1>1, PTL DEF Spec

\* An error is shown only of a login or a renewal still under way, or of a certificate
\* in use that the gateway did turn down: a late failure never marks the connection
\* another client has completed meanwhile (store.rs note_error, record_gateway).
THEOREM ErrorsAreCurrent == Spec => []ErrorIsCurrent
<1>1. Inv => ErrorIsCurrent
  BY DEF Inv
<1>2. QED
  BY InvAlways, <1>1, PTL

LEMMA MovesOn ==
  ASSUME Inv, [Next]_vars
  PROVE  /\ state'.gen >= state.gen
         /\ (state.active # None /\ state'.gen = state.gen) => state'.active = state.active
         /\ state'.active # None => \/ state.active # None /\ state'.active.dev = state.active.dev
                                    \/ state.pending # None /\ state'.active.dev = state.pending.dev
<1>1. Moves /\ state \in States /\ state.gen \in Nat
  BY StepMoves, Held, Numbers DEF Inv, StateFits
<1>2. CASE state' = Retired \/ state' = NewLogin
  <2>1. state'.active = None /\ state'.gen = state.gen + 1
    <3>1. /\ Retired \in States /\ Retired.active = None
          /\ Retired.gen = state.gen + 1
      BY RetiredFits DEF Inv, StateFits
    <3>2. NewLogin.active = Retired.active /\ NewLogin.gen = Retired.gen
      BY <3>1 DEF NewLogin, States
    <3>3. QED
      BY <1>2, <3>1, <3>2
  <2>2. QED
    BY <1>1, <2>1
<1>3. CASE UNCHANGED <<state>>
  BY <1>1, <1>3
<1>4. ASSUME NEW c \in issued, state.pending # None, c.dev = state.pending.dev,
             state' = [state EXCEPT !.active = c, !.pending = None, !.err = "none"]
      PROVE  /\ state'.gen = state.gen /\ state.active = None
             /\ state'.active.dev = state.pending.dev
  BY <1>1, <1>4 DEF States, Inv, Connected
<1>5. ASSUME NEW c \in issued, state.active # None, c.dev = state.active.dev,
             state' = [state EXCEPT !.active = c, !.renewal = 0, !.err = "none", !.gen = @ + 1]
      PROVE  state'.gen = state.gen + 1 /\ state'.active.dev = state.active.dev
  BY <1>1, <1>5 DEF States
<1>6. CASE \/ \E revs \in SUBSET state.revs, cancels \in SUBSET state.cancels :
                state' = [state EXCEPT !.revs = revs, !.cancels = cancels]
           \/ state' = [state EXCEPT !.pending.started = TRUE]
           \/ \E code \in Errors : state' = [state EXCEPT !.err = code]
           \/ \E op \in Nat : state' = [state EXCEPT !.renewal = op]
           \/ state' = [state EXCEPT !.err = "rejected"]
           \/ state' = [state EXCEPT !.err = "none"]
  <2>1. state'.gen = state.gen /\ state'.active = state.active
    BY <1>1, <1>6 DEF States
  <2>2. QED
    BY <1>1, <2>1
<1>7. CASE \E c \in issued :
             /\ state.pending # None /\ c.dev = state.pending.dev
             /\ state' = [state EXCEPT !.active = c, !.pending = None, !.err = "none"]
  <2>1. /\ state'.gen = state.gen /\ state.active = None /\ state.pending # None
        /\ state'.active.dev = state.pending.dev
    BY <1>4, <1>7
  <2>2. QED
    BY <1>1, <2>1
<1>8. CASE \E c \in issued :
             /\ state.active # None /\ c.dev = state.active.dev
             /\ state' = [state EXCEPT !.active = c, !.renewal = 0, !.err = "none",
                                       !.gen = @ + 1]
  <2>1. /\ state'.gen = state.gen + 1 /\ state.active # None
        /\ state'.active.dev = state.active.dev
    BY <1>5, <1>8
  <2>2. QED
    BY <1>1, <2>1
<1>9. QED
  BY <1>1, <1>2, <1>3, <1>6, <1>7, <1>8 DEF Moves

\* A generation names one certificate, whatever overtakes what: the pool of
\* connections, keyed by the generation, never carries a request under a certificate
\* that was replaced (store.rs activate_renewal, connector_for_request).
THEOREM GenerationsNameCertificates == Spec => OneCertificatePerGeneration
<1>1. Inv /\ [Next]_vars =>
        [/\ state'.gen >= state.gen
         /\ (state.active # None /\ state'.gen = state.gen) => state'.active = state.active]_vars
  BY MovesOn
<1>2. QED
  BY InvAlways, <1>1, PTL DEF Spec, OneCertificatePerGeneration

\* A login that is to be cancelled or revoked never comes back: no late answer of
\* the server, to whichever client, puts its certificate in use (store.rs
\* activate_login, activate_renewal).
THEOREM RetiredStayRetired == Spec => NoReturn
<1> DEFINE Action == \A t \in state.revs \union state.cancels :
                       LET d == IF "cert" \in DOMAIN t THEN t.cert.dev ELSE t.dev
                       IN ~ (state'.active # None /\ state'.active.dev = d)
<1>1. Inv /\ [Next]_vars => [Action]_vars
  <2> SUFFICES ASSUME Inv, [Next]_vars,
                      NEW t \in state.revs \union state.cancels, state'.active # None
               PROVE  state'.active.dev # IF "cert" \in DOMAIN t THEN t.cert.dev ELSE t.dev
    OBVIOUS
  <2>1. state.revs \subseteq Todo /\ state.cancels \subseteq Cancellation
    BY Held DEF Inv, StateFits, States
  <2>2. (IF "cert" \in DOMAIN t THEN t.cert.dev ELSE t.dev) \in Retiring
    <3>1. CASE t \in state.revs
      <4>1. "cert" \in DOMAIN t
        BY <2>1, <3>1 DEF Todo
      <4>2. QED
        BY <3>1, <4>1 DEF Retiring
    <3>2. CASE t \in state.cancels
      <4>1. "cert" \notin DOMAIN t
        BY <2>1, <3>2 DEF Cancellation
      <4>2. QED
        BY <3>2, <4>1 DEF Retiring
    <3>3. QED
      BY <3>1, <3>2
  <2>3. state'.active.dev \notin Retiring
    BY MovesOn DEF Inv, Connected, Awaited
  <2>4. QED
    BY <2>2, <2>3
<1>2. QED
  BY InvAlways, <1>1, PTL DEF Spec, NoReturn

-----------------------------------------------------------------------------
(* Nobody's certificate. *)

\* The devices that are connected, waited for or still to be dealt with.
Waited(d) == \/ state.pending # None /\ state.pending.dev = d
             \/ \E p \in state.cancels : p.dev = d
Known(d) == \/ Waited(d)
            \/ state.active # None /\ state.active.dev = d
            \/ \E t \in state.revs : t.cert.dev = d

\* An enrolment that may still be answered with a certificate, and the certificates
\* that are accepted, are of devices the state file knows.
Open(d) == d \in shown /\ txn[d].status \in {"pending", "approved"} /\ now < txn[d].at + Ttl
Guarded ==
  /\ \A d \in Devices : Open(d) => Known(d)
  /\ \A c \in issued : Accepted(c) => Known(c.dev)

\* The server's enrolments: the user saw the address of one that is approved or
\* issued, one has one certificate, and a withdrawn one's certificates are revoked.
Dealt == {"issued", "revocation_pending"}
Logins ==
  /\ \A c \in issued : c.dev \in shown /\ txn[c.dev].status \in Dealt
  /\ \A d \in Devices :
       /\ txn[d].status = "approved" => d \in shown
       /\ d \in shown => txn[d].status # "none"
       /\ d <= left.logins => txn[d].status = "none"
       /\ txn[d].status = "revocation_pending" => IssuedTo(d) \subseteq revoked
       /\ d \in disabled => /\ txn[d].status \in Dealt
                            /\ \A c \in issued : c.dev = d => c \in revoked
  /\ \A c, e \in issued : c.key = 0 /\ e.key = 0 /\ c.dev = e.dev => c = e

\* Its renewals: each certificate has at most one successor, a later one.
Chain ==
  /\ \A r \in renewed :
       /\ r.op # 0 /\ r.new.dev = r.old.dev
       /\ r.old.until < r.new.until /\ r.new.until <= r.old.until + Life
  /\ \A r, s \in renewed : r.old = s.old => r = s
  /\ \A c \in issued : c.key # 0 => \E r \in renewed : r.new = c

\* No device that waits was ever connected.
Apart == \A r \in renewed : ~ Waited(r.old.dev) /\ r.old.dev > left.logins

\* The certificate in use, or one to be revoked, ends after all others of its device,
\* its successor by the operation noted with it apart.
Covers(cert, op) ==
  /\ \A c \in issued : c.dev = cert.dev /\ c.key = 0 => c.until <= cert.until
  /\ \A r \in renewed : r.old.dev = cert.dev =>
       r.new.until <= cert.until \/ (r.old = cert /\ r.op = op)
Covered ==
  /\ state.active # None => Covers(state.active, state.renewal)
  /\ \A t \in state.revs : Covers(t.cert, t.op)
  /\ \A t, u \in state.revs : t.cert.dev = u.cert.dev => t = u

\* What is waited for or to be cancelled can be forgotten at the time noted with it.
Timely(d, created) ==
  /\ txn[d].status \in {"pending", "approved"} => txn[d].at <= created
  /\ \A c \in issued : c.dev = d /\ c.key = 0 => c.until <= created + Ttl + Life
Waiting ==
  /\ state.pending # None =>
       /\ state.pending.started => txn[state.pending.dev].status # "none"
       /\ state.pending.dev \in shown => state.pending.started
       /\ Timely(state.pending.dev, state.pending.created)
  /\ \A p \in state.cancels : /\ p.dev \in Devices /\ txn[p.dev].status # "none"
                              /\ Timely(p.dev, p.created)

\* An operation a client asks about is noted, was answered, or comes too late.
Tracked(cert, op) ==
  \/ state.active = cert /\ state.renewal = op
  \/ \E t \in state.revs : t.cert = cert /\ t.op = op
  \/ \E r \in renewed : r.old = cert
  \/ ~ Accepted(cert)

\* A client's call, by what it is about.
Starting(c) == c.at = "start" =>
  /\ c.dev > left.logins /\ c.gen <= state.gen
  /\ c.reply = "none" => txn[c.dev].status = "none"
  /\ c.reply = "ok" => txn[c.dev].status # "none"
  /\ state.pending # None =>
       /\ c.gen = state.gen => state.pending.dev = c.dev
       /\ state.pending.dev = c.dev /\ c.reply = "none" => state.pending.created = now
Renewing(c) == c.at \in {"recover", "renew"} =>
  /\ c.op # 0 /\ c.gen <= state.gen /\ (c.gen = state.gen => state.active = c.cert)
  /\ Tracked(c.cert, c.op)
  /\ ~ Waited(c.cert.dev) /\ c.cert.dev > left.logins
  /\ c.reply = "cert" =>
       \E r \in renewed : r.old = c.cert /\ r.op = c.op /\ r.new = c.answer
Asking(c) ==
  /\ c.at = "poll" => txn[c.dev].status # "none"
  /\ \A p \in c.cancels : p.dev \in Devices /\ txn[p.dev].status # "none"
  /\ c.at = "cancel" =>
       /\ c.dev \in Devices /\ txn[c.dev].status # "none"
       /\ c.reply = "done" => /\ txn[c.dev].status \notin {"pending", "approved"}
                              /\ IssuedTo(c.dev) \subseteq published
Revoking(c) ==
  /\ c.at = "sweep" => c.answer = None /\ c.reply = "none"
  /\ c.at \in {"trace", "revoke"} /\ c.answer # None => c.answer.dev = c.cert.dev
  /\ c.at = "revoke" /\ c.reply = "done" =>
       \A x \in issued : x.dev = c.cert.dev => x \in published

Sound(c) == Starting(c) /\ Renewing(c) /\ Asking(c) /\ Revoking(c)
Sounds == \A a \in Clients : Sound(call[a])
Distinct == \A a, b \in Clients :
  call[a].at = "start" /\ call[b].at = "start" /\ call[a].dev = call[b].dev => a = b

Kept == Logins /\ Chain /\ Apart /\ Covered /\ Waiting /\ Guarded
Whole == Inv /\ Kept /\ Sounds /\ Distinct

\* Whatever call was sound still is.
Steady == \A c \in CallRecords : Fits(c) /\ Sound(c) => Sound(c)'

LEMMA IdleSound ==
  ASSUME NEW c, c.at \in {"idle", "flush", "read"}, c.cancels = {}
  PROVE  Sound(c) /\ Sound(c)'
  BY DEF Sound, Starting, Renewing, Asking, Revoking

\* The types of what the proofs compare.
LEMMA Ranges ==
  ASSUME TypeInv
  PROVE  /\ now \in Nat /\ Life \in Nat /\ Ttl \in Nat /\ Recovery \in Nat /\ RenewBefore \in Nat
         /\ \A c \in issued : /\ c \in Cert /\ c # None /\ c.dev \in Devices /\ c.dev \in Nat
                              /\ c.until \in Nat /\ c.key \in Nat
         /\ \A r \in renewed : r.old \in issued /\ r.new \in issued /\ r.op \in Nat
         /\ \A d \in Devices : d \in Nat /\ d # 0 /\ txn[d].at \in Nat /\ txn[d].status \in Verdicts
         /\ txn \in [Devices -> [status: Verdicts, at: Nat]]
         /\ state \in States /\ left.logins \in Nat /\ state.gen \in Nat /\ state.renewal \in Nat
         /\ \A t \in state.revs : t \in Todo /\ t.cert \in issued /\ t.op \in Nat
         /\ \A p \in state.cancels : p \in Cancellation /\ p.dev \in Nat /\ p.created \in Nat
         /\ state.active # None => state.active \in issued
         /\ state.pending # None =>
              /\ state.pending \in Pending /\ state.pending.dev \in Devices
              /\ state.pending.created \in Nat /\ state.pending.started \in BOOLEAN
         /\ published \subseteq revoked /\ revoked \subseteq issued
<1>1. StateFits(state) /\ state \in States /\ left \in Counts /\ None \notin Cert
      /\ Life \in Nat /\ Ttl \in Nat /\ Recovery \in Nat /\ RenewBefore \in Nat /\ MaxLogins \in Nat
  BY Held, IdentityAssumption DEF StateFits, IdentityAssumption
<1>2. \A c \in issued : /\ c \in Cert /\ c # None /\ c.dev \in Devices /\ c.dev \in Nat
                        /\ c.until \in Nat /\ c.key \in Nat
  BY <1>1, Server DEF Cert
<1>3. \A r \in renewed : r.old \in issued /\ r.new \in issued /\ r.op \in Nat
  BY Server
<1>4. \A d \in Devices : d \in Nat /\ d # 0 /\ txn[d].at \in Nat /\ txn[d].status \in Verdicts
  BY <1>1, Server DEF Devices
<1>5. \A t \in state.revs : t \in Todo /\ t.cert \in issued /\ t.op \in Nat
  BY <1>1 DEF StateFits, States, Todo
<1>6. \A p \in state.cancels : p \in Cancellation /\ p.dev \in Nat /\ p.created \in Nat
  BY <1>1 DEF States, Cancellation
<1>7. state.pending # None =>
        /\ state.pending \in Pending /\ state.pending.dev \in Devices
        /\ state.pending.created \in Nat /\ state.pending.started \in BOOLEAN
  BY <1>1 DEF StateFits, States, Pending
<1>8. left.logins \in Nat /\ state.gen \in Nat /\ state.renewal \in Nat
  BY Numbers
<1>9. QED
  BY <1>1, <1>2, <1>3, <1>4, <1>5, <1>6, <1>7, <1>8, Server DEF StateFits

\* A client's call goes on, and the others stay as they are.
LEMMA Onward ==
  ASSUME Whole, NEW a \in Clients, NEW n, call' = [call EXCEPT ![a] = n],
         \A b \in Clients \ {a} : \A c : c = call[b] => Sound(c)',
         Sound(n)',
         n.at = "start" => \A b \in Clients \ {a} : call[b].at = "start" => call[b].dev # n.dev
  PROVE  Sounds' /\ Distinct'
<1>1. call \in [Clients -> CallRecords]
  BY Held DEF Whole, Inv, Calls
<1>2. call'[a] = n /\ \A b \in Clients \ {a} : call'[b] = call[b]
  BY <1>1
<1>3. ASSUME NEW b \in Clients PROVE Sound(call[b])'
  <2>1. CASE b = a
    BY <1>2, <2>1
  <2>2. CASE b # a
    <3>1. PICK c : c = call[b]
      OBVIOUS
    <3>2. Sound(c)' /\ call'[b] = c
      BY <1>2, <2>2, <3>1
    <3>3. QED
      BY <3>2
  <2>3. QED
    BY <2>1, <2>2
<1>4. Distinct'
  BY <1>2 DEF Distinct, Whole
<1>5. QED
  BY <1>3, <1>4 DEF Sounds

LEMMA Goes ==
  ASSUME Whole, Steady, NEW a \in Clients, NEW n, call' = [call EXCEPT ![a] = n], Sound(n)',
         n.at = "start" => call[a].at = "start" /\ n.dev = call[a].dev
  PROVE  Sounds' /\ Distinct'
<1>1. call \in [Clients -> CallRecords] /\ (\A b \in Clients : Fits(call[b]) /\ Sound(call[b]))
  BY Held DEF Whole, Inv, Calls, Sounds
<1>2. ASSUME NEW b \in Clients, NEW c, c = call[b] PROVE Sound(c)'
  BY <1>1, <1>2 DEF Steady
<1>3. n.at = "start" => \A b \in Clients \ {a} : call[b].at = "start" => call[b].dev # n.dev
  BY DEF Whole, Distinct
<1>4. QED
  BY <1>2, <1>3, Onward

LEMMA Stays ==
  ASSUME Whole, Steady, call' = call
  PROVE  Sounds' /\ Distinct'
<1>1. call \in [Clients -> CallRecords] /\ (\A b \in Clients : Fits(call[b]) /\ Sound(call[b]))
  BY Held DEF Whole, Inv, Calls, Sounds
<1>2. ASSUME NEW b \in Clients PROVE Sound(call[b])'
  <2>1. PICK c : c = call[b]
    OBVIOUS
  <2>2. Sound(c)' /\ call'[b] = c
    BY <1>1, <2>1 DEF Steady
  <2>3. QED
    BY <2>2
<1>3. Distinct'
  BY DEF Whole, Distinct
<1>4. QED
  BY <1>2, <1>3 DEF Sounds

-----------------------------------------------------------------------------
(* How the state file may change. *)

\* The server and the clock are as they were; the user may have been given an address.
Resting ==
  /\ UNCHANGED <<txn, issued, renewed, revoked, published, disabled, now>>
  /\ shown \subseteq shown' /\ \A d \in shown' : d \in shown \/ txn[d].status # "none"
  /\ left'.logins \in Nat /\ left'.logins <= left.logins

LEMMA ServerRests ==
  ASSUME Whole, Resting, \A d : Waited(d)' => Waited(d) \/ d = left.logins
  PROVE  /\ Logins' /\ Chain' /\ Apart'
         /\ \A c : Asking(c) /\ Revoking(c) => Asking(c)' /\ Revoking(c)'
         /\ \A cert, op : Covers(cert, op)' <=> Covers(cert, op)
         /\ \A d, created : Timely(d, created)' <=> Timely(d, created)
         /\ \A c : Accepted(c)' <=> Accepted(c)
<1> USE DEF Resting
<1>1. \A d : IssuedTo(d)' = IssuedTo(d)
  BY DEF IssuedTo
<1>2. left.logins \in Nat /\ \A d \in Devices : d \in Nat
  BY Ranges DEF Whole, Inv
<1>3. Logins'
  BY <1>1, <1>2 DEF Whole, Kept, Logins
<1>4. Chain'
  BY DEF Whole, Kept, Chain
<1>5. Apart'
  <2>1. \A r \in renewed : r.old.dev \in Nat
    BY Ranges DEF Whole, Inv
  <2>2. QED
    BY <1>2, <2>1 DEF Whole, Kept, Apart
<1>6. \A c : Asking(c) /\ Revoking(c) => Asking(c)' /\ Revoking(c)'
  BY <1>1 DEF Asking, Revoking
<1>7. QED
  BY <1>3, <1>4, <1>5, <1>6 DEF Covers, Timely, Accepted

\* The fields of the state file that matter here.
Unread == /\ state'.gen = state.gen /\ state'.active = state.active
          /\ state'.pending = state.pending /\ state'.renewal = state.renewal
          /\ state'.revs = state.revs /\ state'.cancels = state.cancels

LEMMA Nothing ==
  ASSUME Whole, Resting, left'.logins = left.logins, Unread, shown' = shown
  PROVE  Kept' /\ Steady /\ \A c : Sound(c) => Sound(c)'
<1> USE DEF Unread
<1>1. \A d : /\ Waited(d)' <=> Waited(d)
             /\ Known(d)' <=> Known(d)
  BY DEF Waited, Known
<1>2. /\ Logins' /\ Chain' /\ Apart'
      /\ \A c : Asking(c) /\ Revoking(c) => Asking(c)' /\ Revoking(c)'
      /\ \A cert, op : Covers(cert, op)' <=> Covers(cert, op)
      /\ \A d, created : Timely(d, created)' <=> Timely(d, created)
      /\ \A c : Accepted(c)' <=> Accepted(c)
  BY <1>1, ServerRests
<1> USE DEF Resting
<1>3. Covered' /\ Waiting'
  BY <1>2 DEF Whole, Kept, Covered, Waiting
<1>4. Guarded'
  BY <1>1, <1>2 DEF Whole, Kept, Guarded, Open
<1>5. ASSUME NEW c, Sound(c) PROVE Sound(c)'
  <2>1. Starting(c)'
    BY <1>5 DEF Sound, Starting
  <2>2. Renewing(c)'
    BY <1>1, <1>2, <1>5 DEF Sound, Renewing, Tracked
  <2>3. QED
    BY <1>2, <1>5, <2>1, <2>2 DEF Sound
<1>6. QED
  BY <1>2, <1>3, <1>4, <1>5 DEF Kept, Steady

LEMMA OperationNoted ==
  ASSUME Whole, Resting, left'.logins = left.logins, shown' = shown,
         NEW op \in Nat, op # 0, state.renewal = 0,
         state' = [state EXCEPT !.renewal = op]
  PROVE  Kept' /\ Steady
<1>1. /\ state'.gen = state.gen /\ state'.active = state.active
      /\ state'.pending = state.pending /\ state'.renewal = op
      /\ state'.revs = state.revs /\ state'.cancels = state.cancels
  BY Ranges DEF Whole, Inv, States
<1> USE DEF Resting
<1>2. \A d : Waited(d)' <=> Waited(d)
  BY <1>1 DEF Waited
<1>3. \A d : Known(d)' <=> Known(d)
  BY <1>1, <1>2 DEF Known
<1>4. /\ Logins' /\ Chain' /\ Apart'
      /\ \A c : Asking(c) /\ Revoking(c) => Asking(c)' /\ Revoking(c)'
      /\ \A cert, o : Covers(cert, o)' <=> Covers(cert, o)
      /\ \A d, created : Timely(d, created)' <=> Timely(d, created)
      /\ \A c : Accepted(c)' <=> Accepted(c)
  BY <1>2, ServerRests
<1>5. Covered'
  BY <1>1 DEF Whole, Kept, Covered, Covers, Chain
<1>6. Waiting'
  BY <1>1 DEF Whole, Kept, Waiting, Timely
<1>7. Guarded'
  BY <1>3 DEF Whole, Kept, Guarded, Open, Accepted
<1>8. ASSUME NEW c, Sound(c) PROVE Sound(c)'
  <2>1. Starting(c)'
    BY <1>1, <1>8 DEF Sound, Starting
  <2>2. Renewing(c)'
    <3>1. \A cert, o : o # 0 /\ Tracked(cert, o) => Tracked(cert, o)'
      BY <1>1 DEF Tracked, Accepted
    <3>2. QED
      BY <1>1, <1>2, <1>8, <3>1 DEF Sound, Renewing
  <2>3. QED
    BY <1>4, <1>8, <2>1, <2>2 DEF Sound
<1>9. QED
  BY <1>4, <1>5, <1>6, <1>7, <1>8 DEF Kept, Steady

LEMMA StartNoted ==
  ASSUME Whole, Resting, left'.logins = left.logins, state.pending # None,
         txn[state.pending.dev].status # "none",
         shown' = shown \/ shown' = shown \union {state.pending.dev},
         state' = [state EXCEPT !.pending.started = TRUE]
  PROVE  Kept' /\ Steady
<1> USE DEF Resting
<1> DEFINE p == state.pending
<1>1. /\ state'.gen = state.gen /\ state'.active = state.active
      /\ state'.pending = [p EXCEPT !.started = TRUE] /\ state'.renewal = state.renewal
      /\ state'.revs = state.revs /\ state'.cancels = state.cancels
  BY Ranges DEF Whole, Inv, States
<1>2. /\ p \in Pending /\ p.dev \in Devices /\ None \notin Pending
  BY Ranges, IdentityAssumption DEF Whole, Inv, IdentityAssumption
<1>3. /\ state'.pending # None /\ state'.pending.dev = p.dev /\ state'.pending.started = TRUE
      /\ state'.pending.created = p.created
  <2> HIDE DEF p
  <2>1. [p EXCEPT !.started = TRUE] \in Pending
    BY <1>2 DEF Pending
  <2>2. [p EXCEPT !.started = TRUE] # None
    BY <1>2, <2>1
  <2>3. QED
    BY <1>1, <1>2, <2>2 DEF Pending
<1>4. \A d : Waited(d)' <=> Waited(d)
  BY <1>1, <1>3 DEF Waited
<1>5. (\A d : Known(d)' <=> Known(d)) /\ Known(p.dev)
  BY <1>1, <1>4 DEF Known, Waited
<1>6. /\ Logins' /\ Chain' /\ Apart'
      /\ \A c : Asking(c) /\ Revoking(c) => Asking(c)' /\ Revoking(c)'
      /\ \A cert, op : Covers(cert, op)' <=> Covers(cert, op)
      /\ \A d, created : Timely(d, created)' <=> Timely(d, created)
      /\ \A c : Accepted(c)' <=> Accepted(c)
  BY <1>4, ServerRests
<1>7. Covered'
  BY <1>1 DEF Whole, Kept, Covered, Covers
<1>8. Waiting'
  BY <1>1, <1>3 DEF Whole, Kept, Waiting, Timely
<1>9. Guarded'
  BY <1>5 DEF Whole, Kept, Guarded, Open, Accepted
<1>10. ASSUME NEW c, Sound(c) PROVE Sound(c)'
  <2>1. Starting(c)'
    BY <1>1, <1>3, <1>10 DEF Sound, Starting
  <2>2. Renewing(c)'
    BY <1>1, <1>4, <1>10 DEF Sound, Renewing, Tracked, Accepted
  <2>3. QED
    BY <1>6, <1>10, <2>1, <2>2 DEF Sound
<1>11. QED
  BY <1>6, <1>7, <1>8, <1>9, <1>10 DEF Kept, Steady

LEMMA LoginTaken ==
  ASSUME Whole, Resting, left'.logins = left.logins, shown' = shown, NEW x \in issued, x.key = 0,
         state.pending # None, x.dev = state.pending.dev,
         state' = [state EXCEPT !.active = x, !.pending = None, !.err = "none"]
  PROVE  Kept' /\ Steady
<1> USE DEF Resting
<1>1. /\ state'.gen = state.gen /\ state'.active = x
      /\ state'.pending = None /\ state'.renewal = state.renewal
      /\ state'.revs = state.revs /\ state'.cancels = state.cancels
  BY Ranges DEF Whole, Inv, States
<1>2. x # None /\ state.active = None
  BY Ranges DEF Whole, Inv, Connected
<1>3. (\A d : Waited(d)' => Waited(d)) /\ Waited(x.dev)
  BY <1>1 DEF Waited
<1>4. \A d : Known(d) => Known(d)'
  BY <1>1, <1>2 DEF Known, Waited
<1>5. /\ Logins' /\ Chain' /\ Apart'
      /\ \A c : Asking(c) /\ Revoking(c) => Asking(c)' /\ Revoking(c)'
      /\ \A cert, op : Covers(cert, op)' <=> Covers(cert, op)
      /\ \A d, created : Timely(d, created)' <=> Timely(d, created)
      /\ \A c : Accepted(c)' <=> Accepted(c)
  BY <1>3, ServerRests
<1>6. Covered'
  <2>1. \A c \in issued : c.dev = x.dev /\ c.key = 0 => c = x
    BY DEF Whole, Kept, Logins
  <2>2. \A r \in renewed : r.old.dev # x.dev
    BY <1>3 DEF Whole, Kept, Apart
  <2>3. \A op : Covers(x, op)'
    BY <2>1, <2>2, Ranges DEF Covers, Whole, Inv
  <2>4. \A cert, op : Covers(cert, op)' <=> Covers(cert, op)
    BY DEF Covers
  <2>5. QED
    BY <1>1, <2>3, <2>4 DEF Whole, Kept, Covered
<1>7. Waiting'
  BY <1>1 DEF Whole, Kept, Waiting, Timely
<1>8. Guarded'
  BY <1>4 DEF Whole, Kept, Guarded, Open, Accepted
<1>9. ASSUME NEW c \in CallRecords, Fits(c), Sound(c) PROVE Sound(c)'
  <2>1. Starting(c)'
    BY <1>1, <1>9 DEF Sound, Starting
  <2>2. Renewing(c)'
    <3>1. SUFFICES ASSUME c.at \in {"recover", "renew"} PROVE Renewing(c)'
      BY DEF Renewing
    <3>2. c.cert \in issued /\ c.cert # None
      BY <1>9, <3>1, Ranges DEF Fits, Whole, Inv
    <3>3. c.gen # state.gen /\ Tracked(c.cert, c.op)'
      BY <1>1, <1>2, <1>9, <3>1, <3>2 DEF Sound, Renewing, Tracked, Accepted
    <3>4. QED
      BY <1>1, <1>3, <1>9, <3>1, <3>3 DEF Sound, Renewing
  <2>3. QED
    BY <1>5, <1>9, <2>1, <2>2 DEF Sound
<1>10. QED
  BY <1>5, <1>6, <1>7, <1>8, <1>9 DEF Kept, Steady

LEMMA RenewalTaken ==
  ASSUME Whole, Resting, left'.logins = left.logins, shown' = shown,
         NEW s \in renewed, state.active # None,
         s.old = state.active, s.op = state.renewal,
         state' = [state EXCEPT !.active = s.new, !.renewal = 0, !.err = "none", !.gen = @ + 1]
  PROVE  Kept' /\ Steady
<1> USE DEF Resting
<1> DEFINE x == s.new
<1>1. /\ state'.gen = state.gen + 1 /\ state'.active = x
      /\ state'.pending = state.pending /\ state'.renewal = 0
      /\ state'.revs = state.revs /\ state'.cancels = state.cancels
  BY Ranges DEF Whole, Inv, States
<1>2. /\ x # None /\ x.dev = state.active.dev /\ state.gen \in Nat
      /\ state.active.until < x.until /\ x.until \in Nat /\ state.active.until \in Nat
  BY Ranges DEF Whole, Inv, Kept, Chain
<1> HIDE DEF x
<1>3. \A d : Waited(d)' <=> Waited(d)
  BY <1>1 DEF Waited
<1>4. \A d : Known(d)' <=> Known(d)
  BY <1>1, <1>2, <1>3 DEF Known
<1>5. /\ Logins' /\ Chain' /\ Apart'
      /\ \A c : Asking(c) /\ Revoking(c) => Asking(c)' /\ Revoking(c)'
      /\ \A cert, op : Covers(cert, op)' <=> Covers(cert, op)
      /\ \A d, created : Timely(d, created)' <=> Timely(d, created)
      /\ \A c : Accepted(c)' <=> Accepted(c)
  BY <1>3, ServerRests
<1>6. Covered'
  <2>1. ASSUME NEW c \in issued, c.dev = x.dev, c.key = 0 PROVE c.until <= x.until
    <3>1. c.until <= state.active.until /\ c.until \in Nat
      BY <1>2, <2>1, Ranges DEF Whole, Inv, Kept, Covered, Covers
    <3>2. QED
      BY <1>2, <3>1
  <2>2. ASSUME NEW r \in renewed, r.old.dev = x.dev PROVE r.new.until <= x.until
    <3>1. r.new.until <= state.active.until \/ r.old = state.active
      BY <1>2, <2>2 DEF Whole, Kept, Covered, Covers
    <3>2. r.new.until \in Nat
      BY Ranges DEF Whole, Inv
    <3>3. CASE r.old = state.active
      <4>1. r = s
        BY <3>3 DEF Whole, Kept, Chain
      <4>2. QED
        BY <1>2, <4>1 DEF x
    <3>4. CASE r.new.until <= state.active.until
      BY <1>2, <3>2, <3>4
    <3>5. QED
      BY <3>1, <3>3, <3>4
  <2>3. \A op : Covers(x, op)'
    BY <2>1, <2>2 DEF Covers
  <2>4. \A cert, op : Covers(cert, op)' <=> Covers(cert, op)
    BY DEF Covers
  <2>5. QED
    BY <1>1, <2>3, <2>4 DEF Whole, Kept, Covered
<1>7. Waiting'
  BY <1>1 DEF Whole, Kept, Waiting, Timely
<1>8. Guarded'
  BY <1>4 DEF Whole, Kept, Guarded, Open, Accepted
<1>9. ASSUME NEW c \in CallRecords, Fits(c), Sound(c) PROVE Sound(c)'
  <2>a. c.gen \in Nat
    BY DEF CallRecords
  <2>1. Starting(c)'
    <3>1. c.gen <= state.gen => c.gen <= state.gen + 1 /\ c.gen # state.gen + 1
      BY <1>2, <2>a
    <3>2. QED
      BY <1>1, <1>9, <3>1 DEF Sound, Starting
  <2>2. Renewing(c)'
    <3>1. c.gen <= state.gen => c.gen <= state.gen + 1 /\ c.gen # state.gen + 1
      BY <1>2, <2>a
    <3>2. \A cert, op : Tracked(cert, op) => Tracked(cert, op)'
      BY <1>1 DEF Tracked, Accepted
    <3>3. QED
      BY <1>1, <1>3, <1>9, <3>1, <3>2 DEF Sound, Renewing
  <2>3. QED
    BY <1>5, <1>9, <2>1, <2>2 DEF Sound
<1>10. QED
  BY <1>5, <1>6, <1>7, <1>8, <1>9 DEF Kept, Steady

\* retire(), field by field.
LEMMA RetiredShape ==
  ASSUME TypeInv
  PROVE  /\ Retired.active = None /\ Retired.pending = None /\ Retired.renewal = 0
         /\ Retired.gen = state.gen + 1 /\ Retired \in States
         /\ state.active = None => Retired.revs = state.revs
         /\ state.active # None => \E t : /\ t.cert = state.active /\ t.op = state.renewal
                                          /\ Retired.revs = state.revs \union {t}
         /\ state.pending = None => Retired.cancels = state.cancels
         /\ state.pending # None /\ ~ state.pending.started => Retired.cancels = state.cancels
         /\ state.pending # None /\ state.pending.started =>
              \E p : /\ p.dev = state.pending.dev /\ p.created = state.pending.created
                     /\ Retired.cancels = state.cancels \union {p}
<1>1. state \in States /\ Retired \in States /\ Retired.gen = state.gen + 1
      /\ Retired.active = None /\ Retired.pending = None
  BY Ranges, RetiredFits DEF StateFits
<1>2. Retired.renewal = 0
  BY <1>1 DEF Retired, States
<1> DEFINE todo == [cert |-> state.active, op |-> state.renewal]
           cancel == [dev |-> state.pending.dev, created |-> state.pending.created]
           waits == {[dev |-> p.dev, created |-> p.created] :
                       p \in {q \in {state.pending} : q.started}}
<1>3. Retired.revs = IF state.active = None THEN state.revs ELSE state.revs \union {todo}
  BY <1>1 DEF Retired, States
<1>4. Retired.cancels = IF state.pending = None THEN state.cancels
                        ELSE state.cancels \union waits
  BY <1>1 DEF Retired, States
<1>5. /\ ~ state.pending.started => waits = {}
      /\ state.pending.started => waits = {cancel}
  OBVIOUS
<1>6. /\ todo.cert = state.active /\ todo.op = state.renewal
      /\ cancel.dev = state.pending.dev /\ cancel.created = state.pending.created
  OBVIOUS
<1> HIDE DEF todo, cancel, waits
<1>7. state.pending # None /\ ~ state.pending.started => Retired.cancels = state.cancels
  BY <1>4, <1>5
<1>8. state.pending # None /\ state.pending.started => Retired.cancels = state.cancels \union {cancel}
  BY <1>4, <1>5
<1>9. QED
  BY <1>1, <1>2, <1>3, <1>4, <1>6, <1>7, <1>8

\* A login or a logout retires what there was.
LEMMA LoginRetired ==
  ASSUME Whole, Resting, shown' = shown,
         state'.gen = Retired.gen, state'.active = None, state'.renewal = 0,
         state'.revs = Retired.revs, state'.cancels = Retired.cancels,
         state'.pending # None =>
           /\ state'.pending.dev = left.logins /\ state'.pending.created = now
           /\ ~ state'.pending.started
           /\ left.logins \in Devices /\ left'.logins < left.logins
  PROVE  Kept' /\ Steady
<1>a. TypeInv /\ left.logins \in Nat /\ state.gen \in Nat
  BY Ranges DEF Whole, Inv
<1>1. \A d : Waited(d)' => Waited(d) \/ d = left.logins
  BY <1>a, RetiredShape DEF Waited
<1>2. /\ Logins' /\ Chain' /\ Apart'
      /\ \A c : Asking(c) /\ Revoking(c) => Asking(c)' /\ Revoking(c)'
      /\ \A cert, op : Covers(cert, op)' <=> Covers(cert, op)
      /\ \A d, created : Timely(d, created)' <=> Timely(d, created)
      /\ \A c : Accepted(c)' <=> Accepted(c)
  BY <1>1, ServerRests
<1> USE DEF Resting
<1>3. \A d : Known(d) => Known(d)' \/ (state.pending # None /\ d = state.pending.dev
                                       /\ ~ state.pending.started)
  BY <1>a, RetiredShape DEF Known, Waited
<1>4. Covered'
  <2>1. \A t \in state.revs : state.active # None => t.cert.dev # state.active.dev
    BY DEF Whole, Inv, Connected, Retiring
  <2>2. \A t \in state'.revs : Covers(t.cert, t.op)
    BY <1>a, RetiredShape DEF Whole, Kept, Covered
  <2>3. \A t, u \in state'.revs : t.cert.dev = u.cert.dev => t = u
    BY <1>a, <2>1, RetiredShape DEF Whole, Kept, Covered
  <2>4. QED
    BY <1>2, <2>2, <2>3 DEF Covered
<1>5. Waiting'
  <2>1. ASSUME state'.pending # None
        PROVE  /\ state'.pending.dev \notin shown
               /\ Timely(state'.pending.dev, state'.pending.created)
    <3>1. left.logins \notin shown /\ txn[left.logins].status = "none"
      BY <1>a, <2>1 DEF Whole, Kept, Logins
    <3>2. \A c \in issued : c.dev # left.logins
      BY <3>1 DEF Whole, Kept, Logins
    <3>3. QED
      BY <2>1, <3>1, <3>2 DEF Timely
  <2>2. \A p \in state'.cancels : /\ p.dev \in Devices /\ txn[p.dev].status # "none"
                                  /\ Timely(p.dev, p.created)
    <3>1. state.pending # None => state.pending.dev \in Devices
      BY <1>a, Ranges
    <3>2. QED
      BY <1>a, <3>1, RetiredShape DEF Whole, Kept, Waiting
  <2>3. QED
    BY <1>2, <2>1, <2>2 DEF Waiting
<1>6. Guarded'
  <2>1. ASSUME NEW d, d \in shown, Known(d) PROVE Known(d)'
    BY <1>3, <2>1 DEF Whole, Kept, Waiting
  <2>2. \A c \in issued : c.dev \in shown
    BY DEF Whole, Kept, Logins
  <2>3. QED
    BY <1>2, <2>1, <2>2 DEF Whole, Kept, Guarded, Open
<1>7. ASSUME NEW c \in CallRecords, Fits(c), Sound(c) PROVE Sound(c)'
  <2>1. c.gen \in Nat /\ c.dev \in Nat /\ state'.gen = state.gen + 1
    BY <1>a, RetiredShape DEF CallRecords
  <2>2. c.gen <= state.gen => c.gen <= state'.gen /\ c.gen # state'.gen
    BY <1>a, <2>1
  <2>3. Starting(c)'
    <3>1. c.dev > left.logins => c.dev > left'.logins /\ c.dev # left.logins
      BY <1>a, <2>1
    <3>2. QED
      BY <1>7, <2>2, <3>1 DEF Sound, Starting
  <2>4. Renewing(c)'
    <3>1. SUFFICES ASSUME c.at \in {"recover", "renew"} PROVE Renewing(c)'
      BY DEF Renewing
    <3>2. c.cert \in issued /\ c.cert.dev \in Nat
      BY <1>7, <1>a, <3>1, Ranges DEF Fits
    <3>3. c.cert.dev > left.logins => c.cert.dev > left'.logins /\ c.cert.dev # left.logins
      BY <1>a, <3>2
    <3>4. Tracked(c.cert, c.op) => Tracked(c.cert, c.op)'
      <4>1. c.cert # None
        BY <1>a, <3>2, Ranges
      <4>2. QED
        BY <1>2, <1>a, <4>1, RetiredShape DEF Tracked
    <3>5. QED
      BY <1>1, <1>7, <2>2, <3>1, <3>3, <3>4 DEF Sound, Renewing
  <2>5. QED
    BY <1>2, <1>7, <2>3, <2>4 DEF Sound
<1>8. QED
  BY <1>2, <1>4, <1>5, <1>6, <1>7 DEF Kept, Steady

\* Nothing can come of a device any more.
Over(d) == ~ Open(d) /\ \A c \in issued : c.dev = d => ~ Accepted(c)

\* What is over is forgotten, by a sweep or because it is too old.
LEMMA OverDropped ==
  ASSUME Whole, Resting, left'.logins = left.logins, shown' = shown,
         NEW revs \in SUBSET state.revs, NEW cancels \in SUBSET state.cancels,
         \A t \in state.revs \ revs : Over(t.cert.dev),
         \A p \in state.cancels \ cancels : Over(p.dev),
         state' = [state EXCEPT !.revs = revs, !.cancels = cancels]
  PROVE  Kept' /\ Steady
<1>1. /\ state'.gen = state.gen /\ state'.active = state.active
      /\ state'.pending = state.pending /\ state'.renewal = state.renewal
      /\ state'.revs = revs /\ state'.cancels = cancels
  BY Ranges DEF Whole, Inv, States
<1>2. \A d : Waited(d)' => Waited(d)
  BY <1>1 DEF Waited
<1>3. \A d : Known(d) => Known(d)' \/ Over(d)
  BY <1>1 DEF Known, Waited
<1>4. /\ Logins' /\ Chain' /\ Apart'
      /\ \A c : Asking(c) /\ Revoking(c) => Asking(c)' /\ Revoking(c)'
      /\ \A cert, op : Covers(cert, op)' <=> Covers(cert, op)
      /\ \A d, created : Timely(d, created)' <=> Timely(d, created)
      /\ \A c : Accepted(c)' <=> Accepted(c)
  BY <1>2, ServerRests
<1> USE DEF Resting
<1>5. Covered' /\ Waiting'
  BY <1>1, <1>4 DEF Whole, Kept, Covered, Waiting
<1>6. Guarded'
  BY <1>3, <1>4 DEF Whole, Kept, Guarded, Open, Over
<1>7. ASSUME NEW c \in CallRecords, Fits(c), Sound(c) PROVE Sound(c)'
  <2>1. Starting(c)'
    BY <1>1, <1>7 DEF Sound, Starting
  <2>2. Renewing(c)'
    <3>1. SUFFICES ASSUME c.at \in {"recover", "renew"} PROVE Renewing(c)'
      BY DEF Renewing
    <3>2. c.cert \in issued
      BY <1>7, <3>1 DEF Fits
    <3>3. Tracked(c.cert, c.op) => Tracked(c.cert, c.op)'
      BY <1>1, <1>4, <3>2 DEF Tracked, Over
    <3>4. QED
      BY <1>1, <1>2, <1>7, <3>3 DEF Sound, Renewing
  <2>3. QED
    BY <1>4, <1>7, <2>1, <2>2 DEF Sound
<1>8. QED
  BY <1>4, <1>5, <1>6, <1>7 DEF Kept, Steady

-----------------------------------------------------------------------------
(* How the server may change. *)

Serving == UNCHANGED <<state, now, shown, left>>

\* More is revoked, more of it is published, and devices all of whose certificates
\* are revoked are disabled.
LEMMA MoreRevoked ==
  ASSUME Whole, Serving, UNCHANGED <<txn, issued, renewed>>,
         revoked \subseteq revoked', published \subseteq published',
         \A d \in disabled' : \/ d \in disabled
                              \/ /\ txn[d].status \in Dealt
                                 /\ \A c \in issued : c.dev = d => c \in revoked'
  PROVE  Kept' /\ Steady
<1> USE DEF Serving
<1>1. \A d : (Waited(d)' <=> Waited(d)) /\ (Known(d)' <=> Known(d))
  BY DEF Waited, Known
<1>2. \A c : Accepted(c)' => Accepted(c)
  BY DEF Accepted
<1>3. \A d : IssuedTo(d)' = IssuedTo(d)
  BY DEF IssuedTo
<1>4. Logins' /\ Chain' /\ Apart'
  BY <1>1, <1>3 DEF Whole, Kept, Logins, Chain, Apart
<1>5. Covered' /\ Waiting'
  BY DEF Whole, Kept, Covered, Covers, Waiting, Timely
<1>6. Guarded'
  BY <1>1, <1>2 DEF Whole, Kept, Guarded, Open
<1>7. ASSUME NEW c, Sound(c) PROVE Sound(c)'
  <2>1. Starting(c)'
    BY <1>7 DEF Sound, Starting
  <2>2. Renewing(c)'
    BY <1>1, <1>2, <1>7 DEF Sound, Renewing, Tracked
  <2>3. Asking(c)' /\ Revoking(c)'
    BY <1>3, <1>7 DEF Sound, Asking, Revoking
  <2>4. QED
    BY <2>1, <2>2, <2>3 DEF Sound
<1>8. QED
  BY <1>4, <1>5, <1>6, <1>7 DEF Kept, Steady

\* An enrolment that began is approved, turned down, withdrawn or too old.
LEMMA EnrolmentMoves ==
  ASSUME Whole, Serving, UNCHANGED <<issued, renewed, published, disabled>>,
         revoked \subseteq revoked',
         NEW d \in Devices, NEW status, txn' = [txn EXCEPT ![d].status = status],
         txn[d].status # "none", status # "none",
         txn[d].status \in Dealt => status \in Dealt,
         status = "approved" => d \in shown,
         status = "revocation_pending" => IssuedTo(d) \subseteq revoked',
         status \in {"pending", "approved"} => txn[d].status \in {"pending", "approved"}
  PROVE  Kept' /\ Steady
<1> USE DEF Serving
<1>a. TypeInv
  BY DEF Whole, Inv
<1>1. \A e : (Waited(e)' <=> Waited(e)) /\ (Known(e)' <=> Known(e))
  BY DEF Waited, Known
<1>2. \A c : Accepted(c)' <=> Accepted(c)
  BY DEF Accepted
<1>3. \A e : IssuedTo(e)' = IssuedTo(e)
  BY DEF IssuedTo
<1>4. /\ \A e \in Devices \ {d} : txn'[e] = txn[e]
      /\ txn'[d].status = status /\ txn'[d].at = txn[d].at
  BY <1>a, Ranges
<1>5. \A e \in Devices : /\ txn'[e].status # "none" <=> txn[e].status # "none"
                         /\ txn'[e].at = txn[e].at
                         /\ txn'[e].status \in {"pending", "approved"} =>
                              txn[e].status \in {"pending", "approved"}
                         /\ txn[e].status \in Dealt => txn'[e].status \in Dealt
  BY <1>4
<1>6. Logins'
  <2>1. \A c \in issued : c.dev \in Devices
    BY <1>a, Ranges
  <2>2. \A c \in issued : c.dev \in shown /\ txn'[c.dev].status \in Dealt
    BY <1>5, <2>1 DEF Whole, Kept, Logins
  <2>3. ASSUME NEW e \in Devices
        PROVE  /\ txn'[e].status = "approved" => e \in shown
               /\ e \in shown => txn'[e].status # "none"
               /\ e <= left.logins => txn'[e].status = "none"
               /\ txn'[e].status = "revocation_pending" => IssuedTo(e) \subseteq revoked'
               /\ e \in disabled => /\ txn'[e].status \in Dealt
                                    /\ \A c \in issued : c.dev = e => c \in revoked'
    <3>1. CASE e = d
      BY <1>4, <3>1 DEF Whole, Kept, Logins
    <3>2. CASE e # d
      BY <1>4, <3>2 DEF Whole, Kept, Logins
    <3>3. QED
      BY <3>1, <3>2
  <2>4. QED
    BY <1>3, <2>2, <2>3 DEF Whole, Kept, Logins
<1>7. Chain' /\ Apart' /\ Covered'
  BY <1>1 DEF Whole, Kept, Chain, Apart, Covered, Covers
<1>8. Waiting'
  <2>1. \A e \in Devices : \A created : Timely(e, created) => Timely(e, created)'
    BY <1>5 DEF Timely
  <2>2. QED
    BY <1>5, <1>a, <2>1, Ranges DEF Whole, Kept, Waiting
<1>9. Guarded'
  BY <1>1, <1>2, <1>5 DEF Whole, Kept, Guarded, Open
<1>10. ASSUME NEW c \in CallRecords, Fits(c), Sound(c) PROVE Sound(c)'
  <2>1. Starting(c)'
    BY <1>5, <1>10 DEF Sound, Starting, Fits
  <2>2. Renewing(c)'
    BY <1>1, <1>2, <1>10 DEF Sound, Renewing, Tracked
  <2>3. Asking(c)' /\ Revoking(c)'
    BY <1>3, <1>5, <1>10 DEF Sound, Asking, Revoking, Fits
  <2>4. QED
    BY <2>1, <2>2, <2>3 DEF Sound
<1>11. QED
  BY <1>6, <1>7, <1>8, <1>9, <1>10 DEF Kept, Steady

\* A login asked for begins.
LEMMA EnrolmentBegins ==
  ASSUME Whole, Serving, UNCHANGED <<issued, renewed, revoked, published, disabled>>,
         NEW a \in Clients, call[a].at = "start", call[a].reply = "none",
         NEW d \in Devices, d = call[a].dev,
         txn' = [txn EXCEPT ![d] = [status |-> "pending", at |-> now]]
  PROVE  Kept' /\ \A b \in Clients \ {a} : \A c : c = call[b] => Sound(c)'
<1> USE DEF Serving
<1>a. TypeInv
  BY DEF Whole, Inv
<1>b. /\ d \in Devices /\ d > left.logins /\ txn[d].status = "none"
      /\ state.pending # None /\ state.pending.dev = d => state.pending.created = now
      /\ Calls /\ now \in Nat
  <2>1. Fits(call[a]) /\ Starting(call[a])
    BY <1>a, Held DEF Whole, Sounds, Sound, Calls
  <2>2. QED
    BY <1>a, <2>1, Held, Ranges DEF Fits, Starting
<1>1. \A e : (Waited(e)' <=> Waited(e)) /\ (Known(e)' <=> Known(e))
  BY DEF Waited, Known
<1>2. \A c : Accepted(c)' <=> Accepted(c)
  BY DEF Accepted
<1>3. \A e : IssuedTo(e)' = IssuedTo(e)
  BY DEF IssuedTo
<1>4. /\ \A e \in Devices \ {d} : txn'[e] = txn[e]
      /\ txn'[d].status = "pending" /\ txn'[d].at = now
  BY <1>a, <1>b, Ranges
<1>5. d \notin shown /\ d \notin disabled /\ \A c \in issued : c.dev # d
  <2>1. d \notin shown /\ d \notin disabled
    BY <1>b DEF Whole, Kept, Logins, Dealt
  <2>2. QED
    BY <2>1 DEF Whole, Kept, Logins
<1>6. Logins'
  <2>1. \A c \in issued : c.dev \in Devices
    BY <1>a, Ranges
  <2>2. \A c \in issued : c.dev \in shown /\ txn'[c.dev].status \in Dealt
    BY <1>4, <1>5, <2>1 DEF Whole, Kept, Logins
  <2>3. ASSUME NEW e \in Devices
        PROVE  /\ txn'[e].status = "approved" => e \in shown
               /\ e \in shown => txn'[e].status # "none"
               /\ e <= left.logins => txn'[e].status = "none"
               /\ txn'[e].status = "revocation_pending" => IssuedTo(e) \subseteq revoked
               /\ e \in disabled => /\ txn'[e].status \in Dealt
                                    /\ \A c \in issued : c.dev = e => c \in revoked
    <3>1. CASE e = d
      <4>1. ~ (d <= left.logins)
        BY <1>a, <1>b, Ranges
      <4>2. QED
        BY <1>4, <1>5, <3>1, <4>1
    <3>2. CASE e # d
      BY <1>4, <3>2 DEF Whole, Kept, Logins
    <3>3. QED
      BY <3>1, <3>2
  <2>4. QED
    BY <1>3, <2>2, <2>3 DEF Whole, Kept, Logins
<1>7. Chain' /\ Apart' /\ Covered'
  BY <1>1 DEF Whole, Kept, Chain, Apart, Covered, Covers
<1>8. Waiting'
  <2>1. \A e \in Devices \ {d} : \A created : Timely(e, created) => Timely(e, created)'
    BY <1>4 DEF Timely
  <2>2. \A created : created = now => Timely(d, created)'
    <3>1. txn'[d].at <= now /\ issued' = issued
      BY <1>4, <1>b
    <3>2. QED
      BY <1>5, <3>1 DEF Timely
  <2>3. \A p \in state.cancels : p.dev # d
    BY <1>b DEF Whole, Kept, Waiting
  <2>4. state.pending # None => state.pending.dev \in Devices
    BY <1>a, Ranges
  <2>5. \A e \in Devices : txn[e].status # "none" => txn'[e].status # "none"
    BY <1>4
  <2>6. \A p \in state.cancels : /\ p.dev \in Devices /\ txn'[p.dev].status # "none"
                                 /\ Timely(p.dev, p.created)'
    BY <2>1, <2>3, <2>5 DEF Whole, Kept, Waiting
  <2>7. ASSUME state.pending # None
        PROVE  /\ state.pending.started => txn'[state.pending.dev].status # "none"
               /\ state.pending.dev \in shown => state.pending.started
               /\ Timely(state.pending.dev, state.pending.created)'
    <3>1. CASE state.pending.dev = d
      BY <1>5, <1>b, <1>4, <2>2, <2>7, <3>1
    <3>2. CASE state.pending.dev # d
      BY <2>1, <2>4, <2>5, <2>7, <3>2 DEF Whole, Kept, Waiting
    <3>3. QED
      BY <3>1, <3>2
  <2>8. QED
    BY <2>6, <2>7 DEF Waiting
<1>9. Guarded'
  BY <1>1, <1>2, <1>4, <1>5 DEF Whole, Kept, Guarded, Open
<1>10. ASSUME NEW b \in Clients \ {a}, NEW c, c = call[b] PROVE Sound(c)'
  <2>1. c \in CallRecords /\ Fits(c) /\ Sound(c)
    BY <1>b, <1>10 DEF Calls, Whole, Sounds
  <2>2. c.at = "start" => c.dev # d
    BY <1>10 DEF Whole, Distinct
  <2>3. Starting(c)'
    BY <1>4, <2>1, <2>2 DEF Sound, Starting, Fits
  <2>4. Renewing(c)'
    BY <1>1, <1>2, <2>1 DEF Sound, Renewing, Tracked
  <2>5. Asking(c)' /\ Revoking(c)'
    <3>1. \A e \in Devices : txn[e].status # "none" => txn'[e] = txn[e]
      BY <1>4, <1>b
    <3>2. QED
      BY <1>3, <2>1, <3>1 DEF Sound, Asking, Revoking, Fits
  <2>6. QED
    BY <2>3, <2>4, <2>5 DEF Sound
<1>11. QED
  BY <1>6, <1>7, <1>8, <1>9, <1>10 DEF Kept

\* An approved enrolment is answered with its certificate.
LEMMA LoginIssued ==
  ASSUME Whole, Serving, UNCHANGED <<renewed, revoked, published, disabled>>,
         NEW d \in Devices, txn[d].status = "approved", now < txn[d].at + Ttl,
         txn' = [txn EXCEPT ![d] = [status |-> "issued", at |-> now]],
         NEW x, x = [dev |-> d, key |-> 0, until |-> now + Life],
         issued' = issued \union {x}
  PROVE  Kept' /\ Steady
<1> USE DEF Serving
<1>a. TypeInv
  BY DEF Whole, Inv
<1>1. \A e : (Waited(e)' <=> Waited(e)) /\ (Known(e)' <=> Known(e))
  BY DEF Waited, Known
<1>2. /\ \A e \in Devices \ {d} : txn'[e] = txn[e]
      /\ txn'[d].status = "issued" /\ txn'[d].at = now
      /\ x.dev = d /\ x.key = 0 /\ x.until = now + Life
  BY <1>a, Ranges
<1>3. /\ \A c \in issued : c.dev # d
      /\ d \in shown /\ d \notin disabled /\ ~ (d <= left.logins)
      /\ Known(d)
  <2>1. \A c \in issued : c.dev # d
    BY DEF Whole, Kept, Logins, Dealt
  <2>2. d \in shown /\ d \notin disabled /\ ~ (d <= left.logins)
    BY DEF Whole, Kept, Logins, Dealt
  <2>3. QED
    BY <2>1, <2>2 DEF Whole, Kept, Guarded, Open
<1>4. x \notin issued
  BY <1>2, <1>3
<1>5. \A c \in issued : Accepted(c)' <=> Accepted(c)
  BY DEF Accepted
<1>6. \A e : e # d => IssuedTo(e)' = IssuedTo(e)
  BY <1>2 DEF IssuedTo
<1>7. Logins'
  <2>1. \A c \in issued : c.dev \in Devices
    BY <1>a, Ranges
  <2>2. \A c \in issued' : c.dev \in shown /\ txn'[c.dev].status \in Dealt
    BY <1>2, <1>3, <2>1 DEF Whole, Kept, Logins, Dealt
  <2>3. ASSUME NEW e \in Devices
        PROVE  /\ txn'[e].status = "approved" => e \in shown
               /\ e \in shown => txn'[e].status # "none"
               /\ e <= left.logins => txn'[e].status = "none"
               /\ txn'[e].status = "revocation_pending" => IssuedTo(e)' \subseteq revoked
               /\ e \in disabled => /\ txn'[e].status \in Dealt
                                    /\ \A c \in issued' : c.dev = e => c \in revoked
    <3>1. CASE e = d
      BY <1>2, <1>3, <3>1
    <3>2. CASE e # d
      BY <1>2, <1>6, <3>2 DEF Whole, Kept, Logins
    <3>3. QED
      BY <3>1, <3>2
  <2>4. \A c, e \in issued' : c.key = 0 /\ e.key = 0 /\ c.dev = e.dev => c = e
    BY <1>2, <1>3 DEF Whole, Kept, Logins
  <2>5. QED
    BY <2>2, <2>3, <2>4 DEF Logins
<1>8. Chain' /\ Apart'
  BY <1>1, <1>2 DEF Whole, Kept, Chain, Apart
<1>9. Covered'
  <2>1. \A cert \in issued : \A op : Covers(cert, op) => Covers(cert, op)'
    BY <1>2, <1>3 DEF Covers
  <2>2. /\ state.active # None => state.active \in issued
        /\ \A t \in state.revs : t.cert \in issued
    BY <1>a, Ranges
  <2>3. QED
    BY <2>1, <2>2 DEF Whole, Kept, Covered
<1>10. Waiting'
  <2>1. ASSUME NEW e \in Devices, NEW created \in Nat, Timely(e, created)
        PROVE  Timely(e, created)'
    <3>1. CASE e = d
      <4>1. txn[d].at <= created /\ txn[d].at \in Nat /\ now \in Nat /\ Life \in Nat /\ Ttl \in Nat
        BY <1>a, <2>1, <3>1, Ranges DEF Timely
      <4>2. now + Life <= created + Ttl + Life
        BY <4>1
      <4>3. QED
        BY <1>2, <1>3, <3>1, <4>2 DEF Timely
    <3>2. CASE e # d
      BY <1>2, <2>1, <3>2 DEF Timely
    <3>3. QED
      BY <3>1, <3>2
  <2>2. \A e \in Devices : txn[e].status # "none" => txn'[e].status # "none"
    BY <1>2
  <2>3. QED
    BY <1>a, <2>1, <2>2, Ranges DEF Whole, Kept, Waiting
<1>11. Guarded'
  <2>1. \A e \in Devices : Open(e)' => Open(e)
    BY <1>2 DEF Open
  <2>2. \A c \in issued' : Accepted(c)' => Known(c.dev)
    BY <1>2, <1>3, <1>5 DEF Whole, Kept, Guarded
  <2>3. QED
    BY <1>1, <2>1, <2>2 DEF Whole, Kept, Guarded
<1>12. ASSUME NEW c \in CallRecords, Fits(c), Sound(c) PROVE Sound(c)'
  <2>1. Starting(c)'
    BY <1>2, <1>12 DEF Sound, Starting, Fits
  <2>2. Renewing(c)'
    BY <1>1, <1>5, <1>12 DEF Sound, Renewing, Tracked, Fits
  <2>3. Asking(c)'
    BY <1>2, <1>6, <1>12 DEF Sound, Asking, Fits
  <2>4. Revoking(c)'
    BY <1>2, <1>3, <1>12 DEF Sound, Revoking, Fits
  <2>5. QED
    BY <2>1, <2>2, <2>3, <2>4 DEF Sound
<1>13. QED
  BY <1>7, <1>8, <1>9, <1>10, <1>11, <1>12 DEF Kept, Steady

\* A certificate is renewed.
LEMMA RenewalIssued ==
  ASSUME Whole, Serving, UNCHANGED <<txn, revoked, published, disabled>>,
         NEW old \in issued, NEW op \in Nat, op # 0,
         Accepted(old), old.dev \notin disabled, Tracked(old, op),
         ~ Waited(old.dev), old.dev > left.logins, \A r \in renewed : r.old # old,
         NEW x, x = [dev |-> old.dev, key |-> op, until |-> now + Life],
         old.until < x.until,
         NEW s, s.op = op, s.old = old, s.new = x,
         issued' = issued \union {x}, renewed' = renewed \union {s}
  PROVE  Kept' /\ Steady
<1> USE DEF Serving
<1>a. TypeInv
  BY DEF Whole, Inv
<1>1. \A e : (Waited(e)' <=> Waited(e)) /\ (Known(e)' <=> Known(e))
  BY DEF Waited, Known
<1>2. x.dev = old.dev /\ x.key = op /\ x.until = now + Life
  OBVIOUS
<1>3. \A c \in issued : Accepted(c)' <=> Accepted(c)
  BY DEF Accepted
<1>4. \A e : IssuedTo(e)' = IssuedTo(e)
  BY <1>2 DEF IssuedTo
<1>5. Logins'
  <2>1. \A c \in issued' : c.dev \in shown /\ txn[c.dev].status \in Dealt
    BY <1>2 DEF Whole, Kept, Logins
  <2>2. \A e \in disabled : \A c \in issued' : c.dev = e => c \in revoked
    BY <1>2, <1>a, Server DEF Whole, Kept, Logins
  <2>3. \A c, e \in issued' : c.key = 0 /\ e.key = 0 /\ c.dev = e.dev => c = e
    BY <1>2 DEF Whole, Kept, Logins
  <2>4. QED
    BY <1>4, <2>1, <2>2, <2>3 DEF Whole, Kept, Logins
<1>6. Chain'
  <2>1. x.until <= old.until + Life
    <3>1. now < old.until /\ now \in Nat /\ old.until \in Nat /\ Life \in Nat
      BY <1>a, Ranges DEF Accepted
    <3>2. QED
      BY <1>2, <3>1
  <2>2. QED
    BY <1>2, <2>1 DEF Whole, Kept, Chain
<1>7. Apart'
  BY <1>1 DEF Whole, Kept, Apart
<1>8. Covered'
  <2>1. \A cert \in issued : \A o :
          Covers(cert, o) /\ (cert.dev = old.dev => cert = old /\ o = op) => Covers(cert, o)'
    BY <1>2 DEF Covers
  <2>2. \/ state.active = old /\ state.renewal = op
        \/ \E t \in state.revs : t.cert = old /\ t.op = op
    BY DEF Tracked
  <2>3. old # None /\ (state.active # None => state.active \in issued)
        /\ \A t \in state.revs : t.cert \in issued
    BY <1>a, Ranges
  <2>4. state.active # None => \A t \in state.revs : t.cert.dev # state.active.dev
    BY DEF Whole, Inv, Connected, Retiring
  <2>5. state.active # None /\ state.active.dev = old.dev =>
          state.active = old /\ state.renewal = op
    BY <2>2, <2>4
  <2>6. ASSUME NEW t \in state.revs, t.cert.dev = old.dev PROVE t.cert = old /\ t.op = op
    BY <2>2, <2>3, <2>4, <2>6 DEF Whole, Kept, Covered
  <2>7. QED
    BY <2>1, <2>3, <2>5, <2>6 DEF Whole, Kept, Covered
<1>9. Waiting'
  BY <1>2 DEF Whole, Kept, Waiting, Timely
<1>10. Guarded'
  BY <1>1, <1>2, <1>3 DEF Whole, Kept, Guarded, Open
<1>11. ASSUME NEW c \in CallRecords, Fits(c), Sound(c) PROVE Sound(c)'
  <2>1. Starting(c)'
    BY <1>11 DEF Sound, Starting
  <2>2. Renewing(c)'
    BY <1>1, <1>3, <1>11 DEF Sound, Renewing, Tracked, Fits
  <2>3. Asking(c)'
    BY <1>4, <1>11 DEF Sound, Asking
  <2>4. Revoking(c)'
    BY <1>2, <1>11 DEF Sound, Revoking, Accepted
  <2>5. QED
    BY <2>1, <2>2, <2>3, <2>4 DEF Sound
<1>12. QED
  BY <1>5, <1>6, <1>7, <1>8, <1>9, <1>10, <1>11 DEF Kept, Steady

\* Time passes; the requests that take less than a tick are not under way.
LEMMA TimePasses ==
  ASSUME Whole, Tick
  PROVE  Kept' /\ Sounds' /\ Distinct'
<1>a. TypeInv /\ now \in Nat /\ now' = now + 1 /\ left'.logins = left.logins
      /\ \A c \in issued : c.until \in Nat
  BY Ranges, TickKept DEF Whole, Inv, Tick
<1>b. UNCHANGED <<state, call, txn, issued, renewed, revoked, published, disabled, shown>>
      /\ \A a \in Clients : ~ (call[a].at = "start" /\ call[a].reply = "none")
  BY DEF Tick, server
<1>1. \A e : (Waited(e)' <=> Waited(e)) /\ (Known(e)' <=> Known(e))
  BY <1>b DEF Waited, Known
<1>2. \A c : Accepted(c)' => Accepted(c)
  BY <1>a, <1>b DEF Accepted
<1>3. \A d : IssuedTo(d)' = IssuedTo(d)
  BY <1>b DEF IssuedTo
<1>4. Logins' /\ Chain' /\ Apart'
  BY <1>a, <1>b, <1>1, <1>3 DEF Whole, Kept, Logins, Chain, Apart
<1>5. Covered' /\ Waiting'
  BY <1>b DEF Whole, Kept, Covered, Covers, Waiting, Timely
<1>6. Guarded'
  <2>1. \A d \in Devices : Open(d)' => Open(d)
    <3>1. \A d \in Devices : txn[d].at + Ttl \in Nat
      BY <1>a, Ranges
    <3>2. QED
      BY <1>a, <1>b, <3>1 DEF Open
  <2>2. QED
    BY <1>1, <1>2, <1>b, <2>1 DEF Whole, Kept, Guarded
<1>7. ASSUME NEW b \in Clients PROVE Sound(call[b])'
  <2>1. PICK c : c = call[b]
    OBVIOUS
  <2>2. Sound(c) /\ call'[b] = c /\ ~ (c.at = "start" /\ c.reply = "none")
    BY <1>b, <2>1 DEF Whole, Sounds
  <2>3. Starting(c)'
    BY <1>a, <1>b, <2>2 DEF Sound, Starting
  <2>4. Renewing(c)'
    BY <1>a, <1>b, <1>1, <1>2, <2>2 DEF Sound, Renewing, Tracked
  <2>5. Asking(c)' /\ Revoking(c)'
    BY <1>b, <1>3, <2>2 DEF Sound, Asking, Revoking
  <2>6. Sound(c)'
    BY <2>3, <2>4, <2>5 DEF Sound
  <2>7. QED
    BY <2>2, <2>6
<1>8. Distinct'
  BY <1>b DEF Whole, Distinct
<1>9. QED
  BY <1>4, <1>5, <1>6, <1>7, <1>8 DEF Kept, Sounds

-----------------------------------------------------------------------------
(* The steps of the clients. *)

LEMMA ChangeSteps ==
  ASSUME TypeInv, NEW a \in Clients, NEW new, NEW next, Change(a, new, next)
  PROVE  /\ state' \in {state, new} /\ left'.logins = left.logins
         /\ \E n \in {next, Idle} : call' = [call EXCEPT ![a] = n]
<1>1. left \in Counts
  BY Held
<1>2. CASE left.faults > 0 /\ left' = [left EXCEPT !.faults = @ - 1]
  BY <1>1, <1>2 DEF Change, Written, Counts
<1>3. CASE left' = left
  BY <1>1, <1>3 DEF Change, Written
<1>4. QED
  BY <1>2, <1>3 DEF Change

LEMMA UnchangedRests ==
  ASSUME TypeInv, UNCHANGED <<server, now, shown>>, left'.logins = left.logins
  PROVE  Resting
  BY Ranges DEF Resting, server

\* A change of the state file by a client that goes on as next.
LEMMA FileStep ==
  ASSUME Whole, NEW a \in Clients, NEW new, NEW next, Change(a, new, next),
         UNCHANGED <<server, now, shown>>, next.at # "start", Sound(next)',
         state' = new /\ Resting /\ left'.logins = left.logins => Kept' /\ Steady
  PROVE  Kept' /\ Sounds' /\ Distinct'
<1>1. TypeInv
  BY DEF Whole, Inv
<1>2. /\ state' \in {state, new} /\ left'.logins = left.logins
      /\ \E n \in {next, Idle} : call' = [call EXCEPT ![a] = n]
  BY <1>1, ChangeSteps
<1>3. Resting
  BY <1>1, <1>2, UnchangedRests
<1>4. Kept' /\ Steady
  <2>1. CASE state' = state
    BY <1>2, <1>3, <2>1, Nothing DEF Unread
  <2>2. CASE state' = new
    BY <1>2, <1>3, <2>2
  <2>3. QED
    BY <1>2, <2>1, <2>2
<1>5. PICK n \in {next, Idle} : call' = [call EXCEPT ![a] = n]
  BY <1>2
<1>6. Sound(n)' /\ n.at # "start"
  <2>1. Sound(Idle)' /\ Idle.at # "start"
    BY IdleSound DEF Idle
  <2>2. QED
    BY <1>5, <2>1
<1>7. QED
  BY <1>4, <1>5, <1>6, Goes

\* A step of a call that leaves everything else as it is.
LEMMA CallStep ==
  ASSUME Whole, NEW a \in Clients, NEW n, call' = [call EXCEPT ![a] = n], Sound(n),
         UNCHANGED <<state, server, now, shown>>, left'.logins = left.logins,
         n.at = "start" => call[a].at = "start" /\ n.dev = call[a].dev
  PROVE  Kept' /\ Sounds' /\ Distinct'
<1>1. Resting
  BY UnchangedRests DEF Whole, Inv
<1>2. Kept' /\ Steady /\ Sound(n)'
  BY <1>1, Nothing DEF Unread
<1>3. QED
  BY <1>2, Goes

LEMMA Callers ==
  ASSUME Whole, NEW a \in Clients
  PROVE  /\ TypeInv /\ call[a] \in CallRecords /\ Fits(call[a]) /\ Sound(call[a])
         /\ call \in [Clients -> CallRecords]
  BY Held DEF Whole, Inv, Calls, Sounds

LEMMA ConnectWhole ==
  ASSUME Whole, NEW a \in Clients, Connect(a)
  PROVE  Kept' /\ Sounds' /\ Distinct'
<1>1. TypeInv /\ left.logins \in Nat /\ state.gen \in Nat
  BY Ranges DEF Whole, Inv
<1>2. /\ state' = NewLogin /\ left.logins \in Devices /\ left'.logins = left.logins - 1
      /\ UNCHANGED <<server, others>>
  BY <1>1, ConnectKept DEF Connect
<1> DEFINE p == [dev |-> left.logins, created |-> now, started |-> FALSE]
<1>3. /\ state'.gen = Retired.gen /\ state'.gen = state.gen + 1 /\ state'.active = None
      /\ state'.renewal = 0 /\ state'.revs = Retired.revs /\ state'.cancels = Retired.cancels
      /\ state'.pending = p
  BY <1>1, <1>2, RetiredShape DEF NewLogin, States
<1>4. p.dev = left.logins /\ p.created = now /\ p.started = FALSE
  OBVIOUS
<1> HIDE DEF p
<1>5. left'.logins < left.logins /\ left'.logins \in Nat /\ left'.logins <= left.logins
  BY <1>1, <1>2, Ranges
<1>6. Resting /\ shown' = shown
  BY <1>2, <1>5 DEF Resting, server, others
<1>7. Kept' /\ Steady
  BY <1>2, <1>3, <1>4, <1>5, <1>6, LoginRetired
<1>8. CASE call' = call
  BY <1>7, <1>8, Stays
<1>9. CASE call' = [call EXCEPT ![a] = [Idle EXCEPT !.at = "start", !.gen = NewLogin.gen,
                                                    !.dev = left.logins]]
  <2>1. PICK n : n = [Idle EXCEPT !.at = "start", !.gen = NewLogin.gen, !.dev = left.logins]
    OBVIOUS
  <2>2. /\ n.at = "start" /\ n.gen = state'.gen /\ n.dev = left.logins /\ n.reply = "none"
        /\ n.cancels = {}
    BY <1>2, <2>1 DEF Idle
  <2>3. state'.gen \in Nat
    BY <1>1, <1>3
  <2>4. txn'[n.dev].status = "none" /\ now' = now
    BY <1>1, <1>2, <2>2, Ranges DEF Whole, Kept, Logins, server, others
  <2>5. Starting(n)'
    BY <1>3, <1>4, <1>5, <2>2, <2>3, <2>4 DEF Starting
  <2>6. Sound(n)'
    BY <2>2, <2>5 DEF Sound, Renewing, Asking, Revoking
  <2>7. \A b \in Clients \ {a} : \A c : c = call[b] => Sound(c)'
    BY <1>7, Callers DEF Steady
  <2>8. ASSUME NEW b \in Clients \ {a}, call[b].at = "start" PROVE call[b].dev # n.dev
    <3>1. call[b].dev > left.logins
      BY <2>8, Callers DEF Sound, Starting
    <3>2. QED
      BY <1>1, <2>2, <3>1
  <2>9. QED
    BY <1>7, <1>9, <2>1, <2>6, <2>7, <2>8, Onward
<1>10. QED
  BY <1>8, <1>9 DEF Connect, NewLogin

LEMMA RecordStartedWhole ==
  ASSUME Whole, NEW a \in Clients, RecordStarted(a)
  PROVE  Kept' /\ Sounds' /\ Distinct'
<1>1. TypeInv /\ call[a].at = "start" /\ call[a].reply = "ok" /\ Sound(call[a])
      /\ UNCHANGED <<server, now>>
  BY Callers DEF RecordStarted
<1>2. Sound(Idle) /\ Sound(Idle)' /\ Idle.at # "start"
  BY IdleSound DEF Idle
<1>3. CASE Returns(a) /\ UNCHANGED <<state, shown, left>>
  BY <1>1, <1>2, <1>3, CallStep DEF Returns
<1>4. CASE /\ state.gen = call[a].gen /\ state.pending # None
           /\ Change(a, [state EXCEPT !.pending.started = TRUE], Idle)
           /\ shown' = IF left' = left THEN shown \union {call[a].dev} ELSE shown
  <2>1. state.pending.dev = call[a].dev /\ txn[state.pending.dev].status # "none"
    BY <1>1, <1>4 DEF Sound, Starting
  <2>2. /\ state' \in {state, [state EXCEPT !.pending.started = TRUE]}
        /\ left'.logins = left.logins
        /\ \E n \in {Idle} : call' = [call EXCEPT ![a] = n]
    BY <1>1, <1>4, ChangeSteps
  <2>3. Resting
    <3>1. left'.logins \in Nat /\ left'.logins <= left.logins
      BY <1>1, <2>2, Ranges
    <3>2. shown \subseteq shown' /\ \A d \in shown' : d \in shown \/ txn[d].status # "none"
      BY <1>4, <2>1
    <3>3. QED
      BY <1>1, <3>1, <3>2 DEF Resting, server
  <2>4. shown' = shown \/ state' = [state EXCEPT !.pending.started = TRUE]
    <3>1. left \in Counts
      BY <1>1, Held
    <3>2. left.faults > 0 => left # [left EXCEPT !.faults = @ - 1]
      BY <3>1 DEF Counts
    <3>3. QED
      BY <1>4, <3>2 DEF Change
  <2>5. Kept' /\ Steady
    <3>1. CASE state' = state /\ shown' = shown
      BY <2>2, <2>3, <3>1, Nothing DEF Unread
    <3>2. CASE state' = [state EXCEPT !.pending.started = TRUE]
      BY <1>4, <2>1, <2>2, <2>3, <3>2, StartNoted
    <3>3. QED
      BY <2>2, <2>4, <3>1, <3>2
  <2>6. QED
    BY <1>2, <2>2, <2>5, Goes
<1>5. QED
  BY <1>3, <1>4 DEF RecordStarted

LEMMA ActivateLoginWhole ==
  ASSUME Whole, NEW a \in Clients, ActivateLogin(a)
  PROVE  Kept' /\ Sounds' /\ Distinct'
<1>1. TypeInv /\ Fits(call[a]) /\ UNCHANGED <<server, now, shown>>
  BY Callers DEF ActivateLogin, others
<1>2. Sound(Idle) /\ Sound(Idle)' /\ Idle.at # "start"
  BY IdleSound DEF Idle
<1>3. CASE Returns(a) /\ UNCHANGED <<state, left>>
  BY <1>1, <1>2, <1>3, CallStep DEF Returns
<1>4. PICK x : x = call[a].answer
  OBVIOUS
<1>5. CASE /\ state.pending # None /\ Trusted(x, state.pending.dev, 0)
           /\ Change(a, [state EXCEPT !.active = x, !.pending = None, !.err = "none"], Idle)
  <2>1. x \in issued
    BY <1>1, <1>4 DEF ActivateLogin, Fits
  <2>2. x.key = 0 /\ x.dev = state.pending.dev
    BY <1>5 DEF Trusted
  <2> DEFINE new == [state EXCEPT !.active = x, !.pending = None, !.err = "none"]
  <2>3. state' = new /\ Resting /\ left'.logins = left.logins => Kept' /\ Steady
    BY <1>1, <1>5, <2>1, <2>2, LoginTaken
  <2>4. Change(a, new, Idle)
    BY <1>5
  <2> HIDE DEF new
  <2>5. QED
    BY <1>1, <1>2, <2>3, <2>4, FileStep
<1>6. QED
  BY <1>3, <1>4, <1>5 DEF ActivateLogin

LEMMA NoteErrorWhole ==
  ASSUME Whole, NEW a \in Clients, NoteError(a)
  PROVE  Kept' /\ Sounds' /\ Distinct'
<1>1. TypeInv /\ UNCHANGED <<server, now, shown>> /\ state \in States
  BY Callers, Ranges DEF NoteError, others
<1>2. Sound(Idle) /\ Sound(Idle)' /\ Idle.at # "start"
  BY IdleSound DEF Idle
<1>3. CASE Returns(a) /\ UNCHANGED <<state, left>>
  BY <1>1, <1>2, <1>3, CallStep DEF Returns
<1>4. PICK code : code = IF call[a].reply \in {"rejected", "reauth"} THEN call[a].reply ELSE "other"
  OBVIOUS
<1>5. CASE Change(a, [state EXCEPT !.err = code], Idle)
  <2> DEFINE new == [state EXCEPT !.err = code]
  <2>1. state' = new => Unread
    BY <1>1 DEF Unread, States
  <2>2. state' = new /\ Resting /\ left'.logins = left.logins => Kept' /\ Steady
    BY <1>1, <2>1, Nothing
  <2>3. Change(a, new, Idle)
    BY <1>5
  <2> HIDE DEF new
  <2>4. QED
    BY <1>1, <1>2, <2>2, <2>3, FileStep
<1>6. QED
  BY <1>3, <1>4, <1>5 DEF NoteError

LEMMA ActivateRenewalWhole ==
  ASSUME Whole, NEW a \in Clients, ActivateRenewal(a)
  PROVE  Kept' /\ Sounds' /\ Distinct'
<1>1. TypeInv /\ Sound(call[a]) /\ UNCHANGED <<server, now, shown>>
  BY Callers DEF ActivateRenewal, others
<1>2. Sound(Idle) /\ Sound(Idle)' /\ Idle.at # "start"
  BY IdleSound DEF Idle
<1>3. CASE Returns(a) /\ UNCHANGED <<state, left>>
  BY <1>1, <1>2, <1>3, CallStep DEF Returns
<1>4. PICK s \in renewed : s.old = call[a].cert /\ s.op = call[a].op /\ s.new = call[a].answer
  BY <1>1 DEF ActivateRenewal, Sound, Renewing
<1>5. CASE /\ state.gen = call[a].gen /\ state.active # None /\ state.renewal = call[a].op
           /\ Change(a, [state EXCEPT !.active = s.new, !.renewal = 0, !.err = "none",
                                      !.gen = @ + 1], Idle)
  <2>1. s.old = state.active /\ s.op = state.renewal
    BY <1>1, <1>4, <1>5 DEF ActivateRenewal, Sound, Renewing
  <2> DEFINE new == [state EXCEPT !.active = s.new, !.renewal = 0, !.err = "none", !.gen = @ + 1]
  <2>2. state' = new /\ Resting /\ left'.logins = left.logins => Kept' /\ Steady
    BY <1>1, <1>5, <2>1, RenewalTaken
  <2>3. Change(a, new, Idle)
    BY <1>5
  <2> HIDE DEF new
  <2>4. QED
    BY <1>1, <1>2, <2>2, <2>3, FileStep
<1>6. QED
  BY <1>3, <1>4, <1>5 DEF ActivateRenewal

LEMMA RenewWhole ==
  ASSUME Whole, NEW a \in Clients, Renew(a)
  PROVE  Kept' /\ Sounds' /\ Distinct'
<1>1. /\ TypeInv /\ UNCHANGED <<server, now, shown>> /\ state \in States
      /\ state.active # None /\ state.active \in issued /\ left.renewals \in Nat
      /\ state.renewal \in Nat /\ state.gen \in Nat /\ left \in Counts
  BY Callers, Ranges, Held DEF Renew, others, Counts
<1>2. PICK op : op = IF state.renewal # 0 THEN state.renewal ELSE left.renewals
  OBVIOUS
<1>3. PICK n : n = [Idle EXCEPT !.at = "recover", !.gen = state.gen, !.op = op,
                                !.cert = state.active, !.live = now < state.active.until]
  OBVIOUS
<1>4. /\ n.at = "recover" /\ n.gen = state.gen /\ n.op = op /\ n.cert = state.active
      /\ n.reply = "none" /\ n.cancels = {}
  BY <1>3 DEF Idle
<1>5. \/ call' = [call EXCEPT ![a] = n] /\ UNCHANGED <<state, left>> /\ state.renewal # 0
      \/ /\ state.renewal = 0 /\ op \in Nat /\ op # 0
         /\ state' = [state EXCEPT !.renewal = op] /\ left'.logins = left.logins
         /\ call' = call \/ call' = [call EXCEPT ![a] = n]
  <2>1. CASE state.renewal # 0
    BY <1>2, <1>3, <2>1 DEF Renew
  <2>2. CASE state.renewal = 0
    <3>1. op = left.renewals /\ left.renewals > 0 /\ state' = [state EXCEPT !.renewal = op]
          /\ (call' = call \/ call' = [call EXCEPT ![a] = n])
      BY <1>2, <1>3, <2>2 DEF Renew
    <3>2. left'.logins = left.logins
      BY <1>1, <2>2 DEF Renew, Counts
    <3>3. op # 0
      BY <1>1, <3>1
    <3>4. QED
      BY <1>1, <2>2, <3>1, <3>2, <3>3
  <2>3. QED
    BY <2>1, <2>2
<1>6. Resting /\ Kept' /\ Steady /\ state'.renewal = op /\ op # 0
      /\ state'.gen = state.gen /\ state'.active = state.active
      /\ state'.pending = state.pending /\ state'.cancels = state.cancels
  <2>1. CASE UNCHANGED <<state, left>> /\ state.renewal # 0
    <3>1. Resting
      BY <1>1, <2>1, UnchangedRests
    <3>2. QED
      BY <1>1, <1>2, <2>1, <3>1, Nothing DEF Unread
  <2>2. CASE /\ state.renewal = 0 /\ op \in Nat /\ op # 0
             /\ state' = [state EXCEPT !.renewal = op] /\ left'.logins = left.logins
    <3>1. Resting
      BY <1>1, <2>2, UnchangedRests
    <3>2. Kept' /\ Steady
      BY <1>1, <2>2, <3>1, OperationNoted
    <3>3. QED
      BY <1>1, <2>2, <3>1, <3>2 DEF States
  <2>3. QED
    BY <1>5, <2>1, <2>2
<1>7. Sound(n)'
  <2>1. ~ Waited(state.active.dev)
    BY <1>1 DEF Whole, Inv, Connected, Retiring, Waited
  <2>2. state.active.dev > left.logins
    BY <1>1 DEF Whole, Inv, Connected
  <2>3. \A d : Waited(d)' <=> Waited(d)
    BY <1>6 DEF Waited
  <2>4. left'.logins = left.logins
    BY <1>5
  <2>5. Tracked(n.cert, n.op)'
    BY <1>4, <1>6 DEF Tracked
  <2>6. Renewing(n)'
    BY <1>1, <1>4, <1>6, <2>1, <2>2, <2>3, <2>4, <2>5 DEF Renewing
  <2>7. QED
    BY <1>4, <2>6 DEF Sound, Starting, Asking, Revoking
<1>8. CASE call' = call
  BY <1>6, <1>8, Stays
<1>9. CASE call' = [call EXCEPT ![a] = n]
  BY <1>4, <1>6, <1>7, <1>9, Goes
<1>10. QED
  BY <1>5, <1>8, <1>9

LEMMA LogoutWhole ==
  ASSUME Whole, NEW a \in Clients, Logout(a)
  PROVE  Kept' /\ Sounds' /\ Distinct'
<1>1. PICK n : n = [Idle EXCEPT !.at = "flush"]
  OBVIOUS
<1>2. n.at = "flush" /\ n.cancels = {}
  BY <1>1 DEF Idle
<1>3. Sound(n)' /\ n.at # "start"
  BY <1>2, IdleSound
<1>4. TypeInv /\ UNCHANGED <<server, now, shown>> /\ Change(a, Retired, n)
  BY <1>1, Callers DEF Logout, others
<1>5. state' = Retired /\ Resting /\ left'.logins = left.logins => Kept' /\ Steady
  <2>1. Retired.active = None /\ Retired.renewal = 0 /\ Retired.pending = None
    BY <1>4, RetiredShape
  <2>2. QED
    BY <1>4, <2>1, LoginRetired
<1>6. QED
  BY <1>3, <1>4, <1>5, FileStep

\* A sweep forgets what is over: too old, or confirmed by the server.
LEMMA PruneWhole ==
  ASSUME Whole, NEW a \in Clients, Prune(a)
  PROVE  Kept' /\ Sounds' /\ Distinct'
<1>1. PICK n : n = [Idle EXCEPT !.at = "read"]
  OBVIOUS
<1>2. n.at = "read" /\ n.cancels = {}
  BY <1>1 DEF Idle
<1>3. Sound(n)' /\ n.at # "start"
  BY <1>2, IdleSound
<1>4. TypeInv /\ UNCHANGED <<server, now, shown>> /\ Change(a, Pruned, n)
  BY <1>1, Callers DEF Prune, others
<1> DEFINE revs == {t \in state.revs : now < t.cert.until + (IF t.op # 0 THEN Life ELSE 0)}
           cancels == {p \in state.cancels : now < p.created + Ttl + Life}
<1>5. ASSUME NEW t \in state.revs \ revs PROVE Over(t.cert.dev)
  <2>1. /\ t.cert \in issued /\ t.cert.until \in Nat /\ t.op \in Nat
        /\ now \in Nat /\ Life \in Nat
    BY <1>4, Ranges
  <2>2. t.cert.until <= now /\ (t.op # 0 => t.cert.until + Life <= now)
    BY <2>1
  <2>3. ~ Open(t.cert.dev)
    BY <2>1 DEF Whole, Kept, Logins, Dealt, Open
  <2>4. ASSUME NEW c \in issued, c.dev = t.cert.dev PROVE ~ Accepted(c)
    <3>1. c.until \in Nat
      BY <1>4, Ranges
    <3>2. Covers(t.cert, t.op)
      BY DEF Whole, Kept, Covered
    <3>3. CASE c.key = 0
      <4>1. c.until <= t.cert.until
        BY <2>4, <3>2, <3>3 DEF Covers
      <4>2. QED
        BY <2>1, <2>2, <3>1, <4>1 DEF Accepted
    <3>4. CASE c.key # 0
      <4>1. PICK r \in renewed : r.new = c
        BY <3>4 DEF Whole, Kept, Chain
      <4>2. /\ r.old.dev = t.cert.dev /\ r.op # 0 /\ r.new.until <= r.old.until + Life
        BY <2>4, <4>1 DEF Whole, Kept, Chain
      <4>3. c.until <= t.cert.until \/ (r.old = t.cert /\ r.op = t.op)
        BY <3>2, <4>1, <4>2 DEF Covers
      <4>4. c.until <= now
        <5>1. CASE c.until <= t.cert.until
          BY <2>1, <2>2, <3>1, <5>1
        <5>2. CASE r.old = t.cert /\ r.op = t.op
          BY <2>1, <2>2, <3>1, <4>1, <4>2, <5>2
        <5>3. QED
          BY <4>3, <5>1, <5>2
      <4>5. QED
        BY <2>1, <3>1, <4>4 DEF Accepted
    <3>5. QED
      BY <3>3, <3>4
  <2>5. QED
    BY <2>3, <2>4 DEF Over
<1>6. ASSUME NEW p \in state.cancels \ cancels PROVE Over(p.dev)
  <2>1. /\ p.created \in Nat /\ p.dev \in Devices /\ now \in Nat /\ Life \in Nat /\ Ttl \in Nat
        /\ txn[p.dev].at \in Nat /\ Timely(p.dev, p.created)
    BY <1>4, Ranges DEF Whole, Kept, Waiting
  <2>2. p.created + Ttl + Life <= now /\ p.created + Ttl <= now
    BY <2>1
  <2>3. ~ Open(p.dev)
    BY <2>1, <2>2 DEF Open, Timely
  <2>4. ASSUME NEW c \in issued, c.dev = p.dev PROVE ~ Accepted(c)
    <3>1. c.key = 0
      <4>1. Waited(p.dev)
        BY DEF Waited
      <4>2. QED
        BY <2>4, <4>1 DEF Whole, Kept, Chain, Apart
    <3>2. c.until <= p.created + Ttl + Life /\ c.until \in Nat
      BY <1>4, <2>1, <2>4, <3>1, Ranges DEF Timely
    <3>3. QED
      BY <2>1, <2>2, <3>2 DEF Accepted
  <2>5. QED
    BY <2>3, <2>4 DEF Over
<1>7. Pruned = [state EXCEPT !.revs = revs, !.cancels = cancels]
  BY DEF Pruned
<1>8. revs \in SUBSET state.revs /\ cancels \in SUBSET state.cancels
  OBVIOUS
<1> HIDE DEF revs, cancels
<1>9. state' = Pruned /\ Resting /\ left'.logins = left.logins => Kept' /\ Steady
  BY <1>4, <1>5, <1>6, <1>7, <1>8, OverDropped
<1>10. QED
  BY <1>3, <1>4, <1>9, FileStep

\* What is left of a sweep's own copies.
LEMMA SweepingSound ==
  ASSUME Whole, NEW a \in Clients, NEW n, n = Sweeping(call[a].cancels, call[a].revs),
         UNCHANGED server
  PROVE  Sound(n) /\ Sound(n)' /\ n.at # "start"
<1>1. n = Idle \/ n = [Idle EXCEPT !.at = "sweep", !.cancels = call[a].cancels,
                                  !.revs = call[a].revs]
  BY DEF Sweeping
<1>2. CASE n = Idle
  BY <1>2, IdleSound DEF Idle
<1>3. CASE n = [Idle EXCEPT !.at = "sweep", !.cancels = call[a].cancels, !.revs = call[a].revs]
  <2>1. n.at = "sweep" /\ n.cancels = call[a].cancels /\ n.reply = "none" /\ n.answer = None
    BY <1>3 DEF Idle
  <2>2. \A p \in n.cancels : p.dev \in Devices /\ txn[p.dev].status # "none"
    BY <2>1, Callers DEF Sound, Asking
  <2>3. QED
    BY <2>1, <2>2 DEF Sound, Starting, Renewing, Asking, Revoking, server
<1>4. QED
  BY <1>1, <1>2, <1>3

LEMMA DropWhole ==
  ASSUME Whole, NEW a \in Clients, Drop(a)
  PROVE  Kept' /\ Sounds' /\ Distinct'
<1>1. TypeInv /\ UNCHANGED <<server, now, shown>> /\ state \in States /\ Sound(call[a])
      /\ Fits(call[a]) /\ call[a].reply = "done"
  BY Callers, Ranges DEF Drop, others
<1>2. PICK n : n = Sweeping(call[a].cancels, call[a].revs)
  OBVIOUS
<1>3. Sound(n)' /\ n.at # "start"
  BY <1>1, <1>2, SweepingSound
<1> DEFINE fewer == {p \in state.cancels : p.dev # call[a].dev}
           less == {t \in state.revs : t.cert # call[a].cert}
<1>4. CASE call[a].at = "cancel" /\ Change(a, [state EXCEPT !.cancels = fewer], n)
  <2>1. ASSUME NEW p \in state.cancels \ fewer PROVE Over(p.dev)
    <3>1. p.dev = call[a].dev /\ Waited(p.dev)
      BY DEF Waited
    <3>2. txn[p.dev].status \notin {"pending", "approved"} /\ IssuedTo(p.dev) \subseteq published
      BY <1>1, <1>4, <3>1 DEF Sound, Asking
    <3>3. ASSUME NEW c \in issued, c.dev = p.dev PROVE ~ Accepted(c)
      <4>1. c.key = 0
        BY <3>1, <3>3 DEF Whole, Kept, Chain, Apart
      <4>2. QED
        BY <3>2, <3>3, <4>1 DEF IssuedTo, Accepted
    <3>4. QED
      BY <3>2, <3>3 DEF Over, Open
  <2>2. [state EXCEPT !.cancels = fewer] = [state EXCEPT !.revs = state.revs, !.cancels = fewer]
    BY <1>1 DEF States
  <2>3. fewer \in SUBSET state.cancels /\ state.revs \in SUBSET state.revs
    OBVIOUS
  <2> DEFINE new == [state EXCEPT !.cancels = fewer]
  <2> HIDE DEF fewer
  <2>4. state' = new /\ Resting /\ left'.logins = left.logins => Kept' /\ Steady
    BY <1>1, <2>1, <2>2, <2>3, OverDropped
  <2>5. Change(a, new, n)
    BY <1>4
  <2> HIDE DEF new
  <2>6. QED
    BY <1>1, <1>3, <2>4, <2>5, FileStep
<1>5. CASE call[a].at = "revoke" /\ Change(a, [state EXCEPT !.revs = less], n)
  <2>1. ASSUME NEW t \in state.revs \ less PROVE Over(t.cert.dev)
    <3>1. t.cert = call[a].cert /\ t.cert \in issued
      BY <1>1, Ranges
    <3>2. \A c \in issued : c.dev = t.cert.dev => c \in published
      BY <1>1, <1>5, <3>1 DEF Sound, Revoking
    <3>3. ~ Open(t.cert.dev)
      BY <3>1 DEF Whole, Kept, Logins, Dealt, Open
    <3>4. QED
      BY <3>2, <3>3 DEF Over, Accepted
  <2>2. [state EXCEPT !.revs = less] = [state EXCEPT !.revs = less, !.cancels = state.cancels]
    BY <1>1 DEF States
  <2>3. less \in SUBSET state.revs /\ state.cancels \in SUBSET state.cancels
    OBVIOUS
  <2> DEFINE new == [state EXCEPT !.revs = less]
  <2> HIDE DEF less
  <2>4. state' = new /\ Resting /\ left'.logins = left.logins => Kept' /\ Steady
    BY <1>1, <2>1, <2>2, <2>3, OverDropped
  <2>5. Change(a, new, n)
    BY <1>5
  <2> HIDE DEF new
  <2>6. QED
    BY <1>1, <1>3, <2>4, <2>5, FileStep
<1>6. QED
  BY <1>2, <1>4, <1>5 DEF Drop

\* The steps of a call that change nothing else.
LEMMA CalmWhole ==
  ASSUME Whole, NEW a \in Clients, Calm(a)
  PROVE  Kept' /\ Sounds' /\ Distinct'
<1>1. /\ TypeInv /\ state \in States /\ call[a] \in CallRecords /\ Fits(call[a]) /\ Sound(call[a])
      /\ call \in [Clients -> CallRecords] /\ left'.logins = left.logins
  BY Callers, Ranges, QuietKept
<1>2. UNCHANGED <<state, server, now, shown>>
  BY DEF Calm, Poll, Waits, AskRenewal, ReadTodos, NextTodo, Traced, Keep, Lose, Crash, others
<1>3. CASE Poll(a)
  <2>1. PICK n : n = [Idle EXCEPT !.at = "poll", !.gen = state.gen, !.dev = state.pending.dev]
    OBVIOUS
  <2>2. n.at = "poll" /\ n.dev = state.pending.dev /\ n.cancels = {}
    BY <2>1 DEF Idle
  <2>3. txn[n.dev].status # "none"
    BY <1>3, <2>2 DEF Poll, Whole, Kept, Waiting
  <2>4. Sound(n)
    BY <2>2, <2>3 DEF Sound, Starting, Renewing, Asking, Revoking
  <2>5. QED
    BY <1>1, <1>2, <1>3, <2>1, <2>2, <2>4, CallStep DEF Poll
<1>4. CASE Waits(a) \/ Crash(a)
  <2>1. call' = [call EXCEPT ![a] = Idle]
    BY <1>4 DEF Waits, Crash, Returns
  <2>2. Sound(Idle) /\ Idle.at # "start"
    BY IdleSound DEF Idle
  <2>3. QED
    BY <1>1, <1>2, <2>1, <2>2, CallStep
<1>5. CASE AskRenewal(a)
  <2>1. PICK n : n = [call[a] EXCEPT !.at = "renew", !.reply = "none"]
    OBVIOUS
  <2>2. /\ n.at = "renew" /\ n.reply = "none" /\ n.gen = call[a].gen /\ n.cert = call[a].cert
        /\ n.op = call[a].op /\ n.cancels = call[a].cancels
    BY <1>1, <2>1 DEF CallRecords
  <2>3. Sound(n)
    BY <1>1, <1>5, <2>2 DEF AskRenewal, Sound, Starting, Renewing, Asking, Revoking
  <2>4. call' = [call EXCEPT ![a] = n]
    BY <1>1, <1>5, <2>1 DEF AskRenewal
  <2>5. QED
    BY <1>1, <1>2, <2>2, <2>3, <2>4, CallStep
<1>6. CASE ReadTodos(a)
  <2>1. PICK n : n = Sweeping(state.cancels, state.revs)
    OBVIOUS
  <2>2. n = Idle \/ n = [Idle EXCEPT !.at = "sweep", !.cancels = state.cancels,
                                     !.revs = state.revs]
    BY <2>1 DEF Sweeping
  <2>3. Sound(n) /\ n.at # "start"
    <3>1. CASE n = Idle
      BY <3>1, IdleSound DEF Idle
    <3>2. CASE n = [Idle EXCEPT !.at = "sweep", !.cancels = state.cancels, !.revs = state.revs]
      <4>1. n.at = "sweep" /\ n.cancels = state.cancels /\ n.reply = "none" /\ n.answer = None
        BY <3>2 DEF Idle
      <4>2. QED
        BY <4>1 DEF Whole, Kept, Waiting, Sound, Starting, Renewing, Asking, Revoking
    <3>3. QED
      BY <2>2, <3>1, <3>2
  <2>4. QED
    BY <1>1, <1>2, <1>6, <2>1, <2>3, CallStep DEF ReadTodos
<1>7. CASE NextTodo(a)
  <2>0. call[a].at = "sweep" /\ call[a].answer = None /\ call[a].reply = "none"
    BY <1>1, <1>7 DEF NextTodo, Sound, Revoking
  <2>1. CASE \E p \in call[a].cancels :
               call' = [call EXCEPT ![a] = [call[a] EXCEPT !.at = "cancel", !.dev = p.dev,
                                                           !.cancels = @ \ {p}]]
    <3>1. PICK p \in call[a].cancels :
            call' = [call EXCEPT ![a] = [call[a] EXCEPT !.at = "cancel", !.dev = p.dev,
                                                        !.cancels = @ \ {p}]]
      BY <2>1
    <3>2. PICK n : n = [call[a] EXCEPT !.at = "cancel", !.dev = p.dev,
                                       !.cancels = call[a].cancels \ {p}]
      OBVIOUS
    <3>3. /\ n.at = "cancel" /\ n.dev = p.dev /\ n.cancels = call[a].cancels \ {p}
          /\ n.reply = "none"
      BY <1>1, <2>0, <3>2 DEF CallRecords
    <3>4. Sound(n)
      BY <1>1, <3>3 DEF Sound, Starting, Renewing, Asking, Revoking
    <3>5. call' = [call EXCEPT ![a] = n]
      BY <1>1, <3>1, <3>2
    <3>6. QED
      BY <1>1, <1>2, <3>3, <3>4, <3>5, CallStep
  <2>2. CASE \E t \in call[a].revs :
               call' = [call EXCEPT ![a] =
                          [call[a] EXCEPT !.at = IF t.op # 0 THEN "trace" ELSE "revoke",
                                          !.op = t.op, !.cert = t.cert, !.revs = @ \ {t}]]
    <3>1. PICK t \in call[a].revs :
            call' = [call EXCEPT ![a] =
                       [call[a] EXCEPT !.at = IF t.op # 0 THEN "trace" ELSE "revoke",
                                       !.op = t.op, !.cert = t.cert, !.revs = @ \ {t}]]
      BY <2>2
    <3>2. PICK at : at = IF t.op # 0 THEN "trace" ELSE "revoke"
      OBVIOUS
    <3>3. PICK n : n = [call[a] EXCEPT !.at = at, !.op = t.op, !.cert = t.cert,
                                       !.revs = call[a].revs \ {t}]
      OBVIOUS
    <3>4. /\ n.at = at /\ n.cancels = call[a].cancels /\ n.reply = "none" /\ n.answer = None
      BY <1>1, <2>0, <3>3 DEF CallRecords
    <3>5. Sound(n) /\ n.at # "start"
      BY <1>1, <3>2, <3>4 DEF Sound, Starting, Renewing, Asking, Revoking
    <3>6. call' = [call EXCEPT ![a] = n]
      BY <1>1, <3>1, <3>2, <3>3
    <3>7. QED
      BY <1>1, <1>2, <3>5, <3>6, CallStep
  <2>3. QED
    BY <1>7, <2>1, <2>2 DEF NextTodo
<1>8. CASE Traced(a)
  <2>1. PICK n : n = [call[a] EXCEPT !.at = "revoke", !.reply = "none"]
    OBVIOUS
  <2>2. /\ n.at = "revoke" /\ n.reply = "none" /\ n.cert = call[a].cert
        /\ n.answer = call[a].answer /\ n.cancels = call[a].cancels
    BY <1>1, <2>1 DEF CallRecords
  <2>3. Sound(n)
    BY <1>1, <1>8, <2>2 DEF Traced, Sound, Starting, Renewing, Asking, Revoking
  <2>4. call' = [call EXCEPT ![a] = n]
    BY <1>1, <1>8, <2>1 DEF Traced
  <2>5. QED
    BY <1>1, <1>2, <2>2, <2>3, <2>4, CallStep
<1>9. CASE Keep(a)
  <2>1. PICK n : n = Sweeping(call[a].cancels, call[a].revs)
    OBVIOUS
  <2>2. Sound(n) /\ n.at # "start"
    BY <1>2, <2>1, SweepingSound
  <2>3. QED
    BY <1>1, <1>2, <1>9, <2>1, <2>2, CallStep DEF Keep
<1>10. CASE Lose(a)
  <2>1. PICK n : n = [call[a] EXCEPT !.reply = "network", !.answer = None]
    OBVIOUS
  <2>2. /\ n.at = call[a].at /\ n.reply = "network" /\ n.answer = None /\ n.dev = call[a].dev
        /\ n.gen = call[a].gen /\ n.op = call[a].op /\ n.cert = call[a].cert
        /\ n.cancels = call[a].cancels
    BY <1>1, <2>1 DEF CallRecords
  <2>3. n.at # "sweep"
    BY <1>10, <2>2 DEF Lose, Awaiting
  <2>4. Sound(n)
    BY <1>1, <2>2, <2>3 DEF Sound, Starting, Renewing, Asking, Revoking
  <2>5. call' = [call EXCEPT ![a] = n]
    BY <1>1, <1>10, <2>1 DEF Lose
  <2>6. QED
    BY <1>1, <1>2, <2>2, <2>4, <2>5, CallStep
<1>11. QED
  BY <1>3, <1>4, <1>5, <1>6, <1>7, <1>8, <1>9, <1>10 DEF Calm

-----------------------------------------------------------------------------
(* The steps of the server. *)

LEMMA ServeStartWhole ==
  ASSUME Whole, NEW a \in Clients, ServeStart(a)
  PROVE  Kept' /\ Sounds' /\ Distinct'
<1>1. /\ TypeInv /\ call[a] \in CallRecords /\ Fits(call[a]) /\ Sound(call[a])
      /\ call[a].at = "start" /\ call[a].reply = "none"
      /\ call \in [Clients -> CallRecords]
  BY Callers DEF ServeStart
<1>2. PICK d \in Devices : d = call[a].dev
  BY <1>1 DEF Fits
<1>3. /\ txn' = [txn EXCEPT ![d] = [status |-> "pending", at |-> now]]
      /\ UNCHANGED <<state, issued, renewed, revoked, handed, published, disabled, others, left>>
  BY <1>2 DEF ServeStart
<1>4. Kept' /\ \A b \in Clients \ {a} : \A c : c = call[b] => Sound(c)'
  BY <1>1, <1>2, <1>3, EnrolmentBegins DEF Serving, others
<1>5. PICK n : n = [call[a] EXCEPT !.reply = "ok"]
  OBVIOUS
<1>6. /\ n.at = "start" /\ n.reply = "ok" /\ n.dev = d /\ n.gen = call[a].gen
      /\ n.cancels = call[a].cancels
  BY <1>1, <1>2, <1>5 DEF CallRecords
<1>7. call' = [call EXCEPT ![a] = n]
  BY <1>1, <1>5 DEF ServeStart
<1>8. Sound(n)'
  <2>1. txn'[d].status = "pending" /\ \A e \in Devices \ {d} : txn'[e] = txn[e]
    BY <1>1, <1>3, Ranges
  <2>2. \A p \in n.cancels : p.dev \in Devices /\ txn'[p.dev].status # "none"
    BY <1>1, <1>6, <2>1 DEF Sound, Asking
  <2>3. Starting(n)'
    BY <1>1, <1>2, <1>3, <1>6, <2>1 DEF Sound, Starting, others
  <2>4. QED
    BY <1>6, <2>2, <2>3 DEF Sound, Renewing, Asking, Revoking
<1>9. \A b \in Clients \ {a} : call[b].at = "start" => call[b].dev # n.dev
  BY <1>1, <1>2, <1>6 DEF Whole, Distinct
<1>10. QED
  BY <1>4, <1>7, <1>8, <1>9, Onward

\* A poll is sound whatever it is answered.
LEMMA PollSound ==
  ASSUME NEW c, NEW n, c.at = "poll", n.at = "poll", n.dev = c.dev, n.cancels = c.cancels
  PROVE  (Sound(c) => Sound(n)) /\ (Sound(c)' => Sound(n)')
  BY DEF Sound, Starting, Renewing, Asking, Revoking

LEMMA ServePollWhole ==
  ASSUME Whole, NEW a \in Clients, ServePoll(a)
  PROVE  Kept' /\ Sounds' /\ Distinct'
<1>1. /\ TypeInv /\ call[a] \in CallRecords /\ Fits(call[a]) /\ Sound(call[a])
      /\ call[a].at = "poll" /\ call \in [Clients -> CallRecords]
  BY Callers DEF ServePoll
<1>2. PICK c : c = call[a]
  OBVIOUS
<1>3. PICK d \in Devices : d = call[a].dev
  BY <1>1 DEF Fits
<1>4. UNCHANGED <<state, renewed, revoked, handed, published, disabled, others, left>>
  BY DEF ServePoll
<1>5. txn[d].status # "none"
  BY <1>1, <1>3 DEF Sound, Asking
<1>6. /\ \E code, x : \/ call' = [call EXCEPT ![a].reply = code]
                      \/ call' = [call EXCEPT ![a].reply = code, ![a].answer = x]
      /\ \/ UNCHANGED <<txn, issued>>
         \/ /\ txn[d].status \notin Dealt /\ issued' = issued
            /\ txn' = [txn EXCEPT ![d].status = "expired"]
         \/ /\ txn[d].status = "approved" /\ ~ (now >= txn[d].at + Ttl)
            /\ issued' = issued \union {[dev |-> d, key |-> 0, until |-> now + Life]}
            /\ txn' = [txn EXCEPT ![d] = [status |-> "issued", at |-> now]]
  <2>1. \/ \E code : call' = [call EXCEPT ![a].reply = code]
        \/ \E x : call' = [call EXCEPT ![a].reply = "cert", ![a].answer = x]
    BY Zenon DEF ServePoll
  <2>2. \/ UNCHANGED <<txn, issued>>
        \/ /\ txn[d].status \notin Dealt /\ issued' = issued
           /\ txn' = [txn EXCEPT ![d].status = "expired"]
        \/ /\ txn[d].status = "approved" /\ ~ (now >= txn[d].at + Ttl)
           /\ issued' = issued \union {[dev |-> d, key |-> 0, until |-> now + Life]}
           /\ txn' = [txn EXCEPT ![d] = [status |-> "issued", at |-> now]]
    BY Zenon, <1>3 DEF ServePoll, Dealt
  <2>3. QED
    BY <2>1, <2>2
<1>7. Kept' /\ Steady
  <2>1. CASE UNCHANGED <<txn, issued>>
    <3>1. Resting
      BY <1>1, <1>4, <2>1, UnchangedRests DEF server, others
    <3>2. QED
      BY <1>4, <3>1, Nothing DEF Unread, others
  <2>2. CASE /\ txn[d].status \notin Dealt /\ issued' = issued
             /\ txn' = [txn EXCEPT ![d].status = "expired"]
    <3>1. Serving /\ UNCHANGED <<issued, renewed, published, disabled>> /\ revoked \subseteq revoked'
      BY <1>4, <2>2 DEF Serving, others
    <3>2. PICK status : status = "expired"
      OBVIOUS
    <3>3. /\ txn' = [txn EXCEPT ![d].status = status]
          /\ status # "none" /\ status # "approved" /\ status # "revocation_pending"
          /\ status \notin {"pending", "approved"} /\ txn[d].status \notin Dealt
      BY <2>2, <3>2
    <3>4. QED
      BY <1>5, <3>1, <3>3, EnrolmentMoves
  <2>3. CASE /\ txn[d].status = "approved" /\ ~ (now >= txn[d].at + Ttl)
             /\ issued' = issued \union {[dev |-> d, key |-> 0, until |-> now + Life]}
             /\ txn' = [txn EXCEPT ![d] = [status |-> "issued", at |-> now]]
    <3>1. Serving /\ UNCHANGED <<renewed, revoked, published, disabled>>
      BY <1>4 DEF Serving, others
    <3>2. now < txn[d].at + Ttl
      BY <1>1, <2>3, Ranges
    <3>3. PICK x : x = [dev |-> d, key |-> 0, until |-> now + Life]
      OBVIOUS
    <3>4. issued' = issued \union {x}
      BY <2>3, <3>3
    <3>5. QED
      BY <2>3, <3>1, <3>2, <3>3, <3>4, LoginIssued
  <2>4. QED
    BY <1>6, <2>1, <2>2, <2>3
<1>8. Sound(c)'
  BY <1>1, <1>2, <1>7 DEF Steady
<1>9. PICK code, x : \/ call' = [call EXCEPT ![a].reply = code]
                     \/ call' = [call EXCEPT ![a].reply = code, ![a].answer = x]
  BY <1>6
<1>10. \E n : /\ call' = [call EXCEPT ![a] = n] /\ n.at = "poll" /\ n.dev = c.dev
              /\ n.cancels = c.cancels
  <2>1. CASE call' = [call EXCEPT ![a].reply = code]
    <3>1. PICK n : n = [call[a] EXCEPT !.reply = code]
      OBVIOUS
    <3>2. n.at = "poll" /\ n.dev = c.dev /\ n.cancels = c.cancels
      BY <1>1, <1>2, <3>1 DEF CallRecords
    <3>3. QED
      BY <1>1, <2>1, <3>1, <3>2
  <2>2. CASE call' = [call EXCEPT ![a].reply = code, ![a].answer = x]
    <3>1. PICK n : n = [call[a] EXCEPT !.reply = code, !.answer = x]
      OBVIOUS
    <3>2. n.at = "poll" /\ n.dev = c.dev /\ n.cancels = c.cancels
      BY <1>1, <1>2, <3>1 DEF CallRecords
    <3>3. QED
      BY <1>1, <2>2, <3>1, <3>2
  <2>3. QED
    BY <1>9, <2>1, <2>2
<1>11. PICK n : /\ call' = [call EXCEPT ![a] = n] /\ n.at = "poll" /\ n.dev = c.dev
                /\ n.cancels = c.cancels
  BY <1>10
<1>12. Sound(n)'
  BY <1>1, <1>2, <1>8, <1>11, PollSound
<1>13. QED
  BY <1>7, <1>11, <1>12, Goes

\* What the server tells of an operation, when it tells of a certificate.
LEMMA RecoveredSays ==
  ASSUME TypeInv, NEW op, NEW old, NEW o, o = Recovered(op, old)
  PROVE  /\ o.code = "cert" \/ o.cert # None =>
              \E r \in renewed : r.old = old /\ r.op = op /\ r.new = o.cert
         /\ o.code # "none" /\ o.code # "done"
         /\ o.code = "conflict" => \A r \in renewed : ~ (r.old = old /\ r.op = op)
<1> DEFINE done == {r \in renewed : r.op = op /\ r.old = old}
           x == CHOOSE r \in done : TRUE
<1>1. \/ done = {} /\ o = Outcome("conflict", None)
      \/ o = Outcome("rejected", None) \/ o = Outcome("reauth", None)
      \/ done # {} /\ o = Outcome("cert", x.new)
  BY DEF Recovered
<1>2. done # {} => x \in done
  OBVIOUS
<1>3. /\ Outcome("conflict", None).code = "conflict" /\ Outcome("conflict", None).cert = None
      /\ Outcome("rejected", None).code = "rejected" /\ Outcome("rejected", None).cert = None
      /\ Outcome("reauth", None).code = "reauth" /\ Outcome("reauth", None).cert = None
      /\ \A y : Outcome("cert", y).code = "cert" /\ Outcome("cert", y).cert = y
  BY DEF Outcome
<1>4. done # {} => /\ x \in renewed /\ x.op = op /\ x.old = old
  BY <1>2
<1> HIDE DEF x
<1>5. done = {} => \A r \in renewed : ~ (r.old = old /\ r.op = op)
  OBVIOUS
<1> HIDE DEF done
<1>6. QED
  BY <1>1, <1>3, <1>4, <1>5

\* An answer of the server about an operation.
LEMMA AnswerSound ==
  ASSUME Whole, NEW c, NEW n, Sound(c), c.at \in {"recover", "renew", "trace"},
         n.at = c.at, n.dev = c.dev, n.gen = c.gen, n.op = c.op, n.cert = c.cert,
         n.cancels = c.cancels,
         n.reply = "cert" \/ n.answer # None =>
           \E r \in renewed : r.old = c.cert /\ r.op = c.op /\ r.new = n.answer
  PROVE  Sound(n)
<1>1. n.answer # None => n.answer.dev = c.cert.dev
  BY DEF Whole, Kept, Chain
<1>2. QED
  BY <1>1 DEF Sound, Starting, Renewing, Asking, Revoking

LEMMA ServeRecoverWhole ==
  ASSUME Whole, NEW a \in Clients, ServeRecover(a)
  PROVE  Kept' /\ Sounds' /\ Distinct'
<1>1. TypeInv /\ call \in [Clients -> CallRecords]
      /\ call[a].at \in {"recover", "trace"} /\ UNCHANGED <<state, server, now, shown, left>>
  BY Callers DEF ServeRecover, others
<1>2. PICK o : o = Recovered(call[a].op, call[a].cert)
  OBVIOUS
<1>3. o.code = "cert" \/ o.cert # None =>
        \E r \in renewed : r.old = call[a].cert /\ r.op = call[a].op /\ r.new = o.cert
  BY <1>1, <1>2, RecoveredSays
<1>a. PICK code, x : code = o.code /\ x = o.cert
  OBVIOUS
<1>4. PICK n : n = [call[a] EXCEPT !.reply = code, !.answer = x]
  OBVIOUS
<1>5. Sound(n) /\ n.at # "start"
  <2>1. PICK c : c = call[a]
    OBVIOUS
  <2>2. c \in CallRecords /\ Sound(c) /\ c.at \in {"recover", "trace"}
    BY <1>1, <2>1, Callers
  <2>3. /\ n.at = c.at /\ n.reply = code /\ n.answer = x /\ n.dev = c.dev
        /\ n.gen = c.gen /\ n.op = c.op /\ n.cert = c.cert /\ n.cancels = c.cancels
    BY <1>4, <2>1, <2>2 DEF CallRecords
  <2>4. n.reply = "cert" \/ n.answer # None =>
          \E r \in renewed : r.old = c.cert /\ r.op = c.op /\ r.new = n.answer
    BY <1>3, <1>a, <2>1, <2>3
  <2>5. QED
    BY <2>2, <2>3, <2>4, AnswerSound
<1>6. call' = [call EXCEPT ![a] = n]
  BY <1>1, <1>2, <1>a, <1>4 DEF ServeRecover
<1>7. QED
  BY <1>1, <1>5, <1>6, CallStep

LEMMA ServeRenewWhole ==
  ASSUME Whole, NEW a \in Clients, ServeRenew(a)
  PROVE  Kept' /\ Sounds' /\ Distinct'
<1>1. /\ TypeInv /\ call[a] \in CallRecords /\ Fits(call[a]) /\ Sound(call[a])
      /\ call \in [Clients -> CallRecords] /\ call[a].at = "renew"
      /\ UNCHANGED <<state, txn, revoked, handed, published, disabled, now, shown, left>>
  BY Callers DEF ServeRenew, others
<1>2. PICK old : old = call[a].cert
  OBVIOUS
<1>3. PICK op : op = call[a].op
  OBVIOUS
<1>4. PICK o : o = Recovered(op, old)
  OBVIOUS
<1>5. PICK x : x = [dev |-> old.dev, key |-> op, until |-> now + Life]
  OBVIOUS
<1>6. PICK s : s = [op |-> op, old |-> old, new |-> x, until |-> now + Recovery]
  OBVIOUS
<1>7. /\ old \in issued /\ op \in Nat /\ op # 0 /\ Tracked(old, op)
      /\ ~ Waited(old.dev) /\ old.dev > left.logins
  BY <1>1, <1>2, <1>3 DEF Fits, CallRecords, Sound, Renewing
<1>8. CASE /\ UNCHANGED <<issued, renewed>>
           /\ \/ \E code \in {"rejected", "conflict", "reauth"} :
                   call' = [call EXCEPT ![a].reply = code, ![a].answer = None]
              \/ call' = [call EXCEPT ![a].reply = o.code, ![a].answer = o.cert]
  <2>1. \E code, y : /\ call' = [call EXCEPT ![a].reply = code, ![a].answer = y]
                     /\ code = "cert" \/ y # None =>
                          \E r \in renewed : r.old = call[a].cert /\ r.op = call[a].op /\ r.new = y
    <3>1. CASE \E code \in {"rejected", "conflict", "reauth"} :
                 call' = [call EXCEPT ![a].reply = code, ![a].answer = None]
      BY <3>1
    <3>2. CASE call' = [call EXCEPT ![a].reply = o.code, ![a].answer = o.cert]
      <4>1. o.code = "cert" \/ o.cert # None =>
              \E r \in renewed : r.old = call[a].cert /\ r.op = call[a].op /\ r.new = o.cert
        BY <1>1, <1>2, <1>3, <1>4, RecoveredSays
      <4>2. PICK code, y : code = o.code /\ y = o.cert
        OBVIOUS
      <4>3. QED
        BY <3>2, <4>1, <4>2
    <3>3. QED
      BY <1>8, <3>1, <3>2
  <2>2. PICK code, y : /\ call' = [call EXCEPT ![a].reply = code, ![a].answer = y]
                       /\ code = "cert" \/ y # None =>
                            \E r \in renewed : r.old = call[a].cert /\ r.op = call[a].op /\ r.new = y
    BY <2>1
  <2>3. PICK n : n = [call[a] EXCEPT !.reply = code, !.answer = y]
    OBVIOUS
  <2>4. Sound(n) /\ n.at # "start"
    <3>1. PICK c : c = call[a]
      OBVIOUS
    <3>2. c \in CallRecords /\ Sound(c) /\ c.at = "renew"
      BY <1>1, <3>1
    <3>3. /\ n.at = c.at /\ n.reply = code /\ n.answer = y /\ n.dev = c.dev
          /\ n.gen = c.gen /\ n.op = c.op /\ n.cert = c.cert /\ n.cancels = c.cancels
      BY <2>3, <3>1, <3>2 DEF CallRecords
    <3>4. n.reply = "cert" \/ n.answer # None =>
            \E r \in renewed : r.old = c.cert /\ r.op = c.op /\ r.new = n.answer
      BY <2>2, <3>1, <3>3
    <3>5. QED
      BY <3>2, <3>3, <3>4, AnswerSound
  <2>5. call' = [call EXCEPT ![a] = n]
    BY <1>1, <2>2, <2>3
  <2>6. UNCHANGED server
    BY <1>1, <1>8 DEF server
  <2>7. QED
    BY <1>1, <2>4, <2>5, <2>6, CallStep
<1>9. CASE /\ ~ Refused(old, FALSE) /\ old \notin published /\ ~ (now >= old.until)
           /\ ~ \E r \in renewed : r.old = old
           /\ ~ (x.until <= old.until)
           /\ issued' = issued \union {x} /\ renewed' = renewed \union {s}
           /\ call' = [call EXCEPT ![a].reply = "cert", ![a].answer = x]
  <2>1. now \in Nat /\ old.until \in Nat /\ x.until \in Nat
    BY <1>1, <1>5, <1>7, Ranges
  <2>2. Accepted(old) /\ old.dev \notin disabled /\ old.until < x.until
    BY <1>7, <1>9, <2>1 DEF Accepted, Refused
  <2>3. s.op = op /\ s.old = old /\ s.new = x
    BY <1>6
  <2>4. Serving /\ UNCHANGED <<txn, revoked, published, disabled>>
    BY <1>1 DEF Serving
  <2>5. \A r \in renewed : r.old # old
    BY <1>9
  <2>6. Kept' /\ Steady
    BY <1>5, <1>7, <1>9, <2>2, <2>3, <2>4, <2>5, RenewalIssued
  <2>7. PICK n : n = [call[a] EXCEPT !.reply = "cert", !.answer = x]
    OBVIOUS
  <2>8. /\ n.at = "renew" /\ n.reply = "cert" /\ n.answer = x /\ n.dev = call[a].dev
        /\ n.gen = call[a].gen /\ n.op = call[a].op /\ n.cert = call[a].cert
        /\ n.cancels = call[a].cancels
    BY <1>1, <2>7 DEF CallRecords
  <2>9. \A c : c = call[a] => Sound(c)'
    BY <1>1, <2>6 DEF Steady
  <2>10. Sound(n)'
    <3>1. PICK c : c = call[a]
      OBVIOUS
    <3>2. Renewing(c)' /\ Asking(c)'
      BY <2>9, <3>1 DEF Sound
    <3>3. Renewing(n)'
      BY <1>1, <1>2, <1>3, <1>9, <2>3, <2>8, <3>1, <3>2 DEF Renewing
    <3>4. Asking(n)'
      BY <1>1, <2>8, <3>1, <3>2 DEF Asking
    <3>5. QED
      BY <2>8, <3>3, <3>4 DEF Sound, Starting, Revoking
  <2>11. call' = [call EXCEPT ![a] = n]
    BY <1>1, <1>9, <2>7
  <2>12. QED
    BY <2>6, <2>8, <2>10, <2>11, Goes
<1>10. \/ /\ UNCHANGED <<issued, renewed>>
          /\ \/ \E code \in {"rejected", "conflict", "reauth"} :
                   call' = [call EXCEPT ![a].reply = code, ![a].answer = None]
             \/ call' = [call EXCEPT ![a].reply = o.code, ![a].answer = o.cert]
       \/ /\ ~ Refused(old, FALSE) /\ old \notin published /\ ~ (now >= old.until)
          /\ ~ \E r \in renewed : r.old = old
          /\ ~ (x.until <= old.until)
          /\ issued' = issued \union {x} /\ renewed' = renewed \union {s}
          /\ call' = [call EXCEPT ![a].reply = "cert", ![a].answer = x]
  BY <1>2, <1>3, <1>4, <1>5, <1>6 DEF ServeRenew
<1>11. QED
  BY <1>8, <1>9, <1>10

LEMMA ServeCancelWhole ==
  ASSUME Whole, NEW a \in Clients, ServeCancel(a)
  PROVE  Kept' /\ Sounds' /\ Distinct'
<1>1. /\ TypeInv /\ call[a] \in CallRecords /\ Fits(call[a]) /\ Sound(call[a])
      /\ call \in [Clients -> CallRecords] /\ call[a].at = "cancel"
      /\ UNCHANGED <<state, issued, renewed, handed, published, disabled, now, shown, left>>
  BY Callers DEF ServeCancel, others
<1>2. PICK d : d = call[a].dev
  OBVIOUS
<1>3. d \in Devices /\ txn[d].status # "none"
  BY <1>1, <1>2 DEF Sound, Asking
<1>4. PICK status : status = IF txn[d].status \in Dealt THEN "revocation_pending" ELSE "cancelled"
  OBVIOUS
<1>5. PICK code : code = IF txn[d].status \in Dealt /\ ~ Loaded(revoked') THEN "wait" ELSE "done"
  OBVIOUS
<1>6. /\ txn' = [txn EXCEPT ![d].status = status]
      /\ revoked' = IF txn[d].status = "issued" THEN revoked \union IssuedTo(d) ELSE revoked
      /\ call' = [call EXCEPT ![a].reply = code]
  BY <1>2, <1>4, <1>5 DEF ServeCancel, Dealt
<1>7. /\ revoked \subseteq revoked'
      /\ txn[d].status \in Dealt => IssuedTo(d) \subseteq revoked' /\ status = "revocation_pending"
      /\ txn[d].status \notin Dealt => IssuedTo(d) = {} /\ status = "cancelled"
  <2>1. revoked \subseteq revoked'
    BY <1>6
  <2>2. txn[d].status \in Dealt => IssuedTo(d) \subseteq revoked'
    BY <1>3, <1>6 DEF Whole, Kept, Logins, Dealt
  <2>3. txn[d].status \notin Dealt => IssuedTo(d) = {}
    BY DEF Whole, Kept, Logins, IssuedTo
  <2>4. QED
    BY <1>4, <2>1, <2>2, <2>3
<1>8. Kept' /\ Steady
  <2>1. Serving /\ UNCHANGED <<issued, renewed, published, disabled>>
    BY <1>1 DEF Serving
  <2>2. /\ status # "none" /\ status # "approved" /\ status \notin {"pending", "approved"}
        /\ txn[d].status \in Dealt => status \in Dealt
        /\ status = "revocation_pending" => IssuedTo(d) \subseteq revoked'
    BY <1>4, <1>7 DEF Dealt
  <2>3. QED
    BY <1>3, <1>6, <1>7, <2>1, <2>2, EnrolmentMoves
<1>9. PICK n : n = [call[a] EXCEPT !.reply = code]
  OBVIOUS
<1>10. /\ n.at = "cancel" /\ n.dev = d /\ n.reply = code /\ n.cancels = call[a].cancels
  BY <1>1, <1>2, <1>9 DEF CallRecords
<1>11. PICK c : c = call[a]
  OBVIOUS
<1>12. Asking(n)'
  <2>1. Asking(c)'
    BY <1>1, <1>8, <1>11 DEF Steady, Sound
  <2>2. txn'[d].status = status
    BY <1>1, <1>3, <1>6, Ranges
  <2>3. IssuedTo(d)' = IssuedTo(d)
    BY <1>1 DEF IssuedTo
  <2>4. code = "done" => IssuedTo(d) \subseteq published
    BY <1>5, <1>7 DEF Loaded
  <2>5. status \notin {"pending", "approved"}
    BY <1>4
  <2>6. \A p \in n.cancels : p.dev \in Devices /\ txn'[p.dev].status # "none"
    BY <1>10, <1>11, <2>1 DEF Asking
  <2>7. code = "done" => IssuedTo(n.dev)' \subseteq published'
    BY <1>1, <1>10, <2>3, <2>4
  <2>8. QED
    BY <1>3, <1>4, <1>10, <2>2, <2>5, <2>6, <2>7 DEF Asking
<1>13. Sound(n)'
  BY <1>10, <1>12 DEF Sound, Starting, Renewing, Revoking
<1>14. call' = [call EXCEPT ![a] = n]
  BY <1>1, <1>6, <1>9
<1>15. QED
  BY <1>8, <1>10, <1>13, <1>14, Goes

LEMMA ServeRevokeWhole ==
  ASSUME Whole, NEW a \in Clients, ServeRevoke(a)
  PROVE  Kept' /\ Sounds' /\ Distinct'
<1>1. /\ TypeInv /\ call[a] \in CallRecords /\ Fits(call[a]) /\ Sound(call[a])
      /\ call \in [Clients -> CallRecords] /\ call[a].at = "revoke"
      /\ UNCHANGED <<state, txn, issued, renewed, handed, published, now, shown, left>>
  BY Callers DEF ServeRevoke, others
<1>2. PICK x : x = Target(a)
  OBVIOUS
<1>3. x \in issued /\ x.dev = call[a].cert.dev
  BY <1>1, <1>2 DEF Target, Fits, Sound, Revoking
<1>4. /\ revoked \subseteq revoked'
      /\ \A d \in disabled' : d \in disabled \/ (d = x.dev /\ \A c \in issued : c.dev = d => c \in revoked')
      /\ \E code : /\ call' = [call EXCEPT ![a].reply = code]
                   /\ code = "done" => Loaded(revoked') /\ x.dev \in disabled'
  <2>1. CASE /\ x.dev \in disabled /\ UNCHANGED <<revoked, disabled>>
             /\ call' = [call EXCEPT ![a].reply = IF Loaded(revoked') THEN "done" ELSE "wait"]
    <3>1. PICK code : code = IF Loaded(revoked') THEN "done" ELSE "wait"
      OBVIOUS
    <3>2. call' = [call EXCEPT ![a].reply = code]
      BY <2>1, <3>1
    <3>3. code = "done" => Loaded(revoked') /\ x.dev \in disabled'
      BY <2>1, <3>1
    <3>4. QED
      BY <2>1, <3>2, <3>3
  <2>2. CASE /\ UNCHANGED <<revoked, disabled>>
             /\ \E code \in {"rejected", "reauth"} : call' = [call EXCEPT ![a].reply = code]
    BY <2>2
  <2>3. CASE /\ revoked' = revoked \union {c \in issued : c.dev = x.dev}
             /\ disabled' = disabled \union {x.dev}
             /\ call' = [call EXCEPT ![a].reply = IF Loaded(revoked') THEN "done" ELSE "wait"]
    <3>1. PICK code : code = IF Loaded(revoked') THEN "done" ELSE "wait"
      OBVIOUS
    <3>2. call' = [call EXCEPT ![a].reply = code]
      BY <2>3, <3>1
    <3>3. code = "done" => Loaded(revoked') /\ x.dev \in disabled'
      BY <2>3, <3>1
    <3>4. /\ revoked \subseteq revoked'
          /\ \A d \in disabled' : d \in disabled \/ (d = x.dev /\ \A c \in issued : c.dev = d => c \in revoked')
      BY <2>3
    <3>5. QED
      BY <3>2, <3>3, <3>4
  <2>4. QED
    BY <1>2, <2>1, <2>2, <2>3 DEF ServeRevoke
<1>5. Kept' /\ Steady
  <2>1. Serving /\ UNCHANGED <<txn, issued, renewed>> /\ published \subseteq published'
    BY <1>1 DEF Serving
  <2>2. txn[x.dev].status \in Dealt
    BY <1>3 DEF Whole, Kept, Logins
  <2>3. \A d \in disabled' : \/ d \in disabled
                             \/ /\ txn[d].status \in Dealt
                                /\ \A c \in issued : c.dev = d => c \in revoked'
    BY <1>4, <2>2
  <2>4. QED
    BY <1>4, <2>1, <2>3, MoreRevoked
<1>6. PICK code : /\ call' = [call EXCEPT ![a].reply = code]
                  /\ code = "done" => Loaded(revoked') /\ x.dev \in disabled'
  BY <1>4
<1>7. PICK n : n = [call[a] EXCEPT !.reply = code]
  OBVIOUS
<1>8. /\ n.at = "revoke" /\ n.reply = code /\ n.cert = call[a].cert
      /\ n.answer = call[a].answer /\ n.cancels = call[a].cancels
  BY <1>1, <1>7 DEF CallRecords
<1>9. PICK c : c = call[a]
  OBVIOUS
<1>10. Asking(c)' /\ Revoking(c)'
  BY <1>1, <1>5, <1>9 DEF Steady, Sound
<1>11. code = "done" => \A y \in issued' : y.dev = x.dev => y \in published'
  <2>1. ASSUME NEW y \in issued, y.dev = x.dev, x.dev \in disabled', Loaded(revoked')
        PROVE  y \in published'
    <3>1. y \in revoked'
      <4>1. x.dev \in disabled => y \in revoked
        BY <1>3, <2>1, <1>1, Server DEF Whole, Kept, Logins
      <4>2. QED
        BY <1>4, <2>1, <4>1
    <3>2. QED
      BY <1>1, <2>1, <3>1 DEF Loaded
  <2>2. QED
    BY <1>1, <1>6, <2>1
<1>12. Revoking(n)' /\ Asking(n)'
  BY <1>1, <1>3, <1>8, <1>9, <1>10, <1>11 DEF Revoking, Asking
<1>13. Sound(n)'
  BY <1>8, <1>12 DEF Sound, Starting, Renewing
<1>14. call' = [call EXCEPT ![a] = n]
  BY <1>1, <1>6, <1>7
<1>15. QED
  BY <1>5, <1>8, <1>13, <1>14, Goes

\* The user's browser, the server's own upkeep and the gateway.
LEMMA UpkeepWhole ==
  ASSUME Whole, (\E d \in Devices : Browser(d)) \/ HandOver \/ Publish
  PROVE  Kept' /\ Sounds' /\ Distinct'
<1>a. TypeInv
  BY DEF Whole, Inv
<1>1. ASSUME NEW d \in Devices, Browser(d) PROVE Kept' /\ Steady
  <2>1. PICK status \in {"approved", "denied"} : txn' = [txn EXCEPT ![d].status = status]
    BY <1>1 DEF Browser
  <2>2. /\ Serving /\ UNCHANGED <<issued, renewed, published, disabled>>
        /\ revoked \subseteq revoked' /\ d \in shown /\ txn[d].status = "pending"
    BY <1>1 DEF Browser, Serving, others
  <2>3. /\ status # "none" /\ status # "revocation_pending" /\ txn[d].status # "none"
        /\ txn[d].status \notin Dealt /\ txn[d].status \in {"pending", "approved"}
    BY <2>1, <2>2 DEF Dealt
  <2>4. QED
    BY <2>1, <2>2, <2>3, EnrolmentMoves
<1>2. ASSUME HandOver \/ Publish PROVE Kept' /\ Steady
  <2>1. /\ Serving /\ UNCHANGED <<txn, issued, renewed>> /\ revoked \subseteq revoked'
        /\ disabled' = disabled
    BY <1>2 DEF HandOver, Publish, Serving, others
  <2>2. published \subseteq published'
    BY <1>2, <1>a, Server DEF HandOver, Publish
  <2>3. \A d \in disabled' : \/ d \in disabled
                             \/ /\ txn[d].status \in Dealt
                                /\ \A c \in issued : c.dev = d => c \in revoked'
    BY <2>1
  <2>4. QED
    BY <2>1, <2>2, <2>3, MoreRevoked
<1>3. Kept' /\ Steady
  BY <1>1, <1>2
<1>4. call' = call
  BY DEF Browser, HandOver, Publish
<1>5. QED
  BY <1>3, <1>4, Stays

LEMMA RequestWhole ==
  ASSUME Whole, Snapshot \/ Verdict \/ UNCHANGED vars
  PROVE  Kept' /\ Sounds' /\ Distinct'
<1>1. TypeInv /\ state \in States
  BY Ranges DEF Whole, Inv
<1>2. UNCHANGED <<call, server, now, shown>>
  BY DEF Snapshot, Verdict, vars, others
<1>3. Unread /\ left'.logins = left.logins
  <2>1. CASE Snapshot
    BY <1>1, <2>1, SnapshotKept DEF Unread
  <2>2. CASE Verdict
    <3>1. left' = left /\ (state' = state \/ \E code : state' = [state EXCEPT !.err = code])
      BY <1>1, <2>2, VerdictKept
    <3>2. QED
      BY <1>1, <3>1 DEF Unread, States
  <2>3. CASE UNCHANGED vars
    BY <2>3 DEF vars, Unread
  <2>4. QED
    BY <2>1, <2>2, <2>3
<1>4. Resting
  BY <1>1, <1>2, <1>3, UnchangedRests
<1>5. Kept' /\ Steady
  BY <1>2, <1>3, <1>4, Nothing
<1>6. QED
  BY <1>2, <1>5, Stays

LEMMA WholeHolds ==
  ASSUME Whole, [Next]_vars
  PROVE  Whole'
<1>1. Inv'
  BY InvHolds DEF Whole
<1>2. Kept' /\ Sounds' /\ Distinct'
  <2>1. ASSUME NEW a \in Clients,
               \/ Connect(a) \/ Renew(a) \/ Logout(a) \/ Prune(a) \/ RecordStarted(a)
               \/ ActivateLogin(a) \/ NoteError(a) \/ ActivateRenewal(a) \/ Drop(a)
        PROVE  Kept' /\ Sounds' /\ Distinct'
    BY <2>1, ConnectWhole, RenewWhole, LogoutWhole, PruneWhole, RecordStartedWhole,
       ActivateLoginWhole, NoteErrorWhole, ActivateRenewalWhole, DropWhole
  <2>2. ASSUME NEW a \in Clients, Calm(a)
        PROVE  Kept' /\ Sounds' /\ Distinct'
    BY <2>2, CalmWhole
  <2>3. ASSUME NEW a \in Clients, Serve(a)
        PROVE  Kept' /\ Sounds' /\ Distinct'
    BY <2>3, ServeStartWhole, ServePollWhole, ServeRecoverWhole, ServeRenewWhole,
       ServeCancelWhole, ServeRevokeWhole DEF Serve
  <2>4. CASE (\E d \in Devices : Browser(d)) \/ HandOver \/ Publish
    BY <2>4, UpkeepWhole
  <2>5. CASE Tick
    BY <2>5, TimePasses
  <2>6. CASE Snapshot \/ Verdict \/ UNCHANGED vars
    BY <2>6, RequestWhole
  <2>7. QED
    BY <2>1, <2>2, <2>3, <2>4, <2>5, <2>6 DEF Next, Step, Calm
<1>3. QED
  BY <1>1, <1>2 DEF Whole

LEMMA WholeInitially == Init => Whole
<1> SUFFICES ASSUME Init PROVE Whole
  OBVIOUS
<1>1. Inv /\ TypeInv
  BY InvInitially, Initially
<1>2. /\ issued = {} /\ renewed = {} /\ shown = {} /\ disabled = {}
      /\ state.active = None /\ state.pending = None /\ state.revs = {} /\ state.cancels = {}
      /\ txn = [d \in Devices |-> [status |-> "none", at |-> 0]]
  BY DEF Init
<1>3. \A d \in Devices : txn[d].status = "none"
  BY <1>2
<1>4. Kept
  <2>1. Logins
    BY <1>2, <1>3 DEF Logins
  <2>2. Chain /\ Apart /\ Covered /\ Waiting
    BY <1>2 DEF Chain, Apart, Covered, Waiting
  <2>3. Guarded
    BY <1>2, <1>3 DEF Guarded, Open
  <2>4. QED
    BY <2>1, <2>2, <2>3 DEF Kept
<1>5. Sounds
  <2>1. Sound(Idle)
    BY IdleSound DEF Idle
  <2>2. QED
    BY <2>1 DEF Init, Sounds
<1>6. Distinct
  BY DEF Init, Distinct, Idle
<1>7. QED
  BY <1>1, <1>4, <1>5, <1>6 DEF Whole

\* However logins, logouts, renewals, sweeps, lost answers, failed writes and crashes of
\* any number of clients fall together, no certificate a gateway accepts is one that
\* nobody will ever revoke; and of a certificate that was renewed, the operation that
\* can ask for its successor again is kept as long as the successor is accepted
\* (store.rs retire, prune, activate_login, activate_renewal; enrollment_client.rs).
THEOREM NothingIsOrphaned == Spec => []NoOrphan
<1>1. Whole => NoOrphan
  <2> SUFFICES ASSUME Whole PROVE NoOrphan
    OBVIOUS
  <2>1. \A c \in issued : Accepted(c) => Known(c.dev)
    BY DEF Whole, Kept, Guarded
  <2>2. ASSUME NEW r \in renewed, Accepted(r.new)
        PROVE  \/ state.active # None /\ state.active = r.old /\ state.renewal = r.op
               \/ /\ state.active # None /\ state.active.dev = r.new.dev
                  /\ state.active.until >= r.new.until
               \/ \E t \in state.revs : \/ t.cert = r.old /\ t.op = r.op
                                        \/ t.cert.dev = r.new.dev /\ t.cert.until >= r.new.until
    <3>1. /\ r.new.dev = r.old.dev /\ ~ Waited(r.old.dev) /\ r.new \in issued
          /\ r.new.until \in Nat
      BY <2>2, Ranges DEF Whole, Inv, Kept, Chain, Apart
    <3>2. \/ state.active # None /\ state.active.dev = r.old.dev
          \/ \E t \in state.revs : t.cert.dev = r.old.dev
      BY <2>1, <2>2, <3>1 DEF Known
    <3>3. CASE state.active # None /\ state.active.dev = r.old.dev
      <4>1. Covers(state.active, state.renewal) /\ state.active.until \in Nat
        BY <3>3, Ranges DEF Whole, Inv, Kept, Covered
      <4>2. r.new.until <= state.active.until \/ (r.old = state.active /\ r.op = state.renewal)
        BY <3>3, <4>1 DEF Covers
      <4>3. QED
        BY <3>1, <3>3, <4>1, <4>2
    <3>4. ASSUME NEW t \in state.revs, t.cert.dev = r.old.dev
          PROVE  \/ t.cert = r.old /\ t.op = r.op
                 \/ t.cert.dev = r.new.dev /\ t.cert.until >= r.new.until
      <4>1. Covers(t.cert, t.op) /\ t.cert.until \in Nat
        BY Ranges DEF Whole, Inv, Kept, Covered
      <4>2. r.new.until <= t.cert.until \/ (r.old = t.cert /\ r.op = t.op)
        BY <3>4, <4>1 DEF Covers
      <4>3. QED
        BY <3>1, <3>4, <4>1, <4>2
    <3>5. QED
      BY <3>2, <3>3, <3>4
  <2>3. QED
    BY <2>1, <2>2 DEF NoOrphan, Known, Waited
<1>2. Whole /\ [Next]_vars => Whole'
  BY WholeHolds
<1>3. QED
  BY WholeInitially, <1>1, <1>2, PTL DEF Spec

=============================================================================
