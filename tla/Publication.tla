----------------------------- MODULE Publication ------------------------------
(* From a revocation to its refusal: the enrolment server signs revocation lists
   from its decisions, hands each list with the offline root's to the gateways
   over SSH, and believes a list loaded when the gateway says so; devices and
   operators are told "loaded" or "pending".

   The publisher is one loop of one process (Journal keeps it the only writer,
   and the database whole); a gateway has a loader, one at a time, its files and
   nginx.  The service, a loader or nginx may die at any step, a call may be
   given up while it goes on at the other end, a write, a test or a reload may
   fail, and the operator may put any signed root list, or none, in the file.

   A list is signed once for its number, so its number stands for its digest; a
   root list is its place in RootLists, for two may have one number. *)
EXTENDS Integers, Sequences

CONSTANTS N,          \* gateways; the configuration asks for two
          MaxSerials, \* bound on the certificates of the issuing CA
          RootLists,  \* lists the offline root signed: number, revokes, until
          Refresh, Lifetime, Target,  \* an hour, a day and five minutes
          None,
          Budgets     \* how often the clock moves and things fail, in each mix

Gateways == 1..N
Serials == 1..MaxSerials
Roots == DOMAIN RootLists
\* The bounds: certificates, ticks of the clock, questions for the status, steps that fail, deaths
\* of the service or a loader, answers that are late or lost, nginx stopped or
\* reloaded by others, and changes of the root list file.
Kinds == {"certificates", "ticks", "asks", "faults", "crashes", "late", "nginx", "swaps"}
Counts == [Kinds -> Nat]

ASSUME PublicationAssumption ==
  /\ N \in Nat \ {0} /\ MaxSerials \in Nat
  /\ RootLists \in Seq([number: Nat \ {0}, revokes: BOOLEAN, until: Nat])
  /\ RootLists # <<>>
  /\ Refresh \in Nat /\ Lifetime \in Nat \ {0} /\ Target \in Nat
  /\ None \notin Nat
  /\ Budgets \subseteq Counts

VARIABLES now,         \* the clock
          file,        \* the root list in the service's file, 0 if unreadable
          issued,      \* certificates: the serials up to it
          decided,     \* when each was revoked, or None
          lists,       \* crl_publications
          checkpoint,  \* the root list last accepted
          acks,        \* gateway_acknowledgments
          memory,      \* the root list the issuer signs under, 0 if blocked
          pub,         \* the publisher
          sent,        \* calls on their way to each gateway
          high,        \* high-water.json of each gateway
          active,      \* current-crl.pem
          marker,      \* loaded-marker.conf
          running,     \* nginx's generations that accept connections
          newest,      \* the one its master has configured, or None
          loader,      \* gateway-load
          reader,      \* someone who asks for the status
          told,        \* serials a "loaded" covered
          condemned,   \* a root list that revokes the issuer was accepted
          left         \* of the budget

ledger == <<issued, decided, lists, checkpoint, acks>>
service == <<memory, pub>>
nginx == <<running, newest>>
gateways == <<sent, high, active, marker, nginx, loader>>
history == <<told, condemned>>
vars == <<now, file, ledger, service, gateways, reader, history, left>>

Nothing == [list |-> 0, root |-> 0]
Bundles == [list: Nat, root: {0} \union Roots]
Generations == [crl: Bundles, marker: Bundles]
Idle == [pc |-> "idle", bundle |-> Nothing, awaited |-> FALSE,
         old |-> Nothing, oldMarker |-> Nothing, before |-> {}]
Asleep == [pc |-> "idle", at |-> 0, bundle |-> Nothing, next |-> 1,
           loaded |-> FALSE, oldest |-> None]
Off == [pc |-> "off", first |-> FALSE, at |-> 0, bundle |-> Nothing, next |-> 1]

Publishers ==
  [pc: {"off", "idle", "accept", "build", "visit", "wait", "acked"},
   first: BOOLEAN, at: Nat, bundle: Bundles, next: 1..(N + 1)]
Loaders ==
  [pc: {"idle", "install", "mark", "test", "undo", "undomark", "reload", "signal",
        "confirm"},
   bundle: Bundles, awaited: BOOLEAN, old: Bundles, oldMarker: Bundles,
   before: SUBSET Generations]
Readers ==
  [pc: {"idle", "acks", "cover"}, at: Nat, bundle: Bundles, next: 1..(N + 1),
   loaded: BOOLEAN, oldest: Nat \union {None}]
Calls == [bundle: Bundles, awaited: BOOLEAN]
SignedLists == [serials: SUBSET Serials, this: Nat, until: Nat]

\* The publisher works with a root list, and waits for a gateway that exists.
PubOK ==
  /\ pub \in Publishers
  /\ pub.pc \notin {"off", "idle"} => pub.bundle.root \in Roots
  /\ pub.pc \in {"wait", "acked"} => pub.next \in Gateways

TypeOK ==
  /\ now \in Nat /\ file \in {0} \union Roots
  /\ issued \in 0..MaxSerials /\ decided \in [Serials -> Nat \union {None}]
  /\ lists \in Seq(SignedLists)
  /\ checkpoint \in {0} \union Roots /\ memory \in {0} \union Roots
  /\ acks \in [Gateways -> Bundles]
  /\ PubOK
  /\ sent \in [Gateways -> SUBSET Calls]
  /\ high \in [Gateways -> Bundles] /\ active \in [Gateways -> Bundles]
  /\ marker \in [Gateways -> Bundles]
  /\ running \in [Gateways -> SUBSET Generations]
  /\ newest \in [Gateways -> Generations \union {None}]
  /\ loader \in [Gateways -> Loaders]
  /\ reader \in Readers
  /\ told \subseteq Serials /\ condemned \in BOOLEAN
  /\ left \in Counts

\* A fresh installation: the operator has put a root list in place.
Init ==
  /\ now = 0 /\ file = 1
  /\ issued = 0 /\ decided = [s \in Serials |-> None]
  /\ lists = <<>> /\ checkpoint = 0 /\ acks = [g \in Gateways |-> Nothing]
  /\ memory = 0 /\ pub = Off
  /\ sent = [g \in Gateways |-> {}]
  /\ high = [g \in Gateways |-> Nothing]
  /\ active = [g \in Gateways |-> Nothing] /\ marker = [g \in Gateways |-> Nothing]
  /\ running = [g \in Gateways |-> {}] /\ newest = [g \in Gateways |-> None]
  /\ loader = [g \in Gateways |-> Idle]
  /\ reader = Asleep
  /\ told = {} /\ condemned = FALSE
  /\ left \in Budgets

Spend(what) == left[what] > 0 /\ left' = [left EXCEPT ![what] = @ - 1]

Revoked == {s \in Serials : decided[s] # None}

-----------------------------------------------------------------------------
(* Lists. *)

\* ValidateCRL against what was accepted before: a later number, or the same
\* list again; and the revocations it had are retained (revocationsRetained).
Newer(r, prior) ==
  prior # 0 => r = prior \/ RootLists[r].number > RootLists[prior].number

\* Any list with a later number will do.
MutantRetained(r, prior) == TRUE

Retained(r, prior) == prior # 0 => (RootLists[prior].revokes => RootLists[r].revokes)

Acceptable(r, prior, at) ==
  /\ r # 0 /\ RootLists[r].until > at
  /\ Newer(r, prior) /\ Retained(r, prior)

\* rootCheckpoint and issuerAllowed.
IssuerAllowed == checkpoint # 0 => ~RootLists[checkpoint].revokes

Latest == Len(lists)
Valid(n, at) == n \in 1..Latest /\ lists[n].this <= at /\ lists[n].until > at

Least(a, b) == IF a <= b THEN a ELSE b

-----------------------------------------------------------------------------
(* The service. *)

\* The process starts; it serves only after its first publication.
Start ==
  /\ pub.pc = "off"
  /\ pub' = [Off EXCEPT !.pc = "idle", !.first = TRUE]
  /\ memory' = 0
  /\ UNCHANGED <<now, file, ledger, gateways, reader, history, left>>

Serving == pub.pc # "off" /\ ~pub.first

\* Publish ends.  One that fails ends a service that is only starting.
Finish(ok) ==
  pub' = IF pub.first /\ ~ok THEN Off ELSE [Off EXCEPT !.pc = "idle"]

\* Publish reads the root list; maintenance calls it every 30 seconds.
Publish ==
  /\ pub.pc = "idle"
  /\ \/ /\ file = 0
        /\ memory' = 0 /\ Finish(FALSE)
     \/ /\ file # 0
        /\ pub' = [pub EXCEPT !.pc = "accept", !.at = now,
                              !.bundle = [list |-> 0, root |-> file]]
        /\ UNCHANGED memory
  /\ UNCHANGED <<now, file, ledger, gateways, reader, history, left>>

\* acceptRootCRL: a list that revokes the issuer is pinned all the same, and the
\* last list signed goes out with it while it is valid.
AcceptRoot ==
  /\ pub.pc = "accept"
  /\ LET r == pub.bundle.root IN
     \/ /\ \/ ~Acceptable(r, checkpoint, pub.at) /\ UNCHANGED left
           \/ Spend("faults")
        /\ memory' = 0 /\ Finish(FALSE)
        /\ UNCHANGED <<checkpoint, condemned>>
     \/ /\ Acceptable(r, checkpoint, pub.at)
        /\ checkpoint' = r
        /\ condemned' = (condemned \/ RootLists[r].revokes)
        /\ \/ /\ ~RootLists[r].revokes
              /\ pub' = [pub EXCEPT !.pc = "build"]
              /\ UNCHANGED memory
           \/ /\ RootLists[r].revokes /\ Valid(Latest, pub.at)
              /\ pub' = [pub EXCEPT !.pc = "visit", !.bundle.list = Latest]
              /\ memory' = 0
           \/ /\ RootLists[r].revokes /\ ~Valid(Latest, pub.at)
              /\ Finish(FALSE)
              /\ memory' = 0
        /\ UNCHANGED left
  /\ UNCHANGED <<now, file, issued, decided, lists, acks, gateways, reader, told>>

\* The last list is kept while it is young.
MutantReusable == Valid(Latest, pub.at) /\ pub.at < lists[Latest].this + Refresh

\* BuildCRL: the last list while it is young and complete, else the next.
Reusable ==
  /\ Valid(Latest, pub.at)
  /\ pub.at < lists[Latest].this + Refresh
  /\ lists[Latest].serials = Revoked

NewList ==
  [serials |-> Revoked, this |-> pub.at,
   until |-> Least(pub.at + Lifetime, RootLists[pub.bundle.root].until)]

Build ==
  /\ pub.pc = "build"
  /\ \/ /\ \/ ~IssuerAllowed /\ UNCHANGED left
           \/ Spend("faults")
        /\ memory' = 0 /\ Finish(FALSE)
        /\ UNCHANGED lists
     \/ /\ IssuerAllowed
        /\ lists' = IF Reusable THEN lists ELSE Append(lists, NewList)
        /\ memory' = pub.bundle.root
        /\ pub' = [pub EXCEPT !.pc = "visit", !.bundle.list = Len(lists')]
        /\ UNCHANGED left
  /\ UNCHANGED <<now, file, issued, decided, checkpoint, acks, gateways, reader, history>>

\* A gateway that has this very bundle is passed over, the others are called.
Visit ==
  /\ pub.pc = "visit"
  /\ \/ /\ pub.next > N
        /\ Finish(TRUE)
        /\ UNCHANGED sent
     \/ /\ pub.next <= N /\ acks[pub.next] = pub.bundle
        /\ pub' = [pub EXCEPT !.next = @ + 1]
        /\ UNCHANGED sent
     \/ /\ pub.next <= N /\ acks[pub.next] # pub.bundle
        /\ sent' = [sent EXCEPT ![pub.next] =
                      @ \union {[bundle |-> pub.bundle, awaited |-> TRUE]}]
        /\ pub' = [pub EXCEPT !.pc = "wait"]
  /\ UNCHANGED <<now, file, ledger, memory, high, active, marker, nginx, loader, reader,
                 history, left>>

\* Nobody waits any more for what runs at gateway g.
Forsake(g) ==
  /\ sent' = [sent EXCEPT ![g] = {[m EXCEPT !.awaited = FALSE] : m \in @}]
  /\ loader' = [loader EXCEPT ![g].awaited = FALSE]

\* The call ended without an ack, or its twenty seconds are over.
GiveUp ==
  /\ pub.pc = "wait"
  /\ LET g == pub.next IN
     /\ \/ ~loader[g].awaited /\ ~(\E m \in sent[g] : m.awaited) /\ UNCHANGED left
        \/ Spend("late")
     /\ Forsake(g)
     /\ pub' = [pub EXCEPT !.pc = "visit", !.next = g + 1]
  /\ UNCHANGED <<now, file, ledger, memory, high, active, marker, nginx, reader, history>>

\* The ack is recorded unless a later one is known.
RecordAck ==
  /\ pub.pc = "acked"
  /\ LET g == pub.next IN
     \/ /\ acks' = IF pub.bundle.list >= acks[g].list
                     THEN [acks EXCEPT ![g] = pub.bundle] ELSE acks
        /\ pub' = [pub EXCEPT !.pc = "visit", !.next = g + 1]
        /\ UNCHANGED left
     \/ /\ Spend("faults")
        /\ Finish(FALSE)
        /\ UNCHANGED acks
  /\ UNCHANGED <<now, file, issued, decided, lists, checkpoint, memory, gateways, reader,
                 history>>

\* The service dies; its calls go on at the gateways.
ServiceDies ==
  /\ pub.pc # "off"
  /\ Spend("crashes")
  /\ pub' = Off /\ memory' = 0
  /\ sent' = [g \in Gateways |-> {[m EXCEPT !.awaited = FALSE] : m \in sent[g]}]
  /\ loader' = [g \in Gateways |-> [loader[g] EXCEPT !.awaited = FALSE]]
  /\ reader' = Asleep
  /\ UNCHANGED <<now, file, ledger, high, active, marker, nginx, history>>

-----------------------------------------------------------------------------
(* Certificates and their revocation. *)

\* issueAuthorized and renewal: the checkpoint in the transaction, then the
\* issuer's own root list (Ready).
Issue ==
  /\ Serving /\ issued < MaxSerials
  /\ Spend("certificates")
  /\ IssuerAllowed
  /\ memory # 0 /\ RootLists[memory].until > now
  /\ issued' = issued + 1
  /\ UNCHANGED <<now, file, decided, lists, checkpoint, acks, service, gateways, reader,
                 history>>

\* By the device, the administrator or the handover after a renewal.
Revoke(s) ==
  /\ s <= issued /\ decided[s] = None
  /\ decided' = [decided EXCEPT ![s] = now]
  /\ UNCHANGED <<now, file, issued, lists, checkpoint, acks, service, gateways, reader,
                 history, left>>

-----------------------------------------------------------------------------
(* The status: queries, one after the other, between which anything happens. *)

\* The earlier of two decisions.
Sooner(a, b) == IF a = None THEN b ELSE IF b = None THEN a ELSE Least(a, b)

\* revocationCoverage: whether the serials have every decision, and the first that
\* they do not have.
Covered(serials) == Revoked \subseteq serials
Missing(serials) ==
  IF Covered(serials) THEN None
  ELSE LET times == {decided[s] : s \in Revoked \ serials}
       IN  CHOOSE t \in times : \A u \in times : t <= u

\* An answer without lists, or without a readable root list, is an error.
AskStatus ==
  /\ reader.pc = "idle" /\ lists # <<>> /\ file # 0
  /\ Spend("asks")
  /\ reader' = [Asleep EXCEPT
                  !.pc = "acks", !.at = now,
                  !.bundle = [list |-> Latest, root |-> file],
                  !.loaded = lists[Latest].until > now
                             /\ (checkpoint # 0 => RootLists[checkpoint].until > now)]
  /\ UNCHANGED <<now, file, ledger, service, gateways, history>>

ReadAck ==
  /\ reader.pc = "acks" /\ reader.next <= N
  /\ LET ack == acks[reader.next]
         known == IF ack.list \in 1..Latest /\ lists[ack.list].until > reader.at
                    THEN lists[ack.list].serials ELSE {}
     IN  reader' = [reader EXCEPT
                      !.next = @ + 1,
                      !.pc = IF reader.next = N THEN "cover" ELSE "acks",
                      !.loaded = @ /\ ack = reader.bundle,
                      !.oldest = Sooner(@, Missing(known))]
  /\ UNCHANGED <<now, file, ledger, service, gateways, history, left>>

\* The answer: "loaded", or "pending" with or without target_exceeded.
Signed == lists[reader.bundle.list].serials
Loaded == reader.loaded /\ Covered(Signed)

\* An alarm that only looks at what was signed, not at what was loaded.
MutantExceeded ==
  ~Loaded /\ Missing(Signed) # None /\ reader.at - Missing(Signed) > Target

Exceeded ==
  LET oldest == Sooner(reader.oldest, Missing(Signed))
  IN  ~Loaded /\ oldest # None /\ reader.at - oldest > Target

Answer ==
  /\ reader.pc = "cover"
  /\ told' = IF Loaded THEN told \union Revoked ELSE told
  /\ reader' = Asleep
  /\ UNCHANGED <<now, file, ledger, service, gateways, condemned, left>>

-----------------------------------------------------------------------------
(* A gateway's loader. *)

Ends(g) == loader' = [loader EXCEPT ![g] = Idle]
Moves(g, pc) == loader' = [loader EXCEPT ![g].pc = pc]

\* A loader that takes any list that is valid.
MutantLoadable(g, b) == Valid(b.list, now) /\ Acceptable(b.root, high[g].root, now)

\* ApplyGatewayBundle checks the bundle against the high-water mark.
Loadable(g, b) ==
  /\ b.list >= high[g].list /\ Valid(b.list, now)
  /\ Acceptable(b.root, high[g].root, now)

\* A call finds the loader busy, is refused, or raises the high-water mark before
\* anything else.
Take(g, m) ==
  /\ m \in sent[g]
  /\ sent' = [sent EXCEPT ![g] = @ \ {m}]
  /\ \/ /\ loader[g].pc # "idle" \/ ~Loadable(g, m.bundle)
        /\ UNCHANGED <<high, loader, left>>
     \/ /\ loader[g].pc = "idle" /\ Loadable(g, m.bundle)
        /\ high' = [high EXCEPT ![g] = m.bundle]
        /\ loader' = [loader EXCEPT ![g] =
                        [pc |-> "install", bundle |-> m.bundle, awaited |-> m.awaited,
                         old |-> active[g], oldMarker |-> marker[g], before |-> {}]]
        /\ UNCHANGED left
     \/ /\ loader[g].pc = "idle" /\ Loadable(g, m.bundle)
        /\ Spend("faults")
        /\ high' \in {high, [high EXCEPT ![g] = m.bundle]}
        /\ UNCHANGED loader
  /\ UNCHANGED <<now, file, ledger, service, active, marker, nginx, reader, history>>

\* current-crl.pem, both lists in one file, then loaded-marker.conf.
Install(g) ==
  /\ loader[g].pc = "install"
  /\ \/ /\ active' = [active EXCEPT ![g] = loader[g].bundle]
        /\ Moves(g, "mark")
        /\ UNCHANGED left
     \/ /\ Spend("faults")
        /\ active' \in {active, [active EXCEPT ![g] = loader[g].bundle]}
        /\ Ends(g)
  /\ UNCHANGED <<now, file, ledger, service, sent, high, marker, nginx, reader, history>>

InstallMarker(g) ==
  /\ loader[g].pc = "mark"
  /\ \/ /\ marker' = [marker EXCEPT ![g] = loader[g].bundle]
        /\ Moves(g, "test")
        /\ UNCHANGED left
     \/ /\ Spend("faults")
        /\ marker' \in {marker, [marker EXCEPT ![g] = loader[g].bundle]}
        /\ Ends(g)
  /\ UNCHANGED <<now, file, ledger, service, sent, high, active, nginx, reader, history>>

\* nginx -t.
Test(g) ==
  /\ loader[g].pc = "test"
  /\ \/ Moves(g, "reload") /\ UNCHANGED left
     \/ Spend("faults") /\ Moves(g, "undo")
  /\ UNCHANGED <<now, file, ledger, service, sent, high, active, marker, nginx, reader,
                 history>>

\* After a failed test the old files come back, as far as they can be written.
Undo(g) ==
  /\ \/ /\ loader[g].pc = "undo" /\ Moves(g, "undomark")
        /\ \/ active' = [active EXCEPT ![g] = loader[g].old] /\ UNCHANGED left
           \/ Spend("faults") /\ UNCHANGED active
        /\ UNCHANGED marker
     \/ /\ loader[g].pc = "undomark" /\ Ends(g)
        /\ \/ marker' = [marker EXCEPT ![g] = loader[g].oldMarker] /\ UNCHANGED left
           \/ Spend("faults") /\ UNCHANGED marker
        /\ UNCHANGED active
  /\ UNCHANGED <<now, file, ledger, service, sent, high, nginx, reader, history>>

\* nginx reads its files into a new generation of workers; the older ones go on
\* accepting for a while.
Generation(b, m) == [crl |-> b, marker |-> m]
Configure(g) ==
  LET x == Generation(active[g], marker[g])
  IN  running' = [running EXCEPT ![g] = @ \union {x}] /\ newest' = [newest EXCEPT ![g] = x]

\* Reload first lists the generations that accept connections.
Reload(g) ==
  /\ loader[g].pc = "reload"
  /\ \/ /\ running[g] # {}
        /\ loader' = [loader EXCEPT ![g].pc = "signal", ![g].before = running[g]]
        /\ UNCHANGED left
     \/ /\ \/ running[g] = {} /\ UNCHANGED left
           \/ Spend("faults")
        /\ Ends(g)
  /\ UNCHANGED <<now, file, ledger, service, sent, high, active, marker, nginx, reader,
                 history>>

\* Then it signals nginx, which may have ended or changed meanwhile.  It may fail
\* before the signal or after it.
Signal(g) ==
  /\ loader[g].pc = "signal"
  /\ \/ /\ running[g] # {}
        /\ Configure(g)
        /\ \/ Moves(g, "confirm") /\ UNCHANGED left
           \/ Ends(g) /\ Spend("faults")
     \/ /\ \/ running[g] = {} /\ UNCHANGED left
           \/ Spend("faults")
        /\ Ends(g)
        /\ UNCHANGED nginx
  /\ UNCHANGED <<now, file, ledger, service, sent, high, active, marker, reader, history>>

\* waitNginxWorkersRetired: of the generations before, none accepts connections
\* unless it is the same.
Retired(g) ==
  running[g] \intersect loader[g].before
    \subseteq {Generation(loader[g].bundle, loader[g].bundle)}

\* A fresh connection sees the marker of the bundle, the file is still the one
\* installed: the gateway acknowledges.  Or its time is over.
Confirm(g) ==
  /\ loader[g].pc = "confirm"
  /\ \/ /\ Retired(g)
        /\ \E x \in running[g] : x.marker = loader[g].bundle
        /\ active[g] = loader[g].bundle
        /\ pub' = IF loader[g].awaited THEN [pub EXCEPT !.pc = "acked"] ELSE pub
        /\ UNCHANGED left
     \/ /\ \/ running[g] = {} /\ UNCHANGED left
           \/ Spend("late")
        /\ UNCHANGED pub
  /\ Ends(g)
  /\ UNCHANGED <<now, file, ledger, memory, sent, high, active, marker, nginx, reader,
                 history>>

LoaderDies(g) ==
  /\ loader[g].pc # "idle"
  /\ Spend("crashes")
  /\ Ends(g)
  /\ UNCHANGED <<now, file, ledger, service, sent, high, active, marker, nginx, reader,
                 history>>

-----------------------------------------------------------------------------
(* nginx, the operator and the clock. *)

\* Older generations stop accepting, one after the other.
Retire(g) ==
  /\ \E x \in running[g] \ {newest[g]} : running' = [running EXCEPT ![g] = @ \ {x}]
  /\ UNCHANGED <<now, file, ledger, service, sent, high, active, marker, newest, loader,
                 reader, history, left>>

\* nginx does not start, or reload, without its files.
Configured(g) == active[g] # Nothing /\ marker[g] # Nothing

NginxStarts(g) ==
  /\ running[g] = {} /\ Configured(g)
  /\ Configure(g)
  /\ UNCHANGED <<now, file, ledger, service, sent, high, active, marker, loader, reader,
                 history, left>>

\* It ends, or somebody else has it read its files.
NginxActs(g) ==
  /\ running[g] # {}
  /\ Spend("nginx")
  /\ \/ running' = [running EXCEPT ![g] = {}] /\ newest' = [newest EXCEPT ![g] = None]
     \/ Configured(g) /\ Configure(g)
  /\ UNCHANGED <<now, file, ledger, service, sent, high, active, marker, loader, reader,
                 history>>

\* The operator replaces, or breaks, the root list in the file.
Swap ==
  /\ Spend("swaps")
  /\ file' \in ({0} \union Roots) \ {file}
  /\ UNCHANGED <<now, ledger, service, gateways, reader, history>>

Tick ==
  /\ Spend("ticks")
  /\ now' = now + 1
  /\ UNCHANGED <<file, ledger, service, gateways, reader, history>>

-----------------------------------------------------------------------------
Serve == Start \/ Publish \/ AcceptRoot \/ Build \/ Visit \/ GiveUp \/ RecordAck
Load(g) ==
  \/ Install(g) \/ InstallMarker(g) \/ Test(g) \/ Undo(g)
  \/ Reload(g) \/ Signal(g) \/ Confirm(g)

Next ==
  \/ Serve \/ ServiceDies \/ Swap \/ Tick
  \/ Issue \/ (\E s \in Serials : Revoke(s))
  \/ AskStatus \/ ReadAck \/ Answer
  \/ \E g \in Gateways :
       \/ Load(g) \/ LoaderDies(g) \/ Retire(g) \/ NginxStarts(g) \/ NginxActs(g)
       \/ \E m \in sent[g] : Take(g, m)

Spec == Init /\ [][Next]_vars

\* The service is restarted, its maintenance goes on; loaders and nginx do their
\* work.
FairSpec ==
  /\ Spec
  /\ WF_vars(Serve)
  /\ \A g \in Gateways :
       WF_vars(Load(g) \/ Retire(g)) /\ WF_vars(\E m \in sent[g] : Take(g, m))

-----------------------------------------------------------------------------
(* Properties *)

\* nginx refuses a certificate on one of its lists, any certificate when a list
\* has expired, and any certificate of an issuer the root revoked.
RefusedBy(b, s) ==
  \/ s \in lists[b.list].serials \/ lists[b.list].until <= now
  \/ RootLists[b.root].until <= now \/ RootLists[b.root].revokes
Refuses(g, s) == \A x \in running[g] : RefusedBy(x.crl, s)

\* b has what a has, or later lists that keep its revocations.
AtLeast(b, a) ==
  /\ a.list <= b.list
  /\ a.root # 0 => b.root # 0 /\ Newer(b.root, a.root) /\ Retained(b.root, a.root)

\* An ack is true for good: whatever accepts connections at that gateway, now or
\* after any crash, has at least the lists of the ack.
AcksAreTrue == \A g \in Gateways : \A x \in running[g] : AtLeast(x.crl, acks[g])

\* What was once reported loaded no gateway ever accepts again.
RevokedStaysRefused == \A s \in told, g \in Gateways : Refuses(g, s)

\* A status without target_exceeded, whether "loaded" or "pending", means that
\* every revocation older than the target is refused at every gateway.
DelayIsReported ==
  reader.pc = "cover" /\ ~Exceeded =>
    \A s \in Revoked, g \in Gateways : reader.at - decided[s] > Target => Refuses(g, s)

\* Once a root list that revokes the issuer was accepted nothing is issued any
\* more, and a gateway that acknowledged it accepts nobody any more, whatever
\* root lists follow and whoever restarts.
IssuerStaysRevoked ==
  [][/\ condemned => issued' = issued
     /\ \A g \in Gateways :
          acks[g].root # 0 /\ RootLists[acks[g].root].revokes =>
            \A x \in running'[g] : RootLists[x.crl.root].revokes]_vars

\* While the file holds a root list that may be accepted every revocation gets to
\* every gateway.
RevocationsArrive ==
  <>[]Acceptable(file, checkpoint, now) =>
    \A s \in Serials : s \in Revoked ~> \A g \in Gateways : Refuses(g, s)

=============================================================================
