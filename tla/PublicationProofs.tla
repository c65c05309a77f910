--------------------------- MODULE PublicationProofs --------------------------
(* Theorems about Publication: for any number of gateways and certificates, any
   root lists, refresh and lifetime, and any budget of failures. *)
EXTENDS Publication, WellFoundedInduction, TLAPS

-----------------------------------------------------------------------------
(* The inductive invariant. *)

\* Serials stay on every later list, and only revoked ones are listed.
ListsGrow ==
  /\ \A i \in 1..Latest : lists[i].serials \subseteq Revoked
  /\ \A i, j \in 1..Latest : i <= j => lists[i].serials \subseteq lists[j].serials

\* What a gateway uses was signed.
Signedness ==
  \A g \in Gateways :
    /\ high[g].list <= Latest /\ active[g].list <= Latest
    /\ loader[g].pc # "idle" => loader[g].old.list <= Latest
    /\ \A x \in running[g] : x.crl.list <= Latest

\* Whatever is awaited is what the publisher waits for, and it is in one place.
Awaited(g, b) == pub.pc = "wait" /\ pub.next = g /\ pub.bundle = b
CallsMatch ==
  \A g \in Gateways :
    /\ \A m \in sent[g] : m.awaited => Awaited(g, m.bundle)
    /\ loader[g].awaited =>
         /\ loader[g].pc # "idle" /\ Awaited(g, loader[g].bundle)
         /\ \A m \in sent[g] : ~m.awaited

\* How far a loader is, and what it has written.
Wrote(g) ==
  /\ loader[g].pc # "idle" => high[g] = loader[g].bundle
  /\ loader[g].pc \in {"mark", "test", "reload", "signal", "confirm"} =>
       active[g] = loader[g].bundle
  /\ loader[g].pc \in {"test", "reload", "signal", "confirm"} => marker[g] = loader[g].bundle
  /\ loader[g].pc \in {"signal", "confirm"} =>
       running[g] \subseteq loader[g].before
                            \union {Generation(loader[g].bundle, loader[g].bundle)}
LoaderWrote == \A g \in Gateways : Wrote(g)

\* A gateway has what it acknowledged, or says so in an answer on its way, in every
\* place from which nginx may ever read.
Held(g, a) ==
  /\ AtLeast(high[g], a) /\ AtLeast(active[g], a)
  /\ loader[g].pc # "idle" => AtLeast(loader[g].old, a)
  /\ \A x \in running[g] : AtLeast(x.crl, a)
ClaimsHeld ==
  /\ \A g \in Gateways : Held(g, acks[g])
  /\ pub.pc = "acked" => Held(pub.next, pub.bundle)

\* What a reader has seen acknowledged stays so; what was told rests on acks.
ReaderRight ==
  /\ reader.pc # "idle" => reader.bundle.list \in 1..Latest
  /\ reader.pc # "idle" /\ reader.loaded =>
       \A g \in Gateways : g < reader.next => reader.bundle.list <= acks[g].list
  /\ reader.pc = "cover" => reader.next = N + 1

\* The checkpoint never forgets that the issuer was revoked.
CondemnedRight == condemned => checkpoint # 0 /\ RootLists[checkpoint].revokes

ToldRight ==
  \A s \in told, g \in Gateways :
    acks[g].list \in 1..Latest /\ s \in lists[acks[g].list].serials

IInv ==
  /\ TypeOK /\ ListsGrow /\ Signedness /\ CallsMatch /\ LoaderWrote /\ ClaimsHeld
  /\ ReaderRight /\ ToldRight /\ CondemnedRight

-----------------------------------------------------------------------------
(* Types *)

LEMMA Constants ==
  /\ Nothing \in Bundles /\ Roots \subseteq Nat \ {0}
  /\ Gateways \subseteq Nat /\ 1 \in 1..(N + 1) /\ N \in Nat
  /\ \A r \in Roots : /\ RootLists[r].number \in Nat /\ RootLists[r].until \in Nat
                      /\ RootLists[r].revokes \in BOOLEAN
  /\ Nat \union {None} # {}
<1>1. Nothing \in Bundles
  BY DEF Bundles, Nothing
<1>2. Roots \subseteq Nat \ {0} /\ Roots = 1..Len(RootLists)
  BY PublicationAssumption DEF Roots
<1>3. Gateways \subseteq Nat /\ 1 \in 1..(N + 1) /\ N \in Nat
  BY PublicationAssumption DEF Gateways
<1>4. ASSUME NEW r \in Roots
      PROVE  /\ RootLists[r].number \in Nat /\ RootLists[r].until \in Nat
             /\ RootLists[r].revokes \in BOOLEAN
  <2>1. RootLists \in Seq([number: Nat \ {0}, revokes: BOOLEAN, until: Nat])
    BY PublicationAssumption
  <2> DEFINE S == [number: Nat \ {0}, revokes: BOOLEAN, until: Nat]
  <2>2. RootLists[r] \in S
    <3>1. RootLists \in Seq(S)
      BY <2>1
    <3> HIDE DEF S
    <3> QED
      BY <3>1, <1>2
  <2> QED
    BY <2>2
<1> QED
  BY <1>1, <1>2, <1>3, <1>4

\* Spending keeps the budget a budget.
LEMMA SpendType ==
  ASSUME left \in Counts, NEW what \in Kinds, Spend(what)
  PROVE  left' \in Counts
BY DEF Spend, Counts

\* The resting states are well typed.
LEMMA RestType == Off \in Publishers /\ Idle \in Loaders /\ Asleep \in Readers
<1>1. Off \in Publishers
  BY Constants DEF Off, Publishers
<1>2. Idle \in Loaders
  BY Constants DEF Idle, Loaders
<1>3. Asleep \in Readers
  BY Constants DEF Asleep, Readers
<1> QED
  BY <1>1, <1>2, <1>3

\* The publisher's end is well typed.
LEMMA FinishType ==
  ASSUME NEW ok \in BOOLEAN, Finish(ok)
  PROVE  pub' \in Publishers /\ pub'.pc \in {"off", "idle"}
BY RestType DEF Finish, Off, Publishers

\* A loader's next state is well typed when its fields are.
LEMMA LoaderType ==
  ASSUME loader \in [Gateways -> Loaders], NEW g \in Gateways,
         NEW pc \in {"idle", "install", "mark", "test", "undo", "undomark", "reload",
                     "signal", "confirm"}
  PROVE  /\ Ends(g) => loader' \in [Gateways -> Loaders]
         /\ Moves(g, pc) => loader' \in [Gateways -> Loaders]
<1>1. Ends(g) => loader' \in [Gateways -> Loaders]
  BY RestType DEF Ends
<1>2. Moves(g, pc) => loader' \in [Gateways -> Loaders]
  BY DEF Moves, Loaders
<1> QED
  BY <1>1, <1>2

LEMMA ForsakeType ==
  ASSUME loader \in [Gateways -> Loaders], sent \in [Gateways -> SUBSET Calls],
         NEW g \in Gateways, Forsake(g)
  PROVE  loader' \in [Gateways -> Loaders] /\ sent' \in [Gateways -> SUBSET Calls]
BY ZenonT(30) DEF Forsake, Loaders, Calls

LEMMA ConfigureType ==
  ASSUME TypeOK, NEW g \in Gateways, Configure(g)
  PROVE  /\ running' \in [Gateways -> SUBSET Generations]
         /\ newest' \in [Gateways -> Generations \union {None}]
<1>1. Generation(active[g], marker[g]) \in Generations
  BY DEF TypeOK, Generation, Generations
<1> QED
  BY <1>1 DEF TypeOK, Configure

LEMMA ServeType ==
  ASSUME TypeOK, Serve
  PROVE  TypeOK'
<1> USE Constants DEF ledger, service, gateways, nginx, history, PubOK
<1>1. CASE Start
  <2>1. PubOK' /\ memory' \in {0} \union Roots
    BY <1>1, RestType DEF Start, Off, Publishers
  <2> QED
    BY <1>1, <2>1 DEF Start, TypeOK
<1>2. CASE Publish
  <2>1. PubOK' /\ memory' \in {0} \union Roots
    <3>1. CASE file = 0 /\ memory' = 0 /\ Finish(FALSE)
      BY <3>1, FinishType
    <3>2. CASE file # 0 /\ UNCHANGED memory
               /\ pub' = [pub EXCEPT !.pc = "accept", !.at = now,
                                     !.bundle = [list |-> 0, root |-> file]]
      <4>1. [list |-> 0, root |-> file] \in Bundles
        BY <3>2 DEF TypeOK, Bundles
      <4> QED
        BY <3>2, <4>1 DEF TypeOK, Publishers
    <3> QED
      BY <1>2, <3>1, <3>2 DEF Publish
  <2> QED
    BY <1>2, <2>1 DEF Publish, TypeOK
<1>3. CASE AcceptRoot
  <2>0. pub \in Publishers /\ pub.bundle \in Bundles /\ pub.bundle.root \in {0} \union Roots
    BY DEF TypeOK, Publishers, Bundles
  <2>1. left' \in Counts
    BY <1>3, SpendType DEF AcceptRoot, TypeOK, Kinds
  <2>2. /\ PubOK' /\ memory' \in {0} \union Roots
        /\ checkpoint' \in {0} \union Roots /\ condemned' \in BOOLEAN
    <3>1. CASE memory' = 0 /\ Finish(FALSE) /\ UNCHANGED <<checkpoint, condemned>>
      BY <3>1, FinishType DEF TypeOK
    <3>2. CASE /\ Acceptable(pub.bundle.root, checkpoint, pub.at)
               /\ checkpoint' = pub.bundle.root
               /\ condemned' = (condemned \/ RootLists[pub.bundle.root].revokes)
      <4>1. pub.bundle.root \in Roots
        BY <2>0, <3>2 DEF Acceptable
      <4>2. RootLists[pub.bundle.root].revokes \in BOOLEAN
        BY <4>1
      <4>3. checkpoint' \in {0} \union Roots /\ condemned' \in BOOLEAN
        BY <3>2, <4>1, <4>2 DEF TypeOK
      <4>4. CASE pub' = [pub EXCEPT !.pc = "build"] /\ UNCHANGED memory
        BY <2>0, <4>1, <4>3, <4>4 DEF TypeOK, Publishers
      <4>5. CASE pub' = [pub EXCEPT !.pc = "visit", !.bundle.list = Latest] /\ memory' = 0
        <5>1. Latest \in Nat
          BY DEF TypeOK, Latest
        <5>2. [pub.bundle EXCEPT !.list = Latest] \in Bundles
          BY <2>0, <5>1 DEF Bundles
        <5>3. /\ pub'.bundle = [pub.bundle EXCEPT !.list = Latest]
              /\ pub' \in Publishers /\ pub'.pc = "visit"
          BY <2>0, <4>5, <5>2 DEF Publishers
        <5> QED
          BY <2>0, <4>1, <4>3, <4>5, <5>3 DEF Bundles
      <4>6. CASE Finish(FALSE) /\ memory' = 0
        BY <4>3, <4>6, FinishType
      <4> QED
        BY <1>3, <3>2, <4>4, <4>5, <4>6 DEF AcceptRoot
    <3> QED
      BY <1>3, <3>1, <3>2 DEF AcceptRoot
  <2> QED
    BY <1>3, <2>1, <2>2 DEF AcceptRoot, TypeOK
<1>4. CASE Build
  <2>0. pub \in Publishers /\ pub.bundle \in Bundles /\ pub.bundle.root \in Roots
    BY <1>4 DEF TypeOK, Publishers, Bundles, Build
  <2>1. left' \in Counts
    BY <1>4, SpendType DEF Build, TypeOK, Kinds
  <2>2. /\ PubOK' /\ memory' \in {0} \union Roots /\ lists' \in Seq(SignedLists)
    <3>1. CASE memory' = 0 /\ Finish(FALSE) /\ UNCHANGED lists
      BY <3>1, FinishType DEF TypeOK
    <3>2. CASE /\ lists' = IF Reusable THEN lists ELSE Append(lists, NewList)
               /\ memory' = pub.bundle.root
               /\ pub' = [pub EXCEPT !.pc = "visit", !.bundle.list = Len(lists')]
      <4>1. NewList \in SignedLists
        <5>1. RootLists[pub.bundle.root].until \in Nat /\ Lifetime \in Nat /\ pub.at \in Nat
          BY <2>0, PublicationAssumption DEF Publishers
        <5> QED
          BY <5>1, <2>0 DEF NewList, SignedLists, Revoked, Least, TypeOK, Publishers
      <4>2. lists' \in Seq(SignedLists) /\ Len(lists') \in Nat
        BY <3>2, <4>1 DEF TypeOK
      <4>3. [pub.bundle EXCEPT !.list = Len(lists')] \in Bundles
        BY <2>0, <4>2 DEF Bundles
      <4>4. /\ pub'.bundle = [pub.bundle EXCEPT !.list = Len(lists')]
            /\ pub' \in Publishers /\ pub'.pc = "visit"
        BY <2>0, <3>2, <4>3 DEF Publishers
      <4> QED
        BY <2>0, <3>2, <4>2, <4>4 DEF Bundles
    <3> QED
      BY <1>4, <3>1, <3>2 DEF Build
  <2> QED
    BY <1>4, <2>1, <2>2 DEF Build, TypeOK
<1>5. CASE Visit
  <2>0. pub \in Publishers /\ pub.bundle \in Bundles /\ pub.bundle.root \in Roots
    BY <1>5 DEF TypeOK, Publishers, Visit
  <2>1. PubOK' /\ sent' \in [Gateways -> SUBSET Calls]
    <3>1. CASE Finish(TRUE) /\ UNCHANGED sent
      BY <3>1, FinishType DEF TypeOK
    <3>2. CASE pub.next <= N /\ pub' = [pub EXCEPT !.next = @ + 1] /\ UNCHANGED sent
      <4>1. pub.next + 1 \in 1..(N + 1)
        BY <2>0, <3>2 DEF Publishers
      <4>2. pub'.bundle = pub.bundle /\ pub'.pc = "visit" /\ pub' \in Publishers
        BY <1>5, <2>0, <3>2, <4>1 DEF Publishers, Visit
      <4> QED
        BY <2>0, <3>2, <4>2 DEF TypeOK
    <3>3. CASE /\ pub.next <= N
               /\ sent' = [sent EXCEPT ![pub.next] =
                             @ \union {[bundle |-> pub.bundle, awaited |-> TRUE]}]
               /\ pub' = [pub EXCEPT !.pc = "wait"]
      <4>1. [bundle |-> pub.bundle, awaited |-> TRUE] \in Calls
        BY <2>0 DEF Calls
      <4>2. sent' \in [Gateways -> SUBSET Calls]
        BY <3>3, <4>1 DEF TypeOK
      <4>3. /\ pub'.bundle = pub.bundle /\ pub'.pc = "wait" /\ pub'.next = pub.next
            /\ pub' \in Publishers /\ pub.next \in Gateways
        BY <2>0, <3>3 DEF Publishers, Gateways
      <4> QED
        BY <2>0, <4>2, <4>3
    <3> QED
      BY <1>5, <3>1, <3>2, <3>3 DEF Visit
  <2> QED
    BY <1>5, <2>1 DEF Visit, TypeOK
<1>6. CASE GiveUp
  <2>0. pub \in Publishers /\ pub.bundle.root \in Roots /\ pub.next \in Gateways
    BY <1>6 DEF TypeOK, GiveUp
  <2>1. left' \in Counts
    BY <1>6, SpendType DEF GiveUp, TypeOK, Kinds
  <2>2. loader' \in [Gateways -> Loaders] /\ sent' \in [Gateways -> SUBSET Calls]
    BY <1>6, <2>0, ForsakeType DEF GiveUp, TypeOK
  <2>3. PubOK'
    <3>1. pub.next + 1 \in 1..(N + 1)
      BY <2>0 DEF Gateways
    <3>2. pub'.bundle = pub.bundle /\ pub'.pc = "visit" /\ pub' \in Publishers
      BY <1>6, <2>0, <3>1 DEF GiveUp, Publishers
    <3> QED
      BY <2>0, <3>2
  <2> QED
    BY <1>6, <2>1, <2>2, <2>3 DEF GiveUp, TypeOK
<1>7. CASE RecordAck
  <2>0. pub \in Publishers /\ pub.bundle \in Bundles /\ pub.bundle.root \in Roots
        /\ pub.next \in Gateways
    BY <1>7 DEF TypeOK, RecordAck, Publishers
  <2>1. left' \in Counts
    BY <1>7, SpendType DEF RecordAck, TypeOK, Kinds
  <2>2. acks' \in [Gateways -> Bundles]
    BY <1>7, <2>0 DEF RecordAck, TypeOK
  <2>3. PubOK'
    <3>1. CASE pub' = [pub EXCEPT !.pc = "visit", !.next = pub.next + 1]
      <4>1. pub.next + 1 \in 1..(N + 1)
        BY <2>0 DEF Gateways
      <4>2. pub'.bundle = pub.bundle /\ pub'.pc = "visit" /\ pub' \in Publishers
        BY <2>0, <3>1, <4>1 DEF Publishers
      <4> QED
        BY <2>0, <4>2
    <3>2. CASE Finish(FALSE)
      BY <3>2, FinishType
    <3> QED
      BY <1>7, <3>1, <3>2 DEF RecordAck
  <2> QED
    BY <1>7, <2>1, <2>2, <2>3 DEF RecordAck, TypeOK
<1> QED
  BY <1>1, <1>2, <1>3, <1>4, <1>5, <1>6, <1>7 DEF Serve

LEMMA DecideType ==
  ASSUME TypeOK, ServiceDies \/ Swap \/ Tick \/ Issue \/ \E s \in Serials : Revoke(s)
  PROVE  TypeOK'
<1> USE Constants DEF ledger, service, gateways, nginx, history, PubOK
<1>0. left \in Counts
  BY DEF TypeOK
<1>1. CASE ServiceDies
  <2>1. left' \in Counts
    BY <1>0, <1>1, SpendType DEF ServiceDies, Kinds
  <2>2. sent' \in [Gateways -> SUBSET Calls] /\ loader' \in [Gateways -> Loaders]
    <3>1. \A m \in Calls : [m EXCEPT !.awaited = FALSE] \in Calls
      BY DEF Calls
    <3>2. \A g \in Gateways : {[m EXCEPT !.awaited = FALSE] : m \in sent[g]} \subseteq Calls
      BY <3>1 DEF TypeOK
    <3>3. \A g \in Gateways : [loader[g] EXCEPT !.awaited = FALSE] \in Loaders
      BY ZenonT(30) DEF TypeOK, Loaders
    <3> QED
      BY <1>1, <3>2, <3>3 DEF ServiceDies
  <2>3. PubOK' /\ reader' \in Readers
    BY <1>1, RestType DEF ServiceDies, Off
  <2> QED
    BY <1>1, <2>1, <2>2, <2>3 DEF ServiceDies, TypeOK
<1>2. CASE Swap
  <2>1. left' \in Counts
    BY <1>0, <1>2, SpendType DEF Swap, Kinds
  <2> QED
    BY <1>2, <2>1 DEF Swap, TypeOK
<1>3. CASE Tick
  <2>1. left' \in Counts
    BY <1>0, <1>3, SpendType DEF Tick, Kinds
  <2> QED
    BY <1>3, <2>1 DEF Tick, TypeOK
<1>4. CASE Issue
  <2>1. left' \in Counts
    BY <1>0, <1>4, SpendType DEF Issue, Kinds
  <2>2. issued' \in 0..MaxSerials
    BY <1>4, PublicationAssumption DEF Issue, TypeOK
  <2> QED
    BY <1>4, <2>1, <2>2 DEF Issue, TypeOK
<1>5. CASE \E s \in Serials : Revoke(s)
  BY <1>5 DEF Revoke, TypeOK
<1> QED
  BY <1>1, <1>2, <1>3, <1>4, <1>5

\* Of times there is a first.
LEMMA LeastTime ==
  ASSUME NEW times, times \subseteq Nat, times # {}
  PROVE  \E t \in times : \A u \in times : t <= u
<1> DEFINE R == OpToRel(<, Nat)
<1>1. IsWellFoundedOn(R, Nat)
  BY NatLessThanWellFounded
<1>2. PICK t \in times : \A u \in times : <<u, t>> \notin R
  <2> HIDE DEF R
  <2> QED
    BY <1>1, WFMin
<1>3. ASSUME NEW u \in times
      PROVE  t <= u
  <2>1. t \in Nat /\ u \in Nat
    OBVIOUS
  <2>2. u < t => <<u, t>> \in R
    BY <2>1 DEF OpToRel
  <2>3. <<u, t>> \notin R
    BY <1>2
  <2> HIDE DEF R
  <2> QED
    BY <2>1, <2>2, <2>3
<1> QED
  BY <1>3


\* The first missing decision is no later than that of any serial missing.
LEMMA MissingFirst ==
  ASSUME TypeOK, NEW serials, NEW s \in Revoked, s \notin serials
  PROVE  Missing(serials) \in Nat /\ Missing(serials) <= decided[s] /\ decided[s] \in Nat
<1> DEFINE times == {decided[r] : r \in Revoked \ serials}
<1>1. times \subseteq Nat /\ decided[s] \in times
  BY DEF Revoked, TypeOK
<1>2. PICK t \in times : \A u \in times : t <= u
  <2> HIDE DEF times
  <2> QED
    BY <1>1, LeastTime
<1>3. Missing(serials) = CHOOSE v \in times : \A u \in times : v <= u
  BY DEF Missing, Covered
<1>4. Missing(serials) \in times /\ \A u \in times : Missing(serials) <= u
  <2> HIDE DEF times
  <2> QED
    BY <1>2, <1>3
<1> QED
  BY <1>1, <1>4

\* The first missing decision is a time when there is one.
LEMMA MissingType ==
  ASSUME TypeOK, NEW serials
  PROVE  Missing(serials) \in Nat \union {None}
<1>1. CASE Covered(serials)
  BY <1>1 DEF Missing
<1>2. CASE ~Covered(serials)
  <2>1. PICK s \in Revoked : s \notin serials
    BY <1>2 DEF Covered
  <2> QED
    BY <2>1, MissingFirst
<1> QED
  BY <1>1, <1>2

LEMMA ReaderType ==
  ASSUME TypeOK, AskStatus \/ ReadAck \/ Answer
  PROVE  TypeOK'
<1> USE Constants DEF ledger, service, gateways, nginx, history, PubOK
<1>0. left \in Counts
  BY DEF TypeOK
<1>1. CASE AskStatus
  <2>1. left' \in Counts
    BY <1>0, <1>1, SpendType DEF AskStatus, Kinds
  <2>2. reader' \in Readers
    <3>1. [list |-> Latest, root |-> file] \in Bundles
      BY DEF TypeOK, Bundles, Latest
    <3>2. (lists[Latest].until > now
            /\ (checkpoint # 0 => RootLists[checkpoint].until > now)) \in BOOLEAN
      OBVIOUS
    <3> QED
      BY <1>1, <3>1, <3>2, RestType DEF AskStatus, Readers, Asleep, TypeOK
  <2> QED
    BY <1>1, <2>1, <2>2 DEF AskStatus, TypeOK
<1>2. CASE ReadAck
  <2> DEFINE ack == acks[reader.next]
             known == IF ack.list \in 1..Latest /\ lists[ack.list].until > reader.at
                        THEN lists[ack.list].serials ELSE {}
  <2>1. reader \in Readers /\ reader.next \in Nat /\ reader.next + 1 \in 1..(N + 1)
    BY <1>2 DEF ReadAck, Readers, TypeOK
  <2>2. Missing(known) \in Nat \union {None}
    BY MissingType
  <2>3. Sooner(reader.oldest, Missing(known)) \in Nat \union {None}
    BY <2>1, <2>2 DEF Sooner, Least, Readers
  <2>4. reader' = [reader EXCEPT
                     !.next = @ + 1,
                     !.pc = IF reader.next = N THEN "cover" ELSE "acks",
                     !.loaded = @ /\ ack = reader.bundle,
                     !.oldest = Sooner(@, Missing(known))]
    BY <1>2 DEF ReadAck
  <2>5. reader' \in Readers
    <3> HIDE DEF ack, known
    <3>1. (reader.loaded /\ ack = reader.bundle) \in BOOLEAN
      OBVIOUS
    <3> QED
      BY <2>1, <2>3, <2>4, <3>1 DEF Readers
  <2> QED
    BY <1>2, <2>5 DEF ReadAck, TypeOK
<1>3. CASE Answer
  <2>1. told' \subseteq Serials
    BY <1>3 DEF Answer, TypeOK, Revoked
  <2> QED
    BY <1>3, <2>1, RestType DEF Answer, TypeOK
<1> QED
  BY <1>1, <1>2, <1>3

LEMMA GatewayType ==
  ASSUME TypeOK, CallsMatch, NEW g \in Gateways,
         \/ Load(g) \/ LoaderDies(g) \/ Retire(g) \/ NginxStarts(g) \/ NginxActs(g)
         \/ \E m \in sent[g] : Take(g, m)
  PROVE  TypeOK'
<1> USE Constants DEF ledger, service, gateways, nginx, history, PubOK
<1>0. /\ left \in Counts /\ loader \in [Gateways -> Loaders] /\ loader[g] \in Loaders
      /\ loader[g].bundle \in Bundles /\ loader[g].old \in Bundles
      /\ loader[g].oldMarker \in Bundles
      /\ active \in [Gateways -> Bundles] /\ marker \in [Gateways -> Bundles]
  BY DEF TypeOK, Loaders
<1>1. CASE Install(g)
  <2>1. left' \in Counts
    BY <1>0, <1>1, SpendType DEF Install, Kinds
  <2>2. active' \in [Gateways -> Bundles] /\ loader' \in [Gateways -> Loaders]
    BY <1>0, <1>1, LoaderType DEF Install
  <2> QED
    BY <1>1, <2>1, <2>2 DEF Install, TypeOK
<1>2. CASE InstallMarker(g)
  <2>1. left' \in Counts
    BY <1>0, <1>2, SpendType DEF InstallMarker, Kinds
  <2>2. marker' \in [Gateways -> Bundles] /\ loader' \in [Gateways -> Loaders]
    BY <1>0, <1>2, LoaderType DEF InstallMarker
  <2> QED
    BY <1>2, <2>1, <2>2 DEF InstallMarker, TypeOK
<1>3. CASE Test(g)
  <2>1. left' \in Counts
    BY <1>0, <1>3, SpendType DEF Test, Kinds
  <2>2. loader' \in [Gateways -> Loaders]
    BY <1>0, <1>3, LoaderType DEF Test
  <2> QED
    BY <1>3, <2>1, <2>2 DEF Test, TypeOK
<1>4. CASE Undo(g)
  <2>1. left' \in Counts
    BY <1>0, <1>4, SpendType DEF Undo, Kinds
  <2>2. /\ active' \in [Gateways -> Bundles] /\ marker' \in [Gateways -> Bundles]
        /\ loader' \in [Gateways -> Loaders]
    BY <1>0, <1>4, LoaderType DEF Undo
  <2> QED
    BY <1>4, <2>1, <2>2 DEF Undo, TypeOK
<1>5. CASE Reload(g)
  <2>1. left' \in Counts
    BY <1>0, <1>5, SpendType DEF Reload, Kinds
  <2>2. loader' \in [Gateways -> Loaders]
    <3>1. CASE loader' = [loader EXCEPT ![g].pc = "signal", ![g].before = running[g]]
      <4>1. running[g] \subseteq Generations
        BY DEF TypeOK
      <4>2. [loader[g] EXCEPT !.pc = "signal", !.before = running[g]] \in Loaders
        BY <1>0, <4>1 DEF Loaders
      <4> QED
        BY <1>0, <3>1, <4>2
    <3> QED
      BY <1>0, <1>5, <3>1, LoaderType DEF Reload
  <2> QED
    BY <1>5, <2>1, <2>2 DEF Reload, TypeOK
<1>5a. CASE Signal(g)
  <2>1. left' \in Counts
    BY <1>0, <1>5a, SpendType DEF Signal, Kinds
  <2>2. loader' \in [Gateways -> Loaders]
    BY <1>0, <1>5a, LoaderType DEF Signal
  <2>3. /\ running' \in [Gateways -> SUBSET Generations]
        /\ newest' \in [Gateways -> Generations \union {None}]
    BY <1>5a, ConfigureType DEF Signal, TypeOK
  <2> QED
    BY <1>5a, <2>1, <2>2, <2>3 DEF Signal, TypeOK
<1>6. CASE Confirm(g)
  <2>1. left' \in Counts
    BY <1>0, <1>6, SpendType DEF Confirm, Kinds
  <2>2. loader' \in [Gateways -> Loaders]
    BY <1>0, <1>6, LoaderType DEF Confirm
  <2>3. PubOK'
    <3>1. CASE loader[g].awaited /\ pub' = [pub EXCEPT !.pc = "acked"]
      <4>1. pub.pc = "wait" /\ PubOK
        BY <3>1 DEF CallsMatch, Awaited, TypeOK
      <4>2. /\ pub' \in Publishers /\ pub'.pc = "acked"
            /\ pub'.bundle = pub.bundle /\ pub'.next = pub.next
        BY <3>1, <4>1 DEF Publishers
      <4> QED
        BY <4>1, <4>2
    <3> QED
      BY <1>6, <3>1 DEF Confirm, TypeOK
  <2> QED
    BY <1>6, <2>1, <2>2, <2>3 DEF Confirm, TypeOK
<1>7. CASE LoaderDies(g)
  <2>1. left' \in Counts
    BY <1>0, <1>7, SpendType DEF LoaderDies, Kinds
  <2>2. loader' \in [Gateways -> Loaders]
    BY <1>0, <1>7, LoaderType DEF LoaderDies
  <2> QED
    BY <1>7, <2>1, <2>2 DEF LoaderDies, TypeOK
<1>8. CASE Retire(g)
  <2>1. running' \in [Gateways -> SUBSET Generations]
    BY <1>8 DEF Retire, TypeOK
  <2> QED
    BY <1>8, <2>1 DEF Retire, TypeOK
<1>9. CASE NginxStarts(g)
  BY <1>9, ConfigureType DEF NginxStarts, TypeOK
<1>10. CASE NginxActs(g)
  <2>1. left' \in Counts
    BY <1>0, <1>10, SpendType DEF NginxActs, Kinds
  <2>2. /\ running' \in [Gateways -> SUBSET Generations]
        /\ newest' \in [Gateways -> Generations \union {None}]
    BY <1>10, ConfigureType DEF NginxActs, TypeOK
  <2> QED
    BY <1>10, <2>1, <2>2 DEF NginxActs, TypeOK
<1>11. CASE \E m \in sent[g] : Take(g, m)
  <2>1. PICK m \in sent[g] : Take(g, m)
    BY <1>11
  <2>2. m \in Calls /\ m.bundle \in Bundles
    BY DEF TypeOK, Calls
  <2>3. left' \in Counts
    BY <1>0, <2>1, SpendType DEF Take, Kinds
  <2>4. sent' \in [Gateways -> SUBSET Calls] /\ high' \in [Gateways -> Bundles]
    BY <2>1, <2>2 DEF Take, TypeOK
  <2>5. loader' \in [Gateways -> Loaders]
    <3>1. [pc |-> "install", bundle |-> m.bundle, awaited |-> m.awaited,
           old |-> active[g], oldMarker |-> marker[g], before |-> {}] \in Loaders
      BY <1>0, <2>2 DEF Loaders, Calls
    <3> QED
      BY <1>0, <2>1, <3>1 DEF Take
  <2> QED
    BY <2>1, <2>3, <2>4, <2>5 DEF Take, TypeOK
<1> QED
  BY <1>1, <1>2, <1>3, <1>4, <1>5, <1>5a, <1>6, <1>7, <1>8, <1>9, <1>10, <1>11 DEF Load

\* Every step keeps the types; one that is awaited at a gateway needs CallsMatch.
LEMMA TypeStep ==
  ASSUME TypeOK, CallsMatch, [Next]_vars
  PROVE  TypeOK'
<1>1. CASE Next
  BY <1>1, ServeType, DecideType, ReaderType, GatewayType DEF Next
<1>2. CASE UNCHANGED vars
  BY <1>2 DEF vars, ledger, service, gateways, nginx, history, TypeOK, PubOK
<1> QED
  BY <1>1, <1>2

-----------------------------------------------------------------------------
(* Calls and loaders *)

NoneAwaited ==
  \A g \in Gateways : (\A m \in sent[g] : ~m.awaited) /\ ~loader[g].awaited

\* What a step of the loader at g leaves: the loader rests, or goes on with its call.
GoesOn(g) ==
  /\ loader' = [loader EXCEPT ![g] = loader'[g]]
  /\ loader'[g] = Idle
     \/ /\ loader[g].pc # "idle" /\ loader'[g].pc # "idle"
        /\ loader'[g].bundle = loader[g].bundle /\ loader'[g].awaited = loader[g].awaited
        /\ loader'[g].old = loader[g].old

LEMMA LoaderGoesOn ==
  ASSUME TypeOK, NEW g \in Gateways,
         \/ Install(g) \/ InstallMarker(g) \/ Test(g) \/ Undo(g) \/ Reload(g)
         \/ Signal(g) \/ Confirm(g) \/ LoaderDies(g)
  PROVE  GoesOn(g)
<1>0. loader \in [Gateways -> Loaders] /\ loader[g] \in Loaders
  BY DEF TypeOK
<1>1. Ends(g) => GoesOn(g)
  BY <1>0 DEF Ends, GoesOn
<1>2. ASSUME NEW pc \in {"mark", "test", "undo", "undomark", "reload", "confirm"},
             loader[g].pc # "idle", Moves(g, pc)
      PROVE  GoesOn(g)
  BY <1>0, <1>2 DEF Moves, GoesOn, Loaders
<1>3. CASE Install(g)
  BY <1>1, <1>2, <1>3 DEF Install
<1>4. CASE InstallMarker(g)
  BY <1>1, <1>2, <1>4 DEF InstallMarker
<1>5. CASE Test(g)
  BY <1>1, <1>2, <1>5 DEF Test
<1>6. CASE Undo(g)
  BY <1>1, <1>2, <1>6 DEF Undo
<1>7. CASE Reload(g)
  <2>1. CASE loader' = [loader EXCEPT ![g].pc = "signal", ![g].before = running[g]]
    BY <1>0, <1>7, <2>1 DEF Reload, GoesOn, Loaders
  <2> QED
    BY <1>1, <1>7, <2>1 DEF Reload
<1>7a. CASE Signal(g)
  BY <1>1, <1>2, <1>7a DEF Signal
<1>8. CASE Confirm(g)
  BY <1>1, <1>8 DEF Confirm
<1>9. CASE LoaderDies(g)
  BY <1>1, <1>9 DEF LoaderDies
<1> QED
  BY <1>3, <1>4, <1>5, <1>6, <1>7, <1>7a, <1>8, <1>9

LEMMA CallsStep ==
  ASSUME TypeOK, CallsMatch, [Next]_vars
  PROVE  CallsMatch'
<1> USE DEF ledger, service, gateways, nginx, history
<1>a. NoneAwaited' => CallsMatch'
  BY DEF NoneAwaited, CallsMatch
<1>b. pub.pc # "wait" => NoneAwaited
  BY DEF NoneAwaited, CallsMatch, Awaited
<1>c. UNCHANGED <<sent, loader>> /\ pub.pc # "wait" => CallsMatch'
  BY <1>a, <1>b DEF NoneAwaited
<1>d. UNCHANGED <<pub, sent, loader>> => CallsMatch'
  BY DEF CallsMatch, Awaited
<1>1. CASE Start \/ Publish \/ AcceptRoot \/ Build \/ RecordAck
  BY <1>1, <1>c DEF Start, Publish, AcceptRoot, Build, RecordAck
<1>2. CASE Visit
  <2>1. CASE UNCHANGED sent
    BY <1>2, <1>c, <2>1 DEF Visit
  <2>2. CASE /\ pub.next <= N
             /\ sent' = [sent EXCEPT ![pub.next] =
                           @ \union {[bundle |-> pub.bundle, awaited |-> TRUE]}]
             /\ pub' = [pub EXCEPT !.pc = "wait"]
    <3>1. NoneAwaited /\ loader' = loader
      BY <1>2, <1>b DEF Visit
    <3>2. pub'.pc = "wait" /\ pub'.next = pub.next /\ pub'.bundle = pub.bundle
      BY <2>2 DEF TypeOK, PubOK, Publishers
    <3>3. \A g \in Gateways : \A m \in sent'[g] :
            \/ m \in sent[g]
            \/ g = pub.next /\ m = [bundle |-> pub.bundle, awaited |-> TRUE]
      BY <2>2 DEF TypeOK
    <3> QED
      BY <3>1, <3>2, <3>3 DEF NoneAwaited, CallsMatch, Awaited
  <2> QED
    BY <1>2, <2>1, <2>2 DEF Visit
<1>3. CASE GiveUp
  <2>1. pub.next \in Gateways /\ Forsake(pub.next)
    BY <1>3 DEF GiveUp, TypeOK, PubOK
  <2>2. NoneAwaited'
    <3> SUFFICES ASSUME NEW g \in Gateways
                 PROVE  (\A m \in sent'[g] : ~m.awaited) /\ ~loader'[g].awaited
      BY DEF NoneAwaited
    <3>1. CASE g = pub.next
      <4>1. \A m \in sent[g] : m \in Calls
        BY DEF TypeOK
      <4>2. sent'[g] = {[m EXCEPT !.awaited = FALSE] : m \in sent[g]}
        BY <2>1, <3>1 DEF Forsake, TypeOK
      <4>3. ~loader'[g].awaited
        BY <2>1, <3>1 DEF Forsake, TypeOK, Loaders
      <4> QED
        BY <4>1, <4>2, <4>3 DEF Calls
    <3>2. CASE g # pub.next
      <4>1. sent'[g] = sent[g] /\ loader'[g] = loader[g]
        BY <2>1, <3>2 DEF Forsake, TypeOK
      <4> QED
        BY <3>2, <4>1 DEF CallsMatch, Awaited
    <3> QED
      BY <3>1, <3>2
  <2> QED
    BY <1>a, <2>2
<1>4. CASE ServiceDies
  <2>1. NoneAwaited'
    <3> SUFFICES ASSUME NEW g \in Gateways
                 PROVE  (\A m \in sent'[g] : ~m.awaited) /\ ~loader'[g].awaited
      BY DEF NoneAwaited
    <3>1. \A m \in sent[g] : m \in Calls
      BY DEF TypeOK
    <3>2. sent'[g] = {[m EXCEPT !.awaited = FALSE] : m \in sent[g]}
      BY <1>4 DEF ServiceDies
    <3>3. ~loader'[g].awaited
      BY <1>4 DEF ServiceDies, TypeOK, Loaders
    <3> QED
      BY <3>1, <3>2, <3>3 DEF Calls
  <2> QED
    BY <1>a, <2>1
<1>5. CASE \/ Swap \/ Tick \/ Issue \/ (\E s \in Serials : Revoke(s))
           \/ AskStatus \/ ReadAck \/ Answer \/ UNCHANGED vars
  BY <1>5, <1>d DEF Swap, Tick, Issue, Revoke, AskStatus, ReadAck, Answer, vars
<1>6. ASSUME NEW g \in Gateways, Retire(g) \/ NginxStarts(g) \/ NginxActs(g)
      PROVE  CallsMatch'
  BY <1>6, <1>d DEF Retire, NginxStarts, NginxActs
<1>7. ASSUME NEW g \in Gateways, GoesOn(g), UNCHANGED <<pub, sent>>
      PROVE  CallsMatch'
  <2>1. \A h \in Gateways : h # g => loader'[h] = loader[h]
    BY <1>7 DEF GoesOn, TypeOK
  <2>2. ~Idle.awaited
    BY DEF Idle
  <2> QED
    BY <1>7, <2>1, <2>2 DEF CallsMatch, Awaited, GoesOn
<1>8. ASSUME NEW g \in Gateways,
             \/ Install(g) \/ InstallMarker(g) \/ Test(g) \/ Undo(g) \/ Reload(g)
             \/ Signal(g) \/ LoaderDies(g)
      PROVE  CallsMatch'
  BY <1>7, <1>8, LoaderGoesOn DEF Install, InstallMarker, Test, Undo, Reload, Signal, LoaderDies
<1>9. ASSUME NEW g \in Gateways, Confirm(g)
      PROVE  CallsMatch'
  <2>1. CASE UNCHANGED pub
    BY <1>7, <1>9, <2>1, LoaderGoesOn DEF Confirm
  <2>2. CASE loader[g].awaited
    <3>1. loader' = [loader EXCEPT ![g] = Idle] /\ UNCHANGED sent
      BY <1>9 DEF Confirm, Ends
    <3>2. \A h \in Gateways : loader'[h] = IF h = g THEN Idle ELSE loader[h]
      BY <3>1 DEF TypeOK
    <3>3. \A h \in Gateways : h # g => (\A m \in sent[h] : ~m.awaited) /\ ~loader[h].awaited
      BY <2>2 DEF CallsMatch, Awaited
    <3>4. \A m \in sent[g] : ~m.awaited
      BY <2>2 DEF CallsMatch
    <3> QED
      BY <1>a, <3>1, <3>2, <3>3, <3>4 DEF NoneAwaited, Idle
  <2> QED
    BY <1>9, <2>1, <2>2 DEF Confirm
<1>10. ASSUME NEW g \in Gateways, NEW m \in sent[g], Take(g, m)
       PROVE  CallsMatch'
  <2>1. sent' = [sent EXCEPT ![g] = @ \ {m}] /\ UNCHANGED pub
    BY <1>10 DEF Take
  <2>2. \A h \in Gateways : sent'[h] = IF h = g THEN sent[h] \ {m} ELSE sent[h]
    BY <2>1 DEF TypeOK
  <2>3. CASE UNCHANGED loader
    BY <2>1, <2>2, <2>3 DEF CallsMatch, Awaited
  <2>4. CASE loader' = [loader EXCEPT ![g] =
                         [pc |-> "install", bundle |-> m.bundle, awaited |-> m.awaited,
                          old |-> active[g], oldMarker |-> marker[g], before |-> {}]]
    <3>1. \A h \in Gateways : h # g => loader'[h] = loader[h]
      BY <2>4 DEF TypeOK
    <3>2. /\ loader'[g].pc = "install" /\ loader'[g].bundle = m.bundle
          /\ loader'[g].awaited = m.awaited
      BY <2>4 DEF TypeOK
    <3>3. m.awaited => \A n \in sent'[g] : ~n.awaited
      <4> SUFFICES ASSUME m.awaited, NEW n \in sent[g], n # m, n.awaited
                   PROVE  FALSE
        BY <2>2
      <4>1. n \in Calls /\ m \in Calls
        BY DEF TypeOK
      <4>2. n.bundle = m.bundle
        BY DEF CallsMatch, Awaited
      <4> QED
        BY <4>1, <4>2 DEF Calls
    <3> QED
      BY <2>1, <2>2, <3>1, <3>2, <3>3 DEF CallsMatch, Awaited
  <2> QED
    BY <1>10, <2>3, <2>4 DEF Take
<1> QED
  BY <1>1, <1>2, <1>3, <1>4, <1>5, <1>6, <1>8, <1>9, <1>10 DEF Next, Serve, Load

-----------------------------------------------------------------------------
(* What a loader has written *)

LEMMA WroteStep ==
  ASSUME TypeOK, LoaderWrote, [Next]_vars
  PROVE  LoaderWrote'
<1> USE DEF ledger, service, gateways, nginx, history
<1>0. \A g \in Gateways : Wrote(g) /\ loader[g] \in Loaders
  BY DEF LoaderWrote, TypeOK
<1>a. ASSUME NEW g \in Gateways, UNCHANGED <<high[g], active[g], marker[g], running[g]>>,
             UNCHANGED <<loader[g].pc, loader[g].bundle, loader[g].before>>
      PROVE  Wrote(g)'
  BY <1>0, <1>a DEF Wrote
<1>b. ASSUME NEW g \in Gateways, loader'[g].pc = "idle"
      PROVE  Wrote(g)'
  BY <1>b DEF Wrote
<1>c. UNCHANGED <<high, active, marker, running, loader>> => LoaderWrote'
  BY <1>a DEF LoaderWrote
<1>1. CASE Start \/ Publish \/ AcceptRoot \/ Build \/ RecordAck \/ Visit
  BY <1>1, <1>c DEF Start, Publish, AcceptRoot, Build, RecordAck, Visit
<1>2. CASE \/ Swap \/ Tick \/ Issue \/ (\E s \in Serials : Revoke(s))
           \/ AskStatus \/ ReadAck \/ Answer \/ UNCHANGED vars
  BY <1>2, <1>c DEF Swap, Tick, Issue, Revoke, AskStatus, ReadAck, Answer, vars
<1>3. CASE GiveUp \/ ServiceDies
  <2>1. UNCHANGED <<high, active, marker, running>>
    BY <1>3 DEF GiveUp, ServiceDies
  <2>2. \A g \in Gateways : \/ loader'[g] = loader[g]
                           \/ loader'[g] = [loader[g] EXCEPT !.awaited = FALSE]
    <3>1. CASE GiveUp
      <4>1. loader' = [loader EXCEPT ![pub.next].awaited = FALSE]
        BY <3>1 DEF GiveUp, Forsake
      <4> QED
        BY <4>1 DEF TypeOK
    <3>2. CASE ServiceDies
      BY <3>2 DEF ServiceDies
    <3> QED
      BY <1>3, <3>1, <3>2
  <2>3. \A g \in Gateways : UNCHANGED <<loader[g].pc, loader[g].bundle, loader[g].before>>
    BY <1>0, <2>2 DEF Loaders
  <2> QED
    BY <2>1, <2>3, <1>a DEF LoaderWrote
<1>4. ASSUME NEW g \in Gateways,
             \/ Load(g) \/ LoaderDies(g) \/ Retire(g) \/ NginxStarts(g) \/ NginxActs(g)
             \/ \E m \in sent[g] : Take(g, m)
      PROVE  LoaderWrote'
  <2>1. \A h \in Gateways : h # g =>
          UNCHANGED <<high[h], active[h], marker[h], running[h], loader[h]>>
    BY <1>4 DEF TypeOK, Load, Install, InstallMarker, Test, Undo, Reload, Signal, Confirm,
                LoaderDies, Retire, NginxStarts, NginxActs, Take, Ends, Moves, Configure
  <2>2. Wrote(g)'
    <3>0. /\ loader \in [Gateways -> Loaders] /\ high \in [Gateways -> Bundles]
          /\ active \in [Gateways -> Bundles] /\ marker \in [Gateways -> Bundles]
          /\ running \in [Gateways -> SUBSET Generations]
      BY DEF TypeOK
    <3>a. Ends(g) => loader'[g].pc = "idle"
      BY <3>0 DEF Ends, Idle
    <3>b. ASSUME NEW pc, Moves(g, pc)
          PROVE  /\ loader'[g].pc = pc /\ loader'[g].bundle = loader[g].bundle
                 /\ loader'[g].before = loader[g].before
      BY <1>0, <3>0, <3>b DEF Moves, Loaders
    <3>1. CASE Install(g)
      <4>1. CASE Moves(g, "mark") /\ active' = [active EXCEPT ![g] = loader[g].bundle]
        <5>1. /\ loader'[g].pc = "mark" /\ loader'[g].bundle = loader[g].bundle
              /\ active'[g] = loader[g].bundle /\ high'[g] = high[g]
              /\ loader[g].pc = "install"
          BY <3>0, <3>1, <3>b, <4>1 DEF Install
        <5> QED
          BY <1>0, <5>1 DEF Wrote
      <4> QED
        BY <1>b, <3>1, <3>a, <4>1 DEF Install
    <3>2. CASE InstallMarker(g)
      <4>1. CASE Moves(g, "test") /\ marker' = [marker EXCEPT ![g] = loader[g].bundle]
        <5>1. /\ loader'[g].pc = "test" /\ loader'[g].bundle = loader[g].bundle
              /\ marker'[g] = loader[g].bundle /\ loader[g].pc = "mark"
              /\ UNCHANGED <<high, active>>
          BY <3>0, <3>2, <3>b, <4>1 DEF InstallMarker
        <5> QED
          BY <1>0, <5>1 DEF Wrote
      <4> QED
        BY <1>b, <3>2, <3>a, <4>1 DEF InstallMarker
    <3>3. CASE Test(g)
      <4>1. /\ loader'[g].pc \in {"reload", "undo"} /\ loader'[g].bundle = loader[g].bundle
            /\ loader[g].pc = "test" /\ UNCHANGED <<high, active, marker>>
        BY <3>3, <3>b DEF Test
      <4> QED
        BY <1>0, <4>1 DEF Wrote
    <3>4. CASE Undo(g)
      <4>1. CASE loader[g].pc = "undo" /\ Moves(g, "undomark") /\ UNCHANGED high
        <5>1. loader'[g].pc = "undomark" /\ loader'[g].bundle = loader[g].bundle
          BY <3>b, <4>1
        <5> QED
          BY <1>0, <4>1, <5>1 DEF Wrote
      <4> QED
        BY <1>b, <3>4, <3>a, <4>1 DEF Undo
    <3>5. CASE Reload(g)
      <4>1. CASE loader' = [loader EXCEPT ![g].pc = "signal", ![g].before = running[g]]
        <5>1. loader'[g] = [loader[g] EXCEPT !.pc = "signal", !.before = running[g]]
          BY <3>0, <4>1
        <5>2. UNCHANGED <<high, active, marker, running>> /\ loader[g].pc = "reload"
          BY <3>5 DEF Reload
        <5> QED
          BY <1>0, <3>0, <5>1, <5>2 DEF Wrote, Loaders
      <4> QED
        BY <1>b, <3>5, <3>a, <4>1 DEF Reload
    <3>5a. CASE Signal(g)
      <4>1. CASE Configure(g) /\ Moves(g, "confirm")
        <5>1. /\ loader'[g].pc = "confirm" /\ loader'[g].bundle = loader[g].bundle
              /\ loader'[g].before = loader[g].before
          BY <3>b, <4>1
        <5>2. running'[g] = running[g] \union {Generation(active[g], marker[g])}
          BY <3>0, <4>1 DEF Configure
        <5>3. UNCHANGED <<high, active, marker>> /\ loader[g].pc = "signal"
          BY <3>5a DEF Signal
        <5> QED
          BY <1>0, <3>0, <5>1, <5>2, <5>3 DEF Wrote
      <4> QED
        BY <1>b, <3>5a, <3>a, <4>1 DEF Signal
    <3>6. CASE Confirm(g) \/ LoaderDies(g)
      BY <1>b, <3>6, <3>a DEF Confirm, LoaderDies
    <3>7. CASE Retire(g) \/ NginxStarts(g) \/ NginxActs(g)
      <4>1. UNCHANGED <<high, active, marker, loader>>
        BY <3>7 DEF Retire, NginxStarts, NginxActs
      <4>2. \A x \in running'[g] : x \in running[g] \/ x = Generation(active[g], marker[g])
        BY <3>0, <3>7 DEF Retire, NginxStarts, NginxActs, Configure
      <4> QED
        BY <1>0, <4>1, <4>2 DEF Wrote
    <3>8. ASSUME NEW m \in sent[g], Take(g, m)
          PROVE  Wrote(g)'
      <4>1. UNCHANGED <<active, marker, running>>
        BY <3>8 DEF Take
      <4>2. CASE loader' = [loader EXCEPT ![g] =
                             [pc |-> "install", bundle |-> m.bundle, awaited |-> m.awaited,
                              old |-> active[g], oldMarker |-> marker[g], before |-> {}]]
                 /\ high' = [high EXCEPT ![g] = m.bundle]
        BY <3>0, <4>2 DEF Wrote
      <4>3. CASE UNCHANGED <<high, loader>>
        BY <1>a, <4>1, <4>3
      <4>4. CASE loader[g].pc = "idle" /\ UNCHANGED loader
        BY <1>b, <4>4
      <4> QED
        BY <3>8, <4>2, <4>3, <4>4 DEF Take
    <3> QED
      BY <1>4, <3>1, <3>2, <3>3, <3>4, <3>5, <3>5a, <3>6, <3>7, <3>8 DEF Load
  <2> QED
    BY <1>a, <2>1, <2>2 DEF LoaderWrote
<1> QED
  BY <1>1, <1>2, <1>3, <1>4 DEF Next, Serve

-----------------------------------------------------------------------------
(* The order of bundles *)

LEMMA AtLeastReflexive ==
  ASSUME NEW a \in Bundles
  PROVE  AtLeast(a, a)
BY DEF AtLeast, Newer, Retained, Bundles

LEMMA AtLeastTransitive ==
  ASSUME NEW a \in Bundles, NEW b \in Bundles, NEW c \in Bundles,
         AtLeast(b, a), AtLeast(c, b)
  PROVE  AtLeast(c, a)
<1>1. a.list <= c.list
  BY DEF AtLeast, Bundles
<1>2. CASE a.root # 0
  <2>1. a.root \in Roots /\ b.root \in Roots /\ c.root \in Roots
    BY <1>2, Constants DEF AtLeast, Bundles
  <2>2. /\ RootLists[a.root].number \in Nat /\ RootLists[b.root].number \in Nat
        /\ RootLists[c.root].number \in Nat
    BY <2>1, Constants
  <2>3. b.root = a.root \/ RootLists[b.root].number > RootLists[a.root].number
    BY <1>2 DEF AtLeast, Newer
  <2>4. c.root = b.root \/ RootLists[c.root].number > RootLists[b.root].number
    BY <1>2 DEF AtLeast, Newer
  <2>5. c.root = a.root \/ RootLists[c.root].number > RootLists[a.root].number
    BY <2>2, <2>3, <2>4
  <2>6. RootLists[a.root].revokes => RootLists[c.root].revokes
    BY <1>2 DEF AtLeast, Retained
  <2> QED
    BY <1>1, <1>2, <2>5, <2>6 DEF AtLeast, Newer, Retained
<1>3. CASE a.root = 0
  BY <1>1, <1>3 DEF AtLeast
<1> QED
  BY <1>2, <1>3

\* What a loader takes is at least what it took before.
LEMMA LoadableAtLeast ==
  ASSUME NEW g \in Gateways, NEW b \in Bundles, high[g] \in Bundles, Loadable(g, b)
  PROVE  AtLeast(b, high[g]) /\ b.list \in 1..Latest
BY DEF Loadable, Acceptable, AtLeast, Bundles, Valid

-----------------------------------------------------------------------------
(* Gateways *)

\* What one step may do to the lists at a gateway.
LEMMA GatewayStep ==
  ASSUME TypeOK, LoaderWrote, [Next]_vars, NEW g \in Gateways
  PROVE  /\ high'[g] = high[g] \/ (high'[g] \in Bundles /\ Loadable(g, high'[g]))
         /\ active'[g] \in {active[g], high[g]}
            \/ (loader[g].pc # "idle" /\ active'[g] = loader[g].old)
         /\ loader'[g].pc # "idle" =>
              \/ loader[g].pc # "idle" /\ loader'[g].old = loader[g].old
              \/ loader'[g].old = active[g]
         /\ \A x \in running'[g] : x \in running[g] \/ x.crl = active[g]
<1> USE DEF ledger, service, gateways, nginx, history
<1>0. /\ loader \in [Gateways -> Loaders] /\ high \in [Gateways -> Bundles]
      /\ active \in [Gateways -> Bundles] /\ running \in [Gateways -> SUBSET Generations]
      /\ loader[g] \in Loaders /\ Wrote(g)
  BY DEF TypeOK, LoaderWrote
<1> DEFINE Quiet == UNCHANGED <<high[g], active[g], running[g]>>
           Same == loader'[g].pc # "idle" =>
                     \/ loader[g].pc # "idle" /\ loader'[g].old = loader[g].old
                     \/ loader'[g].old = active[g]
<1>1. CASE \/ Start \/ Publish \/ AcceptRoot \/ Build \/ RecordAck \/ Visit
           \/ Swap \/ Tick \/ Issue \/ (\E s \in Serials : Revoke(s))
           \/ AskStatus \/ ReadAck \/ Answer \/ UNCHANGED vars
  <2>1. UNCHANGED <<high, active, running, loader>>
    BY <1>1 DEF Start, Publish, AcceptRoot, Build, RecordAck, Visit, Swap, Tick, Issue,
                Revoke, AskStatus, ReadAck, Answer, vars
  <2> QED
    BY <2>1
<1>2. CASE GiveUp \/ ServiceDies
  <2>1. UNCHANGED <<high, active, running>>
    BY <1>2 DEF GiveUp, ServiceDies
  <2>2. UNCHANGED <<loader[g].pc, loader[g].old>>
    <3>1. loader' = [loader EXCEPT ![pub.next].awaited = FALSE]
          \/ loader' = [x \in Gateways |-> [loader[x] EXCEPT !.awaited = FALSE]]
      <4>1. GiveUp => loader' = [loader EXCEPT ![pub.next].awaited = FALSE]
        BY DEF GiveUp, Forsake
      <4>2. ServiceDies => loader' = [x \in Gateways |-> [loader[x] EXCEPT !.awaited = FALSE]]
        BY DEF ServiceDies
      <4> QED
        BY <1>2, <4>1, <4>2
    <3>2. loader'[g] \in {loader[g], [loader[g] EXCEPT !.awaited = FALSE]}
      BY <1>0, <3>1
    <3> QED
      BY <1>0, <3>2 DEF Loaders
  <2> QED
    BY <2>1, <2>2
<1>3. ASSUME NEW h \in Gateways,
             \/ Load(h) \/ LoaderDies(h) \/ Retire(h) \/ NginxStarts(h) \/ NginxActs(h)
             \/ \E m \in sent[h] : Take(h, m)
      PROVE  /\ high'[g] = high[g] \/ (high'[g] \in Bundles /\ Loadable(g, high'[g]))
             /\ active'[g] \in {active[g], high[g]}
                \/ (loader[g].pc # "idle" /\ active'[g] = loader[g].old)
             /\ Same
             /\ \A x \in running'[g] : x \in running[g] \/ x.crl = active[g]
  <2>1. CASE h # g
    <3>1. UNCHANGED <<high[g], active[g], running[g], loader[g]>>
      BY <1>0, <1>3, <2>1 DEF Load, Install, InstallMarker, Test, Undo, Reload, Signal, Confirm,
           LoaderDies, Retire, NginxStarts, NginxActs, Take, Ends, Moves, Configure
    <3> QED
      BY <3>1
  <2>2. CASE h = g
    <3>0. \A x \in running[g] \union {Generation(active[g], marker[g])} :
            x \in running[g] \/ x.crl = active[g]
      BY DEF Generation
    <3>1. CASE \/ Install(g) \/ InstallMarker(g) \/ Test(g) \/ Undo(g) \/ Reload(g)
               \/ Signal(g) \/ Confirm(g) \/ LoaderDies(g)
      <4>1. Same
        <5>1. GoesOn(g)
          BY <3>1, LoaderGoesOn
        <5> QED
          BY <1>0, <5>1 DEF GoesOn, Idle
      <4>2. UNCHANGED high
        BY <3>1 DEF Install, InstallMarker, Test, Undo, Reload, Signal, Confirm, LoaderDies
      <4>3. active'[g] \in {active[g], high[g]}
            \/ (loader[g].pc # "idle" /\ active'[g] = loader[g].old)
        BY <1>0, <3>1 DEF Install, InstallMarker, Test, Undo, Reload, Signal, Confirm, LoaderDies,
                          Wrote
      <4>4. running'[g] = running[g]
            \/ running'[g] = running[g] \union {Generation(active[g], marker[g])}
        BY <1>0, <3>1 DEF Install, InstallMarker, Test, Undo, Reload, Signal, Confirm, LoaderDies,
                          Configure
      <4> QED
        BY <3>0, <4>1, <4>2, <4>3, <4>4
    <3>2. CASE Retire(g) \/ NginxStarts(g) \/ NginxActs(g)
      <4>1. UNCHANGED <<high, active, loader>>
        BY <3>2 DEF Retire, NginxStarts, NginxActs
      <4>2. running'[g] \subseteq running[g] \union {Generation(active[g], marker[g])}
        BY <1>0, <3>2 DEF Retire, NginxStarts, NginxActs, Configure
      <4> QED
        BY <3>0, <4>1, <4>2
    <3>3. ASSUME NEW m \in sent[g], Take(g, m)
          PROVE  /\ high'[g] = high[g] \/ (high'[g] \in Bundles /\ Loadable(g, high'[g]))
                 /\ UNCHANGED <<active, running>> /\ Same
      <4>1. m.bundle \in Bundles
        BY DEF TypeOK, Calls
      <4>2. high'[g] = high[g] \/ (high'[g] = m.bundle /\ Loadable(g, m.bundle))
        BY <1>0, <3>3 DEF Take
      <4>3. Same
        BY <1>0, <3>3 DEF Take
      <4>4. UNCHANGED <<active, running>>
        BY <3>3 DEF Take
      <4> QED
        BY <4>1, <4>2, <4>3, <4>4
    <3> QED
      BY <1>3, <2>2, <3>1, <3>2, <3>3 DEF Load
  <2> QED
    BY <2>1, <2>2
<1> QED
  BY <1>1, <1>2, <1>3 DEF Next, Serve

\* After a step a gateway still has a.
StillHeld(g, a) ==
  /\ AtLeast(high'[g], a) /\ AtLeast(active'[g], a)
  /\ loader'[g].pc # "idle" => AtLeast(loader'[g].old, a)
  /\ \A x \in running'[g] : AtLeast(x.crl, a)

\* A gateway never loses what it has everywhere.
LEMMA HeldStep ==
  ASSUME TypeOK, LoaderWrote, [Next]_vars, NEW g \in Gateways, NEW a \in Bundles,
         Held(g, a)
  PROVE  StillHeld(g, a)
<1>0. /\ high[g] \in Bundles /\ active[g] \in Bundles /\ loader[g].old \in Bundles
      /\ \A x \in running[g] : x.crl \in Bundles
  BY DEF TypeOK, Loaders, Generations
<1>1. AtLeast(high'[g], a)
  <2>1. CASE high'[g] = high[g]
    BY <2>1 DEF Held
  <2>2. CASE high'[g] \in Bundles /\ Loadable(g, high'[g])
    <3>1. AtLeast(high'[g], high[g])
      BY <1>0, <2>2, LoadableAtLeast
    <3> QED
      BY <1>0, <2>2, <3>1, AtLeastTransitive DEF Held
  <2> QED
    BY <2>1, <2>2, GatewayStep
<1>2. AtLeast(active'[g], a)
  BY GatewayStep DEF Held
<1>3. loader'[g].pc # "idle" => AtLeast(loader'[g].old, a)
  BY GatewayStep DEF Held
<1>4. \A x \in running'[g] : AtLeast(x.crl, a)
  BY GatewayStep DEF Held
<1> QED
  BY <1>1, <1>2, <1>3, <1>4 DEF StillHeld

LEMMA ClaimsStep ==
  ASSUME TypeOK, CallsMatch, LoaderWrote, ClaimsHeld, [Next]_vars
  PROVE  ClaimsHeld'
<1> USE DEF ledger, service, gateways, nginx, history
<1>0. acks \in [Gateways -> Bundles] /\ PubOK
  BY DEF TypeOK
<1>1. ASSUME NEW g \in Gateways
      PROVE  StillHeld(g, acks'[g])
  <2>1. CASE acks'[g] = acks[g]
    <3>1. acks[g] \in Bundles /\ Held(g, acks[g])
      BY <1>0 DEF ClaimsHeld
    <3> QED
      BY <2>1, <3>1, HeldStep
  <2>2. CASE acks'[g] # acks[g]
    <3>1. RecordAck
      BY <2>2 DEF Next, Serve, Start, Publish, AcceptRoot, Build, Visit, GiveUp, ServiceDies,
           Swap, Tick, Issue, Revoke, AskStatus, ReadAck, Answer, Load, Install,
           InstallMarker, Test, Undo, Reload, Signal, Confirm, LoaderDies, Retire, NginxStarts,
           NginxActs, Take, vars
    <3>2. /\ pub.pc = "acked" /\ g = pub.next
          /\ acks'[g] = pub.bundle /\ pub.bundle \in Bundles
      BY <1>0, <2>2, <3>1 DEF RecordAck, PubOK, Publishers
    <3>3. Held(g, pub.bundle)
      BY <3>2 DEF ClaimsHeld
    <3> QED
      BY <3>2, <3>3, HeldStep
  <2> QED
    BY <2>1, <2>2
<1>2. ASSUME pub'.pc = "acked"
      PROVE  pub'.next \in Gateways /\ StillHeld(pub'.next, pub'.bundle)
  <2>1. CASE UNCHANGED pub
    <3>1. pub.next \in Gateways /\ pub.bundle \in Bundles /\ Held(pub.next, pub.bundle)
      BY <1>0, <1>2, <2>1 DEF ClaimsHeld, PubOK, Publishers
    <3> QED
      BY <2>1, <3>1, HeldStep
  <2>2. CASE pub' # pub
    <3>1. PICK g \in Gateways : Confirm(g) /\ pub' = [pub EXCEPT !.pc = "acked"]
                               /\ loader[g].awaited
      <4>1. ~Serve /\ ~ServiceDies
        <5>1. \A ok \in BOOLEAN : ~Finish(ok)
          BY <1>2, FinishType
        <5>2. ~Start /\ ~ServiceDies
          <6>1. Start => pub'.pc = "idle"
            BY DEF Start, Off
          <6>2. ServiceDies => pub'.pc = "off"
            BY DEF ServiceDies, Off
          <6> QED
            BY <1>2, <6>1, <6>2
        <5>3. ~Publish /\ ~AcceptRoot /\ ~Build
          BY <1>0, <1>2, <5>1 DEF Publish, AcceptRoot, Build, PubOK, Publishers
        <5>4. ~Visit /\ ~GiveUp /\ ~RecordAck
          BY <1>0, <1>2, <5>1 DEF Visit, GiveUp, RecordAck, PubOK, Publishers
        <5> QED
          BY <5>2, <5>3, <5>4 DEF Serve
      <4>2. \E g \in Gateways : Confirm(g)
        BY <2>2, <4>1 DEF Next, Swap, Tick, Issue, Revoke, AskStatus, ReadAck, Answer, Load,
             Install, InstallMarker, Test, Undo, Reload, Signal, LoaderDies, Retire, NginxStarts,
             NginxActs, Take, vars
      <4> QED
        BY <2>2, <4>2 DEF Confirm
    <3>2. pub.next = g /\ pub.bundle = loader[g].bundle /\ loader[g].bundle \in Bundles
      BY <3>1 DEF CallsMatch, Awaited, TypeOK, Loaders
    <3>3. pub'.next = g /\ pub'.bundle = loader[g].bundle
      BY <1>0, <3>1, <3>2 DEF PubOK, Publishers
    <3> DEFINE b == loader[g].bundle
    <3>4. high[g] = b /\ active[g] = b /\ running[g] \subseteq {Generation(b, b)}
      <4>1. Wrote(g) /\ loader[g].pc = "confirm"
        BY <3>1 DEF Confirm, LoaderWrote
      <4>2. Retired(g)
        BY <2>2, <3>1 DEF Confirm
      <4> QED
        BY <4>1, <4>2 DEF Wrote, Retired
    <3>5. high'[g] = b /\ active'[g] = b /\ running'[g] \subseteq {Generation(b, b)}
      BY <3>1, <3>4 DEF Confirm
    <3>6. loader'[g].pc = "idle"
      BY <3>1 DEF Confirm, Ends, Idle, TypeOK
    <3>7. AtLeast(b, b)
      BY <3>2, AtLeastReflexive
    <3> QED
      BY <3>3, <3>5, <3>6, <3>7 DEF StillHeld, Generation
  <2> QED
    BY <2>1, <2>2
<1> QED
  BY <1>1, <1>2 DEF ClaimsHeld, Held, StillHeld

-----------------------------------------------------------------------------
(* Lists, the status and what was told *)

\* Lists are only ever added, and decisions stay.
LEMMA Growth ==
  ASSUME TypeOK, [Next]_vars
  PROVE  /\ \/ UNCHANGED lists
            \/ Build /\ lists' = Append(lists, NewList) /\ NewList \in SignedLists
         /\ Latest' \in Nat /\ Latest \in Nat /\ Latest <= Latest'
         /\ \A i \in 1..Latest : lists'[i] = lists[i]
         /\ Revoked \subseteq Revoked'
<1> USE DEF ledger, service, gateways, nginx, history
<1>1. UNCHANGED lists \/ (Build /\ lists' = Append(lists, NewList))
  BY ZenonT(30) DEF Next, Serve, Start, Publish, AcceptRoot, Build, Visit, GiveUp, RecordAck,
         ServiceDies, Swap, Tick, Issue, Revoke, AskStatus, ReadAck, Answer, Load, Install,
         InstallMarker, Test, Undo, Reload, Signal, Confirm, LoaderDies, Retire, NginxStarts,
         NginxActs, Take, vars
<1>2. UNCHANGED decided \/ \E s \in Serials : Revoke(s)
  BY DEF Next, Serve, Start, Publish, AcceptRoot, Build, Visit, GiveUp, RecordAck,
         ServiceDies, Swap, Tick, Issue, AskStatus, ReadAck, Answer, Load, Install,
         InstallMarker, Test, Undo, Reload, Signal, Confirm, LoaderDies, Retire, NginxStarts,
         NginxActs, Take, vars
<1>3. Revoked \subseteq Revoked'
  BY <1>2 DEF Revoked, Revoke, TypeOK
<1>4. Build => NewList \in SignedLists
  <2> SUFFICES ASSUME Build PROVE NewList \in SignedLists
    OBVIOUS
  <2>1. pub \in Publishers /\ pub.bundle.root \in Roots
    BY DEF Build, TypeOK, PubOK
  <2>2. RootLists[pub.bundle.root].until \in Nat /\ Lifetime \in Nat /\ pub.at \in Nat
    BY <2>1, Constants, PublicationAssumption DEF Publishers
  <2> QED
    BY <2>2 DEF NewList, SignedLists, Revoked, Least
<1>5. lists \in Seq(SignedLists)
  BY DEF TypeOK
<1>6. CASE UNCHANGED lists
  BY <1>3, <1>5, <1>6 DEF Latest
<1>7. CASE Build /\ lists' = Append(lists, NewList)
  BY <1>3, <1>4, <1>5, <1>7 DEF Latest
<1> QED
  BY <1>1, <1>6, <1>7

LEMMA ListsStep ==
  ASSUME TypeOK, ListsGrow, [Next]_vars
  PROVE  ListsGrow'
<1>0. lists \in Seq(SignedLists)
  BY DEF TypeOK
<1>1. CASE UNCHANGED lists
  BY <1>1, Growth DEF ListsGrow, Latest
<1>2. CASE Build /\ lists' = Append(lists, NewList) /\ NewList \in SignedLists
  <2>1. /\ Latest' = Latest + 1 /\ Latest \in Nat
        /\ \A i \in 1..Latest : lists'[i] = lists[i]
        /\ lists'[Latest + 1] = NewList
    BY <1>0, <1>2 DEF Latest
  <2>2. Revoked' = Revoked
    BY <1>2 DEF Build, Revoked
  <2>3. lists'[Latest + 1].serials = Revoked
    BY <2>1 DEF NewList
  <2>4. \A i \in 1..Latest' : lists'[i].serials \subseteq Revoked
    BY <2>1, <2>3 DEF ListsGrow
  <2>5. ASSUME NEW i \in 1..Latest', NEW j \in 1..Latest', i <= j
        PROVE  lists'[i].serials \subseteq lists'[j].serials
    <3>1. CASE j = Latest + 1
      BY <2>3, <2>4, <3>1
    <3>2. CASE j # Latest + 1
      BY <2>1, <2>5, <3>2 DEF ListsGrow
    <3> QED
      BY <3>1, <3>2
  <2> QED
    BY <2>2, <2>4, <2>5 DEF ListsGrow
<1> QED
  BY <1>1, <1>2, Growth

LEMMA SignednessStep ==
  ASSUME TypeOK, LoaderWrote, Signedness, [Next]_vars
  PROVE  Signedness'
<1> SUFFICES ASSUME NEW g \in Gateways
             PROVE  /\ high'[g].list <= Latest' /\ active'[g].list <= Latest'
                    /\ loader'[g].pc # "idle" => loader'[g].old.list <= Latest'
                    /\ \A x \in running'[g] : x.crl.list <= Latest'
  BY DEF Signedness
<1>0. /\ high[g].list \in Nat /\ active[g].list \in Nat /\ loader[g].old.list \in Nat
      /\ \A x \in running[g] : x.crl.list \in Nat
      /\ high[g] \in Bundles
  BY DEF TypeOK, Bundles, Loaders, Generations
<1>1. Latest \in Nat /\ Latest' \in Nat /\ Latest <= Latest'
  BY Growth
<1>2. /\ high[g].list <= Latest /\ active[g].list <= Latest
      /\ loader[g].pc # "idle" => loader[g].old.list <= Latest
      /\ \A x \in running[g] : x.crl.list <= Latest
  BY DEF Signedness
<1>3. high'[g].list <= Latest'
  <2>1. CASE high'[g] = high[g]
    BY <1>0, <1>1, <1>2, <2>1
  <2>2. CASE high'[g] \in Bundles /\ Loadable(g, high'[g])
    <3>1. high'[g].list \in 1..Latest
      BY <1>0, <2>2, LoadableAtLeast
    <3> QED
      BY <1>1, <3>1
  <2> QED
    BY <2>1, <2>2, GatewayStep
<1>4. active'[g].list <= Latest'
  BY <1>0, <1>1, <1>2, GatewayStep
<1>5. loader'[g].pc # "idle" => loader'[g].old.list <= Latest'
  BY <1>0, <1>1, <1>2, GatewayStep
<1>6. \A x \in running'[g] : x.crl.list <= Latest'
  BY <1>0, <1>1, <1>2, GatewayStep
<1> QED
  BY <1>3, <1>4, <1>5, <1>6

LEMMA AcksGrow ==
  ASSUME TypeOK, [Next]_vars, NEW g \in Gateways
  PROVE  acks[g].list \in Nat /\ acks'[g].list \in Nat /\ acks[g].list <= acks'[g].list
<1> USE DEF ledger, service, gateways, nginx, history
<1>0. acks \in [Gateways -> Bundles] /\ PubOK
  BY DEF TypeOK
<1>1. UNCHANGED acks \/ RecordAck
  BY DEF Next, Serve, Start, Publish, AcceptRoot, Build, Visit, GiveUp,
         ServiceDies, Swap, Tick, Issue, Revoke, AskStatus, ReadAck, Answer, Load, Install,
         InstallMarker, Test, Undo, Reload, Signal, Confirm, LoaderDies, Retire, NginxStarts,
         NginxActs, Take, vars
<1>2. CASE UNCHANGED acks
  BY <1>0, <1>2 DEF Bundles
<1>3. CASE RecordAck
  <2>1. pub.bundle \in Bundles
    BY <1>0 DEF PubOK, Publishers
  <2>2. acks'[g] = acks[g] \/ (acks'[g] = pub.bundle /\ pub.bundle.list >= acks[g].list)
    BY <1>0, <1>3 DEF RecordAck
  <2> QED
    BY <1>0, <2>1, <2>2 DEF Bundles
<1> QED
  BY <1>1, <1>2, <1>3

LEMMA ReaderStep ==
  ASSUME TypeOK, ReaderRight, [Next]_vars
  PROVE  ReaderRight'
<1> USE DEF ledger, service, gateways, nginx, history
<1>0. /\ reader \in Readers /\ reader.next \in 1..(N + 1) /\ reader.bundle.list \in Nat
      /\ N \in Nat /\ Gateways = 1..N
  BY Constants DEF TypeOK, Readers, Bundles, Gateways
<1>1. \A g \in Gateways :
        acks[g].list \in Nat /\ acks'[g].list \in Nat /\ acks[g].list <= acks'[g].list
  BY AcksGrow
<1>2. Latest \in Nat /\ Latest' \in Nat /\ Latest <= Latest'
  BY Growth
<1>3. CASE UNCHANGED reader
  BY <1>0, <1>1, <1>2, <1>3 DEF ReaderRight
<1>4. CASE ServiceDies \/ Answer
  BY <1>4 DEF ServiceDies, Answer, Asleep, ReaderRight
<1>5. CASE AskStatus
  <2>1. /\ reader'.pc = "acks" /\ reader'.next = 1 /\ reader'.bundle.list = Latest
    BY <1>5 DEF AskStatus, Asleep
  <2>2. Latest \in 1..Latest /\ Latest' = Latest
    BY <1>2, <1>5 DEF AskStatus, Latest, TypeOK
  <2> QED
    BY <1>0, <2>1, <2>2 DEF ReaderRight
<1>6. CASE ReadAck
  <2>1. /\ reader.pc = "acks" /\ reader.next \in Gateways
        /\ reader'.next = reader.next + 1 /\ reader'.bundle = reader.bundle
        /\ reader'.pc = IF reader.next = N THEN "cover" ELSE "acks"
        /\ reader'.loaded => reader.loaded /\ acks[reader.next] = reader.bundle
    <3>1. PICK oldest :
            reader' = [reader EXCEPT
                         !.next = @ + 1,
                         !.pc = IF reader.next = N THEN "cover" ELSE "acks",
                         !.loaded = @ /\ acks[reader.next] = reader.bundle,
                         !.oldest = oldest]
      BY <1>6 DEF ReadAck
    <3>2. reader'.loaded = (reader.loaded /\ acks[reader.next] = reader.bundle)
      BY <1>0, <3>1 DEF Readers
    <3>3. reader.pc = "acks" /\ reader.next \in Gateways
      BY <1>0, <1>6 DEF ReadAck
    <3> QED
      BY <1>0, <3>1, <3>2, <3>3 DEF Readers
  <2>2. UNCHANGED <<acks, lists>>
    BY <1>6 DEF ReadAck
  <2>3. reader'.bundle.list \in 1..Latest'
    BY <2>1, <2>2 DEF ReaderRight, Latest
  <2>4. ASSUME reader'.loaded, NEW g \in Gateways, g < reader'.next
        PROVE  reader'.bundle.list <= acks'[g].list
    <3>1. g = reader.next \/ g < reader.next
      BY <1>0, <2>1, <2>4
    <3>2. CASE g = reader.next
      BY <1>0, <2>1, <2>2, <2>4, <3>2
    <3>3. CASE g < reader.next
      BY <2>1, <2>2, <2>4, <3>3 DEF ReaderRight
    <3> QED
      BY <3>1, <3>2, <3>3
  <2>5. reader'.pc = "cover" => reader'.next = N + 1
    BY <2>1
  <2> QED
    BY <2>3, <2>4, <2>5 DEF ReaderRight
<1> QED
  BY <1>3, <1>4, <1>5, <1>6 DEF Next, Serve, Start, Publish, AcceptRoot, Build, Visit, GiveUp,
     RecordAck, Swap, Tick, Issue, Revoke, Load, Install, InstallMarker, Test, Undo, Reload, Signal,
     Confirm, LoaderDies, Retire, NginxStarts, NginxActs, Take, vars

\* What a gateway acknowledged was signed.
LEMMA AckSigned ==
  ASSUME TypeOK, Signedness, ClaimsHeld, NEW g \in Gateways
  PROVE  acks[g].list \in Nat /\ acks[g].list <= Latest /\ Latest \in Nat
<1>1. /\ acks[g].list \in Nat /\ high[g].list \in Nat /\ Latest \in Nat
  BY DEF TypeOK, Bundles, Latest
<1>2. acks[g].list <= high[g].list /\ high[g].list <= Latest
  BY DEF ClaimsHeld, Held, AtLeast, Signedness
<1> QED
  BY <1>1, <1>2

\* What is on a list that a gateway acknowledged, or on one before it, is on
\* every list that it acknowledges later.
LEMMA ListedStays ==
  ASSUME TypeOK, TypeOK', Signedness', ClaimsHeld', ListsGrow', [Next]_vars,
         NEW g \in Gateways, NEW l \in 1..Latest, l <= acks[g].list,
         NEW s \in lists[l].serials
  PROVE  acks'[g].list \in 1..Latest' /\ s \in lists'[acks'[g].list].serials
<1>1. acks[g].list \in Nat /\ acks'[g].list \in Nat /\ acks[g].list <= acks'[g].list
  BY AcksGrow
<1>2. acks'[g].list <= Latest' /\ Latest' \in Nat
  <2>1. acks'[g].list \in Nat /\ high'[g].list \in Nat
    BY DEF TypeOK, Bundles
  <2>2. acks'[g].list <= high'[g].list /\ high'[g].list <= Latest'
    BY DEF ClaimsHeld, Held, AtLeast, Signedness
  <2> QED
    BY <2>1, <2>2, Growth
<1>3. l <= acks'[g].list /\ acks'[g].list \in 1..Latest' /\ l \in 1..Latest'
  BY <1>1, <1>2
<1>4. lists'[l] = lists[l]
  BY Growth
<1>5. lists'[l].serials \subseteq lists'[acks'[g].list].serials
  BY <1>3 DEF ListsGrow
<1> QED
  BY <1>3, <1>4, <1>5

LEMMA ToldStep ==
  ASSUME TypeOK, ListsGrow, Signedness, ClaimsHeld, ReaderRight, ToldRight,
         Signedness', ClaimsHeld', TypeOK', ListsGrow', [Next]_vars
  PROVE  ToldRight'
<1> USE DEF ledger, service, gateways, nginx, history
<1> SUFFICES ASSUME NEW s \in told', NEW g \in Gateways
             PROVE  acks'[g].list \in 1..Latest' /\ s \in lists'[acks'[g].list].serials
  BY DEF ToldRight
<1>1. acks[g].list \in Nat
  BY DEF TypeOK, Bundles
<1>2. CASE s \in told
  BY <1>1, <1>2, ListedStays DEF ToldRight
<1>3. CASE s \notin told
  <2>1. Answer /\ Loaded /\ s \in Revoked /\ reader.pc = "cover"
    BY <1>3 DEF Answer, Next, Serve, Start, Publish, AcceptRoot, Build, Visit, GiveUp, RecordAck,
       ServiceDies, Swap, Tick, Issue, Revoke, AskStatus, ReadAck, Load, Install,
       InstallMarker, Test, Undo, Reload, Signal, Confirm, LoaderDies, Retire, NginxStarts,
       NginxActs, Take, vars
  <2>2. s \in lists[reader.bundle.list].serials /\ reader.bundle.list \in 1..Latest
    BY <2>1 DEF Loaded, Covered, Signed, ReaderRight
  <2>3. g < reader.next
    BY <2>1, Constants DEF ReaderRight, Gateways
  <2>4. reader.bundle.list <= acks[g].list
    BY <2>1, <2>3 DEF ReaderRight, Loaded
  <2> QED
    BY <2>2, <2>4, ListedStays
<1> QED
  BY <1>2, <1>3

LEMMA CondemnedStep ==
  ASSUME TypeOK, CondemnedRight, [Next]_vars
  PROVE  CondemnedRight'
<1> USE DEF ledger, service, gateways, nginx, history
<1>1. CASE UNCHANGED <<checkpoint, condemned>>
  BY <1>1 DEF CondemnedRight
<1>2. CASE AcceptRoot /\ ~UNCHANGED <<checkpoint, condemned>>
  <2> DEFINE r == pub.bundle.root
  <2>1. /\ Acceptable(r, checkpoint, pub.at) /\ checkpoint' = r
        /\ condemned' = (condemned \/ RootLists[r].revokes)
    BY <1>2 DEF AcceptRoot
  <2>2. r # 0 /\ (condemned => RootLists[r].revokes)
    BY <2>1 DEF Acceptable, Retained, CondemnedRight
  <2> QED
    BY <2>1, <2>2 DEF CondemnedRight
<1> QED
  BY <1>1, <1>2 DEF Next, Serve, Start, Publish, Build, Visit, GiveUp, RecordAck,
     ServiceDies, Swap, Tick, Issue, Revoke, AskStatus, ReadAck, Answer, Load, Install,
     InstallMarker, Test, Undo, Reload, Signal, Confirm, LoaderDies, Retire, NginxStarts,
     NginxActs, Take, vars

-----------------------------------------------------------------------------
(* Theorems *)

LEMMA InitInv == Init => IInv
<1> SUFFICES ASSUME Init PROVE IInv
  OBVIOUS
<1> USE Constants DEF Init
<1>1. TypeOK
  <2>1. PubOK
    BY RestType DEF PubOK, Off
  <2>2. lists \in Seq(SignedLists)
    OBVIOUS
  <2>3. file \in {0} \union Roots
    BY PublicationAssumption DEF Roots
  <2>4. left \in Counts
    BY PublicationAssumption
  <2>5. issued \in 0..MaxSerials
    BY PublicationAssumption
  <2> QED
    BY <2>1, <2>2, <2>3, <2>4, <2>5, RestType DEF TypeOK
<1>2. Latest = 0
  BY DEF Latest
<1>3. ListsGrow /\ Signedness
  BY <1>2 DEF ListsGrow, Signedness, Nothing, Idle
<1>4. CallsMatch /\ LoaderWrote
  BY DEF CallsMatch, LoaderWrote, Wrote, Idle
<1>5. ClaimsHeld
  <2>1. AtLeast(Nothing, Nothing)
    BY AtLeastReflexive
  <2> QED
    BY <2>1 DEF ClaimsHeld, Held, Idle, Off
<1>6. ReaderRight /\ ToldRight /\ CondemnedRight
  BY DEF ReaderRight, ToldRight, CondemnedRight, Asleep
<1> QED
  BY <1>1, <1>3, <1>4, <1>5, <1>6 DEF IInv

LEMMA StepInv ==
  ASSUME IInv, [Next]_vars
  PROVE  IInv'
<1>1. TypeOK'
  BY TypeStep DEF IInv
<1>2. ListsGrow' /\ Signedness' /\ ClaimsHeld'
  BY ListsStep, SignednessStep, ClaimsStep DEF IInv
<1>3. CallsMatch' /\ LoaderWrote'
  BY CallsStep, WroteStep DEF IInv
<1>4. ReaderRight' /\ CondemnedRight'
  BY ReaderStep, CondemnedStep DEF IInv
<1>5. ToldRight'
  BY <1>1, <1>2, ToldStep DEF IInv
<1> QED
  BY <1>1, <1>2, <1>3, <1>4, <1>5 DEF IInv

\* The inductive invariant holds in every reachable state.
THEOREM Inductive == Spec => []IInv
<1>1. Init => IInv
  BY InitInv
<1>2. IInv /\ [Next]_vars => IInv'
  BY StepInv
<1> QED
  BY <1>1, <1>2, PTL DEF Spec

\* Every variable keeps its type.
THEOREM TypeCorrect == Spec => []TypeOK
<1>1. IInv => TypeOK
  BY DEF IInv
<1> QED
  BY <1>1, Inductive, PTL

\* An acknowledgment a gateway gave is true for good: whatever accepts connections
\* there has at least its lists.
THEOREM AcksStayTrue == Spec => []AcksAreTrue
<1>1. IInv => AcksAreTrue
  BY DEF IInv, ClaimsHeld, Held, AcksAreTrue
<1> QED
  BY <1>1, Inductive, PTL

\* Whoever is on a list that a gateway acknowledged, or on one before it, is refused
\* there.
LEMMA ListedIsRefused ==
  ASSUME IInv, NEW g \in Gateways, NEW l \in 1..Latest, l <= acks[g].list,
         NEW s \in lists[l].serials
  PROVE  Refuses(g, s)
<1> SUFFICES ASSUME NEW x \in running[g]
             PROVE  s \in lists[x.crl.list].serials
  BY DEF Refuses, RefusedBy
<1>1. acks[g].list <= x.crl.list /\ x.crl.list <= Latest
  BY DEF IInv, ClaimsHeld, Held, AtLeast, Signedness
<1>2. x.crl.list \in Nat /\ acks[g].list \in Nat /\ Latest \in Nat
  BY DEF IInv, TypeOK, Generations, Bundles, Latest
<1>3. x.crl.list \in 1..Latest /\ l <= x.crl.list
  BY <1>1, <1>2
<1> QED
  BY <1>3 DEF IInv, ListsGrow

\* What was reported loaded is refused by every gateway ever after.
THEOREM ToldStaysRefused == Spec => []RevokedStaysRefused
<1>1. IInv => RevokedStaysRefused
  <2> SUFFICES ASSUME IInv, NEW s \in told, NEW g \in Gateways
               PROVE  Refuses(g, s)
    BY DEF RevokedStaysRefused
  <2>1. acks[g].list \in 1..Latest /\ s \in lists[acks[g].list].serials
    BY DEF IInv, ToldRight
  <2>2. acks[g].list <= acks[g].list
    BY <2>1
  <2> QED
    BY <2>1, <2>2, ListedIsRefused
<1> QED
  BY <1>1, Inductive, PTL

\* Once the offline root has revoked the issuer nothing is issued, and a gateway
\* that acknowledged it lets nobody in, whatever root lists come later.
THEOREM RootRevocationIsFinal == Spec => IssuerStaysRevoked
<1> DEFINE A == /\ condemned => issued' = issued
                /\ \A g \in Gateways :
                     acks[g].root # 0 /\ RootLists[acks[g].root].revokes =>
                       \A x \in running'[g] : RootLists[x.crl.root].revokes
<1>1. IInv /\ [Next]_vars => [A]_vars
  <2> SUFFICES ASSUME IInv, [Next]_vars PROVE A
    OBVIOUS
  <2>1. condemned => issued' = issued
    <3>1. UNCHANGED issued \/ Issue
      BY DEF Next, Serve, Start, Publish, AcceptRoot, Build, Visit, GiveUp, RecordAck,
         ServiceDies, Swap, Tick, Revoke, AskStatus, ReadAck, Answer, Load, Install,
         InstallMarker, Test, Undo, Reload, Signal, Confirm, LoaderDies, Retire, NginxStarts,
         NginxActs, Take, vars, ledger, service, gateways, nginx, history
    <3> QED
      BY <3>1 DEF Issue, IssuerAllowed, IInv, CondemnedRight
  <2>2. ASSUME NEW g \in Gateways, acks[g].root # 0, RootLists[acks[g].root].revokes,
               NEW x \in running'[g]
        PROVE  RootLists[x.crl.root].revokes
    <3>1. acks[g] \in Bundles /\ Held(g, acks[g])
      BY DEF IInv, TypeOK, ClaimsHeld
    <3>2. StillHeld(g, acks[g])
      BY <3>1, HeldStep DEF IInv
    <3> QED
      BY <2>2, <3>2 DEF StillHeld, AtLeast, Retained
  <2> QED
    BY <2>1, <2>2
<1> QED
  BY <1>1, Inductive, PTL DEF Spec, IssuerStaysRevoked

-----------------------------------------------------------------------------
(* Delays *)

\* Of every gateway asked so far and every certificate revoked before the question:
\* the gateway's list has it, or the oldest decision noted is no later than its.
SeenRight ==
  reader.pc # "idle" =>
    /\ reader.at <= now
    /\ \A s \in Revoked, g \in Gateways :
         g < reader.next /\ decided[s] < reader.at =>
           \/ acks[g].list \in 1..Latest /\ s \in lists[acks[g].list].serials
           \/ reader.oldest # None /\ reader.oldest <= decided[s]

\* The earlier of two decisions is no later than either.
LEMMA SoonerFirst ==
  ASSUME NEW a \in Nat \union {None}, NEW b \in Nat \union {None}, NEW t \in Nat,
         (a # None /\ a <= t) \/ (b # None /\ b <= t)
  PROVE  Sooner(a, b) # None /\ Sooner(a, b) <= t
BY PublicationAssumption DEF Sooner, Least

\* Decisions stay as they are, a new one is made at the clock's time, and the clock
\* never goes back.
LEMMA DecisionsStay ==
  ASSUME TypeOK, [Next]_vars
  PROVE  /\ now \in Nat /\ now <= now'
         /\ \A s \in Revoked' : /\ decided'[s] \in Nat
                                /\ s \in Revoked => decided'[s] = decided[s]
                                /\ s \notin Revoked => decided'[s] = now
<1> USE DEF ledger, service, gateways, nginx, history
<1>1. UNCHANGED decided \/ \E s \in Serials : Revoke(s)
  BY DEF Next, Serve, Start, Publish, AcceptRoot, Build, Visit, GiveUp, RecordAck,
         ServiceDies, Swap, Tick, Issue, AskStatus, ReadAck, Answer, Load, Install,
         InstallMarker, Test, Undo, Reload, Signal, Confirm, LoaderDies, Retire, NginxStarts,
         NginxActs, Take, vars
<1>2. UNCHANGED now \/ Tick
  BY DEF Next, Serve, Start, Publish, AcceptRoot, Build, Visit, GiveUp, RecordAck,
         ServiceDies, Swap, Issue, Revoke, AskStatus, ReadAck, Answer, Load, Install,
         InstallMarker, Test, Undo, Reload, Signal, Confirm, LoaderDies, Retire, NginxStarts,
         NginxActs, Take, vars
<1>3. now \in Nat /\ now <= now'
  BY <1>2 DEF Tick, TypeOK
<1>4. decided \in [Serials -> Nat \union {None}]
  BY DEF TypeOK
<1>5. CASE UNCHANGED decided
  BY <1>3, <1>4, <1>5 DEF Revoked
<1>6. CASE \E s \in Serials : Revoke(s)
  <2>1. PICK r \in Serials : Revoke(r)
    BY <1>6
  <2>2. decided' = [decided EXCEPT ![r] = now] /\ r \notin Revoked
    BY <2>1 DEF Revoke, Revoked
  <2>3. ASSUME NEW s \in Revoked'
        PROVE  /\ decided'[s] \in Nat
               /\ s \in Revoked => decided'[s] = decided[s]
               /\ s \notin Revoked => decided'[s] = now
    <3>1. s \in Serials /\ decided'[s] # None
      BY DEF Revoked
    <3>2. CASE s = r
      BY <1>3, <1>4, <2>2, <3>2
    <3>3. CASE s # r
      BY <1>4, <2>2, <3>1, <3>3 DEF Revoked
    <3> QED
      BY <3>2, <3>3
  <2> QED
    BY <1>3, <2>3
<1> QED
  BY <1>1, <1>5, <1>6

LEMMA SeenStep ==
  ASSUME IInv, IInv', SeenRight, [Next]_vars
  PROVE  SeenRight'
<1> USE DEF ledger, service, gateways, nginx, history
<1>0. /\ TypeOK /\ reader \in Readers /\ reader.next \in 1..(N + 1) /\ reader.at \in Nat
      /\ reader.oldest \in Nat \union {None} /\ N \in Nat /\ Gateways = 1..N
  BY Constants DEF IInv, TypeOK, Readers, Gateways
<1>1. /\ now \in Nat /\ now' \in Nat /\ now <= now'
      /\ \A s \in Revoked' : /\ decided'[s] \in Nat
                             /\ s \in Revoked => decided'[s] = decided[s]
                             /\ s \notin Revoked => decided'[s] = now
  BY <1>0, DecisionsStay DEF IInv, TypeOK
<1>2. ASSUME NEW g \in Gateways, NEW s \in Serials,
             acks[g].list \in 1..Latest, s \in lists[acks[g].list].serials
      PROVE  acks'[g].list \in 1..Latest' /\ s \in lists'[acks'[g].list].serials
  <2>1. acks[g].list <= acks[g].list
    BY <1>2
  <2> QED
    BY <1>2, <2>1, ListedStays DEF IInv
<1>3. Revoked' \subseteq Serials
  BY DEF Revoked
<1>4. CASE UNCHANGED reader
  <2> SUFFICES ASSUME reader.pc # "idle"
               PROVE  SeenRight'
    BY <1>4 DEF SeenRight
  <2>1. reader.at <= now /\ reader.at <= now'
    BY <1>0, <1>1 DEF SeenRight
  <2>2. ASSUME NEW s \in Revoked', NEW g \in Gateways, g < reader.next,
               decided'[s] < reader.at
        PROVE  \/ acks'[g].list \in 1..Latest' /\ s \in lists'[acks'[g].list].serials
               \/ reader.oldest # None /\ reader.oldest <= decided'[s]
    <3>1. s \in Revoked /\ decided'[s] = decided[s]
      BY <1>0, <1>1, <2>1, <2>2
    <3>2. \/ acks[g].list \in 1..Latest /\ s \in lists[acks[g].list].serials
          \/ reader.oldest # None /\ reader.oldest <= decided[s]
      BY <2>2, <3>1 DEF SeenRight
    <3> QED
      BY <1>2, <1>3, <3>1, <3>2
  <2> QED
    BY <1>4, <2>1, <2>2 DEF SeenRight
<1>5. CASE ServiceDies \/ Answer
  BY <1>5 DEF ServiceDies, Answer, Asleep, SeenRight
<1>6. CASE AskStatus
  <2>1. reader'.next = 1 /\ reader'.at = now /\ now' = now
    BY <1>6 DEF AskStatus, Asleep
  <2>2. \A g \in Gateways : ~(g < reader'.next)
    BY <1>0, <2>1
  <2> QED
    BY <1>1, <2>1, <2>2 DEF SeenRight
<1>7. CASE ReadAck
  <2> DEFINE ack == acks[reader.next]
             known == IF ack.list \in 1..Latest /\ lists[ack.list].until > reader.at
                        THEN lists[ack.list].serials ELSE {}
  <2>1. /\ reader.pc = "acks" /\ reader.next \in Gateways
        /\ UNCHANGED <<acks, lists, decided, now>>
    BY <1>0, <1>7 DEF ReadAck
  <2>2. /\ reader'.next = reader.next + 1 /\ reader'.at = reader.at
        /\ reader'.oldest = Sooner(reader.oldest, Missing(known))
    <3>1. reader' = [reader EXCEPT
                       !.next = @ + 1,
                       !.pc = IF reader.next = N THEN "cover" ELSE "acks",
                       !.loaded = @ /\ ack = reader.bundle,
                       !.oldest = Sooner(@, Missing(known))]
      BY <1>7 DEF ReadAck
    <3> HIDE DEF ack, known
    <3> QED
      BY <1>0, <3>1 DEF Readers
  <2>3. Missing(known) \in Nat \union {None}
    BY <1>0, MissingType
  <2>4. ASSUME NEW s \in Revoked, NEW g \in Gateways, g < reader'.next,
               decided[s] < reader.at
        PROVE  \/ acks[g].list \in 1..Latest /\ s \in lists[acks[g].list].serials
               \/ reader'.oldest # None /\ reader'.oldest <= decided[s]
    <3>0. decided[s] \in Nat
      BY <1>0 DEF Revoked, TypeOK
    <3>1. g = reader.next \/ g < reader.next
      BY <1>0, <2>2, <2>4
    <3>2. CASE g < reader.next
      <4>1. \/ acks[g].list \in 1..Latest /\ s \in lists[acks[g].list].serials
            \/ reader.oldest # None /\ reader.oldest <= decided[s]
        BY <2>1, <2>4, <3>2 DEF SeenRight
      <4>2. reader.oldest # None /\ reader.oldest <= decided[s] =>
              reader'.oldest # None /\ reader'.oldest <= decided[s]
        <5> HIDE DEF known
        <5> QED
          BY <1>0, <2>2, <2>3, <3>0, SoonerFirst
      <4> QED
        BY <4>1, <4>2
    <3>3. CASE g = reader.next /\ s \in known
      BY <3>3
    <3>4. CASE g = reader.next /\ s \notin known
      <4>1. Missing(known) \in Nat /\ Missing(known) <= decided[s]
        <5> HIDE DEF known
        <5> QED
          BY <1>0, <3>4, MissingFirst
      <4>2. Missing(known) # None
        BY <4>1, PublicationAssumption
      <4> HIDE DEF known
      <4> QED
        BY <1>0, <2>2, <2>3, <3>0, <4>1, <4>2, SoonerFirst
    <3> QED
      BY <3>1, <3>2, <3>3, <3>4
  <2>5. reader.at <= now
    BY <2>1 DEF SeenRight
  <2> HIDE DEF ack, known
  <2>6. Revoked' = Revoked /\ Latest' = Latest
    BY <2>1 DEF Revoked, Latest
  <2> QED
    BY <2>1, <2>2, <2>4, <2>5, <2>6 DEF SeenRight
<1> QED
  BY <1>4, <1>5, <1>6, <1>7 DEF Next, Serve, Start, Publish, AcceptRoot, Build, Visit, GiveUp,
     RecordAck, Swap, Tick, Issue, Revoke, Load, Install, InstallMarker, Test, Undo, Reload, Signal,
     Confirm, LoaderDies, Retire, NginxStarts, NginxActs, Take, vars

\* A status that is not late says so rightly: every revocation older than the target
\* is refused at every gateway, whatever is published, loaded, revoked or restarted
\* between the queries the status is put together from.
THEOREM DelaysAreReported == Spec => []DelayIsReported
<1>1. Init => SeenRight
  BY DEF Init, Asleep, SeenRight
<1>2. IInv /\ IInv' /\ SeenRight /\ [Next]_vars => SeenRight'
  BY SeenStep
<1>3. IInv /\ SeenRight => DelayIsReported
  <2> SUFFICES ASSUME IInv, SeenRight, reader.pc = "cover", ~Exceeded,
                      NEW s \in Revoked, NEW g \in Gateways,
                      reader.at - decided[s] > Target
               PROVE  Refuses(g, s)
    BY DEF DelayIsReported
  <2>1. /\ TypeOK /\ reader.at \in Nat /\ decided[s] \in Nat /\ Target \in Nat
        /\ reader.oldest \in Nat \union {None}
    BY PublicationAssumption DEF IInv, TypeOK, Readers, Revoked
  <2>2. decided[s] < reader.at
    BY <2>1
  <2>3. g < reader.next
    BY Constants DEF IInv, ReaderRight, Gateways
  <2>4. CASE acks[g].list \in 1..Latest /\ s \in lists[acks[g].list].serials
    <3>1. acks[g].list <= acks[g].list
      BY <2>4
    <3> QED
      BY <2>4, <3>1, ListedIsRefused
  <2>5. CASE reader.oldest # None /\ reader.oldest <= decided[s]
    <3> DEFINE oldest == Sooner(reader.oldest, Missing(Signed))
    <3>1. Missing(Signed) \in Nat \union {None}
      BY <2>1, MissingType
    <3>2. oldest # None /\ oldest <= decided[s] /\ oldest \in Nat
      <4>1. oldest # None /\ oldest <= decided[s]
        BY <2>1, <2>5, <3>1, SoonerFirst
      <4>2. oldest \in Nat \union {None}
        BY <2>1, <3>1 DEF Sooner, Least
      <4> QED
        BY <4>1, <4>2
    <3>3. reader.at - oldest > Target
      <4> HIDE DEF oldest
      <4> QED
        BY <2>1, <3>2
    <3>4. Loaded
      BY <3>2, <3>3 DEF Exceeded
    <3>5. /\ reader.bundle.list \in 1..Latest /\ reader.bundle.list <= acks[g].list
          /\ s \in lists[reader.bundle.list].serials
      BY <2>3, <3>4 DEF Loaded, Covered, Signed, IInv, ReaderRight
    <3> QED
      BY <3>5, ListedIsRefused
  <2> QED
    BY <2>2, <2>3, <2>4, <2>5 DEF SeenRight
<1> QED
  BY <1>1, <1>2, <1>3, Inductive, PTL DEF Spec

=============================================================================
