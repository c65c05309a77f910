-------------------------- MODULE DesktopRouterProofs --------------------------
(* What the manager promises of the port it shares, for any computer, any number
   of processes and sessions: the key, force, one attempt, the state file. *)
EXTENDS DesktopRouter, SequenceTheorems, FiniteSetTheorems, TLAPS

-----------------------------------------------------------------------------
(* Types.  Everything that names a process names one that has been started: none
   that is still to come is any of these, whatever id it takes. *)

Seen == {p \in Process : p.born <= born}
SeenRecord == [router: Seen, manager: Seen]

Fields == {"op", "pc", "rec", "cli", "seen", "open", "class", "trust", "answer", "given",
           "tried", "round", "reply"}

MachineTypes ==
  /\ born \in 0..MaxBorn /\ live \subseteq Seen
  /\ \A p, q \in live : p.pid = q.pid => p = q
  /\ bound \in live \union {None} /\ doomed \subseteq live
  /\ self \in live \union {None} /\ on \in BOOLEAN
  /\ self # None => self.role = "app"
  /\ on => bound = self /\ self # None

FileTypes ==
  /\ record \in SeenRecord \union {None, Corrupt} /\ cli \in Seen \union {None, Corrupt}
  /\ attempt \in Attempt \union {None, Corrupt}

Command == [cmd: {"start", "stop"}, by: Sessions \union {0}]

SessionTypes ==
  /\ current \in Sessions /\ DOMAIN at = Sessions
  /\ queue \in Seq(Command)
  /\ self = None => queue = <<>>
  /\ latch \in [Sessions -> {"none", "reconcile", "other"}]
  /\ tokens \in Nat /\ token \in [Sessions -> [id: 1..tokens, target: Seen] \union {None}]
  /\ mishaps \subseteq {"replaced", "given up", "kept"}

HistoryTypes ==
  /\ signalled \subseteq [kind: {"interrupt", "kill"}, to: Seen, by: Seen, rec: SeenRecord]
  /\ forced \subseteq [to: Seen, shown: Seen, id: 1..tokens]
  /\ keys \subseteq [to: Seen, trust: Seen]

Signalling == {"interrupt", "wait", "kill", "wait long", "gone", "conclude"}
Stopping == {"recall", "announce"} \union Signalling
OnRecord == {"vet", "kin", "stale", "port", "reused", "remove", "vet legacy", "forget"} \union Stopping
Trusting == {"dial", "vouch", "send", "look again", "strike", "release"}
Seeing == {"vouch", "send", "strike", "release"}

\* What a call knows, at each of its places.
Fits(r) ==
  /\ DOMAIN r = Fields /\ r.op \in Ops \union {"none"}
  /\ r.rec \in SeenRecord \union {None, Corrupt} /\ r.cli \in Seen \union {None, Corrupt}
  /\ r.seen \in Seen \union {None} /\ r.trust \in Seen \union {None}
  /\ r.pc # "idle" => self # None /\ r.reply = "none"
  /\ r.pc \in OnRecord => r.rec \in SeenRecord
  /\ r.pc \in Signalling => r.tried \in Attempt
  /\ r.pc = "decide" /\ r.class = "desktop" => r.rec \in SeenRecord
  /\ r.pc = "decide" /\ r.class = "external" => r.cli \in Seen
  /\ r.pc \in Trusting => r.trust \in Seen
  /\ r.pc \in Seeing => r.seen \in Seen

-----------------------------------------------------------------------------
(* The key. *)

\* Whoever runs of those a discovery read of, and has the id of who answered, is
\* who answered; a connection vouched for ends at who was trusted, or nowhere.
KeyFits(r) ==
  /\ r.pc = "judge" =>
       \A p \in {r.cli, RouterOf(r.rec)} \ {None, Corrupt} :
         p \in live /\ r.seen # None /\ p.pid = r.seen.pid => p = r.seen
  /\ r.pc \in {"vouch", "send"} => r.seen.role \in Personal /\ r.seen.pid = r.trust.pid
  /\ r.pc = "send" /\ r.seen \in live => r.seen = r.trust

KeysRight == \A k \in keys : k.to = k.trust /\ k.to.role \in Personal

-----------------------------------------------------------------------------
(* Force. *)

Forcing == {"look again", "strike"}

ForceFits(r) ==
  /\ r.pc = "strike" =>
       /\ r.seen.pid = r.trust.pid /\ r.seen.pid # self.pid
       /\ r.trust.role # "opaque" => r.seen = r.trust
  /\ r.pc \in Forcing => r.given \in 1..tokens

\* The number of a token is in one place: the token, the call that took it, or
\* what the call did.
TokensApart ==
  \A s, t \in Sessions :
    s # t /\ token[s] # None /\ token[t] # None => token[s].id # token[t].id
GivenApart ==
  \A s, t \in Sessions :
    s # t /\ at[s].pc \in Forcing /\ at[t].pc \in Forcing => at[s].given # at[t].given
GivenTaken ==
  \A s, t \in Sessions :
    token[s] # None /\ at[t].pc \in Forcing => token[s].id # at[t].given
ForcedUsed ==
  \A f \in forced : \A s \in Sessions :
    /\ token[s] # None => f.id # token[s].id
    /\ at[s].pc \in Forcing => f.id # at[s].given
Numbers == TokensApart /\ GivenApart /\ GivenTaken /\ ForcedUsed

ForcedRight ==
  /\ \A f \in forced :
       /\ f.to.pid = f.shown.pid /\ (f.shown.role # "opaque" => f.to = f.shown)
       /\ f.to # self
  /\ \A f, g \in forced : f.id = g.id => f = g

Sound(r) == Fits(r) /\ KeyFits(r) /\ ForceFits(r)
Calls == DOMAIN at = Sessions /\ \A s \in Sessions : Sound(at[s])

TypeInv == MachineTypes /\ FileTypes /\ SessionTypes /\ HistoryTypes /\ Calls
SafeInv == TypeInv /\ KeysRight /\ ForcedRight /\ Numbers

-----------------------------------------------------------------------------
(* One session, as long as none is replaced. *)

One == "replaced" \notin mishaps
Awaiting == {"binding", "unwind", "stopping"}
Answered(s) == at[s].answer # "none"

\* Only the first session has been used.
Alone1 == /\ current = 1
          /\ \A s \in Sessions \ {1} : At(s, "idle") /\ at[s].op = "none"

\* What is queued: its command last, if it awaits it; before it commands given up.
QueueOf1 ==
  /\ \A i \in DOMAIN queue :
       /\ queue[i].by # 0 =>
            /\ i = Len(queue) /\ at[1].pc \in Awaiting /\ ~ Answered(1)
            /\ queue[i].by = 1
            /\ queue[i].cmd = IF At(1, "binding") THEN "start" ELSE "stop"
       /\ record = Own => queue[i].cmd = "stop"
       /\ "given up" \notin mishaps => queue[i].by = 1
  /\ (at[1].pc \in Awaiting /\ Answered(1)) \/ At(1, "persist") => queue = <<>>

\* The state file is what the call has read, until it changes it.
Knows1 ==
  /\ at[1].pc \in (OnRecord \ {"conclude"}) \union {"probe", "judge"} => at[1].rec = record
  /\ at[1].pc \in {"remove", "forget", "gone"} => at[1].rec.router \notin live
  /\ record = Own => at[1].pc \notin {"log", "binding"}
  /\ At(1, "vet") /\ record = Own => ~ on
  /\ At(1, "stopping") /\ at[1].answer = "ok" => ~ on

\* While no caller gave up, what is bound is recorded, or about to be.
Recorded1 ==
  /\ "given up" \notin mishaps /\ on /\ record # Own =>
       \/ At(1, "binding") /\ at[1].answer = "ok"
       \/ At(1, "persist")
       \/ At(1, "unwind") /\ ~ Answered(1)
  /\ At(1, "idle") /\ at[1].op = "stop" /\ at[1].reply = "ok" /\ mishaps = {} =>
       ~ on /\ record # Own
  /\ ~ At(1, "idle") => (at[1].op = "stop" <=> at[1].pc \in {"halt", "stopping"})

\* Where the trusted channel looks for a router, and uses it.
Looking == {"ask", "files", "probe", "judge", "decide", "dial", "vouch", "send"}

\* An answer is kept no longer than its call needs it.
Answer1 ==
  Answered(1) =>
    \/ at[1].pc \in Awaiting \union {"persist"}
    \/ At(1, "conclude") /\ at[1].answer = "kept"
    \/ /\ at[1].op = "fetch" /\ at[1].round = 3
       /\ at[1].pc \in Looking

Held == Alone1 /\ QueueOf1 /\ Knows1 /\ Recorded1
StateInv == One => Held /\ Answer1

-----------------------------------------------------------------------------
(* One attempt. *)

AttemptPlace ==
  /\ At(1, "announce") => signalled = {}
  /\ at[1].pc \in Signalling =>
       /\ attempt = Pending(1)
       /\ at[1].tried.gen = 1
       /\ signalled # {} => at[1].tried.signals # {}
       /\ \A x \in signalled : x.to = at[1].rec.router /\ x.by = self
  /\ at[1].pc \in Stopping =>
       at[1].rec.router.role \in {"legacy", "sibling"} /\ at[1].rec.manager \notin live

Attempted ==
  /\ signalled # {} => Known(attempt) /\ Blocks(attempt)
  /\ \A x, y \in signalled : x.to = y.to /\ x.by = y.by
  /\ \A x \in signalled : x.to.role \in {"legacy", "sibling"} /\ x.rec.manager \notin live

AttemptInv == One => Attempted /\ AttemptPlace

-----------------------------------------------------------------------------
(* What a step makes of a call. *)

Moves(s) == Set(s, at'[s]) /\ Sound(at'[s])

USE DEF Fields, OnRecord, Stopping, Signalling, Trusting, Seeing, Forcing

LEMMA Replies ==
  ASSUME Calls, NEW s \in Sessions, NEW code, Reply(s, code)
  PROVE  Moves(s) /\ at'[s].pc = "idle"
<1>1. at'[s] = [Free EXCEPT !.op = at[s].op, !.reply = code] /\ Set(s, at'[s])
  BY DEF Reply, Set, Calls
<1>2. at[s].op \in Ops \union {"none"}
  BY DEF Calls, Sound, Fits
<1>3. Sound(at'[s]) /\ at'[s].pc = "idle"
  BY <1>1, <1>2 DEF Free, Sound, Fits, KeyFits, ForceFits
<1>4. QED
  BY <1>1, <1>3 DEF Moves

\* Places at which a call only knows that its desktop runs.
Plain == {"begin", "files", "ask", "probe", "log", "binding", "persist", "unwind", "halt",
          "stopping", "prepare"}

\* From such a place a call may go to one whatever it holds.
LEMMA Goes ==
  ASSUME Calls, NEW s \in Sessions, at[s].pc # "idle", NEW pc \in Plain, Goto(s, pc)
  PROVE  Moves(s) /\ at'[s].pc = pc
<1>1. at'[s] = [at[s] EXCEPT !.pc = pc] /\ Set(s, at'[s]) /\ Sound(at[s])
  BY DEF Goto, Set, Calls
<1>2. Sound(at'[s]) /\ at'[s].pc = pc
  BY ZenonT(30), <1>1 DEF Plain, Sound, Fits, KeyFits, ForceFits
<1>3. QED
  BY <1>1, <1>2 DEF Moves

LEMMA Refuses ==
  ASSUME Calls, NEW s \in Sessions, NEW code, NEW stage, Refuse(s, code, stage)
  PROVE  Moves(s) /\ at'[s].pc = "idle"
  BY Replies DEF Refuse

LEMMA Starteds ==
  ASSUME Calls, NEW s \in Sessions, at[s].pc # "idle", NEW code, Started(s, code)
  PROVE  Moves(s) /\ at'[s].pc \in {"idle", "ask"}
<1>1. CASE at[s].op = "fetch"
  <2>1. /\ at'[s] = [at[s] EXCEPT !.pc = "ask", !.round = 3] /\ Set(s, at'[s])
        /\ Sound(at[s])
    BY <1>1 DEF Started, Set, Calls
  <2>2. Sound(at'[s]) /\ at'[s].pc = "ask"
    BY <2>1 DEF Sound, Fits, KeyFits, ForceFits
  <2>3. QED
    BY <2>1, <2>2 DEF Moves
<1>2. CASE at[s].op # "fetch"
  BY <1>2, Replies DEF Started
<1>3. QED
  BY <1>1, <1>2

LEMMA StartMoves ==
  ASSUME TypeInv, NEW s \in Sessions,
         Begin(s) \/ Vet(s) \/ Kin(s) \/ VetStale(s) \/ RemoveRecord(s)
  PROVE  Moves(s) /\ at'[s].pc \notin Forcing
<1>0. Calls /\ Sound(at[s]) /\ FileTypes
  BY DEF TypeInv, Calls
<1>1. CASE Begin(s)
  <2>1. CASE on /\ Started(s, "ok")
    BY <1>0, <1>1, <2>1, Starteds DEF Begin, At
  <2>2. CASE Refuse(s, "stale", "reconcile")
    BY <1>0, <2>2, Refuses
  <2>3. CASE /\ record # Corrupt
             /\ Set(s, [at[s] EXCEPT !.rec = record,
                                     !.pc = IF record = None THEN "files" ELSE "vet"])
    <3>1. /\ at'[s] = [at[s] EXCEPT !.rec = record,
                                    !.pc = IF record = None THEN "files" ELSE "vet"]
          /\ Set(s, at'[s])
      BY <1>0, <2>3 DEF Set, Calls
    <3>2. Sound(at'[s]) /\ at'[s].pc \notin Forcing
      BY <1>0, <1>1, <2>3, <3>1 DEF Begin, At, Sound, Fits, KeyFits, ForceFits, FileTypes
    <3>3. QED
      BY <3>1, <3>2 DEF Moves
  <2>4. QED
    BY <1>1, <2>1, <2>2, <2>3 DEF Begin
<1>2. CASE Vet(s) \/ VetStale(s)
  <2>1. CASE Goto(s, "files")
    BY <1>0, <1>2, <2>1, Goes DEF Vet, VetStale, At, Plain
  <2>2. ASSUME NEW pc \in {"kin", "stale", "port", "reused", "remove"}, Goto(s, pc)
        PROVE  Moves(s) /\ at'[s].pc \notin Forcing
    <3>1. at[s].pc \in {"vet", "stale", "port", "reused"} /\ at[s].rec \in SeenRecord
      BY <1>0, <1>2 DEF Vet, VetStale, At, Sound, Fits
    <3>2. at'[s] = [at[s] EXCEPT !.pc = pc] /\ Set(s, at'[s])
      BY <1>0, <2>2 DEF Goto, Set, Calls
    <3>3. Sound(at'[s]) /\ at'[s].pc = pc
      BY ZenonT(30), <1>0, <3>1, <3>2 DEF Sound, Fits, KeyFits, ForceFits
    <3>4. QED
      BY <3>2, <3>3 DEF Moves
  <2>3. QED
    BY <1>2, <2>1, <2>2 DEF Vet, VetStale
<1>a. CASE Kin(s)
  BY <1>0, <1>a, Refuses DEF Kin
<1>3. CASE RemoveRecord(s)
  BY <1>0, <1>3, Goes, Refuses DEF RemoveRecord, At, Plain
<1>4. QED
  BY <1>1, <1>2, <1>3, <1>a

LEMMA ClassKnows ==
  ASSUME NEW s \in Sessions, Sound(at[s])
  PROVE  /\ Class(s) = "desktop" => Known(at[s].rec) /\ at[s].open
         /\ Class(s) = "external" => Known(at[s].cli) /\ at[s].open
         /\ Class(s) = "absent" => ~ at[s].open
  BY DEF Class, OpenClass, ClosedClass

LEMMA LookMoves ==
  ASSUME TypeInv, NEW s \in Sessions,
         Ask(s) \/ ReadFiles(s) \/ Probe(s) \/ JudgePort(s) \/ Judge(s)
  PROVE  Moves(s) /\ at'[s].pc \notin Forcing
<1>0. Calls /\ Sound(at[s]) /\ FileTypes /\ MachineTypes
  BY DEF TypeInv, Calls
<1>1. CASE Ask(s)
  <2>1. CASE Goto(s, "files")
    BY <1>0, <1>1, <2>1, Goes DEF Ask, At, Plain
  <2>2. CASE on /\ ~ Goto(s, "files")
    <3>1. PICK c \in {"desktop", "degraded"} :
            Set(s, [at[s] EXCEPT !.class = c, !.rec = Own, !.seen = self, !.pc = "decide"])
      BY <1>1, <2>2 DEF Ask
    <3>2. /\ at'[s] = [at[s] EXCEPT !.class = c, !.rec = Own, !.seen = self, !.pc = "decide"]
          /\ Set(s, at'[s])
      BY <1>0, <3>1 DEF Set, Calls
    <3>3. self \in Seen /\ Own \in SeenRecord
      BY <1>0, <2>2 DEF MachineTypes, Own, SeenRecord
    <3>4. Sound(at'[s]) /\ at'[s].pc \notin Forcing
      BY <1>0, <1>1, <3>2, <3>3 DEF Ask, At, Sound, Fits, KeyFits, ForceFits
    <3>5. QED
      BY <3>2, <3>4 DEF Moves
  <2>3. QED
    BY <1>1, <2>1, <2>2 DEF Ask
<1>2. CASE ReadFiles(s)
  BY ZenonT(30), <1>0, <1>2 DEF ReadFiles, Moves, Set, At, Calls, Sound, Fits, KeyFits, ForceFits, FileTypes
<1>3. CASE Probe(s)
  <2>1. /\ at'[s] = [at[s] EXCEPT !.pc = "judge", !.open = bound # None,
                                  !.seen = IF bound # None /\ bound.role \in Speaks
                                           THEN bound ELSE None]
        /\ Set(s, at'[s]) /\ At(s, "probe")
    BY <1>0, <1>3 DEF Set, Calls, Probe
  <2>2. /\ at'[s].pc = "judge" /\ at'[s].seen \in live \union {None}
        /\ at'[s].rec = at[s].rec /\ at'[s].cli = at[s].cli /\ at'[s].trust = at[s].trust
        /\ at'[s].reply = at[s].reply /\ at'[s].op = at[s].op /\ DOMAIN at'[s] = Fields
    BY <1>0, <2>1 DEF MachineTypes, Sound, Fits
  <2>3. Fits(at'[s]) /\ ForceFits(at'[s])
    BY <1>0, <2>1, <2>2 DEF MachineTypes, Sound, Fits, ForceFits, At
  <2>4. KeyFits(at'[s])
    BY <1>0, <2>2 DEF MachineTypes, KeyFits
  <2>5. QED
    BY <2>1, <2>2, <2>3, <2>4 DEF Moves, Sound
<1>4. CASE JudgePort(s)
  <2>1. CASE Goto(s, "log")
    BY <1>0, <1>4, <2>1, Goes DEF JudgePort, At, Plain
  <2>2. CASE Started(s, "external")
    BY <1>0, <1>4, <2>2, Starteds DEF JudgePort, At
  <2>3. CASE \E code, stage : Refuse(s, code, stage)
    BY <1>0, <2>3, Refuses
  <2>4. QED
    BY <1>4, <2>1, <2>2, <2>3 DEF JudgePort
<1>5. CASE Judge(s)
  <2>1. /\ at'[s] = [at[s] EXCEPT !.class = Class(s), !.pc = "decide"]
        /\ Set(s, at'[s]) /\ At(s, "judge")
    BY <1>0, <1>5 DEF Set, Calls, Judge
  <2>2. /\ Class(s) = "desktop" => Known(at[s].rec)
        /\ Class(s) = "external" => Known(at[s].cli)
    BY <1>0, ClassKnows
  <2>3. Sound(at'[s]) /\ at'[s].pc \notin Forcing
    BY <1>0, <2>1, <2>2 DEF At, Sound, Fits, KeyFits, ForceFits, Known
  <2>4. QED
    BY <2>1, <2>3 DEF Moves
<1>6. QED
  BY <1>1, <1>2, <1>3, <1>4, <1>5

LEMMA SwitchMoves ==
  ASSUME TypeInv, NEW s \in Sessions,
         Launch(s) \/ Bound(s) \/ Persist(s) \/ Unwind(s) \/ GiveUp(s) \/ Halt(s) \/ Stopped(s)
  PROVE  Moves(s) /\ at'[s].pc \notin Forcing
<1>0. Calls /\ Sound(at[s])
  BY DEF TypeInv, Calls
<1>1. CASE Launch(s)
  BY <1>0, <1>1, Goes, Refuses DEF Launch, At, Plain
<1>2. CASE Bound(s)
  BY <1>0, <1>2, Goes, Refuses DEF Bound, At, Plain
<1>3. CASE Persist(s)
  <2>1. CASE Started(s, "ok")
    BY <1>0, <1>3, <2>1, Starteds DEF Persist, At
  <2>2. CASE Set(s, [at[s] EXCEPT !.pc = "unwind", !.answer = "none"])
    BY ZenonT(30), <1>0, <1>3, <2>2 DEF Persist, Moves, Set, At, Calls, Sound, Fits, KeyFits, ForceFits
  <2>3. QED
    BY <1>3, <2>1, <2>2 DEF Persist
<1>4. CASE Unwind(s)
  BY <1>0, <1>4, Refuses DEF Unwind
<1>5. CASE GiveUp(s)
  BY <1>0, <1>5, Replies DEF GiveUp
<1>6. CASE Halt(s)
  <2>1. CASE Goto(s, "stopping")
    BY <1>0, <1>6, <2>1, Goes DEF Halt, At, Plain
  <2>2. CASE \E code : Reply(s, code)
    BY <1>0, <2>2, Replies
  <2>3. QED
    BY <1>6, <2>1, <2>2 DEF Halt
<1>7. CASE Stopped(s)
  BY <1>0, <1>7, Replies DEF Stopped
<1>8. QED
  BY <1>1, <1>2, <1>3, <1>4, <1>5, <1>6, <1>7

LEMMA Outcomes ==
  ASSUME NEW t \in Attempt,
         NEW outcome \in {"pending", "stopped", "timeout", "changed", "refused", "reoccupied"}
  PROVE  LET new == [t EXCEPT !.outcome = outcome]
         IN /\ new \in Attempt /\ new.gen = t.gen /\ new.target = t.target
            /\ new.signals = t.signals /\ new.outcome = outcome
  BY DEF Attempt

LEMMA Signalled ==
  ASSUME NEW t \in Attempt, NEW kind \in {"interrupt", "kill"}
  PROVE  LET new == [t EXCEPT !.signals = @ \union {kind}]
         IN /\ new \in Attempt /\ new.gen = t.gen /\ new.target = t.target
            /\ new.signals = t.signals \union {kind} /\ new.outcome = t.outcome
  BY DEF Attempt

LEMMA Concluding ==
  ASSUME Calls, NEW s \in Sessions, at[s].pc \in Signalling,
         NEW outcome \in {"stopped", "timeout", "changed", "refused", "reoccupied"},
         NEW answer \in {at[s].answer, "kept"},
         Set(s, [at[s] EXCEPT !.pc = "conclude", !.tried = [@ EXCEPT !.outcome = outcome],
                              !.answer = answer])
  PROVE  /\ Moves(s) /\ at'[s].pc = "conclude" /\ at'[s].rec = at[s].rec
         /\ at'[s].tried = [at[s].tried EXCEPT !.outcome = outcome] /\ at'[s].answer = answer
<1> DEFINE new == [at[s].tried EXCEPT !.outcome = outcome]
<1>1. /\ at'[s] = [at[s] EXCEPT !.pc = "conclude", !.tried = new, !.answer = answer]
      /\ Set(s, at'[s]) /\ Sound(at[s])
  BY DEF Set, Calls
<1>2. new \in Attempt
  BY <1>1, Outcomes DEF Sound, Fits
<1> HIDE DEF new
<1>3. DOMAIN at[s] = Fields
  BY <1>1 DEF Sound, Fits
<1>4. /\ at'[s].pc = "conclude" /\ at'[s].tried = new /\ at'[s].rec = at[s].rec
      /\ at'[s].answer = answer
  BY <1>1, <1>3
<1>5. Sound(at'[s])
  BY <1>1, <1>2 DEF Sound, Fits, KeyFits, ForceFits
<1>6. QED
  BY <1>1, <1>4, <1>5 DEF Moves, new

LEMMA Concluded ==
  ASSUME Calls, NEW s \in Sessions, at[s].pc \in Signalling,
         NEW outcome \in {"stopped", "timeout", "changed", "refused", "reoccupied"},
         Concludes(s, outcome)
  PROVE  /\ Moves(s) /\ at'[s].pc = "conclude" /\ at'[s].rec = at[s].rec
         /\ at'[s].tried = [at[s].tried EXCEPT !.outcome = outcome]
         /\ at'[s].answer = at[s].answer
<1> DEFINE new == [at[s].tried EXCEPT !.outcome = outcome]
<1>1. /\ at'[s] = [at[s] EXCEPT !.pc = "conclude", !.tried = new]
      /\ Set(s, at'[s]) /\ Sound(at[s])
  BY DEF Set, Calls, Concludes
<1>2. new \in Attempt
  BY <1>1, Outcomes DEF Sound, Fits
<1> HIDE DEF new
<1>3. DOMAIN at[s] = Fields
  BY <1>1 DEF Sound, Fits
<1>4. /\ at'[s].pc = "conclude" /\ at'[s].tried = new /\ at'[s].rec = at[s].rec
      /\ at'[s].answer = at[s].answer
  BY <1>1, <1>3
<1>5. Sound(at'[s])
  BY <1>1, <1>2 DEF Sound, Fits, KeyFits, ForceFits
<1>6. QED
  BY <1>1, <1>4, <1>5 DEF Moves, new

LEMMA Pendings ==
  ASSUME NEW s \in Sessions, at[s].rec \in SeenRecord
  PROVE  Pending(s) \in Attempt
  BY DEF Pending, Attempt, SeenRecord, Seen

LEMMA LegacyMoves ==
  ASSUME TypeInv, NEW s \in Sessions,
         Prepare(s) \/ VetLegacy(s) \/ Forget(s) \/ Recall(s) \/ Announce(s)
  PROVE  Moves(s) /\ at'[s].pc \notin Forcing
<1>0. Calls /\ Sound(at[s]) /\ FileTypes
  BY DEF TypeInv, Calls
<1>1. CASE Prepare(s)
  <2>1. CASE Goto(s, "begin")
    BY <1>0, <1>1, <2>1, Goes DEF Prepare, At, Plain
  <2>2. CASE Refuse(s, "stale", "reconcile")
    BY <1>0, <2>2, Refuses
  <2>3. CASE Known(record) /\ Set(s, [at[s] EXCEPT !.rec = record, !.pc = "vet legacy"])
    BY <1>0, <1>1, <2>3
       DEF Prepare, Moves, Set, At, Calls, Sound, Fits, KeyFits, ForceFits, FileTypes, Known
  <2>4. QED
    BY <1>1, <2>1, <2>2, <2>3 DEF Prepare
<1>2. CASE VetLegacy(s)
  <2>1. CASE \E pc \in {"recall", "forget"} : Goto(s, pc)
    <3>1. PICK pc \in {"recall", "forget"} : Goto(s, pc)
      BY <2>1
    <3>2. QED
      BY <1>0, <1>2, <3>1
         DEF VetLegacy, Moves, Goto, Set, At, Calls, Sound, Fits, KeyFits, ForceFits
  <2>2. CASE \E code : Refuse(s, code, "reconcile")
    BY <1>0, <2>2, Refuses
  <2>3. QED
    BY <1>2, <2>1, <2>2 DEF VetLegacy
<1>3. CASE Forget(s)
  BY <1>0, <1>3, Goes, Refuses DEF Forget, At, Plain
<1>4. CASE Recall(s)
  <2>1. CASE Goto(s, "announce")
    BY <1>0, <1>4, <2>1 DEF Recall, Moves, Goto, Set, At, Calls, Sound, Fits, KeyFits, ForceFits
  <2>2. CASE \E code : Refuse(s, code, "reconcile")
    BY <1>0, <2>2, Refuses
  <2>3. QED
    BY <1>4, <2>1, <2>2 DEF Recall
<1>5. CASE Announce(s)
  <2>1. CASE Set(s, [at[s] EXCEPT !.pc = "interrupt", !.tried = Pending(s)])
    <3>1. /\ at'[s] = [at[s] EXCEPT !.pc = "interrupt", !.tried = Pending(s)]
          /\ Set(s, at'[s]) /\ at[s].rec \in SeenRecord /\ At(s, "announce")
      BY <1>0, <1>5, <2>1 DEF Announce, Set, At, Calls, Sound, Fits
    <3>2. Pending(s) \in Attempt
      BY <3>1, Pendings
    <3>3. Sound(at'[s]) /\ at'[s].pc \notin Forcing
      BY <1>0, <3>1, <3>2 DEF At, Sound, Fits, KeyFits, ForceFits
    <3>4. QED
      BY <3>1, <3>3 DEF Moves
  <2>2. CASE Refuse(s, "stale", "reconcile")
    BY <1>0, <2>2, Refuses
  <2>3. QED
    BY <1>5, <2>1, <2>2 DEF Announce
<1>6. QED
  BY <1>1, <1>2, <1>3, <1>4, <1>5

LEMMA SignalMoves ==
  ASSUME TypeInv, NEW s \in Sessions,
         \/ SignalLegacy(s, "interrupt", "wait") \/ WaitLegacy(s, "wait", "kill")
         \/ SignalLegacy(s, "kill", "wait long") \/ WaitLegacy(s, "wait long", "timeout")
         \/ Clear(s) \/ Conclude(s)
  PROVE  Moves(s) /\ at'[s].pc \notin Forcing
<1>0. Calls /\ Sound(at[s])
  BY DEF TypeInv, Calls
<1>1. ASSUME NEW kind \in {"interrupt", "kill"}, NEW after \in {"wait", "wait long"},
             SignalLegacy(s, kind, after)
      PROVE  Moves(s) /\ at'[s].pc \notin Forcing
  <2>0. At(s, kind) /\ at[s].pc \in Signalling
    BY <1>1 DEF SignalLegacy, At
  <2>1. CASE Set(s, [at[s] EXCEPT !.pc = after, !.tried.signals = @ \union {kind}])
    <3> DEFINE new == [at[s].tried EXCEPT !.signals = at[s].tried.signals \union {kind}]
    <3>1. /\ at'[s] = [at[s] EXCEPT !.pc = after, !.tried = new] /\ Set(s, at'[s])
      BY <1>0, <2>1 DEF Set, Calls
    <3>2. new \in Attempt
      BY <1>0, <2>0, Signalled DEF Sound, Fits
    <3> HIDE DEF new
    <3>3. Sound(at'[s]) /\ at'[s].pc \notin Forcing
      BY <1>0, <2>0, <3>1, <3>2 DEF Sound, Fits, KeyFits, ForceFits
    <3>4. QED
      BY <3>1, <3>3 DEF Moves
  <2>2. CASE \E outcome \in {"refused", "changed"} : Concludes(s, outcome)
    BY <1>0, <2>0, <2>2, Concluded
  <2>3. CASE Goto(s, after)
    BY <1>0, <2>0, <2>3 DEF Moves, Goto, Set, Calls, Sound, Fits, KeyFits, ForceFits
  <2>4. QED
    BY <1>1, <2>1, <2>2, <2>3 DEF SignalLegacy
<1>2. ASSUME NEW pc \in {"wait", "wait long"}, NEW late \in {"kill", "timeout"},
             WaitLegacy(s, pc, late)
      PROVE  Moves(s) /\ at'[s].pc \notin Forcing
  <2>0. At(s, pc) /\ at[s].pc \in Signalling
    BY <1>2 DEF WaitLegacy, At
  <2>1. CASE \E next \in {"gone", "kill"} : Goto(s, next)
    <3>1. PICK next \in {"gone", "kill"} : Goto(s, next)
      BY <2>1
    <3>2. QED
      BY <1>0, <2>0, <3>1 DEF Moves, Goto, Set, Calls, Sound, Fits, KeyFits, ForceFits
  <2>2. CASE \E outcome \in {"changed", "timeout"} : Concludes(s, outcome)
    BY <1>0, <2>0, <2>2, Concluded
  <2>3. QED
    BY <1>2, <2>1, <2>2 DEF WaitLegacy
<1>3. CASE Clear(s)
  <2>0. at[s].pc \in Signalling
    BY <1>3 DEF Clear, At
  <2>1. CASE \E outcome \in {"stopped", "reoccupied"} : Concludes(s, outcome)
    BY <1>0, <2>0, <2>1, Concluded
  <2>2. CASE Set(s, [at[s] EXCEPT !.pc = "conclude", !.tried = [@ EXCEPT !.outcome = "stopped"],
                                  !.answer = "kept"])
    BY <1>0, <2>0, <2>2, Concluding
  <2>3. QED
    BY <1>3, <2>1, <2>2 DEF Clear
<1>4. CASE Conclude(s)
  <2>1. CASE Set(s, [at[s] EXCEPT !.pc = "begin", !.tried = None])
    BY ZenonT(30), <1>0, <1>4, <2>1 DEF Conclude, Moves, Set, At, Calls, Sound, Fits, KeyFits, ForceFits
  <2>2. CASE Refuse(s, at[s].tried.outcome, "reconcile")
    BY <1>0, <2>2, Refuses
  <2>3. QED
    BY <1>4, <2>1, <2>2 DEF Conclude
<1>5. QED
  BY <1>1, <1>2, <1>3, <1>4

LEMMA DecideMoves ==
  ASSUME TypeInv, NEW s \in Sessions,
         \/ ReplyStatus(s) \/ Inspect(s) \/ Strike(s) \/ Release(s)
         \/ Establish(s) \/ Dial(s) \/ Vouch(s) \/ Send(s)
  PROVE  Moves(s) /\ at'[s].pc \notin Forcing
<1>0. Calls /\ Sound(at[s]) /\ MachineTypes
  BY DEF TypeInv, Calls
<1>1. CASE \E code : Reply(s, code)
  BY <1>0, <1>1, Replies
<1>2. CASE Strike(s) /\ Goto(s, "release")
  BY <1>0, <1>2 DEF Strike, Moves, Goto, Set, At, Calls, Sound, Fits, KeyFits, ForceFits
<1>3. CASE /\ At(s, "decide") /\ Set(s, [at[s] EXCEPT !.pc = "begin", !.round = 2])
  BY ZenonT(30), <1>0, <1>3 DEF Moves, Set, At, Calls, Sound, Fits, KeyFits, ForceFits
<1>4. CASE /\ At(s, "decide") /\ at[s].class = "desktop"
           /\ Set(s, [at[s] EXCEPT !.pc = "dial", !.trust = at[s].rec.router])
  <2>1. at[s].rec.router \in Seen
    BY <1>0, <1>4 DEF At, Sound, Fits, SeenRecord
  <2>2. QED
    BY <1>0, <1>4, <2>1 DEF Moves, Set, At, Calls, Sound, Fits, KeyFits, ForceFits
<1>5. CASE /\ At(s, "decide") /\ at[s].class = "external"
           /\ Set(s, [at[s] EXCEPT !.pc = "dial", !.trust = at[s].cli])
  BY <1>0, <1>5 DEF Moves, Set, At, Calls, Sound, Fits, KeyFits, ForceFits
<1>6. CASE /\ Dial(s) /\ bound # None /\ bound.role \in Personal /\ bound.pid = at[s].trust.pid
           /\ Set(s, [at[s] EXCEPT !.pc = "vouch", !.seen = bound])
  <2>1. bound \in Seen
    BY <1>0, <1>6 DEF MachineTypes
  <2>2. QED
    BY ZenonT(30), <1>0, <1>6, <2>1 DEF Dial, Moves, Set, At, Calls, Sound, Fits, KeyFits, ForceFits
<1>7. CASE Vouch(s) /\ Validate(at[s].trust) = "genuine" /\ Goto(s, "send")
  <2>1. at[s].trust \in live
    BY <1>7 DEF Validate
  <2>2. at[s].seen \in live => at[s].seen = at[s].trust
    BY <1>0, <1>7, <2>1 DEF Vouch, At, Sound, Fits, KeyFits, MachineTypes
  <2>3. QED
    BY <1>0, <1>7, <2>2 DEF Vouch, Moves, Goto, Set, At, Calls, Sound, Fits, KeyFits, ForceFits
<1>8. QED
  BY <1>1, <1>2, <1>3, <1>4, <1>5, <1>6, <1>7
     DEF ReplyStatus, Inspect, Strike, Release, Establish, Dial, Vouch, Send

LEMMA TakeMoves ==
  ASSUME TypeInv, NEW s \in Sessions, TakeToken(s)
  PROVE  /\ Moves(s) /\ at'[s].pc # "strike"
         /\ at'[s].pc \in Forcing => token[s] # None /\ at'[s].given = token[s].id
<1>0. Calls /\ Sound(at[s]) /\ SessionTypes
  BY DEF TypeInv, Calls
<1>1. CASE Reply(s, "refused")
  BY <1>0, <1>1, Replies
<1>2. CASE /\ token[s] # None /\ token[s].id = at[s].given
           /\ Set(s, [at[s] EXCEPT !.pc = "look again", !.trust = token[s].target])
  <2>1. /\ at'[s] = [at[s] EXCEPT !.pc = "look again", !.trust = token[s].target]
        /\ Set(s, at'[s]) /\ At(s, "decide")
    BY <1>0, <1>2 DEF TakeToken, Set, Calls
  <2>2. token[s].target \in Seen /\ token[s].id \in 1..tokens
    BY <1>0, <1>2 DEF SessionTypes
  <2>3. at'[s].pc = "look again" /\ at'[s].given = token[s].id
    BY <1>0, <1>2, <2>1 DEF Sound, Fits
  <2>4. Sound(at'[s])
    BY <1>0, <2>1, <2>2, <2>3 DEF At, Sound, Fits, KeyFits, ForceFits
  <2>5. QED
    BY <1>2, <2>1, <2>3, <2>4 DEF Moves
<1>3. QED
  BY <1>1, <1>2 DEF TakeToken

LEMMA AgainMoves ==
  ASSUME TypeInv, NEW s \in Sessions, LookAgain(s)
  PROVE  /\ Moves(s) /\ at'[s].pc \in {"idle", "strike"}
         /\ at'[s].pc = "strike" => at'[s].given = at[s].given
<1>0. Calls /\ Sound(at[s]) /\ MachineTypes
  BY DEF TypeInv, Calls
<1>1. CASE Reply(s, "changed")
  BY <1>0, <1>1, Replies
<1>2. CASE ~ Reply(s, "changed")
  <2>1. /\ at'[s] = [at[s] EXCEPT !.pc = "strike", !.seen = bound]
        /\ Set(s, at'[s]) /\ At(s, "look again")
    BY <1>0, <1>2 DEF LookAgain, Owner, Set, Calls
  <2>2. /\ bound \in Seen /\ bound.pid = at[s].trust.pid
        /\ at[s].trust.role # "opaque" => bound = at[s].trust
        /\ self # None => bound.pid # self.pid
    BY <1>0, <1>2 DEF LookAgain, Owner, Protected, MachineTypes
  <2>3. /\ at'[s].pc = "strike" /\ at'[s].given = at[s].given /\ at'[s].seen = bound
        /\ at'[s].trust = at[s].trust
    BY <1>0, <2>1 DEF Sound, Fits
  <2>4. Sound(at'[s])
    BY <1>0, <2>1, <2>2, <2>3 DEF At, Sound, Fits, KeyFits, ForceFits
  <2>5. QED
    BY <2>1, <2>3, <2>4 DEF Moves
<1>3. QED
  BY <1>1, <1>2

LEMMA CallMoves ==
  ASSUME TypeInv, NEW s \in Sessions, NEW op \in Ops, Call(s, op)
  PROVE  /\ Moves(s) /\ at'[s].op = op /\ at'[s].pc \in {"begin", "halt", "prepare", "ask"}
         /\ s = current /\ at'[s].reply = "none"
<1>0. Calls /\ Sound(at[s]) /\ SessionTypes
  BY DEF TypeInv, Calls
<1>1. PICK t, pc : /\ at' = [at EXCEPT ![s] = [Free EXCEPT !.op = op, !.given = t, !.pc = pc]]
                   /\ pc \in {"begin", "halt", "prepare", "ask"}
  BY DEF Call, Set
<1>2. /\ at'[s] = [Free EXCEPT !.op = op, !.given = t, !.pc = pc] /\ Set(s, at'[s])
      /\ self # None
  BY <1>0, <1>1 DEF Set, Calls, Call
<1>3. /\ at'[s].op = op /\ at'[s].pc = pc /\ at'[s].reply = "none" /\ DOMAIN at'[s] = Fields
      /\ at'[s].rec = None /\ at'[s].cli = None /\ at'[s].seen = None /\ at'[s].trust = None
  BY <1>2 DEF Free
<1>4. Sound(at'[s])
  BY <1>1, <1>2, <1>3 DEF Sound, Fits, KeyFits, ForceFits
<1>5. QED
  BY <1>1, <1>2, <1>3, <1>4 DEF Moves, Call

-----------------------------------------------------------------------------
(* What a step leaves alone, and what it writes. *)

\* A call stays sound while processes start and end: those it names have been
\* seen, and none of them comes back.
LEMMA Lasts ==
  ASSUME MachineTypes, NEW r, Sound(r), r.pc # "idle" => self' = self,
         born' \in 0..MaxBorn, born <= born', \A p \in Seen : p \in live' => p \in live,
         tokens \in Nat, tokens' \in Nat, tokens <= tokens'
  PROVE  Sound(r)'
<1>1. Seen \subseteq Seen' /\ SeenRecord \subseteq SeenRecord'
  BY MachineAssumption DEF Seen, SeenRecord, MachineTypes, Process
<1>2. Fits(r)'
  BY <1>1 DEF Sound, Fits
<1>3. ForceFits(r)'
  <2>1. 1..tokens \subseteq 1..tokens'
    OBVIOUS
  <2>2. QED
    BY <2>1 DEF Sound, ForceFits
<1>4. r.cli \in Seen \union {None, Corrupt} /\ RouterOf(r.rec) \in Seen \union {None, Corrupt}
  BY DEF Sound, Fits, RouterOf, Known, SeenRecord
<1>5. KeyFits(r)'
  BY <1>4 DEF Sound, KeyFits, Fits
<1>6. QED
  BY <1>2, <1>3, <1>5 DEF Sound

LEMMA CallsKept ==
  ASSUME TypeInv, NEW s \in Sessions, Moves(s), UNCHANGED <<live, born, self>>,
         tokens' \in Nat, tokens <= tokens'
  PROVE  Calls'
<1>0. MachineTypes /\ SessionTypes /\ Calls
  BY DEF TypeInv
<1>1. DOMAIN at' = Sessions /\ \A t \in Sessions \ {s} : at'[t] = at[t]
  BY <1>0 DEF Moves, Set, Calls
<1>2. \A t \in Sessions : Sound(at'[t])
  BY <1>0, <1>1 DEF Moves, Calls
<1>a. tokens \in Nat /\ born \in 0..MaxBorn
  BY <1>0 DEF MachineTypes, SessionTypes
<1>3. /\ born' \in 0..MaxBorn /\ born <= born' /\ tokens \in Nat
      /\ \A p \in Seen : p \in live' => p \in live
  BY <1>a, MachineAssumption
<1>4. ASSUME NEW t \in Sessions PROVE Sound(at[t])'
  <2>1. PICK r : r = at'[t]
    OBVIOUS
  <2>2. Sound(r)
    BY <1>2, <2>1
  <2>3. Sound(r)'
    BY <1>0, <1>3, <2>2, Lasts
  <2>4. QED
    BY <2>1, <2>3
<1>5. QED
  BY <1>1, <1>4 DEF Calls

Latches == [Sessions -> {"none", "reconcile", "other"}]
Queues == Seq(Command)

\* Steps that write neither files nor queue.
Quiet == UNCHANGED <<machine, self, switch, files, current, token, history>>

LEMMA RefuseLatches ==
  ASSUME SessionTypes, NEW s \in Sessions, NEW code, NEW stage \in {"none", "reconcile", "other"},
         Refuse(s, code, stage)
  PROVE  latch' \in Latches
  BY DEF SessionTypes, Refuse, Latches

LEMMA StartedLatches ==
  ASSUME SessionTypes, NEW s \in Sessions, NEW code, Started(s, code)
  PROVE  latch' \in Latches
  BY DEF SessionTypes, Started, Latches

LEMMA QuietSteps ==
  ASSUME SessionTypes, NEW s \in Sessions,
         \/ Begin(s) \/ Kin(s) \/ VetStale(s) \/ Ask(s) \/ ReadFiles(s) \/ Probe(s)
         \/ JudgePort(s) \/ Judge(s) \/ Bound(s) \/ Unwind(s) \/ Prepare(s) \/ VetLegacy(s) \/ Recall(s)
         \/ WaitLegacy(s, "wait", "kill") \/ WaitLegacy(s, "wait long", "timeout")
         \/ ReplyStatus(s) \/ LookAgain(s) \/ Release(s) \/ Establish(s) \/ Dial(s) \/ Vouch(s)
         \/ \E op \in Ops : Call(s, op)
  PROVE  Quiet /\ latch' \in Latches
<1>1. Quiet
  BY DEF Begin, Kin, VetStale, Ask, ReadFiles, Probe, JudgePort, Judge, Bound, Unwind, Prepare, VetLegacy,
         Recall, WaitLegacy, ReplyStatus, LookAgain, Release, Establish, Dial, Vouch, Call,
         Quiet
<1>2. latch' = latch => latch' \in Latches
  BY DEF SessionTypes, Latches
<1>3. ASSUME NEW code, NEW stage \in {"none", "reconcile", "other"}, Refuse(s, code, stage)
      PROVE  latch' \in Latches
  BY <1>3, RefuseLatches
<1>4. ASSUME NEW code, Started(s, code)
      PROVE  latch' \in Latches
  BY <1>4, StartedLatches
<1>5. QED
  BY <1>1, <1>2, <1>3, <1>4
     DEF Begin, Kin, VetStale, Ask, ReadFiles, Probe, JudgePort, Judge, Bound, Unwind, Prepare, VetLegacy,
         Recall, WaitLegacy, ReplyStatus, LookAgain, Release, Establish, Dial, Vouch, Call

Writing(s) ==
  /\ UNCHANGED <<live, born, bound, on, self, cli, current>> /\ doomed' \subseteq live
  /\ record' \in {record, None} \/ (record' = Own /\ self # None)
  /\ attempt' \in Attempt \union {None, Corrupt}
  /\ queue' \in Queues /\ latch' \in Latches
  /\ mishaps' \subseteq mishaps \union {"given up", "kept"}

Numbering ==
  /\ tokens' \in {tokens, tokens + 1}
  /\ token' \in [Sessions -> [id: 1..tokens', target: Seen] \union {None}]

Noting ==
  /\ signalled' \subseteq signalled \union
                  [kind: {"interrupt", "kill"}, to: Seen, by: Seen, rec: SeenRecord]
  /\ forced' \subseteq forced \union [to: Seen, shown: Seen, id: 1..tokens]
  /\ keys' \subseteq keys \union [to: Seen, trust: Seen]

LEMMA SelfSeen ==
  ASSUME MachineTypes, self # None
  PROVE  self \in Seen /\ Own \in SeenRecord
<1>1. self \in Seen
  BY DEF MachineTypes
<1>2. QED
  BY <1>1 DEF Own, SeenRecord

LEMMA TypesKept ==
  ASSUME TypeInv, self # None, NEW s \in Sessions, Moves(s), Writing(s), Numbering, Noting
  PROVE  TypeInv'
<1>1. MachineTypes /\ FileTypes /\ SessionTypes /\ HistoryTypes
  BY DEF TypeInv
<1>2. Seen' = Seen /\ SeenRecord' = SeenRecord /\ UNCHANGED <<live, born, self>>
  BY DEF Seen, SeenRecord, Writing
<1>a. tokens \in Nat /\ tokens' \in {tokens, tokens + 1}
  BY <1>1 DEF SessionTypes, Numbering
<1>3. tokens' \in Nat /\ tokens <= tokens'
  BY <1>a
<1>4. Calls'
  BY <1>a, <1>2, <1>3, CallsKept
<1>5. MachineTypes'
  BY <1>1, <1>2 DEF MachineTypes, Writing
<1>6. FileTypes'
  <2>1. self # None => Own \in SeenRecord
    BY <1>1, SelfSeen
  <2>2. record' \in SeenRecord \union {None, Corrupt}
    BY <1>1, <2>1 DEF FileTypes, Writing
  <2>3. QED
    BY <1>1, <1>2, <2>2 DEF FileTypes, Writing
<1>7. SessionTypes'
  <2>1. /\ current' \in Sessions /\ DOMAIN at' = Sessions
        /\ mishaps' \subseteq {"replaced", "given up", "kept"}
    BY <1>1, <1>4 DEF SessionTypes, Calls, Writing
  <2>2. QED
    BY <1>2, <1>3, <2>1 DEF SessionTypes, Queues, Latches, Writing, Numbering
<1>8. HistoryTypes'
  <2>1. 1..tokens \subseteq 1..tokens'
    BY <1>a, <1>3
  <2>2. [to: Seen, shown: Seen, id: 1..tokens] \subseteq [to: Seen, shown: Seen, id: 1..tokens']
    BY <2>1
  <2>3. /\ signalled' \subseteq [kind: {"interrupt", "kill"}, to: Seen, by: Seen, rec: SeenRecord]
        /\ forced' \subseteq [to: Seen, shown: Seen, id: 1..tokens']
        /\ keys' \subseteq [to: Seen, trust: Seen]
    BY <1>1, <2>2 DEF HistoryTypes, Noting
  <2>4. QED
    BY <1>2, <2>3 DEF HistoryTypes
<1>9. QED
  BY <1>4, <1>5, <1>6, <1>7, <1>8 DEF TypeInv

LEMMA Unnumbered ==
  ASSUME TypeInv, UNCHANGED <<tokens, token, signalled, forced, keys>>
  PROVE  Numbering /\ Noting
  BY DEF TypeInv, SessionTypes, Numbering, Noting

\* What is queued stays well formed.
LEMMA Appends ==
  ASSUME SessionTypes, NEW s \in Sessions, NEW cmd \in {"start", "stop"}
  PROVE  Append(queue, [cmd |-> cmd, by |-> s]) \in Queues
<1>1. [cmd |-> cmd, by |-> s] \in Command /\ queue \in Seq(Command)
  BY DEF SessionTypes, Command
<1>2. QED
  BY <1>1, AppendProperties DEF Queues

LEMMA Orphaned ==
  ASSUME SessionTypes, NEW s \in Sessions
  PROVE  [i \in DOMAIN queue |-> IF queue[i].by = s THEN [queue[i] EXCEPT !.by = 0]
                                 ELSE queue[i]] \in Queues
<1>1. queue \in Seq(Command)
  BY DEF SessionTypes
<1>2. DOMAIN queue = 1..Len(queue) /\ Len(queue) \in Nat
  BY <1>1, LenProperties
<1>3. \A i \in 1..Len(queue) : queue[i] \in Command
  BY <1>1, ElementOfSeq
<1>4. \A e \in Command : [e EXCEPT !.by = 0] \in Command
  BY DEF Command
<1>5. [i \in 1..Len(queue) |-> IF queue[i].by = s THEN [queue[i] EXCEPT !.by = 0]
                               ELSE queue[i]] \in [1..Len(queue) -> Command]
  BY <1>3, <1>4
<1>6. QED
  BY <1>2, <1>5, SeqDef DEF Queues

Unnoted == UNCHANGED <<tokens, token, signalled, forced, keys>>

LEMMA QuietWrites ==
  ASSUME TypeInv, NEW s \in Sessions, Quiet, latch' \in Latches
  PROVE  Writing(s) /\ Unnoted
<1>0. doomed \subseteq live
  BY DEF TypeInv, MachineTypes
<1>1. FileTypes /\ SessionTypes
  BY DEF TypeInv
<1>2. queue \in Queues /\ attempt \in Attempt \union {None, Corrupt}
  BY <1>1 DEF FileTypes, SessionTypes, Queues
<1>3. QED
  BY <1>0, <1>2 DEF Writing, Unnoted, Quiet, machine, switch, files, history

LEMMA StateWrites ==
  ASSUME TypeInv, NEW s \in Sessions, Vet(s) \/ RemoveRecord(s) \/ Halt(s) \/ Stopped(s)
  PROVE  Writing(s) /\ Unnoted
<1>0. doomed \subseteq live
  BY DEF TypeInv, MachineTypes
<1>1. FileTypes /\ SessionTypes
  BY DEF TypeInv
<1>2. /\ queue \in Queues /\ attempt \in Attempt \union {None, Corrupt} /\ latch \in Latches
      /\ Append(queue, [cmd |-> "stop", by |-> s]) \in Queues
  BY <1>1, Appends DEF FileTypes, SessionTypes, Queues, Latches
<1>3. ASSUME NEW code, Refuse(s, code, "reconcile") PROVE latch' \in Latches
  BY <1>1, <1>3, RefuseLatches
<1>4. CASE Vet(s)
  BY <1>0, <1>2, <1>3, <1>4 DEF Vet, Writing, Unnoted, TryRemove, Mishap, switch, machine
<1>5. CASE RemoveRecord(s)
  BY <1>0, <1>2, <1>3, <1>5 DEF RemoveRecord, Writing, Unnoted, switch, history, machine
<1>6. CASE Halt(s)
  BY <1>0, <1>2, <1>6 DEF Halt, Writing, Unnoted, TryRemove, Mishap, machine
<1>7. CASE Stopped(s)
  BY <1>0, <1>2, <1>7 DEF Stopped, Writing, Unnoted, TryRemove, Mishap, switch, machine
<1>8. QED
  BY <1>4, <1>5, <1>6, <1>7

LEMMA SwitchWrites ==
  ASSUME TypeInv, NEW s \in Sessions, Launch(s) \/ Persist(s) \/ GiveUp(s)
  PROVE  Writing(s) /\ Unnoted
<1>0. doomed \subseteq live
  BY DEF TypeInv, MachineTypes
<1>1. FileTypes /\ SessionTypes /\ Sound(at[s])
  BY DEF TypeInv, Calls
<1>2. /\ queue \in Queues /\ attempt \in Attempt \union {None, Corrupt} /\ latch \in Latches
      /\ Append(queue, [cmd |-> "stop", by |-> s]) \in Queues
      /\ Append(queue, [cmd |-> "start", by |-> s]) \in Queues
  BY <1>1, Appends DEF FileTypes, SessionTypes, Queues, Latches
<1>3. ASSUME NEW code, Refuse(s, code, "other") PROVE latch' \in Latches
  BY <1>1, <1>3, RefuseLatches
<1>4. CASE Launch(s)
  BY <1>0, <1>2, <1>3, <1>4 DEF Launch, Writing, Unnoted, files, history, machine
<1>5. CASE Persist(s)
  <2>1. self # None
    BY <1>1, <1>5 DEF Persist, At, Sound, Fits
  <2>2. Started(s, "ok") => latch' \in Latches
    BY <1>1, StartedLatches
  <2>3. QED
    BY <1>0, <1>2, <1>5, <2>1, <2>2 DEF Persist, Writing, Unnoted, files, history, machine
<1>6. CASE GiveUp(s)
  <2>1. queue' \in Queues
    BY <1>1, <1>6, Orphaned DEF GiveUp
  <2>2. QED
    BY <1>0, <1>2, <1>6, <2>1 DEF GiveUp, Writing, Unnoted, Mishap, files, machine
<1>7. QED
  BY <1>4, <1>5, <1>6

LEMMA AttemptWrites ==
  ASSUME TypeInv, NEW s \in Sessions, Forget(s) \/ Announce(s) \/ Clear(s) \/ Conclude(s)
  PROVE  Writing(s) /\ Unnoted
<1>0. doomed \subseteq live
  BY DEF TypeInv, MachineTypes
<1>1. FileTypes /\ SessionTypes /\ Sound(at[s])
  BY DEF TypeInv, Calls
<1>2. queue \in Queues /\ attempt \in Attempt \union {None, Corrupt} /\ latch \in Latches
  BY <1>1 DEF FileTypes, SessionTypes, Queues, Latches
<1>3. ASSUME NEW code, Refuse(s, code, "reconcile") PROVE latch' \in Latches
  BY <1>1, <1>3, RefuseLatches
<1>4. CASE Forget(s)
  <2>1. Known(attempt) => [attempt EXCEPT !.outcome = "stopped"] \in Attempt
    BY <1>0, <1>2, Outcomes DEF Known
  <2>2. attempt' \in Attempt \union {None, Corrupt}
    BY <1>0, <1>2, <1>4, <2>1 DEF Forget
  <2>3. QED
    BY <1>0, <1>2, <1>3, <1>4, <2>2 DEF Forget, Writing, Unnoted, switch, history, machine
<1>5. CASE Announce(s)
  <2>1. Pending(s) \in Attempt
    BY <1>1, <1>5, Pendings DEF Announce, At, Sound, Fits
  <2>2. QED
    BY <1>0, <1>2, <1>3, <1>5, <2>1 DEF Announce, Writing, Unnoted, switch, history, machine
<1>6. CASE Clear(s)
  BY <1>0, <1>2, <1>6 DEF Clear, Writing, Unnoted, switch, history, machine
<1>7. CASE Conclude(s)
  <2>1. at[s].tried \in Attempt
    BY <1>1, <1>7 DEF Conclude, At, Sound, Fits
  <2>2. QED
    BY <1>0, <1>2, <1>3, <1>7, <2>1 DEF Conclude, Writing, Unnoted, switch, history, machine
<1>8. QED
  BY <1>4, <1>5, <1>6, <1>7

LEMMA Counting ==
  ASSUME NEW n \in Nat
  PROVE  /\ n + 1 \in 1..(n + 1) /\ 1..n \subseteq 1..(n + 1)
         /\ \A i \in 1..n : i # n + 1
<1>1. n + 1 \in 1..(n + 1)
  OBVIOUS
<1>2. 1..n \subseteq 1..(n + 1)
  OBVIOUS
<1>3. \A i \in 1..n : i # n + 1
  OBVIOUS
<1>4. QED
  BY <1>1, <1>2, <1>3

LEMMA NotingSteps ==
  ASSUME TypeInv, NEW s \in Sessions,
         \/ Inspect(s) \/ TakeToken(s) \/ Strike(s) \/ Send(s)
         \/ SignalLegacy(s, "interrupt", "wait") \/ SignalLegacy(s, "kill", "wait long")
  PROVE  Writing(s) /\ Numbering /\ Noting
<1>1. MachineTypes /\ FileTypes /\ SessionTypes /\ Sound(at[s])
  BY DEF TypeInv, Calls
<1>2. /\ queue \in Queues /\ attempt \in Attempt \union {None, Corrupt} /\ latch \in Latches
      /\ doomed \subseteq live /\ live \subseteq Seen /\ bound \in live \union {None}
      /\ tokens \in Nat /\ token \in [Sessions -> [id: 1..tokens, target: Seen] \union {None}]
  BY <1>1 DEF MachineTypes, FileTypes, SessionTypes, Queues, Latches
<1>3. UNCHANGED <<tokens, token>> => Numbering
  BY <1>2 DEF Numbering
<1>4. CASE Inspect(s)
  <2>1. Writing(s) /\ Noting
    BY <1>2, <1>4 DEF Inspect, Writing, Noting, machine, switch, files
  <2>2. ASSUME token' = [token EXCEPT ![s] = [id |-> tokens + 1, target |-> bound]],
               tokens' = tokens + 1, bound # None
        PROVE  Numbering
    <3>a. tokens \in Nat /\ bound \in Seen
      BY <1>2, <2>2
    <3>1. tokens + 1 \in 1..(tokens + 1) /\ 1..tokens \subseteq 1..(tokens + 1)
      BY <3>a, Counting
    <3>2. [id |-> tokens + 1, target |-> bound] \in [id: 1..(tokens + 1), target: Seen]
      BY <3>a, <3>1
    <3>3. [id: 1..tokens, target: Seen] \subseteq [id: 1..(tokens + 1), target: Seen]
      BY <3>1
    <3>4. token' \in [Sessions -> [id: 1..(tokens + 1), target: Seen] \union {None}]
      BY <1>2, <2>2, <3>2, <3>3
    <3>5. QED
      BY <2>2, <3>4 DEF Numbering
  <2>3. ASSUME token' = [token EXCEPT ![s] = None], tokens' = tokens
        PROVE  Numbering
    BY <1>2, <2>3 DEF Numbering
  <2>4. QED
    BY <1>4, <2>1, <2>2, <2>3 DEF Inspect, Owner
<1>5. CASE TakeToken(s)
  <2>1. Writing(s) /\ Noting
    BY <1>2, <1>5 DEF TakeToken, Writing, Noting, machine, switch, files, history
  <2>2. token' = [token EXCEPT ![s] = None] /\ tokens' = tokens
    BY <1>5 DEF TakeToken, history
  <2>3. Numbering
    BY <1>2, <2>2 DEF Numbering
  <2>4. QED
    BY <2>1, <2>3
<1>6. CASE Strike(s)
  <2>1. Writing(s) /\ UNCHANGED <<tokens, token, signalled, keys>>
    BY <1>2, <1>6 DEF Strike, Holder, Writing, switch, files
  <2>2. at[s].trust \in Seen /\ at[s].given \in 1..tokens
    BY <1>1, <1>6 DEF Strike, At, Sound, Fits, ForceFits
  <2>3. \A f \in forced' \ forced : \E q \in live : f = [to |-> q, shown |-> at[s].trust,
                                                         id |-> at[s].given]
    BY <1>6 DEF Strike, Holder
  <2>4. ASSUME NEW f \in forced' \ forced PROVE f \in [to: Seen, shown: Seen, id: 1..tokens]
    <3>1. PICK q \in live : f = [to |-> q, shown |-> at[s].trust, id |-> at[s].given]
      BY <2>3
    <3>2. QED
      BY <1>2, <2>2, <3>1
  <2>5. QED
    BY <1>3, <2>1, <2>4 DEF Noting
<1>7. CASE Send(s)
  <2>1. Writing(s) /\ UNCHANGED <<tokens, token, signalled, forced>>
    BY <1>2, <1>7 DEF Send, Writing, machine, switch, files
  <2>2. at[s].trust \in Seen /\ at[s].seen \in Seen
    BY <1>1, <1>7 DEF Send, At, Sound, Fits
  <2>3. \A k \in keys' \ keys : k = [to |-> at[s].seen, trust |-> at[s].trust]
    BY <1>7 DEF Send
  <2>4. [to |-> at[s].seen, trust |-> at[s].trust] \in [to: Seen, trust: Seen]
    BY <2>2
  <2>5. QED
    BY <1>3, <2>1, <2>3, <2>4 DEF Noting
<1>8. ASSUME NEW kind \in {"interrupt", "kill"}, NEW after, SignalLegacy(s, kind, after)
      PROVE  Writing(s) /\ Numbering /\ Noting
  <2>1. at[s].rec \in SeenRecord /\ at[s].rec.router \in Seen /\ self \in Seen
    <3>1. at[s].rec \in SeenRecord /\ self # None
      BY <1>1, <1>8 DEF SignalLegacy, At, Sound, Fits
    <3>2. QED
      BY <1>1, <3>1, SelfSeen DEF SeenRecord
  <2>2. /\ UNCHANGED <<live, born, bound, self, switch, files, current, latch, token, forced, keys,
                       tokens, mishaps>>
        /\ doomed' \subseteq doomed \union {at[s].rec.router}
        /\ doomed' # doomed => at[s].rec.router \in live
        /\ signalled' \subseteq signalled \union
              {[kind |-> kind, to |-> at[s].rec.router, by |-> self, rec |-> at[s].rec]}
    BY <1>8 DEF SignalLegacy, Signal, Validate
  <2>3. Writing(s)
    BY <1>2, <2>2 DEF Writing, switch, files
  <2>4. Noting
    <3>1. [kind |-> kind, to |-> at[s].rec.router, by |-> self, rec |-> at[s].rec]
            \in [kind: {"interrupt", "kill"}, to: Seen, by: Seen, rec: SeenRecord]
      BY <2>1
    <3>2. QED
      BY <2>2, <3>1 DEF Noting
  <2>5. QED
    BY <1>3, <2>2, <2>3, <2>4
<1>9. QED
  BY <1>4, <1>5, <1>6, <1>7, <1>8

LEMMA StepsRun ==
  ASSUME Calls, NEW s \in Sessions, Step(s) \/ (\E op \in Ops : Call(s, op)) \/ GiveUp(s)
  PROVE  self # None
<1>1. Sound(at[s])
  BY DEF Calls
<1>2. Step(s) => at[s].pc # "idle"
  BY DEF Step, At, Begin, Vet, Kin, VetStale, RemoveRecord, Ask, ReadFiles, Probe, JudgePort, Judge, Launch,
         Bound, Persist, Unwind, Halt, Stopped, Prepare, VetLegacy, Forget, Recall, Announce,
         SignalLegacy, WaitLegacy, Clear, Conclude, ReplyStatus, Inspect, TakeToken, LookAgain,
         Strike, Release, Establish, Dial, Vouch, Send
<1>3. QED
  BY <1>1, <1>2 DEF Sound, Fits, GiveUp, Call

LEMMA Writes ==
  ASSUME TypeInv, NEW s \in Sessions, Step(s) \/ (\E op \in Ops : Call(s, op)) \/ GiveUp(s)
  PROVE  /\ Moves(s) /\ Writing(s) /\ Numbering /\ Noting
         /\ TakeToken(s) \/ LookAgain(s) \/ at'[s].pc \notin Forcing
         /\ Inspect(s) \/ TakeToken(s) \/ UNCHANGED <<tokens, token>>
         /\ Strike(s) \/ forced' = forced
         /\ Send(s) \/ keys' = keys
<1>0. SessionTypes
  BY DEF TypeInv
<1>1. CASE \E op \in Ops : Call(s, op)
  <2>1. PICK op \in Ops : Call(s, op)
    BY <1>1
  <2>2. Quiet /\ latch' \in Latches
    BY <1>0, <2>1, QuietSteps
  <2>3. Moves(s) /\ at'[s].pc \notin Forcing
    BY <2>1, CallMoves
  <2>4. QED
    BY <2>2, <2>3, QuietWrites, Unnumbered DEF Unnoted
<1>2. CASE GiveUp(s)
  <2>1. Moves(s) /\ at'[s].pc \notin Forcing
    BY <1>2, SwitchMoves
  <2>2. QED
    BY <1>2, <2>1, SwitchWrites, Unnumbered DEF Unnoted
<1>3. CASE \/ Begin(s) \/ Kin(s) \/ VetStale(s) \/ Ask(s) \/ ReadFiles(s) \/ Probe(s) \/ JudgePort(s) \/ Judge(s)
           \/ Bound(s) \/ Unwind(s) \/ Prepare(s) \/ VetLegacy(s) \/ Recall(s)
           \/ WaitLegacy(s, "wait", "kill") \/ WaitLegacy(s, "wait long", "timeout")
           \/ ReplyStatus(s) \/ LookAgain(s) \/ Release(s) \/ Establish(s) \/ Dial(s) \/ Vouch(s)
  <2>1. Quiet /\ latch' \in Latches
    BY <1>0, <1>3, QuietSteps
  <2>2. Moves(s) /\ (LookAgain(s) \/ at'[s].pc \notin Forcing)
    BY <1>3, StartMoves, LookMoves, SwitchMoves, LegacyMoves, SignalMoves, DecideMoves, AgainMoves
  <2>3. QED
    BY <2>1, <2>2, QuietWrites, Unnumbered DEF Unnoted
<1>4. CASE \/ Vet(s) \/ RemoveRecord(s) \/ Halt(s) \/ Stopped(s) \/ Launch(s) \/ Persist(s)
           \/ Forget(s) \/ Announce(s) \/ Clear(s) \/ Conclude(s)
  <2>1. Writing(s) /\ Unnoted
    BY <1>4, StateWrites, SwitchWrites, AttemptWrites
  <2>2. Moves(s) /\ at'[s].pc \notin Forcing
    BY <1>4, StartMoves, SwitchMoves, LegacyMoves, SignalMoves
  <2>3. QED
    BY <2>1, <2>2, Unnumbered DEF Unnoted
<1>5. CASE \/ Inspect(s) \/ TakeToken(s) \/ Strike(s) \/ Send(s)
           \/ SignalLegacy(s, "interrupt", "wait") \/ SignalLegacy(s, "kill", "wait long")
  <2>1. Writing(s) /\ Numbering /\ Noting
    BY <1>5, NotingSteps
  <2>2. Moves(s) /\ (TakeToken(s) \/ at'[s].pc \notin Forcing)
    BY <1>5, SignalMoves, DecideMoves, TakeMoves
  <2>3. /\ Inspect(s) \/ TakeToken(s) \/ UNCHANGED <<tokens, token>>
        /\ Strike(s) \/ forced' = forced
        /\ Send(s) \/ keys' = keys
    BY <1>5 DEF Inspect, TakeToken, Strike, Send, SignalLegacy, history
  <2>4. QED
    BY <2>1, <2>2, <2>3
<1>6. QED
  BY <1>1, <1>2, <1>3, <1>4, <1>5 DEF Step

-----------------------------------------------------------------------------
(* The key and force, step by step. *)

LEMMA KeysStay ==
  ASSUME SafeInv, NEW s \in Sessions, Send(s) \/ keys' = keys
  PROVE  KeysRight'
<1>1. Sound(at[s]) /\ KeysRight
  BY DEF SafeInv, TypeInv, Calls
<1>2. CASE Send(s)
  BY <1>1, <1>2 DEF Send, At, Sound, KeyFits, KeysRight
<1>3. QED
  BY <1>1, <1>2 DEF KeysRight

\* A step that gives no session a token, and none a number to use.
LEMMA NumbersStay ==
  ASSUME Calls, Numbers, NEW s \in Sessions, Set(s, at'[s]), UNCHANGED <<tokens, token, forced>>,
         at'[s].pc \in Forcing => at[s].pc \in Forcing /\ at'[s].given = at[s].given
  PROVE  Numbers'
<1>1. \A t \in Sessions : at'[t].pc \in Forcing =>
                            at[t].pc \in Forcing /\ at'[t].given = at[t].given
  BY DEF Calls, Set
<1>2. TokensApart' /\ GivenApart'
  BY <1>1 DEF Numbers, TokensApart, GivenApart
<1>3. GivenTaken'
  BY <1>1 DEF Numbers, GivenTaken
<1>4. ForcedUsed'
  <2>1. ASSUME NEW f \in forced', NEW t \in Sessions
        PROVE  /\ token'[t] # None => f.id # token'[t].id
               /\ at'[t].pc \in Forcing => f.id # at'[t].given
    <3>1. /\ token[t] # None => f.id # token[t].id
          /\ at[t].pc \in Forcing => f.id # at[t].given
      BY DEF Numbers, ForcedUsed
    <3>2. QED
      BY <1>1, <3>1
  <2>2. QED
    BY <2>1 DEF ForcedUsed
<1>5. QED
  BY <1>2, <1>3, <1>4 DEF Numbers

LEMMA InspectNumbers ==
  ASSUME SafeInv, NEW s \in Sessions, Inspect(s), at'[s].pc \notin Forcing, Set(s, at'[s])
  PROVE  Numbers'
<1>1. SessionTypes /\ HistoryTypes /\ Calls /\ Numbers
  BY DEF SafeInv, TypeInv
<1>2. /\ tokens \in Nat /\ \A t \in Sessions : token[t] # None => token[t].id \in 1..tokens
      /\ \A f \in forced : f.id \in 1..tokens
      /\ DOMAIN token = Sessions
  BY <1>1 DEF SessionTypes, HistoryTypes
<1>3. /\ forced' = forced
      /\ \A t \in Sessions : at'[t].pc \in Forcing => t # s /\ at'[t] = at[t]
      /\ \A t \in Sessions : at[t].pc \in Forcing => at[t].given \in 1..tokens
  BY <1>1 DEF Inspect, Calls, Set, Sound, ForceFits
<1>4. /\ \A t \in Sessions \ {s} : token'[t] = token[t]
      /\ token'[s] # None => token'[s].id = tokens + 1
  <2>1. CASE token' = [token EXCEPT ![s] = None]
    BY <1>2, <2>1
  <2>2. CASE token' = [token EXCEPT ![s] = [id |-> tokens + 1, target |-> Owner]]
    BY <1>2, <2>2
  <2>3. QED
    BY <2>1, <2>2 DEF Inspect
<1>a. \A i \in 1..tokens : i # tokens + 1
  BY <1>2, Counting
<1>b. /\ \A t \in Sessions : token[t] # None => token[t].id # tokens + 1
      /\ \A t \in Sessions : at[t].pc \in Forcing => at[t].given # tokens + 1
      /\ \A f \in forced : f.id # tokens + 1
  BY <1>2, <1>3, <1>a
<1>5. TokensApart'
  BY <1>1, <1>4, <1>b DEF Numbers, TokensApart
<1>6. GivenApart'
  BY <1>1, <1>3 DEF Numbers, GivenApart
<1>7. GivenTaken'
  BY ZenonT(30), <1>1, <1>3, <1>4, <1>b DEF Numbers, GivenTaken
<1>8. ForcedUsed'
  <2>1. ASSUME NEW f \in forced', NEW t \in Sessions
        PROVE  /\ token'[t] # None => f.id # token'[t].id
               /\ at'[t].pc \in Forcing => f.id # at'[t].given
    <3>1. /\ f.id # tokens + 1
          /\ token[t] # None => f.id # token[t].id
          /\ at[t].pc \in Forcing => f.id # at[t].given
      BY <1>1, <1>3, <1>b DEF Numbers, ForcedUsed
    <3>2. QED
      BY <1>3, <1>4, <3>1
  <2>2. QED
    BY <2>1 DEF ForcedUsed
<1>9. QED
  BY <1>5, <1>6, <1>7, <1>8 DEF Numbers

LEMMA TakeNumbers ==
  ASSUME SafeInv, NEW s \in Sessions, TakeToken(s), Set(s, at'[s])
  PROVE  Numbers'
<1>1. SessionTypes /\ Calls /\ Numbers
  BY DEF SafeInv, TypeInv
<1>2. at'[s].pc \in Forcing => token[s] # None /\ at'[s].given = token[s].id
  BY TakeMoves DEF SafeInv
<1>3. /\ UNCHANGED <<tokens, forced>>
      /\ token'[s] = None /\ \A t \in Sessions \ {s} : token'[t] = token[t] /\ at'[t] = at[t]
  BY <1>1 DEF TakeToken, history, SessionTypes, Calls, Set
<1>4. TokensApart'
  BY <1>1, <1>3 DEF Numbers, TokensApart
<1>5. GivenApart'
  <2>1. ASSUME NEW u \in Sessions, NEW t \in Sessions, u # t, at'[u].pc \in Forcing,
               at'[t].pc \in Forcing
        PROVE  at'[u].given # at'[t].given
    <3>1. CASE u = s
      BY <1>1, <1>2, <1>3, <2>1, <3>1 DEF Numbers, GivenTaken
    <3>2. CASE t = s
      BY <1>1, <1>2, <1>3, <2>1, <3>2 DEF Numbers, GivenTaken
    <3>3. CASE u # s /\ t # s
      BY <1>1, <1>3, <2>1, <3>3 DEF Numbers, GivenApart
    <3>4. QED
      BY <3>1, <3>2, <3>3
  <2>2. QED
    BY <2>1 DEF GivenApart
<1>6. GivenTaken'
  <2>1. ASSUME NEW u \in Sessions, NEW t \in Sessions, token'[u] # None, at'[t].pc \in Forcing
        PROVE  token'[u].id # at'[t].given
    <3>1. u # s /\ token'[u] = token[u]
      BY <1>3, <2>1
    <3>2. CASE t = s
      <4>1. token[s] # None /\ at'[s].given = token[s].id
        BY <1>2, <2>1, <3>2
      <4>2. token[u].id # token[s].id
        BY <1>1, <2>1, <3>1, <4>1 DEF Numbers, TokensApart
      <4>3. QED
        BY <3>1, <3>2, <4>1, <4>2
    <3>3. CASE t # s
      <4>1. at'[t] = at[t]
        BY <1>3, <3>3
      <4>2. QED
        BY <1>1, <2>1, <3>1, <4>1 DEF Numbers, GivenTaken
    <3>4. QED
      BY <3>2, <3>3
  <2>2. QED
    BY <2>1 DEF GivenTaken
<1>7. ForcedUsed'
  <2>1. ASSUME NEW f \in forced', NEW t \in Sessions
        PROVE  /\ token'[t] # None => f.id # token'[t].id
               /\ at'[t].pc \in Forcing => f.id # at'[t].given
    <3>1. /\ token[t] # None => f.id # token[t].id
          /\ at[t].pc \in Forcing => f.id # at[t].given
      BY <1>1, <1>3 DEF Numbers, ForcedUsed
    <3>2. QED
      BY <1>2, <1>3, <3>1
  <2>2. QED
    BY <2>1 DEF ForcedUsed
<1>8. QED
  BY <1>4, <1>5, <1>6, <1>7 DEF Numbers

LEMMA StrikeForces ==
  ASSUME SafeInv, NEW s \in Sessions, Strike(s), at'[s].pc \notin Forcing, Set(s, at'[s])
  PROVE  ForcedRight' /\ Numbers'
<1>1. MachineTypes /\ SessionTypes /\ HistoryTypes /\ Calls /\ Numbers /\ ForcedRight /\ Sound(at[s])
  BY DEF SafeInv, TypeInv, Calls
<1> DEFINE p == at[s].seen
           shown == at[s].trust
           n == at[s].given
           hit == IF shown.role = "opaque" THEN Holder(p.pid) ELSE {p} \intersect live
<1>2. /\ UNCHANGED <<tokens, token, self>>
      /\ forced' = forced \union {[to |-> q, shown |-> shown, id |-> n] : q \in hit}
  BY DEF Strike
<1>a. at[s].pc = "strike"
  BY DEF Strike, At
<1>b. p.pid = shown.pid /\ p.pid # self.pid /\ (shown.role # "opaque" => p = shown)
  BY <1>1, <1>a DEF Sound, ForceFits
<1>c. \A f \in forced : f.id # n
  BY <1>1, <1>a DEF Numbers, ForcedUsed
<1>d. \A t \in Sessions : token[t] # None => token[t].id # n
  BY <1>1, <1>a DEF Numbers, GivenTaken
<1>3. /\ p.pid = shown.pid /\ p.pid # self.pid /\ (shown.role # "opaque" => p = shown)
      /\ \A f \in forced : f.id # n
      /\ \A t \in Sessions : token[t] # None => token[t].id # n
  BY <1>b, <1>c, <1>d
<1>4. \A q \in hit : q.pid = p.pid /\ q # self /\ (shown.role # "opaque" => q = p)
  BY <1>3 DEF Holder
<1>5. \A q, r \in hit : q = r
  BY <1>1 DEF Holder, MachineTypes
<1> HIDE DEF p, shown, n, hit
<1>6. \A f \in forced' : f \in forced \/ \E q \in hit : f = [to |-> q, shown |-> shown, id |-> n]
  BY <1>2
<1>7. ForcedRight'
  <2>1. ASSUME NEW f \in forced'
        PROVE  /\ f.to.pid = f.shown.pid /\ (f.shown.role # "opaque" => f.to = f.shown)
               /\ f.to # self'
    <3>1. CASE f \in forced
      BY <1>1, <1>2, <3>1 DEF ForcedRight
    <3>2. CASE \E q \in hit : f = [to |-> q, shown |-> shown, id |-> n]
      <4>1. PICK q \in hit : f = [to |-> q, shown |-> shown, id |-> n]
        BY <3>2
      <4>2. f.to = q /\ f.shown = shown /\ q.pid = p.pid /\ q # self
            /\ (shown.role # "opaque" => q = p)
        BY <1>4, <4>1
      <4>3. QED
        BY <1>2, <1>3, <4>2
    <3>3. QED
      BY <1>6, <3>1, <3>2
  <2>2. ASSUME NEW f \in forced', NEW g \in forced', f.id = g.id
        PROVE  f = g
    <3>1. CASE f \in forced /\ g \in forced
      BY <1>1, <2>2, <3>1 DEF ForcedRight
    <3>2. CASE f \notin forced
      <4>1. PICK q \in hit : f = [to |-> q, shown |-> shown, id |-> n]
        BY <1>6, <3>2
      <4>2. g \notin forced
        BY <1>3, <2>2, <4>1
      <4>3. PICK r \in hit : g = [to |-> r, shown |-> shown, id |-> n]
        BY <1>6, <4>2
      <4>4. QED
        BY <1>5, <4>1, <4>3
    <3>3. CASE g \notin forced
      <4>1. PICK q \in hit : g = [to |-> q, shown |-> shown, id |-> n]
        BY <1>6, <3>3
      <4>2. f \notin forced
        BY <1>3, <2>2, <4>1
      <4>3. PICK r \in hit : f = [to |-> r, shown |-> shown, id |-> n]
        BY <1>6, <4>2
      <4>4. QED
        BY <1>5, <4>1, <4>3
    <3>4. QED
      BY <3>1, <3>2, <3>3
  <2>3. QED
    BY <2>1, <2>2 DEF ForcedRight
<1>8. Numbers'
  <2>1. ASSUME NEW f \in forced' PROVE f \in forced \/ f.id = n
    <3>1. CASE \E q \in hit : f = [to |-> q, shown |-> shown, id |-> n]
      <4>1. PICK q \in hit : f = [to |-> q, shown |-> shown, id |-> n]
        BY <3>1
      <4>2. QED
        BY <4>1
    <3>2. QED
      BY <1>6, <3>1
  <2>2. \A t \in Sessions : at'[t].pc \in Forcing => t # s /\ at'[t] = at[t]
    BY <1>1 DEF Calls, Set
  <2>3. TokensApart' /\ GivenApart' /\ GivenTaken'
    BY ZenonT(30), <1>1, <1>2, <2>2 DEF Numbers, TokensApart, GivenApart, GivenTaken
  <2>4. \A t \in Sessions \ {s} : at[t].pc \in Forcing => at[t].given # n
    BY <1>1, <1>a DEF Numbers, GivenApart, n
  <2>5. ASSUME NEW f \in forced', NEW t \in Sessions
        PROVE  /\ token'[t] # None => f.id # token'[t].id
               /\ at'[t].pc \in Forcing => f.id # at'[t].given
    <3>1. CASE f \in forced
      <4>1. /\ token[t] # None => f.id # token[t].id
            /\ at[t].pc \in Forcing => f.id # at[t].given
        BY <1>1, <3>1 DEF Numbers, ForcedUsed
      <4>2. QED
        BY <1>2, <2>2, <4>1
    <3>2. CASE f.id = n
      BY <1>2, <1>3, <2>2, <2>4, <3>2
    <3>3. QED
      BY <2>1, <3>1, <3>2
  <2>6. QED
    BY <2>3, <2>5 DEF Numbers, ForcedUsed
<1>9. QED
  BY <1>7, <1>8

LEMMA StepsAreSafe ==
  ASSUME SafeInv, NEW s \in Sessions, Step(s) \/ (\E op \in Ops : Call(s, op)) \/ GiveUp(s)
  PROVE  SafeInv'
<1>0. TypeInv /\ Calls /\ Numbers /\ ForcedRight
  BY DEF SafeInv, TypeInv
<1>1. /\ Moves(s) /\ Writing(s) /\ Numbering /\ Noting
      /\ TakeToken(s) \/ LookAgain(s) \/ at'[s].pc \notin Forcing
      /\ Inspect(s) \/ TakeToken(s) \/ UNCHANGED <<tokens, token>>
      /\ Strike(s) \/ forced' = forced
      /\ Send(s) \/ keys' = keys
  BY <1>0, Writes
<1>2. TypeInv'
  BY <1>0, <1>1, StepsRun, TypesKept
<1>3. KeysRight'
  BY <1>1, KeysStay
<1>4. forced' = forced => ForcedRight'
  BY <1>0, <1>1 DEF ForcedRight, Writing
<1>5. CASE TakeToken(s)
  <2>1. forced' = forced
    BY <1>5 DEF TakeToken, history
  <2>2. Numbers'
    BY <1>1, <1>5, TakeNumbers DEF Moves
  <2>3. QED
    BY <1>2, <1>3, <1>4, <2>1, <2>2 DEF SafeInv
<1>6. CASE Inspect(s)
  <2>1. forced' = forced /\ at'[s].pc \notin Forcing
    BY <1>0, <1>6, DecideMoves DEF Inspect
  <2>2. Numbers'
    BY <1>1, <1>6, <2>1, InspectNumbers DEF Moves
  <2>3. QED
    BY <1>2, <1>3, <1>4, <2>1, <2>2 DEF SafeInv
<1>7. CASE Strike(s)
  <2>1. at'[s].pc \notin Forcing
    BY <1>0, <1>7, DecideMoves
  <2>2. QED
    BY <1>1, <1>2, <1>3, <1>7, <2>1, StrikeForces DEF SafeInv, Moves
<1>8. CASE ~ TakeToken(s) /\ ~ Inspect(s) /\ ~ Strike(s)
  <2>1. at'[s].pc \in Forcing => at[s].pc \in Forcing /\ at'[s].given = at[s].given
    BY <1>0, <1>1, <1>8, AgainMoves DEF LookAgain, At
  <2>2. Numbers'
    BY <1>0, <1>1, <1>8, <2>1, NumbersStay DEF Moves
  <2>3. QED
    BY <1>1, <1>2, <1>3, <1>4, <1>8, <2>2 DEF SafeInv
<1>9. QED
  BY <1>5, <1>6, <1>7, <1>8

-----------------------------------------------------------------------------
(* The supervisor, the computer, and the desktop's own beginning and end. *)

LEMMA CallsLast ==
  ASSUME MachineTypes, tokens \in Nat, tokens' = tokens, DOMAIN at' = Sessions,
         \A t \in Sessions : Sound(at'[t]) /\ (at'[t].pc # "idle" => self' = self),
         born' \in 0..MaxBorn, born <= born', \A p \in Seen : p \in live' => p \in live
  PROVE  Calls'
<1>1. tokens' \in Nat /\ tokens <= tokens'
  OBVIOUS
<1>2. ASSUME NEW t \in Sessions PROVE Sound(at[t])'
  <2>1. PICK r : r = at'[t]
    OBVIOUS
  <2>2. Sound(r) /\ (r.pc # "idle" => self' = self)
    BY <2>1
  <2>3. Sound(r)'
    BY <1>1, <2>2, Lasts
  <2>4. QED
    BY <2>1, <2>3
<1>3. QED
  BY <1>2 DEF Calls

\* What the files, the history and the sessions name has been seen for ever.
LEMMA Older ==
  ASSUME MachineTypes, FileTypes, SessionTypes, HistoryTypes, born' \in 0..MaxBorn, born <= born'
  PROVE  /\ Seen \subseteq Seen' /\ SeenRecord \subseteq SeenRecord'
         /\ UNCHANGED files => FileTypes'
         /\ UNCHANGED <<signalled, forced, keys, tokens>> => HistoryTypes'
<1>1. Seen \subseteq Seen' /\ SeenRecord \subseteq SeenRecord'
  BY MachineAssumption DEF Seen, SeenRecord, MachineTypes, Process
<1>2. UNCHANGED files => FileTypes'
  BY <1>1 DEF files, FileTypes
<1>3. /\ [kind: {"interrupt", "kill"}, to: Seen, by: Seen, rec: SeenRecord]
           \subseteq [kind: {"interrupt", "kill"}, to: Seen', by: Seen', rec: SeenRecord']
      /\ [to: Seen, shown: Seen, id: 1..tokens] \subseteq [to: Seen', shown: Seen', id: 1..tokens]
      /\ [to: Seen, trust: Seen] \subseteq [to: Seen', trust: Seen']
  BY <1>1
<1>4. UNCHANGED <<signalled, forced, keys, tokens>> => HistoryTypes'
  BY <1>3 DEF HistoryTypes
<1>5. QED
  BY <1>1, <1>2, <1>4

LEMMA FreeSound ==
  Sound(Free) /\ Free.pc = "idle" /\ Free.op = "none" /\ Free.reply = "none"
  BY DEF Free, Sound, Fits, KeyFits, ForceFits

LEMMA FreshSeen ==
  ASSUME MachineTypes, NEW p, Spawn(p)
  PROVE  /\ p \in Process /\ p.born = born + 1 /\ p \notin Seen /\ p \in Seen'
         /\ \A q \in live : q.pid # p.pid
         /\ born' \in 0..MaxBorn /\ born <= born' /\ live' = live \union {p}
         /\ \A q \in Seen : q \in live' => q \in live
<1>1. born \in Nat /\ born + 1 \in 1..MaxBorn /\ born' = born + 1 /\ live' = live \union {p}
  BY MachineAssumption DEF MachineTypes, Spawn
<1>2. PICK i \in Pids \ {q.pid : q \in live} : p = [pid |-> i, born |-> born + 1, role |-> p.role]
  BY DEF Spawn, Fresh
<1>3. p \in Process /\ p.born = born + 1 /\ \A q \in live : q.pid # p.pid
  BY <1>1, <1>2 DEF Process, Spawn
<1>4. ~ (born + 1 <= born) /\ born + 1 <= born'
  BY <1>1
<1>5. p \notin Seen /\ p \in Seen'
  BY <1>3, <1>4 DEF Seen
<1>6. QED
  BY <1>1, <1>3, <1>5

LEMMA SpawnKeeps ==
  ASSUME MachineTypes, NEW p, Spawn(p), bound' \in {bound, p}, doomed' = doomed,
         self' \in {self, p}, self' = p => p.role = "app", on' = on,
         on => bound' = bound /\ self' = self
  PROVE  MachineTypes'
<1>1. /\ p \in Seen' /\ \A q \in live : q.pid # p.pid
      /\ born' \in 0..MaxBorn /\ born <= born' /\ live' = live \union {p}
  BY FreshSeen
<1>2. Seen \subseteq Seen'
  BY <1>1, MachineAssumption DEF Seen, MachineTypes, Process
<1>3. live' \subseteq Seen' /\ \A q, r \in live' : q.pid = r.pid => q = r
  BY <1>1, <1>2 DEF MachineTypes
<1>4. QED
  BY <1>1, <1>3 DEF MachineTypes

LEMMA DieKeeps ==
  ASSUME MachineTypes, NEW p, Die(p), self' \in {self, None}, self' # p, on' \in {on, FALSE},
         on' => self' = self /\ self # p
  PROVE  /\ MachineTypes' /\ born' \in 0..MaxBorn /\ born <= born' /\ live' \subseteq live
<1>1. /\ live' = live \ {p} /\ doomed' = doomed \ {p} /\ born' = born
      /\ bound' = IF bound = p THEN None ELSE bound
  BY DEF Die
<1>2. Seen' = Seen /\ born \in 0..MaxBorn
  BY <1>1 DEF Seen, MachineTypes
<1>3. born <= born'
  BY <1>1, <1>2, MachineAssumption
<1>4. /\ live' \subseteq Seen' /\ doomed' \subseteq live' /\ bound' \in live' \union {None}
      /\ \A q, r \in live' : q.pid = r.pid => q = r
      /\ self' \in live' \union {None}
      /\ self' # None => self'.role = "app"
  BY <1>1, <1>2 DEF MachineTypes
<1>5. on' \in BOOLEAN /\ (on' => bound' = self' /\ self' # None)
  <2>1. CASE on' = FALSE
    BY <2>1
  <2>2. CASE on' = on
    <3>1. on \in BOOLEAN /\ (on => bound = self /\ self # None)
      BY DEF MachineTypes
    <3>2. on => bound' = bound
      BY <1>1, <2>2, <3>1
    <3>3. QED
      BY <2>2, <3>1, <3>2
  <2>3. QED
    BY <2>1, <2>2
<1>6. MachineTypes'
  BY <1>1, <1>2, <1>4, <1>5 DEF MachineTypes
<1>7. QED
  BY <1>1, <1>2, <1>3, <1>6

LEMMA ComputerIsSafe ==
  ASSUME SafeInv, MachineTypes', FileTypes', SessionTypes', HistoryTypes', Calls',
         UNCHANGED <<forced, keys>>,
         self' \in {self, None} \/ self' \notin Seen,
         \A t \in Sessions :
           /\ at'[t].pc \in Forcing => at[t].pc \in Forcing /\ at'[t].given = at[t].given
           /\ token'[t] \in {token[t], None}
  PROVE  SafeInv'
<1>1. HistoryTypes /\ Numbers /\ ForcedRight /\ KeysRight
  BY DEF SafeInv, TypeInv
<1>2. KeysRight'
  BY <1>1 DEF KeysRight
<1>3. ForcedRight'
  <2>1. ASSUME NEW f \in forced PROVE f.to # self'
    <3>1. f.to \in Seen /\ f.to # self
      BY <1>1 DEF HistoryTypes, ForcedRight
    <3>2. None \notin Seen
      BY FilesAssumption DEF Seen
    <3>3. QED
      BY <3>1, <3>2
  <2>2. QED
    BY <1>1, <2>1 DEF ForcedRight
<1>4. TokensApart'
  BY <1>1 DEF Numbers, TokensApart
<1>5. GivenApart'
  BY <1>1 DEF Numbers, GivenApart
<1>6. GivenTaken'
  BY <1>1 DEF Numbers, GivenTaken
<1>7. ForcedUsed'
  <2>1. ASSUME NEW f \in forced', NEW t \in Sessions
        PROVE  /\ token'[t] # None => f.id # token'[t].id
               /\ at'[t].pc \in Forcing => f.id # at'[t].given
    <3>1. /\ token[t] # None => f.id # token[t].id
          /\ at[t].pc \in Forcing => f.id # at[t].given
      BY <1>1 DEF Numbers, ForcedUsed
    <3>2. QED
      BY <3>1
  <2>2. QED
    BY <2>1 DEF ForcedUsed
<1>8. QED
  BY <1>2, <1>3, <1>4, <1>5, <1>6, <1>7 DEF SafeInv, TypeInv, Numbers

\* Who runs stays who ran.
LEMMA SameMachine ==
  ASSUME MachineTypes, FileTypes, SessionTypes, HistoryTypes, UNCHANGED <<live, born>>
  PROVE  /\ Seen' = Seen /\ SeenRecord' = SeenRecord
         /\ born' \in 0..MaxBorn /\ born <= born' /\ \A p \in Seen : p \in live' => p \in live
         /\ tokens \in Nat
<1>1. born \in 0..MaxBorn /\ tokens \in Nat
  BY DEF MachineTypes, SessionTypes
<1>2. QED
  BY <1>1, MachineAssumption DEF Seen, SeenRecord

\* What a call may do by force is in what it saw, trusted and was given.
LEMMA SameForce ==
  ASSUME NEW r, NEW q, ForceFits(r),
         q.pc = r.pc, q.seen = r.seen, q.trust = r.trust, q.given = r.given
  PROVE  ForceFits(q)
<1>1. q.pc = "strike" =>
        /\ q.seen.pid = q.trust.pid /\ q.seen.pid # self.pid
        /\ q.trust.role # "opaque" => q.seen = q.trust
  BY DEF ForceFits
<1>2. q.pc \in Forcing => q.given \in 1..tokens
  BY DEF ForceFits
<1>3. QED
  BY <1>1, <1>2 DEF ForceFits

LEMMA ExecuteIsSafe ==
  ASSUME SafeInv, Execute
  PROVE  SafeInv'
<1>1. MachineTypes /\ FileTypes /\ SessionTypes /\ HistoryTypes /\ Calls
  BY DEF SafeInv, TypeInv
<1>2. /\ UNCHANGED <<live, born, doomed, self, files, current, latch, token, history>>
      /\ queue # <<>> /\ queue' = Tail(queue)
  BY DEF Execute
<1>3. /\ Seen' = Seen /\ SeenRecord' = SeenRecord
      /\ born' \in 0..MaxBorn /\ born <= born' /\ \A p \in Seen : p \in live' => p \in live
      /\ tokens \in Nat
  BY <1>1, <1>2, SameMachine
<1>4. PICK a : at' = [s \in Sessions |-> IF s = Head(queue).by THEN [at[s] EXCEPT !.answer = a]
                                         ELSE at[s]]
  BY DEF Execute
<1>5. ASSUME NEW t \in Sessions
      PROVE  /\ Sound(at'[t]) /\ at'[t].pc = at[t].pc /\ at'[t].given = at[t].given
             /\ at'[t].pc # "idle" => self' = self
  <2>1. Sound(at[t])
    BY <1>1 DEF Calls
  <2>2. CASE at'[t] = at[t]
    BY <1>2, <2>1, <2>2
  <2>3. CASE at'[t] = [at[t] EXCEPT !.answer = a]
    <3>1. DOMAIN at[t] = Fields
      BY <2>1 DEF Sound, Fits
    <3>2. /\ DOMAIN at'[t] = Fields /\ at'[t].op = at[t].op /\ at'[t].pc = at[t].pc
          /\ at'[t].rec = at[t].rec /\ at'[t].cli = at[t].cli /\ at'[t].seen = at[t].seen
          /\ at'[t].class = at[t].class /\ at'[t].trust = at[t].trust
          /\ at'[t].given = at[t].given /\ at'[t].tried = at[t].tried
          /\ at'[t].reply = at[t].reply
      BY <2>3, <3>1
    <3>3. Fits(at'[t])
      BY <2>1, <3>2 DEF Sound, Fits
    <3>4. KeyFits(at'[t])
      BY <2>1, <3>2 DEF Sound, KeyFits
    <3>5. ForceFits(at'[t])
      <4>1. ForceFits(at[t])
        BY <2>1 DEF Sound
      <4>2. QED
        BY <3>2, <4>1, SameForce
    <3>6. QED
      BY <1>2, <3>2, <3>3, <3>4, <3>5 DEF Sound
  <2>4. QED
    BY <1>4, <2>2, <2>3
<1>6. DOMAIN at' = Sessions
  BY <1>4
<1>7. Calls'
  <2>1. tokens' = tokens
    BY <1>2 DEF history
  <2>2. QED
    BY <1>1, <1>3, <1>5, <1>6, <2>1, CallsLast
<1>8. MachineTypes'
  <2>1. \/ on' = on /\ bound' = bound
        \/ on' = TRUE /\ bound' = self
        \/ on' = FALSE /\ bound' \in {bound, None}
    <3>1. CASE Head(queue).cmd = "start"
      BY <3>1 DEF Execute
    <3>2. CASE Head(queue).cmd = "stop"
      BY <3>2 DEF Execute
    <3>3. QED
      BY <3>1, <3>2 DEF Execute
  <2>2. self # None
    BY <1>1, <1>2 DEF SessionTypes
  <2>3. /\ bound' \in live' \union {None} /\ on' \in BOOLEAN
        /\ on' => bound' = self' /\ self' # None
    <3>1. on \in BOOLEAN /\ (on => bound = self) /\ bound \in live \union {None}
          /\ self \in live \union {None}
      BY <1>1 DEF MachineTypes
    <3>2. live' = live /\ self' = self
      BY <1>2
    <3>3. CASE on' = on /\ bound' = bound
      BY <2>2, <3>1, <3>2, <3>3
    <3>4. CASE on' = TRUE /\ bound' = self
      BY <2>2, <3>1, <3>2, <3>4
    <3>5. CASE on' = FALSE /\ bound' \in {bound, None}
      BY <2>2, <3>1, <3>2, <3>5
    <3>6. QED
      BY <2>1, <3>3, <3>4, <3>5
  <2>4. QED
    BY <1>1, <1>2, <1>3, <2>3 DEF MachineTypes
<1>9. FileTypes' /\ HistoryTypes'
  BY <1>1, <1>2, <1>3 DEF FileTypes, HistoryTypes, files, history
<1>10. SessionTypes'
  <2>1. Tail(queue) \in Seq(Command)
    BY <1>1, <1>2, HeadTailProperties DEF SessionTypes
  <2>2. QED
    BY <1>1, <1>2, <1>3, <1>6, <2>1 DEF SessionTypes, history
<1>11. QED
  BY <1>2, <1>5, <1>7, <1>8, <1>9, <1>10, ComputerIsSafe DEF history

LEMMA OneIsSession ==
  1 \in Sessions
<1>1. Cardinality(Sessions) \in Nat /\ Sessions # {} /\ Sessions = 1..Cardinality(Sessions)
  BY SessionsAssumption, FS_CardinalityType
<1>2. PICK n \in Nat : n = Cardinality(Sessions)
  BY <1>1
<1>3. PICK s : s \in 1..n
  BY <1>1, <1>2
<1>4. 1 \in 1..n
  BY <1>2, <1>3
<1>5. QED
  BY <1>1, <1>2, <1>4

LEMMA SessionsLast ==
  ASSUME SessionTypes, Seen \subseteq Seen', tokens' = tokens, DOMAIN at' = Sessions,
         queue' \in {queue, <<>>}, self' = None => queue' = <<>>,
         latch' \in {latch, [s \in Sessions |-> "none"]}, current' \in Sessions,
         token' \in {token, [s \in Sessions |-> None]},
         mishaps' \in {mishaps, mishaps \union {"replaced"}}
  PROVE  SessionTypes'
<1>1. tokens' \in Nat /\ queue' \in Seq(Command) /\ mishaps' \subseteq {"replaced", "given up", "kept"}
  <2>1. <<>> \in Seq(Command)
    BY EmptySeq
  <2>2. queue \in Seq(Command) /\ tokens \in Nat /\ mishaps \subseteq {"replaced", "given up", "kept"}
    BY DEF SessionTypes
  <2>3. QED
    BY <2>1, <2>2
<1>2. latch' \in [Sessions -> {"none", "reconcile", "other"}]
  BY DEF SessionTypes
<1>3. token' \in [Sessions -> [id: 1..tokens', target: Seen'] \union {None}]
  <2>1. [id: 1..tokens, target: Seen] \subseteq [id: 1..tokens', target: Seen']
    OBVIOUS
  <2>2. QED
    BY <2>1 DEF SessionTypes
<1>4. QED
  BY <1>1, <1>2, <1>3 DEF SessionTypes

\* Steps at which nobody starts or ends.
LEMMA QuietComputerIsSafe ==
  ASSUME SafeInv, LoseListener \/ Respawn \/ CliRecords
  PROVE  SafeInv'
<1>1. MachineTypes /\ FileTypes /\ SessionTypes /\ HistoryTypes /\ Calls
  BY DEF SafeInv, TypeInv
<1>2. /\ UNCHANGED <<live, born, doomed, self, queue, record, attempt, at, latch, token,
                     signalled, forced, keys, tokens>>
      /\ current' \in Sessions /\ mishaps' \in {mishaps, mishaps \union {"replaced"}}
      /\ (on' = on /\ bound' = bound) \/ (on' = FALSE /\ bound' = None)
      /\ cli' = cli \/ (cli' = bound /\ bound # None)
  BY <1>1 DEF LoseListener, Respawn, CliRecords, machine, switch, files, history, Mishap,
              SessionTypes
<1>3. /\ Seen' = Seen /\ SeenRecord' = SeenRecord
      /\ born' \in 0..MaxBorn /\ born <= born' /\ \A p \in Seen : p \in live' => p \in live
      /\ tokens \in Nat
  BY <1>1, <1>2, SameMachine
<1>4. Calls'
  <2>1. /\ tokens' = tokens /\ DOMAIN at' = Sessions
        /\ \A t \in Sessions : Sound(at'[t]) /\ (at'[t].pc # "idle" => self' = self)
    <3>1. at' = at /\ self' = self /\ tokens' = tokens
      BY <1>2
    <3>2. QED
      BY <1>1, <3>1 DEF Calls
  <2>2. QED
    BY <1>1, <1>3, <2>1, CallsLast
<1>5. MachineTypes'
  <2>1. /\ bound' \in live' \union {None} /\ on' \in BOOLEAN
        /\ on' => bound' = self' /\ self' # None
    <3>1. /\ on \in BOOLEAN /\ (on => bound = self /\ self # None)
          /\ bound \in live \union {None} /\ live' = live /\ self' = self
      BY <1>1, <1>2 DEF MachineTypes
    <3>2. CASE on' = on /\ bound' = bound
      BY <3>1, <3>2
    <3>3. CASE on' = FALSE /\ bound' = None
      BY <3>1, <3>3
    <3>4. QED
      BY <1>2, <3>2, <3>3
  <2>2. QED
    BY <1>1, <1>2, <1>3, <2>1 DEF MachineTypes
<1>6. FileTypes' /\ HistoryTypes'
  BY <1>1, <1>2, <1>3 DEF MachineTypes, FileTypes, HistoryTypes
<1>7. SessionTypes'
  BY <1>1, <1>2, <1>3, SessionsLast DEF SessionTypes
<1>8. QED
  BY <1>2, <1>4, <1>5, <1>6, <1>7, ComputerIsSafe

LEMMA OpenIsSafe ==
  ASSUME SafeInv, Open
  PROVE  SafeInv'
<1>1. MachineTypes /\ FileTypes /\ SessionTypes /\ HistoryTypes /\ Calls
  BY DEF SafeInv, TypeInv
<1>2. PICK p : p \in Fresh("app") /\ Spawn(p) /\ self' = p
  BY DEF Open
<1>3. /\ self = None /\ current' = 1
      /\ UNCHANGED <<bound, doomed, on, queue, record, cli, attempt, at, latch, token, signalled,
                     forced, keys, tokens, mishaps>>
  BY DEF Open, switch, files, history
<1>4. p.role = "app"
  BY <1>2 DEF Fresh
<1>5. /\ p \in Process /\ p \notin Seen
      /\ born' \in 0..MaxBorn /\ born <= born' /\ \A q \in Seen : q \in live' => q \in live
  BY <1>1, <1>2, FreshSeen
<1>6. MachineTypes'
  BY <1>1, <1>2, <1>3, <1>4, SpawnKeeps DEF MachineTypes
<1>7. \A t \in Sessions : Sound(at[t]) /\ at[t].pc = "idle"
  BY <1>1, <1>3 DEF Calls, Sound, Fits
<1>8. Calls'
  <2>1. /\ tokens' = tokens /\ tokens \in Nat /\ DOMAIN at' = Sessions
        /\ \A t \in Sessions : at'[t] = at[t]
    BY <1>1, <1>3 DEF SessionTypes
  <2>2. \A t \in Sessions : Sound(at'[t])
    BY <1>7, <2>1
  <2>3. QED
    BY <1>1, <1>5, <1>7, <2>1, <2>2, CallsLast
<1>9. /\ Seen \subseteq Seen' /\ FileTypes' /\ HistoryTypes'
  BY <1>1, <1>3, <1>5, Older DEF files
<1>10. SessionTypes'
  <2>1. queue' = <<>> /\ DOMAIN at' = Sessions /\ current' \in Sessions
    BY <1>1, <1>3, OneIsSession DEF SessionTypes
  <2>2. QED
    BY <1>1, <1>3, <1>9, <2>1, SessionsLast
<1>11. self' \notin Seen
  BY <1>2, <1>5
<1>12. QED
  BY <1>3, <1>6, <1>8, <1>9, <1>10, <1>11, ComputerIsSafe

LEMMA CrashIsSafe ==
  ASSUME SafeInv, Crash
  PROVE  SafeInv'
<1>1. MachineTypes /\ FileTypes /\ SessionTypes /\ HistoryTypes /\ Calls
  BY DEF SafeInv, TypeInv
<1>2. /\ self # None /\ Die(self) /\ self' = None /\ on' = FALSE /\ queue' = <<>>
      /\ at' = [s \in Sessions |-> Free] /\ latch' = [s \in Sessions |-> "none"]
      /\ token' = [s \in Sessions |-> None]
      /\ UNCHANGED <<record, cli, attempt, current, signalled, forced, keys, tokens, mishaps>>
  BY DEF Crash, files, history
<1>3. /\ MachineTypes' /\ born' \in 0..MaxBorn /\ born <= born' /\ live' \subseteq live
  BY <1>1, <1>2, DieKeeps
<1>4. /\ tokens' = tokens /\ tokens \in Nat /\ DOMAIN at' = Sessions
      /\ \A t \in Sessions : at'[t] = Free /\ token'[t] = None
  BY <1>1, <1>2 DEF SessionTypes
<1>5. /\ \A t \in Sessions : Sound(at'[t]) /\ at'[t].pc = "idle"
  BY <1>4, FreeSound
<1>6. Calls'
  <2>1. \A p \in Seen : p \in live' => p \in live
    BY <1>3
  <2>2. QED
    BY <1>1, <1>3, <1>4, <1>5, <2>1, CallsLast
<1>7. /\ Seen \subseteq Seen' /\ FileTypes' /\ HistoryTypes'
  BY <1>1, <1>2, <1>3, Older DEF files
<1>8. SessionTypes'
  <2>1. current' \in Sessions
    BY <1>1, <1>2 DEF SessionTypes
  <2>2. QED
    BY <1>1, <1>2, <1>4, <1>7, <2>1, SessionsLast
<1>9. \A t \in Sessions : at'[t].pc \notin Forcing
  BY <1>5
<1>10. QED
  BY <1>2, <1>3, <1>4, <1>6, <1>7, <1>8, <1>9, ComputerIsSafe

LEMMA ArriveIsSafe ==
  ASSUME SafeInv, Arrive
  PROVE  SafeInv'
<1>1. MachineTypes /\ FileTypes /\ SessionTypes /\ HistoryTypes /\ Calls
  BY DEF SafeInv, TypeInv
<1>2. PICK p : Spawn(p) /\ bound' \in IF bound = None THEN {None, p} ELSE {bound}
  BY DEF Arrive
<1>3. /\ UNCHANGED <<doomed, self, on, queue, record, cli, attempt, current, at, latch, token,
                     signalled, forced, keys, tokens, mishaps>>
  BY DEF Arrive, switch, files, history
<1>4. /\ born' \in 0..MaxBorn /\ born <= born' /\ \A q \in Seen : q \in live' => q \in live
  BY <1>1, <1>2, FreshSeen
<1>5. MachineTypes'
  <2>1. None \notin live
    BY <1>1, FilesAssumption DEF MachineTypes, Seen
  <2>2. on => bound' = bound /\ self' = self
    BY <1>1, <1>2, <1>3, <2>1 DEF MachineTypes
  <2>3. self' = p => p.role = "app"
    <3>1. p \in Process /\ p \notin Seen /\ self \in Seen \union {None}
      BY <1>1, <1>2, FreshSeen DEF MachineTypes
    <3>2. QED
      BY <1>3, <3>1, FilesAssumption
  <2>4. QED
    BY <1>1, <1>2, <1>3, <2>2, <2>3, SpawnKeeps
<1>6. Calls'
  <2>1. /\ tokens' = tokens /\ tokens \in Nat /\ DOMAIN at' = Sessions /\ self' = self
        /\ \A t \in Sessions : Sound(at'[t])
    <3>1. at' = at
      BY <1>3
    <3>2. QED
      BY <1>1, <1>3, <3>1 DEF SessionTypes, Calls
  <2>2. QED
    BY <1>1, <1>4, <2>1, CallsLast
<1>7. /\ Seen \subseteq Seen' /\ FileTypes' /\ HistoryTypes'
  BY <1>1, <1>3, <1>4, Older DEF files
<1>8. SessionTypes'
  <2>1. /\ current' \in Sessions /\ DOMAIN at' = Sessions
        /\ self' = None => queue' = <<>>
    BY <1>1, <1>3 DEF SessionTypes
  <2>2. QED
    BY <1>1, <1>3, <1>7, <2>1, SessionsLast
<1>9. QED
  BY <1>3, <1>5, <1>6, <1>7, <1>8, ComputerIsSafe

LEMMA LeaveIsSafe ==
  ASSUME SafeInv, Leave
  PROVE  SafeInv'
<1>1. MachineTypes /\ FileTypes /\ SessionTypes /\ HistoryTypes /\ Calls
  BY DEF SafeInv, TypeInv
<1>2. PICK p \in live \ {self} : Die(p) /\ cli' \in IF cli = p THEN {cli, None} ELSE {cli}
  BY DEF Leave
<1>3. /\ UNCHANGED <<self, on, queue, record, attempt, current, at, latch, token,
                     signalled, forced, keys, tokens, mishaps>>
  BY DEF Leave, switch, history
<1>4. /\ MachineTypes' /\ born' \in 0..MaxBorn /\ born <= born' /\ live' \subseteq live
  BY <1>1, <1>2, <1>3, DieKeeps
<1>5. \A q \in Seen : q \in live' => q \in live
  BY <1>4
<1>6. Calls'
  <2>1. /\ tokens' = tokens /\ tokens \in Nat /\ DOMAIN at' = Sessions /\ self' = self
        /\ \A t \in Sessions : Sound(at'[t])
    <3>1. at' = at
      BY <1>3
    <3>2. QED
      BY <1>1, <1>3, <3>1 DEF SessionTypes, Calls
  <2>2. QED
    BY <1>1, <1>4, <1>5, <2>1, CallsLast
<1>7. /\ Seen \subseteq Seen' /\ SeenRecord \subseteq SeenRecord' /\ HistoryTypes'
  BY <1>1, <1>3, <1>4, Older
<1>8. FileTypes'
  BY <1>1, <1>2, <1>3, <1>7 DEF FileTypes
<1>9. SessionTypes'
  <2>1. /\ current' \in Sessions /\ DOMAIN at' = Sessions
        /\ self' = None => queue' = <<>>
    BY <1>1, <1>3 DEF SessionTypes
  <2>2. QED
    BY <1>1, <1>3, <1>7, <2>1, SessionsLast
<1>10. QED
  BY <1>3, <1>4, <1>6, <1>7, <1>8, <1>9, ComputerIsSafe

LEMMA InitIsSafe ==
  ASSUME Init
  PROVE  SafeInv
<1>1. PICK w \in Worlds :
        /\ live = w.live /\ born = Cardinality(w.live) + w.dead
        /\ bound = w.bound /\ doomed = {} /\ self = None /\ on = FALSE /\ queue = <<>>
        /\ record = w.record /\ cli = w.cli /\ attempt = w.attempt
        /\ current = 1 /\ at = [s \in Sessions |-> Free]
        /\ latch = [s \in Sessions |-> "none"] /\ token = [s \in Sessions |-> None]
        /\ signalled = {} /\ forced = {} /\ keys = {} /\ tokens = 0 /\ mishaps = {}
  BY DEF Init
<1>2. /\ born \in 0..MaxBorn /\ live \subseteq Seen
      /\ \A p, q \in live : p.pid = q.pid => p = q
      /\ bound \in live \union {None}
      /\ record \in SeenRecord \union {None, Corrupt} /\ cli \in Seen \union {None, Corrupt}
      /\ attempt \in Attempt \union {None, Corrupt}
  BY <1>1, WorldsAssumption DEF Seen, SeenRecord
<1>3. MachineTypes /\ FileTypes
  BY <1>1, <1>2 DEF MachineTypes, FileTypes
<1>4. SessionTypes
  BY <1>1, OneIsSession DEF SessionTypes
<1>5. HistoryTypes
  BY <1>1 DEF HistoryTypes
<1>6. Calls
  BY <1>1, FreeSound DEF Calls
<1>7. KeysRight /\ ForcedRight
  BY <1>1 DEF KeysRight, ForcedRight
<1>8. \A t \in Sessions : token[t] = None /\ at[t].pc = "idle"
  BY <1>1, FreeSound
<1>9. Numbers
  BY <1>1, <1>8 DEF Numbers, TokensApart, GivenApart, GivenTaken, ForcedUsed
<1>10. QED
  BY <1>3, <1>4, <1>5, <1>6, <1>7, <1>9 DEF SafeInv, TypeInv

LEMMA NextIsSafe ==
  ASSUME SafeInv, [Next]_vars
  PROVE  SafeInv'
<1>1. CASE \E s \in Sessions : (\E op \in Ops : Call(s, op)) \/ Step(s) \/ GiveUp(s)
  BY <1>1, StepsAreSafe
<1>2. CASE Execute
  BY <1>2, ExecuteIsSafe
<1>3. CASE LoseListener \/ Respawn \/ CliRecords
  BY <1>3, QuietComputerIsSafe
<1>4. CASE Open
  BY <1>4, OpenIsSafe
<1>5. CASE Crash
  BY <1>5, CrashIsSafe
<1>6. CASE Arrive
  BY <1>6, ArriveIsSafe
<1>7. CASE Leave
  BY <1>7, LeaveIsSafe
<1>8. CASE UNCHANGED vars
  <2>1. MachineTypes' /\ FileTypes' /\ SessionTypes' /\ HistoryTypes' /\ Calls'
    <3>1. MachineTypes /\ FileTypes /\ SessionTypes /\ HistoryTypes /\ Calls
      BY DEF SafeInv, TypeInv
    <3>2. MachineTypes' /\ FileTypes' /\ SessionTypes' /\ HistoryTypes'
      BY <1>8, <3>1 DEF vars, machine, switch, files, history, MachineTypes, FileTypes,
                        SessionTypes, HistoryTypes, Seen, SeenRecord
    <3>3. Calls'
      <4>1. UNCHANGED <<live, born, self, at, tokens>>
        BY <1>8 DEF vars, machine, history
      <4>2. /\ tokens' = tokens /\ DOMAIN at' = Sessions
            /\ \A t \in Sessions : Sound(at'[t]) /\ (at'[t].pc # "idle" => self' = self)
        <5>1. at' = at /\ self' = self /\ tokens' = tokens
          BY <4>1
        <5>2. QED
          BY <3>1, <5>1 DEF Calls
      <4>3. QED
        BY <3>1, <4>1, <4>2, SameMachine, CallsLast
    <3>4. QED
      BY <3>2, <3>3
  <2>2. /\ UNCHANGED <<forced, keys>> /\ self' = self
        /\ \A t \in Sessions : at'[t] = at[t] /\ token'[t] = token[t]
    BY <1>8 DEF vars, history
  <2>3. QED
    BY <2>1, <2>2, ComputerIsSafe
<1>9. QED
  BY <1>1, <1>2, <1>3, <1>4, <1>5, <1>6, <1>7, <1>8 DEF Next

-----------------------------------------------------------------------------
(* The theorems. *)

\* Whatever processes start and end, and whatever sessions, files and commands
\* are left in the middle of, the state keeps its types: what any of them names
\* is a process that has been started.
THEOREM TypeCorrect == Spec => []TypeOK
<1>1. Init => SafeInv
  BY InitIsSafe
<1>2. SafeInv /\ [Next]_vars => SafeInv'
  BY NextIsSafe
<1>3. SafeInv => TypeOK
  <2>1. SUFFICES ASSUME SafeInv PROVE TypeOK
    OBVIOUS
  <2>2. MachineTypes /\ FileTypes /\ SessionTypes /\ Calls
    BY <2>1 DEF SafeInv, TypeInv
  <2>3. Seen \subseteq Process /\ SeenRecord \subseteq Record
    BY DEF Seen, SeenRecord, Record
  <2>4. MachineTypeOK /\ self \in live \union {None} /\ on \in BOOLEAN /\ (on => bound = self /\ self # None)
    BY <2>2, <2>3 DEF MachineTypes, MachineTypeOK
  <2>5. \A i \in DOMAIN queue : queue[i].cmd \in {"start", "stop"} /\ queue[i].by \in Sessions \union {0}
    <3>1. ASSUME NEW i \in DOMAIN queue PROVE queue[i] \in Command
      <4>1. queue \in Seq(Command)
        BY <2>2 DEF SessionTypes
      <4>2. i \in 1..Len(queue)
        BY <4>1, LenProperties
      <4>3. QED
        BY <4>1, <4>2, ElementOfSeq
    <3>2. QED
      BY <3>1 DEF Command
  <2>6. /\ record \in Record \union {None, Corrupt} /\ cli \in Process \union {None, Corrupt}
        /\ attempt \in Attempt \union {None, Corrupt} /\ current \in Sessions
        /\ mishaps \subseteq {"replaced", "given up", "kept"}
    BY <2>2, <2>3 DEF FileTypes, SessionTypes
  <2>7. ASSUME NEW s \in Sessions
        PROVE  /\ at[s].op \in Ops \union {"none"} /\ at[s].rec \in Record \union {None, Corrupt}
               /\ at[s].trust \in Process \union {None}
               /\ latch[s] \in {"none", "reconcile", "other"}
               /\ token[s] # None => token[s].id \in 1..tokens /\ token[s].target \in Process
    <3>1. Fits(at[s])
      BY <2>2 DEF Calls, Sound
    <3>2. latch[s] \in {"none", "reconcile", "other"}
      BY <2>2 DEF SessionTypes
    <3>3. token[s] \in [id: 1..tokens, target: Seen] \union {None}
      BY <2>2 DEF SessionTypes
    <3>4. QED
      BY <2>3, <3>1, <3>2, <3>3 DEF Fits
  <2>8. QED
    BY <2>4, <2>5, <2>6, <2>7 DEF TypeOK
<1>4. QED
  BY <1>1, <1>2, <1>3, PTL DEF Spec

\* A class that lets a call use a router names one that runs and has the id of
\* who answered: it is who answered.
LEMMA JudgedIsSeen ==
  ASSUME Calls, NEW s \in Sessions, At(s, "judge"), Class(s) \in {"external", "desktop"}
  PROVE  at[s].seen = IF Class(s) = "external" THEN at[s].cli ELSE at[s].rec.router
<1>1. KeyFits(at[s]) /\ at[s].open
      /\ Class(s) = OpenClass(at[s].rec, at[s].cli, at[s].seen)
  BY DEF Calls, Sound, Class, ClosedClass
<1>2. CASE Class(s) = "external"
  <2>1. /\ at[s].seen # None /\ Known(at[s].cli) /\ at[s].cli.pid = at[s].seen.pid
        /\ Status(at[s].cli) = "genuine"
    BY <1>1, <1>2 DEF OpenClass
  <2>2. at[s].cli \in live
    BY <2>1 DEF Status, Validate, Known
  <2>3. QED
    BY <1>1, <1>2, <2>1, <2>2 DEF KeyFits, At, Known
<1>3. CASE Class(s) = "desktop"
  <2>1. /\ at[s].seen # None /\ Known(at[s].rec) /\ Known(at[s].rec.router)
        /\ at[s].rec.router.pid = at[s].seen.pid
        /\ Status(RouterOf(at[s].rec)) = "genuine"
    BY <1>1, <1>3 DEF OpenClass
  <2>2. RouterOf(at[s].rec) = at[s].rec.router
    BY <2>1 DEF RouterOf
  <2>3. at[s].rec.router \in live
    BY <2>1, <2>2 DEF Status, Validate, Known
  <2>4. QED
    BY <1>1, <1>3, <2>1, <2>2, <2>3 DEF KeyFits, At, Known
<1>4. QED
  BY <1>2, <1>3

\* The API key only reaches a router of this generation that is the very process
\* whose record was trusted, and a discovery that names a router as usable has
\* seen that process answer: for any number of processes, ids and sessions,
\* whatever starts, ends or takes an id or the port between discovery,
\* connection, validation and request.
THEOREM KeyIsForTrusted == Spec => []KeyOnlyToTrusted
<1>1. Init => SafeInv
  BY InitIsSafe
<1>2. SafeInv /\ [Next]_vars => SafeInv'
  BY NextIsSafe
<1>3. SafeInv => KeyOnlyToTrusted
  <2>1. SUFFICES ASSUME SafeInv PROVE KeyOnlyToTrusted
    OBVIOUS
  <2>2. KeysRight /\ Calls
    BY <2>1 DEF SafeInv, TypeInv
  <2>3. ASSUME NEW s \in Sessions, At(s, "judge")
        PROVE  /\ Class(s) = "external" => at[s].seen = at[s].cli
               /\ Class(s) = "desktop" => at[s].seen = at[s].rec.router
    BY <2>2, <2>3, JudgedIsSeen
  <2>4. QED
    BY <2>2, <2>3 DEF KeyOnlyToTrusted, KeysRight
<1>4. QED
  BY <1>1, <1>2, <1>3, PTL DEF Spec

\* Force ends only what the user was shown and confirmed: that very process, or
\* the one with its id where only ids can be read; never the desktop; and one
\* confirmation ends one process, whichever session it is used in.
THEOREM ForceIsConfirmed == Spec => []ForceHitsConfirmed
<1>1. Init => SafeInv
  BY InitIsSafe
<1>2. SafeInv /\ [Next]_vars => SafeInv'
  BY NextIsSafe
<1>3. SafeInv => ForceHitsConfirmed
  BY DEF SafeInv, ForcedRight, ForceHitsConfirmed
<1>4. QED
  BY <1>1, <1>2, <1>3, PTL DEF Spec

-----------------------------------------------------------------------------
(* One session: the state file says what is bound. *)

LEMMA GotoMakes ==
  ASSUME Calls, NEW s \in Sessions, NEW pc, Goto(s, pc)
  PROVE  /\ Set(s, at'[s]) /\ at'[s].pc = pc /\ at'[s].op = at[s].op /\ at'[s].rec = at[s].rec
         /\ at'[s].answer = at[s].answer /\ at'[s].reply = at[s].reply
         /\ at'[s].tried = at[s].tried
  BY DEF Goto, Set, Calls, Sound, Fits

LEMMA ReplyMakes ==
  ASSUME Calls, NEW s \in Sessions, NEW code, Reply(s, code)
  PROVE  /\ Set(s, at'[s]) /\ at'[s].pc = "idle" /\ at'[s].op = at[s].op /\ at'[s].reply = code
         /\ at'[s].answer = "none"
  BY DEF Reply, Free, Set, Calls, Sound, Fits

LEMMA RefuseMakes ==
  ASSUME Calls, NEW s \in Sessions, NEW code, NEW stage, Refuse(s, code, stage)
  PROVE  /\ Set(s, at'[s]) /\ at'[s].pc = "idle" /\ at'[s].op = at[s].op /\ at'[s].reply = code
         /\ at'[s].answer = "none"
  BY ReplyMakes DEF Refuse

LEMMA StartedMakes ==
  ASSUME Calls, NEW s \in Sessions, NEW code, Started(s, code)
  PROVE  /\ Set(s, at'[s]) /\ at'[s].op = at[s].op
         /\ at'[s].pc \in {"idle", "ask"} /\ at'[s].reply \in {code, at[s].reply}
<1>1. CASE at[s].op = "fetch"
  BY ZenonT(30), <1>1 DEF Started, Set, Calls, Sound, Fits
<1>2. CASE at[s].op # "fetch"
  BY <1>2, ReplyMakes DEF Started
<1>3. QED
  BY <1>1, <1>2

\* A step of the session that writes neither file nor queue, and ends up where
\* what it has read is what the file says.
Calm ==
  /\ UNCHANGED <<live, self, on, queue, record, mishaps, current>> /\ Set(1, at'[1])
  /\ at[1].pc \notin Awaiting \/ Answered(1)
  /\ at[1].pc # "persist" /\ at'[1].pc \notin Awaiting
  /\ at'[1].pc = "persist" <=> at[1].pc = "binding" /\ at[1].answer = "ok"
  /\ at'[1].pc \in (OnRecord \ {"conclude"}) \union {"probe", "judge"} => at'[1].rec = record
  /\ at'[1].pc \in {"remove", "forget", "gone"} => at'[1].rec.router \notin live
  /\ record = Own => at'[1].pc # "log" /\ (at'[1].pc = "vet" => ~ on)
  /\ at'[1].pc = "idle" /\ at'[1].op = "stop" => at'[1].reply # "ok"
  /\ at'[1].pc # "idle" => (at'[1].op = "stop" <=> at'[1].pc = "halt")

LEMMA CalmHolds ==
  ASSUME SafeInv, Held, Calm
  PROVE  Held'
<1>1. DOMAIN at = Sessions /\ 1 \in Sessions /\ Own' = Own
  BY OneIsSession DEF SafeInv, TypeInv, Calls, Calm, Own
<1>2. /\ current' = current /\ \A s \in Sessions \ {1} : at'[s] = at[s]
  BY <1>1 DEF Calm, Set
<1>3. Alone1'
  BY <1>2 DEF Held, Alone1, At
<1>4. QueueOf1'
  <2>1. \A i \in DOMAIN queue : queue[i].by = 0
    BY DEF Held, QueueOf1, Calm
  <2>2. UNCHANGED <<queue, record, mishaps>>
    BY DEF Calm
  <2>3. at'[1].pc = "persist" => queue = <<>>
    BY DEF Calm, Held, QueueOf1, Awaiting, Answered
  <2>4. at'[1].pc \notin Awaiting
    BY DEF Calm
  <2>5. QED
    BY <1>1, <2>1, <2>2, <2>3, <2>4 DEF Held, QueueOf1, At
<1>5. Knows1'
  BY <1>1 DEF Calm, Held, Knows1, At, Awaiting, Answered
<1>6. Recorded1'
  <2>1. UNCHANGED <<on, record, mishaps>> /\ Recorded1
    BY DEF Calm, Held
  <2>2. "given up" \notin mishaps /\ on /\ record # Own => at'[1].pc = "persist"
    BY DEF Calm, Held, Recorded1, At, Awaiting
  <2>3. ~ (at'[1].pc = "idle" /\ at'[1].op = "stop" /\ at'[1].reply = "ok")
    BY DEF Calm
  <2>4. at'[1].pc # "idle" => (at'[1].op = "stop" <=> at'[1].pc \in {"halt", "stopping"})
    BY DEF Calm, Awaiting
  <2>5. QED
    BY <1>1, <2>1, <2>2, <2>3, <2>4 DEF Recorded1, At
<1>7. QED
  BY <1>3, <1>4, <1>5, <1>6 DEF Held

LEMMA CalmStart ==
  ASSUME SafeInv, Held, Begin(1) \/ (Vet(1) /\ record' = record /\ mishaps' = mishaps)
                        \/ Kin(1) \/ VetStale(1) \/ Ask(1) \/ ReadFiles(1) \/ Probe(1)
  PROVE  Calm
<1>0. 1 \in Sessions /\ Calls /\ Sound(at[1]) /\ DOMAIN at = Sessions /\ DOMAIN at[1] = Fields
  BY OneIsSession DEF SafeInv, TypeInv, Calls, Sound, Fits
<1>1. CASE Begin(1)
  <2>0. /\ at[1].pc = "begin" /\ at[1].op # "stop"
        /\ UNCHANGED <<live, self, on, queue, record, mishaps, current>>
    BY <1>1 DEF Begin, At, machine, switch, files, history, Held, Recorded1
  <2>1. CASE Started(1, "ok")
    <3>1. /\ Set(1, at'[1]) /\ at'[1].op = at[1].op /\ at'[1].pc \in {"idle", "ask"}
      BY <1>0, <2>1, StartedMakes
    <3>2. QED
      BY <2>0, <3>1 DEF Calm, Awaiting
  <2>2. CASE Refuse(1, "stale", "reconcile")
    <3>1. /\ Set(1, at'[1]) /\ at'[1].op = at[1].op /\ at'[1].pc = "idle" /\ at'[1].reply = "stale"
      BY <1>0, <2>2, RefuseMakes
    <3>2. QED
      BY <2>0, <3>1 DEF Calm, Awaiting
  <2>3. CASE ~ on /\ Set(1, [at[1] EXCEPT !.rec = record,
                                          !.pc = IF record = None THEN "files" ELSE "vet"])
    <3>1. /\ Set(1, at'[1]) /\ at'[1].op = at[1].op /\ at'[1].pc \in {"files", "vet"}
          /\ at'[1].rec = record
      BY <1>0, <2>3 DEF Set
    <3>2. QED
      BY <2>0, <2>3, <3>1 DEF Calm, Awaiting
  <2>4. QED
    BY <1>1, <2>1, <2>2, <2>3 DEF Begin
<1>2. CASE (Vet(1) /\ record' = record /\ mishaps' = mishaps) \/ VetStale(1)
  <2>0. /\ at[1].pc \in {"vet", "stale", "port", "reused"} /\ at[1].op # "stop" /\ at[1].rec = record
        /\ UNCHANGED <<live, self, on, queue, record, mishaps, current>>
    BY <1>2 DEF Vet, VetStale, At, machine, switch, files, history, Held, Recorded1, Knows1, OnRecord
  <2>1. ASSUME NEW pc \in {"files", "kin", "stale", "port", "reused"}, Goto(1, pc)
        PROVE  Calm
    <3>1. /\ Set(1, at'[1]) /\ at'[1].op = at[1].op /\ at'[1].pc = pc /\ at'[1].rec = at[1].rec
      BY <1>0, <2>1, GotoMakes
    <3>2. QED
      BY <2>0, <2>1, <3>1 DEF Calm, Awaiting
  <2>2. CASE Validate(at[1].rec.router) \in {"absent", "stale"} /\ Goto(1, "remove")
    <3>1. /\ Set(1, at'[1]) /\ at'[1].op = at[1].op /\ at'[1].pc = "remove"
          /\ at'[1].rec = at[1].rec
      BY <1>0, <2>2, GotoMakes
    <3>2. at[1].rec.router \notin live
      BY <2>2 DEF Validate, Holder
    <3>3. QED
      BY <2>0, <3>1, <3>2 DEF Calm, Awaiting
  <2>3. QED
    BY <1>2, <2>1, <2>2 DEF Vet, VetStale, Reused
<1>a. CASE Kin(1)
  <2>0. /\ at[1].pc = "kin" /\ at[1].op # "stop"
        /\ UNCHANGED <<live, self, on, queue, record, mishaps, current>>
    BY <1>a DEF Kin, At, machine, switch, files, history, Held, Recorded1
  <2>1. /\ Set(1, at'[1]) /\ at'[1].op = at[1].op /\ at'[1].pc = "idle"
    BY <1>0, <1>a, RefuseMakes DEF Kin
  <2>2. QED
    BY <2>0, <2>1 DEF Calm, Awaiting
<1>3. CASE Ask(1)
  <2>0. /\ at[1].pc = "ask" /\ at[1].op # "stop"
        /\ UNCHANGED <<live, self, on, queue, record, mishaps, current>>
    BY <1>3 DEF Ask, At, machine, switch, files, history, Held, Recorded1
  <2>1. /\ Set(1, at'[1]) /\ at'[1].op = at[1].op /\ at'[1].pc \in {"files", "decide"}
    BY <1>0, <1>3 DEF Ask, Goto, Set
  <2>2. QED
    BY <2>0, <2>1 DEF Calm, Awaiting
<1>4. CASE ReadFiles(1)
  <2>0. /\ at[1].pc = "files" /\ at[1].op # "stop"
        /\ UNCHANGED <<live, self, on, queue, record, mishaps, current>>
    BY <1>4 DEF ReadFiles, At, machine, switch, files, history, Held, Recorded1
  <2>1. /\ Set(1, at'[1]) /\ at'[1].op = at[1].op /\ at'[1].pc = "probe" /\ at'[1].rec = record
    BY <1>0, <1>4 DEF ReadFiles, Set
  <2>2. QED
    BY <2>0, <2>1 DEF Calm, Awaiting
<1>5. CASE Probe(1)
  <2>0. /\ at[1].pc = "probe" /\ at[1].op # "stop" /\ at[1].rec = record
        /\ UNCHANGED <<live, self, on, queue, record, mishaps, current>>
    BY <1>5 DEF Probe, At, machine, switch, files, history, Held, Recorded1, Knows1
  <2>1. /\ Set(1, at'[1]) /\ at'[1].op = at[1].op /\ at'[1].pc = "judge"
        /\ at'[1].rec = at[1].rec
    BY <1>0, <1>5 DEF Probe, Set
  <2>2. QED
    BY <2>0, <2>1 DEF Calm, Awaiting
<1>6. QED
  BY <1>1, <1>2, <1>3, <1>4, <1>5, <1>a

\* Places at which nothing is expected of what a call has read.
Easy == {"idle", "begin", "files", "ask", "decide", "prepare", "look again", "strike", "release",
         "dial", "vouch", "send", "conclude"}
StateStays == UNCHANGED <<live, self, on, queue, record, mishaps, current>>

LEMMA CalmEasy ==
  ASSUME Held, StateStays, Set(1, at'[1]), at'[1].op = at[1].op, ~ At(1, "idle"),
         at[1].pc \notin Awaiting \union {"persist", "halt", "stopping"}, at'[1].pc \in Easy
  PROVE  Calm
<1>1. at[1].op # "stop"
  BY DEF Held, Recorded1
<1>2. QED
  BY <1>1 DEF Calm, Awaiting, Easy, StateStays

LEMMA CalmJudge ==
  ASSUME SafeInv, Held, JudgePort(1) \/ Judge(1)
  PROVE  Calm
<1>0. /\ 1 \in Sessions /\ Calls /\ Sound(at[1]) /\ MachineTypes
      /\ StateStays /\ at[1].pc = "judge" /\ at[1].op # "stop" /\ at[1].rec = record
  BY OneIsSession DEF SafeInv, TypeInv, Calls, JudgePort, Judge, At, machine, switch, files,
     history, Held, Recorded1, Knows1, StateStays
<1>1. CASE Judge(1)
  <2>1. Set(1, at'[1]) /\ at'[1].op = at[1].op /\ at'[1].pc = "decide"
    BY <1>0, <1>1 DEF Judge, Set, Calls, Sound, Fits
  <2>2. QED
    BY <1>0, <2>1, CalmEasy DEF Easy, Awaiting, At
<1>2. CASE JudgePort(1) /\ Class(1) = "absent" /\ Goto(1, "log")
  <2>1. /\ Set(1, at'[1]) /\ at'[1].op = at[1].op /\ at'[1].pc = "log" /\ at'[1].rec = record
    BY <1>0, <1>2, GotoMakes
  <2>2. ~ at[1].open /\ Starting(1)
    BY <1>0, <1>2, OneIsSession, ClassKnows DEF JudgePort
  <2>3. record # Own
    <3>1. SUFFICES ASSUME record = Own PROVE FALSE
      OBVIOUS
    <3>2. self # None
      BY <1>0 DEF Sound, Fits
    <3>3. self \in live /\ self.role = "app" /\ self # Corrupt
      BY <1>0, <3>2, FilesAssumption DEF MachineTypes, Seen
    <3>4. Known(Own)
      <4>1. Own \in Record
        BY <1>0, <3>3 DEF MachineTypes, Seen, Own, Record
      <4>2. QED
        BY <4>1, FilesAssumption DEF Known
    <3>5. Validate(self) = "genuine"
      BY <3>3 DEF Validate, Holder
    <3>6. /\ RouterOf(Own) = self /\ ManagerOf(Own) = self /\ Status(self) = "genuine"
          /\ Own.router = self
      BY <3>2, <3>3, <3>4, <3>5 DEF RouterOf, ManagerOf, Status, Own
    <3>7. ClosedClass(Own, at[1].cli, TRUE) # "absent"
      BY <3>3, <3>4, <3>6 DEF ClosedClass, Same
    <3>8. Class(1) = ClosedClass(Own, at[1].cli, TRUE)
      BY <1>0, <2>2, <3>1 DEF Class, Starting
    <3>9. QED
      BY <1>2, <3>7, <3>8
  <2>4. QED
    BY <1>0, <2>1, <2>3 DEF Calm, Awaiting, StateStays
<1>3. CASE JudgePort(1) /\ Started(1, "external")
  <2>1. /\ Set(1, at'[1]) /\ at'[1].op = at[1].op /\ at'[1].pc \in {"idle", "ask"}
    BY <1>0, <1>3, StartedMakes
  <2>2. QED
    BY <1>0, <2>1, CalmEasy DEF Easy, Awaiting, At
<1>4. CASE \E code, stage : Refuse(1, code, stage)
  <2>1. /\ Set(1, at'[1]) /\ at'[1].op = at[1].op /\ at'[1].pc = "idle"
    BY <1>0, <1>4, RefuseMakes
  <2>2. QED
    BY <1>0, <2>1, CalmEasy DEF Easy, Awaiting, At
<1>5. QED
  BY <1>1, <1>2, <1>3, <1>4 DEF JudgePort

LEMMA CalmSwitch ==
  ASSUME SafeInv, Held, \/ Launch(1) /\ queue' = queue
                        \/ Bound(1) \/ Unwind(1) \/ Prepare(1)
  PROVE  Calm
<1>0. 1 \in Sessions /\ Calls /\ StateStays
  BY OneIsSession DEF SafeInv, TypeInv, Launch, Bound, Unwind, Prepare, machine, switch, files,
     history, StateStays
<1>1. CASE Launch(1) /\ queue' = queue
  <2>1. queue # Append(queue, [cmd |-> "start", by |-> 1])
    <3>1. queue \in Seq(Command) /\ [cmd |-> "start", by |-> 1] \in Command
      BY OneIsSession DEF SafeInv, TypeInv, SessionTypes, Command
    <3>2. Len(Append(queue, [cmd |-> "start", by |-> 1])) = Len(queue) + 1 /\ Len(queue) \in Nat
      BY <3>1, AppendProperties, LenProperties
    <3>3. QED
      BY <3>2
  <2>2. /\ Set(1, at'[1]) /\ at'[1].op = at[1].op /\ at'[1].pc = "idle" /\ at[1].pc = "log"
    BY <1>0, <1>1, <2>1, RefuseMakes DEF Launch, At
  <2>3. QED
    BY <1>0, <2>2, CalmEasy DEF Easy, Awaiting, At
<1>2. CASE Bound(1)
  <2>0. at[1].pc = "binding" /\ Answered(1) /\ at[1].op # "stop"
    BY <1>2 DEF Bound, At, Answered, Held, Recorded1
  <2>1. CASE at[1].answer = "ok" /\ Goto(1, "persist")
    <3>1. /\ Set(1, at'[1]) /\ at'[1].op = at[1].op /\ at'[1].pc = "persist"
      BY <1>0, <2>1, GotoMakes
    <3>2. QED
      BY <1>0, <2>0, <2>1, <3>1 DEF Calm, Awaiting, StateStays
  <2>2. CASE at[1].answer # "ok" /\ \E code, stage : Refuse(1, code, stage)
    <3>1. /\ Set(1, at'[1]) /\ at'[1].op = at[1].op /\ at'[1].pc = "idle"
      BY <1>0, <2>2, RefuseMakes
    <3>2. QED
      BY <1>0, <2>0, <2>2, <3>1 DEF Calm, Awaiting, StateStays
  <2>3. QED
    BY <1>2, <2>1, <2>2 DEF Bound
<1>3. CASE Unwind(1)
  <2>0. at[1].pc = "unwind" /\ Answered(1) /\ at[1].op # "stop"
    BY <1>3 DEF Unwind, At, Answered, Held, Recorded1
  <2>1. /\ Set(1, at'[1]) /\ at'[1].op = at[1].op /\ at'[1].pc = "idle"
    BY <1>0, <1>3, RefuseMakes DEF Unwind
  <2>2. QED
    BY <1>0, <2>0, <2>1 DEF Calm, Awaiting, StateStays
<1>4. CASE Prepare(1)
  <2>0. at[1].pc = "prepare" /\ at[1].op # "stop" /\ DOMAIN at[1] = Fields
    BY <1>0, <1>4 DEF Prepare, At, Held, Recorded1, Calls, Sound, Fits
  <2>1. CASE Goto(1, "begin") \/ Refuse(1, "stale", "reconcile")
    <3>1. /\ Set(1, at'[1]) /\ at'[1].op = at[1].op /\ at'[1].pc \in {"idle", "begin"}
      BY <1>0, <2>1, RefuseMakes, GotoMakes
    <3>2. QED
      BY <1>0, <2>0, <3>1, CalmEasy DEF Easy, Awaiting, At
  <2>2. CASE Set(1, [at[1] EXCEPT !.rec = record, !.pc = "vet legacy"])
    <3>1. /\ Set(1, at'[1]) /\ at'[1].op = at[1].op /\ at'[1].pc = "vet legacy"
          /\ at'[1].rec = record
      BY <1>0, <2>0, <2>2 DEF Set, Calls
    <3>2. QED
      BY <1>0, <2>0, <3>1 DEF Calm, Awaiting, StateStays
  <2>3. QED
    BY <1>4, <2>1, <2>2 DEF Prepare
<1>5. QED
  BY <1>1, <1>2, <1>3, <1>4

\* A call about a recorded router goes on with the record it has read.
LEMMA CalmOnRecord ==
  ASSUME Held, StateStays, Set(1, at'[1]), at'[1].op = at[1].op, at'[1].rec = at[1].rec,
         at[1].pc \in {"vet legacy"} \union (Stopping \ {"conclude"}),
         at'[1].pc \in Stopping \union {"forget"},
         at'[1].pc \in {"forget", "gone"} => at[1].rec.router \notin live
  PROVE  Calm
<1>1. at[1].op # "stop" /\ at[1].rec = record
  BY DEF Held, Recorded1, Knows1, At
<1>2. QED
  BY <1>1 DEF Calm, Awaiting, StateStays

LEMMA CalmLegacy ==
  ASSUME SafeInv, Held,
         \/ VetLegacy(1) \/ Recall(1) \/ Announce(1)
         \/ WaitLegacy(1, "wait", "kill") \/ WaitLegacy(1, "wait long", "timeout")
         \/ SignalLegacy(1, "interrupt", "wait") \/ SignalLegacy(1, "kill", "wait long")
         \/ Conclude(1)
  PROVE  Calm
<1>0. /\ 1 \in Sessions /\ Calls /\ DOMAIN at = Sessions /\ DOMAIN at[1] = Fields /\ StateStays
      /\ Validate(at[1].rec.router) \in {"absent", "stale"} => at[1].rec.router \notin live
  BY OneIsSession DEF SafeInv, TypeInv, Calls, Sound, Fits, VetLegacy, Recall, Announce,
     WaitLegacy, SignalLegacy, Conclude, machine, switch, files, history, StateStays, Validate,
     Holder
<1>1. CASE \E code, stage : Refuse(1, code, stage) /\ at[1].pc \in Stopping \union {"vet legacy"}
  <2>1. /\ Set(1, at'[1]) /\ at'[1].op = at[1].op /\ at'[1].pc = "idle"
    BY <1>0, <1>1, RefuseMakes
  <2>2. QED
    BY <1>0, <1>1, <2>1, CalmEasy DEF Easy, Awaiting, At
<1>2. ASSUME NEW pc \in Stopping \union {"forget"}, Goto(1, pc),
             at[1].pc \in {"vet legacy"} \union (Stopping \ {"conclude"}),
             pc \in {"forget", "gone"} => at[1].rec.router \notin live
      PROVE  Calm
  <2>1. /\ Set(1, at'[1]) /\ at'[1].op = at[1].op /\ at'[1].pc = pc /\ at'[1].rec = at[1].rec
    BY <1>0, <1>2, GotoMakes
  <2>2. QED
    BY <1>0, <1>2, <2>1, CalmOnRecord
<1>3. ASSUME NEW outcome, Concludes(1, outcome), at[1].pc \in Stopping \ {"conclude"}
      PROVE  Calm
  <2>1. /\ Set(1, at'[1]) /\ at'[1].op = at[1].op /\ at'[1].pc = "conclude"
    BY <1>0, <1>3 DEF Concludes, Set
  <2>2. QED
    BY <1>0, <1>3, <2>1, CalmEasy DEF Easy, Awaiting, At
<1>4. CASE VetLegacy(1)
  BY <1>0, <1>1, <1>2, <1>4 DEF VetLegacy, At
<1>5. CASE Recall(1)
  BY <1>0, <1>1, <1>2, <1>5 DEF Recall, At
<1>6. CASE Announce(1)
  <2>1. CASE Set(1, [at[1] EXCEPT !.pc = "interrupt", !.tried = Pending(1)])
    <3>1. /\ Set(1, at'[1]) /\ at'[1].op = at[1].op /\ at'[1].pc = "interrupt"
          /\ at'[1].rec = at[1].rec
      BY <1>0, <2>1 DEF Set
    <3>2. QED
      BY <1>0, <1>6, <3>1, CalmOnRecord DEF Announce, At
  <2>2. QED
    BY <1>1, <1>6, <2>1 DEF Announce, At
<1>7. CASE WaitLegacy(1, "wait", "kill") \/ WaitLegacy(1, "wait long", "timeout")
  BY <1>0, <1>2, <1>3, <1>7 DEF WaitLegacy, At
<1>8. CASE SignalLegacy(1, "interrupt", "wait") \/ SignalLegacy(1, "kill", "wait long")
  <2>1. ASSUME NEW kind, NEW after \in {"wait", "wait long"},
               Set(1, [at[1] EXCEPT !.pc = after, !.tried.signals = @ \union {kind}]),
               at[1].pc \in Stopping \ {"conclude"}
        PROVE  Calm
    <3>1. /\ Set(1, at'[1]) /\ at'[1].op = at[1].op /\ at'[1].pc = after
          /\ at'[1].rec = at[1].rec
      BY <1>0, <2>1 DEF Set
    <3>2. QED
      BY <1>0, <2>1, <3>1, CalmOnRecord
  <2>2. QED
    BY <1>2, <1>3, <1>8, <2>1 DEF SignalLegacy, At
<1>9. CASE Conclude(1)
  <2>1. CASE Set(1, [at[1] EXCEPT !.pc = "begin", !.tried = None])
    <3>1. /\ Set(1, at'[1]) /\ at'[1].op = at[1].op /\ at'[1].pc = "begin"
      BY <1>0, <2>1 DEF Set
    <3>2. QED
      BY <1>0, <1>9, <3>1, CalmEasy DEF Conclude, At, Easy, Awaiting
  <2>2. QED
    BY <1>1, <1>9, <2>1 DEF Conclude, At
<1>10. QED
  BY <1>4, <1>5, <1>6, <1>7, <1>8, <1>9

LEMMA CalmDecide ==
  ASSUME SafeInv, Held,
         \/ ReplyStatus(1) \/ Inspect(1) \/ TakeToken(1) \/ LookAgain(1) \/ Strike(1) \/ Release(1)
         \/ Establish(1) \/ Dial(1) \/ Vouch(1) \/ Send(1)
  PROVE  Calm
<1>0. /\ 1 \in Sessions /\ Calls /\ DOMAIN at = Sessions /\ DOMAIN at[1] = Fields /\ StateStays
      /\ at[1].pc \in {"decide", "look again", "strike", "release", "dial", "vouch", "send"}
  BY OneIsSession DEF SafeInv, TypeInv, Calls, Sound, Fits, ReplyStatus, Inspect, TakeToken,
     LookAgain, Strike, Release, Establish, Dial, Vouch, Send, machine, switch, files, history,
     StateStays, At
<1>1. Set(1, at'[1]) /\ at'[1].op = at[1].op /\ at'[1].pc \in Easy
  <2>1. CASE \E code : Reply(1, code)
    BY <1>0, <2>1, ReplyMakes DEF Easy
  <2>2. CASE \E pc \in {"release", "send"} : Goto(1, pc)
    BY <1>0, <2>2, GotoMakes DEF Easy
  <2>3. CASE /\ ~ \E code : Reply(1, code)
             /\ ~ \E pc \in {"release", "send"} : Goto(1, pc)
    BY ZenonT(30), <1>0, <2>3 DEF ReplyStatus, Inspect, TakeToken, LookAgain, Strike, Release, Establish,
       Dial, Vouch, Send, Set, Easy
  <2>4. QED
    BY <2>1, <2>2, <2>3
<1>2. QED
  BY <1>0, <1>1, CalmEasy DEF Awaiting, At

LEMMA CalmCall ==
  ASSUME SafeInv, Held, NEW op \in Ops, Call(1, op)
  PROVE  Calm
<1>0. /\ 1 \in Sessions /\ Calls /\ DOMAIN at = Sessions /\ StateStays /\ at[1].pc = "idle"
  BY OneIsSession DEF SafeInv, TypeInv, Calls, Call, machine, switch, files, history, StateStays,
     At
<1> DEFINE place == CASE op = "start" -> "begin"
                      [] op = "stop" -> "halt"
                      [] op = "migrate" -> "prepare"
                      [] OTHER -> "ask"
<1>a. PICK t : Set(1, [Free EXCEPT !.op = op, !.given = t, !.pc = place])
  BY DEF Call
<1>b. place \in {"begin", "halt", "prepare", "ask"} /\ (op = "stop" <=> place = "halt")
  OBVIOUS
<1>1. PICK pc : /\ Set(1, [Free EXCEPT !.op = op, !.given = t, !.pc = pc])
                /\ pc \in {"begin", "halt", "prepare", "ask"} /\ (op = "stop" <=> pc = "halt")
  BY <1>a, <1>b
<1>2. Set(1, at'[1]) /\ at'[1].op = op /\ at'[1].pc = pc
  BY <1>0, <1>1 DEF Set, Free
<1>3. QED
  BY <1>0, <1>1, <1>2 DEF Calm, Awaiting, StateStays

\* The session's answer, at each step of it.
LEMMA AnswersLast ==
  ASSUME SafeInv, Answer1, Step(1) \/ (\E op \in Ops : Call(1, op)) \/ GiveUp(1)
  PROVE  Answer1'
<1>0. 1 \in Sessions /\ Calls /\ DOMAIN at = Sessions /\ DOMAIN at[1] = Fields
  BY OneIsSession DEF SafeInv, TypeInv, Calls, Sound, Fits
<1>1. at'[1].answer = "none" => Answer1'
  BY DEF Answer1, Answered
<1>2. (\E code : Reply(1, code)) => at'[1].answer = "none"
  BY <1>0, ReplyMakes
<1>3. (\E code, stage : Refuse(1, code, stage)) => at'[1].answer = "none"
  BY <1>0, RefuseMakes
<1>4. ASSUME NEW pc, Goto(1, pc) PROVE at'[1] = [at[1] EXCEPT !.pc = pc] /\ at'[1].pc = pc
  BY <1>0, <1>4 DEF Goto, Set
<1>5. ASSUME NEW pc, Goto(1, pc), at[1].pc \notin Awaiting \union {"persist", "conclude"},
             at[1].op # "fetch" \/ at[1].round # 3 \/ at[1].pc \notin Looking
      PROVE  Answer1'
  <2>1. at'[1].answer = "none"
    BY <1>0, <1>4, <1>5 DEF Answer1, Answered, At
  <2>2. QED
    BY <1>1, <2>1
<1>a. ASSUME at'[1].answer = at[1].answer, at'[1].op = at[1].op, at'[1].round = at[1].round,
             at[1].pc \in Looking, at'[1].pc \in Looking
      PROVE  Answer1'
  BY <1>a DEF Answer1, Answered, At, Awaiting, Looking
<1>6. CASE (\E op \in Ops : Call(1, op)) \/ GiveUp(1)
  <2>1. CASE \E op \in Ops : Call(1, op)
    <3>1. PICK op, t, pc : Set(1, [Free EXCEPT !.op = op, !.given = t, !.pc = pc])
      BY <2>1 DEF Call
    <3>2. QED
      BY <1>0, <1>1, <3>1 DEF Set, Free
  <2>2. QED
    BY <1>1, <1>2, <1>6, <2>1 DEF GiveUp
<1>7. CASE \/ Begin(1) \/ Persist(1) \/ JudgePort(1)
  <2>1. ASSUME NEW code, Started(1, code) PROVE Answer1'
    <3>1. CASE at[1].op = "fetch"
      BY ZenonT(30), <1>0, <2>1, <3>1 DEF Started, Set, Answer1, Answered, At, Looking
    <3>2. CASE at[1].op # "fetch"
      BY <1>1, <1>2, <2>1, <3>2 DEF Started
    <3>3. QED
      BY <3>1, <3>2
  <2>2. CASE Begin(1)
    BY <1>0, <1>1, <1>3, <2>1, <2>2 DEF Begin, Set, Answer1, Answered, At, Awaiting, Looking
  <2>3. CASE Persist(1)
    BY <1>0, <1>1, <1>3, <2>1, <2>3 DEF Persist, Set
  <2>4. CASE JudgePort(1)
    <3>1. CASE Goto(1, "log")
      <4>1. at[1].pc = "judge" /\ (at[1].op # "fetch" \/ at[1].round # 3)
        <5>1. At(1, "judge") /\ Starting(1)
          BY <2>4 DEF JudgePort
        <5>2. 2 # 3 /\ "fetch" \notin {"start", "migrate"}
          OBVIOUS
        <5>3. QED
          BY <5>1, <5>2 DEF At, Starting
      <4>2. QED
        BY <1>5, <3>1, <4>1 DEF Awaiting
    <3>2. QED
      BY <1>1, <1>3, <2>1, <2>4, <3>1 DEF JudgePort
  <2>5. QED
    BY <1>7, <2>2, <2>3, <2>4
<1>8. CASE \/ Vet(1) \/ Kin(1) \/ VetStale(1) \/ RemoveRecord(1) \/ Ask(1) \/ ReadFiles(1)
           \/ Probe(1) \/ Judge(1)
  <2>1. CASE Vet(1) \/ Kin(1) \/ VetStale(1) \/ RemoveRecord(1)
    BY <1>1, <1>3, <1>5, <2>1 DEF Vet, Kin, VetStale, RemoveRecord, At, Awaiting, Looking
  <2>2. CASE Ask(1) \/ ReadFiles(1) \/ Probe(1) \/ Judge(1)
    <3>1. /\ at'[1].answer = at[1].answer /\ at'[1].op = at[1].op
          /\ at'[1].round = at[1].round
      <4>1. CASE Ask(1)
        BY <1>0, <4>1 DEF Ask, Goto, Set
      <4>2. CASE ReadFiles(1)
        BY <1>0, <4>2 DEF ReadFiles, Set
      <4>3. CASE Probe(1)
        BY <1>0, <4>3 DEF Probe, Set
      <4>4. CASE Judge(1)
        BY <1>0, <4>4 DEF Judge, Set
      <4>5. QED
        BY <2>2, <4>1, <4>2, <4>3, <4>4
    <3>2. at[1].pc \in Looking /\ at'[1].pc \in Looking
      BY <1>0, <2>2 DEF Ask, ReadFiles, Probe, Judge, Goto, Set, At, Looking
    <3>3. QED
      BY <1>a, <3>1, <3>2
  <2>3. QED
    BY <1>8, <2>1, <2>2
<1>9. CASE Launch(1) \/ Bound(1) \/ Unwind(1) \/ Halt(1) \/ Stopped(1) \/ Prepare(1)
  BY <1>0, <1>1, <1>2, <1>3, <1>4, <1>9
     DEF Launch, Bound, Unwind, Halt, Stopped, Prepare, Set, At, Awaiting, Looking, Answer1, Answered
<1>10. CASE \/ VetLegacy(1) \/ Forget(1) \/ Recall(1) \/ Announce(1)
            \/ SignalLegacy(1, "interrupt", "wait") \/ WaitLegacy(1, "wait", "kill")
            \/ SignalLegacy(1, "kill", "wait long") \/ WaitLegacy(1, "wait long", "timeout")
            \/ Clear(1) \/ Conclude(1)
  <2>1. ASSUME NEW outcome, Concludes(1, outcome), at[1].answer = "none" PROVE Answer1'
    <3>1. at'[1].answer = "none"
      BY <1>0, <2>1 DEF Concludes, Set
    <3>2. QED
      BY <1>1, <3>1
  <2>2. CASE VetLegacy(1) \/ Forget(1) \/ Recall(1) \/ Announce(1)
    BY <1>0, <1>1, <1>3, <1>5, <2>2
       DEF VetLegacy, Forget, Recall, Announce, Set, At, Awaiting, Looking, Answer1, Answered
  <2>3. CASE WaitLegacy(1, "wait", "kill") \/ WaitLegacy(1, "wait long", "timeout")
    BY <1>5, <2>1, <2>3 DEF WaitLegacy, At, Awaiting, Looking, Answer1, Answered
  <2>4. CASE SignalLegacy(1, "interrupt", "wait") \/ SignalLegacy(1, "kill", "wait long")
    <3>1. ASSUME NEW kind, NEW after,
                 Set(1, [at[1] EXCEPT !.pc = after, !.tried.signals = @ \union {kind}]),
                 at[1].answer = "none"
          PROVE  Answer1'
      <4>1. at'[1].answer = "none"
        BY <1>0, <3>1 DEF Set
      <4>2. QED
        BY <1>1, <4>1
    <3>2. at[1].answer = "none"
      BY <2>4 DEF SignalLegacy, At, Awaiting, Looking, Answer1, Answered
    <3>3. QED
      BY <1>5, <2>1, <2>4, <3>1, <3>2 DEF SignalLegacy, At, Awaiting, Looking
  <2>5. CASE Clear(1)
    BY <1>0, <2>1, <2>5 DEF Clear, Set, At, Awaiting, Looking, Answer1, Answered
  <2>6. CASE Conclude(1)
    <3>1. CASE Set(1, [at[1] EXCEPT !.pc = "begin", !.tried = None]) /\ at[1].answer # "kept"
      BY <1>0, <1>1, <2>6, <3>1 DEF Conclude, Set, At, Awaiting, Looking, Answer1, Answered
    <3>2. QED
      BY <1>1, <1>3, <2>6, <3>1 DEF Conclude
  <2>7. QED
    BY <1>10, <2>2, <2>3, <2>4, <2>5, <2>6
<1>11. CASE \/ ReplyStatus(1) \/ Inspect(1) \/ TakeToken(1) \/ LookAgain(1) \/ Strike(1)
            \/ Release(1) \/ Establish(1) \/ Dial(1) \/ Vouch(1) \/ Send(1)
  <2>1. CASE \E code : Reply(1, code)
    BY <1>1, <1>2, <2>1
  <2>2. CASE TakeToken(1) \/ LookAgain(1) \/ Strike(1) \/ Release(1) \/ Inspect(1) \/ ReplyStatus(1)
    BY <1>0, <1>1, <1>2, <2>2 DEF TakeToken, LookAgain, Strike, Release, Inspect, ReplyStatus,
       Goto, Set, At, Awaiting, Looking, Answer1, Answered
  <2>3. CASE Establish(1) /\ Set(1, [at[1] EXCEPT !.pc = "begin", !.round = 2]) /\ at[1].round = 1
    <3>1. at'[1].answer = "none"
      BY <1>0, <2>3 DEF Establish, Set, At, Awaiting, Looking, Answer1, Answered
    <3>2. QED
      BY <1>1, <3>1
  <2>5. CASE Dial(1) \/ Vouch(1) \/ Send(1)
    <3>1. CASE \E code : Reply(1, code)
      BY <2>1, <3>1
    <3>2. CASE ~ \E code : Reply(1, code)
      <4>1. /\ at'[1].answer = at[1].answer /\ at'[1].op = at[1].op
            /\ at'[1].round = at[1].round
        BY <1>0, <2>5, <3>2 DEF Dial, Vouch, Send, Goto, Set
      <4>2. at[1].pc \in Looking /\ at'[1].pc \in Looking
        BY <1>0, <2>5, <3>2 DEF Dial, Vouch, Send, Goto, Set, At, Looking
      <4>3. QED
        BY <1>a, <4>1, <4>2
    <3>3. QED
      BY <3>1, <3>2
  <2>6. CASE \E p : Establish(1) /\ Set(1, [at[1] EXCEPT !.pc = "dial", !.trust = p])
    <3>1. PICK p : Establish(1) /\ Set(1, [at[1] EXCEPT !.pc = "dial", !.trust = p])
      BY <2>6
    <3>2. /\ at'[1].answer = at[1].answer /\ at'[1].op = at[1].op
          /\ at'[1].round = at[1].round /\ at[1].pc = "decide" /\ at'[1].pc = "dial"
      BY <1>0, <3>1 DEF Establish, Set, At
    <3>3. QED
      BY <1>a, <3>2 DEF Looking
  <2>4. QED
    BY <1>11, <2>1, <2>2, <2>3, <2>5, <2>6 DEF Establish
<1>12. QED
  BY <1>6, <1>7, <1>8, <1>9, <1>10, <1>11 DEF Step

\* Steps that may remove the state file, of a router that is not bound.
Clears ==
  /\ UNCHANGED <<live, self, on, queue, current>> /\ Set(1, at'[1])
  /\ record' \in {record, None} /\ mishaps' \in {mishaps, mishaps \union {"kept"}}
  /\ at'[1].op = at[1].op /\ at'[1].pc \in Easy
  /\ ~ At(1, "idle") /\ at[1].pc # "persist" /\ (at[1].pc \notin Awaiting \/ Answered(1))
  /\ at[1].pc # "binding" /\ at[1].pc # "unwind"
  /\ record = Own => ~ on \/ record' = record
  /\ at'[1].pc # "idle" => at[1].op # "stop"
  /\ at'[1].pc = "idle" /\ at'[1].op = "stop" /\ at'[1].reply = "ok" /\ mishaps' = {}
       => ~ on /\ record' # Own

LEMMA OwnIsKnown ==
  ASSUME SafeInv, self # None
  PROVE  self \in live /\ Own \in SeenRecord /\ Own \in Record /\ Known(Own) /\ Own # None
<1>1. self \in live /\ self \in Seen
  BY DEF SafeInv, TypeInv, MachineTypes
<1>2. Own \in SeenRecord /\ Own \in Record
  BY <1>1 DEF Own, Seen, SeenRecord, Record
<1>3. QED
  BY <1>1, <1>2, FilesAssumption DEF Known

LEMMA ClearsHold ==
  ASSUME SafeInv, Held, Clears
  PROVE  Held'
<1>1. /\ DOMAIN at = Sessions /\ 1 \in Sessions /\ Own' = Own /\ self # None
  BY OneIsSession DEF SafeInv, TypeInv, Calls, Clears, Own, At, Sound, Fits
<1>0. Own # None /\ (record' = Own => record = Own)
  BY <1>1, OwnIsKnown DEF Clears
<1>2. current' = current /\ \A s \in Sessions \ {1} : at'[s] = at[s]
  BY <1>1 DEF Clears, Set
<1>3. Alone1'
  BY <1>2 DEF Held, Alone1, At
<1>4. QueueOf1'
  <2>1. \A i \in DOMAIN queue : queue[i].by = 0
    BY DEF Held, QueueOf1, Clears
  <2>2. queue' = queue /\ ("given up" \notin mishaps' => "given up" \notin mishaps)
    BY DEF Clears
  <2>3. at'[1].pc \notin Awaiting \union {"persist"}
    BY DEF Clears, Easy, Awaiting
  <2>4. QED
    BY <1>0, <1>1, <2>1, <2>2, <2>3 DEF Held, QueueOf1, At
<1>5. Knows1'
  <2>1. at'[1].pc \in Easy
    BY DEF Clears
  <2>2. QED
    BY <1>0, <1>1, <2>1 DEF Knows1, At, Easy
<1>6. Recorded1'
  <2>1. on' = on /\ ("given up" \notin mishaps' => "given up" \notin mishaps) /\ Recorded1
    BY DEF Clears, Held
  <2>2. "given up" \notin mishaps' /\ on => record' = Own
    <3>1. SUFFICES ASSUME "given up" \notin mishaps', on PROVE record' = Own
      OBVIOUS
    <3>2. record = Own
      BY <2>1, <3>1 DEF Clears, Recorded1, At, Answered
    <3>3. QED
      BY <3>1, <3>2 DEF Clears
  <2>3. at'[1].pc = "idle" /\ at'[1].op = "stop" /\ at'[1].reply = "ok" /\ mishaps' = {}
          => ~ on /\ record' # Own
    BY DEF Clears
  <2>4. at'[1].pc # "idle" => at'[1].op # "stop" /\ at'[1].pc \notin {"halt", "stopping"}
    BY DEF Clears, Easy
  <2>5. QED
    BY <1>1, <2>1, <2>2, <2>3, <2>4 DEF Recorded1, At
<1>7. QED
  BY <1>3, <1>4, <1>5, <1>6 DEF Held

LEMMA ClearsFile ==
  ASSUME SafeInv, Held,
         \/ Vet(1) /\ at[1].rec = Own /\ Goto(1, "files") /\ TryRemove
         \/ RemoveRecord(1) \/ Forget(1) \/ Clear(1)
         \/ (Halt(1) /\ queue' = queue) \/ Stopped(1)
  PROVE  Clears
<1>0. /\ 1 \in Sessions /\ Calls /\ DOMAIN at = Sessions /\ DOMAIN at[1] = Fields
  BY OneIsSession DEF SafeInv, TypeInv, Calls, Sound, Fits
<1>1. ~ At(1, "idle") /\ self # None
  BY <1>0 DEF Vet, RemoveRecord, Forget, Clear, Halt, Stopped, At, Calls, Sound, Fits
<1>2. self \in live /\ Own # None
  BY <1>1, OwnIsKnown
<1>3. TryRemove => record' \in {record, None} /\ mishaps' \in {mishaps, mishaps \union {"kept"}}
                   /\ (mishaps' = {} => record' = None)
  BY DEF TryRemove, Mishap
<1>4. CASE Vet(1) /\ at[1].rec = Own /\ Goto(1, "files") /\ TryRemove
  <2>1. /\ at[1].pc = "vet" /\ at[1].op # "stop" /\ (record = Own => ~ on)
        /\ UNCHANGED <<live, self, on, queue, current>>
    BY <1>4 DEF Vet, At, machine, switch, Held, Knows1, Recorded1
  <2>2. Set(1, at'[1]) /\ at'[1].op = at[1].op /\ at'[1].pc = "files"
    BY <1>0, <1>4, GotoMakes
  <2>3. QED
    BY <1>1, <1>3, <1>4, <2>1, <2>2 DEF Clears, Easy, Awaiting
<1>5. CASE RemoveRecord(1) \/ Forget(1) \/ Clear(1)
  <2>1. /\ at[1].pc \in {"remove", "forget", "gone"} /\ at[1].op # "stop"
        /\ UNCHANGED <<live, self, on, queue, current, mishaps>> /\ record' \in {record, None}
    BY <1>5 DEF RemoveRecord, Forget, Clear, At, machine, switch, history, Held, Recorded1
  <2>2. record # Own
    <3>1. at[1].rec = record /\ at[1].rec.router \notin live
      BY <2>1 DEF Held, Knows1
    <3>2. Own.router = self
      BY DEF Own
    <3>3. QED
      BY <1>2, <3>1, <3>2
  <2>3. Set(1, at'[1]) /\ at'[1].op = at[1].op /\ at'[1].pc \in Easy
    <3>1. CASE RemoveRecord(1) \/ Forget(1)
      BY <1>0, <3>1, GotoMakes, RefuseMakes DEF RemoveRecord, Forget, Easy
    <3>2. CASE Clear(1)
      BY ZenonT(30), <1>0, <3>2 DEF Clear, Concludes, Set, Easy
    <3>3. QED
      BY <1>5, <3>1, <3>2
  <2>4. QED
    BY <1>1, <2>1, <2>2, <2>3 DEF Clears, Awaiting
<1>6. CASE Halt(1) /\ queue' = queue
  <2>1. /\ at[1].pc = "halt" /\ UNCHANGED <<live, self, on, queue, current>>
    BY <1>6 DEF Halt, At, machine
  <2>2. ~ on
    <3>1. queue # Append(queue, [cmd |-> "stop", by |-> 1])
      <4>1. queue \in Seq(Command) /\ [cmd |-> "stop", by |-> 1] \in Command
        BY OneIsSession DEF SafeInv, TypeInv, SessionTypes, Command
      <4>2. Len(Append(queue, [cmd |-> "stop", by |-> 1])) = Len(queue) + 1 /\ Len(queue) \in Nat
        BY <4>1, AppendProperties, LenProperties
      <4>3. QED
        BY <4>2
    <3>2. QED
      BY <1>6, <3>1 DEF Halt
  <2>3. /\ Set(1, at'[1]) /\ at'[1].op = at[1].op /\ at'[1].pc = "idle"
    BY <1>0, <1>6, <2>2, ReplyMakes DEF Halt
  <2>4. CASE record = Own /\ TryRemove
    BY <1>1, <1>2, <1>3, <2>1, <2>2, <2>3, <2>4 DEF Clears, Awaiting, Easy
  <2>5. CASE record # Own /\ UNCHANGED <<record, left, mishaps>>
    BY <1>1, <2>1, <2>2, <2>3, <2>5 DEF Clears, Awaiting, Easy
  <2>6. QED
    BY <1>6, <2>2, <2>4, <2>5 DEF Halt
<1>7. CASE Stopped(1)
  <2>1. /\ at[1].pc = "stopping" /\ Answered(1) /\ UNCHANGED <<live, self, on, queue, current>>
        /\ at[1].answer = "ok" => ~ on
    BY <1>7 DEF Stopped, At, machine, switch, Answered, Held, Knows1
  <2>2. /\ Set(1, at'[1]) /\ at'[1].op = at[1].op /\ at'[1].pc = "idle"
        /\ at'[1].reply = at[1].answer
    BY <1>0, <1>7, ReplyMakes DEF Stopped
  <2>3. CASE at[1].answer = "ok" /\ record = Own /\ TryRemove
    BY <1>1, <1>2, <1>3, <2>1, <2>2, <2>3 DEF Clears, Easy
  <2>4. CASE ~ (at[1].answer = "ok" /\ record = Own) /\ UNCHANGED <<record, left, mishaps>>
    BY <1>1, <2>1, <2>2, <2>4 DEF Clears, Easy
  <2>5. QED
    BY <1>7, <2>3, <2>4 DEF Stopped
<1>8. QED
  BY <1>4, <1>5, <1>6, <1>7

\* A command goes to the supervisor, and the call waits for its answer.
Sends(c) ==
  /\ UNCHANGED <<live, self, on, record, mishaps, current>> /\ Set(1, at'[1])
  /\ queue' = Append(queue, [cmd |-> c, by |-> 1])
  /\ at'[1].op = at[1].op /\ at'[1].answer = "none"
  /\ \/ at[1].pc = "log" /\ at'[1].pc = "binding" /\ c = "start"
     \/ at[1].pc = "halt" /\ at'[1].pc = "stopping" /\ c = "stop"
     \/ at[1].pc = "persist" /\ at'[1].pc = "unwind" /\ c = "stop"

LEMMA SendsHold ==
  ASSUME SafeInv, Held, NEW c \in {"start", "stop"}, Sends(c)
  PROVE  Held'
<1>1. DOMAIN at = Sessions /\ 1 \in Sessions /\ Own' = Own /\ queue \in Seq(Command)
  BY OneIsSession DEF SafeInv, TypeInv, Calls, SessionTypes, Sends, Own
<1>2. current' = current /\ \A s \in Sessions \ {1} : at'[s] = at[s]
  BY <1>1 DEF Sends, Set
<1>3. Alone1'
  BY <1>2 DEF Held, Alone1, At
<1>4. QueueOf1'
  <2>1. \A i \in DOMAIN queue : queue[i].by = 0
    BY DEF Held, QueueOf1, Sends, Awaiting
  <2>2. [cmd |-> c, by |-> 1] \in Command
    BY <1>1 DEF Command
  <2>3. /\ Len(queue') = Len(queue) + 1 /\ DOMAIN queue' = 1..(Len(queue) + 1)
        /\ Len(queue) \in Nat /\ DOMAIN queue = 1..Len(queue)
        /\ \A i \in 1..Len(queue) : queue'[i] = queue[i]
        /\ queue'[Len(queue) + 1] = [cmd |-> c, by |-> 1]
    BY <1>1, <2>2, AppendProperties, LenProperties DEF Sends
  <2>4. at'[1].pc \in Awaiting /\ ~ Answered(1)' /\ c = IF at'[1].pc = "binding" THEN "start" ELSE "stop"
    BY DEF Sends, Awaiting, Answered
  <2>5. record = Own => c = "stop"
    BY DEF Held, Knows1, Sends
  <2>6. ASSUME NEW i \in DOMAIN queue'
        PROVE  /\ queue'[i].by # 0 =>
                    /\ i = Len(queue') /\ at'[1].pc \in Awaiting /\ ~ Answered(1)'
                    /\ queue'[i].by = 1
                    /\ queue'[i].cmd = IF at'[1].pc = "binding" THEN "start" ELSE "stop"
               /\ record = Own => queue'[i].cmd = "stop"
               /\ "given up" \notin mishaps => queue'[i].by = 1
    <3>1. CASE i \in 1..Len(queue)
      BY ZenonT(30), <2>1, <2>3, <3>1 DEF Held, QueueOf1
    <3>2. CASE i = Len(queue) + 1
      <4>1. queue'[i] = [cmd |-> c, by |-> 1] /\ i = Len(queue')
        BY <2>3, <3>2
      <4>2. queue'[i].by = 1 /\ queue'[i].cmd = c
        BY <4>1
      <4>3. QED
        BY <2>4, <2>5, <4>1, <4>2, Zenon
    <3>3. i \in 1..Len(queue) \/ i = Len(queue) + 1
      <4>1. i \in 1..(Len(queue) + 1) /\ Len(queue) \in Nat
        BY <2>3
      <4>2. QED
        BY <4>1
    <3>4. QED
      BY <3>1, <3>2, <3>3
  <2>7. at'[1].pc # "persist" /\ record' = record /\ mishaps' = mishaps
    BY DEF Sends
  <2>8. QED
    BY <1>1, <2>4, <2>6, <2>7 DEF QueueOf1, At
<1>5. Knows1'
  BY <1>1 DEF Sends, Held, Knows1, At
<1>6. Recorded1'
  <2>1. UNCHANGED <<on, record, mishaps>> /\ Recorded1
    BY DEF Sends, Held
  <2>2. "given up" \notin mishaps /\ on /\ record # Own => at'[1].pc = "unwind" /\ at'[1].answer = "none"
    BY DEF Sends, Held, Recorded1, At
  <2>3. at'[1].pc # "idle" /\ (at'[1].op = "stop" <=> at'[1].pc \in {"halt", "stopping"})
    BY <2>1 DEF Sends, Recorded1, At
  <2>4. QED
    BY <1>1, <2>1, <2>2, <2>3 DEF Recorded1, At, Answered
<1>7. QED
  BY <1>3, <1>4, <1>5, <1>6 DEF Held

LEMMA PersistHolds ==
  ASSUME SafeInv, Held, Persist(1), ~ Sends("stop")
  PROVE  Held'
<1>0. 1 \in Sessions /\ Calls /\ DOMAIN at = Sessions /\ DOMAIN at[1] = Fields /\ self # None
  BY OneIsSession DEF SafeInv, TypeInv, Calls, Sound, Fits, Persist, At
<1>1. at[1].pc = "persist" /\ UNCHANGED <<live, self, on, current, mishaps>> /\ queue = <<>>
  BY DEF Persist, At, machine, history, Held, QueueOf1
<1>2. record' = Own /\ Started(1, "ok") /\ queue' = queue
  <2>1. CASE /\ queue' = Append(queue, [cmd |-> "stop", by |-> 1]) /\ record' = record
             /\ Set(1, [at[1] EXCEPT !.pc = "unwind", !.answer = "none"])
    <3>1. /\ Set(1, at'[1]) /\ at'[1].op = at[1].op /\ at'[1].pc = "unwind"
          /\ at'[1].answer = "none"
      BY <1>0, <2>1 DEF Set
    <3>2. QED
      BY <1>1, <2>1, <3>1 DEF Sends
  <2>2. QED
    BY <2>1 DEF Persist
<1>3. /\ Set(1, at'[1]) /\ at'[1].op = at[1].op /\ at'[1].pc \in {"idle", "ask"}
  BY <1>0, <1>2, StartedMakes
<1>4. at[1].op # "stop" /\ Own' = Own
  BY <1>1 DEF Held, Recorded1, At, Own
<1>5. \A s \in Sessions \ {1} : at'[s] = at[s]
  BY <1>0, <1>3 DEF Set
<1>6. Alone1'
  BY <1>1, <1>5 DEF Held, Alone1, At
<1>7. QueueOf1'
  <2>1. queue' = <<>> /\ DOMAIN queue' = {}
    BY <1>1, <1>2
  <2>2. QED
    BY <2>1 DEF QueueOf1
<1>8. Knows1'
  BY <1>3 DEF Knows1, At
<1>9. Recorded1'
  BY <1>2, <1>3, <1>4 DEF Recorded1, At
<1>10. QED
  BY <1>6, <1>7, <1>8, <1>9 DEF Held

LEMMA SendsOrNot ==
  ASSUME SafeInv, Held, Answer1
  PROVE  /\ Launch(1) => Sends("start") \/ queue' = queue
         /\ Halt(1) => Sends("stop") \/ queue' = queue
<1>0. 1 \in Sessions /\ Calls /\ DOMAIN at = Sessions
  BY OneIsSession DEF SafeInv, TypeInv, Calls
<1>1. ASSUME Launch(1), queue' # queue PROVE Sends("start")
  <2>1. /\ at[1].pc = "log" /\ UNCHANGED <<live, self, on, record, mishaps, current>>
        /\ queue' = Append(queue, [cmd |-> "start", by |-> 1]) /\ Goto(1, "binding")
    BY <1>1 DEF Launch, At, machine, files, history
  <2>2. at[1].answer = "none"
    BY <2>1 DEF Answer1, Answered, At, Awaiting, Looking
  <2>3. QED
    BY <1>0, <2>1, <2>2, GotoMakes DEF Sends
<1>2. ASSUME Halt(1), queue' # queue PROVE Sends("stop")
  <2>1. /\ at[1].pc = "halt" /\ UNCHANGED <<live, self, on, record, mishaps, current>>
        /\ queue' = Append(queue, [cmd |-> "stop", by |-> 1]) /\ Goto(1, "stopping")
    BY <1>2 DEF Halt, At, machine
  <2>2. at[1].answer = "none"
    BY <2>1 DEF Answer1, Answered, At, Awaiting, Looking
  <2>3. QED
    BY <1>0, <2>1, <2>2, GotoMakes DEF Sends
<1>3. QED
  BY <1>1, <1>2

LEMMA GiveUpHolds ==
  ASSUME SafeInv, Held, GiveUp(1)
  PROVE  Held'
<1>0. 1 \in Sessions /\ Calls /\ DOMAIN at = Sessions /\ queue \in Seq(Command)
  BY OneIsSession DEF SafeInv, TypeInv, Calls, SessionTypes
<1>1. /\ at[1].pc \in Awaiting /\ UNCHANGED <<live, self, on, record, current>>
      /\ mishaps' = mishaps \union {"given up"} /\ Reply(1, "timeout")
      /\ queue' = [i \in DOMAIN queue |-> IF queue[i].by = 1 THEN [queue[i] EXCEPT !.by = 0]
                                          ELSE queue[i]]
  BY DEF GiveUp, Awaiting, Mishap, machine, files
<1>2. /\ Set(1, at'[1]) /\ at'[1].pc = "idle" /\ at'[1].reply = "timeout" /\ Own' = Own
  BY <1>0, <1>1, ReplyMakes DEF Own
<1>3. \A s \in Sessions \ {1} : at'[s] = at[s]
  BY <1>0, <1>2 DEF Set
<1>4. Alone1'
  BY <1>1, <1>3 DEF Held, Alone1, At
<1>5. QueueOf1'
  <2>1. ASSUME NEW i \in DOMAIN queue PROVE queue'[i].by = 0 /\ queue'[i].cmd = queue[i].cmd
    <3>1. queue[i] \in Command
      <4>1. i \in 1..Len(queue)
        BY <1>0, LenProperties
      <4>2. QED
        BY <1>0, <4>1, ElementOfSeq
    <3>2. queue[i].by = 0 \/ queue[i].by = 1
      BY DEF Held, QueueOf1
    <3>3. QED
      BY <1>1, <3>1, <3>2 DEF Command
  <2>2. DOMAIN queue' = DOMAIN queue
    BY <1>1
  <2>3. QED
    BY <1>1, <1>2, <2>1, <2>2 DEF Held, QueueOf1, Awaiting, At
<1>6. Knows1'
  BY <1>2 DEF Knows1, At
<1>7. Recorded1'
  BY <1>1, <1>2 DEF Recorded1, At
<1>8. QED
  BY <1>4, <1>5, <1>6, <1>7 DEF Held

\* A step of the computer, as far as it matters to what the file says.
LEMMA ComputerHolds ==
  ASSUME SafeInv, Held, UNCHANGED <<at, current, queue, record, mishaps, self>>, on' \in {on, FALSE},
         \A p \in Seen : p \in live' => p \in live
  PROVE  Held'
<1>1. Own' = Own /\ 1 \in Sessions /\ Sound(at[1])
  BY OneIsSession DEF Own, SafeInv, TypeInv, Calls
<1>2. Alone1' /\ QueueOf1'
  BY <1>1 DEF Held, Alone1, QueueOf1, At, Answered
<1>3. at[1].pc \in {"remove", "forget", "gone"} => at[1].rec.router \notin live'
  BY <1>1 DEF Held, Knows1, Sound, Fits, SeenRecord
<1>4. on' => on
  OBVIOUS
<1>5. Knows1'
  BY <1>1, <1>3, <1>4 DEF Held, Knows1, At
<1>6. Recorded1'
  BY <1>1, <1>4 DEF Held, Recorded1, At, Answered
<1>7. QED
  BY <1>2, <1>5, <1>6 DEF Held

LEMMA CrashHolds ==
  ASSUME SafeInv, Held, Crash
  PROVE  Held'
<1>1. /\ on' = FALSE /\ queue' = <<>> /\ current' = current
      /\ at' = [s \in Sessions |-> Free] /\ 1 \in Sessions
  BY OneIsSession DEF Crash
<1>2. \A s \in Sessions : at'[s].pc = "idle" /\ at'[s].op = "none" /\ at'[s].reply = "none"
  BY <1>1, FreeSound
<1>3. Alone1' /\ QueueOf1'
  <2>1. DOMAIN queue' = {}
    BY <1>1
  <2>2. QueueOf1'
    BY <1>1, <1>2, <2>1 DEF QueueOf1, At, Awaiting
  <2>3. QED
    BY <1>1, <1>2, <2>2 DEF Held, Alone1, At
<1>4. Knows1' /\ Recorded1'
  BY <1>1, <1>2 DEF Knows1, Recorded1, At
<1>5. QED
  BY <1>3, <1>4 DEF Held

LEMMA OpenHolds ==
  ASSUME SafeInv, Held, Open
  PROVE  Held'
<1>1. MachineTypes /\ FileTypes /\ SessionTypes /\ Calls /\ 1 \in Sessions
  BY OneIsSession DEF SafeInv, TypeInv
<1>2. PICK p : Spawn(p) /\ self' = p
  BY DEF Open
<1>3. /\ self = None /\ current' = 1 /\ UNCHANGED <<on, queue, at, record, mishaps>>
  BY DEF Open, switch, files, history
<1>4. queue' = <<>> /\ on' = FALSE
  BY <1>1, <1>3 DEF SessionTypes, MachineTypes
<1>5. at[1].pc = "idle"
  BY <1>1, <1>3 DEF Calls, Sound, Fits
<1>6. record' # Own'
  <2>1. p \notin Seen /\ p \in Process
    BY <1>1, <1>2, FreshSeen
  <2>2. Own' = [router |-> p, manager |-> p] /\ Own' \in Record
    BY <1>2, <2>1 DEF Own, Record
  <2>3. record \in SeenRecord \union {None, Corrupt}
    BY <1>1 DEF FileTypes
  <2>4. QED
    BY <1>3, <2>1, <2>2, <2>3, FilesAssumption DEF SeenRecord
<1>7. Alone1' /\ QueueOf1'
  BY <1>3, <1>4, <1>5 DEF Held, Alone1, QueueOf1, At, Awaiting
<1>8. Knows1' /\ Recorded1'
  BY <1>3, <1>4, <1>5, <1>6 DEF Knows1, Recorded1, At
<1>9. QED
  BY <1>7, <1>8 DEF Held

LEMMA ExecuteHolds ==
  ASSUME SafeInv, Held, Execute
  PROVE  Held'
<1> DEFINE m == Head(queue)
<1>0. /\ 1 \in Sessions /\ Calls /\ DOMAIN at = Sessions /\ DOMAIN at[1] = Fields
      /\ queue \in Seq(Command)
  BY OneIsSession DEF SafeInv, TypeInv, Calls, Sound, Fits, SessionTypes
<1>1. /\ UNCHANGED <<live, self, current, record, mishaps>> /\ queue # <<>>
      /\ queue' = Tail(queue)
  BY DEF Execute, files, history
<1>2. PICK a : /\ at' = [s \in Sessions |-> IF s = m.by THEN [at[s] EXCEPT !.answer = a] ELSE at[s]]
               /\ m.cmd = "start" =>
                    \/ a = "running" /\ on /\ on' = on
                    \/ a = "ok" /\ on' = TRUE
                    \/ a = "failed" /\ ~ on /\ on' = on
               /\ m.cmd # "start" => m.cmd = "stop" /\ on' = FALSE
  <2>1. CASE m.cmd = "start"
    BY <2>1 DEF Execute
  <2>2. CASE m.cmd = "stop"
    BY <2>2 DEF Execute
  <2>3. QED
    BY <2>1, <2>2 DEF Execute
<1>3. /\ Len(queue) \in Nat \ {0} /\ DOMAIN queue = 1..Len(queue)
      /\ Len(queue') = Len(queue) - 1 /\ DOMAIN queue' = 1..(Len(queue) - 1)
      /\ \A i \in 1..(Len(queue) - 1) : queue'[i] = queue[i + 1]
      /\ m = queue[1] /\ 1 \in DOMAIN queue
  <2>1. /\ Len(Tail(queue)) = Len(queue) - 1 /\ Tail(queue) \in Seq(Command)
        /\ \A i \in 1..Len(Tail(queue)) : Tail(queue)[i] = queue[i + 1]
    BY <1>0, <1>1, HeadTailProperties
  <2>2. Len(queue) \in Nat /\ DOMAIN queue = 1..Len(queue) /\ Len(queue) # 0
    BY <1>0, <1>1, LenProperties, EmptySeq
  <2>3. DOMAIN Tail(queue) = 1..Len(Tail(queue))
    BY <2>1, LenProperties
  <2>4. Head(queue) = queue[1]
    BY <1>0
  <2>5. 1 \in 1..Len(queue)
    BY <2>2
  <2>6. QED
    BY <1>1, <2>1, <2>2, <2>3, <2>4, <2>5
<1>4. /\ m.by # 0 => /\ Len(queue) = 1 /\ at[1].pc \in Awaiting /\ ~ Answered(1) /\ m.by = 1
                     /\ m.cmd = IF at[1].pc = "binding" THEN "start" ELSE "stop"
      /\ record = Own => m.cmd = "stop"
      /\ "given up" \notin mishaps => m.by = 1
  BY <1>3 DEF Held, QueueOf1, At
<1>5. ~ Answered(1) \/ at[1].pc \notin Awaiting
  BY <1>1 DEF Held, QueueOf1
<1>a. 0 \notin Sessions /\ (m.by = 1 => m.by # 0)
  <2>1. PICK n : n = Cardinality(Sessions) /\ n \in Nat
    BY SessionsAssumption, FS_CardinalityType
  <2>2. 0 \notin 1..n
    BY <2>1
  <2>3. Sessions = 1..n
    BY <2>1, SessionsAssumption
  <2>4. 0 \notin Sessions
    BY <2>2, <2>3
  <2>5. QED
    BY <2>4
<1>6. /\ at'[1].pc = at[1].pc /\ at'[1].op = at[1].op /\ at'[1].rec = at[1].rec
      /\ at'[1].reply = at[1].reply
      /\ m.by = 1 => at'[1].answer = a
      /\ m.by # 1 => at'[1] = at[1]
  <2>1. at'[1] = IF m.by = 1 THEN [at[1] EXCEPT !.answer = a] ELSE at[1]
    BY <1>0, <1>2
  <2>2. QED
    BY <1>0, <2>1
<1>7. Own' = Own
  BY <1>1 DEF Own
<1>8. Alone1'
  <2>1. ASSUME NEW s \in Sessions \ {1} PROVE at'[s] = at[s]
    <3>1. s # m.by
      BY <1>4, <1>a
    <3>2. QED
      BY <1>2, <3>1
  <2>2. QED
    BY <1>1, <2>1 DEF Held, Alone1, At
<1>9. QueueOf1'
  <2>1. ASSUME NEW i \in DOMAIN queue'
        PROVE  /\ queue'[i].by # 0 =>
                    /\ i = Len(queue') /\ at'[1].pc \in Awaiting /\ ~ Answered(1)'
                    /\ queue'[i].by = 1
                    /\ queue'[i].cmd = IF at'[1].pc = "binding" THEN "start" ELSE "stop"
               /\ record = Own => queue'[i].cmd = "stop"
               /\ "given up" \notin mishaps => queue'[i].by = 1
    <3>1. i \in Nat /\ i + 1 \in DOMAIN queue /\ Len(queue) # 1 /\ queue'[i] = queue[i + 1]
      BY <1>3
    <3>2. m.by = 0 /\ at'[1] = at[1]
      BY <1>4, <1>6, <1>a, <3>1
    <3>3. i + 1 = Len(queue) => i = Len(queue')
      BY <1>3, <3>1
    <3>4. QED
      BY <3>1, <3>2, <3>3 DEF Held, QueueOf1, At, Answered
  <2>2. (at'[1].pc \in Awaiting /\ Answered(1)') \/ at'[1].pc = "persist" => queue' = <<>>
    <3>1. at[1].pc # "persist"
      BY <1>1 DEF Held, QueueOf1, At
    <3>2. CASE m.by = 1
      <4>1. Len(queue') = 0 /\ queue' \in Seq(Command)
        <5>1. Len(queue) = 1
          BY <1>4, <1>a, <3>2
        <5>2. QED
          BY <1>0, <1>1, <1>3, <5>1, HeadTailProperties
      <4>2. QED
        BY <4>1, EmptySeq
    <3>3. CASE m.by # 1
      BY <1>5, <1>6, <3>1, <3>3 DEF Answered
    <3>4. QED
      BY <3>2, <3>3
  <2>3. QED
    BY <1>1, <1>7, <2>1, <2>2 DEF QueueOf1, At
<1>10. Knows1'
  <2>1. at[1].pc = "vet" /\ record = Own => ~ on'
    BY <1>2, <1>4
  <2>2. at[1].pc = "stopping" /\ at'[1].answer = "ok" => ~ on'
    BY <1>2, <1>4, <1>5, <1>6, <1>a DEF Answered, Awaiting
  <2>3. QED
    BY <1>1, <1>6, <1>7, <2>1, <2>2 DEF Held, Knows1, At
<1>11. Recorded1'
  <2>1. "given up" \notin mishaps /\ on' /\ record # Own => at[1].pc = "binding" /\ at'[1].answer = "ok"
    <3>1. SUFFICES ASSUME "given up" \notin mishaps, on', record # Own
                   PROVE  at[1].pc = "binding" /\ at'[1].answer = "ok"
      OBVIOUS
    <3>2. m.by = 1 /\ m.cmd = "start" /\ at[1].pc = "binding" /\ ~ Answered(1)
      BY <1>2, <1>4, <1>a, <3>1
    <3>3. ~ on
      BY <3>1, <3>2 DEF Held, Recorded1, At, Answered
    <3>4. QED
      BY <1>2, <1>6, <3>1, <3>2, <3>3
  <2>2. mishaps = {} => at[1].pc # "idle"
    BY <1>4, <1>a DEF Awaiting
  <2>3. QED
    BY <1>1, <1>6, <1>7, <2>1, <2>2 DEF Held, Recorded1, At
<1>12. QED
  BY <1>8, <1>9, <1>10, <1>11 DEF Held

\* No mishap is taken back.
LEMMA MishapsStay ==
  ASSUME [Next]_vars
  PROVE  mishaps \subseteq mishaps'
<1>1. ASSUME NEW s \in Sessions, Step(s) PROVE mishaps \subseteq mishaps'
  BY <1>1 DEF Step, Begin, Vet, Kin, VetStale, RemoveRecord, Ask, ReadFiles, Probe, JudgePort, Judge, Launch,
     Bound, Persist, Unwind, Halt, Stopped, Prepare, VetLegacy, Forget, Recall, Announce,
     SignalLegacy, WaitLegacy, Clear, Conclude, ReplyStatus, Inspect, TakeToken, LookAgain,
     Strike, Release, Establish, Dial, Vouch, Send, history, TryRemove, Mishap
<1>2. ASSUME NEW s \in Sessions, (\E op \in Ops : Call(s, op)) \/ GiveUp(s)
      PROVE  mishaps \subseteq mishaps'
  BY <1>2 DEF Call, GiveUp, history, Mishap
<1>3. CASE \/ Execute \/ LoseListener \/ Open \/ Crash \/ Respawn \/ Arrive \/ CliRecords \/ Leave
           \/ UNCHANGED vars
  BY <1>3 DEF Execute, LoseListener, Open, Crash, Respawn, Arrive, CliRecords, Leave, vars,
     history, Mishap
<1>4. QED
  BY <1>1, <1>2, <1>3 DEF Next

\* As long as no session is replaced, only the first one does anything.
LEMMA OnlyFirst ==
  ASSUME SafeInv, Alone1, NEW s \in Sessions, Step(s) \/ (\E op \in Ops : Call(s, op)) \/ GiveUp(s)
  PROVE  s = 1
<1>1. Step(s) => at[s].pc # "idle"
  BY DEF Step, At, Begin, Vet, Kin, VetStale, RemoveRecord, Ask, ReadFiles, Probe, JudgePort, Judge, Launch,
         Bound, Persist, Unwind, Halt, Stopped, Prepare, VetLegacy, Forget, Recall, Announce,
         SignalLegacy, WaitLegacy, Clear, Conclude, ReplyStatus, Inspect, TakeToken, LookAgain,
         Strike, Release, Establish, Dial, Vouch, Send
<1>2. (\E op \in Ops : Call(s, op)) => s = 1
  BY DEF Call, Alone1
<1>3. GiveUp(s) => at[s].pc # "idle"
  BY DEF GiveUp
<1>4. QED
  BY <1>1, <1>2, <1>3 DEF Alone1, At

LEMMA StepsHold ==
  ASSUME SafeInv, Held, Answer1, Step(1) \/ (\E op \in Ops : Call(1, op)) \/ GiveUp(1)
  PROVE  Held'
<1>1. CASE Calm
  BY <1>1, CalmHolds
<1>2. CASE Clears
  BY <1>2, ClearsHold
<1>3. CASE \E c \in {"start", "stop"} : Sends(c)
  BY <1>3, SendsHold
<1>4. CASE GiveUp(1)
  BY <1>4, GiveUpHolds
<1>5. CASE \E op \in Ops : Call(1, op)
  BY <1>1, <1>5, CalmCall
<1>6. CASE Vet(1)
  BY <1>1, <1>2, <1>6, CalmStart, ClearsFile DEF Vet
<1>7. CASE \/ RemoveRecord(1) \/ Forget(1) \/ Clear(1) \/ Stopped(1)
  BY <1>2, <1>7, ClearsFile
<1>8. CASE Launch(1)
  BY <1>1, <1>3, <1>8, SendsOrNot, CalmSwitch
<1>9. CASE Halt(1)
  BY <1>2, <1>3, <1>9, SendsOrNot, ClearsFile
<1>10. CASE Persist(1)
  BY <1>3, <1>10, PersistHolds
<1>11. CASE \/ Begin(1) \/ Kin(1) \/ VetStale(1) \/ Ask(1) \/ ReadFiles(1) \/ Probe(1)
            \/ JudgePort(1) \/ Judge(1)
  BY <1>1, <1>11, CalmStart, CalmJudge
<1>12. CASE Bound(1) \/ Unwind(1) \/ Prepare(1)
  BY <1>1, <1>12, CalmSwitch
<1>13. CASE \/ VetLegacy(1) \/ Recall(1) \/ Announce(1) \/ Conclude(1)
            \/ SignalLegacy(1, "interrupt", "wait") \/ WaitLegacy(1, "wait", "kill")
            \/ SignalLegacy(1, "kill", "wait long") \/ WaitLegacy(1, "wait long", "timeout")
  BY <1>1, <1>13, CalmLegacy
<1>14. CASE \/ ReplyStatus(1) \/ Inspect(1) \/ TakeToken(1) \/ LookAgain(1) \/ Strike(1)
            \/ Release(1) \/ Establish(1) \/ Dial(1) \/ Vouch(1) \/ Send(1)
  BY <1>1, <1>14, CalmDecide
<1>15. QED
  BY <1>4, <1>5, <1>6, <1>7, <1>8, <1>9, <1>10, <1>11, <1>12, <1>13, <1>14 DEF Step

LEMMA NextHolds ==
  ASSUME SafeInv, SafeInv', StateInv, [Next]_vars
  PROVE  StateInv'
<1>1. SUFFICES ASSUME One' PROVE Held' /\ Answer1'
  BY DEF StateInv
<1>2. One /\ Held /\ Answer1
  BY <1>1, MishapsStay DEF One, StateInv
<1>3. CASE \E s \in Sessions : (\E op \in Ops : Call(s, op)) \/ Step(s) \/ GiveUp(s)
  <2>1. (\E op \in Ops : Call(1, op)) \/ Step(1) \/ GiveUp(1)
    BY <1>2, <1>3, OnlyFirst DEF Held
  <2>2. QED
    BY <1>2, <2>1, StepsHold, AnswersLast
<1>4. CASE Execute
  <2>1. Answer1'
    <3>1. queue # <<>> /\ Head(queue) = queue[1] /\ 1 \in DOMAIN queue
      <4>1. queue \in Seq(Command)
        BY DEF SafeInv, TypeInv, SessionTypes
      <4>2. queue # <<>>
        BY <1>4 DEF Execute
      <4>3. DOMAIN queue = 1..Len(queue) /\ Len(queue) \in Nat \ {0}
        BY <4>1, <4>2, LenProperties, EmptySeq
      <4>4. 1 \in 1..Len(queue)
        BY <4>3
      <4>5. QED
        BY <4>1, <4>2, <4>3, <4>4
    <3>2. PICK a : at' = [s \in Sessions |-> IF s = Head(queue).by THEN [at[s] EXCEPT !.answer = a]
                                             ELSE at[s]]
      BY <1>4 DEF Execute
    <3>3. 1 \in Sessions /\ DOMAIN at[1] = Fields
      BY OneIsSession DEF SafeInv, TypeInv, Calls, Sound, Fits
    <3>4. CASE Head(queue).by = 1
      <4>1. at[1].pc \in Awaiting
        <5>1. queue[1].by # 0
          BY <3>1, <3>4
        <5>2. QED
          BY <1>2, <3>1, <5>1 DEF Held, QueueOf1
      <4>2. at'[1].pc = at[1].pc
        BY <3>2, <3>3
      <4>3. QED
        BY <4>1, <4>2 DEF Answer1
    <3>5. CASE Head(queue).by # 1
      <4>1. at'[1] = at[1]
        BY <3>2, <3>3, <3>5
      <4>2. QED
        BY <1>2, <4>1 DEF Answer1, Answered, At
    <3>6. QED
      BY <3>4, <3>5
  <2>2. QED
    BY <1>2, <1>4, <2>1, ExecuteHolds
<1>5. CASE Crash
  <2>1. 1 \in Sessions /\ at'[1] = Free
    BY <1>5, OneIsSession DEF Crash
  <2>2. QED
    BY <1>2, <1>5, <2>1, CrashHolds DEF Answer1, Answered, Free
<1>6. CASE Open
  <2>1. at' = at
    BY <1>6 DEF Open
  <2>2. QED
    BY <1>2, <1>6, <2>1, OpenHolds DEF Answer1, Answered, At
<1>7. CASE LoseListener \/ Arrive \/ CliRecords \/ Leave \/ UNCHANGED vars
  <2>1. /\ UNCHANGED <<at, current, queue, record, mishaps, self>> /\ on' \in {on, FALSE}
    BY <1>7 DEF LoseListener, Arrive, CliRecords, Leave, vars, machine, switch, files, history
  <2>2. \A p \in Seen : p \in live' => p \in live
    <3>1. CASE Arrive
      <4>1. PICK p : Spawn(p)
        BY <3>1 DEF Arrive
      <4>2. QED
        BY <4>1, FreshSeen DEF SafeInv, TypeInv
    <3>2. CASE LoseListener \/ CliRecords \/ Leave \/ UNCHANGED vars
      BY <3>2 DEF LoseListener, CliRecords, Leave, vars, machine, Die
    <3>3. QED
      BY <1>7, <3>1, <3>2
  <2>3. QED
    BY <1>2, <2>1, <2>2, ComputerHolds DEF Answer1, Answered, At
<1>8. CASE Respawn
  BY <1>1, <1>8 DEF Respawn, One, Mishap
<1>9. QED
  BY <1>3, <1>4, <1>5, <1>6, <1>7, <1>8 DEF Next

LEMMA InitHolds ==
  ASSUME Init
  PROVE  StateInv
<1>1. /\ current = 1 /\ queue = <<>> /\ on = FALSE /\ at = [s \in Sessions |-> Free]
      /\ 1 \in Sessions /\ DOMAIN queue = {}
  BY OneIsSession DEF Init
<1>2. \A s \in Sessions : at[s].pc = "idle" /\ at[s].op = "none" /\ at[s].reply = "none"
                          /\ at[s].answer = "none"
  BY <1>1, FreeSound DEF Free
<1>3. Alone1 /\ QueueOf1
  BY <1>1, <1>2 DEF Alone1, QueueOf1, At, Awaiting
<1>4. Knows1 /\ Recorded1 /\ Answer1
  BY <1>1, <1>2 DEF Knows1, Recorded1, Answer1, Answered, At
<1>5. QED
  BY <1>3, <1>4 DEF StateInv, Held

\* A stop that was confirmed has stopped the router and removed its record; and
\* unless a caller gave up, a router bound between calls is the one the state
\* file names: for any number of calls, processes and crashes, as long as no
\* session was replaced in the middle of a call.
THEOREM RecordTellsBound == Spec => []RecordIsTrue
<1>1. Init => SafeInv /\ StateInv
  BY InitIsSafe, InitHolds
<1>2. SafeInv /\ StateInv /\ [Next]_vars => SafeInv' /\ StateInv'
  BY NextIsSafe, NextHolds
<1>3. SafeInv /\ StateInv => RecordIsTrue
  <2>1. SUFFICES ASSUME SafeInv, StateInv PROVE RecordIsTrue
    OBVIOUS
  <2>2. ASSUME NEW s \in Sessions, at[s].op = "stop", at[s].reply = "ok", mishaps = {}
        PROVE  ~ on /\ record # Own
    <3>1. Held /\ mishaps = {}
      BY <2>1, <2>2 DEF StateInv, One
    <3>2. s = 1
      BY <2>2, <3>1 DEF Held, Alone1
    <3>3. at[1].pc = "idle"
      BY <2>1, <2>2, <3>2 DEF SafeInv, TypeInv, Calls, Sound, Fits
    <3>4. QED
      BY <2>2, <3>1, <3>2, <3>3 DEF Held, Recorded1, At
  <2>3. ASSUME on, \A s \in Sessions : At(s, "idle"), mishaps \subseteq {"kept"}
        PROVE  record = Own
    <3>1. Held /\ "given up" \notin mishaps
      BY <2>1, <2>3 DEF StateInv, One
    <3>2. At(1, "idle")
      BY <2>3, OneIsSession
    <3>3. QED
      BY <2>3, <3>1, <3>2 DEF Held, Recorded1, At
  <2>4. QED
    BY <2>2, <2>3 DEF RecordIsTrue
<1>4. QED
  BY <1>1, <1>2, <1>3, PTL DEF Spec

\* The state file is removed only by a call that knows it, when the router it
\* names has ended or is this desktop's own and not bound.
LEMMA Removed ==
  ASSUME SafeInv, StateInv, One, [Next]_vars, record # record', record' = None
  PROVE  Known(record) /\ (record.router \in live => record = Own /\ ~ on')
<1>1. Held /\ FileTypes
  BY DEF StateInv, SafeInv, TypeInv
<1>2. CASE Step(1)
  <2>1. self # None /\ Known(Own) /\ Own # None
    <3>1. self # None
      BY <1>2, StepsRun, OneIsSession DEF SafeInv, TypeInv
    <3>2. QED
      BY <3>1, OwnIsKnown
  <2>2. at[1].rec \in SeenRecord => Known(at[1].rec)
    BY FilesAssumption DEF SeenRecord, Seen, Record, Known
  <2>3. Sound(at[1])
    BY OneIsSession DEF SafeInv, TypeInv, Calls
  <2>4. CASE Vet(1)
    <3>1. at[1].rec = Own /\ at[1].rec = record /\ ~ on /\ on' = on
      BY <1>1, <2>4 DEF Vet, At, Held, Knows1, switch
    <3>2. QED
      BY <2>1, <3>1
  <2>5. CASE RemoveRecord(1) \/ Forget(1) \/ Clear(1)
    <3>1. at[1].pc \in {"remove", "forget", "gone"}
      BY <2>5 DEF RemoveRecord, Forget, Clear, At
    <3>2. at[1].rec = record /\ at[1].rec.router \notin live /\ at[1].rec \in SeenRecord
      BY <1>1, <2>3, <3>1 DEF Held, Knows1, Sound, Fits
    <3>3. QED
      BY <2>2, <3>2
  <2>6. CASE Halt(1)
    <3>1. record = Own /\ ~ on /\ on' = on
      BY <2>6 DEF Halt
    <3>2. QED
      BY <2>1, <3>1
  <2>7. CASE Stopped(1)
    <3>1. record = Own /\ at[1].answer = "ok" /\ at[1].pc = "stopping" /\ on' = on
      BY <2>7 DEF Stopped, At, switch
    <3>2. ~ on
      BY <1>1, <3>1 DEF Held, Knows1, At
    <3>3. QED
      BY <2>1, <3>1, <3>2
  <2>8. CASE Persist(1)
    BY <2>1, <2>8 DEF Persist
  <2>9. ASSUME ~ Vet(1), ~ RemoveRecord(1), ~ Forget(1), ~ Clear(1), ~ Halt(1), ~ Stopped(1),
               ~ Persist(1)
        PROVE  record' = record
    BY <1>2, <2>9 DEF Step, Begin, Kin, VetStale, Ask, ReadFiles, Probe, JudgePort, Judge, Launch, Bound, Unwind,
       Prepare, VetLegacy, Recall, Announce, SignalLegacy, WaitLegacy, Conclude, ReplyStatus,
       Inspect, TakeToken, LookAgain, Strike, Release, Establish, Dial, Vouch, Send, files
  <2>10. QED
    BY <2>4, <2>5, <2>6, <2>7, <2>8, <2>9
<1>3. CASE \E s \in Sessions : (\E op \in Ops : Call(s, op)) \/ Step(s) \/ GiveUp(s)
  <2>1. (\E op \in Ops : Call(1, op)) \/ Step(1) \/ GiveUp(1)
    BY <1>1, <1>3, OnlyFirst DEF Held
  <2>2. ~ (\E op \in Ops : Call(1, op)) /\ ~ GiveUp(1)
    BY DEF Call, GiveUp, files
  <2>3. QED
    BY <1>2, <2>1, <2>2
<1>4. ~ (Execute \/ LoseListener \/ Open \/ Crash \/ Respawn \/ Arrive \/ CliRecords \/ Leave
         \/ UNCHANGED vars)
  BY DEF Execute, LoseListener, Open, Crash, Respawn, Arrive, CliRecords, Leave, vars, files
<1>5. QED
  BY <1>3, <1>4 DEF Next

\* A record is never taken from a running router, unless it is this desktop's
\* own and not bound.
THEOREM RemovedWhenEnded == Spec => RemovesOnlyEnded
<1>1. Init => SafeInv /\ StateInv
  BY InitIsSafe, InitHolds
<1>2. SafeInv /\ StateInv /\ [Next]_vars => SafeInv' /\ StateInv'
  BY NextIsSafe, NextHolds
<1>3. SafeInv /\ StateInv /\ [Next]_vars
        => [record # record' /\ record' = None /\ "replaced" \notin mishaps
              => Known(record) /\ (record.router \in live => record = Own /\ ~ on')]_vars
  BY Removed DEF One
<1>4. QED
  BY <1>1, <1>2, <1>3, PTL DEF Spec, RemovesOnlyEnded

-----------------------------------------------------------------------------
(* One session: one attempt. *)

\* Who was signalled, and its manager, stay who they were.
LEMMA AttemptLasts ==
  ASSUME SafeInv, Attempted, signalled' = signalled, \A p \in Seen : p \in live' => p \in live,
         signalled # {} => Known(attempt') /\ Blocks(attempt')
  PROVE  Attempted'
<1>1. ASSUME NEW x \in signalled PROVE x.rec.manager \notin live'
  <2>1. x.rec.manager \in Seen
    BY DEF SafeInv, TypeInv, HistoryTypes, SeenRecord
  <2>2. QED
    BY <2>1 DEF Attempted
<1>2. QED
  BY <1>1 DEF Attempted

\* Steps that do not touch the attempt.
LEMMA AttemptAway ==
  ASSUME SafeInv, Attempted, UNCHANGED <<attempt, signalled>>,
         \A p \in Seen : p \in live' => p \in live, at'[1].pc \notin Stopping
  PROVE  Attempted' /\ AttemptPlace'
<1>1. Attempted'
  BY AttemptLasts DEF Attempted
<1>2. AttemptPlace'
  BY DEF AttemptPlace, At
<1>3. QED
  BY <1>1, <1>2

LEMMA OtherSteps ==
  ASSUME SafeInv, Attempted,
         \/ Begin(1) \/ Vet(1) \/ Kin(1) \/ VetStale(1) \/ RemoveRecord(1)
         \/ Ask(1) \/ ReadFiles(1) \/ Probe(1)
         \/ JudgePort(1) \/ Judge(1) \/ Launch(1) \/ Bound(1) \/ Persist(1) \/ Unwind(1)
         \/ Halt(1) \/ Stopped(1) \/ Prepare(1) \/ ReplyStatus(1) \/ Inspect(1) \/ TakeToken(1)
         \/ LookAgain(1) \/ Strike(1) \/ Release(1) \/ Establish(1) \/ Dial(1) \/ Vouch(1)
         \/ Send(1) \/ GiveUp(1) \/ (\E op \in Ops : Call(1, op))
  PROVE  Attempted' /\ AttemptPlace'
<1>0. 1 \in Sessions /\ Calls /\ DOMAIN at = Sessions /\ DOMAIN at[1] = Fields /\ TypeInv
  BY OneIsSession DEF SafeInv, TypeInv, Calls, Sound, Fits
<1>1. (\E code : Reply(1, code)) \/ (\E code, stage : Refuse(1, code, stage)) => at'[1].pc = "idle"
  BY <1>0, ReplyMakes, RefuseMakes
<1>2. (\E code : Started(1, code)) => at'[1].pc \in {"idle", "ask"}
  BY <1>0, StartedMakes
<1>3. (\E pc \in {"files", "kin", "stale", "port", "reused", "remove", "log", "binding", "persist", "stopping", "begin", "release",
                  "send"} : Goto(1, pc)) => at'[1].pc \notin Stopping
  BY ZenonT(30), <1>0, GotoMakes
<1>4. at'[1].pc \notin Stopping
  <2>1. CASE \/ Begin(1) \/ Vet(1) \/ Kin(1) \/ VetStale(1) \/ RemoveRecord(1)
             \/ Ask(1) \/ ReadFiles(1) \/ Probe(1)
    <3>1. CASE Vet(1) \/ Kin(1) \/ VetStale(1)
      BY <1>0, <1>1, <1>3, <3>1 DEF Vet, Kin, VetStale
    <3>2. CASE Ask(1)
      <4>1. CASE Goto(1, "files")
        BY <1>3, <4>1
      <4>2. CASE \E c : Set(1, [at[1] EXCEPT !.class = c, !.rec = Own, !.seen = self, !.pc = "decide"])
        BY <1>0, <4>2 DEF Set, Stopping, Fields
      <4>3. QED
        BY <3>2, <4>1, <4>2 DEF Ask
    <3>3. CASE Begin(1)
      <4>1. CASE Set(1, [at[1] EXCEPT !.rec = record,
                                      !.pc = IF record = None THEN "files" ELSE "vet"])
        BY <1>0, <4>1 DEF Set
      <4>2. QED
        BY <1>1, <1>2, <3>3, <4>1 DEF Begin
    <3>4. CASE RemoveRecord(1)
      BY <1>1, <1>3, <3>4 DEF RemoveRecord
    <3>5. CASE ReadFiles(1)
      BY <1>0, <3>5 DEF ReadFiles, Set
    <3>6. CASE Probe(1)
      BY <1>0, <3>6 DEF Probe, Set
    <3>7. QED
      BY <2>1, <3>1, <3>2, <3>3, <3>4, <3>5, <3>6
  <2>2. CASE \/ JudgePort(1) \/ Judge(1) \/ Launch(1) \/ Bound(1) \/ Persist(1) \/ Unwind(1)
             \/ Halt(1) \/ Stopped(1) \/ Prepare(1)
    <3>1. CASE JudgePort(1)
      BY <1>0, <1>1, <1>2, <1>3, <3>1 DEF JudgePort, Set
    <3>2. CASE Judge(1)
      BY <1>0, <1>1, <1>2, <1>3, <3>2 DEF Judge, Set
    <3>3. CASE Launch(1)
      BY <1>0, <1>1, <1>2, <1>3, <3>3 DEF Launch, Set
    <3>4. CASE Bound(1)
      BY <1>0, <1>1, <1>2, <1>3, <3>4 DEF Bound, Set
    <3>5. CASE Persist(1)
      BY ZenonT(30), <1>0, <1>1, <1>2, <1>3, <3>5 DEF Persist, Set
    <3>6. CASE Unwind(1)
      BY <1>0, <1>1, <1>2, <1>3, <3>6 DEF Unwind, Set
    <3>7. CASE Halt(1)
      BY <1>0, <1>1, <1>2, <1>3, <3>7 DEF Halt, Set
    <3>8. CASE Stopped(1)
      BY <1>0, <1>1, <1>2, <1>3, <3>8 DEF Stopped, Set
    <3>9. CASE Prepare(1)
      BY ZenonT(30), <1>0, <1>1, <1>2, <1>3, <3>9 DEF Prepare, Set
    <3>10. QED
      BY <2>2, <3>1, <3>2, <3>3, <3>4, <3>5, <3>6, <3>7, <3>8, <3>9
  <2>3. CASE \/ ReplyStatus(1) \/ Inspect(1) \/ TakeToken(1) \/ LookAgain(1) \/ Strike(1)
             \/ Release(1) \/ Establish(1) \/ Dial(1) \/ Vouch(1) \/ Send(1) \/ GiveUp(1)
    <3>1. CASE \E code : Reply(1, code)
      BY <1>1, <3>1
    <3>2. CASE \E pc \in {"release", "send"} : Goto(1, pc)
      BY ZenonT(30), <1>0, <3>2, GotoMakes
    <3>3. ASSUME NEW new, Set(1, new), new.pc \notin Stopping PROVE at'[1].pc \notin Stopping
      BY <1>0, <3>3 DEF Set
    <3>4. CASE ReplyStatus(1) \/ Inspect(1) \/ Release(1) \/ Send(1) \/ GiveUp(1)
      BY <3>1, <3>4 DEF ReplyStatus, Inspect, Release, Send, GiveUp
    <3>5. CASE Strike(1) \/ Vouch(1)
      BY <3>1, <3>2, <3>5 DEF Strike, Vouch
    <3>6. CASE TakeToken(1)
      <4> DEFINE new == [at[1] EXCEPT !.pc = "look again", !.trust = token[1].target]
      <4>1. new.pc \notin Stopping
        BY <1>0 DEF Stopping, Fields
      <4>2. Set(1, new) \/ Reply(1, "refused")
        BY <3>6 DEF TakeToken
      <4> HIDE DEF new
      <4>3. QED
        BY <3>1, <3>3, <4>1, <4>2
    <3>7. CASE LookAgain(1)
      <4> DEFINE new == [at[1] EXCEPT !.pc = "strike", !.seen = Owner]
      <4>1. new.pc \notin Stopping
        BY <1>0 DEF Stopping, Fields
      <4>2. Set(1, new) \/ Reply(1, "changed")
        BY <3>7 DEF LookAgain
      <4> HIDE DEF new
      <4>3. QED
        BY <3>1, <3>3, <4>1, <4>2
    <3>8. CASE Dial(1)
      <4> DEFINE new == [at[1] EXCEPT !.pc = "vouch", !.seen = bound]
      <4>1. new.pc \notin Stopping
        BY <1>0 DEF Stopping, Fields
      <4>2. Set(1, new) \/ Reply(1, "stale")
        BY <3>8 DEF Dial
      <4> HIDE DEF new
      <4>3. QED
        BY <3>1, <3>3, <4>1, <4>2
    <3>9. CASE Establish(1)
      <4> DEFINE again == [at[1] EXCEPT !.pc = "begin", !.round = 2]
                 own == [at[1] EXCEPT !.pc = "dial", !.trust = at[1].rec.router]
                 other == [at[1] EXCEPT !.pc = "dial", !.trust = at[1].cli]
      <4>1. again.pc \notin Stopping /\ own.pc \notin Stopping /\ other.pc \notin Stopping
        BY <1>0 DEF Stopping, Fields
      <4>2. Set(1, again) \/ Set(1, own) \/ Set(1, other) \/ Reply(1, at[1].class)
        BY <3>9 DEF Establish
      <4> HIDE DEF again, own, other
      <4>3. QED
        BY <3>1, <3>3, <4>1, <4>2
    <3>10. QED
      BY <2>3, <3>4, <3>5, <3>6, <3>7, <3>8, <3>9
  <2>4. CASE \E op \in Ops : Call(1, op)
    <3>1. at'[1].pc \in {"begin", "halt", "prepare", "ask"}
      BY <1>0, <2>4, CallMoves
    <3>2. QED
      BY <3>1
  <2>5. QED
    BY <2>1, <2>2, <2>3, <2>4
<1>5. UNCHANGED <<attempt, signalled, live>>
  BY DEF Begin, Vet, Kin, VetStale, RemoveRecord, Ask, ReadFiles, Probe, JudgePort, Judge, Launch, Bound, Persist,
     Unwind, Halt, Stopped, Prepare, ReplyStatus, Inspect, TakeToken, LookAgain, Strike, Release,
     Establish, Dial, Vouch, Send, GiveUp, Call, machine, files, history
<1>6. QED
  BY <1>4, <1>5, AttemptAway

\* A step on the way from the recorded router to the end of the attempt.
LEMMA AttemptSteps ==
  ASSUME SafeInv, Attempted, AttemptPlace,
         \/ VetLegacy(1) \/ Recall(1) \/ Forget(1) \/ Announce(1) \/ Clear(1) \/ Conclude(1)
         \/ WaitLegacy(1, "wait", "kill") \/ WaitLegacy(1, "wait long", "timeout")
  PROVE  Attempted' /\ AttemptPlace'
<1>0. /\ 1 \in Sessions /\ Calls /\ DOMAIN at = Sessions /\ DOMAIN at[1] = Fields
      /\ UNCHANGED <<live, self, signalled>>
  BY OneIsSession DEF SafeInv, TypeInv, Calls, Sound, Fits, VetLegacy, Recall, Forget, Announce,
     Clear, Conclude, WaitLegacy, machine, history
<1>1. CASE \E code, stage : Refuse(1, code, stage) /\ attempt' = attempt
  <2>1. at'[1].pc = "idle"
    BY <1>0, <1>1, RefuseMakes
  <2>2. QED
    BY <1>0, <1>1, <2>1, AttemptAway
<1>2. ASSUME NEW pc \in Stopping, Goto(1, pc), attempt' = attempt, at[1].pc \in Stopping,
             pc \in Signalling => at[1].pc \in Signalling, pc = "announce" => signalled = {}
      PROVE  Attempted' /\ AttemptPlace'
  <2>1. /\ at'[1].pc = pc /\ at'[1].rec = at[1].rec /\ at'[1].tried = at[1].tried
    BY <1>0, <1>2, GotoMakes
  <2>2. Attempted'
    BY <1>0, <1>2, AttemptLasts DEF Attempted
  <2>3. QED
    BY <1>0, <1>2, <2>1, <2>2 DEF AttemptPlace, At, Pending
<1>3. ASSUME NEW new, Set(1, new), attempt' = attempt, at[1].pc \in Signalling,
             new.pc = "conclude", new.rec = at[1].rec, new.tried.gen = at[1].tried.gen,
             new.tried.signals = at[1].tried.signals
      PROVE  Attempted' /\ AttemptPlace'
  <2>1. at'[1] = new
    BY <1>0, <1>3 DEF Set
  <2>2. Attempted'
    BY <1>0, <1>3, AttemptLasts DEF Attempted
  <2>3. QED
    BY <1>0, <1>3, <2>1, <2>2 DEF AttemptPlace, At, Pending
<1>4. ASSUME at[1].pc \in Signalling
      PROVE  /\ DOMAIN at[1].tried = {"gen", "target", "signals", "outcome"}
  <2>1. at[1].tried \in Attempt
    BY <1>0, <1>4 DEF Calls, Sound, Fits
  <2>2. QED
    BY <2>1 DEF Attempt
<1>5. ASSUME NEW outcome, Concludes(1, outcome), attempt' = attempt, at[1].pc \in Signalling
      PROVE  Attempted' /\ AttemptPlace'
  <2>1. PICK new : new = [at[1] EXCEPT !.pc = "conclude", !.tried = [@ EXCEPT !.outcome = outcome]]
    OBVIOUS
  <2>2. /\ Set(1, new) /\ new.pc = "conclude" /\ new.rec = at[1].rec
        /\ new.tried = [at[1].tried EXCEPT !.outcome = outcome]
    BY <1>0, <1>5, <2>1 DEF Concludes
  <2>3. new.tried.gen = at[1].tried.gen /\ new.tried.signals = at[1].tried.signals
    BY <1>4, <1>5, <2>2
  <2>4. QED
    BY <1>3, <1>5, <2>2, <2>3
<1>6. CASE VetLegacy(1)
  <2>1. attempt' = attempt
    BY <1>6 DEF VetLegacy, files
  <2>2. CASE Migratable(at[1].rec) /\ Goto(1, "recall")
    <3>1. at'[1].pc = "recall" /\ at'[1].rec = at[1].rec
      BY <1>0, <2>2, GotoMakes
    <3>2. at[1].rec.router.role \in {"legacy", "sibling"} /\ at[1].rec.manager \notin live
      BY <2>2 DEF Migratable, Validate, Holder
    <3>3. Attempted'
      BY <1>0, <2>1, AttemptLasts DEF Attempted
    <3>4. QED
      BY <1>0, <3>1, <3>2, <3>3 DEF AttemptPlace, At
  <2>3. CASE Goto(1, "forget")
    <3>1. at'[1].pc = "forget"
      BY <1>0, <2>3, GotoMakes
    <3>2. QED
      BY <1>0, <2>1, <3>1, AttemptAway
  <2>4. QED
    BY <1>1, <1>6, <2>1, <2>2, <2>3 DEF VetLegacy
<1>7. CASE Recall(1)
  <2>1. attempt' = attempt /\ at[1].pc = "recall"
    BY <1>7 DEF Recall, files, At
  <2>2. CASE attempt # Corrupt /\ ~ (Known(attempt) /\ Blocks(attempt)) /\ Goto(1, "announce")
    <3>1. signalled = {}
      BY <2>2 DEF Attempted
    <3>2. QED
      BY <1>2, <2>1, <2>2, <3>1
  <2>3. QED
    BY <1>1, <1>7, <2>1, <2>2 DEF Recall
<1>8. CASE Forget(1)
  <2>1. CASE /\ Goto(1, "begin")
             /\ attempt' = IF /\ Known(attempt) /\ attempt.gen = 1
                              /\ attempt.target = at[1].rec.router /\ attempt.signals # {}
                           THEN [attempt EXCEPT !.outcome = "stopped"] ELSE attempt
    <3>1. at'[1].pc = "begin"
      BY <1>0, <2>1, GotoMakes
    <3>2. signalled # {} => Known(attempt') /\ Blocks(attempt')
      <4>1. CASE attempt' = attempt
        BY <4>1 DEF Attempted
      <4>2. CASE /\ Known(attempt) /\ attempt.gen = 1 /\ attempt.signals # {}
                 /\ attempt' = [attempt EXCEPT !.outcome = "stopped"]
        <5>1. attempt \in Attempt
          BY <4>2 DEF SafeInv, TypeInv, FileTypes, Known
        <5>2. attempt'.gen = 1 /\ attempt'.signals # {} /\ attempt' \in Attempt
          BY <4>2, <5>1 DEF Attempt
        <5>3. QED
          BY <5>2, FilesAssumption DEF Known, Blocks
      <4>3. QED
        BY <2>1, <4>1, <4>2
    <3>3. Attempted'
      BY <1>0, <3>2, AttemptLasts
    <3>4. QED
      BY <3>1, <3>3 DEF AttemptPlace, At
  <2>2. QED
    BY <1>1, <1>8, <2>1 DEF Forget
<1>9. CASE Announce(1)
  <2>1. at[1].pc = "announce" /\ signalled = {}
    BY <1>9 DEF Announce, At, AttemptPlace
  <2>2. CASE /\ attempt' = Pending(1)
             /\ Set(1, [at[1] EXCEPT !.pc = "interrupt", !.tried = Pending(1)])
    <3>1. at'[1].pc = "interrupt" /\ at'[1].rec = at[1].rec /\ at'[1].tried = Pending(1)
      BY <1>0, <2>2 DEF Set
    <3>2. Pending(1).gen = 1 /\ attempt' = Pending(1)'
      BY <2>2, <3>1 DEF Pending
    <3>3. Attempted'
      BY <1>0, <2>1, AttemptLasts
    <3>4. QED
      BY <1>0, <2>1, <3>1, <3>2, <3>3 DEF AttemptPlace, At
  <2>3. QED
    BY <1>1, <1>9, <2>2 DEF Announce
<1>10. CASE Clear(1)
  <2>1. attempt' = attempt /\ at[1].pc \in Signalling
    BY <1>10 DEF Clear, At
  <2>2. CASE Set(1, [at[1] EXCEPT !.pc = "conclude", !.tried = [@ EXCEPT !.outcome = "stopped"],
                                  !.answer = "kept"])
    <3>1. PICK new : new = [at[1] EXCEPT !.pc = "conclude", !.tried = [@ EXCEPT !.outcome = "stopped"],
                                         !.answer = "kept"]
      OBVIOUS
    <3>2. /\ Set(1, new) /\ new.pc = "conclude" /\ new.rec = at[1].rec
          /\ new.tried = [at[1].tried EXCEPT !.outcome = "stopped"]
      BY <1>0, <2>2, <3>1
    <3>3. new.tried.gen = at[1].tried.gen /\ new.tried.signals = at[1].tried.signals
      BY <1>4, <2>1, <3>2
    <3>4. QED
      BY <1>3, <2>1, <3>2, <3>3
  <2>3. QED
    BY <1>5, <1>10, <2>1, <2>2 DEF Clear
<1>11. CASE Conclude(1)
  <2>1. at[1].pc = "conclude" /\ at'[1].pc \in {"begin", "idle"}
    <3>1. CASE Set(1, [at[1] EXCEPT !.pc = "begin", !.tried = None])
      BY <1>0, <1>11, <3>1 DEF Conclude, At, Set
    <3>2. CASE \E code, stage : Refuse(1, code, stage)
      BY <1>0, <1>11, <3>2, RefuseMakes DEF Conclude, At
    <3>3. QED
      BY <1>11, <3>1, <3>2 DEF Conclude
  <2>2. signalled # {} => Known(attempt') /\ Blocks(attempt')
    <3>1. CASE attempt' = attempt
      BY <3>1 DEF Attempted
    <3>2. CASE attempt' = at[1].tried
      <4>1. at[1].tried \in Attempt /\ at[1].tried.gen = 1
        BY <1>0, <2>1 DEF Calls, Sound, Fits, AttemptPlace
      <4>2. signalled # {} => at[1].tried.signals # {}
        BY <2>1 DEF AttemptPlace
      <4>3. QED
        BY <3>2, <4>1, <4>2, FilesAssumption DEF Known, Blocks
    <3>3. QED
      BY <1>11, <3>1, <3>2 DEF Conclude
  <2>3. Attempted'
    BY <1>0, <2>2, AttemptLasts
  <2>4. QED
    BY <2>1, <2>3 DEF AttemptPlace, At
<1>12. CASE WaitLegacy(1, "wait", "kill") \/ WaitLegacy(1, "wait long", "timeout")
  <2>1. attempt' = attempt /\ at[1].pc \in {"wait", "wait long"}
    BY <1>12 DEF WaitLegacy, At, files
  <2>2. (\E pc \in {"gone", "kill"} : Goto(1, pc)) \/ (\E outcome : Concludes(1, outcome))
    BY <1>12 DEF WaitLegacy
  <2>3. QED
    BY <1>2, <1>5, <2>1, <2>2
<1>13. QED
  BY <1>6, <1>7, <1>8, <1>9, <1>10, <1>11, <1>12

\* The signals themselves: the record says whom, the attempt that it was said.
LEMMA SignalSteps ==
  ASSUME SafeInv, Attempted, AttemptPlace, NEW kind, NEW after,
         \/ kind = "interrupt" /\ after = "wait"
         \/ kind = "kill" /\ after = "wait long",
         SignalLegacy(1, kind, after)
  PROVE  Attempted' /\ AttemptPlace'
<1>0. /\ 1 \in Sessions /\ Calls /\ DOMAIN at = Sessions /\ DOMAIN at[1] = Fields
      /\ UNCHANGED <<live, self, attempt>> /\ at[1].pc = kind /\ at[1].pc \in Signalling
      /\ DOMAIN at[1].tried = {"gen", "target", "signals", "outcome"}
  BY OneIsSession DEF SafeInv, TypeInv, Calls, Sound, Fits, SignalLegacy, At, files, Attempt
<1>1. CASE signalled' = signalled
  <2>1. Attempted'
    BY <1>0, <1>1, AttemptLasts DEF Attempted
  <2>2. /\ at'[1].pc \in Signalling /\ at'[1].rec = at[1].rec /\ at'[1].tried.gen = at[1].tried.gen
        /\ signalled # {} => at'[1].tried.signals # {}
    <3>1. CASE \E outcome : Concludes(1, outcome)
      <4>1. PICK outcome, new :
              new = [at[1] EXCEPT !.pc = "conclude", !.tried = [@ EXCEPT !.outcome = outcome]]
              /\ Concludes(1, outcome)
        BY <3>1
      <4>2. /\ at'[1] = new /\ new.pc = "conclude" /\ new.rec = at[1].rec
            /\ new.tried = [at[1].tried EXCEPT !.outcome = outcome]
        BY <1>0, <4>1 DEF Concludes, Set
      <4>3. new.tried.gen = at[1].tried.gen /\ new.tried.signals = at[1].tried.signals
        BY <1>0, <4>2
      <4>4. QED
        BY <1>0, <4>2, <4>3 DEF AttemptPlace
    <3>2. CASE Goto(1, after)
      <4>1. /\ at'[1].pc = after /\ at'[1].rec = at[1].rec /\ at'[1].tried = at[1].tried
        BY ZenonT(30), <1>0, <3>2, GotoMakes
      <4>2. after \in Signalling
        OBVIOUS
      <4>3. QED
        BY <1>0, <4>1, <4>2 DEF AttemptPlace
    <3>3. CASE Set(1, [at[1] EXCEPT !.pc = after, !.tried.signals = @ \union {kind}])
      <4>1. PICK new : new = [at[1] EXCEPT !.pc = after, !.tried.signals = @ \union {kind}]
        OBVIOUS
      <4>2. /\ at'[1] = new /\ new.pc = after /\ new.rec = at[1].rec
            /\ new.tried.gen = at[1].tried.gen /\ kind \in new.tried.signals
        BY <1>0, <3>3, <4>1 DEF Set
      <4>3. QED
        BY <4>2
    <3>4. QED
      BY <3>1, <3>2, <3>3 DEF SignalLegacy
  <2>3. QED
    BY <1>0, <1>1, <2>1, <2>2 DEF AttemptPlace, At, Pending
<1>2. CASE signalled' # signalled
  <2>1. /\ signalled' = signalled \union {[kind |-> kind, to |-> at[1].rec.router, by |-> self,
                                           rec |-> at[1].rec]}
        /\ Set(1, [at[1] EXCEPT !.pc = after, !.tried.signals = @ \union {kind}])
    BY <1>2 DEF SignalLegacy
  <2>2. PICK new : new = [at[1] EXCEPT !.pc = after, !.tried.signals = @ \union {kind}]
    OBVIOUS
  <2>3. /\ at'[1] = new /\ new.pc = after /\ new.rec = at[1].rec
        /\ new.tried.gen = at[1].tried.gen /\ kind \in new.tried.signals
    BY <1>0, <2>1, <2>2 DEF Set
  <2>4. /\ at[1].rec.router.role \in {"legacy", "sibling"} /\ at[1].rec.manager \notin live
        /\ attempt = Pending(1)
        /\ \A x \in signalled : x.to = at[1].rec.router /\ x.by = self
    BY <1>0 DEF AttemptPlace
  <2>5. ASSUME NEW x \in signalled'
        PROVE  /\ x.to = at[1].rec.router /\ x.by = self
               /\ x.to.role \in {"legacy", "sibling"} /\ x.rec.manager \notin live
    <3>1. CASE x \in signalled
      BY <2>4, <3>1 DEF Attempted
    <3>2. CASE x = [kind |-> kind, to |-> at[1].rec.router, by |-> self, rec |-> at[1].rec]
      BY <2>4, <3>2
    <3>3. QED
      BY <2>1, <3>1, <3>2
  <2>6. Known(attempt) /\ Blocks(attempt)
    <3>1. attempt \in Attempt
      <4>1. attempt \in Attempt \union {None, Corrupt}
        BY DEF SafeInv, TypeInv, FileTypes
      <4>2. at[1].rec.router \in Seen
        BY <1>0 DEF Calls, Sound, Fits, SeenRecord
      <4>3. Pending(1) \in Attempt
        BY <4>2 DEF Pending, Attempt, Seen
      <4>4. QED
        BY <2>4, <4>3
    <3>2. attempt.gen = 1 /\ attempt.outcome = "pending"
      BY <2>4 DEF Pending
    <3>3. QED
      BY <3>1, <3>2, FilesAssumption DEF Known, Blocks
  <2>7. Attempted'
    BY <1>0, <2>5, <2>6 DEF Attempted
  <2>8. AttemptPlace'
    BY <1>0, <2>3, <2>4, <2>5 DEF AttemptPlace, At, Pending
  <2>9. QED
    BY <2>7, <2>8
<1>3. QED
  BY <1>1, <1>2

LEMMA NextAttempts ==
  ASSUME SafeInv, StateInv, AttemptInv, [Next]_vars
  PROVE  AttemptInv'
<1>1. SUFFICES ASSUME One' PROVE Attempted' /\ AttemptPlace'
  BY DEF AttemptInv
<1>2. One /\ Held /\ Attempted /\ AttemptPlace
  BY <1>1, MishapsStay DEF One, StateInv, AttemptInv
<1>3. CASE \E s \in Sessions : (\E op \in Ops : Call(s, op)) \/ Step(s) \/ GiveUp(s)
  <2>1. (\E op \in Ops : Call(1, op)) \/ Step(1) \/ GiveUp(1)
    BY <1>2, <1>3, OnlyFirst DEF Held
  <2>2. QED
    BY <1>2, <2>1, OtherSteps, AttemptSteps, SignalSteps DEF Step
<1>4. CASE Crash
  <2>1. 1 \in Sessions /\ at'[1].pc = "idle"
    BY <1>4, OneIsSession, FreeSound DEF Crash
  <2>2. UNCHANGED <<attempt, signalled>> /\ live' \subseteq live
    BY <1>4 DEF Crash, files, history, Die
  <2>3. QED
    BY <1>2, <2>1, <2>2, AttemptAway
<1>5. CASE Open
  <2>1. UNCHANGED <<at, attempt, signalled>> /\ at[1].pc = "idle"
    BY <1>5, OneIsSession DEF Open, files, history, SafeInv, TypeInv, Calls, Sound, Fits
  <2>2. PICK p : Spawn(p)
    BY <1>5 DEF Open
  <2>3. \A q \in Seen : q \in live' => q \in live
    BY <2>2, FreshSeen DEF SafeInv, TypeInv
  <2>4. QED
    BY <1>2, <2>1, <2>3, AttemptAway
<1>6. CASE Execute \/ LoseListener \/ Arrive \/ CliRecords \/ Leave \/ UNCHANGED vars
  <2>1. UNCHANGED <<attempt, signalled, self>>
    BY <1>6 DEF Execute, LoseListener, Arrive, CliRecords, Leave, vars, files, history
  <2>2. \A p \in Seen : p \in live' => p \in live
    <3>1. CASE Arrive
      <4>1. PICK p : Spawn(p)
        BY <3>1 DEF Arrive
      <4>2. QED
        BY <4>1, FreshSeen DEF SafeInv, TypeInv
    <3>2. CASE Execute \/ LoseListener \/ CliRecords \/ Leave \/ UNCHANGED vars
      BY <3>2 DEF Execute, LoseListener, CliRecords, Leave, vars, machine, Die
    <3>3. QED
      BY <1>6, <3>1, <3>2
  <2>3. at'[1].pc = at[1].pc /\ at'[1].rec = at[1].rec /\ at'[1].tried = at[1].tried
    <3>1. 1 \in Sessions /\ DOMAIN at[1] = Fields
      BY OneIsSession DEF SafeInv, TypeInv, Calls, Sound, Fits
    <3>2. CASE Execute
      <4>1. PICK a : at' = [s \in Sessions |-> IF s = Head(queue).by
                                               THEN [at[s] EXCEPT !.answer = a] ELSE at[s]]
        BY <3>2 DEF Execute
      <4>2. QED
        BY <3>1, <4>1
    <3>3. CASE LoseListener \/ Arrive \/ CliRecords \/ Leave \/ UNCHANGED vars
      BY <3>3 DEF LoseListener, Arrive, CliRecords, Leave, vars
    <3>4. QED
      BY <1>6, <3>2, <3>3
  <2>4. Attempted'
    BY <1>2, <2>1, <2>2, AttemptLasts DEF Attempted
  <2>5. at[1].pc \in Stopping => at[1].rec.manager \in Seen
    BY OneIsSession DEF SafeInv, TypeInv, Calls, Sound, Fits, SeenRecord
  <2>6. QED
    BY <1>2, <2>1, <2>2, <2>3, <2>4, <2>5 DEF AttemptPlace, At, Pending
<1>7. CASE Respawn
  BY <1>1, <1>7 DEF Respawn, One, Mishap
<1>8. QED
  BY <1>3, <1>4, <1>5, <1>6, <1>7 DEF Next

\* One attempt: however the desktop crashes and is opened again, whatever ends
\* and takes an id, one router of an earlier version is signalled, by one
\* desktop, when its manager is gone; as long as no session was replaced.
THEOREM OneAttemptEver == Spec => []OneAttempt
<1>1. Init => SafeInv /\ StateInv /\ AttemptInv
  <2>1. SUFFICES ASSUME Init PROVE Attempted /\ AttemptPlace
    BY InitIsSafe, InitHolds DEF AttemptInv
  <2>2. signalled = {} /\ at[1].pc = "idle"
    BY <2>1, OneIsSession, FreeSound DEF Init
  <2>3. QED
    BY <2>2 DEF Attempted, AttemptPlace, At
<1>2. SafeInv /\ StateInv /\ AttemptInv /\ [Next]_vars => SafeInv' /\ StateInv' /\ AttemptInv'
  BY NextIsSafe, NextHolds, NextAttempts
<1>3. SafeInv /\ StateInv /\ AttemptInv => OneAttempt
  BY DEF AttemptInv, Attempted, OneAttempt, One
<1>4. QED
  BY <1>1, <1>2, <1>3, PTL DEF Spec

================================================================================
