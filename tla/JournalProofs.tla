----------------------------- MODULE JournalProofs ----------------------------
(* Theorems about Journal: for any number of processes, devices, records,
   failures, crashes, power cuts and restores. *)
EXTENDS Journal, SequenceTheorems, TLAPS

USE JournalAssumption

-----------------------------------------------------------------------------
(* Logs *)

\* Every log continues itself.
LEMMA SelfExtends ==
  ASSUME NEW S, NEW s \in Seq(S)
  PROVE  Extends(s, s)
BY DEF Extends

\* A continuation of a continuation is one.
LEMMA ExtendsTransitive ==
  ASSUME NEW S, NEW s \in Seq(S), NEW t \in Seq(S), NEW u \in Seq(S),
         Extends(s, t), Extends(t, u)
  PROVE  Extends(s, u)
<1>1. Len(u) <= Len(t) /\ Len(t) <= Len(s) /\ Len(u) \in Nat /\ Len(t) \in Nat
      /\ Len(s) \in Nat
  BY DEF Extends
<1>2. ASSUME NEW i \in 1..Len(u) PROVE s[i] = u[i]
  <2>1. i \in 1..Len(t)
    BY <1>1
  <2> QED
    BY <2>1 DEF Extends
<1> QED
  BY <1>1, <1>2 DEF Extends

\* What a log continues, it continues with one record more.
LEMMA AppendExtends ==
  ASSUME NEW S, NEW s \in Seq(S), NEW t \in Seq(S), NEW x \in S, Extends(s, t)
  PROVE  Extends(Append(s, x), t)
<1>1. Len(Append(s, x)) = Len(s) + 1 /\ Len(t) \in Nat /\ Len(s) \in Nat
  OBVIOUS
<1>2. ASSUME NEW i \in 1..Len(t) PROVE Append(s, x)[i] = t[i]
  <2>1. i \in 1..Len(s) /\ s[i] = t[i]
    BY <1>1 DEF Extends
  <2> QED
    BY <2>1
<1> QED
  BY <1>1, <1>2 DEF Extends

\* The first records of a log are records, and those it had.
LEMMA FirstRecords ==
  ASSUME NEW S, NEW s \in Seq(S), NEW n \in 0..Len(s)
  PROVE  /\ First(s, n) \in Seq(S) /\ Len(First(s, n)) = n
         /\ \A i \in 1..n : First(s, n)[i] = s[i] /\ i \in 1..Len(s)
BY DEF First

-----------------------------------------------------------------------------
(* Types *)

\* Spending keeps the budget a budget.
LEMMA SpendType ==
  ASSUME left \in Counts, NEW what \in Kinds, Spend(what)
  PROVE  left' \in Counts
BY DEF Spend, Counts

\* A call that ends leaves the lock and the processes well typed.
LEMMA ReleaseType ==
  ASSUME TypeOK, NEW w \in Processes, NEW ok \in BOOLEAN, NEW end \in Nat,
         Release(w, ok, end)
  PROVE  /\ holder' = None /\ step' = "idle" /\ rec' = None
         /\ head' \in [Processes -> Nat] /\ opened' \subseteq Processes
BY DEF TypeOK, Release

\* The parts of the type invariant a step of recovery or of a transaction changes.
LEMMA MarkFailsType ==
  ASSUME TypeOK, MarkFails
  PROVE  marker' \in Seq(Decision) /\ disk' \in Seq(Decision) /\ left' \in Counts
BY SpendType DEF TypeOK, MarkFails, Kinds

LEMMA StepType == TypeOK /\ [Next]_vars => TypeOK'
<1> SUFFICES ASSUME TypeOK, [Next]_vars PROVE TypeOK'
  OBVIOUS
<1> USE DEF Steps
<1>1. ASSUME NEW w \in Processes, Begin(w) PROVE TypeOK'
  BY <1>1 DEF TypeOK, Begin, authority, markers
<1>2. ASSUME NEW w \in Processes, Recover(w) PROVE TypeOK'
  <2>1. Len(log) \in Nat /\ head[w] \in Nat
    BY DEF TypeOK
  <2>2. CASE Release(w, FALSE, IF Readable THEN Len(log) ELSE head[w])
             /\ UNCHANGED <<markers, left>>
    BY <1>2, <2>1, <2>2, ReleaseType DEF TypeOK, Recover, authority, markers
  <2>3. CASE ((marker = log /\ UNCHANGED <<markers, left>>) \/ (marker # log /\ Marked))
             /\ step' = "replay" /\ head' = [head EXCEPT ![w] = Len(log)]
             /\ UNCHANGED <<holder, opened, rec>>
    BY <1>2, <2>1, <2>3 DEF TypeOK, Recover, authority, markers, Marked
  <2>4. CASE MarkFails /\ Release(w, FALSE, Len(log))
    BY <1>2, <2>1, <2>4, ReleaseType, MarkFailsType DEF TypeOK, Recover, authority
  <2>5. \/ Release(w, FALSE, IF Readable THEN Len(log) ELSE head[w]) /\ UNCHANGED <<markers, left>>
        \/ /\ (marker = log /\ UNCHANGED <<markers, left>>) \/ (marker # log /\ Marked)
           /\ step' = "replay" /\ head' = [head EXCEPT ![w] = Len(log)]
           /\ UNCHANGED <<holder, opened, rec>>
        \/ MarkFails /\ Release(w, FALSE, Len(log))
    BY <1>2, Zenon DEF Recover
  <2> QED
    BY <2>2, <2>3, <2>4, <2>5, Zenon
<1>3. ASSUME NEW w \in Processes, Replay(w) PROVE TypeOK'
  <2>0. head[w] \in Nat
    BY DEF TypeOK
  <2>1. CASE Release(w, FALSE, head[w]) /\ UNCHANGED db /\ left' \in Counts
    BY <1>3, <2>0, <2>1, ReleaseType DEF TypeOK, Replay, authority, markers
  <2>2. CASE step' = "operate" /\ UNCHANGED <<db, head, opened, holder, rec, left>>
    BY <1>3, <2>2 DEF TypeOK, Replay, authority, markers
  <2>3. CASE /\ Extends(log, db) /\ db # log
             /\ db' = Append(db, log[Len(db) + 1])
             /\ UNCHANGED <<head, opened, holder, step, rec, left>>
    <3>1. Len(db) + 1 \in 1..Len(log)
      <4>1. Len(db) <= Len(log) /\ \A i \in 1..Len(db) : log[i] = db[i]
        BY <2>3 DEF Extends
      <4>2. Len(db) # Len(log)
        BY <2>3, <4>1, SeqEqual, db \in Seq(Decision), log \in Seq(Decision) DEF TypeOK
      <4> QED
        BY <4>1, <4>2 DEF TypeOK
    <3>2. log[Len(db) + 1] \in Decision
      BY <3>1 DEF TypeOK
    <3>3. db' \in Seq(Decision)
      BY <2>3, <3>2 DEF TypeOK
    <3> QED
      BY <1>3, <2>3, <3>3 DEF TypeOK, Replay, authority, markers
  <2> QED
    BY <1>3, <2>1, <2>2, <2>3, SpendType DEF Replay, Kinds, TypeOK
<1>4. ASSUME NEW w \in Processes, Read(w) PROVE TypeOK'
  BY <1>4, ReleaseType DEF TypeOK, Read, authority, markers
<1>5. ASSUME NEW w \in Processes, Backup(w) PROVE TypeOK'
  BY <1>5, ReleaseType DEF TypeOK, Backup, authority, markers
<1>6. ASSUME NEW w \in Processes, NEW op \in {"issue", "revoke"}, NEW d \in Devices,
             Decide(w, op, d)
      PROVE  TypeOK'
  <2>1. head[w] + 1 \in Nat \ {0}
    BY DEF TypeOK
  <2>2. rec' \in Decision
    BY <1>6, <2>1 DEF Decide, Decision
  <2> QED
    BY <1>6, <2>2 DEF TypeOK, Decide, authority, markers
<1>7. ASSUME NEW w \in Processes, Write(w) PROVE TypeOK'
  <2>0. head[w] \in Nat
    BY DEF TypeOK
  <2>4. step = "write"
    BY <1>7 DEF Write
  <2>3. rec \in Decision
    BY <2>4 DEF TypeOK
  <2>1. CASE /\ log' = Append(log, rec) /\ step' = "sync"
             /\ UNCHANGED <<tail, head, opened, holder, rec, left>>
    <3>1. log' \in Seq(Decision) /\ Len(log') = Len(log) + 1
      BY <2>3, <2>1 DEF TypeOK
    <3>2. synced' \in 0..Len(log')
      BY <1>7, <3>1 DEF TypeOK, Write
    <3> QED
      BY <1>7, <2>1, <3>1, <3>2 DEF TypeOK, Write, markers
  <2>2. CASE /\ Spend("faults") /\ tail' \in {"whole", "torn"}
             /\ Release(w, FALSE, head[w]) /\ UNCHANGED log
    BY <1>7, <2>0, <2>2, ReleaseType, SpendType DEF TypeOK, Write, markers, Kinds
  <2> QED
    BY <1>7, <2>1, <2>2 DEF Write
<1>8. ASSUME NEW w \in Processes, Sync(w) PROVE TypeOK'
  <2>0. head[w] \in Nat
    BY DEF TypeOK
  <2>1. CASE synced' = Len(log) /\ step' = "mark" /\ UNCHANGED <<head, opened, holder, rec, left>>
    BY <1>8, <2>1 DEF TypeOK, Sync, markers
  <2>2. CASE Spend("faults") /\ Release(w, FALSE, head[w]) /\ UNCHANGED synced
    BY <1>8, <2>0, <2>2, ReleaseType, SpendType DEF TypeOK, Sync, markers, Kinds
  <2> QED
    BY <1>8, <2>1, <2>2 DEF Sync
<1>9. ASSUME NEW w \in Processes, Mark(w) PROVE TypeOK'
  <2>0. head[w] \in Nat
    BY DEF TypeOK
  <2>1. CASE Marked /\ step' = "commit" /\ UNCHANGED <<head, opened, holder, rec>>
    BY <1>9, <2>1 DEF TypeOK, Mark, Marked, authority
  <2>2. CASE MarkFails /\ Release(w, FALSE, head[w])
    BY <1>9, <2>0, <2>2, ReleaseType, MarkFailsType DEF TypeOK, Mark, authority
  <2> QED
    BY <1>9, <2>1, <2>2 DEF Mark
<1>10. ASSUME NEW w \in Processes, Commit(w) PROVE TypeOK'
  <2>0. head[w] \in Nat /\ head[w] + 1 \in Nat
    BY DEF TypeOK
  <2>4. step = "commit"
    BY <1>10 DEF Commit
  <2>3. rec \in Decision
    BY <2>4 DEF TypeOK
  <2>1. CASE db' = Append(db, rec) /\ told' = log /\ Release(w, TRUE, head[w] + 1)
             /\ UNCHANGED left
    <3>1. db' \in Seq(Decision)
      BY <2>1, <2>3 DEF TypeOK
    <3> QED
      BY <1>10, <2>0, <2>1, <3>1, ReleaseType DEF TypeOK, Commit, authority, markers
  <2>2. CASE Spend("faults") /\ Release(w, FALSE, head[w]) /\ UNCHANGED <<db, told>>
    BY <1>10, <2>0, <2>2, ReleaseType, SpendType DEF TypeOK, Commit, authority, markers, Kinds
  <2> QED
    BY <1>10, <2>1, <2>2 DEF Commit
<1>11. ASSUME NEW w \in Processes, Crash(w) PROVE TypeOK'
  <2>1. left' \in Counts
    BY <1>11, SpendType DEF TypeOK, Crash, Kinds
  <2> QED
    BY <1>11, <2>1 DEF TypeOK, Crash, authority, markers
<1>12. ASSUME PowerCut PROVE TypeOK'
  <2>1. left' \in Counts
    BY <1>12, SpendType DEF TypeOK, PowerCut, Kinds
  <2>2. PICK n \in synced..Len(log) :
          /\ log' = First(log, n) /\ synced' = n
          /\ tail' \in IF n < Len(log) \/ tail = "torn" THEN {"whole", "torn"} ELSE {"whole"}
    BY <1>12 DEF PowerCut
  <2>3. n \in 0..Len(log)
    BY DEF TypeOK
  <2>4. log' \in Seq(Decision) /\ synced' \in 0..Len(log')
    BY <2>2, <2>3, FirstRecords DEF TypeOK
  <2> QED
    BY <1>12, <2>1, <2>2, <2>4 DEF TypeOK, PowerCut
<1>13. ASSUME Restore PROVE TypeOK'
  <2>1. left' \in Counts
    BY <1>13, SpendType DEF TypeOK, Restore, Kinds
  <2>2. db' \in Seq(Decision)
    <3>1. db' = backup \/ db' = <<>>
      BY <1>13 DEF Restore
    <3> QED
      BY <3>1, EmptySeq DEF TypeOK
  <2> QED
    BY <1>13, <2>1, <2>2 DEF TypeOK, Restore, authority, markers
<1>14. ASSUME Rewind PROVE TypeOK'
  <2>1. left' \in Counts
    BY <1>14, SpendType DEF TypeOK, Rewind, Kinds
  <2>3. db' \in Seq(Decision)
    <3>1. db' = db \/ db' = backup \/ db' = <<>>
      BY <1>14 DEF Rewind
    <3> QED
      BY <3>1, EmptySeq DEF TypeOK
  <2>2. log' \in Seq(Decision) /\ synced' \in 0..Len(log')
    BY <1>14, FirstRecords DEF TypeOK, Rewind
  <2> QED
    BY <1>14, <2>1, <2>2, <2>3 DEF TypeOK, Rewind, markers
<1>15. CASE UNCHANGED vars
  BY <1>15 DEF TypeOK, vars
<1> QED
  BY <1>1, <1>2, <1>3, <1>4, <1>5, <1>6, <1>7, <1>8, <1>9, <1>10, <1>11, <1>12,
     <1>13, <1>14, <1>15 DEF Next, Work

\* Every state of Journal is well typed, and the lock is held exactly while a
\* call is at one of its steps.
THEOREM TypeCorrect == Spec => []TypeOK
<1>1. Init => TypeOK
  <2> SUFFICES ASSUME Init PROVE TypeOK
    OBVIOUS
  <2>1. <<>> \in Seq(Decision) /\ Len(<<>>) = 0
    BY EmptySeq
  <2> QED
    BY <2>1 DEF Init, TypeOK, Steps
<1> QED
  BY <1>1, StepType, PTL DEF Spec

-----------------------------------------------------------------------------
(* What was told stays decided *)

\* Both forms of the marker know what was told.
MarkersKnow == Extends(marker, told) /\ Extends(disk, told)

\* A call that is past the marker's check works on a log that has all the marker
\* knows, from its end, on a database that is level with it.
Deciding == {"replay", "operate", "write"}
Writing == {"sync", "mark", "commit"}
CallsKnow ==
  /\ step \in Deciding \union Writing => Extends(log, marker)
  /\ step \in Deciding => head[holder] = Len(log)
  /\ step \in {"operate", "write"} => db = log
  /\ step = "write" => rec.seq = Len(log) + 1
  /\ step \in Writing => log = Append(db, rec)
  /\ step = "commit" => marker = log /\ disk = log

Inv == Chained(log) /\ MarkersKnow /\ CallsKnow

\* A call that is over leaves nothing to know but the markers.
LEMMA OverKnows ==
  ASSUME step' \in {"idle", "recover"}
  PROVE  CallsKnow'
BY DEF CallsKnow, Deciding, Writing

\* A failed save leaves both forms of the marker with what was told.
LEMMA MarkFailsKnows ==
  ASSUME TypeOK, MarkersKnow, Extends(log, marker), MarkFails, told' = told
  PROVE  MarkersKnow'
<1>1. Extends(log, told)
  BY ExtendsTransitive DEF TypeOK, MarkersKnow
<1>2. marker' \in {marker, log} /\ disk' \in {disk, marker'}
  BY DEF MarkFails
<1> QED
  BY <1>1, <1>2 DEF MarkersKnow, TypeOK

\* So does a successful one.
LEMMA MarkedKnows ==
  ASSUME TypeOK, MarkersKnow, Extends(log, marker), Marked, told' = told
  PROVE  MarkersKnow'
<1>1. Extends(log, told)
  BY ExtendsTransitive DEF TypeOK, MarkersKnow
<1> QED
  BY <1>1 DEF MarkersKnow, Marked

\* The first records of a chain are a chain.
LEMMA FirstChained ==
  ASSUME TypeOK, Chained(log), NEW n \in 0..Len(log), log' = First(log, n)
  PROVE  Chained(log)'
<1>1. log \in Seq(Decision)
  BY DEF TypeOK
<1>2. Len(log') = n /\ \A i \in 1..n : log'[i] = log[i] /\ i \in 1..Len(log)
  BY <1>1, FirstRecords
<1> QED
  BY <1>2 DEF Chained

LEMMA StepInv == TypeOK /\ Inv /\ [Next]_vars => Inv'
<1> SUFFICES ASSUME TypeOK, Inv, [Next]_vars PROVE Inv'
  OBVIOUS
<1>0. Chained(log) /\ MarkersKnow /\ CallsKnow
  BY DEF Inv
<1>1. ASSUME NEW w \in Processes, Begin(w) PROVE Inv'
  <2>1. step' = "recover" /\ UNCHANGED <<log, marker, disk, told>>
    BY <1>1 DEF Begin, authority, markers
  <2> QED
    BY <1>0, <2>1, OverKnows DEF Inv, MarkersKnow, Chained
<1>2. ASSUME NEW w \in Processes, Recover(w) PROVE Inv'
  <2>1. log' = log /\ told' = told /\ Chained(log)'
    BY <1>0, <1>2 DEF Recover, authority, Chained
  <2>2. CASE Release(w, FALSE, IF Readable THEN Len(log) ELSE head[w]) /\ UNCHANGED <<markers, left>>
    <3>1. step' = "idle" /\ UNCHANGED <<marker, disk>>
      BY <2>2 DEF Release, markers
    <3> QED
      BY <1>0, <2>1, <3>1, OverKnows DEF Inv, MarkersKnow
  <2>3. CASE /\ Accepted
             /\ (marker = log /\ UNCHANGED <<markers, left>>) \/ (marker # log /\ Marked)
             /\ step' = "replay" /\ head' = [head EXCEPT ![w] = Len(log)]
             /\ UNCHANGED <<holder, opened, rec>>
    <3>1. Extends(log, marker)
      BY <2>3 DEF Accepted
    <3>2. MarkersKnow'
      <4>1. CASE Marked
        BY <1>0, <2>1, <3>1, <4>1, MarkedKnows
      <4>2. CASE UNCHANGED markers
        BY <1>0, <2>1, <4>2 DEF MarkersKnow, markers
      <4> QED
        BY <2>3, <4>1, <4>2
    <3>3. marker' = log'
      BY <2>1, <2>3 DEF Marked, markers
    <3>4. Extends(log', marker')
      BY <2>1, <3>3, SelfExtends DEF TypeOK
    <3>5. holder' = w /\ head'[w] = Len(log)
      BY <1>2, <2>3 DEF Recover, TypeOK
    <3>6. CallsKnow'
      BY <2>1, <2>3, <3>4, <3>5 DEF CallsKnow, Deciding, Writing
    <3> QED
      BY <2>1, <3>2, <3>6 DEF Inv
  <2>4. CASE Accepted /\ MarkFails /\ Release(w, FALSE, Len(log))
    <3>1. step' = "idle" /\ Extends(log, marker)
      BY <2>4 DEF Release, Accepted
    <3>2. MarkersKnow'
      BY <1>0, <2>1, <2>4, <3>1, MarkFailsKnows
    <3> QED
      BY <2>1, <3>1, <3>2, OverKnows DEF Inv
  <2>5. \/ Release(w, FALSE, IF Readable THEN Len(log) ELSE head[w]) /\ UNCHANGED <<markers, left>>
        \/ /\ Accepted
           /\ (marker = log /\ UNCHANGED <<markers, left>>) \/ (marker # log /\ Marked)
           /\ step' = "replay" /\ head' = [head EXCEPT ![w] = Len(log)]
           /\ UNCHANGED <<holder, opened, rec>>
        \/ Accepted /\ MarkFails /\ Release(w, FALSE, Len(log))
    BY <1>2, Zenon DEF Recover
  <2> QED
    BY <2>2, <2>3, <2>4, <2>5, Zenon
<1>3. ASSUME NEW w \in Processes, Replay(w) PROVE Inv'
  <2>1. /\ UNCHANGED <<log, marker, disk, told>> /\ holder = w /\ step = "replay"
        /\ Chained(log)' /\ MarkersKnow'
    BY <1>0, <1>3 DEF Replay, authority, markers, Chained, MarkersKnow
  <2>2. Extends(log, marker) /\ head[w] = Len(log)
    BY <1>0, <2>1 DEF CallsKnow, Deciding
  <2>3. CASE step' = "idle"
    BY <2>1, <2>3, OverKnows DEF Inv
  <2>4. CASE /\ db = log /\ step' = "operate"
             /\ UNCHANGED <<db, head, opened, holder, rec, left>>
    <3>1. CallsKnow'
      BY <2>1, <2>2, <2>4 DEF CallsKnow, Deciding, Writing
    <3> QED
      BY <2>1, <3>1 DEF Inv
  <2>5. CASE UNCHANGED <<head, opened, holder, step, rec, left>>
    <3>1. CallsKnow'
      BY <2>1, <2>2, <2>5 DEF CallsKnow, Deciding, Writing
    <3> QED
      BY <2>1, <3>1 DEF Inv
  <2> QED
    BY <1>3, <2>3, <2>4, <2>5 DEF Replay, Release
<1>4. ASSUME NEW w \in Processes, Read(w) \/ Backup(w) PROVE Inv'
  <2>1. step' = "idle" /\ UNCHANGED <<log, marker, disk, told>>
    BY <1>4 DEF Read, Backup, Release, authority, markers
  <2> QED
    BY <1>0, <2>1, OverKnows DEF Inv, MarkersKnow, Chained
<1>5. ASSUME NEW w \in Processes, NEW op \in {"issue", "revoke"}, NEW d \in Devices,
             Decide(w, op, d)
      PROVE  Inv'
  <2>1. /\ UNCHANGED <<log, marker, disk, told, db, head, holder>> /\ holder = w
        /\ step = "operate" /\ step' = "write" /\ rec'.seq = head[w] + 1
    BY <1>5 DEF Decide, authority, markers
  <2>2. Extends(log, marker) /\ head[w] = Len(log) /\ db = log
    BY <1>0, <2>1 DEF CallsKnow, Deciding
  <2>3. CallsKnow'
    BY <2>1, <2>2 DEF CallsKnow, Deciding, Writing
  <2> QED
    BY <1>0, <2>1, <2>3 DEF Inv, MarkersKnow, Chained
<1>6. ASSUME NEW w \in Processes, Write(w) PROVE Inv'
  <2>1. UNCHANGED <<marker, disk, told, db>> /\ step = "write" /\ MarkersKnow'
    BY <1>0, <1>6 DEF Write, markers, MarkersKnow
  <2>2. Extends(log, marker) /\ db = log /\ rec.seq = Len(log) + 1
    BY <1>0, <2>1 DEF CallsKnow, Deciding
  <2>3. CASE step' = "idle" /\ log' = log
    BY <1>0, <2>1, <2>3, OverKnows DEF Inv, Chained
  <2>4. CASE log' = Append(log, rec) /\ step' = "sync" /\ rec' = rec
    <3>1. rec \in Decision
      BY <2>1 DEF TypeOK
    <3>2. Chained(log')
      BY <1>0, <2>2, <2>4, <3>1, AppendProperties DEF Chained, TypeOK
    <3>3. Extends(log', marker')
      BY <2>1, <2>2, <2>4, <3>1, AppendExtends DEF TypeOK
    <3>4. CallsKnow'
      BY <2>1, <2>2, <2>4, <3>3 DEF CallsKnow, Deciding, Writing
    <3> QED
      BY <2>1, <3>2, <3>4 DEF Inv
  <2> QED
    BY <1>6, <2>3, <2>4 DEF Write, Release
<1>7. ASSUME NEW w \in Processes, Sync(w) PROVE Inv'
  <2>1. /\ UNCHANGED <<log, marker, disk, told, db>> /\ step = "sync"
        /\ MarkersKnow' /\ Chained(log)'
    BY <1>0, <1>7 DEF Sync, markers, MarkersKnow, Chained
  <2>2. CASE step' = "idle"
    BY <2>1, <2>2, OverKnows DEF Inv
  <2>3. CASE step' = "mark" /\ rec' = rec
    <3>1. CallsKnow'
      BY <1>0, <2>1, <2>3 DEF CallsKnow, Deciding, Writing
    <3> QED
      BY <2>1, <3>1 DEF Inv
  <2> QED
    BY <1>7, <2>2, <2>3 DEF Sync, Release
<1>8. ASSUME NEW w \in Processes, Mark(w) PROVE Inv'
  <2>1. UNCHANGED <<log, told, db>> /\ step = "mark" /\ Chained(log)'
    BY <1>0, <1>8 DEF Mark, authority, Chained
  <2>2. Extends(log, marker) /\ log = Append(db, rec)
    BY <1>0, <2>1 DEF CallsKnow, Writing
  <2>3. CASE MarkFails /\ Release(w, FALSE, head[w])
    <3>1. MarkersKnow' /\ step' = "idle"
      BY <1>0, <2>1, <2>2, <2>3, MarkFailsKnows DEF Release
    <3> QED
      BY <2>1, <3>1, OverKnows DEF Inv
  <2>4. CASE Marked /\ step' = "commit" /\ UNCHANGED <<head, opened, holder, rec>>
    <3>1. MarkersKnow'
      BY <1>0, <2>1, <2>2, <2>4, MarkedKnows
    <3>2. marker' = log' /\ disk' = log'
      BY <2>1, <2>4 DEF Marked
    <3>3. Extends(log', marker')
      BY <2>1, <3>2, SelfExtends DEF TypeOK
    <3>4. CallsKnow'
      BY <2>1, <2>2, <2>4, <3>2, <3>3 DEF CallsKnow, Deciding, Writing
    <3> QED
      BY <2>1, <3>1, <3>4 DEF Inv
  <2> QED
    BY <1>8, <2>3, <2>4 DEF Mark
<1>9. ASSUME NEW w \in Processes, Commit(w) PROVE Inv'
  <2>1. UNCHANGED <<log, marker, disk>> /\ step = "commit" /\ step' = "idle" /\ Chained(log)'
    BY <1>0, <1>9 DEF Commit, authority, markers, Release, Chained
  <2>2. marker = log /\ disk = log
    BY <1>0, <2>1 DEF CallsKnow
  <2>3. told' = log \/ told' = told
    BY <1>9 DEF Commit
  <2>4. Extends(log, log)
    BY SelfExtends DEF TypeOK
  <2>5. MarkersKnow'
    BY <1>0, <2>1, <2>2, <2>3, <2>4 DEF MarkersKnow
  <2> QED
    BY <2>1, <2>5, OverKnows DEF Inv
<1>10. ASSUME NEW w \in Processes, Crash(w) PROVE Inv'
  <2>1. UNCHANGED <<log, marker, disk, told, db>> /\ MarkersKnow' /\ Chained(log)'
    BY <1>0, <1>10 DEF Crash, authority, markers, MarkersKnow, Chained
  <2>2. CASE step' = "idle"
    BY <2>1, <2>2, OverKnows DEF Inv
  <2>3. CASE holder # w /\ UNCHANGED <<holder, step, rec>>
    <3>1. head'[holder] = head[holder] \/ holder = None
      BY <1>10, <2>3 DEF Crash, TypeOK
    <3>2. holder = None => step = "idle"
      BY DEF TypeOK
    <3>3. CallsKnow'
      BY <1>0, <2>1, <2>3, <3>1, <3>2 DEF CallsKnow, Deciding, Writing
    <3> QED
      BY <2>1, <3>3 DEF Inv
  <2> QED
    BY <1>10, <2>2, <2>3 DEF Crash
<1>11. ASSUME PowerCut PROVE Inv'
  <2>1. marker' = disk /\ disk' = disk /\ told' = told /\ step' = "idle"
    BY <1>11 DEF PowerCut
  <2>2. PICK n \in synced..Len(log) : log' = First(log, n)
    BY <1>11 DEF PowerCut
  <2>3. n \in 0..Len(log)
    BY DEF TypeOK
  <2>4. Chained(log)'
    BY <1>0, <2>2, <2>3, FirstChained
  <2> QED
    BY <1>0, <2>1, <2>4, OverKnows DEF Inv, MarkersKnow
<1>12. ASSUME Restore PROVE Inv'
  <2>1. UNCHANGED <<log, marker, disk, told, step, holder>> /\ holder = None
    BY <1>12 DEF Restore, Stopped, authority, markers
  <2>2. step' = "idle"
    BY <2>1 DEF TypeOK
  <2> QED
    BY <1>0, <2>1, <2>2, OverKnows DEF Inv, MarkersKnow, Chained
<1>13. ASSUME Rewind PROVE Inv'
  <2>1. UNCHANGED <<marker, disk, told, step>> /\ holder = None
    BY <1>13 DEF Rewind, Stopped, markers
  <2>2. step' = "idle"
    BY <2>1 DEF TypeOK
  <2>3. PICK n \in 0..Len(log) : log' = First(log, n)
    BY <1>13 DEF Rewind
  <2>4. Chained(log)'
    BY <1>0, <2>3, FirstChained
  <2> QED
    BY <1>0, <2>1, <2>2, <2>4, OverKnows DEF Inv, MarkersKnow
<1>14. CASE UNCHANGED vars
  BY <1>0, <1>14 DEF Inv, vars, MarkersKnow, CallsKnow, Chained
<1> QED
  BY <1>1, <1>2, <1>3, <1>4, <1>5, <1>6, <1>7, <1>8, <1>9, <1>10, <1>11, <1>12,
     <1>13, <1>14 DEF Next, Work

LEMMA InvCorrect == Spec => [](TypeOK /\ Inv)
<1>1. Init => Inv
  <2> SUFFICES ASSUME Init PROVE Inv
    OBVIOUS
  <2>1. Len(<<>>) = 0
    BY EmptySeq
  <2> QED
    BY <2>1 DEF Init, Inv, Chained, MarkersKnow, CallsKnow, Extends, Deciding, Writing
<1>2. Spec => []TypeOK
  BY TypeCorrect
<1> QED
  BY <1>1, <1>2, StepInv, PTL DEF Spec

\* Whatever fails, dies or loses power, and whatever copies an operator brings
\* back, a call decides only on a database level with an unbroken log that has
\* every decision ever confirmed.
THEOREM NothingIsForgotten == Spec => []NothingForgotten
<1>1. TypeOK /\ Inv => NothingForgotten
  <2> SUFFICES ASSUME TypeOK, Inv, step \in {"operate", "write", "sync", "mark", "commit"}
               PROVE  /\ Chained(log)
                      /\ Extends(log, db) /\ (step \in {"operate", "write"} => db = log)
                      /\ Extends(log, told)
    BY DEF NothingForgotten
  <2>1. Chained(log) /\ Extends(log, marker) /\ Extends(marker, told)
    BY DEF Inv, MarkersKnow, CallsKnow, Deciding, Writing
  <2>2. Extends(log, told)
    BY <2>1, ExtendsTransitive DEF TypeOK
  <2>3. Extends(log, db)
    <3>1. CASE step \in {"operate", "write"}
      BY <3>1, SelfExtends DEF Inv, CallsKnow, TypeOK
    <3>2. CASE step \in Writing
      <4>1. rec \in Decision
        BY <3>2 DEF TypeOK, Writing
      <4>2. log = Append(db, rec)
        BY <3>2 DEF Inv, CallsKnow
      <4>3. Extends(db, db)
        BY SelfExtends DEF TypeOK
      <4> QED
        BY <4>1, <4>2, <4>3, AppendExtends DEF TypeOK
    <3> QED
      BY <3>1, <3>2 DEF Writing
  <2>4. step \in {"operate", "write"} => db = log
    BY DEF Inv, CallsKnow
  <2> QED
    BY <2>1, <2>2, <2>3, <2>4
<1> QED
  BY <1>1, InvCorrect, PTL

-----------------------------------------------------------------------------
(* No certificate too many *)

\* A certificate about to be written is for a device the log does not know.
NewDevice ==
  step = "write" /\ rec.op = "issue" => \A i \in 1..Len(log) : log[i].device # rec.device

Rightly == IssuedRightly /\ NewDevice

LEMMA FirstRightly ==
  ASSUME TypeOK, IssuedRightly, NEW n \in 0..Len(log), log' = First(log, n)
  PROVE  IssuedRightly'
<1>1. log \in Seq(Decision)
  BY DEF TypeOK
<1>2. Len(log') = n /\ \A i \in 1..n : log'[i] = log[i] /\ i \in 1..Len(log)
  BY <1>1, FirstRecords
<1> QED
  BY <1>2 DEF IssuedRightly

LEMMA StepRightly == TypeOK /\ Inv /\ Rightly /\ [Next]_vars => Rightly'
<1> SUFFICES ASSUME TypeOK, Inv, Rightly, [Next]_vars PROVE Rightly'
  OBVIOUS
<1>1. ASSUME NEW w \in Processes, NEW op \in {"issue", "revoke"}, NEW d \in Devices,
             Decide(w, op, d)
      PROVE  Rightly'
  <2>1. /\ UNCHANGED log /\ step = "operate" /\ rec'.op = op /\ rec'.device = d
        /\ Allowed(w, op, d)
    BY <1>1 DEF Decide, authority
  <2>2. db = log
    BY <2>1 DEF Inv, CallsKnow
  <2>3. ASSUME op = "issue", NEW i \in 1..Len(log) PROVE log[i].device # d
    <3>1. log[i].op \in {"issue", "revoke"}
      <4>1. log[i] \in Decision
        BY ElementOfSeq DEF TypeOK
      <4> QED
        BY <4>1 DEF Decision
    <3>2. ~Issued(d, log) /\ ~Revoked(d, log)
      BY <2>1, <2>2, <2>3 DEF Allowed
    <3> QED
      BY <3>1, <3>2 DEF Issued, Revoked
  <2>4. IssuedRightly'
    BY <2>1 DEF Rightly, IssuedRightly
  <2>5. NewDevice'
    BY <2>1, <2>3 DEF NewDevice
  <2> QED
    BY <2>4, <2>5 DEF Rightly
<1>2. ASSUME NEW w \in Processes, Write(w) PROVE Rightly'
  <2>1. step = "write" /\ step' # "write"
    BY <1>2 DEF Write, Release
  <2>2. log' = log \/ log' = Append(log, rec)
    BY <1>2 DEF Write
  <2>3. rec \in Decision
    BY <2>1 DEF TypeOK
  <2>4. IssuedRightly'
    <3>1. CASE log' = log
      BY <3>1 DEF Rightly, IssuedRightly
    <3>2. CASE log' = Append(log, rec)
      <4>1. /\ Len(log') = Len(log) + 1 /\ Len(log) \in Nat
            /\ \A i \in 1..Len(log) : log'[i] = log[i]
            /\ log'[Len(log) + 1] = rec
        BY <2>3, <3>2, AppendProperties DEF TypeOK
      <4>2. ASSUME NEW i \in 1..Len(log'), NEW j \in 1..Len(log'),
                   log'[j].op = "issue", log'[i].device = log'[j].device
            PROVE  j <= i
        <5>1. CASE i = Len(log) + 1
          BY <4>1, <5>1
        <5>2. CASE i \in 1..Len(log) /\ j \in 1..Len(log)
          BY <4>1, <4>2, <5>2 DEF Rightly, IssuedRightly
        <5>3. CASE i \in 1..Len(log) /\ j = Len(log) + 1
          BY <2>1, <4>1, <4>2, <5>3 DEF Rightly, NewDevice
        <5> QED
          BY <4>1, <5>1, <5>2, <5>3
      <4> QED
        BY <4>2 DEF IssuedRightly
    <3> QED
      BY <2>2, <3>1, <3>2
  <2> QED
    BY <2>1, <2>4 DEF Rightly, NewDevice
<1>3. ASSUME UNCHANGED log, step' # "write" PROVE Rightly'
  BY <1>3 DEF Rightly, IssuedRightly, NewDevice
<1>4. ASSUME NEW w \in Processes,
             \/ Begin(w) \/ Recover(w) \/ Replay(w) \/ Read(w) \/ Backup(w)
             \/ Sync(w) \/ Mark(w) \/ Commit(w)
      PROVE  Rightly'
  <2>1. UNCHANGED log
    BY <1>4 DEF Begin, Recover, Replay, Read, Backup, Sync, Mark, Commit, authority
  <2>2. step' # "write"
    BY <1>4 DEF Begin, Recover, Replay, Read, Backup, Sync, Mark, Commit, Release
  <2> QED
    BY <1>3, <2>1, <2>2
<1>5. ASSUME NEW w \in Processes, Crash(w) PROVE Rightly'
  <2>1. UNCHANGED log /\ (step' = "idle" \/ UNCHANGED <<step, rec>>)
    BY <1>5 DEF Crash, authority
  <2> QED
    BY <1>3, <2>1 DEF Rightly, IssuedRightly, NewDevice
<1>6. ASSUME PowerCut \/ Rewind PROVE Rightly'
  <2>1. step' = "idle"
    BY <1>6 DEF PowerCut, Rewind, Stopped, TypeOK
  <2>2. PICK n \in 0..Len(log) : log' = First(log, n)
    BY <1>6 DEF PowerCut, Rewind, TypeOK
  <2>3. IssuedRightly'
    BY <2>2, FirstRightly DEF Rightly
  <2> QED
    BY <2>1, <2>3 DEF Rightly, NewDevice
<1>7. ASSUME Restore PROVE Rightly'
  <2>1. UNCHANGED <<log, step, rec>>
    BY <1>7 DEF Restore, authority
  <2> QED
    BY <2>1 DEF Rightly, IssuedRightly, NewDevice
<1>8. CASE UNCHANGED vars
  BY <1>8 DEF vars, Rightly, IssuedRightly, NewDevice
<1> QED
  BY <1>1, <1>2, <1>4, <1>5, <1>6, <1>7, <1>8 DEF Next, Work

\* No operation is ever certified twice and no device after its revocation,
\* whichever processes failed between the log and SQLite.
THEOREM CertificatesAreRight == Spec => []IssuedRightly
<1>1. Init => Rightly
  <2> SUFFICES ASSUME Init PROVE Rightly
    OBVIOUS
  <2>1. Len(<<>>) = 0
    BY EmptySeq
  <2> QED
    BY <2>1 DEF Init, Rightly, IssuedRightly, NewDevice
<1>2. Spec => [](TypeOK /\ Inv)
  BY InvCorrect
<1>3. Rightly => IssuedRightly
  BY DEF Rightly
<1> QED
  BY <1>1, <1>2, <1>3, StepRightly, PTL DEF Spec

=============================================================================
