------------------------------- MODULE Journal --------------------------------
(* The enrolment server's authority: commits.jsonl, an append-only log of
   decisions chained by hash, the marker head.json beside it, and the SQLite
   database that is their projection.  The signing service and the administrator's
   commands are processes that share all three under one file lock.

   A transaction recovers (reads the new end of the log, compares it with the
   marker, replays what SQLite has not), decides on what SQLite then says,
   appends its record, makes it durable, moves the marker, commits SQLite and
   replies.  It may fail or its process may die at any of these steps; power may
   be lost; an operator may bring back an older database, or older copies of
   database and log.

   A hash chain tells two logs apart wherever they differ, so a checkpoint (the
   number and hash of a record) is the sequence of the records up to it.  The
   schema is part of every database, also of an empty one.  A file lock that
   stays taken for five seconds refuses a call that has changed nothing. *)
EXTENDS Naturals, Sequences

CONSTANTS Processes,
          Service,     \* the one process that signs: it holds the writer locks
          Devices,     \* one enrolment each: an operation, its certificate
          None,
          MaxRecords,  \* bound on the log
          Budget       \* failed steps, dead processes, power cuts, operator's acts

Kinds == {"faults", "crashes", "cuts", "restores", "rewinds"}
Counts == [Kinds -> Nat]

ASSUME JournalAssumption ==
  /\ Service \in Processes /\ None \notin Processes
  /\ MaxRecords \in Nat /\ Budget \in Counts

VARIABLES log,     \* the complete records of commits.jsonl
          tail,    \* "torn": an incomplete record follows them
          synced,  \* how many of them are certainly on the disk
          marker,  \* head.json, as it is read
          disk,    \* head.json, as it comes back after a power cut
          db,      \* the records SQLite has applied
          backup,  \* those of the last backup
          head,    \* the end of the log as each process last read it
          opened,  \* the processes that have opened the store
          holder,  \* the process that holds the commit lock, or None
          step,    \* and where it is
          rec,     \* and the record it appends
          told,    \* the log at the last reply to a decision
          left     \* what is left of the budget

authority == <<log, tail, synced>>
markers == <<marker, disk>>
vars == <<log, tail, synced, marker, disk, db, backup, head, opened, holder, step, rec,
          told, left>>

Decision == [seq: Nat \ {0}, op: {"issue", "revoke"}, device: Devices]
Steps == {"idle", "recover", "replay", "operate", "write", "sync", "mark", "commit"}

TypeOK ==
  /\ log \in Seq(Decision) /\ marker \in Seq(Decision) /\ disk \in Seq(Decision)
  /\ db \in Seq(Decision) /\ backup \in Seq(Decision) /\ told \in Seq(Decision)
  /\ tail \in {"whole", "torn"} /\ synced \in 0..Len(log)
  /\ head \in [Processes -> Nat] /\ opened \subseteq Processes
  /\ holder \in Processes \union {None} /\ step \in Steps
  /\ step = "idle" <=> holder = None
  /\ rec \in Decision \union {None}
  /\ step \in {"write", "sync", "mark", "commit"} => rec \in Decision
  /\ left \in Counts

Init ==
  /\ log = <<>> /\ tail = "whole" /\ synced = 0
  /\ marker = <<>> /\ disk = <<>> /\ db = <<>> /\ backup = <<>> /\ told = <<>>
  /\ head = [w \in Processes |-> 0] /\ opened = {}
  /\ holder = None /\ step = "idle" /\ rec = None
  /\ left = Budget

\* s continues p: p's checkpoint is found in the chain of s.
Extends(s, p) == Len(p) <= Len(s) /\ \A i \in 1..Len(p) : s[i] = p[i]

First(s, n) == SubSeq(s, 1, n)

Issued(d, s) == \E i \in 1..Len(s) : s[i].op = "issue" /\ s[i].device = d
Revoked(d, s) == \E i \in 1..Len(s) : s[i].op = "revoke" /\ s[i].device = d

Spend(what) == left[what] > 0 /\ left' = [left EXCEPT ![what] = @ - 1]

-----------------------------------------------------------------------------
(* The lock. *)

\* The call ends and the lock is free.  A process whose opening ends without
\* success is gone.
Release(w, ok, end) ==
  /\ holder' = None /\ step' = "idle" /\ rec' = None
  /\ opened' = IF ok THEN opened \union {w} ELSE opened
  /\ head' = [head EXCEPT ![w] = IF ok \/ w \in opened THEN end ELSE 0]

\* A call, or the opening of the store, has the lock.
Begin(w) ==
  /\ holder = None
  /\ holder' = w /\ step' = "recover"
  /\ UNCHANGED <<authority, markers, db, backup, head, opened, rec, told, left>>

-----------------------------------------------------------------------------
(* Recovery. *)

\* syncTail reads on from where this process stopped: complete records, each
\* the successor of the one before.
Chained(s) == \A i \in 1..Len(s) : s[i].seq = i
Readable == tail = "whole" /\ Chained(log)

\* A recovery that takes the log at its word.
MutantNoMarker == Readable

\* A recovery for which a marker the crash left behind is damage.
MutantExactMarker == Readable /\ marker = log

\* checkAuthorityHead: the log still has all the marker knows of.
Accepted == Readable /\ Extends(log, marker)

\* saveAuthorityHead: a new file replaces head.json and the directory is synced.
\* When it fails the old file, the new one, or the new one until power is lost,
\* remains.
Marked == marker' = log /\ disk' = log /\ UNCHANGED left
MarkFails ==
  /\ Spend("faults")
  /\ marker' \in {marker, log}
  /\ disk' \in {disk, marker'}

Recover(w) ==
  /\ step = "recover" /\ holder = w
  /\ \/ /\ ~Accepted
        /\ Release(w, FALSE, IF Readable THEN Len(log) ELSE head[w])
        /\ UNCHANGED <<markers, left>>
     \/ /\ Accepted
        /\ \/ marker = log /\ UNCHANGED <<markers, left>>
           \/ marker # log /\ Marked
        /\ step' = "replay" /\ head' = [head EXCEPT ![w] = Len(log)]
        /\ UNCHANGED <<holder, opened, rec>>
     \/ /\ Accepted /\ marker # log
        /\ MarkFails
        /\ Release(w, FALSE, Len(log))
  /\ UNCHANGED <<authority, db, backup, told>>

\* A recovery that leaves the catching up to the opening of the store.
MutantReplay(w) ==
  /\ step = "replay" /\ holder = w
  /\ IF Extends(log, db)
       THEN /\ db' = IF w \in opened THEN db ELSE log
            /\ step' = "operate"
            /\ UNCHANGED <<head, opened, holder, rec, left>>
       ELSE Release(w, FALSE, head[w]) /\ UNCHANGED <<db, left>>
  /\ UNCHANGED <<authority, markers, backup, told>>

\* The database's checkpoint must lie on the chain; what follows it is applied
\* record by record, each with its checkpoint in a transaction of its own.
Replay(w) ==
  /\ step = "replay" /\ holder = w
  /\ \/ /\ ~Extends(log, db)
        /\ Release(w, FALSE, head[w])
        /\ UNCHANGED <<db, left>>
     \/ /\ db = log
        /\ step' = "operate"
        /\ UNCHANGED <<db, head, opened, holder, rec, left>>
     \/ /\ Extends(log, db) /\ db # log
        /\ db' = Append(db, log[Len(db) + 1])
        /\ UNCHANGED <<head, opened, holder, step, rec, left>>
     \/ /\ Extends(log, db) /\ db # log
        /\ Spend("faults")
        /\ Release(w, FALSE, head[w])
        /\ UNCHANGED db
  /\ UNCHANGED <<authority, markers, backup, told>>

-----------------------------------------------------------------------------
(* The transaction. *)

\* Nothing to write: a status, a list, an answer that is repeated, an opening
\* that finds the schema current.
Read(w) ==
  /\ step = "operate" /\ holder = w
  /\ Release(w, TRUE, head[w])
  /\ UNCHANGED <<authority, markers, db, backup, told, left>>

\* admin backup copies the database under the lock; the journal is not in it.
Backup(w) ==
  /\ step = "operate" /\ holder = w /\ w \in opened /\ w # Service
  /\ backup' = db
  /\ Release(w, TRUE, head[w])
  /\ UNCHANGED <<authority, markers, db, told, left>>

\* issueAuthorized: once for an operation, never for a device that is disabled.
\* revoke: for a device that has certificates, as often as one likes.
Allowed(w, op, d) ==
  \/ op = "issue" /\ w = Service /\ ~Issued(d, db) /\ ~Revoked(d, db)
  \/ op = "revoke" /\ Issued(d, db)

Decide(w, op, d) ==
  /\ step = "operate" /\ holder = w /\ w \in opened
  /\ Len(log) < MaxRecords
  /\ Allowed(w, op, d)
  /\ rec' = [seq |-> head[w] + 1, op |-> op, device |-> d]
  /\ step' = "write"
  /\ UNCHANGED <<authority, markers, db, backup, head, opened, holder, told, left>>

\* The record is appended whole, in part, or not at all.
Write(w) ==
  /\ step = "write" /\ holder = w
  /\ \/ /\ log' = Append(log, rec) /\ step' = "sync"
        /\ UNCHANGED <<tail, head, opened, holder, rec, left>>
     \/ /\ Spend("faults")
        /\ tail' \in {"whole", "torn"}
        /\ Release(w, FALSE, head[w])
        /\ UNCHANGED log
  /\ UNCHANGED <<synced, markers, db, backup, told>>

\* When this fails the record is there and nobody knows for how long.
Sync(w) ==
  /\ step = "sync" /\ holder = w
  /\ \/ /\ synced' = Len(log) /\ step' = "mark"
        /\ UNCHANGED <<head, opened, holder, rec, left>>
     \/ /\ Spend("faults")
        /\ Release(w, FALSE, head[w])
        /\ UNCHANGED synced
  /\ UNCHANGED <<log, tail, markers, db, backup, told>>

Mark(w) ==
  /\ step = "mark" /\ holder = w
  /\ \/ /\ Marked
        /\ step' = "commit"
        /\ UNCHANGED <<head, opened, holder, rec>>
     \/ /\ MarkFails
        /\ Release(w, FALSE, head[w])
  /\ UNCHANGED <<authority, db, backup, told>>

\* SQLite commits the decision with its checkpoint, and the caller is told.
Commit(w) ==
  /\ step = "commit" /\ holder = w
  /\ \/ /\ db' = Append(db, rec) /\ told' = log
        /\ Release(w, TRUE, head[w] + 1)
        /\ UNCHANGED left
     \/ /\ Spend("faults")
        /\ Release(w, FALSE, head[w])
        /\ UNCHANGED <<db, told>>
  /\ UNCHANGED <<authority, markers, backup>>

-----------------------------------------------------------------------------
(* What happens to them. *)

\* A process dies: SQLite rolls back, the kernel frees the lock.
Crash(w) ==
  /\ w \in opened \union {holder}
  /\ Spend("crashes")
  /\ opened' = opened \ {w} /\ head' = [head EXCEPT ![w] = 0]
  /\ \/ holder = w /\ holder' = None /\ step' = "idle" /\ rec' = None
     \/ holder # w /\ UNCHANGED <<holder, step, rec>>
  /\ UNCHANGED <<authority, markers, db, backup, told>>

\* Records that were not synced may go, wholly or in part; SQLite's commits stay
\* (synchronous=FULL).
PowerCut ==
  /\ Spend("cuts")
  /\ \E n \in synced..Len(log) :
       /\ log' = First(log, n) /\ synced' = n
       /\ tail' \in IF n < Len(log) \/ tail = "torn" THEN {"whole", "torn"} ELSE {"whole"}
  /\ marker' = disk
  /\ opened' = {} /\ head' = [w \in Processes |-> 0]
  /\ holder' = None /\ step' = "idle" /\ rec' = None
  /\ UNCHANGED <<disk, db, backup, told>>

Stopped == opened = {} /\ holder = None

\* The documented restore: an older database, or none, beside the latest log.
Restore ==
  /\ Stopped
  /\ Spend("restores")
  /\ db' \in {backup, <<>>}
  /\ UNCHANGED <<authority, markers, backup, head, opened, holder, step, rec, told>>

\* The restore the documents forbid: the log of that day too.  Only head.json
\* is left to tell.
Rewind ==
  /\ Stopped
  /\ Spend("rewinds")
  /\ \E n \in 0..Len(log) : log' = First(log, n) /\ synced' = n
  /\ tail' = "whole"
  /\ db' \in {db, backup, <<>>}
  /\ UNCHANGED <<markers, backup, head, opened, holder, step, rec, told>>

-----------------------------------------------------------------------------
Work(w) ==
  \/ Recover(w) \/ Replay(w) \/ Read(w) \/ Write(w) \/ Sync(w) \/ Mark(w) \/ Commit(w)

Next ==
  \/ \E w \in Processes :
       \/ Begin(w) \/ Work(w) \/ Backup(w) \/ Crash(w)
       \/ \E op \in {"issue", "revoke"}, d \in Devices : Decide(w, op, d)
  \/ PowerCut \/ Restore \/ Rewind

Spec == Init /\ [][Next]_vars

\* The service is restarted when it ends, and its maintenance and readiness
\* calls keep coming; a call that has the lock goes on.
FairSpec ==
  /\ Spec
  /\ WF_vars(Begin(Service))
  /\ WF_vars(\E w \in Processes : Work(w))

-----------------------------------------------------------------------------
(* Properties *)

\* Whoever has come through recovery decides on a database that holds exactly
\* what the log holds, and the log, one unbroken chain whoever appended to it,
\* still has everything a caller was ever told: whatever failed, died or lost
\* power, and even when an operator brought back an older log.
NothingForgotten ==
  step \in {"operate", "write", "sync", "mark", "commit"} =>
    /\ Chained(log)
    /\ Extends(log, db) /\ (step \in {"operate", "write"} => db = log)
    /\ Extends(log, told)

\* No operation has two certificates and no device gets one after its
\* revocation, also when the decision was journalled by a process that failed
\* before SQLite had it.
IssuedRightly ==
  \A i, j \in 1..Len(log) :
    log[j].op = "issue" /\ log[i].device = log[j].device => j <= i

\* A decision that is in the log reaches the database, unless the authority is
\* damaged: incomplete, older than its marker, or older than the database.
Damaged == tail = "torn" \/ ~Extends(log, marker) \/ ~Extends(log, db)
DecisionsArrive == Len(db) < Len(log) ~> (db = log \/ Damaged)

=============================================================================
