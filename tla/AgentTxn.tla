------------------------------- MODULE AgentTxn -------------------------------
(***************************************************************************)
(* The journaled multi-file write of Agent configuration files:            *)
(* desktop/src-tauri/src/manager_core/agent/journal.rs, and the part of    *)
(* service.rs and session.rs that decides who may run it.                  *)
(*                                                                         *)
(* One transaction changes the files of one Agent and, last, the manager's *)
(* sidecar.  Every target is backed up, the whole plan is journaled, each  *)
(* target is checked, replaced and confirmed, and a committed journal is   *)
(* written before the journal is removed.  Any failure after the first     *)
(* replacement rolls back from the backups; a crash leaves the journal to  *)
(* the next session.                                                       *)
(*                                                                         *)
(* Simplifications:                                                        *)
(*  - a file is its content (a keyed revision identifies content and mode);*)
(*  - one action per disk effect.  The reads a step makes before an effect *)
(*    on ANOTHER file are part of that step; a check and the effect on the *)
(*    same file are two steps, so that an editor can come between them;    *)
(*  - every caller in lifecycle.rs passes no deadline, so no step times    *)
(*    out; JournalEntry.progress is written but never read, so it is left  *)
(*    out (the write itself, which may fail, is kept);                     *)
(*  - a crash is the death of the process: what was renamed stays renamed. *)
(***************************************************************************)
EXTENDS Naturals

CONSTANTS
  N,            \* number of files; file N is the manager's sidecar
  Contents,     \* contents a file may have
  Absent,       \* the content of a missing file
  Sessions,     \* manager sessions one desktop process may create
  None,         \* no session, no journal
  Edited,       \* what a file another program edited counts as in AtomicWrite
  FaultAt,      \* the operations whose disk access may fail
  MaxTxns, MaxFaults, MaxCrashes, MaxEdits, MaxRespawns   \* bounds of a run

Files == 1..N
Values == Contents \union {Absent}
FaultPoints ==
  {"backup", "abandon", "journal", "apply", "confirm", "commit", "clear",
   "drop", "rollback"}

ASSUME ConstantsAssumption ==
  /\ N \in Nat \ {0}
  /\ Absent \notin Contents
  /\ Edited \notin Values
  /\ None \notin Sessions
  /\ FaultAt \subseteq FaultPoints
  /\ MaxTxns \in Nat /\ MaxFaults \in Nat /\ MaxCrashes \in Nat
  /\ MaxEdits \in Nat /\ MaxRespawns \in Nat

VARIABLES
  \* --- the disk ---
  file,      \* content of every file
  journal,   \* the journal file: a Journal, or None
  copies,    \* private backup files: <<file, content, kind, transaction>>
  \* --- the manager's sessions ---
  svc,       \* state of each session's AgentService
  cur,       \* the session that the desktop's client talks to, or None
  owner,     \* the session that holds the transaction lock, or None
  \* --- the operation that holds the lock ---
  pc,        \* its next step
  plan,      \* the last accepted WritePlan: targets, guards, contents
             \* before and after
  mem,       \* the journal in memory
  todo,      \* targets the current loop has not visited
  replaced,  \* some target was replaced
  conflict,  \* rollback met a target it does not recognise
  \* --- what the client saw, and history ---
  outcome,   \* reply to the last write
  touched,   \* files another program changed since the plan was built
  raced,     \* those of them changed between a check and its effect
  used       \* how much of each bound is spent

disk == <<file, journal, copies>>
vars == <<file, journal, copies, svc, cur, owner, pc, plan, mem, todo,
          replaced, conflict, outcome, touched, raced, used>>

Plans ==
  [txn: Nat, targets: SUBSET Files, guards: SUBSET Files,
   pre: [Files -> Values], post: [Files -> Values]]

Journals ==
  [txn: Nat, targets: SUBSET Files, pre: [Files -> Values],
   post: [Files -> Values], backup: [Files -> Values], committed: BOOLEAN,
   saved: SUBSET Files]

ASSUME NoJournalAssumption == None \notin Journals

Copies == Files \X Contents \X {"bak", "rollback"} \X Nat

Steps ==
  {"idle", "backup", "snapshot", "barrier", "abandon", "check", "apply",
   "confirm", "commit", "clear", "drop", "inspect", "restore", "record",
   "settle"}

TypeOK ==
  /\ file \in [Files -> Values]
  /\ journal \in Journals \union {None}
  /\ copies \subseteq Copies
  /\ svc \in [Sessions -> {"down", "live", "disabled", "isolated"}]
  /\ cur \in Sessions \union {None}
  /\ owner \in Sessions \union {None}
  /\ pc \in Steps
  /\ (pc = "idle") = (owner = None)
  /\ plan \in Plans
  /\ mem \in Journals
  /\ todo \subseteq Files
  /\ replaced \in BOOLEAN /\ conflict \in BOOLEAN
  /\ outcome \in {"none", "ok", "failed", "unproven", "phantom", "lost"}
  /\ touched \subseteq Files /\ raced \subseteq Files
  /\ used \in [txns: Nat, faults: Nat, crashes: Nat, edits: Nat, respawns: Nat]

\* A plan that asks for nothing: the state of the plan before the first write.
NoPlan == [txn |-> 0, targets |-> {}, guards |-> {},
           pre |-> [f \in Files |-> Absent], post |-> [f \in Files |-> Absent]]

\* Every entry names the backup of the content the plan read (Absent: none).
Fresh(p) == [txn |-> p.txn, targets |-> p.targets, pre |-> p.pre,
             post |-> p.post, backup |-> p.pre, committed |-> FALSE,
             saved |-> {}]

Init ==
  /\ file \in [Files -> Values]
  /\ journal = None
  /\ copies = {}
  /\ svc = [s \in Sessions |-> "down"]
  /\ cur = None /\ owner = None
  /\ pc = "idle"
  /\ plan = NoPlan
  /\ mem = Fresh(NoPlan)
  /\ todo = {}
  /\ replaced = FALSE /\ conflict = FALSE
  /\ outcome = "none"
  /\ touched = {} /\ raced = {}
  /\ used = [txns |-> 0, faults |-> 0, crashes |-> 0, edits |-> 0, respawns |-> 0]

-------------------------------------------------------------------------------
(* Helpers.  A definition named Mutant... is the definition that follows it
   with a slip in it; it is used only to see that the properties notice. *)

\* Loops over the plan go up the files, rollback goes down: sidecar first.
First(f) == f \in todo /\ \A g \in todo : f <= g

Last(f) == f \in todo /\ \A g \in todo : g <= f

\* verify_planned_revision of a target, verify_revision_guards of the files
\* the plan saw missing, verify_plan_revision_set of both.
MutantAsPlanned(f) == TRUE
AsPlanned(f) == file[f] = plan.pre[f]

GuardsHold == \A g \in plan.guards : file[g] = Absent

AllAsPlanned == GuardsHold /\ \A f \in plan.targets : AsPlanned(f)

\* Private backups beside the target: of what the plan read, and of what a
\* rollback is about to overwrite.
MutantBackUp(f) == copies' = copies
BackUp(f) == copies' = copies \union {<<f, plan.pre[f], "bak", plan.txn>>}

SetAside(f) == copies' = copies \union {<<f, file[f], "rollback", mem.txn>>}

Created == {c \in copies : c[3] = "bak" /\ c[4] = plan.txn}

\* The disk access of operation p fails.
Fault(p) ==
  /\ p \in FaultAt
  /\ used.faults < MaxFaults
  /\ used' = [used EXCEPT !.faults = @ + 1]

\* An atomic file write that fails may have failed after the rename, when the
\* directory could not be synced; a removal likewise.
JournalFails(p, j) == Fault(p) /\ journal' \in {journal, j}

\* The session running the operation replies, if the client still listens, and
\* releases the lock.
Finish(reply) ==
  /\ pc' = "idle"
  /\ owner' = None
  /\ outcome' = IF owner = cur THEN reply ELSE outcome
  /\ todo' = {}
  /\ UNCHANGED <<cur, plan, replaced, conflict, touched, raced>>

\* Rollback could not be proven.  A write replies ROLLBACK_FAILED; only the
\* recovery a session runs when it starts disables that session's writes.
Unproven ==
  IF svc[owner] = "down"
  THEN /\ svc' = [svc EXCEPT ![owner] = "disabled"]
       /\ Finish(outcome)
  ELSE UNCHANGED svc /\ Finish("unproven")

\* Rollback succeeded: the write replies its original error, or a session
\* that was recovering goes live.
Proven ==
  IF svc[owner] = "down"
  THEN /\ svc' = [svc EXCEPT ![owner] = "live"]
       /\ Finish(outcome)
  ELSE UNCHANGED svc /\ Finish("failed")

\* Continue the operation at a step, visiting the given targets.
Goto(step, targets) ==
  /\ pc' = step
  /\ todo' = targets
  /\ UNCHANGED <<svc, cur, owner, plan, outcome, touched, raced>>

\* fail_and_rollback: roll back only if something was replaced.
MutantFail(done) == Goto("drop", {})
Fail(done) ==
  IF done THEN Goto("inspect", mem.targets) ELSE Goto("drop", {})

-------------------------------------------------------------------------------
(* Sessions: AgentService::new, under the transaction lock *)

\* A session starts when the desktop has none, or replaces one whose request
\* the watchdog gave up on; the old session finishes what it is doing.
Opens(s) ==
  /\ svc[s] = "down"
  /\ owner # s
  /\ \/ cur = None /\ UNCHANGED <<used, outcome>>
     \/ /\ cur # None /\ svc[cur] # "down"
        /\ used.respawns < MaxRespawns
        /\ used' = [used EXCEPT !.respawns = @ + 1]
        /\ outcome' = "lost"
  /\ cur' = s

\* Nothing to recover.
Start(s) ==
  /\ Opens(s)
  /\ owner = None
  /\ journal = None
  /\ svc' = [svc EXCEPT ![s] = "live"]
  /\ UNCHANGED <<disk, owner, pc, plan, mem, todo, replaced, conflict, touched,
                 raced>>

\* decode_journal: an existing target has a backup, only one is deleted.
Decodes(j) ==
  \A f \in j.targets :
    /\ j.pre[f] # Absent => j.backup[f] # Absent
    /\ j.post[f] = Absent => j.pre[f] # Absent

\* The journal is not acceptable, so recovery fails at once.
StartDisabled(s) ==
  /\ Opens(s)
  /\ owner = None
  /\ journal # None /\ ~ Decodes(journal)
  /\ svc' = [svc EXCEPT ![s] = "disabled"]
  /\ UNCHANGED <<disk, owner, pc, plan, mem, todo, replaced, conflict, touched,
                 raced>>

\* A committed journal is only removed; otherwise roll back from the journal.
MutantRecover(j) == pc' = "clear" /\ todo' = {}
Recover(j) ==
  IF j.committed
  THEN pc' = "clear" /\ todo' = {}
  ELSE pc' = "inspect" /\ todo' = j.targets

StartRecovering(s) ==
  /\ Opens(s)
  /\ owner = None
  /\ journal # None /\ Decodes(journal)
  /\ owner' = s
  /\ mem' = journal
  /\ replaced' = FALSE /\ conflict' = FALSE
  /\ Recover(journal)
  /\ UNCHANGED <<disk, svc, plan, touched, raced>>

\* The lock stayed busy for its timeout: the session serves a temporary home.
StartIsolated(s) ==
  /\ Opens(s)
  /\ owner # None
  /\ svc' = [svc EXCEPT ![s] = "isolated"]
  /\ UNCHANGED <<disk, owner, pc, plan, mem, todo, replaced, conflict, touched,
                 raced>>

-------------------------------------------------------------------------------
(* AgentService::write and cleanup_write, up to execute_plan *)

\* The plan is rebuilt from the files as they are; a token that does not match
\* it is PREVIEW_STALE and changes nothing.
Accept(s) ==
  /\ cur = s /\ svc[s] = "live"
  /\ owner = None
  /\ used.txns < MaxTxns
  /\ used' = [used EXCEPT !.txns = @ + 1]
  /\ \E guards \in SUBSET {f \in Files \ {N} : file[f] = Absent} :
       \E targets \in SUBSET (Files \ guards) :
         \E after \in [Files -> Values] :
           /\ N \in targets
           /\ \A f \in Files \ targets : after[f] = file[f]
           /\ \A f \in targets : after[f] = Absent => file[f] # Absent
           /\ plan' = [txn |-> used'.txns, targets |-> targets,
                       guards |-> guards, pre |-> file, post |-> after]
  /\ mem' = Fresh(plan')
  /\ owner' = s
  /\ pc' = "backup" /\ todo' = plan'.targets
  /\ replaced' = FALSE /\ conflict' = FALSE
  /\ outcome' = "none"
  /\ touched' = {} /\ raced' = {}
  /\ UNCHANGED <<disk, svc, cur>>

\* A session whose recovery failed refuses every write.
Refuse(s) ==
  /\ cur = s /\ svc[s] = "disabled"
  /\ outcome # "unproven"
  /\ outcome' = "unproven"
  /\ UNCHANGED <<disk, svc, cur, owner, pc, plan, mem, todo, replaced, conflict,
                 touched, raced, used>>

\* A write in the temporary home succeeds and leaves the user's files alone.
WriteIsolated(s) ==
  /\ cur = s /\ svc[s] = "isolated"
  /\ outcome # "phantom"
  /\ outcome' = "phantom"
  /\ UNCHANGED <<disk, svc, cur, owner, pc, plan, mem, todo, replaced, conflict,
                 touched, raced, used>>

-------------------------------------------------------------------------------
(* execute_plan *)

\* The loop over the plan's files goes to the next one, then to the barrier.
NextSnapshot(rest) == Goto(IF rest = {} THEN "barrier" ELSE "backup", rest)

\* A file that exists is checked against the plan and backed up.
Backup ==
  /\ pc = "backup"
  /\ \E f \in todo :
       /\ First(f)
       /\ \/ /\ plan.pre[f] = Absent
             /\ Goto("snapshot", todo)
             /\ UNCHANGED <<copies, used>>
          \/ /\ plan.pre[f] # Absent /\ AsPlanned(f)
             /\ BackUp(f)
             /\ Goto("snapshot", todo)
             /\ UNCHANGED used
          \/ /\ plan.pre[f] # Absent
             /\ Fault("backup") \/ (~ AsPlanned(f) /\ UNCHANGED used)
             /\ Goto("abandon", {})
             /\ UNCHANGED copies
  /\ UNCHANGED <<file, journal, mem, replaced, conflict>>

\* The journal entry records the content the target has now; rendering the
\* output or reading the target may fail.
Snapshot ==
  /\ pc = "snapshot"
  /\ \/ \E f \in todo :
          /\ First(f)
          /\ mem' = [mem EXCEPT !.pre[f] = file[f]]
          /\ NextSnapshot(todo \ {f})
          /\ UNCHANGED used
     \/ Fault("backup") /\ Goto("abandon", {}) /\ UNCHANGED mem
  /\ UNCHANGED <<disk, replaced, conflict>>

\* All files the plan read must still be as planned; then the journal.  When
\* the journal cannot be written, it is removed and the write abandoned.
Barrier ==
  /\ pc = "barrier"
  /\ \/ /\ AllAsPlanned
        /\ journal' = mem
        /\ Goto("check", plan.targets)
        /\ UNCHANGED used
     \/ /\ AllAsPlanned
        /\ Fault("journal")
        /\ journal' = None
        /\ Goto("abandon", {})
     \/ /\ ~ AllAsPlanned
        /\ Goto("abandon", {})
        /\ UNCHANGED <<journal, used>>
  /\ UNCHANGED <<file, copies, mem, replaced, conflict>>

\* The removal after a failed journal write fails too: nothing was replaced,
\* but the write replies ROLLBACK_FAILED and a journal may be left.
BarrierUnproven ==
  /\ pc = "barrier"
  /\ AllAsPlanned
  /\ JournalFails("journal", mem)
  /\ Finish("unproven")
  /\ UNCHANGED <<file, copies, svc, mem>>

\* pre_mutation_failure: the backups this write made are removed.
Abandon ==
  /\ pc = "abandon"
  /\ \/ /\ copies' = copies \ Created
        /\ Finish("failed")
        /\ UNCHANGED used
     \/ /\ Fault("abandon")
        /\ copies' \in {copies \ gone : gone \in SUBSET Created}
        /\ Finish("unproven")
  /\ UNCHANGED <<file, journal, svc, mem>>

\* Immediately before its replacement a target and the guards are checked.
Check ==
  /\ pc = "check"
  /\ \E f \in todo :
       /\ First(f)
       /\ IF AsPlanned(f) /\ GuardsHold
          THEN Goto("apply", todo)
          ELSE Fail(replaced)
  /\ UNCHANGED <<disk, mem, replaced, conflict, used>>

\* apply_planned_file: an atomic replacement, or a removal that fails if the
\* file is gone.  A fault may come before the rename or after it.
Apply ==
  /\ pc = "apply"
  /\ \E f \in todo :
       /\ First(f)
       /\ \/ /\ ~ (plan.post[f] = Absent /\ file[f] = Absent)
             /\ file' = [file EXCEPT ![f] = plan.post[f]]
             /\ replaced' = TRUE
             /\ Goto("confirm", todo)
             /\ UNCHANGED used
          \/ /\ plan.post[f] = Absent /\ file[f] = Absent
             /\ Fail(replaced)
             /\ UNCHANGED <<file, replaced, used>>
          \/ /\ Fault("apply")
             /\ Fail(replaced)
             /\ UNCHANGED <<file, replaced>>
          \/ /\ ~ (plan.post[f] = Absent /\ file[f] = Absent)
             /\ Fault("apply")
             /\ file' = [file EXCEPT ![f] = plan.post[f]]
             /\ replaced' = TRUE
             /\ Fail(TRUE)
  /\ UNCHANGED <<journal, copies, mem, conflict>>

NextCheck(rest) == Goto(IF rest = {} THEN "commit" ELSE "check", rest)

\* The replacement is read back and its progress journaled.
Confirm ==
  /\ pc = "confirm"
  /\ \E f \in todo :
       /\ First(f)
       /\ \/ /\ file[f] = plan.post[f]
             /\ journal' = mem
             /\ NextCheck(todo \ {f})
             /\ UNCHANGED used
          \/ /\ file[f] # plan.post[f]
             /\ Fail(TRUE)
             /\ UNCHANGED <<journal, used>>
          \/ /\ file[f] = plan.post[f]
             /\ JournalFails("confirm", mem)
             /\ Fail(TRUE)
  /\ UNCHANGED <<file, copies, mem, replaced, conflict>>

\* The commit point.  When the committed journal cannot be written the write
\* rolls back, with the journal in memory still marked committed.
Commit ==
  /\ pc = "commit"
  /\ \/ /\ ~ GuardsHold
        /\ Fail(replaced)
        /\ UNCHANGED <<journal, mem, used>>
     \/ /\ GuardsHold
        /\ mem' = [mem EXCEPT !.committed = TRUE]
        /\ \/ journal' = mem' /\ Goto("clear", {}) /\ UNCHANGED used
           \/ JournalFails("commit", mem') /\ Fail(replaced)
  /\ UNCHANGED <<file, copies, replaced, conflict>>

\* The journal of a committed write is removed; execute_plan ignores an error,
\* recovery does not.
Clear ==
  /\ pc = "clear"
  /\ \/ /\ journal' = None
        /\ IF svc[owner] = "down" THEN Proven ELSE UNCHANGED svc /\ Finish("ok")
        /\ UNCHANGED used
     \/ /\ JournalFails("clear", None)
        /\ IF svc[owner] = "down" THEN Unproven ELSE UNCHANGED svc /\ Finish("ok")
  /\ UNCHANGED <<file, copies, mem>>

\* Nothing was replaced: only the journal goes.
Drop ==
  /\ pc = "drop"
  /\ \/ journal' = None /\ Finish("failed") /\ UNCHANGED used
     \/ JournalFails("drop", None) /\ Finish("unproven")
  /\ UNCHANGED <<file, copies, svc, mem>>

-------------------------------------------------------------------------------
(* rollback, in a write that failed or in recover_locked *)

MutantNextInspect(rest) == Goto("inspect", todo)
NextInspect(rest) == Goto(IF rest = {} THEN "settle" ELSE "inspect", rest)

\* A target that is as before only has its progress journaled; one that is
\* neither as before nor as written is left alone; one that is as written is
\* copied aside once, if it exists, and then restored.
Inspect ==
  /\ pc = "inspect"
  /\ \E f \in todo :
       /\ Last(f)
       /\ \/ /\ file[f] = mem.pre[f]
             /\ journal' = mem
             /\ NextInspect(todo \ {f})
             /\ UNCHANGED <<copies, mem, conflict, used>>
          \/ /\ file[f] \notin {mem.pre[f], mem.post[f]}
             /\ conflict' = TRUE
             /\ NextInspect(todo \ {f})
             /\ UNCHANGED <<journal, copies, mem, used>>
          \/ /\ file[f] # mem.pre[f] /\ file[f] = mem.post[f]
             /\ file[f] # Absent /\ f \notin mem.saved
             /\ SetAside(f)
             /\ mem' = [mem EXCEPT !.saved = @ \union {f}]
             /\ journal' = mem'
             /\ Goto("restore", todo)
             /\ UNCHANGED <<conflict, used>>
          \/ /\ file[f] # mem.pre[f] /\ file[f] = mem.post[f]
             /\ file[f] = Absent \/ f \in mem.saved
             /\ Goto("restore", todo)
             /\ UNCHANGED <<journal, copies, mem, conflict, used>>
  /\ UNCHANGED <<file, replaced>>

\* Copying aside or journaling fails.
InspectFails ==
  /\ pc = "inspect"
  /\ \E f \in todo :
       /\ Last(f)
       /\ \/ /\ file[f] = mem.pre[f]
             /\ JournalFails("rollback", mem)
             /\ UNCHANGED <<copies, mem>>
          \/ /\ file[f] # mem.pre[f] /\ file[f] = mem.post[f]
             /\ file[f] # Absent /\ f \notin mem.saved
             /\ Fault("rollback")
             /\ UNCHANGED <<journal, copies, mem>>
          \/ /\ file[f] # mem.pre[f] /\ file[f] = mem.post[f]
             /\ file[f] # Absent /\ f \notin mem.saved
             /\ SetAside(f)
             /\ mem' = [mem EXCEPT !.saved = @ \union {f}]
             /\ JournalFails("rollback", mem')
  /\ Unproven
  /\ UNCHANGED file

\* The target is written from the backup its entry names, whose content is
\* verified, or removed if the write created it.
CanRestore(f) ==
  mem.pre[f] # Absent => <<f, mem.backup[f], "bak", mem.txn>> \in copies

Restored(f) ==
  [file EXCEPT ![f] = IF mem.pre[f] = Absent THEN Absent ELSE mem.backup[f]]

Restore ==
  /\ pc = "restore"
  /\ \E f \in todo :
       /\ Last(f)
       /\ CanRestore(f)
       /\ file' = Restored(f)
       /\ Goto("record", todo)
  /\ UNCHANGED <<journal, copies, mem, replaced, conflict, used>>

\* The backup is missing or not of the size journaled, or the write fails
\* before its rename or after it.
RestoreFails ==
  /\ pc = "restore"
  /\ \E f \in todo :
       /\ Last(f)
       /\ \/ /\ ~ CanRestore(f) \/ mem.backup[f] # mem.pre[f]
             /\ UNCHANGED <<file, used>>
          \/ CanRestore(f) /\ Fault("rollback") /\ file' \in {file, Restored(f)}
  /\ Unproven
  /\ UNCHANGED <<journal, copies, mem>>

\* The restored target is read back and its progress journaled.
Record ==
  /\ pc = "record"
  /\ \E f \in todo :
       /\ Last(f)
       /\ \/ /\ file[f] = mem.pre[f]
             /\ journal' = mem
             /\ NextInspect(todo \ {f})
             /\ UNCHANGED <<used, replaced, conflict>>
          \/ /\ file[f] # mem.pre[f]
             /\ Unproven
             /\ UNCHANGED <<journal, used>>
          \/ /\ file[f] = mem.pre[f]
             /\ JournalFails("rollback", mem)
             /\ Unproven
  /\ UNCHANGED <<file, copies, mem>>

\* Rollback is proven when no target was left alone and all are as before.
Settle ==
  /\ pc = "settle"
  /\ LET proven == ~ conflict /\ \A f \in mem.targets : file[f] = mem.pre[f]
     IN \/ proven /\ journal' = None /\ Proven /\ UNCHANGED used
        \/ ~ proven /\ UNCHANGED <<journal, used>> /\ Unproven
        \/ proven /\ JournalFails("rollback", None) /\ Unproven
  /\ UNCHANGED <<file, copies, mem>>

-------------------------------------------------------------------------------
(* The environment *)

\* The Agent, or the user's editor, changes one of the files.
Edit(f, c) ==
  /\ used.edits < MaxEdits
  /\ file[f] # c
  /\ used' = [used EXCEPT !.edits = @ + 1]
  /\ file' = [file EXCEPT ![f] = c]
  /\ touched' = touched \union {f}
  /\ raced' = IF pc \in {"apply", "restore"} /\ f \in todo
              THEN raced \union {f} ELSE raced
  /\ UNCHANGED <<journal, copies, svc, cur, owner, pc, plan, mem, todo, replaced,
                 conflict, outcome>>

\* The desktop process dies, with all its sessions; the lock dies with it.
Crash ==
  /\ used.crashes < MaxCrashes
  /\ cur # None
  /\ used' = [used EXCEPT !.crashes = @ + 1]
  /\ svc' = [s \in Sessions |-> "down"]
  /\ cur' = None /\ owner' = None
  /\ pc' = "idle" /\ todo' = {}
  /\ outcome' = "lost"
  /\ UNCHANGED <<disk, plan, mem, replaced, conflict, touched, raced>>

Operation ==
  \/ Backup \/ Snapshot \/ Barrier \/ BarrierUnproven \/ Abandon
  \/ Check \/ Apply \/ Confirm \/ Commit \/ Clear \/ Drop
  \/ Inspect \/ InspectFails \/ Restore \/ RestoreFails \/ Record \/ Settle

Next ==
  \/ \E s \in Sessions :
       \/ Start(s) \/ StartDisabled(s) \/ StartRecovering(s) \/ StartIsolated(s)
       \/ Accept(s) \/ Refuse(s) \/ WriteIsolated(s)
  \/ Operation
  \/ \E f \in Files, c \in Values : Edit(f, c)
  \/ Crash

Spec == Init /\ [][Next]_vars

\* The session's thread runs the operation it has begun without waiting on
\* anything but the disk.
FairSpec == Spec /\ WF_vars(Operation)

-------------------------------------------------------------------------------
(* Properties *)

\* Every backup the journal on disk names exists with the content it names:
\* no failure path removes a backup that a later recovery needs.
NamedBackupsExist ==
  journal # None =>
    \A f \in journal.targets :
      journal.backup[f] # Absent =>
        <<f, journal.backup[f], "bak", journal.txn>> \in copies

\* A write that replies an error other than ROLLBACK_FAILED has left, or put
\* back, every file as it was when the write began; one that replies success
\* has applied the whole plan.
RepliesAreTrue ==
  /\ outcome = "failed" => \A f \in Files \ touched : file[f] = plan.pre[f]
  /\ outcome = "ok" => \A f \in plan.targets \ touched : file[f] = plan.post[f]

\* With no operation running and no journal left, the last plan is applied
\* entirely or not at all, across errors, crashes and restarts.
AllOrNothing ==
  owner = None /\ journal = None =>
    \/ \A f \in plan.targets \ touched : file[f] = plan.pre[f]
    \/ \A f \in plan.targets \ touched : file[f] = plan.post[f]

\* No step of the manager overwrites what another program wrote, except in
\* the window between the check of a file and its replacement; and whatever it
\* overwrites or deletes it holds a copy of.
KeepsForeignEdits ==
  [][\A f \in Files :
       file'[f] # file[f] /\ used'.edits = used.edits /\ f \notin raced
         => /\ file[f] \in {plan.pre[f], mem.post[f]}
            /\ file[f] # Absent => \E c \in copies' : c[1] = f /\ c[2] = file[f]]_vars

\* An operation that holds the transaction lock ends and releases it.
LockReleased == (owner # None) ~> (owner = None)

-------------------------------------------------------------------------------
(* The refinement of AtomicWrite *)

\* While an uncommitted journal is on disk, a target that holds what the write
\* put there counts as not yet changed: recovery would put it back.
Pending(f) ==
  /\ journal # None
  /\ ~ journal.committed
  /\ f \in journal.targets
  /\ file[f] = journal.post[f]

Promise ==
  INSTANCE AtomicWrite WITH
    value <- [f \in Files |-> IF f \in touched THEN Edited
                             ELSE IF Pending(f) THEN journal.pre[f]
                             ELSE file[f]],
    plan  <- [targets |-> plan.targets, pre |-> plan.pre, post |-> plan.post],
    reply <- outcome

\* The journaled write implements the atomic one: the commit point is the
\* write of the committed journal.
ImplementsAtomicWrite == Promise!Spec

===============================================================================
