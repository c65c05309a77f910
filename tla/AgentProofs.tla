----------------------------- MODULE AgentProofs -----------------------------
(* Safety of the journaled write, for every number of files, contents,
   sessions, faults, crashes and edits; and of the plans it carries out, for every
   set of model configurations, commands and machines. *)
EXTENDS AgentTxn, AgentPlans, TLAPS

\* The journal a write starts from is a journal.
LEMMA FreshIsJournal ==
  ASSUME NEW p \in Plans
  PROVE  Fresh(p) \in Journals
  BY DEF Plans, Fresh, Journals

\* The state of AgentTxn is well typed, and the lock is held exactly while an
\* operation runs.
THEOREM TypeCorrect == Spec => []TypeOK
<1>. USE ConstantsAssumption DEF ConstantsAssumption
<1>1. Init => TypeOK
  <2> SUFFICES ASSUME Init PROVE TypeOK
    OBVIOUS
  <2>1. NoPlan \in Plans
    BY DEF NoPlan, Plans, Values
  <2>2. plan \in Plans /\ mem \in Journals
    BY <2>1, FreshIsJournal DEF Init
  <2>3. QED
    BY <2>2 DEF Init, TypeOK, Steps, Copies
<1>2. TypeOK /\ [Next]_vars => TypeOK'
  <2> SUFFICES ASSUME TypeOK, [Next]_vars PROVE TypeOK'
    OBVIOUS
  <2>1. ASSUME NEW s \in Sessions, Start(s) PROVE TypeOK'
    BY <2>1 DEF Start, Opens, TypeOK, disk
  <2>2. ASSUME NEW s \in Sessions, StartDisabled(s) PROVE TypeOK'
    BY <2>2 DEF StartDisabled, Opens, TypeOK, disk
  <2>3. ASSUME NEW s \in Sessions, StartRecovering(s) PROVE TypeOK'
    <3>1. mem' \in Journals
      BY <2>3 DEF StartRecovering, TypeOK
    <3>2. todo' \subseteq Files /\ pc' \in {"clear", "inspect"}
      BY <2>3 DEF StartRecovering, Recover, TypeOK, Journals
    <3>3. outcome' \in {outcome, "lost"} /\ cur' = s /\ owner' = s
          /\ used' \in [txns: Nat, faults: Nat, crashes: Nat, edits: Nat,
                       respawns: Nat]
      BY <2>3 DEF StartRecovering, Opens, TypeOK
    <3>4. QED
      BY <2>3, <3>1, <3>2, <3>3 DEF StartRecovering, TypeOK, disk, Steps
  <2>4. ASSUME NEW s \in Sessions, StartIsolated(s) PROVE TypeOK'
    BY <2>4 DEF StartIsolated, Opens, TypeOK, disk
  <2>5. ASSUME NEW s \in Sessions, Accept(s) PROVE TypeOK'
    <3>1. used' \in [txns: Nat, faults: Nat, crashes: Nat, edits: Nat, respawns: Nat]
      BY <2>5 DEF Accept, TypeOK
    <3>2. plan' \in Plans
      BY <2>5, <3>1 DEF Accept, TypeOK, Plans
    <3>3. mem' \in Journals
      BY <2>5, <3>2, FreshIsJournal DEF Accept
    <3>4. todo' \subseteq Files
      BY <2>5, <3>2 DEF Accept, Plans
    <3>5. QED
      BY <2>5, <3>1, <3>2, <3>3, <3>4 DEF Accept, TypeOK, disk, Steps
  <2>6. ASSUME NEW s \in Sessions, Refuse(s) PROVE TypeOK'
    BY <2>6 DEF Refuse, TypeOK, disk
  <2>7. ASSUME NEW s \in Sessions, WriteIsolated(s) PROVE TypeOK'
    BY <2>7 DEF WriteIsolated, TypeOK, disk
  <2>8. CASE Backup
    BY <2>8 DEF Backup, BackUp, Goto, Fault, TypeOK, Steps, Copies, Plans, Values
  <2>9. CASE Snapshot
    BY <2>9 DEF Snapshot, NextSnapshot, Goto, Fault, TypeOK, Steps, disk, Journals
  <2>10. CASE Barrier
    BY <2>10 DEF Barrier, Goto, Fault, TypeOK, Steps, Plans
  <2>11. CASE BarrierUnproven
    BY <2>11 DEF BarrierUnproven, JournalFails, Finish, Fault, TypeOK, Steps
  <2>12. CASE Abandon
    BY <2>12 DEF Abandon, Finish, Fault, TypeOK, Steps
  <2>13. CASE Check
    BY <2>13 DEF Check, Fail, Goto, TypeOK, Steps, disk, Journals
  <2>14. CASE Apply
    <3>1. mem.targets \subseteq Files /\ plan.post \in [Files -> Values]
      BY DEF TypeOK, Journals, Plans
    <3>2. file' \in [Files -> Values] /\ replaced' \in BOOLEAN
      BY <2>14, <3>1 DEF Apply, TypeOK
    <3>3. used' \in [txns: Nat, faults: Nat, crashes: Nat, edits: Nat, respawns: Nat]
      <4>1. UNCHANGED used \/ Fault("apply")
        BY <2>14 DEF Apply
      <4>2. QED
        BY <4>1 DEF Fault, TypeOK
    <3>4. \E step \in {"confirm", "inspect", "drop"}, targets \in SUBSET Files :
            Goto(step, targets)
      <4>1. Goto("confirm", todo) \/ Fail(replaced) \/ Fail(TRUE)
        BY <2>14 DEF Apply
      <4>2. QED
        BY <4>1, <3>1 DEF Fail, TypeOK
    <3>5. pc # "idle" /\ UNCHANGED <<journal, copies, mem, conflict>>
      BY <2>14 DEF Apply
    <3>6. QED
      BY <3>2, <3>3, <3>4, <3>5 DEF Goto, TypeOK, Steps
  <2>15. CASE Confirm
    BY <2>15 DEF Confirm, NextCheck, Fail, Goto, JournalFails, Fault, TypeOK, Steps, Journals
  <2>16. CASE Commit
    <3>1. mem' \in Journals /\ journal' \in Journals \union {None}
      <4>1. mem' \in Journals
        <5>1. mem' = mem \/ mem' = [mem EXCEPT !.committed = TRUE]
          BY <2>16 DEF Commit
        <5>2. mem \in Journals
          BY DEF TypeOK
        <5>3. [mem EXCEPT !.committed = TRUE] \in Journals
          BY <5>2 DEF Journals
        <5>4. QED
          BY <5>1, <5>2, <5>3
      <4>2. journal' = journal \/ journal' = mem'
        BY <2>16 DEF Commit, JournalFails
      <4>3. QED
        BY <4>1, <4>2 DEF TypeOK
    <3>2. used' \in [txns: Nat, faults: Nat, crashes: Nat, edits: Nat, respawns: Nat]
      BY <2>16 DEF Commit, JournalFails, Fault, TypeOK
    <3>3. \E step \in {"clear", "inspect", "drop"}, targets \in SUBSET Files :
            Goto(step, targets)
      <4>1. Goto("clear", {}) \/ Fail(replaced)
        BY <2>16 DEF Commit
      <4>2. QED
        BY <4>1 DEF Fail, TypeOK, Journals
    <3>4. QED
      BY <2>16, <3>1, <3>2, <3>3 DEF Commit, Goto, TypeOK, Steps
  <2>17. CASE Clear
    BY <2>17 DEF Clear, Proven, Unproven, Finish, JournalFails, Fault, TypeOK, Steps
  <2>18. CASE Drop
    BY <2>18 DEF Drop, Finish, JournalFails, Fault, TypeOK, Steps
  <2>19. CASE Inspect
    <3>1. mem' \in Journals /\ journal' \in Journals \union {None}
      BY <2>19 DEF Inspect, TypeOK, Journals
    <3>2. copies' \subseteq Copies
      <4>1. \A f \in todo : file[f] # Absent => <<f, file[f], "rollback", mem.txn>> \in Copies
        BY DEF TypeOK, Copies, Values, Journals
      <4>2. QED
        BY <2>19, <4>1 DEF Inspect, SetAside, TypeOK
    <3>3. \E step \in {"inspect", "settle", "restore"}, targets \in SUBSET Files :
            Goto(step, targets)
      BY <2>19 DEF Inspect, NextInspect, TypeOK
    <3>4. conflict' \in BOOLEAN /\ UNCHANGED <<file, replaced, used>>
      BY <2>19 DEF Inspect, TypeOK
    <3>5. pc # "idle"
      BY <2>19 DEF Inspect
    <3>6. QED
      BY <3>1, <3>2, <3>3, <3>4, <3>5 DEF Goto, TypeOK, Steps
  <2>20. CASE InspectFails
    BY <2>20 DEF InspectFails, SetAside, Unproven, Finish, JournalFails, Fault, TypeOK,
                 Steps, Journals, Copies, Values
  <2>21. CASE Restore
    BY <2>21 DEF Restore, Restored, Goto, TypeOK, Steps, Journals, Values
  <2>22. CASE RestoreFails
    BY <2>22 DEF RestoreFails, Restored, Unproven, Finish, Fault, TypeOK, Steps,
                 Journals, Values
  <2>23. CASE Record
    BY <2>23 DEF Record, NextInspect, Goto, Unproven, Finish, JournalFails, Fault,
                 TypeOK, Steps, Journals
  <2>24. CASE Settle
    BY <2>24 DEF Settle, Proven, Unproven, Finish, JournalFails, Fault, TypeOK,
                 Steps, Journals
  <2>25. ASSUME NEW f \in Files, NEW c \in Values, Edit(f, c) PROVE TypeOK'
    BY <2>25 DEF Edit, TypeOK
  <2>26. CASE Crash
    BY <2>26 DEF Crash, TypeOK, disk, Steps
  <2>27. CASE UNCHANGED vars
    BY <2>27 DEF vars, TypeOK, disk
  <2>28. QED
    BY <2>1, <2>2, <2>3, <2>4, <2>5, <2>6, <2>7, <2>8, <2>9, <2>10, <2>11, <2>12,
       <2>13, <2>14, <2>15, <2>16, <2>17, <2>18, <2>19, <2>20, <2>21, <2>22, <2>23,
       <2>24, <2>25, <2>26, <2>27 DEF Next, Operation
<1>3. QED
  BY <1>1, <1>2, PTL DEF Spec

-------------------------------------------------------------------------------
(* Backups.  The journal on disk is replaced by the journal in memory, so the
   backups that one names must exist too, from the barrier on; they exist there
   because the loop made them; and the only step that deletes backups works on
   a transaction the journal on disk is not about. *)

Backed(j) ==
  \A f \in j.targets :
    j.backup[f] # Absent => <<f, j.backup[f], "bak", j.txn>> \in copies

Same(j, k) == j.targets = k.targets /\ j.backup = k.backup /\ j.txn = k.txn

Preparing == {"backup", "snapshot", "barrier", "abandon"}
Journaled == {"check", "apply", "confirm", "commit", "inspect", "restore",
              "record", "settle"}

\* Transactions are numbered as they are accepted.
Numbered ==
  /\ journal # None => journal.txn <= used.txns
  /\ mem.txn <= used.txns /\ plan.txn <= used.txns

\* While a write prepares its journal, that journal names what the plan read,
\* and the one on disk, if any, belongs to an earlier write.
Prepares ==
  pc \in Preparing =>
    /\ mem.targets = plan.targets /\ mem.backup = plan.pre /\ mem.txn = plan.txn
    /\ journal # None => journal.txn < plan.txn

\* The targets the backup loop has passed are backed up; in its second half
\* also the current one.
Passed(f) == f \notin todo \/ (pc = "snapshot" /\ First(f))

BacksUp ==
  pc \in {"backup", "snapshot", "barrier"} =>
    /\ todo \subseteq plan.targets
    /\ pc = "barrier" => todo = {}
    /\ \A f \in plan.targets :
         Passed(f) /\ plan.pre[f] # Absent
           => <<f, plan.pre[f], "bak", plan.txn>> \in copies

BackupInv ==
  /\ Numbered /\ Prepares /\ BacksUp
  /\ pc \in Journaled => Backed(mem)
  /\ journal # None => Backed(journal)

\* Steps outside the preparation keep what the journals name and no step of
\* theirs deletes a backup.
LEMMA OutsidePreparation ==
  ASSUME TypeOK, TypeOK', BackupInv,
         pc' \notin Preparing, UNCHANGED plan, used'.txns = used.txns,
         copies \subseteq copies',
         Same(mem', mem),
         pc' \in Journaled => pc \in Journaled,
         \/ journal' \in {journal, None}
         \/ pc \in Journaled /\ Same(journal', mem)
  PROVE  BackupInv'
<1>. USE DEF BackupInv
<1>1. Numbered'
  BY DEF Numbered, Same
<1>2. Prepares'
  BY DEF Prepares
<1>3. BacksUp'
  BY DEF BacksUp, Preparing
<1>4. pc' \in Journaled => Backed(mem)'
  BY DEF Backed, Same
<1>5. journal' # None => Backed(journal)'
  <2>1. CASE journal' \in {journal, None}
    BY <2>1 DEF Backed
  <2>2. CASE pc \in Journaled /\ Same(journal', mem)
    BY <2>2 DEF Backed, Same
  <2>3. QED
    BY <2>1, <2>2
<1>6. QED
  BY <1>1, <1>2, <1>3, <1>4, <1>5

\* BackupInv is inductive with the types.
LEMMA BackupHolds == Spec => []BackupInv
<1>. USE ConstantsAssumption DEF ConstantsAssumption
<1>1. Init => BackupInv
  BY DEF Init, BackupInv, Numbered, Prepares, BacksUp, Preparing, Journaled, NoPlan, Fresh
<1>2. TypeOK /\ TypeOK' /\ BackupInv /\ [Next]_vars => BackupInv'
  <2> SUFFICES ASSUME TypeOK, TypeOK', BackupInv, [Next]_vars PROVE BackupInv'
    OBVIOUS
  <2>a. /\ mem.txn \in Nat /\ plan.txn \in Nat /\ used.txns \in Nat
        /\ journal # None => journal.txn \in Nat
    BY DEF TypeOK, Journals, Plans
  <2>1. ASSUME NEW s \in Sessions,
               \/ Start(s) \/ StartDisabled(s) \/ StartIsolated(s)
               \/ Refuse(s) \/ WriteIsolated(s)
        PROVE  BackupInv'
    <3>1. UNCHANGED <<disk, pc, plan, mem, todo>> /\ used'.txns = used.txns
      BY <2>1 DEF Start, StartDisabled, StartIsolated, Refuse, WriteIsolated, Opens, TypeOK
    <3>2. QED
      BY <3>1 DEF disk, BackupInv, Numbered, Prepares, BacksUp, Passed, First, Backed
  <2>2. ASSUME NEW s \in Sessions, StartRecovering(s) PROVE BackupInv'
    <3>1. /\ mem' = journal /\ journal # None /\ pc' \in {"clear", "inspect"}
          /\ UNCHANGED <<disk, plan>> /\ used'.txns = used.txns
      BY <2>2 DEF StartRecovering, Recover, Opens, TypeOK
    <3>2. QED
      BY <3>1 DEF disk, BackupInv, Numbered, Prepares, BacksUp, Preparing, Backed
  <2>3. ASSUME NEW s \in Sessions, Accept(s) PROVE BackupInv'
    <3>1. /\ pc' = "backup" /\ todo' = plan'.targets /\ UNCHANGED disk
          /\ plan'.txn = used'.txns /\ used'.txns = used.txns + 1
          /\ mem' = Fresh(plan')
      BY <2>3 DEF Accept, TypeOK
    <3>2. Numbered'
      BY <2>a, <3>1 DEF disk, BackupInv, Numbered, Fresh
    <3>3. Prepares'
      BY <2>a, <3>1 DEF disk, BackupInv, Numbered, Prepares, Fresh
    <3>4. BacksUp'
      BY <3>1 DEF BacksUp, Passed
    <3>5. QED
      BY <3>1, <3>2, <3>3, <3>4 DEF disk, BackupInv, Journaled, Backed
  <2>4. CASE Backup
    <3>1. pc = "backup" /\ UNCHANGED <<plan, mem, journal>> /\ used'.txns = used.txns
          /\ pc' \in {"snapshot", "abandon"}
      BY <2>4 DEF Backup, Goto, Fault, TypeOK
    <3>2. copies \subseteq copies'
      BY <2>4 DEF Backup, BackUp
    <3>3. BacksUp'
      <4>1. CASE pc' = "abandon"
        BY <4>1 DEF BacksUp
      <4>2. CASE pc' = "snapshot"
        <5>1. PICK f \in todo :
                /\ First(f)
                /\ plan.pre[f] # Absent => <<f, plan.pre[f], "bak", plan.txn>> \in copies'
                /\ todo' = todo
          BY <2>4, <4>2 DEF Backup, BackUp, Goto
        <5>2. \A g \in todo : First(g) => g = f
          BY <5>1 DEF First, TypeOK, Files
        <5>3. \A g \in plan.targets : Passed(g)' => Passed(g) \/ g = f
          BY <5>1, <5>2 DEF Passed, First
        <5>4. QED
          BY <3>1, <3>2, <4>2, <5>1, <5>3 DEF BackupInv, BacksUp
      <4>3. QED
        BY <3>1, <4>1, <4>2
    <3>4. QED
      BY <3>1, <3>2, <3>3 DEF BackupInv, Numbered, Prepares, Preparing, Journaled, Backed
  <2>5. CASE Snapshot
    <3>1. pc = "snapshot" /\ UNCHANGED <<plan, journal, copies>> /\ Same(mem', mem)
          /\ used'.txns = used.txns /\ pc' \in {"backup", "barrier", "abandon"}
      BY <2>5 DEF Snapshot, NextSnapshot, Goto, Fault, TypeOK, Journals, disk, Same
    <3>2. BacksUp'
      <4>1. CASE pc' = "abandon"
        BY <4>1 DEF BacksUp
      <4>2. CASE pc' # "abandon"
        <5>1. PICK f \in todo : First(f) /\ todo' = todo \ {f}
                                /\ (pc' = "barrier" => todo' = {})
          BY <2>5, <4>2 DEF Snapshot, NextSnapshot, Goto
        <5>2. \A g \in plan.targets : Passed(g)' => Passed(g)
          BY <3>1, <4>2, <5>1 DEF Passed
        <5>3. QED
          BY <3>1, <4>2, <5>1, <5>2 DEF BackupInv, BacksUp
      <4>3. QED
        BY <4>1, <4>2
    <3>3. QED
      BY <3>1, <3>2 DEF BackupInv, Numbered, Prepares, Preparing, Journaled, Backed, Same
  <2>6. CASE Barrier
    <3>1. pc = "barrier" /\ UNCHANGED <<plan, mem, copies>> /\ used'.txns = used.txns
          /\ \/ pc' = "check" /\ journal' = mem
             \/ pc' = "abandon" /\ journal' \in {journal, None}
      BY <2>6 DEF Barrier, Goto, Fault, TypeOK
    <3>2. Backed(mem)
      BY <3>1 DEF BackupInv, BacksUp, Passed, Prepares, Preparing, Backed
    <3>3. CASE pc' = "check" /\ journal' = mem
      BY <3>1, <3>2, <3>3
         DEF BackupInv, Numbered, Prepares, BacksUp, Preparing, Backed
    <3>4. CASE pc' = "abandon" /\ journal' \in {journal, None}
      BY <3>1, <3>4
         DEF BackupInv, Numbered, Prepares, BacksUp, Preparing, Journaled, Backed
    <3>5. QED
      BY <3>1, <3>3, <3>4
  <2>7. CASE BarrierUnproven
    <3>1. pc = "barrier" /\ UNCHANGED <<plan, mem, copies>> /\ used'.txns = used.txns
          /\ pc' = "idle" /\ journal' \in {journal, mem}
      BY <2>7 DEF BarrierUnproven, JournalFails, Finish, Fault, TypeOK
    <3>2. Backed(mem)
      BY <3>1 DEF BackupInv, BacksUp, Passed, Prepares, Preparing, Backed
    <3>3. QED
      BY <3>1, <3>2
         DEF BackupInv, Numbered, Prepares, BacksUp, Preparing, Journaled, Backed
  <2>8. CASE Abandon
    <3>1. pc = "abandon" /\ UNCHANGED <<plan, mem, journal>> /\ used'.txns = used.txns
          /\ pc' = "idle"
      BY <2>8 DEF Abandon, Finish, Fault, TypeOK
    <3>2. copies \ Created \subseteq copies'
      BY <2>8 DEF Abandon
    <3>3. journal # None => Backed(journal)'
      <4>1. journal # None => journal.txn < plan.txn
        BY <3>1 DEF BackupInv, Prepares, Preparing
      <4>2. ASSUME journal # None, NEW f, NEW c, <<f, c, "bak", journal.txn>> \in copies
            PROVE  <<f, c, "bak", journal.txn>> \in copies'
        BY <2>a, <3>2, <4>1, <4>2 DEF Created
      <4>3. QED
        BY <3>1, <4>2 DEF BackupInv, Backed
    <3>4. QED
      BY <3>1, <3>3
         DEF BackupInv, Numbered, Prepares, BacksUp, Preparing, Journaled
  \* From the journal on, each step is one of OutsidePreparation.
  <2>b. ASSUME NEW done, Fail(done) PROVE pc' \in {"inspect", "drop"} /\ UNCHANGED plan
    BY <2>b DEF Fail, Goto
  <2>9. CASE Check
    <3>1. pc = "check" /\ pc' \in {"apply", "inspect", "drop"}
          /\ UNCHANGED <<plan, disk, mem, used>>
      BY <2>9, <2>b DEF Check, Goto
    <3>2. QED
      BY <3>1, OutsidePreparation DEF Preparing, Journaled, Same, disk
  <2>10. CASE Apply
    <3>1. pc = "apply" /\ pc' \in {"confirm", "inspect", "drop"} /\ UNCHANGED plan
      BY <2>10, <2>b DEF Apply, Goto
    <3>2. UNCHANGED <<journal, copies, mem>> /\ used'.txns = used.txns
      BY <2>10 DEF Apply, Fault, TypeOK
    <3>3. QED
      BY <3>1, <3>2, OutsidePreparation DEF Preparing, Journaled, Same
  <2>11. CASE Confirm
    <3>1. pc = "confirm" /\ pc' \in {"check", "commit", "inspect", "drop"}
          /\ UNCHANGED plan
      BY <2>11, <2>b DEF Confirm, NextCheck, Goto
    <3>2. UNCHANGED <<copies, mem>> /\ journal' \in {journal, mem}
          /\ used'.txns = used.txns
      BY <2>11 DEF Confirm, JournalFails, Fault, TypeOK
    <3>3. QED
      BY <3>1, <3>2, OutsidePreparation DEF Preparing, Journaled, Same
  <2>12. CASE Commit
    <3>1. pc = "commit" /\ pc' \in {"clear", "inspect", "drop"} /\ UNCHANGED plan
      BY <2>12, <2>b DEF Commit, Goto
    <3>2. UNCHANGED copies /\ Same(mem', mem) /\ journal' \in {journal, mem'}
          /\ used'.txns = used.txns
      BY <2>12 DEF Commit, JournalFails, Fault, TypeOK, Journals, Same
    <3>3. QED
      BY <3>1, <3>2, OutsidePreparation DEF Preparing, Journaled, Same
  <2>c. ASSUME NEW reply, Finish(reply) PROVE pc' = "idle" /\ UNCHANGED plan
    BY <2>c DEF Finish
  <2>d. Unproven \/ Proven => pc' = "idle" /\ UNCHANGED plan
    BY <2>c DEF Unproven, Proven
  <2>13. CASE Clear \/ Drop
    <3>1. pc' = "idle" /\ UNCHANGED <<plan, copies, mem>>
      BY <2>13, <2>c, <2>d DEF Clear, Drop
    <3>2. journal' \in {journal, None} /\ used'.txns = used.txns
      BY <2>13 DEF Clear, Drop, JournalFails, Fault, TypeOK
    <3>3. QED
      BY <3>1, <3>2, OutsidePreparation DEF Preparing, Journaled, Same
  <2>14. CASE Inspect
    <3>1. pc = "inspect" /\ pc' \in {"inspect", "settle", "restore"} /\ UNCHANGED plan
      BY <2>14 DEF Inspect, NextInspect, Goto
    <3>2. Same(mem', mem) /\ journal' \in {journal, mem, mem'}
      BY <2>14 DEF Inspect, TypeOK, Journals, Same
    <3>3. copies \subseteq copies' /\ UNCHANGED used
      BY <2>14 DEF Inspect, SetAside
    <3>4. QED
      BY <3>1, <3>2, <3>3, OutsidePreparation DEF Preparing, Journaled, Same
  <2>15. CASE InspectFails
    <3>1. pc = "inspect" /\ pc' = "idle" /\ UNCHANGED plan
      BY <2>15, <2>d DEF InspectFails
    <3>2. Same(mem', mem) /\ journal' \in {journal, mem, mem'}
      BY <2>15 DEF InspectFails, JournalFails, TypeOK, Journals, Same
    <3>3. copies \subseteq copies' /\ used'.txns = used.txns
      BY <2>15 DEF InspectFails, JournalFails, Fault, SetAside, TypeOK
    <3>4. QED
      BY <3>1, <3>2, <3>3, OutsidePreparation DEF Preparing, Journaled, Same
  <2>16. CASE Restore
    BY <2>16, OutsidePreparation DEF Restore, Goto, Preparing, Journaled, Same
  <2>17. CASE RestoreFails
    <3>1. pc' = "idle" /\ UNCHANGED <<plan, journal, copies, mem>>
      BY <2>17, <2>d DEF RestoreFails
    <3>2. used'.txns = used.txns
      BY <2>17 DEF RestoreFails, Fault, TypeOK
    <3>3. QED
      BY <3>1, <3>2, OutsidePreparation DEF Preparing, Journaled, Same
  <2>18. CASE Record
    <3>1. pc = "record" /\ pc' \in {"inspect", "settle", "idle"} /\ UNCHANGED plan
      BY <2>18, <2>d DEF Record, NextInspect, Goto
    <3>2. UNCHANGED <<copies, mem>> /\ journal' \in {journal, mem}
          /\ used'.txns = used.txns
      BY <2>18 DEF Record, JournalFails, Fault, TypeOK
    <3>3. QED
      BY <3>1, <3>2, OutsidePreparation DEF Preparing, Journaled, Same
  <2>19. CASE Settle
    <3>1. pc' = "idle" /\ UNCHANGED <<plan, copies, mem>>
      BY <2>19, <2>d DEF Settle
    <3>2. journal' \in {journal, None} /\ used'.txns = used.txns
      BY <2>19 DEF Settle, JournalFails, Fault, TypeOK
    <3>3. QED
      BY <3>1, <3>2, OutsidePreparation DEF Preparing, Journaled, Same
  <2>20. ASSUME NEW f \in Files, NEW c \in Values, Edit(f, c) PROVE BackupInv'
    <3>1. UNCHANGED <<journal, copies, pc, plan, mem, todo>> /\ used'.txns = used.txns
      BY <2>20 DEF Edit, TypeOK
    <3>2. QED
      BY <3>1 DEF BackupInv, Numbered, Prepares, BacksUp, Passed, First, Backed
  <2>21. CASE Crash
    <3>1. pc' = "idle" /\ UNCHANGED <<plan, mem, journal, copies>>
          /\ used'.txns = used.txns
      BY <2>21 DEF Crash, disk, TypeOK
    <3>2. QED
      BY <3>1, OutsidePreparation DEF Preparing, Journaled, Same
  <2>22. CASE UNCHANGED vars
    BY <2>22 DEF vars, BackupInv, Numbered, Prepares, BacksUp, Passed, First, Backed
  <2>23. QED
    BY <2>1, <2>2, <2>3, <2>4, <2>5, <2>6, <2>7, <2>8, <2>9, <2>10, <2>11, <2>12,
       <2>13, <2>14, <2>15, <2>16, <2>17, <2>18, <2>19, <2>20, <2>21, <2>22
       DEF Next, Operation
<1>3. QED
  BY <1>1, <1>2, TypeCorrect, PTL DEF Spec

\* No failure, crash or later write removes a backup that the journal on disk
\* names: a recovery always finds what it has to restore.
THEOREM BackupsExist == Spec => []NamedBackupsExist
<1>1. BackupInv => NamedBackupsExist
  BY DEF BackupInv, Backed, NamedBackupsExist
<1>2. QED
  BY <1>1, BackupHolds, PTL
-------------------------------------------------------------------------------
(* Replies.  A write replies only at its end, so what matters is what it may
   rely on about the files nobody else edited, at each step of its way. *)

Untouched == Files \ touched

\* The operation under way is a write, not the recovery of a new session.
Writing == owner # None /\ svc[owner] = "live"

Before(f) == file[f] = plan.pre[f]
After(f) == file[f] = plan.post[f]

Recovering == {"clear", "inspect", "restore", "record", "settle"}

\* While an operation runs its client has no answer yet; what a recovering
\* session does is no answer to anybody.
Unanswered ==
  /\ owner # None => outcome \notin {"ok", "failed"} /\ svc[owner] \in {"live", "down"}
  /\ cur = None => outcome \notin {"ok", "failed"}
  /\ owner # None /\ svc[owner] = "down" => pc \in Recovering

\* The journal in memory is about the plan, and agrees with it on every file
\* nobody else edited.
Agrees ==
  Writing =>
    /\ mem.targets = plan.targets /\ mem.post = plan.post
    /\ mem.backup = plan.pre /\ mem.txn = plan.txn
    /\ \A f \in Untouched : mem.pre[f] = plan.pre[f]
    /\ todo \subseteq plan.targets

\* What was not replaced is as before: a file outside the plan, and all of
\* them as long as no replacement was made, which the operation remembers.
Remembers ==
  Writing =>
    /\ \A f \in Untouched : f \notin plan.targets => Before(f)
    /\ ~ replaced => \A f \in Untouched : Before(f)
    /\ pc \in Preparing \union {"drop"} => ~ replaced
    /\ pc \in {"confirm", "inspect", "restore", "record", "settle"} => replaced

\* The targets the replacement loop has passed are as planned, and all of them
\* at the commit point and after it.
Advances ==
  Writing =>
    /\ pc \in {"check", "apply", "confirm", "commit"} =>
         \A f \in Untouched : f \in plan.targets /\ f \notin todo => After(f)
    /\ pc \in {"commit", "clear"} => todo = {}
    /\ pc = "clear" => \A f \in Untouched : f \in plan.targets => After(f)

ReplyInv == Unanswered /\ Agrees /\ Remembers /\ Advances /\ RepliesAreTrue

\* Between the check of a file and its effect the file is as checked, unless
\* it was edited just then, and there is a copy of it.
Copied(f, c) == \E d \in copies : d[1] = f /\ d[2] = c

Checked ==
  /\ pc \in {"check", "apply", "confirm", "commit"} => Writing
  /\ pc = "apply" => \A f \in todo : First(f) /\ f \notin raced => Before(f)
  /\ pc = "restore" =>
       \A f \in todo : Last(f) /\ f \notin raced =>
         /\ file[f] = mem.post[f]
         /\ file[f] # Absent => Copied(f, file[f])

\* What a journal says was copied aside has its copy.
KeptAside(j) ==
  \A f \in j.saved : <<f, j.post[f], "rollback", j.txn>> \in copies

EditInv == Checked /\ KeptAside(mem) /\ (journal # None => KeptAside(journal))

\* A step of an operation that does not end it leaves what clients were told.
LEMMA NothingSaid ==
  ASSUME ReplyInv, owner # None, UNCHANGED <<outcome, cur, owner, svc>>,
         pc \notin Recovering \/ pc' \in Recovering
  PROVE  Unanswered' /\ RepliesAreTrue' /\ Writing' = Writing
  BY DEF ReplyInv, Unanswered, RepliesAreTrue, Writing

\* The reply that ends an operation is as true as the files are.
LEMMA ReplyEnds ==
  ASSUME TypeOK, ReplyInv, owner # None, NEW reply, Finish(reply), UNCHANGED touched,
         reply = "failed" => \A f \in Untouched : Before(f)',
         reply = "ok" => \A f \in Untouched : f \in plan.targets => After(f)'
  PROVE  ReplyInv'
<1>1. owner' = None /\ UNCHANGED <<cur, plan, touched>>
  BY DEF Finish
<1>2. outcome' = outcome \/ (outcome' = reply /\ cur # None)
  BY DEF Finish
<1>3. outcome \notin {"ok", "failed"}
  BY DEF ReplyInv, Unanswered
<1>4. Unanswered'
  BY <1>1, <1>2, <1>3 DEF ReplyInv, Unanswered
<1>5. RepliesAreTrue'
  <2>1. outcome' = "failed" => \A f \in Files \ touched' : file'[f] = plan'.pre[f]
    BY <1>1, <1>2, <1>3 DEF Untouched, Before
  <2>2. outcome' = "ok" => \A f \in plan'.targets \ touched' : file'[f] = plan'.post[f]
    <3>1. plan.targets \subseteq Files
      BY DEF TypeOK, Plans
    <3>2. QED
      BY <1>1, <1>2, <1>3, <3>1 DEF Untouched, After
  <2>3. QED
    BY <2>1, <2>2 DEF RepliesAreTrue
<1>6. Agrees' /\ Remembers' /\ Advances'
  BY <1>1 DEF Agrees, Remembers, Advances, Writing
<1>7. QED
  BY <1>4, <1>5, <1>6 DEF ReplyInv

\* An ending that leaves the rollback unproven promises nothing.
LEMMA UnprovenEnds ==
  ASSUME TypeOK, ReplyInv, owner # None, Unproven, UNCHANGED touched
  PROVE  ReplyInv'
<1>1. outcome \notin {"ok", "failed"}
  BY DEF ReplyInv, Unanswered
<1>2. Finish(outcome) \/ Finish("unproven")
  BY DEF Unproven
<1>3. QED
  BY <1>1, <1>2, ReplyEnds

\* A running operation is a write, except in the steps of a recovery.
LEMMA WhoRuns ==
  ASSUME ReplyInv, TypeOK, pc # "idle"
  PROVE  owner # None /\ owner \in Sessions /\ (Writing \/ pc \in Recovering)
         /\ (Writing \/ svc[owner] = "down")
  BY DEF ReplyInv, Unanswered, Writing, TypeOK

\* Each step keeps what a write relies on.
LEMMA ReplyStep ==
  ASSUME TypeOK, TypeOK', ReplyInv, [Next]_vars
  PROVE  ReplyInv'
<1>. USE ConstantsAssumption DEF ConstantsAssumption
<1>a. plan.targets \subseteq Files /\ mem \in Journals /\ plan \in Plans
      /\ file \in [Files -> Values]
  BY DEF TypeOK, Plans
<1>1. ASSUME NEW s \in Sessions,
             Start(s) \/ StartDisabled(s) \/ StartIsolated(s)
      PROVE  ReplyInv'
  <2>1. UNCHANGED <<disk, owner, pc, plan, mem, todo, replaced, touched>>
        /\ cur' = s /\ svc[s] = "down" /\ owner # s
        /\ (owner = None \/ svc' = [svc EXCEPT ![s] = "isolated"])
    BY <1>1 DEF Start, StartDisabled, StartIsolated, Opens
  <2>2. outcome' \in {outcome, "lost"} /\ (cur = None \/ outcome' = "lost")
    BY <1>1 DEF Start, StartDisabled, StartIsolated, Opens
  <2>3. outcome' \notin {"ok", "failed"}
    BY <2>2 DEF ReplyInv, Unanswered
  <2>4. owner # None => svc'[owner] = svc[owner] /\ owner \in Sessions
    BY <2>1 DEF TypeOK
  <2>5. Unanswered' /\ RepliesAreTrue'
    BY <2>1, <2>3, <2>4 DEF ReplyInv, Unanswered, RepliesAreTrue
  <2>6. Writing' = Writing
    BY <2>1, <2>4 DEF Writing
  <2>7. Agrees' /\ Remembers' /\ Advances'
    BY <2>1, <2>6 DEF ReplyInv, Agrees, Remembers, Advances, Untouched, Before, After, disk
  <2>8. QED
    BY <2>5, <2>7 DEF ReplyInv
<1>2. ASSUME NEW s \in Sessions, StartRecovering(s) PROVE ReplyInv'
  <2>1. owner' = s /\ cur' = s /\ svc[s] = "down" /\ UNCHANGED svc
        /\ pc' \in {"clear", "inspect"}
    BY <1>2 DEF StartRecovering, Opens, Recover
  <2>2. outcome' \in {outcome, "lost"} /\ (cur = None \/ outcome' = "lost")
    BY <1>2 DEF StartRecovering, Opens
  <2>3. outcome' \notin {"ok", "failed"}
    BY <2>2 DEF ReplyInv, Unanswered
  <2>4. Unanswered' /\ RepliesAreTrue'
    BY <2>1, <2>3 DEF Unanswered, RepliesAreTrue, Recovering
  <2>5. ~ Writing'
    BY <2>1 DEF Writing
  <2>6. QED
    BY <2>4, <2>5 DEF ReplyInv, Agrees, Remembers, Advances
<1>3. ASSUME NEW s \in Sessions, Accept(s) PROVE ReplyInv'
  <2>1. /\ owner' = s /\ cur = s /\ svc[s] = "live" /\ UNCHANGED <<disk, svc, cur>>
        /\ pc' = "backup" /\ todo' = plan'.targets /\ replaced' = FALSE
        /\ outcome' = "none" /\ mem' = Fresh(plan')
    BY <1>3 DEF Accept
  <2>2. plan'.pre = file
    BY <1>3 DEF Accept
  <2>3. Unanswered' /\ RepliesAreTrue'
    BY <2>1 DEF Unanswered, RepliesAreTrue
  <2>4. Agrees'
    BY <2>1 DEF Agrees, Fresh
  <2>5. Remembers'
    BY <2>1, <2>2 DEF Remembers, Before, disk
  <2>6. Advances'
    BY <2>1 DEF Advances
  <2>7. QED
    BY <2>3, <2>4, <2>5, <2>6 DEF ReplyInv
<1>4. ASSUME NEW s \in Sessions, Refuse(s) \/ WriteIsolated(s) PROVE ReplyInv'
  <2>1. /\ UNCHANGED <<disk, svc, cur, owner, pc, plan, mem, todo, replaced, touched>>
        /\ outcome' \in {"unproven", "phantom"}
    BY <1>4 DEF Refuse, WriteIsolated
  <2>2. Unanswered' /\ RepliesAreTrue'
    BY <2>1 DEF ReplyInv, Unanswered, RepliesAreTrue
  <2>3. Agrees' /\ Remembers' /\ Advances'
    BY <2>1 DEF ReplyInv, Agrees, Remembers, Advances, Untouched, Before, After, disk,
                Writing
  <2>4. QED
    BY <2>2, <2>3 DEF ReplyInv
<1>5. CASE Backup
  <2>1. /\ UNCHANGED <<file, mem, replaced, svc, cur, owner, plan, outcome, touched>>
        /\ pc = "backup" /\ pc' \in {"snapshot", "abandon"} /\ todo' \subseteq todo
    BY <1>5 DEF Backup, Goto
  <2>2. Unanswered' /\ RepliesAreTrue' /\ Writing' = Writing
    BY <2>1, WhoRuns, NothingSaid DEF Recovering
  <2>3. Agrees' /\ Remembers' /\ Advances'
    BY <2>1, <2>2 DEF ReplyInv, Agrees, Remembers, Advances, Untouched, Before, Preparing
  <2>4. QED
    BY <2>2, <2>3 DEF ReplyInv
<1>6. CASE Snapshot
  <2>1. /\ UNCHANGED <<file, replaced, svc, cur, owner, plan, outcome, touched>>
        /\ pc = "snapshot" /\ pc' \in {"backup", "barrier", "abandon"}
        /\ todo' \subseteq todo
    BY <1>6 DEF Snapshot, NextSnapshot, Goto, disk
  <2>2. Unanswered' /\ RepliesAreTrue' /\ Writing' = Writing /\ Writing
    BY <2>1, WhoRuns, NothingSaid DEF Recovering
  <2>3. \A f \in Untouched : Before(f)
    BY <2>1, <2>2 DEF ReplyInv, Remembers, Preparing
  <2>4. Agrees'
    <3>1. mem' = mem \/ \E f \in todo : mem' = [mem EXCEPT !.pre[f] = file[f]]
      BY <1>6 DEF Snapshot
    <3>2. mem'.targets = mem.targets /\ mem'.post = mem.post
          /\ mem'.backup = mem.backup /\ mem'.txn = mem.txn
      BY <3>1, <1>a DEF Journals
    <3>3. \A f \in Untouched : mem'.pre[f] = plan.pre[f]
      <4>1. \A f \in Untouched : mem.pre[f] = plan.pre[f]
        BY <2>2 DEF ReplyInv, Agrees
      <4>2. \A f \in Untouched : mem'.pre[f] \in {mem.pre[f], file[f]}
        BY <3>1, <1>a DEF Journals, Untouched
      <4>3. QED
        BY <2>3, <4>1, <4>2 DEF Before
    <3>4. QED
      BY <2>1, <2>2, <3>2, <3>3 DEF ReplyInv, Agrees, Untouched
  <2>5. Remembers' /\ Advances'
    BY <2>1, <2>2 DEF ReplyInv, Remembers, Advances, Untouched, Before, Preparing
  <2>6. QED
    BY <2>2, <2>4, <2>5 DEF ReplyInv
<1>7. CASE Barrier
  <2>1. /\ UNCHANGED <<file, mem, replaced, svc, cur, owner, plan, outcome, touched>>
        /\ pc = "barrier" /\ pc' \in {"check", "abandon"}
        /\ todo' \in {{}, plan.targets} /\ (pc' = "check" => todo' = plan.targets)
    BY <1>7 DEF Barrier, Goto
  <2>2. Unanswered' /\ RepliesAreTrue' /\ Writing' = Writing
    BY <2>1, WhoRuns, NothingSaid DEF Recovering
  <2>3. Agrees' /\ Remembers' /\ Advances'
    BY <2>1, <2>2 DEF ReplyInv, Agrees, Remembers, Advances, Untouched, Before, Preparing
  <2>4. QED
    BY <2>2, <2>3 DEF ReplyInv
<1>8. CASE BarrierUnproven
  BY <1>8, WhoRuns, ReplyEnds DEF BarrierUnproven, Finish
<1>9. CASE Abandon
  <2>1. pc = "abandon" /\ UNCHANGED <<file, plan, touched>>
        /\ (Finish("failed") \/ Finish("unproven"))
    BY <1>9 DEF Abandon, Finish
  <2>2. \A f \in Untouched : Before(f)'
    <3>1. Writing
      BY <2>1, WhoRuns DEF Recovering
    <3>2. QED
      BY <2>1, <3>1 DEF ReplyInv, Remembers, Preparing, Before
  <2>3. QED
    BY <2>1, <2>2, WhoRuns, ReplyEnds
<1>10. CASE Check
  <2>1. /\ pc = "check" /\ UNCHANGED <<file, mem, replaced, svc, cur, owner, plan, outcome, touched>>
        /\ \/ pc' = "apply" /\ todo' = todo
           \/ pc' = "drop" /\ todo' = {} /\ ~ replaced
           \/ pc' = "inspect" /\ todo' = mem.targets /\ replaced
    BY <1>10 DEF Check, Fail, Goto, disk
  <2>2. Unanswered' /\ RepliesAreTrue' /\ Writing' = Writing /\ Writing
    BY <2>1, WhoRuns, NothingSaid DEF Recovering
  <2>3. Agrees' /\ Remembers' /\ Advances'
    BY <2>1, <2>2 DEF ReplyInv, Agrees, Remembers, Advances, Untouched, Before, After, Preparing
  <2>4. QED
    BY <2>2, <2>3 DEF ReplyInv
<1>11. CASE Apply
  <2>1. PICK f \in todo :
          /\ \/ UNCHANGED <<file, replaced>> /\ Fail(replaced)
             \/ /\ file' = [file EXCEPT ![f] = plan.post[f]] /\ replaced' = TRUE
                /\ Goto("confirm", todo) \/ Fail(TRUE)
    BY <1>11 DEF Apply
  <2>2. pc = "apply" /\ UNCHANGED <<mem, svc, cur, owner, plan, outcome, touched>>
    BY <1>11 DEF Apply, Fail, Goto
  <2>3. \/ pc' = "confirm" /\ todo' = todo /\ replaced'
        \/ pc' = "drop" /\ todo' = {} /\ ~ replaced /\ UNCHANGED <<file, replaced>>
        \/ pc' = "inspect" /\ todo' = mem.targets /\ replaced'
    BY <2>1 DEF Fail, Goto
  <2>4. Unanswered' /\ RepliesAreTrue' /\ Writing' = Writing /\ Writing
    <3>1. owner # None /\ Writing
      BY <2>2, WhoRuns DEF Recovering
    <3>2. Unanswered' /\ Writing' = Writing
      BY <2>2, <2>3, <3>1 DEF ReplyInv, Unanswered, Writing, Recovering
    <3>3. RepliesAreTrue'
      BY <2>2, <3>1 DEF ReplyInv, Unanswered, RepliesAreTrue
    <3>4. QED
      BY <3>1, <3>2, <3>3
  <2>5. f \in plan.targets /\ \A g \in Files : g # f => file'[g] = file[g]
    BY <2>1, <2>4, <1>a DEF ReplyInv, Agrees
  <2>6. Agrees'
    BY <2>2, <2>3, <2>4 DEF ReplyInv, Agrees, Untouched
  <2>7. Remembers'
    <3>1. \A g \in Untouched' : g \notin plan'.targets => Before(g)'
      BY <2>2, <2>4, <2>5 DEF ReplyInv, Remembers, Untouched, Before
    <3>2. ~ replaced' => UNCHANGED <<file, replaced>>
      BY <2>1
    <3>3. ~ replaced' => \A g \in Untouched' : Before(g)'
      BY <2>2, <2>4, <3>2 DEF ReplyInv, Remembers, Untouched, Before
    <3>4. QED
      BY <2>3, <3>1, <3>3 DEF Remembers, Preparing
  <2>8. Advances'
    <3>1. \A g \in Untouched : g \in plan.targets /\ g \notin todo => After(g)
      BY <2>2, <2>4 DEF ReplyInv, Advances
    <3>2. \A g \in Untouched : g \in plan.targets /\ g \notin todo => After(g)'
      BY <2>1, <2>2, <2>5, <3>1 DEF After, Untouched
    <3>3. QED
      BY <2>2, <2>3, <3>2 DEF Advances, Untouched
  <2>9. QED
    BY <2>4, <2>6, <2>7, <2>8 DEF ReplyInv
<1>12. CASE Confirm
  <2>1. PICK f \in todo :
          \/ file[f] = plan.post[f] /\ NextCheck(todo \ {f})
          \/ Fail(TRUE)
    BY <1>12 DEF Confirm
  <2>2. /\ pc = "confirm"
        /\ UNCHANGED <<file, mem, replaced, svc, cur, owner, plan, outcome, touched>>
    BY <1>12 DEF Confirm, NextCheck, Fail, Goto
  <2>3. \/ /\ file[f] = plan.post[f] /\ todo' = todo \ {f}
           /\ pc' = "check" \/ (pc' = "commit" /\ todo' = {})
        \/ pc' = "inspect" /\ todo' = mem.targets
    BY <2>1 DEF NextCheck, Fail, Goto
  <2>4. Unanswered' /\ RepliesAreTrue' /\ Writing' = Writing /\ Writing
    BY <2>2, WhoRuns, NothingSaid DEF Recovering
  <2>5. Agrees' /\ Remembers'
    BY <2>2, <2>3, <2>4 DEF ReplyInv, Agrees, Remembers, Untouched, Before, Preparing
  <2>6. Advances'
    <3>1. \A g \in Untouched : g \in plan.targets /\ g \notin todo => After(g)
      BY <2>2, <2>4 DEF ReplyInv, Advances
    <3>2. QED
      BY <2>2, <2>3, <3>1 DEF Advances, Untouched, After
  <2>7. QED
    BY <2>4, <2>5, <2>6 DEF ReplyInv
<1>13. CASE Commit
  <2>1. /\ pc = "commit"
        /\ UNCHANGED <<file, replaced, svc, cur, owner, plan, outcome, touched>>
        /\ \/ pc' = "clear" /\ todo' = {}
           \/ pc' = "drop" /\ todo' = {} /\ ~ replaced
           \/ pc' = "inspect" /\ todo' = mem.targets /\ replaced
    BY <1>13 DEF Commit, Fail, Goto
  <2>2. Unanswered' /\ RepliesAreTrue' /\ Writing' = Writing /\ Writing
    BY <2>1, WhoRuns, NothingSaid DEF Recovering
  <2>3. mem'.targets = mem.targets /\ mem'.post = mem.post /\ mem'.pre = mem.pre
        /\ mem'.backup = mem.backup /\ mem'.txn = mem.txn
    BY <1>13, <1>a DEF Commit, Journals
  <2>4. Agrees'
    BY <2>1, <2>2, <2>3 DEF ReplyInv, Agrees, Untouched
  <2>5. Remembers' /\ Advances'
    BY <2>1, <2>2 DEF ReplyInv, Remembers, Advances, Untouched, Before, After, Preparing
  <2>6. QED
    BY <2>2, <2>4, <2>5 DEF ReplyInv
<1>14. CASE Clear
  <2>1. pc = "clear" /\ UNCHANGED <<file, mem>>
    BY <1>14 DEF Clear
  <2>2. owner # None /\ (Writing \/ svc[owner] = "down")
    BY <2>1, WhoRuns
  <2>3. CASE svc[owner] = "down"
    <3>1. Proven \/ Unproven
      BY <1>14, <2>3 DEF Clear
    <3>2. Finish(outcome)
      BY <2>3, <3>1 DEF Proven, Unproven
    <3>3. outcome \notin {"ok", "failed"}
      BY <2>2 DEF ReplyInv, Unanswered
    <3>4. QED
      BY <2>2, <3>2, <3>3, ReplyEnds DEF Finish
  <2>4. CASE svc[owner] # "down"
    <3>1. Finish("ok")
      BY <1>14, <2>4 DEF Clear
    <3>2. UNCHANGED <<file, plan, touched>>
      BY <2>1, <3>1 DEF Finish
    <3>3. \A f \in Untouched : f \in plan.targets => After(f)'
      BY <2>1, <2>2, <2>4, <3>2 DEF ReplyInv, Advances, After
    <3>4. QED
      BY <2>2, <3>1, <3>2, <3>3, ReplyEnds
  <2>5. QED
    BY <2>3, <2>4
<1>15. CASE Drop
  <2>1. pc = "drop" /\ UNCHANGED <<file, plan, touched>>
        /\ (Finish("failed") \/ Finish("unproven"))
    BY <1>15 DEF Drop, Finish
  <2>2. \A f \in Untouched : Before(f)'
    <3>1. Writing
      BY <2>1, WhoRuns DEF Recovering
    <3>2. QED
      BY <2>1, <3>1 DEF ReplyInv, Remembers, Before
  <2>3. QED
    BY <2>1, <2>2, WhoRuns, ReplyEnds
<1>16. CASE Inspect
  <2>1. pc = "inspect" /\ pc' \in {"inspect", "settle", "restore"} /\ todo' \subseteq todo
        /\ UNCHANGED <<file, replaced, svc, cur, owner, plan, outcome, touched>>
    BY <1>16 DEF Inspect, NextInspect, Goto
  <2>2. Unanswered' /\ RepliesAreTrue' /\ Writing' = Writing
    BY <2>1, WhoRuns, NothingSaid DEF Recovering
  <2>3. mem'.targets = mem.targets /\ mem'.post = mem.post /\ mem'.pre = mem.pre
        /\ mem'.backup = mem.backup /\ mem'.txn = mem.txn
    BY <1>16, <1>a DEF Inspect, Journals
  <2>4. Agrees'
    BY <2>1, <2>2, <2>3 DEF ReplyInv, Agrees, Untouched
  <2>5. Remembers' /\ Advances'
    BY <2>1, <2>2 DEF ReplyInv, Remembers, Advances, Untouched, Before, Preparing
  <2>6. QED
    BY <2>2, <2>4, <2>5 DEF ReplyInv
<1>17. CASE InspectFails
  BY <1>17, WhoRuns, UnprovenEnds DEF InspectFails, Unproven, Finish
<1>18. CASE Restore
  <2>1. PICK f \in todo : file' = Restored(f) /\ Goto("record", todo)
    BY <1>18 DEF Restore
  <2>2. /\ pc = "restore" /\ pc' = "record" /\ todo' = todo
        /\ UNCHANGED <<mem, replaced, svc, cur, owner, plan, outcome, touched>>
    BY <1>18 DEF Restore, Goto
  <2>3. Unanswered' /\ RepliesAreTrue' /\ Writing' = Writing
    BY <2>2, WhoRuns, NothingSaid DEF Recovering
  <2>4. Agrees' /\ Advances'
    BY <2>2, <2>3 DEF ReplyInv, Agrees, Advances, Untouched
  <2>5. Remembers'
    <3>1. CASE Writing
      <4>1. f \in plan.targets /\ replaced
        BY <2>2, <3>1 DEF ReplyInv, Agrees, Remembers
      <4>2. \A g \in Files : g # f => file'[g] = file[g]
        BY <2>1, <1>a DEF Restored
      <4>3. QED
        BY <2>2, <3>1, <4>1, <4>2 DEF ReplyInv, Remembers, Untouched, Before, Preparing
    <3>2. CASE ~ Writing
      BY <2>3, <3>2 DEF Remembers
    <3>3. QED
      BY <3>1, <3>2
  <2>6. QED
    BY <2>3, <2>4, <2>5 DEF ReplyInv
<1>19. CASE RestoreFails
  BY <1>19, WhoRuns, UnprovenEnds DEF RestoreFails, Unproven, Finish
<1>20. CASE Record
  <2>1. CASE Unproven
    BY <1>20, <2>1, WhoRuns, UnprovenEnds DEF Record, Unproven, Finish
  <2>2. CASE ~ Unproven
    <3>1. /\ pc = "record" /\ pc' \in {"inspect", "settle"} /\ todo' \subseteq todo
          /\ UNCHANGED <<file, mem, replaced, svc, cur, owner, plan, outcome, touched>>
      BY <1>20, <2>2 DEF Record, NextInspect, Goto
    <3>2. Unanswered' /\ RepliesAreTrue' /\ Writing' = Writing
      BY <3>1, WhoRuns, NothingSaid DEF Recovering
    <3>3. Agrees' /\ Remembers' /\ Advances'
      BY <3>1, <3>2 DEF ReplyInv, Agrees, Remembers, Advances, Untouched, Before, Preparing
    <3>4. QED
      BY <3>2, <3>3 DEF ReplyInv
  <2>3. QED
    BY <2>1, <2>2
<1>21. CASE Settle
  <2>1. pc = "settle" /\ UNCHANGED <<file, mem>>
    BY <1>21 DEF Settle
  <2>2. owner # None /\ (Writing \/ svc[owner] = "down")
    BY <2>1, WhoRuns
  <2>3. CASE Unproven
    BY <2>2, <2>3, UnprovenEnds DEF Unproven, Finish
  <2>4. CASE ~ Unproven
    <3>1. Proven /\ \A f \in mem.targets : file[f] = mem.pre[f]
      BY <1>21, <2>4 DEF Settle
    <3>2. CASE svc[owner] = "down"
      <4>1. outcome \notin {"ok", "failed"} /\ Finish(outcome)
        BY <2>2, <3>1, <3>2 DEF Proven, ReplyInv, Unanswered
      <4>2. QED
        BY <2>2, <4>1, ReplyEnds DEF Finish
    <3>3. CASE svc[owner] # "down"
      <4>1. Finish("failed") /\ Writing
        BY <2>2, <3>1, <3>3 DEF Proven
      <4>2. UNCHANGED <<file, plan, touched>>
        BY <2>1, <4>1 DEF Finish
      <4>3. \A f \in Untouched : Before(f)
        BY <3>1, <4>1 DEF ReplyInv, Agrees, Remembers, Before
      <4>4. \A f \in Untouched : Before(f)'
        BY <4>2, <4>3 DEF Before
      <4>5. QED
        BY <2>2, <4>1, <4>2, <4>4, ReplyEnds
    <3>4. QED
      BY <3>2, <3>3
  <2>5. QED
    BY <2>3, <2>4
<1>22. ASSUME NEW f \in Files, NEW c \in Values, Edit(f, c) PROVE ReplyInv'
  <2>1. UNCHANGED <<mem, svc, cur, owner, pc, plan, todo, replaced, outcome>>
        /\ touched' = touched \union {f} /\ \A g \in Files : g # f => file'[g] = file[g]
    BY <1>22, <1>a DEF Edit
  <2>2. Untouched' = Untouched \ {f} /\ \A g \in Untouched' : file'[g] = file[g]
    BY <2>1 DEF Untouched
  <2>3. Unanswered' /\ Writing' = Writing
    BY <2>1 DEF ReplyInv, Unanswered, Writing
  <2>4. RepliesAreTrue'
    BY <2>1, <2>2, <1>a DEF ReplyInv, RepliesAreTrue, Untouched
  <2>5. Agrees'
    BY <2>1, <2>2, <2>3 DEF ReplyInv, Agrees
  <2>6. Remembers'
    BY <2>1, <2>2, <2>3 DEF ReplyInv, Remembers, Before
  <2>7. Advances'
    BY <2>1, <2>2, <2>3 DEF ReplyInv, Advances, After
  <2>8. QED
    BY <2>3, <2>4, <2>5, <2>6, <2>7 DEF ReplyInv
<1>23. CASE Crash
  BY <1>23 DEF Crash, ReplyInv, Unanswered, Agrees, Remembers, Advances, Writing,
               RepliesAreTrue
<1>24. CASE UNCHANGED vars
  BY <1>24 DEF vars, ReplyInv, Unanswered, Agrees, Remembers, Advances, Writing,
               RepliesAreTrue, Untouched, Before, After
<1>25. QED
  BY <1>1, <1>2, <1>3, <1>4, <1>5, <1>6, <1>7, <1>8, <1>9, <1>10, <1>11, <1>12, <1>13,
     <1>14, <1>15, <1>16, <1>17, <1>18, <1>19, <1>20, <1>21, <1>22, <1>23, <1>24
     DEF Next, Operation

\* A reply is true of every file nobody else edited, whatever failed, crashed
\* or was edited on the way.
THEOREM RepliesCorrect == Spec => []RepliesAreTrue
<1>1. Init => ReplyInv
  BY DEF Init, ReplyInv, Unanswered, Agrees, Remembers, Advances, Writing, RepliesAreTrue
<1>2. TypeOK /\ TypeOK' /\ ReplyInv /\ [Next]_vars => ReplyInv'
  BY ReplyStep
<1>3. ReplyInv => RepliesAreTrue
  BY DEF ReplyInv
<1>4. QED
  BY <1>1, <1>2, <1>3, TypeCorrect, PTL DEF Spec

-------------------------------------------------------------------------------
(* Foreign edits.  Only Apply, Restore and RestoreFails change a file, each one
   that was checked, or compared and copied aside, one step before. *)

\* Every target has its copy while the operation may replace it.
LEMMA CopiesKept ==
  ASSUME TypeOK, ReplyInv, BackupInv, pc = "apply",
         NEW f \in plan.targets, Before(f), file[f] # Absent
  PROVE  Copied(f, file[f])
<1>1. Writing
  BY WhoRuns DEF Recovering
<1>2. Backed(mem)
  BY DEF BackupInv, Journaled
<1>3. mem.targets = plan.targets /\ mem.backup = plan.pre
  BY <1>1 DEF ReplyInv, Agrees
<1>4. <<f, file[f], "bak", mem.txn>> \in copies
  BY <1>2, <1>3 DEF Backed, Before
<1>5. QED
  BY <1>4 DEF Copied

\* No step takes a copy of a rollback away.
LEMMA AsideStays ==
  ASSUME TypeOK, [Next]_vars, NEW f, NEW c, NEW t, <<f, c, "rollback", t>> \in copies
  PROVE  <<f, c, "rollback", t>> \in copies'
<1>1. \A gone \in SUBSET Created : <<f, c, "rollback", t>> \in copies \ gone
  BY DEF Created
<1>2. ASSUME NEW s \in Sessions,
             \/ Start(s) \/ StartDisabled(s) \/ StartRecovering(s) \/ StartIsolated(s)
             \/ Accept(s) \/ Refuse(s) \/ WriteIsolated(s)
      PROVE  copies' = copies
  BY <1>2 DEF Start, StartDisabled, StartRecovering, StartIsolated, Accept, Refuse,
              WriteIsolated, disk
<1>3. CASE Operation
  BY <1>1, <1>3 DEF Operation, Backup, BackUp, Snapshot, Barrier, BarrierUnproven, Abandon,
                    Check, Apply, Confirm, Commit, Clear, Drop, Inspect, InspectFails,
                    SetAside, Restore, RestoreFails, Record, Settle, disk
<1>4. QED
  BY <1>2, <1>3 DEF Next, Edit, Crash, vars, disk

\* A journal that names no more copies than one known to be right is right.
LEMMA AsideKept ==
  ASSUME TypeOK, [Next]_vars, NEW j, NEW k, KeptAside(j),
         k.saved \subseteq j.saved, k.post = j.post, k.txn = j.txn
  PROVE  KeptAside(k)'
  BY AsideStays DEF KeptAside

\* What is in memory and on disk names the copies it was written with.
LEMMA AsideStep ==
  ASSUME TypeOK, EditInv, [Next]_vars
  PROVE  KeptAside(mem)' /\ (journal' # None => KeptAside(journal)')
<1>1. KeptAside(mem)'
  <2>1. CASE UNCHANGED mem
    BY <2>1, AsideKept DEF EditInv
  <2>2. ASSUME NEW s \in Sessions, StartRecovering(s) PROVE KeptAside(mem)'
    <3>1. mem' = journal /\ journal # None
      BY <2>2 DEF StartRecovering
    <3>2. QED
      BY <3>1, AsideKept DEF EditInv
  <2>3. ASSUME NEW s \in Sessions, Accept(s) PROVE KeptAside(mem)'
    <3>1. mem'.saved = {}
      BY <2>3 DEF Accept, Fresh
    <3>2. QED
      BY <3>1 DEF KeptAside
  <2>4. CASE Snapshot \/ Commit
    <3>1. mem'.saved = mem.saved /\ mem'.post = mem.post /\ mem'.txn = mem.txn
      BY <2>4 DEF Snapshot, Commit, TypeOK, Journals
    <3>2. QED
      BY <3>1, AsideKept DEF EditInv
  <2>5. ASSUME Inspect \/ InspectFails, mem' # mem PROVE KeptAside(mem)'
    <3>1. PICK f \in todo : /\ file[f] = mem.post[f] /\ SetAside(f)
                            /\ mem' = [mem EXCEPT !.saved = @ \union {f}]
      BY <2>5 DEF Inspect, InspectFails
    <3>2. mem'.saved = mem.saved \union {f} /\ mem'.post = mem.post /\ mem'.txn = mem.txn
      BY <3>1 DEF TypeOK, Journals
    <3>3. <<f, mem.post[f], "rollback", mem.txn>> \in copies'
      BY <3>1 DEF SetAside
    <3>4. \A g \in mem.saved : <<g, mem.post[g], "rollback", mem.txn>> \in copies'
      BY AsideStays DEF EditInv, KeptAside
    <3>5. QED
      BY <3>2, <3>3, <3>4 DEF KeptAside
  <2>6. QED
    BY <2>1, <2>2, <2>3, <2>4, <2>5
       DEF Next, Operation, Start, StartDisabled, StartIsolated, Refuse, WriteIsolated,
           Backup, Barrier, BarrierUnproven, Abandon, Check, Apply, Confirm, Clear, Drop,
           Restore, RestoreFails, Record, Settle, Edit, Crash, vars
<1>2. journal' \in {journal, mem, mem', None}
  <2>1. ASSUME NEW s \in Sessions,
               \/ Start(s) \/ StartDisabled(s) \/ StartRecovering(s) \/ StartIsolated(s)
               \/ Accept(s) \/ Refuse(s) \/ WriteIsolated(s)
        PROVE  journal' = journal
    BY <2>1 DEF Start, StartDisabled, StartRecovering, StartIsolated, Accept, Refuse,
                WriteIsolated, disk
  <2>2. CASE Operation
    BY <2>2 DEF Operation, Backup, Snapshot, Barrier, BarrierUnproven, Abandon,
                Check, Apply, Confirm, Commit, Clear, Drop, Inspect, InspectFails,
                Restore, RestoreFails, Record, Settle, JournalFails, disk
  <2>3. QED
    BY <2>1, <2>2 DEF Next, Edit, Crash, vars, disk
<1>3. journal' # None => KeptAside(journal)'
  <2>1. CASE journal' = mem'
    BY <1>1, <2>1 DEF KeptAside
  <2>2. CASE journal' = mem
    BY <2>2, AsideKept DEF EditInv
  <2>3. CASE journal' = journal /\ journal # None
    BY <2>3, AsideKept DEF EditInv
  <2>4. QED
    BY <1>2, <2>1, <2>2, <2>3
<1>4. QED
  BY <1>1, <1>3

\* Between a check and its effect nothing but an edit moves the file.
LEMMA EditStep ==
  ASSUME TypeOK, TypeOK', ReplyInv, EditInv, [Next]_vars
  PROVE  EditInv'
<1>. USE ConstantsAssumption DEF ConstantsAssumption
<1>1. CASE Check
  <2>1. PICK f \in todo : /\ First(f)
                          /\ IF AsPlanned(f) /\ GuardsHold
                             THEN Goto("apply", todo) ELSE Fail(replaced)
    BY <1>1 DEF Check
  <2>2. pc = "check" /\ UNCHANGED <<file, plan, raced, svc, owner>>
        /\ pc' \in {"apply", "drop", "inspect"}
    BY <1>1 DEF Check, Fail, Goto, disk
  <2>3. pc' = "apply" => AsPlanned(f) /\ todo' = todo
    BY <2>1 DEF Fail, Goto
  <2>4. \A g \in todo : First(g) => g = f
    BY <2>1 DEF First, TypeOK, Files
  <2>5. pc' = "apply" => \A g \in todo' : First(g)' => Before(g)'
    BY <2>2, <2>3, <2>4 DEF First, Before, AsPlanned
  <2>6. Writing'
    BY <2>2, WhoRuns DEF Recovering, Writing
  <2>7. QED
    BY <2>2, <2>5, <2>6, AsideStep DEF EditInv, Checked
<1>2. CASE Inspect
  <2>1. PICK f \in todo :
          /\ Last(f)
          /\ pc' = "restore" =>
               /\ todo' = todo
               /\ file[f] = mem.post[f]
               /\ \/ file[f] = Absent
                  \/ f \in mem.saved /\ UNCHANGED <<copies, mem>>
                  \/ SetAside(f) /\ mem' = [mem EXCEPT !.saved = @ \union {f}]
    BY <1>2 DEF Inspect, NextInspect, Goto
  <2>2. pc = "inspect" /\ UNCHANGED <<file, raced>> /\ pc' \in {"inspect", "settle", "restore"}
    BY <1>2 DEF Inspect, NextInspect, Goto
  <2>3. mem'.post = mem.post
    BY <1>2 DEF Inspect, TypeOK, Journals
  <2>4. pc' = "restore" /\ file[f] # Absent => Copied(f, file[f])'
    <3>1. f \in mem.saved => <<f, mem.post[f], "rollback", mem.txn>> \in copies
      BY DEF EditInv, KeptAside
    <3>2. pc' = "restore" /\ file[f] # Absent
            => \E t : <<f, file[f], "rollback", t>> \in copies'
      BY <2>1, <3>1 DEF SetAside
    <3>3. QED
      BY <2>2, <3>2 DEF Copied
  <2>5. \A g \in todo : Last(g) => g = f
    BY SMTT(30), <2>1 DEF Last, TypeOK, Files
  <2>6. pc' = "restore" =>
          \A g \in todo' : Last(g)' =>
            /\ file'[g] = mem'.post[g]
            /\ file'[g] # Absent => Copied(g, file[g])'
    BY <2>1, <2>2, <2>3, <2>4, <2>5 DEF Last
  <2>7. QED
    BY <2>2, <2>6, AsideStep DEF EditInv, Checked
<1>3. ASSUME NEW f \in Files, NEW c \in Values, Edit(f, c) PROVE EditInv'
  <2>1. UNCHANGED <<copies, svc, owner, pc, plan, mem, todo>>
        /\ raced \subseteq raced'
        /\ (pc \in {"apply", "restore"} /\ f \in todo => f \in raced')
        /\ \A g \in Files : g # f => file'[g] = file[g]
    BY <1>3 DEF Edit, TypeOK
  <2>2. \A g \in todo : g \notin raced' /\ pc \in {"apply", "restore"} => file'[g] = file[g]
    BY <2>1 DEF TypeOK
  <2>3. pc' \in {"check", "apply", "confirm", "commit"} => Writing'
    BY <2>1 DEF EditInv, Checked, Writing
  <2>4. pc' = "apply" => \A g \in todo' : First(g)' /\ g \notin raced' => Before(g)'
    BY <2>1, <2>2 DEF EditInv, Checked, First, Before
  <2>5. pc' = "restore" =>
          \A g \in todo' : Last(g)' /\ g \notin raced' =>
            /\ file'[g] = mem'.post[g]
            /\ file'[g] # Absent => Copied(g, file[g])'
    BY <2>1, <2>2 DEF EditInv, Checked, Last, Copied
  <2>6. QED
    BY <2>3, <2>4, <2>5, AsideStep DEF EditInv, Checked
<1>4. ASSUME pc' \notin {"check", "apply", "confirm", "commit", "restore"}
      PROVE  EditInv'
  BY <1>4, AsideStep DEF EditInv, Checked
<1>5. CASE Barrier \/ Apply \/ Confirm
  <2>1. pc \in {"barrier", "apply", "confirm"} /\ UNCHANGED <<svc, owner>>
        /\ pc' \in {"abandon", "check", "confirm", "commit", "inspect", "drop"}
    BY <1>5 DEF Barrier, Apply, Confirm, NextCheck, Fail, Goto
  <2>2. Writing'
    BY <2>1, WhoRuns DEF Recovering, Writing
  <2>3. QED
    BY <2>1, <2>2, AsideStep DEF EditInv, Checked
<1>6. ASSUME NEW s \in Sessions,
             \/ Start(s) \/ StartDisabled(s) \/ StartIsolated(s)
             \/ Refuse(s) \/ WriteIsolated(s)
      PROVE  EditInv'
  <2>1. UNCHANGED <<disk, owner, pc, plan, mem, todo, raced>>
        /\ (owner # None => svc'[owner] = svc[owner])
    BY <1>6 DEF Start, StartDisabled, StartIsolated, Opens, Refuse, WriteIsolated, TypeOK
  <2>2. Checked'
    BY <2>1 DEF EditInv, Checked, Writing, First, Last, Before, Copied, disk
  <2>3. QED
    BY <2>2, AsideStep DEF EditInv
<1>7. CASE UNCHANGED vars
  BY <1>7, AsideStep DEF vars, EditInv, Checked, Writing, First, Last, Before, Copied
<1>8. ASSUME NEW s \in Sessions, StartRecovering(s) \/ Accept(s) PROVE EditInv'
  BY <1>4, <1>8 DEF StartRecovering, Recover, Accept
<1>9. CASE Backup \/ Snapshot \/ BarrierUnproven \/ Abandon \/ Commit \/ Clear \/ Drop
  BY <1>4, <1>9 DEF Backup, Snapshot, NextSnapshot, BarrierUnproven, Abandon, Commit, Clear,
                    Drop, Fail, Goto, Finish, Proven, Unproven
<1>10. CASE InspectFails \/ Restore \/ RestoreFails \/ Record \/ Settle
  BY <1>4, <1>10 DEF InspectFails, Restore, RestoreFails, Record, Settle, NextInspect, Goto,
                     Finish, Proven, Unproven
<1>11. CASE Crash
  BY <1>4, <1>11 DEF Crash
<1>12. QED
  BY <1>1, <1>2, <1>3, <1>5, <1>6, <1>7, <1>8, <1>9, <1>10, <1>11 DEF Next, Operation

\* What one step may overwrite.
Overwrites(f) ==
  file'[f] # file[f] /\ used'.edits = used.edits /\ f \notin raced

\* A step that changes a file and is no edit works on a file of its loop, just
\* checked or just copied aside.
LEMMA OverwriteStep ==
  ASSUME TypeOK, ReplyInv, BackupInv, EditInv, [Next]_vars, NEW f \in Files, Overwrites(f)
  PROVE  /\ file[f] \in {plan.pre[f], mem.post[f]}
         /\ file[f] # Absent => \E c \in copies' : c[1] = f /\ c[2] = file[f]
<1>. USE ConstantsAssumption DEF ConstantsAssumption
<1>1. Apply \/ Restore \/ RestoreFails
  <2>1. ASSUME NEW s \in Sessions,
               \/ Start(s) \/ StartDisabled(s) \/ StartRecovering(s) \/ StartIsolated(s)
               \/ Accept(s) \/ Refuse(s) \/ WriteIsolated(s)
        PROVE  file' = file
    BY <2>1 DEF Start, StartDisabled, StartRecovering, StartIsolated, Accept, Refuse,
                WriteIsolated, disk
  <2>2. ASSUME NEW g \in Files, NEW c \in Values, Edit(g, c)
        PROVE  used'.edits # used.edits
    <3>1. used'.edits = used.edits + 1 /\ used.edits \in Nat
      BY <2>2 DEF Edit, TypeOK
    <3>2. QED
      BY <3>1
  <2>3. CASE Backup \/ Snapshot \/ Barrier \/ BarrierUnproven \/ Abandon \/ Check
             \/ Confirm \/ Commit \/ Clear \/ Drop \/ Inspect \/ InspectFails
             \/ Record \/ Settle
    BY <2>3 DEF Overwrites, Backup, Snapshot, Barrier, BarrierUnproven, Abandon, Check,
                Confirm, Commit, Clear, Drop, Inspect, InspectFails, Record, Settle, disk
  <2>4. QED
    BY <2>1, <2>2, <2>3 DEF Overwrites, Next, Operation, Crash, vars, disk
<1>2. CASE Apply
  <2>1. PICK g \in todo : First(g) /\ file' \in {file, [file EXCEPT ![g] = plan.post[g]]}
    BY <1>2 DEF Apply
  <2>2. g = f /\ pc = "apply" /\ copies' = copies
    BY <1>2, <2>1 DEF Overwrites, Apply, TypeOK
  <2>3. Before(f) /\ f \in todo
    BY <2>1, <2>2 DEF EditInv, Checked, Overwrites
  <2>4. f \in plan.targets
    BY <2>2, <2>3, WhoRuns DEF Recovering, ReplyInv, Agrees
  <2>5. file[f] # Absent => Copied(f, file[f])
    BY <2>2, <2>3, <2>4, CopiesKept
  <2>6. QED
    BY <2>2, <2>3, <2>5 DEF Before, Copied
<1>3. CASE Restore \/ RestoreFails
  <2>1. PICK g \in todo : Last(g) /\ file' \in {file, Restored(g)}
    BY <1>3 DEF Restore, RestoreFails
  <2>2. g = f /\ pc = "restore" /\ copies' = copies
    BY <1>3, <2>1 DEF Overwrites, Restore, RestoreFails, Restored, TypeOK
  <2>3. file[f] = mem.post[f] /\ (file[f] # Absent => Copied(f, file[f]))
    BY <2>1, <2>2 DEF EditInv, Checked, Overwrites
  <2>4. QED
    BY <2>2, <2>3 DEF Copied
<1>4. QED
  BY <1>1, <1>2, <1>3

\* The manager overwrites nothing that another program wrote, outside the window
\* it cannot close, and keeps a copy of whatever it overwrites.
THEOREM ForeignEditsKept == Spec => KeepsForeignEdits
<1>1. Init => EditInv
  BY DEF Init, EditInv, Checked, KeptAside, NoPlan, Fresh
<1>2. Init => ReplyInv
  BY DEF Init, ReplyInv, Unanswered, Agrees, Remembers, Advances, Writing, RepliesAreTrue
<1>3. TypeOK /\ TypeOK' /\ ReplyInv /\ [Next]_vars => ReplyInv'
  BY ReplyStep
<1>4. TypeOK /\ TypeOK' /\ ReplyInv /\ EditInv /\ [Next]_vars => EditInv'
  BY EditStep
<1>5. TypeOK /\ ReplyInv /\ BackupInv /\ EditInv /\ [Next]_vars
        => [\A f \in Files :
              file'[f] # file[f] /\ used'.edits = used.edits /\ f \notin raced
                => /\ file[f] \in {plan.pre[f], mem.post[f]}
                   /\ file[f] # Absent => \E c \in copies' : c[1] = f /\ c[2] = file[f]]_vars
  BY OverwriteStep DEF Overwrites
<1>6. QED
  BY <1>1, <1>2, <1>3, <1>4, <1>5, TypeCorrect, BackupHolds, PTL DEF Spec, KeepsForeignEdits

-------------------------------------------------------------------------------
(* The refinement of AtomicWrite: when no other program edits the files and no
   disk access of the commit or of a rollback fails, what counts as the value of a
   file changes at the commit point and nowhere else. *)

Quiet == MaxEdits = 0 /\ FaultAt \intersect {"commit", "rollback"} = {}

\* Recovery from the journal on disk, if it came to that, would change nothing.
Harmless ==
  journal # None /\ ~ journal.committed =>
    \A f \in journal.targets : file[f] = journal.pre[f]

\* It restores every target to what it was.
Reversible(j) ==
  /\ j.backup = j.pre
  /\ ~ j.committed => \A f \in j.targets : file[f] \in {j.pre[f], j.post[f]}

\* The journal on disk is the one in memory, what was copied aside apart.
Alike ==
  /\ journal # None
  /\ journal.targets = mem.targets /\ journal.pre = mem.pre /\ journal.post = mem.post
  /\ journal.backup = mem.backup /\ journal.committed = mem.committed

RollingBack == {"inspect", "restore", "record", "settle"}

Unedited == touched = {} /\ raced = {} /\ ~ conflict
Shelved ==
  /\ owner = None /\ (\E s \in Sessions : svc[s] = "live") => Harmless
  /\ pc \in Preparing \union {"drop"} => Harmless
Follows ==
  /\ pc \in Preparing \union Journaled => ~ mem.committed
  /\ pc \in Journaled => Alike
  /\ pc = "clear" => journal # None /\ journal.committed
PutsBack ==
  /\ pc \in RollingBack =>
       /\ todo \subseteq mem.targets
       /\ \A f \in mem.targets \ todo : file[f] = mem.pre[f]
  /\ pc = "record" => \A f \in todo : Last(f) => file[f] = mem.pre[f]
  /\ pc = "settle" => todo = {}

AtomicInv ==
  /\ Unedited /\ Shelved /\ Follows /\ PutsBack
  /\ journal # None => Reversible(journal)

\* What a file counts as.
Counted(f) == IF Pending(f) THEN journal.pre[f] ELSE file[f]
Shown == [f \in Files |-> IF f \in touched THEN Edited
                          ELSE IF Pending(f) THEN journal.pre[f] ELSE file[f]]

\* As it was before while an uncommitted journal names it, and as it is otherwise.
LEMMA CountedIs ==
  ASSUME NEW f
  PROVE  /\ (journal # None => Reversible(journal)) =>
              Counted(f) = IF journal # None /\ ~ journal.committed /\ f \in journal.targets
                           THEN journal.pre[f] ELSE file[f]
         /\ (journal' # None => Reversible(journal)') =>
              Counted(f)' = IF journal' # None /\ ~ journal'.committed /\ f \in journal'.targets
                            THEN journal'.pre[f] ELSE file'[f]
         /\ Harmless => Counted(f) = file[f]
         /\ Harmless' => Counted(f)' = file'[f]
  BY DEF Counted, Pending, Reversible, Harmless

\* Steps during which an uncommitted journal stays on disk change nothing.
LEMMA CountedStays ==
  ASSUME AtomicInv, pc \in Journaled, journal' # None, Reversible(journal)',
         journal'.targets = mem.targets, journal'.pre = mem.pre, ~ journal'.committed,
         \A f \in Files : f \notin mem.targets => file'[f] = file[f]
  PROVE  \A f \in Files : Counted(f)' = Counted(f)
  BY CountedIs DEF AtomicInv, Follows, Alike

\* A step of the promise that changes no file, seen from the code: a reply, which is
\* as true of what counts as of the files, or nothing at all.
Unseen ==
  /\ \A f \in Files : Counted(f)' = Counted(f)
  /\ plan' = plan
  /\ \/ outcome' \in {outcome, "unproven", "lost", "phantom"}
     \/ Harmless' /\ outcome' \in {"ok", "failed"}

LEMMA UnseenKeepsPromise ==
  ASSUME TypeOK, Unedited, Unedited', RepliesAreTrue', Unseen
  PROVE  [Promise!Next]_(Promise!vars)
<1>1. plan.targets \subseteq Files /\ touched = {} /\ touched' = {}
  BY DEF TypeOK, Plans, Unedited
<1>2. Shown' = Shown /\ \A f \in Files : Shown[f] = Counted(f)
  BY <1>1 DEF Unseen, Shown, Counted
<1>3. plan' = plan
  BY DEF Unseen
<1>4. CASE outcome' = outcome
  BY <1>2, <1>3, <1>4 DEF Promise!vars, Shown
<1>5. CASE outcome' \in {"unproven", "lost", "phantom"}
  BY <1>2, <1>3, <1>5 DEF Promise!Next, Promise!Reply, Shown
<1>6. CASE Harmless' /\ outcome' \in {"ok", "failed"}
  <2>1. \A f \in Files : Shown[f] = file'[f]
    BY <1>2, <1>6, CountedIs DEF Unseen
  <2>2. /\ outcome' = "failed" => \A f \in plan.targets : Shown[f] = plan.pre[f]
        /\ outcome' = "ok" => \A f \in plan.targets : Shown[f] = plan.post[f]
    BY <1>1, <1>3, <2>1 DEF RepliesAreTrue
  <2>3. Promise!Reply
    BY <1>2, <1>3, <1>6, <2>2 DEF Promise!Reply, Shown
  <2>4. QED
    BY <2>3 DEF Promise!Next
<1>7. QED
  BY <1>4, <1>5, <1>6 DEF Unseen

LEMMA NoFault ==
  ASSUME Quiet
  PROVE  /\ ~ Fault("commit") /\ ~ Fault("rollback")
         /\ TypeOK => \A f, c : ~ Edit(f, c)
<1>1. ~ Fault("commit") /\ ~ Fault("rollback")
  BY DEF Quiet, Fault
<1>2. ASSUME TypeOK, NEW f, NEW c, Edit(f, c) PROVE FALSE
  <2>1. used.edits \in Nat /\ used.edits < 0
    BY <1>2 DEF Edit, Quiet, TypeOK
  <2>2. QED
    BY <2>1
<1>3. QED
  BY <1>1, <1>2

\* What a write has in memory is what it planned.
LEMMA AsPlannedInMemory ==
  ASSUME TypeOK, ReplyInv, Unedited, Writing
  PROVE  /\ mem.targets = plan.targets /\ mem.pre = plan.pre /\ mem.backup = plan.pre
         /\ mem.post = plan.post /\ todo \subseteq plan.targets
         /\ \A f \in Files : f \notin plan.targets => file[f] = plan.pre[f]
         /\ ~ replaced => \A f \in Files : file[f] = plan.pre[f]
<1>1. mem.pre \in [Files -> Values] /\ plan.pre \in [Files -> Values] /\ Untouched = Files
  BY DEF TypeOK, Journals, Plans, Untouched, Unedited
<1>2. \A f \in Files : mem.pre[f] = plan.pre[f]
  BY <1>1 DEF ReplyInv, Agrees
<1>3. mem.pre = plan.pre
  BY <1>1, <1>2
<1>4. QED
  BY <1>1, <1>3 DEF ReplyInv, Agrees, Remembers, Before

\* Sessions come and go, writes are refused, and processes die.
LEMMA AtomicOutside ==
  ASSUME TypeOK, AtomicInv, Crash \/ UNCHANGED vars \/ \E s \in Sessions :
           \/ Start(s) \/ StartDisabled(s) \/ StartRecovering(s) \/ StartIsolated(s)
           \/ Refuse(s) \/ WriteIsolated(s)
  PROVE  AtomicInv' /\ Unseen
<1>1. /\ UNCHANGED <<file, journal, touched, raced, plan>>
      /\ outcome' \in {outcome, "unproven", "lost", "phantom"}
  BY DEF Start, StartDisabled, StartRecovering, StartIsolated, Opens, Refuse, WriteIsolated,
         Crash, vars, disk
<1>2. Unseen /\ (journal' # None => Reversible(journal)') /\ (Harmless' <=> Harmless)
  BY <1>1 DEF Unseen, Counted, Pending, AtomicInv, Reversible, Harmless
<1>3. CASE Crash
  <2>1. /\ pc' = "idle" /\ \A s \in Sessions : svc'[s] = "down"
        /\ UNCHANGED <<mem, conflict>>
    BY <1>3 DEF Crash
  <2>2. QED
    BY <1>1, <1>2, <2>1 DEF AtomicInv, Unedited, Shelved, Follows, PutsBack, Preparing,
                            Journaled, RollingBack
<1>4. ASSUME NEW s \in Sessions, StartRecovering(s) PROVE AtomicInv'
  <2>1. /\ owner' = s /\ mem' = journal /\ journal # None /\ ~ conflict'
        /\ \/ journal.committed /\ pc' = "clear" /\ todo' = {}
           \/ ~ journal.committed /\ pc' = "inspect" /\ todo' = journal.targets
    BY <1>4 DEF StartRecovering, Recover
  <2>2. s # None
    BY ConstantsAssumption DEF ConstantsAssumption
  <2>3. Unedited' /\ Shelved'
    BY <1>1, <2>1, <2>2 DEF AtomicInv, Unedited, Shelved, Preparing
  <2>4. Follows' /\ PutsBack'
    BY <1>1, <2>1 DEF Follows, PutsBack, Alike, Preparing, Journaled, RollingBack
  <2>5. QED
    BY <1>2, <2>3, <2>4 DEF AtomicInv
<1>5. CASE UNCHANGED vars \/ \E s \in Sessions :
             Start(s) \/ StartDisabled(s) \/ StartIsolated(s) \/ Refuse(s) \/ WriteIsolated(s)
  <2>1. UNCHANGED <<disk, owner, pc, plan, mem, todo, conflict>>
    BY <1>5 DEF Start, StartDisabled, StartIsolated, Refuse, WriteIsolated, vars, disk
  <2>2. owner = None /\ (\E s \in Sessions : svc'[s] = "live")
          => journal = None \/ \E s \in Sessions : svc[s] = "live"
    BY <1>5 DEF Start, StartDisabled, StartIsolated, Refuse, WriteIsolated, vars, TypeOK
  <2>3. Shelved'
    BY <1>2, <2>1, <2>2 DEF AtomicInv, Shelved, Harmless
  <2>4. Unedited' /\ Follows'
    BY <1>1, <2>1 DEF AtomicInv, Unedited, Follows, Alike, disk
  <2>5. PutsBack'
    BY <2>1 DEF AtomicInv, PutsBack, Last, disk
  <2>6. QED
    BY <1>2, <2>3, <2>4, <2>5 DEF AtomicInv, Reversible
<1>6. QED
  BY <1>2, <1>3, <1>4, <1>5

\* A write is accepted for the files as they count.
LEMMA AtomicAccepts ==
  ASSUME TypeOK, TypeOK', AtomicInv, NEW s \in Sessions, Accept(s)
  PROVE  AtomicInv' /\ Promise!Next
<1>1. /\ cur = s /\ svc[s] = "live" /\ owner = None /\ owner' = s /\ pc' = "backup"
      /\ mem' = Fresh(plan') /\ conflict' = FALSE /\ outcome' = "none"
      /\ touched' = {} /\ raced' = {} /\ UNCHANGED <<disk, svc>>
  BY DEF Accept
<1>a. plan'.pre = file
  BY DEF Accept
<1>2. UNCHANGED <<file, journal>> /\ touched = {} /\ Harmless
  BY <1>1 DEF disk, AtomicInv, Shelved, Unedited
<1>3. AtomicInv'
  <2>1. Harmless' /\ (journal' # None => Reversible(journal)')
    BY <1>2 DEF AtomicInv, Harmless, Reversible
  <2>2. ~ mem'.committed
    BY <1>1 DEF Fresh
  <2>3. Unedited' /\ Shelved'
    BY <1>1, <2>1 DEF Unedited, Shelved
  <2>4. Follows' /\ PutsBack'
    BY <1>1, <2>2 DEF Follows, PutsBack, Journaled, RollingBack
  <2>5. QED
    BY <2>1, <2>3, <2>4 DEF AtomicInv, Reversible
<1>4. /\ file \in [Files -> Values] /\ plan' \in Plans
  BY DEF TypeOK
<1>5. ASSUME NEW f \in Files
      PROVE  (IF Pending(f) THEN journal.pre[f] ELSE file[f]) = file[f] /\ Pending(f)' = Pending(f)
  BY <1>2 DEF Harmless, Pending
<1>6. Shown' = file /\ Shown = file
  BY <1>1, <1>2, <1>4, <1>5 DEF Shown
<1>7. Promise!Accept
  BY <1>1, <1>a, <1>4, <1>6 DEF Promise!Accept, Shown, Plans
<1>8. QED
  BY <1>3, <1>7 DEF Promise!Next

\* Until the journal of a write is on disk no file changes, and one that is left there
\* by an earlier write would change none.
LEMMA AtomicPreparing ==
  ASSUME TypeOK, TypeOK', ReplyInv, AtomicInv,
         Backup \/ Snapshot \/ Barrier \/ BarrierUnproven \/ Abandon
  PROVE  AtomicInv' /\ Unseen
<1>1. /\ pc \in Preparing /\ pc \notin Recovering /\ pc # "idle"
      /\ UNCHANGED <<file, plan, touched, raced, conflict>>
  <2>1. CASE Backup
    BY <2>1 DEF Backup, Goto, Preparing, Recovering
  <2>2. CASE Snapshot
    BY <2>2 DEF Snapshot, NextSnapshot, Goto, Preparing, Recovering, disk
  <2>3. CASE Barrier
    BY <2>3 DEF Barrier, Goto, Preparing, Recovering
  <2>4. CASE BarrierUnproven
    BY <2>4 DEF BarrierUnproven, Finish, Preparing, Recovering
  <2>5. CASE Abandon
    BY <2>5 DEF Abandon, Finish, Preparing, Recovering
  <2>6. QED
    BY <2>1, <2>2, <2>3, <2>4, <2>5
<1>2. /\ Writing /\ owner # None /\ Harmless /\ ~ mem.committed
  BY <1>1, WhoRuns DEF AtomicInv, Shelved, Follows
<1>3. /\ mem.targets = plan.targets /\ mem.pre = plan.pre /\ mem.backup = plan.pre
      /\ mem.post = plan.post /\ \A f \in Files : file[f] = plan.pre[f]
  BY <1>1, <1>2, AsPlannedInMemory DEF AtomicInv, ReplyInv, Remembers
<1>4. plan.targets \subseteq Files
  BY DEF TypeOK, Plans
<1>5. journal' \in {journal, None, mem}
  BY DEF Backup, Snapshot, Barrier, BarrierUnproven, Abandon, JournalFails, disk
<1>6. Harmless' /\ (journal' # None => Reversible(journal)')
  BY <1>1, <1>2, <1>3, <1>4, <1>5 DEF AtomicInv, Harmless, Reversible
<1>7. \A f \in Files : Counted(f)' = Counted(f)
  BY <1>1, <1>2, <1>6, CountedIs
<1>8. \/ /\ pc' \in Preparing /\ mem'.committed = mem.committed
         /\ UNCHANGED outcome
      \/ pc' = "check" /\ journal' = mem /\ mem' = mem /\ UNCHANGED outcome
      \/ pc' = "idle" /\ outcome' \in {outcome, "failed", "unproven"}
  <2>1. CASE Snapshot
    <3>1. mem'.committed = mem.committed
      BY <2>1 DEF Snapshot, TypeOK, Journals
    <3>2. QED
      BY <2>1, <3>1 DEF Snapshot, NextSnapshot, Goto, Preparing
  <2>2. CASE Backup \/ Barrier \/ BarrierUnproven \/ Abandon
    BY <2>2 DEF Backup, Barrier, BarrierUnproven, Abandon, Goto, Finish, Preparing
  <2>3. QED
    BY <2>1, <2>2
<1>9. Unseen
  BY <1>1, <1>6, <1>7, <1>8 DEF Unseen
<1>10. Unedited' /\ Shelved'
  BY <1>1, <1>6 DEF AtomicInv, Unedited, Shelved
<1>11. Follows' /\ PutsBack'
  <2>1. CASE pc' \in Preparing /\ mem'.committed = mem.committed
    BY <1>2, <2>1 DEF Follows, PutsBack, Preparing, Journaled, RollingBack
  <2>2. CASE pc' = "check" /\ journal' = mem /\ mem' = mem
    <3>1. mem # None
      BY NoJournalAssumption DEF TypeOK
    <3>2. QED
      BY <1>2, <2>2, <3>1 DEF Follows, PutsBack, Alike, Preparing, Journaled, RollingBack
  <2>3. CASE pc' = "idle"
    BY <2>3 DEF Follows, PutsBack, Preparing, Journaled, RollingBack
  <2>4. QED
    BY <1>8, <2>1, <2>2, <2>3
<1>12. QED
  BY <1>6, <1>9, <1>10, <1>11 DEF AtomicInv, Reversible

\* A step of the replacement: at most a target becomes as planned, and the write goes on,
\* gives up having replaced nothing, or starts to roll back.
LEMMA AtomicReplaces ==
  ASSUME TypeOK, TypeOK', ReplyInv, AtomicInv, pc \in Journaled, Writing,
         UNCHANGED <<plan, mem, touched, raced, conflict, outcome>>,
         journal' \in {journal, mem},
         \A f \in Files : file'[f] # file[f] => f \in mem.targets /\ file'[f] = mem.post[f],
         \/ pc' \in {"check", "apply", "confirm", "commit"}
         \/ pc' = "drop" /\ ~ replaced /\ file' = file
         \/ pc' = "inspect" /\ todo' = mem.targets
  PROVE  AtomicInv' /\ Unseen
<1>1. Alike /\ ~ mem.committed
  BY DEF AtomicInv, Follows
<1>2. Alike' /\ Reversible(journal)' /\ ~ journal'.committed /\ journal' # None
  <2>1. /\ journal' # None
        /\ journal'.targets = mem.targets /\ journal'.pre = mem.pre /\ journal'.post = mem.post
        /\ journal'.backup = mem.backup /\ journal'.committed = mem.committed
    BY <1>1, NoJournalAssumption DEF Alike, TypeOK
  <2>2. mem.backup = mem.pre /\ \A f \in mem.targets : file[f] \in {mem.pre[f], mem.post[f]}
    BY <1>1 DEF AtomicInv, Alike, Reversible
  <2>3. mem.targets \subseteq Files
    BY DEF TypeOK, Journals
  <2>4. \A f \in mem.targets : file'[f] \in {mem.pre[f], mem.post[f]}
    BY <2>2, <2>3
  <2>5. QED
    BY <1>1, <2>1, <2>2, <2>4 DEF Alike, Reversible
<1>3. Unseen
  <2>1. \A f \in Files : Counted(f)' = Counted(f)
    BY <1>1, <1>2, CountedStays DEF Alike
  <2>2. QED
    BY <2>1 DEF Unseen
<1>4. Unedited' /\ owner' # None
  BY DEF AtomicInv, Unedited, TypeOK
<1>5. Shelved'
  <2>1. ASSUME pc' = "drop" PROVE Harmless'
    <3>1. \A f \in mem.targets : file'[f] = mem.pre[f]
      BY <2>1, AsPlannedInMemory DEF AtomicInv, TypeOK, Journals
    <3>2. QED
      BY <1>2, <3>1 DEF Harmless, Alike
  <2>2. QED
    BY <1>4, <2>1 DEF Shelved, Preparing
<1>6. Follows' /\ PutsBack'
  BY <1>1, <1>2 DEF Follows, PutsBack, Preparing, Journaled, RollingBack
<1>7. QED
  BY <1>2, <1>3, <1>4, <1>5, <1>6 DEF AtomicInv, Reversible

LEMMA AtomicChecks ==
  ASSUME TypeOK, TypeOK', ReplyInv, EditInv, AtomicInv, Check \/ Apply \/ Confirm
  PROVE  AtomicInv' /\ Unseen
<1>1. pc \in {"check", "apply", "confirm"} /\ pc \in Journaled /\ Writing
  BY DEF Check, Apply, Confirm, EditInv, Checked, Journaled
<1>2. /\ UNCHANGED <<plan, mem, touched, raced, conflict, outcome>>
      /\ journal' \in {journal, mem}
  BY DEF Check, Apply, Confirm, JournalFails, NextCheck, Fail, Goto, disk
<1>3. /\ mem.targets = plan.targets /\ mem.post = plan.post /\ todo \subseteq plan.targets
      /\ pc = "confirm" => replaced
  BY <1>1, AsPlannedInMemory DEF AtomicInv, ReplyInv, Remembers
<1>4. /\ \A f \in Files : file'[f] # file[f] => f \in mem.targets /\ file'[f] = mem.post[f]
      /\ \/ pc' \in {"check", "apply", "confirm", "commit"}
         \/ pc' = "drop" /\ ~ replaced /\ file' = file
         \/ pc' = "inspect" /\ todo' = mem.targets
  <2>1. CASE Check \/ Confirm
    BY <2>1, <1>3 DEF Check, Confirm, NextCheck, Fail, Goto, disk
  <2>2. CASE Apply
    <3>1. PICK f \in todo :
            \/ /\ file' = [file EXCEPT ![f] = plan.post[f]]
               /\ Goto("confirm", todo) \/ Fail(TRUE)
            \/ file' = file /\ Fail(replaced)
      BY <2>2 DEF Apply
    <3>2. \A g \in Files : file'[g] # file[g] => g = f /\ file'[g] = plan.post[f]
      BY <3>1 DEF TypeOK
    <3>3. QED
      BY <1>3, <3>1, <3>2 DEF Fail, Goto
  <2>3. QED
    BY <2>1, <2>2
<1>5. QED
  BY <1>1, <1>2, <1>4, AtomicReplaces

\* The committed journal: all targets count as planned from now on.
LEMMA AtomicCommits ==
  ASSUME Quiet, TypeOK, TypeOK', ReplyInv, EditInv, AtomicInv, Commit
  PROVE  AtomicInv' /\ (Unseen \/ Promise!Next)
<1>1. pc = "commit" /\ pc \in Journaled /\ Writing /\ Alike /\ ~ mem.committed
  BY DEF Commit, EditInv, Checked, Journaled, AtomicInv, Follows
<1>2. /\ mem.targets = plan.targets /\ mem.post = plan.post /\ mem.pre = plan.pre
      /\ mem.backup = plan.pre
  BY <1>1, AsPlannedInMemory DEF AtomicInv
<1>3. CASE Fail(replaced) /\ UNCHANGED <<file, journal, copies, mem, replaced, conflict>>
  <2>1. /\ UNCHANGED <<plan, mem, touched, raced, conflict, outcome>>
        /\ journal' \in {journal, mem}
        /\ \/ pc' = "drop" /\ ~ replaced /\ file' = file
           \/ pc' = "inspect" /\ todo' = mem.targets
    BY <1>3 DEF Fail, Goto
  <2>2. QED
    BY <1>1, <1>3, <2>1, AtomicReplaces
<1>4. CASE /\ mem' = [mem EXCEPT !.committed = TRUE] /\ journal' = mem' /\ Goto("clear", {})
           /\ UNCHANGED <<file, copies, replaced, conflict>>
  <2>1. /\ journal' # None /\ journal'.committed /\ journal'.backup = mem.backup
        /\ journal'.pre = mem.pre
    BY <1>4, NoJournalAssumption DEF TypeOK, Journals
  <2>2. /\ UNCHANGED <<file, plan, touched, raced, conflict, outcome, owner>> /\ pc' = "clear"
        /\ owner # None
    BY <1>1, <1>4 DEF Goto, Writing
  <2>3. Unedited' /\ Shelved' /\ Follows' /\ PutsBack' /\ Reversible(journal)'
    BY <1>2, <2>1, <2>2 DEF AtomicInv, Unedited, Shelved, Follows, PutsBack, Reversible,
                            Preparing, Journaled, RollingBack
  <2>4. \A f \in Files : file[f] \in Values /\ file[f] # Edited /\ plan.pre[f] # Edited
    BY ConstantsAssumption DEF ConstantsAssumption, TypeOK, Plans
  <2>5. /\ plan.targets \subseteq Files /\ touched = {} /\ touched' = {}
        /\ \A f \in plan.targets : file[f] = plan.post[f]
    BY <1>1, <2>2 DEF TypeOK, Plans, AtomicInv, Unedited, ReplyInv, Advances, Untouched, After
  <2>6. \A f \in Files : Shown[f] = IF f \in plan.targets THEN plan.pre[f] ELSE file[f]
    BY <1>1, <1>2, <2>5, CountedIs DEF Shown, Counted, Alike, AtomicInv
  <2>7. Shown' = [f \in Files |-> IF f \in plan.targets THEN plan.post[f] ELSE file[f]]
    BY <2>1, <2>2, <2>5 DEF Shown, Pending
  <2>8. Shown' = [f \in Files |-> IF f \in plan.targets /\ Shown[f] # Edited
                                  THEN plan.post[f] ELSE Shown[f]]
    BY <2>4, <2>6, <2>7
  <2>9. Promise!Commit
    BY <2>2, <2>5, <2>6, <2>8 DEF Promise!Commit, Shown
  <2>10. QED
    BY <2>3, <2>9 DEF AtomicInv, Promise!Next, Reversible
<1>5. \/ Fail(replaced) /\ UNCHANGED <<file, journal, copies, mem, replaced, conflict>>
      \/ /\ mem' = [mem EXCEPT !.committed = TRUE] /\ journal' = mem' /\ Goto("clear", {})
         /\ UNCHANGED <<file, copies, replaced, conflict>>
  BY NoFault DEF Commit, JournalFails
<1>6. QED
  BY <1>3, <1>4, <1>5

\* Only the journal goes: of a write that was committed, or that replaced nothing.
LEMMA AtomicEnds ==
  ASSUME TypeOK, AtomicInv, Clear \/ Drop
  PROVE  AtomicInv' /\ Unseen
<1>1. /\ UNCHANGED <<file, plan, touched, raced, conflict>> /\ pc' = "idle"
      /\ journal' \in {journal, None} /\ pc \in {"clear", "drop"}
      /\ outcome' \in {outcome, "ok", "failed", "unproven"}
  BY DEF Clear, Drop, JournalFails, Proven, Unproven, Finish
<1>2. Harmless
  BY <1>1 DEF AtomicInv, Shelved, Follows, Harmless
<1>3. Harmless' /\ (journal' # None => Reversible(journal)')
  BY <1>1, <1>2 DEF AtomicInv, Harmless, Reversible
<1>4. Unseen
  BY <1>1, <1>2, <1>3, CountedIs DEF Unseen
<1>5. Unedited' /\ Shelved' /\ Follows' /\ PutsBack'
  BY <1>1, <1>3 DEF AtomicInv, Unedited, Shelved, Follows, PutsBack, Preparing, Journaled,
                    RollingBack
<1>6. QED
  BY <1>3, <1>4, <1>5 DEF AtomicInv, Reversible

\* A step of a rollback: at most a target becomes as it was.
LEMMA AtomicRollsBack ==
  ASSUME TypeOK, TypeOK', AtomicInv, pc \in RollingBack, pc' \in RollingBack,
         UNCHANGED <<plan, owner, touched, raced, conflict, outcome>>, owner # None,
         mem'.targets = mem.targets, mem'.pre = mem.pre, mem'.post = mem.post,
         mem'.backup = mem.backup, mem'.committed = mem.committed,
         journal' \in {journal, mem'},
         \A f \in Files : file'[f] # file[f] => f \in mem.targets /\ file'[f] = mem.pre[f],
         PutsBack'
  PROVE  AtomicInv' /\ Unseen
<1>1. Alike /\ ~ mem.committed /\ pc \in Journaled /\ pc' \in Journaled
  BY DEF AtomicInv, Follows, RollingBack, Journaled
<1>2. Alike' /\ Reversible(journal)' /\ ~ journal'.committed /\ journal' # None
  <2>1. /\ journal' # None
        /\ journal'.targets = mem.targets /\ journal'.pre = mem.pre /\ journal'.post = mem.post
        /\ journal'.backup = mem.backup /\ journal'.committed = mem.committed
    BY <1>1, NoJournalAssumption DEF Alike, TypeOK
  <2>2. mem.backup = mem.pre /\ \A f \in mem.targets : file[f] \in {mem.pre[f], mem.post[f]}
    BY <1>1 DEF AtomicInv, Alike, Reversible
  <2>3. mem.targets \subseteq Files
    BY DEF TypeOK, Journals
  <2>4. \A f \in mem.targets : file'[f] \in {mem.pre[f], mem.post[f]}
    BY <2>2, <2>3
  <2>5. QED
    BY <1>1, <2>1, <2>2, <2>4 DEF Alike, Reversible
<1>3. Unseen
  <2>1. \A f \in Files : Counted(f)' = Counted(f)
    BY <1>1, <1>2, CountedStays DEF Alike
  <2>2. QED
    BY <2>1 DEF Unseen
<1>4. Unedited' /\ Shelved' /\ Follows'
  BY <1>1, <1>2 DEF AtomicInv, Unedited, Shelved, Follows, Preparing, RollingBack
<1>5. QED
  BY <1>2, <1>3, <1>4 DEF AtomicInv, Reversible

\* The one target the rollback is at.
LEMMA OneLast ==
  ASSUME TypeOK, NEW f, NEW g, Last(f), Last(g)
  PROVE  f = g
<1>1. f \in Nat /\ g \in Nat /\ f <= g /\ g <= f
  BY ConstantsAssumption DEF ConstantsAssumption, TypeOK, Files, Last
<1>2. QED
  BY <1>1

LEMMA AtomicPutsBack ==
  ASSUME Quiet, TypeOK, TypeOK', BackupInv, ReplyInv, AtomicInv,
         \/ Inspect \/ InspectFails \/ Restore \/ RestoreFails \/ Record \/ Settle
  PROVE  AtomicInv' /\ Unseen
<1>1. /\ pc \in RollingBack /\ pc \in Journaled /\ pc # "idle"
      /\ UNCHANGED <<plan, touched, raced>>
  BY DEF Inspect, InspectFails, Restore, RestoreFails, Record, Settle, RollingBack, Journaled,
         NextInspect, Goto, Proven, Unproven, Finish
<1>2. /\ Alike /\ ~ mem.committed /\ ~ conflict /\ owner # None /\ mem.backup = mem.pre
      /\ \A f \in mem.targets : file[f] \in {mem.pre[f], mem.post[f]}
      /\ todo \subseteq mem.targets /\ mem.targets \subseteq Files
      /\ \A f \in mem.targets \ todo : file[f] = mem.pre[f]
  BY <1>1, WhoRuns DEF AtomicInv, Follows, Unedited, PutsBack, Alike, Reversible, TypeOK, Journals
<1>3. CASE Inspect
  <2>1. PICK f \in todo :
          /\ Last(f)
          /\ \/ /\ file[f] = mem.pre[f] /\ journal' = mem
                /\ NextInspect(todo \ {f}) /\ UNCHANGED <<copies, mem, conflict, used>>
             \/ /\ mem' = [mem EXCEPT !.saved = @ \union {f}] /\ journal' = mem'
                /\ Goto("restore", todo) /\ UNCHANGED <<conflict, used>>
             \/ Goto("restore", todo) /\ UNCHANGED <<journal, copies, mem, conflict, used>>
    BY <1>2, <1>3 DEF Inspect
  <2>2. /\ UNCHANGED <<file, plan, owner, touched, raced, conflict, outcome>>
        /\ journal' \in {journal, mem'} /\ pc' \in RollingBack
    BY <1>3, <2>1 DEF Inspect, NextInspect, Goto, RollingBack
  <2>3. /\ mem'.targets = mem.targets /\ mem'.pre = mem.pre /\ mem'.post = mem.post
        /\ mem'.backup = mem.backup /\ mem'.committed = mem.committed
    BY <2>1 DEF TypeOK, Journals
  <2>4. PutsBack'
    <3>1. \/ /\ file[f] = mem.pre[f] /\ todo' = todo \ {f}
             /\ pc' = IF todo \ {f} = {} THEN "settle" ELSE "inspect"
          \/ todo' = todo /\ pc' = "restore"
      BY <2>1 DEF NextInspect, Goto
    <3>2. QED
      BY <1>2, <2>2, <2>3, <3>1 DEF PutsBack
  <2>5. QED
    BY <1>1, <1>2, <2>2, <2>3, <2>4, AtomicRollsBack
<1>4. CASE Restore
  <2>1. PICK f \in todo : Last(f) /\ file' = Restored(f) /\ Goto("record", todo)
    BY <1>4 DEF Restore
  <2>2. /\ \A g \in Files : file'[g] # file[g] => g = f
        /\ file'[f] = mem.pre[f]
    BY <1>2, <2>1 DEF Restored, TypeOK
  <2>3. /\ UNCHANGED <<plan, owner, touched, raced, conflict, outcome, journal, mem>>
        /\ pc' = "record" /\ todo' = todo
    BY <1>4, <2>1 DEF Restore, Goto
  <2>4. PutsBack'
    <3>1. \A g \in mem.targets \ todo : file'[g] = mem.pre[g]
      BY <1>2, <2>2
    <3>2. \A g \in todo : Last(g)' => g = f
      BY <2>1, <2>3, OneLast DEF Last
    <3>3. QED
      BY <1>2, <2>2, <2>3, <3>1, <3>2 DEF PutsBack
  <2>5. \A g \in Files : file'[g] # file[g] => g \in mem.targets /\ file'[g] = mem.pre[g]
    BY <1>2, <2>2
  <2>6. pc' \in RollingBack
    BY <2>3 DEF RollingBack
  <2>7. QED
    BY <1>1, <1>2, <2>3, <2>4, <2>5, <2>6, AtomicRollsBack
<1>5. CASE Record
  <2>1. PICK f \in todo :
          /\ Last(f)
          /\ \/ /\ file[f] = mem.pre[f] /\ journal' = mem /\ NextInspect(todo \ {f})
                /\ UNCHANGED <<used, replaced, conflict>>
             \/ file[f] # mem.pre[f]
             \/ JournalFails("rollback", mem)
    BY <1>5 DEF Record
  <2>2. file[f] = mem.pre[f] /\ journal' = mem /\ NextInspect(todo \ {f})
        /\ UNCHANGED <<used, replaced, conflict>>
    BY <1>5, <2>1, NoFault DEF Record, JournalFails, AtomicInv, PutsBack
  <2>3. /\ UNCHANGED <<file, plan, owner, touched, raced, conflict, outcome, mem>>
        /\ todo' = todo \ {f} /\ pc' = IF todo \ {f} = {} THEN "settle" ELSE "inspect"
    BY <1>5, <2>2 DEF Record, NextInspect, Goto
  <2>4. PutsBack' /\ pc' \in RollingBack
    BY <1>2, <2>2, <2>3 DEF PutsBack, RollingBack
  <2>5. QED
    BY <1>1, <1>2, <2>2, <2>3, <2>4, AtomicRollsBack
<1>6. CASE Settle
  <2>1. pc = "settle" /\ \A f \in mem.targets : file[f] = mem.pre[f]
    BY <1>2, <1>6 DEF Settle, AtomicInv, PutsBack
  <2>2. /\ journal' = None /\ Proven /\ UNCHANGED <<file, copies, mem>>
    BY <1>2, <1>6, <2>1, NoFault DEF Settle, JournalFails
  <2>3. /\ outcome' \in {outcome, "failed"} /\ pc' = "idle" /\ UNCHANGED conflict
    BY <2>2 DEF Proven, Finish
  <2>4. Harmless /\ Harmless'
    BY <1>2, <2>1, <2>2 DEF Harmless, Alike
  <2>5. Unseen
    BY <1>1, <2>2, <2>3, <2>4, CountedIs DEF Unseen
  <2>6. QED
    BY <1>1, <1>2, <2>2, <2>3, <2>4, <2>5 DEF AtomicInv, Unedited, Shelved, Follows, PutsBack,
       Preparing, Journaled, RollingBack
<1>7. ~ InspectFails
  BY NoFault DEF InspectFails, JournalFails
<1>8. ~ RestoreFails
  <2>1. ASSUME NEW f \in todo PROVE CanRestore(f) /\ mem.backup[f] = mem.pre[f]
    BY <1>1, <1>2, <2>1 DEF BackupInv, Backed, CanRestore
  <2>2. QED
    BY <2>1, NoFault DEF RestoreFails
<1>9. QED
  BY <1>3, <1>4, <1>5, <1>6, <1>7, <1>8

LEMMA AtomicStep ==
  ASSUME Quiet, TypeOK, TypeOK', BackupInv, ReplyInv, ReplyInv', EditInv, AtomicInv, [Next]_vars
  PROVE  AtomicInv' /\ [Promise!Next]_(Promise!vars)
<1>1. (AtomicInv' /\ Unseen) \/ (AtomicInv' /\ Promise!Next)
  <2>1. CASE Operation
    BY <2>1, AtomicPreparing, AtomicChecks, AtomicCommits, AtomicEnds, AtomicPutsBack
       DEF Operation
  <2>2. ASSUME NEW s \in Sessions, Accept(s) PROVE AtomicInv' /\ Promise!Next
    BY <2>2, AtomicAccepts
  <2>3. CASE Crash \/ UNCHANGED vars \/ \E s \in Sessions :
               \/ Start(s) \/ StartDisabled(s) \/ StartRecovering(s) \/ StartIsolated(s)
               \/ Refuse(s) \/ WriteIsolated(s)
    BY <2>3, AtomicOutside
  <2>4. QED
    BY <2>1, <2>2, <2>3, NoFault DEF Next
<1>2. CASE AtomicInv' /\ Unseen
  <2>1. Unedited /\ Unedited' /\ RepliesAreTrue'
    BY <1>2 DEF AtomicInv, ReplyInv
  <2>2. QED
    BY <1>2, <2>1, UnseenKeepsPromise
<1>3. QED
  BY <1>1, <1>2

\* Whatever fails before the commit point, whoever dies at whatever step and however many
\* sessions follow, the planned files change together, at the commit point, or not at
\* all, and the reply tells which (journal.rs execute_plan, recover_locked).  It holds
\* when no other program edits the files meanwhile and no disk access of the commit or
\* of a rollback fails; otherwise the code does not keep it.
THEOREM WriteImplemented ==
  ASSUME MaxEdits = 0, FaultAt \intersect {"commit", "rollback"} = {}
  PROVE  Spec => ImplementsAtomicWrite
<1>1. Quiet
  BY DEF Quiet
<1>2. Init => AtomicInv /\ Promise!Init
  <2> SUFFICES ASSUME Init PROVE AtomicInv /\ Promise!Init
    OBVIOUS
  <2>1. AtomicInv
    BY DEF Init, AtomicInv, Unedited, Shelved, Harmless, Follows, PutsBack, Preparing, Journaled,
           RollingBack
  <2>2. Shown = [f \in Files |-> file[f]]
    BY DEF Init, Shown, Pending
  <2>3. Promise!Init
    BY <2>2 DEF Init, Promise!Init, Shown, NoPlan
  <2>4. QED
    BY <2>1, <2>3
<1>3. Init => ReplyInv
  BY DEF Init, ReplyInv, Unanswered, Agrees, Remembers, Advances, Writing, RepliesAreTrue
<1>4. Init => EditInv
  BY DEF Init, EditInv, Checked, KeptAside, NoPlan, Fresh
<1>5. TypeOK /\ TypeOK' /\ ReplyInv /\ [Next]_vars => ReplyInv'
  BY ReplyStep
<1>6. TypeOK /\ TypeOK' /\ ReplyInv /\ EditInv /\ [Next]_vars => EditInv'
  BY EditStep
<1>7. TypeOK /\ TypeOK' /\ BackupInv /\ ReplyInv /\ ReplyInv' /\ EditInv /\ AtomicInv /\ [Next]_vars
        => AtomicInv' /\ [Promise!Next]_(Promise!vars)
  BY <1>1, AtomicStep
<1>8. QED
  BY <1>2, <1>3, <1>4, <1>5, <1>6, <1>7, TypeCorrect, BackupHolds, PTL
     DEF Spec, ImplementsAtomicWrite, Promise!Spec

-------------------------------------------------------------------------------
(* The plans: what is in the files. *)

\* The keys of two functions laid one over the other, and of one with entries left out.
LEMMA OverHas ==
  ASSUME NEW f, NEW g
  PROVE  /\ DOMAIN Over(f, g) = DOMAIN f \union DOMAIN g
         /\ \A e \in DOMAIN f : Over(f, g)[e] = f[e]
         /\ \A e \in DOMAIN g \ DOMAIN f : Over(f, g)[e] = g[e]
  BY DEF Over

LEMMA WithoutHas ==
  ASSUME NEW f, NEW S
  PROVE  /\ DOMAIN Without(f, S) = DOMAIN f \ S
         /\ \A e \in DOMAIN f \ S : Without(f, S)[e] = f[e]
  BY DEF Without, Restrict

LEMMA NothingHas == DOMAIN Nothing = {}
  BY DEF Nothing

\* Where each file is.
LEMMA PathTable ==
  /\ AgentOf("claude") = "claude" /\ AgentOf("claude_env") = "claude"
  /\ AgentOf("json") = "opencode" /\ AgentOf("jsonc") = "opencode"
  /\ AgentOf("config") = "codex" /\ AgentOf("auth") = "codex"
  /\ Kind("claude") = "claude" /\ Kind("claude_env") = "claude"
  /\ Kind("json") = "opencode" /\ Kind("jsonc") = "opencode"
  /\ Kind("config") = "config" /\ Kind("auth") = "auth"
  BY DEF AgentOf, Kind

\* The entries a section of an agent owns, and those a configuration may set in a
\* file of a kind.
OwnedBy(agent, config) ==
  IF agent = "claude" THEN {"managed"} \union Optional(config)
  ELSE IF agent = "opencode" THEN {"provider", "model"}
  ELSE {"provider", "roots", "store", "login"} \union Optional(config)
RenderedValue(kind, e) ==
  IF kind = "claude" THEN (IF e \in {"managed", "optional"} THEN Configs ELSE {})
  ELSE IF kind = "opencode" THEN (IF e \in {"provider", "model"} THEN Configs ELSE {})
  ELSE IF kind = "config"
       THEN (IF e \in {"provider", "store"} THEN {Router}
             ELSE IF e \in {"roots", "optional"} THEN Configs ELSE {})
  ELSE (IF e = "login" THEN {Router} ELSE {})

\* What a file may be: nothing of the manager's but where it belongs.
Bare == {Missing, Broken, Unusable, Irregular, Shapeless}
FileFits(path, f) ==
  \/ f \in Bare
  \/ /\ f = Document(f.has)
     /\ DOMAIN f.has \subseteq Entries(Kind(path))
     /\ "comments" \in DOMAIN f.has => path = "jsonc"
     /\ \A e \in DOMAIN f.has :
          f.has[e] \in OthersValue(e) \union RenderedValue(Kind(path), e)

Kinds == {"claude", "opencode", "config", "auth"}

LEMMA ValuesApart ==
  ASSUME NEW v
  PROVE  /\ v \in Foreign => v \notin Rendered
         /\ v \in Configs => v \in Rendered
         /\ Router \in Rendered
         /\ v \in Rendered => v \in Configs \/ v = Router
         /\ User # Own /\ User # Router /\ User # Legacy /\ Own # Router
         /\ Router \notin Configs
         /\ Legacy \notin Configs
  BY ConfigsAssumption DEF Foreign, Rendered, User, Own, Legacy, Router

\* Values of others are not the manager's.
LEMMA OthersAreForeign ==
  ASSUME NEW e PROVE OthersValue(e) \subseteq Foreign
  BY DEF OthersValue, Foreign

\* A fragment sets exactly what is owned in its kind of file, to rendered values.
LEMMA FragmentHas ==
  ASSUME NEW c \in Configs
  PROVE  /\ DOMAIN Fragment("claude", c) = {"managed"} \union Optional(c)
         /\ DOMAIN Fragment("opencode", c) = {"provider", "model"}
         /\ DOMAIN Fragment("config", c) = {"provider", "roots", "store"} \union Optional(c)
         /\ DOMAIN Fragment("auth", c) = {"login"}
         /\ Optional(c) \subseteq {"optional"}
         /\ \A k \in Kinds : \A e \in DOMAIN Fragment(k, c) :
              /\ Fragment(k, c)[e] \in RenderedValue(k, e)
              /\ e \in Entries(k)
<1>1. /\ Fragment("claude", c) = ClaudeEnv(c) /\ Fragment("opencode", c) = OpenCodeFragment(c)
      /\ Fragment("config", c) = CodexTable(c) /\ Fragment("auth", c) = CodexAuth
  BY DEF Fragment
<1>2. Optional(c) \subseteq {"optional"}
  BY DEF Optional
<1>3. /\ DOMAIN ClaudeEnv(c) = {"managed"} \union Optional(c)
      /\ DOMAIN OpenCodeFragment(c) = {"provider", "model"}
      /\ DOMAIN CodexTable(c) = {"provider", "roots", "store"} \union Optional(c)
      /\ DOMAIN CodexAuth = {"login"}
  BY DEF ClaudeEnv, OpenCodeFragment, CodexTable, CodexAuth
<1>4. ASSUME NEW k \in Kinds, NEW e \in DOMAIN Fragment(k, c)
      PROVE  Fragment(k, c)[e] \in RenderedValue(k, e) /\ e \in Entries(k)
  <2>1. CASE k = "claude"
    BY <1>1, <1>2, <1>3, <1>4, <2>1 DEF ClaudeEnv, RenderedValue, Entries
  <2>2. CASE k = "opencode"
    BY <1>1, <1>2, <1>3, <1>4, <2>2 DEF OpenCodeFragment, RenderedValue, Entries
  <2>3. CASE k = "config"
    BY <1>1, <1>2, <1>3, <1>4, <2>3 DEF CodexTable, RenderedValue, Entries
  <2>4. CASE k = "auth"
    BY <1>1, <1>2, <1>3, <1>4, <2>4 DEF CodexAuth, RenderedValue, Entries
  <2>5. QED
    BY <2>1, <2>2, <2>3, <2>4 DEF Kinds
<1>5. QED
  BY <1>1, <1>2, <1>3, <1>4

\* Which files an agent has now.
LEMMA CurrentTable ==
  /\ Current("claude") = {"claude"} \/ Current("claude") = {"claude_env"}
  /\ \/ /\ Current("opencode") = {"json"}
     \/ /\ Current("opencode") = {"jsonc"}
        /\ ~Regular(files["json"]) /\ Regular(files["jsonc"])
  /\ Current("codex") = {"config", "auth"}
  BY DEF Current

LEMMA OwnedTable ==
  ASSUME NEW a \in Agents, NEW c \in Configs
  PROVE  Owned(a, c) = OwnedBy(a, c)
<1>1. CASE a = "claude"
  <2>1. {Kind(p) : p \in Current(a)} = {"claude"}
    BY <1>1, CurrentTable, PathTable
  <2>2. Owned(a, c) = UNION {OwnedIn(k, c) : k \in {"claude"}}
    BY <2>1 DEF Owned
  <2>3. Owned(a, c) = DOMAIN Fragment("claude", c)
    BY <2>2 DEF OwnedIn
  <2>4. QED
    BY <1>1, <2>3, FragmentHas DEF OwnedBy
<1>2. CASE a = "opencode"
  <2>1. {Kind(p) : p \in Current(a)} = {"opencode"}
    BY <1>2, CurrentTable, PathTable
  <2>2. Owned(a, c) = UNION {OwnedIn(k, c) : k \in {"opencode"}}
    BY <2>1 DEF Owned
  <2>3. Owned(a, c) = DOMAIN Fragment("opencode", c)
    BY <2>2 DEF OwnedIn
  <2>4. QED
    BY <1>2, <2>3, FragmentHas DEF OwnedBy
<1>3. CASE a = "codex"
  <2>1. {Kind(p) : p \in Current(a)} = {"config", "auth"}
    BY <1>3, CurrentTable, PathTable
  <2>2. Owned(a, c) = UNION {OwnedIn(k, c) : k \in {"config", "auth"}}
    BY <2>1 DEF Owned
  <2>3. Owned(a, c) = DOMAIN Fragment("config", c) \union DOMAIN Fragment("auth", c)
    BY <2>2 DEF OwnedIn
  <2>4. QED
    BY <1>3, <2>3, FragmentHas DEF OwnedBy
<1>4. QED
  BY <1>1, <1>2, <1>3 DEF Agents

\* The files a plan reads, and where it writes what it makes of one.
Sources(modes) == UNION {Current(a) : a \in DOMAIN modes}
To(p, modes) == Target(p, modes[AgentOf(p)])
Homes(a, modes) == {To(p, modes) : p \in Current(a)}

LEMMA SourceFacts ==
  ASSUME NEW A \in SUBSET Agents, NEW modes \in Modes(A)
  PROVE  /\ DOMAIN modes = A
         /\ \A a \in A : modes[a] \in {"merge", "rebuild"}
         /\ \A p \in Sources(modes) : p \in Paths /\ AgentOf(p) \in A /\ p \in Current(AgentOf(p))
         /\ \A a \in A : \A p \in Current(a) : p \in Sources(modes) /\ AgentOf(p) = a
<1>1. /\ DOMAIN modes = A
      /\ \A a \in A : modes[a] \in {"merge", "rebuild"}
  BY DEF Modes
<1>2. \A a \in Agents : \A p \in Current(a) : p \in Paths /\ AgentOf(p) = a
  BY CurrentTable, PathTable DEF Agents, Paths
<1>3. QED
  BY <1>1, <1>2 DEF Sources

LEMMA TargetFacts ==
  ASSUME NEW A \in SUBSET Agents, NEW modes \in Modes(A), NEW p \in Sources(modes)
  PROVE  /\ To(p, modes) \in Paths
         /\ AgentOf(To(p, modes)) = AgentOf(p)
         /\ Kind(To(p, modes)) = Kind(p)
         /\ To(p, modes) # p => p = "jsonc" /\ To(p, modes) = "json"
         /\ p = "jsonc" /\ modes["opencode"] = "merge" => To(p, modes) = "json"
         /\ p = "jsonc" /\ modes["opencode"] = "rebuild" => To(p, modes) = "jsonc"
         /\ \A q \in Sources(modes) : To(q, modes) = To(p, modes) => q = p
<1>1. \A q \in Sources(modes) : q \in Paths /\ AgentOf(q) \in A /\ q \in Current(AgentOf(q))
  BY SourceFacts
<1>2. \A q : \/ To(q, modes) = q
             \/ q = "jsonc" /\ To(q, modes) = "json" /\ modes[AgentOf(q)] = "merge"
  BY DEF To, Target
<1>3. /\ To(p, modes) \in Paths
      /\ AgentOf(To(p, modes)) = AgentOf(p)
      /\ Kind(To(p, modes)) = Kind(p)
      /\ To(p, modes) # p => p = "jsonc" /\ To(p, modes) = "json"
  BY <1>1, <1>2, PathTable, CurrentTable DEF Paths
<1>4. ASSUME NEW q \in Sources(modes), To(q, modes) = To(p, modes) PROVE q = p
  <2>1. ~ ("json" \in Sources(modes) /\ "jsonc" \in Sources(modes))
    BY <1>1, PathTable, CurrentTable
  <2>2. QED
    BY <1>2, <1>4, <2>1
<1>5. /\ p = "jsonc" /\ modes["opencode"] = "merge" => To(p, modes) = "json"
      /\ p = "jsonc" /\ modes["opencode"] = "rebuild" => To(p, modes) = "jsonc"
  BY PathTable DEF To, Target
<1>6. QED
  BY <1>3, <1>4, <1>5

LEMMA EffectHas ==
  ASSUME NEW A \in SUBSET Agents, NEW modes \in Modes(A), NEW c
  PROVE  /\ DOMAIN Effect(modes, c) = {To(p, modes) : p \in Sources(modes)}
         /\ \A p \in Sources(modes) :
              Effect(modes, c)[To(p, modes)] = Output(p, modes[AgentOf(p)], c)
<1>1. Effect(modes, c) =
        [t \in {To(p, modes) : p \in Sources(modes)} |->
           LET p == CHOOSE q \in Sources(modes) : To(q, modes) = t
           IN Output(p, modes[AgentOf(p)], c)]
  BY DEF Effect, Sources, To
<1>2. ASSUME NEW p \in Sources(modes)
      PROVE  (CHOOSE q \in Sources(modes) : To(q, modes) = To(p, modes)) = p
  BY TargetFacts
<1>3. QED
  BY <1>1, <1>2

\* What a plan keeps of a file's entries: none on a rebuild.
Dropped(p, mode, c) ==
  IF mode = "rebuild" THEN DOMAIN files[p].has
  ELSE IF Kind(p) = "opencode" THEN {"comments"}
  ELSE IF Kind(p) = "auth" THEN {"tokens"}
  ELSE Obsolete(AgentOf(p), c)
       \union (IF Kind(p) = "config" /\ Historical(files["config"].has, files["auth"].has)
               THEN {"custom"} ELSE {})

\* Every output is the fragment over what is kept.
LEMMA OutputHas ==
  ASSUME NEW p \in Paths, NEW mode \in {"merge", "rebuild"}, NEW c \in Configs
  PROVE  Output(p, mode, c)
           = Document(Over(Fragment(Kind(p), c), Without(files[p].has, Dropped(p, mode, c))))
<1>1. Kind(p) \in Kinds /\ (Kind(p) = "config" => p = "config")
  BY PathTable DEF Paths, Kinds
<1>2. CASE mode = "rebuild"
  <2>1. Output(p, mode, c) = Document(Fragment(Kind(p), c))
    BY <1>2 DEF Output
  <2>2. Fragment(Kind(p), c) = [e \in DOMAIN Fragment(Kind(p), c) |-> Fragment(Kind(p), c)[e]]
    BY <1>1 DEF Kinds, Fragment, ClaudeEnv, OpenCodeFragment, CodexTable, CodexAuth
  <2>3. DOMAIN Without(files[p].has, Dropped(p, mode, c)) = {}
    <3>1. Dropped(p, mode, c) = DOMAIN files[p].has
      BY <1>2 DEF Dropped
    <3>2. DOMAIN Without(files[p].has, DOMAIN files[p].has) = DOMAIN files[p].has \ DOMAIN files[p].has
      BY WithoutHas
    <3>3. QED
      BY <3>1, <3>2
  <2>4. Over(Fragment(Kind(p), c), Without(files[p].has, Dropped(p, mode, c))) = Fragment(Kind(p), c)
    BY <2>2, <2>3 DEF Over
  <2>5. QED
    BY <2>1, <2>4
<1>3. CASE mode = "merge" /\ Kind(p) = "claude"
  <2>1. Dropped(p, mode, c) = Obsolete(AgentOf(p), c)
    BY <1>3 DEF Dropped
  <2>2. Output(p, mode, c) = Document(MergeClaude(files[p].has, c, Obsolete(AgentOf(p), c)))
    BY <1>3 DEF Output
  <2>3. QED
    BY <1>3, <2>1, <2>2 DEF MergeClaude, Fragment
<1>4. CASE mode = "merge" /\ Kind(p) = "opencode"
  <2>1. Dropped(p, mode, c) = {"comments"}
    BY <1>4 DEF Dropped
  <2>2. Output(p, mode, c) = Document(MergeOpenCode(files[p].has, c))
    BY <1>4 DEF Output
  <2>3. QED
    BY <1>4, <2>1, <2>2 DEF MergeOpenCode, Fragment
<1>5. CASE mode = "merge" /\ Kind(p) = "config"
  <2>1. Output(p, mode, c) = Document(MergeCodex(files[p].has, c, Obsolete(AgentOf(p), c),
                                      Historical(files[p].has, files["auth"].has)))
    BY <1>5 DEF Output
  <2>2. Dropped(p, mode, c) = Obsolete(AgentOf(p), c)
           \union (IF Historical(files[p].has, files["auth"].has) THEN {"custom"} ELSE {})
    BY <1>1, <1>5 DEF Dropped
  <2>3. QED
    BY <1>5, <2>1, <2>2 DEF MergeCodex, Fragment
<1>6. CASE mode = "merge" /\ Kind(p) = "auth"
  <2>1. Dropped(p, mode, c) = {"tokens"}
    BY <1>6 DEF Dropped
  <2>2. Output(p, mode, c) = Document(MergeAuth(files[p].has))
    BY <1>6 DEF Output
  <2>3. QED
    BY <1>6, <2>1, <2>2 DEF MergeAuth, Fragment
<1>7. QED
  BY <1>1, <1>2, <1>3, <1>4, <1>5, <1>6 DEF Kinds

-------------------------------------------------------------------------------
(* The plans: the files and the sections stay what the manager can make sense of. *)

\* A file of a section: it holds the section's fragment, and nothing a plan of the
\* same configuration would take out or refuse.
Settled(path, config, f) ==
  /\ f = Document(f.has)
  /\ FileFits(path, f)
  /\ Over(Fragment(Kind(path), config), f.has) = f.has
  /\ {"comments", "tokens", "policy"} \intersect DOMAIN f.has = {}
Places(agent) ==
  IF agent = "claude" THEN {{"claude"}, {"claude_env"}}
  ELSE IF agent = "opencode" THEN {{"json"}, {"jsonc"}}
  ELSE {{"config", "auth"}}
SectionFits(agent, s) ==
  /\ s.config \in Configs
  /\ s.owned = OwnedBy(agent, s.config)
  /\ DOMAIN s.at \in Places(agent)
  /\ s.at = [p \in DOMAIN s.at |-> s.at[p]]
  /\ \A p \in DOMAIN s.at : Settled(p, s.config, s.at[p])

FilesFit ==
  /\ DOMAIN files = Paths /\ files = [p \in Paths |-> files[p]]
  /\ \A p \in Paths : FileFits(p, files[p])
SectionsFit ==
  /\ DOMAIN sidecar \subseteq Agents
  /\ \A a \in DOMAIN sidecar : SectionFits(a, sidecar[a])
DiskInv == FilesFit /\ SectionsFit /\ ManagedIsRecorded

LEMMA FileHas ==
  ASSUME NEW p, NEW f, FileFits(p, f)
  PROVE  /\ DOMAIN f.has \subseteq Entries(Kind(p))
         /\ "comments" \in DOMAIN f.has => p = "jsonc"
         /\ \A e \in DOMAIN f.has :
              f.has[e] \in OthersValue(e) \union RenderedValue(Kind(p), e)
         /\ f \in Bare => DOMAIN f.has = {}
<1>1. f \in Bare => DOMAIN f.has = {}
  BY NothingHas DEF Bare, Missing, Broken, Unusable, Irregular, Shapeless
<1>2. QED
  BY <1>1 DEF FileFits

LEMMA KindOfPath ==
  ASSUME NEW p \in Paths
  PROVE  /\ Kind(p) \in Kinds /\ AgentOf(p) \in Agents
         /\ Kind(p) = "claude" <=> AgentOf(p) = "claude"
         /\ Kind(p) = "opencode" <=> AgentOf(p) = "opencode"
         /\ Kind(p) \in {"config", "auth"} <=> AgentOf(p) = "codex"
         /\ Kind(p) = "config" <=> p = "config"
         /\ Kind(p) = "auth" <=> p = "auth"
         /\ Kind(p) = "opencode" <=> p \in {"json", "jsonc"}
         /\ Kind(p) = "claude" <=> p \in {"claude", "claude_env"}
  BY PathTable DEF Paths, Kinds, Agents

\* What the fragment owns, by kind.
LEMMA FragmentOwns ==
  ASSUME NEW p \in Paths, NEW c \in Configs
  PROVE  /\ DOMAIN Fragment(Kind(p), c) \subseteq OwnedBy(AgentOf(p), c)
         /\ \A e \in OwnedBy(AgentOf(p), c) :
              RenderedValue(Kind(p), e) # {} => e \in DOMAIN Fragment(Kind(p), c)
         /\ \A e : RenderedValue(Kind(p), e) # {} =>
              e \in DOMAIN Fragment(Kind(p), c) \/ (e = "optional" /\ Kind(p) \in {"claude", "config"})
<1>0. Optional(c) \subseteq {"optional"}
  BY FragmentHas
<1>1. CASE Kind(p) = "claude"
  <2>1. DOMAIN Fragment(Kind(p), c) = {"managed"} \union Optional(c)
    BY <1>1, FragmentHas
  <2>2. OwnedBy(AgentOf(p), c) = {"managed"} \union Optional(c)
    BY <1>1, KindOfPath DEF OwnedBy
  <2>3. \A e : RenderedValue(Kind(p), e) # {} => e \in {"managed", "optional"}
    BY <1>1 DEF RenderedValue
  <2>4. QED
    BY <1>0, <1>1, <2>1, <2>2, <2>3
<1>2. CASE Kind(p) = "opencode"
  <2>1. DOMAIN Fragment(Kind(p), c) = {"provider", "model"}
    BY <1>2, FragmentHas
  <2>2. OwnedBy(AgentOf(p), c) = {"provider", "model"}
    BY <1>2, KindOfPath DEF OwnedBy
  <2>3. \A e : RenderedValue(Kind(p), e) # {} => e \in {"provider", "model"}
    BY <1>2 DEF RenderedValue
  <2>4. DOMAIN Fragment(Kind(p), c) \subseteq OwnedBy(AgentOf(p), c)
    BY <2>1, <2>2
  <2>5. \A e : RenderedValue(Kind(p), e) # {} => e \in DOMAIN Fragment(Kind(p), c)
    BY <2>1, <2>3
  <2>6. QED
    BY <2>4, <2>5
<1>3. CASE Kind(p) = "config"
  <2>1. DOMAIN Fragment(Kind(p), c) = {"provider", "roots", "store"} \union Optional(c)
    BY <1>3, FragmentHas
  <2>2. OwnedBy(AgentOf(p), c) = {"provider", "roots", "store", "login"} \union Optional(c)
    BY <1>3, KindOfPath DEF OwnedBy
  <2>3. \A e : RenderedValue(Kind(p), e) # {} => e \in {"provider", "store", "roots", "optional"}
    BY <1>3 DEF RenderedValue
  <2>4. QED
    BY <1>0, <1>3, <2>1, <2>2, <2>3
<1>4. CASE Kind(p) = "auth"
  <2>1. DOMAIN Fragment(Kind(p), c) = {"login"}
    BY <1>4, FragmentHas
  <2>2. OwnedBy(AgentOf(p), c) = {"provider", "roots", "store", "login"} \union Optional(c)
    BY <1>4, KindOfPath DEF OwnedBy
  <2>3. \A e : RenderedValue(Kind(p), e) # {} => e \in {"login"}
    BY <1>4 DEF RenderedValue
  <2>4. DOMAIN Fragment(Kind(p), c) \subseteq OwnedBy(AgentOf(p), c)
    BY <2>1, <2>2
  <2>5. \A e : RenderedValue(Kind(p), e) # {} => e \in DOMAIN Fragment(Kind(p), c)
    BY <2>1, <2>3
  <2>6. QED
    BY <2>4, <2>5
<1>5. QED
  BY <1>1, <1>2, <1>3, <1>4, KindOfPath DEF Kinds

\* A value of the manager's is where it may be.
LEMMA RenderedIsHere ==
  ASSUME NEW p, NEW f, FileFits(p, f), NEW e \in DOMAIN f.has, f.has[e] \in Rendered
  PROVE  f.has[e] \in RenderedValue(Kind(p), e)
<1>1. f.has[e] \in OthersValue(e) \union RenderedValue(Kind(p), e)
  BY FileHas
<1>2. f.has[e] \notin OthersValue(e)
  BY OthersAreForeign, ValuesApart
<1>3. QED
  BY <1>1, <1>2

\* The entries of what a plan makes of a file.
LEMMA OutputEntries ==
  ASSUME NEW p \in Paths, NEW mode \in {"merge", "rebuild"}, NEW c \in Configs
  PROVE  /\ DOMAIN Output(p, mode, c).has
              = DOMAIN Fragment(Kind(p), c) \union (DOMAIN files[p].has \ Dropped(p, mode, c))
         /\ \A e \in DOMAIN Fragment(Kind(p), c) :
              Output(p, mode, c).has[e] = Fragment(Kind(p), c)[e]
         /\ \A e \in DOMAIN files[p].has \ (Dropped(p, mode, c) \union DOMAIN Fragment(Kind(p), c)) :
              Output(p, mode, c).has[e] = files[p].has[e]
         /\ Output(p, mode, c) = Document(Output(p, mode, c).has)
         /\ Over(Fragment(Kind(p), c), Output(p, mode, c).has) = Output(p, mode, c).has
<1>1. PICK f : f = Fragment(Kind(p), c)
  OBVIOUS
<1>2. PICK d : d = Dropped(p, mode, c)
  OBVIOUS
<1>3. PICK w : w = Without(files[p].has, d)
  OBVIOUS
<1>4. Output(p, mode, c) = Document(Over(f, w))
  BY <1>1, <1>2, <1>3, OutputHas
<1>5. Output(p, mode, c).has = Over(f, w)
  BY <1>4 DEF Document
<1>6. /\ DOMAIN w = DOMAIN files[p].has \ d
      /\ \A e \in DOMAIN files[p].has \ d : w[e] = files[p].has[e]
  BY <1>3, WithoutHas
<1>7. /\ DOMAIN Over(f, w) = DOMAIN f \union DOMAIN w
      /\ \A e \in DOMAIN f : Over(f, w)[e] = f[e]
      /\ \A e \in DOMAIN w \ DOMAIN f : Over(f, w)[e] = w[e]
  BY OverHas
<1>8. Over(f, Over(f, w)) = Over(f, w)
  BY <1>7 DEF Over
<1>9. QED
  BY <1>1, <1>2, <1>4, <1>5, <1>6, <1>7, <1>8

\* Nothing a plan would refuse or take out is in what it makes.
LEMMA OutputSettled ==
  ASSUME DiskInv, NEW A \in SUBSET Agents, NEW modes \in Modes(A), NEW c \in Configs,
         Plannable(modes), NEW p \in Sources(modes)
  PROVE  Settled(To(p, modes), c, Output(p, modes[AgentOf(p)], c))
<1>1. PICK mode \in {"merge", "rebuild"} : mode = modes[AgentOf(p)]
  BY SourceFacts
<1>2. PICK t : t = To(p, modes)
  OBVIOUS
<1>3. PICK o : o = Output(p, mode, c)
  OBVIOUS
<1>4. /\ p \in Paths /\ t \in Paths /\ Kind(t) = Kind(p) /\ Kind(p) \in Kinds
      /\ p = "jsonc" /\ mode = "merge" => t = "json"
      /\ p # "jsonc" \/ mode = "rebuild" => t = p
  BY <1>1, <1>2, SourceFacts, TargetFacts, KindOfPath, PathTable
<1>5. /\ DOMAIN o.has
              = DOMAIN Fragment(Kind(p), c) \union (DOMAIN files[p].has \ Dropped(p, mode, c))
      /\ \A e \in DOMAIN Fragment(Kind(p), c) : o.has[e] = Fragment(Kind(p), c)[e]
      /\ \A e \in DOMAIN files[p].has \ (Dropped(p, mode, c) \union DOMAIN Fragment(Kind(p), c)) :
              o.has[e] = files[p].has[e]
      /\ o = Document(o.has)
      /\ Over(Fragment(Kind(p), c), o.has) = o.has
  BY <1>3, <1>4, OutputEntries
<1>6. /\ DOMAIN files[p].has \subseteq Entries(Kind(p))
      /\ "comments" \in DOMAIN files[p].has => p = "jsonc"
      /\ \A e \in DOMAIN files[p].has :
           files[p].has[e] \in OthersValue(e) \union RenderedValue(Kind(p), e)
  BY <1>4, FileHas DEF DiskInv, FilesFit
<1>7. \A e \in DOMAIN Fragment(Kind(p), c) :
        /\ Fragment(Kind(p), c)[e] \in RenderedValue(Kind(p), e)
        /\ e \in Entries(Kind(p))
        /\ e \notin {"comments", "tokens", "policy"}
  <2>1. \A e \in DOMAIN Fragment(Kind(p), c) :
          /\ Fragment(Kind(p), c)[e] \in RenderedValue(Kind(p), e)
          /\ e \in Entries(Kind(p))
    BY <1>4, FragmentHas
  <2>2. \A e \in {"comments", "tokens", "policy"} : RenderedValue(Kind(p), e) = {}
    BY DEF RenderedValue
  <2>3. QED
    BY <2>1, <2>2
<1>8. /\ DOMAIN o.has \subseteq Entries(Kind(p))
      /\ \A e \in DOMAIN o.has : o.has[e] \in OthersValue(e) \union RenderedValue(Kind(p), e)
  BY <1>5, <1>6, <1>7
<1>9. \A e \in {"comments", "tokens", "policy"} : e \notin DOMAIN o.has
  <2>1. CASE mode = "rebuild"
    <3>1. Dropped(p, mode, c) = DOMAIN files[p].has
      BY <2>1 DEF Dropped
    <3>2. QED
      BY <3>1, <1>5, <1>7
  <2>2. CASE mode = "merge"
    <3>1. "comments" \notin DOMAIN o.has
      <4>1. CASE p = "jsonc"
        <5>1. Dropped(p, mode, c) = {"comments"}
          BY <2>2, <4>1, PathTable DEF Dropped
        <5>2. QED
          BY <5>1, <1>5, <1>7
      <4>2. CASE p # "jsonc"
        BY <4>2, <1>5, <1>6, <1>7
      <4>3. QED
        BY <4>1, <4>2
    <3>2. "tokens" \notin DOMAIN o.has
      <4>1. CASE Kind(p) = "auth"
        <5>1. Dropped(p, mode, c) = {"tokens"}
          BY <2>2, <4>1 DEF Dropped
        <5>2. QED
          BY <5>1, <1>5, <1>7
      <4>2. CASE Kind(p) # "auth"
        <5>1. "tokens" \notin Entries(Kind(p))
          BY <1>4, <4>2 DEF Entries, Kinds
        <5>2. QED
          BY <5>1, <1>8
      <4>3. QED
        BY <4>1, <4>2
    <3>3. "policy" \notin DOMAIN o.has
      <4>1. CASE Kind(p) = "config"
        <5>1. p = "config" /\ "codex" \in A /\ modes["codex"] = "merge" /\ DOMAIN modes = A
          <6>1. p = "config"
            BY <1>4, <4>1, KindOfPath
          <6>2. AgentOf(p) \in A /\ DOMAIN modes = A
            BY SourceFacts
          <6>3. AgentOf(p) = "codex"
            BY <6>1, PathTable
          <6>4. QED
            BY <1>1, <2>2, <6>1, <6>2, <6>3
        <5>2. "policy" \notin DOMAIN files[p].has
          BY <5>1 DEF Plannable, Mergeable, PolicyForbids, Named
        <5>3. QED
          BY <5>2, <1>5, <1>7
      <4>2. CASE Kind(p) # "config"
        <5>1. "policy" \notin Entries(Kind(p))
          BY <1>4, <4>2 DEF Entries, Kinds
        <5>2. QED
          BY <5>1, <1>8
      <4>3. QED
        BY <4>1, <4>2
    <3>4. QED
      BY <3>1, <3>2, <3>3
  <2>3. QED
    BY <2>1, <2>2
<1>10. FileFits(t, o)
  BY <1>4, <1>5, <1>8, <1>9 DEF FileFits
<1>11. QED
  BY <1>1, <1>2, <1>3, <1>4, <1>5, <1>9, <1>10 DEF Settled

\* The section a plan writes for each of its agents.
LEMMA SectionsHave ==
  ASSUME NEW A \in SUBSET Agents, NEW modes \in Modes(A), NEW c \in Configs, NEW a \in A
  PROVE  /\ DOMAIN Sections(modes, c) = A
         /\ Sections(modes, c)[a].config = c
         /\ Sections(modes, c)[a].owned = OwnedBy(a, c)
         /\ DOMAIN Sections(modes, c)[a].at = Homes(a, modes)
         /\ \A p \in Current(a) :
              Sections(modes, c)[a].at[To(p, modes)] = Output(p, modes[AgentOf(p)], c)
         /\ Sections(modes, c)[a].at
              = [p \in DOMAIN Sections(modes, c)[a].at |-> Sections(modes, c)[a].at[p]]
<1>1. DOMAIN modes = A /\ a \in Agents
  BY SourceFacts
<1>2. \A p \in Current(a) : p \in Sources(modes) /\ AgentOf(p) = a
  BY SourceFacts
<1>3. PICK places : places = {Target(p, modes[a]) : p \in Current(a)}
  OBVIOUS
<1>4. places = Homes(a, modes)
  BY <1>2, <1>3 DEF To, Homes
<1>5. PICK s : s = Sections(modes, c)[a]
  OBVIOUS
<1>6. /\ DOMAIN Sections(modes, c) = A
      /\ s = [config |-> c, owned |-> Owned(a, c), at |-> Restrict(Effect(modes, c), places)]
  BY <1>1, <1>3, <1>5 DEF Sections
<1>7. s.config = c /\ s.owned = OwnedBy(a, c) /\ s.at = Restrict(Effect(modes, c), places)
  BY <1>1, <1>6, OwnedTable
<1>8. /\ DOMAIN s.at = places
      /\ \A t \in places : s.at[t] = Effect(modes, c)[t]
      /\ s.at = [p \in DOMAIN s.at |-> s.at[p]]
  BY <1>7 DEF Restrict
<1>9. \A p \in Current(a) : Effect(modes, c)[To(p, modes)] = Output(p, modes[AgentOf(p)], c)
  BY <1>2, EffectHas
<1>10. \A p \in Current(a) : To(p, modes) \in places
  BY <1>4 DEF Homes
<1>11. QED
  BY <1>4, <1>5, <1>6, <1>7, <1>8, <1>9, <1>10

\* The places of a section a plan writes.
LEMMA SectionPlaces ==
  ASSUME NEW A \in SUBSET Agents, NEW modes \in Modes(A), NEW a \in A
  PROVE  Homes(a, modes) \in Places(a)
<1>1. a \in Agents /\ \A p \in Current(a) : p \in Sources(modes) /\ AgentOf(p) = a
  BY SourceFacts
<1>2. CASE a = "claude"
  <2>1. \A p \in Current(a) : To(p, modes) = p
    BY <1>1, <1>2, CurrentTable, TargetFacts
  <2>2. QED
    BY <1>2, <2>1, CurrentTable DEF Places, Homes
<1>3. CASE a = "opencode"
  <2>1. \A p \in Current(a) : To(p, modes) \in {"json", "jsonc"}
    BY <1>1, <1>3, CurrentTable, TargetFacts
  <2>2. Current(a) = {"json"} \/ Current(a) = {"jsonc"}
    BY <1>3, CurrentTable
  <2>3. QED
    BY <1>3, <2>1, <2>2 DEF Places, Homes
<1>4. CASE a = "codex"
  <2>1. \A p \in Current(a) : To(p, modes) = p
    BY <1>1, <1>4, CurrentTable, TargetFacts
  <2>2. QED
    BY <1>4, <2>1, CurrentTable DEF Places, Homes
<1>5. QED
  BY <1>1, <1>2, <1>3, <1>4 DEF Agents

LEMMA SectionsSettled ==
  ASSUME DiskInv, NEW A \in SUBSET Agents, NEW modes \in Modes(A), NEW c \in Configs,
         Plannable(modes), NEW a \in A
  PROVE  /\ SectionFits(a, Sections(modes, c)[a])
         /\ Sections(modes, c)[a].owned = OwnedBy(a, c)
         /\ DOMAIN Sections(modes, c)[a].at = Homes(a, modes)
<1>1. PICK s : s = Sections(modes, c)[a]
  OBVIOUS
<1>2. /\ s.config = c /\ s.owned = OwnedBy(a, c)
      /\ DOMAIN s.at = Homes(a, modes)
      /\ \A p \in Current(a) : s.at[To(p, modes)] = Output(p, modes[AgentOf(p)], c)
      /\ s.at = [p \in DOMAIN s.at |-> s.at[p]]
  BY <1>1, SectionsHave
<1>3. DOMAIN s.at \in Places(a)
  BY <1>2, SectionPlaces
<1>4. \A p \in Current(a) : Settled(To(p, modes), c, s.at[To(p, modes)])
  BY <1>2, SourceFacts, OutputSettled
<1>5. QED
  BY <1>1, <1>2, <1>3, <1>4 DEF SectionFits, Homes

\* A file after a plan was put.
LEMMA PutFiles ==
  ASSUME FilesFit, NEW A \in SUBSET Agents, NEW modes \in Modes(A), NEW c \in Configs,
         files' = Over(Effect(modes, c), files)
  PROVE  /\ DOMAIN files' = Paths /\ files' = [p \in Paths |-> files'[p]]
         /\ \A p \in Sources(modes) :
              files'[To(p, modes)] = Output(p, modes[AgentOf(p)], c)
         /\ \A t \in Paths \ {To(p, modes) : p \in Sources(modes)} : files'[t] = files[t]
<1>1. /\ DOMAIN files' = DOMAIN Effect(modes, c) \union Paths
      /\ \A t \in DOMAIN Effect(modes, c) : files'[t] = Effect(modes, c)[t]
      /\ \A t \in Paths \ DOMAIN Effect(modes, c) : files'[t] = files[t]
  BY OverHas DEF FilesFit
<1>2. /\ DOMAIN Effect(modes, c) = {To(p, modes) : p \in Sources(modes)}
      /\ \A p \in Sources(modes) : Effect(modes, c)[To(p, modes)] = Output(p, modes[AgentOf(p)], c)
  BY EffectHas
<1>3. DOMAIN Effect(modes, c) \subseteq Paths
  BY <1>2, TargetFacts
<1>4. files' = [p \in DOMAIN files' |-> files'[p]]
  BY DEF Over
<1>5. QED
  BY <1>1, <1>2, <1>3, <1>4

LEMMA CarryOutFits ==
  ASSUME DiskInv, NEW A \in SUBSET Agents, NEW w, w.snap.modes \in Modes(A), w.config \in Configs,
         Plannable(w.snap.modes), CarryOut(w)
  PROVE  DiskInv'
<1>1. PICK modes \in Modes(A) : modes = w.snap.modes
  OBVIOUS
<1>2. PICK c \in Configs : c = w.config
  OBVIOUS
<1>3. PICK sections : sections = Sections(modes, c)
  OBVIOUS
<1>4. PICK before : before = UNION {DOMAIN sidecar[a].at : a \in DOMAIN modes \intersect DOMAIN sidecar}
  OBVIOUS
<1>5. PICK after : after = UNION {DOMAIN sections[a].at : a \in DOMAIN modes}
  OBVIOUS
<1>6. /\ files' = Over(Effect(modes, c), files)
      /\ sidecar' = Over(sections, sidecar)
      /\ left' = left \union (before \ after)
  BY <1>1, <1>2, <1>3, <1>4, <1>5 DEF CarryOut, Put
<1>7. /\ DOMAIN files' = Paths /\ files' = [p \in Paths |-> files'[p]]
      /\ \A p \in Sources(modes) : files'[To(p, modes)] = Output(p, modes[AgentOf(p)], c)
      /\ \A t \in Paths \ {To(p, modes) : p \in Sources(modes)} : files'[t] = files[t]
  BY <1>6, PutFiles DEF DiskInv
<1>8. /\ DOMAIN modes = A /\ DOMAIN sections = A
      /\ \A a \in A : \A p \in Current(a) : p \in Sources(modes) /\ AgentOf(p) = a
      /\ \A p \in Sources(modes) : p \in Paths /\ AgentOf(p) \in A /\ p \in Current(AgentOf(p))
      /\ \A a \in A : modes[a] \in {"merge", "rebuild"}
  <2>1. DOMAIN sections = A
    BY <1>3, SourceFacts DEF Sections
  <2>2. QED
    BY <2>1, SourceFacts
<1>9. \A a \in A : /\ sections[a].owned = OwnedBy(a, c)
                   /\ DOMAIN sections[a].at = Homes(a, modes)
                   /\ SectionFits(a, sections[a])
  <2>1. Plannable(modes)
    BY <1>1
  <2>2. ASSUME NEW a \in A
        PROVE  /\ sections[a].owned = OwnedBy(a, c)
               /\ DOMAIN sections[a].at = Homes(a, modes)
               /\ SectionFits(a, sections[a])
    BY <1>3, <2>1, SectionsSettled
  <2>3. QED
    BY <2>2
<1>10. /\ DOMAIN sidecar' = A \union DOMAIN sidecar
       /\ \A a \in A : sidecar'[a] = sections[a]
       /\ \A a \in DOMAIN sidecar \ A : sidecar'[a] = sidecar[a]
  <2>1. /\ DOMAIN Over(sections, sidecar) = DOMAIN sections \union DOMAIN sidecar
        /\ \A a \in DOMAIN sections : Over(sections, sidecar)[a] = sections[a]
        /\ \A a \in DOMAIN sidecar \ DOMAIN sections : Over(sections, sidecar)[a] = sidecar[a]
    BY OverHas
  <2>2. DOMAIN sections = A
    BY <1>8
  <2>3. QED
    BY <1>6, <2>1, <2>2
<1>11. FilesFit'
  <2>1. ASSUME NEW t \in Paths PROVE FileFits(t, files'[t])
    <3>1. CASE \E p \in Sources(modes) : t = To(p, modes)
      <4>1. PICK p \in Sources(modes) : t = To(p, modes)
        BY <3>1
      <4>2. Settled(To(p, modes), c, Output(p, modes[AgentOf(p)], c))
        BY <1>1, <1>2, OutputSettled
      <4>3. QED
        BY <4>1, <4>2, <1>7 DEF Settled
    <3>2. CASE ~ \E p \in Sources(modes) : t = To(p, modes)
      BY <3>2, <1>7 DEF DiskInv, FilesFit
    <3>3. QED
      BY <3>1, <3>2
  <2>2. QED
    BY <2>1, <1>7 DEF FilesFit
<1>12. SectionsFit'
  <2>1. ASSUME NEW a \in A \union DOMAIN sidecar PROVE SectionFits(a, sidecar'[a])
    BY <1>9, <1>10 DEF DiskInv, SectionsFit
  <2>2. QED
    BY <2>1, <1>10 DEF SectionsFit, DiskInv
<1>13. ASSUME NEW p \in Sources(modes), NEW t, t = To(p, modes), t \notin left,
              NEW e \in DOMAIN files'[t].has, files'[t].has[e] \in Rendered
       PROVE  /\ AgentOf(t) \in DOMAIN sidecar' /\ t \in DOMAIN sidecar'[AgentOf(t)].at
              /\ e \in sidecar'[AgentOf(t)].owned
  <2>1. PICK a \in A : a = AgentOf(p)
    BY <1>8
  <2>2. AgentOf(t) = a /\ Kind(t) = Kind(p) /\ t \in Paths /\ p \in Paths
    BY <1>13, <1>8, <2>1, TargetFacts
  <2>3. PICK o : o = Output(p, modes[a], c)
    OBVIOUS
  <2>4. files'[t] = o
    BY <1>7, <1>13, <2>1, <2>3
  <2>5. modes[a] \in {"merge", "rebuild"}
    BY <1>8
  <2>6. e \in OwnedBy(a, c)
    <3>1. CASE e \in DOMAIN Fragment(Kind(p), c)
      BY <3>1, <2>1, <2>2, FragmentOwns
    <3>2. CASE e \notin DOMAIN Fragment(Kind(p), c)
      <4>1. /\ e \in DOMAIN files[p].has /\ e \notin Dropped(p, modes[a], c)
            /\ files[p].has[e] = o.has[e]
        BY <2>2, <2>3, <2>4, <2>5, <3>2, <1>13, OutputEntries
      <4>2. RenderedValue(Kind(p), e) # {}
        BY <4>1, <2>2, <2>4, <1>13, RenderedIsHere DEF DiskInv, FilesFit
      <4>3. e = "optional" /\ Kind(p) \in {"claude", "config"}
        BY <2>2, <3>2, <4>2, FragmentOwns
      <4>4. t = p
        BY <4>3, <1>13, TargetFacts, PathTable
      <4>5. a \in DOMAIN sidecar /\ e \in sidecar[a].owned
        BY <2>1, <2>2, <2>4, <4>1, <4>4, <1>13 DEF DiskInv, ManagedIsRecorded
      <4>6. e \notin OwnedBy(a, c)
        BY <2>1, <2>2, <3>2, <4>2, FragmentOwns
      <4>7. e \in Obsolete(a, c)
        BY <4>3, <4>5, <4>6, <2>1, <2>2, OwnedTable DEF Obsolete
      <4>8. e \in Dropped(p, modes[a], c)
        BY <4>1, <4>3, <4>7, <2>1, <2>5 DEF Dropped
      <4>9. QED
        BY <4>1, <4>8
    <3>3. QED
      BY <3>1, <3>2
  <2>7. t \in DOMAIN sections[a].at
    BY <1>8, <1>9, <1>13, <2>1 DEF Homes
  <2>8. QED
    BY <1>9, <1>10, <2>2, <2>6, <2>7
<1>14. ASSUME NEW t \in Paths \ {To(p, modes) : p \in Sources(modes)}, t \notin left',
              NEW e \in DOMAIN files'[t].has, files'[t].has[e] \in Rendered
       PROVE  /\ AgentOf(t) \in DOMAIN sidecar' /\ t \in DOMAIN sidecar'[AgentOf(t)].at
              /\ e \in sidecar'[AgentOf(t)].owned
  <2>1. files'[t] = files[t] /\ t \notin left
    BY <1>6, <1>7, <1>14
  <2>2. /\ AgentOf(t) \in DOMAIN sidecar /\ t \in DOMAIN sidecar[AgentOf(t)].at
        /\ e \in sidecar[AgentOf(t)].owned
    BY <2>1, <1>14 DEF DiskInv, ManagedIsRecorded
  <2>3. CASE AgentOf(t) \in A
    <3>1. t \in before
      BY <1>4, <1>8, <2>2, <2>3
    <3>2. t \notin after
      BY <1>5, <1>8, <1>9, <1>14 DEF Homes
    <3>3. QED
      BY <1>6, <1>14, <3>1, <3>2
  <2>4. CASE AgentOf(t) \notin A
    BY <1>10, <2>2, <2>4
  <2>5. QED
    BY <2>3, <2>4
<1>15. ManagedIsRecorded'
  <2>1. left \subseteq left'
    BY <1>6
  <2>2. QED
    BY <1>13, <1>14, <2>1 DEF ManagedIsRecorded
<1>16. QED
  BY <1>11, <1>12, <1>15 DEF DiskInv

-------------------------------------------------------------------------------
(* The plans: what a cleanup takes out. *)

Gone(a, p) == Cleaned(Kind(p), files[p].has, sidecar[a].config, sidecar[a].owned)

LEMMA SectionAt ==
  ASSUME DiskInv, NEW a \in DOMAIN sidecar, NEW p \in DOMAIN sidecar[a].at
  PROVE  /\ a \in Agents /\ p \in Paths /\ AgentOf(p) = a
         /\ sidecar[a].config \in Configs /\ sidecar[a].owned = OwnedBy(a, sidecar[a].config)
         /\ Settled(p, sidecar[a].config, sidecar[a].at[p])
<1>1. a \in Agents /\ SectionFits(a, sidecar[a])
  BY DEF DiskInv, SectionsFit
<1>2. DOMAIN sidecar[a].at \in Places(a)
  BY <1>1 DEF SectionFits
<1>3. p \in Paths /\ AgentOf(p) = a
  BY <1>1, <1>2, PathTable DEF Places, Agents, Paths
<1>4. QED
  BY <1>1, <1>3 DEF SectionFits

\* What is taken out of a file is the section's, and never a model of the user's;
\* whatever the manager put there and the section owns is.
LEMMA GoneFacts ==
  ASSUME DiskInv, NEW a \in DOMAIN sidecar, NEW p \in DOMAIN sidecar[a].at
  PROVE  /\ Gone(a, p) \subseteq DOMAIN files[p].has
         /\ Gone(a, p) \subseteq sidecar[a].owned
         /\ Gone(a, p) \subseteq Entries(Kind(p))
         /\ \A e \in Gone(a, p) : files[p].has[e] \in Foreign =>
              e # "model" /\ e \in DOMAIN Fragment(Kind(p), sidecar[a].config)
         /\ \A e \in DOMAIN files[p].has :
              files[p].has[e] \in Rendered /\ e \in sidecar[a].owned => e \in Gone(a, p)
<1>1. PICK c \in Configs : c = sidecar[a].config
  BY SectionAt
<1>2. PICK h : h = files[p].has
  OBVIOUS
<1>3. p \in Paths /\ AgentOf(p) = a /\ sidecar[a].owned = OwnedBy(a, c)
  BY <1>1, SectionAt
<1>4. FileFits(p, files[p])
  BY <1>3 DEF DiskInv, FilesFit
<1>5. DOMAIN h \subseteq Entries(Kind(p))
  BY <1>2, <1>4, FileHas
<1>6. \A e \in DOMAIN h : h[e] \in Rendered => h[e] \in RenderedValue(Kind(p), e)
  BY <1>2, <1>4, RenderedIsHere
<1>7. /\ DOMAIN Fragment(Kind(p), c) \subseteq OwnedBy(a, c)
      /\ \A e \in OwnedBy(a, c) :
           RenderedValue(Kind(p), e) # {} => e \in DOMAIN Fragment(Kind(p), c)
  BY <1>3, FragmentOwns
<1>8. CASE Kind(p) = "claude"
  <2>1. Gone(a, p) = DOMAIN h \intersect OwnedBy(a, c)
    BY <1>1, <1>2, <1>3, <1>8 DEF Gone, Cleaned, CleanedClaude
  <2>2. DOMAIN Fragment(Kind(p), c) = OwnedBy(a, c) /\ "model" \notin OwnedBy(a, c)
    <3>1. OwnedBy(a, c) = {"managed"} \union Optional(c)
      BY <1>3, <1>8, KindOfPath DEF OwnedBy
    <3>2. Optional(c) \subseteq {"optional"} /\ DOMAIN Fragment(Kind(p), c) = {"managed"} \union Optional(c)
      BY <1>8, FragmentHas
    <3>3. QED
      BY <3>1, <3>2
  <2>3. QED
    BY <1>1, <1>2, <1>3, <1>5, <2>1, <2>2
<1>9. CASE Kind(p) = "opencode"
  <2>1. Gone(a, p) = DOMAIN h \intersect
          ({"provider"} \union {e \in {"model"} \intersect OwnedBy(a, c) : Named(h, e) /\ h[e] \in Configs})
    BY <1>1, <1>2, <1>3, <1>9 DEF Gone, Cleaned, CleanedOpenCode
  <2>2. DOMAIN Fragment(Kind(p), c) = {"provider", "model"} /\ OwnedBy(a, c) = {"provider", "model"}
    BY <1>3, <1>9, FragmentHas, KindOfPath DEF OwnedBy
  <2>3. \A e \in Gone(a, p) : h[e] \in Foreign => e # "model"
    BY <2>1, ValuesApart
  <2>4. \A e \in DOMAIN h : h[e] \in Rendered /\ e \in OwnedBy(a, c) => e \in Gone(a, p)
    <3>1. ASSUME NEW e \in DOMAIN h, h[e] \in Rendered, e \in OwnedBy(a, c), e = "model"
          PROVE  h[e] \in Configs
      <4>1. h[e] \in RenderedValue("opencode", "model")
        BY <1>6, <1>9, <3>1
      <4>2. QED
        BY <4>1 DEF RenderedValue
    <3>2. QED
      BY <2>1, <2>2, <3>1 DEF Named
  <2>5. QED
    BY <1>1, <1>2, <1>3, <1>5, <2>1, <2>2, <2>3, <2>4
<1>10. CASE Kind(p) = "config"
  <2>1. Gone(a, p) = DOMAIN h \intersect DOMAIN Fragment(Kind(p), c)
    BY <1>1, <1>2, <1>3, <1>10 DEF Gone, Cleaned, CleanedCodexConfig, OwnedIn
  <2>2. "model" \notin DOMAIN Fragment(Kind(p), c)
    BY <1>10, FragmentHas
  <2>3. \A e \in DOMAIN h : h[e] \in Rendered /\ e \in OwnedBy(a, c) => e \in Gone(a, p)
    BY <1>6, <1>7, <2>1
  <2>4. QED
    BY <1>1, <1>2, <1>3, <1>5, <1>7, <2>1, <2>2, <2>3
<1>11. CASE Kind(p) = "auth"
  <2>1. Gone(a, p) = DOMAIN h \intersect {"login"}
    BY <1>1, <1>2, <1>3, <1>11 DEF Gone, Cleaned, CleanedCodexAuth
  <2>2. DOMAIN Fragment(Kind(p), c) = {"login"}
    BY <1>11, FragmentHas
  <2>3. \A e \in DOMAIN h : h[e] \in Rendered /\ e \in OwnedBy(a, c) => e \in Gone(a, p)
    BY <1>6, <1>7, <2>1, <2>2
  <2>4. QED
    BY <1>1, <1>2, <1>3, <1>5, <1>7, <2>1, <2>2, <2>3
<1>12. QED
  BY <1>3, <1>8, <1>9, <1>10, <1>11, KindOfPath DEF Kinds

\* A cleaned file.
LEMMA CleanFileHas ==
  ASSUME NEW kind, NEW h, NEW gone
  PROVE  /\ DOMAIN CleanFile(kind, h, gone).has = DOMAIN h \ (gone \union {"comments"})
         /\ \A e \in DOMAIN h \ (gone \union {"comments"}) : CleanFile(kind, h, gone).has[e] = h[e]
         /\ CleanFile(kind, h, gone) \in {Missing, Document(CleanFile(kind, h, gone).has)}
<1>1. PICK kept : kept = Without(h, gone \union {"comments"})
  OBVIOUS
<1>2. /\ DOMAIN kept = DOMAIN h \ (gone \union {"comments"})
      /\ \A e \in DOMAIN h \ (gone \union {"comments"}) : kept[e] = h[e]
  BY <1>1, WithoutHas
<1>3. CASE DOMAIN kept = {}
  <2>1. CleanFile(kind, h, gone) = Missing
    BY <1>1, <1>3 DEF CleanFile
  <2>2. DOMAIN Missing.has = {}
    BY NothingHas DEF Missing
  <2>3. QED
    BY <1>2, <1>3, <2>1, <2>2
<1>4. CASE DOMAIN kept # {}
  <2>1. CleanFile(kind, h, gone) = Document(kept)
    BY <1>1, <1>4 DEF CleanFile
  <2>2. QED
    BY <1>2, <2>1 DEF Document
<1>5. QED
  BY <1>3, <1>4

\* The files after a cleanup: what is taken out is gone, and comments may be.
LEMMA CleanFiles ==
  ASSUME DiskInv, NEW a \in DOMAIN sidecar, files' = Over(CleanEffect(a), files)
  PROVE  /\ DOMAIN files' = Paths /\ files' = [p \in Paths |-> files'[p]]
         /\ \A p \in Paths \ DOMAIN sidecar[a].at : files'[p] = files[p]
         /\ \A p \in DOMAIN sidecar[a].at :
              /\ FileFits(p, files'[p])
              /\ DOMAIN files'[p].has \subseteq DOMAIN files[p].has \ Gone(a, p)
              /\ DOMAIN files[p].has \ (Gone(a, p) \union {"comments"}) \subseteq DOMAIN files'[p].has
              /\ \A e \in DOMAIN files'[p].has : files'[p].has[e] = files[p].has[e]
<1>1. PICK there : there = {q \in DOMAIN sidecar[a].at : files[q] # Missing}
  OBVIOUS
<1>2. PICK shut : shut = {q \in there : \/ Gone(a, q) # {}
                                       \/ CleanFile(Kind(q), files[q].has, Gone(a, q)) = Missing}
  OBVIOUS
<1>3. CleanEffect(a) = [p \in shut |-> CleanFile(Kind(p), files[p].has, Gone(a, p))]
  <2>1. Removed(a) = [p \in there |-> Gone(a, p)]
    BY <1>1 DEF Removed, Gone
  <2>2. QED
    BY <1>2, <2>1 DEF CleanEffect
<1>4. DOMAIN sidecar[a].at \subseteq Paths
  BY SectionAt
<1>5. /\ DOMAIN files' = shut \union Paths
      /\ \A p \in shut : files'[p] = CleanFile(Kind(p), files[p].has, Gone(a, p))
      /\ \A p \in Paths \ shut : files'[p] = files[p]
  <2>1. PICK g : g = CleanEffect(a)
    OBVIOUS
  <2>2. /\ DOMAIN g = shut
        /\ \A p \in shut : g[p] = CleanFile(Kind(p), files[p].has, Gone(a, p))
    BY <1>3, <2>1
  <2>3. /\ DOMAIN files' = DOMAIN g \union DOMAIN files
        /\ \A p \in DOMAIN g : files'[p] = g[p]
        /\ \A p \in DOMAIN files \ DOMAIN g : files'[p] = files[p]
    <3>1. /\ DOMAIN Over(g, files) = DOMAIN g \union DOMAIN files
          /\ \A p \in DOMAIN g : Over(g, files)[p] = g[p]
          /\ \A p \in DOMAIN files \ DOMAIN g : Over(g, files)[p] = files[p]
      BY OverHas
    <3>2. files' = Over(g, files)
      BY <2>1
    <3>3. QED
      BY <3>1, <3>2
  <2>4. DOMAIN files = Paths
    BY DEF DiskInv, FilesFit
  <2>5. QED
    BY <2>2, <2>3, <2>4
<1>6. shut \subseteq DOMAIN sidecar[a].at
  BY <1>1, <1>2
<1>7. files' = [p \in DOMAIN files' |-> files'[p]]
  BY DEF Over
<1>8. ASSUME NEW p \in DOMAIN sidecar[a].at
      PROVE  /\ FileFits(p, files'[p])
             /\ DOMAIN files'[p].has \subseteq DOMAIN files[p].has \ Gone(a, p)
             /\ DOMAIN files[p].has \ (Gone(a, p) \union {"comments"}) \subseteq DOMAIN files'[p].has
             /\ \A e \in DOMAIN files'[p].has : files'[p].has[e] = files[p].has[e]
  <2>1. FileFits(p, files[p]) /\ p \in Paths
    BY <1>4 DEF DiskInv, FilesFit
  <2>2. CASE p \in shut
    <3>1. PICK f : f = CleanFile(Kind(p), files[p].has, Gone(a, p))
      OBVIOUS
    <3>2. /\ files'[p] = f
          /\ DOMAIN f.has = DOMAIN files[p].has \ (Gone(a, p) \union {"comments"})
          /\ \A e \in DOMAIN f.has : f.has[e] = files[p].has[e]
          /\ f \in {Missing, Document(f.has)}
      BY <1>5, <2>2, <3>1, CleanFileHas
    <3>3. FileFits(p, f)
      BY <2>1, <3>2, FileHas DEF FileFits, Bare
    <3>4. QED
      BY <3>2, <3>3
  <2>3. CASE p \notin shut
    <3>1. files'[p] = files[p]
      BY <1>5, <2>1, <2>3
    <3>2. Gone(a, p) = {}
      <4>1. CASE files[p] = Missing
        <5>1. DOMAIN files[p].has = {}
          BY <2>1, <4>1, FileHas DEF Bare
        <5>2. QED
          BY <5>1, GoneFacts
      <4>2. CASE files[p] # Missing
        BY <1>1, <1>2, <2>3, <4>2
      <4>3. QED
        BY <4>1, <4>2
    <3>3. QED
      BY <2>1, <3>1, <3>2
  <2>4. QED
    BY <2>2, <2>3
<1>9. QED
  BY <1>4, <1>5, <1>6, <1>7, <1>8

LEMMA CleanupFits ==
  ASSUME DiskInv, NEW a \in DOMAIN sidecar, files' = Over(CleanEffect(a), files),
         sidecar' = Without(sidecar, {a}), UNCHANGED left
  PROVE  DiskInv'
<1>1. /\ DOMAIN files' = Paths /\ files' = [p \in Paths |-> files'[p]]
      /\ \A p \in Paths \ DOMAIN sidecar[a].at : files'[p] = files[p]
      /\ \A p \in DOMAIN sidecar[a].at :
           /\ FileFits(p, files'[p])
           /\ DOMAIN files'[p].has \subseteq DOMAIN files[p].has \ Gone(a, p)
           /\ \A e \in DOMAIN files'[p].has : files'[p].has[e] = files[p].has[e]
  BY CleanFiles
<1>2. /\ DOMAIN sidecar' = DOMAIN sidecar \ {a}
      /\ \A b \in DOMAIN sidecar \ {a} : sidecar'[b] = sidecar[b]
  BY WithoutHas
<1>3. FilesFit'
  BY <1>1 DEF DiskInv, FilesFit
<1>4. SectionsFit'
  BY <1>2 DEF DiskInv, SectionsFit
<1>5. ASSUME NEW p \in Paths \ left, NEW e \in DOMAIN files'[p].has, files'[p].has[e] \in Rendered
      PROVE  /\ AgentOf(p) \in DOMAIN sidecar' /\ p \in DOMAIN sidecar'[AgentOf(p)].at
             /\ e \in sidecar'[AgentOf(p)].owned
  <2>1. e \in DOMAIN files[p].has /\ files[p].has[e] \in Rendered
    BY <1>1, <1>5
  <2>2. /\ AgentOf(p) \in DOMAIN sidecar /\ p \in DOMAIN sidecar[AgentOf(p)].at
        /\ e \in sidecar[AgentOf(p)].owned
    BY <1>5, <2>1 DEF DiskInv, ManagedIsRecorded
  <2>3. AgentOf(p) # a
    <3>1. SUFFICES ASSUME AgentOf(p) = a PROVE FALSE
      OBVIOUS
    <3>2. e \in Gone(a, p)
      BY <2>1, <2>2, <3>1, GoneFacts
    <3>3. QED
      BY <1>1, <1>5, <2>2, <3>1, <3>2
  <2>4. QED
    BY <1>2, <2>2, <2>3
<1>6. ManagedIsRecorded'
  BY <1>5 DEF ManagedIsRecorded
<1>7. QED
  BY <1>3, <1>4, <1>6 DEF DiskInv

\* What others may leave fits, also laid over what fits.
LEMMA OthersFit ==
  ASSUME NEW p, NEW f, OfOthers(p, f)
  PROVE  /\ FileFits(p, f)
         /\ \A e \in DOMAIN f.has : f.has[e] \in Foreign
<1>1. CASE f \in Bare
  BY <1>1, FileHas DEF FileFits
<1>2. CASE f \notin Bare
  BY <1>2, OthersAreForeign DEF OfOthers, FileFits, Bare
<1>3. QED
  BY <1>1, <1>2

LEMMA LaidFits ==
  ASSUME NEW p, NEW f, NEW g, OfOthers(p, f), FileFits(p, g)
  PROVE  /\ FileFits(p, Laid(f, g))
         /\ \A e \in DOMAIN Laid(f, g).has :
              Laid(f, g).has[e] \in Rendered => e \in DOMAIN g.has /\ g.has[e] \in Rendered
<1>1. FileFits(p, f) /\ \A e \in DOMAIN f.has : f.has[e] \in Foreign
  BY OthersFit
<1>2. CASE f.is = "document" /\ g.is = "document"
  <2>1. PICK h : h = Over(f.has, g.has)
    OBVIOUS
  <2>2. Laid(f, g) = Document(h) /\ Laid(f, g).has = h
    BY <1>2, <2>1 DEF Laid, Document
  <2>3. /\ DOMAIN h = DOMAIN f.has \union DOMAIN g.has
        /\ \A e \in DOMAIN f.has : h[e] = f.has[e]
        /\ \A e \in DOMAIN g.has \ DOMAIN f.has : h[e] = g.has[e]
    <3>1. /\ DOMAIN Over(f.has, g.has) = DOMAIN f.has \union DOMAIN g.has
          /\ \A e \in DOMAIN f.has : Over(f.has, g.has)[e] = f.has[e]
          /\ \A e \in DOMAIN g.has \ DOMAIN f.has : Over(f.has, g.has)[e] = g.has[e]
      BY OverHas
    <3>2. QED
      BY <2>1, <3>1
  <2>4. FileFits(p, Document(h))
    <3>1. /\ DOMAIN h \subseteq Entries(Kind(p))
          /\ "comments" \in DOMAIN h => p = "jsonc"
          /\ \A e \in DOMAIN h : h[e] \in OthersValue(e) \union RenderedValue(Kind(p), e)
      BY <1>1, <2>3, FileHas
    <3>2. QED
      BY <2>2, <3>1 DEF FileFits, Document
  <2>5. \A e \in DOMAIN h : h[e] \in Rendered => e \in DOMAIN g.has /\ g.has[e] \in Rendered
    BY <1>1, <2>3, ValuesApart
  <2>6. QED
    BY <2>2, <2>4, <2>5
<1>3. CASE ~ (f.is = "document" /\ g.is = "document")
  <2>1. Laid(f, g) = f
    BY <1>3 DEF Laid
  <2>2. QED
    BY <1>1, <2>1, ValuesApart
<1>4. QED
  BY <1>2, <1>3

LEMMA EditFits ==
  ASSUME DiskInv, NEW path \in Paths, NEW content, OfOthers(path, content), UserEdit(path, content)
  PROVE  DiskInv'
<1>1. PICK now \in {content, Laid(content, files[path])} : files' = [files EXCEPT ![path] = now]
  BY DEF UserEdit
<1>2. sidecar' = sidecar /\ left' = left
  BY DEF UserEdit
<1>3. FileFits(path, files[path])
  BY DEF DiskInv, FilesFit
<1>4. /\ FileFits(path, now)
      /\ \A e \in DOMAIN now.has :
           now.has[e] \in Rendered => e \in DOMAIN files[path].has /\ files[path].has[e] \in Rendered
  <2>1. CASE now = content
    BY <2>1, OthersFit, ValuesApart
  <2>2. CASE now = Laid(content, files[path])
    BY <1>3, <2>2, LaidFits
  <2>3. QED
    BY <2>1, <2>2
<1>5. /\ DOMAIN files' = Paths /\ files' = [p \in Paths |-> files'[p]]
      /\ files'[path] = now /\ \A p \in Paths \ {path} : files'[p] = files[p]
  BY <1>1 DEF DiskInv, FilesFit
<1>6. FilesFit'
  BY <1>4, <1>5 DEF DiskInv, FilesFit
<1>7. SectionsFit'
  BY <1>2 DEF DiskInv, SectionsFit
<1>8. ASSUME NEW p \in Paths, NEW e \in DOMAIN files'[p].has, files'[p].has[e] \in Rendered
      PROVE  e \in DOMAIN files[p].has /\ files[p].has[e] \in Rendered
  BY <1>4, <1>5, <1>8
<1>9. ManagedIsRecorded'
  BY <1>2, <1>8 DEF DiskInv, ManagedIsRecorded
<1>10. QED
  BY <1>6, <1>7, <1>9 DEF DiskInv

LEMMA DiskAtFirst ==
  ASSUME PlansInit
  PROVE  DiskInv
<1>1. PICK c \in Cases : files = [p \in Paths |-> IF p \in DOMAIN c.files THEN c.files[p] ELSE Missing]
  BY DEF PlansInit
<1>2. ASSUME NEW p \in Paths
      PROVE  FileFits(p, files[p]) /\ \A e \in DOMAIN files[p].has : files[p].has[e] \in Foreign
  <2>1. CASE p \in DOMAIN c.files
    BY <1>1, <2>1, CasesAssumption, OthersFit
  <2>2. CASE p \notin DOMAIN c.files
    BY <1>1, <2>2, FileHas DEF FileFits, Bare
  <2>3. QED
    BY <2>1, <2>2
<1>3. FilesFit
  BY <1>1, <1>2 DEF FilesFit
<1>4. SectionsFit
  BY NothingHas DEF PlansInit, SectionsFit
<1>5. ManagedIsRecorded
  BY <1>2, ValuesApart DEF ManagedIsRecorded
<1>6. QED
  BY <1>3, <1>4, <1>5 DEF DiskInv

-------------------------------------------------------------------------------
(* The plans: the flows and the commands. *)

Chosen(modes) == \E A \in SUBSET Agents : modes \in Modes(A)
FlowFits(x) ==
  /\ DOMAIN x = {"agents", "modes", "writing"}
  /\ x.agents \subseteq Agents
  /\ x.modes = Nothing \/ Chosen(x.modes)
  /\ x.writing \in BOOLEAN
PreviewFits(w, ids) ==
  /\ DOMAIN w = {"op", "flow", "modes", "config", "at", "got"} /\ w.op = "preview"
  /\ w.flow \in ids /\ w.config \in Configs /\ Chosen(w.modes)
  /\ w.at \in {"asked", "answered"}
WriteFits(w, ids) ==
  /\ DOMAIN w = {"op", "flow", "preview", "config", "overwrite", "auth", "at", "snap", "answer"}
  /\ w.op = "write"
  /\ w.flow \in ids /\ w.config \in Configs
  /\ FlowFits(w.snap) /\ Chosen(w.snap.modes)
  /\ w.at \in {"checked", "sent", "answered"}
CleanFits(w) ==
  /\ w.op = "clean" /\ w.agent \in Agents
TaskFits(w, ids) ==
  \/ w = Idle
  \/ PreviewFits(w, ids)
  \/ WriteFits(w, ids)
  \/ CleanFits(w)

Ids == 1 .. spent.flows
SpentFits == spent \in [flows : Nat, edits : Nat, restarts : Nat, case : Cases]
FlowsFit ==
  /\ DOMAIN flows \subseteq Ids /\ DOMAIN shown = DOMAIN flows /\ applied \subseteq Ids
  /\ \A f \in DOMAIN flows : FlowFits(flows[f])
TasksFit == task = [t \in Tasks |-> task[t]] /\ \A t \in Tasks : TaskFits(task[t], Ids)
FlowInv == SpentFits /\ FlowsFit /\ TasksFit

LEMMA TaskOps ==
  ASSUME NEW w, NEW ids, TaskFits(w, ids)
  PROVE  /\ w.op = "preview" => PreviewFits(w, ids)
         /\ w.op = "write" => WriteFits(w, ids)
         /\ w.op = "clean" => CleanFits(w)
         /\ w.op = "idle" => w = Idle
  BY DEF TaskFits, PreviewFits, WriteFits, CleanFits, Idle

LEMMA TaskGrows ==
  ASSUME NEW w, NEW ids, NEW more, ids \subseteq more, TaskFits(w, ids)
  PROVE  TaskFits(w, more)
  BY DEF TaskFits, PreviewFits, WriteFits

\* One command goes on, the others stay.
LEMMA Became ==
  ASSUME TasksFit, NEW t \in Tasks, NEW w, Become(t, w)
  PROVE  /\ task' = [u \in Tasks |-> task'[u]]
         /\ task'[t] = w
         /\ \A u \in Tasks \ {t} : task'[u] = task[u]
  BY DEF TasksFit, Become

LEMMA TasksFitOn ==
  ASSUME FlowInv, NEW t \in Tasks, NEW w, Become(t, w), TaskFits(w, Ids), UNCHANGED spent
  PROVE  TasksFit'
<1>1. /\ task' = [u \in Tasks |-> task'[u]]
      /\ task'[t] = w
      /\ \A u \in Tasks \ {t} : task'[u] = task[u]
  BY Became DEF FlowInv
<1>2. Ids' = Ids
  BY DEF Ids
<1>3. \A u \in Tasks : TaskFits(task'[u], Ids)
  BY <1>1 DEF FlowInv, TasksFit
<1>4. QED
  BY <1>1, <1>2, <1>3 DEF TasksFit

\* A flow is changed, in one field; or it is gone.
LEMMA FlowsFitOn ==
  ASSUME FlowInv, UNCHANGED spent, applied' \subseteq Ids,
         DOMAIN flows' \subseteq DOMAIN flows, DOMAIN shown' = DOMAIN flows',
         \A f \in DOMAIN flows' : FlowFits(flows'[f])
  PROVE  FlowsFit'
  BY DEF FlowInv, FlowsFit, Ids

LEMMA FlowFields ==
  ASSUME NEW x, FlowFits(x), NEW m, NEW b, NEW y,
         y = [x EXCEPT !.modes = m] \/ y = [x EXCEPT !.writing = b]
  PROVE  /\ DOMAIN y = DOMAIN x /\ y.agents = x.agents
         /\ y = [x EXCEPT !.modes = m] => y.modes = m /\ y.writing = x.writing
         /\ y = [x EXCEPT !.writing = b] => y.modes = x.modes /\ y.writing = b
  BY DEF FlowFits

\* The commands' fields, when they go on.
LEMMA PreviewFields ==
  ASSUME NEW w, NEW ids, PreviewFits(w, ids), NEW v, NEW u,
         u = [w EXCEPT !.at = "answered", !.got = v]
  PROVE  /\ PreviewFits(u, ids) /\ u.at = "answered" /\ u.got = v
         /\ u.flow = w.flow /\ u.modes = w.modes /\ u.config = w.config
  BY DEF PreviewFits

LEMMA SentFields ==
  ASSUME NEW w, NEW ids, WriteFits(w, ids), NEW u,
         u = [w EXCEPT !.at = "sent", !.snap.writing = TRUE]
  PROVE  /\ WriteFits(u, ids) /\ u.at = "sent"
         /\ u.snap = [w.snap EXCEPT !.writing = TRUE] /\ u.snap.writing
         /\ u.snap.modes = w.snap.modes
         /\ u.flow = w.flow /\ u.preview = w.preview /\ u.config = w.config
         /\ u.answer = w.answer
<1>1. PICK s : s = [w.snap EXCEPT !.writing = TRUE]
  OBVIOUS
<1>2. /\ DOMAIN u = DOMAIN w /\ u.op = w.op /\ u.flow = w.flow /\ u.preview = w.preview
      /\ u.config = w.config /\ u.answer = w.answer /\ u.at = "sent" /\ u.snap = s
  BY <1>1 DEF WriteFits
<1>3. FlowFits(s) /\ s.writing /\ s.modes = w.snap.modes
  BY <1>1, FlowFields DEF WriteFits, FlowFits
<1>4. QED
  BY <1>1, <1>2, <1>3 DEF WriteFits

LEMMA AnsweredFields ==
  ASSUME NEW w, NEW ids, WriteFits(w, ids), NEW a, NEW u,
         u = [w EXCEPT !.at = "answered", !.answer = a]
  PROVE  /\ WriteFits(u, ids) /\ u.at = "answered" /\ u.answer = a
         /\ u.flow = w.flow /\ u.preview = w.preview /\ u.config = w.config /\ u.snap = w.snap
  BY DEF WriteFits

LEMMA ServeFlow ==
  ASSUME FlowInv, NEW t \in Tasks, PreviewServe(t)
  PROVE  FlowInv'
<1>1. PICK w : w = task[t]
  OBVIOUS
<1>2. PreviewFits(w, Ids)
  BY <1>1, TaskOps DEF PreviewServe, FlowInv, TasksFit
<1>3. UNCHANGED <<flows, shown, applied, spent>>
  BY DEF PreviewServe
<1>4. \/ Become(t, Idle)
      \/ Become(t, [w EXCEPT !.at = "answered",
                             !.got = [token |-> Token(w.modes, w.config),
                                      effect |-> Effect(w.modes, w.config)]])
  BY <1>1 DEF PreviewServe
<1>5. \A v : TaskFits([w EXCEPT !.at = "answered", !.got = v], Ids)
  BY <1>2, PreviewFields DEF TaskFits
<1>6. TaskFits(Idle, Ids)
  BY DEF TaskFits
<1>7. TasksFit'
  BY <1>3, <1>4, <1>5, <1>6, TasksFitOn
<1>8. QED
  BY <1>3, <1>7, FlowsFitOn DEF FlowInv, SpentFits, FlowsFit

LEMMA ShowFlow ==
  ASSUME FlowInv, NEW t \in Tasks, PreviewShow(t)
  PROVE  FlowInv'
<1>1. PICK w : w = task[t]
  OBVIOUS
<1>2. PreviewFits(w, Ids)
  BY <1>1, TaskOps DEF PreviewShow, FlowInv, TasksFit
<1>3. Become(t, Idle) /\ UNCHANGED <<applied, spent>>
  BY DEF PreviewShow
<1>4. TasksFit'
  BY <1>3, TasksFitOn DEF TaskFits
<1>5. \/ UNCHANGED <<flows, shown>>
      \/ /\ Free(w.flow)
         /\ flows' = [flows EXCEPT ![w.flow].modes = w.modes]
         /\ DOMAIN shown' = DOMAIN shown
  BY <1>1 DEF PreviewShow
<1>6. FlowsFit'
  <2>1. CASE UNCHANGED <<flows, shown>>
    BY <1>3, <2>1, FlowsFitOn DEF FlowInv, FlowsFit
  <2>2. CASE /\ Free(w.flow)
             /\ flows' = [flows EXCEPT ![w.flow].modes = w.modes]
             /\ DOMAIN shown' = DOMAIN shown
    <3>1. w.flow \in DOMAIN flows /\ Chosen(w.modes)
      BY <1>2, <2>2 DEF Free, PreviewFits
    <3>2. /\ DOMAIN flows' = DOMAIN flows
          /\ \A f \in DOMAIN flows : f # w.flow => flows'[f] = flows[f]
          /\ flows'[w.flow] = [flows[w.flow] EXCEPT !.modes = w.modes]
      BY <2>2, <3>1
    <3>3. FlowFits(flows[w.flow])
      BY <3>1 DEF FlowInv, FlowsFit
    <3>4. FlowFits(flows'[w.flow])
      BY <3>1, <3>2, <3>3, FlowFields DEF FlowFits
    <3>5. QED
      BY <1>3, <2>2, <3>2, <3>4, FlowsFitOn DEF FlowInv, FlowsFit
  <2>3. QED
    BY <1>5, <2>1, <2>2
<1>7. QED
  BY <1>3, <1>4, <1>6 DEF FlowInv, SpentFits

LEMMA OpenedFlow ==
  ASSUME FlowInv, NEW agents, agents \subseteq Agents, OpenFlow(agents)
  PROVE  /\ FlowInv'
         /\ Ids \subseteq Ids' /\ spent.flows + 1 \notin Ids
         /\ DOMAIN flows' = DOMAIN flows \union {spent.flows + 1}
         /\ \A f \in DOMAIN flows : flows'[f] = flows[f] /\ shown'[f] = shown[f]
         /\ shown'[spent.flows + 1] = {}
<1>1. PICK n \in Nat : n = spent.flows
  BY DEF FlowInv, SpentFits
<1>2. /\ flows' = Over([g \in {n + 1} |-> NewFlow(agents)], flows)
      /\ shown' = Over([g \in {n + 1} |-> {}], shown)
      /\ spent' = [spent EXCEPT !.flows = n + 1]
      /\ UNCHANGED <<task, applied>>
  BY <1>1 DEF OpenFlow
<1>3. spent' \in [flows : Nat, edits : Nat, restarts : Nat, case : Cases] /\ spent'.flows = n + 1
  BY <1>1, <1>2 DEF FlowInv, SpentFits
<1>4. Ids = 1 .. n /\ Ids' = 1 .. (n + 1) /\ Ids \subseteq Ids' /\ n + 1 \in Ids' /\ n + 1 \notin Ids
  BY <1>1, <1>3 DEF Ids
<1>5. PICK nf : nf = [g \in {n + 1} |-> NewFlow(agents)]
  OBVIOUS
<1>6. PICK ns : ns = [g \in {n + 1} |-> {}]
  OBVIOUS
<1>7. /\ DOMAIN Over(nf, flows) = DOMAIN nf \union DOMAIN flows
      /\ \A f \in DOMAIN nf : Over(nf, flows)[f] = nf[f]
      /\ \A f \in DOMAIN flows \ DOMAIN nf : Over(nf, flows)[f] = flows[f]
  BY OverHas
<1>8. /\ DOMAIN Over(ns, shown) = DOMAIN ns \union DOMAIN shown
      /\ \A f \in DOMAIN ns : Over(ns, shown)[f] = ns[f]
      /\ \A f \in DOMAIN shown \ DOMAIN ns : Over(ns, shown)[f] = shown[f]
  BY OverHas
<1>9. DOMAIN flows \subseteq Ids /\ DOMAIN shown = DOMAIN flows
  BY DEF FlowInv, FlowsFit
<1>10. /\ DOMAIN flows' = DOMAIN flows \union {n + 1}
       /\ flows'[n + 1] = NewFlow(agents)
       /\ \A f \in DOMAIN flows : flows'[f] = flows[f]
  BY <1>2, <1>4, <1>5, <1>7, <1>9
<1>11. /\ DOMAIN shown' = DOMAIN flows \union {n + 1}
       /\ shown'[n + 1] = {}
       /\ \A f \in DOMAIN flows : shown'[f] = shown[f]
  BY <1>2, <1>4, <1>6, <1>8, <1>9
<1>12. FlowFits(NewFlow(agents))
  BY DEF FlowFits, NewFlow
<1>13. FlowsFit'
  BY <1>2, <1>4, <1>9, <1>10, <1>11, <1>12 DEF FlowInv, FlowsFit
<1>14. TasksFit'
  BY <1>2, <1>4, TaskGrows DEF FlowInv, TasksFit
<1>15. QED
  BY <1>1, <1>3, <1>4, <1>10, <1>11, <1>13, <1>14 DEF FlowInv, SpentFits

\* A flow is gone.
LEMMA DroppedFlow ==
  ASSUME FlowInv, NEW f, UNCHANGED <<applied, spent>>,
         flows' = Without(flows, {f}), shown' = Without(shown, {f})
  PROVE  /\ FlowsFit' /\ SpentFits' /\ Ids' = Ids
         /\ DOMAIN flows' = DOMAIN flows \ {f}
         /\ \A g \in DOMAIN flows \ {f} : flows'[g] = flows[g] /\ shown'[g] = shown[g]
<1>1. DOMAIN shown = DOMAIN flows
  BY DEF FlowInv, FlowsFit
<1>2. /\ DOMAIN Without(flows, {f}) = DOMAIN flows \ {f}
      /\ \A g \in DOMAIN flows \ {f} : Without(flows, {f})[g] = flows[g]
      /\ DOMAIN Without(shown, {f}) = DOMAIN shown \ {f}
      /\ \A g \in DOMAIN shown \ {f} : Without(shown, {f})[g] = shown[g]
  BY WithoutHas
<1>3. /\ DOMAIN flows' = DOMAIN flows \ {f} /\ DOMAIN shown' = DOMAIN flows \ {f}
      /\ \A g \in DOMAIN flows \ {f} : flows'[g] = flows[g] /\ shown'[g] = shown[g]
  BY <1>1, <1>2
<1>4. FlowsFit'
  BY <1>3, FlowsFitOn DEF FlowInv, FlowsFit
<1>5. QED
  BY <1>3, <1>4 DEF FlowInv, SpentFits, Ids

LEMMA AskFlow ==
  ASSUME FlowInv, NEW t \in Tasks, NEW f \in DOMAIN flows, NEW config \in Configs,
         NEW modes \in Modes(flows[f].agents), PreviewAsk(t, f, modes, config)
  PROVE  FlowInv'
<1>1. UNCHANGED <<flows, shown, applied, spent>>
  BY DEF PreviewAsk
<1>2. FlowsFit'
  BY <1>1, FlowsFitOn DEF FlowInv, FlowsFit
<1>3. PICK w : w = [op |-> "preview", flow |-> f, modes |-> modes, config |-> config,
                    at |-> "asked", got |-> Nothing]
  OBVIOUS
<1>4. f \in Ids /\ Chosen(modes)
  BY DEF FlowInv, FlowsFit, FlowFits, Chosen
<1>5. TaskFits(w, Ids)
  BY <1>3, <1>4 DEF TaskFits, PreviewFits
<1>6. Become(t, w)
  BY <1>3 DEF PreviewAsk
<1>7. QED
  BY <1>1, <1>2, <1>5, <1>6, TasksFitOn DEF FlowInv, SpentFits

LEMMA CheckFlow ==
  ASSUME FlowInv, NEW t \in Tasks, NEW f \in DOMAIN flows, NEW config \in Configs,
         NEW v, NEW o, NEW u, WriteAsk(t, f, v, config, o, u)
  PROVE  FlowInv'
<1>1. UNCHANGED <<flows, shown, applied, spent>>
  BY DEF WriteAsk
<1>2. FlowsFit'
  BY <1>1, FlowsFitOn DEF FlowInv, FlowsFit
<1>3. PICK w : w = [op |-> "write", flow |-> f, preview |-> v, config |-> config,
                    overwrite |-> o, auth |-> u, at |-> "checked",
                    snap |-> flows[f], answer |-> "none"]
  OBVIOUS
<1>4. f \in Ids /\ FlowFits(flows[f]) /\ Chosen(flows[f].modes)
  BY DEF FlowInv, FlowsFit, FlowFits, WriteAsk
<1>5. TaskFits(w, Ids)
  BY <1>3, <1>4 DEF TaskFits, WriteFits
<1>6. Become(t, w)
  BY <1>3 DEF WriteAsk
<1>7. QED
  BY <1>1, <1>2, <1>5, <1>6, TasksFitOn DEF FlowInv, SpentFits

LEMMA SendFlow ==
  ASSUME FlowInv, NEW t \in Tasks, WriteSend(t)
  PROVE  FlowInv'
<1>1. PICK w : w = task[t]
  OBVIOUS
<1>2. WriteFits(w, Ids) /\ UNCHANGED <<shown, applied, spent>>
  BY <1>1, TaskOps DEF WriteSend, FlowInv, TasksFit
<1>3. CASE w.flow \in DOMAIN flows /\ flows[w.flow] = w.snap
  <2>1. PICK x : x = [w EXCEPT !.at = "sent", !.snap.writing = TRUE]
    OBVIOUS
  <2>2. flows' = [flows EXCEPT ![w.flow].writing = TRUE] /\ Become(t, x)
    BY <1>1, <1>3, <2>1 DEF WriteSend
  <2>3. TaskFits(x, Ids)
    BY <1>2, <2>1, SentFields DEF TaskFits
  <2>4. TasksFit'
    BY <1>2, <2>2, <2>3, TasksFitOn
  <2>5. /\ DOMAIN flows' = DOMAIN flows
        /\ \A f \in DOMAIN flows : f # w.flow => flows'[f] = flows[f]
        /\ flows'[w.flow] = [flows[w.flow] EXCEPT !.writing = TRUE]
    BY <1>3, <2>2
  <2>6. FlowFits(flows[w.flow])
    BY <1>3 DEF FlowInv, FlowsFit
  <2>7. FlowFits(flows'[w.flow])
    BY <2>5, <2>6, FlowFields DEF FlowFits
  <2>8. FlowsFit'
    BY <1>2, <2>5, <2>7, FlowsFitOn DEF FlowInv, FlowsFit
  <2>9. QED
    BY <1>2, <2>4, <2>8 DEF FlowInv, SpentFits
<1>4. CASE ~ (w.flow \in DOMAIN flows /\ flows[w.flow] = w.snap)
  <2>1. UNCHANGED flows /\ Become(t, Idle)
    BY <1>1, <1>4 DEF WriteSend
  <2>2. TasksFit'
    BY <1>2, <2>1, TasksFitOn DEF TaskFits
  <2>3. FlowsFit'
    BY <1>2, <2>1, FlowsFitOn DEF FlowInv, FlowsFit
  <2>4. QED
    BY <1>2, <2>2, <2>3 DEF FlowInv, SpentFits
<1>5. QED
  BY <1>3, <1>4

LEMMA AnswerFlow ==
  ASSUME FlowInv, NEW t \in Tasks, WriteServe(t)
  PROVE  FlowInv'
<1>1. PICK w : w = task[t]
  OBVIOUS
<1>2. WriteFits(w, Ids) /\ UNCHANGED <<flows, shown, spent>>
  BY <1>1, TaskOps DEF WriteServe, FlowInv, TasksFit
<1>3. PICK a : Become(t, [w EXCEPT !.at = "answered", !.answer = a])
  BY <1>1 DEF WriteServe
<1>4. TaskFits([w EXCEPT !.at = "answered", !.answer = a], Ids)
  BY <1>2, AnsweredFields DEF TaskFits
<1>5. TasksFit'
  BY <1>2, <1>3, <1>4, TasksFitOn
<1>6. applied' \subseteq applied \union {w.flow}
  BY <1>1 DEF WriteServe, CarryOut
<1>7. FlowsFit'
  BY <1>2, <1>6, FlowsFitOn DEF FlowInv, FlowsFit, WriteFits
<1>8. QED
  BY <1>2, <1>5, <1>7 DEF FlowInv, SpentFits

LEMMA EndFlow ==
  ASSUME FlowInv, NEW t \in Tasks, WriteEnd(t)
  PROVE  FlowInv'
<1>1. PICK w : w = task[t]
  OBVIOUS
<1>2. /\ WriteFits(w, Ids) /\ UNCHANGED <<applied, spent>> /\ Become(t, Idle)
  BY <1>1, TaskOps DEF WriteEnd, FlowInv, TasksFit
<1>3. TasksFit'
  BY <1>2, TasksFitOn DEF TaskFits
<1>4. FlowsFit'
  <2>1. CASE UNCHANGED <<flows, shown>>
    BY <1>2, <2>1, FlowsFitOn DEF FlowInv, FlowsFit
  <2>2. CASE flows' = Without(flows, {w.flow}) /\ shown' = Without(shown, {w.flow})
    BY <1>2, <2>2, DroppedFlow
  <2>3. CASE w.flow \in DOMAIN flows /\ flows' = [flows EXCEPT ![w.flow].writing = FALSE] /\ UNCHANGED shown
    <3>1. /\ DOMAIN flows' = DOMAIN flows
          /\ \A f \in DOMAIN flows : f # w.flow => flows'[f] = flows[f]
          /\ flows'[w.flow] = [flows[w.flow] EXCEPT !.writing = FALSE]
      BY <2>3
    <3>2. FlowFits(flows[w.flow])
      BY <2>3 DEF FlowInv, FlowsFit
    <3>3. FlowFits(flows'[w.flow])
      BY <3>1, <3>2, FlowFields DEF FlowFits
    <3>4. QED
      BY <1>2, <2>3, <3>1, <3>3, FlowsFitOn DEF FlowInv, FlowsFit
  <2>4. QED
    BY <1>1, <2>1, <2>2, <2>3 DEF WriteEnd
<1>5. QED
  BY <1>2, <1>3, <1>4 DEF FlowInv, SpentFits

LEMMA CleanAskFlow ==
  ASSUME FlowInv, NEW t \in Tasks, NEW agent \in Agents, NEW approve, CleanAsk(t, agent, approve)
  PROVE  FlowInv'
<1>1. UNCHANGED <<flows, shown, applied, spent>>
  BY DEF CleanAsk
<1>2. PICK w : w = [op |-> "clean", agent |-> agent, token |-> removal[agent], approve |-> approve]
  OBVIOUS
<1>3. Become(t, w) /\ TaskFits(w, Ids)
  BY <1>2 DEF CleanAsk, TaskFits, CleanFits
<1>4. TasksFit'
  BY <1>1, <1>3, TasksFitOn
<1>5. QED
  BY <1>1, <1>4, FlowsFitOn DEF FlowInv, FlowsFit, SpentFits

\* Whatever leaves the flows, the commands and what they count alone.
LEMMA FlowStays ==
  ASSUME FlowInv, UNCHANGED <<flows, shown, applied, task>>,
         spent'.flows = spent.flows, SpentFits'
  PROVE  FlowInv'
<1>1. Ids' = Ids
  BY DEF Ids
<1>2. QED
  BY <1>1 DEF FlowInv, FlowsFit, TasksFit

LEMMA EditedFlow ==
  ASSUME FlowInv, NEW path, NEW content, UserEdit(path, content)
  PROVE  FlowInv'
<1>1. UNCHANGED <<flows, shown, applied, task>>
  BY DEF UserEdit, page
<1>2. spent' = [spent EXCEPT !.edits = @ + 1]
  BY DEF UserEdit
<1>3. spent' \in [flows : Nat, edits : Nat, restarts : Nat, case : Cases] /\ spent'.flows = spent.flows
  BY <1>2 DEF FlowInv, SpentFits
<1>4. QED
  BY <1>1, <1>3, FlowStays DEF SpentFits

LEMMA RestartedFlow ==
  ASSUME FlowInv, NEW now, Restart(now)
  PROVE  FlowInv'
<1>1. /\ flows' = Nothing /\ shown' = Nothing /\ task' = [t \in Tasks |-> Idle]
      /\ UNCHANGED applied
  BY DEF Restart
<1>2. spent' = [spent EXCEPT !.restarts = @ + 1]
  BY DEF Restart
<1>3. spent' \in [flows : Nat, edits : Nat, restarts : Nat, case : Cases] /\ spent'.flows = spent.flows
  BY <1>2 DEF FlowInv, SpentFits
<1>4. Ids' = Ids
  BY <1>3 DEF Ids
<1>5. FlowsFit'
  BY <1>1, <1>4, NothingHas DEF FlowInv, FlowsFit
<1>6. TasksFit'
  BY <1>1 DEF TasksFit, TaskFits
<1>7. QED
  BY <1>3, <1>5, <1>6 DEF FlowInv, SpentFits

LEMMA FlowAtFirst ==
  ASSUME PlansInit
  PROVE  FlowInv
<1>1. PICK c \in Cases : spent = [flows |-> 0, edits |-> 0, restarts |-> 0, case |-> c]
  BY DEF PlansInit
<1>2. SpentFits
  BY <1>1 DEF SpentFits
<1>3. FlowsFit
  BY NothingHas DEF PlansInit, FlowsFit
<1>4. TasksFit
  BY DEF PlansInit, TasksFit, TaskFits
<1>5. QED
  BY <1>2, <1>3, <1>4 DEF FlowInv

\* The actions that a command takes.
GoesOn(t) ==
  \/ PreviewServe(t) \/ PreviewShow(t)
  \/ WriteSend(t) \/ WriteServe(t) \/ WriteEnd(t) \/ CleanServe(t)
Asks(t) ==
  \/ \E f \in DOMAIN flows, config \in Configs :
       \/ \E modes \in Modes(flows[f].agents) : PreviewAsk(t, f, modes, config)
       \/ \E preview \in shown[f], overwrite, auth \in BOOLEAN :
            WriteAsk(t, f, preview, config, overwrite, auth)
  \/ \E agent \in Agents, approve \in BOOLEAN : CleanAsk(t, agent, approve)

LEMMA Moves ==
  ASSUME PlansNext
  PROVE  \/ \E agents \in spent.case.selections : OpenFlow(agents)
         \/ \E f \in DOMAIN flows : Destroy(f)
         \/ \E t \in Tasks : Asks(t)
         \/ \E t \in Tasks : GoesOn(t)
         \/ \E agent \in Agents : CleanPreview(agent)
         \/ \E edit \in spent.case.edits : UserEdit(edit[1], edit[2])
         \/ \E now \in SUBSET spent.case.movable : Restart(now)
  BY DEF PlansNext, GoesOn, Asks

LEMMA AsksFlow ==
  ASSUME FlowInv, NEW t \in Tasks, Asks(t)
  PROVE  FlowInv'
<1>1. CASE \E f \in DOMAIN flows, config \in Configs :
             \E modes \in Modes(flows[f].agents) : PreviewAsk(t, f, modes, config)
  BY <1>1, AskFlow
<1>2. CASE \E f \in DOMAIN flows, config \in Configs :
             \E preview \in shown[f], overwrite, auth \in BOOLEAN :
               WriteAsk(t, f, preview, config, overwrite, auth)
  BY <1>2, CheckFlow
<1>3. CASE \E agent \in Agents, approve \in BOOLEAN : CleanAsk(t, agent, approve)
  BY <1>3, CleanAskFlow
<1>4. QED
  BY <1>1, <1>2, <1>3 DEF Asks

LEMMA StepsFlow ==
  ASSUME FlowInv, NEW t \in Tasks, GoesOn(t)
  PROVE  FlowInv'
<1>1. CASE CleanServe(t)
  <2>1. UNCHANGED <<flows, shown, applied, spent>> /\ Become(t, Idle)
    BY <1>1 DEF CleanServe
  <2>2. TasksFit'
    BY <2>1, TasksFitOn DEF TaskFits
  <2>3. QED
    BY <2>1, <2>2, FlowsFitOn DEF FlowInv, FlowsFit, SpentFits
<1>2. QED
  BY <1>1, ServeFlow, ShowFlow, SendFlow, AnswerFlow, EndFlow DEF GoesOn

LEMMA CaseFits ==
  ASSUME FlowInv
  PROVE  /\ \A agents \in spent.case.selections : agents \subseteq Agents
         /\ \A edit \in spent.case.edits : edit[1] \in Paths /\ OfOthers(edit[1], edit[2])
<1>1. spent.case \in Cases
  BY DEF FlowInv, SpentFits
<1>2. QED
  BY <1>1, CasesAssumption

LEMMA FlowStep ==
  ASSUME FlowInv, [PlansNext]_plansVars
  PROVE  FlowInv'
<1>1. CASE \E agents \in spent.case.selections : OpenFlow(agents)
  BY <1>1, CaseFits, OpenedFlow
<1>2. CASE \E f \in DOMAIN flows : Destroy(f)
  <2>1. PICK f \in DOMAIN flows : Destroy(f)
    BY <1>2
  <2>2. /\ flows' = Without(flows, {f}) /\ shown' = Without(shown, {f})
        /\ UNCHANGED <<applied, spent>> /\ UNCHANGED task
    BY <2>1 DEF Destroy
  <2>3. FlowsFit' /\ SpentFits' /\ Ids' = Ids
    BY <2>2, DroppedFlow
  <2>4. TasksFit'
    BY <2>2, <2>3 DEF FlowInv, TasksFit
  <2>5. QED
    BY <2>3, <2>4 DEF FlowInv
<1>3. CASE \E t \in Tasks : Asks(t)
  BY <1>3, AsksFlow
<1>4. CASE \E t \in Tasks : GoesOn(t)
  BY <1>4, StepsFlow
<1>5. CASE \E agent \in Agents : CleanPreview(agent)
  BY <1>5, FlowStays DEF CleanPreview, page, FlowInv, SpentFits
<1>6. CASE \E edit \in spent.case.edits : UserEdit(edit[1], edit[2])
  BY <1>6, EditedFlow
<1>7. CASE \E now \in SUBSET spent.case.movable : Restart(now)
  BY <1>7, RestartedFlow
<1>8. CASE UNCHANGED plansVars
  BY <1>8, FlowStays DEF plansVars, FlowInv, SpentFits
<1>9. QED
  BY <1>1, <1>2, <1>3, <1>4, <1>5, <1>6, <1>7, <1>8, Moves

-------------------------------------------------------------------------------
(* The plans: what is offered is what is there. *)

LEMMA SettledHas ==
  ASSUME NEW p, NEW c, NEW f, Settled(p, c, f)
  PROVE  /\ DOMAIN Fragment(Kind(p), c) \subseteq DOMAIN f.has
         /\ \A e \in DOMAIN Fragment(Kind(p), c) : f.has[e] = Fragment(Kind(p), c)[e]
         /\ f = Document(f.has) /\ f.is = "document"
         /\ "comments" \notin DOMAIN f.has
         /\ "tokens" \notin DOMAIN f.has
         /\ "policy" \notin DOMAIN f.has
<1>1. PICK g : g = Fragment(Kind(p), c)
  OBVIOUS
<1>2. /\ DOMAIN Over(g, f.has) = DOMAIN g \union DOMAIN f.has
      /\ \A e \in DOMAIN g : Over(g, f.has)[e] = g[e]
  BY OverHas
<1>3. Over(g, f.has) = f.has /\ f = Document(f.has)
  BY <1>1 DEF Settled
<1>4. f.is = "document"
  BY <1>3 DEF Document
<1>5. QED
  BY <1>1, <1>2, <1>3, <1>4 DEF Settled

\* A plan of the section's own configuration makes of its file what is there.
LEMMA SettledStays ==
  ASSUME NEW p \in Paths, NEW c \in Configs, Settled(p, c, files[p]),
         DOMAIN files[p].has \intersect Dropped(p, "merge", c) = {}
  PROVE  Output(p, "merge", c) = files[p]
<1>1. PICK h : h = files[p].has
  OBVIOUS
<1>2. PICK d : d = Dropped(p, "merge", c)
  OBVIOUS
<1>3. PICK g : g = Fragment(Kind(p), c)
  OBVIOUS
<1>4. Output(p, "merge", c) = Document(Over(g, Without(h, d)))
  BY <1>1, <1>2, <1>3, OutputHas
<1>5. DOMAIN Without(h, d) = DOMAIN h /\ \A e \in DOMAIN h : Without(h, d)[e] = h[e]
  <2>1. DOMAIN h \ d = DOMAIN h
    BY <1>1, <1>2
  <2>2. /\ DOMAIN Without(h, d) = DOMAIN h \ d
        /\ \A e \in DOMAIN h \ d : Without(h, d)[e] = h[e]
    BY WithoutHas
  <2>3. QED
    BY <2>1, <2>2
<1>6. Over(g, Without(h, d)) = Over(g, h)
  BY <1>5 DEF Over
<1>7. Over(g, h) = h /\ files[p] = Document(h)
  BY <1>1, <1>3 DEF Settled
<1>8. QED
  BY <1>4, <1>6, <1>7

LEMMA NothingObsolete ==
  ASSUME DiskInv, NEW a \in DOMAIN sidecar
  PROVE  Owned(a, sidecar[a].config) = sidecar[a].owned /\ Obsolete(a, sidecar[a].config) = {}
<1>1. a \in Agents /\ sidecar[a].config \in Configs /\ sidecar[a].owned = OwnedBy(a, sidecar[a].config)
  BY DEF DiskInv, SectionsFit, SectionFits
<1>2. Owned(a, sidecar[a].config) = sidecar[a].owned
  BY <1>1, OwnedTable
<1>3. QED
  BY <1>2 DEF Obsolete

LEMMA CodexSettled ==
  ASSUME NEW c \in Configs, Settled("config", c, files["config"]), Settled("auth", c, files["auth"])
  PROVE  /\ ~Historical(files["config"].has, files["auth"].has)
         /\ ~AuthCollides(files["config"].has, files["auth"].has)
         /\ ~PolicyForbids(files["config"].has)
<1>1. PICK h : h = files["config"].has
  OBVIOUS
<1>2. PICK k : k = files["auth"].has
  OBVIOUS
<1>3. Fragment("config", c) = CodexTable(c) /\ Fragment("auth", c) = CodexAuth
  BY DEF Fragment
<1>4. /\ CodexTable(c)["store"] = Router /\ CodexTable(c)["roots"] = c /\ CodexAuth["login"] = Router
      /\ {"store", "roots"} \subseteq DOMAIN CodexTable(c) /\ "login" \in DOMAIN CodexAuth
  BY DEF CodexTable, CodexAuth
<1>5. /\ h["store"] = Router /\ h["roots"] = c /\ "policy" \notin DOMAIN h
  BY <1>1, <1>3, <1>4, PathTable, SettledHas
<1>6. k["login"] = Router /\ "login" \in DOMAIN k /\ "tokens" \notin DOMAIN k
  BY <1>2, <1>3, <1>4, PathTable, SettledHas
<1>7. c # Legacy /\ Router # User
  BY ValuesApart
<1>8. QED
  BY <1>1, <1>2, <1>5, <1>6, <1>7 DEF Historical, AuthCollides, PolicyForbids, Says, Named

\* With the section's configuration, its agent's plan is the files as they are.
LEMMA OfferedHere ==
  ASSUME DiskInv, NEW a \in DOMAIN sidecar, Offered(a),
         DOMAIN sidecar[a].at = {Target(p, "merge") : p \in Current(a)}
  PROVE  /\ a \in Agents
         /\ Current(a) = DOMAIN sidecar[a].at
         /\ \A p \in Current(a) : /\ p \in Paths /\ AgentOf(p) = a
                                  /\ Target(p, "merge") = p
                                  /\ files[p] = sidecar[a].at[p]
                                  /\ Settled(p, sidecar[a].config, files[p])
<1>1. a \in Agents
  BY DEF DiskInv, SectionsFit
<1>2. \A p \in DOMAIN sidecar[a].at : files[p] = sidecar[a].at[p]
  BY DEF Offered, Changed
<1>3. \A p \in DOMAIN sidecar[a].at : Settled(p, sidecar[a].config, files[p])
  BY <1>2, SectionAt
<1>4. \A p \in DOMAIN sidecar[a].at : files[p].is = "document"
  BY <1>3, SettledHas
<1>5. files["json"].is = "document" => Regular(files["json"])
  BY DEF Regular
<1>6. \A p \in Current(a) : p \in Paths /\ AgentOf(p) = a
  BY <1>1, CurrentTable, PathTable DEF Agents, Paths
<1>7. ASSUME NEW p \in Current(a) PROVE Target(p, "merge") = p
  <2>1. SUFFICES ASSUME p = "jsonc" PROVE FALSE
    BY DEF Target
  <2>2. a = "opencode"
    BY <2>1, <1>6, PathTable
  <2>3. ~Regular(files["json"])
    BY <1>7, <2>1, <2>2, CurrentTable
  <2>4. "json" \in DOMAIN sidecar[a].at
    BY <1>7, <2>1 DEF Target
  <2>5. QED
    BY <1>4, <1>5, <2>3, <2>4
<1>8. Current(a) = DOMAIN sidecar[a].at
  BY <1>7
<1>9. QED
  BY <1>1, <1>2, <1>3, <1>6, <1>7, <1>8

LEMMA OfferedPlan ==
  ASSUME DiskInv, NEW a \in DOMAIN sidecar, Offered(a),
         DOMAIN sidecar[a].at = {Target(p, "merge") : p \in Current(a)},
         NEW again, again = [b \in {a} |-> "merge"]
  PROVE  /\ Plannable(again) /\ ~AsksAuth(again) /\ Drifted(again, sidecar[a].config) = {}
         /\ Effect(again, sidecar[a].config) = sidecar[a].at
<1>1. PICK c \in Configs : c = sidecar[a].config
  BY DEF DiskInv, SectionsFit, SectionFits
<1>2. /\ a \in Agents /\ Current(a) = DOMAIN sidecar[a].at
      /\ \A p \in Current(a) : /\ p \in Paths /\ AgentOf(p) = a
                               /\ Target(p, "merge") = p
                               /\ files[p] = sidecar[a].at[p]
                               /\ Settled(p, c, files[p])
  BY <1>1, OfferedHere
<1>3. DOMAIN again = {a} /\ again[a] = "merge" /\ {a} \in SUBSET Agents /\ again \in Modes({a})
  BY <1>2 DEF Modes
<1>4. \A p \in Current(a) :
        /\ files[p].is = "document"
        /\ "comments" \notin DOMAIN files[p].has /\ "tokens" \notin DOMAIN files[p].has
  BY <1>2, SettledHas
<1>5. a = "codex" => /\ ~Historical(files["config"].has, files["auth"].has)
                     /\ ~AuthCollides(files["config"].has, files["auth"].has)
                     /\ ~PolicyForbids(files["config"].has)
  BY <1>2, CurrentTable, CodexSettled
<1>6. Plannable(again)
  <2>1. ~Invalid(a)
    BY <1>4 DEF Invalid, Usable
  <2>2. Mergeable(a)
    BY <1>2, <1>5, <2>1 DEF Mergeable
  <2>3. QED
    BY <1>3, <2>2 DEF Plannable
<1>7. ~AsksAuth(again)
  BY <1>3, <1>5 DEF AsksAuth
<1>8. Drifted(again, c) = {}
  <2>1. ~Changed(a)
    BY DEF Offered
  <2>2. ~ (a = "claude" /\ Collides(a, c))
    BY <1>1, NothingObsolete DEF Collides
  <2>3. QED
    BY <1>3, <2>1, <2>2 DEF Drifted
<1>9. ASSUME NEW p \in Current(a) PROVE Output(p, "merge", c) = sidecar[a].at[p]
  <2>1. Obsolete(AgentOf(p), c) = {}
    BY <1>1, <1>2, NothingObsolete
  <2>2. Kind(p) = "config" => ~Historical(files["config"].has, files["auth"].has)
    BY <1>2, <1>5, KindOfPath
  <2>3. Dropped(p, "merge", c) \subseteq {"comments", "tokens"}
    BY <2>1, <2>2 DEF Dropped
  <2>4. DOMAIN files[p].has \intersect Dropped(p, "merge", c) = {}
    BY <1>4, <2>3
  <2>5. QED
    BY <1>2, <2>4, SettledStays
<1>10. /\ DOMAIN Effect(again, c) = {To(p, again) : p \in Sources(again)}
       /\ \A p \in Sources(again) : Effect(again, c)[To(p, again)] = Output(p, again[AgentOf(p)], c)
  BY <1>3, EffectHas
<1>11. Sources(again) = Current(a) /\ \A p \in Current(a) : To(p, again) = p /\ again[AgentOf(p)] = "merge"
  <2>1. Sources(again) = UNION {Current(b) : b \in {a}}
    BY <1>3 DEF Sources
  <2>2. Sources(again) = Current(a)
    BY <2>1
  <2>3. \A p \in Current(a) : again[AgentOf(p)] = "merge"
    BY <1>2, <1>3
  <2>4. \A p \in Current(a) : To(p, again) = p
    BY <1>2, <2>3 DEF To
  <2>5. QED
    BY <2>2, <2>3, <2>4
<1>12. /\ DOMAIN Effect(again, c) = DOMAIN sidecar[a].at
       /\ \A p \in DOMAIN sidecar[a].at : Effect(again, c)[p] = sidecar[a].at[p]
  <2>1. DOMAIN Effect(again, c) = {To(p, again) : p \in Current(a)}
    BY <1>10, <1>11
  <2>2. DOMAIN Effect(again, c) = Current(a)
    BY <1>11, <2>1
  <2>3. \A p \in Current(a) : Effect(again, c)[p] = Output(p, "merge", c)
    BY <1>10, <1>11
  <2>4. QED
    BY <1>2, <1>9, <2>2, <2>3
<1>13. Effect(again, c) = [p \in DOMAIN Effect(again, c) |-> Effect(again, c)[p]]
  BY DEF Effect
<1>14. sidecar[a].at = [p \in DOMAIN sidecar[a].at |-> sidecar[a].at[p]]
  BY DEF DiskInv, SectionsFit, SectionFits
<1>15. Effect(again, c) = sidecar[a].at
  BY <1>12, <1>13, <1>14
<1>16. QED
  BY <1>1, <1>6, <1>7, <1>8, <1>15

LEMMA OfferedTrue ==
  ASSUME DiskInv
  PROVE  OfferedIsThere
<1>1. ASSUME NEW a \in DOMAIN sidecar, Offered(a),
             DOMAIN sidecar[a].at = {Target(p, "merge") : p \in Current(a)}
      PROVE  /\ Plannable([b \in {a} |-> "merge"]) /\ ~AsksAuth([b \in {a} |-> "merge"])
             /\ Drifted([b \in {a} |-> "merge"], sidecar[a].config) = {}
             /\ Effect([b \in {a} |-> "merge"], sidecar[a].config) = sidecar[a].at
  BY <1>1, OfferedPlan
<1>2. QED
  BY <1>1 DEF OfferedIsThere

-------------------------------------------------------------------------------
(* The plans: every step keeps the files and the sections. *)

PlansInv == FlowInv /\ DiskInv

LEMMA DiskStays ==
  ASSUME DiskInv, UNCHANGED onDisk
  PROVE  DiskInv'
<1>1. files' = files /\ sidecar' = sidecar /\ left' = left
  BY DEF onDisk
<1>2. FilesFit' /\ SectionsFit'
  BY <1>1 DEF DiskInv, FilesFit, SectionsFit
<1>3. ManagedIsRecorded'
  BY <1>1 DEF DiskInv, ManagedIsRecorded
<1>4. QED
  BY <1>2, <1>3 DEF DiskInv

LEMMA AsksDisk ==
  ASSUME NEW t \in Tasks, Asks(t)
  PROVE  UNCHANGED onDisk
<1>1. ASSUME NEW f, NEW modes, NEW config, PreviewAsk(t, f, modes, config)
      PROVE  UNCHANGED onDisk
  BY <1>1 DEF PreviewAsk
<1>2. ASSUME NEW f, NEW v, NEW config, NEW o, NEW u, WriteAsk(t, f, v, config, o, u)
      PROVE  UNCHANGED onDisk
  BY <1>2 DEF WriteAsk
<1>3. ASSUME NEW a, NEW approve, CleanAsk(t, a, approve)
      PROVE  UNCHANGED onDisk
  BY <1>3 DEF CleanAsk
<1>4. QED
  BY <1>1, <1>2, <1>3 DEF Asks

\* What a write is of.
LEMMA WriteOf ==
  ASSUME FlowInv, NEW t \in Tasks, task[t].op = "write"
  PROVE  \E A \in SUBSET Agents : task[t].snap.modes \in Modes(A) /\ task[t].config \in Configs
<1>1. WriteFits(task[t], Ids)
  BY TaskOps DEF FlowInv, TasksFit
<1>2. QED
  BY <1>1 DEF WriteFits, Chosen

LEMMA ServeDisk ==
  ASSUME PlansInv, NEW t \in Tasks, WriteServe(t)
  PROVE  DiskInv'
<1>1. CASE Plannable(task[t].snap.modes) /\ CarryOut(task[t])
  <2>1. PICK A \in SUBSET Agents : task[t].snap.modes \in Modes(A) /\ task[t].config \in Configs
    BY WriteOf DEF WriteServe, PlansInv
  <2>2. QED
    BY <1>1, <2>1, CarryOutFits DEF PlansInv
<1>2. CASE UNCHANGED onDisk
  BY <1>2, DiskStays DEF PlansInv
<1>3. QED
  BY <1>1, <1>2 DEF WriteServe

LEMMA CleanDisk ==
  ASSUME PlansInv, NEW t \in Tasks, CleanServe(t)
  PROVE  DiskInv'
<1>1. CASE /\ CleanAccepted(task[t])
           /\ Put(CleanEffect(task[t].agent))
           /\ sidecar' = Without(sidecar, {task[t].agent})
  <2>1. task[t].agent \in DOMAIN sidecar
    BY <1>1 DEF CleanAccepted, Removable
  <2>2. files' = Over(CleanEffect(task[t].agent), files) /\ UNCHANGED left
    BY <1>1 DEF Put, CleanServe
  <2>3. QED
    BY <1>1, <2>1, <2>2, CleanupFits DEF PlansInv
<1>2. CASE UNCHANGED <<files, sidecar>>
  BY <1>2, DiskStays DEF PlansInv, CleanServe, onDisk
<1>3. QED
  BY <1>1, <1>2 DEF CleanServe

LEMMA DiskStep ==
  ASSUME PlansInv, [PlansNext]_plansVars
  PROVE  DiskInv'
<1>1. CASE \E agents \in spent.case.selections : OpenFlow(agents)
  <2>1. UNCHANGED onDisk
    BY <1>1, ZenonT(30) DEF OpenFlow
  <2>2. QED
    BY <2>1, DiskStays DEF PlansInv
<1>2. CASE \E f \in DOMAIN flows : Destroy(f)
  BY <1>2, DiskStays DEF Destroy, PlansInv
<1>3. CASE \E t \in Tasks : Asks(t)
  <2>1. UNCHANGED onDisk
    BY <1>3, AsksDisk
  <2>2. QED
    BY <2>1, DiskStays DEF PlansInv
<1>4. ASSUME NEW t \in Tasks, GoesOn(t) PROVE DiskInv'
  <2>1. CASE PreviewServe(t) \/ PreviewShow(t) \/ WriteSend(t) \/ WriteEnd(t)
    <3>1. UNCHANGED onDisk
      BY <2>1 DEF PreviewServe, PreviewShow, WriteSend, WriteEnd
    <3>2. QED
      BY <3>1, DiskStays DEF PlansInv
  <2>2. QED
    BY <1>4, <2>1, ServeDisk, CleanDisk DEF GoesOn
<1>5. CASE \E agent \in Agents : CleanPreview(agent)
  BY <1>5, DiskStays DEF CleanPreview, PlansInv
<1>6. CASE \E edit \in spent.case.edits : UserEdit(edit[1], edit[2])
  BY <1>6, CaseFits, EditFits DEF PlansInv
<1>7. CASE \E now \in SUBSET spent.case.movable : Restart(now)
  BY <1>7, DiskStays DEF Restart, PlansInv
<1>8. CASE UNCHANGED plansVars
  BY <1>8, DiskStays DEF plansVars, PlansInv, onDisk
<1>9. QED
  BY <1>1, <1>2, <1>3, <1>4, <1>5, <1>6, <1>7, <1>8, Moves

\* The files hold the manager's values only where a configuration puts them, and
\* every section is of one configuration and of files that hold its fragment whole
\* (append_sidecar_plan, sidecar_section); the flows and the commands are well formed.
THEOREM PlansTyped == PlansSpec => []PlansInv
<1>1. PlansInit => PlansInv
  BY FlowAtFirst, DiskAtFirst DEF PlansInv
<1>2. PlansInv /\ [PlansNext]_plansVars => PlansInv'
  BY FlowStep, DiskStep DEF PlansInv
<1>3. QED
  BY <1>1, <1>2, PTL DEF PlansSpec

\* Whatever the manager wrote and is still in a file the sidecar records, and to
\* write again what is offered asks nothing and changes nothing
\* (append_sidecar_plan, obsolete_claude_env, applied_revisions_match).
THEOREM SidecarTrue == PlansSpec => []SidecarIsTrue
<1>1. PlansInv => SidecarIsTrue
  BY OfferedTrue DEF PlansInv, DiskInv, SidecarIsTrue
<1>2. QED
  BY <1>1, PlansTyped, PTL

-------------------------------------------------------------------------------
(* The plans: a flow is written once. *)

\* The write is with the manager, or its answer is on the way back.
Under(t) == task[t].op = "write" /\ task[t].at \in {"sent", "answered"}
Settles(f) ==
  \E t \in Tasks : /\ Under(t) /\ task[t].flow = f
                   /\ task[t].at = "answered" /\ task[t].answer = "done"
\* What the flow of a command was when it looked, and is.
Holds(w) ==
  /\ w.at \in {"checked", "sent"} => w.answer = "none"
  /\ w.at = "checked" => ~w.snap.writing
  /\ w.at \in {"sent", "answered"} =>
       w.snap.writing /\ (w.flow \in DOMAIN flows => flows[w.flow] = w.snap)
  /\ w.at = "sent" => w.flow \notin applied
OnceInv ==
  /\ \A t \in Tasks : task[t].op = "write" => Holds(task[t])
  /\ \A t, u \in Tasks : Under(t) /\ Under(u) /\ t # u => task[t].flow # task[u].flow
  /\ \A f \in applied \intersect DOMAIN flows : Settles(f)

\* No write is sent, answered or ended, and no flow of one changes.
LEMMA OnceQuiet ==
  ASSUME FlowInv, OnceInv, NEW t \in Tasks, ~Under(t),
         \A u \in Tasks \ {t} : task'[u] = task[u],
         task'[t].op = "write" => /\ task'[t].at = "checked" /\ task'[t].answer = "none"
                                  /\ ~task'[t].snap.writing,
         UNCHANGED applied, DOMAIN flows' \subseteq DOMAIN flows,
         \A f \in DOMAIN flows' : flows[f].writing => flows'[f] = flows[f]
  PROVE  OnceInv'
<1>1. \A u \in Tasks : Under(u)' <=> Under(u)
  BY DEF Under
<1>2. ASSUME NEW u \in Tasks, task'[u].op = "write" PROVE Holds(task[u])'
  <2>1. CASE u = t
    BY <1>2, <2>1 DEF Holds
  <2>2. CASE u # t
    BY <1>2, <2>2 DEF Holds, OnceInv
  <2>3. QED
    BY <2>1, <2>2
<1>3. \A u, v \in Tasks : Under(u)' /\ Under(v)' /\ u # v => task'[u].flow # task'[v].flow
  BY <1>1 DEF OnceInv
<1>4. ASSUME NEW f \in applied \intersect DOMAIN flows' PROVE Settles(f)'
  <2>1. PICK u \in Tasks : /\ Under(u) /\ task[u].flow = f
                           /\ task[u].at = "answered" /\ task[u].answer = "done"
    BY <1>4 DEF OnceInv, Settles
  <2>2. task'[u] = task[u]
    BY <2>1
  <2>3. QED
    BY <1>1, <2>1, <2>2 DEF Settles
<1>5. QED
  BY <1>2, <1>3, <1>4 DEF OnceInv

LEMMA OnceOpened ==
  ASSUME FlowInv, OnceInv, NEW agents, agents \subseteq Agents, OpenFlow(agents)
  PROVE  OnceInv'
<1>1. /\ spent.flows + 1 \notin Ids
      /\ DOMAIN flows' = DOMAIN flows \union {spent.flows + 1}
      /\ \A f \in DOMAIN flows : flows'[f] = flows[f]
  BY OpenedFlow
<1>2. UNCHANGED <<task, applied>>
  BY DEF OpenFlow
<1>3. \A t \in Tasks : task[t].op = "write" => task[t].flow \in Ids
  BY TaskOps DEF FlowInv, TasksFit, WriteFits
<1>4. \A t \in Tasks : task[t].op = "write" => Holds(task[t])'
  BY <1>1, <1>2, <1>3 DEF OnceInv, Holds
<1>5. applied \intersect DOMAIN flows' = applied \intersect DOMAIN flows
  BY <1>1 DEF FlowInv, FlowsFit
<1>6. QED
  BY <1>2, <1>4, <1>5 DEF OnceInv, Settles, Under

LEMMA OnceSent ==
  ASSUME FlowInv, OnceInv, NEW t \in Tasks, WriteSend(t)
  PROVE  OnceInv'
<1>1. PICK w : w = task[t]
  OBVIOUS
<1>2. WriteFits(w, Ids) /\ UNCHANGED applied /\ w.at = "checked" /\ w.op = "write" /\ ~Under(t)
  BY <1>1, TaskOps DEF WriteSend, FlowInv, TasksFit, Under
<1>3. CASE w.flow \in DOMAIN flows /\ flows[w.flow] = w.snap
  <2>1. PICK x : x = [w EXCEPT !.at = "sent", !.snap.writing = TRUE]
    OBVIOUS
  <2>2. flows' = [flows EXCEPT ![w.flow].writing = TRUE] /\ Become(t, x)
    BY <1>1, <1>3, <2>1 DEF WriteSend
  <2>3. /\ DOMAIN flows' = DOMAIN flows
        /\ \A f \in DOMAIN flows : f # w.flow => flows'[f] = flows[f]
        /\ flows'[w.flow] = [w.snap EXCEPT !.writing = TRUE]
    BY <1>3, <2>2
  <2>4. /\ x.op = "write" /\ x.at = "sent" /\ x.snap = [w.snap EXCEPT !.writing = TRUE]
        /\ x.snap.writing /\ x.flow = w.flow /\ x.answer = "none"
    <3>1. w.answer = "none"
      BY <1>1, <1>2 DEF OnceInv, Holds
    <3>2. WriteFits(w, Ids)
      BY <1>2
    <3>3. WriteFits(x, Ids)
      BY <2>1, <3>2, SentFields
    <3>4. x.at = "sent"
      BY <2>1, <3>2 DEF WriteFits
    <3>5. x.snap = [w.snap EXCEPT !.writing = TRUE]
      BY <2>1, <3>2 DEF WriteFits
    <3>6. x.snap.writing
      BY <2>1, <3>2, SentFields
    <3>7. x.flow = w.flow /\ x.answer = w.answer
      BY <2>1, <3>2 DEF WriteFits
    <3>8. x.op = "write"
      BY <3>3 DEF WriteFits
    <3>9. QED
      BY <3>1, <3>4, <3>5, <3>6, <3>7, <3>8
  <2>5. task'[t] = x /\ \A u \in Tasks \ {t} : task'[u] = task[u]
    BY <2>2, Became DEF FlowInv
  <2>6. ~flows[w.flow].writing
    BY <1>1, <1>2, <1>3 DEF OnceInv, Holds
  <2>7. \A u \in Tasks : Under(u) => task[u].flow # w.flow
    BY <1>3, <2>6 DEF OnceInv, Holds, Under
  <2>8. w.flow \notin applied
    BY <1>3, <2>7 DEF OnceInv, Settles
  <2>9. Holds(task[t])'
    BY <1>2, <2>3, <2>4, <2>5, <2>8 DEF Holds
  <2>10. ASSUME NEW u \in Tasks \ {t}, task[u].op = "write" PROVE Holds(task[u])'
    <3>1. Holds(task[u]) /\ task'[u] = task[u]
      BY <2>5, <2>10 DEF OnceInv
    <3>2. task[u].at \in {"sent", "answered"} => task[u].flow # w.flow
      BY <2>7, <2>10 DEF Under
    <3>3. QED
      BY <1>2, <2>3, <3>1, <3>2 DEF Holds
  <2>11. ASSUME NEW u \in Tasks, NEW v \in Tasks, Under(u)', Under(v)', u # v
         PROVE  task'[u].flow # task'[v].flow
    BY <2>4, <2>5, <2>7, <2>11 DEF OnceInv, Under
  <2>12. ASSUME NEW f \in applied \intersect DOMAIN flows PROVE Settles(f)'
    <3>1. PICK u \in Tasks : /\ Under(u) /\ task[u].flow = f
                             /\ task[u].at = "answered" /\ task[u].answer = "done"
      BY <2>12 DEF OnceInv, Settles
    <3>2. task'[u] = task[u]
      BY <1>2, <2>5, <3>1
    <3>3. QED
      BY <3>1, <3>2 DEF Settles, Under
  <2>13. QED
    BY <1>2, <2>3, <2>5, <2>9, <2>10, <2>11, <2>12 DEF OnceInv
<1>4. CASE ~ (w.flow \in DOMAIN flows /\ flows[w.flow] = w.snap)
  <2>1. UNCHANGED flows /\ Become(t, Idle)
    BY <1>1, <1>4 DEF WriteSend
  <2>2. task'[t] = Idle /\ \A u \in Tasks \ {t} : task'[u] = task[u]
    BY <2>1, Became DEF FlowInv
  <2>3. QED
    BY <1>2, <2>1, <2>2, OnceQuiet DEF Idle
<1>5. QED
  BY <1>3, <1>4

LEMMA OnceAnswered ==
  ASSUME FlowInv, OnceInv, NEW t \in Tasks, WriteServe(t)
  PROVE  OnceInv'
<1>1. PICK w : w = task[t]
  OBVIOUS
<1>2. WriteFits(w, Ids) /\ UNCHANGED flows /\ w.at = "sent" /\ w.op = "write"
  BY <1>1, TaskOps DEF WriteServe, FlowInv, TasksFit
<1>3. PICK a : /\ Become(t, [w EXCEPT !.at = "answered", !.answer = a])
               /\ applied' = applied \/ (a = "done" /\ applied' = applied \union {w.flow})
  BY <1>1 DEF WriteServe, CarryOut
<1>4. PICK x : x = [w EXCEPT !.at = "answered", !.answer = a]
  OBVIOUS
<1>5. /\ x.op = "write" /\ x.at = "answered" /\ x.answer = a
      /\ x.flow = w.flow /\ x.snap = w.snap
  BY <1>2, <1>4, AnsweredFields DEF WriteFits
<1>6. task'[t] = x /\ \A u \in Tasks \ {t} : task'[u] = task[u]
  BY <1>3, <1>4, Became DEF FlowInv
<1>7. Under(t) /\ Holds(w)
  BY <1>1, <1>2 DEF Under, OnceInv
<1>8. \A u \in Tasks : Under(u)' <=> Under(u)
  BY <1>5, <1>6, <1>7 DEF Under
<1>9. \A u \in Tasks \ {t} : Under(u) => task[u].flow # w.flow
  BY <1>1, <1>7 DEF OnceInv
<1>10. Holds(task[t])'
  BY <1>2, <1>5, <1>6, <1>7 DEF Holds
<1>11. ASSUME NEW u \in Tasks \ {t}, task[u].op = "write" PROVE Holds(task[u])'
  <2>1. Holds(task[u]) /\ task'[u] = task[u]
    BY <1>6, <1>11 DEF OnceInv
  <2>2. task[u].at = "sent" => task[u].flow # w.flow
    BY <1>9, <1>11 DEF Under
  <2>3. QED
    BY <1>2, <1>3, <2>1, <2>2 DEF Holds
<1>12. \A u \in Tasks : task'[u].flow = task[u].flow
  BY <1>1, <1>5, <1>6
<1>13. \A u, v \in Tasks : Under(u)' /\ Under(v)' /\ u # v => task'[u].flow # task'[v].flow
  BY <1>8, <1>12 DEF OnceInv
<1>14. ASSUME NEW f \in applied' \intersect DOMAIN flows PROVE Settles(f)'
  <2>1. CASE f \in applied
    <3>1. PICK u \in Tasks : /\ Under(u) /\ task[u].flow = f
                             /\ task[u].at = "answered" /\ task[u].answer = "done"
      BY <1>14, <2>1 DEF OnceInv, Settles
    <3>2. task'[u] = task[u]
      BY <1>1, <1>2, <1>6, <3>1
    <3>3. QED
      BY <1>8, <3>1, <3>2 DEF Settles
  <2>2. CASE f \notin applied
    <3>1. a = "done" /\ f = w.flow
      BY <1>3, <1>14, <2>2
    <3>2. QED
      BY <1>5, <1>6, <1>7, <1>8, <3>1 DEF Settles
  <2>3. QED
    BY <2>1, <2>2
<1>15. QED
  BY <1>2, <1>6, <1>10, <1>11, <1>13, <1>14 DEF OnceInv

LEMMA OnceEnded ==
  ASSUME FlowInv, OnceInv, NEW t \in Tasks, WriteEnd(t)
  PROVE  OnceInv'
<1>1. PICK w : w = task[t]
  OBVIOUS
<1>2. /\ w.at = "answered" /\ w.op = "write" /\ UNCHANGED applied /\ Become(t, Idle)
      /\ Under(t) /\ Holds(w)
  BY <1>1 DEF WriteEnd, Under, OnceInv
<1>3. task'[t] = Idle /\ \A u \in Tasks \ {t} : task'[u] = task[u]
  BY <1>2, Became DEF FlowInv
<1>4. \A u \in Tasks \ {t} : Under(u) => task[u].flow # w.flow
  BY <1>1, <1>2 DEF OnceInv
<1>5. /\ \A f \in DOMAIN flows' : f \in DOMAIN flows
      /\ \A f \in DOMAIN flows' : f # w.flow => flows'[f] = flows[f]
      /\ w.flow \in DOMAIN flows' => w.answer = "stale"
  <2>1. CASE ~ (w.flow \in DOMAIN flows /\ flows[w.flow] = w.snap)
    <3>1. UNCHANGED flows /\ w.flow \notin DOMAIN flows
      BY <1>1, <1>2, <2>1 DEF WriteEnd, Holds
    <3>2. QED
      BY <3>1
  <2>2. CASE w.flow \in DOMAIN flows /\ flows[w.flow] = w.snap /\ w.answer = "stale"
    BY <1>1, <2>2 DEF WriteEnd
  <2>3. CASE w.flow \in DOMAIN flows /\ flows[w.flow] = w.snap /\ w.answer # "stale"
    <3>1. flows' = Without(flows, {w.flow})
      BY <1>1, <2>3 DEF WriteEnd
    <3>2. /\ DOMAIN Without(flows, {w.flow}) = DOMAIN flows \ {w.flow}
          /\ \A g \in DOMAIN flows \ {w.flow} : Without(flows, {w.flow})[g] = flows[g]
      BY WithoutHas
    <3>3. QED
      BY <3>1, <3>2
  <2>4. QED
    BY <2>1, <2>2, <2>3
<1>6. \A u \in Tasks : Under(u)' <=> Under(u) /\ u # t
  BY <1>3 DEF Under, Idle
<1>7. ASSUME NEW u \in Tasks, task'[u].op = "write" PROVE Holds(task[u])'
  <2>1. u # t /\ task'[u] = task[u] /\ Holds(task[u])
    BY <1>3, <1>7 DEF Idle, OnceInv
  <2>2. task[u].at \in {"sent", "answered"} => task[u].flow # w.flow
    BY <1>4, <1>7, <2>1 DEF Under
  <2>3. QED
    BY <1>2, <1>5, <2>1, <2>2 DEF Holds
<1>8. ASSUME NEW u \in Tasks, NEW v \in Tasks, Under(u)', Under(v)', u # v
      PROVE  task'[u].flow # task'[v].flow
  BY <1>3, <1>6, <1>8 DEF OnceInv
<1>9. ASSUME NEW f \in applied \intersect DOMAIN flows' PROVE Settles(f)'
  <2>1. PICK u \in Tasks : /\ Under(u) /\ task[u].flow = f
                           /\ task[u].at = "answered" /\ task[u].answer = "done"
    BY <1>5, <1>9 DEF OnceInv, Settles
  <2>2. u # t
    BY <1>1, <1>5, <1>9, <2>1
  <2>3. task'[u] = task[u]
    BY <1>3, <2>2
  <2>4. QED
    BY <1>6, <2>1, <2>2, <2>3 DEF Settles
<1>10. QED
  BY <1>2, <1>7, <1>8, <1>9 DEF OnceInv

LEMMA OnceAsks ==
  ASSUME FlowInv, OnceInv, NEW t \in Tasks, Asks(t)
  PROVE  OnceInv'
<1>1. task[t] = Idle /\ UNCHANGED <<flows, applied>>
  BY DEF Asks, PreviewAsk, WriteAsk, CleanAsk, Room
<1>2. ~Under(t)
  BY <1>1 DEF Under, Idle
<1>3. PICK w : Become(t, w) /\ (w.op = "write" => w.at = "checked" /\ w.answer = "none" /\ ~w.snap.writing)
  <2>1. CASE \E f \in DOMAIN flows, config \in Configs :
               \E modes \in Modes(flows[f].agents) : PreviewAsk(t, f, modes, config)
    BY <2>1 DEF PreviewAsk
  <2>2. ASSUME NEW f \in DOMAIN flows, NEW config \in Configs, NEW v \in shown[f],
               NEW o \in BOOLEAN, NEW u \in BOOLEAN, WriteAsk(t, f, v, config, o, u)
        PROVE  \E w : Become(t, w) /\ (w.op = "write" => w.at = "checked" /\ w.answer = "none"
                                                         /\ ~w.snap.writing)
    <3>1. PICK w : w = [op |-> "write", flow |-> f, preview |-> v, config |-> config,
                        overwrite |-> o, auth |-> u, at |-> "checked",
                        snap |-> flows[f], answer |-> "none"]
      OBVIOUS
    <3>2. Become(t, w) /\ Free(f)
      BY <2>2, <3>1 DEF WriteAsk
    <3>3. QED
      BY <3>1, <3>2 DEF Free
  <2>3. CASE \E agent \in Agents, approve \in BOOLEAN : CleanAsk(t, agent, approve)
    BY <2>3 DEF CleanAsk
  <2>4. QED
    BY <2>1, <2>2, <2>3 DEF Asks
<1>4. task'[t] = w /\ \A u \in Tasks \ {t} : task'[u] = task[u]
  BY <1>3, Became DEF FlowInv
<1>5. QED
  BY <1>1, <1>2, <1>3, <1>4, OnceQuiet

LEMMA OncePreviews ==
  ASSUME FlowInv, OnceInv, NEW t \in Tasks, PreviewServe(t) \/ PreviewShow(t) \/ CleanServe(t)
  PROVE  OnceInv'
<1>1. ~Under(t) /\ UNCHANGED applied
  BY DEF Under, PreviewServe, PreviewShow, CleanServe
<1>2. PICK w : Become(t, w) /\ w.op # "write"
  <2>1. CASE PreviewServe(t)
    <3>1. PreviewFits(task[t], Ids)
      BY <2>1, TaskOps DEF PreviewServe, FlowInv, TasksFit
    <3>2. PICK x : x = [task[t] EXCEPT !.at = "answered",
                                       !.got = [token |-> Token(task[t].modes, task[t].config),
                                                effect |-> Effect(task[t].modes, task[t].config)]]
      OBVIOUS
    <3>3. Become(t, Idle) \/ Become(t, x)
      BY <2>1, <3>2 DEF PreviewServe
    <3>4. x.op # "write" /\ Idle.op # "write"
      BY <3>1, <3>2 DEF PreviewFits, Idle
    <3>5. QED
      BY <3>3, <3>4
  <2>2. CASE PreviewShow(t) \/ CleanServe(t)
    BY <2>2 DEF PreviewShow, CleanServe, Idle
  <2>3. QED
    BY <2>1, <2>2
<1>3. task'[t] = w /\ \A u \in Tasks \ {t} : task'[u] = task[u]
  BY <1>2, Became DEF FlowInv
<1>4. /\ DOMAIN flows' \subseteq DOMAIN flows
      /\ \A f \in DOMAIN flows' : flows[f].writing => flows'[f] = flows[f]
  <2>1. CASE UNCHANGED flows
    BY <2>1
  <2>2. CASE PreviewShow(t) /\ ~UNCHANGED flows
    <3>1. PICK g : Free(g) /\ flows' = [flows EXCEPT ![g].modes = task[t].modes]
      BY <2>2 DEF PreviewShow
    <3>2. QED
      BY <3>1 DEF Free
  <2>3. QED
    BY <2>1, <2>2 DEF PreviewServe, CleanServe
<1>5. QED
  BY <1>1, <1>2, <1>3, <1>4, OnceQuiet

LEMMA OnceStep ==
  ASSUME FlowInv, OnceInv, [PlansNext]_plansVars
  PROVE  OnceInv'
<1>0. ASSUME UNCHANGED <<task, applied>>, DOMAIN flows' \subseteq DOMAIN flows,
             \A f \in DOMAIN flows' : flows'[f] = flows[f]
      PROVE  OnceInv'
  BY <1>0 DEF OnceInv, Holds, Settles, Under
<1>1. CASE \E agents \in spent.case.selections : OpenFlow(agents)
  BY <1>1, CaseFits, OnceOpened
<1>2. CASE \E f \in DOMAIN flows : Destroy(f)
  <2>1. PICK f \in DOMAIN flows : Destroy(f)
    BY <1>2
  <2>2. flows' = Without(flows, {f}) /\ UNCHANGED <<task, applied>>
    BY <2>1 DEF Destroy
  <2>3. /\ DOMAIN Without(flows, {f}) = DOMAIN flows \ {f}
        /\ \A g \in DOMAIN flows \ {f} : Without(flows, {f})[g] = flows[g]
    BY WithoutHas
  <2>4. QED
    BY <1>0, <2>2, <2>3
<1>3. CASE \E t \in Tasks : Asks(t)
  BY <1>3, OnceAsks
<1>4. CASE \E t \in Tasks : GoesOn(t)
  BY <1>4, OncePreviews, OnceSent, OnceAnswered, OnceEnded DEF GoesOn
<1>5. CASE \E agent \in Agents : CleanPreview(agent)
  BY <1>0, <1>5 DEF CleanPreview, page
<1>6. CASE \E edit \in spent.case.edits : UserEdit(edit[1], edit[2])
  BY <1>0, <1>6 DEF UserEdit, page
<1>7. CASE \E now \in SUBSET spent.case.movable : Restart(now)
  <2>1. flows' = Nothing /\ task' = [t \in Tasks |-> Idle]
    BY <1>7 DEF Restart
  <2>2. DOMAIN flows' = {} /\ \A t \in Tasks : task'[t].op = "idle"
    BY <2>1, NothingHas DEF Idle
  <2>3. QED
    BY <2>2 DEF OnceInv, Under
<1>8. CASE UNCHANGED plansVars
  BY <1>0, <1>8 DEF plansVars
<1>9. QED
  BY <1>1, <1>2, <1>3, <1>4, <1>5, <1>6, <1>7, <1>8, Moves

-------------------------------------------------------------------------------
(* The plans: what a token covers is what the plan comes from. *)

\* The plan again, from the token alone.
SourcesOf(token) ==
  DOMAIN token.files \ (IF "jsonc" \in DOMAIN token.files THEN {"json"} ELSE {})
ObsoleteOf(agent, config, sections) ==
  IF agent \in DOMAIN sections
  THEN (sections[agent].owned \ OwnedBy(agent, config))
       \intersect (IF agent = "codex" THEN {"optional"} ELSE {"managed", "optional"})
  ELSE {}
OutputOf(path, mode, token) ==
  LET kind == Kind(path)
      has == token.files[path].has
      config == token.config
      obsolete == ObsoleteOf(AgentOf(path), token.config, token.sidecar)
  IN Document(
       CASE mode = "rebuild" -> Fragment(kind, config)
         [] kind = "claude" /\ mode = "merge" -> MergeClaude(has, config, obsolete)
         [] kind = "opencode" /\ mode = "merge" -> MergeOpenCode(has, config)
         [] kind = "config" /\ mode = "merge" ->
              MergeCodex(has, config, obsolete, Historical(has, token.files["auth"].has))
         [] kind = "auth" /\ mode = "merge" -> MergeAuth(has))
EffectOf(token) ==
  [t \in {To(p, token.modes) : p \in SourcesOf(token)} |->
     LET p == CHOOSE q \in SourcesOf(token) : To(q, token.modes) = t
     IN OutputOf(p, token.modes[AgentOf(p)], token)]
Honest(v) == v.effect = EffectOf(v.token)

LEMMA TokenHas ==
  ASSUME NEW A \in SUBSET Agents, NEW modes \in Modes(A), NEW c, NEW token,
         token = Token(modes, c)
  PROVE  /\ token.modes = modes /\ token.config = c /\ token.sidecar = sidecar
         /\ DOMAIN token.files = Sources(modes) \union {To(p, modes) : p \in Sources(modes)}
         /\ \A p \in Sources(modes) : token.files[p] = files[p]
         /\ SourcesOf(token) = Sources(modes)
<1>1. PICK there : there = Sources(modes) \union {To(p, modes) : p \in Sources(modes)}
  OBVIOUS
<1>2. PICK kept : kept = Restrict(files, there)
  OBVIOUS
<1>3. DOMAIN kept = there /\ \A p \in there : kept[p] = files[p]
  BY <1>2 DEF Restrict
<1>4. /\ token.modes = modes /\ token.config = c /\ token.sidecar = sidecar
      /\ token.files = kept
  BY <1>1, <1>2 DEF Token, Revisions, Sources, To
<1>5. SourcesOf(token) = Sources(modes)
  <2>1. \A p \in Sources(modes) : To(p, modes) # p => p = "jsonc" /\ To(p, modes) = "json"
    BY TargetFacts
  <2>2. \A p \in Sources(modes) : To(p, modes) = p \/ (p = "jsonc" /\ To(p, modes) = "json")
    BY <2>1
  <2>3. ~ ("json" \in Sources(modes) /\ "jsonc" \in Sources(modes))
    <3>1. \A p \in Sources(modes) : p \in Current(AgentOf(p))
      BY SourceFacts
    <3>2. QED
      BY <3>1, PathTable, CurrentTable
  <2>4. "jsonc" \in there <=> "jsonc" \in Sources(modes)
    BY <1>1, <2>2
  <2>5. \A p \in there : p \in Sources(modes) \/ (p = "json" /\ "jsonc" \in Sources(modes))
    BY <1>1, <2>2
  <2>6. SourcesOf(token) = there \ (IF "jsonc" \in there THEN {"json"} ELSE {})
    BY <1>3, <1>4 DEF SourcesOf
  <2>7. Sources(modes) \subseteq there
    BY <1>1
  <2>8. QED
    BY <2>3, <2>4, <2>5, <2>6, <2>7
<1>6. QED
  BY <1>1, <1>3, <1>4, <1>5

LEMMA OutputOfToken ==
  ASSUME NEW A \in SUBSET Agents, NEW modes \in Modes(A), NEW c \in Configs, NEW token,
         token = Token(modes, c), NEW p \in Sources(modes)
  PROVE  Output(p, modes[AgentOf(p)], c) = OutputOf(p, modes[AgentOf(p)], token)
<1>1. PICK mode \in {"merge", "rebuild"} : mode = modes[AgentOf(p)]
  BY SourceFacts
<1>2. /\ token.config = c /\ token.sidecar = sidecar
      /\ \A q \in Sources(modes) : token.files[q] = files[q]
  BY TokenHas
<1>3. p \in Paths /\ AgentOf(p) \in A /\ AgentOf(p) \in Agents
  BY SourceFacts
<1>4. Obsolete(AgentOf(p), c) = ObsoleteOf(AgentOf(p), c, sidecar)
  BY <1>3, OwnedTable DEF Obsolete, ObsoleteOf
<1>5. Kind(p) = "config" => token.files["auth"] = files["auth"]
  <2>1. Kind(p) = "config" => AgentOf(p) = "codex"
    BY <1>3, KindOfPath
  <2>2. AgentOf(p) = "codex" => "auth" \in Current("codex") /\ Current("codex") \subseteq Sources(modes)
    BY <1>3, SourceFacts, CurrentTable
  <2>3. QED
    BY <1>2, <2>1, <2>2
<1>6. token.files[p] = files[p]
  BY <1>2
<1>7. PICK b : b = ObsoleteOf(AgentOf(p), c, sidecar)
  OBVIOUS
<1>8. PICK h : h = files[p].has
  OBVIOUS
<1>9. PICK k : k = files["auth"].has
  OBVIOUS
<1>10. Output(p, mode, c) = OutputOf(p, mode, token)
  <2>1. CASE mode = "rebuild"
    BY <1>2, <2>1 DEF Output, OutputOf
  <2>2. CASE mode = "merge" /\ Kind(p) = "claude"
    <3>1. Output(p, mode, c) = Document(MergeClaude(h, c, b))
      BY <1>4, <1>7, <1>8, <2>2 DEF Output
    <3>2. OutputOf(p, mode, token) = Document(MergeClaude(h, c, b))
      BY <1>2, <1>6, <1>7, <1>8, <2>2 DEF OutputOf
    <3>3. QED
      BY <3>1, <3>2
  <2>3. CASE mode = "merge" /\ Kind(p) = "opencode"
    <3>1. Output(p, mode, c) = Document(MergeOpenCode(h, c))
      BY <1>8, <2>3 DEF Output
    <3>2. OutputOf(p, mode, token) = Document(MergeOpenCode(h, c))
      BY <1>2, <1>6, <1>8, <2>3 DEF OutputOf
    <3>3. QED
      BY <3>1, <3>2
  <2>4. CASE mode = "merge" /\ Kind(p) = "config"
    <3>1. Output(p, mode, c) = Document(MergeCodex(h, c, b, Historical(h, k)))
      BY <1>4, <1>7, <1>8, <1>9, <2>4 DEF Output
    <3>2. OutputOf(p, mode, token) = Document(MergeCodex(h, c, b, Historical(h, k)))
      BY <1>2, <1>5, <1>6, <1>7, <1>8, <1>9, <2>4 DEF OutputOf
    <3>3. QED
      BY <3>1, <3>2
  <2>5. CASE mode = "merge" /\ Kind(p) = "auth"
    <3>1. Output(p, mode, c) = Document(MergeAuth(h))
      BY <1>8, <2>5 DEF Output
    <3>2. OutputOf(p, mode, token) = Document(MergeAuth(h))
      BY <1>2, <1>6, <1>8, <2>5 DEF OutputOf
    <3>3. QED
      BY <3>1, <3>2
  <2>6. QED
    BY <1>3, <2>1, <2>2, <2>3, <2>4, <2>5, KindOfPath DEF Kinds
<1>11. QED
  BY <1>1, <1>10

LEMMA EffectOfToken ==
  ASSUME NEW A \in SUBSET Agents, NEW modes \in Modes(A), NEW c \in Configs
  PROVE  Effect(modes, c) = EffectOf(Token(modes, c))
<1>1. PICK token : token = Token(modes, c)
  OBVIOUS
<1>2. PICK all : all = Sources(modes)
  OBVIOUS
<1>3. token.modes = modes /\ SourcesOf(token) = all
  BY <1>1, <1>2, TokenHas
<1>4. PICK from : from = [t \in {To(p, modes) : p \in all} |->
                            CHOOSE q \in all : To(q, modes) = t]
  OBVIOUS
<1>5. \A t \in {To(p, modes) : p \in all} : from[t] \in all
  BY <1>4
<1>6. Effect(modes, c) = [t \in {To(p, modes) : p \in all} |->
                            Output(from[t], modes[AgentOf(from[t])], c)]
  BY <1>2, <1>4 DEF Effect, Sources, To
<1>7. EffectOf(token) = [t \in {To(p, modes) : p \in all} |->
                           OutputOf(from[t], modes[AgentOf(from[t])], token)]
  BY <1>3, <1>4 DEF EffectOf
<1>8. \A p \in all : Output(p, modes[AgentOf(p)], c) = OutputOf(p, modes[AgentOf(p)], token)
  BY <1>1, <1>2, OutputOfToken
<1>9. QED
  BY <1>1, <1>5, <1>6, <1>7, <1>8

-------------------------------------------------------------------------------
(* The plans: what the page was shown is the plan of its token. *)

HonestTask(w) ==
  /\ w.op = "preview" /\ w.at = "answered" => Honest(w.got)
  /\ w.op = "write" => Honest(w.preview)
HonestInv ==
  /\ \A f \in DOMAIN shown : \A v \in shown[f] : Honest(v)
  /\ \A t \in Tasks : HonestTask(task[t])

LEMMA HonestOn ==
  ASSUME HonestInv, NEW t \in Tasks, \A u \in Tasks \ {t} : task'[u] = task[u],
         HonestTask(task'[t]),
         \A f \in DOMAIN shown' : \A v \in shown'[f] : Honest(v)
  PROVE  HonestInv'
<1>1. ASSUME NEW u \in Tasks PROVE HonestTask(task'[u])
  BY DEF HonestInv
<1>2. QED
  BY <1>1 DEF HonestInv

LEMMA HonestIdle ==
  HonestTask(Idle)
  BY DEF HonestTask, Idle

LEMMA HonestAsks ==
  ASSUME FlowInv, HonestInv, NEW t \in Tasks, Asks(t)
  PROVE  HonestInv'
<1>1. UNCHANGED shown
  BY DEF Asks, PreviewAsk, WriteAsk, CleanAsk
<1>2. PICK w : Become(t, w) /\ HonestTask(w)
  <2>1. CASE \E f \in DOMAIN flows, config \in Configs :
               \E modes \in Modes(flows[f].agents) : PreviewAsk(t, f, modes, config)
    BY <2>1 DEF PreviewAsk, HonestTask
  <2>2. ASSUME NEW f \in DOMAIN flows, NEW config \in Configs, NEW v \in shown[f],
               NEW o \in BOOLEAN, NEW u \in BOOLEAN, WriteAsk(t, f, v, config, o, u)
        PROVE  \E w : Become(t, w) /\ HonestTask(w)
    <3>1. PICK w : w = [op |-> "write", flow |-> f, preview |-> v, config |-> config,
                        overwrite |-> o, auth |-> u, at |-> "checked",
                        snap |-> flows[f], answer |-> "none"]
      OBVIOUS
    <3>2. Honest(v)
      BY DEF HonestInv, FlowInv, FlowsFit
    <3>3. Become(t, w)
      BY <2>2, <3>1 DEF WriteAsk
    <3>4. QED
      BY <3>1, <3>2, <3>3 DEF HonestTask
  <2>3. CASE \E agent \in Agents, approve \in BOOLEAN : CleanAsk(t, agent, approve)
    BY <2>3 DEF CleanAsk, HonestTask
  <2>4. QED
    BY <2>1, <2>2, <2>3 DEF Asks
<1>3. task'[t] = w /\ \A u \in Tasks \ {t} : task'[u] = task[u]
  BY <1>2, Became DEF FlowInv
<1>4. QED
  BY <1>1, <1>2, <1>3, HonestOn DEF HonestInv

LEMMA HonestServed ==
  ASSUME FlowInv, HonestInv, NEW t \in Tasks, PreviewServe(t)
  PROVE  HonestInv'
<1>1. PICK w : w = task[t]
  OBVIOUS
<1>2. PreviewFits(w, Ids)
  BY <1>1, TaskOps DEF PreviewServe, FlowInv, TasksFit
<1>3. PICK v : v = [token |-> Token(w.modes, w.config), effect |-> Effect(w.modes, w.config)]
  OBVIOUS
<1>4. PICK x : x = [w EXCEPT !.at = "answered", !.got = v]
  OBVIOUS
<1>5. Become(t, Idle) \/ Become(t, x)
  BY <1>1, <1>3, <1>4 DEF PreviewServe
<1>6. Honest(v)
  <2>1. v.token = Token(w.modes, w.config) /\ v.effect = Effect(w.modes, w.config)
    BY <1>3
  <2>2. PICK A \in SUBSET Agents : w.modes \in Modes(A) /\ w.config \in Configs
    BY <1>2 DEF PreviewFits, Chosen
  <2>3. Effect(w.modes, w.config) = EffectOf(Token(w.modes, w.config))
    BY <2>2, EffectOfToken
  <2>4. QED
    BY <2>1, <2>3 DEF Honest
<1>7. x.op = "preview" /\ x.got = v
  BY <1>2, <1>4, PreviewFields DEF PreviewFits
<1>8. HonestTask(x) /\ HonestTask(Idle)
  BY <1>6, <1>7, HonestIdle DEF HonestTask
<1>9. HonestTask(task'[t]) /\ \A u \in Tasks \ {t} : task'[u] = task[u]
  BY <1>5, <1>8, Became DEF FlowInv
<1>10. UNCHANGED shown
  BY DEF PreviewServe
<1>11. QED
  BY <1>9, <1>10, HonestOn DEF HonestInv

LEMMA HonestShown ==
  ASSUME FlowInv, HonestInv, NEW t \in Tasks, PreviewShow(t)
  PROVE  HonestInv'
<1>1. PICK w : w = task[t]
  OBVIOUS
<1>2. Become(t, Idle) /\ Honest(w.got)
  BY <1>1 DEF PreviewShow, HonestInv, HonestTask
<1>3. HonestTask(task'[t]) /\ \A u \in Tasks \ {t} : task'[u] = task[u]
  BY <1>2, Became, HonestIdle DEF FlowInv
<1>4. ASSUME NEW f \in DOMAIN shown', NEW v \in shown'[f] PROVE Honest(v)
  <2>1. CASE UNCHANGED shown
    BY <1>4, <2>1 DEF HonestInv
  <2>2. CASE \E s \in {shown[w.flow] \union {w.got}, {w.got}} : shown' = [shown EXCEPT ![w.flow] = s]
    <3>1. PICK s \in {shown[w.flow] \union {w.got}, {w.got}} : shown' = [shown EXCEPT ![w.flow] = s]
      BY <2>2
    <3>2. f \in DOMAIN shown /\ (v \in shown[f] \/ v = w.got)
      BY <1>4, <3>1
    <3>3. QED
      BY <1>2, <3>2 DEF HonestInv
  <2>3. UNCHANGED shown \/ \E s \in {shown[w.flow] \union {w.got}, {w.got}} : shown' = [shown EXCEPT ![w.flow] = s]
    BY <1>1 DEF PreviewShow
  <2>4. QED
    BY <2>1, <2>2, <2>3
<1>5. QED
  BY <1>3, <1>4, HonestOn

LEMMA HonestWrites ==
  ASSUME FlowInv, HonestInv, NEW t \in Tasks,
         WriteSend(t) \/ WriteServe(t) \/ WriteEnd(t) \/ CleanServe(t)
  PROVE  HonestInv'
<1>1. PICK w : w = task[t]
  OBVIOUS
<1>2. w.op = "write" => WriteFits(w, Ids) /\ Honest(w.preview)
  BY <1>1, TaskOps DEF FlowInv, TasksFit, HonestInv, HonestTask
<1>3. PICK x : Become(t, x) /\ HonestTask(x)
  <2>1. CASE WriteSend(t)
    <3>1. PICK y : y = [w EXCEPT !.at = "sent", !.snap.writing = TRUE]
      OBVIOUS
    <3>2. Become(t, y) \/ Become(t, Idle)
      BY <1>1, <2>1, <3>1 DEF WriteSend
    <3>3. w.op = "write"
      BY <1>1, <2>1 DEF WriteSend
    <3>4. y.op = "write" /\ y.preview = w.preview
      BY <1>2, <3>1, <3>3 DEF WriteFits
    <3>5. HonestTask(y)
      BY <1>2, <3>3, <3>4 DEF HonestTask
    <3>6. QED
      BY <3>2, <3>5, HonestIdle
  <2>2. CASE WriteServe(t)
    <3>1. PICK a : Become(t, [w EXCEPT !.at = "answered", !.answer = a])
      BY <1>1, <2>2 DEF WriteServe
    <3>2. PICK y : y = [w EXCEPT !.at = "answered", !.answer = a]
      OBVIOUS
    <3>3. w.op = "write"
      BY <1>1, <2>2 DEF WriteServe
    <3>4. y.op = "write" /\ y.preview = w.preview
      BY <1>2, <3>2, <3>3 DEF WriteFits
    <3>5. HonestTask(y)
      BY <1>2, <3>3, <3>4 DEF HonestTask
    <3>6. QED
      BY <3>1, <3>2, <3>5
  <2>3. CASE WriteEnd(t) \/ CleanServe(t)
    BY <2>3, HonestIdle DEF WriteEnd, CleanServe
  <2>4. QED
    BY <2>1, <2>2, <2>3
<1>4. HonestTask(task'[t]) /\ \A u \in Tasks \ {t} : task'[u] = task[u]
  BY <1>3, Became DEF FlowInv
<1>5. ASSUME NEW f \in DOMAIN shown' PROVE f \in DOMAIN shown /\ shown'[f] = shown[f]
  <2>1. CASE UNCHANGED shown
    BY <1>5, <2>1
  <2>2. CASE shown' = Without(shown, {w.flow})
    <3>1. /\ DOMAIN Without(shown, {w.flow}) = DOMAIN shown \ {w.flow}
          /\ \A g \in DOMAIN shown \ {w.flow} : Without(shown, {w.flow})[g] = shown[g]
      BY WithoutHas
    <3>2. QED
      BY <1>5, <2>2, <3>1
  <2>3. QED
    BY <1>1, <2>1, <2>2 DEF WriteSend, WriteServe, WriteEnd, CleanServe
<1>6. \A f \in DOMAIN shown' : \A v \in shown'[f] : Honest(v)
  BY <1>5 DEF HonestInv
<1>7. QED
  BY <1>4, <1>6, HonestOn

LEMMA HonestStep ==
  ASSUME FlowInv, HonestInv, [PlansNext]_plansVars
  PROVE  HonestInv'
<1>0. ASSUME UNCHANGED task,
             \A f \in DOMAIN shown' : \A v \in shown'[f] : Honest(v)
      PROVE  HonestInv'
  BY <1>0 DEF HonestInv
<1>1. ASSUME NEW agents \in spent.case.selections, OpenFlow(agents) PROVE HonestInv'
  <2>1. UNCHANGED task
    BY <1>1 DEF OpenFlow
  <2>2. /\ DOMAIN flows' = DOMAIN flows \union {spent.flows + 1}
        /\ \A f \in DOMAIN flows : shown'[f] = shown[f]
        /\ shown'[spent.flows + 1] = {}
        /\ FlowInv'
    BY <1>1, CaseFits, OpenedFlow
  <2>3. DOMAIN shown' = DOMAIN flows' /\ DOMAIN shown = DOMAIN flows
    BY <2>2 DEF FlowInv, FlowsFit
  <2>4. \A f \in DOMAIN shown' : \A v \in shown'[f] : Honest(v)
    BY <2>2, <2>3 DEF HonestInv
  <2>5. QED
    BY <1>0, <2>1, <2>4
<1>2. ASSUME NEW f \in DOMAIN flows, Destroy(f) PROVE HonestInv'
  <2>1. shown' = Without(shown, {f}) /\ UNCHANGED task
    BY <1>2 DEF Destroy
  <2>2. /\ DOMAIN Without(shown, {f}) = DOMAIN shown \ {f}
        /\ \A g \in DOMAIN shown \ {f} : Without(shown, {f})[g] = shown[g]
    BY WithoutHas
  <2>3. \A g \in DOMAIN shown' : \A v \in shown'[g] : Honest(v)
    BY <2>1, <2>2 DEF HonestInv
  <2>4. QED
    BY <1>0, <2>1, <2>3
<1>3. CASE \E t \in Tasks : Asks(t)
  BY <1>3, HonestAsks
<1>4. CASE \E t \in Tasks : GoesOn(t)
  BY <1>4, HonestServed, HonestShown, HonestWrites DEF GoesOn
<1>5. CASE \E agent \in Agents : CleanPreview(agent)
  BY <1>0, <1>5 DEF CleanPreview, page, HonestInv
<1>6. CASE \E edit \in spent.case.edits : UserEdit(edit[1], edit[2])
  BY <1>0, <1>6 DEF UserEdit, page, HonestInv
<1>7. CASE \E now \in SUBSET spent.case.movable : Restart(now)
  <2>1. shown' = Nothing /\ task' = [t \in Tasks |-> Idle]
    BY <1>7 DEF Restart
  <2>2. QED
    BY <2>1, NothingHas, HonestIdle DEF HonestInv
<1>8. CASE UNCHANGED plansVars
  BY <1>0, <1>8 DEF plansVars, HonestInv
<1>9. QED
  BY <1>1, <1>2, <1>3, <1>4, <1>5, <1>6, <1>7, <1>8, Moves

\* A write is carried out by the manager's answer to it and by nothing else.
LEMMA WhoCarries ==
  ASSUME FlowInv, OnceInv, [PlansNext]_plansVars, NEW t \in Tasks, Carried(t)
  PROVE  /\ Plannable(task[t].snap.modes) /\ AsShown(task[t]) /\ Approved(task[t])
         /\ CarryOut(task[t])
<1>1. /\ task[t].op = "write" /\ task[t].at = "sent" /\ task[t].answer = "none"
      /\ task'[t].op = "write" /\ task'[t].answer = "done"
  BY DEF Carried, OnceInv, Holds
<1>2. task'[t] # task[t]
  BY <1>1
<1>3. task'[t] # Idle
  BY <1>1 DEF Idle
<1>4. \E u \in Tasks : Asks(u) \/ GoesOn(u)
  <2>1. CASE \E agents \in spent.case.selections : OpenFlow(agents)
    BY <1>2, <2>1 DEF OpenFlow
  <2>2. CASE \E f \in DOMAIN flows : Destroy(f)
    BY <1>2, <2>2 DEF Destroy
  <2>3. CASE \E agent \in Agents : CleanPreview(agent)
    BY <1>2, <2>3 DEF CleanPreview, page
  <2>4. CASE \E edit \in spent.case.edits : UserEdit(edit[1], edit[2])
    BY <1>2, <2>4 DEF UserEdit, page
  <2>5. CASE \E now \in SUBSET spent.case.movable : Restart(now)
    BY <1>3, <2>5 DEF Restart
  <2>6. CASE UNCHANGED plansVars
    BY <1>2, <2>6 DEF plansVars
  <2>7. QED
    BY <2>1, <2>2, <2>3, <2>4, <2>5, <2>6, Moves
<1>5. PICK u \in Tasks : Asks(u) \/ GoesOn(u)
  BY <1>4
<1>6. PICK w : Become(u, w)
  BY <1>5 DEF Asks, GoesOn, PreviewAsk, WriteAsk, CleanAsk, PreviewServe, PreviewShow,
              WriteSend, WriteServe, WriteEnd, CleanServe
<1>7. \A v \in Tasks \ {u} : task'[v] = task[v]
  BY <1>6, Became DEF FlowInv
<1>8. u = t
  BY <1>2, <1>7
<1>9. WriteServe(t)
  <2>1. ~Asks(t)
    <3>1. Asks(t) => task[t] = Idle
      BY DEF Asks, PreviewAsk, WriteAsk, CleanAsk, Room
    <3>2. task[t] # Idle
      BY <1>1 DEF Idle
    <3>3. QED
      BY <3>1, <3>2
  <2>2. QED
    BY <1>1, <1>5, <1>8, <2>1 DEF GoesOn, PreviewServe, PreviewShow, WriteSend, WriteEnd, CleanServe
<1>10. WriteFits(task[t], Ids)
  BY <1>1, TaskOps DEF FlowInv, TasksFit
<1>11. ASSUME NEW a, Become(t, [task[t] EXCEPT !.at = "answered", !.answer = a])
       PROVE  a = "done"
  <2>1. PICK x : x = [task[t] EXCEPT !.at = "answered", !.answer = a]
    OBVIOUS
  <2>2. task'[t] = x
    BY <1>11, <2>1, Became DEF FlowInv
  <2>3. x.answer = a
    BY <1>10, <2>1 DEF WriteFits
  <2>4. QED
    BY <1>1, <2>2, <2>3
<1>12. QED
  BY <1>9, <1>11 DEF WriteServe

LEMMA OnceAtFirst ==
  ASSUME PlansInit
  PROVE  OnceInv /\ HonestInv
<1>1. \A t \in Tasks : task[t] = Idle
  BY DEF PlansInit
<1>2. OnceInv
  BY <1>1, NothingHas DEF PlansInit, OnceInv, Under, Idle
<1>3. HonestInv
  BY <1>1, NothingHas, HonestIdle DEF PlansInit, HonestInv
<1>4. QED
  BY <1>2, <1>3

\* A flow with a write under way is marked and is what the write holds, two writes
\* are never of one flow, and a flow written to the disk only awaits its answer
\* (write_in_flight, finish_model_flow_write); a preview the page or a command holds
\* is the plan of its token (revision_files, token_for_plan).
THEOREM PlansOnce == PlansSpec => [](OnceInv /\ HonestInv)
<1>1. PlansInit => OnceInv /\ HonestInv
  BY OnceAtFirst
<1>2. FlowInv /\ OnceInv /\ HonestInv /\ [PlansNext]_plansVars => (OnceInv /\ HonestInv)'
  BY OnceStep, HonestStep
<1>3. PlansInv => FlowInv
  BY DEF PlansInv
<1>4. QED
  BY <1>1, <1>2, <1>3, PlansTyped, PTL DEF PlansSpec

\* A write changes the files exactly as the preview it was approved from showed,
\* and is carried out at most once in a flow (AgentService::write, write_in_flight).
THEOREM AppliedOnce == PlansSpec => AppliedOnceAsShown
<1>1. ASSUME FlowInv, OnceInv, HonestInv, [PlansNext]_plansVars, NEW t \in Tasks, Carried(t)
      PROVE  /\ task[t].flow \notin applied
             /\ files' = Over(task[t].preview.effect, files)
  <2>1. PICK w : w = task[t]
    OBVIOUS
  <2>2. AsShown(w) /\ CarryOut(w)
    BY <1>1, <2>1, WhoCarries
  <2>3. w.op = "write" /\ w.at = "sent"
    BY <1>1, <2>1 DEF Carried
  <2>4. PICK A \in SUBSET Agents : w.snap.modes \in Modes(A) /\ w.config \in Configs
    BY <1>1, <2>1, <2>3, WriteOf
  <2>5. Effect(w.snap.modes, w.config) = EffectOf(Token(w.snap.modes, w.config))
    BY <2>4, EffectOfToken
  <2>6. w.preview.effect = EffectOf(w.preview.token)
    BY <1>1, <2>1, <2>3 DEF HonestInv, HonestTask, Honest
  <2>7. files' = Over(Effect(w.snap.modes, w.config), files)
    BY <2>2 DEF CarryOut, Put
  <2>8. w.flow \notin applied
    BY <1>1, <2>1, <2>3 DEF OnceInv, Holds
  <2>9. QED
    BY <2>1, <2>2, <2>5, <2>6, <2>7, <2>8 DEF AsShown
<1>2. FlowInv /\ OnceInv /\ HonestInv /\ [PlansNext]_plansVars
        => [\A t \in Tasks : Carried(t) =>
              /\ task[t].flow \notin applied
              /\ files' = Over(task[t].preview.effect, files)]_plansVars
  BY <1>1
<1>3. PlansInv => FlowInv
  BY DEF PlansInv
<1>4. QED
  BY <1>2, <1>3, PlansTyped, PlansOnce, PTL DEF PlansSpec, AppliedOnceAsShown

-------------------------------------------------------------------------------
(* The plans: what the user had is lost only where the preview asked. *)

LEMMA FragmentRendered ==
  ASSUME NEW p \in Paths, NEW c \in Configs, NEW e \in DOMAIN Fragment(Kind(p), c)
  PROVE  Fragment(Kind(p), c)[e] \in Rendered
<1>1. Fragment(Kind(p), c)[e] \in RenderedValue(Kind(p), e)
  BY FragmentHas, KindOfPath
<1>2. RenderedValue(Kind(p), e) \subseteq Configs \union {Router}
  BY DEF RenderedValue
<1>3. QED
  BY <1>1, <1>2 DEF Rendered

\* A user's value where the section has one of the manager's is a change.
LEMMA SectionValue ==
  ASSUME DiskInv, NEW a \in DOMAIN sidecar, NEW p \in DOMAIN sidecar[a].at,
         NEW e \in DOMAIN Fragment(Kind(p), sidecar[a].config), files[p].has[e] \in Foreign
  PROVE  Changed(a)
<1>1. PICK c \in Configs : c = sidecar[a].config
  BY SectionAt
<1>2. p \in Paths /\ Settled(p, c, sidecar[a].at[p])
  BY <1>1, SectionAt
<1>3. sidecar[a].at[p].has[e] = Fragment(Kind(p), c)[e]
  BY <1>1, <1>2, SettledHas
<1>4. sidecar[a].at[p].has[e] \in Rendered
  BY <1>1, <1>2, <1>3, FragmentRendered
<1>5. files[p].has[e] \notin Rendered
  BY ValuesApart
<1>6. files[p] # sidecar[a].at[p]
  BY <1>4, <1>5
<1>7. QED
  BY <1>6 DEF Changed

LEMMA CleanKept ==
  ASSUME DiskInv, NEW w, CleanAccepted(w), files' = Over(CleanEffect(w.agent), files)
  PROVE  CleanKeeps(w)
<1>1. PICK a \in DOMAIN sidecar : a = w.agent
  BY DEF CleanAccepted, Removable
<1>2. PICK c \in Configs : c = sidecar[a].config
  BY DEF DiskInv, SectionsFit, SectionFits
<1>3. /\ \A p \in Paths \ DOMAIN sidecar[a].at : files'[p] = files[p]
      /\ \A p \in DOMAIN sidecar[a].at :
           /\ DOMAIN files[p].has \ (Gone(a, p) \union {"comments"}) \subseteq DOMAIN files'[p].has
           /\ \A e \in DOMAIN files'[p].has : files'[p].has[e] = files[p].has[e]
  BY <1>1, CleanFiles
<1>4. w.approve = Changed(a)
  BY <1>1 DEF CleanAccepted
<1>5. ASSUME NEW p \in Paths, NEW e \in Lost(files[p], files'[p]) \ {"comments"}
      PROVE  e \in sidecar[a].owned \ {"model"} /\ w.approve /\ p \in DOMAIN sidecar[a].at
  <2>1. /\ e \in DOMAIN files[p].has /\ files[p].has[e] \in Foreign /\ e # "comments"
        /\ ~ (e \in DOMAIN files'[p].has /\ files'[p].has[e] = files[p].has[e])
    BY <1>5 DEF Lost, Says, Named
  <2>2. p \in DOMAIN sidecar[a].at
    BY <1>3, <2>1
  <2>3. e \in Gone(a, p)
    BY <1>3, <2>1, <2>2
  <2>4. e \in sidecar[a].owned /\ e # "model" /\ e \in DOMAIN Fragment(Kind(p), sidecar[a].config)
    BY <2>1, <2>2, <2>3, GoneFacts
  <2>5. Changed(a)
    BY <2>1, <2>2, <2>4, SectionValue
  <2>6. QED
    BY <1>4, <2>2, <2>4, <2>5
<1>6. QED
  BY <1>1, <1>5 DEF CleanKeeps

\* Where a merge loses a value of the user's.
LEMMA LostWhere ==
  ASSUME NEW p \in Paths, NEW mode \in {"merge", "rebuild"}, NEW c \in Configs,
         NEW e \in Lost(files[p], Output(p, mode, c))
  PROVE  /\ e \in DOMAIN files[p].has /\ files[p].has[e] \in Foreign
         /\ e \in Dropped(p, mode, c) \union DOMAIN Fragment(Kind(p), c)
<1>1. PICK o : o = Output(p, mode, c)
  OBVIOUS
<1>2. /\ e \in DOMAIN files[p].has /\ files[p].has[e] \in Foreign
      /\ ~ (e \in DOMAIN o.has /\ o.has[e] = files[p].has[e])
  BY <1>1 DEF Lost, Says, Named
<1>3. /\ DOMAIN o.has = DOMAIN Fragment(Kind(p), c) \union (DOMAIN files[p].has \ Dropped(p, mode, c))
      /\ \A x \in DOMAIN files[p].has \ (Dropped(p, mode, c) \union DOMAIN Fragment(Kind(p), c)) :
           o.has[x] = files[p].has[x]
  BY <1>1, OutputEntries
<1>4. QED
  BY <1>2, <1>3

LEMMA DroppedTable ==
  ASSUME NEW p \in Paths, NEW c \in Configs
  PROVE  /\ Kind(p) = "claude" => Dropped(p, "merge", c) = Obsolete("claude", c)
         /\ Kind(p) = "opencode" => Dropped(p, "merge", c) = {"comments"}
         /\ Kind(p) = "config" => Dropped(p, "merge", c) \subseteq
              {"optional"} \union (IF Historical(files["config"].has, files["auth"].has)
                                   THEN {"custom"} ELSE {})
         /\ Kind(p) = "auth" => Dropped(p, "merge", c) = {"tokens"}
         /\ Obsolete("claude", c) \subseteq {"managed", "optional"}
         /\ \A e \in Obsolete("claude", c) : "claude" \in DOMAIN sidecar /\ e \in sidecar["claude"].owned
<1>1. Obsolete("claude", c) \subseteq {"managed", "optional"} /\ Obsolete("codex", c) \subseteq {"optional"}
  BY DEF Obsolete
<1>2. \A e \in Obsolete("claude", c) : "claude" \in DOMAIN sidecar /\ e \in sidecar["claude"].owned
  BY DEF Obsolete
<1>3. Kind(p) = "claude" => AgentOf(p) = "claude"
  BY KindOfPath
<1>4. Kind(p) = "config" => AgentOf(p) = "codex"
  BY KindOfPath
<1>5. Kind(p) = "claude" => Dropped(p, "merge", c) = Obsolete("claude", c)
  BY <1>3 DEF Dropped
<1>6. Kind(p) = "opencode" => Dropped(p, "merge", c) = {"comments"}
  BY DEF Dropped
<1>7. Kind(p) = "auth" => Dropped(p, "merge", c) = {"tokens"}
  BY DEF Dropped
<1>8. Kind(p) = "config" => Dropped(p, "merge", c) \subseteq
              {"optional"} \union (IF Historical(files["config"].has, files["auth"].has)
                                   THEN {"custom"} ELSE {})
  BY <1>1, <1>4 DEF Dropped
<1>9. QED
  BY <1>1, <1>2, <1>5, <1>6, <1>7, <1>8

\* Nothing a merge loses is of the rest of the file, or the policy.
LEMMA OtherKept ==
  ASSUME NEW p \in Paths, NEW c \in Configs, NEW e \in Lost(files[p], Output(p, "merge", c))
  PROVE  e \notin {"other", "policy"}
<1>1. e \in Dropped(p, "merge", c) \union DOMAIN Fragment(Kind(p), c)
  BY LostWhere
<1>2. /\ DOMAIN Fragment("claude", c) \subseteq {"managed", "optional"}
      /\ DOMAIN Fragment("opencode", c) = {"provider", "model"}
      /\ DOMAIN Fragment("config", c) \subseteq {"provider", "roots", "store", "optional"}
      /\ DOMAIN Fragment("auth", c) = {"login"}
  BY FragmentHas
<1>3. DOMAIN Fragment(Kind(p), c) \subseteq
        {"managed", "optional", "provider", "model", "roots", "store", "login"}
  BY <1>2, KindOfPath DEF Kinds
<1>4. Dropped(p, "merge", c) \subseteq {"managed", "optional", "comments", "custom", "tokens"}
  BY DroppedTable, KindOfPath DEF Kinds
<1>5. QED
  BY <1>1, <1>3, <1>4

\* Claude Code: every other value lost was asked about.
LEMMA ClaudeAsked ==
  ASSUME DiskInv, NEW A \in SUBSET Agents, NEW modes \in Modes(A), NEW c \in Configs,
         "claude" \in A, modes["claude"] = "merge", NEW p \in Current("claude"),
         NEW e \in Lost(files[p], Output(p, "merge", c)), e \notin Unasked(p)
  PROVE  Drifted(modes, c) # {}
<1>1. DOMAIN modes = A /\ p \in Paths /\ AgentOf(p) = "claude" /\ Kind(p) = "claude" /\ "claude" \in Agents
  BY CurrentTable, PathTable, SourceFacts DEF Paths, Agents
<1>2. /\ e \in DOMAIN files[p].has /\ files[p].has[e] \in Foreign
      /\ e \in Obsolete("claude", c) \union DOMAIN Fragment(Kind(p), c)
  BY <1>1, LostWhere, DroppedTable
<1>3. DOMAIN Fragment(Kind(p), c) \subseteq Owned("claude", c)
  BY <1>1, FragmentOwns, OwnedTable
<1>4. CASE "claude" \in DOMAIN sidecar /\ e \in sidecar["claude"].owned
  <2>1. p \in DOMAIN sidecar["claude"].at
    BY <1>1, <1>4 DEF Unasked
  <2>2. sidecar["claude"].owned = DOMAIN Fragment(Kind(p), sidecar["claude"].config)
    <3>1. PICK d \in Configs : d = sidecar["claude"].config
      BY <1>4 DEF DiskInv, SectionsFit, SectionFits
    <3>2. sidecar["claude"].owned = OwnedBy("claude", d)
      BY <1>4, <3>1 DEF DiskInv, SectionsFit, SectionFits
    <3>3. DOMAIN Fragment("claude", d) = {"managed"} \union Optional(d)
      BY FragmentHas
    <3>4. QED
      BY <1>1, <3>1, <3>2, <3>3 DEF OwnedBy
  <2>3. Changed("claude")
    BY <1>2, <1>4, <2>1, <2>2, SectionValue
  <2>4. QED
    BY <1>1, <1>4, <2>3 DEF Drifted
<1>5. CASE ~ ("claude" \in DOMAIN sidecar /\ e \in sidecar["claude"].owned)
  <2>1. e \in Owned("claude", c)
    BY <1>1, <1>2, <1>3, <1>5, DroppedTable
  <2>2. Collides("claude", c)
    BY <1>2, <1>5, <2>1 DEF Collides, Named
  <2>3. QED
    BY <1>1, <2>2 DEF Drifted
<1>6. QED
  BY <1>4, <1>5

LEMMA OpenCodeAsked ==
  ASSUME DiskInv, NEW A \in SUBSET Agents, NEW modes \in Modes(A), NEW c \in Configs,
         "opencode" \in A, modes["opencode"] = "merge", NEW p \in Current("opencode"),
         NEW e \in Lost(files[p], Output(p, "merge", c)), e \notin Unasked(p)
  PROVE  Drifted(modes, c) # {}
<1>1. DOMAIN modes = A /\ p \in Paths /\ AgentOf(p) = "opencode" /\ Kind(p) = "opencode"
      /\ "opencode" \in Agents
  BY CurrentTable, PathTable, SourceFacts DEF Paths, Agents
<1>2. /\ e \in DOMAIN files[p].has /\ files[p].has[e] \in Foreign
      /\ e \in {"comments"} \union DOMAIN Fragment(Kind(p), c)
  BY <1>1, LostWhere, DroppedTable
<1>3. e \in {"provider", "model"}
  <2>1. DOMAIN Fragment(Kind(p), c) = {"provider", "model"}
    BY <1>1, FragmentHas
  <2>2. e # "comments"
    BY DEF Unasked
  <2>3. QED
    BY <1>2, <2>1, <2>2
<1>4. ~Named(files[p].has, "comments")
  <2>1. SUFFICES ASSUME "comments" \in DOMAIN files[p].has PROVE FALSE
    BY DEF Named
  <2>2. p = "jsonc"
    BY <1>1, <2>1, FileHas DEF DiskInv, FilesFit
  <2>3. e \in Unasked(p)
    BY <1>3, <2>1, <2>2 DEF Unasked, Named
  <2>4. QED
    BY <2>3
<1>5. CASE "opencode" \in DOMAIN sidecar
  <2>1. PICK d \in Configs : d = sidecar["opencode"].config
    BY <1>5 DEF DiskInv, SectionsFit, SectionFits
  <2>2. sidecar["opencode"].owned = {"provider", "model"}
    BY <1>5, <2>1 DEF DiskInv, SectionsFit, SectionFits, OwnedBy
  <2>3. p \in DOMAIN sidecar["opencode"].at
    BY <1>1, <1>3, <1>5, <2>2 DEF Unasked
  <2>4. e \in DOMAIN Fragment(Kind(p), d)
    BY <1>1, <1>3, FragmentHas
  <2>5. Changed("opencode")
    BY <1>2, <1>5, <2>1, <2>3, <2>4, SectionValue
  <2>6. QED
    BY <1>1, <1>5, <2>5 DEF Drifted
<1>6. CASE "opencode" \notin DOMAIN sidecar
  <2>1. Collides("opencode", c)
    BY <1>2, <1>3, <1>4 DEF Collides, Named
  <2>2. QED
    BY <1>1, <1>6, <2>1 DEF Drifted
<1>7. QED
  BY <1>5, <1>6

\* Codex's config: the provider was asked about as a change, what else is lost as a
\* change of its login.
LEMMA ConfigAsked ==
  ASSUME DiskInv, NEW A \in SUBSET Agents, NEW modes \in Modes(A), NEW c \in Configs,
         "codex" \in A, modes["codex"] = "merge", ~PolicyForbids(files["config"].has),
         NEW e \in Lost(files["config"], Output("config", "merge", c)), e \notin Unasked("config")
  PROVE  /\ e \in {"provider", "store", "custom"}
         /\ e = "provider" => Drifted(modes, c) # {}
         /\ e # "provider" => AsksAuth(modes)
<1>1. DOMAIN modes = A /\ "config" \in Paths /\ AgentOf("config") = "codex" /\ Kind("config") = "config"
      /\ "codex" \in Agents
  BY PathTable, SourceFacts DEF Paths, Agents
<1>2. PICK h : h = files["config"].has
  OBVIOUS
<1>3. PICK k : k = files["auth"].has
  OBVIOUS
<1>4. /\ e \in DOMAIN h /\ h[e] \in Foreign
      /\ e \in Dropped("config", "merge", c) \union DOMAIN Fragment("config", c)
  BY <1>1, <1>2, LostWhere
<1>5. e \notin {"roots", "optional", "comments"}
  BY DEF Unasked
<1>6. DOMAIN Fragment("config", c) = {"provider", "roots", "store"} \union Optional(c)
      /\ Optional(c) \subseteq {"optional"}
  BY FragmentHas
<1>7. Dropped("config", "merge", c) \subseteq {"optional"} \union (IF Historical(h, k) THEN {"custom"} ELSE {})
  BY <1>1, <1>2, <1>3, DroppedTable
<1>8. e \in {"provider", "store"} \/ (e = "custom" /\ Historical(h, k))
  BY <1>4, <1>5, <1>6, <1>7
<1>9. ASSUME e = "provider" PROVE Drifted(modes, c) # {}
  <2>1. CASE "codex" \in DOMAIN sidecar
    <3>1. PICK d \in Configs : d = sidecar["codex"].config
      BY <2>1 DEF DiskInv, SectionsFit, SectionFits
    <3>2. "config" \in DOMAIN sidecar["codex"].at
      <4>1. DOMAIN sidecar["codex"].at \in Places("codex")
        BY <2>1 DEF DiskInv, SectionsFit, SectionFits
      <4>2. Places("codex") = {{"config", "auth"}}
        BY DEF Places
      <4>3. QED
        BY <4>1, <4>2
    <3>3. e \in DOMAIN Fragment(Kind("config"), d)
      BY <1>1, <1>9, FragmentHas
    <3>4. Changed("codex")
      BY <1>2, <1>4, <2>1, <3>1, <3>2, <3>3, SectionValue
    <3>5. QED
      BY <1>1, <2>1, <3>4 DEF Drifted
  <2>2. CASE "codex" \notin DOMAIN sidecar
    <3>1. h["provider"] # Router
      BY <1>4, <1>9, ValuesApart
    <3>2. Collides("codex", c)
      BY <1>2, <1>4, <1>9, <3>1 DEF Collides, ConfigCollides, Named
    <3>3. QED
      BY <1>1, <2>2, <3>2 DEF Drifted
  <2>3. QED
    BY <2>1, <2>2
<1>10. ASSUME e = "store" PROVE AsksAuth(modes)
  <2>1. h[e] \in OthersValue(e) \union RenderedValue("config", e)
    BY <1>1, <1>2, <1>4, FileHas DEF DiskInv, FilesFit
  <2>2. OthersValue(e) = {User}
    BY <1>10 DEF OthersValue
  <2>3. RenderedValue("config", e) = {Router}
    BY <1>10 DEF RenderedValue
  <2>4. h["store"] = User
    BY <1>4, <1>10, <2>1, <2>2, <2>3, ValuesApart
  <2>5. AuthCollides(h, k)
    BY <1>4, <1>10, <2>4 DEF AuthCollides, Says, Named
  <2>6. QED
    BY <1>1, <1>2, <1>3, <2>5 DEF AsksAuth
<1>11. ASSUME e = "custom" PROVE AsksAuth(modes)
  <2>1. Historical(h, k)
    BY <1>8, <1>11
  <2>2. QED
    BY <1>1, <1>2, <1>3, <2>1 DEF AsksAuth
<1>12. QED
  BY <1>8, <1>9, <1>10, <1>11

LEMMA AuthAsked ==
  ASSUME NEW A \in SUBSET Agents, NEW modes \in Modes(A), NEW c \in Configs,
         "codex" \in A, ~PolicyForbids(files["config"].has),
         NEW e \in Lost(files["auth"], Output("auth", "merge", c)), e \notin Unasked("auth")
  PROVE  e \in {"login", "tokens"} /\ AsksAuth(modes)
<1>1. DOMAIN modes = A /\ "auth" \in Paths /\ Kind("auth") = "auth"
  BY PathTable, SourceFacts DEF Paths
<1>2. PICK h : h = files["config"].has
  OBVIOUS
<1>3. PICK k : k = files["auth"].has
  OBVIOUS
<1>4. /\ e \in DOMAIN k /\ k[e] \in Foreign
      /\ e \in Dropped("auth", "merge", c) \union DOMAIN Fragment("auth", c)
  BY <1>1, <1>3, LostWhere
<1>5. e \in {"login", "tokens"}
  BY <1>1, <1>4, DroppedTable, FragmentHas
<1>6. e = "login" => k["login"] # Own
  BY <1>3, <1>4 DEF Unasked, Says, Named
<1>7. k[e] # Router
  BY <1>4, ValuesApart
<1>8. AuthCollides(h, k)
  BY <1>4, <1>5, <1>6, <1>7 DEF AuthCollides, Named
<1>9. QED
  BY <1>1, <1>2, <1>3, <1>5, <1>8 DEF AsksAuth

LEMMA ReadFirst ==
  ASSUME NEW modes, Plannable(modes), NEW a \in DOMAIN modes, NEW p \in Current(a),
         modes[a] \in {"merge", "rebuild"}
  PROVE  /\ Renders(modes) => files[p] \notin {Unusable, Irregular, Shapeless}
         /\ Target(p, modes[a]) # p => files[Target(p, modes[a])] = Missing
         /\ modes[a] = "merge" => files[p] # Broken
         /\ modes[a] = "merge" /\ a = "codex" => ~PolicyForbids(files["config"].has)
<1>1. /\ Broken.is = "broken" /\ Unusable.is = "unusable"
      /\ Irregular.is = "irregular" /\ Shapeless.is = "shapeless"
  BY DEF Broken, Unusable, Irregular, Shapeless
<1>2. CASE modes[a] = "rebuild"
  <2>1. Eligible(a)
    BY <1>2 DEF Plannable, Rebuildable
  <2>2. Usable(files[p]) \/ files[p] = Broken
    BY <2>1 DEF Eligible
  <2>3. files[p] \notin {Unusable, Irregular, Shapeless}
    BY <1>1, <2>2 DEF Usable
  <2>4. Target(p, modes[a]) = p
    BY <1>2 DEF Target
  <2>5. QED
    BY <1>2, <2>3, <2>4
<1>3. CASE modes[a] # "rebuild"
  <2>1. Mergeable(a)
    BY <1>3 DEF Plannable
  <2>2. Usable(files[p]) \/ files[p] = Shapeless
    BY <2>1 DEF Mergeable, Invalid
  <2>3. files[p] \notin {Unusable, Irregular, Broken}
    BY <1>1, <2>2 DEF Usable
  <2>4. Target(p, modes[a]) # p => modes[a] = "merge"
    BY DEF Target
  <2>5. Target(p, modes[a]) # p => files[Target(p, modes[a])] = Missing
    BY <2>1, <2>4 DEF Mergeable
  <2>6. Renders(modes) /\ modes[a] = "merge" => files[p] # Shapeless
    BY DEF Renders
  <2>7. modes[a] # "merge" => files[p] # Shapeless
    BY <1>3
  <2>8. QED
    BY <2>1, <2>3, <2>5, <2>6, <2>7 DEF Mergeable
<1>4. QED
  BY <1>2, <1>3

LEMMA WriteKept ==
  ASSUME DiskInv, NEW A \in SUBSET Agents, NEW w, w.snap.modes \in Modes(A), w.config \in Configs,
         Plannable(w.snap.modes), Approved(w), Renders(w.snap.modes), CarryOut(w)
  PROVE  WriteKeeps(w)
<1>1. PICK modes \in Modes(A) : modes = w.snap.modes
  OBVIOUS
<1>2. PICK c \in Configs : c = w.config
  OBVIOUS
<1>3. files' = Over(Effect(modes, c), files)
  BY <1>1, <1>2 DEF CarryOut, Put
<1>4. \A p \in Sources(modes) : files'[To(p, modes)] = Output(p, modes[AgentOf(p)], c)
  BY <1>3, PutFiles DEF DiskInv
<1>5. /\ DOMAIN modes = A
      /\ \A a \in A : \A p \in Current(a) : p \in Sources(modes) /\ AgentOf(p) = a
      /\ \A p \in Sources(modes) : p \in Paths
      /\ \A a \in A : modes[a] \in {"merge", "rebuild"}
  BY SourceFacts
<1>6. /\ w.overwrite = (Drifted(modes, c) # {})
      /\ w.auth = AsksAuth(modes)
  BY <1>1, <1>2 DEF Approved
<1>7. ASSUME NEW a \in A, NEW p \in Current(a), modes[a] = "merge", NEW lost,
             lost = Lost(files[p], Output(p, "merge", c)), lost \ Unasked(p) # {}
      PROVE  \/ w.overwrite /\ p # "auth"
             \/ w.auth /\ lost \ Unasked(p) \subseteq {"login", "tokens", "store", "custom"}
  <2>1. a \in Agents
    OBVIOUS
  <2>2. CASE a = "claude"
    <3>1. p # "auth"
      BY <2>2, CurrentTable
    <3>2. PICK e \in lost : e \notin Unasked(p)
      BY <1>7
    <3>3. Drifted(modes, c) # {}
      BY <1>7, <2>2, <3>2, ClaudeAsked
    <3>4. QED
      BY <1>6, <3>1, <3>3
  <2>3. CASE a = "opencode"
    <3>1. p # "auth"
      BY <2>3, CurrentTable
    <3>2. PICK e \in lost : e \notin Unasked(p)
      BY <1>7
    <3>3. Drifted(modes, c) # {}
      BY <1>7, <2>3, <3>2, OpenCodeAsked
    <3>4. QED
      BY <1>6, <3>1, <3>3
  <2>4. CASE a = "codex" /\ p = "config"
    <3>1. ~PolicyForbids(files["config"].has)
      BY <1>1, <1>5, <1>7, <2>4, ReadFirst
    <3>2. ASSUME NEW e \in lost \ Unasked(p)
          PROVE  /\ e \in {"provider", "store", "custom"}
                 /\ e = "provider" => Drifted(modes, c) # {}
                 /\ e # "provider" => AsksAuth(modes)
      BY <1>7, <2>4, <3>1, ConfigAsked
    <3>3. QED
      BY <1>6, <1>7, <2>4, <3>2
  <2>5. CASE a = "codex" /\ p = "auth"
    <3>1. ~PolicyForbids(files["config"].has)
      BY <1>1, <1>5, <1>7, <2>5, ReadFirst
    <3>2. ASSUME NEW e \in lost \ Unasked(p)
          PROVE  e \in {"login", "tokens"} /\ AsksAuth(modes)
      BY <1>7, <2>5, <3>1, AuthAsked
    <3>3. QED
      BY <1>6, <1>7, <3>2
  <2>6. QED
    BY <2>1, <2>2, <2>3, <2>4, <2>5, CurrentTable DEF Agents
<1>8. ASSUME NEW a \in A, NEW p \in Current(a), NEW lost,
             lost = Lost(files[p], files'[Target(p, modes[a])])
      PROVE  /\ files[p] \notin {Unusable, Irregular, Shapeless}
             /\ Target(p, modes[a]) # p => files[Target(p, modes[a])] = Missing
             /\ modes[a] = "merge" =>
                  /\ files[p] # Broken
                  /\ {"other", "policy"} \intersect lost = {}
                  /\ lost \ Unasked(p) # {} =>
                       \/ w.overwrite /\ p # "auth"
                       \/ w.auth /\ lost \ Unasked(p) \subseteq {"login", "tokens", "store", "custom"}
  <2>1. Target(p, modes[a]) = To(p, modes) /\ p \in Sources(modes) /\ AgentOf(p) = a /\ p \in Paths
    BY <1>5 DEF To
  <2>2. lost = Lost(files[p], Output(p, modes[a], c))
    BY <1>4, <1>8, <2>1
  <2>3. /\ files[p] \notin {Unusable, Irregular, Shapeless}
        /\ Target(p, modes[a]) # p => files[Target(p, modes[a])] = Missing
        /\ modes[a] = "merge" => files[p] # Broken
    <3>1. Plannable(modes) /\ Renders(modes) /\ a \in DOMAIN modes
      BY <1>1, <1>5
    <3>2. QED
      BY <1>5, <3>1, ReadFirst
  <2>4. modes[a] = "merge" => {"other", "policy"} \intersect lost = {}
    BY <2>1, <2>2, OtherKept
  <2>5. QED
    BY <1>7, <2>2, <2>3, <2>4
<1>9. QED
  BY <1>1, <1>5, <1>8 DEF WriteKeeps

\* Only a write or a cleanup the user asked for changes a file, one that cannot be
\* read or is of another shape is left alone, one that does not parse is replaced
\* only by an approved rebuild, and what the user had is lost only in the manager's
\* own places and after the approval the preview asked for (render.rs,
\* inspect_ownership).
THEOREM UserKept == PlansSpec => UserValuesKept
<1>1. ASSUME PlansInv, PlansNext, files' # files, spent' = spent
      PROVE  \E t \in Tasks : \/ Carried(t) /\ WriteKeeps(task[t])
                              \/ Cleans(t) /\ CleanKeeps(task[t])
  <2>1. \E t \in Tasks : WriteServe(t) \/ CleanServe(t)
    <3>1. CASE \E agents \in spent.case.selections : OpenFlow(agents)
      <4>1. UNCHANGED onDisk
        BY <3>1, ZenonT(30) DEF OpenFlow
      <4>2. QED
        BY <1>1, <4>1 DEF onDisk
    <3>2. CASE \E f \in DOMAIN flows : Destroy(f)
      BY <1>1, <3>2 DEF Destroy, onDisk
    <3>3. CASE \E t \in Tasks : Asks(t)
      <4>1. UNCHANGED onDisk
        BY <3>3, AsksDisk
      <4>2. QED
        BY <1>1, <4>1 DEF onDisk
    <3>4. CASE \E t \in Tasks : GoesOn(t)
      <4>1. ASSUME NEW t \in Tasks, PreviewServe(t) \/ PreviewShow(t) \/ WriteSend(t) \/ WriteEnd(t)
            PROVE  UNCHANGED onDisk
        BY <4>1 DEF PreviewServe, PreviewShow, WriteSend, WriteEnd
      <4>2. QED
        BY <1>1, <3>4, <4>1 DEF GoesOn, onDisk
    <3>5. CASE \E agent \in Agents : CleanPreview(agent)
      BY <1>1, <3>5 DEF CleanPreview, onDisk
    <3>6. CASE \E edit \in spent.case.edits : UserEdit(edit[1], edit[2])
      <4>1. spent' = [spent EXCEPT !.edits = @ + 1]
        BY <3>6 DEF UserEdit
      <4>2. spent'.edits = spent.edits + 1 /\ spent.edits \in Nat
        BY <1>1, <4>1 DEF PlansInv, FlowInv, SpentFits
      <4>3. QED
        BY <1>1, <4>2
    <3>7. CASE \E now \in SUBSET spent.case.movable : Restart(now)
      BY <1>1, <3>7 DEF Restart, onDisk
    <3>8. QED
      BY <1>1, <3>1, <3>2, <3>3, <3>4, <3>5, <3>6, <3>7, Moves
  <2>2. ASSUME NEW t \in Tasks, WriteServe(t)
        PROVE  Carried(t) /\ WriteKeeps(task[t])
    <3>1. PICK w : w = task[t]
      OBVIOUS
    <3>2. w.op = "write" /\ w.at = "sent" /\ WriteFits(w, Ids)
      BY <1>1, <2>2, <3>1, TaskOps DEF WriteServe, PlansInv, FlowInv, TasksFit
    <3>3. /\ Plannable(w.snap.modes) /\ Approved(w) /\ Renders(w.snap.modes) /\ CarryOut(w)
          /\ Become(t, [w EXCEPT !.at = "answered", !.answer = "done"])
      BY <1>1, <2>2, <3>1 DEF WriteServe, onDisk
    <3>4. PICK x : x = [w EXCEPT !.at = "answered", !.answer = "done"]
      OBVIOUS
    <3>5. x.op = "write" /\ x.answer = "done"
      BY <3>2, <3>4 DEF WriteFits
    <3>6. task'[t] = x
      BY <1>1, <3>3, <3>4, Became DEF PlansInv, FlowInv
    <3>7. PICK A \in SUBSET Agents : w.snap.modes \in Modes(A) /\ w.config \in Configs
      BY <3>2 DEF WriteFits, Chosen
    <3>8. WriteKeeps(w)
      BY <1>1, <3>3, <3>7, WriteKept DEF PlansInv
    <3>9. QED
      BY <3>1, <3>2, <3>5, <3>6, <3>8 DEF Carried
  <2>3. ASSUME NEW t \in Tasks, CleanServe(t)
        PROVE  Cleans(t) /\ CleanKeeps(task[t])
    <3>1. PICK w : w = task[t]
      OBVIOUS
    <3>2. /\ CleanAccepted(w) /\ files' = Over(CleanEffect(w.agent), files)
          /\ sidecar' = Without(sidecar, {w.agent})
          /\ w.op = "clean" /\ Become(t, Idle)
      BY <1>1, <2>3, <3>1 DEF CleanServe, Put
    <3>3. CleanKeeps(w)
      BY <1>1, <3>2, CleanKept DEF PlansInv
    <3>4. task'[t] = Idle
      BY <1>1, <3>2, Became DEF PlansInv, FlowInv
    <3>5. w.agent \in DOMAIN sidecar
      BY <3>2 DEF CleanAccepted, Removable
    <3>6. DOMAIN Without(sidecar, {w.agent}) = DOMAIN sidecar \ {w.agent}
      BY WithoutHas
    <3>7. QED
      BY <3>1, <3>2, <3>3, <3>4, <3>5, <3>6 DEF Cleans
  <2>4. QED
    BY <2>1, <2>2, <2>3
<1>2. PlansInv /\ [PlansNext]_plansVars
        => [files' # files /\ spent' = spent =>
              \E t \in Tasks : \/ Carried(t) /\ WriteKeeps(task[t])
                               \/ Cleans(t) /\ CleanKeeps(task[t])]_plansVars
  BY <1>1
<1>3. QED
  BY <1>2, PlansTyped, PTL DEF PlansSpec, UserValuesKept

===============================================================================
