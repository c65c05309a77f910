------------------------------ MODULE ShellProofs ------------------------------
(* Theorems about Shell and the workbench in it: for any number of commands,
   conversations, turns, jobs and images, and any mix of what may happen. *)
EXTENDS Shell, WellFoundedInduction, TLAPS

-----------------------------------------------------------------------------
(* The inductive invariant of the workbench: what a command has in hand. *)

Busy(a) == a.kind \in {"send", "regenerate"}
Copied(a) == a.at \in {"commit", "publish"}
\* Where a command is, or goes on when its copy is published.
Stage(a) == IF Copied(a) THEN a.then ELSE a.at
InJob == {"read", "dial", "wait", "write", "index", "finish"}

CommandFits(w, a) ==
  /\ a.at \in {"idle", "commit", "publish", "remove", "write", "index", "mark"}
  /\ a.then \in {"idle", "remove"} /\ a.else = "idle"
  /\ ~ Copied(a) /\ a.at # "remove" => a.then = "idle"
  /\ a.then = "idle" => a.drop = {}
  /\ a.at = "mark" => w = Main
  /\ w = Main => a.at \in {"idle", "mark", "commit", "publish"} /\ a.then = "idle" /\ a.img = None

RebuildFits(w, a) ==
  /\ a.at \in {"commit", "wipe", "publish"} /\ w # Main
  /\ a.then = "idle" /\ a.else = "idle" /\ a.drop = {} /\ a.img = None /\ a.new = Empty

OperationFits(w, a) ==
  /\ a.at \notin {"idle", "remove", "wipe", "mark"} /\ w # Main
  /\ a.turn \in 1..MaxTurns /\ a.conv \in Convs /\ a.drop = {}
  /\ Copied(a) =>
       /\ a.then \in {"chat", "job", "read", "dial", "finish", "end"} /\ a.else \in {"end", "finish"}
       /\ a.else = "finish" => a.then = "finish"
  /\ a.at \in {"write", "index"} => a.then = "finish" /\ a.else = "finish"
  /\ a.img # None => Stage(a) \in {"write", "index", "finish"}

SendFits(a) ==
  /\ Stage(a) \in InJob => a.k \in 1..a.n
  /\ Stage(a) = "job" => a.k \in 1..(a.n + 1)

AgainFits(a) == a.k \in 1..MaxJobs /\ Stage(a) \in InJob \union {"plan", "end"}

Fits(w, a) ==
  /\ a \in Activity
  /\ Copied(a) \/ a.at = "wipe" => a.new \in Index
  /\ a.at = "wipe" => a.kind = "rebuild"
  /\ a.at \in {"write", "index"} => a.img # None
  /\ a.kind = "command" => CommandFits(w, a)
  /\ a.kind = "rebuild" => RebuildFits(w, a)
  /\ Busy(a) => OperationFits(w, a)
  /\ a.kind = "send" => SendFits(a)
  /\ a.kind = "regenerate" => AgainFits(a)

StoreTypes ==
  /\ mem \in Index \union {Down, Corrupt, Incompatible}
  /\ disk \in Index \union {Missing, Corrupt, Incompatible}
  /\ files \subseteq Images /\ seen \subseteq Images /\ ever \in 0..MaxConvs
  /\ op \in {None, "runs", "stops"}
  /\ upset \subseteq Upsets /\ work \in Amounts

TasksFit == task \in [Threads -> Activity] /\ \A w \in Threads : Fits(w, task[w])

\* One operation, in one task, and a store as long as anything is under way.
OneOperation ==
  /\ \A w \in Threads : Busy(task[w]) => op # None
  /\ op # None => \E w \in Threads : Busy(task[w])
  /\ \A v, w \in Threads : Busy(task[v]) /\ Busy(task[w]) => v = w

StoreIsThere ==
  /\ mem = Down => op = None /\ \A w \in Threads : task[w] = Idle
  /\ \A w \in Threads :
       /\ task[w].kind = "rebuild" => mem = Corrupt
       /\ task[w].kind # "rebuild" /\ (Copied(task[w]) \/ At(w, "remove")) => Ready
       /\ Busy(task[w]) => Ready
  /\ \A v, w \in Threads : task[v].kind = "rebuild" /\ task[w].kind = "rebuild" => v = w

WorkInv == StoreTypes /\ TasksFit /\ OneOperation /\ StoreIsThere

-----------------------------------------------------------------------------
(* Types of the workbench. *)

LEMMA Distinct ==
  /\ Main \in Threads /\ Main \notin Tasks /\ Tasks \subseteq Threads
  /\ Threads = Tasks \union {Main}
  /\ MaxTasks \in Nat /\ MaxConvs \in Nat /\ MaxTurns \in Nat /\ MaxJobs \in Nat
  /\ None \notin Images /\ None # "runs" /\ None # "stops"
  /\ \A i \in Index : i # Down /\ i # Missing /\ i # Corrupt /\ i # Incompatible
  /\ Down # Corrupt /\ Down # Incompatible /\ Down # Missing /\ Missing # Corrupt
  /\ Missing # Incompatible /\ Corrupt # Incompatible
BY WorkbenchAssumption, StoreAssumption DEF Threads, Tasks, Main

LEMMA EmptyIsIndex == Empty \in Index
BY DEF Empty, Index

LEMMA IdleFits ==
  /\ Idle \in Activity
  /\ \A w \in Threads : Fits(w, Idle)
  /\ Idle.kind = "command" /\ Idle.at = "idle" /\ Idle.img = None /\ Idle.drop = {}
<1>1. Idle \in Activity
  BY Distinct DEF Idle, Activity, Points, Kinds
<1>2. QED
  BY <1>1 DEF Idle, Fits, Copied, CommandFits, Busy

\* After a change of one command.
LEMMA OneTask ==
  ASSUME TasksFit, NEW w \in Threads, NEW a, Fits(w, a), task' = [task EXCEPT ![w] = a]
  PROVE  TasksFit' /\ task'[w] = a /\ \A v \in Threads \ {w} : task'[v] = task[v]
<1>1. a \in Activity
  BY DEF Fits
<1>2. QED
  BY <1>1 DEF TasksFit, Fits, CommandFits, RebuildFits, OperationFits, SendFits, AgainFits, Copied, Stage, Busy

\* The changes of the index make an index.
LEMMA IndexChanges ==
  ASSUME NEW i \in Index
  PROVE  /\ \A c \in Convs : Without(i, c) \in Index
         /\ \A turn \in Nat, phase \in {"none", "requesting", "imaging", "interrupted"} :
              SetPhase(i, turn, phase) \in Index
         /\ \A turn \in Nat, k \in Nat, end \in {"running", "succeeded", "failed", "cancelled", "interrupted"},
               out \in Images \union {None} : SetJob(i, turn, k, end, out) \in Index
         /\ Interrupted(i) \in Index
         /\ Referenced(i) \subseteq Images
<1>1. \A c \in Convs : Without(i, c) \in Index
  BY DEF Without, Index
<1>2. \A turn \in Nat, phase \in {"none", "requesting", "imaging", "interrupted"} :
        SetPhase(i, turn, phase) \in Index
  BY DEF SetPhase, Index, Turn
<1>3. \A turn \in Nat, k \in Nat, end \in {"running", "succeeded", "failed", "cancelled", "interrupted"},
         out \in Images \union {None} : SetJob(i, turn, k, end, out) \in Index
  <2> SUFFICES ASSUME NEW turn \in Nat, NEW k \in Nat, NEW out \in Images \union {None},
                      NEW end \in {"running", "succeeded", "failed", "cancelled", "interrupted"}
               PROVE  SetJob(i, turn, k, end, out) \in Index
    OBVIOUS
  <2>1. \A j \in i.jobs : (IF j.turn = turn /\ j.k = k THEN [j EXCEPT !.status = end, !.out = out]
                           ELSE j) \in Job
    BY DEF Index, Job
  <2>2. QED
    BY <2>1 DEF SetJob, Index
<1>4. Interrupted(i) \in Index
  <2>1. i.turns \subseteq Turn /\ i.jobs \subseteq Job
    BY DEF Index
  <2>2. \A t \in i.turns : (IF t.phase \in {"requesting", "imaging"}
                       THEN [t EXCEPT !.phase = "interrupted", !.err = TRUE] ELSE t) \in Turn
    BY <2>1 DEF Turn
  <2>3. \A j \in i.jobs : Halted(j) \in Job
    BY <2>1 DEF Job, Halted
  <2>4. QED
    BY ZenonT(30), <2>2, <2>3 DEF Interrupted, Index
<1>5. Referenced(i) \subseteq Images
  BY DEF Referenced, Index, Turn, Job
<1>6. QED
  BY <1>1, <1>2, <1>3, <1>4, <1>5

\* One command goes on, with something that fits.
Turns(w) == Fits(w, task'[w]) /\ task' = [task EXCEPT ![w] = task'[w]]

\* It stays in its operation, or out of it, and has a store for what it does.
Proceeds(w) ==
  /\ Turns(w) /\ StoreTypes' /\ mem # Down /\ mem' = mem
  /\ Busy(task'[w]) <=> Busy(task[w])
  /\ op' = None <=> op = None
  /\ task'[w].kind = "rebuild" => task[w].kind = "rebuild"
  /\ task'[w].kind # "rebuild" /\ (Copied(task'[w]) \/ task'[w].at = "remove") => Ready

LEMMA Proceeding ==
  ASSUME WorkInv, NEW w \in Threads, Proceeds(w)
  PROVE  WorkInv'
<1>1. TasksFit' /\ \A v \in Threads \ {w} : task'[v] = task[v]
  BY OneTask DEF WorkInv, Proceeds, Turns
<1>2. OneOperation'
  BY <1>1 DEF WorkInv, OneOperation, Proceeds
<1>3. StoreIsThere'
  BY <1>1 DEF WorkInv, StoreIsThere, Proceeds, Ready, At
<1>4. QED
  BY <1>1, <1>2, <1>3 DEF WorkInv, Proceeds

\* A command goes from one step to the next.
LEMMA StepFits ==
  ASSUME TasksFit, NEW w \in Threads, NEW p \in Points, Step(w, p)
  PROVE  /\ task' = [task EXCEPT ![w] = task'[w]] /\ task'[w] \in Activity
         /\ task'[w] = [task[w] EXCEPT !.at = p]
BY DEF TasksFit, Step, Activity

LEMMA SpendTypes ==
  ASSUME work \in Amounts,
         NEW what \in {"creates", "picks", "deletes", "imports", "sends", "regens", "stops", "faults", "ends"},
         Spend(what)
  PROVE  work' \in Amounts /\ work' # work
BY Distinct DEF Spend, Amounts


\* What the operation's task is in the middle of.
LEMMA OperationAt ==
  ASSUME WorkInv, NEW w \in Threads,
         task[w].at \in {"turn", "chat", "talk", "fail", "plan", "job", "read", "dial", "wait",
                         "finish", "close", "end"}
  PROVE  /\ Busy(task[w]) /\ Ready /\ mem # Down /\ mem \in Index /\ op # None /\ w \in Tasks
         /\ ~ Copied(task[w]) /\ Stage(task[w]) = task[w].at
         /\ Fits(w, task[w]) /\ OperationFits(w, task[w]) /\ task[w] \in Activity
         /\ task[w].kind = "send" => SendFits(task[w])
         /\ task[w].kind = "regenerate" => AgainFits(task[w])
<1>1. Fits(w, task[w]) /\ task[w] \in Activity
  BY DEF WorkInv, TasksFit
<1>2. Busy(task[w])
  BY <1>1 DEF Fits, CommandFits, RebuildFits, Busy, Activity, Kinds
<1>3. ~ Copied(task[w]) /\ Stage(task[w]) = task[w].at
  BY DEF Copied, Stage
<1>4. w \in Tasks
  BY <1>1, <1>2, Distinct DEF Fits, OperationFits
<1>5. QED
  BY <1>1, <1>2, <1>3, <1>4 DEF WorkInv, StoreTypes, StoreIsThere, OneOperation, Ready, Fits

\* The operation goes from one step to the next.
LEMMA OperationSteps ==
  ASSUME WorkInv, NEW w \in Threads,
         task[w].at \in {"turn", "chat", "talk", "fail", "plan", "job", "read", "dial", "wait",
                         "finish", "close", "end"},
         NEW p \in {"chat", "talk", "fail", "plan", "job", "read", "dial", "wait", "finish",
                    "close", "end"},
         Step(w, p),
         task[w].img # None => p = "finish",
         task[w].kind = "send" /\ p \in InJob => task[w].k \in 1..task[w].n,
         task[w].kind = "send" => p # "job",
         task[w].kind = "regenerate" => p \in InJob \union {"end"}
  PROVE  /\ Turns(w) /\ task'[w] = [task[w] EXCEPT !.at = p]
         /\ Busy(task'[w]) /\ ~ Copied(task'[w])
<1>1. /\ task' = [task EXCEPT ![w] = task'[w]] /\ task'[w] \in Activity
      /\ task'[w] = [task[w] EXCEPT !.at = p]
  BY ZenonT(30), StepFits DEF WorkInv, Points
<1>2. Fits(w, task[w]) /\ Busy(task[w]) /\ OperationFits(w, task[w]) /\ task[w] \in Activity
      /\ (task[w].kind = "regenerate" => AgainFits(task[w]))
  BY OperationAt
<1>3. ~ Copied(task'[w]) /\ Stage(task'[w]) = p /\ Busy(task'[w])
  BY <1>1, <1>2 DEF Copied, Stage, Activity, Busy
<1>4. OperationFits(w, task'[w])
  BY <1>1, <1>2, <1>3 DEF OperationFits, Activity, InJob
<1>5. (task'[w].kind = "send" => SendFits(task'[w])) /\ (task'[w].kind = "regenerate" => AgainFits(task'[w]))
  BY <1>1, <1>2, <1>3 DEF SendFits, AgainFits, Activity, InJob
<1>6. QED
  BY <1>1, <1>3, <1>4, <1>5 DEF Fits, Activity, Turns, Busy

LEMMA OperationGoes ==
  ASSUME WorkInv, NEW w \in Threads,
         Chat(w) \/ Dial(w) \/ NextJob(w) \/ ReadImage(w)
  PROVE  Proceeds(w)
<1>0. TasksFit /\ StoreTypes
  BY DEF WorkInv
<1> DEFINE Goes(p) ==
      /\ Step(w, p)
      /\ task[w].at = "chat" => p \in {"end", "talk"}
      /\ task[w].at = "dial" => p \in {"finish", "wait"}
      /\ task[w].at = "read" => p \in {"end", "dial"}
      /\ task[w].at = "job" => p = IF task[w].k > task[w].n THEN "close" ELSE IF op = "stops" THEN "finish"
                                  ELSE IF task[w].k \in task[w].edits THEN "read" ELSE "dial"
<1>1. mem' = mem /\ op' = op /\ StoreTypes'
  <2>1. work' \in Amounts
    BY <1>0, SpendTypes DEF StoreTypes, Chat, Dial, NextJob, ReadImage
  <2>2. QED
    BY <1>0, <2>1 DEF StoreTypes, Chat, Dial, NextJob, ReadImage, page, Mark, Upsets
<1>2. /\ task[w].at \in {"chat", "dial", "job", "read"}
      /\ \E p \in {"end", "talk", "finish", "wait", "close", "read", "dial"} : Goes(p)
  <2>1. CASE Chat(w)
    BY <2>1 DEF Chat, At
  <2>2. CASE Dial(w)
    BY <2>2 DEF Dial, At
  <2>3. CASE ReadImage(w)
    BY <2>3 DEF ReadImage, At
  <2>4. CASE NextJob(w)
    BY <2>4 DEF NextJob, At
  <2>5. QED
    BY <2>1, <2>2, <2>3, <2>4
<1>3. PICK p \in {"end", "talk", "finish", "wait", "close", "read", "dial"} : Goes(p)
  BY <1>2
<1>4. /\ Busy(task[w]) /\ mem # Down /\ OperationFits(w, task[w]) /\ task[w] \in Activity
      /\ Stage(task[w]) = task[w].at
      /\ task[w].kind = "send" => SendFits(task[w])
      /\ task[w].kind = "regenerate" => AgainFits(task[w])
  BY <1>2, OperationAt
<1>5. task[w].img = None
  BY <1>2, <1>4 DEF OperationFits
<1>6. task[w].kind = "regenerate" => task[w].at \in {"dial", "read"} /\ p \in InJob \union {"end"}
  BY <1>2, <1>3, <1>4 DEF AgainFits, InJob
<1>7. task[w].kind = "send" /\ p \in InJob => task[w].k \in 1..task[w].n
  BY <1>2, <1>3, <1>4 DEF SendFits, InJob, Activity
<1>8. /\ Turns(w) /\ task'[w] = [task[w] EXCEPT !.at = p] /\ Busy(task'[w]) /\ ~ Copied(task'[w])
  BY <1>2, <1>3, <1>5, <1>6, <1>7, OperationSteps
<1>9. QED
  BY <1>1, <1>4, <1>8 DEF Proceeds, Busy, Activity

\* A command with its copy.
With(act, new) == [act EXCEPT !.at = "commit", !.new = new]

LEMMA WithCopy ==
  ASSUME NEW act \in Activity, NEW new \in Index
  PROVE  /\ With(act, new) \in Activity
         /\ With(act, new).at = "commit" /\ With(act, new).new = new
         /\ With(act, new).kind = act.kind /\ With(act, new).drop = act.drop
         /\ With(act, new).then = act.then /\ With(act, new).else = act.else
         /\ With(act, new).img = act.img /\ With(act, new).conv = act.conv
         /\ With(act, new).turn = act.turn /\ With(act, new).k = act.k /\ With(act, new).n = act.n
BY DEF Activity, Points, With

LEMMA CopyFits ==
  ASSUME WorkInv, NEW w \in Threads, NEW new \in Index, NEW act \in Activity, Change(w, new, act),
         Fits(w, With(act, new)), act.kind # "rebuild", Busy(act) <=> Busy(task[w]),
         seen' \subseteq Images, ever' \in 0..MaxConvs, work' \in Amounts
  PROVE  /\ Proceeds(w) /\ task'[w] = With(act, new)
         /\ Ready /\ mem \in Index
<1>1. task' = [task EXCEPT ![w] = With(act, new)] /\ task'[w] = With(act, new)
  BY DEF Change, WorkInv, TasksFit, With
<1>2. StoreTypes' /\ mem' = mem /\ op' = op /\ Ready /\ mem # Down
  BY DEF WorkInv, StoreTypes, Change, Mark, Overlap, Upsets, Ready
<1>3. Turns(w)
  BY <1>1 DEF Turns
<1>4. With(act, new).kind = act.kind
  BY WithCopy
<1>5. QED
  BY <1>1, <1>2, <1>3, <1>4 DEF Proceeds, Busy, Ready, WorkInv, StoreTypes

LEMMA FreeIsIdle ==
  ASSUME NEW w, Free(w)
  PROVE  w \in Threads /\ task[w] = Idle /\ ~ Busy(task[w]) /\ w # Main
BY Distinct, IdleFits DEF Free, Busy

\* The commands that change the index.
LEMMA CommandChanges ==
  ASSUME WorkInv, NEW w \in Tasks, Create(w) \/ Select(w) \/ SetOptions(w) \/ Delete(w)
  PROVE  Proceeds(w)
<1>0. TasksFit /\ StoreTypes /\ w \in Threads
  BY Distinct DEF WorkInv
<1>1. Free(w) /\ work' \in Amounts
  BY <1>0, SpendTypes DEF StoreTypes, Create, Select, SetOptions, Delete, Command
<1>2. task[w] = Idle /\ ~ Busy(Idle) /\ Idle.kind # "rebuild" /\ w # Main
  BY <1>1, FreeIsIdle, IdleFits
<1>a. Idle \in Activity /\ Idle.kind = "command" /\ Idle.then = "idle" /\ Idle.else = "idle"
      /\ Idle.drop = {}
  BY IdleFits DEF Idle
<1>3. ASSUME NEW new \in Index PROVE Fits(w, With(Idle, new))
  BY <1>2, <1>a, WithCopy DEF Fits, CommandFits, Copied, Busy
<1>4. CASE Create(w)
  <2>1. mem \in Index /\ ever' \in Convs /\ seen' = seen
    BY <1>0, <1>4, Distinct DEF Create, Change, Ready, StoreTypes, Convs
  <2>2. [mem EXCEPT !.sel = ever', !.convs = @ \union {ever'}, !.offered = @ \union {ever'}] \in Index
    BY <2>1 DEF Index
  <2>3. ever' \in 0..MaxConvs /\ seen' \subseteq Images
    BY <1>0, <2>1, Distinct DEF StoreTypes, Convs
  <2>4. QED
    BY <1>1, <1>2, <1>3, <1>a, <1>4, <2>2, <2>3, <1>0, CopyFits DEF Create
<1>5. CASE Select(w)
  <2>1. PICK c \in mem.convs \ {mem.sel} : Change(w, [mem EXCEPT !.sel = c], Idle)
    BY <1>5 DEF Select
  <2>2. mem \in Index
    BY <1>0, <1>5, Distinct DEF Select, Ready, StoreTypes
  <2>3. [mem EXCEPT !.sel = c] \in Index
    BY <2>1, <2>2 DEF Index
  <2>4. QED
    BY <1>0, <1>1, <1>2, <1>3, <1>5, <2>1, <2>3, CopyFits, IdleFits DEF Select, StoreTypes, page
<1>6. CASE SetOptions(w)
  <2>1. PICK c \in mem.convs : \E o \in {mem.offered \union {c}, mem.offered \ {c}} :
          Change(w, [mem EXCEPT !.offered = o], Idle)
    BY <1>6 DEF SetOptions
  <2>a. PICK o \in {mem.offered \union {c}, mem.offered \ {c}} :
          Change(w, [mem EXCEPT !.offered = o], Idle)
    BY <2>1
  <2>2. mem \in Index
    BY <1>0, <1>6, Distinct DEF SetOptions, Ready, StoreTypes
  <2>3. [mem EXCEPT !.offered = o] \in Index
    BY <2>1, <2>a, <2>2 DEF Index
  <2>4. QED
    BY <1>0, <1>1, <1>2, <1>3, <1>6, <2>a, <2>3, CopyFits, IdleFits DEF SetOptions, StoreTypes, page
<1>7. CASE Delete(w)
  <2>1. mem \in Index
    BY <1>0, <1>7, Distinct DEF Delete, Ready, StoreTypes
  <2>a. PICK c \in mem.convs :
          \E s \in IF mem.sel # c THEN {mem.sel}
                   ELSE IF Without(mem, c).convs = {} THEN {None} ELSE Without(mem, c).convs :
            Change(w, [Without(mem, c) EXCEPT !.sel = s],
                   [Idle EXCEPT !.then = "remove", !.drop = mem.assets \ Without(mem, c).assets])
    BY <1>7 DEF Delete
  <2>2. PICK s \in IF mem.sel # c THEN {mem.sel}
                   ELSE IF Without(mem, c).convs = {} THEN {None} ELSE Without(mem, c).convs :
          Change(w, [Without(mem, c) EXCEPT !.sel = s],
                 [Idle EXCEPT !.then = "remove", !.drop = mem.assets \ Without(mem, c).assets])
    BY <2>a
  <2>3. c \in Convs /\ Without(mem, c) \in Index
    BY <2>1, IndexChanges DEF Index
  <2>4. [Without(mem, c) EXCEPT !.sel = s] \in Index
    BY <2>1, <2>2, <2>3 DEF Index
  <2> DEFINE act == [Idle EXCEPT !.then = "remove", !.drop = mem.assets \ Without(mem, c).assets]
             new == [Without(mem, c) EXCEPT !.sel = s]
  <2>5. act \in Activity
    <3>1. mem.assets \ Without(mem, c).assets \subseteq Images
      BY <2>1 DEF Index
    <3>2. QED
      BY <1>a, <3>1 DEF Activity, Points
  <2>7. act.kind = "command" /\ act.then = "remove" /\ act.else = "idle"
    BY DEF Idle
  <2>8. Fits(w, With(act, new))
    <3> HIDE DEF act, new
    <3>1. new \in Index
      BY <2>4 DEF new
    <3>2. QED
      BY <1>2, <2>5, <2>7, <3>1, WithCopy DEF Fits, CommandFits, Copied, Busy
  <2>9. seen' = seen /\ ever' = ever
    BY <1>7 DEF Delete, page
  <2>10. ~ Busy(act)
    BY <2>7 DEF Busy
  <2>11. Change(w, new, act) /\ new \in Index
    BY <2>2, <2>4
  <2> HIDE DEF act, new
  <2>12. QED
    BY <1>0, <1>1, <1>2, <2>5, <2>7, <2>8, <2>9, <2>10, <2>11, CopyFits DEF StoreTypes
<1>8. QED
  BY <1>4, <1>5, <1>6, <1>7

\* The steps of the operation that change the index.
LEMMA OperationChanges ==
  ASSUME WorkInv, NEW w \in Threads, AddTurn(w) \/ Fail(w) \/ Again(w) \/ Close(w) \/ Plan(w) \/ Finish(w)
  PROVE  Proceeds(w)
<1>0. TasksFit /\ StoreTypes
  BY DEF WorkInv
<1>1. task[w].at \in {"turn", "fail", "plan", "close", "finish"}
  BY DEF AddTurn, Fail, Again, Close, Plan, Finish, At
<1> DEFINE a == task[w]
<1>2. /\ Busy(a) /\ Ready /\ mem \in Index /\ Fits(w, a) /\ OperationFits(w, a) /\ a \in Activity
      /\ ~ Copied(a) /\ Stage(a) = a.at
      /\ a.kind = "send" => SendFits(a)
      /\ a.kind = "regenerate" => AgainFits(a)
  BY <1>1, OperationAt
<1>3. /\ a.turn \in 1..MaxTurns /\ a.turn \in Nat /\ a.k \in Nat /\ a.conv \in Convs /\ a.drop = {}
      /\ a.kind \in {"send", "regenerate"} /\ a.kind # "rebuild" /\ w # Main
  BY <1>2, Distinct DEF OperationFits, Activity, Busy
<1>4. seen' \subseteq Images /\ ever' \in 0..MaxConvs /\ work' \in Amounts
  <2>1. a.img \in Images \union {None}
    BY <1>2 DEF Activity
  <2>2. QED
    BY <1>0, <2>1 DEF StoreTypes, AddTurn, Fail, Again, Close, Plan, Finish, Apply, page
\* It goes on with the same turn, at a step that fits its sort.
<1>5. ASSUME NEW new \in Index, NEW act \in Activity, Change(w, new, act),
             act.kind = a.kind, act.turn = a.turn, act.conv = a.conv, act.drop = {}, act.img = None,
             act.then \in {"chat", "job", "read", "dial", "end"}, act.else = "end",
             act.kind = "send" /\ act.then \in InJob => act.k \in 1..act.n,
             act.kind = "send" /\ act.then = "job" => act.k \in 1..(act.n + 1),
             act.kind = "regenerate" => act.k \in 1..MaxJobs /\ act.then \in {"read", "dial", "end"}
      PROVE  Proceeds(w)
  <2> DEFINE b == With(act, new)
  <2>1. /\ b \in Activity /\ b.at = "commit" /\ b.new = new /\ b.kind = act.kind /\ b.drop = {}
        /\ b.then = act.then /\ b.else = "end" /\ b.img = None /\ b.conv = a.conv
        /\ b.turn = a.turn /\ b.k = act.k /\ b.n = act.n
    BY <1>5, WithCopy
  <2>2. Copied(b) /\ Stage(b) = act.then /\ Busy(b) /\ Busy(act)
    BY <1>3, <1>5, <2>1 DEF Copied, Stage, Busy
  <2> HIDE DEF b
  <2>3. OperationFits(w, b)
    BY <1>3, <1>5, <2>1, <2>2 DEF OperationFits
  <2>4. (b.kind = "send" => SendFits(b)) /\ (b.kind = "regenerate" => AgainFits(b))
    BY <1>5, <2>1, <2>2 DEF SendFits, AgainFits, InJob
  <2>5. Fits(w, b)
    BY <1>3, <1>5, <2>1, <2>2, <2>3, <2>4 DEF Fits
  <2>6. QED
    BY <1>2, <1>3, <1>4, <1>5, <2>2, <2>5, CopyFits DEF b
<1>6. CASE AddTurn(w)
  <2> DEFINE t == [id |-> a.turn, conv |-> a.conv, ref |-> a.ref, phase |-> "requesting", err |-> FALSE]
             new == [mem EXCEPT !.turns = @ \union {t}]
             act == [task[w] EXCEPT !.then = "chat", !.else = "end"]
  <2>1. t \in Turn
    BY <1>2, <1>3 DEF Turn, Activity
  <2>2. new \in Index
    BY <1>2, <2>1 DEF Index
  <2>3. Change(w, new, act)
    BY <1>6 DEF AddTurn, Apply
  <2>4. a.img = None /\ a.kind = "send"
    <3>1. a.at = "turn"
      BY <1>6 DEF AddTurn, At
    <3>2. QED
      BY <1>2, <1>3, <3>1 DEF OperationFits, AgainFits, InJob
  <2>5. /\ act \in Activity /\ act.kind = a.kind /\ act.turn = a.turn /\ act.conv = a.conv /\ act.drop = {}
        /\ act.img = None /\ act.then = "chat" /\ act.else = "end"
    BY ZenonT(30), <1>2, <1>3, <2>4 DEF Activity, Points
  <2> HIDE DEF act, new
  <2>6. QED
    BY <1>5, <2>2, <2>3, <2>4, <2>5 DEF InJob
<1>7. CASE Fail(w) \/ Close(w)
  <2> DEFINE act == [task[w] EXCEPT !.then = "end", !.else = "end"]
  <2>1. \E new \in Index : Change(w, new, act)
    <3>1. CASE Fail(w)
      <4> DEFINE f(t) == IF t.id = task[w].turn THEN [t EXCEPT !.phase = "none", !.err = TRUE] ELSE t
                 new == [mem EXCEPT !.turns = {f(t) : t \in @}]
      <4>1. \A t \in mem.turns : f(t) \in Turn
        BY <1>2 DEF Index, Turn
      <4>2. new \in Index
        BY <1>2, <4>1 DEF Index
      <4>3. QED
        BY <3>1, <4>2 DEF Fail, Apply
    <3>2. CASE Close(w)
      <4>1. SetPhase(mem, a.turn, "none") \in Index
        BY <1>2, <1>3, IndexChanges
      <4>2. QED
        BY <3>2, <4>1 DEF Close, Apply
    <3>3. QED
      BY <1>7, <3>1, <3>2
  <2>2. a.img = None /\ a.kind = "send"
    <3>1. a.at \in {"fail", "close"}
      BY <1>7 DEF Fail, Close, At
    <3>2. QED
      BY <1>2, <1>3, <3>1 DEF OperationFits, AgainFits, InJob
  <2>3. /\ act \in Activity /\ act.kind = a.kind /\ act.turn = a.turn /\ act.conv = a.conv /\ act.drop = {}
        /\ act.img = None /\ act.then = "end" /\ act.else = "end"
    BY ZenonT(30), <1>2, <1>3, <2>2 DEF Activity, Points
  <2> HIDE DEF act
  <2>4. QED
    BY <1>5, <2>1, <2>2, <2>3 DEF InJob
<1>8. CASE Again(w)
  <2> DEFINE then == IF a.ref = None THEN "dial" ELSE "read"
             act == [task[w] EXCEPT !.then = then, !.else = "end"]
             new == SetJob(mem, a.turn, a.k, "running", None)
  <2>1. new \in Index
    BY <1>2, <1>3, IndexChanges
  <2>2. Change(w, new, act)
    BY <1>8 DEF Again, Apply
  <2>3. a.img = None /\ a.kind = "regenerate"
    <3>1. a.at = "plan" /\ a.kind = "regenerate"
      BY <1>8 DEF Again, At
    <3>2. QED
      BY <1>2, <3>1 DEF OperationFits
  <2>4. a.k \in 1..MaxJobs
    BY <1>2, <2>3 DEF AgainFits
  <2>5. /\ act \in Activity /\ act.kind = a.kind /\ act.turn = a.turn /\ act.conv = a.conv /\ act.drop = {}
        /\ act.img = None /\ act.then \in {"dial", "read"} /\ act.else = "end" /\ act.k = a.k
    <3>1. then \in {"dial", "read"}
      OBVIOUS
    <3> HIDE DEF then
    <3>2. QED
      BY ZenonT(30), <1>2, <1>3, <2>3, <3>1 DEF Activity, Points
  <2> HIDE DEF act, new
  <2>6. QED
    BY <1>5, <2>1, <2>2, <2>3, <2>4, <2>5
<1>9. CASE Plan(w)
  <2> DEFINE added == {[turn |-> a.turn, k |-> k, edit |-> k \in a.edits, status |-> "running",
                        out |-> None] : k \in 1..a.n}
             i == SetPhase(mem, a.turn, IF a.n = 0 THEN "none" ELSE "imaging")
             new == [i EXCEPT !.jobs = @ \union added]
             act == [a EXCEPT !.then = "job", !.else = "end", !.k = 1]
  <2>1. a.at = "plan" /\ a.kind = "send"
    BY <1>9 DEF Plan, At
  <2>2. i \in Index
    BY <1>2, <1>3, IndexChanges
  <2>3. a.n \in 0..MaxJobs /\ 1..a.n \subseteq 1..MaxJobs
    BY <1>2, Distinct DEF Activity
  <2>4. added \subseteq Job
    <3>1. \A k \in 1..a.n : [turn |-> a.turn, k |-> k, edit |-> k \in a.edits, status |-> "running",
                            out |-> None] \in Job
      BY <1>3, <2>3 DEF Job
    <3>2. QED
      BY <3>1
  <2>5. new \in Index
    BY <2>2, <2>4 DEF Index
  <2>6. Change(w, new, act)
    BY <1>9 DEF Plan
  <2>7. a.img = None
    BY <1>2, <2>1 DEF OperationFits
  <2>8. /\ act \in Activity /\ act.kind = a.kind /\ act.turn = a.turn /\ act.conv = a.conv /\ act.drop = {}
        /\ act.img = None /\ act.then = "job" /\ act.else = "end" /\ act.k = 1 /\ act.n = a.n
    <3>1. 1 \in 0..(MaxJobs + 1)
      BY Distinct
    <3>2. QED
      BY ZenonT(30), <1>2, <1>3, <2>7, <3>1 DEF Activity, Points
  <2>9. act.k \in 1..(act.n + 1)
    BY <2>3, <2>8
  <2> HIDE DEF act, new
  <2>10. QED
    BY <1>5, <2>1, <2>5, <2>6, <2>8, <2>9 DEF InJob
<1>10. CASE Finish(w)
  <2> DEFINE end == IF a.img # None THEN "succeeded"
                       ELSE IF a.kind = "send" /\ op = "stops" THEN "cancelled" ELSE "failed"
             new == SetJob(mem, a.turn, a.k, end, a.img)
             act == [a EXCEPT !.then = IF a.kind = "send" THEN "job" ELSE "end", !.else = "end",
                              !.img = None, !.k = IF a.kind = "send" THEN @ + 1 ELSE @]
  <2>1. a.at = "finish"
    BY <1>10 DEF Finish, At
  <2>2. new \in Index
    <3>1. a.img \in Images \union {None}
      BY <1>2 DEF Activity
    <3>2. QED
      BY <1>2, <1>3, <3>1, IndexChanges
  <2>3. Change(w, new, act)
    BY <1>10 DEF Finish
  <2>4. a.kind = "send" => a.k \in 1..a.n /\ a.n \in 0..MaxJobs
    BY <1>2, <2>1 DEF SendFits, InJob, Activity
  <2>5. a.kind = "regenerate" => a.k \in 1..MaxJobs
    BY <1>2 DEF AgainFits
  <2>6. /\ act.kind = a.kind /\ act.turn = a.turn /\ act.conv = a.conv /\ act.drop = {}
        /\ act.img = None /\ act.then = (IF a.kind = "send" THEN "job" ELSE "end") /\ act.else = "end"
        /\ act.n = a.n /\ act.k = (IF a.kind = "send" THEN a.k + 1 ELSE a.k)
    BY <1>2, <1>3 DEF Activity
  <2>7. act \in Activity
    <3> DEFINE k == IF a.kind = "send" THEN a.k + 1 ELSE a.k
               then == IF a.kind = "send" THEN "job" ELSE "end"
    <3>1. k \in 0..(MaxJobs + 1)
      BY <1>2, <2>4, Distinct DEF Activity
    <3>2. then \in {"job", "end"}
      OBVIOUS
    <3>3. act = [a EXCEPT !.then = then, !.else = "end", !.img = None, !.k = k]
      BY <1>2 DEF Activity
    <3> HIDE DEF act, k, then
    <3>4. QED
      BY <1>2, <3>1, <3>2, <3>3 DEF Activity, Points
  <2>8. act.kind = "send" => act.k \in 1..(act.n + 1)
    BY <2>4, <2>6
  <2> HIDE DEF act, new
  <2>9. QED
    BY <1>3, <1>5, <2>2, <2>3, <2>5, <2>6, <2>7, <2>8 DEF InJob
<1>11. QED
  BY <1>6, <1>7, <1>8, <1>9, <1>10

\* A command that failed, or goes on, leaves its copy.
LEMMA BrokenFits ==
  ASSUME WorkInv, NEW w \in Threads, task[w].at \in {"commit", "write", "index"},
         task' = [task EXCEPT ![w] = Broken(w)]
  PROVE  /\ Turns(w) /\ ~ Copied(task'[w]) /\ task'[w].at # "remove" /\ task'[w].kind # "rebuild"
         /\ Busy(task'[w]) <=> Busy(task[w])
<1> DEFINE a == task[w]
           b == Broken(w)
<1>0. TasksFit
  BY DEF WorkInv
<1>1. Fits(w, a) /\ a \in Activity
  BY <1>0 DEF TasksFit
<1>2. task'[w] = b
  BY <1>0 DEF TasksFit
<1>3. CASE a.else = "idle"
  <2>1. ~ Busy(a)
    BY <1>1, <1>3 DEF Fits, OperationFits, Copied
  <2>2. b = [Idle EXCEPT !.img = None]
    BY <1>1, <1>3 DEF Broken, Onward, Activity
  <2>3. b = Idle
    BY <2>2, IdleFits DEF Idle
  <2>4. QED
    BY <1>2, <2>1, <2>3, IdleFits DEF Turns, Busy, Copied
<1>4. CASE a.else # "idle"
  <2>1. Busy(a) /\ a.else \in {"end", "finish"} /\ a.kind # "rebuild"
    BY <1>1, <1>4 DEF Fits, CommandFits, RebuildFits, OperationFits, Copied, Busy, Activity, Kinds
  <2>2. b = [a EXCEPT !.img = None, !.at = a.else, !.new = None]
    BY <1>1, <1>4 DEF Broken, Onward, Activity
  <2>3. b \in Activity
    BY <1>1, <2>1, <2>2 DEF Activity, Points
  <2>4. b.at = a.else /\ b.kind = a.kind /\ b.then = a.then /\ b.else = a.else
        /\ b.drop = a.drop /\ b.img = None /\ b.turn = a.turn /\ b.conv = a.conv /\ b.k = a.k /\ b.n = a.n
    BY <1>1, <2>2 DEF Activity
  <2> HIDE DEF b
  <2>5. ~ Copied(b) /\ Stage(b) = a.else /\ Busy(b)
    BY <1>1, <2>1, <2>4 DEF Copied, Stage, Busy
  <2>6. /\ a.at = "commit" => Stage(a) = a.then
        /\ a.at # "commit" => Stage(a) = a.at /\ a.at \in {"write", "index"}
    BY DEF Stage, Copied
  <2>7. a.else = "finish" => Stage(a) \in InJob
    BY <1>1, <2>1, <2>6 DEF Fits, OperationFits, Copied, InJob
  <2>8. OperationFits(w, b)
    BY <1>1, <2>1, <2>4, <2>5 DEF Fits, OperationFits
  <2>9. (b.kind = "send" => SendFits(b)) /\ (b.kind = "regenerate" => AgainFits(b))
    BY <1>1, <2>1, <2>4, <2>5, <2>7 DEF Fits, SendFits, AgainFits, InJob
  <2>10. Fits(w, b)
    BY <2>1, <2>3, <2>4, <2>5, <2>8, <2>9 DEF Fits, Busy
  <2>11. QED
    BY <1>2, <2>1, <2>4, <2>5, <2>10 DEF Turns, b
<1>5. QED
  BY <1>3, <1>4

LEMMA OnwardFits ==
  ASSUME WorkInv, NEW w \in Threads, task[w].at \in {"publish", "index"},
         task' = [task EXCEPT ![w] = Onward(@, @.then)]
  PROVE  /\ Turns(w) /\ ~ Copied(task'[w]) /\ task'[w].kind # "rebuild"
         /\ task'[w].at = task[w].then /\ task'[w].img = task[w].img
         /\ task[w].then # "idle" => task'[w] = [task[w] EXCEPT !.at = task[w].then, !.new = None]
         /\ task[w].then = "idle" => task'[w] = [Idle EXCEPT !.img = task[w].img]
         /\ Busy(task'[w]) <=> Busy(task[w])
<1> DEFINE a == task[w]
           b == Onward(a, a.then)
<1>0. TasksFit
  BY DEF WorkInv
<1>1. Fits(w, a) /\ a \in Activity
  BY <1>0 DEF TasksFit
<1>2. task'[w] = b
  BY <1>0 DEF TasksFit
<1>3. CASE a.then = "idle"
  <2>1. ~ Busy(a)
    BY <1>1, <1>3 DEF Fits, OperationFits, Copied
  <2>2. b = [Idle EXCEPT !.img = a.img]
    BY <1>3 DEF Onward
  <2>3. /\ b \in Activity /\ b.kind = "command" /\ b.at = "idle" /\ b.then = "idle" /\ b.else = "idle"
        /\ b.drop = {} /\ b.img = a.img
    <3>1. Idle \in Activity
      BY IdleFits
    <3>2. QED
      BY <1>1, <2>2, <3>1 DEF Activity, Idle
  <2> HIDE DEF b
  <2>4. w = Main => a.img = None
    BY <1>1, <2>1 DEF Fits, CommandFits, RebuildFits, Busy, Activity, Kinds
  <2>5. Fits(w, b)
    BY <2>3, <2>4 DEF Fits, CommandFits, Copied, Busy
  <2>6. QED
    BY <1>0, <1>2, <1>3, <2>1, <2>2, <2>3, <2>5 DEF Turns, Busy, Copied, b
<1>4. CASE a.then # "idle"
  <2>1. a.kind # "rebuild"
    BY <1>1, <1>4 DEF Fits, RebuildFits
  <2>2. b = [a EXCEPT !.at = a.then, !.new = None]
    BY <1>4 DEF Onward
  <2>3. b \in Activity
    BY <1>1, <2>2 DEF Activity
  <2>4. b.at = a.then /\ b.kind = a.kind /\ b.then = a.then /\ b.else = a.else
        /\ b.drop = a.drop /\ b.img = a.img /\ b.turn = a.turn /\ b.conv = a.conv /\ b.k = a.k /\ b.n = a.n
    BY <1>1, <2>2 DEF Activity
  <2> HIDE DEF b
  <2>5. CASE Busy(a)
    <3>1. a.then \in {"chat", "job", "read", "dial", "finish", "end"}
      BY <1>1, <2>5 DEF Fits, OperationFits, Copied
    <3>2. ~ Copied(b) /\ Stage(b) = a.then /\ Busy(b)
      BY <2>4, <2>5, <3>1 DEF Copied, Stage, Busy
    <3>3. /\ a.at = "publish" => Stage(a) = a.then
          /\ a.at = "index" => Stage(a) = "index" /\ a.then = "finish"
      BY <1>1, <2>5 DEF Stage, Copied, Fits, OperationFits
    <3>4. OperationFits(w, b)
      BY <1>1, <2>4, <2>5, <3>1, <3>2, <3>3 DEF Fits, OperationFits
    <3>5. (b.kind = "send" => SendFits(b)) /\ (b.kind = "regenerate" => AgainFits(b))
      BY <1>1, <2>4, <3>1, <3>2, <3>3 DEF Fits, SendFits, AgainFits, InJob
    <3>6. Fits(w, b)
      BY <2>1, <2>3, <2>4, <2>5, <3>1, <3>2, <3>4, <3>5 DEF Fits, Busy
    <3>7. QED
      BY <1>2, <1>4, <2>1, <2>2, <2>4, <2>5, <3>2, <3>6 DEF Turns, b
  <2>6. CASE ~ Busy(a)
    <3>1. a.kind = "command" /\ a.then = "remove"
      BY <1>1, <1>4, <2>1, <2>6 DEF Fits, CommandFits, Busy, Activity, Kinds
    <3>2. w # Main
      BY <1>1, <3>1 DEF Fits, CommandFits
    <3>3. Fits(w, b)
      BY <1>1, <2>3, <2>4, <3>1, <3>2 DEF Fits, CommandFits, Copied, Busy
    <3>4. QED
      BY <1>2, <1>4, <2>1, <2>2, <2>4, <2>6, <3>1, <3>3 DEF Turns, Busy, Copied, b
  <2>7. QED
    BY <2>5, <2>6
<1>5. QED
  BY <1>3, <1>4

\* Writing the copy, and the steps that need none.
LEMMA CommitTurns ==
  ASSUME WorkInv, NEW w \in Threads, Commit(w)
  PROVE  Proceeds(w)
<1>0. TasksFit /\ StoreTypes
  BY DEF WorkInv
<1> DEFINE a == task[w]
<1>1. Fits(w, a) /\ a \in Activity /\ a.at = "commit" /\ Copied(a) /\ a.new \in Index
  BY <1>0 DEF TasksFit, Commit, At, Copied, Fits
<1>2. mem' = mem /\ op' = op /\ StoreTypes' /\ mem # Down
  <2>1. work' \in Amounts
    BY <1>0, SpendTypes DEF StoreTypes, Commit
  <2>2. disk' \in Index \union {Missing, Corrupt, Incompatible}
    BY <1>0, <1>1 DEF StoreTypes, Commit
  <2>3. mem # Down
    BY <1>1, IdleFits DEF WorkInv, StoreIsThere
  <2>4. QED
    BY <1>0, <2>1, <2>2, <2>3 DEF StoreTypes, Commit, page, Mark, Upsets
<1>3. CASE task' = [task EXCEPT ![w].at = IF a.kind = "rebuild" THEN "wipe" ELSE "publish"]
  <2> DEFINE p == IF a.kind = "rebuild" THEN "wipe" ELSE "publish"
             b == [a EXCEPT !.at = p]
  <2>1. p \in Points /\ Step(w, p)
    BY <1>3 DEF Points, Step
  <2>2. task' = [task EXCEPT ![w] = task'[w]] /\ task'[w] = b /\ b \in Activity
    BY <1>0, <2>1, StepFits
  <2>3. b.at = p /\ b.kind = a.kind /\ b.new = a.new /\ b.then = a.then /\ b.else = a.else
        /\ b.drop = a.drop /\ b.img = a.img /\ b.turn = a.turn /\ b.conv = a.conv /\ b.k = a.k /\ b.n = a.n
    BY <1>1 DEF Activity
  <2>4. CASE a.kind = "rebuild"
    <3>1. Fits(w, b)
      BY <1>1, <2>2, <2>3, <2>4 DEF Fits, RebuildFits, Copied, Busy
    <3>2. QED
      BY <1>2, <2>2, <2>3, <2>4, <3>1 DEF Proceeds, Turns, Busy
  <2>5. CASE a.kind # "rebuild"
    <3>1. Copied(b) /\ Stage(b) = Stage(a) /\ b.at = "publish"
      BY <1>1, <2>3, <2>5 DEF Copied, Stage
    <3> HIDE DEF b, p
    <3>2. Fits(w, b)
      BY <1>1, <2>2, <2>3, <2>5, <3>1
         DEF Fits, CommandFits, OperationFits, SendFits, AgainFits, Busy
    <3>3. Ready
      BY <1>1, <2>5 DEF WorkInv, StoreIsThere
    <3>4. QED
      BY <1>2, <2>2, <2>3, <2>5, <3>2, <3>3 DEF Proceeds, Turns, Busy
  <2>6. QED
    BY <2>4, <2>5
<1>4. CASE task' = [task EXCEPT ![w] = Broken(w)]
  BY <1>1, <1>2, <1>4, BrokenFits DEF Proceeds
<1>5. QED
  BY <1>3, <1>4 DEF Commit

LEMMA WriteTurns ==
  ASSUME WorkInv, NEW w \in Threads, WriteImage(w)
  PROVE  Proceeds(w)
<1>0. TasksFit /\ StoreTypes
  BY DEF WorkInv
<1> DEFINE a == task[w]
<1>1. Fits(w, a) /\ a \in Activity /\ a.at = "write" /\ ~ Copied(a) /\ a.img \in Images
  BY <1>0 DEF TasksFit, WriteImage, At, Copied, Fits, Activity
<1>2. mem' = mem /\ op' = op /\ StoreTypes' /\ mem # Down
  <2>1. work' \in Amounts
    BY <1>0, SpendTypes DEF StoreTypes, WriteImage
  <2>2. files' \subseteq Images
    BY <1>0, <1>1 DEF StoreTypes, WriteImage
  <2>3. mem # Down
    BY <1>1, IdleFits DEF WorkInv, StoreIsThere
  <2>4. QED
    BY <1>0, <2>1, <2>2, <2>3 DEF StoreTypes, WriteImage, page, Mark, Upsets
<1>3. CASE task' = [task EXCEPT ![w].at = "index"]
  <2> DEFINE b == [a EXCEPT !.at = "index"]
  <2>1. task' = [task EXCEPT ![w] = task'[w]] /\ task'[w] = b /\ b \in Activity
    BY <1>0, <1>3, StepFits DEF Points, Step
  <2>2. b.at = "index" /\ b.kind = a.kind /\ b.then = a.then /\ b.else = a.else
        /\ b.drop = a.drop /\ b.img = a.img /\ b.turn = a.turn /\ b.conv = a.conv /\ b.k = a.k /\ b.n = a.n
    BY <1>1 DEF Activity
  <2>3. ~ Copied(b) /\ Stage(b) = "index" /\ Stage(a) = "write"
    BY <1>1, <2>2 DEF Copied, Stage
  <2> HIDE DEF b
  <2>4. Fits(w, b)
    BY <1>1, <2>1, <2>2, <2>3
       DEF Fits, CommandFits, RebuildFits, OperationFits, SendFits, AgainFits, Busy, InJob, Copied
  <2>5. a.kind # "rebuild"
    BY <1>1 DEF Fits, RebuildFits
  <2>6. QED
    BY <1>2, <2>1, <2>2, <2>3, <2>4, <2>5 DEF Proceeds, Turns, Busy
<1>4. CASE task' = [task EXCEPT ![w] = Broken(w)]
  BY <1>1, <1>2, <1>4, BrokenFits DEF Proceeds
<1>5. QED
  BY <1>3, <1>4 DEF WriteImage

LEMMA IndexTurns ==
  ASSUME WorkInv, NEW w \in Threads, IndexImage(w)
  PROVE  Proceeds(w)
<1>0. TasksFit /\ StoreTypes
  BY DEF WorkInv
<1> DEFINE a == task[w]
<1>1. Fits(w, a) /\ a \in Activity /\ a.at = "index" /\ ~ Copied(a) /\ a.img \in Images
  BY <1>0 DEF TasksFit, IndexImage, At, Copied, Fits, Activity
<1>2. mem # Down /\ seen' = seen /\ ever' = ever /\ work' = work
  BY <1>1, IdleFits DEF WorkInv, StoreIsThere, IndexImage, page
<1>3. a.kind # "rebuild"
  BY <1>1 DEF Fits, RebuildFits
<1>4. CASE /\ task' = [task EXCEPT ![w] = Broken(w)] \/ task' = [task EXCEPT ![w] = Onward(@, @.then)]
           /\ UNCHANGED <<mem, disk, files, op, upset>>
  <2>1. StoreTypes'
    BY <1>0, <1>2, <1>4 DEF StoreTypes
  <2>2. a.then \in {"idle", "finish"}
    BY <1>1 DEF Fits, CommandFits, RebuildFits, OperationFits, Busy, Activity, Kinds, Copied
  <2>3. QED
    BY <1>1, <1>2, <1>4, <2>1, <2>2, BrokenFits, OnwardFits DEF Proceeds
<1>5. CASE Ready /\ Change(w, [mem EXCEPT !.assets = @ \union {task[w].img}], task[w])
  <2> DEFINE new == [mem EXCEPT !.assets = @ \union {task[w].img}]
             b == With(a, new)
  <2>1. new \in Index
    BY <1>0, <1>1, <1>5, Distinct DEF StoreTypes, Ready, Index
  <2>2. /\ b \in Activity /\ b.at = "commit" /\ b.new = new /\ b.kind = a.kind /\ b.drop = a.drop
        /\ b.then = a.then /\ b.else = a.else /\ b.img = a.img /\ b.conv = a.conv
        /\ b.turn = a.turn /\ b.k = a.k /\ b.n = a.n
    BY <1>1, <2>1, WithCopy
  <2>3. Copied(b) /\ Stage(b) = a.then /\ Stage(a) = "index"
    BY <1>1, <2>2 DEF Copied, Stage
  <2>4. Change(w, new, a)
    BY <1>5
  <2> HIDE DEF b, new
  <2>5. Fits(w, b)
    <3>1. a.kind = "command" => CommandFits(w, b)
      BY <1>1, <2>2 DEF Fits, CommandFits
    <3>2. Busy(a) => OperationFits(w, b)
      BY <1>1, <2>2, <2>3 DEF Fits, OperationFits
    <3>3. Busy(a) => a.then = "finish"
      BY <1>1 DEF Fits, OperationFits
    <3>4. (a.kind = "send" => SendFits(b)) /\ (a.kind = "regenerate" => AgainFits(b))
      BY <1>1, <2>2, <2>3, <3>3 DEF Fits, SendFits, AgainFits, InJob, Busy
    <3>5. QED
      BY <1>1, <1>3, <2>1, <2>2, <2>3, <3>1, <3>2, <3>4 DEF Fits, Busy
  <2>6. QED
    BY <1>0, <1>1, <1>2, <1>3, <2>1, <2>4, <2>5, CopyFits DEF b, StoreTypes
<1>6. QED
  BY <1>4, <1>5 DEF IndexImage

\* The steps that bring a command to its end, or wait for an answer.
LEMMA RemoveTurns ==
  ASSUME WorkInv, NEW w \in Threads, Remove(w) \/ Imported(w)
  PROVE  Proceeds(w) /\ task'[w] = Idle /\ ~ Busy(task[w])
<1>0. TasksFit /\ StoreTypes
  BY DEF WorkInv
<1>1. Fits(w, task[w]) /\ task[w] \in Activity /\ task[w].at \in {"remove", "idle"} /\ task[w] # Idle
  <2>1. task[w] # Idle
    BY IdleFits DEF Remove, Imported, At
  <2>2. QED
    BY <1>0, <2>1 DEF TasksFit, Remove, Imported, At
<1>2. mem' = mem /\ op' = op /\ StoreTypes' /\ mem # Down
  <2>1. work' \in Amounts
    BY <1>0, SpendTypes DEF StoreTypes, Remove, Imported
  <2>2. files' \subseteq Images /\ seen' \subseteq Images
    BY <1>0, <1>1 DEF StoreTypes, Remove, Imported, page, Activity
  <2>3. mem # Down
    BY <1>1, IdleFits DEF WorkInv, StoreIsThere
  <2>4. QED
    BY <1>0, <2>1, <2>2, <2>3 DEF StoreTypes, Remove, Imported, page, Mark, Upsets
<1>3. task' = [task EXCEPT ![w] = Idle] /\ task'[w] = Idle
  BY <1>0 DEF Remove, Imported, TasksFit
<1>4. ~ Busy(task[w])
  BY <1>1 DEF Fits, OperationFits
<1>5. QED
  BY <1>2, <1>3, <1>4, IdleFits DEF Proceeds, Turns, Busy, Copied

LEMMA WipeTurns ==
  ASSUME WorkInv, NEW w \in Threads, Wipe(w)
  PROVE  Proceeds(w)
<1>0. TasksFit /\ StoreTypes
  BY DEF WorkInv
<1> DEFINE a == task[w]
<1>1. Fits(w, a) /\ a \in Activity /\ a.at = "wipe" /\ a.kind = "rebuild" /\ a # Idle /\ a.new \in Index
  BY <1>0, IdleFits DEF TasksFit, Wipe, At, Fits
<1>2. mem' = mem /\ op' = op /\ StoreTypes' /\ mem # Down
  <2>1. work' \in Amounts
    BY <1>0, SpendTypes DEF StoreTypes, Wipe
  <2>2. files' \subseteq Images
    BY <1>0, <1>1 DEF StoreTypes, Wipe
  <2>3. mem # Down
    BY <1>1, IdleFits DEF WorkInv, StoreIsThere
  <2>4. QED
    BY <1>0, <2>1, <2>2, <2>3 DEF StoreTypes, Wipe, page, Mark, Upsets
<1>3. CASE task' = [task EXCEPT ![w].at = "publish"]
  <2> DEFINE b == [a EXCEPT !.at = "publish"]
  <2>1. task' = [task EXCEPT ![w] = task'[w]] /\ task'[w] = b /\ b \in Activity
    BY <1>0, <1>3, StepFits DEF Points, Step
  <2>2. b.at = "publish" /\ b.kind = a.kind /\ b.then = a.then /\ b.else = a.else
        /\ b.drop = a.drop /\ b.img = a.img /\ b.new = a.new
    BY <1>1 DEF Activity
  <2> HIDE DEF b
  <2>3. Fits(w, b)
    BY <1>1, <2>1, <2>2 DEF Fits, RebuildFits, Busy
  <2>4. QED
    BY <1>1, <1>2, <2>1, <2>2, <2>3 DEF Proceeds, Turns, Busy
<1>4. CASE task' = [task EXCEPT ![w] = Idle]
  <2>1. task'[w] = Idle
    BY <1>0, <1>4 DEF TasksFit
  <2>2. QED
    BY <1>1, <1>2, <1>4, <2>1, IdleFits DEF Proceeds, Turns, Busy, Copied
<1>5. QED
  BY <1>3, <1>4 DEF Wipe

\* The least of some numbers.
LEMMA Least ==
  ASSUME NEW T \in SUBSET Nat, T # {}
  PROVE  \E x \in T : \A y \in T : x <= y
<1> DEFINE R == OpToRel(<, Nat)
<1>1. IsWellFoundedOn(R, Nat)
  BY NatLessThanWellFounded
<1>2. PICK x \in T : \A y \in T : <<y, x>> \notin R
  <2> HIDE DEF R
  <2>1. QED
    BY <1>1, WFMin
<1>3. \A y \in T : x <= y
  <2> TAKE y \in T
  <2>1. x \in Nat /\ y \in Nat
    OBVIOUS
  <2>2. y < x => <<y, x>> \in R
    BY <2>1 DEF OpToRel
  <2>3. <<y, x>> \notin R
    BY <1>2
  <2> HIDE DEF R
  <2>4. QED
    BY <2>1, <2>2, <2>3
<1>4. QED
  BY <1>3

\* There is a latest job of any that succeeded.
LEMMA LatestJob ==
  ASSUME NEW js \in SUBSET Job, js # {}
  PROVE  \E j \in js : \A k \in js : ~ Before(j, k)
<1> DEFINE late(j) == MaxTurns - j.turn
           T == {late(j) : j \in js}
<1>1. \A j \in js : j.turn \in 1..MaxTurns /\ j.k \in 1..MaxJobs
  BY DEF Job
<1>2. T \in SUBSET Nat /\ T # {}
  BY <1>1, Distinct
<1>3. PICK x \in T : \A y \in T : x <= y
  BY <1>2, Least
<1>4. \A j \in js : x <= late(j)
  BY <1>3
<1> DEFINE same == {j \in js : late(j) = x}
           U == {MaxJobs - j.k : j \in same}
<1>5. U \in SUBSET Nat /\ U # {}
  <2>1. \E j \in js : late(j) = x
    BY <1>3
  <2>2. QED
    BY <1>1, <2>1, Distinct
<1>6. PICK u \in U : \A y \in U : u <= y
  BY <1>5, Least
<1>7. PICK j \in same : MaxJobs - j.k = u
  BY <1>6
<1>8. ASSUME NEW k \in js PROVE ~ Before(j, k)
  <2>1. j \in js /\ late(j) = x /\ late(j) <= late(k)
    BY <1>4, <1>7, <1>8
  <2>2. /\ j.turn \in Nat /\ k.turn \in Nat /\ j.k \in Nat /\ k.k \in Nat
        /\ MaxTurns - j.turn <= MaxTurns - k.turn
    BY <1>1, <2>1
  <2>3. j.turn = k.turn => MaxJobs - j.k <= MaxJobs - k.k
    <3>1. SUFFICES ASSUME j.turn = k.turn PROVE MaxJobs - j.k <= MaxJobs - k.k
      OBVIOUS
    <3>2. k \in same
      BY <2>1, <3>1
    <3>3. MaxJobs - k.k \in U
      BY <3>2
    <3>4. QED
      BY <1>6, <1>7, <3>3
  <2> HIDE DEF same, U, T, late
  <2>4. QED
    BY <2>2, <2>3, Distinct DEF Before
<1>9. QED
  BY <1>7, <1>8

LEMMA LastIsImage ==
  ASSUME NEW i \in Index, NEW c
  PROVE  LastImage(i, c) \in Images \union {None}
<1> DEFINE js == Succeeded(i, c)
           best == CHOOSE j \in js : \A k \in js : ~ Before(j, k)
<1>1. js \subseteq Job
  BY DEF Succeeded, Index
<1>2. js # {} => best \in js
  <2> HIDE DEF js
  <2>1. QED
    BY <1>1, LatestJob
<1>3. QED
  BY <1>1, <1>2 DEF LastImage, Job

LEMMA TalkTurns ==
  ASSUME WorkInv, NEW w \in Threads, Talk(w)
  PROVE  Proceeds(w)
<1>0. TasksFit /\ StoreTypes
  BY DEF WorkInv
<1> DEFINE a == task[w]
<1>1. mem' = mem /\ op' = op /\ StoreTypes'
  BY <1>0 DEF StoreTypes, Talk, page
<1>2. a.at = "talk"
  BY DEF Talk, At
<1>3. /\ Busy(a) /\ mem # Down /\ mem \in Index /\ Fits(w, a) /\ OperationFits(w, a) /\ a \in Activity
      /\ a.kind = "regenerate" => AgainFits(a)
  BY <1>2, OperationAt
<1>4. a.img = None /\ a.kind = "send"
  <2>1. Stage(a) = "talk" /\ ~ Copied(a)
    BY <1>2 DEF Stage, Copied
  <2>2. QED
    BY <1>3, <2>1 DEF OperationFits, AgainFits, InJob, Busy
<1>5. CASE Step(w, "fail")
  <2>1. /\ Turns(w) /\ task'[w] = [task[w] EXCEPT !.at = "fail"]
        /\ Busy(task'[w]) /\ ~ Copied(task'[w])
    BY <1>2, <1>4, <1>5, OperationSteps DEF InJob
  <2>2. QED
    BY <1>1, <1>3, <1>4, <2>1 DEF Proceeds, Busy, Activity
<1>6. ASSUME NEW n \in 0..MaxJobs, NEW edits \in SUBSET (1..MaxJobs), NEW ref \in Images \union {None},
             task' = [task EXCEPT ![w] = [@ EXCEPT !.at = "plan", !.n = n, !.edits = edits, !.ref = ref]]
      PROVE  Proceeds(w)
  <2> DEFINE b == [a EXCEPT !.at = "plan", !.n = n, !.edits = edits, !.ref = ref]
  <2>1. task' = [task EXCEPT ![w] = b] /\ task'[w] = b
    BY <1>0, <1>6 DEF TasksFit
  <2>2. b \in Activity
    BY <1>3, <1>6 DEF Activity, Points
  <2>3. b.at = "plan" /\ b.kind = "send" /\ b.turn = a.turn /\ b.conv = a.conv /\ b.drop = a.drop
        /\ b.img = None
    BY <1>3, <1>4 DEF Activity
  <2> HIDE DEF b
  <2>4. ~ Copied(b) /\ Stage(b) = "plan" /\ Busy(b)
    BY <2>3 DEF Copied, Stage, Busy
  <2>5. OperationFits(w, b) /\ SendFits(b)
    BY <1>3, <2>3, <2>4 DEF OperationFits, SendFits, InJob
  <2>6. Fits(w, b)
    BY <2>2, <2>3, <2>4, <2>5 DEF Fits
  <2>7. QED
    BY <1>1, <1>3, <2>1, <2>3, <2>4, <2>6 DEF Proceeds, Turns
<1>7. LastImage(mem, a.conv) \in Images \union {None} /\ a.ref \in Images \union {None}
  BY <1>3, LastIsImage DEF Activity
<1>8. QED
  BY <1>5, <1>6, <1>7 DEF Talk

LEMMA AnswerTurns ==
  ASSUME WorkInv, NEW w \in Threads, Answer(w)
  PROVE  Proceeds(w)
<1>0. TasksFit /\ StoreTypes
  BY DEF WorkInv
<1> DEFINE a == task[w]
<1>1. mem' = mem /\ op' = op /\ StoreTypes'
  BY <1>0 DEF StoreTypes, Answer, page, Mark, Overlap, Upsets
<1>2. a.at = "wait"
  BY DEF Answer, At
<1>3. /\ Busy(a) /\ mem # Down /\ mem \in Index /\ Fits(w, a) /\ OperationFits(w, a) /\ a \in Activity
      /\ Stage(a) = "wait" /\ ~ Copied(a)
      /\ a.kind = "send" => SendFits(a)
      /\ a.kind = "regenerate" => AgainFits(a)
  BY <1>2, OperationAt
<1>4. a.img = None /\ (a.kind = "send" => a.k \in 1..a.n) /\ a.kind # "rebuild"
  BY <1>3 DEF OperationFits, SendFits, InJob, Busy
<1>5. CASE Step(w, "finish")
  <2>1. /\ Turns(w) /\ task'[w] = [task[w] EXCEPT !.at = "finish"]
        /\ Busy(task'[w]) /\ ~ Copied(task'[w])
    BY <1>2, <1>4, <1>5, OperationSteps DEF InJob
  <2>2. task'[w].kind = a.kind /\ task'[w].at = "finish"
    BY <1>3, <2>1 DEF Activity
  <2>3. QED
    BY <1>1, <1>3, <1>4, <2>1, <2>2 DEF Proceeds
<1>6. ASSUME NEW i \in work.images,
             task' = [task EXCEPT ![w] = [@ EXCEPT !.at = "write", !.img = i, !.then = "finish",
                                                   !.else = "finish"]]
      PROVE  Proceeds(w)
  <2> DEFINE b == [a EXCEPT !.at = "write", !.img = i, !.then = "finish", !.else = "finish"]
  <2>1. task' = [task EXCEPT ![w] = b] /\ task'[w] = b
    BY <1>0, <1>6 DEF TasksFit
  <2>2. i \in Images
    BY <1>0, <1>6 DEF StoreTypes, Amounts
  <2>3. b \in Activity
    BY <1>3, <2>2 DEF Activity, Points
  <2>4. /\ b.at = "write" /\ b.kind = a.kind /\ b.turn = a.turn /\ b.conv = a.conv /\ b.drop = a.drop
        /\ b.img = i /\ b.then = "finish" /\ b.else = "finish" /\ b.k = a.k /\ b.n = a.n
    BY <1>3 DEF Activity
  <2> HIDE DEF b
  <2>5. ~ Copied(b) /\ Stage(b) = "write" /\ Busy(b)
    BY <1>3, <2>4 DEF Copied, Stage, Busy
  <2>6. OperationFits(w, b)
    BY <1>3, <2>4, <2>5 DEF OperationFits
  <2>7. (b.kind = "send" => SendFits(b)) /\ (b.kind = "regenerate" => AgainFits(b))
    BY <1>3, <1>4, <2>4, <2>5 DEF SendFits, AgainFits, InJob
  <2>8. i # None
    BY <2>2, Distinct
  <2>9. Fits(w, b)
    BY <1>4, <2>3, <2>4, <2>5, <2>6, <2>7, <2>8 DEF Fits, Busy
  <2>10. QED
    BY <1>1, <1>3, <1>4, <2>1, <2>4, <2>5, <2>9 DEF Proceeds, Turns
<1>7. QED
  BY <1>5, <1>6 DEF Answer

LEMMA ImportTurns ==
  ASSUME WorkInv, NEW w \in Tasks, Import(w)
  PROVE  Proceeds(w)
<1>0. TasksFit /\ StoreTypes /\ w \in Threads /\ w # Main
  BY Distinct DEF WorkInv
<1>1. task[w] = Idle /\ mem # Down
  BY FreeIsIdle DEF Import, Command
<1>2. work' \in Amounts
  BY <1>0, SpendTypes DEF StoreTypes, Import, Command
<1>3. mem' = mem /\ op' = op /\ StoreTypes'
  BY <1>0, <1>2 DEF StoreTypes, Import, page, Mark, Overlap, Upsets
<1>4. PICK i \in work.images : task' = [task EXCEPT ![w] = [Idle EXCEPT !.at = "write", !.img = i]]
  BY DEF Import
<1>5. i \in Images /\ i # None
  BY <1>0, Distinct DEF StoreTypes, Amounts
<1> DEFINE b == [Idle EXCEPT !.at = "write", !.img = i]
<1>6. task' = [task EXCEPT ![w] = b] /\ task'[w] = b
  BY <1>0, <1>4 DEF TasksFit
<1>7. /\ b.at = "write" /\ b.kind = "command" /\ b.drop = {} /\ b.img = i /\ b.then = "idle"
      /\ b.else = "idle"
  BY DEF Idle
<1>8. b \in Activity
  <2>1. Idle \in Activity /\ "write" \in Points /\ i \in Images \union {None}
    BY <1>5, IdleFits DEF Points
  <2>2. QED
    BY <2>1 DEF Activity
<1> HIDE DEF b
<1>9. Fits(w, b) /\ ~ Busy(b)
  BY <1>0, <1>5, <1>7, <1>8 DEF Fits, CommandFits, Copied, Busy
<1>10. QED
  BY <1>1, <1>3, <1>6, <1>7, <1>9, IdleFits DEF Proceeds, Turns, Busy, Copied

LEMMA InterruptTurns ==
  ASSUME WorkInv, Interrupt
  PROVE  Proceeds(Main)
<1>0. TasksFit /\ StoreTypes /\ Main \in Threads
  BY Distinct DEF WorkInv
<1>1. task[Main] = Idle /\ mem # Down /\ mem' = mem
  BY DEF Interrupt
<1>2. op' \in {None, "runs", "stops"} /\ (op' = None <=> op = None)
  BY <1>0, Distinct DEF Interrupt, StoreTypes
<1>3. StoreTypes'
  BY <1>0, <1>2 DEF StoreTypes, Interrupt, page
<1> DEFINE b == [Idle EXCEPT !.at = "mark"]
<1>4. task' = [task EXCEPT ![Main] = b] /\ task'[Main] = b
  BY <1>0, <1>1 DEF TasksFit, Interrupt
<1>5. /\ b.at = "mark" /\ b.kind = "command" /\ b.drop = {} /\ b.img = None /\ b.then = "idle"
      /\ b.else = "idle"
  BY DEF Idle
<1>6. b \in Activity
  BY IdleFits DEF Activity, Points
<1> HIDE DEF b
<1>7. Fits(Main, b) /\ ~ Busy(b)
  BY <1>0, <1>5, <1>6 DEF Fits, CommandFits, Copied, Busy
<1>8. QED
  BY <1>1, <1>2, <1>3, <1>4, <1>5, <1>7, IdleFits DEF Proceeds, Turns, Busy, Copied

\* The index as an exit marks it.
Marked(i) ==
  LET hit == {t \in i.turns : /\ t.phase \in {"requesting", "imaging"} /\ ~ t.err
                              /\ \E j \in i.jobs : j.turn = t.id /\ j.status = "running"}
      turns == (i.turns \ hit) \union {[t EXCEPT !.phase = "interrupted", !.err = TRUE] : t \in hit}
  IN [i EXCEPT !.turns = turns, !.jobs = {Halted(j) : j \in @}]

LEMMA MarkedIsIndex ==
  ASSUME NEW i \in Index
  PROVE  Marked(i) \in Index
<1>1. i.turns \subseteq Turn /\ i.jobs \subseteq Job
  BY DEF Index
<1>2. \A t \in i.turns : [t EXCEPT !.phase = "interrupted", !.err = TRUE] \in Turn
  BY <1>1 DEF Turn
<1>3. \A j \in i.jobs : Halted(j) \in Job
  BY <1>1 DEF Job, Halted
<1> DEFINE hit == {t \in i.turns : /\ t.phase \in {"requesting", "imaging"} /\ ~ t.err
                              /\ \E j \in i.jobs : j.turn = t.id /\ j.status = "running"}
           turns == (i.turns \ hit) \union {[t EXCEPT !.phase = "interrupted", !.err = TRUE] : t \in hit}
           jobs == {Halted(j) : j \in i.jobs}
<1>4. turns \subseteq Turn /\ jobs \subseteq Job
  BY <1>1, <1>2, <1>3
<1>5. Marked(i) = [i EXCEPT !.turns = turns, !.jobs = jobs]
  BY DEF Marked
<1> HIDE DEF turns, jobs
<1>6. QED
  BY <1>4, <1>5 DEF Index

LEMMA MarkTurns ==
  ASSUME WorkInv, MarkInterrupted
  PROVE  Proceeds(Main) /\ ~ Busy(task[Main]) /\ task[Main].at = "mark"
<1>0. TasksFit /\ StoreTypes /\ Main \in Threads
  BY Distinct DEF WorkInv
<1>1. Fits(Main, task[Main]) /\ task[Main].at = "mark"
  BY <1>0 DEF TasksFit, MarkInterrupted, At
<1>2. ~ Busy(task[Main]) /\ task[Main] # Idle
  BY <1>1, IdleFits DEF Fits, OperationFits
<1>3. mem # Down
  BY <1>0, <1>2 DEF WorkInv, StoreIsThere
<1>4. seen' = seen /\ ever' = ever /\ work' = work
  BY DEF MarkInterrupted, page
<1>5. CASE Change(Main, Marked(mem), Idle)
  <2>1. mem \in Index
    BY <1>0, <1>5 DEF Change, Ready, StoreTypes
  <2>2. Marked(mem) \in Index
    BY <2>1, MarkedIsIndex
  <2>3. Idle \in Activity /\ ~ Busy(Idle) /\ Idle.kind # "rebuild"
    BY IdleFits DEF Busy
  <2>4. Fits(Main, With(Idle, Marked(mem)))
    <3>1. Idle.kind = "command" /\ Idle.then = "idle" /\ Idle.else = "idle" /\ Idle.drop = {}
          /\ Idle.img = None
      BY DEF Idle
    <3>2. QED
      BY <2>2, <2>3, <3>1, WithCopy DEF Fits, CommandFits, Copied, Busy
  <2>5. QED
    BY <1>0, <1>1, <1>2, <1>4, <1>5, <2>2, <2>3, <2>4, CopyFits DEF StoreTypes
<1>6. CASE ~ Ready /\ task' = [task EXCEPT ![Main] = Idle] /\ UNCHANGED <<mem, disk, files, op, upset>>
  <2>1. task'[Main] = Idle
    BY <1>0, <1>6 DEF TasksFit
  <2>2. StoreTypes'
    BY <1>0, <1>4, <1>6 DEF StoreTypes
  <2>3. QED
    BY <1>0, <1>1, <1>2, <1>3, <1>6, <2>1, <2>2, IdleFits DEF Proceeds, Turns, Busy, Copied
<1>7. QED
  BY <1>1, <1>2, <1>5, <1>6 DEF MarkInterrupted, Marked

\* The operation begins, with what the page and the index gave it.
LEMMA BeginTurns ==
  ASSUME WorkInv, NEW w \in Tasks, Send(w) \/ Regenerate(w)
  PROVE  /\ StoreTypes' /\ TasksFit' /\ Turns(w) /\ Busy(task'[w]) /\ op = None /\ op' = "runs" /\ Ready
         /\ mem' = mem /\ ~ Copied(task'[w]) /\ task'[w].at \in {"turn", "plan"} /\ mem \in Index
         /\ task[w] = Idle /\ w \in Threads
<1>0. TasksFit /\ StoreTypes /\ w \in Threads /\ w # Main
  BY Distinct DEF WorkInv
<1>1. task[w] = Idle /\ op = None /\ Ready /\ op' = "runs" /\ mem' = mem
  BY FreeIsIdle DEF Send, Regenerate
<1>2. mem \in Index
  BY <1>0, <1>1 DEF Ready, StoreTypes
<1>3. StoreTypes'
  <2>1. work' \in Amounts
    BY <1>0, SpendTypes DEF StoreTypes, Send, Regenerate
  <2>2. QED
    BY <1>0, <1>1, <2>1 DEF StoreTypes, Send, Regenerate, page
<1>4. ASSUME NEW b \in Activity, task' = [task EXCEPT ![w] = b], Busy(b), OperationFits(w, b),
             b.at \in {"turn", "plan"}, b.kind = "regenerate" => b.at = "plan" /\ b.k \in 1..MaxJobs
      PROVE  Turns(w) /\ TasksFit' /\ Busy(task'[w]) /\ ~ Copied(task'[w]) /\ task'[w].at \in {"turn", "plan"}
  <2>1. task'[w] = b
    BY <1>0, <1>4 DEF TasksFit
  <2>2. ~ Copied(b) /\ Stage(b) = b.at
    BY <1>4 DEF Copied, Stage
  <2>3. Fits(w, b)
    BY <1>4, <2>2 DEF Fits, SendFits, AgainFits, InJob, Busy
  <2>4. QED
    BY <1>0, <1>4, <2>1, <2>2, <2>3, OneTask DEF Turns
<1>5. CASE Send(w)
  <2>1. PICK c \in mem.convs \intersect mem.offered : \E r \in seen \union {None} :
          task' = [task EXCEPT ![w] = [Idle EXCEPT !.at = "turn", !.kind = "send", !.conv = c, !.ref = r,
                                                   !.turn = MaxTurns + 1 - work.sends]]
    BY <1>5 DEF Send
  <2>2. PICK r \in seen \union {None} :
          task' = [task EXCEPT ![w] = [Idle EXCEPT !.at = "turn", !.kind = "send", !.conv = c, !.ref = r,
                                                   !.turn = MaxTurns + 1 - work.sends]]
    BY <2>1
  <2> DEFINE turn == MaxTurns + 1 - work.sends
             b == [Idle EXCEPT !.at = "turn", !.kind = "send", !.conv = c, !.ref = r, !.turn = turn]
  <2>3. turn \in 1..MaxTurns
    <3>1. work.sends \in 0..MaxTurns /\ work.sends > 0
      BY <1>0, <1>5 DEF StoreTypes, Amounts, Send, Spend
    <3>2. QED
      BY <3>1, Distinct
  <2> HIDE DEF turn
  <2>4. c \in Convs /\ r \in Images \union {None}
    BY <1>0, <1>2 DEF Index, StoreTypes
  <2>5. b.at = "turn" /\ b.kind = "send" /\ b.conv = c /\ b.turn = turn /\ b.drop = {} /\ b.img = None
    BY DEF Idle
  <2>6. b \in Activity
    <3>1. Idle \in Activity /\ "turn" \in Points /\ "send" \in Kinds /\ turn \in 0..MaxTurns
      BY <2>3, IdleFits DEF Points, Kinds
    <3>2. QED
      BY <2>4, <3>1 DEF Activity
  <2>7. task' = [task EXCEPT ![w] = b]
    BY <2>2 DEF turn
  <2> HIDE DEF b
  <2>8. OperationFits(w, b) /\ Busy(b)
    BY <1>0, <2>3, <2>4, <2>5 DEF OperationFits, Copied, Busy
  <2>9. QED
    BY <1>0, <1>1, <1>2, <1>3, <1>4, <2>5, <2>6, <2>7, <2>8
<1>6. CASE Regenerate(w)
  <2>1. PICK j \in mem.jobs : \E t \in mem.turns, r \in seen \union {None} :
       LET ref == IF ~ j.edit THEN None ELSE IF r # None THEN r ELSE LastImage(mem, t.conv) IN
       /\ t.id = j.turn /\ t.conv \in mem.convs
       /\ j.edit => ref # None
       /\ task' = [task EXCEPT ![w] =
                     [Idle EXCEPT !.at = "plan", !.kind = "regenerate", !.conv = t.conv,
                                  !.ref = ref, !.turn = j.turn, !.k = j.k]]
    BY <1>6 DEF Regenerate
  <2>2. PICK t \in mem.turns, r \in seen \union {None} :
       LET ref == IF ~ j.edit THEN None ELSE IF r # None THEN r ELSE LastImage(mem, t.conv) IN
       /\ t.id = j.turn /\ t.conv \in mem.convs
       /\ task' = [task EXCEPT ![w] =
                     [Idle EXCEPT !.at = "plan", !.kind = "regenerate", !.conv = t.conv,
                                  !.ref = ref, !.turn = j.turn, !.k = j.k]]
    BY <2>1
  <2> DEFINE ref == IF ~ j.edit THEN None ELSE IF r # None THEN r ELSE LastImage(mem, t.conv)
             b == [Idle EXCEPT !.at = "plan", !.kind = "regenerate", !.conv = t.conv,
                               !.ref = ref, !.turn = j.turn, !.k = j.k]
  <2>3. ref \in Images \union {None}
    BY <1>0, <1>2, LastIsImage DEF StoreTypes
  <2> HIDE DEF ref
  <2>4. /\ t.conv \in Convs /\ j.turn \in 1..MaxTurns /\ j.k \in 1..MaxJobs
        /\ j.turn \in 0..MaxTurns /\ j.k \in 0..(MaxJobs + 1)
    BY <1>2, Distinct DEF Index, Turn, Job
  <2>5. b.at = "plan" /\ b.kind = "regenerate" /\ b.conv = t.conv /\ b.turn = j.turn /\ b.drop = {}
        /\ b.img = None /\ b.k = j.k
    BY DEF Idle
  <2>6. b \in Activity
    <3>1. Idle \in Activity /\ "plan" \in Points /\ "regenerate" \in Kinds
      BY IdleFits DEF Points, Kinds
    <3>2. QED
      BY <2>3, <2>4, <3>1 DEF Activity
  <2>7. task' = [task EXCEPT ![w] = b]
    BY <2>2 DEF ref
  <2> HIDE DEF b
  <2>8. OperationFits(w, b) /\ Busy(b)
    BY <1>0, <2>4, <2>5 DEF OperationFits, Copied, Busy
  <2>9. QED
    BY <1>0, <1>1, <1>2, <1>3, <1>4, <2>4, <2>5, <2>6, <2>7, <2>8
<1>7. QED
  BY <1>5, <1>6

LEMMA BeginKeeps ==
  ASSUME WorkInv, NEW w \in Tasks, Send(w) \/ Regenerate(w)
  PROVE  WorkInv'
<1>1. /\ StoreTypes' /\ TasksFit' /\ Turns(w) /\ Busy(task'[w]) /\ op = None /\ op' = "runs" /\ Ready
      /\ mem' = mem /\ ~ Copied(task'[w]) /\ task'[w].at \in {"turn", "plan"} /\ w \in Threads
  BY BeginTurns
<1>2. \A v \in Threads \ {w} : task'[v] = task[v]
  BY <1>1 DEF Turns, WorkInv, TasksFit
<1>3. \A v \in Threads : ~ Busy(task[v])
  BY <1>1 DEF WorkInv, OneOperation
<1>4. OneOperation'
  BY <1>1, <1>2, <1>3, Distinct DEF OneOperation
<1>5. StoreIsThere'
  <2>1. mem' # Down /\ Ready'
    BY <1>1 DEF Ready
  <2>2. task'[w].kind # "rebuild"
    BY <1>1 DEF Busy
  <2>3. QED
    BY <1>1, <1>2, <2>1, <2>2 DEF WorkInv, StoreIsThere, At
<1>6. QED
  BY <1>1, <1>4, <1>5 DEF WorkInv

LEMMA RebuildKeeps ==
  ASSUME WorkInv, NEW w \in Tasks, Rebuild(w)
  PROVE  WorkInv' /\ Turns(w) /\ task[w] = Idle
         /\ task'[w] = [Idle EXCEPT !.at = "commit", !.kind = "rebuild", !.new = Empty]
<1>0. TasksFit /\ StoreTypes /\ w \in Threads /\ w # Main
  BY Distinct DEF WorkInv
<1>1. task[w] = Idle /\ mem = Corrupt /\ mem' = mem /\ op' = op
  BY FreeIsIdle DEF Rebuild
<1> DEFINE b == [Idle EXCEPT !.at = "commit", !.kind = "rebuild", !.new = Empty]
<1>2. task' = [task EXCEPT ![w] = b] /\ task'[w] = b
  BY <1>0 DEF TasksFit, Rebuild
<1>3. b \in Activity
  <2>1. Idle \in Activity /\ "commit" \in Points /\ "rebuild" \in Kinds /\ Empty \in Index \union {None}
    BY IdleFits, EmptyIsIndex DEF Points, Kinds
  <2>2. QED
    BY <2>1 DEF Activity
<1>4. /\ b.at = "commit" /\ b.kind = "rebuild" /\ b.new = Empty /\ b.then = "idle" /\ b.else = "idle"
      /\ b.drop = {} /\ b.img = None
  BY DEF Idle
<1>b. b = [Idle EXCEPT !.at = "commit", !.kind = "rebuild", !.new = Empty]
  OBVIOUS
<1> HIDE DEF b
<1>5. Fits(w, b) /\ ~ Busy(b) /\ ~ Busy(Idle)
  BY <1>0, <1>3, <1>4, EmptyIsIndex, IdleFits DEF Fits, RebuildFits, Busy
<1>6. StoreTypes'
  BY <1>0 DEF StoreTypes, Rebuild, page, Mark, Overlap, Upsets
<1>7. TasksFit' /\ \A v \in Threads \ {w} : task'[v] = task[v]
  BY <1>0, <1>2, <1>5, OneTask
<1>8. OneOperation'
  BY <1>1, <1>2, <1>5, <1>7 DEF WorkInv, OneOperation
<1>9. StoreIsThere'
  <2>1. \A v \in Threads : task[v].kind # "rebuild"
    <3>1. \A v \in Tasks : task[v].kind # "rebuild"
      BY DEF Rebuild
    <3>2. task[Main].kind # "rebuild"
      BY <1>0, Distinct DEF TasksFit, Fits, RebuildFits
    <3>3. QED
      BY <3>1, <3>2, Distinct
  <2>2. mem' = Corrupt /\ mem' # Down
    BY <1>1, Distinct
  <2>3. QED
    BY <1>1, <1>2, <1>4, <1>5, <1>7, <2>1, <2>2 DEF WorkInv, StoreIsThere, At, Ready
<1>10. QED
  BY <1>1, <1>2, <1>5, <1>6, <1>7, <1>8, <1>9, <1>b DEF WorkInv, Turns

LEMMA PublishKeeps ==
  ASSUME WorkInv, NEW w \in Threads, Publish(w)
  PROVE  WorkInv' /\ Turns(w) /\ mem' = task[w].new /\ mem # Down /\ mem' # Down /\ mem' \in Index
<1>0. TasksFit /\ StoreTypes
  BY DEF WorkInv
<1>1. Fits(w, task[w]) /\ Copied(task[w]) /\ task[w].at = "publish" /\ task[w].new \in Index
  BY <1>0 DEF TasksFit, Publish, At, Copied, Fits
<1>2. mem' = task[w].new /\ mem' \in Index /\ op' = op /\ mem' # Down
  BY <1>1, Distinct DEF Publish
<1>3. /\ Turns(w) /\ ~ Copied(task'[w]) /\ task'[w].kind # "rebuild"
      /\ Busy(task'[w]) <=> Busy(task[w])
  BY <1>1, OnwardFits DEF Publish
<1>4. TasksFit' /\ \A v \in Threads \ {w} : task'[v] = task[v]
  BY <1>0, <1>3, OneTask DEF Turns
<1>5. StoreTypes'
  BY <1>0, <1>2 DEF StoreTypes, Publish, page, Mark, Upsets
<1>6. Ready' /\ mem # Down
  BY <1>1, <1>2, Distinct, IdleFits DEF WorkInv, StoreIsThere, Ready
<1>7. OneOperation'
  BY <1>2, <1>3, <1>4 DEF WorkInv, OneOperation
<1>8. \A v \in Threads \ {w} : task[v].kind # "rebuild"
  BY <1>1, Distinct DEF WorkInv, StoreIsThere, Ready
<1>9. StoreIsThere'
  BY <1>2, <1>3, <1>4, <1>6, <1>8 DEF StoreIsThere
<1>10. QED
  BY <1>2, <1>3, <1>4, <1>5, <1>6, <1>7, <1>9 DEF WorkInv

LEMMA EndKeeps ==
  ASSUME WorkInv, NEW w \in Threads, End(w)
  PROVE  WorkInv' /\ Turns(w) /\ mem' = mem /\ mem # Down /\ Busy(task[w]) /\ task'[w] = Idle
<1>0. TasksFit /\ StoreTypes
  BY DEF WorkInv
<1>1. task' = [task EXCEPT ![w] = Idle] /\ task'[w] = Idle /\ op' = None /\ mem' = mem
  BY <1>0 DEF End, TasksFit
<1>2. Busy(task[w]) /\ mem # Down /\ Ready
  BY OperationAt DEF End, At
<1>3. StoreTypes'
  BY <1>0 DEF StoreTypes, End, page
<1>4. Turns(w) /\ ~ Busy(Idle) /\ Idle.kind = "command" /\ ~ Copied(Idle) /\ Idle.at = "idle"
  BY <1>1, IdleFits DEF Turns, Busy, Copied
<1>5. TasksFit' /\ \A v \in Threads \ {w} : task'[v] = task[v]
  BY <1>0, <1>1, IdleFits, OneTask
<1>6. \A v \in Threads : ~ Busy(task'[v])
  BY <1>1, <1>2, <1>4, <1>5 DEF WorkInv, OneOperation
<1>7. OneOperation'
  BY <1>1, <1>6 DEF OneOperation
<1>8. StoreIsThere'
  BY <1>1, <1>2, <1>4, <1>5, <1>6 DEF WorkInv, StoreIsThere, Ready, At
<1>9. QED
  BY <1>1, <1>2, <1>3, <1>4, <1>5, <1>7, <1>8 DEF WorkInv

LEMMA StopKeeps ==
  ASSUME WorkInv, Stop
  PROVE  WorkInv' /\ task' = task /\ mem' = mem /\ mem # Down
<1>1. op = "runs" /\ op' = "stops" /\ task' = task /\ mem' = mem /\ work' \in Amounts
  BY SpendTypes DEF Stop, WorkInv, StoreTypes
<1>2. StoreTypes' /\ TasksFit'
  BY <1>1 DEF WorkInv, StoreTypes, TasksFit, Stop, page, Fits, CommandFits, RebuildFits,
              OperationFits, SendFits, AgainFits, Copied, Stage, Busy
<1>3. op # None /\ op' # None
  BY <1>1, Distinct
<1>4. OneOperation' /\ StoreIsThere'
  BY <1>1, <1>3 DEF WorkInv, OneOperation, StoreIsThere, Ready, At
<1>5. QED
  BY <1>1, <1>2, <1>3, <1>4 DEF WorkInv, StoreIsThere

\* The store is opened, and the process ends.
LEMMA OpenKeeps ==
  ASSUME WorkInv, OpenStore
  PROVE  WorkInv' /\ mem = Down /\ mem' # Down /\ task' = task /\ op' = op
<1>1. mem = Down /\ op = None /\ (\A w \in Threads : task[w] = Idle) /\ op' = op /\ task' = task
  BY DEF WorkInv, StoreIsThere, OpenStore
<1>2. mem' \in Index \union {Corrupt, Incompatible} /\ mem' # Down
  <2>1. CASE Loaded(disk) /\ mem' = Interrupted(disk)
    <3>1. disk \in Index
      BY <2>1 DEF WorkInv, StoreTypes, Loaded
    <3>2. QED
      BY <2>1, <3>1, IndexChanges, Distinct
  <2>2. CASE mem' = Empty
    BY <2>2, EmptyIsIndex, Distinct
  <2>3. CASE mem' = Corrupt
    BY <2>3, Distinct
  <2>4. CASE disk \in {Corrupt, Incompatible} /\ mem' = disk
    BY <2>4, Distinct
  <2>5. QED
    BY <2>1, <2>2, <2>3, <2>4 DEF OpenStore
<1>3. work' \in Amounts /\ ever' = ever /\ upset' \subseteq Upsets
  BY SpendTypes DEF WorkInv, StoreTypes, OpenStore, Mark, Upsets
<1>4. disk' \in {disk, mem'} /\ files' \subseteq files
  BY DEF OpenStore
<1>5. seen' = seen \/ (Loaded(disk) /\ seen' = Referenced(mem') /\ mem' = Interrupted(disk))
  BY DEF OpenStore
<1>6. seen' \subseteq Images
  <2>1. CASE seen' = seen
    BY <2>1 DEF WorkInv, StoreTypes
  <2>2. CASE Loaded(disk) /\ seen' = Referenced(mem') /\ mem' = Interrupted(disk)
    <3>1. disk \in Index
      BY <2>2 DEF WorkInv, StoreTypes, Loaded
    <3>2. Interrupted(disk) \in Index
      BY <3>1, IndexChanges
    <3>3. QED
      BY <2>2, <3>2, IndexChanges
  <2>3. QED
    BY <1>5, <2>1, <2>2
<1>7. disk' \in Index \union {Missing, Corrupt, Incompatible}
  <2>1. CASE mem' \in Index
    BY <1>4, <2>1 DEF WorkInv, StoreTypes
  <2>2. CASE mem' \in {Corrupt, Incompatible}
    BY <1>4, <2>2 DEF WorkInv, StoreTypes
  <2>3. QED
    BY <1>2, <2>1, <2>2
<1>8. StoreTypes'
  BY <1>1, <1>2, <1>3, <1>4, <1>6, <1>7 DEF WorkInv, StoreTypes
<1>9. TasksFit' /\ OneOperation'
  BY <1>1 DEF WorkInv, TasksFit, OneOperation, Fits, CommandFits, RebuildFits, OperationFits,
              SendFits, AgainFits, Copied, Stage, Busy
<1>10. StoreIsThere'
  BY <1>1, <1>2, IdleFits DEF StoreIsThere, Copied, Busy, At
<1>11. QED
  BY <1>1, <1>2, <1>8, <1>9, <1>10 DEF WorkInv

LEMMA PerishKeeps ==
  ASSUME WorkInv, Perish, work' \in Amounts
  PROVE  WorkInv' /\ mem' = Down
<1>1. mem' = Down /\ op' = None /\ seen' = {} /\ task' = [w \in Threads |-> Idle]
  BY DEF Perish
<1>2. StoreTypes'
  BY <1>1 DEF WorkInv, StoreTypes, Perish, Mark, Upsets
<1>3. \A w \in Threads : task'[w] = Idle
  BY <1>1
<1>4. TasksFit'
  BY <1>1, <1>3, IdleFits DEF TasksFit
<1>5. OneOperation' /\ StoreIsThere'
  BY <1>1, <1>3, IdleFits DEF OneOperation, StoreIsThere, Copied, Busy, At
<1>6. QED
  BY <1>1, <1>2, <1>4, <1>5 DEF WorkInv

LEMMA StillWorks ==
  ASSUME WorkInv, UNCHANGED workbench
  PROVE  WorkInv'
BY DEF workbench, WorkInv, StoreTypes, TasksFit, OneOperation, StoreIsThere, Fits, CommandFits, RebuildFits,
       OperationFits, SendFits, AgainFits, Copied, Stage, Busy, Ready, At

LEMMA WorkbenchKeeps ==
  ASSUME WorkInv, WorkbenchNext
  PROVE  WorkInv' /\ mem # Down /\ mem' # Down
<1>0. Tasks \subseteq Threads /\ Main \in Threads
  BY Distinct
<1>1. ASSUME NEW w \in Threads, Proceeds(w)
      PROVE  WorkInv' /\ mem # Down /\ mem' # Down
  BY <1>1, Proceeding DEF Proceeds
<1>2. ASSUME NEW w \in Tasks, Create(w) \/ Select(w) \/ SetOptions(w) \/ Delete(w) \/ Import(w)
      PROVE  WorkInv' /\ mem # Down /\ mem' # Down
  BY <1>0, <1>1, <1>2, CommandChanges, ImportTurns
<1>3. ASSUME NEW w \in Tasks, Send(w) \/ Regenerate(w)
      PROVE  WorkInv' /\ mem # Down /\ mem' # Down
  BY <1>3, BeginKeeps, BeginTurns DEF Ready
<1>4. ASSUME NEW w \in Tasks, Rebuild(w)
      PROVE  WorkInv' /\ mem # Down /\ mem' # Down
  <2>1. mem = Corrupt /\ mem' = mem
    BY <1>4 DEF Rebuild
  <2>2. QED
    BY <1>4, <2>1, RebuildKeeps, Distinct
<1>5. ASSUME NEW w \in Threads, Continue(w)
      PROVE  WorkInv' /\ mem # Down /\ mem' # Down
  <2>1. CASE Publish(w) \/ End(w)
    BY <2>1, PublishKeeps, EndKeeps
  <2>2. CASE Commit(w) \/ Wipe(w) \/ Remove(w) \/ WriteImage(w) \/ IndexImage(w) \/ Imported(w)
    BY <1>1, <2>2, CommitTurns, WipeTurns, RemoveTurns, WriteTurns, IndexTurns
  <2>3. CASE AddTurn(w) \/ Fail(w) \/ Plan(w) \/ Again(w) \/ Finish(w) \/ Close(w)
    BY <1>1, <2>3, OperationChanges
  <2>4. CASE Chat(w) \/ Talk(w) \/ NextJob(w) \/ ReadImage(w) \/ Dial(w) \/ Answer(w)
    BY <1>1, <2>4, OperationGoes, TalkTurns, AnswerTurns
  <2>5. QED
    BY <1>5, <2>1, <2>2, <2>3, <2>4 DEF Continue
<1>6. CASE MarkInterrupted \/ Stop
  BY <1>0, <1>1, <1>6, MarkTurns, StopKeeps
<1>7. CASE Commit(Main) \/ Publish(Main)
  BY <1>0, <1>5, <1>7 DEF Continue
<1>8. QED
  BY <1>0, <1>2, <1>3, <1>4, <1>5, <1>6, <1>7 DEF WorkbenchNext

LEMMA WorkInit ==
  ASSUME ShellInit
  PROVE  WorkInv
<1>1. work \in Amounts
  BY WorkbenchAssumption DEF ShellInit, WorkbenchInit
<1>2. mem = Down /\ op = None /\ seen = {} /\ upset = {} /\ files = {} /\ task = [w \in Threads |-> Idle]
  BY DEF ShellInit, WorkbenchInit
<1>3. ever \in 0..MaxConvs /\ (ever = 0 => work.found \notin Convs)
  BY Distinct DEF ShellInit, WorkbenchInit, Convs
<1>4. disk \in Index \union {Missing, Corrupt, Incompatible}
  <2>1. CASE ever = 0
    BY <1>1, <1>3, <2>1 DEF ShellInit, WorkbenchInit, Amounts, Convs
  <2>2. CASE ever # 0
    <3>1. 1 \in Convs /\ 1..ever \subseteq Convs
      BY <1>3, <2>2, Distinct DEF Convs
    <3>2. disk = [Empty EXCEPT !.sel = 1, !.convs = 1..ever, !.offered = 1..ever]
      BY <2>2 DEF ShellInit, WorkbenchInit
    <3>3. QED
      BY <3>1, <3>2 DEF Empty, Index
  <2>3. QED
    BY <2>1, <2>2
<1>5. StoreTypes
  BY <1>1, <1>2, <1>3, <1>4 DEF StoreTypes
<1>6. \A w \in Threads : task[w] = Idle
  BY <1>2
<1>7. TasksFit /\ OneOperation /\ StoreIsThere
  BY <1>2, <1>6, IdleFits DEF TasksFit, OneOperation, StoreIsThere, Copied, Busy, At
<1>8. QED
  BY <1>5, <1>7 DEF WorkInv

-----------------------------------------------------------------------------
(* The inductive invariant of the lifecycle, the quit and the snapshot. *)

Status == [status: Views, release: Releases]
Watches == [state: Releases, sure: BOOLEAN, here: BOOLEAN]
Lives == [active: BOOLEAN, dirty: BOOLEAN, quit: {"idle", "awaiting", "waiting", "exiting"}]
Goings == [update: {"no", "try", "restart"}, dirty: BOOLEAN,
           listen: {"no", "read", "prepared", "restart"}]
Pages == [there: BOOLEAN, draft: BOOLEAN, asked: BOOLEAN]

StatusTypes ==
  /\ router \in Routers /\ shown \in Status /\ watch \in Watches
  /\ poll \in Polls \union {None} /\ asker \in Askers \union {None} /\ due \in BOOLEAN

LifeTypes ==
  /\ lc \in Lives /\ going \in Goings /\ webview \in Pages
  /\ quitting \in BOOLEAN /\ exiting \in BOOLEAN
  /\ oper \in Operation \union {None}
  /\ facts \subseteq Facts /\ play \in Plays

\* A quit stops the router and exits; nothing else leaves, and only an update verifies.
OperFits(o) ==
  IF o.kind = "quit"
  THEN /\ o.at \in {"leave", "decide", "halt", "stop", "show", "sour", "refresh", "exit"}
       /\ o.then \in {"decide", "exit"} /\ o.else \in {"decide", "exit"}
  ELSE o.at \notin {"leave", "decide", "exit"} /\ o.then \in {"over", "verify"} /\ o.else = "over"

\* Who may be under way together, and what is left when the process has ended.
Ended ==
  /\ lc = Fresh /\ oper = None /\ going = NoGoing /\ quitting = FALSE /\ exiting = FALSE
  /\ webview = Window /\ due = TRUE /\ poll = None /\ asker = None /\ facts = {}

LifeFits ==
  /\ mem = Down => Ended
  /\ oper # None <=> lc.active = TRUE
  /\ lc.quit = "exiting" => oper = None \/ oper.kind = "quit"
  /\ oper # None /\ oper.kind = "quit" => lc.quit = "exiting"
  /\ quitting = TRUE => lc.quit = "exiting" /\ oper = None
  /\ going.listen = "prepared" => lc.quit = "exiting" /\ oper = None /\ quitting = FALSE
  /\ Fact("restart") => lc.quit = "exiting"
  /\ webview.there = FALSE => webview.draft = FALSE /\ webview.asked = FALSE

\* A draft that was not given up is known, or was edited after the quit was granted.
Edited == Fact("late") \/ Fact("raced")
Excused == Edited \/ Fact("restart")
DraftFits ==
  webview.draft = TRUE =>
    /\ lc.dirty = FALSE => Excused
    /\ lc.quit \in {"waiting", "exiting"} => Excused
    /\ going.listen = "read" /\ going.dirty = FALSE /\ ~ Fact("restart") => Edited
    /\ going.listen = "prepared" /\ going.dirty = FALSE => Edited

\* A status on its way to the snapshot is current, or a poll is due that will correct it.
Telling == {"recheck", "show", "sour", "refresh"}
Pending == asker # None \/ (oper # None /\ oper.at \in Telling)
Current(v) == v \in {router, "error"}
Corrected ==
  ~ Fact("moved") =>
    /\ poll # None /\ poll.at = "answer" /\ poll.fresh = TRUE => Current(poll.val)
    /\ poll # None /\ poll.at = "apply" /\ due = FALSE /\ ~ Pending => Current(poll.val)
    /\ poll = None /\ due = FALSE /\ ~ Pending =>
         Current(shown.status) /\ (shown.release = "released" => shown.status = "absent")

OperFit == oper # None => OperFits(oper)

ShellInv ==
  /\ WorkInv /\ StatusTypes /\ LifeTypes
  /\ OperFit /\ LifeFits /\ DraftFits /\ UpdateSafe /\ Corrected

LEMMA OperIsThere ==
  /\ \A o \in Operation : o # None
  /\ \A p \in Polls : p # None
  /\ \A q \in Askers : q # None
  /\ \A o \in Operation, p \in OperPoints :
       /\ [o EXCEPT !.at = p] \in Operation
       /\ [o EXCEPT !.at = p].at = p /\ [o EXCEPT !.at = p].kind = o.kind
       /\ [o EXCEPT !.at = p].then = o.then /\ [o EXCEPT !.at = p].else = o.else
       /\ [o EXCEPT !.at = p].val = o.val /\ [o EXCEPT !.at = p].ok = o.ok
       /\ [o EXCEPT !.at = p].stopped = o.stopped
  /\ \A k \in OperKinds, p \in OperPoints :
       /\ NewOper(k, p) \in Operation /\ NewOper(k, p).kind = k /\ NewOper(k, p).at = p
       /\ NewOper(k, p).then = "over" /\ NewOper(k, p).else = "over" /\ NewOper(k, p).ok = FALSE
<1>1. /\ \A o \in Operation : o # None
      /\ \A p \in Polls : p # None
      /\ \A q \in Askers : q # None
  BY NoneAssumption
<1>2. \A o \in Operation, p \in OperPoints :
       /\ [o EXCEPT !.at = p] \in Operation
       /\ [o EXCEPT !.at = p].at = p /\ [o EXCEPT !.at = p].kind = o.kind
       /\ [o EXCEPT !.at = p].then = o.then /\ [o EXCEPT !.at = p].else = o.else
       /\ [o EXCEPT !.at = p].val = o.val /\ [o EXCEPT !.at = p].ok = o.ok
       /\ [o EXCEPT !.at = p].stopped = o.stopped
  BY DEF Operation
<1>3. "over" \in OperPoints /\ "none" \in Views
  BY DEF OperPoints, Views
<1>4. \A k \in OperKinds, p \in OperPoints :
       /\ NewOper(k, p) \in Operation /\ NewOper(k, p).kind = k /\ NewOper(k, p).at = p
       /\ NewOper(k, p).then = "over" /\ NewOper(k, p).else = "over" /\ NewOper(k, p).ok = FALSE
  BY <1>3 DEF Operation, NewOper
<1>5. QED
  BY <1>1, <1>2, <1>4

\* The parts of the snapshot.
LEMMA StatusParts ==
  ASSUME StatusTypes
  PROVE  /\ NoWatch \in Watches /\ Projection(watch) \in Releases /\ Projection(NoWatch) = "none"
         /\ Stale(poll) \in Polls \union {None}
         /\ Stale(poll) = None <=> poll = None
         /\ Stale(poll) # None => Stale(poll).at = poll.at /\ Stale(poll).val = poll.val
         /\ Stale(poll) # None /\ Stale(poll).at = "answer" => Stale(poll).fresh = FALSE
<1>1. NoWatch \in Watches /\ Projection(watch) \in Releases /\ Projection(NoWatch) = "none"
  BY DEF StatusTypes, NoWatch, Watches, Releases, Projection
<1>2. CASE poll = None
  BY <1>1, <1>2 DEF Stale
<1>3. CASE poll \in Polls
  <2>1. poll # None /\ poll.at \in {"answer", "apply"}
    BY <1>3, OperIsThere DEF Polls
  <2>2. CASE poll.at = "apply"
    BY <1>1, <1>3, <2>1, <2>2 DEF Stale
  <2>3. CASE poll.at = "answer"
    <3> DEFINE p == [poll EXCEPT !.fresh = FALSE]
    <3>1. Stale(poll) = p
      BY <2>1, <2>3 DEF Stale
    <3>2. p \in Polls /\ p.at = poll.at /\ p.val = poll.val /\ p.fresh = FALSE
      BY <1>3 DEF Polls
    <3>3. p # None
      BY <3>2, OperIsThere
    <3> HIDE DEF p
    <3>4. QED
      BY <1>1, <2>1, <3>1, <3>2, <3>3
  <2>4. QED
    BY <2>1, <2>2, <2>3
<1>4. QED
  BY <1>2, <1>3 DEF StatusTypes

LEMMA SetsStatus ==
  ASSUME StatusTypes, NEW s \in Routers \union {"error"}, SetStatus(s) \/ (s = "error" /\ SetError)
  PROVE  /\ shown' \in Status /\ watch' \in Watches
         /\ shown'.status = s /\ watch' \in {watch, NoWatch} /\ shown'.release = Projection(watch')
<1>1. CASE SetStatus(s)
  <2>1. watch' \in {watch, NoWatch} /\ watch' \in Watches
    BY <1>1, StatusParts DEF SetStatus, StatusTypes
  <2>2. Projection(watch') \in Releases
    BY <2>1, StatusParts DEF Releases
  <2>3. s \in Views
    BY DEF Views
  <2>4. QED
    BY <1>1, <2>1, <2>2, <2>3 DEF SetStatus, Status
<1>2. CASE s = "error" /\ SetError
  BY <1>2, StatusParts DEF SetError, Status, Views, Releases
<1>3. QED
  BY <1>1, <1>2

\* What a lifecycle operation takes note of, or forgets.
Told == {"moved", "halted", "back"}

\* A step of the lifecycle operation.
OperGoes ==
  /\ oper' \in Operation /\ (oper'.kind = "quit" <=> oper.kind = "quit") /\ OperFits(oper')
  /\ router' \in Routers /\ shown' \in Status /\ watch' \in Watches
  /\ poll' \in Polls \union {None} /\ due' \in BOOLEAN
  /\ facts' \subseteq Facts /\ facts' \ Told = facts \ Told
  /\ "halted" \in facts' => oper'.at = "install"
  /\ oper'.at = "install" => router' \notin Stoppable \/ "back" \in facts'
  /\ \/ due' = TRUE /\ poll' = Stale(poll)
     \/ /\ "moved" \in facts' <=> "moved" \in facts
        /\ due' = due /\ poll' \in {poll, Stale(poll)}
        /\ \/ oper'.at \in Telling /\ (poll' = Stale(poll) \/ router' = router)
           \/ oper.at \notin Telling /\ router' = router /\ shown' = shown

LEMMA OperateGoes ==
  ASSUME ShellInv, oper # None,
         \/ Look \/ StartBegin \/ StartAsk \/ Start \/ Recheck \/ StopBegin \/ StopRouter \/ Show
         \/ Sour \/ RefreshAfter \/ KillOccupant \/ WatchRelease \/ UpdateCheck \/ Preflight
         \/ Verify \/ Install \/ QuitAsk \/ QuitDecide
  PROVE  OperGoes
<1>0. /\ oper \in Operation /\ OperFits(oper) /\ StatusTypes /\ facts \subseteq Facts
      /\ oper.at # "install" => "halted" \notin facts
  BY DEF ShellInv, LifeTypes, OperFit, UpdateSafe, InOper, Fact
<1>a. /\ router \in Routers /\ shown \in Status /\ watch \in Watches /\ due \in BOOLEAN
      /\ poll \in Polls \union {None} /\ Stale(poll) \in Polls \union {None} /\ NoWatch \in Watches
      /\ [shown EXCEPT !.release = "none"] \in Status
  <2>1. [shown EXCEPT !.release = "none"] \in Status
    BY <1>0 DEF StatusTypes, Status, Releases
  <2>2. QED
    BY <1>0, <2>1, StatusParts DEF StatusTypes
<1>b. ASSUME NEW p \in OperPoints, oper' = [oper EXCEPT !.at = p]
      PROVE  /\ oper' \in Operation /\ oper'.at = p /\ oper'.kind = oper.kind
             /\ oper'.then = oper.then /\ oper'.else = oper.else
  BY <1>0, <1>b, OperIsThere
<1>c. /\ oper.at = "install" \/ "halted" \notin facts
      /\ facts \ Told = facts \ Told
  BY <1>0
<1>1. CASE Look
  <2>1. oper.at = "look" /\ oper.kind # "quit"
    BY <1>0, <1>1 DEF Look, InOper, OperFits
  <2>2. /\ oper' \in Operation /\ oper'.kind = oper.kind /\ oper'.then = oper.then
        /\ oper'.else = oper.else /\ oper'.at \in {"over", "begin", "show"}
    <3>1. CASE Goto("over")
      BY <1>b, <3>1 DEF Goto, OperPoints
    <3>2. CASE oper' = [oper EXCEPT !.at = IF router = "absent" THEN "begin" ELSE "show", !.val = router]
      <4> DEFINE p == IF router = "absent" THEN "begin" ELSE "show"
      <4>1. p \in {"begin", "show"} /\ router \in Views
        BY <1>a DEF Views
      <4> HIDE DEF p
      <4>2. QED
        BY <1>0, <3>2, <4>1 DEF p, Operation, OperPoints
    <3>3. QED
      BY <1>1, <3>1, <3>2 DEF Look
  <2>3. router' = router /\ shown' = shown /\ watch' = watch /\ due' = due /\ facts' = facts /\ poll' = Stale(poll)
    BY <1>1 DEF Look, Call
  <2>4. OperFits(oper')
    BY <1>0, <2>1, <2>2 DEF OperFits
  <2>5. QED
    BY <1>0, <1>a, <2>1, <2>2, <2>3, <2>4 DEF OperGoes, Telling
<1>2. CASE StartBegin \/ StopBegin \/ WatchRelease
  <2>1. oper.at \in {"begin", "halt", "watch"} /\ (oper.at # "halt" => oper.kind # "quit")
    BY <1>0, <1>2 DEF StartBegin, StopBegin, WatchRelease, InOper, OperFits
  <2>2. /\ oper' \in Operation /\ oper'.kind = oper.kind /\ oper'.then = oper.then
        /\ oper'.else = oper.else /\ oper'.at \in {"ask", "stop", "over"}
        /\ oper'.at = "stop" <=> oper.at = "halt"
    BY <1>2, <1>b, <2>1 DEF StartBegin, StopBegin, WatchRelease, InOper, Goto, OperPoints
  <2>3. router' = router /\ facts' = facts /\ due' = TRUE /\ poll' = Stale(poll)
    BY <1>2 DEF StartBegin, StopBegin, WatchRelease, Refresh
  <2>4. shown' \in Status /\ watch' \in Watches
    <3>1. [state |-> "observing", sure |-> FALSE, here |-> TRUE] \in Watches
      BY DEF Watches, Releases
    <3>2. QED
      BY <1>2, <1>a, <3>1 DEF StartBegin, StopBegin, WatchRelease
  <2>5. OperFits(oper')
    BY <1>0, <2>1, <2>2 DEF OperFits
  <2>6. QED
    BY <1>0, <1>a, <2>1, <2>2, <2>3, <2>4, <2>5 DEF OperGoes
<1>3. CASE StartAsk \/ UpdateCheck
  <2>1. oper.at \in {"ask", "check"} /\ oper.kind # "quit"
    BY <1>0, <1>3 DEF StartAsk, UpdateCheck, InOper, OperFits
  <2>2. /\ oper' \in Operation /\ oper'.kind = oper.kind /\ oper'.then = oper.then
        /\ oper'.else = oper.else /\ oper'.at \in {"start", "preflight", "over"}
    BY <1>3, <1>b DEF StartAsk, UpdateCheck, Goto, OperPoints
  <2>3. router' = router /\ shown' = shown /\ watch' = watch /\ due' = due /\ facts' = facts
        /\ poll' \in {poll, Stale(poll)}
    BY <1>3 DEF StartAsk, UpdateCheck, Call
  <2>4. OperFits(oper')
    BY <1>0, <2>1, <2>2 DEF OperFits
  <2>5. QED
    BY <1>0, <1>a, <2>1, <2>2, <2>3, <2>4 DEF OperGoes, Telling
<1>4. CASE Start
  <2>1. oper.at = "start" /\ oper.kind # "quit"
    BY <1>0, <1>4 DEF Start, InOper, OperFits
  <2>2. router' \in Routers
    BY <1>4, <1>a DEF Start, Routers
  <2>3. /\ oper' \in Operation /\ oper'.kind = oper.kind /\ oper'.then = oper.then
        /\ oper'.else = oper.else /\ oper'.at \in {"recheck", "show"}
    <3>1. CASE Goto("recheck")
      BY <1>b, <3>1 DEF Goto, OperPoints
    <3>2. CASE oper' = [oper EXCEPT !.at = "show", !.val = router', !.ok = TRUE]
      BY <1>0, <2>2, <3>2 DEF Operation, OperPoints, Views
    <3>3. QED
      BY <1>4, <3>1, <3>2 DEF Start
  <2>4. shown' = shown /\ watch' = watch /\ due' = due /\ facts' = facts /\ poll' = Stale(poll)
    BY <1>4 DEF Start, Call
  <2>5. OperFits(oper')
    BY <1>0, <2>1, <2>3 DEF OperFits
  <2>6. QED
    BY <1>0, <1>a, <2>1, <2>2, <2>3, <2>4, <2>5 DEF OperGoes, Telling
<1>5. CASE Recheck
  <2>1. oper.at = "recheck" /\ oper.kind # "quit"
    BY <1>0, <1>5 DEF Recheck, InOper, OperFits
  <2>2. /\ oper' \in Operation /\ oper'.kind = oper.kind /\ oper'.then = oper.then
        /\ oper'.else = oper.else /\ oper'.at \in {"sour", "show"}
    <3>1. CASE Goto("sour")
      BY <1>b, <3>1 DEF Goto, OperPoints
    <3>2. CASE oper' = [oper EXCEPT !.at = "show", !.val = router]
      BY <1>0, <1>a, <3>2 DEF Operation, OperPoints, Views
    <3>3. QED
      BY <1>5, <3>1, <3>2 DEF Recheck
  <2>3. router' = router /\ shown' = shown /\ watch' = watch /\ due' = due /\ facts' = facts /\ poll' = Stale(poll)
    BY <1>5 DEF Recheck, Call
  <2>4. OperFits(oper')
    BY <1>0, <2>1, <2>2 DEF OperFits
  <2>5. QED
    BY <1>0, <1>a, <2>1, <2>2, <2>3, <2>4 DEF OperGoes, Telling
<1>6. CASE StopRouter
  <2>1. oper.at = "stop"
    BY <1>6 DEF StopRouter, InOper
  <2> DEFINE after == IF router \in {"ours", "degraded", "legacy"} THEN "absent" ELSE router
  <2>2. after \in Routers
    BY <1>a DEF Routers
  <2>3. /\ oper' \in Operation /\ oper'.kind = oper.kind /\ oper'.then = oper.then
        /\ oper'.else = oper.else /\ oper'.at \in {"sour", "show"}
    <3>1. CASE Goto("sour")
      BY <1>b, <3>1 DEF Goto, OperPoints
    <3>2. CASE oper' = [oper EXCEPT !.at = "show", !.val = after, !.ok = TRUE]
      <4> HIDE DEF after
      <4>1. QED
        BY <1>0, <2>2, <3>2 DEF Operation, OperPoints, Views
    <3>3. QED
      BY <1>6, <3>1, <3>2 DEF StopRouter
  <2>4. shown' = shown /\ watch' = watch /\ due' = due /\ facts' = facts /\ poll' = Stale(poll)
        /\ router' \in Routers
    <3>1. router' \in {router, after}
      BY <1>6 DEF StopRouter
    <3> HIDE DEF after
    <3>2. QED
      BY <1>6, <1>a, <2>2, <3>1 DEF StopRouter, Call
  <2>5. OperFits(oper')
    BY <1>0, <2>1, <2>3 DEF OperFits
  <2>6. QED
    BY <1>0, <1>a, <2>1, <2>3, <2>4, <2>5 DEF OperGoes, Telling
<1>7. CASE Show \/ Sour
  <2>1. oper.at \in {"show", "sour"}
    BY <1>7 DEF Show, Sour, InOper
  <2>2. shown' \in Status /\ watch' \in Watches
    <3>1. CASE Sour
      BY <1>0, <3>1, SetsStatus DEF Sour
    <3>2. CASE Show
      BY <1>0, <1>a, <3>2, StatusParts DEF Show, SetStatus, Status, Operation, Projection, Watches, Releases
    <3>3. QED
      BY <1>7, <3>1, <3>2
  <2>3. /\ oper' \in Operation /\ oper'.kind = oper.kind /\ oper'.then = oper.then
        /\ oper'.else = oper.else /\ oper'.at = "refresh"
    <3>1. CASE Goto("refresh")
      BY <1>b, <3>1 DEF Goto, OperPoints
    <3>2. CASE oper' = [oper EXCEPT !.at = "refresh", !.ok = FALSE]
      BY <1>0, <3>2 DEF Operation, OperPoints
    <3>3. QED
      BY <1>7, <3>1, <3>2 DEF Show, Sour
  <2>4. router' = router /\ poll' = poll /\ due' = due /\ facts' = facts
    BY <1>7 DEF Show, Sour
  <2>5. OperFits(oper')
    BY <1>0, <2>1, <2>3 DEF OperFits
  <2>6. QED
    BY <1>0, <1>a, <2>1, <2>2, <2>3, <2>4, <2>5 DEF OperGoes, Telling
<1>8. CASE RefreshAfter
  <2>1. oper.at = "refresh"
    BY <1>8 DEF RefreshAfter, InOper
  <2>2. PICK p \in {oper.then, oper.else} : Goto(p)
    BY <1>8 DEF RefreshAfter
  <2>3. p \in OperPoints /\ p # "install"
    BY <1>0 DEF Operation, OperFits
  <2>4. /\ oper' \in Operation /\ oper'.kind = oper.kind /\ oper'.then = oper.then
        /\ oper'.else = oper.else /\ oper'.at = p
    BY <1>b, <2>2, <2>3 DEF Goto
  <2>5. router' = router /\ shown' = shown /\ watch' = watch /\ due' = TRUE /\ facts' = facts /\ poll' = Stale(poll)
    BY <1>8 DEF RefreshAfter, Refresh
  <2>6. OperFits(oper')
    BY <1>0, <2>4 DEF OperFits
  <2>7. QED
    BY <1>0, <1>a, <2>1, <2>3, <2>4, <2>5, <2>6 DEF OperGoes
<1>9. CASE KillOccupant
  <2>1. oper.at = "kill" /\ oper.kind # "quit"
    BY <1>0, <1>9 DEF KillOccupant, InOper, OperFits
  <2>2. /\ oper' \in Operation /\ oper'.kind = oper.kind /\ oper'.then = oper.then
        /\ oper'.else = oper.else /\ oper'.at \in {"over", "watch"}
    BY <1>9, <1>b DEF KillOccupant, Goto, OperPoints
  <2>3. router' \in Routers /\ shown' = shown /\ watch' = watch /\ due' = TRUE /\ poll' = Stale(poll)
        /\ facts' \in {facts, facts \union {"moved"}}
    BY <1>9, <1>a DEF KillOccupant, Refresh, Note, Routers
  <2>4. OperFits(oper')
    BY <1>0, <2>1, <2>2 DEF OperFits
  <2>5. facts' \subseteq Facts /\ facts' \ Told = facts \ Told /\ "halted" \notin facts'
    BY <1>0, <2>1, <2>3 DEF Facts, Told
  <2>6. QED
    BY <1>a, <2>2, <2>3, <2>4, <2>5 DEF OperGoes
<1>10. CASE Preflight
  <2>1. oper.at = "preflight" /\ oper.kind # "quit"
    BY <1>0, <1>10 DEF Preflight, InOper, OperFits
  <2>2. /\ oper' \in Operation /\ oper'.kind = oper.kind /\ oper'.then \in {oper.then, "verify"}
        /\ oper'.else = oper.else /\ oper'.at \in {"over", "install", "halt"}
        /\ oper'.at = "install" => router \in Replaceable
    <3>1. CASE Goto("over")
      BY <1>b, <3>1 DEF Goto, OperPoints
    <3>2. CASE router \in Replaceable /\ Goto("install")
      BY <1>b, <3>2 DEF Goto, OperPoints
    <3>3. CASE oper' = [oper EXCEPT !.at = "halt", !.then = "verify"]
      BY <1>0, <3>3 DEF Operation, OperPoints
    <3>4. QED
      BY <1>10, <3>1, <3>2, <3>3 DEF Preflight
  <2>3. router' = router /\ shown' = shown /\ watch' = watch /\ due' = due /\ facts' = facts /\ poll' = Stale(poll)
    BY <1>10 DEF Preflight, Call
  <2>4. OperFits(oper')
    BY <1>0, <2>1, <2>2 DEF OperFits
  <2>5. QED
    BY <1>0, <1>a, <2>1, <2>2, <2>3, <2>4 DEF OperGoes, Telling, Replaceable, Stoppable
<1>11. CASE Verify
  <2>1. oper.at = "verify" /\ oper.kind # "quit"
    BY <1>0, <1>11 DEF Verify, InOper, OperFits
  <2>2. /\ oper' \in Operation /\ oper'.kind = oper.kind /\ oper'.then = oper.then
        /\ oper'.else = oper.else /\ oper'.at \in {"over", "install"}
        /\ oper'.at = "install" => router \in Replaceable
        /\ oper'.at = "over" => facts' = facts
    <3>1. CASE oper' = [oper EXCEPT !.at = "over", !.ok = FALSE] /\ facts' = facts
      BY <1>0, <3>1 DEF Operation, OperPoints
    <3>2. CASE router \in Replaceable /\ oper' = [oper EXCEPT !.at = "install", !.ok = FALSE, !.stopped = TRUE]
      BY <1>0, <3>2 DEF Operation, OperPoints
    <3>3. QED
      BY <1>11, <3>1, <3>2 DEF Verify
  <2>3. router' = router /\ shown' = shown /\ watch' = watch /\ due' = due /\ poll' = Stale(poll)
        /\ facts' \in {facts, facts \union {"halted"}}
    BY <1>11 DEF Verify, Call, Note
  <2>4. OperFits(oper')
    BY <1>0, <2>1, <2>2 DEF OperFits
  <2>5. /\ facts' \subseteq Facts /\ facts' \ Told = facts \ Told
        /\ "moved" \in facts' <=> "moved" \in facts
        /\ "halted" \in facts' => oper'.at = "install"
    BY <1>0, <2>1, <2>2, <2>3 DEF Facts, Told
  <2>6. QED
    BY <1>a, <2>1, <2>2, <2>3, <2>4, <2>5 DEF OperGoes, Telling, Replaceable, Stoppable
<1>12. CASE Install
  <2>1. oper.at = "install" /\ oper.kind # "quit"
    BY <1>0, <1>12 DEF Install, InOper, OperFits
  <2>2. /\ oper' \in Operation /\ oper'.kind # "quit" /\ oper'.then \in {oper.then, "over"}
        /\ oper'.else = "over" /\ oper'.at \in {"over", "begin"}
    <3>0. oper.else = "over"
      BY <1>0, <2>1 DEF OperFits
    <3>1. CASE Goto("over")
      BY <1>b, <2>1, <3>0, <3>1 DEF Goto, OperPoints
    <3>2. CASE oper' = [oper EXCEPT !.at = "over", !.ok = TRUE]
      BY <1>0, <2>1, <3>0, <3>2 DEF Operation, OperPoints
    <3>3. CASE oper' = NewOper("start", "begin")
      BY <3>3, OperIsThere DEF OperKinds, OperPoints
    <3>4. QED
      BY <1>12, <3>1, <3>2, <3>3 DEF Install
  <2>3. router' = router /\ shown' = shown /\ watch' = watch /\ due' = due /\ poll' = poll
        /\ facts' = facts \ {"halted", "back"}
    BY <1>12 DEF Install
  <2>4. OperFits(oper')
    BY <1>0, <2>1, <2>2 DEF OperFits
  <2>5. /\ facts' \subseteq Facts /\ facts' \ Told = facts \ Told
        /\ "moved" \in facts' <=> "moved" \in facts
        /\ "halted" \notin facts'
    BY <1>0, <2>3 DEF Told
  <2>6. QED
    BY <1>a, <2>1, <2>2, <2>3, <2>4, <2>5 DEF OperGoes, Telling
<1>13. CASE QuitAsk
  <2>1. oper.at = "leave" /\ oper.kind = "quit"
    BY <1>0, <1>13 DEF QuitAsk, InOper, OperFits
  <2>2. /\ oper' \in Operation /\ oper'.kind = oper.kind /\ oper'.then = oper.then
        /\ oper'.else = oper.else /\ oper'.at \in {"exit", "show"}
    <3>1. CASE Goto("exit")
      BY <1>b, <3>1 DEF Goto, OperPoints
    <3>2. CASE oper' = [oper EXCEPT !.at = "show", !.val = router]
      BY <1>0, <1>a, <3>2 DEF Operation, OperPoints, Views
    <3>3. QED
      BY <1>13, <3>1, <3>2 DEF QuitAsk
  <2>3. router' = router /\ shown' = shown /\ watch' = watch /\ due' = due /\ facts' = facts /\ poll' = Stale(poll)
    BY <1>13 DEF QuitAsk, Call
  <2>4. OperFits(oper')
    BY <1>0, <2>1, <2>2 DEF OperFits
  <2>5. QED
    BY <1>0, <1>a, <2>1, <2>2, <2>3, <2>4 DEF OperGoes, Telling
<1>14. CASE QuitDecide
  <2>1. oper.at = "decide" /\ oper.kind = "quit"
    BY <1>0, <1>14 DEF QuitDecide, InOper, OperFits
  <2>2. /\ oper' \in Operation /\ oper'.kind = oper.kind /\ oper'.then = "exit"
        /\ oper'.else = "exit" /\ oper'.at \in {"exit", "halt"}
    BY <1>0, <1>14 DEF QuitDecide, Operation, OperPoints
  <2>3. router' = router /\ shown' = shown /\ watch' = watch /\ due' = due /\ facts' = facts /\ poll' = poll
    BY <1>14 DEF QuitDecide
  <2>4. OperFits(oper')
    BY <2>1, <2>2 DEF OperFits
  <2>5. QED
    BY <1>0, <1>a, <2>1, <2>2, <2>3, <2>4 DEF OperGoes, Telling
<1>15. QED
  BY <1>1, <1>2, <1>3, <1>4, <1>5, <1>6, <1>7, <1>8, <1>9, <1>10, <1>11, <1>12, <1>13, <1>14

LEMMA OperateKeeps ==
  ASSUME ShellInv, WorkInv', oper # None, OperGoes,
         UNCHANGED <<lc, going, quitting, exiting, webview, asker, play, workbench>>
  PROVE  ShellInv'
<1>0. StatusTypes /\ LifeTypes /\ LifeFits /\ DraftFits /\ Corrected
  BY DEF ShellInv
<1>1. StatusTypes' /\ LifeTypes'
  BY <1>0 DEF StatusTypes, LifeTypes, OperGoes
<1>2. oper' # None /\ OperFit'
  BY OperIsThere DEF OperGoes, OperFit
<1>3. /\ Fact("late")' <=> Fact("late")
      /\ Fact("raced")' <=> Fact("raced")
      /\ Fact("restart")' <=> Fact("restart")
  BY DEF OperGoes, Fact, Told
<1>4. mem' = mem /\ mem # Down
  BY <1>0 DEF workbench, LifeFits, Ended
<1>5. LifeFits'
  BY <1>0, <1>2, <1>3, <1>4 DEF LifeFits, OperGoes
<1>6. DraftFits'
  BY <1>0, <1>3 DEF DraftFits, Excused, Edited
<1>7. UpdateSafe'
  BY <1>2 DEF UpdateSafe, InOper, Fact, OperGoes
<1>8. Corrected'
  <2>1. /\ Stale(poll) = None <=> poll = None
        /\ Stale(poll) # None => Stale(poll).at = poll.at /\ Stale(poll).val = poll.val
        /\ Stale(poll) # None /\ Stale(poll).at = "answer" => Stale(poll).fresh = FALSE
    BY <1>0, StatusParts
  <2>2. CASE due' = TRUE /\ poll' = Stale(poll)
    BY <2>1, <2>2 DEF Corrected
  <2>3. CASE /\ "moved" \in facts' <=> "moved" \in facts
             /\ due' = due /\ poll' \in {poll, Stale(poll)}
             /\ oper'.at \in Telling /\ (poll' = Stale(poll) \/ router' = router)
    <3>1. Pending'
      BY <1>2, <2>3 DEF Pending
    <3>2. QED
      BY <1>0, <2>1, <2>3, <3>1 DEF Corrected, Current, Fact
  <2>4. CASE /\ "moved" \in facts' <=> "moved" \in facts
             /\ due' = due /\ poll' \in {poll, Stale(poll)}
             /\ oper.at \notin Telling /\ router' = router /\ shown' = shown
    <3>1. Pending => Pending'
      BY <2>4 DEF Pending
    <3>2. QED
      BY <1>0, <2>1, <2>4, <3>1 DEF Corrected, Current, Fact
  <2>5. QED
    BY <2>2, <2>3, <2>4 DEF OperGoes
<1>9. QED
  BY <1>1, <1>2, <1>5, <1>6, <1>7, <1>8 DEF ShellInv

\* A step that leaves the lifecycle and the page alone.
LEMMA WatchKeeps ==
  ASSUME ShellInv, WorkInv', Watch
  PROVE  ShellInv'
<1>0. StatusTypes /\ LifeTypes /\ LifeFits /\ DraftFits /\ Corrected /\ OperFit /\ UpdateSafe
  BY DEF ShellInv
<1>1. mem' = mem /\ UNCHANGED life
  BY DEF Watch, PollStart, PollAnswer, PollApply, AskStatus, AnswerStatus, Move, workbench
<1>2. mem # Down
  BY <1>0, OperIsThere DEF Watch, PollStart, PollAnswer, PollApply, AskStatus, AnswerStatus, Move, Up,
                           LifeFits, Ended
<1>3. /\ facts' \ {"moved", "back"} = facts \ {"moved", "back"} /\ facts' \subseteq Facts
      /\ play' \in Plays /\ (Fact("back") => Fact("back")')
  <2>1. facts' \in {facts, facts \ {"moved"}, facts \union {"moved"}, facts \union {"moved", "back"}}
    BY DEF Watch, PollStart, PollAnswer, PollApply, AskStatus, AnswerStatus, Move, Note
  <2>2. play' = play \/ Use("polls") \/ Use("moves")
    BY DEF Watch, PollStart, PollAnswer, PollApply, AskStatus, AnswerStatus, Move
  <2>3. play' \in Plays
    BY <1>0, <2>2 DEF LifeTypes, Use, Plays
  <2>4. QED
    BY <1>0, <2>1, <2>3 DEF LifeTypes, Facts, Fact
<1>4. /\ Fact("late")' <=> Fact("late")
      /\ Fact("raced")' <=> Fact("raced")
      /\ Fact("restart")' <=> Fact("restart")
      /\ Fact("halted")' <=> Fact("halted")
  BY <1>3 DEF Fact
<1>5. LifeTypes' /\ OperFit' /\ LifeFits' /\ DraftFits'
  BY <1>0, <1>1, <1>2, <1>3, <1>4 DEF LifeTypes, OperFit, LifeFits, DraftFits, Excused, Edited, life
<1>6. ASSUME StatusTypes', Corrected', router' = router \/ (InOper("install") => Fact("back")')
      PROVE  ShellInv'
  <2>1. UpdateSafe'
    BY <1>0, <1>1, <1>3, <1>4, <1>6 DEF UpdateSafe, InOper, life
  <2>2. QED
    BY <1>5, <1>6, <2>1 DEF ShellInv
<1>7. CASE PollStart
  <2>1. router' = router /\ asker' = asker /\ due' = FALSE /\ oper' = oper
    BY <1>1, <1>7 DEF PollStart, life
  <2>2. PICK v \in {router, "error"} : poll' = [val |-> v, fresh |-> TRUE, at |-> "answer"]
    BY <1>7 DEF PollStart
  <2>3. poll' \in Polls /\ poll' # None /\ poll'.at = "answer" /\ poll'.val = v
    BY <1>0, <2>2, OperIsThere DEF Polls, Views, StatusTypes
  <2>4. shown' \in Status /\ watch' \in Watches
    BY <1>0, <1>7, StatusParts DEF PollStart, StatusTypes, Status, Releases
  <2>5. StatusTypes'
    BY <1>0, <2>1, <2>3, <2>4 DEF StatusTypes
  <2>6. Corrected'
    BY <2>1, <2>3 DEF Corrected, Current
  <2>7. QED
    BY <1>6, <2>1, <2>5, <2>6
<1>8. CASE PollAnswer
  <2>1. /\ router' = router /\ asker' = asker /\ shown' = shown /\ watch' = watch /\ facts' = facts
        /\ poll \in Polls /\ poll # None /\ poll.at = "answer" /\ oper' = oper
    BY <1>0, <1>1, <1>8 DEF PollAnswer, StatusTypes, life
  <2>2. CASE poll.fresh = TRUE /\ poll' = [poll EXCEPT !.at = "apply"] /\ due' = due
    <3>1. poll' \in Polls /\ poll' # None /\ poll'.at = "apply" /\ poll'.val = poll.val
      BY <2>1, <2>2, OperIsThere DEF Polls
    <3>2. StatusTypes'
      BY <1>0, <2>1, <2>2, <3>1 DEF StatusTypes
    <3>3. Corrected'
      BY <1>0, <2>1, <2>2, <3>1 DEF Corrected, Current, Fact
    <3>4. QED
      BY <1>6, <2>1, <3>2, <3>3
  <2>3. CASE poll' = None /\ due' = TRUE
    <3>1. StatusTypes' /\ Corrected'
      BY <1>0, <2>1, <2>3 DEF StatusTypes, Corrected
    <3>2. QED
      BY <1>6, <2>1, <3>1
  <2>4. QED
    BY <1>8, <2>1, <2>2, <2>3 DEF PollAnswer, Polls
<1>9. CASE PollApply
  <2>1. /\ router' = router /\ asker' = asker /\ facts' = facts /\ poll' = None /\ due' = due /\ oper' = oper
        /\ poll \in Polls /\ poll # None /\ poll.at = "apply" /\ poll.val \in Views
    BY <1>0, <1>1, <1>9 DEF PollApply, StatusTypes, life, Polls
  <2>2. /\ shown' \in Status /\ watch' \in Watches /\ shown'.status = poll.val
        /\ shown'.release = "released" => shown'.status = "absent"
    <3>1. CASE poll.val = "error" /\ SetError
      BY <3>1, StatusParts, <1>0 DEF SetError, Status, Views, Releases
    <3>2. CASE watch' \in Observe(poll.val) /\ shown' = [status |-> poll.val, release |-> Projection(watch')]
      <4>1. /\ watch' \in Watches
            /\ watch'.state = "released" /\ watch'.sure = TRUE => poll.val = "absent"
        <5>0. watch \in Watches /\ NoWatch \in Watches /\ NoWatch.state = "none"
          BY <1>0, StatusParts DEF StatusTypes, NoWatch
        <5>1. CASE watch.state = "none" \/ ~ watch.here \/ poll.val \notin {"absent", "unknown"}
          BY <3>2, <5>0, <5>1 DEF Observe
        <5>2. CASE /\ ~ (watch.state = "none" \/ ~ watch.here \/ poll.val \notin {"absent", "unknown"})
                   /\ poll.val = "unknown"
          <6>1. watch' = [watch EXCEPT !.state = "reoccupied", !.sure = TRUE]
            BY <3>2, <5>2 DEF Observe
          <6>2. QED
            BY <5>0, <6>1 DEF Watches, Releases
        <5>3. CASE /\ ~ (watch.state = "none" \/ ~ watch.here \/ poll.val \notin {"absent", "unknown"})
                   /\ poll.val # "unknown"
          <6>1. PICK t \in {watch.state, "released"} : watch' = [watch EXCEPT !.sure = TRUE, !.state = t]
            BY <3>2, <5>3 DEF Observe
          <6>2. t \in Releases
            BY <5>0 DEF Watches, Releases
          <6>3. QED
            BY <5>0, <5>3, <6>1, <6>2 DEF Watches
        <5>4. QED
          BY <5>1, <5>2, <5>3
      <4>2. Projection(watch') \in Releases
            /\ (Projection(watch') = "released" => watch'.state = "released" /\ watch'.sure = TRUE)
        BY <4>1 DEF Projection, Watches, Releases
      <4>3. QED
        BY <2>1, <3>2, <4>1, <4>2 DEF Status
    <3>3. QED
      BY <1>9, <3>1, <3>2 DEF PollApply
  <2>3. StatusTypes'
    BY <1>0, <2>1, <2>2 DEF StatusTypes
  <2>4. Pending' <=> Pending
    BY <2>1 DEF Pending
  <2>5. Corrected'
    BY <1>0, <2>1, <2>2, <2>4 DEF Corrected, Current, Fact
  <2>6. QED
    BY <1>6, <2>1, <2>3, <2>5
<1>10. CASE AskStatus
  <2>1. /\ router' = router /\ shown' = shown /\ watch' = watch /\ due' = due /\ facts' = facts
        /\ poll' = Stale(poll) /\ asker' = [val |-> router, at |-> "show"]
    BY <1>10 DEF AskStatus, Call
  <2>2. asker' \in Askers /\ asker' # None
    <3>1. asker' \in Askers
      BY <1>0, <2>1 DEF Askers, Views, StatusTypes
    <3>2. QED
      BY <3>1, OperIsThere
  <2>3. StatusTypes'
    BY <1>0, <2>1, <2>2, StatusParts DEF StatusTypes
  <2>4. Corrected'
    <3>1. Pending'
      BY <2>2 DEF Pending
    <3>2. QED
      BY <1>0, <2>1, <3>1, StatusParts DEF Corrected
  <2>5. QED
    BY <1>6, <2>1, <2>3, <2>4
<1>11. CASE AnswerStatus
  <2>1. router' = router /\ facts' = facts /\ asker \in Askers /\ asker # None
    BY <1>0, <1>11 DEF AnswerStatus, StatusTypes
  <2>2. CASE SetStatus(asker.val) /\ asker' = [asker EXCEPT !.at = "refresh"] /\ UNCHANGED <<poll, due>>
    <3>1. asker' \in Askers /\ asker' # None
      BY <2>1, <2>2, OperIsThere DEF Askers
    <3>2. shown' \in Status /\ watch' \in Watches
      BY <1>0, <2>1, <2>2, StatusParts DEF SetStatus, Status, Askers, Projection, Watches, Releases, StatusTypes
    <3>3. StatusTypes'
      BY <1>0, <2>1, <2>2, <3>1, <3>2 DEF StatusTypes
    <3>4. Pending'
      BY <3>1 DEF Pending
    <3>5. Corrected'
      BY <1>0, <2>1, <2>2, <3>4 DEF Corrected, Current, Fact
    <3>6. QED
      BY <1>6, <2>1, <3>3, <3>5
  <2>3. CASE Refresh /\ asker' = None /\ UNCHANGED <<shown, watch>>
    <3>1. StatusTypes'
      BY <1>0, <2>1, <2>3, StatusParts DEF StatusTypes, Refresh
    <3>2. Corrected'
      BY <1>0, <2>3, StatusParts DEF Corrected, Refresh
    <3>3. QED
      BY <1>6, <2>1, <3>1, <3>2
  <2>4. QED
    BY <1>11, <2>2, <2>3 DEF AnswerStatus
<1>12. CASE Move
  <2>1. Fact("moved")' /\ shown' = shown /\ poll' = poll /\ asker' = asker /\ due' = due
    BY <1>12 DEF Move, Note, Fact
  <2>2. Corrected'
    BY <2>1 DEF Corrected
  <2>3. CASE router' \in Moves(router) /\ watch' = watch
    <3>1. router' \in Routers
      BY <1>0, <2>3 DEF Moves, Routers, StatusTypes
    <3>4. router' = router \/ (InOper("install") => Fact("back")')
      BY <1>12 DEF Move, Note, Fact
    <3>2. StatusTypes'
      BY <1>0, <2>1, <2>3, <3>1 DEF StatusTypes
    <3>3. QED
      BY <1>6, <2>2, <3>2, <3>4
  <2>4. CASE watch' = [watch EXCEPT !.here = FALSE] /\ router' = router
    <3>1. StatusTypes'
      BY <1>0, <2>1, <2>4 DEF StatusTypes, Watches
    <3>2. QED
      BY <1>6, <2>2, <2>4, <3>1
  <2>5. QED
    BY <1>12, <2>3, <2>4 DEF Move
<1>13. QED
  BY <1>7, <1>8, <1>9, <1>10, <1>11, <1>12 DEF Watch

\* A step of the lifecycle, the quit or the page: the status is left alone.
LEMMA LifeKeeps ==
  ASSUME ShellInv, WorkInv', mem # Down, mem' # Down, UNCHANGED status,
         LifeTypes', OperFit', LifeFits', DraftFits',
         Fact("moved")' <=> Fact("moved"),
         Fact("halted")' => Fact("halted"), Fact("back") => Fact("back")',
         InOper("install")' <=> InOper("install"),
         oper # None /\ oper.at \in Telling => oper' # None /\ oper'.at \in Telling
  PROVE  ShellInv'
<1>1. /\ router' = router /\ shown' = shown /\ watch' = watch /\ poll' = poll /\ asker' = asker
      /\ due' = due
  BY DEF status
<1>2. StatusTypes'
  BY <1>1 DEF ShellInv, StatusTypes
<1>3. UpdateSafe'
  BY <1>1 DEF ShellInv, UpdateSafe
<1>4. Pending => Pending'
  BY <1>1 DEF Pending
<1>5. Corrected'
  BY <1>1, <1>4 DEF ShellInv, Corrected, Current
<1>6. QED
  BY <1>2, <1>3, <1>5 DEF ShellInv

LEMMA Uses ==
  ASSUME play \in Plays, NEW what \in {"starts", "commands", "updates", "listens", "drafts", "quits",
                                       "moves", "polls"}, Use(what)
  PROVE  play' \in Plays /\ play'.windows = play.windows
BY DEF Use, Plays

LEMMA BeginKeepsShell ==
  ASSUME ShellInv, WorkInv', BeginCommand
  PROVE  ShellInv'
<1>0. LifeTypes /\ LifeFits /\ DraftFits
  BY DEF ShellInv
<1>1. PICK kind \in {"start", "stop", "force", "update"}, at \in {"begin", "halt", "kill", "check"} :
        Begin(kind, at)
  BY DEF BeginCommand
<1>2. /\ mem # Down /\ mem' = mem /\ lc.quit = "idle" /\ lc.active # TRUE /\ oper = None
      /\ lc' = [lc EXCEPT !.active = TRUE] /\ oper' = NewOper(kind, at)
  BY <1>0, <1>1 DEF Begin, Up, MayBegin, LifeFits, BeginCommand, workbench
<1>3. /\ oper' \in Operation /\ oper' # None /\ oper'.kind = kind /\ oper'.at = at
      /\ oper'.then = "over" /\ oper'.else = "over"
  <2>1. kind \in OperKinds /\ at \in OperPoints
    BY DEF OperKinds, OperPoints
  <2>2. QED
    BY <1>2, <2>1, OperIsThere
<1>4. lc' \in Lives /\ lc'.active = TRUE /\ lc'.dirty = lc.dirty /\ lc'.quit = lc.quit
  BY <1>0, <1>2 DEF LifeTypes, Lives
<1>5. going' = going /\ quitting' = quitting /\ exiting' = exiting /\ webview' = webview /\ facts' = facts
      /\ play' \in Plays /\ UNCHANGED status
  BY <1>0, Uses DEF BeginCommand, LifeTypes
<1>6. LifeTypes' /\ OperFit'
  BY <1>0, <1>3, <1>4, <1>5 DEF LifeTypes, OperFit, OperFits
<1>7. LifeFits' /\ DraftFits'
  BY <1>0, <1>2, <1>3, <1>4, <1>5 DEF LifeFits, DraftFits, Excused, Edited, Fact
<1>8. QED
  BY <1>2, <1>3, <1>5, <1>6, <1>7, LifeKeeps DEF InOper, Fact

LEMMA FinishKeeps ==
  ASSUME ShellInv, WorkInv', FinishOperation
  PROVE  ShellInv'
<1>0. LifeTypes /\ LifeFits /\ DraftFits /\ OperFit
  BY DEF ShellInv
<1>1. oper # None /\ oper.at = "over" /\ oper' = None /\ mem' = mem /\ mem # Down
  BY <1>0 DEF FinishOperation, InOper, workbench, LifeFits, Ended
<1>2. oper.kind # "quit"
  BY <1>0, <1>1 DEF OperFit, OperFits
<1>3. lc.quit # "exiting" /\ lc \in Lives
  BY <1>0, <1>1, <1>2 DEF LifeFits, LifeTypes
<1> DEFINE waits == lc.quit = "waiting"
           quit == IF waits THEN "exiting" ELSE lc.quit
<1>4. quit \in {"idle", "awaiting", "exiting"} /\ (quit = "exiting" <=> lc.quit = "waiting")
  BY <1>3 DEF Lives
<1>5. lc' = [lc EXCEPT !.active = FALSE, !.quit = quit]
  BY DEF FinishOperation
<1>6. quitting' \in BOOLEAN /\ (quitting' = TRUE <=> quitting = TRUE \/ lc.quit = "waiting")
  BY <1>0 DEF FinishOperation, LifeTypes
<1>7. going' \in Goings /\ going'.listen = going.listen /\ going'.dirty = going.dirty
  BY <1>0 DEF FinishOperation, LifeTypes, Goings
<1> HIDE DEF quit
<1>8. lc' \in Lives /\ lc'.active = FALSE /\ lc'.quit = quit /\ lc'.dirty = lc.dirty
  BY <1>3, <1>4, <1>5 DEF Lives
<1>9. exiting' = exiting /\ webview' = webview /\ facts' = facts /\ play' = play /\ UNCHANGED status
  BY DEF FinishOperation
<1>10. LifeTypes' /\ OperFit'
  BY <1>0, <1>1, <1>6, <1>7, <1>8, <1>9 DEF LifeTypes, OperFit
<1>11. LifeFits'
  BY <1>0, <1>1, <1>3, <1>4, <1>6, <1>7, <1>8, <1>9 DEF LifeFits, Fact
<1>12. DraftFits'
  BY <1>0, <1>4, <1>7, <1>8, <1>9 DEF DraftFits, Excused, Edited, Fact
<1>13. QED
  BY <1>1, <1>9, <1>10, <1>11, <1>12, LifeKeeps DEF InOper, Fact, Telling

\* A change of the quit, the draft or the page only.
LEMMA QuitKeeps ==
  ASSUME ShellInv, WorkInv', mem # Down, mem' # Down, UNCHANGED <<status, oper, going>>,
         lc' \in Lives, lc'.active = lc.active, quitting' \in BOOLEAN, exiting' \in BOOLEAN,
         webview' \in Pages, play' \in Plays, facts' \subseteq Facts,
         Fact("moved")' <=> Fact("moved"), Fact("halted")' <=> Fact("halted"),
         Fact("back")' <=> Fact("back"),
         Fact("restart")' <=> Fact("restart"),
         webview'.there = FALSE => webview'.draft = FALSE /\ webview'.asked = FALSE,
         \/ lc'.quit = lc.quit /\ quitting' = quitting
         \/ /\ lc.quit \in {"idle", "awaiting"} /\ lc'.quit \in {"idle", "awaiting"}
            /\ quitting' = quitting
         \/ /\ lc.quit \in {"idle", "awaiting"}
            /\ lc'.quit = (IF oper = None THEN "exiting" ELSE "waiting")
            /\ quitting' = TRUE <=> oper = None,
         DraftFits'
  PROVE  ShellInv'
<1>0. LifeTypes /\ LifeFits /\ OperFit
  BY DEF ShellInv
<1>1. LifeTypes' /\ OperFit'
  BY <1>0 DEF LifeTypes, OperFit
<1>2. LifeFits'
  BY <1>0 DEF LifeFits
<1>3. QED
  BY <1>1, <1>2, LifeKeeps DEF InOper

\* Leave: the quit waits for the operation, or is executed.
LEMMA LeaveKeeps ==
  ASSUME ShellInv, WorkInv', mem # Down, mem' # Down, UNCHANGED <<status, oper, going, facts>>,
         exiting' \in BOOLEAN, play' \in Plays, webview' \in Pages,
         NEW dirty \in BOOLEAN, Leave(dirty), lc.quit \in {"idle", "awaiting"},
         webview'.there = FALSE => webview'.draft = FALSE /\ webview'.asked = FALSE,
         webview'.draft = TRUE => Excused
  PROVE  ShellInv'
<1>0. LifeTypes /\ LifeFits
  BY DEF ShellInv
<1> DEFINE quit == IF lc.active THEN "waiting" ELSE "exiting"
<1>1. lc' = [lc EXCEPT !.dirty = dirty, !.quit = quit] /\ quitting' = ~ lc.active
  BY DEF Leave
<1>2. lc \in Lives /\ lc.active \in BOOLEAN
  BY <1>0 DEF LifeTypes, Lives
<1>3. quit = (IF oper = None THEN "exiting" ELSE "waiting")
  BY <1>0, <1>2 DEF LifeFits
<1>4. quitting' \in BOOLEAN /\ (quitting' = TRUE <=> oper = None)
  BY <1>0, <1>1, <1>2 DEF LifeFits
<1> HIDE DEF quit
<1>5. lc' \in Lives /\ lc'.active = lc.active /\ lc'.dirty = dirty /\ lc'.quit = quit
  BY <1>1, <1>2, <1>3 DEF Lives
<1>6. going.listen # "prepared" /\ ~ Fact("restart")
  BY <1>0 DEF LifeFits
<1>7. DraftFits'
  BY <1>6 DEF DraftFits, Excused, Edited, Fact
<1>8. facts' \subseteq Facts
  BY <1>0 DEF LifeTypes
<1>9. QED
  BY <1>3, <1>4, <1>5, <1>7, <1>8, QuitKeeps DEF Fact

LEMMA RequestKeeps ==
  ASSUME ShellInv, WorkInv', mem # Down, mem' # Down, UNCHANGED <<status, oper, going, facts>>,
         exiting' \in BOOLEAN, play' \in Plays, RequestQuit
  PROVE  ShellInv'
<1>0. LifeTypes /\ LifeFits /\ DraftFits /\ lc \in Lives /\ webview \in Pages
  BY DEF ShellInv, LifeTypes
<1> DEFINE quit == IF ~ webview.there /\ lc.quit = "awaiting" THEN "idle" ELSE lc.quit
           dirty == lc.dirty /\ webview.there
<1>1. /\ quit = "awaiting" => lc.quit = "awaiting" /\ webview.there = TRUE
      /\ quit = "idle" => lc.quit \in {"idle", "awaiting"}
      /\ quit \in {"waiting", "exiting"} => lc.quit = quit
  BY <1>0 DEF Lives, Pages
<1>2. /\ dirty \in BOOLEAN /\ (dirty = TRUE => webview.there = TRUE)
      /\ webview.draft = TRUE => webview.there = TRUE
      /\ webview.there = TRUE => dirty = lc.dirty
  BY <1>0 DEF Lives, Pages, LifeFits
<1>3. /\ webview.there = FALSE => webview.draft = FALSE /\ webview.asked = FALSE
      /\ facts' \subseteq Facts /\ facts' = facts /\ quitting \in BOOLEAN /\ going' = going
  BY <1>0 DEF LifeFits, LifeTypes
<1>4. CASE /\ quit \in {"waiting", "exiting"}
           /\ lc' = [lc EXCEPT !.dirty = dirty]
           /\ UNCHANGED <<webview, quitting>>
  <2>1. lc.quit = quit
    BY <1>1, <1>4
  <2> HIDE DEF quit, dirty
  <2>2. lc' \in Lives /\ lc'.active = lc.active /\ lc'.quit = lc.quit /\ lc'.dirty = dirty
    BY <1>0, <1>2, <1>4 DEF Lives
  <2>3. DraftFits'
    BY <1>0, <1>2, <1>3, <1>4, <2>2 DEF DraftFits, Excused, Edited, Fact
  <2>4. QED
    BY <1>0, <1>3, <1>4, <2>2, <2>3, QuitKeeps DEF Fact
<1>5. CASE /\ quit = "awaiting" \/ (quit = "idle" /\ dirty)
           /\ \/ lc' = [lc EXCEPT !.quit = "awaiting"] /\ webview' = [webview EXCEPT !.asked = TRUE]
              \/ lc' = [lc EXCEPT !.quit = "idle"] /\ UNCHANGED webview
           /\ UNCHANGED quitting
  <2>1. lc.quit \in {"idle", "awaiting"} /\ webview.there = TRUE
    BY <1>1, <1>2, <1>5
  <2> HIDE DEF quit, dirty
  <2>2. /\ lc' \in Lives /\ lc'.active = lc.active /\ lc'.quit \in {"idle", "awaiting"}
        /\ lc'.dirty = lc.dirty
    BY <1>0, <1>5 DEF Lives
  <2>3. webview' \in Pages /\ webview'.there = TRUE /\ webview'.draft = webview.draft
    BY <1>0, <1>5, <2>1 DEF Pages
  <2>4. DraftFits'
    BY <1>0, <1>3, <2>2, <2>3 DEF DraftFits, Excused, Edited, Fact
  <2>5. QED
    BY <1>3, <1>5, <2>1, <2>2, <2>3, <2>4, QuitKeeps DEF Fact
<1>6. CASE quit = "idle" /\ ~ dirty /\ Leave(dirty) /\ UNCHANGED webview
  <2>1. lc.quit \in {"idle", "awaiting"}
    BY <1>1, <1>6
  <2>2. webview.draft = TRUE => lc.dirty = FALSE
    BY <1>0, <1>2, <1>6 DEF Lives
  <2>3. webview'.draft = TRUE => Excused
    BY <1>0, <1>6, <2>2 DEF DraftFits
  <2>4. Leave(dirty) /\ dirty \in BOOLEAN
    BY <1>2, <1>6
  <2> HIDE DEF quit, dirty
  <2>5. QED
    BY <1>0, <1>3, <1>6, <2>1, <2>3, <2>4, LeaveKeeps
<1>7. QED
  BY <1>4, <1>5, <1>6 DEF RequestQuit

LEMMA ResolveKeeps ==
  ASSUME ShellInv, WorkInv', ResolveQuit
  PROVE  ShellInv'
<1>0. LifeTypes /\ LifeFits /\ DraftFits /\ lc \in Lives /\ webview \in Pages
  BY DEF ShellInv, LifeTypes
<1>1. webview.asked = TRUE /\ mem' = mem /\ mem # Down /\ webview.there = TRUE
  <2>1. webview.asked = TRUE /\ mem' = mem
    BY <1>0 DEF ResolveQuit, Pages, workbench
  <2>2. QED
    BY <1>0, <2>1 DEF LifeFits, Ended, Window, Pages
<1>2. /\ facts' \subseteq Facts /\ facts' = facts /\ quitting \in BOOLEAN /\ going' = going /\ oper' = oper
      /\ exiting' \in BOOLEAN /\ play' \in Plays /\ UNCHANGED status
  BY <1>0 DEF LifeTypes, ResolveQuit
<1>3. CASE /\ webview' = [webview EXCEPT !.asked = FALSE]
           /\ lc' = [lc EXCEPT !.quit = IF @ = "awaiting" THEN "idle" ELSE @]
           /\ UNCHANGED quitting
  <2> DEFINE quit == IF lc.quit = "awaiting" THEN "idle" ELSE lc.quit
  <2>1. quit = lc.quit \/ (lc.quit = "awaiting" /\ quit = "idle")
    OBVIOUS
  <2>2. lc' = [lc EXCEPT !.quit = quit]
    BY <1>3
  <2> HIDE DEF quit
  <2>3. lc' \in Lives /\ lc'.active = lc.active /\ lc'.quit = quit /\ lc'.dirty = lc.dirty
    BY <1>0, <2>1, <2>2 DEF Lives
  <2>4. webview' \in Pages /\ webview'.there = TRUE /\ webview'.draft = webview.draft
    BY <1>0, <1>1, <1>3 DEF Pages
  <2>5. DraftFits'
    BY <1>0, <1>2, <2>1, <2>3, <2>4 DEF DraftFits, Excused, Edited, Fact
  <2>6. QED
    BY <1>1, <1>2, <1>3, <2>1, <2>3, <2>4, <2>5, QuitKeeps DEF Fact
<1>4. CASE /\ webview' = [webview EXCEPT !.asked = FALSE, !.draft = FALSE]
           /\ IF lc.quit = "awaiting" THEN Leave(lc.dirty) ELSE UNCHANGED <<lc, quitting>>
  <2>1. webview' \in Pages /\ webview'.there = TRUE /\ webview'.draft = FALSE
    BY <1>0, <1>1, <1>4 DEF Pages
  <2>2. CASE lc.quit = "awaiting" /\ Leave(lc.dirty)
    <3>1. lc.dirty \in BOOLEAN
      BY <1>0 DEF Lives
    <3>2. QED
      BY <1>1, <1>2, <2>1, <2>2, <3>1, LeaveKeeps
  <2>3. CASE lc.quit # "awaiting" /\ UNCHANGED <<lc, quitting>>
    <3>1. DraftFits'
      BY <2>1 DEF DraftFits
    <3>2. QED
      BY <1>0, <1>1, <1>2, <2>1, <2>3, <3>1, QuitKeeps DEF Fact
  <2>4. QED
    BY <1>4, <2>2, <2>3
<1>5. QED
  BY <1>3, <1>4 DEF ResolveQuit

LEMMA EditKeeps ==
  ASSUME ShellInv, WorkInv', EditDraft \/ WindowGone
  PROVE  ShellInv'
<1>0. LifeTypes /\ LifeFits /\ DraftFits /\ lc \in Lives /\ webview \in Pages
  BY DEF ShellInv, LifeTypes
<1>1. mem' = mem /\ mem # Down /\ webview.there = TRUE
  BY <1>0 DEF EditDraft, WindowGone, Up, workbench, Pages
<1>2. /\ quitting' = quitting /\ quitting \in BOOLEAN /\ going' = going /\ oper' = oper
      /\ exiting' \in BOOLEAN /\ play' \in Plays /\ UNCHANGED status
  BY <1>0, Uses DEF LifeTypes, EditDraft, WindowGone
<1>3. CASE WindowGone
  <2>1. webview' \in Pages /\ webview'.draft = FALSE /\ webview'.asked = FALSE /\ facts' = facts /\ lc' = lc
    BY <1>3 DEF WindowGone, Pages
  <2>2. DraftFits' /\ facts' \subseteq Facts
    BY <1>0, <2>1 DEF DraftFits, LifeTypes
  <2>3. QED
    BY <1>0, <1>1, <1>2, <2>1, <2>2, QuitKeeps DEF Fact
<1>4. CASE EditDraft
  <2> DEFINE draft == ~ webview.draft
             late == IF draft /\ lc.quit \in {"waiting", "exiting"} THEN {"late"} ELSE {}
             raced == IF draft /\ going.listen = "read" THEN {"raced"} ELSE {}
  <2>1. draft \in BOOLEAN
    OBVIOUS
  <2>2. webview' = [webview EXCEPT !.draft = draft] /\ lc' = [lc EXCEPT !.dirty = draft]
        /\ facts' = (facts \ {"late", "raced"}) \union late \union raced
    BY <1>4 DEF EditDraft
  <2>3. /\ late \subseteq {"late"} /\ raced \subseteq {"raced"}
        /\ draft /\ lc.quit \in {"waiting", "exiting"} => "late" \in late
        /\ draft /\ going.listen = "read" => "raced" \in raced
    OBVIOUS
  <2> HIDE DEF draft, late, raced
  <2>4. /\ lc' \in Lives /\ lc'.active = lc.active /\ lc'.quit = lc.quit /\ lc'.dirty = draft
        /\ webview' \in Pages /\ webview'.there = TRUE /\ webview'.draft = draft
    BY <1>0, <1>1, <2>1, <2>2 DEF Lives, Pages
  <2>5. /\ facts' \subseteq Facts
        /\ Fact("moved")' <=> Fact("moved")
        /\ Fact("halted")' <=> Fact("halted")
        /\ Fact("back")' <=> Fact("back")
        /\ Fact("restart")' <=> Fact("restart")
        /\ draft /\ lc.quit \in {"waiting", "exiting"} => Fact("late")'
        /\ draft /\ going.listen = "read" => Fact("raced")'
    BY <1>0, <2>2, <2>3 DEF Fact, Facts, LifeTypes
  <2>6. DraftFits'
    <3>1. going.listen = "prepared" => lc.quit = "exiting"
      BY <1>0 DEF LifeFits
    <3>2. QED
      BY <1>2, <2>1, <2>4, <2>5, <3>1 DEF DraftFits, Excused, Edited
  <2>7. QED
    BY <1>1, <1>2, <2>4, <2>5, <2>6, QuitKeeps
<1>5. QED
  BY <1>3, <1>4

LEMMA ExecuteKeeps ==
  ASSUME ShellInv, WorkInv', ExecuteQuit
  PROVE  ShellInv'
<1>0. LifeTypes /\ LifeFits /\ DraftFits /\ lc \in Lives /\ OperFit
  BY DEF ShellInv, LifeTypes
<1>1. quitting = TRUE /\ quitting' = FALSE /\ mem' = mem
  BY <1>0 DEF ExecuteQuit, LifeTypes, workbench
<1>2. mem # Down /\ lc.quit = "exiting" /\ oper = None /\ lc.active # TRUE /\ going.listen # "prepared"
  BY <1>0, <1>1 DEF LifeFits, Ended
<1>3. /\ webview' = webview /\ facts' = facts /\ going' = going
      /\ exiting' = exiting /\ play' = play /\ UNCHANGED status
  BY DEF ExecuteQuit
<1> DEFINE o == [NewOper("quit", "leave") EXCEPT !.then = "decide", !.else = "decide"]
<1>4. lc' = [lc EXCEPT !.active = TRUE] /\ oper' = o
  BY <1>0, <1>2 DEF ExecuteQuit, Lives
<1>5. o \in Operation /\ o.kind = "quit" /\ o.at = "leave" /\ o.then = "decide" /\ o.else = "decide" /\ o # None
  <2>1. NewOper("quit", "leave") \in Operation
    BY OperIsThere DEF OperKinds, OperPoints
  <2>2. o \in Operation /\ o.at = NewOper("quit", "leave").at /\ o.kind = NewOper("quit", "leave").kind
        /\ o.then = "decide" /\ o.else = "decide"
    BY <2>1 DEF Operation, OperPoints
  <2>3. NewOper("quit", "leave").at = "leave" /\ NewOper("quit", "leave").kind = "quit"
    BY DEF NewOper
  <2>4. QED
    BY <2>2, <2>3, OperIsThere
<1> HIDE DEF o
<1>6. lc' \in Lives /\ lc'.active = TRUE /\ lc'.quit = lc.quit /\ lc'.dirty = lc.dirty
  BY <1>0, <1>4 DEF Lives
<1>7. LifeTypes' /\ OperFit'
  BY <1>0, <1>1, <1>3, <1>4, <1>5, <1>6 DEF LifeTypes, OperFit, OperFits
<1>8. LifeFits' /\ DraftFits'
  BY <1>0, <1>1, <1>2, <1>3, <1>4, <1>5, <1>6 DEF LifeFits, DraftFits, Excused, Edited, Fact
<1>9. QED
  BY <1>1, <1>2, <1>3, <1>4, <1>5, <1>7, <1>8, LifeKeeps DEF InOper, Fact

LEMMA GoOnKeeps ==
  ASSUME ShellInv, WorkInv', GoOn
  PROVE  ShellInv'
<1>0. LifeTypes /\ LifeFits /\ DraftFits /\ OperFit /\ lc \in Lives /\ webview \in Pages /\ going \in Goings
  BY DEF ShellInv, LifeTypes
<1>1. mem # Down /\ mem' = mem
  <2>1. mem' = mem
    BY DEF GoOn, workbench
  <2>2. CASE mem = Down
    <3>1. going = NoGoing
      BY <1>0, <2>2 DEF LifeFits, Ended
    <3>2. QED
      BY <2>2, <3>1 DEF GoOn, ListenRead, ListenPrepare, ListenWrite, UpdateRestart, NoGoing, Up
  <2>3. QED
    BY <2>1, <2>2
<1>2. oper' = oper /\ quitting' = quitting /\ exiting' = exiting /\ webview' = webview /\ UNCHANGED status
  BY DEF GoOn
<1>3. play' \in Plays
  <2>1. play' = play \/ Use("listens")
    BY DEF GoOn, ListenRead, ListenPrepare, ListenWrite, UpdateRestart
  <2>2. QED
    BY <1>0, <2>1, Uses DEF LifeTypes
<1>4. ASSUME lc' \in Lives, going' \in Goings, facts' \subseteq Facts, LifeFits', DraftFits',
             Fact("moved")' <=> Fact("moved"), Fact("halted")' <=> Fact("halted"),
             Fact("back")' <=> Fact("back")
      PROVE  ShellInv'
  <2>1. LifeTypes' /\ OperFit'
    BY <1>0, <1>2, <1>3, <1>4 DEF LifeTypes, OperFit
  <2>2. QED
    BY <1>1, <1>2, <1>4, <2>1, LifeKeeps DEF InOper
\* A restart is prepared when nothing is under way and no quit was asked for.
<1>5. ASSUME PrepareRestart
      PROVE  /\ oper = None /\ quitting = FALSE /\ lc.quit = "idle" /\ ~ Fact("restart")
             /\ going.listen # "prepared"
             /\ lc' \in Lives /\ lc'.active = lc.active /\ lc'.dirty = FALSE /\ lc'.quit = "exiting"
             /\ facts' = facts \union {"restart"} /\ facts' \subseteq Facts
             /\ Fact("moved")' <=> Fact("moved")
             /\ Fact("halted")' <=> Fact("halted")
             /\ Fact("back")' <=> Fact("back")
             /\ Fact("restart")'
             /\ Edited => Edited'
  <2>1. lc' \in Lives /\ lc'.active = lc.active /\ lc'.dirty = FALSE /\ lc'.quit = "exiting"
        /\ lc.quit = "idle" /\ lc.active # TRUE
    BY <1>0, <1>5 DEF PrepareRestart, MayBegin, Lives
  <2>2. oper = None /\ quitting = FALSE /\ ~ Fact("restart") /\ going.listen # "prepared"
    BY <1>0, <2>1 DEF LifeFits, LifeTypes
  <2>3. facts' = facts \union {"restart"} /\ facts' \subseteq Facts
    BY <1>0, <1>5 DEF PrepareRestart, Note, Facts, LifeTypes
  <2>4. QED
    BY <2>1, <2>2, <2>3 DEF Fact, Edited
<1>6. CASE ListenRead
  <2>1. going' \in Goings /\ going'.listen = "read" /\ going'.dirty = lc.dirty /\ lc' = lc /\ facts' = facts
    BY <1>0, <1>6 DEF ListenRead, Goings, Lives
  <2>2. LifeFits'
    BY <1>0, <1>1, <1>2, <2>1 DEF LifeFits, Fact
  <2>3. DraftFits'
    BY <1>0, <1>2, <2>1 DEF DraftFits, Excused, Edited, Fact
  <2>4. QED
    BY <1>0, <1>4, <2>1, <2>2, <2>3 DEF LifeTypes, Fact
<1>7. CASE ListenPrepare
  <2>1. CASE PrepareRestart /\ going' = [going EXCEPT !.listen = "prepared"]
    <3>1. going.listen = "read" /\ going' \in Goings /\ going'.listen = "prepared" /\ going'.dirty = going.dirty
      BY <1>0, <1>7, <2>1 DEF ListenPrepare, Goings
    <3>2. LifeFits'
      BY <1>0, <1>1, <1>2, <1>5, <2>1, <3>1 DEF LifeFits
    <3>3. DraftFits'
      <4>1. webview.draft = TRUE /\ going.dirty = FALSE => Edited
        BY <1>0, <1>5, <2>1, <3>1 DEF DraftFits
      <4>2. QED
        BY <1>2, <1>5, <2>1, <3>1, <4>1 DEF DraftFits, Excused
    <3>4. QED
      BY <1>4, <1>5, <2>1, <3>1, <3>2, <3>3
  <2>2. CASE going' = [going EXCEPT !.listen = "no"] /\ UNCHANGED <<lc, facts>>
    <3>1. going' \in Goings /\ going'.listen = "no"
      BY <1>0, <2>2 DEF Goings
    <3>2. LifeFits' /\ DraftFits'
      BY <1>0, <1>1, <1>2, <2>2, <3>1 DEF LifeFits, DraftFits, Excused, Edited, Fact
    <3>3. QED
      BY <1>0, <1>4, <2>2, <3>1, <3>2 DEF LifeTypes, Fact
  <2>3. QED
    BY <1>7, <2>1, <2>2 DEF ListenPrepare
<1>8. CASE ListenWrite
  <2>1. lc.quit = "exiting" /\ oper = None /\ quitting = FALSE /\ going.listen = "prepared" /\ ~ lc.active
    BY <1>0, <1>8 DEF ListenWrite, LifeFits, Lives
  <2>2. CASE going' = [going EXCEPT !.listen = "restart"] /\ UNCHANGED <<lc, facts>>
    <3>1. going' \in Goings /\ going'.listen = "restart"
      BY <1>0, <2>2 DEF Goings
    <3>2. LifeFits' /\ DraftFits'
      BY <1>0, <1>1, <1>2, <2>2, <3>1 DEF LifeFits, DraftFits, Excused, Edited, Fact
    <3>3. QED
      BY <1>0, <1>4, <2>2, <3>1, <3>2 DEF LifeTypes, Fact
  <2>3. CASE /\ going' = [going EXCEPT !.listen = "no"]
             /\ lc' = [lc EXCEPT !.quit = "idle", !.dirty = going.dirty]
             /\ facts' = facts \ {"restart"}
    <3>1. going' \in Goings /\ going'.listen = "no" /\ going.dirty \in BOOLEAN
      BY <1>0, <2>3 DEF Goings
    <3>2. lc' \in Lives /\ lc'.active = lc.active /\ lc'.quit = "idle" /\ lc'.dirty = going.dirty
      BY <1>0, <2>3, <3>1 DEF Lives
    <3>3. /\ facts' \subseteq Facts /\ ~ Fact("restart")'
          /\ Fact("moved")' <=> Fact("moved")
          /\ Fact("halted")' <=> Fact("halted")
          /\ Fact("back")' <=> Fact("back")
          /\ Edited' <=> Edited
      BY <1>0, <2>3 DEF LifeTypes, Fact, Edited
    <3>4. LifeFits'
      BY <1>0, <1>1, <1>2, <2>1, <3>1, <3>2, <3>3 DEF LifeFits
    <3>5. DraftFits'
      BY <1>0, <1>2, <2>1, <3>1, <3>2, <3>3 DEF DraftFits, Excused
    <3>6. QED
      BY <1>4, <3>1, <3>2, <3>3, <3>4, <3>5
  <2>4. QED
    BY <1>8, <2>1, <2>2, <2>3 DEF ListenWrite
<1>9. CASE UpdateRestart
  <2>1. going' \in Goings /\ going'.listen = going.listen /\ going'.dirty = going.dirty
    BY <1>0, <1>9 DEF UpdateRestart, Goings
  <2>2. CASE PrepareRestart
    <3>1. LifeFits'
      BY <1>0, <1>1, <1>2, <1>5, <2>1, <2>2 DEF LifeFits
    <3>2. DraftFits'
      BY <1>2, <1>5, <2>1, <2>2 DEF DraftFits, Excused
    <3>3. QED
      BY <1>4, <1>5, <2>1, <2>2, <3>1, <3>2
  <2>3. CASE UNCHANGED <<lc, facts>>
    <3>1. LifeFits' /\ DraftFits'
      BY <1>0, <1>1, <1>2, <2>1, <2>3 DEF LifeFits, DraftFits, Excused, Edited, Fact
    <3>2. QED
      BY <1>0, <1>4, <2>1, <2>3, <3>1 DEF LifeTypes, Fact
  <2>4. QED
    BY <1>9, <2>2, <2>3 DEF UpdateRestart
<1>10. QED
  BY <1>6, <1>7, <1>8, <1>9 DEF GoOn

LEMMA HandleKeeps ==
  ASSUME ShellInv, WorkInv', ExitRequested \/ PreventExit
  PROVE  ShellInv'
<1>0. LifeTypes /\ LifeFits /\ DraftFits
  BY DEF ShellInv
<1>1. mem' = mem /\ mem # Down
  BY <1>0 DEF ExitRequested, PreventExit, Interrupt, LifeFits, Ended, workbench, LifeTypes
<1>2. CASE ExitRequested
  <2>1. /\ exiting' = TRUE /\ oper' = oper /\ going' = going /\ lc' = lc /\ quitting' = quitting
        /\ webview' = webview /\ facts' = facts /\ UNCHANGED status
    BY <1>2 DEF ExitRequested
  <2>2. play' \in Plays
    BY <1>0, <1>2, Uses DEF ExitRequested, LifeTypes
  <2>3. DraftFits'
    BY <1>0, <2>1 DEF DraftFits, Excused, Edited, Fact
  <2>4. QED
    BY <1>0, <1>1, <2>1, <2>2, <2>3, QuitKeeps DEF LifeTypes, LifeFits, Fact
<1>3. CASE PreventExit
  <2>1. UNCHANGED <<status, oper, going, facts>> /\ exiting' = FALSE /\ play' = play /\ RequestQuit
    BY <1>3 DEF PreventExit
  <2>2. play' \in Plays
    BY <1>0, <2>1 DEF LifeTypes
  <2>3. QED
    BY <1>1, <2>1, <2>2, RequestKeeps
<1>4. QED
  BY <1>2, <1>3

LEMMA LaunchKeeps ==
  ASSUME ShellInv, WorkInv', mem = Down, mem' # Down, Launch
  PROVE  ShellInv'
<1>0. LifeTypes /\ LifeFits /\ Ended
  BY DEF ShellInv, LifeFits
<1>1. /\ lc' = [Fresh EXCEPT !.active = TRUE] /\ oper' = NewOper("first", "look")
      /\ going' = NoGoing /\ quitting' = FALSE /\ exiting' = FALSE /\ webview' = Window
      /\ facts' = {} /\ UNCHANGED status
  BY <1>0 DEF Launch, Ended
<1>2. lc' \in Lives /\ lc'.active = TRUE /\ lc'.quit = "idle" /\ lc'.dirty = FALSE
  BY <1>1 DEF Fresh, Lives
<1>3. /\ oper' \in Operation /\ oper' # None /\ oper'.kind = "first" /\ oper'.at = "look"
      /\ oper'.then = "over" /\ oper'.else = "over"
  <2>1. "first" \in OperKinds /\ "look" \in OperPoints
    BY DEF OperKinds, OperPoints
  <2>2. QED
    BY <1>1, <2>1, OperIsThere
<1>4. play' \in Plays
  BY <1>0, Uses DEF Launch, LifeTypes
<1>5. NoGoing \in Goings /\ NoGoing.listen = "no" /\ Window \in Pages /\ Window.draft = FALSE /\ Window.there = TRUE
  BY DEF NoGoing, Goings, Window, Pages
<1>6. LifeTypes' /\ OperFit'
  BY <1>1, <1>2, <1>3, <1>4, <1>5 DEF LifeTypes, OperFit, OperFits
<1>7. LifeFits' /\ DraftFits'
  BY <1>1, <1>2, <1>3, <1>5 DEF LifeFits, DraftFits, Fact
<1>8. UpdateSafe'
  BY <1>1, <1>3 DEF UpdateSafe, InOper, Fact
<1>9. StatusTypes'
  BY <1>1 DEF ShellInv, StatusTypes, status
<1>10. Corrected'
  BY <1>0, <1>1 DEF Corrected, Ended, status
<1>11. QED
  BY <1>6, <1>7, <1>8, <1>9, <1>10 DEF ShellInv

LEMMA OverKeeps ==
  ASSUME ShellInv, WorkInv', mem' = Down, Over
  PROVE  ShellInv'
<1>0. LifeTypes /\ StatusTypes
  BY DEF ShellInv
<1>1. Ended'
  BY DEF Over, Ended
<1>2. play' = play
  BY DEF Over
<1>3. Fresh \in Lives /\ Fresh.active = FALSE /\ Fresh.quit = "idle" /\ NoGoing \in Goings /\ NoGoing.listen = "no"
      /\ Window \in Pages /\ Window.draft = FALSE /\ Window.there = TRUE
  BY DEF Fresh, Lives, NoGoing, Goings, Window, Pages
<1>4. LifeTypes' /\ OperFit'
  BY <1>0, <1>1, <1>2, <1>3 DEF LifeTypes, OperFit, Ended
<1>5. LifeFits' /\ DraftFits'
  BY <1>1, <1>3 DEF LifeFits, DraftFits, Ended, Fact
<1>6. UpdateSafe'
  BY <1>1 DEF UpdateSafe, InOper, Fact, Ended
<1>7. StatusTypes'
  <2>1. router' \in Routers
    BY <1>0 DEF Over, StatusTypes, Routers
  <2>2. shown' \in Status /\ watch' \in Watches
    BY <1>0, StatusParts DEF Over, Status, Views, Releases
  <2>3. QED
    BY <1>1, <2>1, <2>2 DEF StatusTypes, Ended
<1>8. Corrected'
  BY <1>1 DEF Corrected, Ended
<1>9. QED
  BY <1>4, <1>5, <1>6, <1>7, <1>8 DEF ShellInv

\* A step of the workbench alone, and none.
LEMMA WorkbenchAlone ==
  ASSUME ShellInv, WorkInv', UNCHANGED shell, (mem # Down /\ mem' # Down) \/ mem' = mem
  PROVE  ShellInv'
<1>1. UNCHANGED <<lc, oper, going, quitting, exiting, webview, router, shown, watch, poll, asker, due, facts, play>>
  BY DEF shell, life, status
<1>2. StatusTypes' /\ LifeTypes' /\ OperFit' /\ DraftFits' /\ UpdateSafe' /\ Corrected'
  BY <1>1 DEF ShellInv, StatusTypes, LifeTypes, OperFit, OperFits, DraftFits, Excused, Edited, Fact, UpdateSafe,
              InOper, Corrected, Current, Pending
<1>3. LifeFits'
  BY <1>1 DEF ShellInv, LifeFits, Ended, Fact
<1>4. QED
  BY <1>2, <1>3 DEF ShellInv

LEMMA ShellStarts ==
  ASSUME ShellInit
  PROVE  ShellInv
<1>1. WorkInv
  BY WorkInit
<1>2. Ended
  BY DEF ShellInit, Ended
<1>3. PICK m \in Mixes : work = m.work /\ play = m.play
  BY DEF ShellInit
<1>4. play \in Plays /\ play.router \subseteq Routers
  BY <1>3, ShellAssumption DEF Plays
<1>5. router \in Routers /\ shown = [status |-> "none", release |-> "none"] /\ watch = NoWatch
  BY <1>4 DEF ShellInit
<1>6. StatusTypes
  BY <1>2, <1>5 DEF StatusTypes, Ended, Status, Views, Releases, NoWatch, Watches
<1>7. Fresh \in Lives /\ Fresh.active = FALSE /\ Fresh.quit = "idle" /\ NoGoing \in Goings /\ NoGoing.listen = "no"
      /\ Window \in Pages /\ Window.draft = FALSE /\ Window.there = TRUE
  BY DEF Fresh, Lives, NoGoing, Goings, Window, Pages
<1>8. LifeTypes /\ OperFit
  BY <1>2, <1>4, <1>7 DEF LifeTypes, OperFit, Ended
<1>9. LifeFits /\ DraftFits
  BY <1>2, <1>7 DEF LifeFits, DraftFits, Ended, Fact
<1>10. UpdateSafe /\ Corrected
  BY <1>2 DEF UpdateSafe, InOper, Fact, Ended, Corrected
<1>11. QED
  BY <1>1, <1>6, <1>8, <1>9, <1>10 DEF ShellInv

LEMMA ShellSteps ==
  ASSUME ShellInv, [Next]_desktop
  PROVE  ShellInv'
<1>0. WorkInv /\ LifeFits /\ LifeTypes
  BY DEF ShellInv
<1>1. ASSUME UNCHANGED workbench PROVE WorkInv'
  BY <1>0, <1>1, StillWorks
<1>2. CASE WorkbenchNext /\ UNCHANGED shell
  BY <1>0, <1>2, WorkbenchKeeps, WorkbenchAlone
<1>3. CASE Watch
  BY <1>1, <1>3, WatchKeeps DEF Watch, PollStart, PollAnswer, PollApply, AskStatus, AnswerStatus, Move
<1>4. CASE BeginCommand \/ FinishOperation
  BY <1>1, <1>4, BeginKeepsShell, FinishKeeps DEF BeginCommand, FinishOperation
<1>5. CASE Operate
  <2>1. oper # None
    BY <1>5 DEF Operate, Look, StartBegin, StartAsk, Start, Recheck, StopBegin, StopRouter, Show, Sour,
                RefreshAfter, KillOccupant, WatchRelease, UpdateCheck, Preflight, Verify, Install, QuitAsk,
                QuitDecide, InOper
  <2>2. WorkInv' /\ OperGoes
    BY <1>1, <1>5, <2>1, OperateGoes DEF Operate
  <2>3. QED
    BY <1>5, <2>1, <2>2, OperateKeeps DEF Operate
<1>6. CASE TrayQuit
  <2>1. mem' = mem /\ mem # Down /\ WorkInv'
    BY <1>1, <1>6 DEF TrayQuit, Up, workbench
  <2>2. exiting' \in BOOLEAN /\ play' \in Plays
    BY <1>0, <1>6, Uses DEF TrayQuit, LifeTypes
  <2>3. QED
    BY <1>6, <2>1, <2>2, RequestKeeps DEF TrayQuit
<1>7. CASE ResolveQuit \/ ExecuteQuit \/ EditDraft \/ WindowGone \/ GoOn \/ PreventExit
  <2>1. WorkInv'
    BY <1>1, <1>7 DEF ResolveQuit, ExecuteQuit, EditDraft, WindowGone, GoOn, PreventExit
  <2>2. QED
    BY <1>7, <2>1, ResolveKeeps, ExecuteKeeps, EditKeeps, GoOnKeeps, HandleKeeps
<1>8. CASE ExitRequested
  <2>1. WorkInv'
    BY <1>0, <1>8, InterruptTurns, Proceeding, Distinct DEF ExitRequested
  <2>2. QED
    BY <1>8, <2>1, HandleKeeps
<1>9. CASE Exit \/ Killed
  <2>1. Over /\ work' \in Amounts
    BY <1>0, <1>9, SpendTypes DEF Exit, Killed, WorkInv, StoreTypes
  <2>2. WorkInv' /\ mem' = Down
    BY <1>0, <2>1, PerishKeeps DEF Over
  <2>3. QED
    BY <2>1, <2>2, OverKeeps
<1>10. CASE Launch
  <2>1. WorkInv' /\ mem = Down /\ mem' # Down
    BY <1>0, <1>10, OpenKeeps DEF Launch
  <2>2. QED
    BY <1>10, <2>1, LaunchKeeps
<1>11. CASE UNCHANGED desktop
  <2>1. UNCHANGED workbench /\ UNCHANGED shell
    BY <1>11 DEF desktop
  <2>2. WorkInv' /\ mem' = mem
    BY <1>1, <2>1 DEF workbench
  <2>3. QED
    BY <2>1, <2>2, WorkbenchAlone
<1>12. QED
  BY <1>2, <1>3, <1>4, <1>5, <1>6, <1>7, <1>8, <1>9, <1>10, <1>11 DEF Next, Handle

-----------------------------------------------------------------------------
(* The inductive invariant of the store: what the index says, what is on disk
   and what the one change under way has in hand. *)

\* One change of the store at a time.
Single == \A v, w \in Threads : Changing(v) /\ Changing(w) => v = w

FileFits(a) ==
  /\ a.at = "index" => a.img \in files
  /\ Copied(a) => a.new.assets \subseteq files /\ a.drop \intersect a.new.assets = {}
  /\ a.at = "wipe" => disk = Empty
  /\ a.at = "publish" => disk = a.new
  /\ a.at = "remove" => /\ a.drop \intersect mem.assets = {}
                        /\ Loaded(disk) /\ a.drop \intersect disk.assets = {}

FilesThere ==
  /\ Ready => mem.assets \subseteq files
  /\ Loaded(disk) => disk.assets \subseteq files
  /\ \A w \in Threads : FileFits(task[w])

\* An index whose parts are all there, and one that has all that another had.
Ids(i) == {t.id : t \in i.turns}
Whole(i) ==
  /\ \A j \in i.jobs : j.out \in i.assets \union {None} /\ j.turn \in Ids(i)
  /\ \A t \in i.turns : t.conv \in i.convs
Keeps(new, old) ==
  old.assets \subseteq new.assets /\ old.convs \subseteq new.convs /\ Ids(old) \subseteq Ids(new)

WholeFits(a) ==
  /\ Copied(a) => Whole(a.new)
  /\ Copied(a) /\ a.kind # "rebuild" /\ a.then # "remove" => Keeps(a.new, mem)
  /\ a.at = "turn" => a.conv \in mem.convs
  /\ Copied(a) /\ a.then = "chat" => a.turn \in Ids(a.new)
  /\ a.kind = "send" /\ a.at \in {"chat", "talk", "plan"} => a.turn \in Ids(mem)
  /\ Busy(a) /\ Copied(a) /\ a.then = "finish" => a.img \in a.new.assets
  /\ Busy(a) /\ a.at = "finish" => a.img \in mem.assets \union {None}

AllWhole ==
  /\ Ready => Whole(mem)
  /\ Loaded(disk) => Whole(disk)
  /\ \A w \in Threads : WholeFits(task[w])

\* The jobs shown as running are those the operation is at, and still has to do.
Running(i) == {j \in i.jobs : j.status = "running"}
Mine(a, j) ==
  /\ Stage(a) \in InJob \union {"job"} /\ j.turn = a.turn
  /\ a.kind = "send" => j.k \in a.k..a.n
  /\ a.kind = "regenerate" => j.k = a.k

JobFits(a) ==
  /\ Busy(a) /\ ~ Copied(a) => \A j \in Running(mem) : Mine(a, j)
  /\ Busy(a) /\ Copied(a) => \A j \in Running(a.new) : Mine(a, j)
  /\ ~ Busy(a) /\ Copied(a) => \A j \in Running(a.new) : Ready /\ j \in Running(mem)

JobsMatch ==
  /\ Ready /\ op = None => Running(mem) = {}
  /\ \A w \in Threads : JobFits(task[w])

DiskMatches ==
  Ready /\ (\A w \in Threads : task[w].at # "publish") => disk \in {mem, Missing}

LeftFits(a) ==
  /\ a.at = "write" /\ Ready => files = mem.assets
  /\ a.at = "index" /\ Ready => files = mem.assets \union {a.img}
  /\ Copied(a) /\ a.kind # "rebuild" => files = a.new.assets \union a.drop
  /\ a.at = "publish" /\ a.kind = "rebuild" => files = {}
  /\ a.at = "remove" => files = mem.assets \union a.drop

NothingLeft ==
  /\ mem = Down => files = {} /\ (Loaded(disk) => disk.assets = {} /\ disk.turns = {} /\ disk.jobs = {})
  /\ Ready /\ (\A w \in Threads : ~ Changing(w)) => files = mem.assets
  /\ \A w \in Threads : LeftFits(task[w])

StoreInv ==
  "overlap" \notin upset =>
    /\ Single /\ FilesThere
    /\ "deleted" \notin upset => AllWhole
    /\ {"fault", "unread"} \intersect upset = {} => JobsMatch
    /\ "fault" \notin upset => DiskMatches
    /\ {"fault", "ended", "deleted"} \intersect upset = {} => NothingLeft

Alone(w) == \A v \in Threads \ {w} : task'[v] = task[v]

\* A step outside the changes of the store, or that finds the image in the index.
LEMMA QuietStore ==
  ASSUME WorkInv, StoreInv, NEW w \in Threads, Alone(w), NEW b, task'[w] = b,
         mem' = mem, disk' = disk, files' = files, upset \subseteq upset', mem # Down,
         b.at \notin {"commit", "wipe", "publish", "remove", "write", "index"},
         \/ ~ Changing(w)
         \/ task[w].at = "index" /\ (Ready => task[w].img \in mem.assets),
         "deleted" \notin upset' /\ WholeFits(task[w]) => WholeFits(b),
         {"fault", "unread"} \intersect upset' = {} /\ JobFits(task[w])
           /\ (Ready /\ op = None => Running(mem) = {})
         => JobFits(b) /\ (Ready /\ op' = None => Running(mem) = {})
  PROVE  StoreInv'
<1>1. SUFFICES ASSUME "overlap" \notin upset' PROVE StoreInv'
  BY DEF StoreInv
<1>2. Single /\ FilesThere
  BY <1>1 DEF StoreInv
<1>3. \A v \in Threads : Changing(v)' => Changing(v) /\ v # w /\ task'[v] = task[v]
  BY DEF Changing, Alone
<1>4. Single'
  BY <1>2, <1>3 DEF Single
<1>5. FilesThere'
  <2>1. FileFits(b)
    BY DEF FileFits, Copied
  <2>2. ASSUME NEW v \in Threads PROVE FileFits(task[v])'
    <3>1. CASE v = w
      BY <2>1, <3>1 DEF FileFits, Copied, Loaded
    <3>2. CASE v # w
      BY <1>2, <3>2 DEF Alone, FilesThere, FileFits, Copied, Loaded
    <3>3. QED
      BY <3>1, <3>2
  <2>3. QED
    BY <1>2, <2>2 DEF FilesThere, Ready, Loaded
<1>6. "deleted" \notin upset' => AllWhole'
  <2>1. SUFFICES ASSUME "deleted" \notin upset' PROVE AllWhole'
    OBVIOUS
  <2>2. AllWhole
    BY <1>1, <2>1 DEF StoreInv
  <2>3. WholeFits(b)
    BY <2>1, <2>2 DEF AllWhole
  <2>4. ASSUME NEW v \in Threads PROVE WholeFits(task[v])'
    <3>1. CASE v = w
      BY <2>3, <3>1 DEF WholeFits
    <3>2. CASE v # w
      BY <2>2, <3>2 DEF Alone, AllWhole, WholeFits
    <3>3. QED
      BY <3>1, <3>2
  <2>5. QED
    BY <2>2, <2>4 DEF AllWhole, Ready, Loaded
<1>7. {"fault", "unread"} \intersect upset' = {} => JobsMatch'
  <2>1. SUFFICES ASSUME {"fault", "unread"} \intersect upset' = {} PROVE JobsMatch'
    OBVIOUS
  <2>2. JobsMatch
    BY <1>1, <2>1 DEF StoreInv
  <2>3. JobFits(b) /\ (Ready /\ op' = None => Running(mem) = {})
    BY <2>1, <2>2 DEF JobsMatch
  <2>4. ASSUME NEW v \in Threads PROVE JobFits(task[v])'
    <3>1. CASE v = w
      BY <2>3, <3>1 DEF JobFits, Ready
    <3>2. CASE v # w
      BY <2>2, <3>2 DEF Alone, JobsMatch, JobFits, Ready
    <3>3. QED
      BY <3>1, <3>2
  <2>5. QED
    BY <2>3, <2>4 DEF JobsMatch, Ready
<1>8. "fault" \notin upset' => DiskMatches'
  BY <1>1, <1>3 DEF StoreInv, DiskMatches, Ready, Alone, Changing
<1>9. {"fault", "ended", "deleted"} \intersect upset' = {} => NothingLeft'
  <2>1. SUFFICES ASSUME {"fault", "ended", "deleted"} \intersect upset' = {} PROVE NothingLeft'
    OBVIOUS
  <2>2. NothingLeft
    BY <1>1, <2>1 DEF StoreInv
  <2>3. ASSUME NEW v \in Threads PROVE LeftFits(task[v])'
    <3>1. CASE v = w
      BY <3>1 DEF LeftFits, Copied
    <3>2. CASE v # w
      BY <2>2, <3>2 DEF Alone, NothingLeft, LeftFits, Ready
    <3>3. QED
      BY <3>1, <3>2
  <2>4. Ready' /\ (\A v \in Threads : ~ Changing(v)') => files' = mem'.assets
    <3>1. SUFFICES ASSUME Ready, \A v \in Threads : ~ Changing(v)' PROVE files = mem.assets
      BY DEF Ready
    <3>2. CASE ~ Changing(w)
      <4>1. \A v \in Threads : ~ Changing(v)
        BY <3>1, <3>2 DEF Alone, Changing
      <4>2. QED
        BY <2>2, <3>1, <4>1 DEF NothingLeft
    <3>3. CASE task[w].at = "index" /\ task[w].img \in mem.assets
      BY <2>2, <3>1, <3>3 DEF NothingLeft, LeftFits
    <3>4. QED
      BY <3>1, <3>2, <3>3
  <2>5. QED
    BY <2>3, <2>4 DEF NothingLeft
<1>10. QED
  BY <1>4, <1>5, <1>6, <1>7, <1>8, <1>9 DEF StoreInv

\* The changes keep what the index and the operation must be; and the images and
\* files of the change are those of the index, and one new image at most.
Changes(w, new, b) ==
  /\ \/ /\ ~ Changing(w) /\ new.assets \union b.drop = mem.assets /\ b.drop \intersect new.assets = {}
     \/ task[w].at = "index" /\ new.assets = mem.assets \union {task[w].img} /\ b.drop = {}
  /\ Whole(mem) /\ WholeFits(task[w]) => WholeFits(b)
  /\ JobFits(task[w]) /\ (op = None => Running(mem) = {}) => JobFits(b)

LEMMA CopyStore ==
  ASSUME WorkInv, StoreInv, NEW w \in Threads, Alone(w), NEW new, NEW act, Change(w, new, act),
         NEW b, task'[w] = b, b.at = "commit", b.new = new, Changes(w, new, b)
  PROVE  StoreInv'
<1>1. SUFFICES ASSUME "overlap" \notin upset' PROVE StoreInv'
  BY DEF StoreInv
<1>2. Ready /\ mem' = mem /\ disk' = disk /\ files' = files /\ op' = op /\ upset \subseteq upset'
  BY DEF Change, Mark
<1>3. \A v \in Threads \ {w} : ~ Changing(v)
  BY <1>1 DEF Change, Mark, Overlap
<1>4. Single /\ FilesThere
  BY <1>1, <1>2 DEF StoreInv
<1>5. /\ \A v \in Threads \ {w} : ~ Changing(v)' /\ task'[v] = task[v]
      /\ Changing(w)' /\ Copied(b)
  BY <1>3 DEF Changing, Alone, Copied
<1>6. Single'
  BY <1>5 DEF Single
<1>7. FilesThere'
  <2>1. FileFits(b)
    <3>1. mem.assets \subseteq files /\ FileFits(task[w])
      BY <1>2, <1>4 DEF FilesThere
    <3>2. new.assets \subseteq files /\ b.drop \intersect new.assets = {}
      BY <3>1 DEF Changes, FileFits
    <3>3. QED
      BY <3>2 DEF FileFits
  <2>2. ASSUME NEW v \in Threads PROVE FileFits(task[v])'
    <3>1. CASE v = w
      BY <1>2, <2>1, <3>1 DEF FileFits, Copied, Loaded
    <3>2. CASE v # w
      BY <1>2, <1>4, <1>5, <3>2 DEF FilesThere, FileFits, Copied, Loaded
    <3>3. QED
      BY <3>1, <3>2
  <2>3. QED
    BY <1>2, <1>4, <2>2 DEF FilesThere, Ready, Loaded
<1>8. "deleted" \notin upset' => AllWhole'
  <2>1. SUFFICES ASSUME "deleted" \notin upset' PROVE AllWhole'
    OBVIOUS
  <2>2. AllWhole
    BY <1>1, <1>2, <2>1 DEF StoreInv
  <2>3. WholeFits(b)
    BY <1>2, <2>2 DEF AllWhole, Changes
  <2>4. ASSUME NEW v \in Threads PROVE WholeFits(task[v])'
    <3>1. CASE v = w
      BY <1>2, <2>3, <3>1 DEF WholeFits
    <3>2. CASE v # w
      BY <1>2, <1>5, <2>2, <3>2 DEF AllWhole, WholeFits
    <3>3. QED
      BY <3>1, <3>2
  <2>5. QED
    BY <1>2, <2>2, <2>4 DEF AllWhole, Ready, Loaded
<1>9. {"fault", "unread"} \intersect upset' = {} => JobsMatch'
  <2>1. SUFFICES ASSUME {"fault", "unread"} \intersect upset' = {} PROVE JobsMatch'
    OBVIOUS
  <2>2. JobsMatch
    BY <1>1, <1>2, <2>1 DEF StoreInv
  <2>3. JobFits(b)
    BY <1>2, <2>2 DEF JobsMatch, Changes
  <2>4. ASSUME NEW v \in Threads PROVE JobFits(task[v])'
    <3>1. CASE v = w
      BY <1>2, <2>3, <3>1 DEF JobFits, Ready
    <3>2. CASE v # w
      BY <1>2, <1>5, <2>2, <3>2 DEF JobsMatch, JobFits, Ready
    <3>3. QED
      BY <3>1, <3>2
  <2>5. QED
    BY <1>2, <2>2, <2>4 DEF JobsMatch, Ready
<1>10. "fault" \notin upset' => DiskMatches'
  <2>1. \A v \in Threads : task[v].at # "publish"
    <3>1. task[w].at # "publish"
      BY DEF Changes, Changing
    <3>2. QED
      BY <1>3, <3>1 DEF Changing
  <2>2. QED
    BY <1>1, <1>2, <2>1 DEF StoreInv, DiskMatches
<1>11. {"fault", "ended", "deleted"} \intersect upset' = {} => NothingLeft'
  <2>1. SUFFICES ASSUME {"fault", "ended", "deleted"} \intersect upset' = {} PROVE NothingLeft'
    OBVIOUS
  <2>2. NothingLeft
    BY <1>1, <1>2, <2>1 DEF StoreInv
  <2>3. files = new.assets \union b.drop
    <3>1. CASE ~ Changing(w) /\ new.assets \union b.drop = mem.assets
      <4>1. \A v \in Threads : ~ Changing(v)
        BY <1>3, <3>1
      <4>2. QED
        BY <1>2, <2>2, <3>1, <4>1 DEF NothingLeft
    <3>2. CASE task[w].at = "index" /\ new.assets = mem.assets \union {task[w].img} /\ b.drop = {}
      BY <1>2, <2>2, <3>2 DEF NothingLeft, LeftFits
    <3>3. QED
      BY <3>1, <3>2 DEF Changes
  <2>4. ASSUME NEW v \in Threads PROVE LeftFits(task[v])'
    <3>1. CASE v = w
      BY <1>2, <2>3, <3>1 DEF LeftFits, Copied
    <3>2. CASE v # w
      BY <1>2, <1>5, <2>2, <3>2 DEF NothingLeft, LeftFits, Ready
    <3>3. QED
      BY <3>1, <3>2
  <2>5. QED
    BY <1>2, <1>5, <2>2, <2>4 DEF NothingLeft, Ready
<1>12. QED
  BY <1>6, <1>7, <1>8, <1>9, <1>10, <1>11 DEF StoreInv

\* An index that says of its turns what another did.
Retold(new, old) ==
  /\ new.assets = old.assets /\ new.convs = old.convs
  /\ \A t \in new.turns : \E u \in old.turns : u.id = t.id /\ u.conv = t.conv
  /\ \A u \in old.turns : \E t \in new.turns : t.id = u.id

LEMMA RetoldKeeps ==
  ASSUME NEW new, NEW old, Retold(new, old)
  PROVE  /\ Keeps(new, old) /\ Ids(new) = Ids(old)
         /\ Whole(old) /\ (\A j \in new.jobs : \E k \in old.jobs :
                             j.turn = k.turn /\ (j.out = k.out \/ j.out \in old.assets \union {None}))
            => Whole(new)
<1>1. Ids(new) = Ids(old)
  <2>1. Ids(new) \subseteq Ids(old)
    BY DEF Retold, Ids
  <2>2. Ids(old) \subseteq Ids(new)
    BY DEF Retold, Ids
  <2>3. QED
    BY <2>1, <2>2
<1>2. Keeps(new, old)
  BY <1>1 DEF Retold, Keeps
<1>3. ASSUME Whole(old), \A j \in new.jobs : \E k \in old.jobs :
                             j.turn = k.turn /\ (j.out = k.out \/ j.out \in old.assets \union {None})
      PROVE  Whole(new)
  <2>1. \A j \in new.jobs : j.out \in new.assets \union {None} /\ j.turn \in Ids(new)
    BY <1>1, <1>3 DEF Whole, Retold
  <2>2. \A t \in new.turns : t.conv \in new.convs
    BY <1>3 DEF Whole, Retold
  <2>3. QED
    BY <2>1, <2>2 DEF Whole
<1>4. QED
  BY <1>1, <1>2, <1>3

\* What the changes of the index do to its turns and jobs.
LEMMA ChangesRetell ==
  ASSUME NEW i \in Index
  PROVE  /\ \A turn, phase : /\ Retold(SetPhase(i, turn, phase), i)
                             /\ SetPhase(i, turn, phase).jobs = i.jobs
         /\ \A turn, k, end, out : LET s == SetJob(i, turn, k, end, out) IN
              /\ Retold(s, i)
              /\ \A j \in s.jobs :
                   \/ j \in i.jobs /\ ~ (j.turn = turn /\ j.k = k)
                   \/ \E old \in i.jobs : /\ old.turn = turn /\ old.k = k /\ j.turn = turn /\ j.k = k
                                          /\ j.status = end /\ j.out = out
         /\ Retold(Interrupted(i), i) /\ Retold(Marked(i), i)
         /\ Interrupted(i).jobs = {Halted(j) : j \in i.jobs} /\ Marked(i).jobs = {Halted(j) : j \in i.jobs}
<1>0. i.turns \subseteq Turn /\ i.jobs \subseteq Job
  BY DEF Index
<1>1. ASSUME NEW turn, NEW phase
      PROVE  /\ Retold(SetPhase(i, turn, phase), i)
             /\ SetPhase(i, turn, phase).jobs = i.jobs
  <2> DEFINE f(t) == IF t.id = turn THEN [t EXCEPT !.phase = phase] ELSE t
             s == SetPhase(i, turn, phase)
  <2>1. s.turns = {f(t) : t \in i.turns} /\ s.jobs = i.jobs /\ s.assets = i.assets /\ s.convs = i.convs
    BY DEF SetPhase, Index
  <2>2. \A t \in i.turns : f(t).id = t.id /\ f(t).conv = t.conv
    BY <1>0 DEF Turn
  <2> HIDE DEF f, s
  <2>3. QED
    BY <2>1, <2>2 DEF Retold, s
<1>2. ASSUME NEW turn, NEW k, NEW end, NEW out
      PROVE  LET s == SetJob(i, turn, k, end, out) IN
              /\ Retold(s, i)
              /\ \A j \in s.jobs :
                   \/ j \in i.jobs /\ ~ (j.turn = turn /\ j.k = k)
                   \/ \E old \in i.jobs : /\ old.turn = turn /\ old.k = k /\ j.turn = turn /\ j.k = k
                                          /\ j.status = end /\ j.out = out
  <2> DEFINE f(j) == IF j.turn = turn /\ j.k = k THEN [j EXCEPT !.status = end, !.out = out] ELSE j
             s == SetJob(i, turn, k, end, out)
  <2>1. s.turns = i.turns /\ s.jobs = {f(j) : j \in i.jobs} /\ s.assets = i.assets /\ s.convs = i.convs
    BY DEF SetJob, Index
  <2>2. \A j \in i.jobs : IF j.turn = turn /\ j.k = k
                          THEN f(j).turn = turn /\ f(j).k = k /\ f(j).status = end /\ f(j).out = out
                          ELSE f(j) = j
    BY <1>0 DEF Job
  <2> HIDE DEF f, s
  <2>3. Retold(s, i)
    BY <2>1 DEF Retold
  <2>4. ASSUME NEW j \in s.jobs
        PROVE  \/ j \in i.jobs /\ ~ (j.turn = turn /\ j.k = k)
               \/ \E old \in i.jobs : /\ old.turn = turn /\ old.k = k /\ j.turn = turn /\ j.k = k
                                      /\ j.status = end /\ j.out = out
    <3>1. PICK old \in i.jobs : j = f(old)
      BY <2>1
    <3>2. QED
      BY <2>2, <3>1
  <2>5. QED
    BY <2>3, <2>4 DEF s
<1>3. Retold(Interrupted(i), i) /\ Interrupted(i).jobs = {Halted(j) : j \in i.jobs}
  <2> DEFINE f(t) == IF t.phase \in {"requesting", "imaging"}
                     THEN [t EXCEPT !.phase = "interrupted", !.err = TRUE] ELSE t
             s == Interrupted(i)
  <2>1. s.turns = {f(t) : t \in i.turns} /\ s.jobs = {Halted(j) : j \in i.jobs}
        /\ s.assets = i.assets /\ s.convs = i.convs
    BY DEF Interrupted, Index
  <2>2. \A t \in i.turns : f(t).id = t.id /\ f(t).conv = t.conv
    BY <1>0 DEF Turn
  <2> HIDE DEF f, s
  <2>3. QED
    BY <2>1, <2>2 DEF Retold, s
<1>4. Retold(Marked(i), i) /\ Marked(i).jobs = {Halted(j) : j \in i.jobs}
  <2> DEFINE hit == {t \in i.turns : /\ t.phase \in {"requesting", "imaging"} /\ ~ t.err
                                     /\ \E j \in i.jobs : j.turn = t.id /\ j.status = "running"}
             f(t) == [t EXCEPT !.phase = "interrupted", !.err = TRUE]
             s == Marked(i)
  <2>1. s.turns = (i.turns \ hit) \union {f(t) : t \in hit} /\ s.jobs = {Halted(j) : j \in i.jobs}
        /\ s.assets = i.assets /\ s.convs = i.convs
    BY DEF Marked, Index
  <2>2. \A t \in i.turns : f(t).id = t.id /\ f(t).conv = t.conv
    BY <1>0 DEF Turn
  <2>3. hit \subseteq i.turns
    OBVIOUS
  <2> HIDE DEF f, s, hit
  <2>4. \A t \in s.turns : \E u \in i.turns : u.id = t.id /\ u.conv = t.conv
    BY <2>1, <2>2, <2>3
  <2>5. \A u \in i.turns : \E t \in s.turns : t.id = u.id
    BY <2>1, <2>2, <2>3
  <2>6. QED
    BY <2>1, <2>4, <2>5 DEF Retold, s
<1>5. QED
  BY <1>1, <1>2, <1>3, <1>4

\* Nothing runs once it is halted, and it is what it was otherwise.
LEMMA HaltedJobs ==
  ASSUME NEW i \in Index
  PROVE  /\ \A j \in {Halted(k) : k \in i.jobs} : j.status # "running"
         /\ \A j \in {Halted(k) : k \in i.jobs} : \E k \in i.jobs : j.turn = k.turn /\ j.out = k.out
<1>1. \A k \in i.jobs : Halted(k).status # "running" /\ Halted(k).turn = k.turn /\ Halted(k).out = k.out
  BY DEF Halted, Index, Job
<1>2. QED
  BY <1>1

\* A task that is changed, and what the others are.
LEMMA OthersStay ==
  ASSUME WorkInv, NEW w \in Threads, NEW b, task' = [task EXCEPT ![w] = b]
  PROVE  Alone(w) /\ task'[w] = b
BY DEF WorkInv, TasksFit, Alone

\* A command that has a changed copy of the index.
LEMMA CommandCopy ==
  ASSUME WorkInv, StoreInv, NEW w \in Threads, ~ Changing(w), NEW new \in Index, NEW act \in Activity,
         Change(w, new, act), act.kind = "command", act.then \in {"idle", "remove"},
         new.assets \union act.drop = mem.assets, act.drop \intersect new.assets = {},
         act.then # "remove" => Keeps(new, mem), Whole(mem) => Whole(new),
         Running(new) \subseteq Running(mem)
  PROVE  StoreInv'
<1> DEFINE b == With(act, new)
<1>1. /\ b.at = "commit" /\ b.new = new /\ b.kind = "command" /\ b.drop = act.drop /\ b.then = act.then
  BY WithCopy
<1>2. Alone(w) /\ task'[w] = b
  <2>1. task' = [task EXCEPT ![w] = b]
    BY DEF Change, With
  <2>2. QED
    BY <2>1, OthersStay
<1> HIDE DEF b
<1>3. Copied(b) /\ ~ Busy(b)
  BY <1>1 DEF Copied, Busy
<1>4. Whole(mem) => WholeFits(b)
  BY <1>1, <1>3 DEF WholeFits
<1>5. JobFits(b)
  BY <1>1, <1>3 DEF JobFits, Change
<1>6. Changes(w, new, b)
  BY <1>1, <1>4, <1>5 DEF Changes
<1>7. QED
  BY <1>1, <1>2, <1>6, CopyStore

\* The operation with its changed copy: nothing is lost, and what runs is its own.
LEMMA OperationCopy ==
  ASSUME WorkInv, StoreInv, NEW w \in Threads, ~ Changing(w), NEW new \in Index, NEW act \in Activity,
         Change(w, new, act), act.kind \in {"send", "regenerate"},
         act.then \in {"chat", "job", "read", "dial", "end"}, act.drop = {},
         new.assets = mem.assets, Keeps(new, mem),
         Whole(mem) /\ WholeFits(task[w]) => Whole(new),
         act.then = "chat" => act.turn \in Ids(new),
         JobFits(task[w]) => \A j \in Running(new) :
           /\ act.then \in InJob \union {"job"} /\ j.turn = act.turn
           /\ act.kind = "send" => j.k \in act.k..act.n
           /\ act.kind = "regenerate" => j.k = act.k
  PROVE  StoreInv'
<1> DEFINE b == With(act, new)
<1>1. /\ b.at = "commit" /\ b.new = new /\ b.kind = act.kind /\ b.drop = {} /\ b.then = act.then
      /\ b.turn = act.turn /\ b.k = act.k /\ b.n = act.n
  BY WithCopy
<1>2. Alone(w) /\ task'[w] = b
  <2>1. task' = [task EXCEPT ![w] = b]
    BY DEF Change, With
  <2>2. QED
    BY <2>1, OthersStay
<1> HIDE DEF b
<1>3. Copied(b) /\ Busy(b) /\ Stage(b) = act.then
  BY <1>1 DEF Copied, Busy, Stage
<1>4. Whole(mem) /\ WholeFits(task[w]) => WholeFits(b)
  BY <1>1, <1>3 DEF WholeFits
<1>5. JobFits(task[w]) => JobFits(b)
  BY <1>1, <1>3 DEF JobFits, Mine
<1>6. Changes(w, new, b)
  BY <1>1, <1>4, <1>5 DEF Changes
<1>7. QED
  BY <1>1, <1>2, <1>6, CopyStore

\* The index without a conversation: all that is left is there.
LEMMA WithoutWhole ==
  ASSUME NEW i \in Index, NEW c \in i.convs
  PROVE  /\ Without(i, c).assets \subseteq i.assets
         /\ Running(Without(i, c)) \subseteq Running(i)
         /\ Whole(i) => Whole(Without(i, c))
<1> DEFINE gone == {t.id : t \in {u \in i.turns : u.conv = c}}
           turns == {t \in i.turns : t.conv # c}
           jobs == {j \in i.jobs : j.turn \notin gone}
           convs == i.convs \ {c}
           rest == [i EXCEPT !.convs = convs, !.offered = @ \ {c}, !.turns = turns, !.jobs = jobs]
           assets == i.assets \intersect Referenced(rest)
           new == Without(i, c)
<1>1. rest.turns = turns /\ rest.jobs = jobs
  BY DEF Index
<1>2. new = [rest EXCEPT !.assets = assets]
  BY DEF Without, Index
<1>3. Referenced(rest) = ({t.ref : t \in turns} \union {j.out : j \in jobs}) \ {None}
  BY <1>1 DEF Referenced
<1> HIDE DEF new
<1>4. new.assets = assets /\ new.turns = turns /\ new.jobs = jobs /\ new.convs = convs
  BY <1>2 DEF Index
<1>5. new.assets \subseteq i.assets /\ Running(new) \subseteq Running(i)
  BY <1>4 DEF Running
<1>6. ASSUME Whole(i) PROVE Whole(new)
  <2>1. ASSUME NEW j \in new.jobs PROVE j.out \in new.assets \union {None} /\ j.turn \in Ids(new)
    <3>1. j \in i.jobs /\ j.turn \notin gone /\ j \in jobs
      BY <1>4, <2>1
    <3>2. PICK t \in i.turns : t.id = j.turn
      BY <1>6, <3>1 DEF Whole, Ids
    <3>3. t \in new.turns
      BY <1>4, <3>1, <3>2
    <3>4. j.out \in i.assets \union {None}
      BY <1>6, <3>1 DEF Whole
    <3>5. QED
      BY <1>3, <1>4, <3>1, <3>2, <3>3, <3>4 DEF Ids
  <2>2. \A t \in new.turns : t.conv \in new.convs
    BY <1>4, <1>6 DEF Whole
  <2>3. QED
    BY <2>1, <2>2 DEF Whole
<1>7. QED
  BY <1>5, <1>6 DEF new

LEMMA CommandStore ==
  ASSUME WorkInv, StoreInv, NEW w \in Tasks, Create(w) \/ Select(w) \/ SetOptions(w) \/ Delete(w)
  PROVE  StoreInv'
<1>0. TasksFit /\ StoreTypes /\ w \in Threads
  BY Distinct DEF WorkInv
<1>1. task[w] = Idle
  BY FreeIsIdle DEF Create, Select, SetOptions, Delete, Command
<1>2. ~ Changing(w)
  BY <1>1, IdleFits DEF Changing
<1>3. mem \in Index
  BY <1>0 DEF Create, Select, SetOptions, Delete, Change, Ready, StoreTypes
<1>4. Idle \in Activity /\ Idle.kind = "command" /\ Idle.then = "idle" /\ Idle.drop = {}
  BY IdleFits DEF Idle
\* One that only adds to the index.
<1>5. ASSUME NEW new \in Index, Change(w, new, Idle), new.assets = mem.assets, new.turns = mem.turns,
             new.jobs = mem.jobs, mem.convs \subseteq new.convs
      PROVE  StoreInv'
  <2>1. Keeps(new, mem) /\ (Whole(mem) => Whole(new)) /\ Running(new) = Running(mem)
    BY <1>5 DEF Keeps, Ids, Whole, Running
  <2>2. QED
    BY <1>0, <1>2, <1>4, <1>5, <2>1, CommandCopy
<1>6. CASE Create(w)
  <2>1. ever' \in Convs
    BY <1>0, <1>6, Distinct DEF Create, StoreTypes, Convs
  <2> DEFINE new == [mem EXCEPT !.sel = ever', !.convs = @ \union {ever'}, !.offered = @ \union {ever'}]
  <2>2. new \in Index /\ new.assets = mem.assets /\ new.turns = mem.turns /\ new.jobs = mem.jobs
        /\ mem.convs \subseteq new.convs
    BY <1>3, <2>1 DEF Index
  <2>3. Change(w, new, Idle)
    BY <1>6 DEF Create
  <2> HIDE DEF new
  <2>4. QED
    BY <1>5, <2>2, <2>3
<1>7. CASE Select(w)
  <2>1. PICK c \in mem.convs \ {mem.sel} : Change(w, [mem EXCEPT !.sel = c], Idle)
    BY <1>7 DEF Select
  <2> DEFINE new == [mem EXCEPT !.sel = c]
  <2>2. new \in Index /\ new.assets = mem.assets /\ new.turns = mem.turns /\ new.jobs = mem.jobs
        /\ mem.convs \subseteq new.convs
    BY <1>3, <2>1 DEF Index
  <2> HIDE DEF new
  <2>4. QED
    BY <1>5, <2>1, <2>2 DEF new
<1>8. CASE SetOptions(w)
  <2>1. PICK c \in mem.convs : \E o \in {mem.offered \union {c}, mem.offered \ {c}} :
          Change(w, [mem EXCEPT !.offered = o], Idle)
    BY <1>8 DEF SetOptions
  <2>a. PICK o \in {mem.offered \union {c}, mem.offered \ {c}} :
          Change(w, [mem EXCEPT !.offered = o], Idle)
    BY <2>1
  <2> DEFINE new == [mem EXCEPT !.offered = o]
  <2>2. new \in Index /\ new.assets = mem.assets /\ new.turns = mem.turns /\ new.jobs = mem.jobs
        /\ mem.convs \subseteq new.convs
    BY <1>3, <2>1, <2>a DEF Index
  <2> HIDE DEF new
  <2>4. QED
    BY <1>5, <2>a, <2>2 DEF new
<1>9. CASE Delete(w)
  <2>a. PICK c \in mem.convs :
          \E s \in IF mem.sel # c THEN {mem.sel}
                   ELSE IF Without(mem, c).convs = {} THEN {None} ELSE Without(mem, c).convs :
            Change(w, [Without(mem, c) EXCEPT !.sel = s],
                   [Idle EXCEPT !.then = "remove", !.drop = mem.assets \ Without(mem, c).assets])
    BY <1>9 DEF Delete
  <2>2. PICK s \in IF mem.sel # c THEN {mem.sel}
                   ELSE IF Without(mem, c).convs = {} THEN {None} ELSE Without(mem, c).convs :
          Change(w, [Without(mem, c) EXCEPT !.sel = s],
                 [Idle EXCEPT !.then = "remove", !.drop = mem.assets \ Without(mem, c).assets])
    BY <2>a
  <2> DEFINE i == Without(mem, c)
             drop == mem.assets \ i.assets
             act == [Idle EXCEPT !.then = "remove", !.drop = drop]
             new == [i EXCEPT !.sel = s]
  <2>3. i \in Index
    BY <1>3, IndexChanges DEF Index
  <2>4. i.assets \subseteq mem.assets /\ Running(i) \subseteq Running(mem) /\ (Whole(mem) => Whole(i))
    BY <1>3, WithoutWhole
  <2>5. s \in Convs \union {None}
    BY <1>3, <2>2, <2>3 DEF Index
  <2>6. drop \subseteq Images
    BY <1>3 DEF Index
  <2>7. Change(w, new, act)
    BY <2>2
  <2> HIDE DEF i, drop
  <2>8. new \in Index /\ new.assets = i.assets /\ new.turns = i.turns /\ new.jobs = i.jobs
        /\ new.convs = i.convs
    BY <2>3, <2>5 DEF Index
  <2>9. act \in Activity /\ act.kind = "command" /\ act.then = "remove" /\ act.drop = drop
    BY ZenonT(30), <1>4, <2>6 DEF Activity, Points
  <2> HIDE DEF act, new
  <2>10. Running(new) = Running(i) /\ (Whole(i) => Whole(new))
    BY <2>8 DEF Running, Whole, Ids
  <2>11. new.assets \union act.drop = mem.assets /\ act.drop \intersect new.assets = {}
    BY <2>4, <2>8, <2>9 DEF drop
  <2>12. QED
    BY <1>0, <1>2, <2>4, <2>7, <2>8, <2>9, <2>10, <2>11, CommandCopy
<1>10. QED
  BY <1>6, <1>7, <1>8, <1>9

\* Before its first job, and after its last, the operation has none that runs.
LEMMA NoneRuns ==
  ASSUME WorkInv, NEW w \in Threads, JobFits(task[w]),
         task[w].at \in {"turn", "chat", "talk", "fail", "plan", "close", "end"}
  PROVE  Running(mem) = {}
<1>1. Busy(task[w]) /\ ~ Copied(task[w]) /\ Stage(task[w]) = task[w].at
  BY OperationAt
<1>2. QED
  BY <1>1 DEF JobFits, Mine, InJob

LEMMA OperationStore ==
  ASSUME WorkInv, StoreInv, NEW w \in Threads,
         AddTurn(w) \/ Fail(w) \/ Again(w) \/ Close(w) \/ Plan(w) \/ Finish(w)
  PROVE  StoreInv'
<1>0. TasksFit /\ StoreTypes
  BY DEF WorkInv
<1>1. task[w].at \in {"turn", "fail", "plan", "close", "finish"}
  BY DEF AddTurn, Fail, Again, Close, Plan, Finish, At
<1> DEFINE a == task[w]
<1>2. /\ Busy(a) /\ Ready /\ mem \in Index /\ Fits(w, a) /\ OperationFits(w, a) /\ a \in Activity
      /\ ~ Copied(a) /\ Stage(a) = a.at
      /\ a.kind = "send" => SendFits(a)
      /\ a.kind = "regenerate" => AgainFits(a)
  BY <1>1, OperationAt
<1>3. /\ a.turn \in 1..MaxTurns /\ a.turn \in Nat /\ a.k \in Nat /\ a.conv \in Convs /\ a.drop = {}
      /\ a.kind \in {"send", "regenerate"}
  BY <1>2, Distinct DEF OperationFits, Activity, Busy
<1>4. ~ Changing(w)
  BY <1>1 DEF Changing
<1>5. a.at # "finish" /\ JobFits(a) => Running(mem) = {}
  BY <1>1, NoneRuns
<1>6. CASE AddTurn(w)
  <2> DEFINE t == [id |-> a.turn, conv |-> a.conv, ref |-> a.ref, phase |-> "requesting", err |-> FALSE]
             new == [mem EXCEPT !.turns = @ \union {t}]
             act == [task[w] EXCEPT !.then = "chat", !.else = "end"]
  <2>1. t \in Turn
    BY <1>2, <1>3 DEF Turn, Activity
  <2>2. /\ new \in Index /\ new.assets = mem.assets /\ new.convs = mem.convs /\ new.jobs = mem.jobs
        /\ new.turns = mem.turns \union {t}
    BY <1>2, <2>1 DEF Index
  <2>3. Change(w, new, act) /\ a.at = "turn"
    BY <1>6 DEF AddTurn, Apply, At
  <2>4. /\ act \in Activity /\ act.kind = a.kind /\ act.turn = a.turn /\ act.drop = {} /\ act.then = "chat"
    BY <1>2, <1>3 DEF Activity, Points
  <2>5. t.id = a.turn /\ t.conv = a.conv
    OBVIOUS
  <2> HIDE DEF act, new, t
  <2>6. Keeps(new, mem) /\ a.turn \in Ids(new) /\ Running(new) = Running(mem)
    BY <2>2, <2>5 DEF Keeps, Ids, Running
  <2>7. Whole(mem) /\ WholeFits(a) => Whole(new)
    BY <2>2, <2>3, <2>5 DEF Whole, WholeFits, Ids
  <2>8. JobFits(a) => Running(new) = {}
    BY <1>5, <2>3, <2>6
  <2>9. QED
    BY <1>3, <1>4, <2>2, <2>3, <2>4, <2>6, <2>7, <2>8, OperationCopy
<1>7. CASE Fail(w)
  <2> DEFINE f(t) == IF t.id = task[w].turn THEN [t EXCEPT !.phase = "none", !.err = TRUE] ELSE t
             new == [mem EXCEPT !.turns = {f(t) : t \in @}]
             act == [task[w] EXCEPT !.then = "end", !.else = "end"]
  <2>1. \A t \in mem.turns : f(t) \in Turn /\ f(t).id = t.id /\ f(t).conv = t.conv
    BY <1>2 DEF Index, Turn
  <2>2. /\ new \in Index /\ new.assets = mem.assets /\ new.convs = mem.convs /\ new.jobs = mem.jobs
        /\ new.turns = {f(t) : t \in mem.turns}
    BY ZenonT(30), <1>2, <2>1 DEF Index
  <2>3. Change(w, new, act) /\ a.at = "fail"
    BY <1>7 DEF Fail, Apply, At
  <2>4. /\ act \in Activity /\ act.kind = a.kind /\ act.turn = a.turn /\ act.drop = {} /\ act.then = "end"
    BY <1>2, <1>3 DEF Activity, Points
  <2> HIDE DEF act, new, f
  <2>5. Retold(new, mem)
    BY <2>1, <2>2 DEF Retold
  <2>6. Keeps(new, mem) /\ (Whole(mem) => Whole(new))
    BY <2>2, <2>5, RetoldKeeps
  <2>7. JobFits(a) => Running(new) = {}
    BY <1>5, <2>2, <2>3 DEF Running
  <2>8. QED
    BY <1>3, <1>4, <2>2, <2>3, <2>4, <2>6, <2>7, OperationCopy
<1>8. CASE Close(w)
  <2> DEFINE new == SetPhase(mem, a.turn, "none")
             act == [task[w] EXCEPT !.then = "end", !.else = "end"]
  <2>1. new \in Index /\ Retold(new, mem) /\ new.jobs = mem.jobs
    <3>1. new \in Index
      BY <1>2, <1>3, IndexChanges
    <3>2. \A turn, phase : Retold(SetPhase(mem, turn, phase), mem) /\ SetPhase(mem, turn, phase).jobs = mem.jobs
      BY <1>2, ChangesRetell
    <3>3. QED
      BY <3>1, <3>2
  <2>3. Change(w, new, act) /\ a.at = "close"
    BY <1>8 DEF Close, Apply, At
  <2>4. /\ act \in Activity /\ act.kind = a.kind /\ act.turn = a.turn /\ act.drop = {} /\ act.then = "end"
    BY <1>2, <1>3 DEF Activity, Points
  <2> HIDE DEF act, new
  <2>6. Keeps(new, mem) /\ (Whole(mem) => Whole(new)) /\ new.assets = mem.assets
    BY <2>1, RetoldKeeps DEF Retold
  <2>7. JobFits(a) => Running(new) = {}
    BY <1>5, <2>1, <2>3 DEF Running
  <2>8. QED
    BY <1>3, <1>4, <2>1, <2>3, <2>4, <2>6, <2>7, OperationCopy
<1>9. CASE Again(w)
  <2> DEFINE then == IF a.ref = None THEN "dial" ELSE "read"
             act == [task[w] EXCEPT !.then = then, !.else = "end"]
             new == SetJob(mem, a.turn, a.k, "running", None)
  <2>1. a.at = "plan" /\ a.kind = "regenerate" /\ Change(w, new, act)
    BY <1>9 DEF Again, Apply, At
  <2>2. new \in Index /\ Retold(new, mem)
    BY <1>2, <1>3, IndexChanges, ChangesRetell
  <2>3. \A j \in new.jobs :
           \/ j \in mem.jobs /\ ~ (j.turn = a.turn /\ j.k = a.k)
           \/ \E old \in mem.jobs : /\ old.turn = a.turn /\ old.k = a.k /\ j.turn = a.turn /\ j.k = a.k
                                    /\ j.status = "running" /\ j.out = None
    BY <1>2, ChangesRetell
  <2>4. /\ act \in Activity /\ act.kind = a.kind /\ act.turn = a.turn /\ act.drop = {} /\ act.k = a.k
        /\ act.then \in {"dial", "read"}
    <3>1. then \in {"dial", "read"}
      OBVIOUS
    <3> HIDE DEF then
    <3>2. QED
      BY <1>2, <1>3, <3>1 DEF Activity, Points
  <2> HIDE DEF act, new
  <2>5. \A j \in new.jobs : \E k \in mem.jobs : j.turn = k.turn /\ (j.out = k.out \/ j.out \in mem.assets \union {None})
    BY <2>3
  <2>6. Keeps(new, mem) /\ (Whole(mem) => Whole(new)) /\ new.assets = mem.assets
    BY <2>2, <2>5, RetoldKeeps DEF Retold
  <2>7. JobFits(a) => \A j \in Running(new) : j.turn = a.turn /\ j.k = a.k
    BY <1>5, <2>1, <2>3 DEF Running
  <2>8. QED
    BY <1>4, <2>1, <2>2, <2>4, <2>6, <2>7, OperationCopy DEF InJob
<1>10. CASE Plan(w)
  <2> DEFINE added == {[turn |-> a.turn, k |-> k, edit |-> k \in a.edits, status |-> "running",
                        out |-> None] : k \in 1..a.n}
             i == SetPhase(mem, a.turn, IF a.n = 0 THEN "none" ELSE "imaging")
             new == [i EXCEPT !.jobs = @ \union added]
             act == [a EXCEPT !.then = "job", !.else = "end", !.k = 1]
  <2>1. a.at = "plan" /\ a.kind = "send" /\ Change(w, new, act)
    BY <1>10 DEF Plan, At
  <2>2. i \in Index /\ Retold(i, mem) /\ i.jobs = mem.jobs
    <3>1. i \in Index
      BY <1>2, <1>3, IndexChanges
    <3>2. \A turn, phase : Retold(SetPhase(mem, turn, phase), mem) /\ SetPhase(mem, turn, phase).jobs = mem.jobs
      BY <1>2, ChangesRetell
    <3>3. QED
      BY <3>1, <3>2
  <2>3. a.n \in 0..MaxJobs /\ 1..a.n \subseteq 1..MaxJobs
    BY <1>2, Distinct DEF Activity
  <2>4. added \subseteq Job /\ \A j \in added : j.turn = a.turn /\ j.k \in 1..a.n /\ j.out = None
    <3>1. \A k \in 1..a.n : [turn |-> a.turn, k |-> k, edit |-> k \in a.edits, status |-> "running",
                            out |-> None] \in Job
      BY <1>3, <2>3 DEF Job
    <3>2. QED
      BY <3>1
  <2> HIDE DEF i, added
  <2>5. /\ new \in Index /\ new.jobs = mem.jobs \union added /\ new.turns = i.turns
        /\ new.assets = i.assets /\ new.convs = i.convs
    BY <2>2, <2>4 DEF Index
  <2>6. /\ act \in Activity /\ act.kind = a.kind /\ act.turn = a.turn /\ act.drop = {}
        /\ act.then = "job" /\ act.k = 1 /\ act.n = a.n
    <3>1. 1 \in 0..(MaxJobs + 1)
      BY Distinct
    <3>2. QED
      BY <1>2, <1>3, <3>1 DEF Activity, Points
  <2> HIDE DEF act, new
  <2>7. Keeps(i, mem) /\ Ids(i) = Ids(mem) /\ i.assets = mem.assets /\ (Whole(mem) => Whole(i))
    BY <2>2, RetoldKeeps DEF Retold
  <2>8. Keeps(new, mem) /\ new.assets = mem.assets
    BY <2>5, <2>7 DEF Keeps, Ids
  <2>9. Whole(mem) /\ WholeFits(a) => Whole(new)
    <3>1. SUFFICES ASSUME Whole(mem), WholeFits(a) PROVE Whole(new)
      OBVIOUS
    <3>2. a.turn \in Ids(mem)
      BY <2>1, <3>1 DEF WholeFits
    <3>3. Ids(new) = Ids(mem)
      BY <2>5, <2>7 DEF Ids
    <3>4. \A j \in new.jobs : j.out \in new.assets \union {None} /\ j.turn \in Ids(new)
      BY <2>4, <2>5, <2>8, <3>1, <3>2, <3>3 DEF Whole
    <3>5. \A t \in new.turns : t.conv \in new.convs
      BY <2>5, <2>7, <3>1 DEF Whole
    <3>6. QED
      BY <3>4, <3>5 DEF Whole
  <2>10. JobFits(a) => \A j \in Running(new) : j.turn = a.turn /\ j.k \in 1..a.n
    BY <1>5, <2>1, <2>4, <2>5 DEF Running
  <2>11. QED
    BY <1>4, <2>1, <2>5, <2>6, <2>8, <2>9, <2>10, OperationCopy
<1>11. CASE Finish(w)
  <2> DEFINE end == IF a.img # None THEN "succeeded"
                       ELSE IF a.kind = "send" /\ op = "stops" THEN "cancelled" ELSE "failed"
             new == SetJob(mem, a.turn, a.k, end, a.img)
             act == [a EXCEPT !.then = IF a.kind = "send" THEN "job" ELSE "end", !.else = "end",
                              !.img = None, !.k = IF a.kind = "send" THEN @ + 1 ELSE @]
  <2>1. a.at = "finish" /\ Change(w, new, act)
    BY <1>11 DEF Finish, At
  <2>2. end \in {"succeeded", "cancelled", "failed"}
    OBVIOUS
  <2> HIDE DEF end
  <2>3. new \in Index /\ Retold(new, mem)
    <3>1. a.img \in Images \union {None}
      BY <1>2 DEF Activity
    <3>2. QED
      BY ZenonT(30), <1>2, <1>3, <2>2, <3>1, IndexChanges, ChangesRetell
  <2>4. \A j \in new.jobs :
           \/ j \in mem.jobs /\ ~ (j.turn = a.turn /\ j.k = a.k)
           \/ \E old \in mem.jobs : /\ old.turn = a.turn /\ old.k = a.k /\ j.turn = a.turn /\ j.k = a.k
                                    /\ j.status = end /\ j.out = a.img
    BY <1>2, ChangesRetell
  <2>5. a.kind = "send" => a.k \in 1..a.n /\ a.n \in 0..MaxJobs
    BY <1>2, <2>1 DEF SendFits, InJob, Activity
  <2>6. /\ act.kind = a.kind /\ act.turn = a.turn /\ act.drop = {}
        /\ act.then = (IF a.kind = "send" THEN "job" ELSE "end")
        /\ act.n = a.n /\ act.k = (IF a.kind = "send" THEN a.k + 1 ELSE a.k)
    BY <1>2, <1>3 DEF Activity
  <2>7. act \in Activity
    <3> DEFINE k == IF a.kind = "send" THEN a.k + 1 ELSE a.k
               then == IF a.kind = "send" THEN "job" ELSE "end"
    <3>1. k \in 0..(MaxJobs + 1)
      BY <1>2, <2>5, Distinct DEF Activity
    <3>2. then \in {"job", "end"}
      OBVIOUS
    <3>3. act = [a EXCEPT !.then = then, !.else = "end", !.img = None, !.k = k]
      BY <1>2 DEF Activity
    <3> HIDE DEF act, k, then
    <3>4. QED
      BY <1>2, <3>1, <3>2, <3>3 DEF Activity, Points
  <2> HIDE DEF act, new
  <2>8. Keeps(new, mem) /\ new.assets = mem.assets
    BY <2>3, RetoldKeeps DEF Retold
  <2>9. Whole(mem) /\ WholeFits(a) => Whole(new)
    <3>1. SUFFICES ASSUME Whole(mem), WholeFits(a) PROVE Whole(new)
      OBVIOUS
    <3>2. a.img \in mem.assets \union {None}
      BY <1>2, <2>1, <3>1 DEF WholeFits
    <3>3. \A j \in new.jobs : \E k \in mem.jobs : j.turn = k.turn /\ (j.out = k.out \/ j.out \in mem.assets \union {None})
      BY <2>4, <3>2
    <3>4. QED
      BY <2>3, <3>1, <3>3, RetoldKeeps
  \* The jobs after this one are left.
  <2>10. JobFits(a) => \A j \in Running(new) : /\ a.kind = "send" /\ j.turn = a.turn /\ j.k \in (a.k + 1)..a.n
    <3>1. SUFFICES ASSUME JobFits(a), NEW j \in Running(new)
                   PROVE  /\ a.kind = "send" /\ j.turn = a.turn /\ j.k \in (a.k + 1)..a.n
      OBVIOUS
    <3>2. j \in Running(mem) /\ ~ (j.turn = a.turn /\ j.k = a.k)
      BY <2>2, <2>4, <3>1 DEF Running
    <3>3. Mine(a, j)
      BY <1>2, <3>1, <3>2 DEF JobFits
    <3>4. a.kind = "send" /\ j.turn = a.turn /\ j.k \in a.k..a.n /\ j.k # a.k
      BY <1>3, <3>2, <3>3 DEF Mine
    <3>5. QED
      BY <1>3, <2>5, <3>4
  <2>11. JobFits(a) => \A j \in Running(new) :
           /\ act.then \in InJob \union {"job"} /\ j.turn = act.turn
           /\ act.kind = "send" => j.k \in act.k..act.n
           /\ act.kind = "regenerate" => j.k = act.k
    BY <2>6, <2>10
  <2>12. act.then \in {"job", "end"} /\ act.kind \in {"send", "regenerate"}
    BY <1>3, <2>6
  <2>13. QED
    BY <1>4, <2>1, <2>3, <2>6, <2>7, <2>8, <2>9, <2>11, <2>12, OperationCopy
<1>12. QED
  BY <1>6, <1>7, <1>8, <1>9, <1>10, <1>11

\* The operation between its changes of the index.
LEMMA QuietOperation ==
  ASSUME WorkInv, StoreInv, NEW w \in Threads,
         task[w].at \in {"chat", "talk", "job", "read", "dial", "wait"},
         NEW b, task' = [task EXCEPT ![w] = b], b.kind = task[w].kind, b.turn = task[w].turn,
         b.k = task[w].k, b.img = None,
         b.at \in {"talk", "plan", "fail", "end", "close", "finish", "read", "dial", "wait"},
         b.at \in {"talk", "plan"} => task[w].at \in {"chat", "talk"},
         task[w].at \notin {"chat", "talk"} =>
           /\ b.n = task[w].n
           /\ b.at \in InJob \/ (b.at = "close" /\ task[w].kind = "send" /\ task[w].k > task[w].n)
              \/ "unread" \in upset',
         UNCHANGED <<mem, disk, files, op>>, upset \subseteq upset'
  PROVE  StoreInv'
<1> DEFINE a == task[w]
<1>1. Alone(w) /\ task'[w] = b
  BY OthersStay
<1>2. /\ Busy(a) /\ Ready /\ mem # Down /\ op # None /\ ~ Copied(a) /\ Stage(a) = a.at /\ a \in Activity
  BY OperationAt
<1>3. Busy(b) /\ ~ Copied(b) /\ Stage(b) = b.at
  BY <1>2 DEF Busy, Copied, Stage
<1>4. ~ Changing(w)
  BY DEF Changing
<1>5. WholeFits(a) => WholeFits(b)
  BY <1>2, <1>3 DEF WholeFits
<1>6. ASSUME JobFits(a), "unread" \notin upset' PROVE JobFits(b)
  <2>1. CASE a.at \in {"chat", "talk"}
    BY <1>3, <1>6, <2>1, NoneRuns DEF JobFits
  <2>2. CASE a.at \notin {"chat", "talk"} /\ b.at \in InJob
    BY <1>2, <1>3, <1>6, <2>2 DEF JobFits, Mine
  <2>3. CASE a.at \notin {"chat", "talk"} /\ b.at = "close" /\ a.kind = "send" /\ a.k > a.n
    <3>1. a.k \in Nat /\ a.n \in Nat
      BY <1>2, Distinct DEF Activity
    <3>2. a.k..a.n = {}
      BY <2>3, <3>1
    <3>3. Running(mem) = {}
      BY <1>2, <1>6, <2>3, <3>2 DEF JobFits, Mine
    <3>4. QED
      BY <1>3, <3>3 DEF JobFits
  <2>4. QED
    BY <1>6, <2>1, <2>2, <2>3
<1>7. QED
  BY <1>1, <1>2, <1>4, <1>5, <1>6, QuietStore

\* A change of an image's entry, or its being known already.
LEMMA IndexStore ==
  ASSUME WorkInv, StoreInv, NEW w \in Threads, IndexImage(w)
  PROVE  StoreInv'
<1> DEFINE a == task[w]
<1>1. a.at = "index" /\ Fits(w, a) /\ a \in Activity /\ TasksFit /\ StoreTypes /\ mem # Down
  <2>1. a.at = "index"
    BY DEF IndexImage, At
  <2>2. a # Idle
    BY <2>1, IdleFits
  <2>3. QED
    BY <2>1, <2>2 DEF WorkInv, TasksFit, StoreIsThere
<1>2. a.kind # "rebuild" /\ a.kind \in Kinds /\ ~ Copied(a) /\ a.img # None /\ a.drop = {} /\ Stage(a) = "index"
  BY <1>1 DEF Fits, RebuildFits, CommandFits, OperationFits, Copied, Stage, Busy, Activity, Kinds
<1>3. /\ Busy(a) => Ready /\ a.then = "finish"
      /\ ~ Busy(a) => a.then = "idle" /\ a.else = "idle"
  BY <1>1, <1>2 DEF WorkInv, StoreIsThere, Fits, OperationFits, CommandFits, Busy, Kinds
<1>4. CASE ~ Ready /\ task' = [task EXCEPT ![w] = Broken(w)] /\ UNCHANGED <<mem, disk, files, op, upset>>
  <2>1. Broken(w) = Idle
    <3>1. Broken(w) = [Idle EXCEPT !.img = None]
      BY <1>1, <1>3, <1>4 DEF Broken, Onward, Activity
    <3>2. QED
      BY <3>1 DEF Idle
  <2>2. Alone(w) /\ task'[w] = Idle
    BY <1>4, <2>1, OthersStay
  <2>3. WholeFits(Idle) /\ JobFits(Idle)
    BY IdleFits DEF WholeFits, JobFits, Copied, Busy
  <2>4. QED
    BY <1>1, <1>4, <2>2, <2>3, IdleFits, QuietStore
<1>5. CASE /\ Ready /\ a.img \in mem.assets
           /\ task' = [task EXCEPT ![w] = Onward(@, @.then)]
           /\ UNCHANGED <<mem, disk, files, op, upset>>
  <2> DEFINE b == Onward(a, a.then)
  <2>1. task' = [task EXCEPT ![w] = b]
    BY <1>5
  <2>2. Alone(w) /\ task'[w] = b
    BY <2>1, OthersStay
  <2>3. CASE ~ Busy(a)
    <3>1. b = [Idle EXCEPT !.img = a.img]
      BY <1>3, <2>3 DEF Onward
    <3>2. b.at = "idle" /\ b.kind = "command"
      BY <3>1 DEF Idle
    <3> HIDE DEF b
    <3>3. WholeFits(b) /\ JobFits(b)
      BY <3>2 DEF WholeFits, JobFits, Copied, Busy
    <3>4. QED
      BY <1>1, <1>5, <2>2, <3>2, <3>3, QuietStore
  <2>4. CASE Busy(a)
    <3>1. /\ b.at = "finish" /\ b.kind = a.kind /\ b.turn = a.turn /\ b.k = a.k /\ b.n = a.n /\ b.img = a.img
      BY <1>1, <1>3, <2>4 DEF Onward, Activity
    <3> HIDE DEF b
    <3>2. Busy(b) /\ ~ Copied(b) /\ Stage(b) = "finish"
      BY <2>4, <3>1 DEF Copied, Busy, Stage
    <3>3. WholeFits(b)
      BY <1>5, <3>1, <3>2 DEF WholeFits
    <3>4. JobFits(a) => JobFits(b)
      BY <1>2, <2>4, <3>1, <3>2 DEF JobFits, Mine, InJob
    <3>5. QED
      BY <1>1, <1>5, <2>2, <3>1, <3>3, <3>4, QuietStore
  <2>5. QED
    BY <2>3, <2>4
<1>6. CASE Ready /\ Change(w, [mem EXCEPT !.assets = @ \union {a.img}], a)
  <2> DEFINE new == [mem EXCEPT !.assets = @ \union {a.img}]
             b == With(a, new)
  <2>1. mem \in Index
    BY <1>1, <1>6 DEF Ready, StoreTypes
  <2>2. /\ new \in Index /\ new.assets = mem.assets \union {a.img} /\ new.turns = mem.turns
        /\ new.jobs = mem.jobs /\ new.convs = mem.convs
    BY <1>1, <1>2, <2>1 DEF Index, Activity
  <2>3. Change(w, new, a)
    BY <1>6
  <2> HIDE DEF new
  <2>4. /\ b.at = "commit" /\ b.new = new /\ b.kind = a.kind /\ b.drop = {} /\ b.then = a.then
        /\ b.img = a.img /\ b.turn = a.turn /\ b.k = a.k /\ b.n = a.n
    BY <1>1, <1>2, <2>2, WithCopy
  <2>5. Alone(w) /\ task'[w] = b
    <3>1. task' = [task EXCEPT ![w] = b]
      BY <2>3 DEF Change, With
    <3>2. QED
      BY <3>1, OthersStay
  <2> HIDE DEF b
  <2>6. Copied(b) /\ Stage(b) = a.then /\ (Busy(b) <=> Busy(a)) /\ Running(new) = Running(mem)
    BY <2>2, <2>4 DEF Copied, Stage, Busy, Running
  <2>7. Whole(mem) => Whole(new)
    BY <2>2 DEF Whole, Ids
  <2>8. Keeps(new, mem)
    BY <2>2 DEF Keeps, Ids
  <2>9. Whole(mem) => WholeFits(b)
    BY <1>3, <2>2, <2>4, <2>6, <2>7, <2>8 DEF WholeFits
  <2>10. JobFits(a) => JobFits(b)
    <3>1. CASE Busy(a)
      BY <1>2, <1>3, <2>4, <2>6, <3>1 DEF JobFits, Mine, InJob
    <3>2. CASE ~ Busy(a)
      BY <1>6, <2>4, <2>6, <3>2 DEF JobFits
    <3>3. QED
      BY <3>1, <3>2
  <2>11. Changes(w, new, b)
    BY <1>1, <2>2, <2>4, <2>9, <2>10 DEF Changes
  <2>12. QED
    BY <2>3, <2>4, <2>5, <2>11, CopyStore
<1>7. QED
  BY <1>4, <1>5, <1>6 DEF IndexImage

\* The steps of the operation that only ask, decide or look.
LEMMA AskingStore ==
  ASSUME WorkInv, StoreInv, NEW w \in Threads,
         Chat(w) \/ Talk(w) \/ NextJob(w) \/ Dial(w) \/ ReadImage(w)
  PROVE  StoreInv'
<1> DEFINE a == task[w]
<1>1. task[w].at \in {"chat", "talk", "job", "read", "dial"} /\ TasksFit
  BY DEF WorkInv, Chat, Talk, NextJob, Dial, ReadImage, At
<1>2. /\ Busy(a) /\ OperationFits(w, a) /\ a \in Activity /\ Stage(a) = a.at
      /\ a.kind = "regenerate" => AgainFits(a)
  BY <1>1, OperationAt
<1>3. a.img = None /\ (a.at = "job" => a.kind = "send")
  BY <1>1, <1>2 DEF OperationFits, AgainFits, InJob, Busy
<1>4. UNCHANGED <<mem, disk, files, op>> /\ upset \subseteq upset'
  BY DEF Chat, Talk, NextJob, Dial, ReadImage, Mark
<1>5. ASSUME NEW p \in {"talk", "fail", "end", "close", "finish", "read", "dial", "wait"}, Step(w, p),
             p = "talk" => a.at \in {"chat", "talk"},
             a.at \notin {"chat", "talk"} =>
               p \in InJob \/ (p = "close" /\ a.kind = "send" /\ a.k > a.n) \/ "unread" \in upset'
      PROVE  StoreInv'
  <2> DEFINE b == [a EXCEPT !.at = p]
  <2>1. task' = [task EXCEPT ![w] = b]
    BY <1>5 DEF Step
  <2>2. b.at = p /\ b.kind = a.kind /\ b.turn = a.turn /\ b.k = a.k /\ b.n = a.n /\ b.img = None
    BY <1>2, <1>3 DEF Activity
  <2> HIDE DEF b
  <2>3. QED
    BY <1>1, <1>4, <1>5, <2>1, <2>2, QuietOperation
<1>6. CASE Chat(w)
  BY <1>5, <1>6 DEF Chat, At
<1>7. CASE Talk(w)
  <2>1. CASE Step(w, "fail")
    BY <1>5, <1>7, <2>1 DEF Talk, At
  <2>2. CASE ~ Step(w, "fail")
    <3> DEFINE last == IF a.ref # None THEN a.ref ELSE LastImage(mem, a.conv)
               b(n, edits) == [a EXCEPT !.at = "plan", !.n = n, !.edits = edits,
                                        !.ref = IF edits = {} THEN None ELSE last]
    <3>1. \E n \in 0..MaxJobs : \E edits \in SUBSET (1..MaxJobs) : task' = [task EXCEPT ![w] = b(n, edits)]
      BY <1>7, <2>2 DEF Talk
    <3>2. PICK n \in 0..MaxJobs : \E edits \in SUBSET (1..MaxJobs) : task' = [task EXCEPT ![w] = b(n, edits)]
      BY <3>1
    <3>3. PICK edits \in SUBSET (1..MaxJobs) : task' = [task EXCEPT ![w] = b(n, edits)]
      BY <3>2
    <3> DEFINE c == b(n, edits)
    <3>4. c.at = "plan" /\ c.kind = a.kind /\ c.turn = a.turn /\ c.k = a.k /\ c.img = None
      BY <1>2, <1>3 DEF Activity
    <3>5. a.at = "talk"
      BY <1>7 DEF Talk, At
    <3>6. task' = [task EXCEPT ![w] = c]
      BY <3>3
    <3> HIDE DEF c, b
    <3>7. QED
      BY <1>4, <3>4, <3>5, <3>6, QuietOperation
  <2>3. QED
    BY <2>1, <2>2
<1>8. CASE NextJob(w)
  <2> DEFINE p == IF a.k > a.n THEN "close" ELSE IF op = "stops" THEN "finish"
                  ELSE IF a.k \in a.edits THEN "read" ELSE "dial"
  <2>1. Step(w, p) /\ a.at = "job"
    BY <1>8 DEF NextJob, At
  <2>2. p \in {"close", "finish", "read", "dial"} /\ (p = "close" => a.k > a.n)
    OBVIOUS
  <2> HIDE DEF p
  <2>3. QED
    BY <1>3, <1>5, <2>1, <2>2 DEF InJob
<1>9. CASE Dial(w)
  BY <1>5, <1>9 DEF Dial, At, InJob
<1>10. CASE ReadImage(w)
  <2>1. CASE Step(w, "dial")
    BY <1>5, <1>10, <2>1 DEF ReadImage, At, InJob
  <2>2. CASE Step(w, "end") /\ Mark({"unread"})
    <3>1. "unread" \in upset'
      BY <2>2 DEF Mark
    <3>2. QED
      BY <1>5, <2>2, <3>1
  <2>3. QED
    BY <1>10, <2>1, <2>2 DEF ReadImage
<1>11. QED
  BY <1>6, <1>7, <1>8, <1>9, <1>10

\* A command that begins with an image in hand.
LEMMA WriteStarts ==
  ASSUME WorkInv, StoreInv, NEW w \in Threads, ~ Changing(w), mem # Down,
         NEW b, task' = [task EXCEPT ![w] = b], b.at = "write", Mark(Overlap(w)),
         UNCHANGED <<mem, disk, files, op>>, JobFits(task[w]) => JobFits(b)
  PROVE  StoreInv'
<1>1. SUFFICES ASSUME "overlap" \notin upset' PROVE StoreInv'
  BY DEF StoreInv
<1>2. Alone(w) /\ task'[w] = b
  BY OthersStay
<1>3. "overlap" \notin upset /\ upset' = upset /\ \A v \in Threads : ~ Changing(v)
  BY <1>1 DEF Mark, Overlap
<1>4. ~ Copied(b)
  BY DEF Copied
<1>5. \A v \in Threads \ {w} : ~ Changing(v)' /\ task'[v] = task[v]
  BY <1>2, <1>3 DEF Alone, Changing
<1>6. Single' /\ FilesThere'
  <2>1. Single'
    BY <1>5 DEF Single
  <2>2. FilesThere
    BY <1>3 DEF StoreInv
  <2>3. \A v \in Threads : FileFits(task[v])'
    BY <1>2, <1>4, <1>5, <2>2 DEF FilesThere, FileFits, Copied, Loaded
  <2>4. QED
    BY <2>1, <2>2, <2>3 DEF FilesThere, Ready, Loaded
<1>7. "deleted" \notin upset' => AllWhole'
  <2>1. WholeFits(b)
    BY <1>4 DEF WholeFits
  <2>2. SUFFICES ASSUME AllWhole PROVE AllWhole'
    BY <1>3 DEF StoreInv
  <2>3. \A v \in Threads : WholeFits(task[v])'
    BY <1>2, <1>5, <2>1, <2>2 DEF AllWhole, WholeFits
  <2>4. QED
    BY <2>2, <2>3 DEF AllWhole, Ready, Loaded
<1>8. {"fault", "unread"} \intersect upset' = {} => JobsMatch'
  <2>1. SUFFICES ASSUME JobsMatch PROVE JobsMatch'
    BY <1>3 DEF StoreInv
  <2>2. JobFits(b)
    BY <2>1 DEF JobsMatch
  <2>3. \A v \in Threads : JobFits(task[v])'
    BY <1>2, <1>5, <2>1, <2>2 DEF JobsMatch, JobFits, Ready
  <2>4. QED
    BY <2>1, <2>3 DEF JobsMatch, Ready
<1>9. "fault" \notin upset' => DiskMatches'
  BY <1>3 DEF StoreInv, DiskMatches, Ready, Changing
<1>10. {"fault", "ended", "deleted"} \intersect upset' = {} => NothingLeft'
  <2>1. SUFFICES ASSUME NothingLeft PROVE NothingLeft'
    BY <1>3 DEF StoreInv
  <2>2. Ready => files = mem.assets
    BY <1>3, <2>1 DEF NothingLeft
  <2>3. \A v \in Threads : LeftFits(task[v])'
    BY <1>2, <1>4, <1>5, <2>1, <2>2 DEF NothingLeft, LeftFits, Copied, Ready
  <2>4. Ready' => files' = mem'.assets
    BY <2>2 DEF Ready
  <2>5. QED
    BY <2>3, <2>4 DEF NothingLeft
<1>11. QED
  BY <1>6, <1>7, <1>8, <1>9, <1>10 DEF StoreInv

LEMMA AnswerStore ==
  ASSUME WorkInv, StoreInv, NEW w \in Threads, Answer(w)
  PROVE  StoreInv'
<1> DEFINE a == task[w]
<1>1. task[w].at = "wait" /\ TasksFit /\ UNCHANGED <<mem, disk, files, op>> /\ ~ Changing(w)
  BY DEF WorkInv, Answer, At, Changing
<1>2. /\ Busy(a) /\ OperationFits(w, a) /\ a \in Activity /\ Stage(a) = a.at /\ mem # Down /\ ~ Copied(a)
  BY <1>1, OperationAt
<1>3. a.img = None /\ upset \subseteq upset'
  BY <1>1, <1>2 DEF OperationFits, Answer, Mark
<1>4. CASE Step(w, "finish")
  <2> DEFINE b == [a EXCEPT !.at = "finish"]
  <2>1. task' = [task EXCEPT ![w] = b]
    BY <1>4 DEF Step
  <2>2. b.at = "finish" /\ b.kind = a.kind /\ b.turn = a.turn /\ b.k = a.k /\ b.n = a.n /\ b.img = None
    BY <1>2, <1>3 DEF Activity
  <2> HIDE DEF b
  <2>3. QED
    BY <1>1, <1>3, <2>1, <2>2, QuietOperation DEF InJob
<1>5. CASE \E i \in work.images :
             task' = [task EXCEPT ![w] = [@ EXCEPT !.at = "write", !.img = i, !.then = "finish",
                                                  !.else = "finish"]]
  <2>1. PICK i \in work.images :
             task' = [task EXCEPT ![w] = [@ EXCEPT !.at = "write", !.img = i, !.then = "finish",
                                                  !.else = "finish"]]
    BY <1>5
  <2> DEFINE b == [a EXCEPT !.at = "write", !.img = i, !.then = "finish", !.else = "finish"]
  <2>2. task' = [task EXCEPT ![w] = b]
    BY <2>1
  <2>3. b.at = "write" /\ b.kind = a.kind /\ b.turn = a.turn /\ b.k = a.k /\ b.n = a.n
    BY <1>2 DEF Activity
  <2> HIDE DEF b
  <2>4. Busy(b) /\ ~ Copied(b) /\ Stage(b) = "write"
    BY <1>2, <2>3 DEF Busy, Copied, Stage
  <2>5. JobFits(a) => JobFits(b)
    BY <1>1, <1>2, <2>3, <2>4 DEF JobFits, Mine, InJob
  <2>6. task'[w] = b
    BY <2>2, OthersStay
  <2>7. Mark(Overlap(w))
    BY <2>3, <2>6 DEF Answer
  <2>8. QED
    BY <1>1, <1>2, <2>2, <2>3, <2>5, <2>7, WriteStarts
<1>6. QED
  BY <1>4, <1>5 DEF Answer

LEMMA ImportStore ==
  ASSUME WorkInv, StoreInv, NEW w \in Threads, Import(w)
  PROVE  StoreInv'
<1>1. task[w] = Idle /\ ~ Changing(w)
  <2>1. task[w] = Idle
    BY FreeIsIdle DEF Import, Command
  <2>2. QED
    BY <2>1, IdleFits DEF Changing
<1>2. PICK i \in work.images : task' = [task EXCEPT ![w] = [Idle EXCEPT !.at = "write", !.img = i]]
  BY DEF Import
<1> DEFINE b == [Idle EXCEPT !.at = "write", !.img = i]
<1>3. b.at = "write" /\ b.kind = "command"
  BY DEF Idle
<1>4. task' = [task EXCEPT ![w] = b]
  BY <1>2
<1> HIDE DEF b
<1>5. JobFits(b)
  BY <1>3 DEF JobFits, Busy, Copied
<1>6. QED
  BY <1>1, <1>3, <1>4, <1>5, WriteStarts DEF Import, Command

\* What begins, ends or is told of without touching the store.
LEMMA LooseStore ==
  ASSUME WorkInv, StoreInv, NEW w \in Threads, mem # Down, ~ Changing(w),
         NEW b, task' = [task EXCEPT ![w] = b], b.at \in {"idle", "mark"}, ~ Busy(b),
         UNCHANGED <<mem, disk, files, upset>>,
         op' = None => op = None \/ task[w].at = "end"
  PROVE  StoreInv'
<1>1. Alone(w) /\ task'[w] = b
  BY OthersStay
<1>2. WholeFits(b) /\ JobFits(b)
  BY DEF WholeFits, JobFits, Copied, Busy
<1>3. JobFits(task[w]) /\ (Ready /\ op = None => Running(mem) = {})
        => (Ready /\ op' = None => Running(mem) = {})
  BY NoneRuns
<1>4. QED
  BY <1>1, <1>2, <1>3, QuietStore

LEMMA ShortStore ==
  ASSUME WorkInv, StoreInv,
         \/ \E w \in Threads : Imported(w) \/ End(w)
         \/ Interrupt
         \/ MarkInterrupted
  PROVE  StoreInv'
<1>0. TasksFit /\ StoreTypes /\ Main \in Threads
  BY Distinct DEF WorkInv
<1>1. Idle.at = "idle" /\ ~ Busy(Idle)
  BY IdleFits DEF Busy
<1>2. ASSUME NEW w \in Threads, task[w] # Idle PROVE mem # Down
  BY <1>2 DEF WorkInv, StoreIsThere
<1>3. ASSUME NEW w \in Threads, Imported(w) PROVE StoreInv'
  <2>1. task[w] # Idle /\ ~ Changing(w)
    BY <1>3, IdleFits DEF Imported, At, Changing
  <2>2. QED
    BY <1>1, <1>2, <1>3, <2>1, LooseStore DEF Imported
<1>4. ASSUME NEW w \in Threads, End(w) PROVE StoreInv'
  <2>1. task[w] # Idle /\ ~ Changing(w)
    BY <1>4, IdleFits DEF End, At, Changing
  <2>2. QED
    BY <1>1, <1>2, <1>4, <2>1, LooseStore DEF End, At
<1>5. CASE Interrupt
  <2> DEFINE b == [Idle EXCEPT !.at = "mark"]
  <2>1. task[Main] = Idle /\ task' = [task EXCEPT ![Main] = b]
    BY <1>0, <1>5 DEF Interrupt
  <2>2. b.at = "mark" /\ b.kind = "command"
    BY DEF Idle
  <2> HIDE DEF b
  <2>3. ~ Changing(Main) /\ ~ Busy(b)
    BY <2>1, <2>2, IdleFits DEF Changing, Busy
  <2>4. op' = None => op = None
    BY <1>5, Distinct DEF Interrupt
  <2>5. QED
    BY <1>0, <1>5, <2>1, <2>2, <2>3, <2>4, LooseStore DEF Interrupt
<1>6. CASE MarkInterrupted
  <2>1. task[Main].at = "mark" /\ ~ Changing(Main) /\ task[Main] # Idle
    BY <1>6, IdleFits DEF MarkInterrupted, At, Changing
  <2>2. CASE ~ Ready /\ task' = [task EXCEPT ![Main] = Idle] /\ UNCHANGED <<mem, disk, files, op, upset>>
    BY <1>0, <1>1, <1>2, <2>1, <2>2, LooseStore
  <2>3. CASE Change(Main, Marked(mem), Idle)
    <3> DEFINE new == Marked(mem)
    <3>1. mem \in Index
      BY <1>0, <2>3 DEF Change, Ready, StoreTypes
    <3>2. new \in Index /\ Retold(new, mem) /\ new.jobs = {Halted(j) : j \in mem.jobs}
      BY <3>1, MarkedIsIndex, ChangesRetell
    <3>3. Change(Main, new, Idle)
      BY <2>3
    <3> HIDE DEF new
    <3>4. Running(new) = {}
      BY <3>1, <3>2, HaltedJobs DEF Running
    <3>5. \A j \in new.jobs : \E k \in mem.jobs : j.turn = k.turn /\ j.out = k.out
      BY <3>1, <3>2, HaltedJobs
    <3>6. Keeps(new, mem) /\ (Whole(mem) => Whole(new)) /\ new.assets = mem.assets
      BY <3>2, <3>5, RetoldKeeps DEF Retold
    <3>7. Idle \in Activity /\ Idle.kind = "command" /\ Idle.then = "idle" /\ Idle.drop = {}
      BY IdleFits DEF Idle
    <3>8. QED
      BY <1>0, <2>1, <3>2, <3>3, <3>4, <3>6, <3>7, CommandCopy
  <2>4. QED
    BY <1>6, <2>2, <2>3 DEF MarkInterrupted, Marked
<1>7. QED
  BY <1>3, <1>4, <1>5, <1>6

\* The operation begins with nothing running, in a conversation that is there.
LEMMA BeginStore ==
  ASSUME WorkInv, StoreInv, NEW w \in Threads, Send(w) \/ Regenerate(w)
  PROVE  StoreInv'
<1>1. task[w] = Idle /\ Ready /\ op = None /\ UNCHANGED <<mem, disk, files, upset>> /\ mem # Down
  BY FreeIsIdle DEF Send, Regenerate, Ready
<1>2. ~ Changing(w)
  BY <1>1, IdleFits DEF Changing
<1>3. op' # None
  BY Distinct DEF Send, Regenerate
<1>4. ASSUME NEW b, task' = [task EXCEPT ![w] = b],
             \/ b.at = "turn" /\ b.conv \in mem.convs
             \/ b.at = "plan" /\ b.kind = "regenerate"
      PROVE  StoreInv'
  <2>1. Alone(w) /\ task'[w] = b /\ ~ Copied(b)
    BY <1>4, OthersStay DEF Copied
  <2>2. WholeFits(b)
    BY <1>4, <2>1 DEF WholeFits
  <2>3. Running(mem) = {} => JobFits(b)
    BY <2>1 DEF JobFits
  <2>4. QED
    BY <1>1, <1>2, <1>3, <1>4, <2>1, <2>2, <2>3, QuietStore
<1>5. CASE Send(w)
  <2>1. PICK c \in mem.convs \intersect mem.offered : \E r \in seen \union {None} :
       task' = [task EXCEPT ![w] =
                  [Idle EXCEPT !.at = "turn", !.kind = "send", !.conv = c, !.ref = r,
                               !.turn = MaxTurns + 1 - work.sends]]
    BY <1>5 DEF Send
  <2>2. PICK r \in seen \union {None} :
       task' = [task EXCEPT ![w] =
                  [Idle EXCEPT !.at = "turn", !.kind = "send", !.conv = c, !.ref = r,
                               !.turn = MaxTurns + 1 - work.sends]]
    BY <2>1
  <2> DEFINE b == [Idle EXCEPT !.at = "turn", !.kind = "send", !.conv = c, !.ref = r,
                               !.turn = MaxTurns + 1 - work.sends]
  <2>3. b.at = "turn" /\ b.conv = c
    BY DEF Idle
  <2>4. task' = [task EXCEPT ![w] = b]
    BY <2>2
  <2> HIDE DEF b
  <2>5. QED
    BY <1>4, <2>1, <2>3, <2>4
<1>6. CASE Regenerate(w)
  <2>1. PICK j \in mem.jobs : \E t \in mem.turns, r \in seen \union {None} :
       LET ref == IF ~ j.edit THEN None ELSE IF r # None THEN r ELSE LastImage(mem, t.conv) IN
       /\ t.id = j.turn /\ t.conv \in mem.convs
       /\ j.edit => ref # None
       /\ task' = [task EXCEPT ![w] =
                     [Idle EXCEPT !.at = "plan", !.kind = "regenerate", !.conv = t.conv,
                                  !.ref = ref, !.turn = j.turn, !.k = j.k]]
    BY <1>6 DEF Regenerate
  <2>2. PICK t \in mem.turns, r \in seen \union {None} :
       LET ref == IF ~ j.edit THEN None ELSE IF r # None THEN r ELSE LastImage(mem, t.conv) IN
       task' = [task EXCEPT ![w] =
                  [Idle EXCEPT !.at = "plan", !.kind = "regenerate", !.conv = t.conv,
                               !.ref = ref, !.turn = j.turn, !.k = j.k]]
    BY <2>1
  <2> DEFINE ref == IF ~ j.edit THEN None ELSE IF r # None THEN r ELSE LastImage(mem, t.conv)
             b == [Idle EXCEPT !.at = "plan", !.kind = "regenerate", !.conv = t.conv,
                               !.ref = ref, !.turn = j.turn, !.k = j.k]
  <2>3. task' = [task EXCEPT ![w] = b]
    BY <2>2
  <2> HIDE DEF ref
  <2>4. b.at = "plan" /\ b.kind = "regenerate"
    BY DEF Idle
  <2> HIDE DEF b
  <2>5. QED
    BY <1>4, <2>3, <2>4
<1>7. QED
  BY <1>5, <1>6

LEMMA StopStore ==
  ASSUME WorkInv, StoreInv, Stop
  PROVE  StoreInv'
<1>1. /\ op # None /\ op' # None /\ UNCHANGED <<mem, disk, files, task, upset>>
  BY Distinct DEF Stop
<1>2. (\A w \in Threads : FileFits(task[w])') <=> (\A w \in Threads : FileFits(task[w]))
  BY <1>1 DEF FileFits, Copied, Loaded
<1>3. (\A w \in Threads : WholeFits(task[w])') <=> (\A w \in Threads : WholeFits(task[w]))
  BY <1>1 DEF WholeFits, Copied
<1>4. (\A w \in Threads : JobFits(task[w])') <=> (\A w \in Threads : JobFits(task[w]))
  BY <1>1 DEF JobFits, Copied, Ready
<1>5. (\A w \in Threads : LeftFits(task[w])') <=> (\A w \in Threads : LeftFits(task[w]))
  BY <1>1 DEF LeftFits, Copied, Ready
<1>6. FilesThere' <=> FilesThere
  BY <1>1, <1>2 DEF FilesThere, Ready, Loaded
<1>7. AllWhole' <=> AllWhole
  BY <1>1, <1>3 DEF AllWhole, Ready, Loaded
<1>8. JobsMatch => JobsMatch'
  BY <1>1, <1>4 DEF JobsMatch
<1>9. (DiskMatches' <=> DiskMatches) /\ (NothingLeft' <=> NothingLeft) /\ (Single' <=> Single)
  BY <1>1, <1>5 DEF DiskMatches, NothingLeft, Single, Ready, Loaded, Changing
<1>10. QED
  BY <1>1, <1>6, <1>7, <1>8, <1>9 DEF StoreInv

\* A rebuild begins with an index that could not be read.
LEMMA RebuildStore ==
  ASSUME WorkInv, StoreInv, NEW w \in Threads, Rebuild(w)
  PROVE  StoreInv'
<1>1. SUFFICES ASSUME "overlap" \notin upset' PROVE StoreInv'
  BY DEF StoreInv
<1> DEFINE b == [Idle EXCEPT !.at = "commit", !.kind = "rebuild", !.new = Empty]
<1>2. task' = [task EXCEPT ![w] = b]
  BY DEF Rebuild
<1>3. b.at = "commit" /\ b.kind = "rebuild" /\ b.new = Empty /\ b.drop = {} /\ b.then = "idle"
  BY DEF Idle
<1> HIDE DEF b
<1>4. Alone(w) /\ task'[w] = b /\ Copied(b) /\ ~ Busy(b)
  BY <1>2, <1>3, OthersStay DEF Copied, Busy
<1>5. mem = Corrupt /\ ~ Ready /\ mem # Down /\ UNCHANGED <<mem, disk, files, op>>
  BY Distinct DEF Rebuild, Ready
<1>6. ~ Changing(w)
  BY IdleFits DEF Rebuild, Free, Changing
<1>7. "overlap" \notin upset /\ upset' = upset /\ \A v \in Threads : ~ Changing(v)
  BY <1>1, <1>6 DEF Rebuild, Mark, Overlap
<1>8. \A v \in Threads \ {w} : ~ Changing(v)' /\ task'[v] = task[v]
  BY <1>4, <1>7 DEF Alone, Changing
<1>9. Empty.assets = {} /\ Empty.jobs = {} /\ Whole(Empty) /\ Running(Empty) = {}
  BY DEF Empty, Whole, Running
<1>10. Single' /\ FilesThere'
  <2>1. Single'
    BY <1>8 DEF Single
  <2>2. FilesThere
    BY <1>7 DEF StoreInv
  <2>3. \A v \in Threads : FileFits(task[v])'
    BY <1>3, <1>4, <1>5, <1>8, <1>9, <2>2 DEF FilesThere, FileFits, Copied, Loaded
  <2>4. QED
    BY <1>5, <2>1, <2>2, <2>3 DEF FilesThere, Ready, Loaded
<1>11. "deleted" \notin upset' => AllWhole'
  <2>1. SUFFICES ASSUME AllWhole PROVE AllWhole'
    BY <1>7 DEF StoreInv
  <2>2. \A v \in Threads : WholeFits(task[v])'
    BY <1>3, <1>4, <1>5, <1>8, <1>9, <2>1 DEF AllWhole, WholeFits, Copied
  <2>3. QED
    BY <1>5, <2>1, <2>2 DEF AllWhole, Ready, Loaded
<1>12. {"fault", "unread"} \intersect upset' = {} => JobsMatch'
  <2>1. SUFFICES ASSUME JobsMatch PROVE JobsMatch'
    BY <1>7 DEF StoreInv
  <2>2. \A v \in Threads : JobFits(task[v])'
    BY <1>3, <1>4, <1>5, <1>8, <1>9, <2>1 DEF JobsMatch, JobFits, Ready
  <2>3. QED
    BY <1>5, <2>2 DEF JobsMatch, Ready
<1>13. DiskMatches'
  BY <1>5 DEF DiskMatches, Ready
<1>14. {"fault", "ended", "deleted"} \intersect upset' = {} => NothingLeft'
  <2>1. SUFFICES ASSUME NothingLeft PROVE NothingLeft'
    BY <1>7 DEF StoreInv
  <2>2. \A v \in Threads : LeftFits(task[v])'
    BY <1>3, <1>4, <1>5, <1>8, <2>1 DEF NothingLeft, LeftFits, Ready
  <2>3. QED
    BY <1>5, <2>2 DEF NothingLeft, Ready
<1>15. QED
  BY <1>10, <1>11, <1>12, <1>13, <1>14 DEF StoreInv

\* The one change under way goes on, and all others are outside the store.
LEMMA ChangeGoesOn ==
  ASSUME WorkInv, StoreInv, "overlap" \notin upset', upset \subseteq upset', NEW w \in Threads, Changing(w),
         NEW b, task' = [task EXCEPT ![w] = b]
  PROVE  /\ "overlap" \notin upset /\ FilesThere /\ Alone(w) /\ task'[w] = b
         /\ \A v \in Threads \ {w} : task'[v] = task[v] /\ ~ Changing(v) /\ ~ Changing(v)'
         /\ Single' /\ mem # Down
         /\ "deleted" \notin upset' => AllWhole
         /\ {"fault", "unread"} \intersect upset' = {} => JobsMatch
         /\ "fault" \notin upset' => DiskMatches
         /\ {"fault", "ended", "deleted"} \intersect upset' = {} => NothingLeft
         /\ Fits(w, task[w]) /\ task[w] \in Activity /\ TasksFit /\ StoreTypes
<1>1. /\ "overlap" \notin upset /\ Single /\ FilesThere
      /\ "deleted" \notin upset' => AllWhole
      /\ {"fault", "unread"} \intersect upset' = {} => JobsMatch
      /\ "fault" \notin upset' => DiskMatches
      /\ {"fault", "ended", "deleted"} \intersect upset' = {} => NothingLeft
  BY DEF StoreInv
<1>2. Alone(w) /\ task'[w] = b
  BY OthersStay
<1>3. \A v \in Threads \ {w} : task'[v] = task[v] /\ ~ Changing(v) /\ ~ Changing(v)'
  BY <1>1, <1>2 DEF Single, Alone, Changing
<1>4. Single'
  BY <1>3 DEF Single
<1>5. mem # Down
  <2>1. task[w] # Idle
    BY IdleFits DEF Changing
  <2>2. QED
    BY <2>1 DEF WorkInv, StoreIsThere
<1>6. Fits(w, task[w]) /\ task[w] \in Activity /\ TasksFit /\ StoreTypes
  BY DEF WorkInv, TasksFit
<1>7. QED
  BY <1>1, <1>2, <1>3, <1>4, <1>5, <1>6

\* After a failure nothing is in hand.
LEMMA BrokenStore ==
  ASSUME WorkInv, NEW w \in Threads, task[w].at \in {"commit", "write", "index"}
  PROVE  /\ Broken(w).at \in {"idle", "finish", "end"} /\ Broken(w).img = None
<1>1. Fits(w, task[w]) /\ task[w] \in Activity
  BY DEF WorkInv, TasksFit
<1>2. CASE task[w].else = "idle"
  <2>1. Broken(w) = [Idle EXCEPT !.img = None]
    BY <1>1, <1>2 DEF Broken, Onward, Activity
  <2>2. QED
    BY <2>1 DEF Idle
<1>3. CASE task[w].else # "idle"
  <2>1. task[w].else \in {"end", "finish"}
    BY <1>1, <1>3 DEF Fits, CommandFits, RebuildFits, OperationFits, Copied, Busy, Activity, Kinds
  <2>2. Broken(w) = [task[w] EXCEPT !.img = None, !.at = task[w].else, !.new = None]
    BY <1>1, <1>3 DEF Broken, Onward, Activity
  <2>3. QED
    BY <1>1, <2>1, <2>2 DEF Activity
<1>4. QED
  BY <1>2, <1>3

LEMMA WriteStore ==
  ASSUME WorkInv, StoreInv, NEW w \in Threads, WriteImage(w)
  PROVE  StoreInv'
<1> DEFINE a == task[w]
<1>1. SUFFICES ASSUME "overlap" \notin upset' PROVE StoreInv'
  BY DEF StoreInv
<1>2. a.at = "write" /\ Changing(w) /\ UNCHANGED <<mem, disk, op>> /\ upset \subseteq upset'
  BY DEF WriteImage, At, Changing, Mark
<1>3. CASE files' = files \union {a.img} /\ task' = [task EXCEPT ![w].at = "index"] /\ upset' = upset
  <2> DEFINE b == [a EXCEPT !.at = "index"]
  <2>1. task' = [task EXCEPT ![w] = b]
    BY <1>3
  <2> HIDE DEF b
  <2>2. /\ FilesThere /\ task'[w] = b
        /\ \A v \in Threads \ {w} : task'[v] = task[v] /\ ~ Changing(v) /\ ~ Changing(v)'
        /\ Single' /\ mem # Down
        /\ "deleted" \notin upset' => AllWhole
        /\ {"fault", "unread"} \intersect upset' = {} => JobsMatch
        /\ "fault" \notin upset' => DiskMatches
        /\ {"fault", "ended", "deleted"} \intersect upset' = {} => NothingLeft
        /\ a \in Activity
    BY <1>1, <1>2, <2>1, ChangeGoesOn
  <2>3. /\ b.at = "index" /\ b.kind = a.kind /\ b.img = a.img /\ b.turn = a.turn /\ b.k = a.k /\ b.n = a.n
    BY <2>2 DEF Activity, b
  <2>4. ~ Copied(b) /\ Stage(b) = "index" /\ (Busy(b) <=> Busy(a)) /\ ~ Copied(a) /\ Stage(a) = "write"
    BY <1>2, <2>3 DEF Copied, Stage, Busy
  <2>5. FilesThere'
    <3>1. \A v \in Threads : FileFits(task[v])'
      BY <1>2, <1>3, <2>2, <2>3, <2>4 DEF FilesThere, FileFits, Copied, Loaded, Changing
    <3>2. QED
      BY <1>2, <1>3, <2>2, <3>1 DEF FilesThere, Ready, Loaded
  <2>6. AllWhole => AllWhole'
    <3>1. AllWhole => \A v \in Threads : WholeFits(task[v])'
      BY <1>2, <2>2, <2>3, <2>4 DEF AllWhole, WholeFits
    <3>2. QED
      BY <1>2, <3>1 DEF AllWhole, Ready, Loaded
  <2>7. JobsMatch => JobsMatch'
    <3>1. JobFits(a) => JobFits(b)
      BY <2>3, <2>4 DEF JobFits, Mine, InJob
    <3>2. JobsMatch => \A v \in Threads : JobFits(task[v])'
      BY <1>2, <2>2, <3>1 DEF JobsMatch, JobFits, Ready
    <3>3. QED
      BY <1>2, <3>2 DEF JobsMatch, Ready
  <2>8. DiskMatches => DiskMatches'
    BY <1>2, <2>2 DEF DiskMatches, Ready, Changing
  <2>9. NothingLeft => NothingLeft'
    <3>1. NothingLeft => \A v \in Threads : LeftFits(task[v])'
      BY <1>2, <1>3, <2>2, <2>3, <2>4 DEF NothingLeft, LeftFits, Copied, Ready, Changing
    <3>2. Changing(w)'
      BY <2>2, <2>3 DEF Changing
    <3>3. QED
      BY <1>2, <2>2, <3>1, <3>2 DEF NothingLeft
  <2>10. QED
    BY <2>2, <2>5, <2>6, <2>7, <2>8, <2>9 DEF StoreInv
<1>4. CASE /\ files' \in {files, files \union {a.img}} /\ task' = [task EXCEPT ![w] = Broken(w)]
           /\ Mark({"fault"})
  <2> DEFINE b == Broken(w)
  <2>0. b.at \in {"idle", "finish", "end"} /\ b.img = None
    BY <1>2, BrokenStore
  <2>1. task' = [task EXCEPT ![w] = b] /\ "fault" \in upset'
    BY <1>4 DEF Mark
  <2> HIDE DEF b
  <2>2. /\ FilesThere /\ task'[w] = b
        /\ \A v \in Threads \ {w} : task'[v] = task[v] /\ ~ Changing(v) /\ ~ Changing(v)'
        /\ Single'
        /\ "deleted" \notin upset' => AllWhole
    BY <1>1, <1>2, <2>1, ChangeGoesOn
  <2>3. FilesThere'
    <3>1. \A v \in Threads : FileFits(task[v])'
      BY <1>2, <1>4, <2>0, <2>2 DEF FilesThere, FileFits, Copied, Loaded, Changing
    <3>2. QED
      BY <1>2, <1>4, <2>2, <3>1 DEF FilesThere, Ready, Loaded
  <2>4. AllWhole => AllWhole'
    <3>1. WholeFits(b)
      BY <2>0 DEF WholeFits, Copied
    <3>2. AllWhole => \A v \in Threads : WholeFits(task[v])'
      BY <1>2, <2>2, <3>1 DEF AllWhole, WholeFits
    <3>3. QED
      BY <1>2, <3>2 DEF AllWhole, Ready, Loaded
  <2>5. QED
    BY <2>1, <2>2, <2>3, <2>4 DEF StoreInv
<1>5. QED
  BY <1>3, <1>4 DEF WriteImage

LEMMA CommitStore ==
  ASSUME WorkInv, StoreInv, NEW w \in Threads, Commit(w)
  PROVE  StoreInv'
<1> DEFINE a == task[w]
<1>1. SUFFICES ASSUME "overlap" \notin upset' PROVE StoreInv'
  BY DEF StoreInv
<1>2. a.at = "commit" /\ Changing(w) /\ UNCHANGED <<mem, files, op>> /\ upset \subseteq upset'
  BY DEF Commit, At, Changing, Mark
<1>3. Copied(a) /\ Fits(w, a) /\ a.new \in Index
  BY <1>2 DEF Copied, WorkInv, TasksFit, Fits
<1>a. a.kind = "rebuild" => a.new = Empty /\ ~ Ready
  BY <1>3 DEF Fits, RebuildFits, WorkInv, StoreIsThere, Ready
<1>4. CASE /\ disk' = a.new /\ upset' = upset
           /\ task' = [task EXCEPT ![w].at = IF task[w].kind = "rebuild" THEN "wipe" ELSE "publish"]
  <2> DEFINE p == IF task[w].kind = "rebuild" THEN "wipe" ELSE "publish"
             b == [a EXCEPT !.at = p]
  <2>1. task' = [task EXCEPT ![w] = b]
    BY <1>4
  <2>p. IF a.kind = "rebuild" THEN p = "wipe" ELSE p = "publish"
    OBVIOUS
  <2> HIDE DEF b, p
  <2>2. /\ FilesThere /\ task'[w] = b
        /\ \A v \in Threads \ {w} : task'[v] = task[v] /\ ~ Changing(v) /\ ~ Changing(v)'
        /\ Single' /\ mem # Down
        /\ "deleted" \notin upset' => AllWhole
        /\ {"fault", "unread"} \intersect upset' = {} => JobsMatch
        /\ "fault" \notin upset' => DiskMatches
        /\ {"fault", "ended", "deleted"} \intersect upset' = {} => NothingLeft
        /\ a \in Activity
    BY <1>1, <1>2, <2>1, ChangeGoesOn
  <2>3. /\ b.at = p /\ b.kind = a.kind /\ b.img = a.img /\ b.turn = a.turn /\ b.k = a.k /\ b.n = a.n
        /\ b.new = a.new /\ b.drop = a.drop /\ b.then = a.then
    BY <2>2 DEF Activity, b
  <2>4. /\ Busy(b) <=> Busy(a)
        /\ a.kind = "rebuild" => ~ Copied(b) /\ ~ Busy(b)
        /\ a.kind # "rebuild" => Copied(b) /\ Stage(b) = Stage(a)
    BY <1>2, <2>3, <2>p DEF Copied, Stage, Busy
  <2>5. FilesThere'
    <3>1. FileFits(a)
      BY <2>2 DEF FilesThere
    <3>2. a.new.assets \subseteq files /\ a.drop \intersect a.new.assets = {}
      BY <1>3, <3>1 DEF FileFits
    <3>3. \A v \in Threads : FileFits(task[v])'
      BY <1>2, <1>3, <1>a, <1>4, <2>2, <2>3, <2>4, <2>p, <3>2 DEF FilesThere, FileFits, Copied, Loaded, Changing
    <3>4. QED
      BY <1>2, <1>4, <2>2, <3>2, <3>3 DEF FilesThere, Ready, Loaded
  <2>6. AllWhole => AllWhole'
    <3>1. SUFFICES ASSUME AllWhole PROVE AllWhole'
      OBVIOUS
    <3>2. WholeFits(a) /\ Whole(a.new)
      BY <1>3, <3>1 DEF AllWhole, WholeFits
    <3>3. WholeFits(b)
      BY <1>3, <2>3, <2>4, <2>p, <3>2 DEF WholeFits
    <3>4. \A v \in Threads : WholeFits(task[v])'
      BY <1>2, <2>2, <3>1, <3>3 DEF AllWhole, WholeFits
    <3>5. QED
      BY <1>2, <1>4, <3>1, <3>2, <3>4 DEF AllWhole, Ready, Loaded
  <2>7. JobsMatch => JobsMatch'
    <3>1. JobFits(a) => JobFits(b)
      BY <1>3, <2>3, <2>4 DEF JobFits, Mine
    <3>2. JobsMatch => \A v \in Threads : JobFits(task[v])'
      BY <1>2, <2>2, <3>1 DEF JobsMatch, JobFits, Ready
    <3>3. QED
      BY <1>2, <3>2 DEF JobsMatch, Ready
  <2>8. DiskMatches'
    BY <1>2, <1>a, <2>2, <2>3, <2>p DEF DiskMatches, Ready
  <2>9. NothingLeft => NothingLeft'
    <3>1. SUFFICES ASSUME NothingLeft PROVE NothingLeft'
      OBVIOUS
    <3>2. LeftFits(a)
      BY <3>1 DEF NothingLeft
    <3>3. LeftFits(task[w])'
      BY <1>2, <1>3, <2>2, <2>3, <2>p, <3>2 DEF LeftFits, Copied
    <3>4. \A v \in Threads : LeftFits(task[v])'
      <4>1. ASSUME NEW v \in Threads \ {w} PROVE LeftFits(task[v])'
        BY <2>2 DEF LeftFits, Copied, Changing
      <4>2. QED
        BY <3>3, <4>1
    <3>5. Changing(w)'
      BY <2>2, <2>3, <2>p DEF Changing
    <3>6. QED
      BY <1>2, <2>2, <3>4, <3>5 DEF NothingLeft
  <2>10. QED
    BY <2>2, <2>5, <2>6, <2>7, <2>8, <2>9 DEF StoreInv
<1>5. CASE disk' \in {disk, a.new} /\ task' = [task EXCEPT ![w] = Broken(w)] /\ Mark({"fault"})
  <2> DEFINE b == Broken(w)
  <2>0. b.at \in {"idle", "finish", "end"} /\ b.img = None
    BY <1>2, BrokenStore
  <2>1. task' = [task EXCEPT ![w] = b] /\ "fault" \in upset'
    BY <1>5 DEF Mark
  <2> HIDE DEF b
  <2>2. /\ FilesThere /\ task'[w] = b
        /\ \A v \in Threads \ {w} : task'[v] = task[v] /\ ~ Changing(v) /\ ~ Changing(v)'
        /\ Single'
        /\ "deleted" \notin upset' => AllWhole
    BY <1>1, <1>2, <2>1, ChangeGoesOn
  <2>3. FilesThere'
    <3>1. FileFits(a)
      BY <2>2 DEF FilesThere
    <3>2. a.new.assets \subseteq files
      BY <1>3, <3>1 DEF FileFits
    <3>3. \A v \in Threads : FileFits(task[v])'
      BY <2>0, <2>2 DEF FilesThere, FileFits, Copied, Loaded, Changing
    <3>4. QED
      BY <1>2, <1>5, <2>2, <3>2, <3>3 DEF FilesThere, Ready, Loaded
  <2>4. AllWhole => AllWhole'
    <3>1. SUFFICES ASSUME AllWhole PROVE AllWhole'
      OBVIOUS
    <3>2. Whole(a.new)
      BY <1>3, <3>1 DEF AllWhole, WholeFits
    <3>3. WholeFits(b)
      BY <2>0 DEF WholeFits, Copied
    <3>4. \A v \in Threads : WholeFits(task[v])'
      BY <1>2, <2>2, <3>1, <3>3 DEF AllWhole, WholeFits
    <3>5. QED
      BY <1>2, <1>5, <3>1, <3>2, <3>4 DEF AllWhole, Ready, Loaded
  <2>5. QED
    BY <2>1, <2>2, <2>3, <2>4 DEF StoreInv
<1>6. QED
  BY <1>4, <1>5 DEF Commit

LEMMA WipeStore ==
  ASSUME WorkInv, StoreInv, NEW w \in Threads, Wipe(w)
  PROVE  StoreInv'
<1> DEFINE a == task[w]
<1>1. SUFFICES ASSUME "overlap" \notin upset' PROVE StoreInv'
  BY DEF StoreInv
<1>2. a.at = "wipe" /\ Changing(w) /\ UNCHANGED <<mem, disk, op>> /\ upset \subseteq upset'
  BY DEF Wipe, At, Changing, Mark
<1>3. Fits(w, a) /\ a.kind = "rebuild" /\ a.new = Empty /\ a.drop = {} /\ a.then = "idle" /\ mem = Corrupt
      /\ a \in Activity
  BY <1>2 DEF WorkInv, TasksFit, Fits, RebuildFits, StoreIsThere
<1>4. ~ Ready
  BY <1>3 DEF Ready
<1> DEFINE b == [a EXCEPT !.at = "publish"]
<1>5. PICK c \in {b, Idle} : /\ task' = [task EXCEPT ![w] = c] /\ files' \subseteq files
                             /\ "fault" \notin upset' => files' = {}
  BY DEF Wipe, Mark
<1>6. /\ c.drop = {} /\ c.kind # "send" /\ c.kind # "regenerate" /\ c.then = "idle"
      /\ c.at \in {"publish", "idle"}
      /\ c.at = "publish" => c.new = Empty /\ c.kind = "rebuild"
  BY <1>3 DEF Idle, Activity
<1> HIDE DEF b
<1>7. /\ FilesThere /\ task'[w] = c
      /\ \A v \in Threads \ {w} : task'[v] = task[v] /\ ~ Changing(v) /\ ~ Changing(v)'
      /\ Single' /\ mem # Down
      /\ "deleted" \notin upset' => AllWhole
      /\ {"fault", "unread"} \intersect upset' = {} => JobsMatch
  BY <1>1, <1>2, <1>5, ChangeGoesOn
<1>8. Empty.assets = {} /\ Whole(Empty) /\ Running(Empty) = {}
  BY DEF Empty, Whole, Running
<1>9. disk = Empty
  BY <1>2, <1>7 DEF FilesThere, FileFits
<1>10. FilesThere'
  <2>1. \A v \in Threads : FileFits(task[v])'
    BY <1>2, <1>5, <1>6, <1>7, <1>8, <1>9 DEF FilesThere, FileFits, Copied, Loaded, Changing
  <2>2. QED
    BY <1>2, <1>4, <1>8, <1>9, <2>1 DEF FilesThere, Ready, Loaded
<1>11. AllWhole => AllWhole'
  <2>1. WholeFits(c)
    BY <1>6, <1>8 DEF WholeFits, Copied, Busy
  <2>2. AllWhole => \A v \in Threads : WholeFits(task[v])'
    BY <1>2, <1>7, <2>1 DEF AllWhole, WholeFits
  <2>3. QED
    BY <1>2, <2>2 DEF AllWhole, Ready, Loaded
<1>12. JobsMatch => JobsMatch'
  <2>1. JobFits(c)
    BY <1>6, <1>8 DEF JobFits, Copied, Busy
  <2>2. JobsMatch => \A v \in Threads : JobFits(task[v])'
    BY <1>2, <1>7, <2>1 DEF JobsMatch, JobFits, Ready
  <2>3. QED
    BY <1>2, <1>4, <2>2 DEF JobsMatch, Ready
<1>13. DiskMatches'
  BY <1>2, <1>4 DEF DiskMatches, Ready
<1>14. "fault" \notin upset' => NothingLeft'
  <2>1. SUFFICES ASSUME "fault" \notin upset' PROVE NothingLeft'
    OBVIOUS
  <2>2. \A v \in Threads : LeftFits(task[v])'
    <3>1. LeftFits(c)'
      BY <1>5, <1>6, <2>1 DEF LeftFits, Copied
    <3>2. ASSUME NEW v \in Threads \ {w} PROVE LeftFits(task[v])'
      BY <1>7 DEF LeftFits, Copied, Changing
    <3>3. QED
      BY <1>7, <3>1, <3>2
  <2>3. QED
    BY <1>2, <1>4, <1>7, <2>2 DEF NothingLeft, Ready
<1>15. QED
  BY <1>7, <1>10, <1>11, <1>12, <1>13, <1>14 DEF StoreInv

\* The copy becomes the index.
LEMMA PublishStore ==
  ASSUME WorkInv, StoreInv, NEW w \in Threads, Publish(w)
  PROVE  StoreInv'
<1>1. SUFFICES ASSUME "overlap" \notin upset' PROVE StoreInv'
  BY DEF StoreInv
<1>2. PICK a : a = task[w]
  OBVIOUS
<1>3. /\ a.at = "publish" /\ Changing(w) /\ UNCHANGED <<disk, files, op>> /\ upset \subseteq upset'
      /\ mem' = a.new /\ task' = [task EXCEPT ![w] = Onward(a, a.then)]
      /\ op # None /\ a.then = "remove" => "deleted" \in upset'
  BY <1>2 DEF Publish, At, Changing, Mark
<1>4. PICK b : b = Onward(a, a.then)
  OBVIOUS
<1>5. /\ FilesThere /\ task'[w] = b
      /\ \A v \in Threads \ {w} : task'[v] = task[v] /\ ~ Changing(v) /\ ~ Changing(v)'
      /\ Single' /\ mem # Down
      /\ "deleted" \notin upset' => AllWhole
      /\ {"fault", "unread"} \intersect upset' = {} => JobsMatch
      /\ "fault" \notin upset' => DiskMatches
      /\ {"fault", "ended", "deleted"} \intersect upset' = {} => NothingLeft
      /\ Fits(w, a) /\ a \in Activity /\ TasksFit
  BY <1>1, <1>2, <1>3, <1>4, ChangeGoesOn
<1>6. Copied(a) /\ Stage(a) = a.then /\ a.new \in Index /\ a.kind \in Kinds
  BY <1>3, <1>5 DEF Copied, Stage, Fits, Activity
<1>7. Ready' /\ mem' # Down
  BY <1>3, <1>6, Distinct DEF Ready
<1>8. /\ b.at = a.then /\ a.then \in {"idle", "remove", "chat", "job", "read", "dial", "finish", "end"}
      /\ ~ Copied(b) /\ Stage(b) = a.then /\ (Busy(b) <=> Busy(a))
      /\ a.then = "remove" => b.drop = a.drop
      /\ Busy(a) => b.kind = a.kind /\ b.turn = a.turn /\ b.k = a.k /\ b.n = a.n /\ b.img = a.img
      /\ b.kind = "send" => a.kind = "send"
      /\ a.then # "remove" => a.drop = {}
      /\ a.kind = "rebuild" => a.then = "idle" /\ a.new = Empty
  <2>1. task' = [task EXCEPT ![w] = Onward(@, @.then)]
    BY <1>2, <1>3
  <2>2. /\ ~ Copied(b) /\ b.at = a.then /\ (Busy(b) <=> Busy(a))
        /\ a.then # "idle" => b = [a EXCEPT !.at = a.then, !.new = None]
        /\ a.then = "idle" => b = [Idle EXCEPT !.img = a.img]
    BY <1>2, <1>3, <1>5, <2>1, OnwardFits
  <2>3. /\ a.then \in {"idle", "remove", "chat", "job", "read", "dial", "finish", "end"}
        /\ a.then # "remove" => a.drop = {}
        /\ a.kind = "rebuild" => a.then = "idle" /\ a.new = Empty
        /\ a.then = "idle" => ~ Busy(a)
    BY <1>5, <1>6 DEF Fits, CommandFits, RebuildFits, OperationFits, Busy, Kinds
  <2>4. CASE a.then = "idle"
    <3>1. b.kind = "command"
      BY <2>2, <2>4 DEF Idle
    <3>2. QED
      BY <2>2, <2>3, <2>4, <3>1 DEF Stage, Busy
  <2>5. CASE a.then # "idle"
    <3>1. /\ b.kind = a.kind /\ b.turn = a.turn /\ b.k = a.k /\ b.n = a.n /\ b.img = a.img /\ b.drop = a.drop
      BY <1>5, <2>2, <2>5 DEF Activity
    <3>2. QED
      BY <2>2, <2>3, <3>1 DEF Stage
  <2>6. QED
    BY <2>4, <2>5
<1>9. FileFits(a) /\ a.new.assets \subseteq files /\ a.drop \intersect a.new.assets = {} /\ disk = a.new
  BY <1>2, <1>3, <1>5, <1>6 DEF FilesThere, FileFits
<1>10. FilesThere'
  <2>1. FileFits(task[w])'
    BY <1>3, <1>5, <1>6, <1>8, <1>9, Distinct DEF FileFits, Copied, Loaded
  <2>2. ASSUME NEW v \in Threads \ {w} PROVE FileFits(task[v])'
    BY <1>5 DEF FileFits, Copied, Changing
  <2>3. QED
    BY <1>3, <1>9, <2>1, <2>2 DEF FilesThere
\* A command that was in the operation finds what it counted on, as the new index keeps it.
<1>11. ASSUME AllWhole, "deleted" \notin upset' PROVE AllWhole'
  <2>1. WholeFits(a) /\ Whole(a.new)
    BY <1>2, <1>6, <1>11 DEF AllWhole, WholeFits
  <2>2. WholeFits(task[w])'
    <3>1. b.at = "chat" => a.turn \in Ids(a.new)
      BY <1>6, <1>8, <2>1 DEF WholeFits
    <3>2. Busy(a) /\ b.at = "finish" => a.img \in a.new.assets
      BY <1>6, <1>8, <2>1 DEF WholeFits
    <3>3. b.at \notin {"turn", "talk", "plan"}
      BY <1>8
    <3>4. b.kind = "send" => Busy(a)
      BY <1>8 DEF Busy
    <3>5. ~ Copied(task'[w])
      BY <1>5, <1>8
    <3>6. QED
      BY <1>3, <1>5, <1>8, <3>1, <3>2, <3>3, <3>4, <3>5 DEF WholeFits, Copied, Busy
  <2>3. ASSUME NEW v \in Threads \ {w} PROVE WholeFits(task[v])'
    <3>1. ~ Copied(task[v]) /\ task'[v] = task[v] /\ WholeFits(task[v])
      BY <1>5, <1>11 DEF Copied, Changing, AllWhole
    <3>2. CASE ~ Busy(task[v])
      <4>1. task[v].at # "turn"
        BY <3>2, OperationAt
      <4>2. QED
        BY <3>1, <3>2, <4>1 DEF WholeFits, Copied, Busy
    <3>3. CASE Busy(task[v])
      <4>1. op # None /\ Ready
        BY <3>3 DEF WorkInv, OneOperation, StoreIsThere
      <4>2. a.then # "remove" /\ a.kind # "rebuild"
        BY <1>2, <1>3, <1>11, <4>1 DEF WorkInv, StoreIsThere, Ready
      <4>3. Keeps(a.new, mem)
        BY <1>6, <2>1, <4>2 DEF WholeFits
      <4>4. QED
        BY <1>3, <3>1, <4>3 DEF WholeFits, Copied, Keeps
    <3>4. QED
      BY <3>2, <3>3
  <2>4. Whole(mem)' /\ (Loaded(disk)' => Whole(disk)')
    BY <1>3, <1>9, <2>1 DEF Whole, Ids
  <2>5. QED
    BY <2>2, <2>3, <2>4 DEF AllWhole
<1>12. ASSUME JobsMatch PROVE JobsMatch'
  <2>1. JobFits(a)
    BY <1>2, <1>12 DEF JobsMatch
  \* A command's copy has nothing running that the index has not.
  <2>2. ~ Busy(a) => \A j \in Running(a.new) : Ready /\ j \in Running(mem)
    BY <1>6, <2>1 DEF JobFits
  <2>3. op = None => Running(a.new) = {}
    <3>1. SUFFICES ASSUME op = None PROVE Running(a.new) = {}
      OBVIOUS
    <3>2. ~ Busy(a)
      BY <1>2, <3>1 DEF WorkInv, OneOperation
    <3>3. Ready => Running(mem) = {}
      BY <1>12, <3>1 DEF JobsMatch
    <3>4. QED
      BY <2>2, <3>2, <3>3
  <2>4. JobFits(task[w])'
    <3>1. CASE Busy(a)
      <4>1. \A j \in Running(a.new) : Mine(a, j)
        BY <1>6, <2>1, <3>1 DEF JobFits
      <4>2. \A j \in Running(a.new) : Mine(b, j)
        BY <1>6, <1>8, <3>1, <4>1 DEF Mine
      <4>3. QED
        BY <1>3, <1>5, <1>8, <3>1, <4>2 DEF JobFits, Copied, Busy, Running
    <3>2. CASE ~ Busy(a)
      BY <1>5, <1>8, <3>2 DEF JobFits, Copied, Busy
    <3>3. QED
      BY <3>1, <3>2
  <2>5. ASSUME NEW v \in Threads \ {w} PROVE JobFits(task[v])'
    <3>1. ~ Copied(task[v]) /\ task'[v] = task[v] /\ JobFits(task[v])
      BY <1>5, <1>12 DEF Copied, Changing, JobsMatch
    <3>2. CASE ~ Busy(task[v])
      BY <3>1, <3>2 DEF JobFits, Copied, Busy
    <3>3. CASE Busy(task[v])
      <4>1. ~ Busy(a)
        BY <1>2, <3>3 DEF WorkInv, OneOperation
      <4>2. \A j \in Running(a.new) : Mine(task[v], j)
        BY <2>2, <3>1, <3>3, <4>1 DEF JobFits
      <4>3. QED
        BY <1>3, <3>1, <4>2 DEF JobFits, Copied, Running
    <3>4. QED
      BY <3>2, <3>3
  <2>6. Running(mem)' = Running(a.new)
    BY <1>3 DEF Running
  <2>7. QED
    BY <1>3, <2>3, <2>4, <2>5, <2>6 DEF JobsMatch
<1>13. DiskMatches'
  BY <1>3, <1>9 DEF DiskMatches
<1>14. ASSUME NothingLeft PROVE NothingLeft'
  <2>1. LeftFits(a)
    BY <1>2, <1>14 DEF NothingLeft
  <2>2. files = a.new.assets \union a.drop
    <3>1. CASE a.kind = "rebuild"
      BY <1>3, <1>8, <2>1, <3>1 DEF LeftFits, Empty
    <3>2. CASE a.kind # "rebuild"
      BY <1>6, <2>1, <3>2 DEF LeftFits
    <3>3. QED
      BY <3>1, <3>2
  <2>3. LeftFits(task[w])'
    BY <1>3, <1>5, <1>8, <2>2 DEF LeftFits, Copied
  <2>4. ASSUME NEW v \in Threads \ {w} PROVE LeftFits(task[v])'
    BY <1>5 DEF LeftFits, Copied, Changing
  <2>5. (\A v \in Threads : ~ Changing(v)') => files' = mem'.assets
    BY <1>3, <1>5, <1>8, <2>2 DEF Changing
  <2>6. QED
    BY <1>7, <2>3, <2>4, <2>5 DEF NothingLeft
<1>15. QED
  BY <1>5, <1>10, <1>11, <1>12, <1>13, <1>14 DEF StoreInv

LEMMA RemoveStore ==
  ASSUME WorkInv, StoreInv, NEW w \in Threads, Remove(w)
  PROVE  StoreInv'
<1> DEFINE a == task[w]
<1>1. SUFFICES ASSUME "overlap" \notin upset' PROVE StoreInv'
  BY DEF StoreInv
<1>2. /\ a.at = "remove" /\ Changing(w) /\ UNCHANGED <<mem, disk, op>> /\ upset \subseteq upset'
      /\ task' = [task EXCEPT ![w] = Idle]
      /\ files' = files \ a.drop \/ (files' = files /\ "fault" \in upset')
  BY DEF Remove, At, Changing, Mark
<1>3. /\ FilesThere /\ task'[w] = Idle
      /\ \A v \in Threads \ {w} : task'[v] = task[v] /\ ~ Changing(v) /\ ~ Changing(v)'
      /\ Single' /\ mem # Down
      /\ "deleted" \notin upset' => AllWhole
      /\ {"fault", "unread"} \intersect upset' = {} => JobsMatch
      /\ "fault" \notin upset' => DiskMatches
      /\ {"fault", "ended", "deleted"} \intersect upset' = {} => NothingLeft
  BY <1>1, <1>2, ChangeGoesOn
<1>4. Idle.at = "idle" /\ Idle.kind = "command" /\ ~ Copied(Idle) /\ ~ Busy(Idle)
  BY IdleFits DEF Copied, Busy
<1>5. /\ a.drop \intersect mem.assets = {} /\ (Loaded(disk) => a.drop \intersect disk.assets = {})
  BY <1>2, <1>3 DEF FilesThere, FileFits
<1>6. FilesThere'
  <2>1. \A v \in Threads : FileFits(task[v])'
    BY <1>3, <1>4 DEF FileFits, Copied, Changing
  <2>2. QED
    BY <1>2, <1>3, <1>5, <2>1 DEF FilesThere, Ready, Loaded
<1>7. AllWhole => AllWhole'
  <2>1. AllWhole => \A v \in Threads : WholeFits(task[v])'
    BY <1>2, <1>3, <1>4 DEF AllWhole, WholeFits, Copied, Busy
  <2>2. QED
    BY <1>2, <2>1 DEF AllWhole, Ready, Loaded
<1>8. JobsMatch => JobsMatch'
  <2>1. JobsMatch => \A v \in Threads : JobFits(task[v])'
    BY <1>2, <1>3, <1>4 DEF JobsMatch, JobFits, Copied, Busy, Ready
  <2>2. QED
    BY <1>2, <2>1 DEF JobsMatch, Ready
<1>9. DiskMatches => DiskMatches'
  BY <1>2, <1>3 DEF DiskMatches, Ready, Changing
<1>10. ASSUME NothingLeft, "fault" \notin upset' PROVE NothingLeft'
  <2>1. files = mem.assets \union a.drop
    BY <1>2, <1>10 DEF NothingLeft, LeftFits
  <2>2. files' = mem'.assets
    BY <1>2, <1>5, <1>10, <2>1
  <2>3. \A v \in Threads : LeftFits(task[v])'
    BY <1>3, <1>4 DEF LeftFits, Copied, Changing
  <2>4. QED
    BY <1>2, <1>3, <2>2, <2>3 DEF NothingLeft
<1>11. QED
  BY <1>3, <1>6, <1>7, <1>8, <1>9, <1>10 DEF StoreInv

\* With nothing under way the store is what its index says.
LEMMA IdleStore ==
  ASSUME WorkInv, \A v \in Threads : task'[v] = Idle,
         Ready' => mem'.assets \subseteq files', Loaded(disk)' => disk'.assets \subseteq files',
         "deleted" \notin upset' => (Ready' => Whole(mem)') /\ (Loaded(disk)' => Whole(disk)'),
         {"fault", "unread"} \intersect upset' = {} /\ Ready' => Running(mem)' = {},
         "fault" \notin upset' /\ Ready' => disk' \in {mem', Missing},
         {"fault", "ended", "deleted"} \intersect upset' = {} =>
           /\ mem' = Down => files' = {} /\ (Loaded(disk)' => disk'.assets = {} /\ disk'.turns = {} /\ disk'.jobs = {})
           /\ Ready' => files' = mem'.assets
  PROVE  StoreInv'
<1>1. Idle.at = "idle" /\ Idle.kind = "command" /\ ~ Copied(Idle) /\ ~ Busy(Idle)
  BY IdleFits DEF Copied, Busy
<1>2. Single'
  BY <1>1 DEF Single, Changing
<1>3. \A v \in Threads : FileFits(task[v])' /\ WholeFits(task[v])' /\ JobFits(task[v])' /\ LeftFits(task[v])'
  BY <1>1 DEF FileFits, WholeFits, JobFits, LeftFits, Copied, Busy
<1>4. QED
  BY <1>2, <1>3 DEF StoreInv, FilesThere, AllWhole, JobsMatch, DiskMatches, NothingLeft

LEMMA OpenStoreKeeps ==
  ASSUME WorkInv, StoreInv, OpenStore
  PROVE  StoreInv'
<1>1. SUFFICES ASSUME "overlap" \notin upset' PROVE StoreInv'
  BY DEF StoreInv
<1>2. /\ mem = Down /\ task' = task /\ op' = op /\ upset \subseteq upset'
  BY DEF OpenStore, Mark
<1>3. /\ \A v \in Threads : task[v] = Idle /\ task'[v] = Idle
      /\ ~ Ready /\ op = None
  BY <1>2 DEF WorkInv, StoreIsThere, Ready
<1>4. /\ FilesThere
      /\ "deleted" \notin upset' => AllWhole
      /\ {"fault", "ended", "deleted"} \intersect upset' = {} => NothingLeft
  BY <1>1, <1>2 DEF StoreInv
<1>5. CASE /\ Loaded(disk) /\ mem' = Interrupted(disk)
           /\ LET kept == files \intersect (mem'.assets \union Referenced(mem')) IN
              \/ disk' = mem' /\ files' = kept
              \/ disk' \in {disk, mem'} /\ files' \in {files, kept} /\ "fault" \in upset'
  <2> DEFINE i == disk
             new == Interrupted(i)
             kept == files \intersect (new.assets \union Referenced(new))
  <2>1. i \in Index
    BY <1>5 DEF WorkInv, StoreTypes, Loaded
  <2>2. new \in Index /\ Retold(new, i) /\ new.jobs = {Halted(j) : j \in i.jobs}
    BY <2>1, IndexChanges, ChangesRetell
  <2>3. Running(new) = {}
    BY <2>1, <2>2, HaltedJobs DEF Running
  <2>4. \A j \in new.jobs : \E k \in i.jobs : j.turn = k.turn /\ j.out = k.out
    BY <2>1, <2>2, HaltedJobs
  <2>5. new.assets = i.assets /\ (Whole(i) => Whole(new))
    BY <2>2, <2>4, RetoldKeeps DEF Retold
  <2>6. PICK c : c = new
    OBVIOUS
  <2>7. /\ mem' = c /\ disk' \in {i, c} /\ files' \in {files, kept}
        /\ "fault" \notin upset' => disk' = c /\ files' = kept
    BY <1>5, <2>6
  <2>8. i.assets \subseteq files /\ i.assets \subseteq kept
    BY <1>4, <1>5, <2>5 DEF FilesThere
  <2>9. "deleted" \notin upset' => Whole(i) /\ Whole(c)
    BY <1>4, <1>5, <2>5, <2>6 DEF AllWhole
  <2>10. {"fault", "ended", "deleted"} \intersect upset' = {} => i.assets = {} /\ files = {}
    BY <1>2, <1>4, <1>5 DEF NothingLeft
  <2>11. Ready' /\ mem' # Down
    BY <2>2, <2>6, <2>7, Distinct DEF Ready
  <2>12. c.assets = i.assets /\ Running(c) = {}
    BY <2>3, <2>5, <2>6
  <2>13. /\ {"fault", "ended", "deleted"} \intersect upset' = {} => files' = {} /\ c.assets = {}
    BY <2>7, <2>10, <2>12
  <2>14. \A d : mem' = d => Whole(mem)' = Whole(d) /\ Running(mem)' = Running(d)
    BY DEF Whole, Running, Ids
  <2>15. "deleted" \notin upset' => Whole(mem)' /\ Whole(disk)'
    <3>1. CASE disk' = c
      BY <2>7, <2>9, <3>1 DEF Whole, Ids
    <3>2. CASE disk' = i
      BY <2>7, <2>9, <3>2 DEF Whole, Ids
    <3>3. QED
      BY <2>7, <3>1, <3>2
  <2>16. Running(mem)' = {}
    BY <2>7, <2>12 DEF Running
  <2>17. mem'.assets \subseteq files' /\ disk'.assets \subseteq files'
    BY <2>7, <2>8, <2>12
  <2> HIDE DEF i, new, kept
  <2>18. QED
    BY <1>3, <2>7, <2>11, <2>13, <2>15, <2>16, <2>17, IdleStore
<1>6. CASE disk = Missing /\ mem' = Empty /\ UNCHANGED <<disk, files, upset>>
  <2>1. ~ Loaded(disk)' /\ Empty # Down
    BY <1>6, EmptyIsIndex, Distinct DEF Loaded
  <2>2. mem'.assets = {} /\ Whole(mem)' /\ Running(mem)' = {}
    BY <1>6 DEF Empty, Whole, Running
  <2>3. {"fault", "ended", "deleted"} \intersect upset' = {} => files' = {}
    BY <1>2, <1>4, <1>6 DEF NothingLeft
  <2>4. QED
    BY <1>3, <1>6, <2>1, <2>2, <2>3, IdleStore
<1>7. CASE mem' \in {Corrupt, Incompatible} /\ UNCHANGED <<disk, files>>
  <2>1. ~ Ready' /\ mem' # Down
    BY <1>7, Distinct DEF Ready
  <2>2. Loaded(disk)' => disk'.assets \subseteq files'
    BY <1>4, <1>7 DEF FilesThere, Loaded
  <2>3. "deleted" \notin upset' => (Loaded(disk)' => Whole(disk)')
    BY <1>4, <1>7 DEF AllWhole, Loaded, Whole, Ids
  <2>4. QED
    BY <1>3, <2>1, <2>2, <2>3, IdleStore
<1>8. QED
  BY <1>5, <1>6, <1>7 DEF OpenStore, Mark

LEMMA PerishStore ==
  ASSUME WorkInv, StoreInv, Perish
  PROVE  StoreInv'
<1>1. SUFFICES ASSUME "overlap" \notin upset' PROVE StoreInv'
  BY DEF StoreInv
<1>2. /\ mem' = Down /\ UNCHANGED <<disk, files>> /\ upset \subseteq upset' /\ "ended" \in upset'
      /\ \A v \in Threads : task'[v] = Idle
  BY DEF Perish, Mark
<1>3. ~ Ready'
  BY <1>2 DEF Ready
<1>4. Loaded(disk)' => disk'.assets \subseteq files'
  BY <1>1, <1>2 DEF StoreInv, FilesThere, Loaded
<1>5. "deleted" \notin upset' => (Loaded(disk)' => Whole(disk)')
  BY <1>1, <1>2 DEF StoreInv, AllWhole, Loaded, Whole, Ids
<1>6. QED
  BY <1>2, <1>3, <1>4, <1>5, IdleStore

LEMMA StillStore ==
  ASSUME StoreInv, UNCHANGED <<mem, disk, files, op, task, upset>>
  PROVE  StoreInv'
<1>1. (\A w \in Threads : FileFits(task[w])') <=> (\A w \in Threads : FileFits(task[w]))
  BY DEF FileFits, Copied, Loaded
<1>2. (\A w \in Threads : WholeFits(task[w])') <=> (\A w \in Threads : WholeFits(task[w]))
  BY DEF WholeFits, Copied
<1>3. (\A w \in Threads : JobFits(task[w])') <=> (\A w \in Threads : JobFits(task[w]))
  BY DEF JobFits, Copied, Ready
<1>4. (\A w \in Threads : LeftFits(task[w])') <=> (\A w \in Threads : LeftFits(task[w]))
  BY DEF LeftFits, Copied, Ready
<1>5. /\ FilesThere' <=> FilesThere
      /\ AllWhole' <=> AllWhole
      /\ JobsMatch' <=> JobsMatch
      /\ DiskMatches' <=> DiskMatches
      /\ NothingLeft' <=> NothingLeft
      /\ Single' <=> Single
  BY <1>1, <1>2, <1>3, <1>4
     DEF FilesThere, AllWhole, JobsMatch, DiskMatches, NothingLeft, Single, Ready, Loaded, Changing
<1>6. QED
  BY <1>5 DEF StoreInv

LEMMA StoreInit ==
  ASSUME WorkbenchInit
  PROVE  StoreInv
<1>1. /\ mem = Down /\ files = {} /\ upset = {} /\ \A w \in Threads : task[w] = Idle
  BY DEF WorkbenchInit
<1>2. Idle.at = "idle" /\ Idle.kind = "command" /\ ~ Copied(Idle) /\ ~ Busy(Idle)
  BY IdleFits DEF Copied, Busy
<1>3. ~ Ready
  BY <1>1 DEF Ready
<1>4. Loaded(disk) => disk.assets = {} /\ disk.turns = {} /\ disk.jobs = {}
  <2>1. CASE ever = 0
    <3>1. work.found \notin Convs /\ work \in Amounts
      BY <2>1, Distinct, WorkbenchAssumption DEF WorkbenchInit, Convs
    <3>2. work.found \in {Missing, Corrupt, Incompatible}
      BY <3>1 DEF Amounts, Convs
    <3>3. QED
      BY <2>1, <3>2 DEF WorkbenchInit, Loaded
  <2>2. CASE ever # 0
    BY <2>2 DEF WorkbenchInit, Empty
  <2>3. QED
    BY <2>1, <2>2
<1>5. Single /\ \A v \in Threads : FileFits(task[v]) /\ WholeFits(task[v]) /\ JobFits(task[v]) /\ LeftFits(task[v])
  BY <1>1, <1>2 DEF Single, Changing, FileFits, WholeFits, JobFits, LeftFits, Copied, Busy
<1>6. Loaded(disk) => Whole(disk)
  BY <1>4 DEF Whole
<1>7. QED
  BY <1>1, <1>3, <1>4, <1>5, <1>6 DEF StoreInv, FilesThere, AllWhole, JobsMatch, DiskMatches, NothingLeft

LEMMA WorkbenchStore ==
  ASSUME WorkInv, StoreInv, WorkbenchNext
  PROVE  StoreInv'
<1>0. Main \in Threads /\ Tasks \subseteq Threads
  BY Distinct
<1>1. ASSUME NEW w \in Threads,
             Commit(w) \/ Wipe(w) \/ Publish(w) \/ Remove(w) \/ WriteImage(w) \/ IndexImage(w)
      PROVE  StoreInv'
  BY <1>1, CommitStore, WipeStore, PublishStore, RemoveStore, WriteStore, IndexStore
<1>2. ASSUME NEW w \in Threads,
             AddTurn(w) \/ Chat(w) \/ Talk(w) \/ Fail(w) \/ Plan(w) \/ NextJob(w) \/ Again(w)
             \/ ReadImage(w) \/ Dial(w) \/ Answer(w) \/ Finish(w) \/ Close(w)
      PROVE  StoreInv'
  BY <1>2, OperationStore, AskingStore, AnswerStore
<1>3. ASSUME NEW w \in Threads, Imported(w) \/ End(w)
      PROVE  StoreInv'
  BY <1>3, ShortStore
<1>4. ASSUME NEW w \in Threads, Continue(w) PROVE StoreInv'
  BY <1>1, <1>2, <1>3, <1>4 DEF Continue
<1>5. ASSUME NEW w \in Tasks,
             Create(w) \/ Select(w) \/ SetOptions(w) \/ Delete(w) \/ Rebuild(w) \/ Import(w)
             \/ Send(w) \/ Regenerate(w)
      PROVE  StoreInv'
  BY <1>0, <1>5, CommandStore, RebuildStore, ImportStore, BeginStore
<1>6. QED
  BY <1>0, <1>1, <1>4, <1>5, ShortStore, StopStore DEF WorkbenchNext

LEMMA StoreSteps ==
  ASSUME ShellInv, StoreInv, [Next]_desktop
  PROVE  StoreInv'
<1>0. WorkInv
  BY DEF ShellInv
<1>1. ASSUME UNCHANGED workbench PROVE StoreInv'
  BY <1>1, StillStore DEF workbench
<1>2. CASE WorkbenchNext
  BY <1>0, <1>2, WorkbenchStore
<1>3. CASE ExitRequested
  BY <1>0, <1>3, ShortStore DEF ExitRequested
<1>4. CASE Exit \/ Killed
  BY <1>0, <1>4, PerishStore DEF Exit, Killed, Over
<1>5. CASE Launch
  BY <1>0, <1>5, OpenStoreKeeps DEF Launch
<1>6. CASE Watch \/ BeginCommand \/ Operate \/ FinishOperation
  BY <1>1, <1>6 DEF Watch, PollStart, PollAnswer, PollApply, AskStatus, AnswerStatus, Move, BeginCommand,
                    Operate, FinishOperation
<1>7. CASE TrayQuit \/ ResolveQuit \/ ExecuteQuit \/ EditDraft \/ WindowGone \/ GoOn \/ PreventExit
  BY <1>1, <1>7 DEF TrayQuit, ResolveQuit, ExecuteQuit, EditDraft, WindowGone, GoOn, PreventExit
<1>8. CASE UNCHANGED desktop
  BY <1>1, <1>8 DEF desktop
<1>9. QED
  BY <1>2, <1>3, <1>4, <1>5, <1>6, <1>7, <1>8 DEF Next, Handle

-----------------------------------------------------------------------------
(* Theorems of the specification. *)

LEMMA ShellSafe ==
  Spec => []ShellInv
<1>1. ShellInit => ShellInv
  BY ShellStarts
<1>2. ShellInv /\ [Next]_desktop => ShellInv'
  BY ShellSteps
<1>3. QED
  BY <1>1, <1>2, PTL DEF Spec

\* Whatever commands, updates, quits, faults and ends of the process there are, the
\* workbench and the shell keep to their types.
THEOREM TypeCorrect ==
  Spec => []ShellTypeOK
<1>1. ShellInv => ShellTypeOK
  <2>1. SUFFICES ASSUME ShellInv PROVE ShellTypeOK
    OBVIOUS
  <2>2. WorkbenchTypeOK
    BY <2>1 DEF ShellInv, WorkInv, StoreTypes, TasksFit, WorkbenchTypeOK
  <2>3. (oper # None) = lc.active
    <3>1. lc.active \in BOOLEAN
      BY <2>1 DEF ShellInv, LifeTypes, Lives
    <3>2. oper # None <=> lc.active = TRUE
      BY <2>1 DEF ShellInv, LifeFits
    <3>3. QED
      BY <3>1, <3>2
  <2>4. QED
    BY <2>1, <2>2, <2>3 DEF ShellInv, StatusTypes, LifeTypes, ShellTypeOK, Lives, Goings, Pages, Status, Watches
<1>2. QED
  BY <1>1, ShellSafe, PTL

\* The package is replaced only while no router of the desktop runs, unless one came back
\* after the last look, and a router that was stopped for it is started again when the
\* installer fails.
THEOREM UpdateIsSafe ==
  Spec => []UpdateSafe
<1>1. ShellInv => UpdateSafe
  BY DEF ShellInv
<1>2. QED
  BY <1>1, ShellSafe, PTL

\* Once nothing is under way and no poll is due, what the snapshot shows is what the
\* router is, however polls, status commands and operations overtook each other.
THEOREM ShownIsSo ==
  Spec => []ShownIsCurrent
<1>1. ShellInv => ShownIsCurrent
  <2>1. SUFFICES ASSUME ShellInv, ~ Fact("moved"), oper = None, asker = None, poll = None, ~ due
                 PROVE  /\ shown.status \in {router, "error"}
                        /\ shown.release = "released" => shown.status = "absent"
    BY DEF ShownIsCurrent
  <2>2. due = FALSE /\ ~ Pending
    BY <2>1 DEF ShellInv, StatusTypes, Pending
  <2>3. QED
    BY <2>1, <2>2 DEF ShellInv, Corrected, Current
<1>2. QED
  BY <1>1, ShellSafe, PTL

\* However the exit is asked for, the process ends only when a quit or a restart was
\* granted, not in the middle of a lifecycle operation, and not with a draft that
\* nobody gave up.
THEOREM QuitIsSafe ==
  Spec => QuitSafe
<1>1. ASSUME ShellInv, [Next]_desktop, mem # Down, mem' = Down, work' = work,
             ~ (going.update = "try" /\ play.windows)
      PROVE  /\ lc.quit = "exiting"
             /\ oper = None \/ oper.kind = "quit"
             /\ webview.draft => facts \intersect {"late", "raced", "restart"} # {}
  <2>0. WorkInv /\ LifeFits /\ LifeTypes /\ DraftFits
    BY <1>1 DEF ShellInv
  <2>1. Exit
    <3>1. ~ WorkbenchNext
      BY <1>1, <2>0, WorkbenchKeeps
    <3>2. ~ Killed
      BY <1>1, <2>0, SpendTypes DEF Killed, WorkInv, StoreTypes
    <3>3. ~ Launch
      BY <1>1, <2>0, OpenKeeps DEF Launch
    <3>4. ~ UNCHANGED mem
      BY <1>1
    <3>5. ~ ExitRequested
      BY <3>4 DEF ExitRequested, Interrupt
    <3>6. ~ (Watch \/ BeginCommand \/ Operate \/ FinishOperation)
      BY <3>4 DEF Watch, PollStart, PollAnswer, PollApply, AskStatus, AnswerStatus, Move, BeginCommand,
                  Operate, FinishOperation, workbench
    <3>7. ~ (TrayQuit \/ ResolveQuit \/ ExecuteQuit \/ EditDraft \/ WindowGone \/ GoOn \/ PreventExit)
      BY <3>4 DEF TrayQuit, ResolveQuit, ExecuteQuit, EditDraft, WindowGone, GoOn, PreventExit, workbench
    <3>8. ~ UNCHANGED desktop
      BY <3>4 DEF desktop, workbench
    <3>9. QED
      BY <1>1, <3>1, <3>2, <3>3, <3>5, <3>6, <3>7, <3>8 DEF Next, Handle
  <2>2. lc.quit = "exiting"
    BY <1>1, <2>1 DEF Exit
  <2>3. oper = None \/ oper.kind = "quit"
    BY <2>0, <2>2 DEF LifeFits
  <2>4. webview.draft => Excused
    <3>1. webview.draft \in BOOLEAN
      BY <2>0 DEF LifeTypes, Pages
    <3>2. QED
      BY <2>0, <2>2, <3>1 DEF DraftFits
  <2>5. Excused => facts \intersect {"late", "raced", "restart"} # {}
    BY DEF Excused, Edited, Fact
  <2>6. QED
    BY <2>2, <2>3, <2>4, <2>5
<1>2. ShellInv /\ [Next]_desktop =>
        [mem # Down /\ mem' = Down /\ work' = work /\ ~ (going.update = "try" /\ play.windows) =>
           /\ lc.quit = "exiting"
           /\ oper = None \/ oper.kind = "quit"
           /\ webview.draft => facts \intersect {"late", "raced", "restart"} # {}]_desktop
  BY <1>1
<1>3. QED
  BY <1>2, ShellSafe, PTL DEF Spec, QuitSafe

\* Whatever fails, crashes or is told to stop: unless two changes of the store
\* overlapped, every image the index names is there, in memory and on disk, no image
\* is lost with its message and no job is shown as running when none is; without a
\* fault the index on disk is the one in memory and no other image is left behind.
THEOREM IndexIsSo ==
  Spec => []IndexIsTrue
<1>1. ShellInit => ShellInv /\ StoreInv
  BY ShellStarts, StoreInit DEF ShellInit
<1>2. ShellInv /\ StoreInv /\ [Next]_desktop => ShellInv' /\ StoreInv'
  BY ShellSteps, StoreSteps
<1>3. ShellInv /\ StoreInv => IndexIsTrue
  <2>1. SUFFICES ASSUME ShellInv, StoreInv, "overlap" \notin upset PROVE IndexIsTrue
    BY DEF IndexIsTrue, Not
  <2>2. WorkInv /\ Single /\ FilesThere
    BY <2>1 DEF ShellInv, StoreInv
  <2>3. /\ Ready => mem.assets \subseteq files
        /\ Loaded(disk) => disk.assets \subseteq files
    BY <2>2 DEF FilesThere
  <2>4. Ready /\ Not({"deleted"}) =>
         /\ \A j \in mem.jobs : /\ j.out \in mem.assets \union {None}
                               /\ \E t \in mem.turns : t.id = j.turn
         /\ \A t \in mem.turns : t.conv \in mem.convs
    <3>1. SUFFICES ASSUME Ready, Not({"deleted"})
                   PROVE  /\ \A j \in mem.jobs : /\ j.out \in mem.assets \union {None}
                                                 /\ \E t \in mem.turns : t.id = j.turn
                          /\ \A t \in mem.turns : t.conv \in mem.convs
      OBVIOUS
    <3>2. Whole(mem)
      BY <2>1, <3>1 DEF StoreInv, AllWhole, Not
    <3>3. QED
      BY <3>2 DEF Whole, Ids
  <2>5. Ready /\ op = None /\ Not({"fault", "unread"}) => \A j \in mem.jobs : j.status # "running"
    BY <2>1 DEF StoreInv, JobsMatch, Not, Running
  <2>6. Ready /\ Quiet /\ Not({"fault"}) =>
         /\ disk = IF Loaded(disk) THEN mem ELSE Missing
         /\ Not({"ended", "deleted"}) => files = mem.assets
    <3>1. SUFFICES ASSUME Ready, Quiet, Not({"fault"})
                   PROVE  /\ disk = IF Loaded(disk) THEN mem ELSE Missing
                          /\ Not({"ended", "deleted"}) => files = mem.assets
      OBVIOUS
    <3>2. \A w \in Threads : task[w].at # "publish" /\ ~ Changing(w)
      BY <3>1, IdleFits DEF Quiet, Changing
    <3>3. disk \in {mem, Missing}
      BY <2>1, <3>1, <3>2 DEF StoreInv, DiskMatches, Not
    <3>4. mem \in Index
      BY <2>2, <3>1 DEF WorkInv, StoreTypes, Ready
    <3>5. disk = IF Loaded(disk) THEN mem ELSE Missing
      BY <3>3, <3>4, Distinct DEF Loaded
    <3>6. Not({"ended", "deleted"}) => files = mem.assets
      BY <2>1, <3>1, <3>2 DEF StoreInv, NothingLeft, Not
    <3>7. QED
      BY <3>5, <3>6
  <2>7. QED
    BY <2>3, <2>4, <2>5, <2>6 DEF IndexIsTrue
<1>4. QED
  BY <1>1, <1>2, <1>3, PTL DEF Spec

=============================================================================
