------------------------------- MODULE Workbench -------------------------------
(* The chat images workbench: an index of conversations, messages, jobs and
   images, in memory and as index.json, the image files beside it, and the one
   operation that chats and generates.

   Every change of the store takes a copy of the index under the lock, changes
   the copy, writes it to disk and then puts it in memory under the lock again:
   three steps, between which other commands take theirs.  write_atomic may fail
   with the new content already in place.  The two messages of a send are a turn;
   texts, models and sizes are left out, except whether a conversation's models
   are still offered.  Commands that change nothing are left out too. *)
EXTENDS Naturals, FiniteSets

CONSTANTS Images, None,
          Down, Missing, Corrupt, Incompatible,  \* not an index
          MaxTasks,    \* commands that may be under way at once
          MaxConvs,    \* bound on conversations ever made
          MaxTurns,    \* bound on sends
          MaxJobs,     \* bound on the images of one send
          Works        \* how much may happen: one is chosen at the start

\* What index.json is at first (or its conversations), and the bounds: commands of
\* each sort, sends, regenerations, stops, disk faults, ends of the process, and images.
Amounts == [found: {Missing, Corrupt, Incompatible} \union (1..MaxConvs),
            creates: Nat, picks: Nat, deletes: Nat, imports: Nat, sends: 0..MaxTurns,
            regens: Nat, stops: Nat, faults: Nat, ends: Nat, images: SUBSET Images]

ASSUME WorkbenchAssumption ==
  /\ MaxTasks \in Nat /\ MaxConvs \in Nat /\ MaxTurns \in Nat /\ MaxJobs \in Nat
  /\ Works \subseteq Amounts

VARIABLES mem,     \* StoreState: an index, Corrupt or Incompatible; or Down
          disk,    \* index.json: an index, Missing, Corrupt or Incompatible
          files,   \* the images in assets/
          op,      \* the operation: None, or whether it was told to stop
          task,    \* what each command is doing
          seen,    \* images the page was given since the process started
          ever,    \* conversations made so far
          upset,   \* what has happened that the properties must know
          work     \* what is left of the bounds

workbench == <<mem, disk, files, op, task, seen, ever, upset, work>>
page == <<seen, ever>>

Tasks == 1..MaxTasks
Main == 0     \* the event loop, which interrupts the operation on exit
Threads == Tasks \union {Main}
Convs == 1..MaxConvs
Turn == [id: 1..MaxTurns, conv: Convs, ref: Images \union {None},
         phase: {"none", "requesting", "imaging", "interrupted"}, err: BOOLEAN]
Job == [turn: 1..MaxTurns, k: 1..MaxJobs, edit: BOOLEAN,
        status: {"running", "succeeded", "failed", "cancelled", "interrupted"},
        out: Images \union {None}]
Index == [sel: Convs \union {None}, convs: SUBSET Convs, offered: SUBSET Convs,
          turns: SUBSET Turn, jobs: SUBSET Job, assets: SUBSET Images]
Empty == [sel |-> None, convs |-> {}, offered |-> {}, turns |-> {}, jobs |-> {}, assets |-> {}]

\* What a command carries: the index it is about to write and the files it is to
\* remove, where it goes on after that or after a failure, the image in hand, and
\* the operation's own values.
Points == {"idle", "commit", "wipe", "publish", "remove", "write", "index", "turn", "chat",
           "talk", "fail", "plan", "job", "read", "dial", "wait", "finish", "close", "end", "mark"}
Kinds == {"command", "rebuild", "send", "regenerate"}
Activity == [at: Points, kind: Kinds, new: Index \union {None}, drop: SUBSET Images,
             then: Points, else: Points, img: Images \union {None},
             conv: Convs \union {None}, ref: Images \union {None}, turn: 0..MaxTurns,
             k: 0..MaxJobs + 1, n: 0..MaxJobs, edits: SUBSET (1..MaxJobs)]
Idle == [at |-> "idle", kind |-> "command", new |-> None, drop |-> {}, then |-> "idle",
         else |-> "idle", img |-> None, conv |-> None, ref |-> None, turn |-> 0, k |-> 0,
         n |-> 0, edits |-> {}]

\* None and the stores that are no index are values of their own.
ASSUME StoreAssumption ==
  /\ None \notin Images \union {"runs", "stops"}
  /\ {Down, Missing, Corrupt, Incompatible} \intersect Index = {}
  /\ Down \notin {Missing, Corrupt, Incompatible} /\ Missing \notin {Corrupt, Incompatible}
  /\ Corrupt # Incompatible

\* overlap: two changes of the store overlapped; deleted: a conversation was
\* deleted during an operation; unread: an image could not be read; fault: a
\* write failed; ended: the process ended.
Upsets == {"overlap", "deleted", "unread", "fault", "ended"}

WorkbenchTypeOK ==
  /\ mem \in Index \union {Down, Corrupt, Incompatible}
  /\ disk \in Index \union {Missing, Corrupt, Incompatible}
  /\ files \subseteq Images /\ seen \subseteq Images /\ ever \in 0..MaxConvs
  /\ op \in {None, "runs", "stops"}
  /\ task \in [Threads -> Activity]
  /\ upset \subseteq Upsets /\ work \in Amounts

-----------------------------------------------------------------------------
(* The store. *)

Ready == mem \notin {Down, Corrupt, Incompatible}
Loaded(d) == d \notin {Missing, Corrupt, Incompatible}
At(w, p) == task[w].at = p
Spend(what) == work[what] > 0 /\ work' = [work EXCEPT ![what] = @ - 1]
Mark(u) == upset' = upset \union u

Step(w, p) == task' = [task EXCEPT ![w].at = p]

\* A change of the store overlaps with another one that has begun.
Changing(w) == task[w].at \in {"commit", "wipe", "publish", "remove", "write", "index"}
Overlap(w) == IF \E v \in Threads \ {w} : Changing(v) THEN {"overlap"} ELSE {}

\* The copy of the index is taken and changed.
Change(w, new, act) ==
  /\ Ready
  /\ task' = [task EXCEPT ![w] = [act EXCEPT !.at = "commit", !.new = new]]
  /\ Mark(Overlap(w))
  /\ UNCHANGED <<mem, disk, files, op>>

\* apply() of the operation: it goes on at `then`, or ends with the error.
Apply(w, new, then) ==
  /\ Change(w, new, [task[w] EXCEPT !.then = then, !.else = "end"])
  /\ UNCHANGED <<page, work>>

\* A command goes on at p; after a failure without what it had in hand.
Onward(a, p) == IF p = "idle" THEN [Idle EXCEPT !.img = a.img] ELSE [a EXCEPT !.at = p, !.new = None]
Broken(w) == Onward([task[w] EXCEPT !.img = None], task[w].else)

\* commit(): index.json is replaced, or the write fails, perhaps afterwards.
Commit(w) ==
  /\ At(w, "commit")
  /\ \/ /\ disk' = task[w].new
        /\ task' = [task EXCEPT ![w].at = IF task[w].kind = "rebuild" THEN "wipe" ELSE "publish"]
        /\ UNCHANGED <<upset, work>>
     \/ /\ Spend("faults") /\ Mark({"fault"})
        /\ disk' \in {disk, task[w].new}
        /\ task' = [task EXCEPT ![w] = Broken(w)]
  /\ UNCHANGED <<mem, files, op, page>>

\* The rest of persist(): the copy becomes the index.
Publish(w) ==
  /\ At(w, "publish")
  /\ mem' = task[w].new
  /\ task' = [task EXCEPT ![w] = Onward(@, @.then)]
  /\ Mark(IF op # None /\ task[w].then = "remove" THEN {"deleted"} ELSE {})
  /\ UNCHANGED <<disk, files, op, page, work>>

-----------------------------------------------------------------------------
(* Commands on conversations and images. *)

\* Tasks are alike: a command is the first one that is free.
Free(w) == w \in Tasks /\ task[w] = Idle /\ \A v \in Tasks : v < w => task[v] # Idle

Command(w, what) == Free(w) /\ mem # Down /\ Spend(what)

\* create_conversation(), with models that are offered.
Create(w) ==
  /\ Command(w, "creates")
  /\ ever < MaxConvs /\ ever' = ever + 1
  /\ Change(w, [mem EXCEPT !.sel = ever', !.convs = @ \union {ever'}, !.offered = @ \union {ever'}],
            Idle)
  /\ UNCHANGED seen

Select(w) ==
  /\ Command(w, "picks") /\ Ready
  /\ \E c \in mem.convs \ {mem.sel} : Change(w, [mem EXCEPT !.sel = c], Idle)
  /\ UNCHANGED page

\* set_options(): models that are offered, or not.
SetOptions(w) ==
  /\ Command(w, "picks") /\ Ready
  /\ \E c \in mem.convs :
       \E o \in {mem.offered \union {c}, mem.offered \ {c}} \ {mem.offered} :
         Change(w, [mem EXCEPT !.offered = o], Idle)
  /\ UNCHANGED page

MutantReferenced(i) == {t.ref : t \in i.turns} \ {None}

Referenced(i) == ({t.ref : t \in i.turns} \union {j.out : j \in i.jobs}) \ {None}

\* The index without the conversation, its messages and their jobs, and without
\* every image nothing refers to, also one imported and not yet sent.
Without(i, c) ==
  LET gone == {t.id : t \in {u \in i.turns : u.conv = c}}
      rest == [i EXCEPT !.convs = @ \ {c}, !.offered = @ \ {c},
                        !.turns = {t \in @ : t.conv # c}, !.jobs = {j \in @ : j.turn \notin gone}]
  IN [rest EXCEPT !.assets = @ \intersect Referenced(rest)]

\* delete_conversation(): then another conversation is the selected one.
Delete(w) ==
  /\ Command(w, "deletes") /\ Ready
  /\ \E c \in mem.convs :
       LET i == Without(mem, c) IN
       \E s \in IF mem.sel # c THEN {mem.sel} ELSE IF i.convs = {} THEN {None} ELSE i.convs :
         Change(w, [i EXCEPT !.sel = s],
                [Idle EXCEPT !.then = "remove", !.drop = mem.assets \ i.assets])
  /\ UNCHANGED page

\* The files of the images it dropped are removed, or cannot be.
Remove(w) ==
  /\ At(w, "remove")
  /\ \/ files' = files \ task[w].drop /\ UNCHANGED <<upset, work>>
     \/ task[w].drop # {} /\ Spend("faults") /\ Mark({"fault"}) /\ UNCHANGED files
  /\ task' = [task EXCEPT ![w] = Idle]
  /\ UNCHANGED <<mem, disk, op, page>>

\* rebuild(): an empty index, and the images are deleted before it is shown.  It would
\* do so at any time: that the index is corrupt, and that it is asked for once, is the
\* rule of its only caller, the page.
Rebuild(w) ==
  /\ Free(w) /\ mem = Corrupt /\ \A v \in Tasks : task[v].kind # "rebuild"
  /\ task' = [task EXCEPT ![w] = [Idle EXCEPT !.at = "commit", !.kind = "rebuild", !.new = Empty]]
  /\ Mark(Overlap(w))
  /\ UNCHANGED <<mem, disk, files, op, page, work>>

Wipe(w) ==
  /\ At(w, "wipe")
  /\ \/ /\ files' = {} /\ UNCHANGED <<upset, work>>
        /\ task' = [task EXCEPT ![w].at = "publish"]
     \/ /\ Spend("faults") /\ Mark({"fault"})
        /\ files' \in SUBSET files
        /\ \/ task' = [task EXCEPT ![w].at = "publish"]
           \/ task' = [task EXCEPT ![w] = Idle]
  /\ UNCHANGED <<mem, disk, op, page>>

\* pick_reference() and import_bytes().
Import(w) ==
  /\ Command(w, "imports")
  /\ \E i \in work.images : task' = [task EXCEPT ![w] = [Idle EXCEPT !.at = "write", !.img = i]]
  /\ Mark(Overlap(w))
  /\ UNCHANGED <<mem, disk, files, op, page>>

\* persist_asset(), of an import and of a generated image: the file is written
\* unless there is one of that content.
WriteImage(w) ==
  /\ At(w, "write")
  /\ \/ /\ files' = files \union {task[w].img}
        /\ task' = [task EXCEPT ![w].at = "index"]
        /\ UNCHANGED <<upset, work>>
     \/ /\ task[w].img \notin files /\ Spend("faults") /\ Mark({"fault"})
        /\ files' \in {files, files \union {task[w].img}}
        /\ task' = [task EXCEPT ![w] = Broken(w)]
  /\ UNCHANGED <<mem, disk, op, page>>

\* Then its entry is added, unless the index has it.
IndexImage(w) ==
  /\ At(w, "index")
  /\ \/ ~ Ready /\ task' = [task EXCEPT ![w] = Broken(w)] /\ UNCHANGED <<mem, disk, files, op, upset>>
     \/ /\ Ready /\ task[w].img \in mem.assets
        /\ task' = [task EXCEPT ![w] = Onward(@, @.then)]
        /\ UNCHANGED <<mem, disk, files, op, upset>>
     \/ /\ Ready /\ task[w].img \notin mem.assets
        /\ Change(w, [mem EXCEPT !.assets = @ \union {task[w].img}], task[w])
  /\ UNCHANGED <<page, work>>

\* The page learns of an imported image when the command has returned.
Imported(w) ==
  /\ At(w, "idle") /\ task[w].img # None
  /\ seen' = seen \union {task[w].img}
  /\ task' = [task EXCEPT ![w] = Idle]
  /\ UNCHANGED <<mem, disk, files, op, ever, upset, work>>


-----------------------------------------------------------------------------
(* The operation: send() and regenerate(), one at a time. *)

\* begin_operation() and the checks that come with it.  A send takes the id of
\* its turn; the reference is one of the images the page knows.
Send(w) ==
  /\ Free(w) /\ op = None /\ Ready /\ Spend("sends")
  /\ op' = "runs"
  /\ \E c \in mem.convs \intersect mem.offered, r \in seen \union {None} :
       task' = [task EXCEPT ![w] =
                  [Idle EXCEPT !.at = "turn", !.kind = "send", !.conv = c, !.ref = r,
                               !.turn = MaxTurns + 1 - work.sends]]
  /\ UNCHANGED <<mem, disk, files, page, upset>>

\* The messages are added even when the conversation is gone by now.
AddTurn(w) ==
  /\ At(w, "turn")
  /\ LET a == task[w]
         t == [id |-> a.turn, conv |-> a.conv, ref |-> a.ref, phase |-> "requesting", err |-> FALSE]
     IN Apply(w, [mem EXCEPT !.turns = @ \union {t}], "chat")

\* BoundSession::connect() and its handshake.  An error leaves the turn as it is.
Chat(w) ==
  /\ At(w, "chat")
  /\ Step(w, "end") \/ (op = "runs" /\ Step(w, "talk"))
  /\ UNCHANGED <<mem, disk, files, op, page, upset, work>>

\* last_success_asset(): the output of the latest job that succeeded.
Succeeded(i, c) ==
  {j \in i.jobs : j.status = "succeeded" /\ \E t \in i.turns : t.id = j.turn /\ t.conv = c}
Before(j, k) == j.turn < k.turn \/ (j.turn = k.turn /\ j.k < k.k)
LastImage(i, c) ==
  LET js == Succeeded(i, c)
  IN IF js = {} THEN None ELSE (CHOOSE j \in js : \A k \in js : ~ Before(j, k)).out

\* The chat's answer and decide_jobs(): with a reference every job edits it, and
\* otherwise those that are to edit take the last image, which there must be.
Talk(w) ==
  /\ At(w, "talk")
  /\ LET a == task[w]
         last == IF a.ref # None THEN a.ref ELSE LastImage(mem, a.conv)
     IN \/ Step(w, "fail")
        \/ \E n \in 0..MaxJobs, edits \in SUBSET (1..MaxJobs) :
             /\ edits \subseteq 1..n
             /\ a.ref # None => n > 0 /\ edits = 1..n
             /\ edits # {} => last # None
             /\ task' = [task EXCEPT ![w] = [@ EXCEPT !.at = "plan", !.n = n, !.edits = edits,
                                                      !.ref = IF edits = {} THEN None ELSE last]]
  /\ UNCHANGED <<mem, disk, files, op, page, upset, work>>

\* fail_assistant().
Fail(w) ==
  /\ At(w, "fail")
  /\ Apply(w, [mem EXCEPT !.turns =
                 {IF t.id = task[w].turn THEN [t EXCEPT !.phase = "none", !.err = TRUE] ELSE t : t \in @}],
           "end")

SetPhase(i, turn, phase) ==
  [i EXCEPT !.turns = {IF t.id = turn THEN [t EXCEPT !.phase = phase] ELSE t : t \in @}]
SetJob(i, turn, k, status, out) ==
  [i EXCEPT !.jobs = {IF j.turn = turn /\ j.k = k THEN [j EXCEPT !.status = status, !.out = out]
                      ELSE j : j \in @}]

\* The jobs are added, even when their message is gone by now.
Plan(w) ==
  /\ At(w, "plan") /\ task[w].kind = "send"
  /\ LET a == task[w]
         added == {[turn |-> a.turn, k |-> k, edit |-> k \in a.edits, status |-> "running",
                    out |-> None] : k \in 1..a.n}
         i == SetPhase(mem, a.turn, IF a.n = 0 THEN "none" ELSE "imaging")
     IN Change(w, [i EXCEPT !.jobs = @ \union added],
               [a EXCEPT !.then = "job", !.else = "end", !.k = 1])
  /\ UNCHANGED <<page, work>>

\* The next job, unless the operation was stopped.
NextJob(w) ==
  /\ At(w, "job")
  /\ LET a == task[w] IN
     Step(w, IF a.k > a.n THEN "close" ELSE IF op = "stops" THEN "finish"
             ELSE IF a.k \in a.edits THEN "read" ELSE "dial")
  /\ UNCHANGED <<mem, disk, files, op, page, upset, work>>

\* regenerate(): the job runs again; an edit takes a reference or the last image.
Regenerate(w) ==
  /\ Free(w) /\ op = None /\ Ready /\ Spend("regens")
  /\ op' = "runs"
  /\ \E j \in mem.jobs, t \in mem.turns, r \in seen \union {None} :
       LET ref == IF ~ j.edit THEN None ELSE IF r # None THEN r ELSE LastImage(mem, t.conv) IN
       /\ t.id = j.turn /\ t.conv \in mem.convs
       /\ j.edit => ref # None
       /\ task' = [task EXCEPT ![w] =
                     [Idle EXCEPT !.at = "plan", !.kind = "regenerate", !.conv = t.conv,
                                  !.ref = ref, !.turn = j.turn, !.k = j.k]]
  /\ UNCHANGED <<mem, disk, files, page, upset>>

Again(w) ==
  /\ At(w, "plan") /\ task[w].kind = "regenerate"
  /\ LET a == task[w] IN
     Apply(w, SetJob(mem, a.turn, a.k, "running", None), IF a.ref = None THEN "dial" ELSE "read")

\* read_asset() of the reference.  An error ends the operation at once.
ReadImage(w) ==
  /\ At(w, "read")
  /\ \/ task[w].ref \in mem.assets \intersect files /\ Step(w, "dial") /\ UNCHANGED <<upset, work>>
     \/ /\ task[w].ref \notin mem.assets \intersect files
        /\ Step(w, "end") /\ Mark({"unread"}) /\ UNCHANGED work
     \/ Spend("faults") /\ Step(w, "end") /\ Mark({"unread"})
  /\ UNCHANGED <<mem, disk, files, op, page>>

\* connect() for the generation.
Dial(w) ==
  /\ At(w, "dial")
  /\ Step(w, "finish") \/ (op = "runs" /\ Step(w, "wait"))
  /\ UNCHANGED <<mem, disk, files, op, page, upset, work>>

\* The answer: an image, or an error, also because the deadline passed.
Answer(w) ==
  /\ At(w, "wait")
  /\ \/ Step(w, "finish")
     \/ /\ \E i \in work.images :
             task' = [task EXCEPT ![w] = [@ EXCEPT !.at = "write", !.img = i, !.then = "finish",
                                                  !.else = "finish"]]
  /\ Mark(IF task'[w].at = "write" THEN Overlap(w) ELSE {})
  /\ UNCHANGED <<mem, disk, files, op, page, work>>

\* finish_job(): a stopped regeneration counts as failed.
Finish(w) ==
  /\ At(w, "finish")
  /\ LET a == task[w]
         status == IF a.img # None THEN "succeeded"
                   ELSE IF a.kind = "send" /\ op = "stops" THEN "cancelled" ELSE "failed"
     IN Change(w, SetJob(mem, a.turn, a.k, status, a.img),
               [a EXCEPT !.then = IF a.kind = "send" THEN "job" ELSE "end", !.else = "end",
                         !.img = None, !.k = IF a.kind = "send" THEN @ + 1 ELSE @])
  /\ seen' = seen \union ({task[w].img} \ {None})
  /\ UNCHANGED <<ever, work>>

Close(w) ==
  /\ At(w, "close")
  /\ Apply(w, SetPhase(mem, task[w].turn, "none"), "end")

\* end_operation().
End(w) ==
  /\ At(w, "end")
  /\ op' = None
  /\ task' = [task EXCEPT ![w] = Idle]
  /\ UNCHANGED <<mem, disk, files, page, upset, work>>

\* cancel().
Stop ==
  /\ op = "runs" /\ Spend("stops")
  /\ op' = "stops"
  /\ UNCHANGED <<mem, disk, files, task, page, upset>>

-----------------------------------------------------------------------------
(* The process. *)

\* interrupt_on_exit(), on the event loop: the operation is told to stop, then
\* what runs is marked, whether or not the process ends after it.
Interrupt ==
  /\ task[Main] = Idle /\ mem # Down
  /\ op' = IF op = None THEN None ELSE "stops"
  /\ task' = [task EXCEPT ![Main].at = "mark"]
  /\ UNCHANGED <<mem, disk, files, page, upset, work>>

Halted(j) == IF j.status = "running" THEN [j EXCEPT !.status = "interrupted"] ELSE j

MarkInterrupted ==
  /\ At(Main, "mark")
  /\ LET hit == {t \in mem.turns : /\ t.phase \in {"requesting", "imaging"} /\ ~ t.err
                                   /\ \E j \in mem.jobs : j.turn = t.id /\ j.status = "running"}
         turns == (mem.turns \ hit)
                  \union {[t EXCEPT !.phase = "interrupted", !.err = TRUE] : t \in hit}
     IN \/ Change(Main, [mem EXCEPT !.turns = turns, !.jobs = {Halted(j) : j \in @}], Idle)
        \/ ~ Ready /\ task' = [task EXCEPT ![Main] = Idle] /\ UNCHANGED <<mem, disk, files, op, upset>>
  /\ UNCHANGED <<page, work>>

\* interrupt_running(): what an earlier process left under way.
Interrupted(i) ==
  [i EXCEPT !.turns = {IF t.phase \in {"requesting", "imaging"}
                       THEN [t EXCEPT !.phase = "interrupted", !.err = TRUE] ELSE t : t \in @},
            !.jobs = {Halted(j) : j \in @}]

\* WorkbenchStore::open(): an index that loads is brought up to date, on disk as
\* well if that succeeds, and images it does not name are swept away.  An index
\* that cannot be read counts as corrupt.
OpenStore ==
  /\ mem = Down
  /\ \/ /\ Loaded(disk)
        /\ mem' = Interrupted(disk)
        /\ LET kept == files \intersect (mem'.assets \union Referenced(mem')) IN
           \/ disk' = mem' /\ files' = kept /\ UNCHANGED <<upset, work>>
           \/ /\ Spend("faults") /\ Mark({"fault"})
              /\ disk' \in {disk, mem'} /\ files' \in {files, kept}
        /\ seen' = Referenced(mem')
     \/ /\ disk = Missing /\ mem' = Empty
        /\ UNCHANGED <<disk, files, seen, upset, work>>
     \/ /\ disk \in {Corrupt, Incompatible} /\ mem' = disk
        /\ UNCHANGED <<disk, files, seen, upset, work>>
     \/ /\ Spend("faults") /\ Mark({"fault"}) /\ mem' = Corrupt
        /\ UNCHANGED <<disk, files, seen>>
  /\ UNCHANGED <<op, task, ever>>

\* The process ends, whatever is under way.
Perish ==
  /\ mem # Down
  /\ mem' = Down /\ op' = None /\ seen' = {}
  /\ task' = [w \in Threads |-> Idle]
  /\ Mark({"ended"})
  /\ UNCHANGED <<disk, files, ever>>

Kill == Perish /\ Spend("ends")

\* index.json as it may be found: none, one of a newer version, one that cannot be
\* read, or one with conversations.
WorkbenchInit ==
  /\ mem = Down /\ op = None /\ seen = {} /\ upset = {} /\ work \in Works
  /\ task = [w \in Threads |-> Idle]
  /\ files = {} /\ ever = IF work.found \in Convs THEN work.found ELSE 0
  /\ disk = IF ever = 0 THEN work.found
            ELSE [Empty EXCEPT !.sel = 1, !.convs = 1..ever, !.offered = 1..ever]

\* A command or the operation goes on.
Continue(w) ==
  \/ Commit(w) \/ Wipe(w) \/ Publish(w) \/ Remove(w) \/ WriteImage(w) \/ IndexImage(w)
  \/ Imported(w) \/ AddTurn(w) \/ Chat(w) \/ Talk(w) \/ Fail(w) \/ Plan(w) \/ NextJob(w)
  \/ Again(w) \/ ReadImage(w) \/ Dial(w) \/ Answer(w) \/ Finish(w) \/ Close(w) \/ End(w)

WorkbenchNext ==
  \/ \E w \in Tasks : \/ Create(w) \/ Select(w) \/ SetOptions(w) \/ Delete(w) \/ Rebuild(w)
                      \/ Import(w) \/ Send(w) \/ Regenerate(w) \/ Continue(w)
  \/ Commit(Main) \/ Publish(Main) \/ MarkInterrupted \/ Stop

-----------------------------------------------------------------------------
(* Properties. *)

Quiet == \A w \in Threads : task[w] = Idle
Not(bad) == upset \intersect bad = {}

\* What the index says is so, unless two changes of the store overlapped: every
\* image it names is there, in memory and on disk, whatever fails or crashes; if
\* no conversation was deleted meanwhile, what was generated is kept, with its
\* message; without faults no job is shown as running when no operation runs, the
\* index on disk is the one in memory and no other image is left behind.
IndexIsTrue ==
  Not({"overlap"}) =>
    /\ Ready => mem.assets \subseteq files
    /\ Loaded(disk) => disk.assets \subseteq files
    /\ Ready /\ Not({"deleted"}) =>
         /\ \A j \in mem.jobs : /\ j.out \in mem.assets \union {None}
                               /\ \E t \in mem.turns : t.id = j.turn
         /\ \A t \in mem.turns : t.conv \in mem.convs
    /\ Ready /\ op = None /\ Not({"fault", "unread"}) =>
         \A j \in mem.jobs : j.status # "running"
    /\ Ready /\ Quiet /\ Not({"fault"}) =>
         /\ disk = IF Loaded(disk) THEN mem ELSE Missing
         /\ Not({"ended", "deleted"}) => files = mem.assets

\* A conversation that was deleted is gone, with its messages and images.
DeletedIsGone ==
  Ready /\ Quiet /\ Not({"overlap", "fault"}) =>
    /\ \A t \in mem.turns : t.conv \in mem.convs
    /\ \A j \in mem.jobs : \E t \in mem.turns : t.id = j.turn

\* An operation ends, because every request has a deadline, and the next may begin.
OperationEnds == op # None ~> op = None

=============================================================================
