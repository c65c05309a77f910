--------------------------------- MODULE Shell ---------------------------------
(* The desktop application around the router and the workbench: its one lifecycle
   operation at a time, the poll of the router's status, the online update, and
   the ways to quit, which all wait for the operation, ask about an unsaved draft
   and stop the router first.

   The router is what the manager says of it: each call is a step that succeeds,
   fails, or fails after taking effect (what a call does inside is the subject of
   DesktopRouter and ManagerClient).  A call ends, because each has a timeout. *)
EXTENDS Workbench

CONSTANT Mixes    \* [work, play]: what may happen, one chosen at the start

\* What the router's status may be.  "degraded" is the desktop's own.
Routers == {"absent", "ours", "degraded", "legacy", "other", "failed", "unknown"}
Available == {"ours", "degraded", "other"}

\* Bounds: starts of the process, lifecycle commands, updates, changes of the listen
\* override, changes of the draft, requests to quit, changes of the router by itself,
\* polls and status commands; and which system the application runs on.
Plays == [starts: Nat, commands: Nat, updates: Nat, listens: Nat, drafts: Nat, quits: Nat,
          moves: Nat, polls: Nat, router: SUBSET Routers, windows: BOOLEAN]

ASSUME ShellAssumption ==
  /\ \A m \in Mixes : m.work \in Amounts /\ m.play \in Plays
  /\ Works = {m.work : m \in Mixes}

VARIABLES lc,       \* LifecycleInner
          oper,     \* the operation under way, or None
          going,    \* how far an update is after its operation, and a new listen address
          quitting, \* execute_quit() was called
          exiting,  \* ExitRequested is being handled
          webview,    \* the page: its draft is unsaved, it was asked about that
          router,   \* the router's status
          shown,    \* the snapshot: the status and the release observation
          watch,    \* PortRecovery
          poll,     \* the poll under way, or None
          asker,    \* a status command under way, or None
          due,      \* status_immediate
          facts,    \* what has happened that the properties must know
          play      \* what is left of the bounds

life == <<lc, oper, going, quitting, exiting, webview>>
status == <<router, shown, watch, poll, asker, due>>
shell == <<life, status, facts, play>>
desktop == <<workbench, shell>>

OperKinds == {"first", "start", "stop", "force", "update", "quit"}
OperPoints == {"look", "begin", "ask", "start", "recheck", "halt", "stop", "kill", "watch", "show",
               "sour", "refresh", "check", "preflight", "verify", "install", "leave", "decide", "exit",
               "over"}
Views == Routers \union {"error", "none"}
Releases == {"none", "observing", "released", "reoccupied"}

\* then, else: where it goes after a start or stop; val: a status that was read;
\* stopped: the update stopped the router; ok: it succeeded.
Operation == [kind: OperKinds, at: OperPoints, then: OperPoints, else: OperPoints,
              val: Views, stopped: BOOLEAN, ok: BOOLEAN]
Polls == [val: Views, fresh: BOOLEAN, at: {"answer", "apply"}]
Askers == [val: Views, at: {"show", "refresh"}]
Facts == {"late", "raced", "restart", "moved", "halted", "back"}

ASSUME NoneAssumption == None \notin Operation \union Polls \union Askers

ShellTypeOK ==
  /\ WorkbenchTypeOK
  /\ lc \in [active: BOOLEAN, dirty: BOOLEAN, quit: {"idle", "awaiting", "waiting", "exiting"}]
  /\ oper \in Operation \union {None} /\ (oper # None) = lc.active
  /\ going \in [update: {"no", "try", "restart"}, dirty: BOOLEAN,
                listen: {"no", "read", "prepared", "restart"}]
  /\ quitting \in BOOLEAN /\ exiting \in BOOLEAN
  /\ webview \in [there: BOOLEAN, draft: BOOLEAN, asked: BOOLEAN]
  /\ router \in Routers
  /\ shown \in [status: Views, release: Releases]
  /\ watch \in [state: Releases, sure: BOOLEAN, here: BOOLEAN]
  /\ poll \in Polls \union {None}
  /\ asker \in Askers \union {None}
  /\ due \in BOOLEAN /\ facts \subseteq Facts /\ play \in Plays

-----------------------------------------------------------------------------
(* The snapshot of the status, the poll and the observation of a released port. *)

Up == mem # Down
Use(what) == play[what] > 0 /\ play' = [play EXCEPT ![what] = @ - 1]
Note(f) == facts' = facts \union f
Fact(f) == f \in facts
InOper(p) == oper # None /\ oper.at = p

NoWatch == [state |-> "none", sure |-> FALSE, here |-> TRUE]
Projection(wt) == IF wt.sure THEN wt.state ELSE "none"

\* request_status_refresh(): a poll under way is no longer current.
Stale(p) == IF p = None \/ p.at = "apply" THEN p ELSE [p EXCEPT !.fresh = FALSE]
Refresh == due' = TRUE /\ poll' = Stale(poll)
\* A call of the manager makes a poll stale too.
Call == poll' = Stale(poll)

\* apply_status() of a status that was not polled.
SetStatus(s) ==
  /\ watch' = IF s \in Available THEN NoWatch ELSE watch
  /\ shown' = [status |-> s, release |-> Projection(watch')]
SetError ==
  /\ watch' = NoWatch
  /\ shown' = [status |-> "error", release |-> "none"]

\* run_due() and the request of poll_status(): an observation of another session of
\* the manager is given up first.
PollStart ==
  /\ Up /\ poll = None /\ Use("polls")
  /\ due' = FALSE
  /\ IF watch.here THEN UNCHANGED <<watch, shown>>
     ELSE watch' = NoWatch /\ shown' = [shown EXCEPT !.release = "none"]
  /\ \E v \in {router, "error"} : poll' = [val |-> v, fresh |-> TRUE, at |-> "answer"]
  /\ facts' = facts \ {"moved"}
  /\ UNCHANGED <<life, router, asker, workbench>>

\* The answer is found current, or the poll is due again.
PollAnswer ==
  /\ poll # None /\ poll.at = "answer"
  /\ IF poll.fresh THEN poll' = [poll EXCEPT !.at = "apply"] /\ UNCHANGED due
     ELSE poll' = None /\ due' = TRUE
  /\ UNCHANGED <<life, router, shown, watch, asker, facts, play, workbench>>

\* observe(): ten seconds of absence, or an occupant again, or a router.
Observe(s) ==
  IF watch.state = "none" \/ ~ watch.here \/ s \notin {"absent", "unknown"} THEN {NoWatch}
  ELSE IF s = "unknown" THEN {[watch EXCEPT !.state = "reoccupied", !.sure = TRUE]}
  ELSE {[watch EXCEPT !.sure = TRUE, !.state = t] :
          t \in {watch.state} \union (IF watch.state = "observing" THEN {"released"} ELSE {})}

\* The rest of poll_status(), once the locks are taken.
PollApply ==
  /\ poll # None /\ poll.at = "apply"
  /\ poll' = None
  /\ \/ poll.val = "error" /\ SetError
     \/ /\ poll.val # "error"
        /\ watch' \in Observe(poll.val)
        /\ shown' = [status |-> poll.val, release |-> Projection(watch')]
  /\ UNCHANGED <<life, router, asker, due, facts, play, workbench>>

\* The router changes by itself: it fails, other programs come and go, also the
\* desktop of an earlier version, or a start whose caller gave up takes effect.
Moves(r) == CASE r = "ours" -> {"degraded", "absent"}
              [] r = "degraded" -> {"ours"}
              [] r \in {"absent", "failed"} -> {"ours", "legacy", "other", "unknown"}
              [] r \in {"other", "unknown", "legacy"} -> {"absent"}

\* Or the session of the manager is replaced.
Move ==
  /\ Up /\ Use("moves")
  /\ \/ /\ router' \in Moves(router) /\ UNCHANGED watch
        /\ Note({"moved"} \union (IF InOper("install") THEN {"back"} ELSE {}))
     \/ /\ watch.here /\ watch.state # "none"
        /\ watch' = [watch EXCEPT !.here = FALSE] /\ Note({"moved"}) /\ UNCHANGED router
  /\ UNCHANGED <<life, shown, poll, asker, due, workbench>>

\* router_status(), which needs no turn of the lifecycle.
AskStatus ==
  /\ Up /\ asker = None /\ Use("polls")
  /\ asker' = [val |-> router, at |-> "show"]
  /\ Call
  /\ UNCHANGED <<life, router, shown, watch, due, facts, workbench>>

AnswerStatus ==
  /\ asker # None
  /\ \/ /\ asker.at = "show" /\ SetStatus(asker.val)
        /\ asker' = [asker EXCEPT !.at = "refresh"] /\ UNCHANGED <<poll, due>>
     \/ asker.at = "refresh" /\ Refresh /\ asker' = None /\ UNCHANGED <<shown, watch>>
  /\ UNCHANGED <<life, router, facts, play, workbench>>

-----------------------------------------------------------------------------
(* The lifecycle operation. *)

\* try_begin_operation(): one at a time, and none once a quit was asked for.
MayBegin == ~ lc.active /\ lc.quit = "idle"

NewOper(kind, at) == [kind |-> kind, at |-> at, then |-> "over", else |-> "over",
                      val |-> "none", stopped |-> FALSE, ok |-> FALSE]

Begin(kind, at) ==
  /\ Up /\ MayBegin
  /\ lc' = [lc EXCEPT !.active = TRUE]
  /\ oper' = NewOper(kind, at)

\* router_start(), router_stop() and router_force_terminate_occupant(), of the page
\* or of the tray, and update_install().
BeginCommand ==
  /\ \/ Use("commands") /\ (Begin("start", "begin") \/ Begin("stop", "halt") \/ Begin("force", "kill"))
     \/ going.update = "no" /\ Use("updates") /\ Begin("update", "check")
  /\ UNCHANGED <<going, quitting, exiting, webview, status, facts, workbench>>

Goto(p) == oper' = [oper EXCEPT !.at = p]

\* first_launch() starts the router only if there is none.
Look ==
  /\ InOper("look") /\ Call
  /\ \/ Goto("over")
     \/ oper' = [oper EXCEPT !.at = IF router = "absent" THEN "begin" ELSE "show",
                             !.val = router]
  /\ UNCHANGED <<router, shown, watch, due, facts>>

\* start_inner() gives up an observation, then asks for the status.
StartBegin ==
  /\ InOper("begin") /\ Refresh
  /\ watch' = NoWatch /\ shown' = [shown EXCEPT !.release = "none"]
  /\ Goto("ask")
  /\ UNCHANGED <<router, facts>>

StartAsk ==
  /\ InOper("ask") /\ Call
  /\ Goto("start") \/ Goto("over")
  /\ UNCHANGED <<router, shown, watch, due, facts>>

\* router.start or router.migrate_legacy.
Start ==
  /\ InOper("start") /\ Call
  /\ \/ /\ router # "unknown"
        /\ router' = IF router = "other" THEN "other" ELSE "ours"
        /\ oper' = [oper EXCEPT !.at = "show", !.val = router', !.ok = TRUE]
     \/ /\ router' \in {router} \union (IF router \in {"absent", "failed", "legacy"}
                                        THEN {"absent", "failed", "degraded"} ELSE {})
        /\ Goto("recheck")
  /\ UNCHANGED <<shown, watch, due, facts>>

\* After an error the status is asked again.
Recheck ==
  /\ InOper("recheck") /\ Call
  /\ Goto("sour") \/ oper' = [oper EXCEPT !.at = "show", !.val = router]
  /\ UNCHANGED <<router, shown, watch, due, facts>>

\* stop_inner().
StopBegin ==
  /\ InOper("halt") /\ Refresh /\ Goto("stop")
  /\ UNCHANGED <<router, shown, watch, facts>>

StopRouter ==
  /\ InOper("stop") /\ Call
  /\ LET after == IF router \in {"ours", "degraded", "legacy"} THEN "absent" ELSE router IN
     \/ router' = after /\ oper' = [oper EXCEPT !.at = "show", !.val = after, !.ok = TRUE]
     \/ router' \in {router, after} /\ Goto("sour")
  /\ UNCHANGED <<shown, watch, due, facts>>

\* set_status() or set_status_error(), and only then the request for a refresh.
Show ==
  /\ InOper("show") /\ SetStatus(oper.val) /\ Goto("refresh")
  /\ UNCHANGED <<router, poll, due, facts>>
Sour ==
  /\ InOper("sour") /\ SetError
  /\ oper' = [oper EXCEPT !.at = "refresh", !.ok = FALSE]
  /\ UNCHANGED <<router, poll, due, facts>>
MutantRefreshAfter ==
  /\ InOper("refresh")
  /\ Goto(IF oper.ok \/ oper.kind = "first" THEN oper.then ELSE oper.else)
  /\ UNCHANGED <<router, shown, watch, poll, due, facts>>

RefreshAfter ==
  /\ InOper("refresh") /\ Refresh
  /\ Goto(IF oper.ok \/ oper.kind = "first" THEN oper.then ELSE oper.else)
  /\ UNCHANGED <<router, shown, watch, facts>>

\* force_terminate_occupant(): a success begins the observation, if the session of
\* the manager is still the one the occupant was inspected in.
KillOccupant ==
  /\ InOper("kill") /\ Refresh
  /\ \/ router' = router /\ Goto("over") /\ UNCHANGED facts
     \/ /\ router = "unknown" /\ router' = "absent"
        /\ \/ Goto("watch") /\ UNCHANGED facts
           \/ Goto("over") /\ Note({"moved"})
  /\ UNCHANGED <<shown, watch>>

WatchRelease ==
  /\ InOper("watch") /\ Refresh
  /\ watch' = [state |-> "observing", sure |-> FALSE, here |-> TRUE]
  /\ shown' = [shown EXCEPT !.release = "none"]
  /\ Goto("over")
  /\ UNCHANGED <<router, facts>>

\* update_install(): the version is checked again and downloaded.
UpdateCheck ==
  /\ InOper("check")
  /\ Goto("preflight") \/ Goto("over")
  /\ UNCHANGED <<router, shown, watch, poll, due, facts>>

\* update_router_preflight().
Replaceable == {"absent", "failed", "other"}
Stoppable == {"ours", "degraded", "legacy"}

Preflight ==
  /\ InOper("preflight") /\ Call
  /\ \/ Goto("over")
     \/ router \in Replaceable /\ Goto("install")
     \/ router \in Stoppable /\ oper' = [oper EXCEPT !.at = "halt", !.then = "verify"]
  /\ UNCHANGED <<router, shown, watch, due, facts>>

\* The status is read again after the stop.
Verify ==
  /\ InOper("verify") /\ Call
  /\ \/ oper' = [oper EXCEPT !.at = "over", !.ok = FALSE] /\ UNCHANGED facts
     \/ /\ router \in Replaceable
        /\ oper' = [oper EXCEPT !.at = "install", !.ok = FALSE, !.stopped = TRUE]
        /\ Note({"halted"})
  /\ UNCHANGED <<router, shown, watch, due>>

MutantInstall ==
  /\ InOper("install")
  /\ oper' = [oper EXCEPT !.at = "over", !.ok = TRUE] \/ Goto("over")
  /\ facts' = facts \ (IF oper'.ok THEN {"halted", "back"} ELSE {"back"})
  /\ UNCHANGED <<router, shown, watch, poll, due>>

\* The package is replaced, or the router that was stopped is started again.
Install ==
  /\ InOper("install")
  /\ \/ oper' = [oper EXCEPT !.at = "over", !.ok = TRUE]
     \/ oper.stopped /\ oper' = NewOper("start", "begin")
     \/ ~ oper.stopped /\ Goto("over")
  /\ facts' = facts \ {"halted", "back"}
  /\ UNCHANGED <<router, shown, watch, poll, due>>

-----------------------------------------------------------------------------
(* Quitting. *)

MutantFinishOperation ==
  /\ InOper("over")
  /\ oper' = None
  /\ lc' = [lc EXCEPT !.active = FALSE]
  /\ going' = IF oper.kind = "update" /\ oper.ok THEN [going EXCEPT !.update = "try"] ELSE going
  /\ UNCHANGED <<quitting, exiting, webview, status, facts, play, workbench>>

\* finish_operation(): a quit that waits is executed; an update that succeeded goes
\* on to the restart otherwise.
FinishOperation ==
  /\ InOper("over")
  /\ oper' = None
  /\ LET waits == lc.quit = "waiting" IN
     /\ lc' = [lc EXCEPT !.active = FALSE, !.quit = IF waits THEN "exiting" ELSE @]
     /\ quitting' = (quitting \/ waits)
     /\ going' = IF oper.kind = "update" /\ oper.ok /\ ~ waits
                 THEN [going EXCEPT !.update = "try"] ELSE going
  /\ UNCHANGED <<exiting, webview, status, facts, play, workbench>>

MutantLeave(dirty) ==
  /\ lc' = [lc EXCEPT !.dirty = dirty, !.quit = "exiting"]
  /\ quitting' = TRUE

\* The quit waits for the operation, or is executed.
Leave(dirty) ==
  /\ lc' = [lc EXCEPT !.dirty = dirty, !.quit = IF lc.active THEN "waiting" ELSE "exiting"]
  /\ quitting' = ~ lc.active

\* request_quit() and handle_quit_action(): the request for confirmation may not be
\* delivered.  A webview that is gone has no draft.
RequestQuit ==
  LET quit == IF ~ webview.there /\ lc.quit = "awaiting" THEN "idle" ELSE lc.quit
      dirty == lc.dirty /\ webview.there
  IN \/ /\ quit \in {"waiting", "exiting"}
        /\ lc' = [lc EXCEPT !.dirty = dirty]
        /\ UNCHANGED <<webview, quitting>>
     \/ /\ quit = "awaiting" \/ (quit = "idle" /\ dirty)
        /\ \/ lc' = [lc EXCEPT !.quit = "awaiting"] /\ webview' = [webview EXCEPT !.asked = TRUE]
           \/ lc' = [lc EXCEPT !.quit = "idle"] /\ UNCHANGED webview
        /\ UNCHANGED quitting
     \/ quit = "idle" /\ ~ dirty /\ Leave(dirty) /\ UNCHANGED webview

\* Quit in the tray's menu.
TrayQuit ==
  /\ Up /\ ~ exiting /\ Use("quits")
  /\ RequestQuit
  /\ UNCHANGED <<oper, going, exiting, status, facts, workbench>>

\* resolve_quit(): the page, which gives up the draft when it confirms.
ResolveQuit ==
  /\ webview.asked
  /\ \/ /\ webview' = [webview EXCEPT !.asked = FALSE]
        /\ lc' = [lc EXCEPT !.quit = IF @ = "awaiting" THEN "idle" ELSE @]
        /\ UNCHANGED quitting
     \/ /\ webview' = [webview EXCEPT !.asked = FALSE, !.draft = FALSE]
        /\ IF lc.quit = "awaiting" THEN Leave(lc.dirty) ELSE UNCHANGED <<lc, quitting>>
  /\ UNCHANGED <<oper, going, exiting, status, facts, play, workbench>>

\* execute_quit(): the router is stopped if it is the desktop's, whatever comes of it.
ExecuteQuit ==
  /\ quitting /\ quitting' = FALSE
  /\ IF ~ lc.active /\ lc.quit = "exiting"
     THEN /\ lc' = [lc EXCEPT !.active = TRUE]
          /\ oper' = [NewOper("quit", "leave") EXCEPT !.then = "decide", !.else = "decide"]
     ELSE UNCHANGED <<lc, oper>>
  /\ UNCHANGED <<going, exiting, webview, status, facts, play, workbench>>

\* The status it reads is shown first.
QuitAsk ==
  /\ InOper("leave") /\ Call
  /\ Goto("exit") \/ oper' = [oper EXCEPT !.at = "show", !.val = router]
  /\ UNCHANGED <<router, shown, watch, due, facts>>

\* quit_decision()
QuitDecide ==
  /\ InOper("decide")
  /\ oper' = [oper EXCEPT !.at = IF oper.val \in Stoppable THEN "halt" ELSE "exit",
                          !.then = "exit", !.else = "exit"]
  /\ UNCHANGED <<router, shown, watch, poll, due, facts>>

\* set_draft_dirty(): an edit may come after the quit was granted, or between the two
\* steps of commit_listen_override().
EditDraft ==
  /\ Up /\ webview.there /\ Use("drafts")
  /\ LET draft == ~ webview.draft IN
     /\ webview' = [webview EXCEPT !.draft = draft] /\ lc' = [lc EXCEPT !.dirty = draft]
     /\ facts' = (facts \ {"late", "raced"})
                 \union (IF draft /\ lc.quit \in {"waiting", "exiting"} THEN {"late"} ELSE {})
                 \union (IF draft /\ going.listen = "read" THEN {"raced"} ELSE {})
  /\ UNCHANGED <<oper, going, quitting, exiting, status, workbench>>

WindowGone ==
  /\ Up /\ webview.there /\ Use("quits")
  /\ webview' = [there |-> FALSE, draft |-> FALSE, asked |-> FALSE]
  /\ UNCHANGED <<lc, oper, going, quitting, exiting, status, facts, workbench>>

\* commit_listen_override(): what the draft was is read first; the restart is prepared,
\* and given up when the file cannot be written.
ListenRead ==
  /\ Up /\ going.listen = "no" /\ Use("listens")
  /\ going' = [going EXCEPT !.listen = "read", !.dirty = lc.dirty]
  /\ UNCHANGED <<lc, facts>>

\* prepare_restart(): the draft is given up.
PrepareRestart ==
  /\ MayBegin
  /\ lc' = [lc EXCEPT !.dirty = FALSE, !.quit = "exiting"]
  /\ Note({"restart"})

ListenPrepare ==
  /\ going.listen = "read"
  /\ \/ PrepareRestart /\ going' = [going EXCEPT !.listen = "prepared"]
     \/ ~ MayBegin /\ going' = [going EXCEPT !.listen = "no"] /\ UNCHANGED <<lc, facts>>
  /\ UNCHANGED play

\* abort_prepared_restart().
ListenWrite ==
  /\ going.listen = "prepared"
  /\ \/ going' = [going EXCEPT !.listen = "restart"] /\ UNCHANGED <<lc, facts>>
     \/ /\ going' = [going EXCEPT !.listen = "no"]
        /\ IF lc.quit = "exiting" /\ ~ lc.active
           THEN /\ lc' = [lc EXCEPT !.quit = "idle", !.dirty = going.dirty]
                /\ facts' = facts \ {"restart"}
           ELSE UNCHANGED <<lc, facts>>
  /\ UNCHANGED play

\* complete_successful_install(), where the application restarts itself.
UpdateRestart ==
  /\ going.update = "try" /\ ~ play.windows
  /\ \/ PrepareRestart /\ going' = [going EXCEPT !.update = "restart"]
     \/ ~ MayBegin /\ going' = [going EXCEPT !.update = "no"] /\ UNCHANGED <<lc, facts>>
  /\ UNCHANGED play

GoOn ==
  /\ ListenRead \/ ListenPrepare \/ ListenWrite \/ UpdateRestart
  /\ UNCHANGED <<oper, quitting, exiting, webview, status, workbench>>

-----------------------------------------------------------------------------
(* The process. *)

Fresh == [active |-> FALSE, dirty |-> FALSE, quit |-> "idle"]
NoGoing == [update |-> "no", listen |-> "no", dirty |-> FALSE]
Window == [there |-> TRUE, draft |-> FALSE, asked |-> FALSE]

\* ExitRequested, from the system, from execute_quit() or from a restart: the workbench
\* is interrupted before anything else.
ExitRequested ==
  /\ ~ exiting /\ exiting' = TRUE
  /\ \/ Use("quits")
     \/ (InOper("exit") \/ "restart" \in {going.update, going.listen}) /\ UNCHANGED play
  /\ Interrupt
  /\ UNCHANGED <<lc, oper, going, quitting, webview, status, facts>>

\* Then the process ends, or the exit becomes a request to quit.
PreventExit ==
  /\ exiting /\ task[Main] = Idle /\ lc.quit # "exiting"
  /\ exiting' = FALSE
  /\ RequestQuit
  /\ UNCHANGED <<oper, going, status, facts, play, workbench>>

\* The desktop's router is a thread of the process.
Over ==
  /\ Perish
  /\ lc' = Fresh /\ oper' = None /\ going' = NoGoing /\ quitting' = FALSE /\ exiting' = FALSE
  /\ webview' = Window
  /\ router' = IF router \in {"ours", "degraded", "failed"} THEN "absent" ELSE router
  /\ shown' = [status |-> "none", release |-> "none"] /\ watch' = NoWatch
  /\ poll' = None /\ asker' = None /\ due' = TRUE
  /\ facts' = {} /\ UNCHANGED play

\* On Windows the process ends at once when the installer was launched.
Exit ==
  /\ \/ exiting /\ task[Main] = Idle /\ lc.quit = "exiting"
     \/ going.update = "try" /\ play.windows
  /\ UNCHANGED work
  /\ Over

Killed == Spend("ends") /\ Over

\* setup(): the workbench is opened and the first launch begins.
Launch ==
  /\ Use("starts")
  /\ OpenStore
  /\ lc' = [Fresh EXCEPT !.active = TRUE] /\ oper' = NewOper("first", "look")
  /\ UNCHANGED <<going, quitting, exiting, webview, status, facts>>

ShellInit ==
  /\ WorkbenchInit
  /\ \E m \in Mixes : work = m.work /\ play = m.play
  /\ lc = Fresh /\ oper = None /\ going = NoGoing /\ quitting = FALSE /\ exiting = FALSE
  /\ webview = Window
  /\ router \in play.router
  /\ shown = [status |-> "none", release |-> "none"] /\ watch = NoWatch
  /\ poll = None /\ asker = None /\ due = TRUE /\ facts = {}

\* The operation goes on.
Operate ==
  /\ \/ Look \/ StartBegin \/ StartAsk \/ Start \/ Recheck \/ StopBegin \/ StopRouter \/ Show
     \/ Sour \/ RefreshAfter \/ KillOccupant \/ WatchRelease \/ UpdateCheck \/ Preflight
     \/ Verify \/ Install \/ QuitAsk \/ QuitDecide
  /\ UNCHANGED <<lc, going, quitting, exiting, webview, asker, play, workbench>>

Watch == PollStart \/ PollAnswer \/ PollApply \/ AskStatus \/ AnswerStatus \/ Move
Handle == ExitRequested \/ PreventExit \/ Exit
Loop == Commit(Main) \/ Publish(Main) \/ MarkInterrupted

Next ==
  \/ WorkbenchNext /\ UNCHANGED shell
  \/ Watch \/ BeginCommand \/ Operate \/ FinishOperation
  \/ TrayQuit \/ ResolveQuit \/ ExecuteQuit \/ EditDraft \/ WindowGone \/ GoOn
  \/ Handle \/ Killed \/ Launch

Spec == ShellInit /\ [][Next]_desktop

\* Requests of the workbench and calls of the manager have deadlines; tasks and the
\* event loop are scheduled.  Nobody has to edit, to answer or to ask for anything.
FairSpec ==
  /\ Spec
  /\ \A w \in Tasks : WF_desktop(Continue(w) /\ UNCHANGED shell)
  /\ WF_desktop(Loop /\ UNCHANGED shell)
  /\ WF_desktop(Operate \/ FinishOperation)
  /\ WF_desktop(ExecuteQuit) /\ WF_desktop(Handle /\ UNCHANGED play)
  /\ WF_desktop(GoOn /\ UNCHANGED play)
  /\ WF_desktop(PollAnswer \/ PollApply)

-----------------------------------------------------------------------------
(* Properties. *)

\* However the exit was asked for, the process ends only when a quit or a restart was
\* granted, never in the middle of a lifecycle operation, and not with an unsaved
\* draft that was not given up, unless it was edited after the quit was granted or
\* while a restart was prepared.  On Windows it ends when the installer runs.
QuitSafe ==
  [][mem # Down /\ mem' = Down /\ work' = work /\ ~ (going.update = "try" /\ play.windows) =>
       /\ lc.quit = "exiting"
       /\ oper = None \/ oper.kind = "quit"
       /\ webview.draft => facts \intersect {"late", "raced", "restart"} # {}]_desktop

\* The package is replaced only while no router of the desktop runs, unless one came
\* back by itself after the last look, and a router that was stopped for it is started
\* again when it could not be.
UpdateSafe ==
  /\ InOper("install") => router \notin Stoppable \/ Fact("back")
  /\ Fact("halted") => InOper("install")

\* Unless the router changed by itself, what is shown is so when nothing is under way
\* and no poll is due: an answer that overtakes another is corrected.
ShownIsCurrent ==
  Up /\ ~ Fact("moved") /\ oper = None /\ asker = None /\ poll = None /\ ~ due =>
    /\ shown.status \in {router, "error"}
    /\ shown.release = "released" => shown.status = "absent"

\* An operation of the workbench ends, and a quit that was granted, which may wait for
\* a lifecycle operation, ends the process unless it was a restart that had to be
\* given up.
EverythingEnds ==
  /\ OperationEnds
  /\ lc.quit \in {"waiting", "exiting"} ~> (mem = Down \/ lc.quit = "idle")

=============================================================================
