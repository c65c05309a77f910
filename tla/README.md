# Verification of mtls-router

TLA+ models of the parts of mtls-router whose correctness depends on what
happens between two steps: the plans for the Agents' configuration files and the
journaled write that carries them out, the
router's supervisor thread, the client of the in-process manager, the manager
itself beside other programs on the computer, the device's identity and its
enrolment server with its journal and its revocation lists, and the desktop
application with its image workbench. TLC
checks them on small instances; TLAPS proves core invariants for all instances.
`PROJECT.json` lists components, runs, mutants, theorems, findings and hazards,
and maps each definition to the lines it models.

Source paths below are relative to the repository; `J` is
`desktop/src-tauri/src/manager_core/agent/journal.rs`, `M` is
`desktop/src-tauri/src/manager_core`.

## 1. The system

mtls-router is a loopback HTTP proxy that speaks mutual TLS to an upstream. A
Tauri desktop application embeds it, supervises it, and writes the
configuration files of coding agents (Claude, Codex, OpenCode) so that they use
it. A Linux command line runs the same router; a Go server enrols client
certificates. The older Go manager and router are kept as a reference.

| Part | State it keeps | Operations | What is hard | What makes it correct |
|---|---|---|---|---|
| Agent transaction (`agent/journal.rs`, `files.rs`, `service.rs`, `lock.rs`) | files, sidecar, journal, backups, lock, `writes_disabled` | write, cleanup write, recovery at session start | crashes, failing disk accesses, foreign editors, two sessions | files change together or not at all; replies are true; foreign edits survive |
| Agent plans (`agent/preview.rs`, `render.rs`, `sidecar.rs`, `cleanup.rs`, `detect.rs`, `commands.rs`) | the Agents' files, sidecar sections, model flows | models, preview, write, cleanup preview and write, flow destroy | files, sidecar, flow and override change between preview and write; long sequences of configurations | what was approved is what is written, once; the user's values go only with an approval; nothing of the manager's is forgotten |
| Router supervisor (`router-core/supervisor.rs`) | listener, serving, tasks, status, counters | start, stop, accept, drain, requests | callers that give up, accept errors, hanging clients, panics | status is true, stop ends, cap and counters hold |
| Manager client and sessions (`manager.rs`, `session.rs`, `commands.rs`) | call queue, session, epoch, request id, pending token | call, poll, watchdog, recovery, inspect, force | late answers, threads that outlive their session, stale tokens | no unsafe replay, own answer, token stays with its session |
| Embedded backend, dispatch (`embedded.rs`, `lifecycle.rs`, `discovery.rs`) | `desktop-state.json`, failure latch | start, stop, status, discovery, reconciliation | a timeout that cancels a handler in the middle, a record of a dead process | state file and bound router agree |
| Occupant (`occupant/service.rs`) | one token with a target | inspect, force terminate | the process behind a pid changes | only the inspected process is terminated |
| Legacy stop and migration (`legacy/`) | migration record | stop, migrate | pid reuse, crash between stop and record | only a verified router is stopped, once |
| Trusted router (`trustedrouter/`) | binding, session | fetch, revalidate | the listener changes between check and use | the key goes to the checked router only |
| Identity store and client (`router-identity`) | generation, pending, active, renewal, todos | login, poll, renewal, logout, sweep | late server answers, crash before the answer | no certificate stays valid unseen; what was retired never comes back |
| Enrolment server (`internal/routerenroll`) | log, marker, SQLite, ledger | issue, renew, revoke, backup, restore | two processes, three files written one after the other, failing syncs, older copies | nothing answered is forgotten; one certificate per operation |
| Publication (`routerenroll/publication.go`, `crl.go`, `gateway_load.go`) | signed lists, root checkpoint, acknowledgments; each gateway's high-water mark, files and nginx | publish, load, reload, status | calls that outlive their caller, crashes between two files, old nginx workers, a status read piecemeal | what is reported loaded stays refused; delays are reported; every revocation arrives |
| Poll scheduler, port recovery (`scheduler.rs`, `port_recovery.rs`) | snapshot, deadlines, release observation | polls, refresh, begin, observe | a poll result that is old when it is applied | a snapshot never goes backwards for good |
| Updater (`updater.rs`) | - | check, install | stop, install and restore in order | nothing is replaced under a running router |
| Desktop shell (`lifecycle.rs`, `tray.rs`, `orchestration.rs`, `commands.rs`, `lib.rs`) | the one operation, pending exit, draft | start, stop, force, update, listen override, quit | quits asked for, repeated or cancelled during an operation | a quit waits, happens once, is not lost |
| Images workbench (`image_workbench/`) | index, assets, one operation | chat, imagine, cancel, edit conversations | changes in three steps, deletion during a send | index names existing assets only |
| Proxy, probe, TLS, model catalogue, contracts, diagnostics, UI | little or none | | | data transformations, left to tests |

How they interact: a Tauri command takes the lifecycle operation and calls
`ManagerClient`, whose actor sends one line to the session's thread. That thread
owns a `Manager`, which runs the call on the embedded backend (and through it the
supervisor), on `AgentService`, or on the occupant, legacy and trusted-router
parts. The supervisor and the backend outlive sessions; latch and token belong to
one session; an `AgentService` belongs to one session, and two of them meet only
in the lock and the journal on disk. The router's requests read the identity's
state file, which every client of the data directory shares; the enrolment server
knows devices, certificates and operations only through its clients' requests.

## 2. Modules

| Module | What it is |
|---|---|
| `AgentTxn` | `execute_plan`, `fail_and_rollback`, `rollback`, `recover_locked`, the sessions that run them, editors and crashes |
| `AtomicWrite` | what a write promises: the planned files change in one step, and the reply tells which |
| `AgentFiles` | what the manager does to one file: fragment, merge, cleanup, and the questions it asks (operators only) |
| `AgentPlans` | model flows, previews, writes and cleanups over the files of the three Agents, editors, restarts |
| `Supervisor` | callers, actor, connection tasks and status of `supervisor.rs` |
| `RouterSwitch` | what start and stop promise: a switch; each command takes effect at most once and its answer says what it did |
| `ManagerClient` | `run_actor` and `transact`, the call queue, session threads, the pending confirmation |
| `Identity` | the identity's state file, its clients, the router's use of it, and the server's devices, certificates and operations |
| `Journal` | the enrolment server's authority: log, marker and database, the service and the administrator, failures and restores |
| `Publication` | revocation lists from the server's decisions to nginx at the gateways, and the status |
| `Machine` | processes, ids used again, the port: what the manager looks at |
| `DesktopRouter` | extends `Machine`: the manager's sessions with their start, stop, status, migrate, inspect, force and fetch calls |
| `Workbench` | the image workbench: store, sends, regeneration, cancel, shutdown, start |
| `Shell` | extends `Workbench`: operations, scheduler, port recovery, updater, quits, restarts, first launch |
| `MC...` | instances for TLC: symmetry and bounds (`MCDesktop` is `Shell`'s) |
| `...Proofs` | theorems about `AgentTxn` and `AgentPlans` (`AgentProofs`), `Supervisor`, `ManagerClient`, `Identity`, `Journal`, `Publication`, `DesktopRouter`, `Shell` |

Definitions named `Mutant...` are not part of the models: each is the following
definition with one plausible slip, put in its place to see that a property
notices.

### AgentTxn

`file` is every file's content; file `N` is the manager's sidecar. `journal` is
the journal file, `mem` the journal in memory, `plan` the accepted `WritePlan`.
`pc` walks through the code's effects in order:

| Steps | Code |
|---|---|
| `Backup`, `Snapshot` (loop) | `J` 62-241: check, private backup, journal entry |
| `Barrier`, `BarrierUnproven` | `J` 242-266: all revisions again, then the journal |
| `Abandon` | `pre_mutation_failure`: created backups are removed |
| `Check`, `Apply`, `Confirm` (loop) | `J` 269-385 |
| `Commit`, `Clear` | `J` 386-421 |
| `Drop` | `fail_and_rollback` when nothing was replaced |
| `Inspect`, `InspectFails`, `Restore`, `RestoreFails`, `Record` (loop, sidecar first), `Settle` | `rollback` |
| `Start`, `StartRecovering`, `StartDisabled`, `StartIsolated` | `AgentService::new`, `recover_locked`, `isolated_service` |
| `Accept`, `Refuse`, `WriteIsolated` | `write` and `cleanup_write` up to `execute_plan` |
| `Edit`, `Crash` | the environment |

`owner` is the holder of the lock file's lock; an operation runs exactly while
it is held. Disk accesses fail at the points in `FaultAt`; an atomic write that
fails may have failed before or after its rename, as `write_atomic` can.

Abstractions: a file is its content, since keyed revisions identify content and
mode; a target is written where it was read (`source_path` = `target_path`);
deadlines are `None`, as every caller in `M/lifecycle.rs` passes; `progress` is
written but never read; a crash is the death of the process, not a loss of power,
so what was renamed stays renamed.

### AgentFiles and AgentPlans

A file that parses is a function from entries, groups of keys the code treats
alike, to whose value it is: the user's, an old release's, the manager's fixed one,
or rendered from a model configuration. So `Merge...` and `Cleaned...` say of every
kind of key whether it is replaced, kept or removed, and the values themselves,
JSON and TOML do not appear. `files` are the files of the three Agents with both
places of Claude's and both names of opencode's, `sidecar` the sections that were
last applied, `moved` the override variables of this start, `flows` the desktop's
`model_flows`, `shown` and `removal` what the page was given, `task` the commands.

| Definitions | Code (`M/agent`, `commands.rs`) |
|---|---|
| `Fragment`, `Merge...`, `Cleaned...`, `CleanFile`, `...Collides` | `render.rs` |
| `Irregular`, `Shapeless`, `Regular`, `Current`, `Target`, `Invalid`, `Eligible` | `paths.rs`, `detect.rs`, `recovery.rs`, `preview.rs plan_opencode` |
| `Plannable`, `Mergeable`, `Renders`, `Obsolete`, `Effect`, `Sections`, `Token` | `preview.rs build_plan`, `token_for_plan`, `sidecar.rs append_sidecar_plan` |
| `Changed`, `Collides`, `Drifted`, `AsksAuth` | `preview.rs inspect_ownership` |
| `Removed`, `CleanEffect`, `CleanToken`, `CleanPreview`, `CleanServe` | `cleanup.rs`, `service.rs cleanup_preview`, `cleanup_write` |
| `OpenFlow`, `PreviewAsk` .. `PreviewShow`, `WriteAsk` .. `WriteEnd`, `Destroy` | `commands.rs agent_models_command` .. `agent_model_flow_destroy` |
| `UserEdit`, `Restart` | the environment |

A command is cut where it lets go of the flows: before the credential, the manager's
call and the end. The manager's part of a write is one step, since it holds the
transaction lock and `AgentTxn` is about what happens inside; a change of the files
between its two validations is a change before either or an answer that failed.
An edit replaces a file or lays entries over it and keeps the rest, with the user's
values only (`OfOthers`); comments are the user's in `opencode.jsonc` alone, since with
one the other files do not parse (`detect.rs` strips them there).
`Effect` is what the page is shown of a preview: the real one names paths, operations
and collisions, all of them functions of what the token claims. The token is its
claims, since a signature can neither be forged nor mistaken.
`moved` stands for `CLAUDE_CONFIG_DIR`. `OPENCODE_CONFIG`, which may also name an
`opencode.jsonc` that is then rewritten in place, and `CODEX_HOME` (`paths.rs` 20-58) are
not modelled.

### Supervisor

`queue` is the command channel, `step` and `cmd` what the actor does, `listener`
stands for listener and serving together, `gen` and `owner` tell to which
serving (and semaphore) a task belongs. A connection goes `open` -> `queued` (asks
for a permit) -> `serving` (waits for headers) -> `body` -> `open`; it may end,
panic or be aborted anywhere. Preparation and bind are one outcome of `Started`
or `StartFails`, which includes the failure after a good bind that leaves the
phase as it is. The order of senders blocked on a full queue is left open, and a
timer may fire at any time before its event; both allow more than the code does.
A status that is read between the stores of `set_phase` is not modelled.

### ManagerClient

`doing` follows `run_actor`: `idle`, `asking` (the call's request), then after
the first failure `spawn`, `handshake`, `status`, `start` (the recovery) and
`retry`. `thread[s]` is the thread of session `s` with its request and event
channels. There are at most two sessions, for there is one recovery.
Methods are five kinds: `read` may be replayed; `once` may not; `inspect` gives a
token; `force` spends one and carries the expected epoch; the actor's own
requests are separate. A manager that answers with an error has answered.
Malformed answers, which an in-process manager of the same binary does not send,
and 16 unread late answers in the event channel are left out. Whether an error
kept from startup may be recovered from is left open.

### Identity

`state` is `state.json`, `call[a]` what client `a` is doing with what it has in
hand, its HTTP request or the answer included; `txn`, `issued`, `renewed`,
`revoked`, `handed`, `published` and `disabled` are the server's tables, `now` the
clock in ticks, `request` the certificate the router's request carries.

| Steps | Code (`crates/router-identity/src`, `internal/routerenroll`) |
|---|---|
| `Connect`, `RecordStarted`, `Poll`, `ActivateLogin`, `Waits` | `store.rs begin_login`, `record_started`, `activate_login`, `client.rs poll` |
| `ServeStart`, `Browser`, `ServePoll` | `native.go start`, `poll`; `browser.go approveHTTP` |
| `Renew`, `ServeRecover`, `AskRenewal`, `ServeRenew`, `ActivateRenewal` | `begin_renewal`, `client.rs renew`, `renewal.go recoverRenewal`, `renew`, `activate_renewal` |
| `HandOver`, `Publish` | `retirePredecessors` after the overlap, a publication both gateways loaded |
| `Logout`, `Prune`, `ReadTodos`, `NextTodo`, `ServeCancel`, `ServeRevoke`, `Drop`, `Keep` | `disable_local`, `flush_deactivations`, `cancelResult`, `revokeDevice` |
| `NoteError`, `Snapshot`, `Verdict` | `note_error`, `connector_for_request`, `certificate_feedback` |
| `Lose`, `Crash`, `Tick` | the environment |

A change of the state file is one step: it is a read, a change and an atomic
replacement under an exclusive lock; when it fails the new state may be on disk
all the same (`Written`). Devices are numbered downwards from `MaxLogins`, keys
upwards. The server's own crashes, its membership checks and the publication's
files are not part of this module.

### Journal

`log` is `commits.jsonl`, `marker` is `head.json` (`disk` what it is after a power
cut), `db` what SQLite has applied. The records are chained by hash, so a
checkpoint, number and hash, is the sequence of the records up to it. `head` is what
each process believes the end of the log to be; `holder` has the commit lock;
`told` is the log at the last reply.

| Steps | Code (`internal/routerenroll`) |
|---|---|
| `Begin` | `OpenStore`, `openAdmin`, `journal.locked` |
| `Recover` | `syncTail`, `checkAuthorityHead`, `saveAuthorityHead` |
| `Replay` | the rest of `journal.recover`, one record at a time |
| `Read`, `Backup`, `Decide` | what runs under the lock: nothing, `Admin.Backup`, `issueAuthorized`, `revoke` |
| `Write`, `Sync`, `Mark`, `Commit` | `journal.transaction` |
| `Crash`, `PowerCut`, `Restore`, `Rewind` | death of a process, loss of power, an older database (`docs/ENROLLMENT-OPERATIONS.md`), an older log as well |

A device has one enrolment, so a decision is an issuance or a revocation of a
device. `Sync` that succeeds is taken to cover all of the log, also a record
whose own sync failed earlier. SQLite's commits survive (`synchronous(FULL)`).

### Publication

`lists`, `checkpoint` and `acks` are the tables, `memory` the root list the issuer
signs under, `pub` the one publisher; of each gateway `sent` the calls under way,
`high`, `active` and `marker` the loader's three files, `running` and `newest` nginx's
generations of workers, `loader` the one `gateway-load` that has the lock.

| Steps | Code (`internal/routerenroll`) |
|---|---|
| `Start`, `Publish`, `AcceptRoot`, `Build`, `Visit`, `GiveUp`, `RecordAck` | `main.go` serve, `RunMaintenance`, `Publisher.Publish`, `acceptRootCRL`, `BuildCRL`, `SSHGatewayLoader.Load` |
| `Issue`, `Revoke` | `Issuer.Issue`, `issuerAllowed`; `revoke` and every other insertion of a revocation |
| `AskStatus`, `ReadAck`, `Answer` | `Publisher.Status`, `Admin.PublicationStatus`, `publicationStatus`, `revocationCoverage` |
| `Take`, `Install`, `InstallMarker`, `Test`, `Undo`, `Reload` (the workers listed), `Signal`, `Confirm` | `ApplyGatewayBundle`, `NginxRuntime` |
| `Retire`, `NginxStarts`, `NginxActs`, `Swap`, `Tick`, `ServiceDies`, `LoaderDies` | nginx, the operator, the clock, crashes |

A list is signed once for its number, so the number stands for its digest; a root list
is its place in `RootLists`, since two of them may have one number. There is one
clock: skew is not modelled, and root lists are issued in the past. The directory of
a gateway is never lost, as its guard (`gateway_load.go` 154-158) assumes. A call
that is lost is one that is never taken.

### Machine and DesktopRouter

`Machine` is the computer: `live` processes with an id and a start, the `bound`
holder of the port, and the three looks `inspect`, `validate` and `signal`.
Ids of dead processes are given out again. `DesktopRouter` has the desktop's
process `self`, its supervisor as the switch of `RouterSwitch` (`on`, `queue`), the
state file `record`, the command line's file `cli`, the migration record
`attempt`, and for each session the call and the step it is `at`, its `latch` and
its `token`.

| Steps | Code (`M`) |
|---|---|
| `Call`, `Begin`, `Launch`, `Bound`, `Persist`, `Unwind` | `lifecycle.rs router_start`, `embedded.rs start`, `reconcile_...` |
| `Vet`, `Kin`, `VetStale`, `RemoveRecord`, `Ask`, `ReadFiles`, `Probe`, `JudgePort`, `Judge` | `embedded.rs reconcile_recorded_state`, `reconcile_port`; `discovery.rs classify` |
| `Halt`, `Stopped`, `GiveUp`, `Execute`, `LoseListener` | `embedded.rs stop`, `remove_own_state`, the per-method timeout, the supervisor |
| `Prepare`, `VetLegacy`, `Forget`, `Recall`, `Announce`, `SignalLegacy`, `WaitLegacy`, `Clear`, `Conclude` | `lifecycle.rs router_migrate_legacy`, `legacy/stop.rs`, `legacy/record.rs` |
| `Inspect`, `TakeToken`, `LookAgain`, `Strike`, `Release` | `occupant/service.rs` |
| `Establish`, `Dial`, `Vouch`, `Send` | `trustedrouter/coordinator.rs`, `channel.rs` |
| `Open`, `Crash`, `Respawn` | `lib.rs run`, session replacement |
| `Arrive`, `Leave`, `CliRecords`, `Spawn`, `Die` | other programs, `cli/codeasier-router/src/main.rs` |

A single-instance plugin lets one process of the application run. Two sessions
overlap only when the first was replaced while its thread was stuck, since the
gate `legacy_gate` is per `Manager`. What `verified_migratable` asks of one process is
one look (`Kin`). Replies `already` and `stale` of a start go
through `reclaim`, which only reads here.

### Workbench and Shell

`Workbench`: `mem` is the store in memory, `disk` `index.json`, `files` the
image files, `op` the one operation, `task` the commands under way. Every change
is `Apply` (copy and change under the lock), `Commit` (`write_atomic`) and
`Publish`; the steps of a command are named after it (`Create`, `SetOptions`,
`Delete`, `Import`, `Send`, `AddTurn`, `Plan`, `NextJob`, `Answer`, `Finish`,
`Again`, `Close`, `Interrupt`, `Wipe`). `seen` are the images the page was given:
it can refer to one that is gone by now.

`Shell`: `lc` is `LifecycleInner`, `oper` the operation, `shown`, `poll`, `due` and
`watch` the scheduler and port recovery, `going`, `quitting` and `exiting` how far
a restart or an exit is, `webview` the page with its draft.

| Steps | Code (`desktop/src-tauri/src`) |
|---|---|
| `Begin`, `BeginCommand`, `FinishOperation`, `Leave`, `RequestQuit`, `TrayQuit`, `ResolveQuit`, `ExecuteQuit`, `QuitAsk`, `QuitDecide` | `lifecycle.rs`, `tray.rs` |
| `Look`, `StartBegin` .. `RefreshAfter`, `KillOccupant` | `orchestration.rs` |
| `PollStart`, `PollAnswer`, `Observe`, `PollApply`, `AskStatus`, `AnswerStatus`, `WatchRelease` | `scheduler.rs`, `port_recovery.rs`, `commands.rs` |
| `UpdateCheck`, `Preflight`, `Verify`, `Install`, `UpdateRestart` | `updater.rs` |
| `ListenRead`, `ListenPrepare`, `ListenWrite`, `PrepareRestart` | `commands.rs`, `lifecycle.rs` |
| `ExitRequested`, `PreventExit`, `Exit`, `Launch` | `lib.rs` |
| `EditDraft`, `WindowGone`, `Move`, `Killed` | page, other programs, the operating system |

A call of the manager is one step that succeeds, fails, or fails after taking
effect. What the router's status may be is a set of seven values; `Move` changes it
by itself, also to a router of the desktop's or an earlier one's that was absent.
`Rebuild` of a damaged store has the rule of the page, its only caller, which offers it
while the readiness it last asked for says the store is corrupt (`src/ImagesPage.tsx`
999); `store.rs` 200 would take it at any time. A second click before the page has asked
again is not modelled.

## 3. Runs

Sizes and times (two workers) are those of an ordinary run. Deadlock checking is
on in `authority`, where a call is always possible, and off elsewhere
because bounds run out and every part may rest; `LockReleased`,
`NothingHangs`, `CallsAnswered`, `TodosDischarged`, `CallEnds`
and `EverythingEnds` say what must not get stuck.

| Run | Bounds | States | Properties |
|---|---|---|---|
| `faults` | 2 files, 2 contents, 2 sessions, 1 write, 2 faults anywhere, 2 crashes, 2 edits, 1 replaced session | 7.3 M, 2 min | `NamedBackupsExist`, `RepliesAreTrue`, `KeepsForeignEdits` |
| `sequence` | 2 writes, 2 faults, 2 crashes; fair | 0.67 M | `LockReleased`, `ImplementsAtomicWrite` |
| `load` | 2 callers, 2 connections, queue 1, cap 1, 3 commands, 1 accept error, 1 leak; fair | 0.35 M, 90 s | `StatusIsTrue`, `EveryRequestCounted`, `CapHolds`, `ImplementsSwitch`, `NothingHangs` |
| `calls` | 2 users and the poller, queue 1, 3 calls or 2 and a panic; fair | 0.72 M, 2 min | `NeverReplayed`, `OwnAnswer`, `ForceInIssuer`, `CallsAnswered` |
| `devices` | 2 clients, life 2, recovery 1, enrolment 2 ticks, one place for todos; 2 logins or a login and its renewal; fair | 0.36 M, 1 min | `NoOrphan`, `ErrorIsCurrent`, `NoReturn`, `OneCertificatePerGeneration`, `TodosDischarged` |
| `worlds` | 3 ids, 4 processes, 2 sessions, up to 4 calls in six kinds of worlds; fair | 0.58 M, 1 min | `KeyOnlyToTrusted`, `OneAttempt`, `ForceHitsConfirmed`, `RecordIsTrue`, `RemovesOnlyEnded`, `CallEnds` |
| `desktop` | 2 conversations, 2 turns, 1 job each, 2 images, 2 commands at once; 18 mixes; fair | 0.66 M, 3 min | `IndexIsTrue`, `UpdateSafe`, `ShownIsCurrent`, `QuitSafe`, `EverythingEnds` |
| `authority` | service and administrator, 2 devices, 3 records, 2 faults, 1 crash, 1 power cut, 1 restore, 1 rewind; fair | 1.8 M, 90 s | `NothingForgotten`, `IssuedRightly`, `DecisionsArrive` |
| `plans` | 15 machines: 2 configurations, 2 commands at once in a flow or 1 in each of 2 flows, 1 edit or 2 restarts | 1.94 M, 90 s | `SidecarIsTrue`, `UserValuesKept`, `AppliedOnceAsShown` |
| `gateways` | 2 gateways, 2 certificates, 5 root lists, refresh 1, life 2, target 0; nine mixes; fair | 1.09 M, 3 min | `RevokedStaysRefused`, `DelayIsReported`, `IssuerStaysRevoked`, `RevocationsArrive` |
| `torn`, `orphans` | as small as the case allows | | one property each, violated (section 5) |

The type invariants of all components are proved (section 4), so no run repeats
them.

Instead of one large budget, several runs choose one of a set of small budgets at
the start (`Turns`, `Bounds`, `Budgets`, `Worlds`, `Mixes`): each has room for the
interplay it is there for, and the sizes of the mixes add up instead of
multiplying.

Why the bounds are enough.

- `faults`, `sequence`: two files are one Agent file and the sidecar, so mixed
  states, both orders and the loop's second round occur; a third file adds
  another round of the same loop. Two contents and absence give edit, create and
  delete, and an edit that equals neither side. Two faults and two crashes let a
  recovery itself fail and crash.
- `load`: one permit and two connections make a request wait behind another; a
  third command lets a stop meet a late start.
- `calls`: three calls let one cause the recovery, one wait behind it and one
  follow; a confirmation needs two (inspect and force), the third replaces the
  session between them.
- `devices`: two clients are enough for every overtaking, since each change of the
  state file involves one. One place for todos makes the limit bite. Life and
  recovery of different length let the answer to a renewal be forgotten before
  the certificate ends, and the other way round.
- `worlds`: `Alone` (own router, faults, timeouts, crash, a stuck session),
  `Leftover` (a record of a dead desktop, its id another's), `Behind` and
  `BehindBound` (an earlier version's router with or without its manager, with
  and without an old attempt), `Beside` (the command line's router), `Occupied`
  (another program of each role). Three ids and four processes let an id be used
  again once.
- `desktop`: `delete` .. `newer` are mixes of the workbench, `quit` .. `force` of
  the shell, `leave` and `exit` of both. One job per send and two sends give every
  order of two changes of the store; a second job repeats the first one's loop.

- `plans`: `Claude`, `OpenCode` and `Codex` start from each kind of file the code
  tells apart (nothing, the user's values where the manager's go, comments, two
  kinds of login, the old release's provider, the policy, a file that does not parse)
  and allow the edits that matter to it; `Moved` changes Claude's override twice,
  `Together` selects all three. Two configurations, one with the optional keys, give
  both directions of a change of what is owned; two flows give a write, another
  configuration or a rebuild, and a cleanup in every order. `Racing` has two commands
  of one flow and two previews the page may use.
- `gateways`: two is the number the configuration demands. Of the five root lists
  one expires first, one follows it, one revokes the issuer, and two name it no
  more, the second of them under the number of the one that revoked it; each
  mix of failures, deaths, late calls, reloads by others, swaps of the root list,
  ticks and questions is there for one hazard. The ticks pass both the refresh and
  the life of a list, and in the last mix the end of the first root list.
- `authority`: two processes append in turns; of three records the first two can be
  replayed by different processes, and two faults let a recovery of a failed call
  fail. One crash, cut, restore and rewind each meet in every order.

What the properties say:

- `NamedBackupsExist`: no failure path removes a backup that recovery may need.
- `RepliesAreTrue`: a reply is true of all files nobody else edited.
  `ROLLBACK_FAILED` promises nothing.
- `KeepsForeignEdits`: what another program wrote is not
  overwritten, except in the window between a check and its replacement (`raced`
  names the files edited there; the code cannot close that window), and whatever
  is overwritten has a copy.
- `ImplementsAtomicWrite`: an uncommitted target that recovery would restore
  counts as unchanged; then every step is a step of `AtomicWrite` or a stutter,
  and the commit point is the write of the committed journal.
- `UserValuesKept`: only a write or cleanup the user asked for changes a file, and
  what is lost of the user's is what its approval was about. `Unasked` names what the
  code replaces without asking, where the documentation promises more (section 5). `SidecarIsTrue`: any sequence of
  configurations, rebuilds, cleanups and edits leaves nothing of the manager's that the
  sidecar does not know, in any file it has not left (`left`); and what discovery
  offers as configured is a fixed point: written again it changes and asks nothing.
  `AppliedOnceAsShown`: two commands of a flow, an old preview, another
  configuration or a changed file never put anything else on disk than was shown,
  nor the same twice.
- `StatusIsTrue`, `EveryRequestCounted`, `CapHolds`: the status matches the
  listener between commands; counters and cap. `CapHolds` excludes accept errors:
  after one and a restart, requests of two semaphores may wait together
  (`supervisor.rs` 466, 591).
- `ImplementsSwitch`: `Supervisor` implements `RouterSwitch`, the module the
  desktop's model uses in its place (proved as well).
- `NeverReplayed`, `OwnAnswer`, `ForceInIssuer`, `CallsAnswered`: a write is
  executed once, an answer is one's own, a confirmation stays with its session,
  and every call is answered although threads hang.
- `NoOrphan`: whatever answer is lost and whoever crashes, a certificate the
  gateway accepts belongs to what the state file shows, awaits or still means to
  revoke. `NoReturn`, `OneCertificatePerGeneration`, `ErrorIsCurrent`: late
  answers change nothing that a newer operation settled. `TodosDischarged`: what
  is left to revoke is dealt with, unless the time to ask for the answer to a
  renewal went by (named in the property).
- `NothingForgotten`: who has come through recovery decides on a database that
  equals the log, and the log still has what any caller was ever told, also when an
  operator brought back older copies of database and log. `IssuedRightly`: no
  decision that was journalled and not yet in SQLite is missed by the next one.
  `DecisionsArrive`: recovery gets through to it in the end, unless the authority
  is damaged, which it must refuse.
- `RevokedStaysRefused`: after "loaded" was answered once, whatever accepts
  connections at a gateway refuses the serials it covered, also after crashes, late
  calls of older lists, restarts of nginx, and a root list that was replaced.
  `DelayIsReported`: an answer without `target_exceeded` hides no revocation older
  than the target that some gateway still accepts. `IssuerStaysRevoked`: no sequence
  of root lists revives the issuer. `RevocationsArrive`: publication gets through in
  the end while the operator's root list may be accepted.
- `KeyOnlyToTrusted`, `ForceHitsConfirmed`, `OneAttempt`, `RemovesOnlyEnded`: each
  looks at processes that end and ids that are used again between two looks.
  `RecordIsTrue`: record and router agree, except in calls a
  caller gave up (`mishaps`).
- `IndexIsTrue`: what the index says is so, each part as long as the upsets that
  the code cannot undo did not happen (`upset`). `ShownIsCurrent`: an answer that
  overtakes another is corrected. `UpdateSafe`: no router of the desktop runs when the
  package is replaced, also when one appears by itself at any step before the last look;
  after that look nobody can notice one (fact `back`), and the property excepts it.
  `QuitSafe`, `EverythingEnds`: see `Shell`.

In `sequence` the write of the committed journal is not among the operations that
fail: with it, the refinement is false, which is what `torn` shows. `faults` has it.

Fairness. `AgentTxn`: weak fairness of the operation's next step: the session's
thread runs it without waiting for anything but the disk. Recovery by a new
session is not assumed. `Supervisor`: weak fairness of the actor (its `select!`
takes a ready branch, timers included), of collecting each task, of a request's
timeout or permit, and of the header timeout; none of clients, which may hang
for ever. `ManagerClient`: weak fairness of the actor, whose wait the watchdog
bounds; strong fairness of each blocked sender, because tokio's channel serves
senders in order; none of the session threads, whose handlers may hang.
`Identity`: weak fairness of each client's next step (its requests have
timeouts), of the server's answers and of the publication; strong fairness of
`Prune`, which each sweep starts with; none of the user or of logins.
`Journal`: weak fairness of the service's calls (it is restarted, and its
maintenance every 30 s and its readiness checks go through recovery) and of the
call that has the lock; none of the administrator.
`Publication`: weak fairness of the service (restarted, and its maintenance calls
`Publish` every 30 s), of each loader with the retirement of nginx's old workers, and
of calls being taken; none of revocations, status questions or the operator.
`DesktopRouter`: weak fairness of each session's next step and of the supervisor;
none of processes, which may ignore every signal. `Workbench` and `Shell`: weak
fairness of each command's next step (its HTTP requests have deadlines), of the
event loop, the operation, a granted quit and the answer to a poll; nobody has to
answer a question, edit or ask for anything.

## 4. Proofs

The proof modules use only the modules' named assumptions: sizes are naturals,
special values are no members of what they stand beside, the files an `AgentPlans` case
starts from or lets others write are files others can write, callers', connections' and
sessions' sets are finite where the code counts them (`ConstantsAssumption`,
`SupervisorAssumption`, `ClientAssumption`, `IdentityAssumption`, `JournalAssumption`,
`PublicationAssumption`, `MachineAssumption`, `SessionsAssumption`, `FilesAssumption`,
`ConfigsAssumption`, `CasesAssumption`, `WorkbenchAssumption`, `StoreAssumption`,
`NoneAssumption`, `NoJournalAssumption`). `WorldsAssumption` says that the computers `DesktopRouter` starts on are possible: no two processes that run have one
id, and whatever a file names was started. TLC evaluates the assumptions in every run.

| Theorem | Statement | Argument |
|---|---|---|
| `AgentProofs!TypeCorrect` | `Spec => []TypeOK` | inductive as it is, one step per action |
| `BackupsExist` | `Spec => []NamedBackupsExist` | `BackupInv` below |
| `RepliesCorrect` | `Spec => []RepliesAreTrue` | `ReplyInv` below |
| `ForeignEditsKept` | `Spec => KeepsForeignEdits` | `EditInv` below |
| `WriteImplemented` | `Spec => ImplementsAtomicWrite`, if `MaxEdits = 0` and neither `"commit"` nor `"rollback"` is in `FaultAt` | the refinement, `AtomicInv` below |
| `PlansTyped` | `PlansSpec => []PlansInv` | `FlowInv` and `DiskInv` below |
| `SidecarTrue` | `PlansSpec => []SidecarIsTrue` | from `DiskInv` in every state, no step needed |
| `PlansOnce` | `PlansSpec => [](OnceInv /\ HonestInv)` | below |
| `AppliedOnce` | `PlansSpec => AppliedOnceAsShown` | `OnceInv` for once, `HonestInv` for as shown |
| `UserKept` | `PlansSpec => UserValuesKept` | below |
| `TypeAndCount` | `Spec => [](TypeOK /\ EveryRequestCounted)` | the two together are inductive: a request leaves `serving` counted out, or uncounted but no longer waiting |
| `StatusCorrect` | `Spec => [](StatusIsTrue /\ StoppedMeansIdle)` | `Tied` ties listener, bound, phase and tasks also while the actor starts or drains |
| `CapRespected` | `Spec => []CapHolds` | `OneServing`: without an accept error all waiting requests belong to the last serving, for a stop leaves no task |
| `SwitchImplemented` | `Spec => ImplementsSwitch` | the refinement, `CommandInv` below |
| `ManagerClientProofs!TypeCorrect` | `Spec => []TypeOK` | inductive, one step per action |
| `AnswersAreOwn`, `ExecutedOnce`, `ForceReachesIssuer` | `[]OwnAnswer`, `[]NeverReplayed`, `[]ForceInIssuer` | `Inv` below |
| `IdentityProofs!TypeCorrect` | `Spec => []TypeOK` | with `FromServer`: every certificate anybody holds was issued |
| `ErrorsAreCurrent` | `Spec => []ErrorIsCurrent` | `Inv` below |
| `GenerationsNameCertificates`, `RetiredStayRetired` | `Spec => OneCertificatePerGeneration`, `Spec => NoReturn` | every step is one of the `Moves` of the state file, and each move keeps them under `Inv` |
| `NothingIsOrphaned` | `Spec => []NoOrphan` | `Whole` below |
| `JournalProofs!TypeCorrect` | `Spec => []TypeOK` | inductive, one step per action |
| `NothingIsForgotten` | `Spec => []NothingForgotten` | `Inv` below |
| `CertificatesAreRight` | `Spec => []IssuedRightly` | `NewDevice`: the record under way is allowed by the whole log |
| `PublicationProofs!TypeCorrect`, `AcksStayTrue` | `[]TypeOK`, `[]AcksAreTrue` | `IInv` below |
| `ToldStaysRefused`, `RootRevocationIsFinal` | `[]RevokedStaysRefused`, `Spec => IssuerStaysRevoked` | `IInv` below |
| `DelaysAreReported` | `Spec => []DelayIsReported` | `IInv` and `SeenRight` below |
| `DesktopRouterProofs!TypeCorrect` | `Spec => []TypeOK` | `SafeInv` below |
| `KeyIsForTrusted`, `ForceIsConfirmed` | `[]KeyOnlyToTrusted`, `[]ForceHitsConfirmed` | `SafeInv` below |
| `RecordTellsBound`, `RemovedWhenEnded` | `[]RecordIsTrue`, `Spec => RemovesOnlyEnded` | `StateInv` below |
| `OneAttemptEver` | `Spec => []OneAttempt` | `AttemptInv` below |
| `ShellProofs!TypeCorrect` | `Spec => []ShellTypeOK` | `WorkInv`, `ShellInv` below |
| `IndexIsSo` | `Spec => []IndexIsTrue` | `StoreInv` below |
| `UpdateIsSafe`, `ShownIsSo`, `QuitIsSafe` | `[]UpdateSafe`, `[]ShownIsCurrent`, `Spec => QuitSafe` | `ShellInv` below |

`NamedBackupsExist` is not inductive: a journal is written from memory, and what
is in memory was collected step by step. `BackupInv` adds that (`Numbered`) a
running write has the number of its plan, (`Prepares`) until the barrier no
journal with that number exists, so `Abandon` deletes no backup a journal names,
(`BacksUp`) the targets already passed by the loop have their backups, and
(`Backed`) from the barrier on the journal in memory names existing backups, as
does the one on disk. The lemma `OutsidePreparation` covers all steps after the
barrier at once: they write to `journal` only what is in `mem` and remove no
copy.

`RepliesAreTrue` speaks of the end of an operation, so `ReplyInv` says what each of its
steps may rely on of the files nobody edited: until the answer nobody is told anything
(`Unanswered`), the journal in memory agrees with the plan (`Agrees`), a file that is
not yet replaced is as before, and all are as long as `replaced` is false
(`Remembers`), and those the loop has passed are as planned (`Advances`). Where the
rollback cannot prove a file the answer is `ROLLBACK_FAILED`, which promises nothing.
`EditInv` is for `KeepsForeignEdits`: between the check of a file and its replacement
the file is as checked unless it is in `raced`, and whatever is about to be replaced by
a rollback has been copied aside (`Checked`, `KeptAside`).

`WriteImplemented` is for any files, sessions, crashes, respawned sessions and faults of
the other operations. `AtomicInv` says when the journal left on disk matters: where a
live session may accept a write, and while one prepares, a recovery from it would change
nothing (`Shelved`, `Harmless`); from the barrier to the end it is the journal in memory
(`Follows`, `Alike`); and whoever dies, every target of an uncommitted one is as before
or as planned (`Reversible`), so that the rollback, which is through with the targets it
has passed (`PutsBack`), always ends in a proof. What a file counts as (`Counted`) then
moves in the one step that writes the committed journal; every other step is a reply, an
acceptance or a stutter. The two hypotheses are the limits of the code, not of the proof:
with a fault of the commit the refinement is false (`torn`), and with edits or two faults
of rollbacks a write whose rollback was not proven leaves files that the next write
starts from (section 5, `journal.rs` 504).

The proofs about `AgentPlans` reason on what may be in a file, not on paths through the
commands. `DiskInv` says (`FilesFit`) that a file is a document of its own kind of
entries and has the manager's values only where a configuration puts them, `Router`
where it is fixed and elsewhere a configuration's; (`SectionsFit`) that a section of
the sidecar is of one configuration, owns what that one sets, and the contents it
recorded hold the fragment whole; and (`ManagedIsRecorded`) that what the manager
put in a file is recorded. Edits keep it because nobody else writes the manager's
values (`OfOthers`, an assumption on the cases), a plan because it removes what the old
section owned and the new one does not (`Obsolete`), and a cleanup because it removes
what the section owns. `ManagedIsRecorded` alone is not inductive: that `Obsolete` is
enough needs that all of a section's values are of its configuration. The other half of
`SidecarIsTrue` then holds in every such state: merging a fragment that is there
changes nothing, so there is nothing to ask.

`FlowInv` types the flows and the commands. `OnceInv` follows a write across the places
where the code lets go of the flows: one that passed the second look has marked the
flow and has it as it is (`Holds`), no two of them are of one flow, and a flow that was
written and still exists is held by the write that will end it. `HonestInv` says that a
preview, wherever it is, is the plan of its own token: `EffectOf` computes the plan from
the token alone, and the lemma `EffectOfToken` that it is `Effect` in every state with
that token, for the token covers all that the plan reads. What is written under an
equal token is then what was shown, although the state between was another.

`UserKept` compares a file with what becomes of it: what is lost by a merge was in the
fragment's place or obsolete (`Dropped`), and then `Drifted` names it or a login is
asked about, so the approval was given; `other` and `policy` are never lost
(`OtherKept`); and a cleanup removes only what the section owns, of the user's only with approval.

`SupervisorProofs!SwitchImplemented` maps every step of the actor: a command is in the
queue or in hand until it is answered, each once (`Once`), the one in hand is of the
kind the actor executes (`Executing`), and a caller that waits is owed exactly one
(`Numbered`, `Owed`). The effect of a start is the step that binds, that of a stop
the step that ends the drain; every other step is a caller's or a stutter.

`OwnAnswer` needs what the channels hold. `ManagerClientProofs!Inv` adds that a
session not yet created has empty channels (`Unborn`), a request that is awaited
was sent to the session that is awaited (`Waits`), ids in channels are below
`nextId` (`Numbered`) and no two requests share one (`Unique`), and a pending
confirmation is of the session that issued it (`Confirmed`). A late answer then
has an id that is never awaited again.

`IdentityProofs!Inv` says of every device where it can be: connected
(`Connected`), awaited (`Awaited`), being retired, or still to come. The last is
impossible for a device somebody holds, because devices are numbered downwards
from what is left of the logins (`Past`); so a late answer names a device that is
either the current one or retiring, and retiring devices never leave that state.

`NoOrphan` relates what the device wrote down, what its clients have in hand and what
the server decided, each of which moves without the others. Its core (`Guarded`) is that
an enrolment that may still be answered, and every certificate that is accepted, are of
a device that is connected, waited for or noted for cancelling or revoking. To keep it
through the steps that forget a note, `Whole` adds: what the server's store looks like
(`Logins`, `Chain`: one certificate per login, one later successor per certificate), that
a device that waits was never connected (`Apart`), that a noted certificate ends no
earlier than all others of its device but the successor by the operation noted with it
(`Covered`, so `Prune` may drop it at its end), that what is to be cancelled is over at
the time noted with it (`Waiting`), and what the answers under way entitle a client to
do (`Sounds`): a cancellation is dropped only when the enrolment is withdrawn and its
certificate published as revoked, a revocation when all certificates of the device are,
and a successor is put in use only for the operation that asked for it, whose note
(`Tracked`) outlives the question. `Steady` says of a step that it leaves every sound
call sound, so each action is dealt with once, for all the other clients' calls too.

`JournalProofs!Inv` must allow for a log that lost records and a marker that is
ahead of it. It says that the log is a chain (`Chained`), that both markers know
whatever was told (`MarkersKnow`), and what a call under way may rely on at each
step (`CallsKnow`): after recovery the log continues both markers, and from
`operate` to `write` the database is the log. `told` is thus in any log that
`checkAuthorityHead` accepts.

`PublicationProofs!IInv` follows a list on its way. Lists only grow until their
ends (`ListsGrow`), every bundle anywhere was signed (`Signedness`), a call is awaited
only for what the publisher waits for (`CallsMatch`), nothing that nginx has or may
read is beyond the high-water mark and a loader wrote what it is about to confirm
(`LoaderWrote`), an acknowledgment is at most what each generation has and what is on
disk (`ClaimsHeld`); the reader's part and what was told follow (`ReaderRight`,
`ToldRight`), and for the root `CondemnedRight`. `ToldRight` needs no clock: a list
that expired refuses everybody.

`DelayIsReported` is about an answer put together from queries between which anything
may happen. `SeenRight` says of each gateway already asked, and each certificate revoked
before the question: the list the gateway acknowledged then or later has it, or the
oldest decision the reader noted is no later than its.

`DesktopRouterProofs!SafeInv` says that everything that names a process names one that
was started (`Seen`), so that no process to come is any of them although it may take
the id of one, and ties to each place of a call what was looked at before: who answered,
who was read of, who was vouched for (`KeyFits`), what the user was shown (`ForceFits`).
A token's number is in one place (`Numbers`). `StateInv` holds while no session was
replaced: the state file is what the one call has read (`Knows1`), the supervisor's
queue ends with its command (`QueueOf1`), and what is bound is recorded or about to be
(`Recorded1`). `AttemptInv` ties what was signalled to the pending attempt on disk,
which outlives crashes.

`ShellProofs!WorkInv` says what each command of the workbench has in hand, and that one
operation runs. `StoreInv` follows a change of the index from the copy to the rename to
the removal of files, one change at a time (`Single`), and each of its parts holds until
the upset of the code that breaks it happens, in the words of `IndexIsTrue`. `ShellInv`
says who may be under way together (`LifeFits`), what a granted quit knows of the draft
(`DraftFits`), and that a status on its way to the snapshot is current or a poll is due
that corrects it (`Corrected`).

Only model-checked:
All liveness: `LockReleased`, `NothingHangs`, `CallsAnswered`, `TodosDischarged`,
`CallEnds`, `EverythingEnds`, `DecisionsArrive`, `RevocationsArrive`, since TLAPS as used
here proves neither liveness under fairness nor anything about ENABLED. Every other
property of a passing run is stated by a theorem.

No module that holds or is used by theorems has recursive operators.


## 5. Where code and documentation disagree

Each is a run that TLC ends with a counterexample.

1. `torn`. When the committed journal cannot be written (`J`:403) the journal in
   memory keeps `committed = true` (402); the rollback's own progress writes put
   that on disk. If the process dies before the rollback ends, the next start
   takes the committed branch (481), removes the journal and leaves mixed files.
   `docs/DESKTOP.md:91`: "Rollback and startup recovery restore Agent files and
   sidecar together if the operation fails or is interrupted."
2. `orphans`. A conversation deleted while a send is between its check and its
   change of the index (`image_workbench/service.rs:387`) leaves messages and jobs
   that belong to nothing and cannot be removed. `docs/DESKTOP.md:140`: "Delete a
   conversation or uninstall the app to remove it."

Smaller observations, met while modelling and not stated as findings:

- Agent transaction: a write that replied `ROLLBACK_FAILED` does not disable later
  writes of the same session (`J`:504; only `AgentService::new` sets
  `writes_disabled`, and `service.rs:350` checks nothing else), although
  `docs/DESKTOP.md:114` says that further writes fail closed.
- Gateways: a loader that died between the installation and the test has left its
  files, and a later loader whose own test fails restores those, not "the last tested
  files" (`gateway_load.go:191`); nginx that is restarted then reads them untested.
- Sessions: one created while an abandoned one holds the lock works in a temporary
  home and reports success (`session.rs:249`), where `docs/TROUBLESHOOTING.md:149`
  lets the user expect `AGENT_OPERATION_BUSY`. After the one recovery, a watchdog
  leaves its request with the session and the next is sent beside it
  (`manager.rs:393`), although `manager.rs:4-6` says "one request in flight"; answers
  still go to their own calls (`OwnAnswer`).
- Agent plans, each in `Unasked` or `left`. `docs/AGENT_MODELS.md` says more than the
  code does at three places:
  - 346: "drift in a managed namespace requires preview-bound overwrite approval".
    `plan_opencode` gives an `opencode.jsonc` the format `Json` (`preview.rs:320`), so
    `inspect_ownership` never strips its comments (672), and the user's model and
    provider in a file with comments are replaced without the approval that one without
    comments needs. Codex' `model` and `model_provider` and an API key of the same login
    mode are replaced without one, too.
  - 223: "Enabling Fable over an existing unowned value is a collision/drift condition
    that requires preview-bound approval; it is never silently overwritten." The sidecar
    knows an Agent, not a place: after a changed override the section's owned keys count
    as owned in the other file, and a value of the user's under one of them, Fable's
    included, is replaced there unasked.
  - 304: "A preserved user default model is not newly claimed by later normal writes."
    `preview`, `validate_preview` and `write` all pass `own_root_model: true`
    (`service.rs` 254, 296, 383), so each replaces the root `model` (`render.rs:338`) and the sidecar records it
    as owned (`sidecar.rs:307`); no default model is preserved that could be left
    unclaimed. The model has what the code does.

  For the same reason as at 223 the first file is no longer recorded after a changed
  override, nor an `opencode.jsonc` that was rebuilt in place and then moved to
  `opencode.json` (`left`). A rebuild of Codex that follows a `forced_login_method` of
  `chatgpt` asks for no approval of the changed login (`assess_codex_merge` fails and
  715 ignores it).
- Enrolment journal: a record whose write succeeded and whose sync failed
  (`internal/routerenroll/journal.go:447`) is read back by the next call's recovery,
  which moves `head.json` and applies it to SQLite without syncing the log
  (`docs/ENROLLMENT-OPERATIONS.md:33` has the record fsynced first). A power cut can
  then leave both ahead of the log, and every recovery refuses.
- Supervisor: a `local_addr` or transport error after the bind leaves the phase at
  `Starting` (`supervisor.rs:562`, 568); a panic that is collected during a drain
  is not recorded (609), and one collected after a listener loss replaces `Failed`
  by `Degraded` (271); `active` over-counts after aborted or panicking requests
  (666-672).
- Workbench: deleting conversation B removes the image A's unsent draft refers to,
  and A's send then leaves its job running; of two changes of the store that
  overlap one is lost; Stop is not noticed while an answer is being read; an error
  of the connection leaves the message at "requesting"; `interrupt_on_exit` marks
  jobs as interrupted although the quit may still be cancelled.
- Shell: a draft edited while a granted quit waits for an operation is lost without
  a question (fact `late`); the listen override puts back the draft flag it read
  before (`raced`); a second exit request of the system during `execute_quit` ends
  the process before the router's stop is finished; an update whose status check
  after the stop fails leaves the router stopped; after an update on a system other
  than Windows the prepared restart blocks quits until it happens.

## 6. Not modelled

`PROJECT.json` gives the reason for each component. The proxy path,
configuration, probes and contracts are
transformations of data without a shared state: their correctness is that of
single functions, which the repository's tests cover with examples. The process
table, key stores, nginx and SQLite belong to others and appear as environment.
The Go manager and router are frozen and not run by the desktop; the user
interface only presents; diagnostics only read.
Of the enrolment server `Identity` has the requests its clients make, `Journal`
how decisions become durable and `Publication` how revocations get to the gateways;
policies, users and memberships are not modelled.

Also left out: loss of power except in `Journal` (elsewhere a renamed file stays renamed), malformed answers
inside one binary, and clocks that disagree.

## 7. State of the plan

Done, in the order of the harm a defect does: `AgentTxn`, `AgentPlans`, `Supervisor`,
`ManagerClient` (lost user configuration, a router that cannot be stopped or lies
about its state, a call executed twice); `Identity` with the server's side of its
requests; `Journal` and `Publication` below it; `DesktopRouter` with occupant, migration and trusted router; `Shell` and
`Workbench` with scheduler, port recovery and updater. The abstract
specifications are `AtomicWrite` and `RouterSwitch`.

Left, most useful first:

1. Power loss in `AgentTxn`: which writes are synced before which renames.
