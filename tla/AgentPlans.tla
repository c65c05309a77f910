------------------------------ MODULE AgentPlans ------------------------------
(* From a model flow of the desktop to the agents' files: the flow is opened, a
   plan is previewed, the user approves what it asks, and the plan is written; or
   what was written is cleaned up.

   A plan is computed from the files, from the sidecar (what was last applied to
   each agent) and from the request, when it is previewed and again when it is
   written; the token carries a claim about everything the plan read, and the write
   refuses a plan with another token.  Between the two, the user and the agents
   edit the files, other flows write, and the desktop restarts, perhaps with
   other environment overrides.  The transaction that puts a plan on disk is
   AgentTxn's; here it happens at once or not at all (AtomicWrite). *)
EXTENDS AgentFiles, Naturals, FiniteSets

CONSTANTS Tasks,       \* commands the page has under way
          Cases        \* a machine at first, and what happens on it

\* What somebody else may leave at a path: nothing of the manager's, an API key login
\* and the old release's provider only where they belong.  Only opencode.jsonc has
\* comments: with one the others do not parse.
OthersValue(entry) ==
  {User} \union (IF entry = "login" THEN {Own} ELSE {})
         \union (IF entry \in {"custom", "roots"} THEN {Legacy} ELSE {})
OfOthers(path, file) ==
  \/ file \in {Missing, Broken, Unusable, Irregular}
  \/ file = Shapeless /\ Kind(path) = "claude"
  \/ /\ file = Document(file.has)
     /\ file.has = [e \in DOMAIN file.has |-> file.has[e]]
     /\ DOMAIN file.has \subseteq Entries(Kind(path))
     /\ "comments" \in DOMAIN file.has => path = "jsonc"
     /\ \A e \in DOMAIN file.has : file.has[e] \in OthersValue(e)

\* A case: the files at first, the sets of agents the user selects, the edits others
\* may make, the agents whose override may be set, and the bounds: commands at once,
\* flows opened, previews of a flow the page still holds, edits and restarts.
ASSUME CasesAssumption == \A c \in Cases :
  /\ DOMAIN c.files \subseteq Paths
  /\ \A path \in DOMAIN c.files : OfOthers(path, c.files[path])
  /\ UNION c.selections \subseteq Agents /\ {} \notin c.selections
  /\ \A edit \in c.edits : edit[1] \in Paths /\ OfOthers(edit[1], edit[2])
  /\ c.movable \subseteq {"claude"}
  /\ {c.tasks, c.flows, c.shown, c.changes, c.restarts} \subseteq Nat

VARIABLES files,     \* path -> what is there
          sidecar,   \* agent -> its section: model config, owned entries, files written
          moved,     \* agents whose override variable is set
          flows,     \* model_flows: id -> ModelFlow
          shown,     \* flow -> previews the page was given
          removal,   \* agent -> the cleanup preview the page was given
          task,      \* what each command is doing
          left,      \* paths written to that no section records any more
          applied,   \* flows a write of which was carried out
          spent       \* what is used of the bounds, and the case

plansVars == <<files, sidecar, moved, flows, shown, removal, task, left, applied, spent>>
page == <<flows, shown, task>>
onDisk == <<files, sidecar, left>>

Modes(agents) == [agents -> {"merge", "rebuild"}]

-------------------------------------------------------------------------------
(* What the manager reads. *)

\* claude_paths, opencode_paths, codex_paths
Current(agent) ==
  CASE agent = "claude" -> {IF agent \in moved THEN "claude_env" ELSE "claude"}
    [] agent = "opencode" ->
         {IF ~Regular(files["json"]) /\ Regular(files["jsonc"]) THEN "jsonc" ELSE "json"}
    [] agent = "codex" -> {"config", "auth"}

\* A merge moves opencode.jsonc to opencode.json; a rebuild stays where it is.
Target(path, mode) == IF path = "jsonc" /\ mode = "merge" THEN "json" ELSE path

\* inspect_json_state, inspect_codex and finalize_recovery: an env of another shape
\* bars a rebuild, but the state is not invalid.
Invalid(agent) == \E p \in Current(agent) : ~Usable(files[p]) /\ files[p] # Shapeless
Eligible(agent) ==
  /\ \E p \in Current(agent) : files[p] = Broken
  /\ \A p \in Current(agent) : Usable(files[p]) \/ files[p] = Broken

\* plan_rebuild and validate_rebuild_state; plan_claude, plan_opencode and
\* plan_codex: whether there is a plan at all.  Nothing may be where a file moves to.
Rebuildable(agent) == Eligible(agent)
Mergeable(agent) ==
  /\ ~Invalid(agent)
  /\ \A p \in Current(agent) :
       Target(p, "merge") # p => files[Target(p, "merge")] = Missing
  /\ agent = "codex" => ~PolicyForbids(files["config"].has)
Plannable(modes) ==
  \A a \in DOMAIN modes : IF modes[a] = "rebuild" THEN Rebuildable(a) ELSE Mergeable(a)

Owned(agent, config) ==
  UNION {OwnedIn(k, config) : k \in {Kind(p) : p \in Current(agent)}}

\* As if what the last configuration set and this one does not were left there.
MutantObsolete(agent, config) == {}

\* obsolete_claude_env and obsolete_codex_optional
Obsolete(agent, config) ==
  IF agent \in DOMAIN sidecar
  THEN (sidecar[agent].owned \ Owned(agent, config))
       \intersect (IF agent = "codex" THEN {"optional"} ELSE {"managed", "optional"})
  ELSE {}

\* FileRender: what the plan puts at the target of a path.
Output(path, mode, config) ==
  LET kind == Kind(path)
      has == files[path].has
      obsolete == Obsolete(AgentOf(path), config)
  IN Document(
       CASE mode = "rebuild" -> Fragment(kind, config)
         [] kind = "claude" /\ mode = "merge" -> MergeClaude(has, config, obsolete)
         [] kind = "opencode" /\ mode = "merge" -> MergeOpenCode(has, config)
         [] kind = "config" /\ mode = "merge" ->
              MergeCodex(has, config, obsolete, Historical(has, files["auth"].has))
         [] kind = "auth" /\ mode = "merge" -> MergeAuth(has))

\* merge_claude, which is the first to look at the shape of env, when the write
\* renders the plan: a preview shows only the fragment.
Renders(modes) ==
  \A a \in DOMAIN modes : modes[a] = "merge" => \A p \in Current(a) : files[p] # Shapeless

Effect(modes, config) ==
  LET sources == UNION {Current(a) : a \in DOMAIN modes}
  IN [t \in {Target(p, modes[AgentOf(p)]) : p \in sources} |->
        LET p == CHOOSE q \in sources : Target(q, modes[AgentOf(q)]) = t
        IN Output(p, modes[AgentOf(p)], config)]

\* append_sidecar_plan and sidecar_section
Sections(modes, config) ==
  [a \in DOMAIN modes |->
     [config |-> config, owned |-> Owned(a, config),
      at |-> Restrict(Effect(modes, config),
                      {Target(p, modes[a]) : p \in Current(a)})]]

-------------------------------------------------------------------------------
(* What the manager asks about (inspect_ownership). *)

Changed(agent) ==
  \E p \in DOMAIN sidecar[agent].at : files[p] # sidecar[agent].at[p]

\* applied_revisions_match and discover_existing: the agents whose section the page
\* is offered as what is configured.
Offered(agent) ==
  /\ agent \in DOMAIN sidecar /\ ~Changed(agent)
  /\ ~Invalid(agent) /\ \E p \in Current(agent) : files[p] # Missing

\* opencode: a source with comments is never parsed here, because the plan says
\* Json of it.
Collides(agent, config) ==
  CASE agent = "claude" ->
         \E p \in Current(agent) : \E e \in Owned(agent, config) :
           /\ Named(files[p].has, e)
           /\ agent \in DOMAIN sidecar => e \notin sidecar[agent].owned
    [] agent = "opencode" ->
         \E p \in Current(agent) :
           /\ ~Named(files[p].has, "comments")
           /\ Named(files[p].has, "model") \/ Named(files[p].has, "provider")
    [] agent = "codex" -> ConfigCollides(files["config"].has)

\* As if a managed agent were only compared with what was written.
MutantDrifted(modes, config) ==
  {a \in DOMAIN modes :
     /\ modes[a] = "merge"
     /\ IF a \in DOMAIN sidecar THEN Changed(a) ELSE Collides(a, config)}

Drifted(modes, config) ==
  {a \in DOMAIN modes :
     /\ modes[a] = "merge"
     /\ \/ a \in DOMAIN sidecar /\ Changed(a)
        \/ (a \in DOMAIN sidecar => a = "claude") /\ Collides(a, config)}

AsksAuth(modes) ==
  LET cfg == files["config"].has
      auth == files["auth"].has
  IN /\ "codex" \in DOMAIN modes /\ ~PolicyForbids(cfg)
     /\ AuthCollides(cfg, auth) \/ Historical(cfg, auth)

\* revision_files, revision_agents and cleanup_revision_file
Revisions(paths) == Restrict(files, paths)

\* As if the token did not cover the model configuration.
MutantToken(modes, config) ==
  LET sources == UNION {Current(a) : a \in DOMAIN modes}
      targets == {Target(p, modes[AgentOf(p)]) : p \in sources}
  IN [modes |-> modes, sidecar |-> sidecar, drifted |-> Drifted(modes, config),
      auth |-> AsksAuth(modes), files |-> Revisions(sources \union targets)]

\* token_for_plan and revision_files: the claims of the revision token.
Token(modes, config) ==
  LET sources == UNION {Current(a) : a \in DOMAIN modes}
      targets == {Target(p, modes[AgentOf(p)]) : p \in sources}
  IN [modes |-> modes, config |-> config, sidecar |-> sidecar,
      drifted |-> Drifted(modes, config), auth |-> AsksAuth(modes),
      files |-> Revisions(sources \union targets)]

\* build_cleanup_plan and cleanup_file_plan: the entries removed from each file the
\* section records that is still there.
Removed(agent) ==
  LET s == sidecar[agent] IN
  [p \in {q \in DOMAIN s.at : files[q] # Missing} |->
     Cleaned(Kind(p), files[p].has, s.config, s.owned)]
Removable(agent) ==
  agent \in DOMAIN sidecar /\ \A p \in DOMAIN sidecar[agent].at : Usable(files[p])

\* A file with nothing to remove is not part of the plan, unless it is empty.
CleanEffect(agent) ==
  LET gone == Removed(agent)
      After(p) == CleanFile(Kind(p), files[p].has, gone[p])
  IN [p \in {q \in DOMAIN gone : gone[q] # {} \/ After(q) = Missing} |-> After(p)]

\* cleanup_token_for_plan
CleanToken(agent) ==
  [sidecar |-> sidecar, drifted |-> Changed(agent),
   files |-> Revisions(DOMAIN CleanEffect(agent) \union
                       {p \in DOMAIN sidecar[agent].at : files[p] = Missing})]

-------------------------------------------------------------------------------
(* The desktop's commands. *)

Idle == [op |-> "idle"]
Room(t) ==
  /\ task[t] = Idle
  /\ Cardinality({u \in Tasks : task[u] # Idle}) < spent.case.tasks
Become(t, w) == task' = [task EXCEPT ![t] = w]

\* No preview of the flow yet: no modes.
NewFlow(agents) == [agents |-> agents, modes |-> Nothing, writing |-> FALSE]

\* agent_models: the flow, bound to the agents asked for.  Its id reaches the page
\* only with a good answer; with another PendingFlow has dropped it.
OpenFlow(agents) ==
  /\ spent.flows < spent.case.flows
  /\ LET f == spent.flows + 1 IN
     /\ flows' = Over([g \in {f} |-> NewFlow(agents)], flows)
     /\ shown' = Over([g \in {f} |-> {}], shown)
     /\ spent' = [spent EXCEPT !.flows = f]
  /\ UNCHANGED <<onDisk, moved, removal, task, applied>>

\* agent_model_flow_destroy, and the page forgets what it showed.
Destroy(f) ==
  /\ flows' = Without(flows, {f})
  /\ shown' = Without(shown, {f})
  /\ UNCHANGED <<onDisk, moved, removal, task, applied, spent>>

\* validate_config_request: a flow with a write under way has expired.
Free(f) == f \in DOMAIN flows /\ ~flows[f].writing

PreviewAsk(t, f, modes, config) ==
  /\ Room(t)
  /\ Free(f)
  /\ Become(t, [op |-> "preview", flow |-> f, modes |-> modes, config |-> config,
                at |-> "asked", got |-> Nothing])
  /\ UNCHANGED <<onDisk, moved, flows, shown, removal, applied, spent>>

\* AgentService::preview.  What the page shows of the plan is its effect.
PreviewServe(t) ==
  /\ task[t].op = "preview" /\ task[t].at = "asked"
  /\ LET w == task[t] IN
     IF Plannable(w.modes)
     THEN Become(t, [w EXCEPT !.at = "answered",
                              !.got = [token |-> Token(w.modes, w.config),
                                       effect |-> Effect(w.modes, w.config)]])
     ELSE Become(t, Idle)
  /\ UNCHANGED <<onDisk, moved, flows, shown, removal, applied, spent>>

\* The flow is looked up again: the answer counts only if it is still free.
PreviewShow(t) ==
  /\ task[t].op = "preview" /\ task[t].at = "answered"
  /\ Become(t, Idle)
  /\ LET w == task[t] IN
     IF Free(w.flow)
     THEN /\ flows' = [flows EXCEPT ![w.flow].modes = w.modes]
          /\ shown' = [shown EXCEPT ![w.flow] =
                          IF Cardinality(@) < spent.case.shown THEN @ \union {w.got} ELSE {w.got}]
     ELSE UNCHANGED <<flows, shown>>
  /\ UNCHANGED <<onDisk, moved, removal, applied, spent>>

Rebuilt(modes) == {a \in DOMAIN modes : modes[a] = "rebuild"}

\* agent_write_command up to the credential: the flow is checked and remembered.
\* The page approves the rebuilds of the preview it shows, which must be those of
\* the flow's latest one.
WriteAsk(t, f, preview, config, overwrite, auth) ==
  /\ Room(t)
  /\ Free(f)
  /\ flows[f].modes # Nothing
  /\ Rebuilt(preview.token.modes) = Rebuilt(flows[f].modes)
  /\ Become(t, [op |-> "write", flow |-> f, preview |-> preview, config |-> config,
                overwrite |-> overwrite, auth |-> auth, at |-> "checked",
                snap |-> flows[f], answer |-> "none"])
  /\ UNCHANGED <<onDisk, moved, flows, shown, removal, applied, spent>>

\* After the credential was read the flow must be as it was; it is marked and the
\* request goes out with the flow's modes.
WriteSend(t) ==
  /\ task[t].op = "write" /\ task[t].at = "checked"
  /\ LET w == task[t] IN
     IF w.flow \in DOMAIN flows /\ flows[w.flow] = w.snap
     THEN /\ flows' = [flows EXCEPT ![w.flow].writing = TRUE]
          /\ Become(t, [w EXCEPT !.at = "sent", !.snap.writing = TRUE])
     ELSE UNCHANGED flows /\ Become(t, Idle)
  /\ UNCHANGED <<onDisk, moved, shown, removal, applied, spent>>

\* validate_preview, and again in AgentService::write: the plan of now is the one
\* the token is of, and the approvals are exactly those it needs.
AsShown(w) == Token(w.snap.modes, w.config) = w.preview.token
Approved(w) ==
  /\ w.overwrite = (Drifted(w.snap.modes, w.config) # {})
  /\ w.auth = AsksAuth(w.snap.modes)

Put(effect) == files' = Over(effect, files)

\* append_sidecar_plan and execute_plan: the files and the sidecar, at once.
CarryOut(w) ==
  LET modes == w.snap.modes
      sections == Sections(modes, w.config)
      before == UNION {DOMAIN sidecar[a].at : a \in DOMAIN modes \intersect DOMAIN sidecar}
      after == UNION {DOMAIN sections[a].at : a \in DOMAIN modes}
  IN /\ Put(Effect(modes, w.config))
     /\ sidecar' = Over(sections, sidecar)
     /\ left' = left \union (before \ after)
     /\ applied' = applied \union {w.flow}

\* Whether a failed check says PREVIEW_STALE depends on which comes first: a change
\* of the files between the two validations may fail an approval instead.  The
\* catalog may have changed, and the transaction may fail and restore everything.
WriteServe(t) ==
  /\ task[t].op = "write" /\ task[t].at = "sent"
  /\ LET w == task[t]
         Answer(a) == Become(t, [w EXCEPT !.at = "answered", !.answer = a])
     IN \/ /\ Plannable(w.snap.modes) /\ AsShown(w) /\ Approved(w) /\ Renders(w.snap.modes)
           /\ CarryOut(w)
           /\ Answer("done")
        \/ /\ Plannable(w.snap.modes) /\ ~AsShown(w)
           /\ Answer("stale")
           /\ UNCHANGED <<onDisk, applied>>
        \/ Answer("failed") /\ UNCHANGED <<onDisk, applied>>
  /\ UNCHANGED <<moved, flows, shown, removal, spent>>

\* finish_model_flow_write: after a stale preview the flow can be used again, after
\* anything else it is gone; unless it is another flow by now.
WriteEnd(t) ==
  /\ task[t].op = "write" /\ task[t].at = "answered"
  /\ Become(t, Idle)
  /\ LET w == task[t] IN
     IF ~(w.flow \in DOMAIN flows /\ flows[w.flow] = w.snap)
     THEN UNCHANGED <<flows, shown>>
     ELSE IF w.answer = "stale"
     THEN flows' = [flows EXCEPT ![w.flow].writing = FALSE] /\ UNCHANGED shown
     ELSE flows' = Without(flows, {w.flow}) /\ shown' = Without(shown, {w.flow})
  /\ UNCHANGED <<onDisk, moved, removal, applied, spent>>

\* AgentService::cleanup_preview
CleanPreview(agent) ==
  /\ Removable(agent)
  /\ agent \in DOMAIN removal => removal[agent] # CleanToken(agent)
  /\ removal' = Over([a \in {agent} |-> CleanToken(agent)], removal)
  /\ UNCHANGED <<onDisk, page, moved, applied, spent>>

CleanAsk(t, agent, approve) ==
  /\ Room(t)
  /\ agent \in DOMAIN removal
  /\ Become(t, [op |-> "clean", agent |-> agent, token |-> removal[agent],
                approve |-> approve])
  /\ removal' = Without(removal, {agent})
  /\ UNCHANGED <<onDisk, moved, flows, shown, applied, spent>>

CleanAccepted(w) ==
  /\ Removable(w.agent)
  /\ CleanToken(w.agent) = w.token
  /\ Changed(w.agent) = w.approve

\* AgentService::cleanup_write, which may fail like any transaction.
CleanServe(t) ==
  /\ task[t].op = "clean"
  /\ Become(t, Idle)
  /\ \/ /\ CleanAccepted(task[t])
        /\ Put(CleanEffect(task[t].agent))
        /\ sidecar' = Without(sidecar, {task[t].agent})
     \/ UNCHANGED <<files, sidecar>>
  /\ UNCHANGED <<moved, left, flows, shown, removal, applied, spent>>

\* The user or the agent edits a file: it is another one now, or a document has
\* some entries of another laid over it and keeps the rest.
Laid(content, was) ==
  IF content.is = "document" /\ was.is = "document"
  THEN Document(Over(content.has, was.has)) ELSE content
UserEdit(path, content) ==
  /\ spent.edits < spent.case.changes
  /\ \E now \in {content, Laid(content, files[path])} :
       files[path] # now /\ files' = [files EXCEPT ![path] = now]
  /\ spent' = [spent EXCEPT !.edits = @ + 1]
  /\ UNCHANGED <<page, sidecar, moved, left, removal, applied>>

\* The desktop ends and starts again; only the disk remains.
Restart(now) ==
  /\ spent.restarts < spent.case.restarts
  /\ moved' = now
  /\ flows' = Nothing /\ shown' = Nothing /\ removal' = Nothing
  /\ task' = [t \in Tasks |-> Idle]
  /\ spent' = [spent EXCEPT !.restarts = @ + 1]
  /\ UNCHANGED <<onDisk, applied>>

PlansInit ==
  /\ \E c \in Cases :
       /\ spent = [flows |-> 0, edits |-> 0, restarts |-> 0, case |-> c]
       /\ files = [p \in Paths |-> IF p \in DOMAIN c.files THEN c.files[p] ELSE Missing]
  /\ sidecar = Nothing /\ moved = {}
  /\ flows = Nothing /\ shown = Nothing /\ removal = Nothing
  /\ task = [t \in Tasks |-> Idle]
  /\ left = {} /\ applied = {}

PlansNext ==
  \/ \E agents \in spent.case.selections : OpenFlow(agents)
  \/ \E f \in DOMAIN flows : Destroy(f)
  \/ \E t \in Tasks :
       \/ \E f \in DOMAIN flows, config \in Configs :
            \/ \E modes \in Modes(flows[f].agents) : PreviewAsk(t, f, modes, config)
            \/ \E preview \in shown[f], overwrite, auth \in BOOLEAN :
                 WriteAsk(t, f, preview, config, overwrite, auth)
       \/ PreviewServe(t) \/ PreviewShow(t)
       \/ WriteSend(t) \/ WriteServe(t) \/ WriteEnd(t)
       \/ \E agent \in Agents, approve \in BOOLEAN : CleanAsk(t, agent, approve)
       \/ CleanServe(t)
  \/ \E agent \in Agents : CleanPreview(agent)
  \/ \E edit \in spent.case.edits : UserEdit(edit[1], edit[2])
  \/ \E now \in SUBSET spent.case.movable : Restart(now)

PlansSpec == PlansInit /\ [][PlansNext]_plansVars

-------------------------------------------------------------------------------
(* What the code promises. *)

Carried(t) ==
  /\ task[t].op = "write" /\ task[t].at = "sent"
  /\ task'[t].op = "write" /\ task'[t].answer = "done"
Cleans(t) ==
  /\ task[t].op = "clean" /\ task'[t] = Idle
  /\ task[t].agent \in DOMAIN sidecar \ DOMAIN sidecar'

\* The user's entries of a file that are not in the one that takes its place.
Lost(before, after) ==
  {e \in DOMAIN before.has : before.has[e] \in Foreign
                             /\ ~Says(after.has, e, before.has[e])}

\* What a merge may replace without a question: comments, opencode's model and
\* provider where there are comments, Codex's root keys, the key of a login of the
\* same kind, and what a section recorded for another path lists.
Unasked(path) ==
  {"comments"}
  \union (IF path = "jsonc" /\ Named(files[path].has, "comments")
          THEN {"model", "provider"} ELSE {})
  \union (IF path = "config" THEN {"roots", "optional"} ELSE {})
  \union (IF path = "auth" /\ Says(files[path].has, "login", Own) THEN {"login"} ELSE {})
  \union (IF AgentOf(path) \in DOMAIN sidecar
             /\ path \notin DOMAIN sidecar[AgentOf(path)].at
          THEN sidecar[AgentOf(path)].owned ELSE {})

WriteKeeps(w) ==
  LET modes == w.snap.modes IN
  \A a \in DOMAIN modes : \A p \in Current(a) :
    LET lost == Lost(files[p], files'[Target(p, modes[a])]) IN
    /\ files[p] \notin {Unusable, Irregular, Shapeless}
    /\ Target(p, modes[a]) # p => files[Target(p, modes[a])] = Missing
    /\ modes[a] = "merge" =>
         /\ files[p] # Broken
         /\ {"other", "policy"} \intersect lost = {}
         /\ lost \ Unasked(p) # {} =>
              \/ w.overwrite /\ p # "auth"
              \/ w.auth /\ lost \ Unasked(p) \subseteq {"login", "tokens", "store", "custom"}

CleanKeeps(w) ==
  \A p \in Paths :
    LET lost == Lost(files[p], files'[p]) \ {"comments"} IN
    /\ lost \subseteq sidecar[w.agent].owned \ {"model"}
    /\ lost # {} => w.approve /\ p \in DOMAIN sidecar[w.agent].at

\* Only a write or a cleanup the user asked for changes a file, one that cannot be
\* read or is of another shape is left alone and so is what stands where a file
\* would move to, one that does not parse is replaced only by an approved rebuild,
\* and what the user had is lost only in the manager's own places and after the
\* approval the preview asked for (render.rs, inspect_ownership).  docs/AGENT_MODELS.md
\* promises it of unowned values at 223, 304 and 346; `Unasked` is where the code
\* does not keep it.
UserValuesKept ==
  [][files' # files /\ spent' = spent =>
       \E t \in Tasks :
         \/ Carried(t) /\ WriteKeeps(task[t])
         \/ Cleans(t) /\ CleanKeeps(task[t])]_plansVars

\* What the manager put in a file is recorded, except in the files it left.
ManagedIsRecorded ==
  \A p \in Paths \ left : \A e \in DOMAIN files[p].has :
    files[p].has[e] \in Rendered =>
      LET a == AgentOf(p) IN
      a \in DOMAIN sidecar /\ p \in DOMAIN sidecar[a].at /\ e \in sidecar[a].owned

\* To write again what is offered asks nothing and changes nothing.
OfferedIsThere ==
  \A a \in DOMAIN sidecar :
    LET again == [b \in {a} |-> "merge"]
        s == sidecar[a]
    IN Offered(a) /\ DOMAIN s.at = {Target(p, "merge") : p \in Current(a)} =>
         /\ Plannable(again) /\ ~AsksAuth(again) /\ Drifted(again, s.config) = {}
         /\ Effect(again, s.config) = s.at

\* Whatever the manager wrote and is still in a file, the sidecar records at that
\* path, so that a later merge or cleanup takes it out again (append_sidecar_plan,
\* obsolete_claude_env, obsolete_codex_optional); except in files a changed
\* override or a moved opencode.json made it leave.  And a section that discovery
\* offers as unchanged is what is there (applied_revisions_match).
SidecarIsTrue == ManagedIsRecorded /\ OfferedIsThere

\* A write changes the files exactly as the preview it was approved from showed,
\* whatever happened since, and is carried out at most once in a flow, also when
\* two commands race (write_in_flight) or the answer is an error.
AppliedOnceAsShown ==
  [][\A t \in Tasks : Carried(t) =>
       /\ task[t].flow \notin applied
       /\ files' = Over(task[t].preview.effect, files)]_plansVars
===============================================================================
