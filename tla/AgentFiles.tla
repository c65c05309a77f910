------------------------------ MODULE AgentFiles ------------------------------
(* The configuration files of the three agents and what the manager does to
   one of them: the fragment it renders, the merge into what the user has, the
   removal on cleanup, and the questions a plan asks of a file first.

   A file that parses is a function from entries to values.  An entry is a group
   of keys the code treats alike, a value tells only whose it is: the user's
   (Own: an API key login of the user's, which looks like the manager's), the one
   an old release wrote (Legacy), the manager's whatever the model configuration
   (Router), or rendered from that model configuration. *)
EXTENDS Functions

CONSTANTS Configs,  \* model configurations of one agent
          Rich      \* those that set the optional keys

User == "user"
Own == "own"
Legacy == "legacy"
Router == "router"

ASSUME ConfigsAssumption ==
  /\ Rich \subseteq Configs
  /\ Configs \intersect {User, Own, Legacy, Router} = {}

Rendered == Configs \union {Router}
Foreign == {User, Own, Legacy}

Agents == {"claude", "opencode", "codex"}

\* Where the files are: Claude Code's at home or where CLAUDE_CONFIG_DIR says,
\* opencode's two names, Codex's two files.
Paths == {"claude", "claude_env", "json", "jsonc", "config", "auth"}
AgentOf(path) == CASE path \in {"claude", "claude_env"} -> "claude"
                   [] path \in {"json", "jsonc"} -> "opencode"
                   [] path \in {"config", "auth"} -> "codex"
Kind(path) == IF AgentOf(path) = "codex" THEN path ELSE AgentOf(path)

\* managed: the env keys always set; optional: those a Rich configuration sets;
\* provider: provider.mtls-router, in config the table of that name; roots: model
\* and model_provider; store: cli_auth_credentials_store; custom: the provider an
\* old release wrote; policy: forced_login_method = "chatgpt"; login: auth_mode and
\* OPENAI_API_KEY; tokens: the competing logins; other: everything else.
Entries(kind) ==
  CASE kind = "claude" -> {"managed", "optional", "other"}
    [] kind = "opencode" -> {"provider", "model", "other", "comments"}
    [] kind = "config" -> {"provider", "roots", "store", "optional", "custom",
                           "policy", "other"}
    [] kind = "auth" -> {"login", "tokens", "other"}

Nothing == [e \in {} |-> User]
Missing == [is |-> "absent", has |-> Nothing]
Broken == [is |-> "broken", has |-> Nothing]       \* does not parse
Unusable == [is |-> "unusable", has |-> Nothing]   \* unreadable, too large, of another shape
Irregular == [is |-> "irregular", has |-> Nothing] \* there, but not a file: a directory
Shapeless == [is |-> "shapeless", has |-> Nothing] \* Claude Code's env is not an object
Document(has) == [is |-> "document", has |-> has]
Usable(file) == file.is \in {"absent", "document"}
Regular(file) == file.is \notin {"absent", "irregular"}   \* is_regular_file

Without(has, entries) == Restrict(has, DOMAIN has \ entries)
\* g with f laid over it.
Over(f, g) ==
  [e \in DOMAIN f \union DOMAIN g |-> IF e \in DOMAIN f THEN f[e] ELSE g[e]]
Named(has, entry) == entry \in DOMAIN has
Says(has, entry, value) == Named(has, entry) /\ has[entry] = value

\* What the fragments hold: claude_managed_env, render_opencode_fragment,
\* codex_managed_table, render_codex_auth_fragment.
Optional(config) == IF config \in Rich THEN {"optional"} ELSE {}
ClaudeEnv(config) == [e \in {"managed"} \union Optional(config) |-> config]
OpenCodeFragment(config) == [e \in {"provider", "model"} |-> config]
CodexTable(config) ==
  [e \in {"provider", "roots", "store"} \union Optional(config) |->
     IF e \in {"provider", "store"} THEN Router ELSE config]
CodexAuth == [e \in {"login"} |-> Router]

Fragment(kind, config) ==
  CASE kind = "claude" -> ClaudeEnv(config)
    [] kind = "opencode" -> OpenCodeFragment(config)
    [] kind = "config" -> CodexTable(config)
    [] kind = "auth" -> CodexAuth

\* The paths a section owns, in the file of that kind.
OwnedIn(kind, config) == DOMAIN Fragment(kind, config)

\* exact_historical_codex
Historical(cfg, auth) ==
  /\ Says(cfg, "custom", Legacy) /\ Says(cfg, "roots", Legacy)
  /\ Named(auth, "login") /\ auth["login"] \in {Own, Router}

\* What is not in the fragment stays, except: keys the last configuration set and
\* this one does not, comments, the provider of the old release, other logins.
MergeClaude(has, config, obsolete) == Over(ClaudeEnv(config), Without(has, obsolete))
MergeOpenCode(has, config) == Over(OpenCodeFragment(config), Without(has, {"comments"}))
MergeCodex(has, config, obsolete, historical) ==
  Over(CodexTable(config),
       Without(has, obsolete \union (IF historical THEN {"custom"} ELSE {})))
MergeAuth(has) == Over(CodexAuth, Without(has, {"tokens"}))

\* What a cleanup removes of a file.  opencode's model goes when the section owns
\* it and it still is a model of the manager's provider.
CleanedClaude(has, owned) == DOMAIN has \intersect owned
CleanedOpenCode(has, owned) ==
  DOMAIN has \intersect
  ({"provider"} \union {e \in {"model"} \intersect owned : Named(has, e) /\ has[e] \in Configs})
CleanedCodexConfig(has, config) == DOMAIN has \intersect OwnedIn("config", config)
CleanedCodexAuth(has) == DOMAIN has \intersect {"login"}

Cleaned(kind, has, config, owned) ==
  CASE kind = "claude" -> CleanedClaude(has, owned)
    [] kind = "opencode" -> CleanedOpenCode(has, owned)
    [] kind = "config" -> CleanedCodexConfig(has, config)
    [] kind = "auth" -> CleanedCodexAuth(has)

\* new_cleanup_transform: a document with nothing left is deleted, and one that
\* is written again has no comments.
CleanFile(kind, has, gone) ==
  LET left == Without(has, gone \union {"comments"}) IN
  IF DOMAIN left = {} THEN Missing ELSE Document(left)

\* assess_codex_merge
PolicyForbids(cfg) == Named(cfg, "policy")
ConfigCollides(cfg) == Named(cfg, "provider") /\ cfg["provider"] # Router
AuthCollides(cfg, auth) ==
  \/ ~(Named(auth, "login") /\ auth["login"] \in {Own, Router})
  \/ Named(auth, "tokens")
  \/ Says(cfg, "store", User)
===============================================================================
