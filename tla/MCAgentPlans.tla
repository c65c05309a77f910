----------------------------- MODULE MCAgentPlans -----------------------------
(* Machines for the model checker: what is in the files, what the user selects,
   and what is edited meanwhile. *)
EXTENDS AgentPlans, TLC

Users(entries) == Document([e \in entries |-> User])

Bounds(t, f, s, c, r) ==
  [movable |-> {}, tasks |-> t, flows |-> f, shown |-> s, changes |-> c, restarts |-> r]
\* One command after another, in two flows; and two at once, in one.
Alone == Bounds(1, 2, 1, 1, 0)
Racing == Bounds(2, 1, 2, 1, 0)
Machine(had, selections, edits, bounds) ==
  [files |-> had, selections |-> selections, edits |-> edits] @@ bounds

\* Claude Code: nothing, or an env with keys the manager also has.
Claude ==
  {Machine(had, {{"claude"}},
           {<<"claude", Broken>>, <<"claude", Unusable>>, <<"claude", Shapeless>>,
            <<"claude", Users({"optional", "other"})>>}, bounds)
     : had \in {Nothing, "claude" :> Users({"optional", "other"})},
       bounds \in {Alone, Racing}}
Moved ==
  {Machine(had, {{"claude"}}, {},
           [Bounds(1, 2, 1, 0, 2) EXCEPT !.movable = {"claude"}])
     : had \in {"claude" :> Users({"other"}), "claude_env" :> Users({"optional"})}}

\* opencode: a json, or a jsonc with comments or without.
OpenCode ==
  {Machine(had, {{"opencode"}},
           {<<"json", Missing>>, <<"json", Broken>>, <<"json", Irregular>>,
            <<"json", Users({"model", "other"})>>},
           Alone)
     : had \in {"json" :> Users({"model", "other"}), "jsonc" :> Users({"model", "other"}),
                "jsonc" :> Users({"model", "comments"}), "jsonc" :> Broken}}

\* Codex: a ChatGPT login, an API key, the old release's provider, or the policy.
Codex ==
  {Machine(had, {{"codex"}},
           {<<"config", Users({"provider", "other"})>>, <<"config", Broken>>,
            <<"auth", Users({"login", "tokens"})>>, <<"auth", Missing>>}, Alone)
     : had \in
         {"config" :> Users({"roots", "store", "optional", "other"})
            @@ "auth" :> Users({"login", "tokens", "other"}),
          "config" :> Document("custom" :> Legacy @@ "roots" :> Legacy @@ "other" :> User)
            @@ "auth" :> Document("login" :> Own),
          "config" :> Users({"policy"}) @@ "auth" :> Broken}}

Together ==
  {Machine("claude" :> Broken, {Agents}, {<<"auth", Broken>>}, Bounds(1, 1, 1, 1, 0)),
   Machine(Nothing, {Agents, {"claude"}}, {}, Bounds(1, 2, 1, 0, 0))}

MCCases == UNION {Claude, Moved, OpenCode, Codex, Together}
Symmetry == Permutations(Tasks)
================================================================================
