----------------------------- MODULE AtomicWrite -----------------------------
(***************************************************************************)
(* What a configuration write promises its user, whatever fails underneath *)
(* (docs/AGENT_MODELS.md, "A later write failure rolls back every changed  *)
(* Agent file and manager sidecar together"): the planned files change in  *)
(* one step or not at all, and the reply tells which.  The promise is about*)
(* the files no other program edits during the write; for an edited file   *)
(* the value here is only "Edited".                                        *)
(***************************************************************************)
CONSTANTS Files, Values, Edited

VARIABLES
  value,   \* content of each file, or Edited
  plan,    \* the accepted write: targets, contents before and after
  reply    \* what the client was told of it

vars == <<value, plan, reply>>

Init ==
  /\ value \in [Files -> Values]
  /\ plan.targets = {}
  /\ reply = "none"

\* A write is accepted for the files as they are now.
Accept ==
  /\ plan'.targets \subseteq Files
  /\ plan'.pre = value' /\ plan'.post \in [Files -> Values]
  /\ \A f \in Files : value[f] # Edited => value'[f] = value[f]
  /\ reply' = "none"

\* All planned files change together.
Commit ==
  /\ \A f \in plan.targets : value[f] \in {plan.pre[f], Edited}
  /\ value' = [f \in Files |->
                 IF f \in plan.targets /\ value[f] # Edited
                 THEN plan.post[f] ELSE value[f]]
  /\ UNCHANGED <<plan, reply>>

\* Another program changes one file.
Edit(f) ==
  /\ value' = [value EXCEPT ![f] = Edited]
  /\ UNCHANGED <<plan, reply>>

\* Success is only told of a write that is applied, an ordinary error only of
\* one that is not; anything else may mean either.
Reply ==
  /\ \/ /\ reply' = "ok"
        /\ \A f \in plan.targets : value[f] \in {plan.post[f], Edited}
     \/ /\ reply' = "failed"
        /\ \A f \in plan.targets : value[f] \in {plan.pre[f], Edited}
     \/ reply' \in {"unproven", "lost", "phantom"}
  /\ UNCHANGED <<value, plan>>

Next == Accept \/ Commit \/ (\E f \in Files : Edit(f)) \/ Reply

Spec == Init /\ [][Next]_vars

==============================================================================
