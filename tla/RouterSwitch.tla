----------------------------- MODULE RouterSwitch -----------------------------
(***************************************************************************)
(* What the supervisor promises to those who start and stop the router     *)
(* (docs/BUILD.md, "a router failure degrades status without taking the    *)
(* control plane down"): a switch.  Every command takes effect at most     *)
(* once, in one step, and its answer tells what that step did; a caller    *)
(* that gave up may see its command take effect later.                     *)
(***************************************************************************)
EXTENDS Naturals

CONSTANTS Callers, Kinds

VARIABLES
  on,      \* the router is reported as bound
  asked,   \* commands that may still take effect
  last,    \* number of each caller's last call
  answer   \* what that call returned

vars == <<on, asked, last, answer>>

Init ==
  /\ on = FALSE
  /\ asked = {}
  /\ last = [c \in Callers |-> 0]
  /\ answer = [c \in Callers |-> "none"]

Ask(c) ==
  \E kind \in Kinds :
    /\ last'[c] > last[c]
    /\ last' = [last EXCEPT ![c] = last'[c]]
    /\ asked' = asked \union {[caller |-> c, id |-> last'[c], kind |-> kind]}
    /\ answer' = [answer EXCEPT ![c] = "none"]
    /\ UNCHANGED on

\* Only a call that has not returned is answered.
Tells(m, result) ==
  /\ asked' = asked \ {m}
  /\ \/ /\ last[m.caller] = m.id /\ answer[m.caller] = "none"
        /\ answer' = [answer EXCEPT ![m.caller] = result]
     \/ answer[m.caller] # "none" /\ UNCHANGED answer
     \/ last[m.caller] # m.id /\ UNCHANGED answer
  /\ UNCHANGED last

TurnOn(m) == m.kind = "start" /\ ~ on /\ on' = TRUE /\ Tells(m, "ok")

AlreadyOn(m) == m.kind = "start" /\ on /\ on' = on /\ Tells(m, "already")

StaysOff(m) == m.kind = "start" /\ ~ on /\ on' = on /\ Tells(m, "startup")

TurnOff(m) ==
  /\ m.kind = "stop" /\ on' = FALSE
  /\ Tells(m, "ok") \/ Tells(m, "shutdown_timeout")

\* The caller's time is up; a command not yet sent never will be.
GiveUp(c) ==
  /\ answer[c] = "none"
  /\ answer' = [answer EXCEPT ![c] = "timeout"]
  /\ asked' \in {asked} \union {asked \ {m} : m \in asked}
  /\ UNCHANGED <<on, last>>

\* The listener breaks down.
Break == on /\ on' = FALSE /\ UNCHANGED <<asked, last, answer>>

Next ==
  \/ \E c \in Callers : Ask(c) \/ GiveUp(c)
  \/ \E m \in asked : TurnOn(m) \/ AlreadyOn(m) \/ StaysOff(m) \/ TurnOff(m)
  \/ Break

Spec == Init /\ [][Next]_vars

===============================================================================
