--------------------------- MODULE SupervisorProofs ---------------------------
(* Safety of the router's runtime thread, for every number of callers and
   connections, every queue size and every cap. *)
EXTENDS Supervisor, FiniteSetTheorems, SequenceTheorems, TLAPS

\* What the type invariant says of the bounds' counters.
Budget == [calls: Nat, left: [Callers -> Nat], acceptErrors: Nat, leaks: Nat]

Calls == [id: Nat, kind: Kinds, at: {"idle", "sending", "waiting"}]
Answers == {"none", "ok", "already", "startup", "timeout", "shutdown_timeout",
            "disconnected"}

\* The first command of a queue of commands is one, and so are the others.
LEMMA HeadTail ==
  ASSUME NEW S, NEW s \in Seq(S), s # <<>>
  PROVE  Head(s) \in S /\ Tail(s) \in Seq(S)
  OBVIOUS

\* A connection's task only moves one connection, which has a task before and
\* after.
LEMMA ConnectionMoves ==
  ASSUME NEW k \in Conns, Connection(k)
  PROVE  \E from \in {"open", "queued", "serving", "body"},
            to \in {"open", "queued", "serving", "body", "ended", "panicked"} :
              Goes(k, from, to)
  BY DEF Connection, Request, Acquire, QueueTimeout, Respond, Sent, HangUp, Panic

\* The state of Supervisor is well typed, and every request that waits for
\* headers is counted: the counter (a u32 in the code) never goes below zero.
THEOREM TypeAndCount == Spec => [](TypeOK /\ EveryRequestCounted)
<1>. USE SupervisorAssumption DEF SupervisorAssumption
<1>1. Init => TypeOK /\ EveryRequestCounted
  <2> SUFFICES ASSUME Init PROVE TypeOK /\ EveryRequestCounted
    OBVIOUS
  <2>1. <<>> \in Seq(Commands)
    OBVIOUS
  <2>b. spent \in [calls: Nat, left: [Callers -> Nat], acceptErrors: Nat, leaks: Nat]
    <3>1. PICK t \in Turns :
            spent = [calls |-> 0, left |-> t, acceptErrors |-> 0, leaks |-> 0]
      BY DEF Init
    <3>2. t \in [Callers -> Nat]
      OBVIOUS
    <3>3. QED
      BY <3>1, <3>2
  <2>c. /\ call \in [Callers -> [id: Nat, kind: Kinds, at: {"idle", "sending", "waiting"}]]
        /\ conn \in [Conns -> {"none"}] /\ owner \in [Conns -> {0}]
    BY DEF Init, Kinds
  <2>2. TypeOK
    BY <2>1, <2>b, <2>c DEF Init, TypeOK, Kinds
  <2>3. Waiting = {}
    BY DEF Init, Waiting
  <2>4. QED
    BY <2>2, <2>3, FS_EmptySet DEF Init, EveryRequestCounted
<1>2. TypeOK /\ EveryRequestCounted /\ [Next]_vars => (TypeOK /\ EveryRequestCounted)'
  <2> SUFFICES ASSUME TypeOK, EveryRequestCounted, [Next]_vars
               PROVE  TypeOK' /\ EveryRequestCounted'
    OBVIOUS
  <2> USE DEF TypeOK
  <2>a. IsFiniteSet(Waiting) /\ Cardinality(Waiting) \in Nat
    BY FS_Subset, FS_CardinalityType DEF Waiting
  \* Requests that stop waiting, or stay, uncounted.
  <2>b. ASSUME UNCHANGED active, Waiting' \subseteq Waiting
        PROVE  EveryRequestCounted'
    <3>1. Cardinality(Waiting') <= Cardinality(Waiting)
      BY <2>a, <2>b, FS_Subset
    <3>2. Cardinality(Waiting') \in Nat
      BY <2>a, <2>b, FS_Subset, FS_CardinalityType
    <3>3. QED
      BY <2>a, <2>b, <3>1, <3>2 DEF EveryRequestCounted
  <2>c. ASSUME UNCHANGED <<active, conn>> PROVE EveryRequestCounted'
    BY <2>b, <2>c DEF Waiting
  \* The actor answers its command.
  <2>d. ASSUME NEW result \in {"ok", "already", "startup", "shutdown_timeout"},
               Reply(result), step \in {"starting", "draining"}
        PROVE  /\ call' \in [Callers -> Calls]
               /\ answer' \in [Callers -> Answers]
               /\ UNCHANGED <<closed, queue>>
               /\ step' = "loop" /\ cmd' = None
    <3>1. cmd.caller \in Callers
      BY <2>d DEF Commands
    <3>2. call' \in [Callers -> Calls]
      <4>1. call \in [Callers -> Calls]
        BY DEF Calls
      <4>2. call' = call \/ call' = [call EXCEPT ![cmd.caller].at = "idle"]
        BY <2>d DEF Reply
      <4> HIDE DEF TypeOK
      <4>3. QED
        BY <3>1, <4>1, <4>2 DEF Calls
    <3>3. answer' \in [Callers -> Answers]
      BY <2>d, <3>1 DEF Reply, Answers
    <3>4. QED
      BY <2>d, <3>2, <3>3 DEF Reply
  <2>1. ASSUME NEW c \in Callers, NEW kind \in Kinds, Call(c, kind)
        PROVE  TypeOK' /\ EveryRequestCounted'
    <3>1. spent' \in Budget
      <4>1. /\ spent \in Budget /\ spent.left[c] > 0
            /\ spent' = [spent EXCEPT !.calls = @ + 1, !.left[c] = @ - 1]
        BY <2>1 DEF Call, Budget
      <4> HIDE DEF TypeOK
      <4>2. spent.left \in [Callers -> Nat] /\ spent.left[c] - 1 \in Nat
        BY <4>1 DEF Budget
      <4>3. [spent.left EXCEPT ![c] = @ - 1] \in [Callers -> Nat]
        BY <4>2
      <4>4. spent' = [spent EXCEPT !.calls = spent.calls + 1,
                                   !.left = [spent.left EXCEPT ![c] = @ - 1]]
        BY <4>1 DEF Budget
      <4>5. ASSUME NEW f \in [Callers -> Nat], NEW n \in Nat
            PROVE  [spent EXCEPT !.calls = n, !.left = f] \in Budget
        BY <4>1 DEF Budget
      <4>6. spent.calls + 1 \in Nat
        BY <4>1 DEF Budget
      <4>7. QED
        BY <4>3, <4>4, <4>5, <4>6
    <3>2. call' \in [Callers -> Calls]
      <4>1. [id |-> spent'.calls, kind |-> kind, at |-> "sending"] \in Calls
        BY <3>1 DEF Budget, Calls
      <4>2. call \in [Callers -> Calls]
        BY DEF Calls
      <4>3. call' = [call EXCEPT ![c] = [id |-> spent'.calls, kind |-> kind,
                                         at |-> "sending"]]
        BY <2>1 DEF Call
      <4> HIDE DEF TypeOK
      <4>4. QED
        BY <4>1, <4>2, <4>3
    <3>3. answer' \in [Callers -> Answers]
      BY <2>1 DEF Call, Answers
    <3>4. UNCHANGED <<closed, queue, step, cmd, listener, gen, phase, bound, failure,
                      active, maxActive, conn, owner>>
      BY <2>1 DEF Call, shared, counters, tasks
    <3>5. TypeOK'
      BY <3>1, <3>2, <3>3, <3>4 DEF Budget, Calls, Answers
    <3>6. QED
      BY <2>c, <3>4, <3>5
  <2>2. ASSUME NEW c \in Callers, Send(c) PROVE TypeOK' /\ EveryRequestCounted'
    <3>1. [caller |-> c, id |-> call[c].id, kind |-> call[c].kind] \in Commands
      BY DEF Commands
    <3>2. queue' \in Seq(Commands)
      BY <2>2, <3>1 DEF Send
    <3>3. call' \in [Callers -> Calls]
      <4>1. call \in [Callers -> Calls] /\ call' = [call EXCEPT ![c].at = "waiting"]
        BY <2>2 DEF Send, Calls
      <4> HIDE DEF TypeOK
      <4>2. QED
        BY <4>1 DEF Calls
    <3>4. UNCHANGED <<answer, closed, step, cmd, listener, gen, phase, bound, failure,
                      active, maxActive, conn, owner, spent>>
      BY <2>2 DEF Send, shared, counters, tasks
    <3>5. TypeOK'
      <4> DEFINE A == queue' \in Seq(Commands)
                 B == call' \in [Callers -> Calls]
      <4>1. A /\ B
        BY <3>2, <3>3
      <4> HIDE DEF A, B
      <4>2. /\ answer' \in [Callers -> Answers] /\ closed' \in BOOLEAN
            /\ step' \in {"loop", "starting", "draining", "ended"}
            /\ cmd' \in Commands \union {None}
            /\ step' \in {"starting", "draining"} => cmd' \in Commands
            /\ listener' \in BOOLEAN /\ gen' \in Nat
        BY <3>4 DEF Answers
      <4>3. /\ phase' \in {"Stopped", "Starting", "Running", "Degraded", "Failed"}
            /\ bound' \in BOOLEAN
            /\ failure' \in {"none", "panic", "listen", "shutdown"}
            /\ active' \in Nat /\ maxActive' \in Nat
            /\ conn' \in [Conns -> {"none", "open", "queued", "serving", "body",
                                    "ended", "panicked"}]
            /\ owner' \in [Conns -> Nat]
            /\ spent' \in [calls: Nat, left: [Callers -> Nat], acceptErrors: Nat, leaks: Nat]
        BY <3>4
      <4> QED
        BY ONLY <4>1, <4>2, <4>3 DEF A, B, TypeOK, Calls, Answers
    <3>6. QED
      BY <2>c, <3>4, <3>5
  <2>3. ASSUME NEW c \in Callers, CallTimeout(c)
        PROVE  TypeOK' /\ EveryRequestCounted'
    <3>1. call' \in [Callers -> Calls] /\ answer' \in [Callers -> Answers]
      <4>1. /\ call \in [Callers -> Calls] /\ call' = [call EXCEPT ![c].at = "idle"]
            /\ answer \in [Callers -> Answers]
            /\ answer' = [answer EXCEPT ![c] = "timeout"]
        BY <2>3 DEF CallTimeout, Calls, Answers
      <4> HIDE DEF TypeOK
      <4>2. QED
        BY <4>1 DEF Calls, Answers
    <3>2. QED
      BY SMTT(30), <2>3, <2>c, <3>1 DEF CallTimeout, Calls, Answers, shared, counters, tasks
  <2>4. CASE Close
    BY <2>4, <2>c DEF Close, shared, counters, tasks
  <2>5. CASE TakeStart
    <3>1. Head(queue) \in Commands /\ Tail(queue) \in Seq(Commands)
      BY <2>5, HeadTail DEF TakeStart
    <3>2. QED
      BY <2>5, <3>1, <2>c DEF TakeStart, SetPhase, callers, shared, counters, tasks
  <2>6. CASE Refuse
    BY <2>6, <2>c, <2>d DEF Refuse, Calls, Answers, shared, counters, tasks
  <2>7. CASE Started
    BY <2>7, <2>c, <2>d DEF Started, Calls, Answers, SetPhase, counters, tasks
  <2>8. CASE StartFails
    BY <2>8, <2>c, <2>d DEF StartFails, Calls, Answers, SetPhase, shared, counters, tasks
  <2>9. CASE TakeStop
    <3>1. Head(queue) \in Commands /\ Tail(queue) \in Seq(Commands)
      BY <2>9, HeadTail DEF TakeStop
    <3>2. QED
      BY <2>9, <3>1, <2>c DEF TakeStop, callers, shared, counters, tasks
  <2>10. CASE Stopped
    BY <2>10, <2>c, <2>d DEF Stopped, Calls, Answers, Drained, SetPhase, counters, tasks
  <2>11. CASE StopTimeout
    <3>1. EveryRequestCounted'
      BY <2>11, <2>b DEF StopTimeout, AbortAll, Waiting, counters
    <3>2. QED
      BY <2>11, <2>d, <3>1 DEF StopTimeout, Calls, Answers, AbortAll, SetPhase, counters
  <2>12. ASSUME NEW k \in Conns, Join(k) PROVE TypeOK' /\ EveryRequestCounted'
    <3>1. Waiting' \subseteq Waiting
      BY <2>12 DEF Join, Waiting
    <3>2. QED
      BY <2>12, <3>1, <2>b DEF Join, callers, shared, counters
  <2>13. ASSUME NEW k \in Conns, Accept(k) PROVE TypeOK' /\ EveryRequestCounted'
    <3>1. Waiting' \subseteq Waiting
      BY <2>13 DEF Accept, Waiting
    <3>2. QED
      BY <2>13, <3>1, <2>b DEF Accept, callers, shared, counters
  <2>14. CASE AcceptError
    <3>1. spent' \in Budget
      <4>1. spent \in Budget /\ spent' = [spent EXCEPT !.acceptErrors = @ + 1]
        BY <2>14 DEF AcceptError, Budget
      <4> HIDE DEF TypeOK
      <4>2. QED
        BY <4>1 DEF Budget
    <3>2. phase' = "Failed" /\ bound' = FALSE /\ failure' = "listen"
      BY <2>14 DEF AcceptError, ListenerLost, SetPhase
    <3>3. UNCHANGED <<call, answer, closed, queue, step, cmd, gen, active, maxActive,
                      conn, owner>>
      BY <2>14 DEF AcceptError, callers, counters, tasks
    <3>4. listener' = FALSE
      BY <2>14 DEF AcceptError, ListenerLost
    <3>5. TypeOK'
      BY <3>1, <3>2, <3>3, <3>4 DEF Budget
    <3>6. QED
      BY <2>c, <3>3, <3>5
  <2>15. CASE End
    <3>1. EveryRequestCounted'
      BY <2>15, <2>b DEF End, AbortAll, Waiting, counters
    <3>2. QED
      BY <2>15, <3>1 DEF End, AbortAll, callers, shared, counters
  <2>16. ASSUME NEW k \in Conns, Connection(k)
         PROVE  TypeOK' /\ EveryRequestCounted'
    <3>1. /\ conn' \in [Conns -> {"none", "open", "queued", "serving", "body",
                                  "ended", "panicked"}]
          /\ spent' \in Budget
          /\ UNCHANGED <<callers, queue, step, cmd, listener, gen, shared, owner>>
      <4>1. spent' \in Budget
        <5>1. spent \in Budget
          BY DEF Budget
        <5>2. spent' = spent \/ spent' = [spent EXCEPT !.leaks = @ + 1]
          BY <2>16 DEF Connection, Request, Acquire, QueueTimeout, Respond, Sent,
                       HangUp, Panic
        <5> HIDE DEF TypeOK
        <5>3. QED
          BY <5>1, <5>2 DEF Budget
      <4>2. PICK from \in {"open", "queued", "serving", "body"},
                 to \in {"open", "queued", "serving", "body", "ended", "panicked"} :
                   Goes(k, from, to)
        BY <2>16, ConnectionMoves
      <4>3. QED
        BY <4>1, <4>2 DEF Goes
    <3>2. CASE Acquire(k)
      <4>1. Waiting' = Waiting \union {k} /\ k \notin Waiting
        BY <3>2 DEF Acquire, Goes, Waiting
      <4>2. Cardinality(Waiting') = Cardinality(Waiting) + 1
        BY <2>a, <4>1, FS_AddElement
      <4>3. active' = active + 1 /\ maxActive' \in Nat
        BY <3>2 DEF Acquire
      <4>4. QED
        BY <2>a, <3>1, <4>2, <4>3 DEF EveryRequestCounted, Budget, callers, shared
    <3>3. CASE Respond(k)
      <4>1. Waiting' = Waiting \ {k} /\ k \in Waiting
        BY <3>3 DEF Respond, Goes, Waiting
      <4>2. Cardinality(Waiting') = Cardinality(Waiting) - 1
        BY <2>a, <4>1, FS_RemoveElement
      <4>3. Cardinality(Waiting) # 0
        BY <2>a, <4>1, FS_EmptySet
      <4>4. active' = active - 1 /\ UNCHANGED maxActive
        BY <3>3 DEF Respond
      <4>5. active' \in Nat /\ EveryRequestCounted'
        BY <2>a, <4>2, <4>3, <4>4 DEF EveryRequestCounted
      <4>6. QED
        BY <3>1, <4>4, <4>5 DEF Budget, callers, shared
    <3>4. CASE ~ Acquire(k) /\ ~ Respond(k)
      <4>1. UNCHANGED counters /\ Waiting' \subseteq Waiting
        BY <2>16, <3>4 DEF Connection, Request, QueueTimeout, Sent, HangUp, Panic,
                           Goes, Waiting
      <4>2. QED
        BY <3>1, <4>1, <2>b DEF Budget, callers, shared, counters
    <3>5. QED
      BY <3>2, <3>3, <3>4
  <2>17. CASE UNCHANGED vars
    BY <2>17, <2>c DEF vars
  <2>18. QED
    BY <2>1, <2>2, <2>3, <2>4, <2>5, <2>6, <2>7, <2>8, <2>9, <2>10, <2>11, <2>12,
       <2>13, <2>14, <2>15, <2>16, <2>17 DEF Next, Executes
<1>3. QED
  BY <1>1, <1>2, PTL DEF Spec

-------------------------------------------------------------------------------
(* The status and the tasks.  BoundIsTrue speaks of the actor between two
   commands; it is inductive with what holds while a command runs. *)

Tied ==
  /\ step \in {"loop", "starting"} =>
       /\ bound = listener
       /\ listener => phase \in {"Running", "Degraded"}
  /\ step = "draining" => ~ listener

\* Tied is inductive with what a stopped router means.
LEMMA TiedHolds == Spec => [](Tied /\ StoppedMeansIdle)
<1>1. Init => Tied /\ StoppedMeansIdle
  BY DEF Init, Tied, StoppedMeansIdle
<1>2. TypeOK /\ Tied /\ StoppedMeansIdle /\ [Next]_vars => (Tied /\ StoppedMeansIdle)'
  <2> SUFFICES ASSUME TypeOK, Tied, StoppedMeansIdle, [Next]_vars
               PROVE  Tied' /\ StoppedMeansIdle'
    OBVIOUS
  <2> USE DEF Tied, StoppedMeansIdle
  <2>a. listener \in BOOLEAN /\ bound \in BOOLEAN
    BY DEF TypeOK
  <2>1. ASSUME UNCHANGED <<step, listener, shared, conn>>
        PROVE  Tied' /\ StoppedMeansIdle'
    BY <2>1 DEF shared
  <2>2. ASSUME NEW c \in Callers, \/ \E kind \in Kinds : Call(c, kind)
                                  \/ Send(c) \/ CallTimeout(c)
        PROVE  Tied' /\ StoppedMeansIdle'
    BY <2>1, <2>2 DEF Call, Send, CallTimeout, tasks
  <2>3. CASE Close
    BY <2>1, <2>3 DEF Close, tasks
  <2>4. CASE TakeStart
    BY <2>a, <2>4 DEF TakeStart, SetPhase, shared, tasks
  <2>5. CASE Refuse
    BY <2>5 DEF Refuse, Reply, shared, tasks
  <2>6. CASE Started
    BY <2>6 DEF Started, Reply, SetPhase, tasks
  <2>7. CASE StartFails
    <3>1. ~ listener /\ ~ listener' /\ step' = "loop" /\ listener' = listener
      BY <2>7 DEF StartFails, Reply
    <3>2. bound' = FALSE /\ phase' \in {phase, "Failed"} /\ UNCHANGED conn
      BY <2>a, <2>7, <3>1 DEF StartFails, SetPhase, shared, tasks
    <3>3. QED
      BY <2>a, <3>1, <3>2
  <2>8. CASE TakeStop
    BY <2>8 DEF TakeStop, shared, tasks
  <2>9. CASE Stopped
    <3>1. \A k \in Conns : conn[k] = "none"
      BY <2>9 DEF Stopped, Drained, Inflight
    <3>2. QED
      BY <2>a, <2>9, <3>1 DEF Stopped, Drained, Reply, SetPhase, tasks
  <2>10. CASE StopTimeout
    BY <2>a, <2>10 DEF StopTimeout, AbortAll, Reply, SetPhase
  <2>11. ASSUME NEW k \in Conns, Join(k) PROVE Tied' /\ StoppedMeansIdle'
    <3>1. phase # "Stopped" /\ UNCHANGED <<step, listener, bound>>
          /\ phase' \in {phase, "Degraded"}
      BY <2>11 DEF Join, shared
    <3>2. QED
      BY <3>1
  <2>12. ASSUME NEW k \in Conns, Accept(k) PROVE Tied' /\ StoppedMeansIdle'
    BY <2>12 DEF Accept, shared
  <2>13. CASE AcceptError
    BY <2>13 DEF AcceptError, ListenerLost, SetPhase
  <2>14. CASE End
    BY <2>14 DEF End, AbortAll, shared
  <2>15. ASSUME NEW k \in Conns, Connection(k) PROVE Tied' /\ StoppedMeansIdle'
    <3>1. phase # "Stopped" /\ UNCHANGED <<step, listener, shared>>
      BY <2>15, ConnectionMoves DEF Goes
    <3>2. QED
      BY <3>1 DEF shared
  <2>16. CASE UNCHANGED vars
    BY <2>1, <2>16 DEF vars, shared
  <2>17. QED
    BY <2>2, <2>3, <2>4, <2>5, <2>6, <2>7, <2>8, <2>9, <2>10, <2>11, <2>12, <2>13,
       <2>14, <2>15, <2>16 DEF Next, Executes
<1>3. QED
  BY <1>1, <1>2, TypeAndCount, PTL DEF Spec

\* Between commands the reported status agrees with the listener, and a router
\* reported as stopped has no task left.
THEOREM StatusCorrect == Spec => []StatusIsTrue
<1>1. Tied /\ StoppedMeansIdle => StatusIsTrue
  BY DEF Tied, StatusIsTrue, BoundIsTrue
<1>2. QED
  BY <1>1, TiedHolds, PTL

-------------------------------------------------------------------------------
(* The cap.  While no listener is lost, a Serving is replaced only after its
   tasks are gone, so that all tasks draw on one semaphore. *)

OneServing ==
  spent.acceptErrors = 0 =>
    /\ \A k \in Conns : conn[k] # "none" => owner[k] = gen
    /\ ~ listener /\ step # "draining" => \A k \in Conns : conn[k] = "none"

\* Without an accept error the requests of all Serving values together stay
\* within the cap.
THEOREM CapRespected == Spec => []CapHolds
<1>. USE SupervisorAssumption DEF SupervisorAssumption
<1>1. Init => OneServing /\ CapHolds
  <2> SUFFICES ASSUME Init PROVE OneServing /\ CapHolds
    OBVIOUS
  <2>1. Waiting = {}
    BY DEF Init, Waiting
  <2>2. QED
    BY <2>1, FS_EmptySet DEF Init, OneServing, CapHolds
<1>2. TypeOK /\ TypeOK' /\ OneServing /\ CapHolds /\ [Next]_vars => (OneServing /\ CapHolds)'
  <2> SUFFICES ASSUME TypeOK, TypeOK', OneServing, CapHolds, [Next]_vars
               PROVE  OneServing' /\ CapHolds'
    OBVIOUS
  <2>a. IsFiniteSet(Waiting) /\ Cardinality(Waiting) \in Nat
    BY FS_Subset, FS_CardinalityType DEF Waiting
  <2>b. spent.acceptErrors \in Nat
    BY DEF TypeOK
  <2>c. spent'.acceptErrors = 0 => spent.acceptErrors = 0
    <3>1. \/ spent'.acceptErrors = spent.acceptErrors
          \/ spent'.acceptErrors = spent.acceptErrors + 1
      <4>1. \/ UNCHANGED spent
            \/ \E c \in Callers :
                 spent' = [spent EXCEPT !.calls = @ + 1, !.left[c] = @ - 1]
            \/ spent' = [spent EXCEPT !.acceptErrors = @ + 1]
            \/ spent' = [spent EXCEPT !.leaks = @ + 1]
        BY DEF Next, Executes, Connection, Call, Send, CallTimeout, Close, TakeStart,
               Refuse, Started, StartFails, TakeStop, Stopped, StopTimeout, Join, Accept,
               AcceptError, End, Request, Acquire, QueueTimeout, Respond, Sent, HangUp,
               Panic, vars
      <4>2. QED
        BY <4>1 DEF TypeOK
    <3>2. QED
      BY <2>b, <3>1
  \* Steps that let no further request wait.
  <2>d. ASSUME Waiting' \subseteq Waiting PROVE CapHolds'
    <3>1. Cardinality(Waiting') <= Cardinality(Waiting) /\ Cardinality(Waiting') \in Nat
      BY <2>a, <2>d, FS_Subset, FS_CardinalityType
    <3>2. QED
      BY <2>a, <2>c, <3>1 DEF CapHolds
  <2>e. ASSUME UNCHANGED <<conn, owner, gen, listener, step>>
        PROVE  OneServing' /\ CapHolds'
    BY <2>c, <2>d, <2>e DEF OneServing, Waiting
  <2>1. ASSUME NEW c \in Callers, \/ \E kind \in Kinds : Call(c, kind)
                                  \/ Send(c) \/ CallTimeout(c)
        PROVE  OneServing' /\ CapHolds'
    BY <2>1, <2>e DEF Call, Send, CallTimeout, tasks
  <2>2. CASE Close
    BY <2>2, <2>e DEF Close, tasks
  <2>3. CASE TakeStart \/ Refuse \/ StartFails \/ TakeStop
    <3>1. UNCHANGED <<conn, owner, gen, spent>>
      BY <2>3 DEF TakeStart, Refuse, StartFails, TakeStop, tasks
    <3>2. CapHolds'
      BY <3>1, <2>d DEF Waiting
    <3>3. OneServing'
      BY <2>3, <3>1 DEF TakeStart, Refuse, StartFails, TakeStop, Reply, OneServing
    <3>4. QED
      BY <3>2, <3>3
  <2>4. CASE Started
    <3>1. CapHolds'
      BY <2>4, <2>d DEF Started, Waiting, tasks
    <3>2. OneServing'
      BY <2>4, <2>c DEF Started, Reply, OneServing, tasks
    <3>3. QED
      BY <3>1, <3>2
  <2>5. CASE Stopped
    <3>1. \A k \in Conns : conn[k] = "none"
      BY <2>5 DEF Stopped, Drained, Inflight
    <3>2. CapHolds'
      BY <2>5, <2>d DEF Stopped, Waiting, tasks
    <3>3. QED
      BY <2>5, <3>1, <3>2 DEF Stopped, OneServing, tasks
  <2>6. CASE StopTimeout \/ End
    <3>1. \A k \in Conns : conn'[k] = "none"
      BY <2>6 DEF StopTimeout, End, AbortAll
    <3>2. CapHolds'
      BY <3>1, <2>d DEF Waiting
    <3>3. QED
      BY <3>1, <3>2 DEF OneServing
  <2>7. ASSUME NEW k \in Conns, Join(k) PROVE OneServing' /\ CapHolds'
    <3>1. conn' = [conn EXCEPT ![k] = "none"]
          /\ UNCHANGED <<owner, gen, listener, step, spent>>
      BY <2>7 DEF Join
    <3>2. CapHolds'
      BY <3>1, <2>d DEF Waiting, TypeOK
    <3>3. QED
      BY <3>1, <3>2 DEF OneServing, TypeOK
  <2>8. ASSUME NEW k \in Conns, Accept(k) PROVE OneServing' /\ CapHolds'
    <3>1. CapHolds'
      BY <2>8, <2>d DEF Accept, Waiting, TypeOK
    <3>2. QED
      BY <2>8, <3>1 DEF Accept, OneServing, TypeOK
  <2>9. CASE AcceptError
    <3>1. spent'.acceptErrors # 0
      BY SMTT(30), <2>9, <2>b DEF AcceptError, TypeOK
    <3>2. QED
      BY <3>1 DEF OneServing, CapHolds
  <2>10. ASSUME NEW k \in Conns, Connection(k) PROVE OneServing' /\ CapHolds'
    <3>1. OneServing'
      <4>1. PICK from \in {"open", "queued", "serving", "body"},
                 to \in {"open", "queued", "serving", "body", "ended", "panicked"} :
                   Goes(k, from, to)
        BY <2>10, ConnectionMoves
      <4>2. QED
        BY <4>1, <2>c DEF Goes, OneServing, TypeOK
    <3>2. CASE Acquire(k) /\ spent.acceptErrors = 0
      <4>1. Waiting' = Waiting \union {k}
        BY <3>2 DEF Acquire, Goes, Waiting, TypeOK
      <4>2. {j \in Waiting : owner[j] = owner[k]} = Waiting
        BY <3>2 DEF Acquire, Goes, Waiting, OneServing
      <4>3. Cardinality(Waiting) < Cap
        BY <3>2, <4>2 DEF Acquire, PermitFree
      <4>4. Cardinality(Waiting') <= Cardinality(Waiting) + 1
            /\ Cardinality(Waiting') \in Nat
        <5>1. /\ IsFiniteSet(Waiting')
              /\ Cardinality(Waiting') = IF k \in Waiting THEN Cardinality(Waiting)
                                         ELSE Cardinality(Waiting) + 1
          BY <2>a, <4>1, FS_AddElement
        <5>2. QED
          BY <2>a, <5>1
      <4>5. QED
        BY <2>a, <3>1, <4>3, <4>4 DEF CapHolds
    <3>3. CASE ~ Acquire(k)
      <4>1. Waiting' \subseteq Waiting
        <5>1. \E from \in {"open", "queued", "serving", "body"},
                 to \in {"open", "queued", "body", "ended", "panicked"} :
                   Goes(k, from, to)
          BY <2>10, <3>3 DEF Connection, Request, QueueTimeout, Respond, Sent, HangUp,
                             Panic
        <5>2. QED
          BY <5>1 DEF Goes, Waiting, TypeOK
      <4>2. QED
        BY <3>1, <4>1, <2>d
    <3>4. CASE spent.acceptErrors # 0
      BY <3>1, <3>4, <2>c DEF CapHolds
    <3>5. QED
      BY <3>2, <3>3, <3>4
  <2>11. CASE UNCHANGED vars
    BY <2>11, <2>e DEF vars
  <2>12. QED
    BY <2>1, <2>2, <2>3, <2>4, <2>5, <2>6, <2>7, <2>8, <2>9, <2>10, <2>11
       DEF Next, Executes
<1>3. QED
  BY <1>1, <1>2, TypeAndCount, PTL DEF Spec
-------------------------------------------------------------------------------
(* The switch.  A command that was sent is somewhere on its way exactly once,
   and its caller either waits for it, was told that its time is up, or has
   called again since. *)

InQueue == {queue[i] : i \in 1..Len(queue)}
OnItsWay == InQueue \union ({cmd} \ {None})

\* The actor has a command exactly while it executes one, of the right kind.
Executing ==
  /\ step \in {"loop", "ended"} => cmd = None
  /\ step = "starting" => cmd.kind = "start"
  /\ step = "draining" => cmd.kind = "stop"

Numbered ==
  /\ \A c \in Callers : call[c].id <= spent.calls
  /\ \A c \in Callers : call[c].at # "idle" => answer[c] = "none"

Owed ==
  \A m \in OnItsWay :
    /\ m.id <= call[m.caller].id
    /\ m.id = call[m.caller].id =>
         \/ call[m.caller].at = "waiting"
         \/ call[m.caller].at = "idle" /\ answer[m.caller] # "none"

Once ==
  /\ \A i, j \in 1..Len(queue) : i # j => queue[i] # queue[j]
  /\ cmd \notin InQueue

CommandInv == Executing /\ Numbered /\ Owed /\ Once

\* A command that is taken is the only one that leaves the queue.
LEMMA TakenFromQueue ==
  ASSUME TypeOK, Once, queue # <<>>, queue' = Tail(queue), cmd' = Head(queue)
  PROVE  InQueue = InQueue' \union {cmd'} /\ Once' /\ cmd' \in Commands
<1>1. queue \in Seq(Commands)
  BY DEF TypeOK
<1>2. /\ Tail(queue) \in Seq(Commands) /\ Head(queue) \in Commands
      /\ Len(queue) \in Nat \ {0} /\ Len(queue') = Len(queue) - 1
      /\ \A i \in 1..Len(queue') : queue'[i] = queue[i + 1]
      /\ Head(queue) = queue[1]
  BY <1>1, HeadTailProperties, LenProperties, EmptySeq
<1>3. ASSUME NEW i \in 1..Len(queue')
      PROVE  queue'[i] = queue[i + 1] /\ i + 1 \in 1..Len(queue) /\ i + 1 # 1
  BY <1>2, <1>3
<1>4. 1 \in 1..Len(queue)
  BY <1>2
<1>5. \A i \in 1..Len(queue) : i = 1 \/ (i - 1 \in 1..Len(queue') /\ (i - 1) + 1 = i)
  BY <1>2
<1>6. InQueue' \union {cmd'} \subseteq InQueue
  BY <1>2, <1>3, <1>4 DEF InQueue
<1>7. InQueue \subseteq InQueue' \union {cmd'}
  <2> SUFFICES ASSUME NEW i \in 1..Len(queue)
               PROVE  queue[i] = cmd' \/ \E j \in 1..Len(queue') : queue'[j] = queue[i]
    BY DEF InQueue
  <2>1. CASE i = 1
    BY <1>2, <2>1
  <2>2. CASE i # 1
    BY <1>3, <1>5, <2>2
  <2>3. QED
    BY <2>1, <2>2
<1>8. \A i, j \in 1..Len(queue') : i # j => queue'[i] # queue'[j]
  <2> SUFFICES ASSUME NEW i \in 1..Len(queue'), NEW j \in 1..Len(queue'), i # j
               PROVE  queue'[i] # queue'[j]
    OBVIOUS
  <2>1. i + 1 # j + 1
    BY <1>2
  <2>2. QED
    BY <1>3, <2>1 DEF Once
<1>9. cmd' \notin InQueue'
  BY <1>2, <1>3, <1>4 DEF Once, InQueue
<1>10. QED
  BY <1>2, <1>6, <1>7, <1>8, <1>9 DEF Once

\* A command that is sent is new in the queue.
LEMMA SentToQueue ==
  ASSUME TypeOK, Once, NEW m \in Commands, m \notin InQueue, m # cmd,
         queue' = Append(queue, m), UNCHANGED cmd
  PROVE  InQueue' = InQueue \union {m} /\ Once'
<1>1. queue \in Seq(Commands)
  BY DEF TypeOK
<1>2. /\ Len(queue) \in Nat /\ Len(queue') = Len(queue) + 1
      /\ \A i \in 1..Len(queue) : queue'[i] = queue[i]
      /\ queue'[Len(queue) + 1] = m
  BY <1>1, AppendProperties, LenProperties
<1>3. \A i \in 1..Len(queue') : i \in 1..Len(queue) \/ i = Len(queue) + 1
  BY <1>2
<1>4. \A i \in 1..Len(queue) : i \in 1..Len(queue') /\ i # Len(queue) + 1
  BY <1>2
<1>5. Len(queue) + 1 \in 1..Len(queue')
  BY <1>2
<1>6. InQueue' = InQueue \union {m}
  BY <1>2, <1>3, <1>4, <1>5 DEF InQueue
<1>7. \A i \in 1..Len(queue) : queue[i] \in InQueue
  BY DEF InQueue
<1>8. \A i, j \in 1..Len(queue') : i # j => queue'[i] # queue'[j]
  BY <1>2, <1>3, <1>7 DEF Once
<1>9. QED
  BY <1>6, <1>8 DEF Once

\* The commands on their way are commands.
LEMMA AllCommands ==
  ASSUME TypeOK
  PROVE  OnItsWay \subseteq Commands
<1>1. queue \in Seq(Commands) /\ cmd \in Commands \union {None}
  BY DEF TypeOK
<1>2. \A i \in 1..Len(queue) : queue[i] \in Commands
  BY <1>1, ElementOfSeq
<1>3. QED
  BY <1>1, <1>2 DEF OnItsWay, InQueue

\* Steps that touch neither callers nor commands.
LEMMA Aside ==
  ASSUME CommandInv, UNCHANGED <<call, answer, queue, cmd>>,
         spent'.calls = spent.calls, step' = step \/ (step = "loop" /\ step' = "ended")
  PROVE  CommandInv' /\ OnItsWay' = OnItsWay
<1>1. Executing' /\ Numbered' /\ Once'
  BY DEF CommandInv, Executing, Numbered, Once, InQueue
<1>2. OnItsWay' = OnItsWay
  BY DEF OnItsWay, InQueue
<1>3. Owed'
  BY <1>2 DEF CommandInv, Owed
<1>4. QED
  BY <1>1, <1>2, <1>3 DEF CommandInv

\* Taking a command moves it from the queue to the actor.
LEMMA Takes ==
  ASSUME TypeOK, CommandInv, step = "loop", queue # <<>>, queue' = Tail(queue),
         cmd' = Head(queue), UNCHANGED <<call, answer>>, spent'.calls = spent.calls,
         \/ step' = "starting" /\ cmd'.kind = "start"
         \/ step' = "draining" /\ cmd'.kind = "stop"
  PROVE  CommandInv' /\ OnItsWay' = OnItsWay
<1>. USE SupervisorAssumption DEF SupervisorAssumption
<1>1. cmd = None
  BY DEF CommandInv, Executing
<1>2. InQueue = InQueue' \union {cmd'} /\ Once' /\ cmd' \in Commands
  BY TakenFromQueue DEF CommandInv
<1>3. OnItsWay' = OnItsWay
  BY <1>1, <1>2 DEF OnItsWay
<1>4. Executing' /\ Numbered'
  BY DEF CommandInv, Executing, Numbered
<1>5. Owed'
  BY <1>3 DEF CommandInv, Owed
<1>6. QED
  BY <1>2, <1>3, <1>4, <1>5 DEF CommandInv

\* The answer of the actor changes at most its caller, who waits for it.
LEMMA Replies ==
  ASSUME TypeOK, CommandInv, step \in {"starting", "draining"},
         NEW result, result # "none", Reply(result), spent'.calls = spent.calls
  PROVE  /\ CommandInv' /\ OnItsWay' = OnItsWay \ {cmd} /\ cmd \in OnItsWay
         /\ \A c \in Callers : call'[c].id = call[c].id /\ call'[c].kind = call[c].kind
         /\ \A c \in Callers : call'[c].at = "sending" <=> call[c].at = "sending"
<1>. USE SupervisorAssumption DEF SupervisorAssumption
<1>1. cmd \in Commands /\ cmd \in OnItsWay
  BY DEF TypeOK, OnItsWay
<1>2. UNCHANGED queue /\ cmd' = None /\ step' = "loop"
  BY DEF Reply
<1>3. OnItsWay' = OnItsWay \ {cmd}
  BY <1>1, <1>2 DEF OnItsWay, InQueue, CommandInv, Once
<1>4. /\ call \in [Callers -> Calls] /\ answer \in [Callers -> Answers]
      /\ cmd.caller \in Callers
  BY <1>1 DEF TypeOK, Calls, Answers, Commands
<1>5. \A c \in Callers : \/ call'[c] = call[c] /\ answer'[c] = answer[c]
                         \/ /\ call'[c] = [call[c] EXCEPT !.at = "idle"]
                            /\ call[c].at = "waiting" /\ answer'[c] = result
  BY <1>4 DEF Reply, Awaited
<1>6. /\ \A c \in Callers : call'[c].id = call[c].id /\ call'[c].kind = call[c].kind
      /\ \A c \in Callers : call'[c].at = "sending" <=> call[c].at = "sending"
      /\ \A c \in Callers : \/ call'[c].at = call[c].at /\ answer'[c] = answer[c]
                            \/ /\ call[c].at = "waiting" /\ call'[c].at = "idle"
                               /\ answer'[c] # "none"
  <2>1. \A r \in Calls : LET x == [r EXCEPT !.at = "idle"]
                         IN  x.id = r.id /\ x.kind = r.kind /\ x.at = "idle"
    BY DEF Calls
  <2>2. \A c \in Callers : call[c] \in Calls
    BY <1>4
  <2>3. ASSUME NEW c \in Callers
        PROVE  /\ call'[c].id = call[c].id /\ call'[c].kind = call[c].kind
               /\ call'[c].at = "sending" <=> call[c].at = "sending"
               /\ \/ call'[c].at = call[c].at /\ answer'[c] = answer[c]
                  \/ /\ call[c].at = "waiting" /\ call'[c].at = "idle"
                     /\ answer'[c] # "none"
    <3>1. CASE call'[c] = call[c] /\ answer'[c] = answer[c]
      BY <3>1
    <3>2. CASE /\ call'[c] = [call[c] EXCEPT !.at = "idle"]
               /\ call[c].at = "waiting" /\ answer'[c] = result
      BY <2>1, <2>2, <3>2
    <3>3. QED
      BY <1>5, <3>1, <3>2
  <2>4. QED
    BY <2>3
<1>7. Executing'
  BY <1>2 DEF Executing
<1>8. Numbered'
  BY <1>6 DEF CommandInv, Numbered
<1>9. Owed'
  <2> SUFFICES ASSUME NEW m \in OnItsWay'
               PROVE  /\ m.id <= call'[m.caller].id
                      /\ m.id = call'[m.caller].id =>
                           \/ call'[m.caller].at = "waiting"
                           \/ call'[m.caller].at = "idle" /\ answer'[m.caller] # "none"
    BY DEF Owed
  <2>1. m \in OnItsWay /\ m.caller \in Callers
    BY <1>3, AllCommands DEF Commands
  <2>2. QED
    BY <1>6, <2>1 DEF CommandInv, Owed
<1>10. Once'
  BY <1>1, <1>2, AllCommands DEF CommandInv, Once, InQueue, OnItsWay
<1>11. QED
  BY <1>1, <1>3, <1>6, <1>7, <1>8, <1>9, <1>10 DEF CommandInv

\* Every step keeps what is known of the commands.
LEMMA CommandStep ==
  ASSUME TypeOK, CommandInv, [Next]_vars
  PROVE  CommandInv'
<1>. USE SupervisorAssumption DEF SupervisorAssumption
<1>a. /\ call \in [Callers -> Calls] /\ answer \in [Callers -> Answers]
      /\ spent.calls \in Nat
  BY DEF TypeOK, Calls, Answers
<1>1. ASSUME NEW c \in Callers, NEW kind \in Kinds, Call(c, kind) PROVE CommandInv'
  <2>1. UNCHANGED <<queue, cmd, step>> /\ call[c].at = "idle"
        /\ spent'.calls = spent.calls + 1
        /\ call' = [call EXCEPT ![c] = [id |-> spent'.calls, kind |-> kind,
                                        at |-> "sending"]]
        /\ answer' = [answer EXCEPT ![c] = "none"]
    BY <1>1 DEF Call, TypeOK
  <2>2. /\ call'[c].id = spent.calls + 1 /\ call'[c].at = "sending" /\ answer'[c] = "none"
        /\ \A d \in Callers : d # c => call'[d] = call[d] /\ answer'[d] = answer[d]
    BY <1>a, <2>1
  <2>3. \A d \in Callers : call[d].id \in Nat /\ call[d].id <= spent.calls
    BY <1>a DEF CommandInv, Numbered, Calls
  <2>4. Numbered'
    <3>1. \A d \in Callers : call'[d].id <= spent.calls + 1
      BY <1>a, <2>2, <2>3
    <3>2. QED
      BY <2>1, <2>2, <3>1 DEF CommandInv, Numbered
  <2>5. OnItsWay' = OnItsWay
    BY <2>1 DEF OnItsWay, InQueue
  <2>6. Owed'
    <3> SUFFICES ASSUME NEW m \in OnItsWay
                 PROVE  /\ m.id <= call'[m.caller].id
                        /\ m.id = call'[m.caller].id =>
                             \/ call'[m.caller].at = "waiting"
                             \/ call'[m.caller].at = "idle" /\ answer'[m.caller] # "none"
      BY <2>5 DEF Owed
    <3>1. m.caller \in Callers /\ m.id \in Nat
      BY AllCommands DEF Commands
    <3>2. CASE m.caller = c
      <4>1. m.id <= call[c].id
        BY <3>2 DEF CommandInv, Owed
      <4>2. m.id < spent.calls + 1
        BY <1>a, <2>3, <3>1, <4>1
      <4>3. QED
        BY <1>a, <2>2, <3>1, <3>2, <4>2
    <3>3. CASE m.caller # c
      BY <2>2, <3>1, <3>3 DEF CommandInv, Owed
    <3>4. QED
      BY <3>2, <3>3
  <2>7. Executing' /\ Once'
    BY <2>1 DEF CommandInv, Executing, Once, InQueue
  <2>8. QED
    BY <2>4, <2>6, <2>7 DEF CommandInv
<1>2. ASSUME NEW c \in Callers, Send(c) PROVE CommandInv'
  <2> DEFINE m == [caller |-> c, id |-> call[c].id, kind |-> call[c].kind]
  <2>1. /\ call[c].at = "sending" /\ queue' = Append(queue, m)
        /\ call' = [call EXCEPT ![c].at = "waiting"]
        /\ UNCHANGED <<answer, step, cmd, spent>>
    BY <1>2 DEF Send
  <2>2. m \in Commands /\ m.caller = c /\ m.id = call[c].id
    BY <1>a DEF Calls, Commands
  <2>3. m \notin OnItsWay
    BY <2>1, <2>2 DEF CommandInv, Owed
  <2> HIDE DEF m
  <2>4. m # None
    BY <2>2
  <2>5. m \notin InQueue /\ m # cmd
    BY <2>3, <2>4 DEF OnItsWay
  <2>6. InQueue' = InQueue \union {m} /\ Once'
    BY <2>1, <2>2, <2>5, SentToQueue DEF CommandInv
  <2>7. OnItsWay' = OnItsWay \union {m}
    BY <2>1, <2>6 DEF OnItsWay
  <2>8. /\ call'[c].id = call[c].id /\ call'[c].at = "waiting"
        /\ \A d \in Callers : d # c => call'[d] = call[d]
    BY <1>a, <2>1 DEF Calls
  <2>9. Numbered'
    BY <2>1, <2>8 DEF CommandInv, Numbered
  <2>10. Owed'
    <3> SUFFICES ASSUME NEW n \in OnItsWay \union {m}
                 PROVE  /\ n.id <= call'[n.caller].id
                        /\ n.id = call'[n.caller].id =>
                             \/ call'[n.caller].at = "waiting"
                             \/ call'[n.caller].at = "idle" /\ answer'[n.caller] # "none"
      BY <2>7 DEF Owed
    <3>1. CASE n = m
      <4>1. call[c].id \in Nat
        BY <1>a DEF Calls
      <4>2. QED
        BY <2>2, <2>8, <3>1, <4>1
    <3>2. CASE n \in OnItsWay
      <4>1. n.caller \in Callers
        BY <3>2, AllCommands DEF Commands
      <4>2. QED
        BY <2>1, <2>8, <3>2, <4>1 DEF CommandInv, Owed
    <3>3. QED
      BY <3>1, <3>2
  <2>11. Executing'
    BY <2>1 DEF CommandInv, Executing
  <2>12. QED
    BY <2>6, <2>9, <2>10, <2>11 DEF CommandInv
<1>3. ASSUME NEW c \in Callers, CallTimeout(c) PROVE CommandInv'
  <2>1. /\ call' = [call EXCEPT ![c].at = "idle"] /\ answer' = [answer EXCEPT ![c] = "timeout"]
        /\ UNCHANGED <<queue, cmd, step, spent>>
    BY <1>3 DEF CallTimeout
  <2>2. /\ call'[c].id = call[c].id /\ call'[c].at = "idle" /\ answer'[c] = "timeout"
        /\ \A d \in Callers : d # c => call'[d] = call[d] /\ answer'[d] = answer[d]
    BY <1>a, <2>1 DEF Calls
  <2>3. OnItsWay' = OnItsWay
    BY <2>1 DEF OnItsWay, InQueue
  <2>4. Owed'
    <3>1. \A m \in OnItsWay : m.caller \in Callers
      BY AllCommands DEF Commands
    <3>2. QED
      BY <2>2, <2>3, <3>1 DEF CommandInv, Owed
  <2>5. Executing' /\ Numbered' /\ Once'
    BY <2>1, <2>2 DEF CommandInv, Executing, Numbered, Once, InQueue
  <2>6. QED
    BY <2>4, <2>5 DEF CommandInv
<1>4. CASE TakeStart \/ TakeStop
  <2>1. /\ step = "loop" /\ queue # <<>> /\ queue' = Tail(queue) /\ cmd' = Head(queue)
        /\ UNCHANGED <<call, answer, spent>>
        /\ \/ step' = "starting" /\ cmd'.kind = "start"
           \/ step' = "draining" /\ cmd'.kind = "stop"
    BY <1>4 DEF TakeStart, TakeStop, callers
  <2>2. QED
    BY <2>1, Takes
<1>5. CASE Refuse \/ Started \/ StartFails \/ Stopped \/ StopTimeout
  <2>1. step \in {"starting", "draining"} /\ UNCHANGED spent
        /\ \E result \in {"already", "ok", "startup", "shutdown_timeout"} : Reply(result)
    BY <1>5 DEF Refuse, Started, StartFails, Stopped, StopTimeout, Drained
  <2>2. PICK result \in {"already", "ok", "startup", "shutdown_timeout"} : Reply(result)
    BY <2>1
  <2>3. QED
    BY <2>1, <2>2, Replies
<1>6. ASSUME \/ Close \/ AcceptError \/ End \/ UNCHANGED vars
             \/ \E k \in Conns : Join(k) \/ Accept(k) \/ Connection(k)
      PROVE  CommandInv'
  <2>1. /\ UNCHANGED <<call, answer, queue, cmd>>
        /\ step' = step \/ (step = "loop" /\ step' = "ended")
    BY <1>6, ConnectionMoves
       DEF Close, AcceptError, End, vars, Join, Accept, Goes, callers
  <2>2. spent'.calls = spent.calls
    <3>1. \/ UNCHANGED spent
          \/ spent' = [spent EXCEPT !.acceptErrors = @ + 1]
          \/ spent' = [spent EXCEPT !.leaks = @ + 1]
      BY <1>6 DEF Close, AcceptError, End, vars, Join, Accept, Connection, Request, Acquire,
                  QueueTimeout, Respond, Sent, HangUp, Panic
    <3>2. QED
      BY <3>1 DEF TypeOK
  <2>3. QED
    BY <2>1, <2>2, Aside
<1>7. QED
  BY <1>1, <1>2, <1>3, <1>4, <1>5, <1>6 DEF Next, Executes

\* The command a caller has not sent yet.
Wish(c) == [caller |-> c, id |-> call[c].id, kind |-> call[c].kind]
Unsent == {Wish(c) : c \in {d \in Callers : call[d].at = "sending"}}

\* What the switch is asked is what callers are about to send and what they
\* sent, and no command is both.
LEMMA Asked ==
  ASSUME TypeOK, CommandInv
  PROVE  /\ Outstanding = Unsent \union OnItsWay
         /\ Outstanding' = Unsent' \union OnItsWay'
         /\ \A m \in OnItsWay : m \notin Unsent
<1>1. /\ Outstanding = Unsent \union OnItsWay
      /\ Outstanding' = Unsent' \union OnItsWay'
  BY DEF Outstanding, Unsent, Wish, OnItsWay, InQueue
<1>2. ASSUME NEW m \in OnItsWay, m \in Unsent PROVE FALSE
  <2>1. PICK c \in Callers : call[c].at = "sending" /\ m = Wish(c)
    BY <1>2 DEF Unsent
  <2>2. m.caller = c /\ m.id = call[c].id
    BY <2>1 DEF Wish
  <2>3. QED
    BY <2>1, <2>2 DEF CommandInv, Owed
<1>3. QED
  BY <1>1, <1>2

\* A step that leaves callers, their commands and the bound alone is none of
\* the switch's.
LEMMA SwitchRests ==
  ASSUME TypeOK, TypeOK', CommandInv, CommandInv',
         UNCHANGED <<bound, call, answer>>, OnItsWay' = OnItsWay
  PROVE  UNCHANGED Switch!vars
<1>1. Unsent' = Unsent
  BY DEF Unsent, Wish
<1>2. Outstanding = Unsent \union OnItsWay /\ Outstanding' = Unsent' \union OnItsWay'
  BY Asked
<1>3. QED
  BY <1>1, <1>2 DEF Switch!vars

\* An answer of the actor is what the switch tells.
LEMMA SwitchTells ==
  ASSUME TypeOK, TypeOK', CommandInv, step \in {"starting", "draining"},
         NEW result, result # "none", Reply(result), UNCHANGED spent
  PROVE  Switch!Tells(cmd, result) /\ cmd \in Outstanding
<1>1. /\ CommandInv' /\ OnItsWay' = OnItsWay \ {cmd} /\ cmd \in OnItsWay
      /\ \A c \in Callers : call'[c].id = call[c].id /\ call'[c].kind = call[c].kind
      /\ \A c \in Callers : call'[c].at = "sending" <=> call[c].at = "sending"
  BY Replies
<1>2. Unsent' = Unsent
  BY <1>1 DEF Unsent, Wish
<1>3. Outstanding = Unsent \union OnItsWay /\ Outstanding' = Unsent \union OnItsWay'
      /\ cmd \notin Unsent
  BY <1>1, <1>2, Asked
<1>4. Outstanding' = Outstanding \ {cmd} /\ cmd \in Outstanding
  BY <1>1, <1>3
<1>5. [c \in Callers |-> call[c].id]' = [c \in Callers |-> call[c].id]
  BY <1>1
<1>6. cmd.caller \in Callers
  BY <1>1, AllCommands DEF Commands
<1>7. \/ /\ call[cmd.caller].id = cmd.id /\ answer[cmd.caller] = "none"
         /\ answer' = [answer EXCEPT ![cmd.caller] = result]
      \/ answer[cmd.caller] # "none" /\ UNCHANGED answer
      \/ call[cmd.caller].id # cmd.id /\ UNCHANGED answer
  <2>1. CASE Awaited
    BY <1>6, <2>1 DEF Awaited, Reply, CommandInv, Numbered
  <2>2. CASE ~ Awaited
    <3>1. UNCHANGED answer
      BY <2>2 DEF Reply
    <3>2. call[cmd.caller].id = cmd.id => answer[cmd.caller] # "none"
      BY <1>1, <2>2 DEF Awaited, CommandInv, Owed
    <3>3. QED
      BY <3>1, <3>2
  <2>3. QED
    BY <2>1, <2>2
<1>8. QED
  BY <1>4, <1>5, <1>6, <1>7 DEF Switch!Tells

\* Every step of the supervisor is a step of the switch, or none of its.
LEMMA SwitchStep ==
  ASSUME TypeOK, TypeOK', Tied, CommandInv, CommandInv', [Next]_vars
  PROVE  [Switch!Next]_Switch!vars
<1>. USE SupervisorAssumption DEF SupervisorAssumption
<1>a. /\ call \in [Callers -> Calls] /\ answer \in [Callers -> Answers]
      /\ spent.calls \in Nat /\ bound \in BOOLEAN /\ listener \in BOOLEAN
  BY DEF TypeOK, Calls, Answers
<1>b. /\ Outstanding = Unsent \union OnItsWay
      /\ Outstanding' = Unsent' \union OnItsWay'
      /\ \A m \in OnItsWay : m \notin Unsent
  BY Asked
<1>1. ASSUME NEW c \in Callers, NEW kind \in Kinds, Call(c, kind) PROVE Switch!Ask(c)
  <2>1. /\ call[c].at = "idle" /\ UNCHANGED <<queue, cmd, bound>>
        /\ spent'.calls = spent.calls + 1
        /\ call' = [call EXCEPT ![c] = [id |-> spent'.calls, kind |-> kind,
                                        at |-> "sending"]]
        /\ answer' = [answer EXCEPT ![c] = "none"]
    BY <1>1 DEF Call, TypeOK, shared
  <2>2. /\ call'[c].id = spent.calls + 1 /\ call'[c].at = "sending" /\ call'[c].kind = kind
        /\ \A d \in Callers : d # c => call'[d] = call[d]
    BY <1>a, <2>1
  <2>3. call[c].id \in Nat /\ call[c].id <= spent.calls
    BY <1>a DEF CommandInv, Numbered, Calls
  <2>4. call'[c].id > call[c].id
    BY <1>a, <2>2, <2>3
  <2>5. [d \in Callers |-> call[d].id]' = [[d \in Callers |-> call[d].id] EXCEPT ![c] = call'[c].id]
    BY <2>2
  <2>6. Unsent' = Unsent \union {Wish(c)'}
    BY <2>1, <2>2 DEF Unsent, Wish
  <2>7. OnItsWay' = OnItsWay
    BY <2>1 DEF OnItsWay, InQueue
  <2>8. Outstanding' = Outstanding
          \union {[caller |-> c, id |-> call'[c].id, kind |-> kind]}
    BY <1>b, <2>2, <2>6, <2>7 DEF Wish
  <2>9. QED
    BY <2>1, <2>4, <2>5, <2>8 DEF Switch!Ask
<1>2. ASSUME NEW c \in Callers, Send(c) PROVE UNCHANGED Switch!vars
  <2> DEFINE m == Wish(c)
  <2>1. /\ call[c].at = "sending" /\ queue' = Append(queue, m)
        /\ call' = [call EXCEPT ![c].at = "waiting"]
        /\ UNCHANGED <<answer, cmd, bound>>
    BY <1>2 DEF Send, Wish, shared
  <2>2. m \in Commands /\ m \in Unsent
    BY <1>a, <2>1 DEF Calls, Commands, Wish, Unsent
  <2>3. m \notin OnItsWay
    BY <1>b, <2>2
  <2>4. m # None
    BY <2>2
  <2>5. m \notin InQueue /\ m # cmd
    BY <2>3, <2>4 DEF OnItsWay
  <2>6. \A d \in Callers : call'[d].id = call[d].id /\ call'[d].kind = call[d].kind
          /\ (call'[d].at = "sending" <=> d # c /\ call[d].at = "sending")
    <3>1. \A r \in Calls : LET x == [r EXCEPT !.at = "waiting"]
                           IN  x.id = r.id /\ x.kind = r.kind /\ x.at = "waiting"
      BY DEF Calls
    <3>2. call'[c] = [call[c] EXCEPT !.at = "waiting"] /\ call[c] \in Calls
      BY <1>a, <2>1
    <3>3. \A d \in Callers : d # c => call'[d] = call[d]
      BY <1>a, <2>1
    <3>4. call'[c].id = call[c].id /\ call'[c].kind = call[c].kind /\ call'[c].at = "waiting"
      BY <3>1, <3>2
    <3>5. QED
      BY <3>3, <3>4
  <2>7. \A d \in Callers : Wish(d)' = Wish(d)
    BY <2>6 DEF Wish
  <2>8. Unsent = Unsent' \union {m}
    BY <2>1, <2>6, <2>7 DEF Unsent
  <2> HIDE DEF m
  <2>9. InQueue' = InQueue \union {m}
    BY <2>1, <2>2, <2>5, SentToQueue DEF CommandInv
  <2>10. OnItsWay' = OnItsWay \union {m}
    BY <2>1, <2>9 DEF OnItsWay
  <2>11. Outstanding' = Outstanding
    BY <1>b, <2>8, <2>10
  <2>12. [d \in Callers |-> call[d].id]' = [d \in Callers |-> call[d].id]
    BY <2>6
  <2>13. QED
    BY <2>1, <2>11, <2>12 DEF Switch!vars
<1>3. ASSUME NEW c \in Callers, CallTimeout(c) PROVE Switch!GiveUp(c)
  <2>1. /\ call[c].at \in {"sending", "waiting"} /\ UNCHANGED <<queue, cmd, bound>>
        /\ call' = [call EXCEPT ![c].at = "idle"]
        /\ answer' = [answer EXCEPT ![c] = "timeout"]
    BY <1>3 DEF CallTimeout, shared
  <2>2. answer[c] = "none"
    BY <2>1 DEF CommandInv, Numbered
  <2>3. \A d \in Callers : call'[d].id = call[d].id /\ call'[d].kind = call[d].kind
          /\ (call'[d].at = "sending" <=> d # c /\ call[d].at = "sending")
    <3>1. \A r \in Calls : LET x == [r EXCEPT !.at = "idle"]
                           IN  x.id = r.id /\ x.kind = r.kind /\ x.at = "idle"
      BY DEF Calls
    <3>2. call'[c] = [call[c] EXCEPT !.at = "idle"] /\ call[c] \in Calls
      BY <1>a, <2>1
    <3>3. \A d \in Callers : d # c => call'[d] = call[d]
      BY <1>a, <2>1
    <3>4. call'[c].id = call[c].id /\ call'[c].kind = call[c].kind /\ call'[c].at = "idle"
      BY <3>1, <3>2
    <3>5. QED
      BY <3>3, <3>4
  <2>4. \A d \in Callers : Wish(d)' = Wish(d)
    BY <2>3 DEF Wish
  <2>5. \A d, e \in Callers : Wish(d) = Wish(e) => d = e
    BY DEF Wish
  <2>6. OnItsWay' = OnItsWay
    BY <2>1 DEF OnItsWay, InQueue
  <2>7. CASE call[c].at = "sending"
    <3>1. Unsent' = Unsent \ {Wish(c)} /\ Wish(c) \in Unsent
      BY <2>3, <2>4, <2>5, <2>7 DEF Unsent
    <3>2. Outstanding' = Outstanding \ {Wish(c)} /\ Wish(c) \in Outstanding
      BY <1>b, <2>6, <3>1
    <3>3. QED
      BY <2>1, <2>2, <2>3, <3>2 DEF Switch!GiveUp
  <2>8. CASE call[c].at # "sending"
    <3>1. Unsent' = Unsent
      BY <2>3, <2>4, <2>8 DEF Unsent
    <3>2. Outstanding' = Outstanding
      BY <1>b, <2>6, <3>1
    <3>3. QED
      BY <2>1, <2>2, <2>3, <3>2 DEF Switch!GiveUp
  <2>9. QED
    BY <2>7, <2>8
<1>4. CASE TakeStart \/ TakeStop
  <2>1. /\ step = "loop" /\ queue # <<>> /\ queue' = Tail(queue) /\ cmd' = Head(queue)
        /\ UNCHANGED <<call, answer, spent>>
        /\ \/ step' = "starting" /\ cmd'.kind = "start"
           \/ step' = "draining" /\ cmd'.kind = "stop"
    BY <1>4 DEF TakeStart, TakeStop, callers
  <2>2. bound' = bound
    BY <1>a, <1>4 DEF TakeStart, TakeStop, SetPhase, shared, Tied
  <2>3. QED
    BY <2>1, <2>2, Takes, SwitchRests
<1>5. ASSUME step = "starting", NEW result, result # "none", Reply(result), UNCHANGED spent
      PROVE  cmd \in Outstanding /\ cmd.kind = "start" /\ Switch!Tells(cmd, result)
  BY <1>5, SwitchTells DEF CommandInv, Executing
<1>6. ASSUME step = "draining", NEW result, result # "none", Reply(result), UNCHANGED spent
      PROVE  cmd \in Outstanding /\ cmd.kind = "stop" /\ Switch!Tells(cmd, result)
  BY <1>6, SwitchTells DEF CommandInv, Executing
<1>7. CASE Refuse
  <2>1. step = "starting" /\ Reply("already") /\ UNCHANGED <<spent, bound>> /\ bound
    BY <1>7 DEF Refuse, shared, Tied
  <2>2. Switch!AlreadyOn(cmd) /\ cmd \in Outstanding
    BY <1>5, <2>1 DEF Switch!AlreadyOn
  <2>3. QED
    BY <2>2 DEF Switch!Next
<1>8. CASE Started
  <2>1. step = "starting" /\ Reply("ok") /\ UNCHANGED spent /\ ~ bound /\ bound' = TRUE
    BY <1>8 DEF Started, SetPhase, Tied
  <2>2. Switch!TurnOn(cmd) /\ cmd \in Outstanding
    BY <1>5, <2>1 DEF Switch!TurnOn
  <2>3. QED
    BY <2>2 DEF Switch!Next
<1>9. CASE StartFails
  <2>1. step = "starting" /\ Reply("startup") /\ UNCHANGED spent /\ ~ bound /\ bound' = bound
    BY <1>a, <1>9 DEF StartFails, SetPhase, shared, Tied
  <2>2. Switch!StaysOff(cmd) /\ cmd \in Outstanding
    BY <1>5, <2>1 DEF Switch!StaysOff
  <2>3. QED
    BY <2>2 DEF Switch!Next
<1>10. CASE Stopped \/ StopTimeout
  <2>1. step = "draining" /\ (Reply("ok") \/ Reply("shutdown_timeout")) /\ UNCHANGED spent
        /\ bound' = FALSE
    BY <1>10 DEF Stopped, StopTimeout, Drained, SetPhase
  <2>2. Switch!TurnOff(cmd) /\ cmd \in Outstanding
    BY <1>6, <2>1 DEF Switch!TurnOff
  <2>3. QED
    BY <2>2 DEF Switch!Next
<1>11. CASE AcceptError
  <2>1. UNCHANGED <<call, answer, queue, cmd>> /\ bound /\ bound' = FALSE
    BY <1>11 DEF AcceptError, ListenerLost, SetPhase, callers, Tied
  <2>2. Outstanding' = Outstanding
    BY <2>1 DEF Outstanding
  <2>3. Switch!Break
    BY <2>1, <2>2 DEF Switch!Break
  <2>4. QED
    BY <2>3 DEF Switch!Next
<1>12. ASSUME \/ Close \/ End \/ UNCHANGED vars
              \/ \E k \in Conns : Join(k) \/ Accept(k) \/ Connection(k)
       PROVE  UNCHANGED Switch!vars
  <2>1. UNCHANGED <<call, answer, queue, cmd, bound>>
    BY <1>12, ConnectionMoves DEF Close, End, vars, Join, Accept, Goes, callers, shared
  <2>2. OnItsWay' = OnItsWay
    BY <2>1 DEF OnItsWay, InQueue
  <2>3. QED
    BY <2>1, <2>2, SwitchRests
<1>13. QED
  BY <1>1, <1>2, <1>3, <1>4, <1>7, <1>8, <1>9, <1>10, <1>11, <1>12
     DEF Next, Executes, Switch!Next

\* The supervisor implements the switch: every command takes effect in one step
\* and at most once, also when its caller has given up, and no answer is lost or
\* given to a later call.
THEOREM SwitchImplemented == Spec => ImplementsSwitch
<1>. USE SupervisorAssumption DEF SupervisorAssumption
<1>1. Init => CommandInv /\ Tied /\ Switch!Init
  <2> SUFFICES ASSUME Init PROVE CommandInv /\ Tied /\ Switch!Init
    OBVIOUS
  <2>1. Len(queue) = 0 /\ InQueue = {}
    BY DEF Init, InQueue
  <2>2. CommandInv
    BY <2>1 DEF Init, CommandInv, Executing, Numbered, Owed, Once, OnItsWay, InQueue
  <2>3. Outstanding = {}
    BY <2>1 DEF Init, Outstanding, InQueue
  <2>4. [c \in Callers |-> call[c].id] = [c \in Callers |-> 0]
    BY DEF Init
  <2>5. Tied
    BY DEF Init, Tied
  <2>6. Switch!Init
    BY <2>3, <2>4 DEF Init, Switch!Init
  <2>7. QED
    BY <2>2, <2>5, <2>6
<1>2. TypeOK /\ CommandInv /\ [Next]_vars => CommandInv'
  BY CommandStep
<1>3. TypeOK /\ TypeOK' /\ Tied /\ CommandInv /\ CommandInv' /\ [Next]_vars
        => [Switch!Next]_Switch!vars
  BY SwitchStep
<1>4. QED
  BY <1>1, <1>2, <1>3, TypeAndCount, TiedHolds, PTL DEF Spec, ImplementsSwitch, Switch!Spec
===============================================================================
