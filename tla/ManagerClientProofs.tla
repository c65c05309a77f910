-------------------------- MODULE ManagerClientProofs --------------------------
(* Safety of the manager's client for every number of users, every size of the
   queue and any number of calls: the types, whose answer a caller is told, how
   often a call is executed and which session a confirmation reaches. *)
EXTENDS ManagerClient, TLAPS

Threads == [life: {"none", "up", "dead"}, requests: Seq(Requests),
            busy: Requests \union {None}, done: BOOLEAN, events: Seq(Requests)]

-----------------------------------------------------------------------------
(* Channels. *)

In(seq) == {seq[i] : i \in DOMAIN seq}

\* What the first and the other elements of a queue are.
LEMMA TakenFrom ==
  ASSUME NEW S, NEW seq \in Seq(S), seq # <<>>
  PROVE  /\ Head(seq) \in S /\ Tail(seq) \in Seq(S)
         /\ Head(seq) \in In(seq)
         /\ In(seq) = In(Tail(seq)) \union {Head(seq)}
         /\ Len(Tail(seq)) = Len(seq) - 1
<1>1. Len(seq) \in Nat \ {0} /\ Head(seq) = seq[1] /\ 1 \in DOMAIN seq
  OBVIOUS
<1>2. /\ Tail(seq) \in Seq(S) /\ DOMAIN Tail(seq) = 1..(Len(seq) - 1)
      /\ \A i \in 1..(Len(seq) - 1) : Tail(seq)[i] = seq[i + 1]
  OBVIOUS
<1>3. In(seq) \subseteq In(Tail(seq)) \union {Head(seq)}
  <2> SUFFICES ASSUME NEW i \in DOMAIN seq, i # 1
               PROVE  seq[i] \in In(Tail(seq))
    BY <1>1 DEF In
  <2>1. i - 1 \in 1..(Len(seq) - 1) /\ seq[i] = Tail(seq)[i - 1]
    BY <1>1, <1>2
  <2>2. QED
    BY <2>1, <1>2 DEF In
<1>4. In(Tail(seq)) \subseteq In(seq)
  <2> SUFFICES ASSUME NEW i \in DOMAIN Tail(seq)
               PROVE  Tail(seq)[i] \in In(seq)
    BY DEF In
  <2>1. i + 1 \in DOMAIN seq /\ Tail(seq)[i] = seq[i + 1]
    BY <1>1, <1>2
  <2>2. QED
    BY <2>1 DEF In
<1>5. QED
  BY <1>1, <1>2, <1>3, <1>4 DEF In

LEMMA Appended ==
  ASSUME NEW S, NEW seq \in Seq(S), NEW e \in S
  PROVE  /\ Append(seq, e) \in Seq(S)
         /\ In(Append(seq, e)) = In(seq) \union {e}
<1>1. /\ Len(seq) \in Nat /\ DOMAIN seq = 1..Len(seq)
      /\ Append(seq, e) \in Seq(S)
      /\ DOMAIN Append(seq, e) = 1..(Len(seq) + 1)
      /\ \A i \in 1..Len(seq) : Append(seq, e)[i] = seq[i]
      /\ Append(seq, e)[Len(seq) + 1] = e
  OBVIOUS
<1>2. In(Append(seq, e)) \subseteq In(seq) \union {e}
  BY <1>1 DEF In
<1>3. In(seq) \subseteq In(Append(seq, e))
  <2> SUFFICES ASSUME NEW i \in DOMAIN seq
               PROVE  seq[i] \in In(Append(seq, e))
    BY DEF In
  <2>1. i \in DOMAIN Append(seq, e) /\ Append(seq, e)[i] = seq[i]
    BY <1>1
  <2>2. QED
    BY <2>1 DEF In
<1>4. e \in In(Append(seq, e))
  <2>1. Len(seq) + 1 \in DOMAIN Append(seq, e)
    BY <1>1
  <2>2. QED
    BY <2>1, <1>1 DEF In
<1>5. QED
  BY <1>1, <1>2, <1>3, <1>4

LEMMA Inside ==
  ASSUME NEW S, NEW seq \in Seq(S)
  PROVE  In(seq) \subseteq S
  BY DEF In

LEMMA Singletons ==
  /\ In(<<>>) = {}
  /\ \A S, e : e \in S => <<e>> \in Seq(S) /\ In(<<e>>) = {e}
  BY DEF In

-----------------------------------------------------------------------------
(* Types. *)

\* The event channel of the present session, with its first event taken away.
LEMMA TakenTyped ==
  ASSUME TypeOK
  PROVE  /\ Taken \in [Sessions -> Threads]
         /\ \A s \in Sessions : /\ Taken[s].requests = thread[s].requests
                               /\ Taken[s].busy = thread[s].busy
                               /\ Taken[s].life = thread[s].life
                               /\ Taken[s].done = thread[s].done
                               /\ In(Taken[s].events) \subseteq In(thread[s].events)
<1>1. CASE Arrived
  <2>1. session \in Sessions /\ thread[session].events \in Seq(Requests)
    BY <1>1 DEF Arrived, TypeOK, Threads
  <2>2. /\ Tail(thread[session].events) \in Seq(Requests)
        /\ In(Tail(thread[session].events)) \subseteq In(thread[session].events)
    BY <1>1, <2>1, TakenFrom DEF Arrived
  <2>3. Taken = [thread EXCEPT ![session].events = Tail(@)]
    BY <1>1 DEF Taken
  <2>4. QED
    BY ZenonT(30), <2>1, <2>2, <2>3 DEF TypeOK, Threads
<1>2. CASE ~ Arrived
  BY <1>2 DEF Taken, TypeOK, Threads
<1>3. QED
  BY <1>1, <1>2

\* An answered request comes from the session's thread.
LEMMA AnsweredTyped ==
  ASSUME TypeOK, Answered
  PROVE  /\ session \in Sessions
         /\ Event \in Requests /\ Event \in In(thread[session].events)
         /\ Event.id = awaited
<1>1. session \in Sessions /\ thread[session].events \in Seq(Requests)
  BY DEF Answered, Arrived, TypeOK
<1>2. QED
  BY <1>1, TakenFrom DEF Answered, Arrived, Event, Matches

\* A request sent to the present session joins its requests; nothing else changes.
LEMMA SentTyped ==
  ASSUME NEW threads \in [Sessions -> Threads], session \in Sessions,
         NEW id \in Nat, NEW call \in Calls \union OwnCalls
  PROVE  LET r == [id |-> id, call |-> call] IN
         /\ Sent(threads, id, call) \in [Sessions -> Threads]
         /\ \A s \in Sessions :
              /\ In(Sent(threads, id, call)[s].requests)
                   = In(threads[s].requests) \union (IF s = session THEN {r} ELSE {})
              /\ Sent(threads, id, call)[s].busy = threads[s].busy
              /\ Sent(threads, id, call)[s].life = threads[s].life
              /\ Sent(threads, id, call)[s].events = threads[s].events
<1> DEFINE r == [id |-> id, call |-> call]
<1>1. r \in Requests /\ threads[session].requests \in Seq(Requests)
  BY DEF Requests, Threads
<1> DEFINE new == Append(threads[session].requests, r)
<1>2. /\ new \in Seq(Requests)
      /\ In(new) = In(threads[session].requests) \union {r}
  BY <1>1, Appended
<1>3. Sent(threads, id, call) = [threads EXCEPT ![session].requests = new]
  BY DEF Sent
<1> HIDE DEF new
<1>4. Sent(threads, id, call) \in [Sessions -> Threads]
  BY <1>2, <1>3 DEF Threads
<1>5. \A s \in Sessions :
        /\ Sent(threads, id, call)[s].requests
             = IF s = session THEN new ELSE threads[s].requests
        /\ Sent(threads, id, call)[s].busy = threads[s].busy
        /\ Sent(threads, id, call)[s].life = threads[s].life
        /\ Sent(threads, id, call)[s].events = threads[s].events
  BY <1>3 DEF Threads
<1>6. QED
  BY <1>2, <1>4, <1>5

\* The state of ManagerClient is well typed.
THEOREM TypeCorrect == Spec => []TypeOK
<1> USE ClientAssumption DEF ClientAssumption
<1>1. Init => TypeOK
  <2> SUFFICES ASSUME Init PROVE TypeOK
    OBVIOUS
  <2>1. /\ asked \in [Callers -> Calls]
        /\ got \in [Callers -> Replies]
    BY DEF Init, NoCall, Calls, Kinds, Callers, Reply, Replies
  <2>2. left \in [calls: [Callers -> Nat], panics: Nat]
    BY DEF Init, Callers
  <2>3. thread \in [Sessions -> Threads] /\ queue \in Seq(Calls) /\ Len(queue) <= QueueSize
    BY DEF Init, Threads
  <2>4. QED
    BY <2>1, <2>2, <2>3 DEF Init, TypeOK, Threads
<1>2. TypeOK /\ [Next]_vars => TypeOK'
  <2> SUFFICES ASSUME TypeOK, [Next]_vars PROVE TypeOK'
    OBVIOUS
  <2>a. thread \in [Sessions -> Threads]
    BY DEF TypeOK, Threads
  <2>b. thread' \in [Sessions -> Threads]
         => thread' \in [Sessions -> [life: {"none", "up", "dead"},
                              requests: Seq(Requests),
                              busy: Requests \union {None}, done: BOOLEAN,
                              events: Seq(Requests)]]
    BY DEF Threads
  <2>t. Taken \in [Sessions -> Threads]
    BY TakenTyped
  <2>h. queue # <<>> => /\ Head(queue) \in Calls /\ Tail(queue) \in Seq(Calls)
                        /\ Len(Tail(queue)) <= QueueSize
    BY TakenFrom DEF TypeOK
  <2>o. \A kind \in {"info", "status", "start"} : Own(kind) \in OwnCalls
    BY DEF OwnCalls
  <2>s. ASSUME NEW threads \in [Sessions -> Threads], session # 0, NEW id \in Nat,
               NEW call \in Calls \union OwnCalls
        PROVE  Sent(threads, id, call) \in [Sessions -> Threads]
    <3>1. session \in Sessions
      BY <2>s DEF TypeOK
    <3>2. QED
      BY <3>1, SentTyped
  <2>r. ASSUME NEW reply \in Replies, current \in Calls, Tell(reply)
        PROVE  /\ at' \in [Callers -> {"idle", "sending", "waiting"}]
               /\ got' \in [Callers -> Replies]
               /\ doing' = "idle" /\ current' = None
               /\ UNCHANGED <<asked, queue, epoch, ran, made, left>>
    <3>1. current.by \in Callers
      BY <2>r DEF Calls
    <3>2. QED
      BY <2>r, <3>1 DEF Tell, TypeOK
  <2>m. ASSUME NEW c \in Callers, NEW call \in Calls, Makes(c, call)
        PROVE  /\ asked' \in [Callers -> Calls] /\ got' \in [Callers -> Replies]
               /\ left' \in [calls: [Callers -> Nat], panics: Nat]
    <3>1. asked' \in [Callers -> Calls] /\ got' \in [Callers -> Replies]
      BY <2>m DEF Makes, TypeOK, Reply, Replies
    <3>2. left.calls[c] - 1 \in Nat
      BY <2>m DEF Makes, TypeOK
    <3>3. QED
      BY <2>m, <3>1, <3>2 DEF Makes, TypeOK
  <2>c. ASSUME NEW c \in Callers, NEW kind \in Kinds, NEW id \in Nat
        PROVE  [NoCall(c) EXCEPT !.id = id, !.kind = kind] \in Calls
    BY DEF NoCall, Calls, Kinds
  <2>1. ASSUME NEW u \in Users, Call(u) PROVE TypeOK'
    <3>1. made' \in Nat /\ u \in Callers
      BY <2>1 DEF Call, Makes, TypeOK, Callers
    <3>2. PICK kind \in {"read", "once", "inspect"} :
            /\ Makes(u, [NoCall(u) EXCEPT !.id = made', !.kind = kind])
            /\ token' = IF kind = "inspect" THEN None ELSE token
      BY <2>1 DEF Call
    <3>3. [NoCall(u) EXCEPT !.id = made', !.kind = kind] \in Calls
      BY <2>c, <3>1 DEF Kinds
    <3>4. /\ asked' \in [Callers -> Calls] /\ got' \in [Callers -> Replies]
          /\ left' \in [calls: [Callers -> Nat], panics: Nat]
      BY <2>m, <3>1, <3>2, <3>3
    <3>5. QED
      BY <2>1, <3>1, <3>2, <3>4 DEF Call, TypeOK, actor
  <2>2. ASSUME NEW u \in Users, ForceTerminate(u) PROVE TypeOK'
    <3> DEFINE call == [NoCall(u) EXCEPT !.id = made', !.kind = "force",
                                         !.epoch = token.epoch, !.issuer = token.issuer]
    <3>1. made' \in Nat /\ u \in Callers /\ Makes(u, call)
      BY <2>2 DEF ForceTerminate, Makes, TypeOK, Callers
    <3>2. token.epoch \in Nat /\ token.issuer \in Nat
      BY <2>2 DEF ForceTerminate, TypeOK, Sessions
    <3>3. call \in Calls
      BY <3>1, <3>2 DEF NoCall, Calls, Kinds
    <3>4. /\ asked' \in [Callers -> Calls] /\ got' \in [Callers -> Replies]
          /\ left' \in [calls: [Callers -> Nat], panics: Nat]
      BY <2>m, <3>1, <3>3
    <3>5. QED
      BY <2>2, <3>1, <3>4 DEF ForceTerminate, TypeOK, actor
  <2>3. ASSUME NEW u \in Users, Expire(u) PROVE TypeOK'
    BY <2>3 DEF Expire, TypeOK, actor
  <2>4. ASSUME NEW u \in Users, Send(u) PROVE TypeOK'
    BY <2>4 DEF Send, HasRoom, TypeOK, Callers, actor
  <2>5. CASE Poll
    <3> DEFINE call == [NoCall(Poller) EXCEPT !.id = made']
    <3>1. made' \in Nat /\ Poller \in Callers /\ Makes(Poller, call)
      BY <2>5 DEF Poll, Makes, TypeOK, Callers
    <3>2. call \in Calls
      BY <3>1 DEF NoCall, Calls, Kinds
    <3>3. /\ asked' \in [Callers -> Calls] /\ got' \in [Callers -> Replies]
          /\ left' \in [calls: [Callers -> Nat], panics: Nat]
      BY <2>m, <3>1, <3>2
    <3>4. queue' \in Seq(Calls) /\ Len(queue') <= QueueSize
      <4>1. asked'[Poller] \in Calls
        BY <3>1, <3>3
      <4>2. Append(queue, asked'[Poller]) \in Seq(Calls)
        BY <4>1, Appended DEF TypeOK
      <4>3. QED
        BY <2>5, <4>1, <4>2 DEF Poll, HasRoom, TypeOK
    <3>5. QED
      BY <2>5, <3>1, <3>3, <3>4 DEF Poll, TypeOK, actor
  <2>6. CASE Take
    <3>1. session # 0 => Sent(thread, nextId, Head(queue)) \in [Sessions -> Threads]
      BY <2>6, <2>a, <2>h, <2>s DEF Take, TypeOK
    <3>2. thread' \in [Sessions -> Threads] /\ awaited' \in Nat
      BY <2>6, <2>a, <3>1 DEF Take, TypeOK
    <3>3. QED
      BY <2>6, <2>b, <2>h, <3>2 DEF Take, TypeOK, clients
  <2>7. CASE TakeUnexpected
    <3>1. Head(queue).by \in Callers /\ Head(queue).id \in Nat
      BY <2>7, <2>h DEF TakeUnexpected, Calls
    <3>2. QED
      BY <2>7, <2>h, <3>1 DEF TakeUnexpected, TypeOK, Reply, Replies, actor
  <2>8. CASE Answer
    <3>1. /\ Event \in Requests /\ session \in Sessions
          /\ current \in Calls
      BY <2>8, AnsweredTyped DEF Answer, TypeOK
    <3>2. Reply("answer", Event.call.id) \in Replies
      BY <3>1 DEF Requests, Calls, OwnCalls, Own, Reply, Replies
    <3>3. token' \in [epoch: Nat, issuer: Sessions] \union {None}
      BY <2>8, <3>1 DEF Answer, TypeOK
    <3>4. /\ Tell(Reply("answer", Event.call.id))
          /\ thread' = Taken /\ nextId' \in Nat
          /\ UNCHANGED <<awaited, session, recovered>>
      BY <2>8 DEF Answer, Following, TypeOK
    <3>5. QED
      BY <2>b, <2>r, <2>t, <3>1, <3>2, <3>3, <3>4 DEF TypeOK
  <2>9. CASE Recover
    BY <2>9, <2>b, <2>t DEF Recover, Following, TypeOK, clients
  <2>10. CASE Fail
    <3>1. current \in Calls /\ Reply("failed", current.id) \in Replies
      BY <2>10 DEF Fail, TypeOK, Calls, Reply, Replies
    <3>2. /\ Tell(Reply("failed", current.id))
          /\ thread' = Taken /\ nextId' \in Nat
          /\ UNCHANGED <<token, awaited, session, recovered>>
      BY <2>10 DEF Fail, Following, TypeOK
    <3>3. QED
      BY <2>b, <2>r, <2>t, <3>1, <3>2 DEF TypeOK
  <2>11. CASE Spawn
    <3>1. <<[id |-> 0, call |-> Own("info")]>> \in Seq(Requests)
      BY <2>o, Singletons DEF Requests
    <3>2. session' \in Sessions /\ thread' \in [Sessions -> Threads]
      <4>1. PICK s \in Sessions :
              /\ session' = s
              /\ thread' = [thread EXCEPT ![s].life = "up",
                              ![s].requests = <<[id |-> 0, call |-> Own("info")]>>]
        BY <2>11 DEF Spawn
      <4> DEFINE first == <<[id |-> 0, call |-> Own("info")]>>
      <4>2. thread' = [thread EXCEPT ![s].life = "up", ![s].requests = first]
        BY <4>1
      <4> HIDE DEF first
      <4>3. first \in Seq(Requests) /\ thread[s] \in Threads
        BY <2>a, <3>1 DEF first
      <4>4. [thread[s] EXCEPT !.life = "up", !.requests = first] \in Threads
        BY <4>3 DEF Threads
      <4>5. thread' = [thread EXCEPT ![s] = [thread[s] EXCEPT !.life = "up", !.requests = first]]
        BY <2>a, <4>2 DEF Threads
      <4>6. QED
        BY <2>a, <4>1, <4>4, <4>5
    <3>3. QED
      BY <2>11, <2>b, <3>2 DEF Spawn, TypeOK, clients
  <2>12. CASE NoSession
    <3>1. CASE current = None
      BY <2>12, <2>b, <2>t, <3>1 DEF NoSession, TypeOK, clients
    <3>2. CASE current # None
      <4>1. current \in Calls /\ Reply("failed", current.id) \in Replies
        BY <3>2 DEF TypeOK, Calls, Reply, Replies
      <4>2. QED
        BY <2>12, <2>b, <2>r, <2>t, <3>2, <4>1 DEF NoSession, Tell, TypeOK
    <3>3. QED
      BY <3>1, <3>2
  <2>i. ASSUME NEW id \in Nat, Resume(id), current \in Calls, session # 0,
               UNCHANGED <<session, recovered>>, nextId' \in Nat
        PROVE  TypeOK'
    <3>1. Reply("failed", current.id) \in Replies
      BY <2>i DEF Calls, Reply, Replies
    <3>2. CASE NotReplayed(current)
      BY <2>i, <2>b, <2>r, <2>t, <3>1, <3>2 DEF Resume, Tell, TypeOK
    <3>3. CASE ~ NotReplayed(current)
      <4>1. thread' \in [Sessions -> Threads] /\ awaited' = id
        BY <2>i, <2>s, <2>t, <3>3 DEF Resume, Ask
      <4>2. QED
        BY <2>i, <2>b, <3>3, <4>1 DEF Resume, TypeOK, clients
    <3>4. QED
      BY <3>2, <3>3
  <2>13. CASE Handshaken
    <3>1. session # 0
      BY <2>13 DEF Handshaken, Answered, Arrived
    <3>2. thread' \in [Sessions -> Threads] /\ awaited' \in Nat
      <4>1. Sent(Taken, nextId, Own("status")) \in [Sessions -> Threads]
        BY <2>o, <2>s, <2>t, <3>1 DEF TypeOK
      <4>2. QED
        BY <2>13, <2>t, <4>1 DEF Handshaken, Ask, TypeOK
    <3>3. QED
      BY <2>13, <2>b, <3>2 DEF Handshaken, TypeOK, clients
  <2>14. CASE StatusRead
    <3>1. session # 0 /\ nextId' \in Nat /\ current \in Calls
      BY <2>14 DEF StatusRead, Answered, Arrived, Following, TypeOK
    <3>2. CASE Resume(nextId')
      BY <2>14, <2>i, <3>1, <3>2 DEF StatusRead
    <3>3. CASE /\ doing' = "start" /\ Ask(nextId', Own("start"))
               /\ UNCHANGED <<clients, queue, current, epoch, ran, made, left>>
      <4>1. thread' \in [Sessions -> Threads] /\ awaited' \in Nat
        BY <2>o, <2>s, <2>t, <3>1, <3>3 DEF Ask
      <4>2. QED
        BY <2>14, <2>b, <3>1, <3>3, <4>1 DEF StatusRead, TypeOK, clients
    <3>4. QED
      BY <2>14, <3>2, <3>3 DEF StatusRead
  <2>15. CASE Restarted
    <3>1. session # 0 /\ nextId' \in Nat /\ current \in Calls
      BY <2>15 DEF Restarted, Answered, Arrived, Following, TypeOK
    <3>2. QED
      BY <2>15, <2>i, <3>1 DEF Restarted
  <2>16. ASSUME NEW s \in Sessions, Thread(s) PROVE TypeOK'
    <3>1. thread[s] \in Threads
      BY <2>a
    <3>2. CASE Serve(s)
      <4>1. /\ Head(thread[s].requests) \in Requests
            /\ Tail(thread[s].requests) \in Seq(Requests)
        BY <3>1, <3>2, TakenFrom DEF Serve, Threads
      <4>2. [thread[s] EXCEPT !.busy = Head(thread[s].requests),
                              !.requests = Tail(@), !.done = FALSE] \in Threads
        BY <3>1, <4>1 DEF Threads
      <4>3. thread' \in [Sessions -> Threads]
        BY <2>a, <3>2, <4>2 DEF Serve, Becomes
      <4>4. QED
        BY <2>b, <3>2, <4>3 DEF Serve, Becomes, TypeOK, clients, actor
    <3>3. CASE Execute(s)
      <4>1. thread[s].busy \in Requests
        BY <3>1, <3>3 DEF Execute, Threads
      <4>2. [thread[s] EXCEPT !.done = TRUE] \in Threads
        BY <3>1 DEF Threads
      <4>3. thread' \in [Sessions -> Threads]
        BY <2>a, <3>3, <4>2 DEF Execute, Becomes
      <4>4. ran' \subseteq [request : Requests, session : Sessions]
        BY <3>3, <4>1 DEF Execute, TypeOK
      <4>5. QED
        BY <2>b, <3>3, <4>3, <4>4 DEF Execute, Becomes, TypeOK, clients, actor
    <3>4. CASE Respond(s)
      <4>1. thread[s].events \in Seq(Requests) /\ thread[s].busy \in Requests
        BY <3>1, <3>4 DEF Respond, Threads
      <4>2. Append(thread[s].events, thread[s].busy) \in Seq(Requests)
        BY <4>1, Appended
      <4>3. [thread[s] EXCEPT
               !.busy = None, !.done = FALSE,
               !.life = IF session = s THEN "up" ELSE "dead",
               !.events = IF session = s THEN Append(@, thread[s].busy) ELSE @] \in Threads
        BY <3>1, <4>2 DEF Threads
      <4>4. thread' \in [Sessions -> Threads]
        BY <2>a, <3>4, <4>3 DEF Respond, Becomes
      <4>5. QED
        BY <2>b, <3>4, <4>4 DEF Respond, Becomes, TypeOK, clients, actor
    <3>5. CASE End(s)
      <4>1. thread' \in [Sessions -> Threads]
        <5>1. [thread[s] EXCEPT !.life = "dead"] \in Threads
          BY <3>1 DEF Threads
        <5>2. QED
          BY <2>a, <3>5, <5>1 DEF End, Becomes
      <4>2. QED
        BY <2>b, <3>5, <4>1 DEF End, Becomes, TypeOK, clients, actor
    <3>6. CASE Panic(s)
      <4>1. thread' \in [Sessions -> Threads]
        <5>1. [thread[s] EXCEPT !.life = "dead", !.busy = None] \in Threads
          BY <3>1 DEF Threads
        <5>2. QED
          BY <2>a, <3>6, <5>1 DEF Panic, Becomes
      <4>2. QED
        <5>1. left' \in [calls: [Callers -> Nat], panics: Nat]
          <6>1. left.panics - 1 \in Nat /\ left' = [left EXCEPT !.panics = left.panics - 1]
            BY <3>6 DEF Panic, TypeOK
          <6>2. QED
            BY <6>1 DEF TypeOK
        <5>2. QED
          BY <2>b, <3>6, <4>1, <5>1 DEF Panic, Becomes, TypeOK, clients, actor
    <3>7. QED
      BY <2>16, <3>2, <3>3, <3>4, <3>5, <3>6 DEF Thread
  <2>17. CASE UNCHANGED vars
    BY <2>17 DEF vars, TypeOK
  <2>18. QED
    BY <2>1, <2>2, <2>3, <2>4, <2>5, <2>6, <2>7, <2>8, <2>9, <2>10, <2>11, <2>12,
       <2>13, <2>14, <2>15, <2>16, <2>17 DEF Next, Actor
<1>3. QED
  BY <1>1, <1>2, PTL DEF Spec

-----------------------------------------------------------------------------
(* Which requests are on their way. *)

\* The requests a session still has to execute, and all that are in its channels.
Ahead(s) == In(thread[s].requests) \union ({thread[s].busy} \ {None})
Channel(s) == Ahead(s) \union In(thread[s].events)

\* The only ways a request comes into the channels of a session.
Sends(r) ==
  \/ Take /\ session # 0 /\ r = [id |-> nextId, call |-> Head(queue)]
  \/ Spawn /\ r = [id |-> 0, call |-> Own("info")]
  \/ Handshaken /\ current # None /\ r = [id |-> nextId, call |-> Own("status")]
  \/ StatusRead /\ doing' = "start" /\ r = [id |-> nextId + 1, call |-> Own("start")]
  \/ /\ StatusRead \/ Restarted
     /\ ~ NotReplayed(current) /\ doing' = "retry"
     /\ r = [id |-> nextId + 1, call |-> current]

\* A session that is not yet created has empty channels.
Unborn == \A s \in Sessions : thread[s].life = "none" => Channel(s) = {} /\ session # s

\* One request at most joins the channels, at the present session.
LEMMA Traffic ==
  ASSUME TypeOK, Unborn, [Next]_vars, NEW s \in Sessions
  PROVE  /\ \A r \in Ahead(s)' : r \in Ahead(s) \/ (s = session' /\ Sends(r))
         /\ \A r \in Channel(s)' : r \in Channel(s) \/ (s = session' /\ Sends(r))
         /\ thread'[s].life = "none" => thread[s].life = "none" /\ session' # s
<1> USE ClientAssumption DEF ClientAssumption
<1> DEFINE Joins(r) == s = session' /\ Sends(r)
           Goal == /\ \A r \in In(thread'[s].requests) :
                          r \in In(thread[s].requests) \/ Joins(r)
                   /\ thread'[s].busy = thread[s].busy
                   /\ In(thread'[s].events) \subseteq In(thread[s].events)
                   /\ thread'[s].life = "none" => thread[s].life = "none" /\ session' # s
           Result == /\ \A r \in Ahead(s)' : r \in Ahead(s) \/ Joins(r)
                     /\ \A r \in Channel(s)' : r \in Channel(s) \/ Joins(r)
                     /\ thread'[s].life = "none" => thread[s].life = "none" /\ session' # s
<1>a. thread \in [Sessions -> Threads]
  BY DEF TypeOK, Threads
<1>b. Goal => Result
  BY DEF Ahead, Channel
<1>c. /\ Taken \in [Sessions -> Threads]
      /\ Taken[s].requests = thread[s].requests
      /\ Taken[s].busy = thread[s].busy
      /\ Taken[s].life = thread[s].life
      /\ In(Taken[s].events) \subseteq In(thread[s].events)
  BY TakenTyped
<1>d. thread[s].life = "none" => session # s
  BY DEF Unborn
<1>e. ASSUME NEW threads \in [Sessions -> Threads], session # 0, session' = session,
             threads[s].requests = thread[s].requests,
             threads[s].busy = thread[s].busy, threads[s].life = thread[s].life,
             In(threads[s].events) \subseteq In(thread[s].events),
             NEW id \in Nat, NEW call \in Calls \union OwnCalls,
             Sends([id |-> id, call |-> call]), thread' = Sent(threads, id, call)
      PROVE  Goal
  <2>1. session \in Sessions
    BY <1>e DEF TypeOK
  <2> DEFINE r == [id |-> id, call |-> call]
  <2>2. /\ In(thread'[s].requests)
             = In(threads[s].requests) \union (IF s = session THEN {r} ELSE {})
        /\ thread'[s].busy = threads[s].busy
        /\ thread'[s].life = threads[s].life
        /\ thread'[s].events = threads[s].events
    BY <1>e, <2>1, SentTyped
  <2>3. QED
    BY <1>d, <1>e, <2>2
<1>1. ASSUME UNCHANGED <<thread, session>> PROVE Goal
  BY <1>1, <1>d
<1>2. ASSUME thread' = Taken, session' \in {session, 0} PROVE Goal
  BY <1>2, <1>c, <1>d DEF Sessions
<1>3. ASSUME Take PROVE Goal
  <2>1. CASE session = 0
    BY <1>1, <1>3, <2>1 DEF Take
  <2>2. CASE session # 0
    <3>1. /\ thread' = Sent(thread, nextId, Head(queue)) /\ session' = session
          /\ nextId \in Nat
      BY <1>3, <2>2 DEF Take, TypeOK
    <3>2. Head(queue) \in Calls
      BY <1>3, TakenFrom DEF Take, TypeOK
    <3>3. Sends([id |-> nextId, call |-> Head(queue)])
      BY <1>3, <2>2 DEF Sends
    <3>4. QED
      BY <1>a, <1>e, <2>2, <3>1, <3>2, <3>3
  <2>3. QED
    BY <2>1, <2>2
<1>4. ASSUME Spawn PROVE Goal
  <2> DEFINE first == <<[id |-> 0, call |-> Own("info")]>>
  <2>1. PICK x \in Sessions :
          /\ session' = x /\ thread[x].life = "none"
          /\ thread' = [thread EXCEPT ![x].life = "up", ![x].requests = first]
    BY <1>4 DEF Spawn
  <2>2. In(first) = {[id |-> 0, call |-> Own("info")]}
    BY Singletons
  <2> HIDE DEF first
  <2>3. /\ thread'[s].requests = IF s = x THEN first ELSE thread[s].requests
        /\ thread'[s].busy = thread[s].busy
        /\ thread'[s].events = thread[s].events
        /\ thread'[s].life = IF s = x THEN "up" ELSE thread[s].life
    BY <1>a, <2>1 DEF Threads
  <2>5. CASE s = x
    <3>1. In(thread'[s].requests) = {[id |-> 0, call |-> Own("info")]}
      BY <2>2, <2>3, <2>5
    <3>2. \A r \in In(thread'[s].requests) : Joins(r)
      <4> SUFFICES ASSUME NEW r \in In(thread'[s].requests) PROVE Sends(r)
        BY <2>1, <2>5
      <4>1. r = [id |-> 0, call |-> Own("info")]
        BY <3>1
      <4>2. QED
        BY <1>4, <4>1 DEF Sends
    <3>3. QED
      BY <2>3, <2>5, <3>2
  <2>6. CASE s # x
    BY <2>1, <2>3, <2>6
  <2>7. QED
    BY <2>5, <2>6
<1>f. \A kind \in {"info", "status", "start"} : Own(kind) \in OwnCalls
  BY DEF OwnCalls
<1>5. ASSUME Handshaken PROVE Goal
  <2>1. session # 0 /\ session' = session /\ nextId \in Nat
    BY <1>5 DEF Handshaken, Answered, Arrived, TypeOK
  <2>2. CASE current = None
    BY <1>2, <1>5, <2>1, <2>2 DEF Handshaken
  <2>3. CASE current # None
    <3>1. thread' = Sent(Taken, nextId, Own("status"))
      BY <1>5, <2>3 DEF Handshaken, Ask
    <3>2. Sends([id |-> nextId, call |-> Own("status")])
      BY <1>5, <2>3 DEF Sends
    <3>3. QED
      BY <1>c, <1>e, <1>f, <2>1, <3>1, <3>2
  <2>4. QED
    BY <2>2, <2>3
<1>6. ASSUME StatusRead \/ Restarted, Resume(nextId') PROVE Goal
  <2>1. /\ session # 0 /\ session' = session /\ nextId' = nextId + 1 /\ nextId' \in Nat
        /\ current \in Calls
    BY <1>6 DEF StatusRead, Restarted, Answered, Arrived, Following, TypeOK
  <2>2. CASE NotReplayed(current)
    BY <1>2, <1>6, <2>1, <2>2 DEF Resume
  <2>3. CASE ~ NotReplayed(current)
    <3>1. thread' = Sent(Taken, nextId', current) /\ doing' = "retry"
      BY <1>6, <2>3 DEF Resume, Ask
    <3>2. Sends([id |-> nextId', call |-> current])
      BY <1>6, <2>1, <2>3, <3>1 DEF Sends
    <3>3. QED
      BY <1>c, <1>e, <2>1, <3>1, <3>2
  <2>4. QED
    BY <2>2, <2>3
<1>7. ASSUME StatusRead PROVE Goal
  <2>1. CASE Resume(nextId')
    BY <1>6, <1>7, <2>1
  <2>2. CASE doing' = "start" /\ Ask(nextId', Own("start"))
    <3>1. /\ session # 0 /\ session' = session /\ nextId' = nextId + 1 /\ nextId' \in Nat
      BY <1>7 DEF StatusRead, Answered, Arrived, Following, TypeOK
    <3>2. thread' = Sent(Taken, nextId', Own("start"))
      BY <2>2 DEF Ask
    <3>3. Sends([id |-> nextId', call |-> Own("start")])
      BY <1>7, <2>2, <3>1 DEF Sends
    <3>4. QED
      BY <1>c, <1>e, <1>f, <3>1, <3>2, <3>3
  <2>3. QED
    BY <1>7, <2>1, <2>2 DEF StatusRead
<1>8. ASSUME NEW x \in Sessions, Thread(x) PROVE Result
  <2>1. session' = session
    BY <1>8 DEF Thread, Serve, Execute, Respond, End, Panic, Becomes, actor
  <2>2. CASE x # s
    <3>1. thread'[s] = thread[s]
      BY <1>8, <1>a, <2>2 DEF Thread, Serve, Execute, Respond, End, Panic, Becomes
    <3>2. QED
      BY <1>b, <1>d, <2>1, <3>1
  <2>3. CASE x = s /\ Serve(s)
    <3>1. thread[s].requests \in Seq(Requests) /\ thread[s].requests # <<>>
      BY <1>a, <2>3 DEF Serve, Threads
    <3>2. In(thread[s].requests)
            = In(Tail(thread[s].requests)) \union {Head(thread[s].requests)}
      BY <3>1, TakenFrom
    <3>3. /\ thread'[s].requests = Tail(thread[s].requests)
          /\ thread'[s].busy = Head(thread[s].requests)
          /\ thread'[s].events = thread[s].events
          /\ thread'[s].life = thread[s].life
      BY <1>a, <2>3 DEF Serve, Becomes, Threads
    <3>4. QED
      BY <1>d, <2>1, <3>2, <3>3 DEF Ahead, Channel
  <2>4. CASE x = s /\ Respond(s)
    <3>1. thread[s].events \in Seq(Requests) /\ thread[s].busy \in Requests
      BY <1>a, <2>4 DEF Respond, Threads
    <3>2. In(Append(thread[s].events, thread[s].busy))
            = In(thread[s].events) \union {thread[s].busy}
      BY <3>1, Appended
    <3>3. /\ thread'[s].requests = thread[s].requests /\ thread'[s].busy = None
          /\ thread'[s].events \in {thread[s].events, Append(thread[s].events, thread[s].busy)}
          /\ thread'[s].life # "none"
      BY <1>a, <2>4 DEF Respond, Becomes, Threads
    <3>4. thread[s].busy # None
      BY <2>4 DEF Respond
    <3>5. QED
      BY <2>1, <3>2, <3>3, <3>4 DEF Ahead, Channel
  <2>5. CASE x = s /\ (Execute(s) \/ End(s) \/ Panic(s))
    <3>1. /\ thread'[s].requests = thread[s].requests
          /\ thread'[s].busy \in {thread[s].busy, None}
          /\ thread'[s].events = thread[s].events
          /\ thread'[s].life # "none"
      <4>1. CASE Execute(s)
        BY <1>a, <4>1 DEF Execute, Becomes, Threads
      <4>2. CASE End(s)
        BY <1>a, <4>2 DEF End, Becomes, Threads
      <4>3. CASE Panic(s)
        BY <1>a, <4>3 DEF Panic, Becomes, Threads
      <4>4. QED
        BY <2>5, <4>1, <4>2, <4>3
    <3>2. QED
      BY <2>1, <3>1 DEF Ahead, Channel
  <2>6. QED
    BY <1>8, <2>2, <2>3, <2>4, <2>5 DEF Thread
<1>9. ASSUME \/ \E u \in Users : Call(u) \/ ForceTerminate(u) \/ Expire(u) \/ Send(u)
             \/ Poll \/ TakeUnexpected \/ UNCHANGED vars
      PROVE  Goal
  BY <1>1, <1>9 DEF Call, ForceTerminate, Expire, Send, Poll, TakeUnexpected, vars, actor
<1>10. ASSUME Answer \/ Recover \/ Fail \/ NoSession PROVE Goal
  BY <1>2, <1>10 DEF Answer, Recover, Fail, NoSession
<1>11. ASSUME Restarted PROVE Goal
  BY <1>6, <1>11 DEF Restarted
<1>12. QED
  <2>1. CASE \E x \in Sessions : Thread(x)
    BY <1>8, <2>1
  <2>2. CASE ~ \E x \in Sessions : Thread(x)
    <3>1. Goal
      <4> HIDE DEF Goal
      <4>1. QED
        BY <1>3, <1>4, <1>5, <1>7, <1>9, <1>10, <1>11, <2>2 DEF Next, Actor
    <3>2. QED
      BY <1>b, <3>1
  <2>3. QED
    BY <2>1, <2>2

-----------------------------------------------------------------------------
(* The inductive invariant. *)

\* The actor works on a call: it is not looking for the first session.
HasCurrent == current # None \/ doing \in {"asking", "status", "start", "retry"}

Waiting(call) == at[call.by] = "waiting" /\ asked[call.by] = call

\* Whoever waits, waits for one call, and it is queued or worked on once.
Waits ==
  /\ \A c \in Callers : asked[c].by = c
  /\ doing = "idle" => current = None
  /\ HasCurrent => Waiting(current)
  /\ \A i \in DOMAIN queue : /\ Waiting(queue[i])
                             /\ HasCurrent => queue[i].by # current.by
  /\ \A i, j \in DOMAIN queue : queue[i].by = queue[j].by => i = j

\* The numbers of a session's requests do not run ahead of the counter, and the
\* one of the present number is for the present call.
Numbered ==
  /\ nextId > 0
  /\ doing = "spawn" => session = 0
  /\ session # 0 /\ doing \in {"asking", "retry"} => awaited = nextId
  /\ \A s \in Sessions : s = session => \A r \in Channel(s) :
       /\ r.id <= nextId
       /\ doing \in {"idle", "handshake"} => r.id < nextId
       /\ doing \in {"asking", "retry"} /\ r.id = nextId => r.call = current

\* The calls that callers make are calls.
LEMMA NewPoll ==
  ASSUME NEW c \in Callers, NEW id \in Nat
  PROVE  LET call == [NoCall(c) EXCEPT !.id = id]
         IN  call \in Calls /\ call.by = c /\ call.id = id /\ call.kind = "read"
  BY DEF NoCall, Calls, Kinds

LEMMA NewConfirmation ==
  ASSUME NEW c \in Callers, NEW id \in Nat, TypeOK, token # None
  PROVE  LET call == [NoCall(c) EXCEPT !.id = id, !.kind = "force",
                                       !.epoch = token.epoch, !.issuer = token.issuer]
         IN  /\ call \in Calls /\ call.by = c /\ call.id = id /\ call.kind = "force"
             /\ call.epoch = token.epoch /\ call.issuer = token.issuer
<1>1. token.epoch \in Nat /\ token.issuer \in Nat
  BY DEF TypeOK, Sessions
<1>2. QED
  BY <1>1 DEF NoCall, Calls, Kinds

LEMMA UnbornKept ==
  ASSUME TypeOK, Unborn, [Next]_vars
  PROVE  Unborn'
<1> SUFFICES ASSUME NEW s \in Sessions, thread'[s].life = "none"
             PROVE  Channel(s)' = {} /\ session' # s
  BY DEF Unborn
<1>1. /\ thread[s].life = "none" /\ session' # s
      /\ \A r \in Channel(s)' : r \in Channel(s)
  BY Traffic
<1>2. QED
  BY <1>1 DEF Unborn

LEMMA WaitsKept ==
  ASSUME TypeOK, Waits, [Next]_vars
  PROVE  Waits'
<1> USE ClientAssumption DEF ClientAssumption
<1>a. /\ asked \in [Callers -> Calls] /\ at \in [Callers -> {"idle", "sending", "waiting"}]
      /\ queue \in Seq(Calls)
      /\ \A i \in DOMAIN queue : queue[i] \in Calls /\ queue[i].by \in Callers
      /\ HasCurrent => current \in Calls /\ current.by \in Callers
  <2>1. HasCurrent => current \in Calls
    BY DEF TypeOK, HasCurrent
  <2>2. \A call \in Calls : call.by \in Callers
    BY DEF Calls
  <2>3. queue \in Seq(Calls) /\ \A i \in DOMAIN queue : queue[i] \in Calls
    BY DEF TypeOK
  <2>4. QED
    BY <2>1, <2>2, <2>3 DEF TypeOK
<1>b. queue # <<>> =>
        /\ Head(queue) = queue[1] /\ 1 \in DOMAIN queue
        /\ Tail(queue) \in Seq(Calls)
        /\ \A i \in DOMAIN Tail(queue) :
             i + 1 \in DOMAIN queue /\ i + 1 # 1 /\ Tail(queue)[i] = queue[i + 1]
        /\ \A i, j \in DOMAIN Tail(queue) : i + 1 = j + 1 => i = j
  BY <1>a
\* A caller that waits for nothing makes a call.
<1>c. ASSUME NEW c \in Callers, NEW call \in Calls, call.by = c, Makes(c, call),
             at' \in {[at EXCEPT ![c] = "sending"], [at EXCEPT ![c] = "waiting"]}
      PROVE  /\ \A d \in Callers : asked'[d].by = d
             /\ \A other \in Calls : Waiting(other) =>
                  Waiting(other)' /\ other.by # c
  BY <1>a, <1>c DEF Makes, Waiting, Waits, Calls
<1>1. ASSUME NEW u \in Users, Call(u) PROVE Waits'
  <2>1. PICK kind \in {"read", "once", "inspect"} :
          Makes(u, [NoCall(u) EXCEPT !.id = made', !.kind = kind])
    BY <1>1 DEF Call
  <2> DEFINE call == [NoCall(u) EXCEPT !.id = made', !.kind = kind]
  <2>2. call \in Calls /\ call.by = u /\ u \in Callers
    <3>1. made' \in Nat /\ u \in Callers /\ kind \in Kinds
      BY <2>1 DEF Makes, Kinds, Callers, TypeOK
    <3>2. QED
      BY <3>1 DEF NoCall, Calls, Kinds
  <2>3. /\ \A d \in Callers : asked'[d].by = d
        /\ \A other \in Calls : Waiting(other) => Waiting(other)'
    BY <1>1, <1>c, <2>1, <2>2 DEF Call
  <2>4. UNCHANGED <<queue, doing, current>>
    BY <1>1 DEF Call, actor
  <2>5. QED
    BY <1>a, <2>3, <2>4 DEF Waits, HasCurrent
<1>2. ASSUME NEW u \in Users, ForceTerminate(u) PROVE Waits'
  <2> DEFINE call == [NoCall(u) EXCEPT !.id = made', !.kind = "force",
                                       !.epoch = token.epoch, !.issuer = token.issuer]
  <2>1. Makes(u, call)
    BY <1>2 DEF ForceTerminate
  <2>2. call \in Calls /\ call.by = u /\ u \in Callers
    <3>1. made' \in Nat /\ u \in Callers /\ token # None
      BY <1>2, <2>1 DEF ForceTerminate, Makes, Callers, TypeOK
    <3>2. QED
      BY <3>1, NewConfirmation
  <2>3. /\ \A d \in Callers : asked'[d].by = d
        /\ \A other \in Calls : Waiting(other) => Waiting(other)'
    BY <1>2, <1>c, <2>1, <2>2 DEF ForceTerminate
  <2>4. UNCHANGED <<queue, doing, current>>
    BY <1>2 DEF ForceTerminate, actor
  <2>5. QED
    BY <1>a, <2>3, <2>4 DEF Waits, HasCurrent
\* A call that joins the queue is of somebody who has no other there.
<1>d. ASSUME NEW c \in Callers, asked'[c] \in Calls, at'[c] = "waiting",
             queue' = Append(queue, asked'[c]), \A d \in Callers : asked'[d].by = d,
             \A other \in Calls : Waiting(other) => Waiting(other)' /\ other.by # c,
             UNCHANGED <<doing, current>>
      PROVE  Waits'
  <2>1. /\ DOMAIN queue' = 1..(Len(queue) + 1) /\ DOMAIN queue = 1..Len(queue)
        /\ Len(queue) \in Nat
        /\ \A i \in DOMAIN queue : queue'[i] = queue[i]
        /\ queue'[Len(queue) + 1] = asked'[c]
    BY <1>a, <1>d
  <2>2. asked'[c].by = c
    BY <1>d
  <2>3. \A i \in DOMAIN queue' :
          \/ i \in DOMAIN queue /\ queue'[i] = queue[i] /\ queue[i].by # c
          \/ i = Len(queue) + 1 /\ queue'[i] = asked'[c]
    BY <1>a, <1>d, <2>1 DEF Waits
  <2>4. HasCurrent' => Waiting(current)' /\ current.by # c /\ HasCurrent
    BY <1>a, <1>d DEF Waits, HasCurrent
  <2>5. \A i \in DOMAIN queue' : HasCurrent' => queue'[i].by # current'.by
    BY <1>a, <1>d, <2>2, <2>3, <2>4 DEF Waits
  <2>6. \A i \in DOMAIN queue' : Waiting(queue[i])'
    <3>1. \A i \in DOMAIN queue : at'[queue[i].by] = "waiting" /\ asked'[queue[i].by] = queue[i]
      BY <1>a, <1>d DEF Waits, Waiting
    <3>2. QED
      BY <1>d, <2>2, <2>3, <3>1 DEF Waiting
  <2>7. \A i, j \in DOMAIN queue' : queue'[i].by = queue'[j].by => i = j
    BY <2>2, <2>3 DEF Waits
  <2>8. QED
    BY <1>d, <2>4, <2>5, <2>6, <2>7 DEF Waits, Waiting
<1>3. ASSUME NEW u \in Users, Send(u) PROVE Waits'
  <2>1. /\ u \in Callers /\ at' = [at EXCEPT ![u] = "waiting"] /\ asked' = asked
        /\ at[u] = "sending" /\ queue' = Append(queue, asked'[u])
        /\ UNCHANGED <<doing, current>>
    BY <1>3 DEF Send, Callers, actor
  <2>2. \A other \in Calls : Waiting(other) => Waiting(other)' /\ other.by # u
    BY <1>a, <2>1 DEF Waiting, Calls
  <2>3. QED
    BY <1>a, <1>d, <2>1, <2>2 DEF Waits
<1>4. CASE Poll
  <2> DEFINE call == [NoCall(Poller) EXCEPT !.id = made']
  <2>1. /\ Poller \in Callers /\ Makes(Poller, call)
        /\ at' = [at EXCEPT ![Poller] = "waiting"]
        /\ queue' = Append(queue, asked'[Poller])
        /\ UNCHANGED <<doing, current>>
    BY <1>4 DEF Poll, Callers, actor
  <2>2. call \in Calls /\ call.by = Poller
    <3>1. made' \in Nat
      BY <2>1 DEF Makes, TypeOK
    <3>2. QED
      BY <2>1, <3>1, NewPoll
  <2>3. asked'[Poller] \in Calls /\ at'[Poller] = "waiting"
    BY <1>a, <2>1, <2>2 DEF Makes
  <2>4. /\ \A d \in Callers : asked'[d].by = d
        /\ \A other \in Calls : Waiting(other) => Waiting(other)' /\ other.by # Poller
    BY <1>c, <2>1, <2>2
  <2>5. QED
    BY <1>d, <2>1, <2>3, <2>4
<1>5. CASE Take
  <2>1. /\ doing = "idle" /\ queue # <<>> /\ queue' = Tail(queue)
        /\ current' = queue[1] /\ doing' = "asking" /\ UNCHANGED <<asked, at>>
    BY <1>5, <1>b DEF Take, clients
  <2>2. \A i \in DOMAIN queue' : Waiting(queue[i])' /\ queue'[i].by # current'.by
    BY <1>a, <1>b, <2>1 DEF Waits, Waiting
  <2>3. QED
    BY <1>a, <1>b, <2>1, <2>2 DEF Waits, Waiting, HasCurrent
<1>6. CASE TakeUnexpected
  <2>1. /\ doing = "idle" /\ queue # <<>> /\ queue' = Tail(queue)
        /\ at' = [at EXCEPT ![queue[1].by] = "idle"]
        /\ UNCHANGED <<asked, doing, current>>
    BY <1>6, <1>b DEF TakeUnexpected, actor
  <2>2. ~ HasCurrent'
    BY <2>1 DEF Waits, HasCurrent
  <2>3. \A i \in DOMAIN queue' : Waiting(queue[i])'
    BY <1>a, <1>b, <2>1 DEF Waits, Waiting
  <2>4. QED
    BY <1>b, <2>1, <2>2, <2>3 DEF Waits
\* The reply ends the present call; nobody else's is touched.
<1>e. ASSUME NEW reply, HasCurrent, Tell(reply) PROVE Waits'
  <2>1. /\ at' = [at EXCEPT ![current.by] = "idle"]
        /\ doing' = "idle" /\ current' = None /\ UNCHANGED <<asked, queue>>
    BY <1>e DEF Tell
  <2>2. \A i \in DOMAIN queue' : Waiting(queue[i])'
    BY <1>a, <1>e, <2>1 DEF Waits, Waiting
  <2>3. QED
    BY <2>1, <2>2 DEF Waits, HasCurrent
\* The actor goes on with what it works on.
<1>f. ASSUME UNCHANGED <<asked, at, queue, current>>, doing' = "idle" => current = None,
             HasCurrent' => HasCurrent
      PROVE  Waits'
  BY <1>f DEF Waits, Waiting
<1>7. CASE Answer \/ Fail
  BY <1>7, <1>e DEF Answer, Fail, HasCurrent
<1>8. CASE NoSession
  <2>1. CASE current = None
    <3>1. UNCHANGED <<asked, at, queue, current>> /\ doing' = "idle"
      BY <1>8, <2>1 DEF NoSession, clients
    <3>2. QED
      BY <1>f, <2>1, <3>1 DEF HasCurrent
  <2>2. CASE current # None
    BY <1>8, <1>e, <2>2 DEF NoSession, HasCurrent
  <2>3. QED
    BY <2>1, <2>2
<1>9. CASE Recover \/ Spawn
  BY <1>9, <1>f DEF Recover, Spawn, HasCurrent, clients
<1>10. CASE Handshaken
  <2>1. CASE current = None
    BY <1>10, <1>f, <2>1 DEF Handshaken, HasCurrent, clients
  <2>2. CASE current # None
    BY <1>10, <1>f, <2>2 DEF Handshaken, HasCurrent, clients
  <2>3. QED
    BY <2>1, <2>2
<1>g. ASSUME Resume(nextId'), HasCurrent PROVE Waits'
  <2>1. CASE NotReplayed(current)
    BY <1>e, <1>g, <2>1 DEF Resume
  <2>2. CASE ~ NotReplayed(current)
    BY <1>f, <1>g, <2>2 DEF Resume, clients
  <2>3. QED
    BY <2>1, <2>2
<1>11. CASE StatusRead
  <2>1. CASE Resume(nextId')
    BY <1>11, <1>g, <2>1 DEF StatusRead, HasCurrent
  <2>2. CASE /\ doing' = "start"
             /\ UNCHANGED <<clients, queue, current, epoch, ran, made, left>>
    BY <1>11, <1>f, <2>2 DEF StatusRead, HasCurrent, clients
  <2>3. QED
    BY <1>11, <2>1, <2>2 DEF StatusRead
<1>12. CASE Restarted
  BY <1>12, <1>g DEF Restarted, HasCurrent
<1>13. ASSUME UNCHANGED <<asked, at, queue, doing, current>> PROVE Waits'
  BY <1>13, <1>f DEF HasCurrent, Waits
<1>14. CASE \/ \E u \in Users : Expire(u)
            \/ \E s \in Sessions : Thread(s)
            \/ UNCHANGED vars
  BY <1>13, <1>14 DEF Expire, Thread, Serve, Execute, Respond, End, Panic, Becomes,
                      vars, actor, clients
<1>15. QED
  BY <1>1, <1>2, <1>3, <1>4, <1>5, <1>6, <1>7, <1>8, <1>9, <1>10, <1>11, <1>12, <1>14
     DEF Next, Actor

-----------------------------------------------------------------------------
(* Numbers. *)

\* How the actor moves: it takes a call, rejects one, ends one, loses or drops
\* its session, makes one, is greeted by it, starts the router, asks again.
Stays == UNCHANGED <<session, epoch>>
Takes == /\ doing = "idle" /\ doing' = "asking" /\ current' = Head(queue)
         /\ nextId' = nextId /\ Stays /\ (session # 0 => awaited' = nextId)
Rejects == UNCHANGED <<doing, current, nextId, awaited>> /\ Stays
Finishes == /\ doing \in {"asking", "retry", "status", "start"} /\ doing' = "idle"
            /\ nextId' = nextId + 1 /\ Stays
Loses == /\ doing = "asking" /\ doing' = "spawn" /\ session' = 0 /\ nextId' = nextId + 1
         /\ epoch' = IF session = 0 THEN epoch ELSE epoch + 1
Drops == /\ doing \in {"spawn", "handshake", "status", "start"} /\ doing' = "idle"
         /\ session' = 0 /\ UNCHANGED <<nextId, epoch>>
Spawns == /\ doing = "spawn" /\ doing' = "handshake" /\ nextId' = nextId /\ epoch' = epoch
          /\ session' \in Sessions /\ thread[session'].life = "none"
Greeted == /\ doing = "handshake" /\ doing' \in {"idle", "status"}
           /\ nextId' = nextId /\ Stays
Restarts == doing = "status" /\ doing' = "start" /\ nextId' = nextId + 1 /\ Stays
Repeats == /\ doing \in {"status", "start"} /\ doing' = "retry" /\ current' = current
           /\ nextId' = nextId + 1 /\ awaited' = nextId' /\ Stays
           /\ ~ NotReplayed(current)

LEMMA ActorMoves ==
  ASSUME TypeOK, [Next]_vars
  PROVE  \/ Takes \/ Rejects \/ Finishes \/ Loses \/ Drops \/ Spawns \/ Greeted
         \/ Restarts \/ Repeats
<1>1. CASE Take
  BY <1>1 DEF Take, Takes, Stays
<1>2. CASE TakeUnexpected
  BY <1>2 DEF TakeUnexpected, Rejects, Stays, actor
<1>3. CASE Answer \/ Fail
  BY <1>3 DEF Answer, Fail, Tell, Following, Finishes, Stays
<1>4. CASE Recover
  BY <1>4 DEF Recover, Following, Loses
<1>5. CASE NoSession
  BY <1>5 DEF NoSession, Tell, Drops
<1>6. CASE Spawn
  BY <1>6 DEF Spawn, Spawns
<1>7. CASE Handshaken
  BY <1>7 DEF Handshaken, Greeted, Stays
<1>8. ASSUME StatusRead \/ Restarted, Resume(nextId') PROVE Finishes \/ Repeats
  <2>1. /\ doing \in {"status", "start"} /\ nextId' = nextId + 1 /\ session' = session
    BY <1>8 DEF StatusRead, Restarted, Following
  <2>2. CASE NotReplayed(current)
    BY <1>8, <2>1, <2>2 DEF Resume, Tell, Finishes, Stays
  <2>3. CASE ~ NotReplayed(current)
    BY <1>8, <2>1, <2>3 DEF Resume, Ask, Repeats, Stays
  <2>4. QED
    BY <2>2, <2>3
<1>9. CASE StatusRead
  <2>1. CASE Resume(nextId')
    BY <1>8, <1>9, <2>1
  <2>2. CASE /\ doing' = "start"
             /\ UNCHANGED <<clients, queue, current, epoch, ran, made, left>>
    BY <1>9, <2>2 DEF StatusRead, Following, Restarts, Stays
  <2>3. QED
    BY <1>9, <2>1, <2>2 DEF StatusRead
<1>10. CASE Restarted
  BY <1>8, <1>10 DEF Restarted
<1>11. CASE \/ \E u \in Users : Call(u) \/ ForceTerminate(u) \/ Expire(u) \/ Send(u)
            \/ Poll \/ \E s \in Sessions : Thread(s)
            \/ UNCHANGED vars
  BY <1>11 DEF Call, ForceTerminate, Expire, Send, Poll, Thread, Serve, Execute, Respond,
               End, Panic, Becomes, actor, vars, Rejects, Stays
<1>12. QED
  BY <1>1, <1>2, <1>3, <1>4, <1>5, <1>6, <1>7, <1>9, <1>10, <1>11 DEF Next, Actor

\* What is sent at each of these moves.
LEMMA SendsWhat ==
  ASSUME TypeOK, NEW r, Sends(r)
  PROVE  \/ /\ Take /\ Takes /\ session # 0
            /\ r = [id |-> nextId, call |-> Head(queue)]
         \/ /\ Spawns /\ r = [id |-> 0, call |-> Own("info")]
         \/ /\ Greeted /\ doing' = "status" /\ r = [id |-> nextId, call |-> Own("status")]
         \/ /\ Restarts /\ r = [id |-> nextId + 1, call |-> Own("start")]
         \/ /\ Repeats /\ r = [id |-> nextId + 1, call |-> current]
<1>1. Take => Takes
  BY DEF Take, Takes, Stays
<1>2. Spawn => Spawns
  BY DEF Spawn, Spawns
<1>3. Handshaken /\ current # None => Greeted /\ doing' = "status"
  BY DEF Handshaken, Greeted, Stays
<1>4. StatusRead /\ doing' = "start" => Restarts
  BY DEF StatusRead, Following, Restarts, Stays, Resume, Tell
<1>5. (StatusRead \/ Restarted) /\ doing' = "retry" /\ ~ NotReplayed(current) => Repeats
  <2> SUFFICES ASSUME StatusRead \/ Restarted, doing' = "retry", ~ NotReplayed(current)
               PROVE  Repeats
    OBVIOUS
  <2>1. /\ doing \in {"status", "start"} /\ nextId' = nextId + 1 /\ session' = session
        /\ Resume(nextId')
    BY DEF StatusRead, Restarted, Following
  <2>2. QED
    BY <2>1 DEF Resume, Ask, Repeats, Stays
<1>6. QED
  BY <1>1, <1>2, <1>3, <1>4, <1>5 DEF Sends

LEMMA ChannelTyped ==
  ASSUME TypeOK, NEW s \in Sessions
  PROVE  /\ Channel(s) \subseteq Requests /\ Ahead(s) \subseteq Channel(s)
         /\ \A r \in Channel(s) : r.id \in Nat /\ r.call \in Calls \union OwnCalls
<1>1. thread[s] \in Threads
  BY DEF TypeOK, Threads
<1>2. /\ thread[s].requests \in Seq(Requests) /\ thread[s].events \in Seq(Requests)
      /\ thread[s].busy \in Requests \union {None}
  BY <1>1 DEF Threads
<1>3. Channel(s) \subseteq Requests
  BY <1>2, Inside DEF Channel, Ahead
<1>4. QED
  BY <1>3 DEF Channel, Requests

LEMMA NumberedKept ==
  ASSUME TypeOK, Unborn, Numbered, [Next]_vars
  PROVE  Numbered'
<1>a. nextId \in Nat
  BY DEF TypeOK
<1>1. /\ nextId' > 0
      /\ doing' = "spawn" => session' = 0
      /\ session' # 0 /\ doing' \in {"asking", "retry"} => awaited' = nextId'
  BY <1>a, ActorMoves DEF Numbered, Takes, Rejects, Finishes, Loses, Drops, Spawns, Greeted,
                          Restarts, Repeats, Stays
<1>2. ASSUME NEW s \in Sessions, s = session', NEW r \in Channel(s)'
      PROVE  /\ r.id <= nextId'
             /\ doing' \in {"idle", "handshake"} => r.id < nextId'
             /\ doing' \in {"asking", "retry"} /\ r.id = nextId' => r.call = current'
  <2>1. CASE r \in Channel(s)
    <3>1. r.id \in Nat
      BY <2>1, ChannelTyped
    <3>2. s = session
      <4>1. ~ Spawns
        BY <1>2, <2>1 DEF Spawns, Unborn
      <4>2. session' # 0
        BY <1>2 DEF Sessions
      <4>3. QED
        BY <1>2, <4>1, <4>2, ActorMoves
           DEF Takes, Rejects, Finishes, Loses, Drops, Greeted, Restarts, Repeats, Stays
    <3>3. /\ r.id <= nextId
          /\ doing \in {"idle", "handshake"} => r.id < nextId
          /\ doing \in {"asking", "retry"} /\ r.id = nextId => r.call = current
      BY <2>1, <3>2 DEF Numbered
    <3>4. ~ Spawns /\ ~ Loses /\ ~ Drops
      BY <1>2, <2>1 DEF Spawns, Loses, Drops, Sessions, Unborn
    <3>5. QED
      BY <1>a, <3>1, <3>3, <3>4, ActorMoves
         DEF Takes, Rejects, Finishes, Greeted, Restarts, Repeats, Stays
  <2>2. CASE Sends(r)
    <3>1. nextId > 0
      BY DEF Numbered
    <3>2. CASE Takes /\ r = [id |-> nextId, call |-> Head(queue)]
      BY <1>a, <3>2 DEF Takes
    <3>3. CASE Spawns /\ r = [id |-> 0, call |-> Own("info")]
      BY <1>a, <3>1, <3>3 DEF Spawns
    <3>4. CASE Greeted /\ doing' = "status" /\ r = [id |-> nextId, call |-> Own("status")]
      BY <1>a, <3>4 DEF Greeted
    <3>5. CASE Restarts /\ r = [id |-> nextId + 1, call |-> Own("start")]
      BY <1>a, <3>5 DEF Restarts
    <3>6. CASE Repeats /\ r = [id |-> nextId + 1, call |-> current]
      BY <1>a, <3>6 DEF Repeats
    <3>7. QED
      BY <2>2, <3>2, <3>3, <3>4, <3>5, <3>6, SendsWhat
  <2>3. QED
    BY <1>2, <2>1, <2>2, Traffic
<1>3. QED
  BY <1>1, <1>2 DEF Numbered

-----------------------------------------------------------------------------
(* What sessions were given. *)

\* The requests a session has to execute or has executed.
Given(s) == Ahead(s) \union {x.request : x \in {y \in ran : y.session = s}}

Known(call) == \E s \in Sessions : \E r \in Given(s) : r.call = call

\* A call that has not been sent is known to no session, and one that must not be
\* replayed was given to one session, with one request.
Unique ==
  /\ \A s \in Sessions : \A r \in Given(s) : r.call.id <= made
  /\ \A c \in Callers : asked[c].id <= made
  /\ \A i \in DOMAIN queue : ~ Known(queue[i])
  /\ \A c \in Callers : at[c] = "sending" => ~ Known(asked[c])
  /\ \A s, t \in Sessions : \A r \in Given(s), q \in Given(t) :
       r.call = q.call /\ r.call.kind \in {"once", "force"} => r = q /\ s = t

LEMMA GivenTyped ==
  ASSUME TypeOK, NEW s \in Sessions, NEW r \in Given(s)
  PROVE  r \in Requests /\ r.call \in Calls \union OwnCalls /\ r.call.id \in Nat
<1>1. Ahead(s) \subseteq Requests
  BY ChannelTyped
<1>2. r \in Requests
  BY <1>1 DEF Given, TypeOK
<1>3. QED
  BY <1>2 DEF Requests, Calls, OwnCalls, Own

LEMMA GivenGrows ==
  ASSUME TypeOK, Unborn, [Next]_vars, NEW s \in Sessions, NEW r \in Given(s)'
  PROVE  r \in Given(s) \/ (s = session' /\ Sends(r))
<1>1. CASE r \in Ahead(s)'
  BY <1>1, Traffic DEF Given
<1>2. CASE r \notin Ahead(s)'
  <2>1. PICK x \in ran' : x.session = s /\ r = x.request
    BY <1>2 DEF Given
  <2>2. CASE x \in ran
    BY <2>1, <2>2 DEF Given
  <2>3. CASE x \notin ran
    <3>1. PICK t \in Sessions : Execute(t)
      BY <2>3 DEF Next, vars, Call, ForceTerminate, Expire, Send, Poll, Actor, Take,
                  TakeUnexpected, Answer, Recover, Fail, Spawn, NoSession, Handshaken,
                  StatusRead, Restarted, Resume, Tell, Thread, Serve, Respond, End, Panic
    <3>2. x = [request |-> thread[t].busy, session |-> t] /\ thread[t].busy # None
      BY <2>1, <2>3, <3>1 DEF Execute
    <3>3. s = t /\ r = thread[s].busy /\ r # None
      BY <2>1, <3>2
    <3>4. QED
      BY <3>3 DEF Given, Ahead
  <2>4. QED
    BY <2>2, <2>3
<1>3. QED
  BY <1>1, <1>2

\* What the sent call can be: the first of the queue, one of the actor's own, or
\* the present one again.
LEMMA SentCall ==
  ASSUME TypeOK, Waits, NEW r, Sends(r)
  PROVE  \/ /\ Take /\ session' = session /\ session # 0
            /\ queue # <<>> /\ r.call = queue[1] /\ r.call \in Calls /\ Waiting(queue[1])
         \/ r.call \in OwnCalls /\ r.call.id = 0 /\ r.call.kind \notin Kinds
         \/ /\ r.call = current /\ r.call \in Calls /\ Waiting(current) /\ HasCurrent
            /\ Repeats /\ r.call.kind \notin {"once", "force"}
<1>a. \A kind \in {"info", "status", "start"} :
        Own(kind) \in OwnCalls /\ Own(kind).id = 0 /\ Own(kind).kind \notin Kinds
  BY DEF OwnCalls, Own, Kinds
<1>1. CASE Take /\ Takes /\ session # 0 /\ r = [id |-> nextId, call |-> Head(queue)]
  <2>1. queue # <<>> /\ queue \in Seq(Calls)
    BY <1>1 DEF Take, TypeOK
  <2>2. Head(queue) = queue[1] /\ queue[1] \in Calls /\ 1 \in DOMAIN queue
    BY <2>1
  <2>3. QED
    BY <1>1, <2>1, <2>2 DEF Takes, Stays, Waits
<1>2. CASE Spawns /\ r = [id |-> 0, call |-> Own("info")]
  BY <1>2, <1>a
<1>3. CASE Greeted /\ r = [id |-> nextId, call |-> Own("status")]
  BY <1>3, <1>a
<1>4. CASE Restarts /\ r = [id |-> nextId + 1, call |-> Own("start")]
  BY <1>4, <1>a
<1>5. CASE Repeats /\ r = [id |-> nextId + 1, call |-> current]
  <2>1. HasCurrent /\ current \in Calls /\ ~ NotReplayed(current)
    BY <1>5 DEF Repeats, HasCurrent, TypeOK
  <2>2. QED
    BY <1>5, <2>1 DEF Waits, NotReplayed
<1>6. QED
  BY <1>1, <1>2, <1>3, <1>4, <1>5, SendsWhat

LEMMA UniqueKept ==
  ASSUME TypeOK, TypeOK', Unborn, Waits, Unique, [Next]_vars
  PROVE  Unique'
<1>a. /\ made \in Nat /\ made' \in Nat /\ made <= made'
      /\ asked \in [Callers -> Calls] /\ asked' \in [Callers -> Calls]
      /\ queue \in Seq(Calls)
      /\ \A call \in Calls : call.id \in Nat /\ call.by \in Callers /\ call.kind \in Kinds
  <2>1. made' \in {made, made + 1}
    BY DEF Next, vars, Call, ForceTerminate, Expire, Send, Poll, Makes, Actor, Take,
           TakeUnexpected, Answer, Recover, Fail, Spawn, NoSession, Handshaken,
           StatusRead, Restarted, Resume, Tell, Thread, Serve, Execute, Respond, End, Panic
  <2>2. QED
    BY SMTT(30), <2>1 DEF TypeOK, Calls
<1>b. \A i \in DOMAIN queue : queue[i] \in Calls
  BY <1>a
\* A call becomes known when it is sent, and the one sent is not waited for by
\* anybody else.
<1>c. ASSUME NEW call \in Calls, Known(call)', ~ Known(call)
      PROVE  \E r : Sends(r) /\ r.call = call
  <2>1. PICK s \in Sessions : \E r \in Given(s)' : r.call = call
    BY <1>c DEF Known
  <2>2. PICK r \in Given(s)' : r.call = call
    BY <2>1
  <2>3. r \notin Given(s)
    BY <1>c, <2>2 DEF Known
  <2>4. QED
    BY <2>2, <2>3, GivenGrows
<1>1. ASSUME NEW s \in Sessions, NEW r \in Given(s)' PROVE r.call.id <= made'
  <2>1. CASE r \in Given(s)
    BY <1>a, <2>1, GivenTyped DEF Unique
  <2>2. CASE Sends(r)
    <3>1. (r.call \in Calls /\ Waiting(r.call)) \/ r.call.id = 0
      BY <2>2, SentCall
    <3>2. r.call \in Calls /\ Waiting(r.call) => r.call.id <= made
      BY <1>a DEF Waiting, Unique
    <3>3. QED
      BY <1>a, <3>1, <3>2
  <2>3. QED
    BY <1>1, <2>1, <2>2, GivenGrows
\* What a call that is made brings: its number is new.
<1>d. \A c \in Callers : asked'[c] = asked[c] \/ (asked'[c].id = made' /\ made' = made + 1)
  <2>1. ASSUME NEW u \in Users, Call(u), NEW c \in Callers
        PROVE  asked'[c] = asked[c] \/ (asked'[c].id = made' /\ made' = made + 1)
    <3>1. PICK kind \in {"read", "once", "inspect"} :
            Makes(u, [NoCall(u) EXCEPT !.id = made', !.kind = kind])
      BY <2>1 DEF Call
    <3>2. QED
      BY <1>a, <2>1, <3>1 DEF Makes, NoCall
  <2>2. ASSUME NEW u \in Users, ForceTerminate(u), NEW c \in Callers
        PROVE  asked'[c] = asked[c] \/ (asked'[c].id = made' /\ made' = made + 1)
    BY <1>a, <2>2 DEF ForceTerminate, Makes, NoCall
  <2>3. ASSUME Poll, NEW c \in Callers
        PROVE  asked'[c] = asked[c] \/ (asked'[c].id = made' /\ made' = made + 1)
    BY <1>a, <2>3 DEF Poll, Makes, NoCall
  <2>4. CASE ~ (Poll \/ \E u \in Users : Call(u) \/ ForceTerminate(u))
    <3>1. asked' = asked
      BY <2>4 DEF Next, vars, Expire, Send, Actor, Take, TakeUnexpected, Answer, Recover, Fail,
                  Spawn, NoSession, Handshaken, StatusRead, Restarted, Resume, Tell, Thread,
                  Serve, Execute, Respond, End, Panic, Becomes, clients
    <3>2. QED
      BY <3>1
  <2>5. QED
    BY <2>1, <2>2, <2>3, <2>4
<1>2. \A c \in Callers : asked'[c].id <= made'
  BY <1>a, <1>d DEF Unique
<1>e. ASSUME NEW call \in Calls, call.id = made + 1 PROVE ~ Known(call)'
  <2> SUFFICES ASSUME NEW s \in Sessions, NEW r \in Given(s)', r.call = call PROVE FALSE
    BY DEF Known
  <2>1. CASE r \in Given(s)
    BY <1>a, <1>e, <2>1, GivenTyped DEF Unique
  <2>2. CASE Sends(r)
    <3>1. (r.call \in Calls /\ Waiting(r.call)) \/ r.call.id = 0
      BY <2>2, SentCall
    <3>2. r.call \in Calls /\ Waiting(r.call) => r.call.id <= made
      BY <1>a DEF Waiting, Unique
    <3>3. QED
      BY <1>a, <1>e, <3>1, <3>2
  <2>3. QED
    BY <2>1, <2>2, GivenGrows
\* A caller that has not sent its call keeps it to itself.
<1>f. ASSUME NEW c \in Callers, at[c] = "sending" PROVE ~ Known(asked[c])'
                                                        \/ asked'[c] # asked[c]
  <2> SUFFICES ASSUME asked'[c] = asked[c], NEW s \in Sessions, NEW r \in Given(s)',
                      r.call = asked[c]
               PROVE  FALSE
    BY DEF Known
  <2>1. asked[c] \in Calls /\ asked[c].by = c /\ ~ Known(asked[c])
    BY <1>a, <1>f DEF Unique, Waits
  <2>2. Sends(r)
    BY <2>1, GivenGrows DEF Known
  <2>3. r.call \in Calls /\ Waiting(r.call)
    BY <1>a, <2>1, <2>2, SentCall
  <2>4. QED
    BY <1>f, <2>1, <2>3 DEF Waiting
<1>3. ASSUME NEW i \in DOMAIN queue' PROVE ~ Known(queue[i])'
  <2>1. \/ queue' = queue
        \/ /\ Take \/ TakeUnexpected
           /\ queue # <<>> /\ queue' = Tail(queue)
        \/ \E u \in Users : Send(u)
        \/ Poll
    BY DEF Next, vars, Call, ForceTerminate, Expire, Actor, Take, TakeUnexpected,
           Answer, Recover, Fail, Spawn, NoSession, Handshaken, StatusRead, Restarted, Resume,
           Tell, Thread, Serve, Execute, Respond, End, Panic, Becomes, clients
  \* Somebody's call that stays in the queue is not the one sent.
  <2>a. ASSUME NEW j \in DOMAIN queue, queue'[i] = queue[j], Take => j # 1
        PROVE  ~ Known(queue[i])'
    <3> SUFFICES ASSUME NEW s \in Sessions, NEW r \in Given(s)', r.call = queue[j]
                 PROVE  FALSE
      BY <2>a DEF Known
    <3>1. queue[j] \in Calls /\ ~ Known(queue[j])
      BY <1>b DEF Unique
    <3>2. Sends(r)
      BY <3>1, GivenGrows DEF Known
    <3>3. CASE Take /\ queue # <<>> /\ r.call = queue[1]
      <4>1. 1 \in DOMAIN queue
        BY <1>a, <3>3
      <4>2. QED
        BY <2>a, <3>3, <4>1 DEF Waits
    <3>4. CASE r.call.kind \notin Kinds
      BY <1>a, <3>1, <3>4
    <3>5. CASE r.call = current /\ HasCurrent
      BY <3>5 DEF Waits
    <3>6. QED
      BY <3>2, <3>3, <3>4, <3>5, SentCall
  <2>2. CASE queue' = queue
    BY <2>2, <2>a DEF Take
  <2>3. CASE queue # <<>> /\ queue' = Tail(queue)
    <3>1. i + 1 \in DOMAIN queue /\ queue'[i] = queue[i + 1] /\ i + 1 # 1
      BY <1>a, <2>3
    <3>2. QED
      BY <2>a, <3>1
  <2>b. ASSUME NEW c \in Callers, queue' = Append(queue, asked'[c]), ~ Known(asked[c])', ~ Take
        PROVE  ~ Known(queue[i])'
    <3>1. (i \in DOMAIN queue /\ queue'[i] = queue[i]) \/ queue'[i] = asked'[c]
      BY <1>a, <2>b
    <3>2. QED
      BY <2>a, <2>b, <3>1 DEF Known
  <2>4. ASSUME NEW u \in Users, Send(u) PROVE ~ Known(queue[i])'
    <3>1. /\ u \in Callers /\ at[u] = "sending" /\ asked' = asked
          /\ queue' = Append(queue, asked'[u]) /\ ~ Take
      BY <2>4 DEF Send, Callers, Take, actor
    <3>2. ~ Known(asked[u])'
      BY <1>f, <3>1
    <3>3. QED
      BY <2>b, <3>1, <3>2
  <2>5. CASE Poll
    <3>1. /\ Poller \in Callers /\ queue' = Append(queue, asked'[Poller]) /\ ~ Take
          /\ asked'[Poller] = [NoCall(Poller) EXCEPT !.id = made'] /\ made' = made + 1
      BY <1>a, <2>5 DEF Poll, Makes, Callers, Take, actor
    <3>2. asked'[Poller].id = made + 1 /\ asked'[Poller] \in Calls
      BY <1>a, <3>1 DEF NoCall
    <3>3. ~ Known(asked[Poller])'
      BY <1>e, <3>2 DEF Known
    <3>4. QED
      BY <2>b, <3>1, <3>3
  <2>6. QED
    BY <2>1, <2>2, <2>3, <2>4, <2>5
<1>4. ASSUME NEW c \in Callers, at'[c] = "sending" PROVE ~ Known(asked[c])'
  <2>1. CASE asked'[c] = asked[c] /\ at[c] = "sending"
    BY <1>f, <2>1
  <2>2. CASE asked'[c].id = made + 1
    BY <1>a, <1>e, <2>2 DEF Known
  <2>3. asked'[c] = asked[c] => at[c] = "sending" \/ asked'[c].id = made + 1
    <3>1. CASE \E u \in Users : Call(u) \/ ForceTerminate(u)
      <4>1. PICK u \in Users : Call(u) \/ ForceTerminate(u)
        BY <3>1
      <4>2. u \in Callers /\ at' = [at EXCEPT ![u] = "sending"]
        BY <4>1 DEF Call, ForceTerminate, Callers
      <4>3. asked'[u].id = made + 1
        <5>1. CASE Call(u)
          <6>1. PICK kind \in {"read", "once", "inspect"} :
                  Makes(u, [NoCall(u) EXCEPT !.id = made', !.kind = kind])
            BY <5>1 DEF Call
          <6>2. QED
            BY <1>a, <4>2, <6>1 DEF Makes, NoCall
        <5>2. CASE ForceTerminate(u)
          BY <1>a, <4>2, <5>2 DEF ForceTerminate, Makes, NoCall
        <5>3. QED
          BY <4>1, <5>1, <5>2
      <4>4. QED
        BY <1>4, <4>2, <4>3 DEF TypeOK
    <3>2. CASE ~ \E u \in Users : Call(u) \/ ForceTerminate(u)
      <4>1. \/ at' = at
            \/ \E d, x : x # "sending" /\ at' = [at EXCEPT ![d] = x]
        BY <3>2 DEF Next, vars, Expire, Send, Poll, Actor, Take, TakeUnexpected, Answer, Recover,
                    Fail, Spawn, NoSession, Handshaken, StatusRead, Restarted, Resume, Tell,
                    Thread, Serve, Execute, Respond, End, Panic, Becomes, clients
      <4>2. QED
        BY <1>4, <4>1 DEF TypeOK
    <3>3. QED
      BY <3>1, <3>2
  <2>4. QED
    BY <1>a, <1>d, <2>1, <2>2, <2>3
<1>5. ASSUME NEW s \in Sessions, NEW t \in Sessions, NEW r \in Given(s)', NEW q \in Given(t)',
             r.call = q.call, r.call.kind \in {"once", "force"}
      PROVE  r = q /\ s = t
  <2>1. /\ r \in Given(s) \/ (s = session' /\ Sends(r))
        /\ q \in Given(t) \/ (t = session' /\ Sends(q))
    BY GivenGrows
  <2>2. CASE r \in Given(s) /\ q \in Given(t)
    BY <1>5, <2>2 DEF Unique
  \* Only a call taken from the queue is sent, and it was not known.
  <2>3. ASSUME NEW x, Sends(x), x.call = r.call
        PROVE  /\ Take /\ ~ Known(r.call) /\ x = [id |-> nextId, call |-> Head(queue)]
    <3>1. Take /\ queue # <<>> /\ x.call = queue[1]
      BY <1>5, <2>3, SentCall DEF Kinds
    <3>2. 1 \in DOMAIN queue
      BY <1>a, <3>1
    <3>3. x = [id |-> nextId, call |-> Head(queue)]
      BY <2>3, <3>1, SendsWhat DEF Take, Spawns, Greeted, Restarts, Repeats
    <3>4. QED
      BY <2>3, <3>1, <3>2, <3>3 DEF Unique
  <2>4. CASE Sends(r) /\ Sends(q) /\ s = session' /\ t = session'
    BY <1>5, <2>3, <2>4
  <2>5. CASE Sends(r) /\ q \in Given(t)
    BY <1>5, <2>3, <2>5 DEF Known
  <2>6. CASE Sends(q) /\ r \in Given(s)
    BY <1>5, <2>3, <2>6 DEF Known
  <2>7. QED
    BY <2>1, <2>2, <2>4, <2>5, <2>6
<1>6. QED
  BY <1>1, <1>2, <1>3, <1>4, <1>5 DEF Unique

-----------------------------------------------------------------------------
(* Confirmations. *)

\* A confirmation of the present epoch is the present session's, which is in
\* use; the others are too old to be accepted.
Valid(e, issuer) ==
  /\ e \in Nat /\ e <= epoch
  /\ e = epoch => /\ session = issuer /\ issuer # 0
                  /\ doing \in {"idle", "asking", "retry"}

Confirmed ==
  /\ token # None => Valid(token.epoch, token.issuer)
  /\ \A c \in Callers : asked[c].kind = "force" => Valid(asked[c].epoch, asked[c].issuer)
  /\ \A s \in Sessions : \A r \in Given(s) : r.call.kind = "force" => r.call.issuer = s

LEMMA ValidKept ==
  ASSUME TypeOK, [Next]_vars, NEW e, NEW issuer, Valid(e, issuer)
  PROVE  Valid(e, issuer)'
<1>1. e \in Nat /\ epoch \in Nat /\ e <= epoch
  BY DEF Valid, TypeOK
<1>2. CASE e = epoch
  <2>1. session = issuer /\ issuer # 0 /\ doing \in {"idle", "asking", "retry"}
    BY <1>2 DEF Valid
  <2>2. CASE Loses
    BY <1>1, <1>2, <2>1, <2>2 DEF Loses, Valid
  <2>3. CASE ~ Loses
    BY <1>1, <1>2, <2>1, <2>3, ActorMoves
       DEF Takes, Rejects, Finishes, Drops, Spawns, Greeted, Restarts, Repeats, Stays, Valid
  <2>4. QED
    BY <2>2, <2>3
<1>3. CASE e # epoch
  <2>1. epoch' \in {epoch, epoch + 1}
    BY ActorMoves
       DEF Takes, Rejects, Finishes, Loses, Drops, Spawns, Greeted, Restarts, Repeats, Stays
  <2>2. QED
    BY <1>1, <1>3, <2>1 DEF Valid
<1>4. QED
  BY <1>2, <1>3

LEMMA ConfirmedKept ==
  ASSUME TypeOK, TypeOK', Unborn, Waits, Confirmed, [Next]_vars
  PROVE  Confirmed'
<1> USE ClientAssumption DEF ClientAssumption
<1>a. asked \in [Callers -> Calls] /\ asked' \in [Callers -> Calls]
  BY DEF TypeOK
<1>1. ASSUME token' # None PROVE Valid(token.epoch, token.issuer)'
  <2>1. CASE token' = token
    BY <1>1, <2>1, ValidKept DEF Confirmed, Valid
  <2>2. CASE Answer
    <3>1. session # 0 /\ epoch \in Nat /\ doing' = "idle"
          /\ session' = session /\ epoch' = epoch
      BY <2>2 DEF Answer, Answered, Arrived, Tell, TypeOK
    <3>2. token' = token \/ token' = [epoch |-> epoch, issuer |-> session]
      BY <2>2 DEF Answer
    <3>3. CASE token' = [epoch |-> epoch, issuer |-> session]
      BY <3>1, <3>3 DEF Valid
    <3>4. QED
      BY <2>1, <3>2, <3>3
  <2>3. CASE token' # token /\ ~ Answer
    <3>1. token' = None
      BY <2>3 DEF Next, vars, Call, ForceTerminate, Expire, Send, Poll, Actor, Take,
                  TakeUnexpected, Recover, Fail, Spawn, NoSession, Handshaken, StatusRead,
                  Restarted, Resume, Tell, Thread, Serve, Execute, Respond, End, Panic,
                  Becomes, clients
    <3>2. QED
      BY <1>1, <3>1
  <2>4. QED
    BY <2>1, <2>2, <2>3
<1>2. ASSUME NEW c \in Callers, asked'[c].kind = "force"
      PROVE  Valid(asked[c].epoch, asked[c].issuer)'
  <2>1. CASE asked'[c] = asked[c]
    <3>1. Valid(asked[c].epoch, asked[c].issuer)
      BY <1>2, <2>1 DEF Confirmed
    <3>2. QED
      BY <2>1, <3>1, ValidKept DEF Valid
  <2>2. ASSUME NEW u \in Users, ForceTerminate(u)
        PROVE  Valid(asked[c].epoch, asked[c].issuer)'
    <3> DEFINE call == [NoCall(u) EXCEPT !.id = made', !.kind = "force",
                                         !.epoch = token.epoch, !.issuer = token.issuer]
    <3>1. /\ token # None /\ u \in Callers /\ made' \in Nat
          /\ asked' = [asked EXCEPT ![u] = call]
      BY <2>2 DEF ForceTerminate, Makes, Callers, TypeOK
    <3>2. call.epoch = token.epoch /\ call.issuer = token.issuer
      BY DEF NoCall
    <3> HIDE DEF call
    <3>3. Valid(call.epoch, call.issuer)
      BY <3>1, <3>2 DEF Confirmed
    <3>4. CASE c = u
      <4>1. asked'[c] = call
        BY <1>a, <3>1, <3>4
      <4>2. QED
        BY <3>3, <4>1, ValidKept DEF Valid
    <3>5. CASE c # u
      BY <1>a, <2>1, <3>1, <3>5
    <3>6. QED
      BY <3>4, <3>5
  <2>3. ASSUME NEW u \in Users, Call(u) PROVE asked'[c] = asked[c]
    <3>1. PICK kind \in {"read", "once", "inspect"} :
            Makes(u, [NoCall(u) EXCEPT !.id = made', !.kind = kind])
      BY <2>3 DEF Call
    <3>2. CASE c = u
      <4>1. asked'[c].kind = kind
        BY <1>a, <3>1, <3>2 DEF Makes, NoCall
      <4>2. QED
        BY <1>2, <4>1
    <3>3. CASE c # u
      BY <1>a, <3>1, <3>3 DEF Makes
    <3>4. QED
      BY <3>2, <3>3
  <2>4. ASSUME Poll PROVE asked'[c] = asked[c]
    BY <1>a, <1>2, <2>4 DEF Poll, Makes, NoCall
  <2>5. CASE ~ (Poll \/ \E u \in Users : Call(u) \/ ForceTerminate(u))
    <3>1. asked' = asked
      BY <2>5 DEF Next, vars, Expire, Send, Actor, Take, TakeUnexpected, Answer, Recover, Fail,
                  Spawn, NoSession, Handshaken, StatusRead, Restarted, Resume, Tell, Thread,
                  Serve, Execute, Respond, End, Panic, Becomes, clients
    <3>2. QED
      BY <2>1, <3>1
  <2>6. QED
    BY <2>1, <2>2, <2>3, <2>4, <2>5
<1>3. ASSUME NEW s \in Sessions, NEW r \in Given(s)', r.call.kind = "force"
      PROVE  r.call.issuer = s
  <2>1. CASE r \in Given(s)
    BY <1>3, <2>1 DEF Confirmed
  <2>2. CASE s = session' /\ Sends(r)
    <3>1. /\ Take /\ session' = session /\ queue # <<>>
          /\ r.call = queue[1] /\ r.call \in Calls /\ Waiting(queue[1])
      BY <1>3, <2>2, SentCall DEF Kinds
    <3>2. r.call.epoch \in {None, epoch} /\ r.call.by \in Callers
      BY <3>1 DEF Take, Unexpected, Calls
    <3>3. Valid(r.call.epoch, r.call.issuer)
      BY <1>3, <3>1, <3>2 DEF Waiting, Confirmed
    <3>4. r.call.epoch = epoch
      BY <3>2, <3>3 DEF Valid
    <3>5. QED
      BY <2>2, <3>1, <3>3, <3>4 DEF Valid
  <2>3. QED
    BY <2>1, <2>2, GivenGrows
<1>4. QED
  BY <1>1, <1>2, <1>3 DEF Confirmed

-----------------------------------------------------------------------------
(* Answers. *)

LEMMA OwnAnswerKept ==
  ASSUME TypeOK, Waits, Numbered, OwnAnswer, [Next]_vars
  PROVE  OwnAnswer'
<1>a. asked \in [Callers -> Calls] /\ got \in [Callers -> Replies]
  BY DEF TypeOK
<1> SUFFICES ASSUME NEW c \in Callers, got'[c].what = "answer"
             PROVE  got'[c].of = asked'[c].id
  BY DEF OwnAnswer
<1>1. CASE got'[c] = got[c] /\ asked'[c] = asked[c]
  BY <1>1 DEF OwnAnswer
<1>b. ASSUME NEW d \in Callers, NEW call, Makes(d, call) PROVE c # d
  BY <1>a, <1>b DEF Makes, Reply
<1>2. CASE Poll \/ \E u \in Users : Call(u) \/ ForceTerminate(u)
  <2>1. PICK d \in Callers : \E call : Makes(d, call)
    BY <1>2 DEF Poll, Call, ForceTerminate, Callers
  <2>2. c # d
    BY <1>b, <2>1
  <2>3. got'[c] = got[c] /\ asked'[c] = asked[c]
    BY <1>a, <2>1, <2>2 DEF Makes
  <2>4. QED
    BY <1>1, <2>3
\* A reply that is no answer cannot be the one told.
<1>c. ASSUME NEW reply, reply.what # "answer", NEW d \in Callers,
             got' = [got EXCEPT ![d] = reply], asked' = asked
      PROVE  got'[c].of = asked'[c].id
  BY <1>1, <1>a, <1>c
<1>3. CASE Answer
  <2>1. /\ doing \in {"asking", "retry"} /\ session \in Sessions
        /\ Event \in Channel(session) /\ Event.id = awaited
        /\ current \in Calls /\ current.by \in Callers /\ Waiting(current)
    BY <1>3, AnsweredTyped DEF Answer, Channel, TypeOK, Waits, HasCurrent, Calls
  <2>2. session # 0 /\ Event.call = current
    BY <2>1 DEF Numbered, Sessions
  <2>3. /\ got' = [got EXCEPT ![current.by] = Reply("answer", current.id)] /\ asked' = asked
    BY <1>3, <2>2 DEF Answer, Tell
  <2>4. CASE c = current.by
    BY <1>a, <2>1, <2>3, <2>4 DEF Waiting, Reply
  <2>5. CASE c # current.by
    BY <1>1, <1>a, <2>3, <2>5
  <2>6. QED
    BY <2>4, <2>5
<1>4. CASE TakeUnexpected
  <2>1. Head(queue) \in Calls
    BY <1>4, TakenFrom DEF TakeUnexpected, TypeOK
  <2>2. Head(queue).by \in Callers /\ asked' = asked
        /\ got' = [got EXCEPT ![Head(queue).by] = Reply("changed", Head(queue).id)]
    BY <1>4, <2>1 DEF TakeUnexpected, Calls
  <2>3. Reply("changed", Head(queue).id).what # "answer"
    BY DEF Reply
  <2>4. QED
    BY <1>c, <2>2, <2>3
<1>d. ASSUME Tell(Reply("failed", current.id)), current \in Calls
      PROVE  got'[c].of = asked'[c].id
  <2>1. /\ current.by \in Callers /\ asked' = asked
        /\ got' = [got EXCEPT ![current.by] = Reply("failed", current.id)]
    BY <1>d DEF Tell, Calls
  <2>2. Reply("failed", current.id).what # "answer"
    BY DEF Reply
  <2>3. QED
    BY <1>c, <2>1, <2>2
<1>5. CASE Fail
  BY <1>5, <1>d DEF Fail, TypeOK
<1>6. CASE NoSession
  <2>1. current = None \/ current \in Calls
    BY DEF TypeOK
  <2>2. QED
    BY <1>1, <1>6, <1>d, <2>1 DEF NoSession, clients
<1>e. ASSUME Resume(nextId'), current \in Calls PROVE got'[c].of = asked'[c].id
  BY <1>1, <1>d, <1>e DEF Resume, clients
<1>7. CASE StatusRead
  <2>1. current \in Calls
    BY <1>7 DEF StatusRead, TypeOK
  <2>2. QED
    BY <1>1, <1>7, <1>e, <2>1 DEF StatusRead, clients
<1>8. CASE Restarted
  BY <1>8, <1>e DEF Restarted, TypeOK
<1>9. CASE Take \/ Recover \/ Spawn
  BY <1>1, <1>9 DEF Take, Recover, Spawn, clients
<1>10. CASE Handshaken
  BY <1>1, <1>10 DEF Handshaken, clients
<1>11. CASE \/ \E u \in Users : Expire(u) \/ Send(u)
            \/ \E s \in Sessions : Thread(s)
            \/ UNCHANGED vars
  BY <1>1, <1>11 DEF Expire, Send, Thread, Serve, Execute, Respond, End, Panic, Becomes,
                     vars, actor, clients
<1>12. QED
  BY <1>2, <1>3, <1>4, <1>5, <1>6, <1>7, <1>8, <1>9, <1>10, <1>11 DEF Next, Actor

-----------------------------------------------------------------------------
(* The theorems. *)

Inv == Unborn /\ Waits /\ Numbered /\ Unique /\ Confirmed /\ OwnAnswer

LEMMA Invariant == Spec => []Inv
<1>1. Init => Inv
  <2> SUFFICES ASSUME Init PROVE Inv
    OBVIOUS
  <2>1. \A s \in Sessions : /\ thread[s].requests = <<>> /\ thread[s].busy = None
                            /\ thread[s].events = <<>>
    BY DEF Init
  <2>2. \A s \in Sessions : Channel(s) = {} /\ Given(s) = {}
    BY <2>1, Singletons DEF Channel, Given, Ahead, Init
  <2>3. Unborn /\ Numbered
    BY <2>2 DEF Unborn, Numbered, Init, Sessions
  <2>4. Waits /\ OwnAnswer
    BY DEF Waits, HasCurrent, OwnAnswer, Init, NoCall, Reply
  <2>5. Unique
    BY <2>2 DEF Unique, Init, NoCall, Known
  <2>6. Confirmed
    BY <2>2 DEF Confirmed, Init, NoCall
  <2>7. QED
    BY <2>3, <2>4, <2>5, <2>6 DEF Inv
<1>2. TypeOK /\ TypeOK' /\ Inv /\ [Next]_vars => Inv'
  BY UnbornKept, WaitsKept, NumberedKept, UniqueKept, ConfirmedKept, OwnAnswerKept DEF Inv
<1>3. QED
  BY <1>1, <1>2, TypeCorrect, PTL DEF Spec

\* A caller that is told an answer is told that to its own call, however late
\* the answers of other requests come.
THEOREM AnswersAreOwn == Spec => []OwnAnswer
<1>1. Inv => OwnAnswer
  BY DEF Inv
<1>2. QED
  BY <1>1, Invariant, PTL

\* A call that must not be replayed is executed once at most, in all sessions.
THEOREM ExecutedOnce == Spec => []NeverReplayed
<1>1. TypeOK /\ Inv => NeverReplayed
  <2> SUFFICES ASSUME TypeOK, Inv, NEW x \in ran, NEW y \in ran,
                      x.request.call = y.request.call,
                      x.request.call.kind \in {"once", "force"}
               PROVE  x = y
    BY DEF NeverReplayed
  <2>1. /\ x \in [request: Requests, session: Sessions]
        /\ y \in [request: Requests, session: Sessions]
    BY DEF TypeOK
  <2>2. x.request \in Given(x.session) /\ y.request \in Given(y.session)
    BY DEF Given
  <2>3. x.request = y.request /\ x.session = y.session
    BY <2>1, <2>2 DEF Inv, Unique
  <2>4. QED
    BY <2>1, <2>3
<1>2. QED
  BY <1>1, Invariant, TypeCorrect, PTL

\* A confirmation reaches no session but the one that issued it.
THEOREM ForceReachesIssuer == Spec => []ForceInIssuer
<1>1. TypeOK /\ Inv => ForceInIssuer
  <2> SUFFICES ASSUME TypeOK, Inv, NEW x \in ran, x.request.call.kind = "force"
               PROVE  x.session = x.request.call.issuer
    BY DEF ForceInIssuer
  <2>1. x.session \in Sessions /\ x.request \in Given(x.session)
    BY DEF TypeOK, Given
  <2>2. QED
    BY <2>1 DEF Inv, Confirmed
<1>2. QED
  BY <1>1, Invariant, TypeCorrect, PTL

=============================================================================
