---------------------------- MODULE AgentHubProofs ----------------------------
(* Proofs about AgentHub for all agents, connections, requests, channel      *)
(* capacities and bounds.                                                    *)
EXTENDS AgentHub, TLAPS

USE DEF Never, Unset, NoReply, Welcome

\* A request under way has the session hub.Get returned: only a request that
\* found none has none.
UnderWay == {"found", "registered", "waiting"}
HasSession == \A q \in Requests : req[q].pc \in UnderWay => req[q].conn \in Conns

Request == [pc: ReqStates, conn: Conns \cup {NoConn}, id: Nat]

\* Types and the session of each request, which the type of the ids rests on.
Typed == TypeOK /\ HasSession

-----------------------------------------------------------------------------
(* Operators.                                                                *)

\* A channel that takes or drops a frame stays within its capacity.
LEMMA QueuedType ==
  ASSUME TypeOK, NEW c \in Conns, NEW frame \in Nat
  PROVE  Queued(c, frame) \in Seq(Nat) /\ Len(Queued(c, frame)) <= QueueCap
BY HubAssumption DEF Queued, TypeOK

\* Sending on one channel keeps all channels within their capacity.
LEMMA SendType ==
  ASSUME TypeOK, NEW c \in Conns, NEW s \in Seq(Nat), Len(s) <= QueueCap,
         send' = [send EXCEPT ![c] = s]
  PROVE  send' \in [Conns -> Seq(Nat)] /\ \A d \in Conns : Len(send'[d]) <= QueueCap
BY DEF TypeOK

\* What is taken off a channel is a frame, and a shorter channel is left.
LEMMA TailType ==
  ASSUME NEW s \in Seq(Nat), s # <<>>
  PROVE  Head(s) \in Nat /\ Tail(s) \in Seq(Nat) /\ Len(Tail(s)) = Len(s) - 1
OBVIOUS

\* What a step of a request leaves of it: the fields it does not name, and the
\* other requests.
LEMMA StateChange ==
  ASSUME NEW q \in Requests, NEW s \in ReqStates, req \in [Requests -> Request],
         req' = [req EXCEPT ![q].pc = s]
  PROVE  /\ req' \in [Requests -> Request]
         /\ req'[q].pc = s /\ req'[q].conn = req[q].conn /\ req'[q].id = req[q].id
         /\ \A p \in Requests : p # q => req'[p] = req[p]
<1>1. req[q] \in Request
  OBVIOUS
<1>2. [req[q] EXCEPT !.pc = s] \in Request
  BY <1>1 DEF Request
<1>3. req' = [req EXCEPT ![q] = [req[q] EXCEPT !.pc = s]]
  OBVIOUS
<1>4. req'[q].pc = s /\ req'[q].conn = req[q].conn /\ req'[q].id = req[q].id
  BY DEF Request
<1> QED BY <1>2, <1>3, <1>4

\* The same for a step that also gives the request its id.
LEMMA IdChange ==
  ASSUME NEW q \in Requests, NEW s \in ReqStates, NEW i \in Nat,
         req \in [Requests -> Request],
         req' = [req EXCEPT ![q].pc = s, ![q].id = i]
  PROVE  /\ req' \in [Requests -> Request]
         /\ req'[q].pc = s /\ req'[q].conn = req[q].conn /\ req'[q].id = i
         /\ \A p \in Requests : p # q => req'[p] = req[p]
<1>1. req[q] \in Request
  OBVIOUS
<1>2. [req[q] EXCEPT !.pc = s, !.id = i] \in Request
  BY <1>1 DEF Request
<1>3. req' = [req EXCEPT ![q] = [req[q] EXCEPT !.pc = s, !.id = i]]
  OBVIOUS
<1>4. req'[q].pc = s /\ req'[q].conn = req[q].conn /\ req'[q].id = i
  BY DEF Request
<1> QED BY <1>2, <1>3, <1>4

\* Removing a session leaves a map of sessions.
LEMMA RemovedType ==
  ASSUME TypeOK, NEW c \in Conns
  PROVE  Removed(c) \in [Agents -> Conns \cup {NoConn}]
BY DEF Removed, TypeOK

-----------------------------------------------------------------------------
(* Which steps touch what.                                                   *)

\* Requests and waiters change by the steps of requests; only an answer changes
\* a reply besides.
LEMMA RequestSteps ==
  ASSUME [Next]_vars
  PROVE  \/ UNCHANGED <<req, pending, nextId, reply>>
         \/ \E c \in Conns : Answer(c)
         \/ \E q \in Requests : \/ \E a \in Agents : Dispatch(q, a)
                                \/ Register(q) \/ Enqueue(q) \/ EnqueuePanics(q)
                                \/ \E outcome \in {"answered", "failed"} : Return(q, outcome)
<1>1. CASE UNCHANGED vars
  BY <1>1 DEF vars, session
<1>2. ASSUME NEW c \in Conns,
             \/ Connect(c) \/ Drop(c) \/ WriteFrame(c) \/ Hello(c) \/ Reply(c)
             \/ ReportFirst(c) \/ Report(c) \/ Teardown(c)
      PROVE  UNCHANGED <<req, pending, nextId, reply>>
  BY <1>2 DEF Connect, Drop, WriteFrame, Hello, Reply, ReportFirst, Report, Teardown,
              ReadFails, TeardownRemove, TeardownClose, Close, session
<1>3. ASSUME Sweep
      PROVE  UNCHANGED <<req, pending, nextId, reply>>
  BY <1>3 DEF Sweep, SweepStart, SweepSkip, SweepClose, SweepRemove, Close, session
<1>4. ASSUME Tick
      PROVE  UNCHANGED <<req, pending, nextId, reply>>
  BY <1>4 DEF Tick, session
<1>5. ASSUME NEW q \in Requests, Receive(q) \/ Timeout(q)
      PROVE  \E outcome \in {"answered", "failed"} : Return(q, outcome)
  BY <1>5 DEF Receive, Timeout
<1>6. ASSUME Next
      PROVE  \/ UNCHANGED <<req, pending, nextId, reply>>
             \/ \E c \in Conns : Answer(c)
             \/ \E q \in Requests : \/ \E a \in Agents : Dispatch(q, a)
                                    \/ Register(q) \/ Enqueue(q) \/ EnqueuePanics(q)
                                    \/ Receive(q) \/ Timeout(q)
  <2>1. CASE \E c \in Conns : \/ Connect(c) \/ Drop(c) \/ WriteFrame(c) \/ Hello(c)
                              \/ Reply(c) \/ ReportFirst(c) \/ Report(c)
                              \/ Answer(c) \/ Teardown(c)
    BY <2>1, <1>2
  <2>2. CASE \E q \in Requests : Advance(q) \/ \E a \in Agents : Dispatch(q, a)
    BY <2>2 DEF Advance
  <2> QED BY <1>3, <1>4, <1>6, <2>1, <2>2 DEF Next
<1> QED BY <1>1, <1>5, <1>6

\* Frames move by writeLoop, by the answers and by whoever enqueues one.
LEMMA FrameSteps ==
  ASSUME [Next]_vars
  PROVE  \/ UNCHANGED <<send, probes>>
         \/ \E c \in Conns : WriteFrame(c) \/ Reply(c) \/ Answer(c)
         \/ \E q \in Requests : Enqueue(q) \/ EnqueuePanics(q)
<1>1. CASE UNCHANGED vars
  BY <1>1 DEF vars, session
<1>2. ASSUME NEW c \in Conns,
             \/ Connect(c) \/ Drop(c) \/ Hello(c) \/ ReportFirst(c) \/ Report(c) \/ Teardown(c)
      PROVE  UNCHANGED <<send, probes>>
  BY <1>2 DEF Connect, Drop, Hello, ReportFirst, Report, Teardown, ReadFails,
              TeardownRemove, TeardownClose, Close, session
<1>3. ASSUME Sweep \/ Tick
      PROVE  UNCHANGED <<send, probes>>
  BY <1>3 DEF Sweep, SweepStart, SweepSkip, SweepClose, SweepRemove, Close, Tick, session
<1>4. ASSUME NEW q \in Requests, Register(q) \/ Receive(q) \/ Timeout(q)
      PROVE  UNCHANGED <<send, probes>>
  BY <1>4 DEF Register, Receive, Timeout, Return
<1>5. ASSUME NEW q \in Requests, NEW a \in Agents, Dispatch(q, a)
      PROVE  UNCHANGED <<send, probes>>
  BY <1>5 DEF Dispatch, session
<1>6. CASE \E c \in Conns : \/ Connect(c) \/ Drop(c) \/ WriteFrame(c) \/ Hello(c)
                            \/ Reply(c) \/ ReportFirst(c) \/ Report(c)
                            \/ Answer(c) \/ Teardown(c)
  BY <1>2, <1>6
<1>7. CASE \E q \in Requests : Advance(q) \/ \E a \in Agents : Dispatch(q, a)
  BY <1>4, <1>5, <1>7 DEF Advance
<1> QED BY <1>1, <1>3, <1>6, <1>7 DEF Next

\* Register: the next id of its session, and a waiter for it.
LEMMA RegisterEffect ==
  ASSUME Typed, NEW q \in Requests, Register(q)
  PROVE  LET c == req[q].conn
             id == nextId[c] + 1
         IN  /\ c \in Conns /\ id \in Nat
             /\ nextId' = [nextId EXCEPT ![c] = id]
             /\ pending' = [pending EXCEPT ![c] = @ \cup {<<id, q>>}]
             /\ req' \in [Requests -> Request]
             /\ req'[q].pc = "registered" /\ req'[q].conn = c /\ req'[q].id = id
             /\ \A p \in Requests : p # q => req'[p] = req[p]
<1> DEFINE c == req[q].conn
           id == nextId[c] + 1
<1>1. c \in Conns /\ id \in Nat
  BY DEF Register, Typed, HasSession, UnderWay, TypeOK
<1>2. req \in [Requests -> Request]
  BY DEF Typed, TypeOK, Request
<1>3. /\ req' = [req EXCEPT ![q].pc = "registered", ![q].id = id]
      /\ nextId' = [nextId EXCEPT ![c] = id]
      /\ pending' = [pending EXCEPT ![c] = @ \cup {<<id, q>>}]
  BY DEF Register
<1> HIDE DEF id
<1>4. "registered" \in ReqStates
  BY DEF ReqStates
<1>5. /\ req' \in [Requests -> Request]
      /\ req'[q].pc = "registered" /\ req'[q].conn = c /\ req'[q].id = id
      /\ \A p \in Requests : p # q => req'[p] = req[p]
  BY <1>1, <1>2, <1>3, <1>4, IdChange
<1> QED BY <1>1, <1>3, <1>5 DEF id

\* Enqueue: its id goes into the channel of its session, if there is room.
LEMMA EnqueueEffect ==
  ASSUME Typed, NEW q \in Requests, Enqueue(q)
  PROVE  /\ req[q].conn \in Conns /\ req[q].id \in Nat
         /\ req' \in [Requests -> Request]
         /\ req'[q].pc = "waiting" /\ req'[q].conn = req[q].conn /\ req'[q].id = req[q].id
         /\ \A p \in Requests : p # q => req'[p] = req[p]
<1>1. req[q].conn \in Conns /\ req[q].id \in Nat
  BY DEF Enqueue, Typed, HasSession, UnderWay, TypeOK
<1>2. req \in [Requests -> Request]
  BY DEF Typed, TypeOK, Request
<1>3. "waiting" \in ReqStates /\ req' = [req EXCEPT ![q].pc = "waiting"]
  BY DEF ReqStates, Enqueue
<1> QED BY <1>1, <1>2, <1>3, StateChange

-----------------------------------------------------------------------------
(* Types.                                                                    *)

\* Dialling changes a phase and the agent's end.
LEMMA ConnectType ==
  ASSUME TypeOK, NEW c \in Conns, Connect(c)
  PROVE  TypeOK'
BY DEF Connect, TypeOK, Phases

\* An agent that goes changes its end only.
LEMMA DropType ==
  ASSUME TypeOK, NEW c \in Conns, Drop(c)
  PROVE  TypeOK'
BY DEF Drop, TypeOK, session

\* The frame writeLoop takes off the channel goes to the agent's probes.
LEMMA WriteFrameType ==
  ASSUME TypeOK, NEW c \in Conns, WriteFrame(c)
  PROVE  TypeOK'
<1>1. send[c] \in Seq(Nat) /\ send[c] # <<>> /\ Len(send[c]) <= QueueCap
  BY DEF WriteFrame, TypeOK
<1>2. Head(send[c]) \in Nat /\ Tail(send[c]) \in Seq(Nat) /\ Len(Tail(send[c])) <= QueueCap
  BY <1>1, TailType, HubAssumption
<1>3. send' \in [Conns -> Seq(Nat)] /\ \A d \in Conns : Len(send'[d]) <= QueueCap
  BY <1>2, SendType DEF WriteFrame
<1>4. agent' \in [Conns -> {"off", "hello", "ready", "gone"}]
  BY DEF WriteFrame, TypeOK, Handshake
<1>5. probes' \in [Conns -> Seq(Nat)]
  BY <1>2 DEF WriteFrame, TypeOK
<1> QED BY <1>3, <1>4, <1>5 DEF WriteFrame, TypeOK

\* The hello puts a connection into the hub.
LEMMA HelloType ==
  ASSUME TypeOK, NEW c \in Conns, Hello(c)
  PROVE  TypeOK'
BY HubAssumption DEF Hello, TypeOK, Phases

\* The welcome goes through the channel, like every frame.
LEMMA ReplyType ==
  ASSUME TypeOK, NEW c \in Conns, Reply(c)
  PROVE  TypeOK'
<1>1. send[c] \in Seq(Nat) /\ Len(send[c]) <= QueueCap
  BY DEF TypeOK
<1>2. send' \in [Conns -> Seq(Nat)] /\ \A d \in Conns : Len(send'[d]) <= QueueCap
  <2>1. CASE closed[c]
    BY <1>1, <2>1, SendType DEF Reply
  <2>2. CASE ~closed[c]
    BY <2>2, QueuedType, SendType DEF Reply
  <2> QED BY <2>1, <2>2
<1>3. phase' \in [Conns -> Phases]
  BY DEF Reply, TypeOK, Phases
<1> QED BY <1>2, <1>3 DEF Reply, TypeOK

\* A report changes LastSeen only.
LEMMA ReportType ==
  ASSUME TypeOK, NEW c \in Conns, ReportFirst(c) \/ Report(c)
  PROVE  TypeOK'
<1>1. CASE ReportFirst(c)
  BY <1>1 DEF ReportFirst, TypeOK
<1>2. CASE Report(c)
  BY <1>2 DEF Report, TypeOK
<1> QED BY <1>1, <1>2

\* The id an agent answers is one it was sent.
LEMMA AnswerType ==
  ASSUME TypeOK, NEW c \in Conns, Answer(c)
  PROVE  TypeOK'
<1>1. probes[c] \in Seq(Nat) /\ probes[c] # <<>>
  BY DEF Answer, TypeOK
<1>2. Head(probes[c]) \in Nat /\ Tail(probes[c]) \in Seq(Nat)
  BY <1>1, TailType
<1>3. reply' \in [Requests -> Nat]
  BY <1>2 DEF Answer, Deliver, TypeOK
<1> QED BY <1>2, <1>3 DEF Answer, TypeOK, session

\* A read loop that ends removes and closes its session.
LEMMA TeardownType ==
  ASSUME TypeOK, NEW c \in Conns, Teardown(c)
  PROVE  TypeOK'
<1>1. CASE ReadFails(c)
  BY <1>1 DEF ReadFails, TypeOK, Phases
<1>2. CASE TeardownRemove(c)
  BY <1>2, RemovedType DEF TeardownRemove, TypeOK, Phases
<1>3. CASE TeardownClose(c)
  BY <1>3 DEF TeardownClose, Close, TypeOK, Phases
<1> QED BY <1>1, <1>2, <1>3 DEF Teardown

\* What is left of a sweep is a sweep.
LEMMA RestType ==
  ASSUME TypeOK, NEW left \in SUBSET Conns, NEW closing \in Conns \cup {NoConn}
  PROVE  Rest(left, closing) \in [cutoff: Int, left: SUBSET Conns, closing: Conns \cup {NoConn}]
<1>1. NoSweep \in [cutoff: Int, left: SUBSET Conns, closing: Conns \cup {NoConn}]
  BY DEF NoSweep
<1>2. [sweep EXCEPT !.left = left, !.closing = closing]
        \in [cutoff: Int, left: SUBSET Conns, closing: Conns \cup {NoConn}]
  BY DEF TypeOK
<1> QED BY <1>1, <1>2 DEF Rest

\* CleanupStale works on sessions of the hub.
LEMMA SweepType ==
  ASSUME TypeOK, Sweep
  PROVE  TypeOK'
<1>1. CASE SweepStart
  <2>1. {hub[a] : a \in Agents} \ {NoConn} \in SUBSET Conns
    BY DEF TypeOK
  <2>2. Cutoff \in Int
    BY HubAssumption DEF TypeOK, Cutoff
  <2> QED BY <1>1, <2>1, <2>2 DEF SweepStart, TypeOK, session
<1>2. ASSUME NEW c \in Conns, SweepSkip(c)
      PROVE  TypeOK'
  <2>1. sweep.left \ {c} \in SUBSET Conns
    BY DEF TypeOK
  <2>2. sweep' \in [cutoff: Int, left: SUBSET Conns, closing: Conns \cup {NoConn}]
    BY <1>2, <2>1, RestType DEF SweepSkip
  <2> QED BY <1>2, <2>2 DEF SweepSkip, TypeOK, session
<1>3. ASSUME NEW c \in Conns, SweepClose(c)
      PROVE  TypeOK'
  <2>1. sweep.left \ {c} \in SUBSET Conns
    BY DEF TypeOK
  <2>2. sweep' \in [cutoff: Int, left: SUBSET Conns, closing: Conns \cup {NoConn}]
    BY <1>3, <2>1, RestType DEF SweepClose
  <2> QED BY <1>3, <2>2 DEF SweepClose, Close, TypeOK
<1>4. ASSUME NEW c \in Conns, SweepRemove(c)
      PROVE  TypeOK'
  <2>1. sweep.left \in SUBSET Conns
    BY DEF TypeOK
  <2>2. sweep' \in [cutoff: Int, left: SUBSET Conns, closing: Conns \cup {NoConn}]
    BY <1>4, <2>1, RestType DEF SweepRemove
  <2> QED BY <1>4, <2>2, RemovedType DEF SweepRemove, TypeOK, session
<1> QED BY <1>1, <1>2, <1>3, <1>4 DEF Sweep

\* A request takes its session from the hub.
LEMMA DispatchType ==
  ASSUME TypeOK, NEW q \in Requests, NEW a \in Agents, Dispatch(q, a)
  PROVE  TypeOK'
BY DEF Dispatch, TypeOK, session, IdleReq, ReqStates

\* The steps of a request use the channel and the waiters of its session.
LEMMA AdvanceType ==
  ASSUME Typed, NEW q \in Requests, Advance(q)
  PROVE  TypeOK'
<1> USE DEF Typed
<1>1. CASE Register(q)
  <2> DEFINE c == req[q].conn
             id == nextId[c] + 1
  <2>1. c \in Conns /\ id \in Nat
    BY <1>1, RegisterEffect
  <2>2. nextId' \in [Conns -> Nat] /\ pending' \in [Conns -> SUBSET (Nat \X Requests)]
    BY <1>1, <2>1 DEF Register, TypeOK
  <2>3. req' \in [Requests -> Request]
    BY <1>1, RegisterEffect
  <2> QED BY <1>1, <2>2, <2>3 DEF Register, TypeOK, Request
<1>2. CASE Enqueue(q)
  <2>1. req[q].conn \in Conns /\ req[q].id \in Nat /\ req' \in [Requests -> Request]
    BY <1>2, EnqueueEffect
  <2>2. send' \in [Conns -> Seq(Nat)] /\ \A d \in Conns : Len(send'[d]) <= QueueCap
    BY <1>2, <2>1, QueuedType, SendType DEF Enqueue
  <2> QED BY <1>2, <2>1, <2>2 DEF Enqueue, TypeOK, Request
<1>3. CASE EnqueuePanics(q)
  BY <1>3, HubAssumption DEF EnqueuePanics, TypeOK, Phases, ReqStates, IdleReq, NoSweep
<1>4. CASE Receive(q) \/ Timeout(q)
  <2>1. PICK outcome \in {"answered", "failed"} : Return(q, outcome)
    BY <1>4 DEF Receive, Timeout
  <2>2. pending' \in [Conns -> SUBSET (Nat \X Requests)]
    BY <2>1 DEF Return, Unregister, TypeOK
  <2>3. req' \in [Requests -> [pc: ReqStates, conn: Conns \cup {NoConn}, id: Nat]]
    BY <2>1 DEF Return, TypeOK, ReqStates, IdleReq
  <2> QED BY <2>1, <2>2, <2>3 DEF Return, TypeOK
<1> QED BY <1>1, <1>2, <1>3, <1>4 DEF Advance

\* HasSession is kept: only Dispatch gives a request its session, and only
\* when the hub had one.
LEMMA SessionStep ==
  ASSUME Typed, [Next]_vars
  PROVE  HasSession'
<1> USE DEF Typed
<1> SUFFICES ASSUME NEW p \in Requests, req'[p].pc \in UnderWay
             PROVE  req'[p].conn \in Conns
  BY DEF HasSession
<1>1. CASE UNCHANGED req
  BY <1>1 DEF HasSession
<1>2. ASSUME NEW q \in Requests, NEW a \in Agents, Dispatch(q, a)
      PROVE  req'[p].conn \in Conns
  BY <1>2 DEF Dispatch, HasSession, UnderWay, TypeOK, IdleReq
<1>3. ASSUME NEW q \in Requests, Register(q) \/ Enqueue(q)
      PROVE  req'[p].conn \in Conns
  <2>1. req'[q].conn \in Conns /\ \A r \in Requests : r # q => req'[r] = req[r]
    BY <1>3, RegisterEffect, EnqueueEffect
  <2> QED BY <2>1 DEF HasSession
<1>4. ASSUME NEW q \in Requests, EnqueuePanics(q)
      PROVE  req'[p].conn \in Conns
  BY <1>4 DEF EnqueuePanics, UnderWay, IdleReq
<1>5. ASSUME NEW q \in Requests, NEW outcome \in {"answered", "failed"}, Return(q, outcome)
      PROVE  req'[p].conn \in Conns
  BY <1>5 DEF Return, HasSession, UnderWay, TypeOK, IdleReq
<1>6. ASSUME NEW c \in Conns, Answer(c)
      PROVE  req'[p].conn \in Conns
  BY <1>6 DEF Answer, HasSession
<1> QED BY <1>1, <1>2, <1>3, <1>4, <1>5, <1>6, RequestSteps

\* Every step keeps the types.
LEMMA TypeStep ==
  ASSUME Typed, [Next]_vars
  PROVE  TypeOK'
<1> USE DEF Typed
<1>1. CASE UNCHANGED vars
  BY <1>1 DEF vars, session, TypeOK
<1>2. ASSUME NEW c \in Conns,
             \/ Connect(c) \/ Drop(c) \/ WriteFrame(c) \/ Hello(c) \/ Reply(c)
             \/ ReportFirst(c) \/ Report(c) \/ Answer(c) \/ Teardown(c)
      PROVE  TypeOK'
  BY <1>2, ConnectType, DropType, WriteFrameType, HelloType, ReplyType, ReportType,
     AnswerType, TeardownType
<1>3. CASE Tick
  BY <1>3 DEF Tick, TypeOK, session
<1> QED BY <1>1, <1>2, <1>3, SweepType, AdvanceType, DispatchType DEF Next

\* The registry, the channels, the waiters and the requests have their types,
\* and no send channel ever holds more than its capacity.
THEOREM TypeCorrect == Spec => []TypeOK
<1>1. Init => Typed
  BY HubAssumption DEF Init, Typed, TypeOK, HasSession, UnderWay, Phases, ReqStates,
                       IdleReq, NoSweep
<1>2. Typed /\ [Next]_vars => Typed'
  BY TypeStep, SessionStep DEF Typed
<1>3. Typed => TypeOK
  BY DEF Typed
<1> QED BY <1>1, <1>2, <1>3, PTL DEF Spec

-----------------------------------------------------------------------------
(* The registry.                                                             *)

\* Hub and phases change by the hello, by the teardown, by the sweep and when
\* the master dies.
LEMMA RegistrySteps ==
  ASSUME [Next]_vars
  PROVE  \/ UNCHANGED <<hub, phase>>
         \/ \E c \in Conns : \/ Connect(c) \/ Hello(c) \/ Reply(c)
                             \/ ReadFails(c) \/ TeardownRemove(c) \/ TeardownClose(c)
                             \/ SweepRemove(c)
         \/ \E q \in Requests : EnqueuePanics(q)
<1>1. CASE UNCHANGED vars
  BY <1>1 DEF vars, session
<1>2. ASSUME NEW c \in Conns,
             \/ Drop(c) \/ WriteFrame(c) \/ ReportFirst(c) \/ Report(c) \/ Answer(c)
      PROVE  UNCHANGED <<hub, phase>>
  BY <1>2 DEF Drop, WriteFrame, ReportFirst, Report, Answer, session
<1>3. ASSUME NEW c \in Conns, SweepStart \/ SweepSkip(c) \/ SweepClose(c)
      PROVE  UNCHANGED <<hub, phase>>
  BY <1>3 DEF SweepStart, SweepSkip, SweepClose, Close, session
<1>4. ASSUME SweepStart \/ Tick
      PROVE  UNCHANGED <<hub, phase>>
  BY <1>4 DEF SweepStart, Tick, session
<1>5. ASSUME NEW q \in Requests, Register(q) \/ Enqueue(q) \/ Receive(q) \/ Timeout(q)
      PROVE  UNCHANGED <<hub, phase>>
  BY <1>5 DEF Register, Enqueue, Receive, Timeout, Return
<1>6. ASSUME NEW q \in Requests, NEW a \in Agents, Dispatch(q, a)
      PROVE  UNCHANGED <<hub, phase>>
  BY <1>6 DEF Dispatch, session
<1>7. CASE \E c \in Conns : \/ Connect(c) \/ Drop(c) \/ WriteFrame(c) \/ Hello(c)
                            \/ Reply(c) \/ ReportFirst(c) \/ Report(c)
                            \/ Answer(c) \/ Teardown(c)
  BY <1>2, <1>7 DEF Teardown
<1>8. CASE Sweep
  BY <1>3, <1>4, <1>8 DEF Sweep
<1>9. CASE \E q \in Requests : Advance(q) \/ \E a \in Agents : Dispatch(q, a)
  BY <1>5, <1>6, <1>9 DEF Advance
<1> QED BY <1>1, <1>4, <1>7, <1>8, <1>9 DEF Next

\* What is left in the hub by Remove was there before, and is not the agent's
\* whose session was removed.
LEMMA RemovedKeepsOthers ==
  ASSUME TypeOK, NEW c \in Conns, NEW a \in Agents, Removed(c)[a] # NoConn
  PROVE  Removed(c)[a] = hub[a] /\ a # AgentOf[c]
BY HubAssumption DEF Removed, TypeOK

\* RegisteredIsServed is inductive: a phase that is left for good is that of a
\* session the hub no longer has.
LEMMA ServedStep ==
  ASSUME TypeOK, RegisteredIsServed, [Next]_vars
  PROVE  RegisteredIsServed'
<1> SUFFICES ASSUME NEW a \in Agents, hub'[a] # NoConn
             PROVE  /\ AgentOf[hub'[a]] = a
                    /\ phase'[hub'[a]] \in {"welcoming", "joined", "leaving"}
  BY DEF RegisteredIsServed
<1> DEFINE Goal == /\ AgentOf[hub'[a]] = a
                   /\ phase'[hub'[a]] \in {"welcoming", "joined", "leaving"}
<1>0. hub[a] \in Conns \cup {NoConn}
  BY DEF TypeOK
<1>1. CASE UNCHANGED <<hub, phase>>
  BY <1>1 DEF RegisteredIsServed
<1>2. ASSUME NEW c \in Conns, Connect(c)
      PROVE  Goal
  BY <1>0, <1>2 DEF Connect, RegisteredIsServed, TypeOK
<1>3. ASSUME NEW c \in Conns, Hello(c)
      PROVE  Goal
  BY <1>0, <1>3, HubAssumption DEF Hello, RegisteredIsServed, TypeOK
<1>4. ASSUME NEW c \in Conns, Reply(c)
      PROVE  Goal
  BY <1>0, <1>4 DEF Reply, RegisteredIsServed, TypeOK
<1>5. ASSUME NEW c \in Conns, ReadFails(c)
      PROVE  Goal
  BY <1>0, <1>5 DEF ReadFails, RegisteredIsServed, TypeOK
<1>6. ASSUME NEW c \in Conns, TeardownRemove(c)
      PROVE  Goal
  <2>1. hub'[a] = hub[a] /\ a # AgentOf[c]
    BY <1>6, RemovedKeepsOthers DEF TeardownRemove
  <2>2. hub[a] # c /\ hub[a] \in Conns
    BY <1>0, <2>1 DEF RegisteredIsServed
  <2> QED BY <1>6, <2>1, <2>2 DEF TeardownRemove, RegisteredIsServed, TypeOK
<1>7. ASSUME NEW c \in Conns, TeardownClose(c)
      PROVE  Goal
  BY <1>0, <1>7 DEF TeardownClose, Close, RegisteredIsServed, TypeOK
<1>8. ASSUME NEW c \in Conns, SweepRemove(c)
      PROVE  Goal
  <2>1. hub'[a] = hub[a] /\ phase' = phase
    BY <1>8, RemovedKeepsOthers DEF SweepRemove, session
  <2> QED BY <2>1 DEF RegisteredIsServed
<1>9. ASSUME NEW q \in Requests, EnqueuePanics(q)
      PROVE  Goal
  BY <1>9 DEF EnqueuePanics
<1> QED BY <1>1, <1>2, <1>3, <1>4, <1>5, <1>6, <1>7, <1>8, <1>9, RegistrySteps

\* A session in the hub is its agent's and has a read loop that will remove it,
\* in every order of reconnection, teardown and sweep.
THEOREM Served == Spec => []RegisteredIsServed
<1>1. Init => RegisteredIsServed
  BY DEF Init, RegisteredIsServed
<1>2. TypeOK /\ RegisteredIsServed /\ [Next]_vars => RegisteredIsServed'
  BY ServedStep
<1> QED BY <1>1, <1>2, TypeCorrect, PTL DEF Spec

-----------------------------------------------------------------------------
(* The waiters.                                                              *)

\* The requests that have a waiter.
Awaiting == {"registered", "waiting"}

\* WaitersAreRequests, pointwise.
LEMMA WaiterOf ==
  ASSUME WaitersAreRequests, NEW c \in Conns, NEW q \in Requests, NEW i,
         <<i, q>> \in pending[c]
  PROVE  req[q].conn = c /\ req[q].pc \in Awaiting /\ req[q].id = i
BY DEF WaitersAreRequests, Awaiting

\* WaitersAreRequests is inductive over typed states: an id registers one waiter
\* of the request itself, and the request takes that one away.
LEMMA WaitersStep ==
  ASSUME Typed, WaitersAreRequests, [Next]_vars
  PROVE  WaitersAreRequests'
<1> DEFINE Waiters(r, c) == {<<r[q].id, q>> : q \in {p \in Requests :
                               r[p].conn = c /\ r[p].pc \in {"registered", "waiting"}}}
<1> SUFFICES ASSUME NEW c \in Conns
             PROVE  pending'[c] = Waiters(req', c)
  BY DEF WaitersAreRequests
<1>0. pending[c] = Waiters(req, c) /\ pending \in [Conns -> SUBSET (Nat \X Requests)]
  BY DEF WaitersAreRequests, Typed, TypeOK
<1>1. CASE UNCHANGED <<req, pending, nextId, reply>>
  BY <1>0, <1>1
<1>2. ASSUME NEW d \in Conns, Answer(d)
      PROVE  pending'[c] = Waiters(req', c)
  BY <1>0, <1>2 DEF Answer, session
<1>3. ASSUME NEW q \in Requests, NEW a \in Agents, Dispatch(q, a)
      PROVE  pending'[c] = Waiters(req', c)
  <2>1. /\ pending' = pending
        /\ req[q].pc \notin {"registered", "waiting"} /\ req'[q].pc \notin {"registered", "waiting"}
        /\ \A p \in Requests : p # q => req'[p] = req[p]
    BY <1>3 DEF Dispatch, Typed, TypeOK, IdleReq, session
  <2> QED BY <1>0, <2>1
<1>4. ASSUME NEW q \in Requests, Register(q)
      PROVE  pending'[c] = Waiters(req', c)
  <2> DEFINE d == req[q].conn
             id == nextId[d] + 1
  <2>1. /\ d \in Conns /\ pending' = [pending EXCEPT ![d] = @ \cup {<<id, q>>}]
        /\ req'[q].pc = "registered" /\ req'[q].conn = d /\ req'[q].id = id
        /\ \A p \in Requests : p # q => req'[p] = req[p]
    BY <1>4, RegisterEffect
  <2>2. req[q].pc = "found"
    BY <1>4 DEF Register
  <2> HIDE DEF id, d
  <2>3. CASE c = d
    <3>1. pending'[c] = pending[c] \cup {<<id, q>>}
      BY <1>0, <2>1, <2>3
    <3>2. Waiters(req', c) = Waiters(req, c) \cup {<<id, q>>}
      BY <2>1, <2>2, <2>3
    <3> QED BY <1>0, <3>1, <3>2
  <2>4. CASE c # d
    <3>1. pending'[c] = pending[c]
      BY <1>0, <2>1, <2>4
    <3>2. Waiters(req', c) = Waiters(req, c)
      BY <2>1, <2>2, <2>4
    <3> QED BY <1>0, <3>1, <3>2
  <2> QED BY <2>3, <2>4
<1>5. ASSUME NEW q \in Requests, Enqueue(q)
      PROVE  pending'[c] = Waiters(req', c)
  <2>1. /\ req'[q].pc = "waiting" /\ req'[q].conn = req[q].conn /\ req'[q].id = req[q].id
        /\ \A p \in Requests : p # q => req'[p] = req[p]
        /\ req[q].pc = "registered" /\ pending' = pending
    BY <1>5, EnqueueEffect DEF Enqueue
  <2> QED BY <1>0, <2>1
<1>6. ASSUME NEW q \in Requests, EnqueuePanics(q)
      PROVE  pending'[c] = Waiters(req', c)
  BY <1>6 DEF EnqueuePanics, IdleReq
<1>7. ASSUME NEW q \in Requests, NEW outcome \in {"answered", "failed"}, Return(q, outcome)
      PROVE  pending'[c] = Waiters(req', c)
  <2>1. /\ pending' = [pending EXCEPT ![req[q].conn] = @ \ {<<req[q].id, q>>}]
        /\ req'[q].pc = outcome
        /\ \A p \in Requests : p # q => req'[p] = req[p]
    BY <1>7 DEF Return, Unregister, Typed, TypeOK, IdleReq
  <2>2. pending'[c] = pending[c] \ {<<req[q].id, q>>}
    <3>1. CASE req[q].conn = c
      BY <1>0, <2>1, <3>1
    <3>2. CASE req[q].conn # c
      <4>1. <<req[q].id, q>> \notin pending[c]
        BY <1>0, <3>2
      <4> QED BY <1>0, <2>1, <3>2, <4>1
    <3> QED BY <3>1, <3>2
  <2>3. Waiters(req', c) = Waiters(req, c) \ {<<req[q].id, q>>}
    BY <2>1
  <2> QED BY <1>0, <2>2, <2>3
<1> QED BY <1>1, <1>2, <1>3, <1>4, <1>5, <1>6, <1>7, RequestSteps

\* The waiters of every session are those of its requests under way.
THEOREM WaitersCorrect == Spec => []WaitersAreRequests
<1>1. Init => Typed /\ WaitersAreRequests
  BY HubAssumption DEF Init, WaitersAreRequests, Typed, TypeOK, HasSession, UnderWay,
                       Phases, ReqStates, IdleReq, NoSweep
<1>2. Typed /\ WaitersAreRequests /\ [Next]_vars => (Typed /\ WaitersAreRequests)'
  BY WaitersStep, TypeStep, SessionStep DEF Typed
<1> QED BY <1>1, <1>2, PTL DEF Spec

-----------------------------------------------------------------------------
(* The ids.                                                                  *)

\* The frames of a session that are under way, to the agent or with it.
Elements(s) == {s[i] : i \in 1..Len(s)}
Frames(c) == Elements(send[c]) \cup Elements(probes[c])

\* Every id in a frame or with a waiter was given out by the session.
IdsAreGiven ==
    /\ \A c \in Conns : \A f \in Frames(c) : f <= nextId[c]
    /\ \A q \in Requests : req[q].pc \in Awaiting =>
         req[q].id > NoReply /\ req[q].id <= nextId[req[q].conn]

\* No two requests of a session have the same id.
IdsAreDistinct ==
    \A p, q \in Requests :
      /\ req[p].pc \in Awaiting /\ req[q].pc \in Awaiting
      /\ req[p].conn = req[q].conn /\ req[p].id = req[q].id
      => p = q

\* Until its own frame is sent, no frame has the id of a request.
FrameComesAfter ==
    \A q \in Requests : req[q].pc = "registered" => req[q].id \notin Frames(req[q].conn)

IdsInv == IdsAreGiven /\ IdsAreDistinct /\ FrameComesAfter

\* What the operations on channels do to their elements.
LEMMA TailElements ==
  ASSUME NEW s \in Seq(Nat), s # <<>>
  PROVE  Elements(Tail(s)) \subseteq Elements(s) /\ Head(s) \in Elements(s)
BY DEF Elements

\* What is appended to a queue is one of its elements.
LEMMA AppendElements ==
  ASSUME NEW s \in Seq(Nat), NEW f \in Nat
  PROVE  Elements(Append(s, f)) = Elements(s) \cup {f}
<1>1. Len(Append(s, f)) = Len(s) + 1 /\ Append(s, f)[Len(s) + 1] = f
  OBVIOUS
<1>2. \A i \in 1..Len(s) : Append(s, f)[i] = s[i]
  OBVIOUS
<1> QED BY <1>1, <1>2 DEF Elements

\* A frame that is queued, or dropped for a full queue, is all that can come in.
LEMMA QueuedElements ==
  ASSUME TypeOK, NEW c \in Conns, NEW f \in Nat
  PROVE  Elements(Queued(c, f)) \subseteq Elements(send[c]) \cup {f}
<1>1. send[c] \in Seq(Nat)
  BY DEF TypeOK
<1> QED BY <1>1, AppendElements DEF Queued

\* The elements of a frame set are numbers.
LEMMA FramesType ==
  ASSUME TypeOK, NEW c \in Conns
  PROVE  Frames(c) \subseteq Nat
<1>1. send[c] \in Seq(Nat) /\ probes[c] \in Seq(Nat)
  BY DEF TypeOK
<1> QED BY <1>1 DEF Frames, Elements

\* A step adds no frame but the welcome and that of the request it enqueues.
LEMMA FramesStep ==
  ASSUME Typed, [Next]_vars, NEW c \in Conns
  PROVE  \A f \in Frames(c)' :
           \/ f \in Frames(c) \/ f = Welcome
           \/ \E q \in Requests : Enqueue(q) /\ req[q].conn = c /\ f = req[q].id
<1> DEFINE Goal == \A f \in Frames(c)' :
           \/ f \in Frames(c) \/ f = Welcome
           \/ \E q \in Requests : Enqueue(q) /\ req[q].conn = c /\ f = req[q].id
<1>0. send \in [Conns -> Seq(Nat)] /\ probes \in [Conns -> Seq(Nat)]
  BY DEF Typed, TypeOK
<1>1. CASE UNCHANGED <<send, probes>>
  BY <1>1 DEF Frames
<1>2. ASSUME NEW d \in Conns, WriteFrame(d)
      PROVE  Goal
  <2>1. CASE c # d
    <3>1. send'[c] = send[c] /\ probes'[c] = probes[c]
      BY <1>0, <1>2, <2>1 DEF WriteFrame
    <3> QED BY <3>1 DEF Frames
  <2>2. CASE c = d
    <3>1. send[c] # <<>> /\ send[c] \in Seq(Nat) /\ probes[c] \in Seq(Nat)
      BY <1>0, <1>2, <2>2 DEF WriteFrame
    <3>2. send'[c] = Tail(send[c])
      BY <1>0, <1>2, <2>2 DEF WriteFrame
    <3>3. probes'[c] = probes[c] \/ probes'[c] = Append(probes[c], Head(send[c]))
      BY <1>0, <1>2, <2>2 DEF WriteFrame
    <3>4. Elements(Tail(send[c])) \subseteq Elements(send[c]) /\ Head(send[c]) \in Elements(send[c])
      BY <3>1, TailElements
    <3>5. Head(send[c]) \in Nat
      BY <3>1
    <3>6. Elements(Append(probes[c], Head(send[c]))) = Elements(probes[c]) \cup {Head(send[c])}
      BY <3>1, <3>5, AppendElements
    <3>7. Elements(probes[c])' \subseteq Elements(probes[c]) \cup {Head(send[c])}
      BY <3>3, <3>6 DEF Elements
    <3>8. Elements(send[c])' \subseteq Elements(send[c])
      BY <3>2, <3>4 DEF Elements
    <3> QED BY <3>4, <3>7, <3>8 DEF Frames
  <2> QED BY <2>1, <2>2
<1>3. ASSUME NEW d \in Conns, Reply(d)
      PROVE  Goal
  <2>1. probes' = probes /\ (send'[c] = send[c] \/ send'[c] = Queued(c, Welcome))
    BY <1>0, <1>3 DEF Reply
  <2>2. Elements(Queued(c, Welcome)) \subseteq Elements(send[c]) \cup {Welcome}
    BY QueuedElements DEF Typed
  <2>3. Elements(send[c])' \subseteq Elements(send[c]) \cup {Welcome}
    BY <2>1, <2>2 DEF Elements
  <2> QED BY <2>1, <2>3 DEF Frames
<1>4. ASSUME NEW d \in Conns, Answer(d)
      PROVE  Goal
  <2>1. send' = send /\ (probes'[c] = probes[c] \/ (probes[c] # <<>> /\ probes'[c] = Tail(probes[c])))
    BY <1>0, <1>4 DEF Answer, session
  <2>2. Elements(probes[c])' \subseteq Elements(probes[c])
    BY <1>0, <2>1, TailElements DEF Elements
  <2> QED BY <2>1, <2>2 DEF Frames
<1>5. ASSUME NEW q \in Requests, Enqueue(q)
      PROVE  Goal
  <2>1. /\ probes' = probes /\ req[q].id \in Nat
        /\ send'[c] = send[c] \/ (req[q].conn = c /\ send'[c] = Queued(c, req[q].id))
    BY <1>0, <1>5, EnqueueEffect DEF Enqueue
  <2>2. Elements(Queued(c, req[q].id)) \subseteq Elements(send[c]) \cup {req[q].id}
    BY <2>1, QueuedElements DEF Typed
  <2>3. Elements(send[c])' \subseteq Elements(send[c])
          \cup (IF req[q].conn = c THEN {req[q].id} ELSE {})
    BY <2>1, <2>2 DEF Elements
  <2> QED BY <1>5, <2>1, <2>3 DEF Frames
<1>6. ASSUME NEW q \in Requests, EnqueuePanics(q)
      PROVE  Goal
  <2>1. probes' = probes /\ send'[c] = <<>>
    BY <1>6 DEF EnqueuePanics
  <2> QED BY <2>1 DEF Frames, Elements
<1> QED BY <1>1, <1>2, <1>3, <1>4, <1>5, <1>6, FrameSteps

\* The ids are given once and a frame follows its request: every step keeps it.
LEMMA IdsStep ==
  ASSUME Typed, IdsInv, [Next]_vars
  PROVE  IdsInv'
<1> USE DEF IdsInv
<1> DEFINE Same == UNCHANGED <<req, nextId>>
<1>0. /\ nextId \in [Conns -> Nat]
      /\ \A q \in Requests : req[q].id \in Nat
      /\ \A q \in Requests : req[q].pc \in Awaiting => req[q].conn \in Conns
      /\ \A c \in Conns : Frames(c) \subseteq Nat
  BY FramesType DEF Typed, TypeOK, HasSession, Awaiting, UnderWay
<1>1. ASSUME ~ \E q \in Requests : Enqueue(q)
      PROVE  \A c \in Conns : Frames(c)' \subseteq Frames(c) \cup {Welcome}
  BY <1>1, FramesStep
<1>2. \A q \in Requests : Enqueue(q) => req[q].pc = "registered"
  BY DEF Enqueue
\* A step that leaves the requests and the ids to be given.
<1>3. CASE UNCHANGED <<req, nextId>>
  <2>1. ~ \E q \in Requests : Enqueue(q)
    <3> SUFFICES ASSUME NEW q \in Requests, Enqueue(q)
                 PROVE  FALSE
      OBVIOUS
    <3>1. req[q].pc = "registered" /\ req'[q].pc = "waiting"
      BY <1>2, EnqueueEffect
    <3> QED BY <1>3, <3>1
  <2>2. IdsAreGiven'
    BY <1>0, <1>1, <1>3, <2>1 DEF IdsAreGiven
  <2>3. IdsAreDistinct'
    BY <1>3 DEF IdsAreDistinct
  <2>4. FrameComesAfter'
    BY <1>0, <1>1, <1>3, <2>1 DEF FrameComesAfter, IdsAreGiven, Awaiting
  <2> QED BY <2>2, <2>3, <2>4
\* A request that no longer waits or does not wait yet.
<1>4. ASSUME NEW q \in Requests, nextId' = nextId, req'[q].pc \notin Awaiting,
             \A p \in Requests : p # q => req'[p] = req[p] \/ req'[p].pc \notin Awaiting
      PROVE  IdsInv'
  <2>1. ~ \E p \in Requests : Enqueue(p)
    <3> SUFFICES ASSUME NEW p \in Requests, Enqueue(p)
                 PROVE  FALSE
      OBVIOUS
    <3>1. req[p].pc = "registered" /\ req'[p].pc = "waiting"
      BY <1>2, EnqueueEffect
    <3> QED BY <1>4, <3>1 DEF Awaiting
  <2>2. IdsAreGiven'
    BY <1>0, <1>1, <1>4, <2>1 DEF IdsAreGiven
  <2>3. IdsAreDistinct'
    BY <1>4 DEF IdsAreDistinct
  <2>4. FrameComesAfter'
    BY <1>0, <1>1, <1>4, <2>1 DEF FrameComesAfter, IdsAreGiven, Awaiting
  <2> QED BY <2>2, <2>3, <2>4
\* A fresh id.
<1>5. ASSUME NEW q \in Requests, Register(q)
      PROVE  IdsInv'
  <2> DEFINE c == req[q].conn
             id == nextId[c] + 1
  <2>1. /\ c \in Conns /\ id \in Nat /\ nextId' = [nextId EXCEPT ![c] = id]
        /\ req'[q].pc = "registered" /\ req'[q].conn = c /\ req'[q].id = id
        /\ \A p \in Requests : p # q => req'[p] = req[p]
    BY <1>5, RegisterEffect
  <2>2. id > nextId[c] /\ nextId'[c] = id /\ \A d \in Conns : nextId'[d] >= nextId[d]
    BY <1>0, <2>1
  <2>3. ~ \E p \in Requests : Enqueue(p)
    <3> SUFFICES ASSUME NEW p \in Requests, Enqueue(p)
                 PROVE  FALSE
      OBVIOUS
    <3>1. req[p].pc = "registered" /\ req'[p].pc = "waiting"
      BY <1>2, EnqueueEffect
    <3> QED BY <2>1, <3>1
  <2>4. nextId' \in [Conns -> Nat]
    BY <1>0, <2>1
  <2> HIDE DEF id, c
  <2>5. IdsAreGiven'
    <3>1. ASSUME NEW d \in Conns, NEW f \in Frames(d)'
          PROVE  f <= nextId'[d]
      <4>1. f \in Nat /\ f <= nextId[d]
        BY <1>0, <1>1, <2>3, <3>1 DEF IdsAreGiven
      <4> QED BY <1>0, <2>2, <2>4, <4>1
    <3>2. ASSUME NEW p \in Requests, req'[p].pc \in Awaiting
          PROVE  req'[p].id > NoReply /\ req'[p].id <= nextId'[req'[p].conn]
      <4>1. CASE p = q
        BY <1>0, <2>1, <2>2, <4>1
      <4>2. CASE p # q
        <5>1. /\ req'[p] = req[p] /\ req[p].conn \in Conns
              /\ req[p].id > NoReply /\ req[p].id <= nextId[req[p].conn]
          BY <1>0, <2>1, <3>2, <4>2 DEF IdsAreGiven
        <5> QED BY <1>0, <2>2, <2>4, <5>1
      <4> QED BY <4>1, <4>2
    <3> QED BY <3>1, <3>2 DEF IdsAreGiven
  <2>6. IdsAreDistinct'
    <3> SUFFICES ASSUME NEW p \in Requests, p # q, req[p].pc \in Awaiting, req[p].conn = c
                 PROVE  req[p].id # id
      BY <2>1 DEF IdsAreDistinct
    <3> QED BY <1>0, <2>1, <2>2 DEF IdsAreGiven
  <2>7. FrameComesAfter'
    <3> SUFFICES ASSUME NEW p \in Requests, req'[p].pc = "registered",
                        NEW d \in Conns, d = req'[p].conn
                 PROVE  req'[p].id \notin Frames(d)'
      BY <1>0, <2>1 DEF FrameComesAfter, Frames, Awaiting
    <3>1. CASE p = q
      <4>1. id # Welcome /\ id \notin Frames(c)
        BY <1>0, <2>1, <2>2 DEF IdsAreGiven
      <4> QED BY <1>1, <2>1, <2>3, <3>1, <4>1
    <3>2. CASE p # q
      <4>1. req'[p] = req[p] /\ req[p].id # Welcome /\ req[p].id \notin Frames(d)
        BY <2>1, <3>2 DEF FrameComesAfter, IdsAreGiven, Awaiting
      <4> QED BY <1>1, <2>3, <4>1
    <3> QED BY <3>1, <3>2
  <2> QED BY <2>5, <2>6, <2>7
\* A frame with an id of its own.
<1>6. ASSUME NEW q \in Requests, Enqueue(q)
      PROVE  IdsInv'
  <2>1. /\ req[q].conn \in Conns /\ req[q].pc = "registered" /\ nextId' = nextId
        /\ req'[q].pc = "waiting" /\ req'[q].conn = req[q].conn /\ req'[q].id = req[q].id
        /\ \A p \in Requests : p # q => req'[p] = req[p]
    BY <1>6, EnqueueEffect DEF Enqueue
  <2>2. \A p \in Requests : Enqueue(p) => p = q
    <3> SUFFICES ASSUME NEW p \in Requests, Enqueue(p), p # q
                 PROVE  FALSE
      OBVIOUS
    <3>1. req[p].pc = "registered" /\ req'[p].pc = "waiting"
      BY <1>2, EnqueueEffect
    <3> QED BY <2>1, <3>1
  <2>3. \A c \in Conns : \A f \in Frames(c)' :
          f \in Frames(c) \/ f = Welcome \/ (c = req[q].conn /\ f = req[q].id)
    BY <2>2, FramesStep
  <2>4. IdsAreGiven'
    <3>1. ASSUME NEW c \in Conns, NEW f \in Frames(c)'
          PROVE  f <= nextId[c]
      BY <1>0, <2>1, <2>3 DEF IdsAreGiven, Awaiting
    <3>2. ASSUME NEW p \in Requests, req'[p].pc \in Awaiting
          PROVE  req'[p].id > NoReply /\ req'[p].id <= nextId[req'[p].conn]
      BY <2>1, <3>2 DEF IdsAreGiven, Awaiting
    <3> QED BY <2>1, <3>1, <3>2 DEF IdsAreGiven
  <2>5. IdsAreDistinct'
    BY <2>1 DEF IdsAreDistinct, Awaiting
  <2>6. FrameComesAfter'
    <3> SUFFICES ASSUME NEW p \in Requests, req'[p].pc = "registered",
                        NEW d \in Conns, d = req'[p].conn
                 PROVE  req'[p].id \notin Frames(d)'
      BY <1>0, <2>1 DEF FrameComesAfter, Frames, Awaiting
    <3>1. p # q /\ req'[p] = req[p]
      BY <2>1
    <3>2. ~(req[p].conn = req[q].conn /\ req[p].id = req[q].id)
      BY <2>1, <3>1 DEF IdsAreDistinct, Awaiting
    <3>3. req[p].id \notin Frames(d) /\ req[p].id # Welcome
      BY <3>1 DEF FrameComesAfter, IdsAreGiven, Awaiting
    <3> QED BY <2>3, <3>1, <3>2, <3>3
  <2> QED BY <2>4, <2>5, <2>6
<1>7. ASSUME NEW q \in Requests, NEW a \in Agents, Dispatch(q, a)
      PROVE  IdsInv'
  <2>1. /\ nextId' = nextId /\ req'[q].pc \notin Awaiting
        /\ \A p \in Requests : p # q => req'[p] = req[p]
    BY <1>7 DEF Dispatch, Typed, TypeOK, IdleReq, session, Awaiting
  <2> QED BY <1>4, <2>1
<1>8. ASSUME NEW q \in Requests, NEW outcome \in {"answered", "failed"}, Return(q, outcome)
      PROVE  IdsInv'
  <2>1. /\ nextId' = nextId /\ req'[q].pc \notin Awaiting
        /\ \A p \in Requests : p # q => req'[p] = req[p]
    BY <1>8 DEF Return, Typed, TypeOK, IdleReq, Awaiting
  <2> QED BY <1>4, <2>1
<1>9. ASSUME NEW q \in Requests, EnqueuePanics(q)
      PROVE  IdsInv'
  <2>1. nextId' = nextId /\ \A p \in Requests : req'[p].pc \notin Awaiting
    BY <1>9 DEF EnqueuePanics, IdleReq, Awaiting
  <2> QED BY <1>4, <2>1
<1>10. CASE \E c \in Conns : Answer(c)
  BY <1>3, <1>10 DEF Answer, session
<1>11. CASE UNCHANGED <<req, pending, nextId, reply>>
  BY <1>3, <1>11
<1> QED BY <1>5, <1>6, <1>7, <1>8, <1>9, <1>10, <1>11, RequestSteps

-----------------------------------------------------------------------------
(* The answers.                                                              *)

\* A waiting channel gets the answer to its own request or stays empty.
LEMMA AnswerStep ==
  ASSUME Typed, WaitersAreRequests, IdsInv, AnswerIsOwn, [Next]_vars
  PROVE  AnswerIsOwn'
<1> SUFFICES ASSUME NEW p \in Requests, reply'[p] # NoReply
             PROVE  req'[p].pc = "waiting" /\ reply'[p] = req'[p].id
  BY DEF AnswerIsOwn
<1> DEFINE Goal == req'[p].pc = "waiting" /\ reply'[p] = req'[p].id
<1>1. CASE UNCHANGED <<req, pending, nextId, reply>>
  BY <1>1 DEF AnswerIsOwn
<1>2. ASSUME NEW c \in Conns, Answer(c)
      PROVE  Goal
  <2> DEFINE id == Head(probes[c])
  <2>1. req' = req /\ reply' = [q \in Requests |->
          IF <<id, q>> \in pending[c] /\ reply[q] = NoReply THEN id ELSE reply[q]]
    BY <1>2 DEF Answer, Deliver
  <2>2. CASE reply'[p] = reply[p]
    BY <2>1, <2>2 DEF AnswerIsOwn
  <2>3. CASE reply'[p] # reply[p]
    <3>1. <<id, p>> \in pending[c] /\ reply'[p] = id
      BY <2>1, <2>3
    <3>2. req[p].conn = c /\ req[p].pc \in Awaiting /\ req[p].id = id
      BY <3>1, WaiterOf
    <3>3. id \in Frames(c)
      BY <1>2, TailElements DEF Answer, Frames, Typed, TypeOK
    <3>4. req[p].pc # "registered"
      BY <3>2, <3>3 DEF IdsInv, FrameComesAfter
    <3> QED BY <2>1, <3>1, <3>2, <3>4 DEF Awaiting
  <2> QED BY <2>2, <2>3
<1>3. ASSUME NEW q \in Requests, NEW a \in Agents, Dispatch(q, a)
      PROVE  Goal
  <2>1. reply' = reply /\ req[q].pc # "waiting" /\ (p # q => req'[p] = req[p])
    BY <1>3 DEF Dispatch, Typed, TypeOK
  <2> QED BY <2>1 DEF AnswerIsOwn
<1>4. ASSUME NEW q \in Requests, Register(q) \/ Enqueue(q)
      PROVE  Goal
  <2>1. reply' = reply /\ req[q].pc # "waiting" /\ (p # q => req'[p] = req[p])
    BY <1>4, RegisterEffect, EnqueueEffect DEF Register, Enqueue
  <2> QED BY <2>1 DEF AnswerIsOwn
<1>5. ASSUME NEW q \in Requests, EnqueuePanics(q)
      PROVE  Goal
  BY <1>5 DEF EnqueuePanics
<1>6. ASSUME NEW q \in Requests, NEW outcome \in {"answered", "failed"}, Return(q, outcome)
      PROVE  Goal
  <2>1. p # q /\ reply'[p] = reply[p] /\ req'[p] = req[p]
    BY <1>6 DEF Return, Typed, TypeOK
  <2> QED BY <2>1 DEF AnswerIsOwn
<1> QED BY <1>1, <1>2, <1>3, <1>4, <1>5, <1>6, RequestSteps

\* The inductive invariant: a late answer finds no waiter of its id, because ids
\* are given once and a frame is only sent after its request has registered.
HubInv == Typed /\ WaitersAreRequests /\ IdsInv /\ AnswerIsOwn

\* Every reachable state of the hub keeps the invariant.
LEMMA HubInvariant == Spec => []HubInv
<1>1. Init => HubInv
  <2> SUFFICES ASSUME Init PROVE HubInv
    OBVIOUS
  <2>1. Typed /\ WaitersAreRequests /\ AnswerIsOwn
    BY HubAssumption DEF Init, WaitersAreRequests, AnswerIsOwn, Typed, TypeOK, HasSession,
                         UnderWay, Phases, ReqStates, IdleReq, NoSweep
  <2>2. \A c \in Conns : Frames(c) = {}
    BY DEF Init, Frames, Elements
  <2>3. \A q \in Requests : req[q].pc = "idle"
    BY DEF Init, IdleReq
  <2>4. IdsInv
    BY <2>2, <2>3 DEF IdsInv, IdsAreGiven, IdsAreDistinct, FrameComesAfter, Awaiting
  <2> QED BY <2>1, <2>4 DEF HubInv
<1>2. HubInv /\ [Next]_vars => HubInv'
  BY TypeStep, SessionStep, WaitersStep, IdsStep, AnswerStep DEF HubInv, Typed
<1> QED BY <1>1, <1>2, PTL DEF Spec

\* What a request receives is the answer to its own frame, however late answers
\* come and however its session is shared.
THEOREM AnswersCorrect == Spec => []AnswerIsOwn
<1>1. HubInv => AnswerIsOwn
  BY DEF HubInv
<1> QED BY <1>1, HubInvariant, PTL

\* Two goroutines never wait for the same id of a session.
THEOREM IdsCorrect == Spec => []IdsAreDistinct
<1>1. HubInv => IdsAreDistinct
  BY DEF HubInv, IdsInv
<1> QED BY <1>1, HubInvariant, PTL

=============================================================================
