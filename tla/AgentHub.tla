------------------------------- MODULE AgentHub -------------------------------
(* The registry of agent sessions of internal/master (hub.go, ws.go,         *)
(* dispatch.go) and the requests sent through it, with the agent's end of    *)
(* the connection (internal/agent/agent.go).                                 *)
(*                                                                           *)
(* A session has a read loop (handleAgentWS) that registers it at the hello  *)
(* and, when the connection breaks, first removes the agent's id from the    *)
(* hub and then closes the session; a goroutine sweeps stale sessions, in    *)
(* the opposite order.  A request looks the session up, registers a waiter,  *)
(* puts a frame into the send channel and waits.                             *)
EXTENDS Integers, Sequences

CONSTANTS
    Agents,
    Conns,         \* every connection that may ever be made
    AgentOf,       \* the agent that makes each connection
    Requests,      \* goroutines that call Dispatch
    QueueCap,      \* capacity of the send channel
    StaleAfter,    \* timeout of CleanupStale
    NoConn,        \* no session in the hub
    MaxNow,        \* bound of the clock
    MaxId          \* bound of the request ids of a session

ASSUME HubAssumption ==
    /\ AgentOf \in [Conns -> Agents]
    /\ NoConn \notin Conns
    /\ QueueCap \in Nat \ {0} /\ StaleAfter \in Nat
    /\ MaxNow \in Nat /\ MaxId \in Nat

VARIABLES
    now,
    hub,           \* h.sessions
    phase,         \* where the read loop of each connection is
    closed,        \* session.close was called: the send channel is closed
    lastSeen,      \* session.LastSeen; Never: HasLatest is false; Unset: it is
                   \* true and LastSeen still the zero time
    send,          \* the send channel
    nextId,        \* session.nextID
    pending,       \* session.pending: the waiters by request id
    req,           \* the requests
    reply,         \* the channel a request waits on: the id answered, or NoReply
    agent,         \* the agent's end of each connection
    probes,        \* ids of the dispatched requests an agent has to answer
    sweep          \* CleanupStale: its cutoff, the sessions left, and the one it
                   \* has closed

session == <<phase, closed, lastSeen, send, nextId, pending>>
vars == <<now, hub, session, req, reply, agent, probes, sweep>>

Never == -1
Unset == -2
NoReply == 0
Welcome == 0          \* the frame that answers the hello; others are request ids
Phases == {"unused", "open", "welcoming", "joined", "leaving", "removed", "done"}
ReqStates == {"idle", "found", "registered", "waiting", "answered", "failed"}
IdleReq == [pc |-> "idle", conn |-> NoConn, id |-> 0]
NoSweep == [cutoff |-> 0, left |-> {}, closing |-> NoConn]

TypeOK ==
    /\ now \in Nat
    /\ hub \in [Agents -> Conns \cup {NoConn}]
    /\ phase \in [Conns -> Phases]
    /\ closed \in [Conns -> BOOLEAN]
    /\ lastSeen \in [Conns -> Nat \cup {Never, Unset}]
    /\ send \in [Conns -> Seq(Nat)]
    /\ \A c \in Conns : Len(send[c]) <= QueueCap
    /\ nextId \in [Conns -> Nat]
    /\ pending \in [Conns -> SUBSET (Nat \X Requests)]
    /\ req \in [Requests -> [pc: ReqStates, conn: Conns \cup {NoConn}, id: Nat]]
    /\ reply \in [Requests -> Nat]
    /\ agent \in [Conns -> {"off", "hello", "ready", "gone"}]
    /\ probes \in [Conns -> Seq(Nat)]
    /\ sweep \in [cutoff: Int, left: SUBSET Conns, closing: Conns \cup {NoConn}]

Init ==
    /\ now = 0
    /\ hub = [a \in Agents |-> NoConn]
    /\ phase = [c \in Conns |-> "unused"]
    /\ closed = [c \in Conns |-> FALSE]
    /\ lastSeen = [c \in Conns |-> Never]
    /\ send = [c \in Conns |-> <<>>]
    /\ nextId = [c \in Conns |-> 0]
    /\ pending = [c \in Conns |-> {}]
    /\ req = [q \in Requests |-> IdleReq]
    /\ reply = [q \in Requests |-> NoReply]
    /\ agent = [c \in Conns |-> "off"]
    /\ probes = [c \in Conns |-> <<>>]
    /\ sweep = NoSweep

-----------------------------------------------------------------------------
(* The agent's end.                                                          *)

\* connectOnce: one connection at a time; it dials and sends the hello.
Connect(c) ==
    /\ phase[c] = "unused"
    /\ \A d \in Conns : AgentOf[d] = AgentOf[c] => agent[d] \in {"off", "gone"}
    /\ phase' = [phase EXCEPT ![c] = "open"]
    /\ agent' = [agent EXCEPT ![c] = "hello"]
    /\ UNCHANGED <<now, hub, closed, lastSeen, send, nextId, pending, req, reply,
                   probes, sweep>>

\* The agent stops, or its network does; the master need not notice.
Drop(c) ==
    /\ agent[c] \in {"hello", "ready"}
    /\ agent' = [agent EXCEPT ![c] = "gone"]
    /\ UNCHANGED <<now, hub, session, req, reply, probes, sweep>>

\* handshake takes the first frame with an id for the answer to its hello and
\* gives the connection up when it is something else.
Handshake(frame) == IF frame = Welcome THEN "ready" ELSE "gone"

\* writeLoop takes a frame off the channel and the agent reads it, unless the
\* connection is closed.
WriteFrame(c) ==
    /\ send[c] # <<>>
    /\ send' = [send EXCEPT ![c] = Tail(@)]
    /\ agent' = [agent EXCEPT ![c] =
         IF @ = "hello" /\ ~closed[c] THEN Handshake(Head(send[c])) ELSE @]
    /\ probes' = [probes EXCEPT ![c] =
         IF agent[c] = "ready" /\ ~closed[c] /\ Head(send[c]) # Welcome
         THEN Append(@, Head(send[c])) ELSE @]
    /\ UNCHANGED <<now, hub, phase, closed, lastSeen, nextId, pending, req, reply,
                   sweep>>

-----------------------------------------------------------------------------
(* The read loop of a session.                                               *)

\* handleHello registers the session, replacing the agent's previous one.
Hello(c) ==
    /\ phase[c] = "open"
    /\ hub' = [hub EXCEPT ![AgentOf[c]] = c]
    /\ phase' = [phase EXCEPT ![c] = "welcoming"]
    /\ UNCHANGED <<now, closed, lastSeen, send, nextId, pending, req, reply, agent,
                   probes, sweep>>

\* Variant: the channel takes every frame.
QueuedAlways(c, frame) == Append(send[c], frame)

\* A full channel drops the frame.
Queued(c, frame) == IF Len(send[c]) < QueueCap THEN Append(send[c], frame) ELSE send[c]

\* ... and answers.  On a closed channel the send panics; the HTTP handler
\* recovers, after its deferred teardown.
Reply(c) ==
    /\ phase[c] = "welcoming"
    /\ phase' = [phase EXCEPT ![c] = IF closed[c] THEN "leaving" ELSE "joined"]
    /\ send' = [send EXCEPT ![c] = IF closed[c] THEN @ ELSE Queued(c, Welcome)]
    /\ UNCHANGED <<now, hub, closed, lastSeen, nextId, pending, req, reply, agent,
                   probes, sweep>>

\* handleReport: the agent reports once the handshake is over.  update sets
\* HasLatest and then LastSeen under s.mu, which CleanupStale does not take: of
\* a first report it may see the one without the other.
ReportFirst(c) ==
    /\ phase[c] = "joined" /\ ~closed[c]
    /\ agent[c] = "ready"
    /\ lastSeen[c] = Never
    /\ lastSeen' = [lastSeen EXCEPT ![c] = Unset]
    /\ UNCHANGED <<now, hub, phase, closed, send, nextId, pending, req, reply, agent,
                   probes, sweep>>

Report(c) ==
    /\ phase[c] = "joined"
    /\ lastSeen[c] # Never
    /\ lastSeen[c] = Unset \/ (~closed[c] /\ agent[c] = "ready")
    /\ lastSeen' = [lastSeen EXCEPT ![c] = now]
    /\ UNCHANGED <<now, hub, phase, closed, send, nextId, pending, req, reply, agent,
                   probes, sweep>>

\* Variant: the answer goes to whoever waits.
DeliverToAny(c, id) ==
    reply' = [q \in Requests |-> IF \E i \in 1..MaxId : <<i, q>> \in pending[c]
                                 THEN id ELSE reply[q]]

\* deliverResponse: to the waiter of that id, if it is still there and its
\* channel of one is empty.
Deliver(c, id) ==
    reply' = [q \in Requests |-> IF <<id, q>> \in pending[c] /\ reply[q] = NoReply
                                 THEN id ELSE reply[q]]

\* The agent runs one probe after the other and answers; the answer may still
\* be on its way when the agent goes.
Answer(c) ==
    /\ phase[c] = "joined" /\ ~closed[c] /\ lastSeen[c] # Unset
    /\ probes[c] # <<>>
    /\ probes' = [probes EXCEPT ![c] = Tail(@)]
    /\ Deliver(c, Head(probes[c]))
    /\ UNCHANGED <<now, hub, session, req, agent, sweep>>

\* conn.Read returns an error: after close, or once the broken link is noticed.
\* Before the hello the session has no id and Remove("") removes nothing.
ReadFails(c) ==
    /\ phase[c] \in {"open", "joined"}
    /\ closed[c] \/ agent[c] = "gone"
    /\ lastSeen[c] # Unset
    /\ phase' = [phase EXCEPT ![c] = IF @ = "open" THEN "removed" ELSE "leaving"]
    /\ UNCHANGED <<now, hub, closed, lastSeen, send, nextId, pending, req, reply,
                   agent, probes, sweep>>

-----------------------------------------------------------------------------
(* The two ways a session leaves: its own teardown, and CleanupStale.        *)

\* Variant: the session stays in the map.
RemovedNothing(c) == hub

\* h.Remove(session.ID) does not look at which session is there.
Removed(c) == [hub EXCEPT ![AgentOf[c]] = NoConn]

TeardownRemove(c) ==
    /\ phase[c] = "leaving"
    /\ phase' = [phase EXCEPT ![c] = "removed"]
    /\ hub' = Removed(c)
    /\ UNCHANGED <<now, closed, lastSeen, send, nextId, pending, req, reply, agent,
                   probes, sweep>>

\* close(s.send) and conn.Close, once.
Close(c) ==
    /\ closed' = [closed EXCEPT ![c] = TRUE]
    /\ UNCHANGED <<now, hub, lastSeen, send, nextId, pending, req, reply, agent,
                   probes>>

TeardownClose(c) ==
    /\ phase[c] = "removed"
    /\ phase' = [phase EXCEPT ![c] = "done"]
    /\ Close(c)
    /\ UNCHANGED sweep

\* HasLatest and LastSeen before the cutoff, as the zero time always is.
Stale(c, cutoff) == lastSeen[c] = Unset \/ (lastSeen[c] # Never /\ lastSeen[c] < cutoff)

\* The cutoff is taken once, and the sessions are those of that moment.
Cutoff == now - StaleAfter

SweepStart ==
    /\ sweep = NoSweep
    /\ sweep' = [sweep EXCEPT !.cutoff = Cutoff, !.left = {hub[a] : a \in Agents} \ {NoConn}]
    /\ \E a \in Agents : hub[a] # NoConn
    /\ UNCHANGED <<now, hub, session, req, reply, agent, probes>>

\* What is left of the sweep; its cutoff goes with the last session.
Rest(left, closing) ==
    IF left = {} /\ closing = NoConn THEN NoSweep
    ELSE [sweep EXCEPT !.left = left, !.closing = closing]

SweepSkip(c) ==
    /\ c \in sweep.left /\ sweep.closing = NoConn
    /\ ~Stale(c, sweep.cutoff)
    /\ sweep' = Rest(sweep.left \ {c}, NoConn)
    /\ UNCHANGED <<now, hub, session, req, reply, agent, probes>>

SweepClose(c) ==
    /\ c \in sweep.left /\ sweep.closing = NoConn
    /\ Stale(c, sweep.cutoff)
    /\ sweep' = Rest(sweep.left \ {c}, c)
    /\ Close(c)
    /\ UNCHANGED phase

SweepRemove(c) ==
    /\ sweep.closing = c
    /\ hub' = Removed(c)
    /\ sweep' = Rest(sweep.left, NoConn)
    /\ UNCHANGED <<now, session, req, reply, agent, probes>>

-----------------------------------------------------------------------------
(* Dispatch: a goroutine per attempt of the scheduler.                       *)

\* hub.Get; an attempt that follows another one starts afresh.
Dispatch(q, a) ==
    /\ req[q].pc \in {"idle", "answered", "failed"}
    /\ hub[a] \in Conns => nextId[hub[a]] < MaxId
    /\ req' = [req EXCEPT ![q] =
         IF hub[a] = NoConn THEN [IdleReq EXCEPT !.pc = "failed"]
         ELSE [IdleReq EXCEPT !.pc = "found", !.conn = hub[a]]]
    /\ UNCHANGED <<now, hub, session, reply, agent, probes, sweep>>

\* The next id, and a waiter for it.
Register(q) ==
    /\ req[q].pc = "found"
    /\ LET c == req[q].conn
           id == nextId[c] + 1
       IN  /\ nextId' = [nextId EXCEPT ![c] = id]
           /\ pending' = [pending EXCEPT ![c] = @ \cup {<<id, q>>}]
           /\ req' = [req EXCEPT ![q].pc = "registered", ![q].id = id]
    /\ UNCHANGED <<now, hub, phase, closed, lastSeen, send, reply, agent, probes,
                   sweep>>

Enqueue(q) ==
    /\ req[q].pc = "registered"
    /\ ~closed[req[q].conn]
    /\ send' = [send EXCEPT ![req[q].conn] = Queued(req[q].conn, req[q].id)]
    /\ req' = [req EXCEPT ![q].pc = "waiting"]
    /\ UNCHANGED <<now, hub, phase, closed, lastSeen, nextId, pending, reply, agent,
                   probes, sweep>>

\* Variant: no deferred delete.
UnregisterNothing(q) == pending

\* The deferred delete(s.pending, key).
Unregister(q) == [pending EXCEPT ![req[q].conn] = @ \ {<<req[q].id, q>>}]

\* request returns; its channel is garbage.
Return(q, outcome) ==
    /\ pending' = Unregister(q)
    /\ req' = [req EXCEPT ![q] = [IdleReq EXCEPT !.pc = outcome]]
    /\ reply' = [reply EXCEPT ![q] = NoReply]
    /\ UNCHANGED <<now, hub, phase, closed, lastSeen, send, nextId, agent, probes,
                   sweep>>

Receive(q) ==
    /\ req[q].pc = "waiting"
    /\ reply[q] # NoReply
    /\ Return(q, "answered")

\* Variant: the request waits as long as the session is there.
TimeoutWhenClosed(q) ==
    /\ req[q].pc = "waiting" /\ closed[req[q].conn]
    /\ Return(q, "failed")

\* ctx.Done(), also when the answer arrives at the same time.
Timeout(q) ==
    /\ req[q].pc = "waiting"
    /\ Return(q, "failed")

\* A send on the closed channel panics in a goroutine of the scheduler, which
\* nothing recovers: the master dies and starts again with an empty hub.
EnqueuePanics(q) ==
    /\ req[q].pc = "registered"
    /\ closed[req[q].conn]
    /\ hub' = [a \in Agents |-> NoConn]
    /\ phase' = [c \in Conns |-> IF phase[c] = "unused" THEN "unused" ELSE "done"]
    /\ closed' = [c \in Conns |-> phase[c] # "unused"]
    /\ send' = [c \in Conns |-> <<>>]
    /\ pending' = [c \in Conns |-> {}]
    /\ req' = [p \in Requests |-> IdleReq]
    /\ reply' = [p \in Requests |-> NoReply]
    /\ sweep' = NoSweep
    /\ UNCHANGED <<now, lastSeen, nextId, agent, probes>>

Tick ==
    /\ now < MaxNow
    /\ now' = now + 1
    /\ UNCHANGED <<hub, session, req, reply, agent, probes, sweep>>

Teardown(c) == ReadFails(c) \/ TeardownRemove(c) \/ TeardownClose(c)
Sweep == SweepStart \/ \E c \in Conns : SweepSkip(c) \/ SweepClose(c) \/ SweepRemove(c)
Advance(q) == Register(q) \/ Enqueue(q) \/ EnqueuePanics(q) \/ Receive(q) \/ Timeout(q)

Next ==
    \/ \E c \in Conns : \/ Connect(c) \/ Drop(c) \/ WriteFrame(c)
                        \/ Hello(c) \/ Reply(c) \/ ReportFirst(c) \/ Report(c)
                        \/ Answer(c)
                        \/ Teardown(c)
    \/ Sweep
    \/ \E q \in Requests : Advance(q) \/ \E a \in Agents : Dispatch(q, a)
    \/ Tick

Spec == Init /\ [][Next]_vars

\* Goroutines of the master run, its ticker sweeps and the clock advances; a
\* read fails for sure only on a connection the master has closed itself.
\* Nothing is assumed of the agents or of the network.
Fairness ==
    /\ WF_vars(Tick)
    /\ WF_vars(Sweep)
    /\ \A c \in Conns : /\ WF_vars(Reply(c))
                        /\ WF_vars(lastSeen[c] = Unset /\ Report(c))
                        /\ WF_vars(closed[c] /\ ReadFails(c))
                        /\ WF_vars(TeardownRemove(c) \/ TeardownClose(c))
    /\ \A q \in Requests : WF_vars(Advance(q))

FairSpec == Spec /\ Fairness

-----------------------------------------------------------------------------
(* Properties.                                                               *)

\* A session in the hub belongs to its agent and still has a read loop that
\* will remove it: whichever of teardown, sweep and reconnection comes first,
\* the hub never hands out a session nobody serves.
RegisteredIsServed ==
    \A a \in Agents : hub[a] # NoConn =>
      AgentOf[hub[a]] = a /\ phase[hub[a]] \in {"welcoming", "joined", "leaving"}

\* What a request receives answers that request, and comes after its frame: it
\* is never the late answer to an earlier attempt that timed out, nor another
\* goroutine's.
AnswerIsOwn ==
    \A q \in Requests : reply[q] # NoReply =>
      req[q].pc = "waiting" /\ reply[q] = req[q].id

\* The waiters of the sessions are those of the requests under way: none leaks
\* when a request times out, loses its session or is answered.
WaitersAreRequests ==
    \A c \in Conns : pending[c] =
      {<<req[q].id, q>> : q \in {p \in Requests : /\ req[p].conn = c
                                                 /\ req[p].pc \in {"registered", "waiting"}}}

\* Every request ends, whatever happens to its frame, its session or its agent.
RequestEnds ==
    \A q \in Requests : req[q].pc = "found" ~> req[q].pc \in {"answered", "failed", "idle"}

\* A session that has stopped reporting does not stay in the hub, even if its
\* connection never breaks.
StaleIsReclaimed ==
    \A c \in Conns : <>[]Stale(c, Cutoff) => <>[](hub[AgentOf[c]] # c)

\* A session the sweep closed leaves the hub.
ClosedLeaves == \A c \in Conns : closed[c] ~> hub[AgentOf[c]] # c

\* The hub lets go of every session that is silent or closed, in whichever order
\* the sweep and the teardown close and remove.
LeavesTheHub == StaleIsReclaimed /\ ClosedLeaves

\* docs/protocol.md, handshake: the master registers the agent; an agent whose
\* session is up is in the hub.
ConnectedIsRegistered ==
    \A c \in Conns : phase[c] = "joined" /\ agent[c] = "ready" /\ ~closed[c] =>
      hub[AgentOf[c]] # NoConn
=============================================================================
