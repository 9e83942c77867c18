------------------------------ MODULE HttpServer ------------------------------
(***************************************************************************)
(* ChttpServer and ChttpTask (src/http_server.h, http_server.cpp): the     *)
(* pool's loop thread parses what connections send and turns each complete *)
(* request into a task of the work queue; a worker answers it through the  *)
(* pool.  The queue is module WorkQueue.  What a connection sends is a     *)
(* sequence of complete requests and malformed ones; how bytes become      *)
(* requests is the parser's matter.  A connection has a number here, which *)
(* the code does not have: it knows it by its node only, and a node may    *)
(* connect again.                                                          *)
(***************************************************************************)
EXTENDS Naturals, Sequences, FiniteSets, SequencesExt

CONSTANTS Worker,       \* threads of m_workQueue
          Node,         \* remote addresses
          NoContext,    \* no entry in m_context
          MaxRequests,  \* bound: requests that become tasks
          MaxInput,     \* bound: requests in a buffer at once
          MaxConns      \* bound: connections that come up

ASSUME BoundsAssumption ==
    /\ MaxRequests \in Nat /\ MaxInput \in Nat /\ MaxConns \in Nat
    /\ IsFiniteSet(Worker)

Task == 1..MaxRequests  \* ChttpTask objects, in the order of their creation
NoTask == 0
Conn == 1..MaxConns
NoConn == 0

\* A request that keeps the connection, one that does not, malformed input.
Item == {"keepAlive", "last", "malformed"}

\* A context, of which this module sees what it has not made into tasks; what a
\* task knows of its request.
Context == [conn : Conn, state : {"parsing", "done", "bad"}, input : Seq(Item)]
Request == [node : Node, conn : Conn, keepAlive : BOOLEAN]

ASSUME NoContextAssumption == NoContext \notin Context

VARIABLES
    owner, exit, tasks, at, held, pushed, ran, freed,  \* m_workQueue
    conn,      \* the connection of a node, as reported by connectionStatus
    made,      \* connections made so far
    context,   \* m_context: parse state and input not yet made into tasks
    loop,      \* the callback the loop thread is in, and its node
    refs,      \* m_tasks
    request,   \* the request of each task: node, connection, keep-alive
    canceled,  \* tasks whose m_canceled is set
    phase,     \* how far each worker is in ChttpTask::run
    sent,      \* tasks that passed their response to the pool
    closed     \* connections the pool was asked to close

queueVars == <<owner, exit, tasks, at, held, pushed, ran, freed>>
loopVars == <<conn, made, context, loop, request, canceled>>
vars == <<queueVars, loopVars, refs, phase, sent, closed>>

Queue == INSTANCE WorkQueue

Idle == [in |-> "idle"]
In(callback, n) == [in |-> callback, node |-> n]

\* What has become of the context of n.
Becomes(n, state, input) ==
    context' = [context EXCEPT ![n] =
                   [conn |-> context[n].conn, state |-> state, input |-> input]]

\* The pool closes the connection that the node has when it is asked to.
CloseNode(n) == closed' = closed \cup ({conn[n]} \ {NoConn})

-----------------------------------------------------------------------------
(* The loop thread: callbacks of the pool, which is set before it is bound  *)
(* and calls nobody back once the server is being destroyed.                *)

\* connectionStatus(node, true)
ConnectionUp(n) ==
    /\ owner = "using" /\ loop = Idle
    /\ conn[n] = NoConn /\ made < MaxConns
    /\ made' = made + 1
    /\ conn' = [conn EXCEPT ![n] = made + 1]
    /\ context' = IF context[n] # NoContext
                  THEN context  \* insert() does not overwrite
                  ELSE [context EXCEPT ![n] =
                            [conn |-> made + 1, state |-> "parsing", input |-> <<>>]]
    /\ UNCHANGED <<queueVars, loop, refs, request, canceled, phase, sent, closed>>

\* Mutant: the context is left for the node's next connection.
DownKeepsContext(n) ==
    /\ owner = "using" /\ loop = Idle
    /\ conn' = [conn EXCEPT ![n] = NoConn]
    /\ loop' = In("cancel", n)
    /\ UNCHANGED <<queueVars, made, context, refs, request, canceled, phase, sent, closed>>

\* connectionStatus(node, false), before cancelTask.  It is also called for a
\* node that could not be connected to.
ConnectionDown(n) ==
    /\ owner = "using" /\ loop = Idle
    /\ conn' = [conn EXCEPT ![n] = NoConn]
    /\ context' = [context EXCEPT ![n] = NoContext]
    /\ loop' = In("cancel", n)
    /\ UNCHANGED <<queueVars, made, refs, request, canceled, phase, sent, closed>>

TasksOf(n) == {t \in refs : request[t].node = n}

\* Mutant: find() instead of equal_range(), which reaches one task only.
CancelOne ==
    /\ loop.in = "cancel"
    /\ \/ TasksOf(loop.node) = {} /\ UNCHANGED canceled
       \/ \E t \in TasksOf(loop.node) : canceled' = canceled \cup {t}
    /\ loop' = Idle
    /\ UNCHANGED <<queueVars, conn, made, context, refs, request, phase, sent, closed>>

\* cancelTask, under m_taskLock.
CancelTask ==
    /\ loop.in = "cancel"
    /\ canceled' = canceled \cup TasksOf(loop.node)
    /\ loop' = Idle
    /\ UNCHANGED <<queueVars, conn, made, context, refs, request, phase, sent, closed>>

\* The complete requests of an input.
Complete(input) == Len(SelectSeq(input, LAMBDA i : i # "malformed"))

\* message(): recvPush of what was read, which may complete no request, one or
\* several.  A connection that was closed may go on reading; what it reads is
\* ignored while its node has no context.
Message(n) ==
    /\ owner = "using" /\ loop = Idle
    /\ context[n] # NoContext
    /\ \E input \in BoundedSeq(Item, MaxInput) :
          /\ Len(context[n].input) + Len(input) <= MaxInput
          /\ Cardinality(pushed) + Complete(context[n].input \o input) <= MaxRequests
          /\ Becomes(n, context[n].state, context[n].input \o input)
    /\ loop' = In("message", n)
    /\ UNCHANGED <<queueVars, conn, made, refs, request, canceled, phase, sent, closed>>

\* What analysis() finds next in the input of a context.
NothingNext(c) == c.state # "bad" /\ c.input = <<>>
BadNext(c) == c.state = "bad" \/ (c.input # <<>> /\ Head(c.input) = "malformed")
RequestNext(c) == c.state # "bad" /\ c.input # <<>> /\ Head(c.input) # "malformed"

\* analysis() needs more input.
Incomplete ==
    /\ loop.in = "message"
    /\ NothingNext(context[loop.node])
    /\ loop' = Idle
    /\ UNCHANGED <<queueVars, conn, made, context, refs, request, canceled, phase, sent, closed>>

\* Mutant: only a request that cannot be served closes the connection.
RejectSilently ==
    /\ loop.in = "message"
    /\ BadNext(context[loop.node])
    /\ Becomes(loop.node, "bad", context[loop.node].input)
    /\ loop' = Idle
    /\ UNCHANGED <<queueVars, conn, made, refs, request, canceled, phase, sent, closed>>

\* analysis() fails, and does so for all that the connection sends afterwards.
Reject ==
    /\ loop.in = "message"
    /\ BadNext(context[loop.node])
    /\ Becomes(loop.node, "bad", context[loop.node].input)
    /\ CloseNode(loop.node)
    /\ loop' = Idle
    /\ UNCHANGED <<queueVars, conn, made, refs, request, canceled, phase, sent>>

\* A request is complete, but there is no memory for a task.  The context keeps
\* the request and offers it again at the next message.
NoMemory ==
    /\ loop.in = "message"
    /\ RequestNext(context[loop.node])
    /\ Becomes(loop.node, "done", context[loop.node].input)
    /\ CloseNode(loop.node)
    /\ loop' = Idle
    /\ UNCHANGED <<queueVars, conn, made, refs, request, canceled, phase, sent>>

\* A request is complete: new ChttpTask, which enters itself in m_tasks,
\* reinitForNext and pushTask; then on to the next request.
NewTask ==
    /\ loop.in = "message"
    /\ RequestNext(context[loop.node])
    /\ LET n == loop.node
           t == Cardinality(pushed) + 1
       IN /\ t \in Task  \* Message keeps to the bound
          /\ request' = [request EXCEPT ![t] =
                [node |-> n, conn |-> context[n].conn,
                 keepAlive |-> Head(context[n].input) = "keepAlive"]]
          /\ refs' = refs \cup {t}
          /\ Becomes(n, "parsing", Tail(context[n].input))
          /\ Queue!PushTask(t)
    /\ UNCHANGED <<conn, made, loop, canceled, phase, sent, closed>>

-----------------------------------------------------------------------------
(* The workers: ChttpTask::run and the deletion of the task.                *)

\* run() reads m_canceled.
Begin(w) ==
    /\ at[w] = "run" /\ phase[w] = "begin"
    /\ IF held[w] \in canceled
       THEN Queue!Run(w) /\ UNCHANGED phase
       ELSE phase' = [phase EXCEPT ![w] = "respond"] /\ UNCHANGED queueVars
    /\ UNCHANGED <<loopVars, refs, sent, closed>>

\* pool->send, which never fails.
Respond(w) ==
    /\ phase[w] = "respond"
    /\ sent' = sent \cup {held[w]}
    /\ IF request[held[w]].keepAlive
       THEN phase' = [phase EXCEPT ![w] = "begin"] /\ Queue!Run(w)
       ELSE phase' = [phase EXCEPT ![w] = "close"] /\ UNCHANGED queueVars
    /\ UNCHANGED <<loopVars, refs, closed>>

\* pool->close, for a request that does not keep the connection alive.
Close(w) ==
    /\ phase[w] = "close"
    /\ CloseNode(request[held[w]].node)
    /\ phase' = [phase EXCEPT ![w] = "begin"]
    /\ Queue!Run(w)
    /\ UNCHANGED <<loopVars, refs, sent>>

\* Mutant: ~ChttpTask does not take the task out of m_tasks.
DeleteKeepsReference(w) ==
    /\ Queue!Delete(w)
    /\ UNCHANGED <<loopVars, refs, phase, sent, closed>>

\* The deleter: ~ChttpTask with deleteReferenceTask, under m_taskLock, after which
\* only this worker knows the task, and its memory.
Delete(w) ==
    /\ Queue!Delete(w)
    /\ refs' = refs \ {held[w]}
    /\ UNCHANGED <<loopVars, phase, sent, closed>>

\* The worker's own steps between two tasks.
Take(w) == Queue!GetNext(w) /\ UNCHANGED <<loopVars, refs, phase, sent, closed>>
Wake(w) == Queue!Spurious(w) /\ UNCHANGED <<loopVars, refs, phase, sent, closed>>

-----------------------------------------------------------------------------
(* The thread that owns the server.                                         *)

\* m_workQueue is the last member: it is destroyed first, m_tasks is still there.
Construct == Queue!Construct /\ UNCHANGED <<loopVars, refs, phase, sent, closed>>
Destroy ==
    /\ loop = Idle
    /\ Queue!Destroy
    /\ UNCHANGED <<loopVars, refs, phase, sent, closed>>
Join == Queue!Join /\ UNCHANGED <<loopVars, refs, phase, sent, closed>>

\* The deleter of each task that was never run, with its deleteReferenceTask.
DeleteRest ==
    /\ Queue!DeleteRest
    /\ refs' = refs \ ToSet(tasks)
    /\ UNCHANGED <<loopVars, phase, sent, closed>>

Over == Queue!Over /\ UNCHANGED vars

-----------------------------------------------------------------------------
Init ==
    /\ Queue!Init
    /\ conn = [n \in Node |-> NoConn]
    /\ made = 0
    /\ context = [n \in Node |-> NoContext]
    /\ loop = Idle
    /\ refs = {}
    /\ request = [t \in Task |-> NoContext]
    /\ canceled = {}
    /\ phase = [w \in Worker |-> "begin"]
    /\ sent = {}
    /\ closed = {}

LoopStep == CancelTask \/ Incomplete \/ Reject \/ NoMemory \/ NewTask

WorkerStep(w) ==
    /\ Queue!Alive
    /\ Take(w) \/ Begin(w) \/ Respond(w) \/ Close(w) \/ Delete(w)

Next ==
    \/ \E n \in Node : ConnectionUp(n) \/ ConnectionDown(n) \/ Message(n)
    \/ LoopStep
    \/ \E w \in Worker : WorkerStep(w) \/ (Queue!Alive /\ Wake(w))
    \/ Construct \/ Destroy \/ Join \/ DeleteRest
    \/ Over

Spec == Init /\ [][Next]_vars

-----------------------------------------------------------------------------
(* Safety.                                                                  *)

\* Every variable of the server has its type.
TypeOK ==
    /\ Queue!TypeOK
    /\ conn \in [Node -> Conn \cup {NoConn}]
    /\ made \in 0..MaxConns
    /\ context \in [Node -> Context \cup {NoContext}]
    /\ loop = Idle \/ \E n \in Node : loop \in {In("message", n), In("cancel", n)}
    /\ refs \subseteq pushed /\ canceled \subseteq pushed /\ sent \subseteq pushed
    /\ request \in [Task -> Request \cup {NoContext}]
    /\ \A t \in pushed : request[t] \in Request
    /\ phase \in [Worker -> {"begin", "respond", "close"}]
    /\ closed \subseteq Conn

\* m_tasks holds the tasks that exist, from their constructor to their destructor,
\* whichever thread runs it: cancelTask never writes to a deleted task.
ReferencesAreLive == refs = pushed \ ToSet(freed)

\* A task is cancelled exactly if its connection is gone, however many tasks the
\* connection left, wherever they are, and whether its node is connected again.
CancelIsExact ==
    \A t \in refs : loop # In("cancel", request[t].node) =>
        (t \in canceled <=> request[t].conn # conn[request[t].node])

\* A node has a context exactly while it is connected, and it is one of that
\* connection: no parse state outlives the connection it came from.
ContextIsOfConnection ==
    \A n \in Node : IF conn[n] = NoConn THEN context[n] = NoContext
                    ELSE context[n] # NoContext /\ context[n].conn = conn[n]

\* A response overtakes that of an earlier request of its connection only if
\* another worker is at that request: none is passed over in the queue.
OvertakesOnlyRunning ==
    \A t \in sent : \A s \in 1..(t - 1) :
        request[s].conn = request[t].conn =>
            s \in sent \cup canceled \/ \E w \in Worker : held[w] = s

\* A connection whose input cannot be made into requests has been told to close
\* by the time the callback returns.
RejectedIsClosed ==
    \A n \in Node :
        context[n] # NoContext /\ loop # In("message", n)
            /\ (context[n].state # "parsing" \/ context[n].input # <<>>)
        => conn[n] \in closed

=============================================================================
