----------------------------- MODULE TcpEngine -----------------------------
(***************************************************************************)
(* The TCP connection engine of CnetworkPool: everything the loop thread   *)
(* does with TCP connections (src/network_pool.cpp) and with the object    *)
(* that owns a connection's socket and timer (class Ctcp,                  *)
(* src/uv_wrapper.cpp).  One action is one libuv callback, or one request  *)
(* processed by on_wakeup; the loop thread runs them one at a time.        *)
(*                                                                         *)
(* Messages are numbered in the order in which on_wakeup takes them.  A    *)
(* Conn is the address of a Ctcp: it is reused once the object is deleted. *)
(***************************************************************************)
EXTENDS Naturals, Sequences, FiniteSets, SequencesExt

CONSTANTS Node,     \* remote TCP addresses (CnetworkNode)
          Conn,     \* addresses of Ctcp objects
          NoNode,   \* the node of a Ctcp whose m_node was never set
          NoConn,   \* nullptr / no entry in m_node2stream
          MaxMsg    \* bound: messages handed to on_wakeup in one behaviour

ASSUME ConstantsAssumption ==
    /\ NoNode \notin Node
    /\ NoConn \notin Conn
    /\ MaxMsg \in Nat

VARIABLES
    node2stream,  \* m_node2stream: started connection of each node
    connecting,   \* m_connecting: outgoing connections not yet answered
    waitingSend,  \* m_waitingSend: messages waiting for a connection (<<>> = no entry)
    tcp,          \* every Ctcp and the libuv requests outstanding on it
    up,           \* last connectionStatus reported to the application
    nextMsg,      \* messages taken by on_wakeup so far
    sent,         \* successful write completions, per message
    dropped,      \* drop notifications, per message
    exited        \* the exit branch of on_wakeup has run

vars == <<node2stream, connecting, waitingSend, tcp, up, nextMsg, sent, dropped, exited>>

Msg == 1..MaxMsg

-----------------------------------------------------------------------------
(* The Ctcp object: pure functions from an object to the object after.     *)

\* timer: which timeout is armed.  writes: outstanding uv_write requests, each
\* with its messages; the last `queued` of them are still in write_queue_size.
TcpObject ==
    [node : Node \cup {NoNode}, tcpInited : BOOLEAN, timerInited : BOOLEAN,
     closing : BOOLEAN, shutdown : BOOLEAN, timer : {"off", "connect", "idle", "send"},
     reading : BOOLEAN, connectReq : BOOLEAN, shutdownReq : BOOLEAN,
     writes : Seq(Seq(Msg)), queued : Nat]

FreeTcp ==
    [node |-> NoNode, tcpInited |-> FALSE, timerInited |-> FALSE,
     closing |-> FALSE, shutdown |-> FALSE, timer |-> "off",
     reading |-> FALSE, connectReq |-> FALSE, shutdownReq |-> FALSE,
     writes |-> <<>>, queued |-> 0]

\* Ctcp::alloc, then the node assigned by the caller.
NewTcp(n) == [FreeTcp EXCEPT !.node = n, !.tcpInited = TRUE, !.timerInited = TRUE]

\* Ctcp::close_set_nullptr on an initialised object: idempotent; uv_close stops
\* the timer and the reads, the requests stay outstanding until cancelled.
CloseTcp(o) == [o EXCEPT !.closing = TRUE, !.timer = "off", !.reading = FALSE]

\* Ctcp::alloc failing after uv_tcp_init: closed before it is handed out.
HalfBuilt == {[CloseTcp(NewTcp(NoNode)) EXCEPT !.timerInited = t] : t \in BOOLEAN}

\* Ctcp::shutdown_and_close_set_nullptr: the uv_shutdown request, or close when
\* it cannot be allocated or started.
ShutdownOrClose(o) ==
    IF o.closing \/ o.shutdown
    THEN {o}
    ELSE {[o EXCEPT !.shutdown = TRUE, !.shutdownReq = TRUE], CloseTcp(o)}

Live(c) == tcp[c].tcpInited \/ tcp[c].timerInited
Open(c) == Live(c) /\ ~tcp[c].closing

\* The messages in the outstanding writes of c, and those waiting for n.
Carried(c) == UNION {ToSet(w) : w \in ToSet(tcp[c].writes)}
Waiting(n) == ToSet(waitingSend[n])

-----------------------------------------------------------------------------
(* Helpers of CnetworkPool.                                                *)

Count(counter, S) == [m \in Msg |-> IF m \in S THEN counter[m] + 1 ELSE counter[m]]

\* Mutant: the map entry survives the connection.
ShutdownKeepsEntry(c, after, bAlwaysNotify, lost) ==
    LET n == after.node IN
    /\ waitingSend' = [waitingSend EXCEPT ![n] = <<>>]
    /\ dropped' = Count(dropped, lost \cup Waiting(n))
    /\ tcp' = [tcp EXCEPT ![c] = after]
    /\ UNCHANGED <<node2stream, up>>

\* Mutant: no dropWaiting.
ShutdownKeepsWaiting(c, after, bAlwaysNotify, lost) ==
    LET n == after.node IN
    /\ node2stream' = [node2stream EXCEPT ![n] = NoConn]
    /\ up' = [up EXCEPT ![n] = @ /\ node2stream[n] = NoConn /\ ~bAlwaysNotify]
    /\ dropped' = Count(dropped, lost)
    /\ tcp' = [tcp EXCEPT ![c] = after]
    /\ UNCHANGED waitingSend

\* Mutant: connectionStatus only for a failed connect.
ShutdownUnreported(c, after, bAlwaysNotify, lost) ==
    LET n == after.node IN
    /\ node2stream' = [node2stream EXCEPT ![n] = NoConn]
    /\ up' = [up EXCEPT ![n] = @ /\ ~bAlwaysNotify]
    /\ waitingSend' = [waitingSend EXCEPT ![n] = <<>>]
    /\ dropped' = Count(dropped, lost \cup Waiting(n))
    /\ tcp' = [tcp EXCEPT ![c] = after]

\* shutdownTcpConnection_set_nullptr on connection c, whose object becomes
\* `after`: the map entry and the waiting queue of its NODE go, whichever
\* connection they belong to.  `lost` are messages the caller drops itself.
ShutdownTcpConnection(c, after, bAlwaysNotify, lost) ==
    LET n == after.node IN
    /\ node2stream' = [node2stream EXCEPT ![n] = NoConn]
    /\ up' = [up EXCEPT ![n] = @ /\ node2stream[n] = NoConn /\ ~bAlwaysNotify]
    /\ waitingSend' = [waitingSend EXCEPT ![n] = <<>>]
    /\ dropped' = Count(dropped, lost \cup Waiting(n))
    /\ tcp' = [tcp EXCEPT ![c] = after]

\* getWriteFromWaitingByNode and the uv_write of startupTcpConnection on c,
\* already in the map with object o, for a non-empty waiting queue.
SendWaiting(c, o) ==
    LET n == o.node IN
    \/ \* one request carries the whole queue
       /\ node2stream' = [node2stream EXCEPT ![n] = c]
       /\ up' = [up EXCEPT ![n] = TRUE]
       /\ tcp' = [tcp EXCEPT ![c] = [o EXCEPT !.timer = "send", !.queued = @ + 1,
                                       !.writes = Append(@, waitingSend[n])]]
       /\ UNCHANGED dropped
    \/ \* no memory for the request: the queue is dropped, the connection stays
       /\ node2stream' = [node2stream EXCEPT ![n] = c]
       /\ up' = [up EXCEPT ![n] = TRUE]
       /\ tcp' = [tcp EXCEPT ![c] = o]
       /\ dropped' = Count(dropped, Waiting(n))
    \/ \* uv_timer_start or uv_write fails: up, then down again at once
       /\ up' = [up EXCEPT ![n] = FALSE]
       /\ tcp' = [tcp EXCEPT ![c] = CloseTcp(o)]
       /\ dropped' = Count(dropped, Waiting(n))
       /\ UNCHANGED node2stream

\* Mutant: the waiting queue is not flushed when the connection starts.
StartupWithoutFlush(c, o) ==
    LET n == o.node IN
    /\ node2stream[n] = NoConn
    /\ node2stream' = [node2stream EXCEPT ![n] = c]
    /\ up' = [up EXCEPT ![n] = TRUE]
    /\ tcp' = [tcp EXCEPT ![c] = o]
    /\ UNCHANGED <<waitingSend, dropped>>

\* startupTcpConnection_may_set_nullptr: c, with object o, has become usable.
StartupTcpConnection(c, o) ==
    LET n == o.node IN
    \/ /\ node2stream[n] # NoConn   \* the insert fails: reject the connection
       /\ tcp' = [tcp EXCEPT ![c] = CloseTcp(o)]
       /\ UNCHANGED <<node2stream, up, waitingSend, dropped>>
    \/ /\ node2stream[n] = NoConn
       /\ waitingSend[n] = <<>>
       /\ node2stream' = [node2stream EXCEPT ![n] = c]
       /\ up' = [up EXCEPT ![n] = TRUE]
       /\ tcp' = [tcp EXCEPT ![c] = o]
       /\ UNCHANGED <<waitingSend, dropped>>
    \/ /\ node2stream[n] = NoConn
       /\ waitingSend[n] # <<>>
       /\ waitingSend' = [waitingSend EXCEPT ![n] = <<>>]
       /\ SendWaiting(c, o)

-----------------------------------------------------------------------------
(* Requests processed by on_wakeup.                                        *)

\* Mutant: connectTcp does not start the connect timeout.
SendConnectUntimed(n, m) ==
    /\ node2stream[n] = NoConn
    /\ waitingSend[n] = <<>>
    /\ \E c \in Conn :
         /\ ~Live(c)
         /\ tcp' = [tcp EXCEPT ![c] = [NewTcp(n) EXCEPT !.connectReq = TRUE]]
         /\ connecting' = connecting \cup {c}
         /\ waitingSend' = [waitingSend EXCEPT ![n] = <<m>>]
    /\ UNCHANGED <<node2stream, up, sent, dropped>>

\* The send loop, no stream and nothing waiting: connectTcp.
SendConnect(n, m) ==
    /\ node2stream[n] = NoConn
    /\ waitingSend[n] = <<>>
    /\ \/ \E c \in Conn :
            /\ ~Live(c)
            /\ tcp' = [tcp EXCEPT ![c] = [NewTcp(n) EXCEPT !.timer = "connect",
                                                         !.connectReq = TRUE]]
            /\ connecting' = connecting \cup {c}
            /\ waitingSend' = [waitingSend EXCEPT ![n] = <<m>>]
            /\ UNCHANGED <<up, dropped>>
       \/ /\ \/ UNCHANGED tcp
             \/ \E c \in Conn : /\ ~Live(c)
                                /\ \E o \in HalfBuilt \cup {CloseTcp(NewTcp(n))} :
                                       tcp' = [tcp EXCEPT ![c] = o]
          /\ up' = [up EXCEPT ![n] = FALSE]
          /\ dropped' = Count(dropped, {m})
          /\ UNCHANGED <<connecting, waitingSend>>
    /\ UNCHANGED <<node2stream, sent>>

\* No stream, but an earlier message already started a connect: wait with it.
SendWait(n, m) ==
    /\ node2stream[n] = NoConn
    /\ waitingSend[n] # <<>>
    /\ waitingSend' = [waitingSend EXCEPT ![n] = Append(@, m)]
    /\ UNCHANGED <<node2stream, connecting, tcp, up, sent, dropped>>

\* Nowhere to send it (no stream and no auto connect) or no memory for the
\* write request: drop.
SendDrop(n, m, bAutoConnect) ==
    /\ \/ node2stream[n] = NoConn /\ waitingSend[n] = <<>> /\ ~bAutoConnect
       \/ node2stream[n] # NoConn
    /\ dropped' = Count(dropped, {m})
    /\ UNCHANGED <<node2stream, connecting, waitingSend, tcp, up, sent>>

\* Write on the started connection, or shut it down when that fails.
SendWrite(n, m) ==
    LET c == node2stream[n]
        o == tcp[c] IN
    /\ c # NoConn
    /\ \/ /\ tcp' = [tcp EXCEPT ![c] = [o EXCEPT !.timer = "send", !.queued = @ + 1,
                                                 !.writes = Append(@, <<m>>)]]
          /\ UNCHANGED <<node2stream, up, waitingSend, dropped>>
       \/ ShutdownTcpConnection(c, CloseTcp(o), FALSE, {m})
    /\ UNCHANGED <<connecting, sent>>

\* One request of the send loop.
SendTcp(n, bAutoConnect) ==
    LET m == nextMsg + 1 IN
    /\ ~exited
    /\ nextMsg < MaxMsg
    /\ nextMsg' = m
    /\ \/ bAutoConnect /\ SendConnect(n, m)
       \/ SendWait(n, m)
       \/ SendDrop(n, m, bAutoConnect)
       \/ SendWrite(n, m)
    /\ UNCHANGED exited

\* Mutant: a graceful close keeps the idle timeout.
CloseNodeUntimed(n, bForceClose) ==
    LET c == node2stream[n] IN
    /\ ~exited
    /\ c # NoConn
    /\ \E after \in IF bForceClose THEN {CloseTcp(tcp[c])} ELSE ShutdownOrClose(tcp[c]) :
           ShutdownTcpConnection(c, after, FALSE, {})
    /\ UNCHANGED <<connecting, nextMsg, sent, exited>>

\* One request of the close loop; without a started connection it does nothing.
CloseNode(n, bForceClose) ==
    LET c == node2stream[n] IN
    /\ ~exited
    /\ c # NoConn
    /\ \/ ShutdownTcpConnection(c, CloseTcp(tcp[c]), FALSE, {})
       \/ /\ ~bForceClose
          /\ \E after \in ShutdownOrClose([tcp[c] EXCEPT !.timer = "send"]) :
                 ShutdownTcpConnection(c, after, FALSE, {})
    /\ UNCHANGED <<connecting, nextMsg, sent, exited>>

\* Mutant: the pending connects are forgotten, not closed.
ExitForgetsConnecting ==
    LET mapped == {node2stream[n] : n \in Node} IN
    /\ ~exited
    /\ exited' = TRUE
    /\ tcp' = [c \in Conn |-> IF c \in mapped THEN CloseTcp(tcp[c]) ELSE tcp[c]]
    /\ up' = [n \in Node |-> FALSE]
    /\ node2stream' = [n \in Node |-> NoConn]
    /\ connecting' = {}
    /\ waitingSend' = [n \in Node |-> <<>>]
    /\ dropped' = Count(dropped, UNION {Waiting(n) : n \in Node})
    /\ UNCHANGED <<nextMsg, sent>>

\* The exit branch: only what is in m_node2stream and m_connecting is closed.
Exit ==
    LET mapped == {node2stream[n] : n \in Node} IN
    /\ ~exited
    /\ exited' = TRUE
    /\ tcp' = [c \in Conn |-> IF c \in mapped \cup connecting THEN CloseTcp(tcp[c]) ELSE tcp[c]]
    /\ up' = [n \in Node |-> /\ up[n]
                             /\ node2stream[n] = NoConn
                             /\ \A c \in connecting : tcp[c].node # n]
    /\ node2stream' = [n \in Node |-> NoConn]
    /\ connecting' = {}
    /\ waitingSend' = [n \in Node |-> <<>>]
    /\ dropped' = Count(dropped, UNION {Waiting(n) : n \in Node})
    /\ UNCHANGED <<nextMsg, sent>>

-----------------------------------------------------------------------------
(* libuv callbacks.                                                        *)

\* on_new_connection: peer n connected to one of our servers, all of which are
\* closed on exit.
OnNewConnection(n) ==
    /\ ~exited
    /\ \E c \in Conn :
         /\ ~Live(c)
         /\ \/ \* allocation, accept or getpeername fails, remote port reuse,
               \* or the timer or the read cannot be started
               /\ \E o \in HalfBuilt \cup {CloseTcp(NewTcp(n))} : tcp' = [tcp EXCEPT ![c] = o]
               /\ UNCHANGED <<node2stream, up, waitingSend, dropped>>
            \/ /\ node2stream[n] = NoConn
               /\ StartupTcpConnection(c, [NewTcp(n) EXCEPT !.timer = "idle", !.reading = TRUE])
    /\ UNCHANGED <<connecting, nextMsg, sent, exited>>

\* on_connect_done.  A connection closed meanwhile gets UV_ECANCELED.
OnConnectDone(c) ==
    LET o == [tcp[c] EXCEPT !.connectReq = FALSE] IN
    /\ tcp[c].connectReq
    /\ connecting' = connecting \ {c}
    /\ \/ ShutdownTcpConnection(c, CloseTcp(o), TRUE, {})
       \/ /\ ~o.closing
          /\ StartupTcpConnection(c, [o EXCEPT !.timer = "idle", !.reading = TRUE])
    /\ UNCHANGED <<nextMsg, sent, exited>>

\* on_tcp_read with data: restart the idle timer unless bytes are still queued;
\* shut down if that fails.  (On a connection in shutdown, or with bytes
\* queued, data only goes to the application.)
OnReadData(c) ==
    /\ tcp[c].reading
    /\ ~tcp[c].shutdown
    /\ tcp[c].queued = 0
    /\ \/ /\ tcp' = [tcp EXCEPT ![c].timer = "idle"]
          /\ UNCHANGED <<node2stream, up, waitingSend, dropped>>
       \/ ShutdownTcpConnection(c, CloseTcp(tcp[c]), FALSE, {})
    /\ UNCHANGED <<connecting, nextMsg, sent, exited>>

\* on_tcp_read with EOF or an error.
OnReadEnd(c) ==
    /\ tcp[c].reading
    /\ ShutdownTcpConnection(c, CloseTcp(tcp[c]), FALSE, {})
    /\ UNCHANGED <<connecting, nextMsg, sent, exited>>

\* The kernel takes the bytes of the oldest queued write of an open connection.
Flush(c) ==
    /\ ~tcp[c].closing
    /\ tcp[c].queued > 0
    /\ tcp' = [tcp EXCEPT ![c].queued = @ - 1]
    /\ UNCHANGED <<node2stream, connecting, waitingSend, up, nextMsg, sent, dropped, exited>>

\* on_tcp_write_done, status 0: the oldest write had been flushed.
OnWriteSent(c) ==
    LET o == [tcp[c] EXCEPT !.writes = Tail(@)]
    IN
    /\ tcp[c].queued < Len(tcp[c].writes)
    /\ sent' = Count(sent, ToSet(Head(tcp[c].writes)))
    /\ \/ /\ o.closing \/ o.shutdown \/ o.queued > 0
          /\ tcp' = [tcp EXCEPT ![c] = o]
          /\ UNCHANGED <<node2stream, up, waitingSend, dropped>>
       \/ /\ ~o.closing /\ ~o.shutdown /\ o.queued = 0
          /\ \/ /\ tcp' = [tcp EXCEPT ![c] = [o EXCEPT !.timer = "idle"]]
                /\ UNCHANGED <<node2stream, up, waitingSend, dropped>>
             \/ ShutdownTcpConnection(c, CloseTcp(o), FALSE, {})
    /\ UNCHANGED <<connecting, nextMsg, exited>>

\* Mutant: a failed write is not reported as dropped.
WriteFailsSilently(c) ==
    LET o == [tcp[c] EXCEPT !.writes = Tail(@), !.queued = @ - 1]
    IN
    /\ tcp[c].writes # <<>>
    /\ tcp[c].queued = Len(tcp[c].writes)
    /\ ShutdownTcpConnection(c, CloseTcp(o), FALSE, {})
    /\ UNCHANGED <<connecting, nextMsg, sent, exited>>

\* on_tcp_write_done with an error, UV_ECANCELED after uv_close included.
OnWriteFailed(c) ==
    LET o == [tcp[c] EXCEPT !.writes = Tail(@), !.queued = @ - 1]
    IN
    /\ tcp[c].writes # <<>>
    /\ tcp[c].queued = Len(tcp[c].writes)
    /\ ShutdownTcpConnection(c, CloseTcp(o), FALSE, ToSet(Head(tcp[c].writes)))
    /\ UNCHANGED <<connecting, nextMsg, sent, exited>>

\* on_tcp_timeout: the timers are one-shot.
OnTimeout(c) ==
    /\ tcp[c].timer # "off"
    /\ ShutdownTcpConnection(c, CloseTcp(tcp[c]), FALSE, {})
    /\ UNCHANGED <<connecting, nextMsg, sent, exited>>

\* Mutant: the shutdown request is never released.
ShutdownDoneLeaks(c) ==
    /\ tcp[c].shutdownReq
    /\ tcp[c].writes = <<>>
    /\ tcp' = [tcp EXCEPT ![c] = CloseTcp(tcp[c])]
    /\ UNCHANGED <<node2stream, connecting, waitingSend, up, nextMsg, sent, dropped, exited>>

\* The uv_shutdown callback: after the last write, or cancelled by uv_close.
OnShutdownDone(c) ==
    /\ tcp[c].shutdownReq
    /\ tcp[c].writes = <<>>
    /\ tcp' = [tcp EXCEPT ![c] = CloseTcp([tcp[c] EXCEPT !.shutdownReq = FALSE])]
    /\ UNCHANGED <<node2stream, connecting, waitingSend, up, nextMsg, sent, dropped, exited>>

\* The two uv_close callbacks; whichever runs last deletes the object.  libuv
\* answers every request outstanding on the stream before its close callback.
OnTcpClosed(c) ==
    /\ tcp[c].closing /\ tcp[c].tcpInited
    /\ ~tcp[c].connectReq /\ ~tcp[c].shutdownReq /\ tcp[c].writes = <<>>
    /\ tcp' = [tcp EXCEPT ![c] = IF @.timerInited THEN [@ EXCEPT !.tcpInited = FALSE]
                                                  ELSE FreeTcp]
    /\ UNCHANGED <<node2stream, connecting, waitingSend, up, nextMsg, sent, dropped, exited>>

\* Mutant: the timer's close callback deletes the object in any case.
TimerClosedDeletes(c) ==
    /\ tcp[c].closing /\ tcp[c].timerInited
    /\ tcp' = [tcp EXCEPT ![c] = FreeTcp]
    /\ UNCHANGED <<node2stream, connecting, waitingSend, up, nextMsg, sent, dropped, exited>>

OnTimerClosed(c) ==
    /\ tcp[c].closing /\ tcp[c].timerInited
    /\ tcp' = [tcp EXCEPT ![c] = IF @.tcpInited THEN [@ EXCEPT !.timerInited = FALSE]
                                                ELSE FreeTcp]
    /\ UNCHANGED <<node2stream, connecting, waitingSend, up, nextMsg, sent, dropped, exited>>

\* uv_run returns: the pool has exited and no handle is left.
Stopped ==
    /\ exited
    /\ \A c \in Conn : ~Live(c)
    /\ UNCHANGED vars

-----------------------------------------------------------------------------
Init ==
    /\ node2stream = [n \in Node |-> NoConn]
    /\ connecting = {}
    /\ waitingSend = [n \in Node |-> <<>>]
    /\ tcp = [c \in Conn |-> FreeTcp]
    /\ up = [n \in Node |-> FALSE]
    /\ nextMsg = 0
    /\ sent = [m \in Msg |-> 0]
    /\ dropped = [m \in Msg |-> 0]
    /\ exited = FALSE

Request ==
    \/ \E n \in Node, b \in BOOLEAN : SendTcp(n, b) \/ CloseNode(n, b)
    \/ Exit

Callback(c) ==
    \/ OnConnectDone(c)
    \/ OnReadData(c)
    \/ OnReadEnd(c)
    \/ Flush(c)
    \/ OnWriteSent(c)
    \/ OnWriteFailed(c)
    \/ OnTimeout(c)
    \/ OnShutdownDone(c)
    \/ OnTcpClosed(c)
    \/ OnTimerClosed(c)

Next ==
    \/ Request
    \/ \E n \in Node : OnNewConnection(n)
    \/ \E c \in Conn : Callback(c)
    \/ Stopped

Spec == Init /\ [][Next]_vars

-----------------------------------------------------------------------------
(* Safety.                                                                 *)

\* Every variable has its type.
TypeOK ==
    /\ node2stream \in [Node -> Conn \cup {NoConn}]
    /\ connecting \subseteq Conn
    /\ waitingSend \in [Node -> Seq(Msg)]
    /\ tcp \in [Conn -> TcpObject]
    /\ up \in [Node -> BOOLEAN]
    /\ nextMsg \in 0..MaxMsg
    /\ sent \in [Msg -> Nat]
    /\ dropped \in [Msg -> Nat]
    /\ exited \in BOOLEAN

\* m_node2stream never points at a Ctcp that is deleted, closing, shut down,
\* still connecting, of another node, not reading or without a running timer:
\* what getStreamByNode returns can be written to (on_wakeup writes, shuts down
\* and times it without any check of its state).
MapIsUsable ==
    \A n \in Node : node2stream[n] # NoConn =>
        LET o == tcp[node2stream[n]] IN
        /\ o.tcpInited /\ o.timerInited /\ ~o.closing /\ ~o.shutdown
        /\ ~o.connectReq /\ node2stream[n] \notin connecting
        /\ o.node = n /\ o.reading /\ o.timer # "off"

\* "If a connection is startup, no data will be written to waiting queue": a
\* message waits only while its node has no started connection, and only while
\* an outgoing connection to that node is pending, whose callback or timeout
\* will empty the queue.  Nothing else would ever send or drop it.
WaitingHasConnect ==
    \A n \in Node : waitingSend[n] # <<>> =>
        /\ node2stream[n] = NoConn
        /\ \E c \in connecting : /\ tcp[c].node = n
                                 /\ tcp[c].connectReq
                                 /\ ~tcp[c].closing

\* What the application was last told about a node (connectionStatus) is what
\* the map says, whatever callbacks of old connections to the node ran since.
StatusMatchesMap == \A n \in Node : up[n] <=> node2stream[n] # NoConn

\* Each message taken by on_wakeup is in exactly one place: waiting for one
\* node, outstanding on one connection, sent, or reported dropped once.  It is
\* never lost, sent or dropped twice, or freed while libuv still holds it.
Accounted ==
    \A m \in Msg :
        Cardinality({n \in Node : m \in Waiting(n)})
          + Cardinality({c \in Conn : m \in Carried(c)})
          + sent[m] + dropped[m]
        = IF m <= nextMsg THEN 1 ELSE 0

Increasing(s) == \A i, j \in DOMAIN s : i < j => s[i] < s[j]

\* The messages of these writes, each write a sequence of them, are increasing.
InOrder(ws) ==
    \A i \in DOMAIN ws :
        /\ Increasing(ws[i])
        /\ \A j \in DOMAIN ws : i < j =>
              \A m \in ToSet(ws[i]), k \in ToSet(ws[j]) : m < k

\* Messages leave in the order they were handed in: within a connection, within
\* a waiting queue, and between them (a message that waits, or that is on the
\* started connection, is newer than any on an older connection to the node).
SubmissionOrder ==
    /\ \A c \in Conn : InOrder(tcp[c].writes)
    /\ \A n \in Node :
         /\ Increasing(waitingSend[n])
         /\ \A c \in Conn : tcp[c].node = n =>
              /\ \A w \in Waiting(n), m \in Carried(c) : m < w
              /\ node2stream[n] \notin {c, NoConn} =>
                   \A m \in Carried(c), k \in Carried(node2stream[n]) : m < k

\* libuv never calls back into a deleted Ctcp, and no table points at one: an
\* object whose socket handle is closed has no request left, and a deleted one
\* is in neither table.
NothingDangles ==
    \A c \in Conn :
        /\ ~tcp[c].tcpInited => /\ ~tcp[c].connectReq /\ ~tcp[c].shutdownReq
                                /\ tcp[c].writes = <<>>
        /\ ~Live(c) => /\ tcp[c] = FreeTcp
                       /\ c \notin connecting
                       /\ \A n \in Node : node2stream[n] # c

\* Every connection that is not closing will time out: a pending connect has
\* the connect timeout, a graceful close or bytes not yet taken by the kernel
\* the send timeout, an idle one the idle timeout.
DeadlineSet ==
    \A c \in Conn : Open(c) =>
        /\ tcp[c].timer # "off"
        /\ tcp[c].connectReq => tcp[c].timer = "connect"
        /\ tcp[c].shutdown \/ tcp[c].queued > 0 => tcp[c].timer = "send"

\* After the exit branch nothing starts any more: no node is in the map, no
\* message waits, and every pending connect was cancelled, so that none of the
\* late callbacks can report a connection or leave a message behind.
ExitIsFinal ==
    exited => \A c \in Conn, n \in Node :
                /\ node2stream[n] = NoConn
                /\ waitingSend[n] = <<>>
                /\ tcp[c].connectReq => tcp[c].closing

-----------------------------------------------------------------------------
(* Claims of the source that the code does not keep.                       *)

\* network_pool.cpp:717, "This function is idempotent, and can be called any
\* time when tcp is valid(closing is also ok)": a callback of a connection that
\* was already shut down or closed leaves the map alone.
ShutdownIsIdempotent ==
    [][\A c \in Conn :
         (tcp[c].closing \/ tcp[c].shutdown)
         /\ (OnTimeout(c) \/ OnReadEnd(c) \/ OnWriteFailed(c))
         => node2stream' = node2stream]_vars

\* network_pool.h:249, close(): "It waits for pending write requests to complete
\* if bForceClose == false": the peer ending ITS direction (EOF) does not cancel
\* the pending writes of a connection in graceful close.
GracefulCloseWaits ==
    [][\A c \in Conn :
         tcp[c].shutdown /\ tcp[c].writes # <<>> /\ OnReadEnd(c)
         => ~tcp[c].closing']_vars

-----------------------------------------------------------------------------
(* What the application sees of the engine.                                *)

Service == INSTANCE TcpService WITH
    taken <- nextMsg,
    pending <- [n \in Node |->
                   Waiting(n) \cup UNION {Carried(c) : c \in {d \in Conn : tcp[d].node = n}}],
    sent <- {m \in Msg : sent[m] > 0},
    dropped <- {m \in Msg : dropped[m] > 0},
    stopped <- exited

\* The engine keeps the promises of TcpService: each message belongs to its node
\* until it is answered, by whichever connection of that node; a node comes up
\* only before the exit; what one step answers is all of one node.
KeepsService == Service!Spec

-----------------------------------------------------------------------------
(* Liveness.                                                               *)

\* libuv closes what uv_close was called on, answers the requests outstanding
\* on it, and reports writes that completed; an armed timer that nothing resets
\* fires.  Nothing is assumed of the peer or of the network.
Fairness ==
    \A c \in Conn :
        /\ WF_vars(OnTimerClosed(c))
        /\ WF_vars(OnTcpClosed(c))
        /\ WF_vars(tcp[c].closing /\ (OnConnectDone(c) \/ OnWriteFailed(c) \/ OnShutdownDone(c)))
        /\ WF_vars(OnWriteSent(c))
        /\ WF_vars(OnTimeout(c) /\ (tcp[c].timer \in {"connect", "send"}))

FairSpec == Spec /\ Fairness

\* Every Ctcp that is closing, or in graceful close, is deleted: no request or
\* handle keeps it forever, and no silent peer.
ClosingIsFreed == \A c \in Conn : tcp[c].closing \/ tcp[c].shutdown ~> ~Live(c)

\* An orphan: the exit branch did not find it, and it is in no graceful close.
Orphan(c) == exited /\ Open(c) /\ ~tcp[c].shutdown

\* After the exit branch every connection is deleted, so that uv_run can return and
\* the destructor's join with it, unless the peer of an orphan keeps it open for ever:
\* whatever was connecting, in graceful close or closing when the exit came.
ConnectionsEnd ==
    (\A c \in Conn : []<>~Orphan(c)) => (exited ~> \A c \in Conn : ~Live(c))

\* Every message handed in is sent or reported dropped, whatever the peer does.
MessageIsAnswered == \A m \in Msg : nextMsg >= m ~> sent[m] + dropped[m] = 1
=============================================================================
