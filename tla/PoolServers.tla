----------------------------- MODULE PoolServers -----------------------------
(***************************************************************************)
(* The bound ports of CnetworkPool (src/network_pool.cpp): the bind loop   *)
(* and the UDP half of the send loop of on_wakeup, the servers half of its *)
(* exit branch, and the life of a listening Ctcp or a Cudp                 *)
(* (src/uv_wrapper.cpp).  All of it runs on the loop thread; each request  *)
(* on_wakeup serves is an action.  libuv may refuse any call.              *)
(***************************************************************************)
EXTENDS Naturals, Sequences, FiniteSets, SequencesExt

CONSTANTS TcpNode, UdpNode,  \* addresses with protocol tcp and udp
          BadNode,           \* addresses with another protocol
          Handle,            \* Ctcp (made without a timer) and Cudp objects
          NoNode, NoHandle,
          MaxMsg             \* bound: messages that are not for tcp nodes

ASSUME ServersAssumption ==
    /\ IsFiniteSet(Handle) /\ IsFiniteSet(UdpNode) /\ NoHandle \notin Handle
    /\ NoNode \notin TcpNode \cup UdpNode \cup BadNode
    /\ TcpNode \cap UdpNode = {} /\ (TcpNode \cup UdpNode) \cap BadNode = {}
    /\ MaxMsg \in Nat

Node == TcpNode \cup UdpNode \cup BadNode

VARIABLES
    tcpServers,  \* m_tcpServers
    udpServers,  \* m_udpServers
    udpIndex,    \* m_udpIndex
    life,        \* of each object: "free", "open" or "closing" (m_closing)
    node,        \* m_node of each object, NoNode when it is free
    inFlight,    \* uv_udp_send requests of each Cudp, oldest first
    status,      \* the last bindStatus reported for each node
    nextMsg,     \* the next message that is not for a tcp node
    ignored,     \* messages discarded without a word
    done,        \* messages whose on_udp_send_done had status 0
    failed,      \* messages reported with udpSendError
    dropped,     \* UDP messages reported with drop
    rejected,    \* messages of another protocol, reported with drop
    uses,        \* messages given to each Cudp since m_udpServers last changed
    exited       \* the exit branch of on_wakeup has run

ports == <<tcpServers, udpServers, life, node, status>>
messages == <<nextMsg, ignored, done, failed, dropped, rejected>>
vars == <<ports, udpIndex, inFlight, messages, uses, exited>>

Free == {h \in Handle : life[h] = "free"}

\* The bound handle of a node, or NoHandle: m_tcpServers.find, or the search of
\* m_udpServers.
ServerOf(n) ==
    IF n \in TcpNode
    THEN tcpServers[n]
    ELSE LET hs == {h \in ToSet(udpServers) : node[h] = n}
         IN  IF hs = {} THEN NoHandle ELSE CHOOSE h \in hs : TRUE

\* m_tcpServers[n] = h, or m_udpServers.push_back(h).
Insert(n, h) ==
    IF n \in TcpNode
    THEN /\ tcpServers' = [tcpServers EXCEPT ![n] = h]
         /\ UNCHANGED <<udpServers, uses>>
    ELSE /\ udpServers' = Append(udpServers, h)
         /\ uses' = [g \in Handle |-> 0]
         /\ UNCHANGED tcpServers

\* The entry of n, whose handle is h, is erased; of a vector, at its place.
Erase(n, h) ==
    IF n \in TcpNode
    THEN /\ tcpServers' = [tcpServers EXCEPT ![n] = NoHandle]
         /\ UNCHANGED <<udpServers, uses>>
    ELSE /\ \E i \in DOMAIN udpServers :
               udpServers[i] = h /\ udpServers' = RemoveAt(udpServers, i)
         /\ uses' = [g \in Handle |-> 0]
         /\ UNCHANGED tcpServers

-----------------------------------------------------------------------------
(* Requests of a batch of on_wakeup.                                       *)

\* Mutant: a handle that could not listen is forgotten, not closed.
BindLeaks(n) ==
    /\ ~exited
    /\ n \in TcpNode \cup UdpNode
    /\ ServerOf(n) = NoHandle
    /\ \/ /\ status' = [status EXCEPT ![n] = FALSE]
          /\ UNCHANGED <<tcpServers, udpServers, life, node, uses>>
       \/ \E h \in Free :
             /\ node' = [node EXCEPT ![h] = n]
             /\ life' = [life EXCEPT ![h] = "open"]
             /\ \/ status' = [status EXCEPT ![n] = TRUE] /\ Insert(n, h)
                \/ /\ status' = [status EXCEPT ![n] = FALSE]
                   /\ UNCHANGED <<tcpServers, udpServers, uses>>
    /\ UNCHANGED <<udpIndex, inFlight, messages, exited>>

\* A bind of a node that is not bound: bindAndListenTcp or bindAndListenUdp.
\* There is no memory or libuv cannot make the handle; or the handle is made but
\* cannot be bound or listened on, and is closed; or the node is bound.
BindNew(n) ==
    /\ ~exited
    /\ n \in TcpNode \cup UdpNode
    /\ ServerOf(n) = NoHandle
    /\ \/ /\ status' = [status EXCEPT ![n] = FALSE]
          /\ UNCHANGED <<tcpServers, udpServers, life, node, uses>>
       \/ \E h \in Free :
             /\ node' = [node EXCEPT ![h] = n]
             /\ \/ /\ life' = [life EXCEPT ![h] = "open"]
                   /\ status' = [status EXCEPT ![n] = TRUE]
                   /\ Insert(n, h)
                \/ /\ life' = [life EXCEPT ![h] = "closing"]
                   /\ status' = [status EXCEPT ![n] = FALSE]
                   /\ UNCHANGED <<tcpServers, udpServers, uses>>
    /\ UNCHANGED <<udpIndex, inFlight, messages, exited>>

\* A bind of a bound node, an unbind of an unbound one, or any request for a node
\* of another protocol: only the notification.
BindNotify(n) ==
    /\ ~exited
    /\ \/ n \notin BadNode /\ status' = [status EXCEPT ![n] = ServerOf(n) # NoHandle]
       \/ n \in BadNode /\ status' = [status EXCEPT ![n] = FALSE]
    /\ UNCHANGED <<tcpServers, udpServers, life, node, udpIndex, inFlight, messages,
                   uses, exited>>

\* Mutant: the unbind of a port is not reported.
UnbindSilently(n) ==
    /\ ~exited
    /\ n \notin BadNode
    /\ ServerOf(n) # NoHandle
    /\ life' = [life EXCEPT ![ServerOf(n)] = "closing"]
    /\ Erase(n, ServerOf(n))
    /\ UNCHANGED <<status, node, udpIndex, inFlight, messages, exited>>

\* An unbind of a bound node: erased, reported, closed.
Unbind(n) ==
    /\ ~exited
    /\ n \notin BadNode
    /\ ServerOf(n) # NoHandle
    /\ status' = [status EXCEPT ![n] = FALSE]
    /\ life' = [life EXCEPT ![ServerOf(n)] = "closing"]
    /\ Erase(n, ServerOf(n))
    /\ UNCHANGED <<node, udpIndex, inFlight, messages, exited>>

\* The server whose turn it is.
Sender == udpServers[(udpIndex % Len(udpServers)) + 1]

\* uv_udp_send through h takes the message, or refuses it.
GiveTo(h, taken) ==
    /\ uses' = [uses EXCEPT ![h] = @ + 1]
    /\ IF taken
       THEN inFlight' = [inFlight EXCEPT ![h] = Append(@, nextMsg)] /\ UNCHANGED failed
       ELSE failed' = failed \cup {nextMsg} /\ UNCHANGED inFlight

\* Mutant: a message that libuv refuses does not advance the turn.
SendUdpStays ==
    /\ ~exited
    /\ nextMsg <= MaxMsg
    /\ udpServers # <<>>
    /\ nextMsg' = nextMsg + 1
    /\ \E taken \in BOOLEAN :
          /\ GiveTo(Sender, taken)
          /\ udpIndex' = (udpIndex % Len(udpServers)) + (IF taken THEN 1 ELSE 0)
    /\ UNCHANGED <<ports, ignored, done, dropped, rejected, exited>>

\* A UDP message with a port bound: round robin over the bound ports.
SendUdp ==
    /\ ~exited
    /\ nextMsg <= MaxMsg
    /\ udpServers # <<>>
    /\ nextMsg' = nextMsg + 1
    /\ udpIndex' = (udpIndex % Len(udpServers)) + 1
    /\ \E taken \in BOOLEAN : GiveTo(Sender, taken)
    /\ UNCHANGED <<ports, ignored, done, dropped, rejected, exited>>

\* A UDP message with no port bound, or no memory for the request.
IgnoreUdp ==
    /\ ~exited
    /\ nextMsg <= MaxMsg
    /\ nextMsg' = nextMsg + 1
    /\ ignored' = ignored \cup {nextMsg}
    /\ UNCHANGED <<ports, udpIndex, inFlight, done, failed, dropped, rejected, uses, exited>>

\* A message for a node of another protocol.
SendBad ==
    /\ ~exited
    /\ BadNode # {}
    /\ nextMsg <= MaxMsg
    /\ nextMsg' = nextMsg + 1
    /\ rejected' = rejected \cup {nextMsg}
    /\ UNCHANGED <<ports, udpIndex, inFlight, ignored, done, failed, dropped, uses,
                   exited>>

\* Mutant: the Cudp objects are left to the destruction of the vector.
ExitLeavesUdp ==
    /\ ~exited
    /\ exited' = TRUE
    /\ status' = [n \in Node |-> FALSE]
    /\ life' = [h \in Handle |-> IF \E n \in TcpNode : tcpServers[n] = h
                                 THEN "closing" ELSE life[h]]
    /\ tcpServers' = [n \in TcpNode |-> NoHandle]
    /\ udpServers' = <<>>
    /\ \E end \in nextMsg..MaxMsg + 1 :
          /\ nextMsg' = end
          /\ dropped' = nextMsg..end - 1
    /\ UNCHANGED <<node, udpIndex, inFlight, ignored, done, failed, rejected, uses>>

\* The exit branch: the servers are reported down and closed, the binds copied
\* are answered, and the UDP messages copied, if any, are dropped.
Exit ==
    /\ ~exited
    /\ exited' = TRUE
    /\ status' = [n \in Node |-> FALSE]
    /\ life' = [h \in Handle |->
                   IF h \in ToSet(udpServers) \/ \E n \in TcpNode : tcpServers[n] = h
                   THEN "closing" ELSE life[h]]
    /\ tcpServers' = [n \in TcpNode |-> NoHandle]
    /\ udpServers' = <<>>
    /\ \E end \in nextMsg..MaxMsg + 1 :
          /\ nextMsg' = end
          /\ dropped' = nextMsg..end - 1
    /\ UNCHANGED <<node, udpIndex, inFlight, ignored, done, failed, rejected, uses>>

-----------------------------------------------------------------------------
(* Callbacks.                                                              *)

\* Mutant: a failed message is reported and its request is kept.
OnUdpSendDoneKeeps(h) ==
    /\ inFlight[h] # <<>>
    /\ \/ /\ done' = done \cup {Head(inFlight[h])}
          /\ inFlight' = [inFlight EXCEPT ![h] = Tail(@)]
          /\ UNCHANGED failed
       \/ failed' = failed \cup {Head(inFlight[h])} /\ UNCHANGED <<done, inFlight>>
    /\ UNCHANGED <<ports, udpIndex, nextMsg, ignored, dropped, rejected, uses, exited>>

\* on_udp_send_done, of the oldest request of h: sent, refused by the system, or
\* cancelled by uv_close.
OnUdpSendDone(h) ==
    /\ inFlight[h] # <<>>
    /\ inFlight' = [inFlight EXCEPT ![h] = Tail(@)]
    /\ \/ done' = done \cup {Head(inFlight[h])} /\ UNCHANGED failed
       \/ failed' = failed \cup {Head(inFlight[h])} /\ UNCHANGED done
    /\ UNCHANGED <<ports, udpIndex, nextMsg, ignored, dropped, rejected, uses, exited>>

\* The close callback deletes the object; libuv calls it after those of the
\* requests of the handle.
OnClosed(h) ==
    /\ life[h] = "closing"
    /\ inFlight[h] = <<>>
    /\ life' = [life EXCEPT ![h] = "free"]
    /\ node' = [node EXCEPT ![h] = NoNode]
    /\ UNCHANGED <<tcpServers, udpServers, status, udpIndex, inFlight, messages,
                   uses, exited>>

\* uv_run has nothing left to wait for.
Stopped ==
    /\ exited
    /\ Free = Handle
    /\ UNCHANGED vars

-----------------------------------------------------------------------------
Init ==
    /\ tcpServers = [n \in TcpNode |-> NoHandle]
    /\ udpServers = <<>>
    /\ udpIndex = 0
    /\ life = [h \in Handle |-> "free"]
    /\ node = [h \in Handle |-> NoNode]
    /\ inFlight = [h \in Handle |-> <<>>]
    /\ status = [n \in Node |-> FALSE]
    /\ nextMsg = 1
    /\ ignored = {}
    /\ done = {}
    /\ failed = {}
    /\ dropped = {}
    /\ rejected = {}
    /\ uses = [h \in Handle |-> 0]
    /\ exited = FALSE

Callback == \E h \in Handle : OnUdpSendDone(h) \/ OnClosed(h)

Next ==
    \/ \E n \in Node : BindNew(n) \/ BindNotify(n) \/ Unbind(n)
    \/ SendUdp
    \/ IgnoreUdp
    \/ SendBad
    \/ Exit
    \/ Callback
    \/ Stopped

Spec == Init /\ [][Next]_vars

\* libuv completes the requests and the closes it has accepted.
FairSpec ==
    /\ Spec
    /\ \A h \in Handle : WF_vars(OnUdpSendDone(h)) /\ WF_vars(OnClosed(h))

-----------------------------------------------------------------------------
(* Safety.                                                                 *)

\* Every variable has its type; m_udpIndex, an int, never passes the number of ports.
TypeOK ==
    /\ tcpServers \in [TcpNode -> Handle \cup {NoHandle}]
    /\ udpServers \in Seq(Handle)
    /\ udpIndex \in 0..Cardinality(UdpNode)
    /\ life \in [Handle -> {"free", "open", "closing"}]
    /\ node \in [Handle -> Node \cup {NoNode}]
    /\ inFlight \in [Handle -> Seq(1..MaxMsg)]
    /\ status \in [Node -> BOOLEAN]
    /\ nextMsg \in 1..MaxMsg + 1
    /\ {ignored, done, failed, dropped, rejected} \subseteq SUBSET (1..MaxMsg)
    /\ uses \in [Handle -> 0..MaxMsg]
    /\ exited \in BOOLEAN

\* The servers are the open handles: an entry never outlives its handle, no open
\* handle is lost, no node is bound twice, and an object is not deleted while
\* libuv holds requests of it.
ServersAreOpenHandles ==
    /\ \A n \in Node \ BadNode : ServerOf(n) # NoHandle =>
          life[ServerOf(n)] = "open" /\ node[ServerOf(n)] = n
    /\ \A h \in Handle : life[h] = "open" => ServerOf(node[h]) = h
    /\ \A i, j \in DOMAIN udpServers : i # j => node[udpServers[i]] # node[udpServers[j]]
    /\ \A h \in Free : inFlight[h] = <<>>

\* What bindStatus last said of a node is what is so, at exit too.
BindStatusIsTrue ==
    \A n \in Node : status[n] <=> n \notin BadNode /\ ServerOf(n) # NoHandle

\* While the bound UDP ports stay the same, none is used twice more than another,
\* wherever m_udpIndex stood when they last changed.
RoundRobin ==
    \A h, g \in ToSet(udpServers) : uses[h] <= uses[g] + 1

\* A message handed in is with libuv, or was settled in one way, once.
UdpAccounted ==
    \A m \in 1..MaxMsg :
        LET flying == {h \in Handle : m \in ToSet(inFlight[h])}
            fates == {f \in {"ignored", "done", "failed", "dropped", "rejected"} :
                         \/ f = "ignored" /\ m \in ignored
                         \/ f = "done" /\ m \in done
                         \/ f = "failed" /\ m \in failed
                         \/ f = "dropped" /\ m \in dropped
                         \/ f = "rejected" /\ m \in rejected}
        IN  Cardinality(flying) + Cardinality(fates) = IF m < nextMsg THEN 1 ELSE 0

-----------------------------------------------------------------------------
(* Liveness.                                                               *)

\* The exit branch closes every handle, so that uv_run can return.
LoopEnds == exited ~> Free = Handle
=============================================================================
