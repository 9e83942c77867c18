-------------------------- MODULE TcpEngineProofs --------------------------
(***************************************************************************)
(* Proofs about TcpEngine, for every set of nodes and of Ctcp objects and  *)
(* every number of messages.                                               *)
(*                                                                         *)
(* The first part is about connections.  IInv is the inductive invariant.  *)
(* Three lemmas cover almost every action: one for shutdownTcpConnection,  *)
(* one for startupTcpConnection, and one for the handlers that change a    *)
(* single Ctcp and none of the tables.                                     *)
(*                                                                         *)
(* The second part is about messages: TcpEngine implements TcpService, and *)
(* every message is in exactly one place.  Almost every action moves       *)
(* messages of one node: what one connection carried and what waited for   *)
(* its node becomes what is carried, waits, was sent and was dropped.      *)
(* Turnover says so once.  The third part is about the order in which the  *)
(* messages leave.                                                         *)
(***************************************************************************)
EXTENDS TcpEngine, SequenceLemmas, FiniteSetTheorems, TLAPS

-----------------------------------------------------------------------------
(* The inductive invariant.                                                *)

\* What holds of a single Ctcp, whatever tables it is in.
ObjectInv(o) ==
    /\ ~o.tcpInited /\ ~o.timerInited => o = FreeTcp
    /\ o.closing => o.timer = "off" /\ ~o.reading
    /\ (o.tcpInited \/ o.timerInited) /\ ~o.closing =>
          /\ o.tcpInited /\ o.timerInited
          /\ o.node \in Node
          /\ o.timer # "off"
          /\ o.connectReq => o.timer = "connect"
          /\ o.shutdown \/ o.queued > 0 => o.timer = "send"
    /\ o.connectReq => /\ o.tcpInited /\ o.node \in Node
                       /\ ~o.reading /\ ~o.shutdown /\ o.writes = <<>>
    /\ o.shutdownReq => o.tcpInited /\ o.shutdown
    /\ o.writes # <<>> => o.tcpInited /\ o.node \in Node
    /\ o.queued <= Len(o.writes)

\* m_connecting holds exactly the open connections with a connect request,
\* and possibly closing ones whose cancelled request has not been answered.
ConnectingInv ==
    \A c \in Conn :
        /\ c \in connecting => tcp[c].connectReq
        /\ tcp[c].connectReq /\ ~tcp[c].closing => c \in connecting

IInv ==
    /\ TypeOK
    /\ \A c \in Conn : ObjectInv(tcp[c])
    /\ ConnectingInv
    /\ MapIsUsable
    /\ WaitingHasConnect
    /\ StatusMatchesMap
    /\ ExitIsFinal

-----------------------------------------------------------------------------
(* Objects and counters.                                                   *)

\* The drop and sent counters stay counters.
LEMMA CountType ==
    ASSUME NEW counter \in [Msg -> Nat], NEW S
    PROVE  Count(counter, S) \in [Msg -> Nat]
BY DEF Count

\* An unused object, and what the object constructors make, are well-formed.
LEMMA FreeTcpOK == FreeTcp \in TcpObject /\ ObjectInv(FreeTcp)
BY DEF FreeTcp, TcpObject, ObjectInv

\* Closing an initialised object keeps it well-formed.
LEMMA CloseTcpOK ==
    ASSUME NEW o \in TcpObject, o.tcpInited \/ o.timerInited,
           o.connectReq => /\ o.tcpInited /\ o.node \in Node
                           /\ ~o.shutdown /\ o.writes = <<>>,
           o.shutdownReq => o.tcpInited /\ o.shutdown,
           o.writes # <<>> => o.tcpInited /\ o.node \in Node,
           o.queued <= Len(o.writes)
    PROVE  /\ CloseTcp(o) \in TcpObject
           /\ ObjectInv(CloseTcp(o))
           /\ CloseTcp(o).closing
           /\ CloseTcp(o).node = o.node
           /\ CloseTcp(o).connectReq = o.connectReq
BY DEF TcpObject, CloseTcp, ObjectInv

\* A new object is open, without a request, for the node it was given.
LEMMA NewTcpOK ==
    ASSUME NEW n \in Node \cup {NoNode}, NEW o, o = NewTcp(n)
    PROVE  /\ o \in TcpObject
           /\ o.node = n /\ o.tcpInited /\ o.timerInited
           /\ ~o.closing /\ ~o.shutdown /\ ~o.connectReq /\ ~o.shutdownReq
           /\ ~o.reading /\ o.writes = <<>> /\ o.queued = 0
<1>1. FreeTcp \in TcpObject
  BY FreeTcpOK
<1>2. QED
  BY <1>1 DEF NewTcp, FreeTcp, TcpObject

\* An object abandoned by a failed Ctcp::alloc, accept or connect is
\* well-formed, closing and without a request.
LEMMA AbandonedOK ==
    ASSUME NEW n \in Node,
           NEW o \in HalfBuilt \cup {CloseTcp(NewTcp(n))}
    PROVE  o \in TcpObject /\ ObjectInv(o) /\ o.closing /\ ~o.connectReq
<1>1. CASE o = CloseTcp(NewTcp(n))
  BY <1>1, NewTcpOK, CloseTcpOK
<1>2. CASE o \in HalfBuilt
  <2> DEFINE b == NewTcp(NoNode)
  <2>1. PICK t \in BOOLEAN : o = [CloseTcp(b) EXCEPT !.timerInited = t]
    BY <1>2 DEF HalfBuilt
  <2>2. /\ b \in TcpObject /\ b.tcpInited
        /\ ~b.connectReq /\ ~b.shutdownReq /\ b.writes = <<>> /\ b.queued = 0
    BY NewTcpOK
  <2> HIDE DEF b
  <2>3. /\ o \in TcpObject /\ o.tcpInited /\ o.closing
        /\ o.timer = "off" /\ ~o.reading /\ ~o.connectReq /\ ~o.shutdownReq
        /\ o.writes = <<>> /\ o.queued = 0
    BY <2>1, <2>2 DEF CloseTcp, TcpObject
  <2>4. QED
    BY <2>3 DEF ObjectInv
<1>3. QED
  BY <1>1, <1>2

-----------------------------------------------------------------------------
(* Steps that change one Ctcp and none of the tables.                      *)

\* A handler that keeps the tables and replaces the object of c keeps IInv, if
\* it keeps c usable when it is in the map, and its connect request if any.
LEMMA UpdateOne ==
    ASSUME IInv, NEW c \in Conn, NEW o \in TcpObject, ObjectInv(o),
           tcp' = [tcp EXCEPT ![c] = o],
           UNCHANGED <<node2stream, connecting, waitingSend, up, exited>>,
           nextMsg' \in 0..MaxMsg, sent' \in [Msg -> Nat], dropped' \in [Msg -> Nat],
           o.connectReq <=> tcp[c].connectReq,
           o.connectReq => o.closing = tcp[c].closing /\ o.node = tcp[c].node,
           Open(c) /\ ~tcp[c].shutdown =>
               /\ ~o.closing /\ ~o.shutdown
               /\ o.tcpInited /\ o.node = tcp[c].node /\ (o.reading <=> tcp[c].reading)
    PROVE  IInv'
<1> USE DEF IInv
<1>1. TypeOK'
  BY DEF TypeOK
<1>2. (\A d \in Conn : ObjectInv(tcp[d]))'
  BY DEF TypeOK, ObjectInv
<1>3. ConnectingInv'
  BY DEF TypeOK, ConnectingInv
<1>4. MapIsUsable'
  <2> SUFFICES ASSUME NEW n \in Node, node2stream[n] # NoConn
               PROVE  LET d == tcp'[node2stream[n]] IN
                      /\ d.tcpInited /\ d.timerInited /\ ~d.closing /\ ~d.shutdown
                      /\ ~d.connectReq /\ node2stream[n] \notin connecting
                      /\ d.node = n /\ d.reading /\ d.timer # "off"
    BY DEF MapIsUsable
  <2>1. CASE node2stream[n] = c
    BY <2>1 DEF MapIsUsable, TypeOK, Open, Live, ObjectInv
  <2>2. CASE node2stream[n] # c
    BY <2>2 DEF MapIsUsable, TypeOK
  <2>3. QED
    BY <2>1, <2>2
<1>5. WaitingHasConnect'
  BY DEF TypeOK, WaitingHasConnect
<1>6. StatusMatchesMap'
  BY DEF StatusMatchesMap
<1>7. ExitIsFinal'
  BY DEF TypeOK, ExitIsFinal
<1>8. QED
  BY <1>1, <1>2, <1>3, <1>4, <1>5, <1>6, <1>7

-----------------------------------------------------------------------------
(* shutdownTcpConnection.                                                  *)

\* Shutting down a connection keeps IInv, whatever state it is in and whether
\* or not its node's entry and queue are its own; on_connect_done also takes it
\* out of m_connecting.
LEMMA ShutdownKeepsIInv ==
    ASSUME IInv, NEW c \in Conn, NEW after \in TcpObject, ObjectInv(after),
           NEW notify \in BOOLEAN, NEW lost,
           ShutdownTcpConnection(c, after, notify, lost),
           after.node \in Node, after.node = tcp[c].node, Live(c),
           after.closing \/ after.shutdown,
           after.connectReq => tcp[c].connectReq,
           connecting' = IF after.connectReq THEN connecting ELSE connecting \ {c},
           nextMsg' \in 0..MaxMsg, sent' \in [Msg -> Nat], UNCHANGED exited
    PROVE  IInv'
<1> USE DEF IInv
<1> DEFINE n == after.node
<1>1. /\ node2stream' = [node2stream EXCEPT ![n] = NoConn]
      /\ up' = [up EXCEPT ![n] = up[n] /\ node2stream[n] = NoConn /\ ~notify]
      /\ waitingSend' = [waitingSend EXCEPT ![n] = <<>>]
      /\ dropped' \in [Msg -> Nat]
      /\ tcp' = [tcp EXCEPT ![c] = after]
  BY CountType DEF ShutdownTcpConnection, TypeOK
<1>2. TypeOK'
  BY <1>1 DEF TypeOK
<1>3. (\A d \in Conn : ObjectInv(tcp[d]))'
  BY <1>1 DEF TypeOK, ObjectInv
<1>4. ConnectingInv'
  BY <1>1 DEF TypeOK, ConnectingInv, ObjectInv
<1>5. MapIsUsable'
  BY <1>1 DEF TypeOK, MapIsUsable
<1>6. WaitingHasConnect'
  BY <1>1 DEF TypeOK, WaitingHasConnect
<1>7. StatusMatchesMap'
  BY <1>1 DEF TypeOK, StatusMatchesMap
<1>8. ExitIsFinal'
  BY <1>1 DEF TypeOK, ExitIsFinal, ObjectInv
<1>9. QED
  BY <1>2, <1>3, <1>4, <1>5, <1>6, <1>7, <1>8

-----------------------------------------------------------------------------
(* startupTcpConnection.                                                   *)

\* The object of a connection about to start: idle timer, reading, no request.
Ready(o) ==
    /\ o \in TcpObject
    /\ o.node \in Node
    /\ o.tcpInited /\ o.timerInited /\ o.reading /\ o.timer = "idle"
    /\ ~o.closing /\ ~o.shutdown /\ ~o.connectReq /\ ~o.shutdownReq
    /\ o.writes = <<>> /\ o.queued = 0

\* The three results of starting a ready object are well-formed.
LEMMA ReadyOK ==
    ASSUME NEW o, Ready(o)
    PROVE  /\ ObjectInv(o)
           /\ CloseTcp(o) \in TcpObject /\ ObjectInv(CloseTcp(o))
           /\ ~CloseTcp(o).connectReq
BY CloseTcpOK DEF Ready, ObjectInv

\* An object with outstanding writes ws, q of them queued, and the send timer.
Writing(o, ws, q) == [o EXCEPT !.timer = "send", !.queued = q, !.writes = ws]

\* Nothing else of the object changes.
LEMMA WritingOK ==
    ASSUME NEW o \in TcpObject, NEW ws \in Seq(Seq(Msg)), NEW q \in Nat,
           NEW s, s = Writing(o, ws, q)
    PROVE  /\ s \in TcpObject
           /\ s.timer = "send" /\ s.queued = q /\ s.writes = ws
           /\ s.node = o.node /\ (s.tcpInited <=> o.tcpInited)
           /\ (s.timerInited <=> o.timerInited) /\ (s.reading <=> o.reading)
           /\ (s.closing <=> o.closing) /\ (s.shutdown <=> o.shutdown)
           /\ (s.connectReq <=> o.connectReq) /\ (s.shutdownReq <=> o.shutdownReq)
BY DEF Writing, TcpObject

\* A ready object with its waiting queue w in one write request is well-formed,
\* open and usable.
LEMMA SendingOK ==
    ASSUME NEW o, Ready(o), NEW w \in Seq(Msg),
           NEW s, s = Writing(o, Append(o.writes, w), o.queued + 1)
    PROVE  /\ s \in TcpObject /\ ObjectInv(s)
           /\ s.tcpInited /\ s.timerInited /\ s.reading /\ s.timer # "off"
           /\ ~s.closing /\ ~s.shutdown /\ ~s.connectReq /\ s.node = o.node
<1> DEFINE ws == Append(o.writes, w)
<1>1. ws \in Seq(Seq(Msg)) /\ o \in TcpObject /\ o.queued + 1 = 1
  BY DEF Ready
<1>2. Len(ws) = 1 /\ ws # <<>>
  BY DEF Ready
<1>3. s = Writing(o, ws, 1)
  BY <1>1
<1> HIDE DEF ws
<1>4. /\ s \in TcpObject
      /\ s.timer = "send" /\ s.queued = 1 /\ s.writes = ws
      /\ s.node = o.node /\ (s.tcpInited <=> o.tcpInited)
      /\ (s.timerInited <=> o.timerInited) /\ (s.reading <=> o.reading)
      /\ (s.closing <=> o.closing) /\ (s.shutdown <=> o.shutdown)
      /\ (s.connectReq <=> o.connectReq) /\ (s.shutdownReq <=> o.shutdownReq)
  BY <1>1, <1>3, WritingOK
<1>5. /\ s.tcpInited /\ s.timerInited /\ s.reading /\ s.timer # "off"
      /\ ~s.closing /\ ~s.shutdown /\ ~s.connectReq /\ ~s.shutdownReq
      /\ s.node \in Node
  BY <1>4 DEF Ready
<1>6. ObjectInv(s)
  BY <1>2, <1>4, <1>5 DEF ObjectInv
<1>7. QED
  BY <1>4, <1>5, <1>6

\* Starting a connection that is in no table but, before its connect was
\* answered, m_connecting, keeps IInv: rejected when the node already has a
\* connection, else put in the map with its waiting queue flushed or dropped.
LEMMA StartupKeepsIInv ==
    ASSUME IInv, NEW c \in Conn, NEW o, Ready(o),
           StartupTcpConnection(c, o),
           Live(c) => tcp[c].connectReq /\ tcp[c].node = o.node,
           connecting' = connecting \ {c},
           nextMsg' = nextMsg, sent' = sent, ~exited, UNCHANGED exited
    PROVE  IInv'
<1> USE DEF IInv
<1> DEFINE n == o.node
           closed == CloseTcp(o)
<1>1. /\ n \in Node /\ o \in TcpObject /\ ObjectInv(o)
      /\ o.tcpInited /\ o.timerInited /\ o.reading /\ o.timer # "off"
      /\ ~o.closing /\ ~o.shutdown /\ ~o.connectReq
      /\ closed \in TcpObject /\ ObjectInv(closed) /\ ~closed.connectReq
  BY ReadyOK DEF Ready
<1>2. \A d \in Node : node2stream[d] # c
  BY ConstantsAssumption DEF MapIsUsable, Live
<1>3. c \in connecting => tcp[c].node = n
  BY DEF ConnectingInv, ObjectInv, Live
<1> HIDE DEF closed
<1>4. CASE /\ tcp' = [tcp EXCEPT ![c] = closed]
           /\ UNCHANGED <<node2stream, up>>
           /\ waitingSend' = [waitingSend EXCEPT ![n] = <<>>]
           /\ dropped' \in [Msg -> Nat]
  <2>1. TypeOK'
    BY <1>1, <1>4 DEF TypeOK
  <2>2. (\A d \in Conn : ObjectInv(tcp[d]))'
    BY <1>1, <1>4 DEF TypeOK, ObjectInv
  <2>3. ConnectingInv'
    BY <1>1, <1>4 DEF TypeOK, ConnectingInv
  <2>4. MapIsUsable'
    BY <1>1, <1>2, <1>4 DEF TypeOK, MapIsUsable
  <2>5. WaitingHasConnect'
    BY <1>1, <1>3, <1>4 DEF TypeOK, WaitingHasConnect
  <2>6. StatusMatchesMap'
    BY <1>4 DEF StatusMatchesMap
  <2>7. ExitIsFinal'
    BY DEF ExitIsFinal
  <2>8. QED
    BY <2>1, <2>2, <2>3, <2>4, <2>5, <2>6, <2>7
<1>5. ASSUME NEW s \in TcpObject, ObjectInv(s),
             s.tcpInited, s.timerInited, s.reading, s.timer # "off",
             ~s.closing, ~s.shutdown, ~s.connectReq, s.node = n,
             node2stream[n] = NoConn,
             tcp' = [tcp EXCEPT ![c] = s],
             node2stream' = [node2stream EXCEPT ![n] = c],
             up' = [up EXCEPT ![n] = TRUE],
             waitingSend' = [waitingSend EXCEPT ![n] = <<>>],
             dropped' \in [Msg -> Nat]
      PROVE  IInv'
  <2>1. TypeOK'
    BY <1>1, <1>5 DEF TypeOK
  <2>2. (\A d \in Conn : ObjectInv(tcp[d]))'
    BY <1>5 DEF TypeOK, ObjectInv
  <2>3. ConnectingInv'
    BY <1>5 DEF TypeOK, ConnectingInv
  <2>4. MapIsUsable'
    BY <1>1, <1>2, <1>5 DEF TypeOK, MapIsUsable
  <2>5. WaitingHasConnect'
    BY <1>1, <1>3, <1>5 DEF TypeOK, WaitingHasConnect
  <2>6. StatusMatchesMap'
    BY <1>1, <1>5, ConstantsAssumption DEF TypeOK, StatusMatchesMap
  <2>7. ExitIsFinal'
    BY DEF ExitIsFinal
  <2>8. QED
    BY <2>1, <2>2, <2>3, <2>4, <2>5, <2>6, <2>7
<1>6. CASE /\ node2stream[n] # NoConn
           /\ tcp' = [tcp EXCEPT ![c] = closed]
           /\ UNCHANGED <<node2stream, up, waitingSend, dropped>>
  <2>1. waitingSend' = [waitingSend EXCEPT ![n] = <<>>]
    BY <1>1, <1>6 DEF TypeOK, WaitingHasConnect
  <2>2. QED
    BY <1>4, <1>6, <2>1 DEF TypeOK
<1>7. CASE /\ node2stream[n] = NoConn
           /\ waitingSend[n] = <<>>
           /\ node2stream' = [node2stream EXCEPT ![n] = c]
           /\ up' = [up EXCEPT ![n] = TRUE]
           /\ tcp' = [tcp EXCEPT ![c] = o]
           /\ UNCHANGED <<waitingSend, dropped>>
  <2>1. waitingSend' = [waitingSend EXCEPT ![n] = <<>>]
    BY <1>7 DEF TypeOK
  <2>2. QED
    BY <1>1, <1>5, <1>7, <2>1 DEF TypeOK
<1>8. CASE /\ node2stream[n] = NoConn
           /\ waitingSend' = [waitingSend EXCEPT ![n] = <<>>]
           /\ SendWaiting(c, o)
  <2> DEFINE s == Writing(o, Append(o.writes, waitingSend[n]), o.queued + 1)
  <2>1. CASE /\ node2stream' = [node2stream EXCEPT ![n] = c]
             /\ up' = [up EXCEPT ![n] = TRUE]
             /\ tcp' = [tcp EXCEPT ![c] = s]
             /\ UNCHANGED dropped
    <3>1. /\ s \in TcpObject /\ ObjectInv(s)
          /\ s.tcpInited /\ s.timerInited /\ s.reading /\ s.timer # "off"
          /\ ~s.closing /\ ~s.shutdown /\ ~s.connectReq /\ s.node = n
      <4>1. waitingSend[n] \in Seq(Msg)
        BY <1>1 DEF TypeOK
      <4>2. QED
        BY <4>1, SendingOK
    <3> HIDE DEF s
    <3>2. dropped' \in [Msg -> Nat]
      BY <2>1 DEF TypeOK
    <3>3. QED
      BY <1>5, <1>8, <2>1, <3>1, <3>2
  <2>2. CASE /\ node2stream' = [node2stream EXCEPT ![n] = c]
             /\ up' = [up EXCEPT ![n] = TRUE]
             /\ tcp' = [tcp EXCEPT ![c] = o]
             /\ dropped' = Count(dropped, Waiting(n))
    BY <1>1, <1>5, <1>8, <2>2, CountType DEF TypeOK
  <2>3. CASE /\ up' = [up EXCEPT ![n] = FALSE]
             /\ tcp' = [tcp EXCEPT ![c] = closed]
             /\ dropped' = Count(dropped, Waiting(n))
             /\ UNCHANGED node2stream
    <3>1. up' = up
      BY <1>8, <2>3, <1>1 DEF TypeOK, StatusMatchesMap
    <3>2. dropped' \in [Msg -> Nat]
      BY <2>3, CountType DEF TypeOK
    <3>3. QED
      BY <1>4, <1>8, <2>3, <3>1, <3>2
  <2>4. QED
    BY <1>8, <2>1, <2>2, <2>3 DEF SendWaiting, Writing, closed
<1>9. QED
  BY <1>6, <1>7, <1>8 DEF StartupTcpConnection, closed

-----------------------------------------------------------------------------
(* One lemma per group of actions.                                         *)

\* A request that is only dropped, and a stuttering step.
LEMMA CountersOnly ==
    ASSUME IInv, nextMsg' \in 0..MaxMsg, sent' \in [Msg -> Nat], dropped' \in [Msg -> Nat],
           UNCHANGED <<node2stream, connecting, waitingSend, tcp, up, exited>>
    PROVE  IInv'
BY DEF IInv, TypeOK, ConnectingInv, MapIsUsable, WaitingHasConnect,
       StatusMatchesMap, ExitIsFinal

\* connectTcp: the new connection is the one its message waits for; when it
\* fails, nothing but an abandoned object is left.
LEMMA SendConnectKeepsIInv ==
    ASSUME IInv, NEW n \in Node, NEW m \in Msg, SendConnect(n, m),
           ~exited, UNCHANGED exited, nextMsg' \in 0..MaxMsg
    PROVE  IInv'
<1> USE DEF IInv
<1>1. /\ node2stream[n] = NoConn /\ waitingSend[n] = <<>>
      /\ UNCHANGED <<node2stream, sent>>
  BY DEF SendConnect
<1>2. ASSUME NEW c \in Conn, ~Live(c),
             tcp' = [tcp EXCEPT ![c] = [NewTcp(n) EXCEPT !.timer = "connect",
                                                       !.connectReq = TRUE]],
             connecting' = connecting \cup {c},
             waitingSend' = [waitingSend EXCEPT ![n] = <<m>>],
             UNCHANGED <<up, dropped>>
      PROVE  IInv'
  <2> DEFINE o == [NewTcp(n) EXCEPT !.timer = "connect", !.connectReq = TRUE]
  <2>1. /\ o \in TcpObject
        /\ o.tcpInited /\ o.timerInited /\ o.node = n /\ ~o.closing /\ ~o.shutdown
        /\ o.connectReq /\ ~o.shutdownReq /\ o.timer = "connect" /\ ~o.reading
        /\ o.writes = <<>> /\ o.queued = 0
    <3> DEFINE b == NewTcp(n)
    <3>1. /\ b \in TcpObject
          /\ b.node = n /\ b.tcpInited /\ b.timerInited /\ ~b.reading
          /\ ~b.closing /\ ~b.shutdown /\ ~b.connectReq /\ ~b.shutdownReq
          /\ b.writes = <<>> /\ b.queued = 0
      BY NewTcpOK
    <3> HIDE DEF b
    <3>2. o = [b EXCEPT !.timer = "connect", !.connectReq = TRUE]
      BY DEF b
    <3>3. QED
      BY <3>1, <3>2 DEF TcpObject
  <2>2. ObjectInv(o)
    BY <2>1 DEF ObjectInv
  <2>3. tcp' = [tcp EXCEPT ![c] = o]
    BY <1>2
  <2> HIDE DEF o
  <2>4. \A d \in Node : node2stream[d] # c
    BY <1>2, ConstantsAssumption DEF MapIsUsable, Live
  <2>5. c \notin connecting
    BY <1>2 DEF ConnectingInv, ObjectInv, Live
  <2>6. TypeOK'
    BY <1>1, <1>2, <2>1, <2>3 DEF TypeOK
  <2>7. (\A d \in Conn : ObjectInv(tcp[d]))'
    BY <2>2, <2>3 DEF TypeOK, ObjectInv
  <2>8. ConnectingInv'
    BY <1>2, <2>1, <2>3 DEF TypeOK, ConnectingInv
  <2>9. MapIsUsable'
    BY <1>1, <1>2, <2>3, <2>4 DEF TypeOK, MapIsUsable
  <2>10. WaitingHasConnect'
    <3> SUFFICES ASSUME NEW k \in Node, waitingSend'[k] # <<>>
                 PROVE  /\ node2stream[k] = NoConn
                        /\ \E d \in connecting' : /\ tcp'[d].node = k
                                                  /\ tcp'[d].connectReq
                                                  /\ ~tcp'[d].closing
      BY <1>1 DEF WaitingHasConnect
    <3>1. CASE k = n
      <4>1. c \in connecting' /\ tcp'[c] = o
        BY <1>2, <2>3 DEF TypeOK
      <4>2. QED
        BY <1>1, <2>1, <3>1, <4>1
    <3>2. CASE k # n
      BY <1>2, <2>3, <2>5, <3>2 DEF TypeOK, WaitingHasConnect
    <3>3. QED
      BY <3>1, <3>2
  <2>11. StatusMatchesMap' /\ ExitIsFinal'
    BY <1>1, <1>2 DEF StatusMatchesMap, ExitIsFinal
  <2>12. QED
    BY <2>6, <2>7, <2>8, <2>9, <2>10, <2>11
<1>3. ASSUME up' = [up EXCEPT ![n] = FALSE],
             dropped' = Count(dropped, {m}),
             UNCHANGED <<connecting, waitingSend>>,
             \/ UNCHANGED tcp
             \/ \E c \in Conn : /\ ~Live(c)
                                /\ \E o \in HalfBuilt \cup {CloseTcp(NewTcp(n))} :
                                       tcp' = [tcp EXCEPT ![c] = o]
      PROVE  IInv'
  <2>1. up' = up
    BY <1>1, <1>3 DEF StatusMatchesMap, TypeOK
  <2>2. sent' \in [Msg -> Nat] /\ dropped' \in [Msg -> Nat]
    BY <1>1, <1>3, CountType DEF TypeOK
  <2>3. CASE UNCHANGED tcp
    BY <1>1, <1>3, <2>1, <2>2, <2>3, CountersOnly
  <2>4. CASE \E c \in Conn : /\ ~Live(c)
                             /\ \E o \in HalfBuilt \cup {CloseTcp(NewTcp(n))} :
                                    tcp' = [tcp EXCEPT ![c] = o]
    <3>1. PICK c \in Conn, o \in HalfBuilt \cup {CloseTcp(NewTcp(n))} :
             ~Live(c) /\ tcp' = [tcp EXCEPT ![c] = o]
      BY <2>4
    <3>2. o \in TcpObject /\ ObjectInv(o) /\ o.closing /\ ~o.connectReq
      BY AbandonedOK
    <3>3. tcp[c] = FreeTcp
      BY <3>1 DEF ObjectInv, Live
    <3>4. ~tcp[c].connectReq /\ ~Open(c)
      BY <3>1, <3>3 DEF FreeTcp, Open
    <3>5. QED
      BY <1>1, <1>3, <2>1, <2>2, <3>1, <3>2, <3>4, UpdateOne
  <2>5. QED
    BY <1>3, <2>3, <2>4
<1>4. QED
  BY <1>2, <1>3 DEF SendConnect

\* Closing what a live connection has become: the object is well-formed and is
\* shut down for its own node.  For a handler that loses no request.
LEMMA CloseKeepsIInv ==
    ASSUME IInv, NEW c \in Conn, Live(c), tcp[c].node \in Node,
           NEW notify \in BOOLEAN, NEW lost,
           ShutdownTcpConnection(c, CloseTcp(tcp[c]), notify, lost),
           UNCHANGED <<connecting, exited>>,
           nextMsg' \in 0..MaxMsg, sent' \in [Msg -> Nat]
    PROVE  IInv'
<1> DEFINE o == tcp[c]
           after == CloseTcp(o)
<1>1. o \in TcpObject /\ ObjectInv(o) /\ (o.tcpInited \/ o.timerInited)
  BY DEF IInv, TypeOK, Live
<1>2. /\ o.connectReq => /\ o.tcpInited /\ o.node \in Node
                         /\ ~o.shutdown /\ o.writes = <<>>
      /\ o.shutdownReq => o.tcpInited /\ o.shutdown
      /\ o.writes # <<>> => o.tcpInited /\ o.node \in Node
      /\ o.queued <= Len(o.writes)
  BY <1>1 DEF ObjectInv
<1>3. /\ after \in TcpObject /\ ObjectInv(after) /\ after.closing
      /\ after.node = o.node /\ after.connectReq = o.connectReq
  BY <1>1, <1>2, CloseTcpOK
<1>4. connecting' = IF after.connectReq THEN connecting ELSE connecting \ {c}
  BY <1>3 DEF IInv, ConnectingInv
<1> HIDE DEF after
<1>5. QED
  BY <1>3, <1>4, ShutdownKeepsIInv DEF after

\* The connection in the map is open and its node is the one it is listed for.
LEMMA MappedOK ==
    ASSUME IInv, NEW n \in Node, node2stream[n] # NoConn
    PROVE  LET c == node2stream[n] IN
           /\ c \in Conn /\ Open(c) /\ Live(c)
           /\ tcp[c] \in TcpObject /\ ObjectInv(tcp[c])
           /\ tcp[c].node = n /\ ~tcp[c].shutdown /\ ~tcp[c].connectReq
           /\ ~tcp[c].shutdownReq
           /\ tcp[c].tcpInited /\ tcp[c].timerInited /\ ~tcp[c].closing
BY DEF IInv, TypeOK, MapIsUsable, Open, Live, ObjectInv

\* One more message on an open connection without a connect request.
LEMMA WriteOne ==
    ASSUME NEW o \in TcpObject, ObjectInv(o), NEW m \in Msg,
           o.tcpInited, o.timerInited, ~o.closing, ~o.connectReq,
           NEW s, s = Writing(o, Append(o.writes, <<m>>), o.queued + 1)
    PROVE  /\ s \in TcpObject /\ ObjectInv(s)
           /\ s.node = o.node /\ s.tcpInited /\ (s.reading <=> o.reading)
           /\ ~s.closing /\ (s.shutdown <=> o.shutdown) /\ ~s.connectReq
<1> DEFINE ws == Append(o.writes, <<m>>)
           q == o.queued + 1
<1>1. ws \in Seq(Seq(Msg)) /\ q \in Nat
  BY DEF TcpObject
<1>2. ws # <<>> /\ q <= Len(ws)
  BY DEF TcpObject, ObjectInv
<1>3. s = Writing(o, ws, q)
  OBVIOUS
<1> HIDE DEF ws, q
<1>4. /\ s \in TcpObject
      /\ s.timer = "send" /\ s.queued = q /\ s.writes = ws
      /\ s.node = o.node /\ (s.tcpInited <=> o.tcpInited)
      /\ (s.timerInited <=> o.timerInited) /\ (s.reading <=> o.reading)
      /\ (s.closing <=> o.closing) /\ (s.shutdown <=> o.shutdown)
      /\ (s.connectReq <=> o.connectReq) /\ (s.shutdownReq <=> o.shutdownReq)
  BY <1>1, <1>3, WritingOK
<1>5. /\ s.tcpInited /\ s.timerInited /\ s.timer # "off"
      /\ ~s.closing /\ ~s.connectReq
      /\ s.node \in Node
      /\ s.shutdownReq => s.shutdown
  BY <1>4 DEF ObjectInv
<1>6. ObjectInv(s)
  BY <1>2, <1>4, <1>5 DEF ObjectInv
<1>7. QED
  BY <1>4, <1>5, <1>6

\* A message on the started connection, or the end of that connection.
LEMMA SendWriteKeepsIInv ==
    ASSUME IInv, NEW n \in Node, NEW m \in Msg, SendWrite(n, m),
           UNCHANGED exited, nextMsg' \in 0..MaxMsg
    PROVE  IInv'
<1> DEFINE c == node2stream[n]
<1>1. /\ c # NoConn /\ UNCHANGED <<connecting, sent>>
  BY DEF SendWrite
<1>2. /\ c \in Conn /\ Open(c) /\ Live(c)
      /\ tcp[c] \in TcpObject /\ ObjectInv(tcp[c])
      /\ tcp[c].node = n /\ ~tcp[c].shutdown /\ ~tcp[c].connectReq
      /\ tcp[c].tcpInited /\ tcp[c].timerInited /\ ~tcp[c].closing
  BY <1>1, MappedOK
<1>3. sent' \in [Msg -> Nat] /\ dropped \in [Msg -> Nat]
  BY <1>1 DEF IInv, TypeOK
<1>4. CASE /\ tcp' = [tcp EXCEPT ![c] = [tcp[c] EXCEPT !.timer = "send", !.queued = @ + 1,
                                                       !.writes = Append(@, <<m>>)]]
           /\ UNCHANGED <<node2stream, up, waitingSend, dropped>>
  <2> DEFINE s == Writing(tcp[c], Append(tcp[c].writes, <<m>>), tcp[c].queued + 1)
  <2>1. tcp' = [tcp EXCEPT ![c] = s]
    BY <1>4 DEF Writing
  <2>2. /\ s \in TcpObject /\ ObjectInv(s)
        /\ s.node = tcp[c].node /\ s.tcpInited /\ (s.reading <=> tcp[c].reading)
        /\ ~s.closing /\ (s.shutdown <=> tcp[c].shutdown) /\ ~s.connectReq
    BY <1>2, WriteOne
  <2> HIDE DEF s
  <2>3. s.connectReq <=> tcp[c].connectReq
    BY <1>2, <2>2
  <2>4. QED
    BY <1>1, <1>2, <1>3, <1>4, <2>1, <2>2, <2>3, UpdateOne
<1>5. CASE ShutdownTcpConnection(c, CloseTcp(tcp[c]), FALSE, {m})
  BY <1>1, <1>2, <1>3, <1>5, CloseKeepsIInv
<1>6. QED
  BY <1>4, <1>5 DEF SendWrite

\* A message that joins a waiting queue waits for the same connection.
LEMMA SendWaitKeepsIInv ==
    ASSUME IInv, NEW n \in Node, NEW m \in Msg, SendWait(n, m),
           UNCHANGED exited, nextMsg' \in 0..MaxMsg, ~exited
    PROVE  IInv'
<1> USE DEF IInv
<1>1. /\ waitingSend[n] # <<>>
      /\ waitingSend' = [waitingSend EXCEPT ![n] = Append(waitingSend[n], m)]
      /\ UNCHANGED <<node2stream, connecting, tcp, up, sent, dropped>>
  BY DEF SendWait
<1>2. TypeOK'
  BY <1>1 DEF TypeOK
<1>3. WaitingHasConnect'
  BY <1>1 DEF TypeOK, WaitingHasConnect
<1>4. QED
  BY <1>1, <1>2, <1>3 DEF ConnectingInv, MapIsUsable, StatusMatchesMap, ExitIsFinal

\* One request of the send loop.
LEMMA SendTcpKeepsIInv ==
    ASSUME IInv, NEW n \in Node, NEW b \in BOOLEAN, SendTcp(n, b)
    PROVE  IInv'
<1> DEFINE m == nextMsg + 1
<1>1. m \in Msg /\ nextMsg' \in 0..MaxMsg /\ UNCHANGED exited /\ ~exited
  BY ConstantsAssumption DEF SendTcp, IInv, TypeOK, Msg
<1>2. SendConnect(n, m) \/ SendWait(n, m) \/ SendDrop(n, m, b) \/ SendWrite(n, m)
  BY DEF SendTcp
<1> HIDE DEF m
<1>3. CASE SendConnect(n, m)
  BY <1>1, <1>3, SendConnectKeepsIInv
<1>4. CASE SendWait(n, m)
  BY <1>1, <1>4, SendWaitKeepsIInv
<1>5. CASE SendDrop(n, m, b)
  <2>1. dropped' \in [Msg -> Nat] /\ sent' \in [Msg -> Nat]
    BY <1>5, CountType DEF SendDrop, IInv, TypeOK
  <2>2. QED
    BY <1>1, <1>5, <2>1, CountersOnly DEF SendDrop
<1>6. CASE SendWrite(n, m)
  BY <1>1, <1>6, SendWriteKeepsIInv
<1>7. QED
  BY <1>2, <1>3, <1>4, <1>5, <1>6

\* A started connection put in graceful close, with the send timer armed first.
LEMMA GracefulOK ==
    ASSUME NEW o \in TcpObject, ObjectInv(o),
           o.tcpInited, o.timerInited, ~o.closing, ~o.shutdown, ~o.connectReq,
           NEW t, t = [o EXCEPT !.timer = "send"],
           NEW after \in ShutdownOrClose(t)
    PROVE  /\ after \in TcpObject /\ ObjectInv(after)
           /\ after.node = o.node /\ ~after.connectReq
           /\ after.closing \/ after.shutdown
<1>1. /\ t \in TcpObject
      /\ t.tcpInited /\ t.timerInited /\ ~t.closing /\ ~t.shutdown /\ ~t.connectReq
      /\ t.timer = "send" /\ ~t.shutdownReq /\ t.node = o.node /\ t.node \in Node
      /\ t.queued <= Len(t.writes)
  BY DEF TcpObject, ObjectInv
<1>2. CASE after = CloseTcp(t)
  BY <1>1, <1>2, CloseTcpOK
<1>3. CASE after = [t EXCEPT !.shutdown = TRUE, !.shutdownReq = TRUE]
  <2>1. /\ after \in TcpObject
        /\ after.tcpInited /\ after.timerInited /\ ~after.closing /\ after.shutdown
        /\ ~after.connectReq /\ after.timer = "send" /\ after.shutdownReq
        /\ after.node = o.node /\ after.node \in Node
        /\ after.queued <= Len(after.writes)
    BY <1>1, <1>3 DEF TcpObject
  <2>2. ObjectInv(after)
    BY <2>1 DEF ObjectInv
  <2>3. QED
    BY <2>1, <2>2
<1>4. QED
  BY <1>1, <1>2, <1>3 DEF ShutdownOrClose

\* One request of the close loop.
LEMMA CloseNodeKeepsIInv ==
    ASSUME IInv, NEW n \in Node, NEW b \in BOOLEAN, CloseNode(n, b)
    PROVE  IInv'
<1> DEFINE c == node2stream[n]
<1>1. c # NoConn /\ UNCHANGED <<connecting, nextMsg, sent, exited>>
  BY DEF CloseNode
<1>2. /\ c \in Conn /\ Live(c)
      /\ tcp[c] \in TcpObject /\ ObjectInv(tcp[c])
      /\ tcp[c].node = n /\ ~tcp[c].shutdown /\ ~tcp[c].connectReq
      /\ tcp[c].tcpInited /\ tcp[c].timerInited /\ ~tcp[c].closing
  BY <1>1, MappedOK
<1>3. nextMsg' \in 0..MaxMsg /\ sent' \in [Msg -> Nat]
  BY <1>1 DEF IInv, TypeOK
<1>4. CASE ShutdownTcpConnection(c, CloseTcp(tcp[c]), FALSE, {})
  BY <1>1, <1>2, <1>3, <1>4, CloseKeepsIInv
<1>5. ASSUME NEW after \in ShutdownOrClose([tcp[c] EXCEPT !.timer = "send"]),
             ShutdownTcpConnection(c, after, FALSE, {})
      PROVE  IInv'
  <2>1. /\ after \in TcpObject /\ ObjectInv(after)
        /\ after.node = tcp[c].node /\ ~after.connectReq
        /\ after.closing \/ after.shutdown
    BY <1>2, GracefulOK
  <2>2. connecting' = connecting \ {c}
    BY <1>1, <1>2 DEF IInv, ConnectingInv
  <2>3. QED
    BY <1>1, <1>2, <1>3, <1>5, <2>1, <2>2, ShutdownKeepsIInv
<1>6. QED
  BY <1>4, <1>5 DEF CloseNode

\* The exit branch: what it leaves is closing, or an open connection that is in
\* neither table and has no connect request.
LEMMA ExitKeepsIInv ==
    ASSUME IInv, Exit
    PROVE  IInv'
<1> USE DEF IInv
<1> DEFINE gone == {node2stream[n] : n \in Node} \cup connecting
<1>1. /\ exited' = TRUE
      /\ tcp' = [c \in Conn |-> IF c \in gone THEN CloseTcp(tcp[c]) ELSE tcp[c]]
      /\ node2stream' = [n \in Node |-> NoConn]
      /\ connecting' = {}
      /\ waitingSend' = [n \in Node |-> <<>>]
      /\ UNCHANGED <<nextMsg, sent>>
  BY DEF Exit
<1>2. \A c \in gone \cap Conn : tcp[c].tcpInited
  BY ConstantsAssumption DEF MapIsUsable, ConnectingInv, ObjectInv
<1>3. \A c \in Conn : /\ tcp'[c] \in TcpObject
                      /\ ObjectInv(tcp'[c])
                      /\ tcp'[c].connectReq => tcp'[c].closing
  <2> TAKE c \in Conn
  <2>1. CASE c \in gone
    <3>1. tcp[c] \in TcpObject /\ ObjectInv(tcp[c]) /\ tcp[c].tcpInited
      BY <1>2, <2>1 DEF TypeOK
    <3>2. /\ CloseTcp(tcp[c]) \in TcpObject
          /\ ObjectInv(CloseTcp(tcp[c]))
          /\ CloseTcp(tcp[c]).closing
      BY <3>1, CloseTcpOK DEF ObjectInv
    <3>3. QED
      BY <1>1, <2>1, <3>2
  <2>2. CASE c \notin gone
    BY <1>1, <2>2 DEF TypeOK, ConnectingInv
  <2>3. QED
    BY <2>1, <2>2
<1> HIDE DEF gone
<1>4. up' = [n \in Node |-> FALSE]
  BY DEF Exit, TypeOK, StatusMatchesMap
<1>5. dropped' \in [Msg -> Nat]
  BY CountType DEF Exit, TypeOK
<1>6. TypeOK'
  BY <1>1, <1>3, <1>4, <1>5 DEF TypeOK
<1>7. (\A c \in Conn : ObjectInv(tcp[c]))'
  BY <1>3 DEF ObjectInv
<1>8. ConnectingInv'
  BY <1>1, <1>3 DEF ConnectingInv
<1>9. MapIsUsable' /\ WaitingHasConnect' /\ StatusMatchesMap'
  BY <1>1, <1>4 DEF MapIsUsable, WaitingHasConnect, StatusMatchesMap
<1>10. ExitIsFinal'
  BY <1>1, <1>3 DEF ExitIsFinal
<1>11. QED
  BY <1>6, <1>7, <1>8, <1>9, <1>10

\* on_new_connection: an abandoned object, or the start of a fresh connection.
LEMMA OnNewConnectionKeepsIInv ==
    ASSUME IInv, NEW n \in Node, OnNewConnection(n)
    PROVE  IInv'
<1>1. PICK c \in Conn :
        /\ ~Live(c)
        /\ \/ /\ \E o \in HalfBuilt \cup {CloseTcp(NewTcp(n))} : tcp' = [tcp EXCEPT ![c] = o]
              /\ UNCHANGED <<node2stream, up, waitingSend, dropped>>
           \/ StartupTcpConnection(c, [NewTcp(n) EXCEPT !.timer = "idle", !.reading = TRUE])
  BY DEF OnNewConnection
<1>2. ~exited /\ UNCHANGED <<connecting, nextMsg, sent, exited>>
  BY DEF OnNewConnection
<1>3. nextMsg' \in 0..MaxMsg /\ sent' \in [Msg -> Nat] /\ dropped \in [Msg -> Nat]
  BY <1>2 DEF IInv, TypeOK
<1>4. tcp[c] = FreeTcp
  BY <1>1 DEF IInv, ObjectInv, Live
<1>5. ~tcp[c].connectReq /\ ~Open(c)
  BY <1>1, <1>4 DEF FreeTcp, Open
<1>6. CASE /\ \E o \in HalfBuilt \cup {CloseTcp(NewTcp(n))} : tcp' = [tcp EXCEPT ![c] = o]
           /\ UNCHANGED <<node2stream, up, waitingSend, dropped>>
  <2>1. PICK o \in HalfBuilt \cup {CloseTcp(NewTcp(n))} : tcp' = [tcp EXCEPT ![c] = o]
    BY <1>6
  <2>2. o \in TcpObject /\ ObjectInv(o) /\ o.closing /\ ~o.connectReq
    BY AbandonedOK
  <2>3. QED
    BY <1>2, <1>3, <1>5, <1>6, <2>1, <2>2, UpdateOne
<1>7. CASE StartupTcpConnection(c, [NewTcp(n) EXCEPT !.timer = "idle", !.reading = TRUE])
  <2> DEFINE b == NewTcp(n)
             o == [b EXCEPT !.timer = "idle", !.reading = TRUE]
  <2>1. /\ b \in TcpObject /\ b.node = n /\ b.tcpInited /\ b.timerInited
        /\ ~b.closing /\ ~b.shutdown /\ ~b.connectReq /\ ~b.shutdownReq
        /\ b.writes = <<>> /\ b.queued = 0
    BY NewTcpOK
  <2>2. Ready(o)
    <3> HIDE DEF b
    <3>1. QED
      BY <2>1 DEF Ready, TcpObject
  <2>3. connecting' = connecting \ {c}
    BY <1>2, <1>5 DEF IInv, ConnectingInv
  <2> HIDE DEF o
  <2>4. StartupTcpConnection(c, o)
    BY <1>7 DEF o
  <2>5. QED
    BY <1>1, <1>2, <2>2, <2>3, <2>4, StartupKeepsIInv
<1>8. QED
  BY <1>1, <1>6, <1>7

\* on_connect_done: the connect request is answered and the connection starts
\* or is shut down.
LEMMA OnConnectDoneKeepsIInv ==
    ASSUME IInv, NEW c \in Conn, OnConnectDone(c)
    PROVE  IInv'
<1> DEFINE p == tcp[c]
           o == [p EXCEPT !.connectReq = FALSE]
<1>1. /\ p.connectReq
      /\ connecting' = connecting \ {c}
      /\ UNCHANGED <<nextMsg, sent, exited>>
      /\ \/ ShutdownTcpConnection(c, CloseTcp(o), TRUE, {})
         \/ /\ ~o.closing
            /\ StartupTcpConnection(c, [o EXCEPT !.timer = "idle", !.reading = TRUE])
  BY DEF OnConnectDone
<1>2. /\ p \in TcpObject /\ ObjectInv(p)
      /\ nextMsg' \in 0..MaxMsg /\ sent' \in [Msg -> Nat]
  BY <1>1 DEF IInv, TypeOK
<1>3. /\ p.tcpInited /\ p.node \in Node /\ ~p.shutdown /\ ~p.shutdownReq
      /\ p.writes = <<>> /\ p.queued = 0
      /\ ~p.closing => p.timerInited
  BY <1>1, <1>2 DEF ObjectInv, TcpObject
<1>4. Live(c)
  BY <1>3 DEF Live
<1> HIDE DEF p
<1>5. /\ o \in TcpObject /\ o.tcpInited /\ o.node = p.node /\ (o.closing <=> p.closing)
      /\ ~o.shutdown /\ ~o.shutdownReq /\ ~o.connectReq /\ o.writes = <<>> /\ o.queued = 0
      /\ ~o.closing => o.timerInited
  BY <1>2, <1>3 DEF TcpObject
<1> HIDE DEF o
<1>6. CASE ShutdownTcpConnection(c, CloseTcp(o), TRUE, {})
  <2> DEFINE after == CloseTcp(o)
  <2>1. /\ after \in TcpObject /\ ObjectInv(after) /\ after.closing
        /\ after.node = p.node /\ ~after.connectReq
    BY <1>5, CloseTcpOK
  <2> HIDE DEF after
  <2>2. ShutdownTcpConnection(c, after, TRUE, {})
    BY <1>6 DEF after
  <2>3. after.node = tcp[c].node /\ after.node \in Node
    BY <1>3, <2>1 DEF p
  <2>4. QED
    BY <1>1, <1>2, <1>4, <2>1, <2>2, <2>3, ShutdownKeepsIInv
<1>7. CASE /\ ~o.closing
           /\ StartupTcpConnection(c, [o EXCEPT !.timer = "idle", !.reading = TRUE])
  <2> DEFINE r == [o EXCEPT !.timer = "idle", !.reading = TRUE]
  <2>1. Ready(r) /\ r.node = p.node
    BY <1>3, <1>5, <1>7 DEF Ready, TcpObject
  <2>2. ~exited
    BY <1>1, <1>3, <1>5, <1>7 DEF IInv, ExitIsFinal, p
  <2> HIDE DEF r
  <2>3. StartupTcpConnection(c, r)
    BY <1>7 DEF r
  <2>4. tcp[c].connectReq /\ tcp[c].node = r.node
    BY <1>1, <2>1 DEF p
  <2>5. nextMsg' = nextMsg /\ sent' = sent
    BY <1>1
  <2>6. UNCHANGED exited
    BY <1>1
  <2>7. QED
    BY <1>1, <2>1, <2>2, <2>3, <2>4, <2>5, <2>6, StartupKeepsIInv
<1>8. QED
  BY <1>1, <1>6, <1>7 DEF o, p

\* A connection that reads, or whose timer runs, is open and has a node.
LEMMA ActiveOK ==
    ASSUME IInv, NEW c \in Conn, tcp[c].reading \/ tcp[c].timer # "off"
    PROVE  /\ tcp[c] \in TcpObject /\ ObjectInv(tcp[c])
           /\ Live(c) /\ ~tcp[c].closing /\ tcp[c].node \in Node
           /\ tcp[c].tcpInited /\ tcp[c].timerInited
BY DEF IInv, TypeOK, ObjectInv, Live, FreeTcp

\* on_tcp_read with data.
LEMMA OnReadDataKeepsIInv ==
    ASSUME IInv, NEW c \in Conn, OnReadData(c)
    PROVE  IInv'
<1> DEFINE p == tcp[c]
           o == [p EXCEPT !.timer = "idle"]
<1>1. /\ p.reading /\ ~p.shutdown /\ p.queued = 0
      /\ UNCHANGED <<connecting, nextMsg, sent, exited>>
  BY DEF OnReadData
<1>2. /\ p \in TcpObject /\ ObjectInv(p) /\ ~p.closing /\ Live(c)
      /\ p.node \in Node /\ p.tcpInited /\ p.timerInited
  BY <1>1, ActiveOK
<1>3. nextMsg' \in 0..MaxMsg /\ sent' \in [Msg -> Nat] /\ dropped \in [Msg -> Nat]
  BY <1>1 DEF IInv, TypeOK
<1>4. CASE /\ tcp' = [tcp EXCEPT ![c].timer = "idle"]
           /\ UNCHANGED <<node2stream, up, waitingSend, dropped>>
  <2>1. tcp' = [tcp EXCEPT ![c] = o]
    BY <1>4
  <2>2. ~p.connectReq
    BY <1>1, <1>2 DEF ObjectInv
  <2> HIDE DEF p
  <2>3. /\ o \in TcpObject
        /\ o.tcpInited /\ o.timerInited /\ ~o.closing /\ ~o.shutdown /\ ~o.connectReq
        /\ o.timer = "idle" /\ o.node = p.node /\ (o.reading <=> p.reading)
        /\ (o.shutdownReq <=> p.shutdownReq) /\ o.queued = 0 /\ o.writes = p.writes
    BY <1>1, <1>2, <2>2 DEF TcpObject
  <2> HIDE DEF o
  <2>4. ObjectInv(o)
    BY <1>1, <1>2, <2>3 DEF ObjectInv, TcpObject
  <2>5. QED
    BY <1>1, <1>3, <1>4, <2>1, <2>2, <2>3, <2>4, UpdateOne DEF p
<1>5. CASE ShutdownTcpConnection(c, CloseTcp(tcp[c]), FALSE, {})
  BY <1>1, <1>2, <1>3, <1>5, CloseKeepsIInv
<1>6. QED
  BY <1>4, <1>5 DEF OnReadData

\* on_tcp_read with EOF or an error, and on_tcp_timeout.
LEMMA OnReadEndKeepsIInv ==
    ASSUME IInv, NEW c \in Conn, OnReadEnd(c) \/ OnTimeout(c)
    PROVE  IInv'
<1>1. /\ tcp[c].reading \/ tcp[c].timer # "off"
      /\ ShutdownTcpConnection(c, CloseTcp(tcp[c]), FALSE, {})
      /\ UNCHANGED <<connecting, nextMsg, sent, exited>>
  BY DEF OnReadEnd, OnTimeout
<1>2. nextMsg' \in 0..MaxMsg /\ sent' \in [Msg -> Nat]
  BY <1>1 DEF IInv, TypeOK
<1>3. QED
  BY <1>1, <1>2, ActiveOK, CloseKeepsIInv

\* The kernel takes bytes: fewer writes are queued, the timer is untouched.
LEMMA FlushKeepsIInv ==
    ASSUME IInv, NEW c \in Conn, Flush(c)
    PROVE  IInv'
<1> DEFINE p == tcp[c]
           o == [p EXCEPT !.queued = p.queued - 1]
<1>1. /\ ~p.closing /\ p.queued > 0
      /\ tcp' = [tcp EXCEPT ![c] = o]
      /\ UNCHANGED <<node2stream, connecting, waitingSend, up, nextMsg, sent, dropped, exited>>
  BY DEF Flush
<1>2. p \in TcpObject /\ ObjectInv(p)
  BY DEF IInv, TypeOK
<1> HIDE DEF p
<1>3. o \in TcpObject /\ ObjectInv(o)
  <2>1. p.queued - 1 \in Nat /\ p.queued - 1 <= Len(p.writes) /\ p.queued <= Len(p.writes)
    BY <1>1, <1>2 DEF ObjectInv, TcpObject
  <2>2. p.tcpInited /\ p.timerInited
    BY <1>1, <1>2 DEF ObjectInv, FreeTcp
  <2>3. /\ o \in TcpObject /\ o.queued = p.queued - 1 /\ o.writes = p.writes
        /\ o.node = p.node /\ o.timer = p.timer
        /\ (o.tcpInited <=> p.tcpInited) /\ (o.timerInited <=> p.timerInited)
        /\ (o.closing <=> p.closing) /\ (o.shutdown <=> p.shutdown)
        /\ (o.reading <=> p.reading) /\ (o.connectReq <=> p.connectReq)
        /\ (o.shutdownReq <=> p.shutdownReq)
    BY <1>2, <2>1 DEF TcpObject
  <2> HIDE DEF o
  <2>4. ObjectInv(o)
    BY <1>1, <1>2, <2>1, <2>2, <2>3 DEF ObjectInv
  <2>5. QED
    BY <2>3, <2>4
<1>4. nextMsg' \in 0..MaxMsg /\ sent' \in [Msg -> Nat] /\ dropped' \in [Msg -> Nat]
  BY <1>1 DEF IInv, TypeOK
<1>5. /\ (o.connectReq <=> p.connectReq) /\ (o.closing <=> p.closing)
      /\ (o.shutdown <=> p.shutdown) /\ (o.tcpInited <=> p.tcpInited)
      /\ o.node = p.node /\ (o.reading <=> p.reading) /\ o.closing = p.closing
  BY <1>2 DEF TcpObject
<1>6. Open(c) => p.tcpInited
  BY <1>1, <1>2 DEF ObjectInv, Open, Live, p
<1> HIDE DEF o
<1>7. QED
  BY <1>1, <1>3, <1>4, <1>5, <1>6, UpdateOne DEF p, Open

\* An object without its oldest write, q of the others queued.
Answered(p, q) == [p EXCEPT !.writes = Tail(p.writes), !.queued = q]

\* Removing the answered write at the head of a stream's queue.
LEMMA HeadAnswered ==
    ASSUME NEW p \in TcpObject, ObjectInv(p), p.writes # <<>>,
           NEW q \in Nat, q <= p.queued, q < Len(p.writes),
           NEW o, o = Answered(p, q)
    PROVE  /\ o \in TcpObject /\ ObjectInv(o)
           /\ o.tcpInited /\ o.node = p.node /\ o.node \in Node /\ ~o.connectReq
           /\ o.queued = q /\ o.timer = p.timer
           /\ (o.timerInited <=> p.timerInited) /\ (o.closing <=> p.closing)
           /\ (o.shutdown <=> p.shutdown) /\ (o.reading <=> p.reading)
<1> DEFINE ws == Tail(p.writes)
<1>1. ws \in Seq(Seq(Msg))
  BY DEF TcpObject
<1>2. q <= Len(ws)
  BY DEF TcpObject
<1>3. o = [p EXCEPT !.writes = ws, !.queued = q]
  BY DEF Answered
<1> HIDE DEF ws
<1>4. /\ p.tcpInited /\ p.node \in Node /\ ~p.connectReq
  BY DEF ObjectInv
<1>5. /\ o \in TcpObject /\ o.queued = q /\ o.writes = ws
      /\ o.node = p.node /\ o.timer = p.timer
      /\ (o.tcpInited <=> p.tcpInited) /\ (o.timerInited <=> p.timerInited)
      /\ (o.closing <=> p.closing) /\ (o.shutdown <=> p.shutdown)
      /\ (o.reading <=> p.reading) /\ (o.connectReq <=> p.connectReq)
      /\ (o.shutdownReq <=> p.shutdownReq)
  BY <1>1, <1>3, ZenonT(60) DEF TcpObject
<1>6. q > 0 => p.queued > 0
  BY DEF TcpObject
<1>7. ObjectInv(o)
  BY <1>2, <1>4, <1>5, <1>6 DEF ObjectInv
<1>8. QED
  BY <1>4, <1>5, <1>7

\* on_tcp_write_done, status 0.
LEMMA OnWriteSentKeepsIInv ==
    ASSUME IInv, NEW c \in Conn, OnWriteSent(c)
    PROVE  IInv'
<1> DEFINE p == tcp[c]
           o == Answered(p, p.queued)
<1>1. p \in TcpObject /\ ObjectInv(p)
  BY DEF IInv, TypeOK
<1>2. [p EXCEPT !.writes = Tail(@)] = o
  BY <1>1 DEF TcpObject, Answered
<1>3. /\ p.queued < Len(p.writes)
      /\ UNCHANGED <<connecting, nextMsg, exited>>
      /\ \/ /\ tcp' = [tcp EXCEPT ![c] = o]
            /\ UNCHANGED <<node2stream, up, waitingSend, dropped>>
         \/ /\ ~o.closing /\ ~o.shutdown /\ o.queued = 0
            /\ tcp' = [tcp EXCEPT ![c] = [o EXCEPT !.timer = "idle"]]
            /\ UNCHANGED <<node2stream, up, waitingSend, dropped>>
         \/ ShutdownTcpConnection(c, CloseTcp(o), FALSE, {})
  BY <1>2 DEF OnWriteSent
<1>4. p.writes # <<>> /\ p.queued \in Nat
  BY <1>1, <1>3 DEF TcpObject
<1>5. /\ nextMsg' \in 0..MaxMsg /\ sent' \in [Msg -> Nat] /\ dropped \in [Msg -> Nat]
  BY <1>3, CountType DEF OnWriteSent, IInv, TypeOK
<1> HIDE DEF p
<1>6. /\ o \in TcpObject /\ ObjectInv(o)
      /\ o.tcpInited /\ o.node = p.node /\ o.node \in Node /\ ~o.connectReq
      /\ (o.timerInited <=> p.timerInited) /\ (o.closing <=> p.closing)
      /\ (o.shutdown <=> p.shutdown) /\ (o.reading <=> p.reading)
  BY <1>1, <1>3, <1>4, HeadAnswered
<1>7. ~p.connectReq /\ p.tcpInited
  BY <1>1, <1>4 DEF ObjectInv
<1>8. o.closing = p.closing
  BY <1>1 DEF TcpObject, Answered
<1> HIDE DEF o
<1>9. Live(c)
  BY <1>7 DEF Live, p
<1>10. CASE /\ tcp' = [tcp EXCEPT ![c] = o]
            /\ UNCHANGED <<node2stream, up, waitingSend, dropped>>
  BY <1>3, <1>5, <1>6, <1>7, <1>8, <1>10, UpdateOne DEF p, Open
<1>11. CASE /\ ~o.closing /\ ~o.shutdown /\ o.queued = 0
            /\ tcp' = [tcp EXCEPT ![c] = [o EXCEPT !.timer = "idle"]]
            /\ UNCHANGED <<node2stream, up, waitingSend, dropped>>
  <2> DEFINE r == [o EXCEPT !.timer = "idle"]
  <2>1. /\ r \in TcpObject /\ r.tcpInited /\ (r.timerInited <=> o.timerInited)
        /\ ~r.closing /\ ~r.shutdown /\ ~r.connectReq /\ (r.reading <=> o.reading)
        /\ r.node = p.node /\ r.timer = "idle" /\ r.queued = 0 /\ r.writes = o.writes
        /\ (r.shutdownReq <=> o.shutdownReq)
    BY <1>6, <1>11 DEF TcpObject
  <2> HIDE DEF r
  <2>2. ObjectInv(r)
    BY <1>6, <1>11, <2>1 DEF ObjectInv, TcpObject
  <2>3. tcp' = [tcp EXCEPT ![c] = r]
    BY <1>11 DEF r
  <2>4. QED
    BY <1>3, <1>5, <1>6, <1>7, <1>11, <2>1, <2>2, <2>3, UpdateOne DEF p, Open
<1>12. CASE ShutdownTcpConnection(c, CloseTcp(o), FALSE, {})
  <2> DEFINE after == CloseTcp(o)
  <2>1. /\ after \in TcpObject /\ ObjectInv(after) /\ after.closing
        /\ after.node = o.node /\ ~after.connectReq
    BY <1>6, CloseTcpOK DEF ObjectInv
  <2>2. connecting' = connecting \ {c}
    BY <1>3, <1>7 DEF IInv, ConnectingInv, p
  <2> HIDE DEF after
  <2>3. ShutdownTcpConnection(c, after, FALSE, {})
    BY <1>12 DEF after
  <2>4. after.node \in Node /\ after.node = tcp[c].node
    BY <1>6, <2>1 DEF p
  <2>5. QED
    BY <1>3, <1>5, <1>9, <2>1, <2>2, <2>3, <2>4, ShutdownKeepsIInv
<1>13. QED
  BY <1>3, <1>10, <1>11, <1>12

\* on_tcp_write_done with an error.
LEMMA OnWriteFailedKeepsIInv ==
    ASSUME IInv, NEW c \in Conn, OnWriteFailed(c)
    PROVE  IInv'
<1> DEFINE p == tcp[c]
           q == p.queued - 1
           o == Answered(p, q)
           lost == ToSet(Head(p.writes))
<1>1. p \in TcpObject /\ ObjectInv(p)
  BY DEF IInv, TypeOK
<1>2. /\ p.writes # <<>> /\ p.queued = Len(p.writes)
      /\ ShutdownTcpConnection(c, CloseTcp(o), FALSE, lost)
      /\ UNCHANGED <<connecting, nextMsg, sent, exited>>
  BY DEF OnWriteFailed, Answered
<1>3. q \in Nat /\ q <= p.queued /\ q < Len(p.writes)
  BY <1>1, <1>2 DEF TcpObject
<1>4. nextMsg' \in 0..MaxMsg /\ sent' \in [Msg -> Nat]
  BY <1>2 DEF IInv, TypeOK
<1> HIDE DEF p, q, lost
<1>5. /\ o \in TcpObject /\ ObjectInv(o)
      /\ o.tcpInited /\ o.node = p.node /\ o.node \in Node /\ ~o.connectReq
  BY <1>1, <1>2, <1>3, HeadAnswered
<1>6. ~p.connectReq /\ p.tcpInited
  BY <1>1, <1>2 DEF ObjectInv
<1> HIDE DEF o
<1> DEFINE after == CloseTcp(o)
<1>7. /\ after \in TcpObject /\ ObjectInv(after) /\ after.closing
      /\ after.node = o.node /\ ~after.connectReq
  BY <1>5, CloseTcpOK DEF ObjectInv
<1>8. connecting' = connecting \ {c}
  BY <1>2, <1>6 DEF IInv, ConnectingInv, p
<1> HIDE DEF after
<1>9. ShutdownTcpConnection(c, after, FALSE, lost)
  BY <1>2 DEF after
<1>10. after.node \in Node /\ after.node = tcp[c].node /\ Live(c)
  BY <1>5, <1>6, <1>7 DEF p, Live
<1>11. QED
  BY <1>2, <1>4, <1>7, <1>8, <1>9, <1>10, ShutdownKeepsIInv

\* The uv_shutdown callback.
LEMMA OnShutdownDoneKeepsIInv ==
    ASSUME IInv, NEW c \in Conn, OnShutdownDone(c)
    PROVE  IInv'
<1> DEFINE p == tcp[c]
           b == [p EXCEPT !.shutdownReq = FALSE]
           o == CloseTcp(b)
<1>1. /\ p.shutdownReq /\ p.writes = <<>>
      /\ tcp' = [tcp EXCEPT ![c] = o]
      /\ UNCHANGED <<node2stream, connecting, waitingSend, up, nextMsg, sent, dropped, exited>>
  BY DEF OnShutdownDone
<1>2. p \in TcpObject /\ ObjectInv(p)
  BY DEF IInv, TypeOK
<1>3. p.tcpInited /\ p.shutdown /\ ~p.connectReq
  BY <1>1, <1>2 DEF ObjectInv
<1> HIDE DEF p
<1>4. /\ b \in TcpObject /\ b.tcpInited /\ b.shutdown /\ ~b.shutdownReq /\ ~b.connectReq
      /\ b.writes = <<>> /\ b.queued <= Len(b.writes)
  BY <1>1, <1>2, <1>3 DEF TcpObject, ObjectInv
<1> HIDE DEF b
<1>5. /\ o \in TcpObject /\ ObjectInv(o) /\ ~o.connectReq
  BY <1>4, CloseTcpOK
<1> HIDE DEF o
<1>6. nextMsg' \in 0..MaxMsg /\ sent' \in [Msg -> Nat] /\ dropped' \in [Msg -> Nat]
  BY <1>1 DEF IInv, TypeOK
<1>7. QED
  BY <1>1, <1>3, <1>5, <1>6, UpdateOne DEF p

\* The two close callbacks.
LEMMA ClosedKeepsIInv ==
    ASSUME IInv, NEW c \in Conn, OnTcpClosed(c) \/ OnTimerClosed(c)
    PROVE  IInv'
<1> DEFINE p == tcp[c]
<1>1. /\ p \in TcpObject /\ ObjectInv(p) /\ p.closing
      /\ UNCHANGED <<node2stream, connecting, waitingSend, up, nextMsg, sent, dropped, exited>>
  BY DEF IInv, TypeOK, OnTcpClosed, OnTimerClosed
<1>2. nextMsg' \in 0..MaxMsg /\ sent' \in [Msg -> Nat] /\ dropped' \in [Msg -> Nat]
  BY <1>1 DEF IInv, TypeOK
<1>3. ~Open(c)
  BY <1>1 DEF Open
<1>4. ASSUME NEW o \in TcpObject, ObjectInv(o), tcp' = [tcp EXCEPT ![c] = o],
             o.connectReq <=> p.connectReq,
             o.connectReq => o.closing = p.closing /\ o.node = p.node
      PROVE  IInv'
  BY <1>1, <1>2, <1>3, <1>4, UpdateOne
<1>5. CASE OnTcpClosed(c)
  <2>1. /\ p.tcpInited
        /\ ~p.connectReq /\ ~p.shutdownReq /\ p.writes = <<>>
        /\ \/ p.timerInited /\ tcp' = [tcp EXCEPT ![c] = [p EXCEPT !.tcpInited = FALSE]]
           \/ tcp' = [tcp EXCEPT ![c] = FreeTcp]
    BY <1>5 DEF OnTcpClosed
  <2>2. CASE /\ p.timerInited
             /\ tcp' = [tcp EXCEPT ![c] = [p EXCEPT !.tcpInited = FALSE]]
    <3> DEFINE o == [p EXCEPT !.tcpInited = FALSE]
    <3> HIDE DEF p
    <3>1. /\ o \in TcpObject /\ ~o.tcpInited /\ o.timerInited /\ o.closing
          /\ ~o.connectReq /\ ~o.shutdownReq /\ o.writes = <<>>
          /\ o.timer = p.timer /\ (o.reading <=> p.reading) /\ o.queued = p.queued
      BY <1>1, <2>1, <2>2 DEF TcpObject
    <3> HIDE DEF o
    <3>2. ObjectInv(o)
      BY <1>1, <2>1, <3>1 DEF ObjectInv
    <3>3. tcp' = [tcp EXCEPT ![c] = o]
      BY <2>2 DEF o
    <3>4. QED
      BY <1>4, <2>1, <3>1, <3>2, <3>3
  <2>3. CASE tcp' = [tcp EXCEPT ![c] = FreeTcp]
    <3>1. ~FreeTcp.connectReq
      BY DEF FreeTcp
    <3>2. QED
      BY <1>4, <2>1, <2>3, <3>1, FreeTcpOK
  <2>4. QED
    BY <2>1, <2>2, <2>3
<1>6. CASE OnTimerClosed(c)
  <2>1. \/ p.tcpInited /\ tcp' = [tcp EXCEPT ![c] = [p EXCEPT !.timerInited = FALSE]]
        \/ ~p.tcpInited /\ tcp' = [tcp EXCEPT ![c] = FreeTcp]
    BY <1>6 DEF OnTimerClosed
  <2>2. CASE /\ p.tcpInited
             /\ tcp' = [tcp EXCEPT ![c] = [p EXCEPT !.timerInited = FALSE]]
    <3> DEFINE o == [p EXCEPT !.timerInited = FALSE]
    <3> HIDE DEF p
    <3>1. /\ o \in TcpObject /\ o.tcpInited /\ ~o.timerInited /\ o.closing
          /\ (o.connectReq <=> p.connectReq) /\ (o.shutdownReq <=> p.shutdownReq)
          /\ (o.shutdown <=> p.shutdown) /\ o.writes = p.writes /\ o.node = p.node
          /\ o.timer = p.timer /\ (o.reading <=> p.reading) /\ o.queued = p.queued
          /\ o.closing = p.closing
      BY <1>1, <2>2 DEF TcpObject
    <3> HIDE DEF o
    <3>2. ObjectInv(o)
      BY <1>1, <2>2, <3>1 DEF ObjectInv
    <3>3. tcp' = [tcp EXCEPT ![c] = o]
      BY <2>2 DEF o
    <3>4. QED
      BY <1>4, <3>1, <3>2, <3>3
  <2>3. CASE ~p.tcpInited /\ tcp' = [tcp EXCEPT ![c] = FreeTcp]
    <3>1. ~FreeTcp.connectReq
      BY DEF FreeTcp
    <3>2. ~p.connectReq
      BY <1>1, <2>3 DEF ObjectInv
    <3>3. QED
      BY <1>4, <2>3, <3>1, <3>2, FreeTcpOK
  <2>4. QED
    BY <2>1, <2>2, <2>3
<1>7. QED
  BY <1>5, <1>6

-----------------------------------------------------------------------------
(* The theorems about connections.                                         *)

\* The pool starts in the invariant.
LEMMA InitIInv == Init => IInv
<1> SUFFICES ASSUME Init PROVE IInv
  OBVIOUS
<1>1. TypeOK
  <2>1. nextMsg \in 0..MaxMsg
    BY ConstantsAssumption DEF Init
  <2>2. tcp \in [Conn -> TcpObject]
    BY FreeTcpOK DEF Init
  <2>3. waitingSend \in [Node -> Seq(Msg)]
    BY DEF Init
  <2>4. QED
    BY <2>1, <2>2, <2>3 DEF Init, TypeOK
<1>2. \A c \in Conn : ObjectInv(tcp[c])
  BY FreeTcpOK DEF Init
<1>3. ConnectingInv
  <2>1. ~FreeTcp.connectReq
    BY DEF FreeTcp
  <2>2. QED
    BY <2>1 DEF Init, ConnectingInv
<1>4. MapIsUsable /\ WaitingHasConnect /\ StatusMatchesMap /\ ExitIsFinal
  BY DEF Init, MapIsUsable, WaitingHasConnect, StatusMatchesMap, ExitIsFinal
<1>5. QED
  BY <1>1, <1>2, <1>3, <1>4 DEF IInv

\* Every request and every callback keeps it.
LEMMA NextIInv == IInv /\ [Next]_vars => IInv'
<1> SUFFICES ASSUME IInv, [Next]_vars PROVE IInv'
  OBVIOUS
<1>1. ASSUME NEW n \in Node, NEW b \in BOOLEAN, SendTcp(n, b) PROVE IInv'
  BY <1>1, SendTcpKeepsIInv
<1>2. ASSUME NEW n \in Node, NEW b \in BOOLEAN, CloseNode(n, b) PROVE IInv'
  BY <1>2, CloseNodeKeepsIInv
<1>3. CASE Exit
  BY <1>3, ExitKeepsIInv
<1>4. ASSUME NEW n \in Node, OnNewConnection(n) PROVE IInv'
  BY <1>4, OnNewConnectionKeepsIInv
<1>5. ASSUME NEW c \in Conn, OnConnectDone(c) PROVE IInv'
  BY <1>5, OnConnectDoneKeepsIInv
<1>6. ASSUME NEW c \in Conn, OnReadData(c) PROVE IInv'
  BY <1>6, OnReadDataKeepsIInv
<1>7. ASSUME NEW c \in Conn, OnReadEnd(c) \/ OnTimeout(c) PROVE IInv'
  BY <1>7, OnReadEndKeepsIInv
<1>8. ASSUME NEW c \in Conn, Flush(c) PROVE IInv'
  BY <1>8, FlushKeepsIInv
<1>9. ASSUME NEW c \in Conn, OnWriteSent(c) PROVE IInv'
  BY <1>9, OnWriteSentKeepsIInv
<1>10. ASSUME NEW c \in Conn, OnWriteFailed(c) PROVE IInv'
  BY <1>10, OnWriteFailedKeepsIInv
<1>11. ASSUME NEW c \in Conn, OnShutdownDone(c) PROVE IInv'
  BY <1>11, OnShutdownDoneKeepsIInv
<1>12. ASSUME NEW c \in Conn, OnTcpClosed(c) \/ OnTimerClosed(c) PROVE IInv'
  BY <1>12, ClosedKeepsIInv
<1>13. CASE UNCHANGED vars
  BY <1>13, CountersOnly DEF vars, IInv, TypeOK
<1>14. CASE Stopped
  BY <1>13, <1>14 DEF Stopped
<1>15. QED
  BY <1>1, <1>2, <1>3, <1>4, <1>5, <1>6, <1>7, <1>8, <1>9, <1>10, <1>11, <1>12,
     <1>13, <1>14 DEF Next, Request, Callback

\* The inductive invariant holds in every state of every behaviour.
THEOREM Invariance == Spec => []IInv
<1>1. QED
  BY InitIInv, NextIInv, PTL DEF Spec

\* Type correctness of the connection engine.
THEOREM TypeCorrect == Spec => []TypeOK
<1>1. IInv => TypeOK
  BY DEF IInv
<1>2. QED
  BY <1>1, Invariance, PTL

\* getStreamByNode only ever returns a connection that can be written to:
\* m_node2stream holds no closing, shut down, connecting or deleted Ctcp.
THEOREM MapAlwaysUsable == Spec => []MapIsUsable
<1>1. IInv => MapIsUsable
  BY DEF IInv
<1>2. QED
  BY <1>1, Invariance, PTL

\* No message is stranded: whatever waits, waits for a pending connect.
THEOREM NoStrandedMessage == Spec => []WaitingHasConnect
<1>1. IInv => WaitingHasConnect
  BY DEF IInv
<1>2. QED
  BY <1>1, Invariance, PTL

\* connectionStatus as last reported agrees with m_node2stream.
THEOREM StatusIsTruth == Spec => []StatusMatchesMap
<1>1. IInv => StatusMatchesMap
  BY DEF IInv
<1>2. QED
  BY <1>1, Invariance, PTL

\* No callback finds a deleted Ctcp and no table holds one.
THEOREM NoDanglingCtcp == Spec => []NothingDangles
<1>1. IInv => NothingDangles
  <2> SUFFICES ASSUME IInv, NEW c \in Conn
               PROVE  /\ ~tcp[c].tcpInited =>
                             /\ ~tcp[c].connectReq /\ ~tcp[c].shutdownReq
                             /\ tcp[c].writes = <<>>
                      /\ ~Live(c) => /\ tcp[c] = FreeTcp
                                     /\ c \notin connecting
                                     /\ \A n \in Node : node2stream[n] # c
    BY DEF NothingDangles
  <2>1. ObjectInv(tcp[c])
    BY DEF IInv
  <2>2. ~tcp[c].tcpInited => /\ ~tcp[c].connectReq /\ ~tcp[c].shutdownReq
                             /\ tcp[c].writes = <<>>
    BY <2>1 DEF ObjectInv
  <2>3. ~Live(c) => tcp[c] = FreeTcp
    BY <2>1 DEF ObjectInv, Live
  <2>4. ~Live(c) => c \notin connecting
    BY <2>2 DEF IInv, ConnectingInv, Live
  <2>5. ~Live(c) => \A n \in Node : node2stream[n] # c
    BY ConstantsAssumption DEF IInv, MapIsUsable, Live
  <2>6. QED
    BY <2>2, <2>3, <2>4, <2>5
<1>2. QED
  BY <1>1, Invariance, PTL

\* Every open connection has a running timer, of the kind its state needs.
THEOREM AlwaysTimed == Spec => []DeadlineSet
<1>1. IInv => DeadlineSet
  BY DEF IInv, DeadlineSet, ObjectInv, Open, Live
<1>2. QED
  BY <1>1, Invariance, PTL

\* After the exit branch no late callback starts a connection.
THEOREM ExitFinal == Spec => []ExitIsFinal
<1>1. IInv => ExitIsFinal
  BY DEF IInv
<1>2. QED
  BY <1>1, Invariance, PTL

-----------------------------------------------------------------------------
(* Outstanding writes.                                                     *)

\* The messages in a sequence of writes.
Load(ws) == UNION {ToSet(w) : w \in ToSet(ws)}

\* No message is in two of them.
Apart(ws) ==
    \A i, j \in DOMAIN ws : i # j => ToSet(ws[i]) \cap ToSet(ws[j]) = {}

LEMMA LoadEmpty == Load(<<>>) = {} /\ Apart(<<>>)
BY ToSetEmpty DEF Load, Apart

\* One more write request.
LEMMA LoadAppend ==
    ASSUME NEW ws \in Seq(Seq(Msg)), NEW w \in Seq(Msg)
    PROVE  /\ Load(Append(ws, w)) = Load(ws) \cup ToSet(w)
           /\ Apart(ws) /\ Load(ws) \cap ToSet(w) = {} => Apart(Append(ws, w))
<1>1. ToSet(Append(ws, w)) = ToSet(ws) \cup {w}
  BY ToSetAppend
<1>2. ASSUME Apart(ws), Load(ws) \cap ToSet(w) = {} PROVE Apart(Append(ws, w))
  <2>1. /\ DOMAIN ws = 1..Len(ws) /\ DOMAIN Append(ws, w) = 1..Len(ws) + 1 /\ Len(ws) \in Nat
        /\ \A i \in 1..Len(ws) : Append(ws, w)[i] = ws[i]
        /\ Append(ws, w)[Len(ws) + 1] = w
    OBVIOUS
  <2>2. \A i \in 1..Len(ws) : ToSet(ws[i]) \subseteq Load(ws)
    <3>1. \A i \in 1..Len(ws) : ws[i] \in ToSet(ws)
      BY <2>1 DEF ToSet
    <3>2. QED
      BY <3>1 DEF Load
  <2>3. \A i \in 1..Len(ws) : ToSet(ws[i]) \cap ToSet(w) = {}
    BY <1>2, <2>2
  <2>4. \A i \in 1..Len(ws) + 1 : i \in 1..Len(ws) \/ i = Len(ws) + 1
    BY <2>1
  <2>5. QED
    BY <1>2, <2>1, <2>3, <2>4 DEF Apart
<1>3. QED
  BY <1>1, <1>2 DEF Load

\* The oldest write request is answered.
LEMMA LoadTail ==
    ASSUME NEW ws \in Seq(Seq(Msg)), ws # <<>>, Apart(ws)
    PROVE  /\ Load(Tail(ws)) = Load(ws) \ ToSet(Head(ws))
           /\ ToSet(Head(ws)) \subseteq Load(ws)
           /\ Apart(Tail(ws))
<1>1. /\ DOMAIN ws = 1..Len(ws) /\ DOMAIN Tail(ws) = 1..Len(ws) - 1
      /\ Len(ws) \in Nat /\ Len(ws) >= 1 /\ Head(ws) = ws[1]
      /\ \A i \in 1..Len(ws) - 1 : Tail(ws)[i] = ws[i + 1]
  OBVIOUS
<1>2. \A i \in 1..Len(ws) - 1 : i + 1 \in 1..Len(ws) /\ i + 1 # 1
  BY <1>1
<1> DEFINE t == Tail(ws)
<1>3. /\ DOMAIN t = 1..Len(ws) - 1
      /\ \A i \in 1..Len(ws) - 1 : t[i] = ws[i + 1] /\ ToSet(t[i]) \cap ToSet(Head(ws)) = {}
  <2>1. \A i \in 1..Len(ws) - 1 : ToSet(ws[i + 1]) \cap ToSet(ws[1]) = {}
    BY <1>1, <1>2, SMTT(30) DEF Apart
  <2>2. DOMAIN t = 1..Len(ws) - 1 /\ \A i \in 1..Len(ws) - 1 : t[i] = ws[i + 1]
    BY <1>1
  <2> HIDE DEF t
  <2>3. QED
    BY <1>1, <2>1, <2>2
<1>4. /\ Apart(t)
      /\ \A w \in ToSet(t) : ToSet(w) \cap ToSet(Head(ws)) = {}
  <2> HIDE DEF t
  <2>1. ASSUME NEW i \in DOMAIN t, NEW j \in DOMAIN t, i # j
        PROVE  ToSet(t[i]) \cap ToSet(t[j]) = {}
    <3>1. i + 1 \in DOMAIN ws /\ j + 1 \in DOMAIN ws /\ i + 1 # j + 1
      BY <1>1, <1>2, <1>3, <2>1, SMTT(30)
    <3>2. ToSet(ws[i + 1]) \cap ToSet(ws[j + 1]) = {}
      BY <3>1 DEF Apart
    <3>3. QED
      BY <1>3, <3>2, ZenonT(60)
  <2>2. \A w \in ToSet(t) : \E i \in DOMAIN t : w = t[i]
    BY DEF ToSet
  <2>3. QED
    BY <1>3, <2>1, <2>2 DEF Apart
<1>5. ToSet(ws) = ToSet(Tail(ws)) \cup {Head(ws)}
  BY ToSetHeadTail
<1>6. QED
  BY <1>4, <1>5 DEF Load

-----------------------------------------------------------------------------
(* The invariant: each message in one place.                               *)

Held(m) == (\E n \in Node : m \in Waiting(n)) \/ (\E c \in Conn : m \in Carried(c))

AccountInv ==
    /\ \A c \in Conn : Apart(tcp[c].writes)
    /\ \A c, d \in Conn : c # d => Carried(c) \cap Carried(d) = {}
    /\ \A n, k \in Node : n # k => Waiting(n) \cap Waiting(k) = {}
    /\ \A n \in Node, c \in Conn : Waiting(n) \cap Carried(c) = {}
    /\ \A m \in Msg : Held(m) => m <= nextMsg
    /\ \A m \in Msg : sent[m] + dropped[m] = IF m <= nextMsg /\ ~Held(m) THEN 1 ELSE 0

\* What a connection carries; nothing when no connection is concerned.
CarriedBy(c) == IF c \in Conn THEN Carried(c) ELSE {}

\* The messages waiting for n and carried by c, and those just taken, become
\* those that wait, are carried, were now sent and were now dropped.
Turnover(n, c, new, gone, lost) ==
    /\ \A k \in Node : k # n => waitingSend'[k] = waitingSend[k]
    /\ \A d \in Conn : d # c => tcp'[d] = tcp[d]
    /\ c \in Conn => /\ Apart(tcp'[c].writes)
                     /\ Carried(c) # {} => tcp[c].node = n
                     /\ Carried(c)' # {} => tcp'[c].node = n
    /\ sent' = Count(sent, gone) /\ dropped' = Count(dropped, lost)
    /\ \/ new = {} /\ nextMsg' = nextMsg
       \/ new = {nextMsg + 1} /\ nextMsg' = nextMsg + 1
    /\ Waiting(n) \cup CarriedBy(c) \cup new = Waiting(n)' \cup CarriedBy(c)' \cup gone \cup lost
    /\ Waiting(n)' \cap (CarriedBy(c)' \cup gone \cup lost) = {}
    /\ CarriedBy(c)' \cap (gone \cup lost) = {}
    /\ gone \cap lost = {}

\* Every message is a number, wherever it is.
LEMMA MessagesAreNumbered ==
    ASSUME TypeOK
    PROVE  /\ \A n \in Node : Waiting(n) \subseteq Msg
           /\ \A c \in Conn : Carried(c) \subseteq Msg
<1>1. \A n \in Node : waitingSend[n] \in Seq(Msg)
  BY DEF TypeOK
<1>2. \A s : s \in Seq(Msg) => ToSet(s) \subseteq Msg
  BY DEF ToSet
<1>3. \A c \in Conn : tcp[c].writes \in Seq(Seq(Msg))
  BY DEF TypeOK, TcpObject
<1>4. \A s : s \in Seq(Seq(Msg)) => ToSet(s) \subseteq Seq(Msg)
  BY DEF ToSet
<1>5. QED
  BY <1>1, <1>2, <1>3, <1>4 DEF Waiting, Carried

\* What is turned over was in no other place and not yet settled.
LEMMA TurnoverFrom ==
    ASSUME TypeOK, TypeOK', AccountInv, NEW n \in Node, NEW c \in Conn \cup {NoConn},
           NEW new, NEW gone, NEW lost, Turnover(n, c, new, gone, lost),
           NEW m \in Waiting(n) \cup CarriedBy(c) \cup new
    PROVE  /\ m \in Msg /\ m <= nextMsg'
           /\ sent[m] = 0 /\ dropped[m] = 0
           /\ \A k \in Node : k # n => m \notin Waiting(k)
           /\ \A d \in Conn : d # c => m \notin Carried(d)
<1>1. nextMsg \in Nat /\ nextMsg' \in 0..MaxMsg /\ MaxMsg \in Nat
  BY ConstantsAssumption DEF TypeOK
<1>2. \A i \in Msg : sent[i] \in Nat /\ dropped[i] \in Nat
  BY DEF TypeOK
<1>3. CASE m \in Waiting(n) \cup CarriedBy(c)
  <2>1. m \in Msg /\ Held(m)
    BY <1>3, MessagesAreNumbered DEF Held, CarriedBy
  <2>2. m <= nextMsg /\ sent[m] + dropped[m] = 0
    BY <2>1 DEF AccountInv
  <2>3. /\ \A k \in Node : k # n => m \notin Waiting(k)
        /\ \A d \in Conn : d # c => m \notin Carried(d)
    BY <1>3 DEF AccountInv, CarriedBy
  <2>4. m <= nextMsg'
    BY <1>1, <2>1, <2>2 DEF Turnover, Msg
  <2>5. QED
    BY <1>2, <2>1, <2>2, <2>3, <2>4
<1>4. CASE m \in new
  <2>1. m = nextMsg + 1 /\ nextMsg' = m
    BY <1>4 DEF Turnover
  <2>2. m \in Msg /\ ~(m <= nextMsg)
    BY <1>1, <2>1 DEF Msg
  <2>3. ~Held(m) /\ sent[m] + dropped[m] = 0
    BY <2>2 DEF AccountInv
  <2>4. QED
    BY <1>1, <1>2, <2>1, <2>2, <2>3 DEF Held
<1>5. QED
  BY <1>3, <1>4

LEMMA TurnoverKeeps ==
    ASSUME TypeOK, TypeOK', AccountInv, NEW n \in Node, NEW c \in Conn \cup {NoConn},
           NEW new, NEW gone, NEW lost, Turnover(n, c, new, gone, lost)
    PROVE  AccountInv'
<1> DEFINE X == Waiting(n) \cup CarriedBy(c) \cup new
<1>1. X = Waiting(n)' \cup CarriedBy(c)' \cup gone \cup lost
  BY DEF Turnover
<1>2. \A m \in X : /\ m \in Msg /\ m <= nextMsg'
                   /\ sent[m] = 0 /\ dropped[m] = 0
                   /\ \A k \in Node : k # n => m \notin Waiting(k)
                   /\ \A d \in Conn : d # c => m \notin Carried(d)
  BY TurnoverFrom
<1> HIDE DEF X
<1>3. /\ \A k \in Node : k # n => Waiting(k)' = Waiting(k)
      /\ \A d \in Conn : d # c => Carried(d)' = Carried(d)
  BY DEF Turnover, Waiting, Carried
<1>4. /\ Waiting(n)' \subseteq X
      /\ \A d \in Conn : d = c => CarriedBy(c)' = Carried(d)' /\ Carried(d)' \subseteq X
  BY <1>1 DEF CarriedBy
<1>5. \A d \in Conn : Apart(tcp'[d].writes)
  BY DEF Turnover, AccountInv
<1>6. \A d, e \in Conn : d # e => Carried(d)' \cap Carried(e)' = {}
  BY <1>2, <1>3, <1>4 DEF AccountInv
<1>7. \A k, l \in Node : k # l => Waiting(k)' \cap Waiting(l)' = {}
  BY <1>2, <1>3, <1>4 DEF AccountInv
<1>8. \A k \in Node, d \in Conn : Waiting(k)' \cap Carried(d)' = {}
  <2>1. \A d \in Conn : d = c => Waiting(n)' \cap Carried(d)' = {}
    BY <1>4 DEF Turnover
  <2>2. QED
    BY <1>2, <1>3, <1>4, <2>1 DEF AccountInv
<1>9. \A m \in Msg : m \notin X => /\ Held(m)' <=> Held(m)
                                   /\ m <= nextMsg' <=> m <= nextMsg
                                   /\ sent'[m] = sent[m] /\ dropped'[m] = dropped[m]
  <2> SUFFICES ASSUME NEW m \in Msg, m \notin X
               PROVE  /\ Held(m)' <=> Held(m)
                      /\ m <= nextMsg' <=> m <= nextMsg
                      /\ sent'[m] = sent[m] /\ dropped'[m] = dropped[m]
    OBVIOUS
  <2>1. m \notin gone /\ m \notin lost /\ m \notin new
        /\ m \notin Waiting(n) /\ m \notin Waiting(n)'
        /\ \A d \in Conn : d = c => m \notin Carried(d) /\ m \notin Carried(d)'
    BY <1>1, <1>4 DEF X, CarriedBy
  <2>2. sent'[m] = sent[m] /\ dropped'[m] = dropped[m]
    BY <2>1 DEF Turnover, Count
  <2>3. m <= nextMsg' <=> m <= nextMsg
    BY <2>1, ConstantsAssumption DEF Turnover, TypeOK, Msg
  <2>4. Held(m)' <=> Held(m)
    BY <1>3, <2>1 DEF Held
  <2>5. QED
    BY <2>2, <2>3, <2>4
<1>10. \A m \in X : /\ m <= nextMsg'
                    /\ sent'[m] + dropped'[m] = IF Held(m)' THEN 0 ELSE 1
  <2> SUFFICES ASSUME NEW m \in X
               PROVE  sent'[m] + dropped'[m] = IF Held(m)' THEN 0 ELSE 1
    BY <1>2
  <2>1. /\ m \in Msg /\ sent'[m] = IF m \in gone THEN 1 ELSE 0
        /\ dropped'[m] = IF m \in lost THEN 1 ELSE 0
    BY <1>2 DEF Turnover, Count
  <2>2. Held(m)' <=> m \in Waiting(n)' \cup CarriedBy(c)'
    <3>1. /\ \A k \in Node : k # n => m \notin Waiting(k)'
          /\ \A d \in Conn : d # c => m \notin Carried(d)'
      BY <1>2, <1>3
    <3>2. QED
      BY <3>1 DEF Held, CarriedBy
  <2>3. /\ m \in Waiting(n)' \cup CarriedBy(c)' => m \notin gone \cup lost
        /\ m \notin Waiting(n)' \cup CarriedBy(c)' => m \in gone \cup lost
        /\ ~(m \in gone /\ m \in lost)
    BY <1>1 DEF Turnover
  <2>4. QED
    BY <2>1, <2>2, <2>3
<1>11. \A m \in Msg : /\ Held(m)' => m <= nextMsg'
                      /\ sent'[m] + dropped'[m] = IF m <= nextMsg' /\ ~Held(m)' THEN 1 ELSE 0
  BY <1>9, <1>10 DEF AccountInv
<1>12. QED
  BY <1>5, <1>6, <1>7, <1>8, <1>11 DEF AccountInv

-----------------------------------------------------------------------------
(* What the application sees of a turnover.                                *)

\* The messages of n that are not answered.
Pending(n) == Waiting(n) \cup UNION {Carried(c) : c \in {d \in Conn : tcp[d].node = n}}

PendingMap == [n \in Node |-> Pending(n)]

SentSet == {m \in Msg : sent[m] > 0}
DroppedSet == {m \in Msg : dropped[m] > 0}

LEMMA PendingIs ==
    ASSUME NEW k \in Node, NEW m
    PROVE  m \in Pending(k) <=>
              m \in Waiting(k) \/ \E d \in Conn : tcp[d].node = k /\ m \in Carried(d)
BY DEF Pending

LEMMA PendingIsNext ==
    ASSUME NEW k \in Node, NEW m
    PROVE  m \in Pending(k)' <=>
              m \in Waiting(k)' \/ \E d \in Conn : tcp'[d].node = k /\ m \in Carried(d)'
BY DEF Pending

LEMMA TurnoverAnswers ==
    ASSUME TypeOK, TypeOK', AccountInv, NEW n \in Node, NEW c \in Conn \cup {NoConn},
           NEW new, NEW gone, NEW lost, Turnover(n, c, new, gone, lost)
    PROVE  /\ SentSet' = SentSet \cup gone /\ DroppedSet' = DroppedSet \cup lost
           /\ (gone \cup lost) \cap (SentSet \cup DroppedSet) = {}
           /\ gone \cup lost \subseteq Pending(n) \cup new
           /\ Pending(n)' = (Pending(n) \cup new) \ (gone \cup lost)
           /\ \A k \in Node : k # n => Pending(k)' = Pending(k)
<1> DEFINE X == Waiting(n) \cup CarriedBy(c) \cup new
<1>1. X = Waiting(n)' \cup CarriedBy(c)' \cup gone \cup lost
  BY DEF Turnover
<1>2. \A m \in X : /\ m \in Msg
                   /\ sent[m] = 0 /\ dropped[m] = 0
                   /\ \A d \in Conn : d # c => m \notin Carried(d)
  BY TurnoverFrom
<1>3. /\ \A k \in Node : k # n => Waiting(k)' = Waiting(k)
      /\ \A d \in Conn : d # c => Carried(d)' = Carried(d) /\ tcp'[d] = tcp[d]
  BY DEF Turnover, Waiting, Carried
<1>4. \A d \in Conn : d = c => /\ CarriedBy(c) = Carried(d) /\ CarriedBy(c)' = Carried(d)'
                               /\ Carried(d) # {} => tcp[d].node = n
                               /\ Carried(d)' # {} => tcp'[d].node = n
  BY DEF CarriedBy, Turnover
<1>5. c \notin Conn => CarriedBy(c) = {} /\ CarriedBy(c)' = {}
  BY DEF CarriedBy
<1>6. SentSet' = SentSet \cup gone /\ DroppedSet' = DroppedSet \cup lost
  <2>1. \A m \in Msg : /\ sent[m] \in Nat /\ dropped[m] \in Nat
                       /\ sent'[m] = IF m \in gone THEN sent[m] + 1 ELSE sent[m]
                       /\ dropped'[m] = IF m \in lost THEN dropped[m] + 1 ELSE dropped[m]
    BY DEF Turnover, Count, TypeOK
  <2>2. gone \subseteq Msg /\ lost \subseteq Msg
    BY <1>1, <1>2
  <2>3. QED
    BY <2>1, <2>2 DEF SentSet, DroppedSet
<1>7. (gone \cup lost) \cap (SentSet \cup DroppedSet) = {}
  BY <1>1, <1>2 DEF SentSet, DroppedSet
<1>8. /\ X \subseteq Pending(n) \cup new
      /\ new \subseteq X
  BY <1>4, <1>5, PendingIs
<1>9. gone \cup lost \subseteq Pending(n) \cup new
  BY <1>1, <1>8
<1>10. ASSUME NEW k \in Node, k # n PROVE Pending(k)' = Pending(k)
  <2>1. ASSUME NEW m, NEW d \in Conn
        PROVE  tcp[d].node = k /\ m \in Carried(d) <=> tcp'[d].node = k /\ m \in Carried(d)'
    <3>1. CASE d = c
      BY <1>4, <1>10, <3>1
    <3>2. CASE d # c
      BY <1>3, <3>2
    <3>3. QED
      BY <3>1, <3>2
  <2>2. Waiting(k)' = Waiting(k)
    BY <1>3, <1>10
  <2>3. \A m : m \in Pending(k)' <=> m \in Pending(k)
    BY <2>1, <2>2, PendingIs, PendingIsNext
  <2>4. QED
    BY <2>3
<1>11. Pending(n)' \subseteq (Pending(n) \cup new) \ (gone \cup lost)
  <2> SUFFICES ASSUME NEW m \in Pending(n)'
               PROVE  m \in Pending(n) \cup new /\ m \notin gone \cup lost
    OBVIOUS
  <2>1. CASE m \in Waiting(n)' \cup CarriedBy(c)'
    <3>1. m \in X
      BY <1>1, <2>1
    <3>2. m \notin gone \cup lost
      BY <2>1 DEF Turnover
    <3>3. QED
      BY <1>8, <3>1, <3>2
  <2>2. CASE m \notin Waiting(n)' \cup CarriedBy(c)'
    <3>1. PICK d \in Conn : tcp'[d].node = n /\ m \in Carried(d)'
      BY <2>2, PendingIsNext
    <3>2. d # c
      BY <1>4, <2>2, <3>1
    <3>3. tcp[d].node = n /\ m \in Carried(d)
      BY <1>3, <3>1, <3>2
    <3>4. m \notin X
      BY <1>2, <3>2, <3>3
    <3>5. QED
      BY <1>1, <3>3, <3>4, PendingIs
  <2>3. QED
    BY <2>1, <2>2
<1>12. (Pending(n) \cup new) \ (gone \cup lost) \subseteq Pending(n)'
  <2> SUFFICES ASSUME NEW m \in Pending(n) \cup new, m \notin gone \cup lost
               PROVE  m \in Pending(n)'
    OBVIOUS
  <2>1. CASE m \in X
    <3>1. m \in Waiting(n)' \cup CarriedBy(c)'
      BY <1>1, <2>1
    <3>2. QED
      BY <1>4, <1>5, <3>1, PendingIsNext
  <2>2. CASE m \notin X
    <3>1. m \in Pending(n) /\ m \notin Waiting(n) /\ m \notin CarriedBy(c)
      BY <1>8, <2>2
    <3>2. PICK d \in Conn : tcp[d].node = n /\ m \in Carried(d)
      BY <3>1, PendingIs
    <3>3. d # c
      BY <1>4, <3>1, <3>2
    <3>4. tcp'[d].node = n /\ m \in Carried(d)'
      BY <1>3, <3>2, <3>3
    <3>5. QED
      BY <3>4, PendingIsNext
  <2>3. QED
    BY <2>1, <2>2
<1>13. QED
  BY <1>6, <1>7, <1>9, <1>10, <1>11, <1>12

\* A message is not answered in both ways.
LEMMA AnsweredOnce ==
    ASSUME TypeOK', AccountInv'
    PROVE  SentSet' \cap DroppedSet' = {}
<1>1. \A m \in Msg : sent'[m] \in Nat /\ dropped'[m] \in Nat
  BY DEF TypeOK
<1>2. \A m \in Msg : sent'[m] + dropped'[m] \in {0, 1}
  BY DEF AccountInv
<1>3. QED
  BY <1>1, <1>2 DEF SentSet, DroppedSet

LEMMA ServiceAnswer ==
    ASSUME TypeOK, TypeOK', AccountInv, NEW n \in Node, NEW c \in Conn \cup {NoConn},
           NEW new, NEW gone, NEW lost, Turnover(n, c, new, gone, lost)
    PROVE  /\ new = {} => Service!Answer(n, PendingMap[n])
           /\ new = {nextMsg'} => Service!Answer(n, PendingMap[n] \cup {nextMsg'})
           /\ gone = {} => SentSet' = SentSet
<1>1. /\ SentSet' = SentSet \cup gone /\ DroppedSet' = DroppedSet \cup lost
      /\ (gone \cup lost) \cap (SentSet \cup DroppedSet) = {}
      /\ gone \cup lost \subseteq Pending(n) \cup new
      /\ Pending(n)' = (Pending(n) \cup new) \ (gone \cup lost)
      /\ \A k \in Node : k # n => Pending(k)' = Pending(k)
  BY TurnoverAnswers
<1>2. SentSet' \cap DroppedSet' = {}
  BY TurnoverKeeps, AnsweredOnce
<1>3. (SentSet' \ SentSet) \cup (DroppedSet' \ DroppedSet) = gone \cup lost
  BY <1>1
<1>4. PendingMap' = [PendingMap EXCEPT ![n] = (PendingMap[n] \cup new) \ (gone \cup lost)]
  BY <1>1 DEF PendingMap
<1>5. PendingMap[n] = Pending(n)
  BY DEF PendingMap
<1>6. /\ SentSet \subseteq SentSet' /\ DroppedSet \subseteq DroppedSet'
      /\ (SentSet' \ SentSet) \cup (DroppedSet' \ DroppedSet) \subseteq PendingMap[n] \cup new
      /\ PendingMap' = [PendingMap EXCEPT ![n] = (PendingMap[n] \cup new)
                                        \ ((SentSet' \ SentSet) \cup (DroppedSet' \ DroppedSet))]
  BY <1>1, <1>3, <1>4, <1>5
<1>7. new = {} => Service!Answer(n, PendingMap[n])
  <2> HAVE new = {}
  <2>1. /\ SentSet \subseteq SentSet' /\ DroppedSet \subseteq DroppedSet'
        /\ SentSet' \cap DroppedSet' = {}
        /\ (SentSet' \ SentSet) \cup (DroppedSet' \ DroppedSet) \subseteq PendingMap[n]
        /\ PendingMap' = [PendingMap EXCEPT ![n] = PendingMap[n]
                                       \ ((SentSet' \ SentSet) \cup (DroppedSet' \ DroppedSet))]
    BY <1>2, <1>6
  <2>2. QED
    BY <2>1 DEF Service!Answer, SentSet, DroppedSet, PendingMap, Pending
<1>8. new = {nextMsg'} => Service!Answer(n, PendingMap[n] \cup {nextMsg'})
  <2> HAVE new = {nextMsg'}
  <2>1. /\ SentSet \subseteq SentSet' /\ DroppedSet \subseteq DroppedSet'
        /\ SentSet' \cap DroppedSet' = {}
        /\ (SentSet' \ SentSet) \cup (DroppedSet' \ DroppedSet) \subseteq PendingMap[n] \cup {nextMsg'}
        /\ PendingMap' = [PendingMap EXCEPT ![n] = (PendingMap[n] \cup {nextMsg'})
                                       \ ((SentSet' \ SentSet) \cup (DroppedSet' \ DroppedSet))]
    BY <1>2, <1>6
  <2>2. QED
    BY <2>1 DEF Service!Answer, SentSet, DroppedSet, PendingMap, Pending
<1>9. gone = {} => SentSet' = SentSet
  BY <1>1
<1>10. QED
  BY <1>7, <1>8, <1>9

-----------------------------------------------------------------------------
(* Steps of TcpService.                                                    *)

\* A step of the engine keeps the account and is a step of the service.
Serves == AccountInv' /\ [Service!Next]_(Service!vars)

LEMMA ProgressStep ==
    ASSUME IInv, IInv', AccountInv, NEW n \in Node, NEW c \in Conn \cup {NoConn},
           NEW gone, NEW lost, Turnover(n, c, {}, gone, lost),
           up' \in {up, [up EXCEPT ![n] = FALSE]}, UNCHANGED exited
    PROVE  Serves
<1>1. TypeOK /\ TypeOK'
  BY DEF IInv
<1>2. nextMsg' = nextMsg
  BY DEF Turnover
<1>3. AccountInv'
  BY <1>1, TurnoverKeeps
<1>4. Service!Answer(n, PendingMap[n])
  BY <1>1, ServiceAnswer
<1>5. Service!Progress(n)
  BY <1>2, <1>4 DEF Service!Progress, PendingMap, Pending
<1>6. QED
  BY <1>3, <1>5 DEF Serves, Service!Next

LEMMA ConnectStep ==
    ASSUME IInv, IInv', AccountInv, NEW n \in Node, NEW c \in Conn \cup {NoConn},
           NEW lost, Turnover(n, c, {}, {}, lost), ~up[n],
           up' = [up EXCEPT ![n] = TRUE], ~exited, UNCHANGED exited
    PROVE  Serves
<1>1. TypeOK /\ TypeOK'
  BY DEF IInv
<1>2. nextMsg' = nextMsg
  BY DEF Turnover
<1>3. AccountInv'
  BY <1>1, TurnoverKeeps
<1>4. Service!Answer(n, PendingMap[n])
  BY <1>1, ServiceAnswer
<1>5. SentSet' = SentSet
  BY <1>1, ServiceAnswer
<1>6. Service!Connect(n)
  BY <1>2, <1>4, <1>5 DEF Service!Connect, PendingMap, Pending, SentSet
<1>7. QED
  BY <1>3, <1>6 DEF Serves, Service!Next

LEMMA TakeStep ==
    ASSUME IInv, IInv', AccountInv, NEW n \in Node, NEW c \in Conn \cup {NoConn},
           NEW lost, Turnover(n, c, {nextMsg + 1}, {}, lost),
           nextMsg < MaxMsg, nextMsg' = nextMsg + 1,
           up' \in {up, [up EXCEPT ![n] = FALSE]}, ~exited, UNCHANGED exited
    PROVE  Serves
<1>1. TypeOK /\ TypeOK'
  BY DEF IInv
<1>2. AccountInv'
  BY <1>1, TurnoverKeeps
<1>3. Service!Answer(n, PendingMap[n] \cup {nextMsg'})
  BY <1>1, ServiceAnswer
<1>4. SentSet' = SentSet
  BY <1>1, ServiceAnswer
<1>5. Service!Take(n)
  BY <1>3, <1>4 DEF Service!Take, PendingMap, Pending, SentSet
<1>6. QED
  BY <1>2, <1>5 DEF Serves, Service!Next

\* A handler that touches no message, and no node of a connection with messages.
LEMMA QuietStep ==
    ASSUME IInv, IInv', AccountInv, NEW c \in Conn, NEW o,
           tcp' = [tcp EXCEPT ![c] = o],
           UNCHANGED <<waitingSend, up, nextMsg, sent, dropped, exited>>,
           o.writes = tcp[c].writes, tcp[c].writes # <<>> => o.node = tcp[c].node
    PROVE  Serves
<1>1. tcp'[c] = o /\ \A d \in Conn : d # c => tcp'[d] = tcp[d]
  BY DEF IInv, TypeOK
<1>2. /\ \A d \in Conn : tcp'[d].writes = tcp[d].writes
      /\ \A d \in Conn : Carried(d)' = Carried(d)
      /\ \A n \in Node : Waiting(n)' = Waiting(n)
  BY <1>1 DEF Carried, Waiting
<1>3. \A d \in Conn : Carried(d) # {} => tcp'[d].node = tcp[d].node
  BY <1>1, LoadEmpty DEF Carried, Load
<1>4. AccountInv'
  <2>1. \A m \in Msg : Held(m)' <=> Held(m)
    BY <1>2 DEF Held
  <2>2. QED
    BY <1>2, <2>1 DEF AccountInv
<1>5. \A n \in Node : \A m : m \in Pending(n)' <=> m \in Pending(n)
  BY <1>2, <1>3, PendingIs, PendingIsNext
<1>6. \A n \in Node : Pending(n)' = Pending(n)
  BY <1>5
<1>7. UNCHANGED Service!vars
  BY <1>6 DEF Service!vars, Pending
<1>8. QED
  BY <1>4, <1>7 DEF Serves

-----------------------------------------------------------------------------
(* The two helpers of CnetworkPool that settle messages.                   *)

LEMMA CountNone ==
    ASSUME NEW counter \in [Msg -> Nat]
    PROVE  Count(counter, {}) = counter
BY DEF Count

\* The next message is nowhere yet.
LEMMA NextMsgIsNew ==
    ASSUME IInv, AccountInv, nextMsg < MaxMsg
    PROVE  /\ nextMsg + 1 \in Msg
           /\ \A n \in Node : nextMsg + 1 \notin Waiting(n)
           /\ \A c \in Conn : nextMsg + 1 \notin Carried(c)
<1>1. nextMsg \in Nat /\ MaxMsg \in Nat
  BY ConstantsAssumption DEF IInv, TypeOK
<1>2. nextMsg + 1 \in Msg /\ ~(nextMsg + 1 <= nextMsg)
  BY <1>1 DEF Msg
<1>3. ~Held(nextMsg + 1)
  BY <1>2 DEF AccountInv
<1>4. QED
  BY <1>2, <1>3 DEF Held

\* The messages of c, and those just taken, stay on `after`, the object c becomes,
\* or were now sent, or are lost.
Settled(c, after, new, gone, lost) ==
    /\ after.node = tcp[c].node /\ after.node \in Node
    /\ sent' = Count(sent, gone)
    /\ \/ new = {} /\ nextMsg' = nextMsg
       \/ new = {nextMsg + 1} /\ nextMsg' = nextMsg + 1 /\ nextMsg < MaxMsg
    /\ Apart(after.writes)
    /\ Load(after.writes) \cup gone \cup lost = Carried(c) \cup new
    /\ Load(after.writes) \cap (gone \cup lost) = {}
    /\ gone \cap lost = {}

\* shutdownTcpConnection drops what waits for the node, whoever carried what.
LEMMA ShutdownTurnover ==
    ASSUME IInv, AccountInv, NEW c \in Conn, NEW after,
           NEW notify \in BOOLEAN, NEW new, NEW gone, NEW lost,
           ShutdownTcpConnection(c, after, notify, lost),
           Settled(c, after, new, gone, lost)
    PROVE  /\ Turnover(after.node, c, new, gone, lost \cup Waiting(after.node))
           /\ up' \in {up, [up EXCEPT ![after.node] = FALSE]}
<1> USE DEF Settled
<1> DEFINE n == after.node
<1>1. /\ waitingSend' = [waitingSend EXCEPT ![n] = <<>>]
      /\ dropped' = Count(dropped, lost \cup Waiting(n))
      /\ tcp' = [tcp EXCEPT ![c] = after]
      /\ up' = [up EXCEPT ![n] = up[n] /\ node2stream[n] = NoConn /\ ~notify]
  BY DEF ShutdownTcpConnection
<1>2. TypeOK
  BY DEF IInv
<1>3. /\ waitingSend'[n] = <<>>
      /\ \A k \in Node : k # n => waitingSend'[k] = waitingSend[k]
      /\ tcp'[c] = after /\ \A d \in Conn : d # c => tcp'[d] = tcp[d]
  BY <1>1, <1>2 DEF TypeOK
<1>4. Waiting(n)' = {} /\ CarriedBy(c) = Carried(c) /\ CarriedBy(c)' = Load(after.writes)
  BY <1>3, ToSetEmpty DEF Waiting, CarriedBy, Carried, Load
<1>5. Waiting(n) \cap (Carried(c) \cup new) = {}
  BY NextMsgIsNew DEF AccountInv
<1>6. Turnover(n, c, new, gone, lost \cup Waiting(n))
  <2>1. gone \cap (lost \cup Waiting(n)) = {}
    BY <1>5
  <2>2. Load(after.writes) \cap (gone \cup lost \cup Waiting(n)) = {}
    BY <1>5
  <2>3. Waiting(n) \cup CarriedBy(c) \cup new
           = Waiting(n)' \cup CarriedBy(c)' \cup gone \cup (lost \cup Waiting(n))
    BY <1>4
  <2>4. QED
    BY <1>1, <1>3, <1>4, <2>1, <2>2, <2>3 DEF Turnover
<1>7. up' \in {up, [up EXCEPT ![n] = FALSE]}
  BY <1>1, <1>2 DEF TypeOK
<1>8. QED
  BY <1>6, <1>7

\* startupTcpConnection hands over, or drops, what waits for the node.
LEMMA StartupServes ==
    ASSUME IInv, IInv', AccountInv, NEW c \in Conn, NEW o, Ready(o),
           StartupTcpConnection(c, o), tcp[c].writes = <<>>,
           UNCHANGED <<nextMsg, sent, exited>>, ~exited
    PROVE  Serves
<1> DEFINE n == o.node
           w == waitingSend[n]
<1>1. /\ TypeOK /\ n \in Node /\ o \in TcpObject /\ o.writes = <<>> /\ o.queued = 0
      /\ w \in Seq(Msg)
      /\ sent' = Count(sent, {}) /\ dropped = Count(dropped, {})
  BY CountNone DEF IInv, Ready, TypeOK
<1>2. Carried(c) = {} /\ CarriedBy(c) = {} /\ Load(<<>>) = {} /\ Apart(<<>>)
  BY LoadEmpty DEF Carried, CarriedBy, Load
<1>3. CloseTcp(o).writes = <<>> /\ CloseTcp(o).node = n
  BY <1>1 DEF CloseTcp, TcpObject
<1>4. ASSUME NEW p, tcp' = [tcp EXCEPT ![c] = p]
      PROVE  /\ tcp'[c] = p /\ CarriedBy(c)' = Load(p.writes)
             /\ \A d \in Conn : d # c => tcp'[d] = tcp[d]
  BY <1>1, <1>4 DEF TypeOK, CarriedBy, Carried, Load
<1>5. CASE /\ tcp' = [tcp EXCEPT ![c] = CloseTcp(o)]
           /\ UNCHANGED <<up, waitingSend, dropped>>
  <2>1. Turnover(n, c, {}, {}, {})
    BY <1>1, <1>2, <1>3, <1>4, <1>5 DEF Turnover, Waiting
  <2>2. QED
    BY <1>1, <1>5, <2>1, ProgressStep
<1>6. CASE /\ node2stream[n] = NoConn /\ up' = [up EXCEPT ![n] = TRUE]
           /\ tcp' = [tcp EXCEPT ![c] = o]
           /\ UNCHANGED <<waitingSend, dropped>>
  <2>1. Turnover(n, c, {}, {}, {})
    BY <1>1, <1>2, <1>4, <1>6 DEF Turnover, Waiting
  <2>2. ~up[n]
    BY <1>1, <1>6 DEF IInv, StatusMatchesMap
  <2>3. QED
    BY <1>1, <1>6, <2>1, <2>2, ConnectStep
<1>7. CASE /\ node2stream[n] = NoConn
           /\ waitingSend' = [waitingSend EXCEPT ![n] = <<>>]
           /\ SendWaiting(c, o)
  <2>1. /\ ~up[n]
        /\ Waiting(n)' = {}
        /\ \A k \in Node : k # n => waitingSend'[k] = waitingSend[k]
    BY <1>1, <1>7, ToSetEmpty DEF IInv, StatusMatchesMap, TypeOK, Waiting
  <2>2. CASE /\ up' = [up EXCEPT ![n] = TRUE]
             /\ tcp' = [tcp EXCEPT ![c] = [o EXCEPT !.timer = "send", !.queued = @ + 1,
                                             !.writes = Append(@, w)]]
             /\ UNCHANGED dropped
    <3> DEFINE s == Writing(o, Append(o.writes, w), o.queued + 1)
    <3>1. tcp' = [tcp EXCEPT ![c] = s]
      BY <2>2 DEF Writing
    <3>2. s.writes = Append(<<>>, w) /\ s.node = n
      BY <1>1 DEF Writing, TcpObject
    <3> HIDE DEF s
    <3>3. Load(s.writes) = ToSet(w) /\ Apart(s.writes)
      <4>1. <<>> \in Seq(Seq(Msg)) /\ Load(<<>>) \cap ToSet(w) = {}
        BY <1>2
      <4>2. Load(Append(<<>>, w)) = Load(<<>>) \cup ToSet(w) /\ Apart(Append(<<>>, w))
        BY <1>1, <1>2, <4>1, LoadAppend
      <4>3. QED
        BY <1>2, <3>2, <4>2
    <3>4. CarriedBy(c)' = Waiting(n) /\ tcp'[c] = s
      BY <1>4, <3>1, <3>3 DEF Waiting
    <3>5. \A d \in Conn : d # c => tcp'[d] = tcp[d]
      BY <1>4, <3>1
    <3>6. Turnover(n, c, {}, {}, {})
      BY <1>1, <1>2, <2>1, <2>2, <3>2, <3>3, <3>4, <3>5 DEF Turnover
    <3>7. QED
      BY <1>1, <2>1, <2>2, <3>6, ConnectStep
  <2>3. CASE /\ up' = [up EXCEPT ![n] = TRUE]
             /\ tcp' = [tcp EXCEPT ![c] = o]
             /\ dropped' = Count(dropped, Waiting(n))
    <3>1. tcp'[c] = o /\ CarriedBy(c)' = {} /\ \A d \in Conn : d # c => tcp'[d] = tcp[d]
      BY <1>1, <1>2, <1>4, <2>3
    <3>2. Turnover(n, c, {}, {}, Waiting(n))
      BY <1>1, <1>2, <2>1, <2>3, <3>1 DEF Turnover
    <3>3. QED
      BY <1>1, <2>1, <2>3, <3>2, ConnectStep
  <2>4. CASE /\ up' = [up EXCEPT ![n] = FALSE]
             /\ tcp' = [tcp EXCEPT ![c] = CloseTcp(o)]
             /\ dropped' = Count(dropped, Waiting(n))
    <3>1. Turnover(n, c, {}, {}, Waiting(n))
      BY <1>1, <1>2, <1>3, <1>4, <2>1, <2>4, ZenonT(60) DEF Turnover
    <3>2. QED
      BY <1>1, <2>4, <3>1, ProgressStep
  <2>5. QED
    BY <1>7, <2>2, <2>3, <2>4 DEF SendWaiting
<1>8. QED
  BY <1>5, <1>6, <1>7 DEF StartupTcpConnection

-----------------------------------------------------------------------------
(* Every request of on_wakeup and every callback.                          *)

\* An object not in use carries nothing.
LEMMA FreeCarriesNothing ==
    ASSUME IInv, NEW c \in Conn, ~Live(c)
    PROVE  tcp[c].writes = <<>> /\ Carried(c) = {} /\ CarriedBy(c) = {}
<1>1. tcp[c] = FreeTcp
  BY DEF IInv, ObjectInv, Live
<1>2. tcp[c].writes = <<>>
  BY <1>1 DEF FreeTcp
<1>3. QED
  BY <1>2, LoadEmpty DEF Carried, CarriedBy, Load

\* Nor does one that is given up before it was used.
LEMMA AbandonedCarriesNothing ==
    ASSUME NEW n \in Node, NEW o \in HalfBuilt \cup {CloseTcp(NewTcp(n))}
    PROVE  o.writes = <<>>
<1>1. ASSUME NEW k \in Node \cup {NoNode} PROVE CloseTcp(NewTcp(k)).writes = <<>>
  BY NewTcpOK DEF CloseTcp, TcpObject
<1>2. CASE o \in HalfBuilt
  <2> DEFINE b == CloseTcp(NewTcp(NoNode))
  <2>1. PICK t \in BOOLEAN : o = [b EXCEPT !.timerInited = t]
    BY <1>2 DEF HalfBuilt
  <2>2. b \in TcpObject
    <3> DEFINE p == NewTcp(NoNode)
    <3>1. p \in TcpObject
      BY NewTcpOK
    <3> HIDE DEF p
    <3>2. CloseTcp(p) \in TcpObject
      BY <3>1 DEF CloseTcp, TcpObject
    <3>3. QED
      BY <3>2 DEF p
  <2>3. b.writes = <<>>
    BY <1>1
  <2> HIDE DEF b
  <2>4. QED
    BY <2>1, <2>2, <2>3 DEF TcpObject
<1>3. QED
  BY <1>1, <1>2

\* The connection of a node ends.
LEMMA ShutdownServes ==
    ASSUME IInv, IInv', AccountInv, NEW c \in Conn, NEW after,
           NEW notify \in BOOLEAN, NEW gone, NEW lost,
           ShutdownTcpConnection(c, after, notify, lost),
           Settled(c, after, {}, gone, lost), UNCHANGED exited
    PROVE  Serves
<1>1. /\ Turnover(after.node, c, {}, gone, lost \cup Waiting(after.node))
      /\ up' \in {up, [up EXCEPT ![after.node] = FALSE]}
  BY ShutdownTurnover
<1>2. after.node \in Node
  BY DEF Settled
<1>3. QED
  BY <1>1, <1>2, ProgressStep

\* It ends with all it carries still outstanding.
LEMMA EndServes ==
    ASSUME IInv, IInv', AccountInv, NEW c \in Conn, NEW after,
           NEW notify \in BOOLEAN, ShutdownTcpConnection(c, after, notify, {}),
           after.node = tcp[c].node, after.node \in Node, after.writes = tcp[c].writes,
           UNCHANGED <<nextMsg, sent, exited>>
    PROVE  Serves
<1>1. sent' = Count(sent, {})
  BY CountNone DEF IInv, TypeOK
<1>2. Apart(after.writes) /\ Load(after.writes) = Carried(c)
  BY DEF AccountInv, Carried, Load
<1>3. Settled(c, after, {}, {}, {})
  BY <1>1, <1>2 DEF Settled
<1>4. QED
  BY <1>3, ShutdownServes

\* uv_close keeps the outstanding writes.
LEMMA CloseServes ==
    ASSUME IInv, IInv', AccountInv, NEW c \in Conn, tcp[c].node \in Node,
           NEW notify \in BOOLEAN, ShutdownTcpConnection(c, CloseTcp(tcp[c]), notify, {}),
           UNCHANGED <<nextMsg, sent, exited>>
    PROVE  Serves
<1>1. CloseTcp(tcp[c]).node = tcp[c].node /\ CloseTcp(tcp[c]).writes = tcp[c].writes
  BY DEF CloseTcp, IInv, TypeOK, TcpObject
<1>2. QED
  BY <1>1, EndServes

LEMMA SendConnectServes ==
    ASSUME IInv, IInv', AccountInv, NEW n \in Node, SendConnect(n, nextMsg + 1),
           ~exited, nextMsg < MaxMsg, nextMsg' = nextMsg + 1, UNCHANGED exited
    PROVE  Serves
<1> DEFINE m == nextMsg + 1
<1>1. /\ waitingSend[n] = <<>> /\ sent' = Count(sent, {})
      /\ dropped = Count(dropped, {})
  BY CountNone DEF SendConnect, IInv, TypeOK
<1>2. Waiting(n) = {} /\ Apart(<<>>) /\ Load(<<>>) = {}
  BY <1>1, ToSetEmpty, LoadEmpty DEF Waiting
<1>3. ASSUME NEW c \in Conn, ~Live(c), NEW o, tcp' = [tcp EXCEPT ![c] = o], o.writes = <<>>
      PROVE  /\ CarriedBy(c) = {} /\ CarriedBy(c)' = {} /\ Carried(c) = {} /\ Carried(c)' = {}
             /\ Apart(tcp'[c].writes)
             /\ \A d \in Conn : d # c => tcp'[d] = tcp[d]
  <2>1. tcp'[c] = o /\ \A d \in Conn : d # c => tcp'[d] = tcp[d]
    BY <1>3 DEF IInv, TypeOK
  <2>2. Carried(c)' = {}
    BY <1>2, <1>3, <2>1 DEF Carried, Load
  <2>3. QED
    BY <1>2, <1>3, <2>1, <2>2, FreeCarriesNothing DEF CarriedBy
<1>4. ASSUME NEW c \in Conn, ~Live(c),
             tcp' = [tcp EXCEPT ![c] = [NewTcp(n) EXCEPT !.timer = "connect",
                                                       !.connectReq = TRUE]],
             waitingSend' = [waitingSend EXCEPT ![n] = <<m>>], UNCHANGED <<up, dropped>>
      PROVE  Serves
  <2>1. [NewTcp(n) EXCEPT !.timer = "connect", !.connectReq = TRUE].writes = <<>>
    BY NewTcpOK DEF TcpObject
  <2>2. Waiting(n)' = {m} /\ \A k \in Node : k # n => waitingSend'[k] = waitingSend[k]
    <3>1. ToSet(<<m>>) = {m}
      BY DEF ToSet
    <3>2. QED
      BY <1>4, <3>1 DEF IInv, TypeOK, Waiting
  <2>3. Turnover(n, c, {m}, {}, {})
    BY <1>1, <1>2, <1>3, <1>4, <2>1, <2>2 DEF Turnover
  <2>4. QED
    BY <1>4, <2>3, TakeStep
<1>5. CASE /\ UNCHANGED tcp /\ up' = [up EXCEPT ![n] = FALSE]
           /\ dropped' = Count(dropped, {m}) /\ UNCHANGED waitingSend
  <2>1. CarriedBy(NoConn) = {} /\ CarriedBy(NoConn)' = {} /\ NoConn \notin Conn
    BY ConstantsAssumption DEF CarriedBy
  <2>2. Turnover(n, NoConn, {m}, {}, {m})
    BY <1>1, <1>2, <1>5, <2>1 DEF Turnover, Waiting
  <2>3. QED
    BY <1>5, <2>2, TakeStep
<1>6. ASSUME NEW c \in Conn, ~Live(c), NEW o \in HalfBuilt \cup {CloseTcp(NewTcp(n))},
             tcp' = [tcp EXCEPT ![c] = o], up' = [up EXCEPT ![n] = FALSE],
             dropped' = Count(dropped, {m}), UNCHANGED waitingSend
      PROVE  Serves
  <2>1. o.writes = <<>>
    BY AbandonedCarriesNothing
  <2>2. Turnover(n, c, {m}, {}, {m})
    BY <1>1, <1>2, <1>3, <1>6, <2>1 DEF Turnover, Waiting
  <2>3. QED
    BY <1>6, <2>2, TakeStep
<1>7. QED
  BY <1>4, <1>5, <1>6 DEF SendConnect

LEMMA SendTcpServes ==
    ASSUME IInv, IInv', AccountInv, NEW n \in Node, NEW b \in BOOLEAN, SendTcp(n, b)
    PROVE  Serves
<1> DEFINE m == nextMsg + 1
<1>1. /\ ~exited /\ nextMsg < MaxMsg /\ nextMsg' = m /\ UNCHANGED exited
      /\ SendConnect(n, m) \/ SendWait(n, m) \/ SendDrop(n, m, b) \/ SendWrite(n, m)
  BY DEF SendTcp
<1>2. /\ m \in Msg /\ m \notin Waiting(n)
      /\ \A c \in Conn : m \notin Carried(c)
  BY <1>1, NextMsgIsNew
<1>3. sent = Count(sent, {}) /\ dropped = Count(dropped, {})
  BY CountNone DEF IInv, TypeOK
<1>4. CarriedBy(NoConn) = {} /\ CarriedBy(NoConn)' = {} /\ NoConn \notin Conn
  BY ConstantsAssumption DEF CarriedBy
<1>5. CASE SendWait(n, m)
  <2>1. waitingSend[n] \in Seq(Msg) /\ waitingSend' = [waitingSend EXCEPT ![n] = Append(@, m)]
        /\ UNCHANGED <<tcp, up, sent, dropped>>
    BY <1>5 DEF SendWait, IInv, TypeOK
  <2>2. Waiting(n)' = Waiting(n) \cup {m}
        /\ \A k \in Node : k # n => waitingSend'[k] = waitingSend[k]
    <3>1. ToSet(Append(waitingSend[n], m)) = ToSet(waitingSend[n]) \cup {m}
      BY <1>2, <2>1, ToSetAppend
    <3>2. QED
      BY <2>1, <3>1 DEF IInv, TypeOK, Waiting
  <2>3. Turnover(n, NoConn, {m}, {}, {})
    BY <1>1, <1>3, <1>4, <2>1, <2>2 DEF Turnover
  <2>4. QED
    BY <1>1, <2>1, <2>3, TakeStep
<1>6. CASE SendDrop(n, m, b)
  <2>1. dropped' = Count(dropped, {m}) /\ UNCHANGED <<waitingSend, tcp, up, sent>>
    BY <1>6 DEF SendDrop
  <2>2. Turnover(n, NoConn, {m}, {}, {m})
    BY <1>1, <1>2, <1>3, <1>4, <2>1 DEF Turnover, Waiting
  <2>3. QED
    BY <1>1, <2>1, <2>2, TakeStep
<1>7. CASE SendWrite(n, m)
  <2> DEFINE c == node2stream[n]
             o == tcp[c]
  <2>1. c # NoConn /\ UNCHANGED sent
    BY <1>7 DEF SendWrite
  <2>2. c \in Conn /\ o \in TcpObject /\ o.node = n
    BY <2>1, MappedOK
  <2>3. o.writes \in Seq(Seq(Msg)) /\ <<m>> \in Seq(Msg) /\ ToSet(<<m>>) = {m}
    BY <1>2, <2>2 DEF TcpObject, ToSet
  <2>4. Load(o.writes) = Carried(c) /\ Apart(o.writes)
    BY <2>2 DEF Load, Carried, AccountInv
  <2>5. CASE /\ tcp' = [tcp EXCEPT ![c] = [o EXCEPT !.timer = "send", !.queued = @ + 1,
                                                    !.writes = Append(@, <<m>>)]]
             /\ UNCHANGED <<node2stream, up, waitingSend, dropped>>
    <3> DEFINE s == Writing(o, Append(o.writes, <<m>>), o.queued + 1)
    <3>1. tcp' = [tcp EXCEPT ![c] = s]
      BY <2>5 DEF Writing
    <3>2. s.writes = Append(o.writes, <<m>>) /\ s.node = n
      BY <2>2 DEF Writing, TcpObject
    <3> HIDE DEF s
    <3>3. Load(s.writes) = Carried(c) \cup {m} /\ Apart(s.writes)
      <4>1. Load(o.writes) \cap ToSet(<<m>>) = {}
        BY <1>2, <2>2, <2>3, <2>4
      <4> HIDE DEF o, m
      <4>2. QED
        BY <2>3, <2>4, <3>2, <4>1, LoadAppend
    <3>4. tcp'[c] = s /\ \A d \in Conn : d # c => tcp'[d] = tcp[d]
      BY <2>2, <3>1 DEF IInv, TypeOK
    <3>5. CarriedBy(c) = Carried(c) /\ CarriedBy(c)' = Carried(c) \cup {m}
      BY <2>2, <2>5, <3>3, <3>4 DEF CarriedBy, Carried, Load
    <3>6. Waiting(n)' = Waiting(n) /\ Waiting(n) \cap (Carried(c) \cup {m}) = {}
      BY <1>2, <2>2, <2>5 DEF AccountInv, Waiting
    <3>7. Turnover(n, c, {m}, {}, {})
      BY <1>1, <1>3, <2>1, <2>2, <2>5, <3>2, <3>3, <3>4, <3>5, <3>6 DEF Turnover
    <3>8. QED
      BY <1>1, <2>2, <2>5, <3>7, TakeStep
  <2>6. CASE ShutdownTcpConnection(c, CloseTcp(o), FALSE, {m})
    <3> DEFINE after == CloseTcp(o)
    <3>1. after.node = n /\ after.writes = o.writes
      BY <2>2 DEF CloseTcp, TcpObject
    <3>2. ShutdownTcpConnection(c, after, FALSE, {m})
      BY <2>6
    <3> HIDE DEF after
    <3>3. Settled(c, after, {m}, {}, {m}) /\ after.node = n
      BY <1>1, <1>2, <1>3, <2>1, <2>2, <2>4, <3>1 DEF Settled
    <3>4. /\ Turnover(after.node, c, {m}, {}, {m} \cup Waiting(after.node))
          /\ up' \in {up, [up EXCEPT ![after.node] = FALSE]}
      BY <2>2, <3>2, <3>3, ShutdownTurnover
    <3>5. QED
      BY <1>1, <2>2, <3>3, <3>4, TakeStep
  <2>7. QED
    BY <1>7, <2>5, <2>6 DEF SendWrite
<1>8. QED
  BY <1>1, <1>5, <1>6, <1>7, SendConnectServes

\* One request of the close loop: uv_close now, or uv_shutdown first.
LEMMA CloseNodeServes ==
    ASSUME IInv, IInv', AccountInv, NEW n \in Node, NEW b \in BOOLEAN, CloseNode(n, b)
    PROVE  Serves
<1> DEFINE c == node2stream[n]
<1>1. c # NoConn /\ UNCHANGED <<nextMsg, sent, exited>>
  BY DEF CloseNode
<1>2. c \in Conn /\ tcp[c] \in TcpObject /\ tcp[c].node = n
  BY <1>1, MappedOK
<1>3. \/ ShutdownTcpConnection(c, CloseTcp(tcp[c]), FALSE, {})
      \/ \E after \in ShutdownOrClose([tcp[c] EXCEPT !.timer = "send"]) :
             ShutdownTcpConnection(c, after, FALSE, {})
  BY DEF CloseNode
<1> HIDE DEF c
<1>4. CASE ShutdownTcpConnection(c, CloseTcp(tcp[c]), FALSE, {})
  BY <1>1, <1>2, <1>4, CloseServes
<1>5. ASSUME NEW after \in ShutdownOrClose([tcp[c] EXCEPT !.timer = "send"]),
             ShutdownTcpConnection(c, after, FALSE, {})
      PROVE  Serves
  <2>1. after.node = tcp[c].node /\ after.writes = tcp[c].writes
    BY <1>2 DEF ShutdownOrClose, CloseTcp, TcpObject
  <2>2. QED
    BY <1>1, <1>2, <1>5, <2>1, EndServes
<1>6. QED
  BY <1>3, <1>4, <1>5

\* The exit branch drops all that waits, for every node at once.
LEMMA ExitServes ==
    ASSUME IInv, AccountInv, Exit
    PROVE  Serves
<1> DEFINE lost == UNION {Waiting(n) : n \in Node}
<1>1. /\ ~exited /\ exited' = TRUE
      /\ waitingSend' = [n \in Node |-> <<>>]
      /\ dropped' = Count(dropped, lost)
      /\ UNCHANGED <<nextMsg, sent>>
  BY DEF Exit
<1>2. TypeOK
  BY DEF IInv
<1>3. \A c \in Conn : tcp'[c].writes = tcp[c].writes /\ tcp'[c].node = tcp[c].node
  <2>1. \A c \in Conn : tcp[c] \in TcpObject
    BY <1>2 DEF TypeOK
  <2>2. \A c \in Conn : /\ CloseTcp(tcp[c]).writes = tcp[c].writes
                        /\ CloseTcp(tcp[c]).node = tcp[c].node
    BY <2>1 DEF CloseTcp, TcpObject
  <2>3. \A c \in Conn : tcp'[c] \in {tcp[c], CloseTcp(tcp[c])}
    BY DEF Exit
  <2>4. QED
    BY <2>2, <2>3
<1>4. /\ \A c \in Conn : Carried(c)' = Carried(c)
      /\ \A n \in Node : Waiting(n)' = {}
  BY <1>1, <1>3, ToSetEmpty DEF Carried, Waiting
<1>5. up' = [n \in Node |-> FALSE]
  BY <1>2 DEF Exit, TypeOK, IInv, StatusMatchesMap
<1>6. \A m \in Msg : m \in lost <=> \E n \in Node : m \in Waiting(n)
  OBVIOUS
<1>7. \A m \in Msg : /\ dropped[m] \in Nat /\ sent[m] \in Nat
                     /\ dropped'[m] = IF m \in lost THEN dropped[m] + 1 ELSE dropped[m]
  BY <1>1, <1>2 DEF Count, TypeOK
<1>8. lost \subseteq Msg
  BY <1>2, MessagesAreNumbered
<1> HIDE DEF lost
<1>9. AccountInv'
  <2>1. \A m \in Msg : Held(m) <=> m \in lost \/ \E c \in Conn : m \in Carried(c)
    BY <1>6 DEF Held
  <2>2. \A m \in Msg : Held(m)' <=> \E c \in Conn : m \in Carried(c)
    BY <1>4 DEF Held
  <2>3. \A m \in lost : ~\E c \in Conn : m \in Carried(c)
    BY <1>6, <1>8 DEF AccountInv
  <2>4. \A m \in Msg : sent'[m] + dropped'[m] = IF m <= nextMsg /\ ~Held(m)' THEN 1 ELSE 0
    <3> TAKE m \in Msg
    <3>1. CASE m \in lost
      <4>1. Held(m) /\ ~Held(m)' /\ m <= nextMsg /\ sent[m] + dropped[m] = 0
        BY <2>1, <2>2, <2>3, <3>1 DEF AccountInv
      <4>2. QED
        BY <1>1, <1>7, <3>1, <4>1
    <3>2. CASE m \notin lost
      <4>1. (Held(m)' <=> Held(m)) /\ sent'[m] = sent[m] /\ dropped'[m] = dropped[m]
        BY <1>1, <1>7, <2>1, <2>2, <3>2
      <4>2. QED
        BY <4>1 DEF AccountInv
    <3>3. QED
      BY <3>1, <3>2
  <2>5. \A m \in Msg : Held(m)' => m <= nextMsg'
    BY <1>1, <2>1, <2>2 DEF AccountInv
  <2>6. QED
    BY <1>1, <1>3, <1>4, <2>4, <2>5 DEF AccountInv
<1>10. DroppedSet' = DroppedSet \cup lost
  BY <1>7, <1>8 DEF DroppedSet
<1>11. SentSet' = SentSet
  BY <1>1 DEF SentSet
<1>12. \A n \in Node : \A m : m \in Pending(n)' <=> m \in Pending(n) /\ m \notin DroppedSet'
  <2> SUFFICES ASSUME NEW n \in Node, NEW m
               PROVE  m \in Pending(n)' <=> m \in Pending(n) /\ m \notin DroppedSet'
    OBVIOUS
  <2>1. m \in Pending(n)' <=> \E d \in Conn : tcp[d].node = n /\ m \in Carried(d)
    BY <1>3, <1>4, PendingIsNext
  <2>2. m \in Waiting(n) => m \in lost
    BY <1>6, <1>2, MessagesAreNumbered
  <2>3. \A d \in Conn : m \in Carried(d) => m \notin lost /\ m \notin DroppedSet
    <3> SUFFICES ASSUME NEW d \in Conn, m \in Carried(d)
                 PROVE  m \notin lost /\ m \notin DroppedSet
      OBVIOUS
    <3>1. m \in Msg /\ Held(m)
      BY <1>2, MessagesAreNumbered DEF Held
    <3>2. sent[m] + dropped[m] = 0 /\ \A k \in Node : m \notin Waiting(k)
      BY <3>1 DEF AccountInv
    <3>3. QED
      BY <1>6, <1>7, <3>1, <3>2 DEF DroppedSet
  <2>4. QED
    BY <1>10, <2>1, <2>2, <2>3, PendingIs
<1>13. \A n \in Node : Pending(n)' = Pending(n) \ DroppedSet'
  BY <1>12
<1>14. lost \subseteq UNION {PendingMap[n] : n \in Node}
  <2>1. \A m \in lost : \E n \in Node : m \in PendingMap[n]
    BY <1>6, <1>8, PendingIs DEF PendingMap
  <2>2. QED
    BY <2>1
<1>15. PendingMap' = [n \in Node |-> PendingMap[n] \ DroppedSet']
  BY <1>13 DEF PendingMap
<1>16. Service!Stop
  BY <1>1, <1>5, <1>10, <1>11, <1>14, <1>15
     DEF Service!Stop, PendingMap, Pending, SentSet, DroppedSet
<1>17. QED
  BY <1>9, <1>16 DEF Serves, Service!Next

\* on_new_connection: an object given up, or the start of a connection.
LEMMA OnNewConnectionServes ==
    ASSUME IInv, IInv', AccountInv, NEW n \in Node, OnNewConnection(n)
    PROVE  Serves
<1>1. PICK c \in Conn :
        /\ ~Live(c)
        /\ \/ /\ \E o \in HalfBuilt \cup {CloseTcp(NewTcp(n))} : tcp' = [tcp EXCEPT ![c] = o]
              /\ UNCHANGED <<node2stream, up, waitingSend, dropped>>
           \/ StartupTcpConnection(c, [NewTcp(n) EXCEPT !.timer = "idle", !.reading = TRUE])
  BY DEF OnNewConnection
<1>2. ~exited /\ UNCHANGED <<nextMsg, sent, exited>>
  BY DEF OnNewConnection
<1>3. tcp[c].writes = <<>>
  BY <1>1, FreeCarriesNothing
<1>4. ASSUME NEW o \in HalfBuilt \cup {CloseTcp(NewTcp(n))}, tcp' = [tcp EXCEPT ![c] = o],
             UNCHANGED <<up, waitingSend, dropped>>
      PROVE  Serves
  <2>1. o.writes = tcp[c].writes
    BY <1>3, AbandonedCarriesNothing
  <2>2. QED
    BY <1>2, <1>3, <1>4, <2>1, QuietStep
<1>5. CASE StartupTcpConnection(c, [NewTcp(n) EXCEPT !.timer = "idle", !.reading = TRUE])
  <2> DEFINE b == NewTcp(n)
             o == [b EXCEPT !.timer = "idle", !.reading = TRUE]
  <2>1. /\ b \in TcpObject /\ b.node = n /\ b.tcpInited /\ b.timerInited
        /\ ~b.closing /\ ~b.shutdown /\ ~b.connectReq /\ ~b.shutdownReq
        /\ b.writes = <<>> /\ b.queued = 0
    BY NewTcpOK
  <2>2. Ready(o)
    <3> HIDE DEF b
    <3>1. QED
      BY <2>1 DEF Ready, TcpObject
  <2>3. StartupTcpConnection(c, o)
    BY <1>5
  <2> HIDE DEF o
  <2>4. QED
    BY <1>2, <1>3, <2>2, <2>3, StartupServes
<1>6. QED
  BY <1>1, <1>4, <1>5

\* on_connect_done: a connecting object carries nothing yet.
LEMMA OnConnectDoneServes ==
    ASSUME IInv, IInv', AccountInv, NEW c \in Conn, OnConnectDone(c)
    PROVE  Serves
<1> DEFINE p == tcp[c]
           o == [p EXCEPT !.connectReq = FALSE]
<1>1. /\ p.connectReq /\ UNCHANGED <<nextMsg, sent, exited>>
      /\ \/ ShutdownTcpConnection(c, CloseTcp(o), TRUE, {})
         \/ /\ ~o.closing
            /\ StartupTcpConnection(c, [o EXCEPT !.timer = "idle", !.reading = TRUE])
  BY DEF OnConnectDone
<1>2. /\ p \in TcpObject /\ p.tcpInited /\ p.node \in Node
      /\ ~p.shutdown /\ ~p.shutdownReq /\ p.writes = <<>> /\ p.queued = 0
      /\ ~p.closing => p.timerInited
  BY <1>1 DEF IInv, TypeOK, ObjectInv, TcpObject
<1>3. exited => p.closing
  BY <1>1, <1>2 DEF IInv, ExitIsFinal
<1> HIDE DEF p
<1>4. /\ o \in TcpObject /\ o.tcpInited /\ o.node = p.node /\ (o.closing <=> p.closing)
      /\ ~o.shutdown /\ ~o.shutdownReq /\ ~o.connectReq /\ o.writes = <<>> /\ o.queued = 0
      /\ ~o.closing => o.timerInited
  BY <1>2 DEF TcpObject
<1> HIDE DEF o
<1>5. CASE ShutdownTcpConnection(c, CloseTcp(o), TRUE, {})
  <2>1. CloseTcp(o).node = p.node /\ CloseTcp(o).writes = p.writes
    BY <1>2, <1>4 DEF CloseTcp, TcpObject
  <2>2. QED
    BY <1>1, <1>2, <1>5, <2>1, EndServes DEF p
<1>6. CASE ~o.closing /\ StartupTcpConnection(c, [o EXCEPT !.timer = "idle", !.reading = TRUE])
  <2> DEFINE r == [o EXCEPT !.timer = "idle", !.reading = TRUE]
  <2>1. Ready(r)
    BY <1>2, <1>4, <1>6 DEF Ready, TcpObject
  <2>2. StartupTcpConnection(c, r) /\ ~exited
    BY <1>3, <1>4, <1>6
  <2> HIDE DEF r
  <2>3. QED
    BY <1>1, <1>2, <2>1, <2>2, StartupServes DEF p
<1>7. QED
  BY <1>1, <1>5, <1>6 DEF o

\* on_tcp_read, with data or not, and on_tcp_timeout.
LEMMA ReadServes ==
    ASSUME IInv, IInv', AccountInv, NEW c \in Conn,
           OnReadData(c) \/ OnReadEnd(c) \/ OnTimeout(c)
    PROVE  Serves
<1> DEFINE o == [tcp[c] EXCEPT !.timer = "idle"]
<1>1. /\ tcp[c].reading \/ tcp[c].timer # "off"
      /\ UNCHANGED <<nextMsg, sent, exited>>
      /\ \/ /\ tcp' = [tcp EXCEPT ![c] = o]
            /\ UNCHANGED <<up, waitingSend, dropped>>
         \/ ShutdownTcpConnection(c, CloseTcp(tcp[c]), FALSE, {})
  BY DEF OnReadData, OnReadEnd, OnTimeout
<1>2. tcp[c] \in TcpObject /\ tcp[c].node \in Node
  BY <1>1, ActiveOK
<1>3. o.writes = tcp[c].writes /\ o.node = tcp[c].node
  BY <1>2 DEF TcpObject
<1> HIDE DEF o
<1>4. CASE /\ tcp' = [tcp EXCEPT ![c] = o]
           /\ UNCHANGED <<up, waitingSend, dropped>>
  BY <1>1, <1>3, <1>4, QuietStep
<1>5. CASE ShutdownTcpConnection(c, CloseTcp(tcp[c]), FALSE, {})
  BY <1>1, <1>2, <1>5, CloseServes
<1>6. QED
  BY <1>1, <1>4, <1>5

\* The handlers that touch no message: the kernel takes bytes, the uv_shutdown
\* callback, and the two uv_close callbacks.
LEMMA QuietServes ==
    ASSUME IInv, IInv', AccountInv, NEW c \in Conn,
           Flush(c) \/ OnShutdownDone(c) \/ OnTcpClosed(c) \/ OnTimerClosed(c)
    PROVE  Serves
<1> DEFINE p == tcp[c]
<1>1. p \in TcpObject /\ ObjectInv(p)
  BY DEF IInv, TypeOK
<1>2. UNCHANGED <<waitingSend, up, nextMsg, sent, dropped, exited>>
  BY DEF Flush, OnShutdownDone, OnTcpClosed, OnTimerClosed
<1>3. CASE Flush(c)
  <2> DEFINE o == [p EXCEPT !.queued = @ - 1]
  <2>1. tcp' = [tcp EXCEPT ![c] = o] /\ o.writes = p.writes /\ o.node = p.node
    BY <1>1, <1>3 DEF Flush, TcpObject
  <2> HIDE DEF o
  <2>2. QED
    BY <1>2, <2>1, QuietStep
<1>4. CASE OnShutdownDone(c)
  <2> DEFINE b == [p EXCEPT !.shutdownReq = FALSE]
             o == CloseTcp(b)
  <2>1. tcp' = [tcp EXCEPT ![c] = o]
    BY <1>4 DEF OnShutdownDone
  <2>2. b \in TcpObject /\ b.writes = p.writes /\ b.node = p.node
    BY <1>1 DEF TcpObject
  <2> HIDE DEF b
  <2>3. o.writes = p.writes /\ o.node = p.node
    BY <2>2 DEF CloseTcp, TcpObject
  <2> HIDE DEF o
  <2>4. QED
    BY <1>2, <2>1, <2>3, QuietStep
<1>5. CASE OnTcpClosed(c) \/ OnTimerClosed(c)
  <2>1. \/ p.writes = <<>> /\ tcp' = [tcp EXCEPT ![c] = FreeTcp]
        \/ tcp' = [tcp EXCEPT ![c] = [p EXCEPT !.tcpInited = FALSE]]
        \/ tcp' = [tcp EXCEPT ![c] = [p EXCEPT !.timerInited = FALSE]]
    BY <1>1, <1>5 DEF OnTcpClosed, OnTimerClosed, ObjectInv
  <2>2. /\ FreeTcp.writes = <<>>
        /\ \A o \in {[p EXCEPT !.tcpInited = FALSE], [p EXCEPT !.timerInited = FALSE]} :
               o.writes = p.writes /\ o.node = p.node
    BY <1>1 DEF FreeTcp, TcpObject
  <2>3. ASSUME NEW o, tcp' = [tcp EXCEPT ![c] = o], o.writes = p.writes,
               p.writes # <<>> => o.node = p.node
        PROVE  Serves
    BY <1>2, <2>3, QuietStep
  <2>4. QED
    BY <2>1, <2>2, <2>3
<1>6. QED
  BY <1>3, <1>4, <1>5

\* The oldest write of c is answered: its messages were sent, or are lost.
LEMMA HeadSettled ==
    ASSUME IInv, AccountInv, NEW c \in Conn, tcp[c].writes # <<>>, NEW after,
           after.node = tcp[c].node, after.writes = Tail(tcp[c].writes),
           nextMsg' = nextMsg, NEW head, head = ToSet(Head(tcp[c].writes))
    PROVE  /\ sent' = Count(sent, head) => Settled(c, after, {}, head, {})
           /\ sent' = sent => Settled(c, after, {}, {}, head)
<1> DEFINE ws == tcp[c].writes
<1>1. ws \in Seq(Seq(Msg)) /\ Apart(ws) /\ Carried(c) = Load(ws)
  BY DEF IInv, TypeOK, TcpObject, AccountInv, Carried, Load
<1>2. after.node = tcp[c].node /\ after.node \in Node
  BY DEF IInv, ObjectInv
<1> HIDE DEF ws
<1>3. /\ Load(Tail(ws)) = Carried(c) \ head
      /\ head \subseteq Carried(c)
      /\ Apart(Tail(ws))
  BY <1>1, LoadTail DEF ws
<1>4. after.writes = Tail(ws)
  BY DEF ws
<1>5. sent = Count(sent, {})
  BY CountNone DEF IInv, TypeOK
<1>6. QED
  BY <1>2, <1>3, <1>4, <1>5 DEF Settled

\* on_tcp_write_done, status 0.
LEMMA OnWriteSentServes ==
    ASSUME IInv, IInv', AccountInv, NEW c \in Conn, OnWriteSent(c)
    PROVE  Serves
<1> DEFINE p == tcp[c]
           head == ToSet(Head(p.writes))
           b == [p EXCEPT !.writes = Tail(@)]
<1>1. /\ p.queued < Len(p.writes)
      /\ sent' = Count(sent, head)
      /\ UNCHANGED <<nextMsg, exited>>
      /\ \/ /\ \/ tcp' = [tcp EXCEPT ![c] = b]
               \/ tcp' = [tcp EXCEPT ![c] = [b EXCEPT !.timer = "idle"]]
            /\ UNCHANGED <<up, waitingSend, dropped>>
         \/ ShutdownTcpConnection(c, CloseTcp(b), FALSE, {})
  BY DEF OnWriteSent
<1>2. p \in TcpObject /\ p.writes # <<>> /\ p.node \in Node
  BY <1>1 DEF IInv, TypeOK, TcpObject, ObjectInv
<1>3. b \in TcpObject /\ b.writes = Tail(p.writes) /\ b.node = p.node
  <2> DEFINE ws == Tail(p.writes)
  <2>1. ws \in Seq(Seq(Msg))
    BY <1>1, <1>2 DEF TcpObject
  <2> HIDE DEF ws
  <2>2. b = [p EXCEPT !.writes = ws]
    BY DEF ws
  <2> HIDE DEF b
  <2>3. b \in TcpObject /\ b.writes = ws /\ b.node = p.node
    BY <1>2, <2>1, <2>2 DEF TcpObject
  <2>4. QED
    BY <2>3 DEF ws
<1> HIDE DEF b
<1>4. /\ [b EXCEPT !.timer = "idle"].writes = Tail(p.writes)
      /\ [b EXCEPT !.timer = "idle"].node = p.node
      /\ CloseTcp(b).writes = Tail(p.writes)
      /\ CloseTcp(b).node = p.node
  BY <1>3 DEF CloseTcp, TcpObject
<1> HIDE DEF p, head
<1>5. ASSUME NEW after, after.writes = Tail(p.writes), after.node = p.node
      PROVE  Settled(c, after, {}, head, {})
  BY <1>1, <1>2, <1>5, HeadSettled DEF p, head
<1>6. ASSUME NEW after, after.writes = Tail(p.writes), after.node = p.node,
             tcp' = [tcp EXCEPT ![c] = after], UNCHANGED <<up, waitingSend, dropped>>
      PROVE  Serves
  <2>1. Settled(c, after, {}, head, {})
    BY <1>5, <1>6
  <2>2. /\ tcp'[c] = after /\ \A d \in Conn : d # c => tcp'[d] = tcp[d]
        /\ dropped' = Count(dropped, {})
    BY <1>6, CountNone DEF IInv, TypeOK
  <2>3. /\ CarriedBy(c) = Carried(c) /\ CarriedBy(c)' = Load(after.writes)
        /\ Waiting(p.node)' = Waiting(p.node)
        /\ Waiting(p.node) \cap Carried(c) = {}
        /\ tcp[c].node = p.node
    BY <1>2, <1>6, <2>2 DEF CarriedBy, Carried, Load, Waiting, AccountInv, p
  <2>4. Turnover(p.node, c, {}, head, {})
    BY <1>6, <2>1, <2>2, <2>3 DEF Turnover, Settled
  <2>5. QED
    BY <1>1, <1>2, <1>6, <2>4, ProgressStep
<1>7. CASE ShutdownTcpConnection(c, CloseTcp(b), FALSE, {})
  <2>1. Settled(c, CloseTcp(b), {}, head, {})
    BY <1>4, <1>5
  <2>2. QED
    BY <1>1, <1>7, <2>1, ShutdownServes
<1>8. QED
  BY <1>1, <1>3, <1>4, <1>6, <1>7

\* on_tcp_write_done with an error.
LEMMA OnWriteFailedServes ==
    ASSUME IInv, IInv', AccountInv, NEW c \in Conn, OnWriteFailed(c)
    PROVE  Serves
<1> DEFINE p == tcp[c]
           head == ToSet(Head(p.writes))
           b == [p EXCEPT !.writes = Tail(@), !.queued = @ - 1]
<1>1. /\ p.writes # <<>> /\ p.queued = Len(p.writes)
      /\ ShutdownTcpConnection(c, CloseTcp(b), FALSE, head)
      /\ UNCHANGED <<nextMsg, sent, exited>>
  BY DEF OnWriteFailed
<1>2. p \in TcpObject /\ p.queued - 1 \in Nat
  BY <1>1 DEF IInv, TypeOK, TcpObject
<1>3. b \in TcpObject /\ b.writes = Tail(p.writes) /\ b.node = p.node
  <2> DEFINE ws == Tail(p.writes)
  <2>1. ws \in Seq(Seq(Msg))
    BY <1>1, <1>2 DEF TcpObject
  <2> HIDE DEF ws
  <2>2. b = [p EXCEPT !.writes = ws, !.queued = @ - 1]
    BY DEF ws
  <2> HIDE DEF b
  <2>3. b \in TcpObject /\ b.writes = ws /\ b.node = p.node
    BY <1>2, <2>1, <2>2 DEF TcpObject
  <2>4. QED
    BY <2>3 DEF ws
<1> HIDE DEF b
<1>4. CloseTcp(b).writes = Tail(p.writes) /\ CloseTcp(b).node = p.node
  BY <1>3 DEF CloseTcp, TcpObject
<1> DEFINE after == CloseTcp(b)
<1>5. ShutdownTcpConnection(c, after, FALSE, head)
  BY <1>1
<1> HIDE DEF after, head
<1>6. Settled(c, after, {}, {}, head)
  BY <1>1, <1>4, HeadSettled DEF after, head
<1>7. QED
  BY <1>1, <1>5, <1>6, ShutdownServes

-----------------------------------------------------------------------------
(* The order of the messages.                                              *)

LEMMA IncreasingAppend ==
    ASSUME NEW s \in Seq(Msg), NEW m \in Msg, Increasing(s), \A k \in ToSet(s) : k < m
    PROVE  Increasing(Append(s, m))
<1>1. /\ DOMAIN s = 1..Len(s) /\ DOMAIN Append(s, m) = 1..Len(s) + 1 /\ Len(s) \in Nat
      /\ \A i \in 1..Len(s) : Append(s, m)[i] = s[i]
      /\ Append(s, m)[Len(s) + 1] = m
  OBVIOUS
<1>2. \A i \in 1..Len(s) : s[i] < m
  BY <1>1 DEF ToSet
<1>3. \A i \in 1..Len(s) + 1 : i \in 1..Len(s) \/ i = Len(s) + 1
  BY <1>1
<1>4. QED
  BY <1>1, <1>2, <1>3 DEF Increasing

LEMMA InOrderEmpty == InOrder(<<>>) /\ Increasing(<<>>)
BY DEF InOrder, Increasing

LEMMA InOrderAppend ==
    ASSUME NEW ws \in Seq(Seq(Msg)), NEW w \in Seq(Msg), InOrder(ws), Increasing(w),
           \A m \in Load(ws), k \in ToSet(w) : m < k
    PROVE  InOrder(Append(ws, w))
<1>1. /\ DOMAIN ws = 1..Len(ws) /\ DOMAIN Append(ws, w) = 1..Len(ws) + 1 /\ Len(ws) \in Nat
      /\ \A i \in 1..Len(ws) : Append(ws, w)[i] = ws[i]
      /\ Append(ws, w)[Len(ws) + 1] = w
  OBVIOUS
<1>2. \A i \in 1..Len(ws) : ToSet(ws[i]) \subseteq Load(ws)
  <2>1. \A i \in 1..Len(ws) : ws[i] \in ToSet(ws)
    BY <1>1 DEF ToSet
  <2>2. QED
    BY <2>1 DEF Load
<1>3. \A i \in 1..Len(ws) : \A m \in ToSet(ws[i]), k \in ToSet(w) : m < k
  BY <1>2
<1>4. \A i \in 1..Len(ws) + 1 : i \in 1..Len(ws) \/ i = Len(ws) + 1
  BY <1>1
<1>5. QED
  BY <1>1, <1>3, <1>4 DEF InOrder

LEMMA InOrderTail ==
    ASSUME NEW ws \in Seq(Seq(Msg)), ws # <<>>, InOrder(ws)
    PROVE  InOrder(Tail(ws))
<1> DEFINE t == Tail(ws)
<1>1. /\ DOMAIN ws = 1..Len(ws) /\ DOMAIN t = 1..Len(ws) - 1
      /\ Len(ws) \in Nat /\ Len(ws) >= 1
      /\ \A i \in 1..Len(ws) - 1 : t[i] = ws[i + 1]
  OBVIOUS
<1>2. \A i \in 1..Len(ws) - 1 : i + 1 \in 1..Len(ws)
  BY <1>1
<1> HIDE DEF t
<1>3. \A i, j \in 1..Len(ws) - 1 : i < j => i + 1 < j + 1
  BY <1>1
<1>4. InOrder(t)
  BY <1>1, <1>2, <1>3 DEF InOrder
<1>5. QED
  BY <1>4 DEF t

\* An object keeps its writes, or loses the oldest or all of them.
Sheds(o, p) ==
    /\ \/ p.writes = o.writes
       \/ o.writes # <<>> /\ p.writes = Tail(o.writes)
       \/ p.writes = <<>>
    /\ p.writes # <<>> => p.node = o.node

\* What a step may do to the order: it lets messages go,
Lightens ==
    /\ \A c \in Conn : Sheds(tcp[c], tcp[c]')
    /\ \A n \in Node : waitingSend[n]' \in {waitingSend[n], <<>>}
    /\ \A n \in Node :
          \/ node2stream[n]' = NoConn
          \/ node2stream[n]' = node2stream[n]
          \/ node2stream[n]' \in Conn /\ tcp'[node2stream[n]'].writes = <<>>

\* lets the next message wait for n,
Waits(n) ==
    /\ nextMsg < MaxMsg
    /\ waitingSend' = [waitingSend EXCEPT ![n] = Append(@, nextMsg + 1)]
    /\ \A c \in Conn : Sheds(tcp[c], tcp[c]')
    /\ node2stream' = node2stream

\* writes it on the connection c of n,
Writes(n, c) ==
    /\ nextMsg < MaxMsg
    /\ node2stream[n] = c
    /\ tcp[c]'.writes = Append(tcp[c].writes, <<nextMsg + 1>>) /\ tcp[c]'.node = n
    /\ \A d \in Conn : d # c => tcp[d]' = tcp[d]
    /\ UNCHANGED <<waitingSend, node2stream>>

\* or writes all that waits for n on c, which becomes its connection.
Flushes(n, c) ==
    /\ tcp[c].writes = <<>>
    /\ tcp[c]'.writes = <<waitingSend[n]>> /\ tcp[c]'.node = n
    /\ \A d \in Conn : d # c => tcp[d]' = tcp[d]
    /\ node2stream' = [node2stream EXCEPT ![n] = c]
    /\ waitingSend' = [waitingSend EXCEPT ![n] = <<>>]

LEMMA ShedsKeeps ==
    ASSUME NEW o, NEW p, o.writes \in Seq(Seq(Msg)), InOrder(o.writes), Sheds(o, p)
    PROVE  /\ InOrder(p.writes)
           /\ Load(p.writes) \subseteq Load(o.writes)
           /\ Load(p.writes) # {} => p.node = o.node
<1> DEFINE ws == o.writes
           q == p.writes
<1>1. q = <<>> => Load(q) = {} /\ InOrder(q)
  BY LoadEmpty, InOrderEmpty
<1>2. ASSUME ws # <<>>, q = Tail(ws) PROVE InOrder(q) /\ Load(q) \subseteq Load(ws)
  <2>1. InOrder(Tail(ws))
    BY <1>2, InOrderTail
  <2>2. ToSet(ws) = ToSet(Tail(ws)) \cup {Head(ws)}
    BY <1>2, ToSetHeadTail
  <2>3. QED
    BY <1>2, <2>1, <2>2 DEF Load
<1> HIDE DEF ws, q
<1>3. /\ ws = o.writes /\ q = p.writes
  BY DEF ws, q
<1>4. QED
  BY <1>1, <1>2, <1>3 DEF Sheds

\* The messages in a typed state, and their order.
LEMMA OrderFacts ==
    ASSUME IInv, SubmissionOrder
    PROVE  /\ \A c \in Conn : /\ tcp[c].writes \in Seq(Seq(Msg)) /\ InOrder(tcp[c].writes)
                              /\ Carried(c) = Load(tcp[c].writes)
           /\ \A n \in Node : waitingSend[n] \in Seq(Msg) /\ Increasing(waitingSend[n])
BY DEF IInv, TypeOK, TcpObject, SubmissionOrder, Carried, Load

LEMMA LightensKeepsOrder ==
    ASSUME IInv, SubmissionOrder, Lightens
    PROVE  SubmissionOrder'
<1>1. \A c \in Conn : /\ InOrder(tcp[c]'.writes) /\ Carried(c)' \subseteq Carried(c)
                      /\ Carried(c)' # {} => tcp[c]'.node = tcp[c].node
  <2> TAKE c \in Conn
  <2>1. Carried(c)' = Load(tcp[c]'.writes)
    BY DEF Carried, Load
  <2>2. Sheds(tcp[c], tcp[c]')
    BY DEF Lightens
  <2>3. /\ InOrder(tcp[c]'.writes)
        /\ Load(tcp[c]'.writes) \subseteq Load(tcp[c].writes)
        /\ Load(tcp[c]'.writes) # {} => tcp[c]'.node = tcp[c].node
    BY <2>2, OrderFacts, ShedsKeeps
  <2>4. QED
    BY <2>1, <2>3, OrderFacts
<1>2. \A n \in Node : Increasing(waitingSend[n]') /\ Waiting(n)' \subseteq Waiting(n)
  BY OrderFacts, InOrderEmpty, ToSetEmpty DEF Lightens, Waiting
<1>3. ASSUME NEW n \in Node, NEW c \in Conn, tcp[c]'.node = n,
             NEW w \in Waiting(n)', NEW m \in Carried(c)'
      PROVE  m < w
  BY <1>1, <1>2, <1>3 DEF SubmissionOrder
<1>4. ASSUME NEW n \in Node, NEW c \in Conn, tcp[c]'.node = n,
             NEW d, d = node2stream[n]', d \notin {c, NoConn},
             NEW m \in Carried(c)', NEW k \in Carried(d)'
      PROVE  m < k
  <2>1. \A e \in Conn : tcp'[e].writes = <<>> => Carried(e)' = {}
    BY LoadEmpty DEF Carried, Load
  <2>2. d = node2stream[n] /\ d \in Conn
    BY <1>4, <2>1 DEF Lightens, IInv, TypeOK
  <2>3. m \in Carried(c) /\ k \in Carried(d) /\ tcp[c].node = n
    BY <1>1, <1>4, <2>2
  <2>4. QED
    BY <1>4, <2>2, <2>3 DEF SubmissionOrder
<1>5. QED
  BY <1>1, <1>2, <1>3, <1>4 DEF SubmissionOrder

\* The next message is newer than all that wait or are carried.
LEMMA NextIsNewest ==
    ASSUME IInv, AccountInv, nextMsg < MaxMsg
    PROVE  /\ nextMsg + 1 \in Msg
           /\ \A n \in Node : \A m \in Waiting(n) : m < nextMsg + 1
           /\ \A c \in Conn : \A m \in Carried(c) : m < nextMsg + 1
<1>1. nextMsg \in Nat /\ nextMsg + 1 \in Msg /\ \A m \in Msg : m \in Nat
  BY ConstantsAssumption DEF IInv, TypeOK, Msg
<1>2. /\ \A n \in Node : Waiting(n) \subseteq Msg
      /\ \A c \in Conn : Carried(c) \subseteq Msg
  BY MessagesAreNumbered DEF IInv
<1>3. \A m \in Msg : Held(m) => m <= nextMsg
  BY DEF AccountInv
<1>4. \A m \in Msg : Held(m) => m < nextMsg + 1
  BY <1>1, <1>3
<1>5. QED
  BY <1>1, <1>2, <1>4 DEF Held

LEMMA WaitsKeepsOrder ==
    ASSUME IInv, AccountInv, SubmissionOrder, NEW n \in Node, Waits(n)
    PROVE  SubmissionOrder'
<1> DEFINE m == nextMsg + 1
<1>0. /\ m \in Msg
      /\ \A k \in Node : \A w \in Waiting(k) : w < m
      /\ \A c \in Conn : \A k \in Carried(c) : k < m
  BY NextIsNewest DEF Waits
<1> HIDE DEF m
<1>1. \A c \in Conn : /\ InOrder(tcp[c]'.writes) /\ Carried(c)' \subseteq Carried(c)
                      /\ Carried(c)' # {} => tcp[c]'.node = tcp[c].node
  <2> TAKE c \in Conn
  <2>1. Carried(c)' = Load(tcp[c]'.writes)
    BY DEF Carried, Load
  <2>2. Sheds(tcp[c], tcp[c]')
    BY DEF Waits
  <2>3. /\ InOrder(tcp[c]'.writes)
        /\ Load(tcp[c]'.writes) \subseteq Load(tcp[c].writes)
        /\ Load(tcp[c]'.writes) # {} => tcp[c]'.node = tcp[c].node
    BY <2>2, OrderFacts, ShedsKeeps
  <2>4. QED
    BY <2>1, <2>3, OrderFacts
<1>2. /\ waitingSend[n]' = Append(waitingSend[n], m)
      /\ \A k \in Node : k # n => waitingSend[k]' = waitingSend[k]
  BY DEF Waits, m, IInv, TypeOK
<1>3. /\ Increasing(waitingSend[n]') /\ Waiting(n)' = Waiting(n) \cup {m}
  BY <1>0, <1>2, OrderFacts, IncreasingAppend, ToSetAppend DEF Waiting
<1>4. \A k \in Node : k # n => Increasing(waitingSend[k]') /\ Waiting(k)' = Waiting(k)
  BY <1>2, OrderFacts DEF Waiting
<1>5. ASSUME NEW k \in Node, NEW c \in Conn, tcp[c]'.node = k,
             NEW w \in Waiting(k)', NEW u \in Carried(c)'
      PROVE  u < w
  <2>1. CASE w = m
    BY <1>0, <1>1, <1>5, <2>1
  <2>2. CASE w # m
    <3>1. w \in Waiting(k)
      BY <1>3, <1>4, <1>5, <2>2
    <3>2. QED
      BY <1>1, <1>5, <3>1 DEF SubmissionOrder
  <2>3. QED
    BY <2>1, <2>2
<1>6. ASSUME NEW k \in Node, NEW c \in Conn, tcp[c]'.node = k,
             NEW d, d = node2stream[k]', d \notin {c, NoConn},
             NEW u \in Carried(c)', NEW v \in Carried(d)'
      PROVE  u < v
  <2>1. d = node2stream[k] /\ d \in Conn
    BY <1>6 DEF Waits, IInv, TypeOK
  <2>2. u \in Carried(c) /\ v \in Carried(d) /\ tcp[c].node = k
    BY <1>1, <1>6, <2>1
  <2>3. QED
    BY <1>6, <2>1, <2>2 DEF SubmissionOrder
<1>7. QED
  BY <1>1, <1>3, <1>4, <1>5, <1>6 DEF SubmissionOrder

LEMMA WritesKeepsOrder ==
    ASSUME IInv, AccountInv, SubmissionOrder, NEW n \in Node, NEW c \in Conn, Writes(n, c)
    PROVE  SubmissionOrder'
<1> DEFINE m == nextMsg + 1
<1>0. /\ m \in Msg
      /\ \A e \in Conn : \A k \in Carried(e) : k < m
  BY NextIsNewest DEF Writes
<1>1. tcp[c]'.writes = Append(tcp[c].writes, <<m>>) /\ tcp[c].node = n /\ waitingSend[n] = <<>>
  BY ConstantsAssumption DEF Writes, IInv, MapIsUsable, WaitingHasConnect
<1> HIDE DEF m
<1>2. <<m>> \in Seq(Msg) /\ Increasing(<<m>>) /\ ToSet(<<m>>) = {m}
  BY <1>0 DEF Increasing, ToSet
<1>3. /\ InOrder(tcp[c]'.writes) /\ Carried(c)' = Carried(c) \cup {m}
  <2>1. tcp[c].writes \in Seq(Seq(Msg)) /\ InOrder(tcp[c].writes)
        /\ Carried(c) = Load(tcp[c].writes)
    BY OrderFacts
  <2>2. \A k \in Load(tcp[c].writes), u \in ToSet(<<m>>) : k < u
    BY <1>0, <1>2, <2>1
  <2>3. InOrder(tcp[c]'.writes)
    BY <1>1, <1>2, <2>1, <2>2, InOrderAppend
  <2>4. Carried(c)' = Load(tcp[c]'.writes)
    BY DEF Carried, Load
  <2>5. QED
    BY <1>1, <1>2, <2>1, <2>3, <2>4, LoadAppend
<1>4. \A e \in Conn : e # c => /\ InOrder(tcp[e]'.writes) /\ Carried(e)' = Carried(e)
                               /\ tcp[e]'.node = tcp[e].node
  BY OrderFacts DEF Writes, Carried
<1>5. \A k \in Node : Increasing(waitingSend[k]') /\ Waiting(k)' = Waiting(k)
  BY OrderFacts DEF Writes, Waiting
<1>6. ASSUME NEW k \in Node, NEW e \in Conn, tcp[e]'.node = k,
             NEW w \in Waiting(k)', NEW u \in Carried(e)'
      PROVE  u < w
  <2>1. k # n
    BY <1>1, <1>5, <1>6, ToSetEmpty DEF Waiting
  <2>2. e # c
    BY <1>6, <2>1 DEF Writes
  <2>3. QED
    BY <1>4, <1>5, <1>6, <2>2 DEF SubmissionOrder
<1>7. ASSUME NEW k \in Node, NEW e \in Conn, tcp[e]'.node = k,
             NEW d, d = node2stream[k]', d \notin {e, NoConn},
             NEW u \in Carried(e)', NEW v \in Carried(d)'
      PROVE  u < v
  <2>1. d = node2stream[k] /\ d \in Conn
    BY <1>7 DEF Writes, IInv, TypeOK
  <2>2. e # c
    BY <1>7 DEF Writes
  <2>3. u \in Carried(e) /\ tcp[e].node = k
    BY <1>4, <1>7, <2>2
  <2>4. CASE v = m
    BY <1>0, <2>3, <2>4
  <2>5. CASE v # m
    <3>1. v \in Carried(d)
      BY <1>3, <1>4, <1>7, <2>1, <2>5
    <3>2. QED
      BY <1>7, <2>1, <2>3, <3>1 DEF SubmissionOrder
  <2>6. QED
    BY <2>4, <2>5
<1>8. QED
  BY <1>3, <1>4, <1>5, <1>6, <1>7 DEF SubmissionOrder

LEMMA FlushesKeepsOrder ==
    ASSUME IInv, IInv', SubmissionOrder, NEW n \in Node, NEW c \in Conn, Flushes(n, c)
    PROVE  SubmissionOrder'
<1>1. /\ tcp[c]'.writes = Append(<<>>, waitingSend[n])
      /\ waitingSend[n] \in Seq(Msg) /\ Increasing(waitingSend[n])
  BY OrderFacts DEF Flushes
<1>2. InOrder(tcp[c]'.writes) /\ Carried(c)' = Waiting(n)
  <2>1. <<>> \in Seq(Seq(Msg)) /\ InOrder(<<>>) /\ Load(<<>>) = {}
    BY InOrderEmpty, LoadEmpty
  <2>2. InOrder(tcp[c]'.writes) /\ Load(tcp[c]'.writes) = ToSet(waitingSend[n])
    BY <1>1, <2>1, InOrderAppend, LoadAppend
  <2>3. Carried(c)' = Load(tcp[c]'.writes)
    BY DEF Carried, Load
  <2>4. QED
    BY <2>2, <2>3 DEF Waiting
<1>3. \A e \in Conn : e # c => /\ InOrder(tcp[e]'.writes) /\ Carried(e)' = Carried(e)
                               /\ tcp[e]'.node = tcp[e].node
  BY OrderFacts DEF Flushes, Carried
<1>4. /\ waitingSend[n]' = <<>> /\ Waiting(n)' = {} /\ Increasing(waitingSend[n]')
      /\ \A k \in Node : k # n => /\ Increasing(waitingSend[k]') /\ Waiting(k)' = Waiting(k)
  BY OrderFacts, InOrderEmpty, ToSetEmpty DEF Flushes, Waiting, IInv, TypeOK
<1>5. ASSUME NEW k \in Node, NEW e \in Conn, tcp[e]'.node = k,
             NEW w \in Waiting(k)', NEW u \in Carried(e)'
      PROVE  u < w
  <2>1. k # n /\ e # c
    BY <1>4, <1>5 DEF Flushes
  <2>2. QED
    BY <1>3, <1>4, <1>5, <2>1 DEF SubmissionOrder
<1>6. ASSUME NEW k \in Node, NEW e \in Conn, tcp[e]'.node = k,
             NEW d, d = node2stream[k]', d \notin {e, NoConn},
             NEW u \in Carried(e)', NEW v \in Carried(d)'
      PROVE  u < v
  <2>1. d \in Conn
    BY <1>6 DEF IInv, TypeOK
  <2>2. tcp[d]'.node = k
    BY <1>6 DEF IInv, MapIsUsable
  <2>3. e # c
    BY <1>6 DEF Flushes, IInv, TypeOK
  <2>4. CASE d = c
    <3>1. k = n
      BY <2>2, <2>4 DEF Flushes
    <3>2. u \in Carried(e) /\ tcp[e].node = n /\ v \in Waiting(n)
      BY <1>2, <1>3, <1>6, <2>3, <2>4, <3>1
    <3>3. QED
      BY <3>2 DEF SubmissionOrder
  <2>5. CASE d # c
    <3>1. d = node2stream[k]
      BY <1>6, <2>5 DEF Flushes, IInv, TypeOK
    <3>2. u \in Carried(e) /\ tcp[e].node = k /\ v \in Carried(d)
      BY <1>3, <1>6, <2>1, <2>3, <2>5
    <3>3. QED
      BY <1>6, <3>1, <3>2 DEF SubmissionOrder
  <2>6. QED
    BY <2>4, <2>5
<1>7. QED
  BY <1>2, <1>3, <1>4, <1>5, <1>6 DEF SubmissionOrder

\* Closing an object or starting a timer keeps its writes.
LEMMA CloseKeeps ==
    ASSUME NEW o \in TcpObject
    PROVE  CloseTcp(o).writes = o.writes /\ CloseTcp(o).node = o.node
BY DEF CloseTcp, TcpObject

\* Most handlers change one object, and no table but to take entries away.
LEMMA OneLightens ==
    ASSUME NEW c \in Conn, NEW o, IInv, tcp' = [tcp EXCEPT ![c] = o], Sheds(tcp[c], o)
    PROVE  /\ \A d \in Conn : Sheds(tcp[d], tcp[d]')
           /\ UNCHANGED <<waitingSend, node2stream>> => Lightens
<1>1. \A d \in Conn : Sheds(tcp[d], tcp[d]')
  BY DEF Sheds, IInv, TypeOK
<1>2. QED
  BY <1>1 DEF Lightens

LEMMA ShutdownLightens ==
    ASSUME NEW c \in Conn, NEW after, NEW notify \in BOOLEAN, NEW lost, IInv,
           ShutdownTcpConnection(c, after, notify, lost), Sheds(tcp[c], after)
    PROVE  Lightens
<1>1. /\ node2stream' = [node2stream EXCEPT ![after.node] = NoConn]
      /\ waitingSend' = [waitingSend EXCEPT ![after.node] = <<>>]
      /\ tcp' = [tcp EXCEPT ![c] = after]
  BY DEF ShutdownTcpConnection
<1>2. \A d \in Conn : Sheds(tcp[d], tcp[d]')
  BY <1>1, OneLightens
<1>3. QED
  BY <1>1, <1>2 DEF Lightens, IInv, TypeOK

LEMMA CloseLightens ==
    ASSUME NEW c \in Conn, NEW o \in TcpObject, NEW notify \in BOOLEAN, NEW lost, IInv,
           ShutdownTcpConnection(c, CloseTcp(o), notify, lost), Sheds(tcp[c], o)
    PROVE  Lightens
<1> DEFINE after == CloseTcp(o)
<1>1. after.writes = o.writes /\ after.node = o.node
  BY CloseKeeps
<1> HIDE DEF after
<1>2. Sheds(tcp[c], after)
  BY <1>1 DEF Sheds
<1>3. QED
  BY <1>2, ShutdownLightens DEF after

\* A connection that starts carries nothing but what waited.
LEMMA StartupOrders ==
    ASSUME IInv, NEW c \in Conn, NEW o \in TcpObject, o.node \in Node,
           tcp[c].writes = <<>>, o.writes = <<>>, StartupTcpConnection(c, o)
    PROVE  Lightens \/ Flushes(o.node, c)
<1> DEFINE n == o.node
           full == [o EXCEPT !.timer = "send", !.queued = @ + 1,
                             !.writes = Append(@, waitingSend[n])]
<1>1. /\ CloseTcp(o).writes = <<>>
      /\ full.writes = <<waitingSend[n]>> /\ full.node = n
  BY CloseKeeps DEF TcpObject
<1>2. \/ /\ tcp' = [tcp EXCEPT ![c] = full]
         /\ node2stream' = [node2stream EXCEPT ![n] = c]
         /\ waitingSend' = [waitingSend EXCEPT ![n] = <<>>]
      \/ /\ tcp' = [tcp EXCEPT ![c] = o] \/ tcp' = [tcp EXCEPT ![c] = CloseTcp(o)]
         /\ node2stream' \in {node2stream, [node2stream EXCEPT ![n] = c]}
         /\ waitingSend' \in {waitingSend, [waitingSend EXCEPT ![n] = <<>>]}
  BY DEF StartupTcpConnection, SendWaiting
<1> HIDE DEF full
<1>3. CASE /\ tcp' = [tcp EXCEPT ![c] = full]
           /\ node2stream' = [node2stream EXCEPT ![n] = c]
           /\ waitingSend' = [waitingSend EXCEPT ![n] = <<>>]
  BY <1>1, <1>3 DEF Flushes, IInv, TypeOK
<1>4. CASE /\ tcp' = [tcp EXCEPT ![c] = o] \/ tcp' = [tcp EXCEPT ![c] = CloseTcp(o)]
           /\ node2stream' \in {node2stream, [node2stream EXCEPT ![n] = c]}
           /\ waitingSend' \in {waitingSend, [waitingSend EXCEPT ![n] = <<>>]}
  <2>1. Sheds(tcp[c], o) /\ Sheds(tcp[c], CloseTcp(o))
    BY <1>1 DEF Sheds
  <2>2. \A d \in Conn : Sheds(tcp[d], tcp[d]')
    BY <1>4, <2>1, OneLightens
  <2>3. tcp'[c].writes = <<>>
    BY <1>1, <1>4 DEF IInv, TypeOK
  <2>4. /\ \A k \in Node : waitingSend[k]' \in {waitingSend[k], <<>>}
        /\ \A k \in Node : node2stream[k]' \in {node2stream[k], c}
    BY <1>4 DEF IInv, TypeOK
  <2>5. QED
    BY <2>2, <2>3, <2>4 DEF Lightens
<1>5. QED
  BY <1>2, <1>3, <1>4

\* on_wakeup's send loop.
LEMMA SendTcpOrders ==
    ASSUME IInv, NEW n \in Node, NEW b \in BOOLEAN, SendTcp(n, b)
    PROVE  Lightens \/ Waits(n) \/ \E c \in Conn : Writes(n, c)
<1> DEFINE m == nextMsg + 1
<1>0. nextMsg < MaxMsg
  BY DEF SendTcp
<1>1. CASE SendConnect(n, m)
  <2>1. /\ waitingSend[n] = <<>> /\ node2stream' = node2stream
        /\ \/ /\ waitingSend' = [waitingSend EXCEPT ![n] = <<m>>]
              /\ \E c \in Conn : ~Live(c) /\ tcp' = [tcp EXCEPT ![c] =
                                    [NewTcp(n) EXCEPT !.timer = "connect", !.connectReq = TRUE]]
           \/ waitingSend' = waitingSend /\ tcp' = tcp
           \/ /\ waitingSend' = waitingSend
              /\ \E c \in Conn, o \in HalfBuilt \cup {CloseTcp(NewTcp(n))} :
                    ~Live(c) /\ tcp' = [tcp EXCEPT ![c] = o]
    BY <1>1 DEF SendConnect
  <2>2. CASE /\ waitingSend' = [waitingSend EXCEPT ![n] = <<m>>]
             /\ \E c \in Conn : ~Live(c) /\ tcp' = [tcp EXCEPT ![c] =
                                   [NewTcp(n) EXCEPT !.timer = "connect", !.connectReq = TRUE]]
    <3> DEFINE o == [NewTcp(n) EXCEPT !.timer = "connect", !.connectReq = TRUE]
    <3>1. PICK c \in Conn : ~Live(c) /\ tcp' = [tcp EXCEPT ![c] = o]
      BY <2>2
    <3>2. o.writes = <<>>
      BY NewTcpOK DEF TcpObject
    <3> HIDE DEF o
    <3>3. \A d \in Conn : Sheds(tcp[d], tcp[d]')
      BY <3>1, <3>2, OneLightens DEF Sheds
    <3>4. waitingSend' = [waitingSend EXCEPT ![n] = Append(@, m)]
      BY <2>1, <2>2
    <3>5. QED
      BY <1>0, <2>1, <3>3, <3>4 DEF Waits
  <2>3. CASE waitingSend' = waitingSend /\ tcp' = tcp
    BY <2>1, <2>3 DEF Lightens, Sheds
  <2>4. CASE /\ waitingSend' = waitingSend
             /\ \E c \in Conn, o \in HalfBuilt \cup {CloseTcp(NewTcp(n))} :
                   ~Live(c) /\ tcp' = [tcp EXCEPT ![c] = o]
    <3>1. PICK c \in Conn, o \in HalfBuilt \cup {CloseTcp(NewTcp(n))} :
              tcp' = [tcp EXCEPT ![c] = o]
      BY <2>4
    <3>2. Sheds(tcp[c], o)
      BY <3>1, AbandonedCarriesNothing DEF Sheds
    <3>3. QED
      BY <2>1, <2>4, <3>1, <3>2, OneLightens
  <2>5. QED
    BY <2>1, <2>2, <2>3, <2>4
<1>2. CASE SendWait(n, m)
  BY <1>0, <1>2 DEF SendWait, Waits, Sheds
<1>3. CASE SendDrop(n, m, b)
  BY <1>3 DEF SendDrop, Lightens, Sheds
<1>4. CASE SendWrite(n, m)
  <2>1. PICK c \in Conn : c = node2stream[n] /\ tcp[c] \in TcpObject /\ tcp[c].node = n
    BY <1>4, MappedOK DEF SendWrite
  <2> DEFINE o == tcp[c]
             p == [o EXCEPT !.timer = "send", !.queued = @ + 1, !.writes = Append(@, <<m>>)]
  <2>2. \/ tcp' = [tcp EXCEPT ![c] = p] /\ UNCHANGED <<node2stream, waitingSend>>
        \/ ShutdownTcpConnection(c, CloseTcp(o), FALSE, {m})
    BY <1>4, <2>1 DEF SendWrite, ShutdownTcpConnection
  <2>3. p.writes = Append(o.writes, <<m>>) /\ p.node = n
    BY <2>1 DEF TcpObject
  <2> HIDE DEF p
  <2>4. CASE tcp' = [tcp EXCEPT ![c] = p] /\ UNCHANGED <<node2stream, waitingSend>>
    <3>1. tcp[c]' = p /\ \A d \in Conn : d # c => tcp[d]' = tcp[d]
      BY <2>1, <2>4 DEF IInv, TypeOK
    <3>2. Writes(n, c)
      BY <1>0, <2>1, <2>3, <2>4, <3>1 DEF Writes
    <3>3. QED
      BY <3>2
  <2>5. CASE ShutdownTcpConnection(c, CloseTcp(o), FALSE, {m})
    <3>1. Sheds(o, o)
      BY DEF Sheds
    <3>2. QED
      BY <2>1, <2>5, <3>1, CloseLightens
  <2>6. QED
    BY <2>2, <2>4, <2>5
<1>5. QED
  BY <1>1, <1>2, <1>3, <1>4 DEF SendTcp

\* The other requests of on_wakeup, and the callbacks.
LEMMA CloseNodeOrders ==
    ASSUME IInv, NEW n \in Node, NEW b \in BOOLEAN, CloseNode(n, b)
    PROVE  Lightens
<1> DEFINE c == node2stream[n]
<1>1. /\ c # NoConn
      /\ \/ ShutdownTcpConnection(c, CloseTcp(tcp[c]), FALSE, {})
         \/ \E after \in ShutdownOrClose([tcp[c] EXCEPT !.timer = "send"]) :
                ShutdownTcpConnection(c, after, FALSE, {})
  BY DEF CloseNode
<1>2. c \in Conn /\ tcp[c] \in TcpObject
  BY <1>1, MappedOK
<1> HIDE DEF c
<1>3. Sheds(tcp[c], tcp[c])
  BY DEF Sheds
<1>4. \A after \in ShutdownOrClose([tcp[c] EXCEPT !.timer = "send"]) : Sheds(tcp[c], after)
  BY <1>2 DEF ShutdownOrClose, CloseTcp, TcpObject, Sheds
<1>5. QED
  BY <1>1, <1>2, <1>3, <1>4, CloseLightens, ShutdownLightens

LEMMA ExitOrders ==
    ASSUME IInv, Exit
    PROVE  Lightens
<1>1. /\ \A c \in Conn : tcp[c]' \in {tcp[c], CloseTcp(tcp[c])}
      /\ \A n \in Node : waitingSend[n]' = <<>> /\ node2stream[n]' = NoConn
  BY DEF Exit
<1>2. \A c \in Conn : tcp[c] \in TcpObject
  BY DEF IInv, TypeOK
<1>3. \A c \in Conn : Sheds(tcp[c], tcp[c]')
  BY <1>1, <1>2, CloseKeeps DEF Sheds
<1>4. QED
  BY <1>1, <1>3 DEF Lightens

LEMMA StartOrders ==
    ASSUME IInv, NEW n \in Node, NEW c \in Conn, OnNewConnection(n) \/ OnConnectDone(c)
    PROVE  Lightens \/ \E k \in Node, d \in Conn : Flushes(k, d)
<1>1. CASE OnNewConnection(n)
  <2> DEFINE r == [NewTcp(n) EXCEPT !.timer = "idle", !.reading = TRUE]
  <2>1. PICK d \in Conn :
           /\ ~Live(d)
           /\ \/ /\ \E o \in HalfBuilt \cup {CloseTcp(NewTcp(n))} : tcp' = [tcp EXCEPT ![d] = o]
                 /\ UNCHANGED <<node2stream, waitingSend>>
              \/ StartupTcpConnection(d, r)
    BY <1>1 DEF OnNewConnection
  <2>2. tcp[d].writes = <<>>
    BY <2>1, FreeCarriesNothing
  <2>3. r \in TcpObject /\ r.node = n /\ r.writes = <<>>
    <3> DEFINE o == NewTcp(n)
    <3>1. o \in TcpObject /\ o.node = n /\ o.writes = <<>>
      BY NewTcpOK
    <3> HIDE DEF o
    <3>2. [o EXCEPT !.timer = "idle", !.reading = TRUE] \in TcpObject
      BY <3>1 DEF TcpObject
    <3>3. QED
      BY <3>1, <3>2 DEF o, TcpObject
  <2> HIDE DEF r
  <2>4. CASE StartupTcpConnection(d, r)
    BY <2>2, <2>3, <2>4, StartupOrders
  <2>5. ASSUME NEW o \in HalfBuilt \cup {CloseTcp(NewTcp(n))}, tcp' = [tcp EXCEPT ![d] = o],
               UNCHANGED <<node2stream, waitingSend>>
        PROVE  Lightens
    <3>1. Sheds(tcp[d], o)
      BY AbandonedCarriesNothing DEF Sheds
    <3>2. QED
      BY <2>5, <3>1, OneLightens
  <2>6. QED
    BY <2>1, <2>4, <2>5
<1>2. CASE OnConnectDone(c)
  <2> DEFINE o == [tcp[c] EXCEPT !.connectReq = FALSE]
             r == [o EXCEPT !.timer = "idle", !.reading = TRUE]
  <2>1. /\ tcp[c].connectReq
        /\ ShutdownTcpConnection(c, CloseTcp(o), TRUE, {}) \/ StartupTcpConnection(c, r)
    BY <1>2 DEF OnConnectDone
  <2>2. tcp[c] \in TcpObject /\ tcp[c].node \in Node /\ tcp[c].writes = <<>>
    BY <2>1 DEF IInv, TypeOK, ObjectInv
  <2>3. o \in TcpObject /\ o.node = tcp[c].node /\ o.writes = tcp[c].writes
    BY <2>2 DEF TcpObject
  <2> HIDE DEF o
  <2>4. r \in TcpObject /\ r.node = tcp[c].node /\ r.writes = <<>>
    BY <2>2, <2>3 DEF TcpObject
  <2> HIDE DEF r
  <2>5. Sheds(tcp[c], o)
    BY <2>3 DEF Sheds
  <2>6. QED
    BY <2>1, <2>2, <2>3, <2>4, <2>5, CloseLightens, StartupOrders
<1>3. QED
  BY <1>1, <1>2

LEMMA CallbackOrders ==
    ASSUME IInv, NEW c \in Conn,
           \/ OnReadData(c) \/ OnReadEnd(c) \/ OnTimeout(c) \/ OnWriteSent(c) \/ OnWriteFailed(c)
           \/ Flush(c) \/ OnShutdownDone(c) \/ OnTcpClosed(c) \/ OnTimerClosed(c)
    PROVE  Lightens
<1> DEFINE p == tcp[c]
<1>1. p \in TcpObject /\ ObjectInv(p)
  BY DEF IInv, TypeOK
<1>2. Sheds(p, p)
  BY DEF Sheds
<1>3. CASE OnReadData(c) \/ OnReadEnd(c) \/ OnTimeout(c)
  <2> DEFINE o == [p EXCEPT !.timer = "idle"]
  <2>1. \/ tcp' = [tcp EXCEPT ![c] = o] /\ UNCHANGED <<node2stream, waitingSend>>
        \/ ShutdownTcpConnection(c, CloseTcp(p), FALSE, {})
    BY <1>3 DEF OnReadData, OnReadEnd, OnTimeout
  <2>2. Sheds(p, o)
    BY <1>1 DEF Sheds, TcpObject
  <2> HIDE DEF o
  <2>3. QED
    BY <1>1, <1>2, <2>1, <2>2, CloseLightens, OneLightens
<1>4. CASE OnWriteSent(c) \/ OnWriteFailed(c)
  <2> DEFINE b == [p EXCEPT !.writes = Tail(@)]
             i == [b EXCEPT !.timer = "idle"]
             f == [p EXCEPT !.writes = Tail(@), !.queued = @ - 1]
  <2>1. /\ p.writes # <<>>
        /\ \/ /\ tcp' = [tcp EXCEPT ![c] = b] \/ tcp' = [tcp EXCEPT ![c] = i]
              /\ UNCHANGED <<node2stream, waitingSend>>
           \/ ShutdownTcpConnection(c, CloseTcp(b), FALSE, {})
           \/ /\ p.queued = Len(p.writes)
              /\ ShutdownTcpConnection(c, CloseTcp(f), FALSE, ToSet(Head(p.writes)))
    <3>1. OnWriteSent(c) => p.writes # <<>>
      BY <1>1 DEF OnWriteSent, TcpObject
    <3>2. QED
      BY <1>4, <3>1 DEF OnWriteSent, OnWriteFailed
  <2>2. Tail(p.writes) \in Seq(Seq(Msg)) /\ Len(p.writes) \in Nat \ {0}
    BY <1>1, <2>1 DEF TcpObject
  <2> DEFINE q == Tail(p.writes)
  <2>3. q \in Seq(Seq(Msg)) /\ q = Tail(p.writes) /\ p.writes # <<>>
    BY <2>1, <2>2
  <2> HIDE DEF q, p
  <2>4. /\ b = [p EXCEPT !.writes = q]
        /\ f = [p EXCEPT !.writes = q, !.queued = @ - 1]
    BY <1>1, <2>3 DEF TcpObject
  <2> HIDE DEF b
  <2>5. b \in TcpObject /\ b.writes = q /\ b.node = p.node
    BY <1>1, <2>3, <2>4 DEF TcpObject
  <2>6. Sheds(p, b) /\ Sheds(p, i)
    BY <2>3, <2>5 DEF Sheds, TcpObject
  <2> HIDE DEF f
  <2>7. p.queued = Len(p.writes) => p.queued - 1 \in Nat
    BY <2>2
  <2>8. p.queued = Len(p.writes) => f \in TcpObject /\ f.writes = q /\ f.node = p.node
    BY <1>1, <2>3, <2>4, <2>7 DEF TcpObject
  <2>9. p.queued = Len(p.writes) => Sheds(p, f)
    BY <2>3, <2>8 DEF Sheds
  <2> HIDE DEF i
  <2>10. QED
    BY <2>1, <2>5, <2>6, <2>8, <2>9, CloseLightens, OneLightens DEF p
<1>5. CASE Flush(c) \/ OnShutdownDone(c) \/ OnTcpClosed(c) \/ OnTimerClosed(c)
  <2>1. /\ UNCHANGED <<node2stream, waitingSend>>
        /\ \/ tcp' = [tcp EXCEPT ![c] = [p EXCEPT !.queued = @ - 1]]
           \/ tcp' = [tcp EXCEPT ![c] = CloseTcp([p EXCEPT !.shutdownReq = FALSE])]
           \/ tcp' = [tcp EXCEPT ![c] = FreeTcp]
           \/ tcp' = [tcp EXCEPT ![c] = [p EXCEPT !.tcpInited = FALSE]]
           \/ tcp' = [tcp EXCEPT ![c] = [p EXCEPT !.timerInited = FALSE]]
    BY <1>5 DEF Flush, OnShutdownDone, OnTcpClosed, OnTimerClosed
  <2>2. /\ Sheds(p, [p EXCEPT !.queued = @ - 1])
        /\ Sheds(p, CloseTcp([p EXCEPT !.shutdownReq = FALSE]))
        /\ Sheds(p, FreeTcp)
        /\ Sheds(p, [p EXCEPT !.tcpInited = FALSE])
        /\ Sheds(p, [p EXCEPT !.timerInited = FALSE])
    BY <1>1 DEF Sheds, CloseTcp, FreeTcp, TcpObject
  <2>3. QED
    BY <2>1, <2>2, OneLightens
<1>6. QED
  BY <1>3, <1>4, <1>5

LEMMA NextKeepsOrder ==
    ASSUME IInv, IInv', AccountInv, SubmissionOrder, [Next]_vars
    PROVE  SubmissionOrder'
<1>1. \/ Lightens
      \/ \E n \in Node : Waits(n)
      \/ \E n \in Node, c \in Conn : Writes(n, c) \/ Flushes(n, c)
  <2>1. CASE Request
    BY <2>1, SendTcpOrders, CloseNodeOrders, ExitOrders DEF Request
  <2>2. ASSUME NEW n \in Node, NEW c \in Conn, OnNewConnection(n) \/ OnConnectDone(c)
        PROVE  Lightens \/ \E k \in Node, d \in Conn : Flushes(k, d)
    BY <2>2, StartOrders
  <2>3. ASSUME NEW n \in Node, OnNewConnection(n) PROVE \E c \in Conn : TRUE
    BY <2>3 DEF OnNewConnection
  <2>4. ASSUME NEW c \in Conn, OnConnectDone(c) PROVE \E n \in Node : TRUE
    BY <2>4 DEF OnConnectDone, IInv, ObjectInv
  <2>5. ASSUME NEW c \in Conn, Callback(c)
        PROVE  Lightens \/ \E k \in Node, d \in Conn : Flushes(k, d)
    BY <2>2, <2>4, <2>5, CallbackOrders DEF Callback
  <2>6. CASE UNCHANGED vars
    BY <2>6 DEF vars, Lightens, Sheds
  <2>7. QED
    BY <2>1, <2>2, <2>3, <2>5, <2>6 DEF Next, Stopped
<1>2. QED
  BY <1>1, LightensKeepsOrder, WaitsKeepsOrder, WritesKeepsOrder, FlushesKeepsOrder

-----------------------------------------------------------------------------
(* The theorems about messages.                                            *)

LEMMA InitServes == Init => AccountInv /\ Service!Init
<1> SUFFICES ASSUME Init PROVE AccountInv /\ Service!Init
  OBVIOUS
<1>1. /\ \A n \in Node : Waiting(n) = {}
      /\ \A c \in Conn : tcp[c].writes = <<>> /\ Carried(c) = {} /\ Apart(tcp[c].writes)
  BY ToSetEmpty, LoadEmpty DEF Init, Waiting, Carried, Load, FreeTcp
<1>2. nextMsg = 0 /\ \A m \in Msg : ~(m <= nextMsg) /\ sent[m] = 0 /\ dropped[m] = 0
  BY ConstantsAssumption DEF Init, Msg
<1>3. AccountInv
  BY <1>1, <1>2 DEF AccountInv, Held
<1>4. /\ \A n \in Node : Pending(n) = {}
      /\ SentSet = {} /\ DroppedSet = {}
  BY <1>1, <1>2 DEF Pending, SentSet, DroppedSet
<1>5. Service!Init
  BY <1>4 DEF Init, Service!Init, Pending, SentSet, DroppedSet
<1>6. QED
  BY <1>3, <1>5

LEMMA NextServes ==
    ASSUME IInv, IInv', AccountInv, [Next]_vars
    PROVE  Serves
<1>1. ASSUME NEW n \in Node, NEW b \in BOOLEAN, SendTcp(n, b) PROVE Serves
  BY <1>1, SendTcpServes
<1>2. ASSUME NEW n \in Node, NEW b \in BOOLEAN, CloseNode(n, b) PROVE Serves
  BY <1>2, CloseNodeServes
<1>3. CASE Exit
  BY <1>3, ExitServes
<1>4. ASSUME NEW n \in Node, OnNewConnection(n) PROVE Serves
  BY <1>4, OnNewConnectionServes
<1>5. ASSUME NEW c \in Conn, OnConnectDone(c) PROVE Serves
  BY <1>5, OnConnectDoneServes
<1>6. ASSUME NEW c \in Conn, OnReadData(c) \/ OnReadEnd(c) \/ OnTimeout(c) PROVE Serves
  BY <1>6, ReadServes
<1>7. ASSUME NEW c \in Conn,
             Flush(c) \/ OnShutdownDone(c) \/ OnTcpClosed(c) \/ OnTimerClosed(c)
      PROVE  Serves
  BY <1>7, QuietServes
<1>8. ASSUME NEW c \in Conn, OnWriteSent(c) PROVE Serves
  BY <1>8, OnWriteSentServes
<1>9. ASSUME NEW c \in Conn, OnWriteFailed(c) PROVE Serves
  BY <1>9, OnWriteFailedServes
<1>10. CASE UNCHANGED vars
  <2>1. /\ UNCHANGED <<waitingSend, tcp, up, nextMsg, sent, dropped, exited>>
    BY <1>10 DEF vars
  <2>2. AccountInv'
    BY <2>1 DEF AccountInv, Held, Waiting, Carried
  <2>3. UNCHANGED Service!vars
    BY <2>1 DEF Service!vars, Waiting, Carried
  <2>4. QED
    BY <2>2, <2>3 DEF Serves
<1>11. QED
  BY <1>1, <1>2, <1>3, <1>4, <1>5, <1>6, <1>7, <1>8, <1>9, <1>10
     DEF Next, Request, Callback, Stopped

\* AccountInv is inductive beside IInv.
THEOREM AccountInvariance == Spec => []AccountInv
<1>1. IInv /\ IInv' /\ AccountInv /\ [Next]_vars => AccountInv'
  BY NextServes DEF Serves
<1>2. QED
  BY <1>1, InitServes, Invariance, PTL DEF Spec

\* on_wakeup and the callbacks neither lose nor duplicate a message: it waits,
\* is outstanding, was sent or was dropped, and only one of these.
THEOREM EachInOnePlace == Spec => []Accounted
<1>1. IInv /\ AccountInv => Accounted
  <2> SUFFICES ASSUME IInv, AccountInv, NEW m \in Msg
               PROVE  Cardinality({n \in Node : m \in Waiting(n)})
                        + Cardinality({c \in Conn : m \in Carried(c)})
                        + sent[m] + dropped[m]
                      = IF m <= nextMsg THEN 1 ELSE 0
    BY DEF Accounted
  <2> DEFINE W == {n \in Node : m \in Waiting(n)}
             C == {c \in Conn : m \in Carried(c)}
  <2>1. sent[m] \in Nat /\ dropped[m] \in Nat
    BY DEF IInv, TypeOK
  <2>2. W = {} \/ \E n \in Node : W = {n} /\ C = {}
    BY DEF AccountInv
  <2>3. C = {} \/ \E c \in Conn : C = {c} /\ W = {}
    BY DEF AccountInv
  <2>4. Held(m) <=> W # {} \/ C # {}
    BY DEF Held
  <2> HIDE DEF W, C
  <2>5. \A S, T : (S = {} \/ \E x \in T : S = {x}) =>
                    (S = {} /\ Cardinality(S) = 0) \/ (S # {} /\ Cardinality(S) = 1)
    <3> SUFFICES ASSUME NEW S, NEW T, S = {} \/ \E x \in T : S = {x}
                 PROVE  (S = {} /\ Cardinality(S) = 0) \/ (S # {} /\ Cardinality(S) = 1)
      OBVIOUS
    <3>1. CASE S = {}
      BY <3>1, FS_EmptySet
    <3>2. CASE \E x \in T : S = {x}
      <4>1. PICK x \in T : S = {x}
        BY <3>2
      <4>2. Cardinality(S) = 1
        BY <4>1, FS_Singleton
      <4>3. QED
        BY <4>1, <4>2
    <3>3. QED
      BY <3>1, <3>2
  <2>6. /\ (W = {} /\ Cardinality(W) = 0) \/ (W # {} /\ Cardinality(W) = 1)
        /\ (C = {} /\ Cardinality(C) = 0) \/ (C # {} /\ Cardinality(C) = 1)
    BY <2>2, <2>3, <2>5
  <2>7. W = {} \/ C = {}
    BY <2>2
  <2>8. /\ Held(m) => m <= nextMsg
        /\ sent[m] + dropped[m] = IF m <= nextMsg /\ ~Held(m) THEN 1 ELSE 0
    BY DEF AccountInv
  <2>9. Cardinality(W) + Cardinality(C) + sent[m] + dropped[m]
           = IF m <= nextMsg THEN 1 ELSE 0
    BY <2>1, <2>4, <2>6, <2>7, <2>8
  <2>10. QED
    BY <2>9 DEF W, C
<1>2. QED
  BY <1>1, Invariance, AccountInvariance, PTL

\* The send loop, startupTcpConnection and the callbacks keep the messages of a node
\* in the order they were handed in, on each of its connections and between them.
THEOREM LeavesInOrder == Spec => []SubmissionOrder
<1>1. Init => SubmissionOrder
  BY InOrderEmpty, LoadEmpty, ToSetEmpty
     DEF Init, SubmissionOrder, FreeTcp, Waiting, Carried, Load
<1>2. IInv /\ IInv' /\ AccountInv /\ SubmissionOrder /\ [Next]_vars => SubmissionOrder'
  BY NextKeepsOrder
<1>3. QED
  BY <1>1, <1>2, Invariance, AccountInvariance, PTL DEF Spec

\* Whatever the handlers, the connections and the order of the callbacks, the
\* application sees the behaviour TcpService describes.
THEOREM ImplementsService == Spec => KeepsService
<1>1. IInv /\ IInv' /\ AccountInv /\ [Next]_vars => [Service!Next]_(Service!vars)
  BY NextServes DEF Serves
<1>2. Init => Service!Init
  BY InitServes
<1>3. QED
  BY <1>1, <1>2, Invariance, AccountInvariance, PTL DEF Spec, KeepsService, Service!Spec
=============================================================================
