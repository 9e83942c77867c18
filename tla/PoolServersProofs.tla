-------------------------- MODULE PoolServersProofs --------------------------
(***************************************************************************)
(* Proofs about PoolServers, for every finite set of handles and UDP       *)
(* nodes: the servers are the open handles, bindStatus tells the truth,    *)
(* the bound UDP ports take turns, and every message is settled once.      *)
(***************************************************************************)
EXTENDS PoolServers, SequenceLemmas, FiniteSetTheorems, TLAPS

NoRepeats(s) == \A i, j \in DOMAIN s : i # j => s[i] # s[j]

Serves(h, n) == life[h] = "open" /\ node[h] = n

\* An entry of m_tcpServers or m_udpServers is an open handle of its node, every
\* open handle has an entry, and no node has two.
PortsInv ==
    /\ \A n \in TcpNode, h \in Handle : tcpServers[n] = h <=> Serves(h, n)
    /\ \A h \in Handle : h \in ToSet(udpServers) <=> life[h] = "open" /\ node[h] \in UdpNode
    /\ NoRepeats(udpServers)
    /\ \A h, g \in Handle : life[h] = "open" /\ life[g] = "open" /\ node[h] = node[g] => h = g
    /\ \A h \in Handle : life[h] = "open" => node[h] \in TcpNode \cup UdpNode

\* Only a notification changes what was last said of a node.
StatusInv == \A n \in Node : status[n] <=> \E h \in Handle : Serves(h, n)

\* A message is in one request at most, of one handle, and none is in flight once
\* it is settled; only the exit branch drops.
MessagesInv ==
    /\ \A h \in Handle : NoRepeats(inFlight[h])
    /\ \A h, g \in Handle : h # g => ToSet(inFlight[h]) \cap ToSet(inFlight[g]) = {}
    /\ \A h \in Handle : ToSet(inFlight[h]) \cap (ignored \cup done \cup failed
                                                  \cup dropped \cup rejected) = {}
    /\ ignored \cap (done \cup failed \cup dropped \cup rejected) = {}
    /\ done \cap (failed \cup dropped \cup rejected) = {}
    /\ failed \cap (dropped \cup rejected) = {}
    /\ dropped \cap rejected = {}
    /\ \A m \in 1..MaxMsg :
          m < nextMsg <=> \/ m \in ignored \cup done \cup failed \cup dropped \cup rejected
                          \/ \E h \in Handle : m \in ToSet(inFlight[h])
    /\ ~exited => dropped = {}
    /\ \A h \in Free : inFlight[h] = <<>>

\* Since the ports last changed every one was used b times, those from the s-th
\* up to the one before the turn once more.
InTurn(b, s) ==
    LET p == udpIndex % Len(udpServers)
    IN  \A i \in 0..Len(udpServers) - 1 :
            uses[udpServers[i + 1]] =
               IF (s <= i /\ i < p) \/ (p < s /\ (s <= i \/ i < p)) THEN b + 1 ELSE b

TurnInv ==
    /\ \A h \in Handle : uses[h] < nextMsg
    /\ udpServers # <<>> => \E b \in Nat, s \in 0..Len(udpServers) - 1 : InTurn(b, s)

IInv == TypeOK /\ PortsInv /\ StatusInv /\ MessagesInv /\ TurnInv

-----------------------------------------------------------------------------
(* Sequences without repeats.                                              *)

LEMMA NoRepeatsAppend ==
    ASSUME NEW S, NEW s \in Seq(S), NEW e \in S, NoRepeats(s), e \notin ToSet(s)
    PROVE  NoRepeats(Append(s, e))
<1>1. /\ DOMAIN s = 1..Len(s) /\ DOMAIN Append(s, e) = 1..Len(s) + 1 /\ Len(s) \in Nat
      /\ \A i \in 1..Len(s) : Append(s, e)[i] = s[i]
      /\ Append(s, e)[Len(s) + 1] = e
  OBVIOUS
<1>2. \A i \in 1..Len(s) : s[i] # e
  BY <1>1 DEF ToSet
<1>3. \A i \in 1..Len(s) + 1 : i \in 1..Len(s) \/ i = Len(s) + 1
  BY <1>1
<1>4. QED
  BY <1>1, <1>2, <1>3 DEF NoRepeats

LEMMA NoRepeatsTail ==
    ASSUME NEW S, NEW s \in Seq(S), NoRepeats(s), s # <<>>
    PROVE  NoRepeats(Tail(s)) /\ ToSet(Tail(s)) = ToSet(s) \ {Head(s)}
<1>1. /\ DOMAIN s = 1..Len(s) /\ DOMAIN Tail(s) = 1..Len(s) - 1
      /\ Len(s) \in Nat /\ Len(s) >= 1 /\ Head(s) = s[1]
      /\ \A i \in 1..Len(s) - 1 : Tail(s)[i] = s[i + 1]
  OBVIOUS
<1>2. \A i \in 1..Len(s) - 1 : i + 1 \in 1..Len(s) /\ i + 1 # 1
  BY <1>1
<1>3. NoRepeats(Tail(s))
  BY <1>1, <1>2 DEF NoRepeats
<1>4. Head(s) \notin ToSet(Tail(s))
  BY <1>1, <1>2 DEF NoRepeats, ToSet
<1>5. QED
  BY <1>3, <1>4, ToSetHeadTail

-----------------------------------------------------------------------------
(* Handles and their entries.                                              *)

\* ServerOf finds the open handle of the node, when there is one.
LEMMA ServerOfServes ==
    ASSUME TypeOK, PortsInv, NEW n \in Node \ BadNode
    PROVE  \/ ServerOf(n) = NoHandle /\ \A h \in Handle : ~Serves(h, n)
           \/ ServerOf(n) \in Handle /\ Serves(ServerOf(n), n)
<1>1. CASE n \in TcpNode
  <2>1. ServerOf(n) = tcpServers[n] /\ tcpServers[n] \in Handle \cup {NoHandle}
    BY <1>1 DEF ServerOf, TypeOK
  <2>2. QED
    BY <1>1, <2>1, ServersAssumption DEF PortsInv
<1>2. CASE n \notin TcpNode
  <2> DEFINE hs == {h \in ToSet(udpServers) : node[h] = n}
  <2>1. n \in UdpNode
    BY <1>2 DEF Node
  <2>2. ToSet(udpServers) \subseteq Handle
    BY DEF TypeOK, ToSet
  <2>3. \A h \in Handle : h \in hs <=> Serves(h, n)
    BY <2>1 DEF PortsInv, Serves
  <2>4. ServerOf(n) = IF hs = {} THEN NoHandle ELSE CHOOSE h \in hs : TRUE
    BY <1>2 DEF ServerOf
  <2> HIDE DEF hs
  <2>5. CASE hs = {}
    BY <2>3, <2>4, <2>5
  <2>6. CASE hs # {}
    <3>1. ServerOf(n) \in hs
      BY <2>4, <2>6
    <3>2. hs \subseteq Handle
      BY <2>2 DEF hs
    <3>3. QED
      BY <2>3, <3>1, <3>2
  <2>7. QED
    BY <2>5, <2>6
<1>3. QED
  BY <1>1, <1>2

\* There is room for the turns of all UDP ports.
LEMMA UdpServersFew ==
    ASSUME TypeOK, PortsInv
    PROVE  Len(udpServers) <= Cardinality(UdpNode) /\ Cardinality(UdpNode) \in Nat
<1> DEFINE k == Len(udpServers)
           f == [i \in 1..k |-> node[udpServers[i]]]
<1>1. k \in Nat /\ DOMAIN udpServers = 1..k /\ \A i \in 1..k : udpServers[i] \in Handle
  BY DEF TypeOK
<1>2. \A i \in 1..k : udpServers[i] \in ToSet(udpServers)
  BY <1>1 DEF ToSet
<1>3. f \in [1..k -> UdpNode]
  BY <1>1, <1>2 DEF PortsInv
<1>4. \A i, j \in 1..k : f[i] = f[j] => i = j
  BY <1>1, <1>2 DEF PortsInv, NoRepeats
<1> HIDE DEF f
<1>5. f \in Injection(1..k, UdpNode)
  BY <1>3, <1>4 DEF Injection, IsInjective
<1>6. IsFiniteSet(UdpNode)
  BY ServersAssumption
<1>7. Cardinality(1..k) <= Cardinality(UdpNode)
  BY <1>5, <1>6, FS_Injection
<1>8. Cardinality(1..k) = k
  BY <1>1, FS_Interval
<1>9. QED
  BY <1>6, <1>7, <1>8, FS_CardinalityType

\* An entry more.
LEMMA InsertKeeps ==
    ASSUME TypeOK, PortsInv, NEW n \in TcpNode \cup UdpNode, NEW h \in Handle,
           Insert(n, h), life[h] # "open", \A g \in Handle : ~Serves(g, n),
           node' = [node EXCEPT ![h] = n], life' = [life EXCEPT ![h] = "open"]
    PROVE  PortsInv'
<1>1. /\ node' \in [Handle -> Node \cup {NoNode}]
      /\ \A g \in Handle : node'[g] = IF g = h THEN n ELSE node[g]
      /\ \A g \in Handle : life'[g] = IF g = h THEN "open" ELSE life[g]
  BY DEF TypeOK, Node
<1>2. \A m, g : g \in Handle => (Serves(g, m)' <=> IF g = h THEN m = n ELSE Serves(g, m))
  BY <1>1 DEF Serves
<1>3. \A m \in TcpNode, g \in Handle : (tcpServers[m] = g)' <=> Serves(g, m)'
  <2>1. CASE n \in TcpNode
    <3>1. \A m \in TcpNode : tcpServers'[m] = IF m = n THEN h ELSE tcpServers[m]
      BY <2>1 DEF Insert, TypeOK
    <3>2. QED
      BY <1>2, <2>1, <3>1 DEF PortsInv, Serves
  <2>2. CASE n \notin TcpNode
    <3>1. tcpServers' = tcpServers
      BY <2>2 DEF Insert
    <3>2. QED
      BY <1>2, <2>2, <3>1 DEF PortsInv, Serves
  <2>3. QED
    BY <2>1, <2>2
<1>4. /\ \A g \in Handle : g \in ToSet(udpServers)' <=> life'[g] = "open" /\ node'[g] \in UdpNode
      /\ NoRepeats(udpServers)'
  <2>1. CASE n \in TcpNode
    <3>1. udpServers' = udpServers /\ n \notin UdpNode
      BY <2>1, ServersAssumption DEF Insert
    <3>2. QED
      BY <1>1, <3>1 DEF PortsInv, NoRepeats
  <2>2. CASE n \notin TcpNode
    <3>1. udpServers' = Append(udpServers, h) /\ n \in UdpNode /\ udpServers \in Seq(Handle)
      BY <2>2 DEF Insert, TypeOK
    <3>2. ToSet(udpServers)' = ToSet(udpServers) \cup {h}
      BY <3>1, ToSetAppend
    <3>3. h \notin ToSet(udpServers)
      BY DEF PortsInv
    <3>4. NoRepeats(udpServers)'
      BY <3>1, <3>3, NoRepeatsAppend DEF PortsInv
    <3>5. QED
      BY <1>1, <3>1, <3>2, <3>4 DEF PortsInv
  <2>3. QED
    BY <2>1, <2>2
<1>5. \A g, i \in Handle :
         life'[g] = "open" /\ life'[i] = "open" /\ node'[g] = node'[i] => g = i
  BY <1>1 DEF PortsInv, Serves
<1>6. \A g \in Handle : life'[g] = "open" => node'[g] \in TcpNode \cup UdpNode
  BY <1>1 DEF PortsInv
<1>7. QED
  BY <1>3, <1>4, <1>5, <1>6 DEF PortsInv

\* An entry less.
LEMMA EraseKeeps ==
    ASSUME TypeOK, PortsInv, NEW n \in TcpNode \cup UdpNode, NEW h \in Handle,
           Erase(n, h), Serves(h, n),
           node' = node, life' = [life EXCEPT ![h] = "closing"]
    PROVE  PortsInv' /\ udpServers' \in Seq(Handle)
<1>1. \A g \in Handle : life'[g] = IF g = h THEN "closing" ELSE life[g]
  BY DEF TypeOK
<1>2. \A m, g : g \in Handle => (Serves(g, m)' <=> g # h /\ Serves(g, m))
  BY <1>1 DEF Serves
<1>3. \A m \in TcpNode, g \in Handle : (tcpServers[m] = g)' <=> Serves(g, m)'
  <2>1. CASE n \in TcpNode
    <3>1. \A m \in TcpNode : tcpServers'[m] = IF m = n THEN NoHandle ELSE tcpServers[m]
      BY <2>1 DEF Erase, TypeOK
    <3>2. QED
      BY <1>2, <2>1, <3>1, ServersAssumption DEF PortsInv, Serves
  <2>2. CASE n \notin TcpNode
    <3>1. tcpServers' = tcpServers
      BY <2>2 DEF Erase
    <3>2. QED
      BY <1>2, <2>2, <3>1 DEF PortsInv, Serves
  <2>3. QED
    BY <2>1, <2>2
<1>4. /\ \A g \in Handle : g \in ToSet(udpServers)' <=> life'[g] = "open" /\ node'[g] \in UdpNode
      /\ NoRepeats(udpServers)'
      /\ udpServers' \in Seq(Handle)
  <2>1. CASE n \in TcpNode
    <3>1. udpServers' = udpServers /\ n \notin UdpNode
      BY <2>1, ServersAssumption DEF Erase
    <3>2. udpServers \in Seq(Handle) /\ NoRepeats(udpServers)'
      BY <3>1 DEF PortsInv, NoRepeats, TypeOK
    <3>3. h \notin ToSet(udpServers)
      BY <3>1 DEF PortsInv, Serves
    <3>4. QED
      BY <1>1, <3>1, <3>2, <3>3 DEF PortsInv
  <2>2. CASE n \notin TcpNode
    <3>1. PICK i \in DOMAIN udpServers :
             udpServers[i] = h /\ udpServers' = RemoveAt(udpServers, i)
      BY <2>2 DEF Erase
    <3>2. udpServers \in Seq(Handle) /\ DOMAIN udpServers = 1..Len(udpServers)
      BY DEF TypeOK
    <3>3. \A j, m \in 1..Len(udpServers) : j # m => udpServers[j] # udpServers[m]
      BY <3>2 DEF PortsInv, NoRepeats
    <3>4. /\ ToSet(udpServers') = ToSet(udpServers) \ {h}
          /\ udpServers' \in Seq(Handle)
          /\ \A j, m \in 1..Len(udpServers') : j # m => udpServers'[j] # udpServers'[m]
      <4>1. i \in 1..Len(udpServers)
        BY <3>2
      <4> DEFINE r == RemoveAt(udpServers, i)
      <4>2. /\ ToSet(r) = ToSet(udpServers) \ {udpServers[i]}
            /\ \A j, m \in 1..Len(r) : j # m => r[j] # r[m]
        BY <3>2, <3>3, <4>1, ToSetRemoveAt
      <4>3. r \in Seq(Handle)
        BY <3>2, <4>1, RemoveAtProperties
      <4>4. udpServers' = r /\ udpServers[i] = h
        BY <3>1
      <4> HIDE DEF r
      <4>5. QED
        BY <4>2, <4>3, <4>4
    <3>5. NoRepeats(udpServers)'
      BY <3>4 DEF NoRepeats
    <3>6. QED
      BY <1>1, <3>4, <3>5 DEF PortsInv
  <2>3. QED
    BY <2>1, <2>2
<1>5. \A g, i \in Handle :
         life'[g] = "open" /\ life'[i] = "open" /\ node'[g] = node'[i] => g = i
  BY <1>1 DEF PortsInv
<1>6. \A g \in Handle : life'[g] = "open" => node'[g] \in TcpNode \cup UdpNode
  BY <1>1 DEF PortsInv
<1>7. QED
  BY <1>3, <1>4, <1>5, <1>6 DEF PortsInv

\* An object that is not open may change without a word to the servers.
LEMMA OthersKeep ==
    ASSUME PortsInv, StatusInv, UNCHANGED <<tcpServers, udpServers, status>>,
           \A h \in Handle : life'[h] = "open" <=> life[h] = "open",
           \A h \in Handle : life[h] = "open" => node'[h] = node[h]
    PROVE  PortsInv' /\ StatusInv'
<1>1. \A h \in Handle : \A n : Serves(h, n)' <=> Serves(h, n)
  BY DEF Serves
<1>2. StatusInv'
  BY <1>1 DEF StatusInv
<1>3. PortsInv'
  BY <1>1 DEF PortsInv, NoRepeats
<1>4. QED
  BY <1>2, <1>3

-----------------------------------------------------------------------------
(* Types.                                                                  *)

LEMMA InitIInv == Init => IInv
<1> SUFFICES ASSUME Init PROVE IInv
  OBVIOUS
<1>1. TypeOK
  <2>1. Cardinality(UdpNode) \in Nat
    BY ServersAssumption, FS_CardinalityType
  <2>2. <<>> \in Seq(Handle) /\ <<>> \in Seq(1..MaxMsg)
    OBVIOUS
  <2>3. MaxMsg \in Nat
    BY ServersAssumption
  <2>4. udpIndex \in 0..Cardinality(UdpNode) /\ nextMsg \in 1..MaxMsg + 1
        /\ uses \in [Handle -> 0..MaxMsg]
    BY <2>1, <2>3 DEF Init
  <2>5. QED
    BY <2>2, <2>4 DEF Init, TypeOK
<1>2. PortsInv /\ StatusInv
  BY ToSetEmpty, ServersAssumption DEF Init, PortsInv, StatusInv, Serves, NoRepeats
<1>3. MessagesInv
  <2>1. \A m \in 1..MaxMsg : ~(m < 1)
    BY ServersAssumption
  <2>2. \A h \in Handle : inFlight[h] = <<>>
    BY DEF Init
  <2>3. NoRepeats(<<>>)
    BY DEF NoRepeats
  <2>4. \A h \in Handle : NoRepeats(inFlight[h]) /\ ToSet(inFlight[h]) = {}
    BY <2>2, <2>3, ToSetEmpty
  <2>5. \A h \in Free : inFlight[h] = <<>>
    BY <2>2 DEF Free
  <2>6. QED
    BY <2>1, <2>4, <2>5 DEF Init, MessagesInv
<1>4. TurnInv
  BY DEF Init, TurnInv
<1>5. QED
  BY <1>1, <1>2, <1>3, <1>4 DEF IInv

\* The turn is that of a bound port.
LEMMA TurnIsAPort ==
    ASSUME TypeOK, udpServers # <<>>
    PROVE  /\ Len(udpServers) \in Nat \ {0}
           /\ udpIndex \in Nat
           /\ udpIndex % Len(udpServers) \in 0..Len(udpServers) - 1
           /\ (udpIndex % Len(udpServers)) + 1 \in DOMAIN udpServers
           /\ Sender = udpServers[(udpIndex % Len(udpServers)) + 1]
           /\ Sender \in Handle /\ Sender \in ToSet(udpServers)
<1>1. udpServers \in Seq(Handle) /\ Len(udpServers) \in Nat \ {0} /\ udpIndex \in Nat
  <2>1. Cardinality(UdpNode) \in Nat
    BY ServersAssumption, FS_CardinalityType
  <2>2. QED
    BY <2>1 DEF TypeOK
<1>2. udpIndex % Len(udpServers) \in 0..Len(udpServers) - 1
  BY <1>1
<1>3. DOMAIN udpServers = 1..Len(udpServers)
  BY <1>1
<1>4. (udpIndex % Len(udpServers)) + 1 \in DOMAIN udpServers
  BY <1>1, <1>2, <1>3
<1>5. QED
  BY <1>1, <1>2, <1>4 DEF Sender, ToSet

LEMMA NextTypeOK == IInv /\ [Next]_vars => TypeOK'
<1> SUFFICES ASSUME IInv, [Next]_vars PROVE TypeOK'
  OBVIOUS
<1>0. TypeOK /\ PortsInv /\ TurnInv
  BY DEF IInv
<1>00. MaxMsg \in Nat /\ nextMsg \in 1..MaxMsg + 1 /\ Cardinality(UdpNode) \in Nat
  BY <1>0, ServersAssumption, FS_CardinalityType DEF TypeOK
<1>1. ASSUME NEW n \in Node, BindNew(n) PROVE TypeOK'
  <2>1. n \in Node \ BadNode /\ ServerOf(n) = NoHandle
    BY <1>1, ServersAssumption DEF BindNew, Node
  <2>2. status' \in [Node -> BOOLEAN]
    BY <1>0, <1>1 DEF BindNew, TypeOK
  <2>3. CASE UNCHANGED <<tcpServers, udpServers, uses>>
    BY <1>0, <1>1, <2>2, <2>3, ZenonT(60) DEF BindNew, TypeOK, messages
  <2>4. CASE \E h \in Handle : Insert(n, h)
    <3>1. PICK h \in Handle : Insert(n, h)
      BY <2>4
    <3>2. /\ tcpServers' \in [TcpNode -> Handle \cup {NoHandle}]
          /\ udpServers' \in Seq(Handle)
          /\ uses' \in [Handle -> 0..MaxMsg]
      <4>1. udpServers \in Seq(Handle) /\ Append(udpServers, h) \in Seq(Handle)
        BY <1>0 DEF TypeOK
      <4>2. [g \in Handle |-> 0] \in [Handle -> 0..MaxMsg]
        BY <1>00
      <4>3. QED
        BY <1>0, <3>1, <4>1, <4>2 DEF Insert, TypeOK
    <3>3. QED
      BY <1>0, <1>1, <2>2, <3>2, ZenonT(60) DEF BindNew, TypeOK, messages
  <2>5. QED
    BY <1>1, <2>3, <2>4 DEF BindNew, Free
<1>2. ASSUME NEW n \in Node, BindNotify(n) PROVE TypeOK'
  BY <1>0, <1>2 DEF BindNotify, TypeOK, messages
<1>3. ASSUME NEW n \in Node, Unbind(n) PROVE TypeOK'
  <2>1. n \in Node \ BadNode /\ n \in TcpNode \cup UdpNode /\ ServerOf(n) # NoHandle
    BY <1>3 DEF Unbind, Node
  <2>2. ServerOf(n) \in Handle /\ Serves(ServerOf(n), n)
    BY <1>0, <2>1, ServerOfServes
  <2>3. udpServers' \in Seq(Handle)
    BY <1>0, <1>3, <2>1, <2>2, EraseKeeps DEF Unbind
  <2>4. tcpServers' \in [TcpNode -> Handle \cup {NoHandle}]
        /\ uses' \in [Handle -> 0..MaxMsg]
    <3>1. [g \in Handle |-> 0] \in [Handle -> 0..MaxMsg]
      BY <1>00
    <3>2. QED
      BY <1>0, <1>3, <3>1 DEF Unbind, Erase, TypeOK
  <2>5. QED
    BY <1>0, <1>3, <2>3, <2>4 DEF Unbind, TypeOK, messages
<1>4. CASE SendUdp
  <2>1. udpServers # <<>> /\ nextMsg \in 1..MaxMsg /\ nextMsg' = nextMsg + 1
        /\ udpIndex' = (udpIndex % Len(udpServers)) + 1
    BY <1>00, <1>4 DEF SendUdp
  <2>2. PICK taken \in BOOLEAN : GiveTo(Sender, taken)
    BY <1>4 DEF SendUdp
  <2>3. udpIndex' \in 0..Cardinality(UdpNode)
    BY <1>0, <1>00, <2>1, TurnIsAPort, UdpServersFew
  <2>4. uses' \in [Handle -> 0..MaxMsg]
    <3>1. \A h \in Handle : uses[h] \in 0..MaxMsg /\ uses[h] < nextMsg
      BY <1>0 DEF TypeOK, TurnInv
    <3>2. \A h \in Handle : uses[h] + 1 \in 0..MaxMsg
      BY <1>00, <2>1, <3>1
    <3>3. QED
      BY <1>0, <2>2, <3>1, <3>2 DEF GiveTo, TypeOK
  <2>5. inFlight' \in [Handle -> Seq(1..MaxMsg)] /\ failed' \in SUBSET (1..MaxMsg)
    <3>1. \A h \in Handle : inFlight[h] \in Seq(1..MaxMsg)
                            /\ Append(inFlight[h], nextMsg) \in Seq(1..MaxMsg)
      BY <1>0, <2>1 DEF TypeOK
    <3>2. QED
      BY <1>0, <2>1, <2>2, <3>1, ZenonT(60) DEF GiveTo, TypeOK
  <2>6. nextMsg' \in 1..MaxMsg + 1
    BY <1>00, <2>1
  <2>7. QED
    BY <1>0, <1>4, <2>3, <2>4, <2>5, <2>6 DEF SendUdp, TypeOK, ports
<1>5. CASE IgnoreUdp \/ SendBad
  <2>1. nextMsg \in 1..MaxMsg /\ nextMsg' \in 1..MaxMsg + 1
    BY <1>00, <1>5 DEF IgnoreUdp, SendBad
  <2>2. QED
    BY <1>0, <1>5, <2>1 DEF IgnoreUdp, SendBad, TypeOK, ports
<1>6. CASE Exit
  <2>1. PICK end \in nextMsg..MaxMsg + 1 : nextMsg' = end /\ dropped' = nextMsg..end - 1
    BY <1>6 DEF Exit
  <2>2. nextMsg' \in 1..MaxMsg + 1 /\ dropped' \in SUBSET (1..MaxMsg)
    BY <1>00, <2>1
  <2>3. life' \in [Handle -> {"free", "open", "closing"}]
    BY <1>0, <1>6 DEF Exit, TypeOK
  <2>4. udpServers' \in Seq(Handle) /\ tcpServers' \in [TcpNode -> Handle \cup {NoHandle}]
    BY <1>6 DEF Exit
  <2>5. QED
    BY <1>0, <1>6, <2>2, <2>3, <2>4 DEF Exit, TypeOK
<1>7. ASSUME NEW h \in Handle, OnUdpSendDone(h) PROVE TypeOK'
  <2>1. inFlight[h] \in Seq(1..MaxMsg) /\ inFlight[h] # <<>>
    BY <1>0, <1>7 DEF OnUdpSendDone, TypeOK
  <2>2. Head(inFlight[h]) \in 1..MaxMsg /\ Tail(inFlight[h]) \in Seq(1..MaxMsg)
    BY <2>1, HeadTailProperties
  <2>3. QED
    BY <1>0, <1>7, <2>2 DEF OnUdpSendDone, TypeOK, ports
<1>8. ASSUME NEW h \in Handle, OnClosed(h) PROVE TypeOK'
  BY <1>0, <1>8 DEF OnClosed, TypeOK, messages
<1>9. CASE UNCHANGED vars
  BY <1>0, <1>9 DEF vars, TypeOK, ports, messages
<1>10. QED
  BY <1>1, <1>2, <1>3, <1>4, <1>5, <1>6, <1>7, <1>8, <1>9 DEF Next, Callback, Stopped

-----------------------------------------------------------------------------
(* Ports and what is said of them.                                         *)

LEMMA NextPorts == IInv /\ [Next]_vars => PortsInv' /\ StatusInv'
<1> SUFFICES ASSUME IInv, [Next]_vars PROVE PortsInv' /\ StatusInv'
  OBVIOUS
<1>0. TypeOK /\ PortsInv /\ StatusInv
  BY DEF IInv
<1>1. ASSUME NEW n \in Node, BindNew(n) PROVE PortsInv' /\ StatusInv'
  <2>1. n \in Node \ BadNode /\ n \in TcpNode \cup UdpNode /\ ServerOf(n) = NoHandle
    BY <1>1, ServersAssumption DEF BindNew, Node
  <2>2. \A h \in Handle : ~Serves(h, n)
    BY <1>0, <2>1, ServerOfServes, ServersAssumption
  <2>3. CASE /\ status' = [status EXCEPT ![n] = FALSE]
             /\ UNCHANGED <<tcpServers, udpServers, life, node, uses>>
    <3>1. status' = status
      BY <1>0, <2>1, <2>2, <2>3 DEF StatusInv, TypeOK
    <3>2. QED
      BY <1>0, <2>3, <3>1, OthersKeep
  <2>4. ASSUME NEW h \in Free, node' = [node EXCEPT ![h] = n],
               life' = [life EXCEPT ![h] = "open"],
               status' = [status EXCEPT ![n] = TRUE], Insert(n, h)
        PROVE  PortsInv' /\ StatusInv'
    <3>1. h \in Handle /\ life[h] # "open"
      BY DEF Free
    <3>2. PortsInv'
      BY <1>0, <2>1, <2>2, <2>4, <3>1, InsertKeeps
    <3>3. \A g \in Handle : \A m : Serves(g, m)' <=> IF g = h THEN m = n ELSE Serves(g, m)
      BY <1>0, <2>4, <3>1 DEF Serves, TypeOK
    <3>4. StatusInv'
      BY <1>0, <2>1, <2>4, <3>1, <3>3 DEF StatusInv, TypeOK, Serves
    <3>5. QED
      BY <3>2, <3>4
  <2>5. ASSUME NEW h \in Free, node' = [node EXCEPT ![h] = n],
               life' = [life EXCEPT ![h] = "closing"],
               status' = [status EXCEPT ![n] = FALSE],
               UNCHANGED <<tcpServers, udpServers, uses>>
        PROVE  PortsInv' /\ StatusInv'
    <3>1. h \in Handle /\ life[h] # "open"
      BY DEF Free
    <3>2. status' = status
      BY <1>0, <2>1, <2>2, <2>5 DEF StatusInv, TypeOK
    <3>3. \A g \in Handle : /\ life'[g] = "open" <=> life[g] = "open"
                            /\ life[g] = "open" => node'[g] = node[g]
      BY <1>0, <2>5, <3>1 DEF TypeOK
    <3>4. QED
      BY <1>0, <2>5, <3>2, <3>3, OthersKeep
  <2>6. QED
    BY <1>1, <2>3, <2>4, <2>5 DEF BindNew
<1>2. ASSUME NEW n \in Node, BindNotify(n) PROVE PortsInv' /\ StatusInv'
  <2>1. CASE n \notin BadNode /\ status' = [status EXCEPT ![n] = ServerOf(n) # NoHandle]
    <3>1. (ServerOf(n) # NoHandle) <=> \E h \in Handle : Serves(h, n)
      BY <1>0, <2>1, ServerOfServes, ServersAssumption
    <3>2. status' = status
      BY <1>0, <2>1, <3>1 DEF StatusInv, TypeOK
    <3>3. QED
      BY <1>0, <1>2, <3>2, OthersKeep DEF BindNotify
  <2>2. CASE n \in BadNode /\ status' = [status EXCEPT ![n] = FALSE]
    <3>1. ~\E h \in Handle : Serves(h, n)
      BY <1>0, <2>2, ServersAssumption DEF PortsInv, Serves
    <3>2. status' = status
      BY <1>0, <2>2, <3>1 DEF StatusInv, TypeOK
    <3>3. QED
      BY <1>0, <1>2, <3>2, OthersKeep DEF BindNotify
  <2>3. QED
    BY <1>2, <2>1, <2>2 DEF BindNotify
<1>3. ASSUME NEW n \in Node, Unbind(n) PROVE PortsInv' /\ StatusInv'
  <2>1. n \in Node \ BadNode /\ n \in TcpNode \cup UdpNode /\ ServerOf(n) # NoHandle
    BY <1>3 DEF Unbind, Node
  <2> DEFINE h == ServerOf(n)
  <2>2. h \in Handle /\ Serves(h, n)
    BY <1>0, <2>1, ServerOfServes
  <2>3. /\ Erase(n, h) /\ node' = node /\ life' = [life EXCEPT ![h] = "closing"]
        /\ status' = [status EXCEPT ![n] = FALSE]
    BY <1>3 DEF Unbind
  <2> HIDE DEF h
  <2>4. PortsInv'
    BY <1>0, <2>1, <2>2, <2>3, EraseKeeps
  <2>5. \A g \in Handle : \A m : Serves(g, m)' <=> g # h /\ Serves(g, m)
    BY <1>0, <2>2, <2>3 DEF Serves, TypeOK
  <2>6. \A g \in Handle : Serves(g, n) => g = h
    BY <1>0, <2>2 DEF PortsInv, Serves
  <2>7. StatusInv'
    BY <1>0, <2>1, <2>2, <2>3, <2>5, <2>6 DEF StatusInv, TypeOK, Serves
  <2>8. QED
    BY <2>4, <2>7
<1>4. CASE SendUdp \/ IgnoreUdp \/ SendBad
  <2>1. UNCHANGED ports
    BY <1>4 DEF SendUdp, IgnoreUdp, SendBad
  <2>2. QED
    BY <1>0, <2>1, OthersKeep DEF ports
<1>5. CASE Exit
  <2>1. \A h \in Handle : life'[h] # "open"
    BY <1>0, <1>5 DEF Exit, PortsInv, Serves, TypeOK
  <2>2. tcpServers' = [n \in TcpNode |-> NoHandle] /\ udpServers' = <<>>
        /\ \A n \in Node : ~status'[n]
    BY <1>5 DEF Exit
  <2>3. StatusInv'
    BY <2>1, <2>2 DEF StatusInv, Serves
  <2>4. ToSet(udpServers)' = {} /\ NoRepeats(udpServers)'
    BY <2>2, ToSetEmpty DEF NoRepeats
  <2>5. QED
    BY <2>1, <2>2, <2>3, <2>4, ServersAssumption DEF PortsInv, Serves
<1>6. ASSUME NEW h \in Handle, OnUdpSendDone(h) PROVE PortsInv' /\ StatusInv'
  BY <1>0, <1>6, OthersKeep DEF OnUdpSendDone, ports
<1>7. ASSUME NEW h \in Handle, OnClosed(h) PROVE PortsInv' /\ StatusInv'
  <2>1. UNCHANGED <<tcpServers, udpServers, status>>
    BY <1>7 DEF OnClosed
  <2>2. \A g \in Handle : /\ life'[g] = "open" <=> life[g] = "open"
                          /\ life[g] = "open" => node'[g] = node[g]
    BY <1>0, <1>7 DEF OnClosed, TypeOK
  <2>3. QED
    BY <1>0, <2>1, <2>2, OthersKeep
<1>8. CASE UNCHANGED vars
  BY <1>0, <1>8, OthersKeep DEF vars, ports
<1>9. QED
  BY <1>1, <1>2, <1>3, <1>4, <1>5, <1>6, <1>7, <1>8 DEF Next, Callback, Stopped

-----------------------------------------------------------------------------
(* Messages.                                                               *)

\* A message not yet handed in is nowhere.
LEMMA NextMsgIsNew ==
    ASSUME TypeOK, MessagesInv, nextMsg <= MaxMsg
    PROVE  /\ nextMsg \in 1..MaxMsg
           /\ \A m \in 1..MaxMsg : m < nextMsg + 1 <=> m < nextMsg \/ m = nextMsg
           /\ nextMsg \notin ignored \cup done \cup failed \cup dropped \cup rejected
           /\ \A h \in Handle : nextMsg \notin ToSet(inFlight[h])
<1>1. MaxMsg \in Nat /\ nextMsg \in 1..MaxMsg
  BY ServersAssumption DEF TypeOK
<1>2. QED
  BY <1>1 DEF MessagesInv

LEMMA NextMessages == IInv /\ [Next]_vars => MessagesInv'
<1> SUFFICES ASSUME IInv, [Next]_vars PROVE MessagesInv'
  OBVIOUS
<1>0. TypeOK /\ PortsInv /\ MessagesInv
  BY DEF IInv
<1>1. ASSUME UNCHANGED <<inFlight, messages, exited>>,
             \A h \in Handle : life'[h] = "free" => inFlight[h] = <<>>
      PROVE  MessagesInv'
  BY <1>0, <1>1 DEF MessagesInv, messages, Free
<1>2. ASSUME NEW n \in Node, BindNew(n) \/ BindNotify(n) \/ Unbind(n) PROVE MessagesInv'
  <2>1. UNCHANGED <<inFlight, messages, exited>>
    BY <1>2 DEF BindNew, BindNotify, Unbind
  <2>2. \A h \in Handle : life'[h] = "free" => life[h] = "free"
    BY <1>0, <1>2 DEF BindNew, BindNotify, Unbind, TypeOK, Free
  <2>3. QED
    BY <1>0, <1>1, <2>1, <2>2 DEF MessagesInv, Free
<1>3. CASE SendUdp
  <2>1. udpServers # <<>> /\ nextMsg <= MaxMsg /\ nextMsg' = nextMsg + 1
        /\ UNCHANGED <<life, ignored, done, dropped, rejected, exited>>
    BY <1>3 DEF SendUdp, ports
  <2>2. PICK taken \in BOOLEAN : GiveTo(Sender, taken)
    BY <1>3 DEF SendUdp
  <2> DEFINE s == Sender
  <2>3. s \in Handle /\ life[s] = "open"
    BY <1>0, <2>1, TurnIsAPort DEF PortsInv
  <2>4. /\ nextMsg \in 1..MaxMsg
        /\ \A m \in 1..MaxMsg : m < nextMsg + 1 <=> m < nextMsg \/ m = nextMsg
        /\ nextMsg \notin ignored \cup done \cup failed \cup dropped \cup rejected
        /\ \A h \in Handle : nextMsg \notin ToSet(inFlight[h])
    BY <1>0, <2>1, NextMsgIsNew
  <2> HIDE DEF s
  <2>5. CASE taken
    <3>1. inFlight' = [inFlight EXCEPT ![s] = Append(@, nextMsg)] /\ failed' = failed
      BY <2>2, <2>5 DEF GiveTo, s
    <3>2. inFlight[s] \in Seq(1..MaxMsg)
      BY <1>0, <2>3 DEF TypeOK
    <3>3. \A h \in Handle : inFlight'[h] = IF h = s THEN Append(inFlight[s], nextMsg)
                                           ELSE inFlight[h]
      BY <1>0, <3>1 DEF TypeOK
    <3>4. \A h \in Handle : ToSet(inFlight[h])' =
             IF h = s THEN ToSet(inFlight[s]) \cup {nextMsg} ELSE ToSet(inFlight[h])
      <4>1. ToSet(Append(inFlight[s], nextMsg)) = ToSet(inFlight[s]) \cup {nextMsg}
        BY <2>4, <3>2, ToSetAppend, ZenonT(60)
      <4>2. QED
        BY <3>3, <4>1
    <3>5. \A h \in Handle : NoRepeats(inFlight[h])'
      <4>1. NoRepeats(Append(inFlight[s], nextMsg))
        BY <1>0, <2>3, <2>4, <3>2, NoRepeatsAppend DEF MessagesInv
      <4>2. \A h \in Handle : NoRepeats(inFlight[h])
        BY <1>0 DEF MessagesInv
      <4>3. QED
        BY <3>3, <4>1, <4>2
    <3>6. \A h \in Free' : inFlight'[h] = <<>>
      BY <1>0, <2>1, <2>3, <3>3 DEF MessagesInv, Free
    <3>7. \A m \in 1..MaxMsg :
             (\E h \in Handle : m \in ToSet(inFlight[h])') <=>
                m = nextMsg \/ \E h \in Handle : m \in ToSet(inFlight[h])
      BY <2>3, <3>4
    <3>8. \A h, g \in Handle : h # g => ToSet(inFlight[h])' \cap ToSet(inFlight[g])' = {}
      BY <1>0, <2>4, <3>4 DEF MessagesInv
    <3>9. \A h \in Handle : ToSet(inFlight[h])' \cap (ignored \cup done \cup failed
                                                      \cup dropped \cup rejected) = {}
      BY <1>0, <2>4, <3>4 DEF MessagesInv
    <3>10. \A m \in 1..MaxMsg :
              m < nextMsg' <=> \/ m \in ignored \cup done \cup failed \cup dropped \cup rejected
                               \/ \E h \in Handle : m \in ToSet(inFlight[h])'
      BY <1>0, <2>1, <2>4, <3>7 DEF MessagesInv
    <3>11. QED
      BY <1>0, <2>1, <3>1, <3>5, <3>6, <3>8, <3>9, <3>10 DEF MessagesInv
  <2>6. CASE ~taken
    <3>1. failed' = failed \cup {nextMsg} /\ inFlight' = inFlight
      BY <2>2, <2>6 DEF GiveTo
    <3>2. /\ \A h \in Handle : NoRepeats(inFlight[h])'
          /\ \A h \in Free' : inFlight'[h] = <<>>
      BY <1>0, <2>1, <3>1 DEF MessagesInv, Free
    <3>3. \A m \in 1..MaxMsg :
             m < nextMsg' <=> \/ m \in ignored \cup done \cup failed' \cup dropped \cup rejected
                              \/ \E h \in Handle : m \in ToSet(inFlight[h])
      BY <1>0, <2>1, <2>4, <3>1 DEF MessagesInv
    <3>4. /\ ignored \cap (done \cup failed' \cup dropped \cup rejected) = {}
          /\ done \cap (failed' \cup dropped \cup rejected) = {}
          /\ failed' \cap (dropped \cup rejected) = {}
          /\ \A h \in Handle : ToSet(inFlight[h]) \cap (ignored \cup done \cup failed'
                                                        \cup dropped \cup rejected) = {}
      BY <1>0, <2>4, <3>1 DEF MessagesInv
    <3>5. QED
      BY <1>0, <2>1, <3>1, <3>2, <3>3, <3>4 DEF MessagesInv
  <2>7. QED
    BY <2>5, <2>6
<1>4. CASE IgnoreUdp \/ SendBad
  <2>1. nextMsg <= MaxMsg /\ nextMsg' = nextMsg + 1
        /\ UNCHANGED <<life, inFlight, done, failed, dropped, exited>>
    BY <1>4 DEF IgnoreUdp, SendBad, ports
  <2>2. \/ ignored' = ignored \cup {nextMsg} /\ rejected' = rejected
        \/ rejected' = rejected \cup {nextMsg} /\ ignored' = ignored
    BY <1>4 DEF IgnoreUdp, SendBad
  <2>3. /\ nextMsg \in 1..MaxMsg
        /\ \A m \in 1..MaxMsg : m < nextMsg + 1 <=> m < nextMsg \/ m = nextMsg
        /\ nextMsg \notin ignored \cup done \cup failed \cup dropped \cup rejected
        /\ \A h \in Handle : nextMsg \notin ToSet(inFlight[h])
    BY <1>0, <2>1, NextMsgIsNew
  <2>4. QED
    BY <1>0, <2>1, <2>2, <2>3, SMTT(30) DEF MessagesInv, Free
<1>5. CASE Exit
  <2>1. ~exited /\ exited' /\ UNCHANGED <<inFlight, ignored, done, failed, rejected>>
    BY <1>5 DEF Exit
  <2>2. PICK end \in nextMsg..MaxMsg + 1 : nextMsg' = end /\ dropped' = nextMsg..end - 1
    BY <1>5 DEF Exit
  <2>3. \A h \in Handle : life'[h] = "free" => life[h] = "free"
    BY <1>0, <1>5 DEF Exit, TypeOK
  <2>4. nextMsg \in Nat /\ end \in Nat /\ dropped = {} /\ nextMsg <= end
    BY <1>0, <2>1, <2>2, ServersAssumption DEF TypeOK, MessagesInv
  <2>5. \A m \in 1..MaxMsg : m \in dropped' <=> m < end /\ ~(m < nextMsg)
    BY <2>2, <2>4, ServersAssumption
  <2>6. \A m \in dropped' : m \in 1..MaxMsg
    BY <1>0, <2>2, <2>4, ServersAssumption DEF TypeOK
  <2>7. \A m \in dropped' : m \notin ignored \cup done \cup failed \cup rejected
                            /\ \A h \in Handle : m \notin ToSet(inFlight[h])
    BY <1>0, <2>5, <2>6 DEF MessagesInv
  <2>8. \A m \in 1..MaxMsg : m < nextMsg' <=> m < nextMsg \/ m \in dropped'
    BY <2>2, <2>4, <2>5
  <2>9. QED
    BY <1>0, <2>1, <2>3, <2>4, <2>7, <2>8 DEF MessagesInv, Free
<1>6. ASSUME NEW h \in Handle, OnUdpSendDone(h) PROVE MessagesInv'
  <2> DEFINE q == inFlight[h]
             m == Head(q)
  <2>1. /\ q # <<>> /\ q \in Seq(1..MaxMsg) /\ inFlight' = [inFlight EXCEPT ![h] = Tail(@)]
        /\ UNCHANGED <<life, nextMsg, ignored, dropped, rejected, exited>>
        /\ \/ done' = done \cup {m} /\ failed' = failed
           \/ failed' = failed \cup {m} /\ done' = done
    BY <1>0, <1>6 DEF OnUdpSendDone, TypeOK, ports
  <2>2. /\ m \in 1..MaxMsg /\ m \in ToSet(q)
        /\ NoRepeats(Tail(q)) /\ ToSet(Tail(q)) = ToSet(q) \ {m}
    <3>1. NoRepeats(q)
      BY <1>0 DEF MessagesInv
    <3> HIDE DEF q
    <3>2. NoRepeats(Tail(q)) /\ ToSet(Tail(q)) = ToSet(q) \ {m}
      BY <2>1, <3>1, NoRepeatsTail
    <3>3. m \in 1..MaxMsg /\ m \in ToSet(q)
      BY <2>1, ToSetHeadTail, HeadTailProperties
    <3>4. QED
      BY <3>2, <3>3
  <2>3. \A g \in Handle : inFlight'[g] = IF g = h THEN Tail(q) ELSE inFlight[g]
    BY <1>0, <2>1 DEF TypeOK
  <2>4. \A g \in Handle : ToSet(inFlight[g])' =
           IF g = h THEN ToSet(q) \ {m} ELSE ToSet(inFlight[g])
    BY <2>2, <2>3
  <2> HIDE DEF m
  <2>5. \A g \in Handle : NoRepeats(inFlight[g])'
    <3>1. \A g \in Handle : NoRepeats(inFlight[g])
      BY <1>0 DEF MessagesInv
    <3>2. QED
      BY <2>2, <2>3, <3>1
  <2>6. m \notin ignored \cup done \cup failed \cup dropped \cup rejected
        /\ \A g \in Handle : g # h => m \notin ToSet(inFlight[g])
    BY <1>0, <2>2 DEF MessagesInv
  <2>7. \A g \in Free' : inFlight'[g] = <<>>
    BY <1>0, <2>1, <2>3 DEF MessagesInv, Free
  <2>8. \A i \in 1..MaxMsg :
           (\E g \in Handle : i \in ToSet(inFlight[g])') <=>
              i # m /\ \E g \in Handle : i \in ToSet(inFlight[g])
    BY <2>4, <2>6
  <2>9. \A i \in 1..MaxMsg :
           i < nextMsg' <=> \/ i \in (ignored \cup done \cup failed \cup dropped \cup rejected)'
                            \/ \E g \in Handle : i \in ToSet(inFlight[g])'
    BY <1>0, <2>1, <2>2, <2>8 DEF MessagesInv
  <2>10. \A g, k \in Handle : g # k => ToSet(inFlight[g])' \cap ToSet(inFlight[k])' = {}
    BY <1>0, <2>4 DEF MessagesInv
  <2>11. \A g \in Handle :
            ToSet(inFlight[g])' \cap (ignored \cup done \cup failed \cup dropped \cup rejected)' = {}
    BY <1>0, <2>1, <2>4, <2>6 DEF MessagesInv
  <2>12. /\ ignored \cap (done' \cup failed' \cup dropped \cup rejected) = {}
         /\ done' \cap (failed' \cup dropped \cup rejected) = {}
         /\ failed' \cap (dropped \cup rejected) = {}
    BY <1>0, <2>1, <2>6 DEF MessagesInv
  <2>13. UNCHANGED <<ignored, dropped, rejected, exited>>
    BY <2>1
  <2> HIDE DEF q
  <2>14. QED
    BY <1>0, <2>5, <2>7, <2>9, <2>10, <2>11, <2>12, <2>13 DEF MessagesInv
<1>7. ASSUME NEW h \in Handle, OnClosed(h) PROVE MessagesInv'
  <2>1. UNCHANGED <<inFlight, messages, exited>> /\ inFlight[h] = <<>>
    BY <1>7 DEF OnClosed
  <2>2. \A g \in Handle : life'[g] = "free" => g = h \/ life[g] = "free"
    BY <1>0, <1>7 DEF OnClosed, TypeOK
  <2>3. QED
    BY <1>0, <1>1, <2>1, <2>2 DEF MessagesInv, Free
<1>8. CASE UNCHANGED vars
  BY <1>0, <1>1, <1>8 DEF vars, ports, MessagesInv, Free
<1>9. QED
  BY <1>2, <1>3, <1>4, <1>5, <1>6, <1>7, <1>8 DEF Next, Callback, Stopped

-----------------------------------------------------------------------------
(* Turns.                                                                  *)

\* A change of the ports starts the turns anew, wherever m_udpIndex stands.
LEMMA TurnsAnew ==
    ASSUME TypeOK', uses' = [h \in Handle |-> 0]
    PROVE  TurnInv'
<1>1. \A h \in Handle : uses'[h] < nextMsg'
  BY ServersAssumption DEF TypeOK
<1>2. ASSUME udpServers' # <<>>
      PROVE  \E b \in Nat, s \in 0..Len(udpServers') - 1 : InTurn(b, s)'
  <2> DEFINE k == Len(udpServers')
             p == udpIndex' % k
  <2>1. udpServers' \in Seq(Handle) /\ udpIndex' \in Nat
    BY ServersAssumption, FS_CardinalityType DEF TypeOK
  <2>2. k \in Nat \ {0} /\ p \in 0..k - 1
    BY <1>2, <2>1
  <2>3. \A i \in 0..k - 1 : udpServers'[i + 1] \in Handle
    BY <2>1, <2>2
  <2>4. \A i \in 0..k - 1 : uses'[udpServers'[i + 1]] = 0
    BY <2>3
  <2>5. PICK s \in 0..k - 1 : s = p
    BY <2>2
  <2>6. \A i \in 0..k - 1 : ~((s <= i /\ i < p) \/ (p < s /\ (s <= i \/ i < p)))
    BY <2>2, <2>5
  <2>7. InTurn(0, s)'
    BY <2>4, <2>6 DEF InTurn
  <2>8. QED
    BY <2>2, <2>7
<1>3. QED
  BY <1>1, <1>2 DEF TurnInv

\* The turn passes to the next port.
LEMMA TurnPasses == IInv /\ SendUdp => TurnInv'
<1> SUFFICES ASSUME IInv, SendUdp PROVE TurnInv'
  OBVIOUS
<1> DEFINE k == Len(udpServers)
           p == udpIndex % k
           q == udpIndex' % k
           h == Sender
           used(i) == uses[udpServers[i + 1]]
<1>1. /\ TypeOK /\ PortsInv /\ TurnInv
      /\ udpServers # <<>> /\ udpServers' = udpServers /\ udpIndex' = p + 1
      /\ nextMsg' = nextMsg + 1
      /\ uses' = [uses EXCEPT ![h] = @ + 1]
  BY DEF IInv, SendUdp, ports, GiveTo
<1>2. /\ k \in Nat \ {0} /\ p \in 0..k - 1 /\ h = udpServers[p + 1] /\ h \in Handle
      /\ udpServers \in Seq(Handle)
  BY <1>1, TurnIsAPort DEF TypeOK
<1>3. q = IF p + 1 = k THEN 0 ELSE p + 1
  BY <1>1, <1>2
<1>4. \A g \in Handle : uses[g] \in Nat /\ uses'[g] = IF g = h THEN uses[g] + 1 ELSE uses[g]
  <2>1. uses \in [Handle -> 0..MaxMsg] /\ MaxMsg \in Nat
    BY <1>1, ServersAssumption DEF TypeOK
  <2> HIDE DEF h
  <2>2. QED
    BY <1>1, <2>1
<1>5. \A g \in Handle : uses'[g] < nextMsg'
  <2>1. nextMsg \in Nat /\ \A g \in Handle : uses[g] < nextMsg
    BY <1>1, ServersAssumption DEF TypeOK, TurnInv
  <2>2. QED
    BY <1>1, <1>4, <2>1
<1>6. \A i \in 0..k - 1 : uses'[udpServers[i + 1]] = IF i = p THEN used(i) + 1 ELSE used(i)
  <2>1. \A i \in 0..k - 1 : i + 1 \in DOMAIN udpServers /\ udpServers[i + 1] \in Handle
    BY <1>2
  <2>2. \A i \in 0..k - 1 : i # p => udpServers[i + 1] # udpServers[p + 1]
    BY <1>1, <1>2, <2>1 DEF PortsInv, NoRepeats
  <2>3. QED
    BY <1>2, <1>4, <2>1, <2>2
<1>7. PICK b \in Nat, s \in 0..k - 1 : InTurn(b, s)
  BY <1>1 DEF TurnInv
<1>8. \A i \in 0..k - 1 :
         used(i) = IF (s <= i /\ i < p) \/ (p < s /\ (s <= i \/ i < p)) THEN b + 1 ELSE b
  BY <1>7 DEF InTurn
<1> HIDE DEF k, p, q, h, used
<1>9. CASE q # s
  <2>1. \A i \in 0..k - 1 :
           uses'[udpServers[i + 1]] =
              IF (s <= i /\ i < q) \/ (q < s /\ (s <= i \/ i < q)) THEN b + 1 ELSE b
    <3> SUFFICES ASSUME NEW i \in 0..k - 1
                 PROVE  uses'[udpServers[i + 1]] =
                           IF (s <= i /\ i < q) \/ (q < s /\ (s <= i \/ i < q))
                           THEN b + 1 ELSE b
      OBVIOUS
    <3>1. used(i) = IF (s <= i /\ i < p) \/ (p < s /\ (s <= i \/ i < p)) THEN b + 1 ELSE b
      BY <1>8
    <3>2. uses'[udpServers[i + 1]] = IF i = p THEN used(i) + 1 ELSE used(i)
      BY <1>6
    <3>3. CASE i = p
      <4>1. /\ ~((s <= i /\ i < p) \/ (p < s /\ (s <= i \/ i < p)))
            /\ (s <= i /\ i < q) \/ (q < s /\ (s <= i \/ i < q))
        BY <1>2, <1>3, <1>9, <3>3
      <4>2. QED
        BY <3>1, <3>2, <3>3, <4>1
    <3>4. CASE i # p
      <4>1. ((s <= i /\ i < p) \/ (p < s /\ (s <= i \/ i < p)))
            <=> ((s <= i /\ i < q) \/ (q < s /\ (s <= i \/ i < q)))
        BY <1>2, <1>3, <1>9, <3>4
      <4>2. QED
        BY <3>1, <3>2, <3>4, <4>1
    <3>5. QED
      BY <3>3, <3>4
  <2>2. InTurn(b, s)'
    BY <1>1, <2>1 DEF InTurn, k, q
  <2>3. QED
    BY <1>1, <1>5, <2>2 DEF TurnInv, k
<1>10. CASE q = s
  <2>1. \A i \in 0..k - 1 : uses'[udpServers[i + 1]] = b + 1
    <3> SUFFICES ASSUME NEW i \in 0..k - 1 PROVE uses'[udpServers[i + 1]] = b + 1
      OBVIOUS
    <3>1. used(i) = IF (s <= i /\ i < p) \/ (p < s /\ (s <= i \/ i < p)) THEN b + 1 ELSE b
      BY <1>8
    <3>2. uses'[udpServers[i + 1]] = IF i = p THEN used(i) + 1 ELSE used(i)
      BY <1>6
    <3>3. (s <= i /\ i < p) \/ (p < s /\ (s <= i \/ i < p)) <=> i # p
      BY <1>2, <1>3, <1>10
    <3>4. QED
      BY <3>1, <3>2, <3>3
  <2>2. \A i \in 0..k - 1 : ~((s <= i /\ i < q) \/ (q < s /\ (s <= i \/ i < q)))
    BY <1>2, <1>10
  <2>3. InTurn(b + 1, s)'
    BY <1>1, <2>1, <2>2 DEF InTurn, k, q
  <2>4. QED
    BY <1>1, <1>5, <2>3 DEF TurnInv, k
<1>11. QED
  BY <1>9, <1>10

LEMMA NextTurn == IInv /\ [Next]_vars => TurnInv'
<1> SUFFICES ASSUME IInv, [Next]_vars PROVE TurnInv'
  OBVIOUS
<1>0. TypeOK /\ TurnInv
  BY DEF IInv
<1>1. TypeOK'
  BY NextTypeOK
<1>2. ASSUME UNCHANGED <<udpServers, udpIndex, uses>>, nextMsg' >= nextMsg
      PROVE  TurnInv'
  <2>1. \A h \in Handle : uses'[h] < nextMsg'
    BY <1>0, <1>1, <1>2, ServersAssumption DEF TypeOK, TurnInv
  <2>2. \A b, s : InTurn(b, s)' <=> InTurn(b, s)
    BY <1>2 DEF InTurn
  <2>3. QED
    BY <1>0, <1>2, <2>1, <2>2 DEF TurnInv
<1>3. nextMsg \in Nat /\ nextMsg' \in Nat
  BY <1>0, <1>1, ServersAssumption DEF TypeOK
<1>4. ASSUME NEW n \in Node, BindNew(n) \/ BindNotify(n) \/ Unbind(n) PROVE TurnInv'
  <2>1. UNCHANGED <<udpIndex, nextMsg>>
    BY <1>4 DEF BindNew, BindNotify, Unbind, messages
  <2>2. UNCHANGED <<udpServers, uses>> \/ uses' = [h \in Handle |-> 0]
    BY <1>4 DEF BindNew, BindNotify, Unbind, Insert, Erase
  <2>3. QED
    BY <1>1, <1>2, <1>3, <2>1, <2>2, TurnsAnew
<1>5. CASE SendUdp
  BY <1>5, TurnPasses
<1>6. CASE IgnoreUdp \/ SendBad
  BY <1>2, <1>3, <1>6 DEF IgnoreUdp, SendBad, ports
<1>7. CASE Exit
  <2>1. udpServers' = <<>> /\ uses' = uses /\ nextMsg' >= nextMsg
    BY <1>3, <1>7 DEF Exit
  <2>2. \A h \in Handle : uses'[h] < nextMsg'
    BY <1>0, <1>1, <2>1, ServersAssumption DEF TypeOK, TurnInv
  <2>3. QED
    BY <2>1, <2>2 DEF TurnInv
<1>8. CASE Callback \/ UNCHANGED vars
  <2>1. UNCHANGED <<udpServers, udpIndex, uses, nextMsg>>
    BY <1>8 DEF Callback, OnUdpSendDone, OnClosed, vars, ports, messages
  <2>2. QED
    BY <1>2, <1>3, <2>1
<1>9. QED
  BY <1>4, <1>5, <1>6, <1>7, <1>8 DEF Next, Stopped

-----------------------------------------------------------------------------
(* The theorems.                                                           *)

\* Everything below follows from one invariant of the loop thread's servers.
THEOREM Invariance == Spec => []IInv
<1>1. IInv /\ [Next]_vars => IInv'
  BY NextTypeOK, NextPorts, NextMessages, NextTurn DEF IInv
<1>2. QED
  BY InitIInv, <1>1, PTL DEF Spec

\* Every variable has its type; m_udpIndex never passes the number of ports.
THEOREM TypeCorrect == Spec => []TypeOK
BY Invariance, PTL DEF IInv

\* An entry of m_tcpServers or m_udpServers never outlives its handle, no open
\* handle is without its entry, and no object is deleted under a request.
THEOREM NoHandleIsLost == Spec => []ServersAreOpenHandles
<1>1. IInv => ServersAreOpenHandles
  <2> SUFFICES ASSUME IInv PROVE ServersAreOpenHandles
    OBVIOUS
  <2>0. TypeOK /\ PortsInv /\ MessagesInv
    BY DEF IInv
  <2>1. \A n \in Node \ BadNode : ServerOf(n) # NoHandle =>
           life[ServerOf(n)] = "open" /\ node[ServerOf(n)] = n
    BY <2>0, ServerOfServes DEF Serves
  <2>2. ASSUME NEW h \in Handle, life[h] = "open" PROVE ServerOf(node[h]) = h
    <3>1. node[h] \in Node \ BadNode
      BY <2>0, <2>2, ServersAssumption DEF PortsInv, Node
    <3>2. Serves(h, node[h])
      BY <2>2 DEF Serves
    <3>3. ServerOf(node[h]) \in Handle /\ Serves(ServerOf(node[h]), node[h])
      BY <2>0, <3>1, <3>2, ServerOfServes
    <3>4. QED
      BY <2>0, <2>2, <3>3 DEF PortsInv, Serves
  <2>3. \A i, j \in DOMAIN udpServers : i # j => node[udpServers[i]] # node[udpServers[j]]
    <3>1. \A i \in DOMAIN udpServers :
             udpServers[i] \in Handle /\ udpServers[i] \in ToSet(udpServers)
      BY <2>0 DEF TypeOK, ToSet
    <3>2. QED
      BY <2>0, <3>1 DEF PortsInv, NoRepeats
  <2>4. \A h \in Free : inFlight[h] = <<>>
    BY <2>0 DEF MessagesInv
  <2>5. QED
    BY <2>1, <2>2, <2>3, <2>4 DEF ServersAreOpenHandles
<1>2. QED
  BY Invariance, <1>1, PTL

\* What the application was last told of a port is so.
THEOREM StatusIsTrue == Spec => []BindStatusIsTrue
<1>1. IInv => BindStatusIsTrue
  <2> SUFFICES ASSUME IInv, NEW n \in Node
               PROVE  status[n] <=> n \notin BadNode /\ ServerOf(n) # NoHandle
    BY DEF BindStatusIsTrue
  <2>0. TypeOK /\ PortsInv /\ StatusInv
    BY DEF IInv
  <2>1. CASE n \in BadNode
    BY <2>0, <2>1, ServersAssumption DEF StatusInv, PortsInv, Serves
  <2>2. CASE n \notin BadNode
    BY <2>0, <2>2, ServerOfServes, ServersAssumption DEF StatusInv
  <2>3. QED
    BY <2>1, <2>2
<1>2. QED
  BY Invariance, <1>1, PTL

\* The sends of UDP messages take turns over the bound ports.
THEOREM TurnsAreFair == Spec => []RoundRobin
<1>1. IInv => RoundRobin
  <2> SUFFICES ASSUME IInv, NEW h \in ToSet(udpServers), NEW g \in ToSet(udpServers)
               PROVE  uses[h] <= uses[g] + 1
    BY DEF RoundRobin
  <2>0. TypeOK /\ TurnInv
    BY DEF IInv
  <2>1. udpServers \in Seq(Handle) /\ udpServers # <<>>
    BY <2>0, ToSetEmpty DEF TypeOK
  <2> DEFINE k == Len(udpServers)
  <2>2. k \in Nat /\ DOMAIN udpServers = 1..k
    BY <2>1
  <2>3. PICK b \in Nat, s \in 0..k - 1 : InTurn(b, s)
    BY <2>0, <2>1 DEF TurnInv
  <2>4. \A i \in 0..k - 1 : uses[udpServers[i + 1]] \in {b, b + 1}
    BY <2>3 DEF InTurn
  <2>5. ASSUME NEW e \in ToSet(udpServers) PROVE uses[e] \in {b, b + 1}
    <3>1. PICK i \in 1..k : e = udpServers[i]
      BY <2>2 DEF ToSet
    <3>2. i - 1 \in 0..k - 1 /\ (i - 1) + 1 = i
      BY <2>2, <3>1
    <3>3. QED
      BY <2>4, <3>1, <3>2
  <2>6. QED
    BY <2>3, <2>5
<1>2. QED
  BY Invariance, <1>1, PTL

\* No UDP message is lost, settled twice, or settled while libuv still has it.
THEOREM MessagesAccounted == Spec => []UdpAccounted
<1>1. IInv => UdpAccounted
  <2> SUFFICES ASSUME IInv PROVE UdpAccounted
    OBVIOUS
  <2>0. TypeOK /\ MessagesInv
    BY DEF IInv
  <2> DEFINE flying(m) == {h \in Handle : m \in ToSet(inFlight[h])}
             fates(m) == {f \in {"ignored", "done", "failed", "dropped", "rejected"} :
                            \/ f = "ignored" /\ m \in ignored
                            \/ f = "done" /\ m \in done
                            \/ f = "failed" /\ m \in failed
                            \/ f = "dropped" /\ m \in dropped
                            \/ f = "rejected" /\ m \in rejected}
             one(m) == Cardinality(flying(m)) + Cardinality(fates(m))
  <2>1. ASSUME NEW m \in 1..MaxMsg PROVE one(m) = IF m < nextMsg THEN 1 ELSE 0
    <3>1. CASE m \in ignored \cup done \cup failed \cup dropped \cup rejected
      <4>1. m < nextMsg /\ flying(m) = {}
        BY <2>0, <3>1 DEF MessagesInv
      <4>2. \E f : fates(m) = {f}
        <5>1. CASE m \in ignored
          <6>1. fates(m) = {"ignored"}
            BY <2>0, <5>1 DEF MessagesInv
          <6>2. QED
            BY <6>1
        <5>2. CASE m \in done
          <6>1. fates(m) = {"done"}
            BY <2>0, <5>2 DEF MessagesInv
          <6>2. QED
            BY <6>1
        <5>3. CASE m \in failed
          <6>1. fates(m) = {"failed"}
            BY <2>0, <5>3 DEF MessagesInv
          <6>2. QED
            BY <6>1
        <5>4. CASE m \in dropped
          <6>1. fates(m) = {"dropped"}
            BY <2>0, <5>4 DEF MessagesInv
          <6>2. QED
            BY <6>1
        <5>5. CASE m \in rejected
          <6>1. fates(m) = {"rejected"}
            BY <2>0, <5>5 DEF MessagesInv
          <6>2. QED
            BY <6>1
        <5>6. QED
          BY <3>1, <5>1, <5>2, <5>3, <5>4, <5>5
      <4>3. Cardinality(flying(m)) = 0 /\ Cardinality(fates(m)) = 1
        BY <4>1, <4>2, FS_EmptySet, FS_Singleton
      <4>4. QED
        BY <4>1, <4>3
    <3>2. CASE m \notin ignored \cup done \cup failed \cup dropped \cup rejected
      <4>1. fates(m) = {} /\ (m < nextMsg <=> flying(m) # {})
        BY <2>0, <3>2 DEF MessagesInv
      <4>2. \A h, g \in flying(m) : h = g
        BY <2>0 DEF MessagesInv
      <4>3. flying(m) = {} \/ \E h : flying(m) = {h}
        BY <4>2
      <4>4. Cardinality(flying(m)) = IF m < nextMsg THEN 1 ELSE 0
        BY <4>1, <4>3, FS_EmptySet, FS_Singleton
      <4>5. Cardinality(fates(m)) = 0
        BY <4>1, FS_EmptySet
      <4>6. QED
        BY <4>4, <4>5
    <3>3. QED
      BY <3>1, <3>2
  <2>2. QED
    BY <2>1 DEF UdpAccounted
<1>2. QED
  BY Invariance, <1>1, PTL
=============================================================================
