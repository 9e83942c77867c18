------------------------------ MODULE TcpService ------------------------------
(***************************************************************************)
(* What the pool promises its application over TCP, in the terms of        *)
(* CnetworkPoolCallback (src/network_callback.h): connectionStatus and drop*)
(* and the messages that go out.  Connections, requests, timers and tables *)
(* do not appear.  Module TcpEngine implements it.                         *)
(***************************************************************************)
EXTENDS Naturals

CONSTANTS Node,    \* remote TCP addresses
          MaxMsg   \* bound: messages taken from the application

VARIABLES
    up,       \* what the application was last told of each node
    taken,    \* messages taken so far; they are numbered
    pending,  \* the messages of each node that are not answered
    sent,     \* messages that were written
    dropped,  \* messages that were reported dropped
    stopped   \* the pool has exited

vars == <<up, taken, pending, sent, dropped, stopped>>

Init ==
    /\ up = [n \in Node |-> FALSE]
    /\ taken = 0
    /\ pending = [n \in Node |-> {}]
    /\ sent = {}
    /\ dropped = {}
    /\ stopped = FALSE

\* Of the messages in `asked`, which are those of n, some are answered and the
\* others are still pending: a message has one answer, and it is its node's.
Answer(n, asked) ==
    LET answered == (sent' \ sent) \cup (dropped' \ dropped) IN
    /\ sent \subseteq sent' /\ dropped \subseteq dropped'
    /\ sent' \cap dropped' = {}
    /\ answered \subseteq asked
    /\ pending' = [pending EXCEPT ![n] = asked \ answered]

\* A message for n is taken.  It may be dropped at once, with others of n if the
\* connection goes down over it.
Take(n) ==
    /\ ~stopped /\ taken < MaxMsg
    /\ taken' = taken + 1
    /\ up' \in {up, [up EXCEPT ![n] = FALSE]}
    /\ sent' = sent
    /\ Answer(n, pending[n] \cup {taken'})
    /\ UNCHANGED stopped

\* n has connected, and can take messages.
Connect(n) ==
    /\ ~stopped /\ ~up[n]
    /\ up' = [up EXCEPT ![n] = TRUE]
    /\ sent' = sent
    /\ Answer(n, pending[n])
    /\ UNCHANGED <<taken, stopped>>

\* Messages of n are written, or fail, and its connection may go down with it.
Progress(n) ==
    /\ UNCHANGED <<taken, stopped>>
    /\ up' \in {up, [up EXCEPT ![n] = FALSE]}
    /\ Answer(n, pending[n])

\* The pool exits.  What it has not yet handed to the system is dropped.
Stop ==
    /\ ~stopped
    /\ stopped' = TRUE
    /\ up' = [n \in Node |-> FALSE]
    /\ dropped \subseteq dropped'
    /\ dropped' \subseteq dropped \cup UNION {pending[n] : n \in Node}
    /\ pending' = [n \in Node |-> pending[n] \ dropped']
    /\ UNCHANGED <<taken, sent>>

Next ==
    \/ \E n \in Node : Take(n) \/ Connect(n) \/ Progress(n)
    \/ Stop

Spec == Init /\ [][Next]_vars

=============================================================================
