------------------------- MODULE PoolRequestsProofs -------------------------
(***************************************************************************)
(* Proofs about PoolRequests, for every set of threads, number of calls    *)
(* and calls from callbacks: no wakeup is lost, neither of a request nor of*)
(* the destructor, and no request is lost, doubled or out of order.        *)
(***************************************************************************)
EXTENDS PoolRequests, SequenceLemmas, TLAPS

\* Where the owner stands determines m_bWantExit, and the loop has started
\* whenever the pool is in use; nothing is queued before.
OwnerInv ==
    /\ owner \in {"signalling", "joining"} => wantExit
    /\ loop \in {"init", "bad"} =>
          /\ owner \in {"constructing", "thrown"}
          /\ pending = NoRequests
          /\ ~wantExit

IInv == TypeOK /\ OwnerInv /\ NoLostWakeup /\ NoLostExit

\* Nothing is queued in empty queues.
LEMMA NoneQueued == Queued(NoRequests) = {}
BY DEF Queued, NoRequests, Kind, ToSet

\* What is queued is a function of the queues.
LEMMA QueuedSame ==
    ASSUME UNCHANGED pending
    PROVE  Queued(pending)' = Queued(pending)
BY DEF Queued

LEMMA InitIInv == Init => IInv
<1> SUFFICES ASSUME Init PROVE IInv
  OBVIOUS
<1>1. NoRequests \in [Kind -> Seq(Request)]
  BY DEF NoRequests
<1>2. TypeOK
  <2>1. pending \in [Kind -> Seq(Request)] /\ batch \in [Kind -> Seq(Request)]
    BY <1>1 DEF Init
  <2>2. calls \in [By -> Nat]
    BY DEF Init
  <2>3. answered \in Seq(Request)
    BY DEF Init
  <2>4. QED
    BY <2>1, <2>2, <2>3 DEF Init, TypeOK
<1>3. OwnerInv /\ NoLostWakeup /\ NoLostExit
  BY DEF Init, OwnerInv, NoLostWakeup, NoLostExit
<1>4. QED
  BY <1>2, <1>3 DEF IInv

\* Every step keeps the types.
LEMMA NextTypeOK == TypeOK /\ [Next]_vars => TypeOK'
<1> SUFFICES ASSUME TypeOK, [Next]_vars PROVE TypeOK'
  OBVIOUS
<1> USE DEF TypeOK
<1>1. NoRequests \in [Kind -> Seq(Request)]
  BY DEF NoRequests
<1>2. ASSUME NEW t \in Caller, NEW k \in Kind, Push(t, k) PROVE TypeOK'
  <2>1. t \in By
    BY DEF By
  <2>2. [kind |-> k, by |-> t, num |-> calls[t] + 1] \in Request
    BY <2>1 DEF Request
  <2>3. calls' \in [By -> Nat]
    BY <1>2, <2>1 DEF Push
  <2>4. pending' \in [Kind -> Seq(Request)]
    BY <1>2, <2>2 DEF Push
  <2>5. QED
    BY <1>2, <2>3, <2>4 DEF Push
<1>3. ASSUME NEW t \in Caller, Signal(t) PROVE TypeOK'
  BY <1>3 DEF Signal
<1>12. ASSUME NEW k \in Kind, Echo(k) PROVE TypeOK'
  <2>1. LoopThread \in By
    BY DEF By
  <2>2. [kind |-> k, by |-> LoopThread, num |-> calls[LoopThread] + 1] \in Request
    BY <2>1 DEF Request
  <2>3. calls' \in [By -> Nat]
    BY <1>12, <2>1 DEF Echo
  <2>4. pending' \in [Kind -> Seq(Request)]
    BY <1>12, <2>2 DEF Echo
  <2>5. QED
    BY <1>12, <2>3, <2>4 DEF Echo
<1>13. ASSUME NEW k \in Kind, LateCall(k) PROVE TypeOK'
  <2>1. LoopThread \in By
    BY DEF By
  <2>2. [kind |-> k, by |-> LoopThread, num |-> calls[LoopThread] + 1] \in Request
    BY <2>1 DEF Request
  <2>3. calls' \in [By -> Nat]
    BY <1>13, <2>1 DEF LateCall
  <2>4. pending' \in [Kind -> Seq(Request)]
    BY <1>13, <2>2 DEF LateCall
  <2>5. QED
    BY <1>13, <2>3, <2>4 DEF LateCall
<1>14. CASE HandlesClosed \/ OrphansEnd \/ EndLoop
  BY <1>14 DEF HandlesClosed, OrphansEnd, EndLoop, Leftover
<1>4. CASE Construct \/ WantExit \/ SignalExit \/ Join
  BY <1>4 DEF Construct, WantExit, SignalExit, Join
<1>5. CASE StartLoop \/ Wake \/ ReadExit \/ Return
  BY <1>5 DEF StartLoop, Wake, ReadExit, Return
<1>6. CASE Copy
  BY <1>1, <1>6 DEF Copy
<1>7. ASSUME NEW k \in Kind, Serve(k) PROVE TypeOK'
  <2>1. Head(batch[k]) \in Request /\ Tail(batch[k]) \in Seq(Request)
    BY <1>7 DEF Serve
  <2>2. QED
    BY <1>7, <2>1 DEF Serve
<1>8. CASE ExitLoop
  <2>1. answered' \in Seq(Request)
    BY <1>8 DEF ExitLoop, Kind
  <2>2. batch' \in [Kind -> Seq(Request)]
    BY <1>1, <1>8 DEF ExitLoop, Kind
  <2>3. QED
    BY <1>8, <2>1, <2>2 DEF ExitLoop, Leftover
<1>9. CASE UNCHANGED vars
  BY <1>9 DEF vars
<1>10. CASE Over
  BY <1>9, <1>10 DEF Over
<1>11. QED
  BY <1>2, <1>3, <1>4, <1>5, <1>6, <1>7, <1>8, <1>9, <1>10, <1>12,
     <1>13, <1>14 DEF Next, LoopStep

\* Every step keeps the invariant.
LEMMA NextIInv == IInv /\ [Next]_vars => IInv'
<1> SUFFICES ASSUME IInv, [Next]_vars PROVE IInv'
  OBVIOUS
<1>1. TypeOK'
  BY NextTypeOK DEF IInv
<1> USE DEF IInv, OwnerInv, NoLostWakeup, NoLostExit
<1>2. ASSUME NEW t \in Caller, NEW k \in Kind, Push(t, k) PROVE IInv'
  BY <1>1, <1>2 DEF Push
<1>3. ASSUME NEW t \in Caller, Signal(t) PROVE IInv'
  BY <1>1, <1>3 DEF Signal
<1>18. ASSUME NEW k \in Kind, Echo(k) PROVE IInv'
  BY <1>1, <1>18 DEF Echo
<1>19. ASSUME NEW k \in Kind, LateCall(k) PROVE IInv'
  BY <1>1, <1>19 DEF LateCall
<1>4. CASE Construct
  BY <1>1, <1>4, QueuedSame DEF Construct
<1>5. CASE WantExit
  BY <1>1, <1>5, QueuedSame DEF WantExit
<1>6. CASE SignalExit
  BY <1>1, <1>6, QueuedSame DEF SignalExit
<1>7. CASE Join
  BY <1>1, <1>7, QueuedSame DEF Join
<1>8. CASE StartLoop
  BY <1>1, <1>8, NoneQueued, QueuedSame DEF StartLoop
<1>9. CASE Wake
  BY <1>1, <1>9 DEF Wake
<1>10. CASE Copy
  <2>1. Queued(pending)' = {}
    BY <1>10, NoneQueued DEF Copy, Queued
  <2>2. QED
    BY <1>1, <1>10, <2>1 DEF Copy
<1>11. CASE ReadExit
  BY <1>1, <1>11, QueuedSame DEF ReadExit
<1>12. ASSUME NEW k \in Kind, Serve(k) PROVE IInv'
  BY <1>1, <1>12, QueuedSame DEF Serve
<1>13. CASE Return
  BY <1>1, <1>13, QueuedSame DEF Return
<1>14. CASE ExitLoop
  BY <1>1, <1>14 DEF ExitLoop
<1>20. CASE HandlesClosed \/ OrphansEnd \/ EndLoop
  BY <1>1, <1>20, QueuedSame DEF HandlesClosed, OrphansEnd, EndLoop
<1>15. CASE UNCHANGED vars
  BY <1>1, <1>15, QueuedSame DEF vars
<1>16. CASE Over
  BY <1>15, <1>16 DEF Over
<1>17. QED
  BY <1>2, <1>3, <1>4, <1>5, <1>6, <1>7, <1>8, <1>9, <1>10, <1>11, <1>12, <1>13,
     <1>14, <1>15, <1>16, <1>18, <1>19, <1>20 DEF Next, LoopStep

\* Type correctness of the request handoff.
THEOREM TypeCorrect == Spec => []TypeOK
<1>1. IInv => TypeOK
  BY DEF IInv
<1>2. QED
  BY <1>1, InitIInv, NextIInv, PTL DEF Spec

\* A request that is queued has a signal on its way.
THEOREM WakeupNeverLost == Spec => []NoLostWakeup
<1>1. IInv => NoLostWakeup
  BY DEF IInv
<1>2. QED
  BY <1>1, InitIInv, NextIInv, PTL DEF Spec

\* A destructor that waits has a signal on its way, or its flag is being read.
THEOREM ExitNeverLost == Spec => []NoLostExit
<1>1. IInv => NoLostExit
  BY DEF IInv
<1>2. QED
  BY <1>1, InitIInv, NextIInv, PTL DEF Spec

-----------------------------------------------------------------------------
(* Each request is in one place, and a thread's requests keep their order. *)

Requests == Queued(pending) \cup Queued(batch) \cup ToSet(answered)

\* A request is known by its caller and number, is nowhere twice, and there is
\* one for every call; the batch is empty whenever on_wakeup is not running.
OnceInv ==
    /\ \A k \in Kind : /\ IsInjective(pending[k]) /\ IsInjective(batch[k])
                       /\ \A r \in ToSet(pending[k]) \cup ToSet(batch[k]) : r.kind = k
    /\ IsInjective(answered)
    /\ Queued(pending) \cap Queued(batch) = {}
    /\ ToSet(answered) \cap (Queued(pending) \cup Queued(batch)) = {}
    /\ \A r, s \in Requests : r.by = s.by /\ r.num = s.num => r = s
    /\ \A r \in Requests : r.num \in 1..calls[r.by]
    /\ \A t \in By : \A i \in 1..calls[t] : \E r \in Requests : r.by = t /\ r.num = i
    /\ loop \in {"init", "bad", "poll", "woken"} => batch = NoRequests

\* A queue holds the requests of a thread in the order of its calls.
Ordered(q) ==
    \A i, j \in DOMAIN q : i < j /\ q[i].by = q[j].by => q[i].num < q[j].num

\* What was moved away, or answered, was called before what is still queued.
OrderInv ==
    /\ \A k \in Kind : Ordered(pending[k]) /\ Ordered(batch[k])
    /\ \A r \in Queued(batch) \cup ToSet(answered), s \in Queued(pending) :
          r.by = s.by => r.num < s.num
    /\ CallOrder

HandOver == OnceInv /\ OrderInv

LEMMA QueuedIsRequest ==
    ASSUME TypeOK
    PROVE  Requests \subseteq Request
BY DEF TypeOK, Requests, Queued, ToSet

\* A later call goes behind those before it.
LEMMA OrderedAppend ==
    ASSUME NEW q \in Seq(Request), Ordered(q), NEW r \in Request,
           \A s \in ToSet(q) : s.by = r.by => s.num < r.num
    PROVE  Ordered(Append(q, r))
<1>1. /\ DOMAIN q = 1..Len(q) /\ Len(q) \in Nat
      /\ DOMAIN Append(q, r) = 1..Len(q) + 1
      /\ \A i \in 1..Len(q) : Append(q, r)[i] = q[i]
      /\ Append(q, r)[Len(q) + 1] = r
  OBVIOUS
<1>2. \A i \in 1..Len(q) : q[i] \in ToSet(q)
  BY <1>1 DEF ToSet
<1> DEFINE p == Append(q, r)
<1>3. ASSUME NEW i \in DOMAIN p, NEW j \in DOMAIN p, i < j, p[i].by = p[j].by
      PROVE  p[i].num < p[j].num
  <2>1. i \in 1..Len(q) /\ p[i] = q[i]
    BY <1>1, <1>3
  <2>2. CASE j \in 1..Len(q)
    BY <1>1, <1>3, <2>1, <2>2 DEF Ordered
  <2>3. CASE j = Len(q) + 1
    BY <1>1, <1>2, <1>3, <2>1, <2>3
  <2>4. QED
    BY <1>1, <2>2, <2>3
<1> HIDE DEF p
<1>4. Ordered(p)
  BY <1>3 DEF Ordered
<1>5. QED
  BY <1>4 DEF p

\* The first of a queue was called before the rest of its thread's.
LEMMA OrderedTail ==
    ASSUME NEW q \in Seq(Request), q # <<>>, Ordered(q)
    PROVE  /\ Ordered(Tail(q))
           /\ \A s \in ToSet(Tail(q)) : s.by = Head(q).by => Head(q).num < s.num
<1>1. /\ DOMAIN q = 1..Len(q) /\ Len(q) \in Nat /\ Len(q) >= 1 /\ Head(q) = q[1]
      /\ DOMAIN Tail(q) = 1..Len(q) - 1
      /\ \A i \in 1..Len(q) - 1 : Tail(q)[i] = q[i + 1]
  OBVIOUS
<1> DEFINE t == Tail(q)
<1>2. DOMAIN t = 1..Len(q) - 1 /\ \A i \in 1..Len(q) - 1 : t[i] = q[i + 1]
  BY <1>1
<1> HIDE DEF t
<1>3. \A i \in 1..Len(q) - 1 : i + 1 \in 1..Len(q) /\ 1 < i + 1
  BY <1>1
<1>4. \A i \in 1..Len(q) - 1 : q[i + 1].by = q[1].by => q[1].num < q[i + 1].num
  BY <1>1, <1>3 DEF Ordered
<1>5. \A s \in ToSet(t) : \E i \in 1..Len(q) - 1 : s = q[i + 1]
  BY <1>2 DEF ToSet
<1>6. ASSUME NEW i \in DOMAIN t, NEW j \in DOMAIN t, i < j, t[i].by = t[j].by
      PROVE  t[i].num < t[j].num
  <2>1. i + 1 \in DOMAIN q /\ j + 1 \in DOMAIN q /\ i + 1 < j + 1
    BY <1>1, <1>2, <1>3, <1>6
  <2>2. QED
    BY <1>2, <1>6, <2>1 DEF Ordered
<1>7. Ordered(t)
  BY <1>6 DEF Ordered
<1>8. QED
  BY <1>1, <1>4, <1>5, <1>7 DEF t

LEMMA NothingHandedOver ==
    ASSUME NEW k \in Kind
    PROVE  /\ NoRequests[k] = <<>> /\ ToSet(NoRequests[k]) = {}
           /\ IsInjective(NoRequests[k]) /\ Ordered(NoRequests[k])
BY ToSetEmpty, DistinctEmpty DEF NoRequests, Ordered

LEMMA InitHandOver == Init => HandOver
<1> SUFFICES ASSUME Init PROVE HandOver
  OBVIOUS
<1>1. Queued(pending) = {} /\ Queued(batch) = {} /\ ToSet(answered) = {}
  BY NoneQueued, ToSetEmpty DEF Init
<1>2. Requests = {}
  BY <1>1 DEF Requests
<1>3. \A t \in By : calls[t] = 0
  BY DEF Init
<1>4. OnceInv
  BY <1>1, <1>2, <1>3, NothingHandedOver, DistinctEmpty DEF OnceInv, Init
<1>5. OrderInv
  BY <1>1, NothingHandedOver DEF OrderInv, CallOrder, Init
<1>6. QED
  BY <1>4, <1>5 DEF HandOver

\* bind, send or close, on whatever thread: the request is the thread's newest.
LEMMA CallHandsOver ==
    ASSUME TypeOK, HandOver, NEW t \in By, NEW k \in Kind,
           calls' = [calls EXCEPT ![t] = calls[t] + 1],
           NEW r \in Request, r.kind = k, r.by = t, r.num = calls[t] + 1,
           pending' = [pending EXCEPT ![k] = Append(pending[k], r)],
           UNCHANGED <<batch, answered>>, loop' = loop \/ loop' = "crashed"
    PROVE  HandOver'
<1> USE DEF HandOver
<1>1. pending \in [Kind -> Seq(Request)] /\ calls[t] \in Nat
  BY DEF TypeOK
<1>2. /\ Queued(pending') = Queued(pending) \cup {r}
      /\ ToSet(pending'[k]) = ToSet(pending[k]) \cup {r}
      /\ pending'[k] = Append(pending[k], r)
      /\ \A l \in Kind : l # k => pending'[l] = pending[l]
  <2>1. pending'[k] = Append(pending[k], r) /\ \A l \in Kind : l # k => pending'[l] = pending[l]
    BY <1>1
  <2>2. ToSet(pending'[k]) = ToSet(pending[k]) \cup {r}
    BY <1>1, <2>1, ToSetAppend
  <2>3. QED
    BY <2>1, <2>2 DEF Queued
<1>3. Queued(batch') = Queued(batch) /\ answered' = answered
  BY DEF Queued
<1>4. Requests' = Requests \cup {r}
  BY <1>2, <1>3 DEF Requests
<1>5. /\ \A u \in By : calls[u] \in Nat /\ calls'[u] = IF u = t THEN calls[t] + 1 ELSE calls[u]
      /\ \A s \in Requests : s.by \in By /\ s.num \in Nat
  BY QueuedIsRequest DEF TypeOK, Request
<1>6. \A s \in Requests : s.by = t => s.num < r.num /\ s.num \in 1..calls[t]
  BY <1>1, <1>5 DEF OnceInv
<1>7. r \notin Requests
  BY <1>1, <1>6
<1>8. r \notin Queued(pending) /\ r \notin Queued(batch) /\ r \notin ToSet(answered)
      /\ r \notin ToSet(pending[k])
  BY <1>7 DEF Requests, Queued
<1>9. IsInjective(pending'[k])
  BY <1>1, <1>2, <1>8, DistinctAppend DEF OnceInv
<1>10. \A s, u \in Requests' : s.by = u.by /\ s.num = u.num => s = u
  BY <1>1, <1>4, <1>5, <1>6 DEF OnceInv
<1>11. \A s \in Requests' : s.num \in 1..calls'[s.by]
  BY <1>1, <1>4, <1>5 DEF OnceInv
<1>12. ASSUME NEW u \in By, NEW i \in 1..calls'[u]
       PROVE  \E s \in Requests' : s.by = u /\ s.num = i
  <2>1. CASE u = t /\ i = calls[t] + 1
    BY <1>1, <1>4, <2>1
  <2>2. CASE ~(u = t /\ i = calls[t] + 1)
    <3>1. i \in 1..calls[u]
      BY <1>5, <1>12, <2>2
    <3>2. QED
      BY <1>4, <3>1 DEF OnceInv
  <2>3. QED
    BY <2>1, <2>2
<1>13. \A l \in Kind : /\ IsInjective(pending'[l]) /\ IsInjective(batch'[l])
                       /\ \A s \in ToSet(pending'[l]) \cup ToSet(batch'[l]) : s.kind = l
  <2> TAKE l \in Kind
  <2>1. CASE l = k
    BY <1>2, <1>9, <2>1 DEF OnceInv
  <2>2. CASE l # k
    BY <1>2, <2>2 DEF OnceInv
  <2>3. QED
    BY <2>1, <2>2
<1>14. /\ Queued(pending') \cap Queued(batch') = {}
       /\ ToSet(answered') \cap (Queued(pending') \cup Queued(batch')) = {}
  <2>1. /\ Queued(pending) \cap Queued(batch) = {}
        /\ ToSet(answered) \cap (Queued(pending) \cup Queued(batch)) = {}
    BY DEF OnceInv
  <2>2. QED
    BY <1>2, <1>3, <1>8, <2>1
<1>15. OnceInv'
  BY <1>3, <1>10, <1>11, <1>12, <1>13, <1>14 DEF OnceInv
<1>16. Ordered(pending'[k])
  <2>1. \A s \in ToSet(pending[k]) : s.by = r.by => s.num < r.num
    BY <1>1, <1>6 DEF Requests, Queued
  <2>2. QED
    BY <1>1, <1>2, <2>1, OrderedAppend DEF OrderInv
<1>17. /\ Queued(batch) \subseteq Requests /\ ToSet(answered) \subseteq Requests
  BY DEF Requests
<1>18. \A s \in Queued(batch) \cup ToSet(answered), u \in Queued(pending') :
          s.by = u.by => s.num < u.num
  BY <1>1, <1>2, <1>6, <1>17 DEF OrderInv
<1>19. CallOrder'
  <2>1. ASSUME NEW s \in ToSet(answered), NEW u \in Queued(pending') \cup Queued(batch),
               s.by = u.by, u.num < s.num
        PROVE  Rank(u.kind) > Rank(s.kind)
    <3>1. CASE u = r
      BY <1>1, <1>5, <1>6, <1>17, <2>1, <3>1
    <3>2. CASE u # r
      BY <1>2, <2>1, <3>2 DEF OrderInv, CallOrder
    <3>3. QED
      BY <3>1, <3>2
  <2>2. QED
    BY <1>3, <2>1 DEF CallOrder
<1>20. OrderInv'
  BY <1>2, <1>3, <1>16, <1>18, <1>19 DEF OrderInv
<1>21. QED
  BY <1>15, <1>20

\* The three queues become the batch, which was empty.
LEMMA CopyHandsOver ==
    ASSUME TypeOK, HandOver, Copy
    PROVE  HandOver'
<1> USE DEF HandOver
<1>1. /\ batch = NoRequests /\ batch' = pending /\ pending' = NoRequests
      /\ loop' = "copied" /\ UNCHANGED <<calls, answered>>
  BY DEF Copy, OnceInv
<1>2. /\ Queued(batch) = {} /\ Queued(pending') = {} /\ Queued(batch') = Queued(pending)
  BY <1>1, NoneQueued
<1>3. Requests' = Requests
  BY <1>1, <1>2 DEF Requests
<1>4. \A k \in Kind : /\ IsInjective(pending'[k]) /\ IsInjective(batch'[k])
                      /\ \A r \in ToSet(pending'[k]) \cup ToSet(batch'[k]) : r.kind = k
                      /\ Ordered(pending'[k]) /\ Ordered(batch'[k])
  BY <1>1, NothingHandedOver DEF OnceInv, OrderInv
<1>5. OnceInv'
  BY <1>1, <1>2, <1>3, <1>4 DEF OnceInv
<1>6. CallOrder'
  <2>1. \A r \in ToSet(answered), u \in Queued(pending) : r.by = u.by => ~(u.num < r.num)
    <3>1. \A r \in Requests : r.num \in Nat
      BY QueuedIsRequest DEF Request
    <3>2. ToSet(answered) \subseteq Requests /\ Queued(pending) \subseteq Requests
      BY DEF Requests
    <3>3. QED
      BY <3>1, <3>2 DEF OrderInv
  <2>2. QED
    BY <1>1, <1>2, <2>1 DEF CallOrder
<1>7. QED
  BY <1>2, <1>4, <1>5, <1>6 DEF OrderInv

\* One request of the batch is answered.
LEMMA ServeHandsOver ==
    ASSUME TypeOK, HandOver, NEW k \in Kind, Serve(k)
    PROVE  HandOver'
<1> DEFINE r == Head(batch[k])
           q == Tail(batch[k])
<1> USE DEF HandOver
<1>1. /\ loop = "serve" /\ batch[k] # <<>>
      /\ k # "bind" => batch["bind"] = <<>>
      /\ k = "close" => batch["send"] = <<>>
      /\ answered' = Append(answered, r) /\ batch' = [batch EXCEPT ![k] = q]
      /\ UNCHANGED <<pending, calls, loop>>
  BY DEF Serve
<1>2. batch[k] \in Seq(Request) /\ answered \in Seq(Request) /\ r \in Request
  BY <1>1 DEF TypeOK
<1>3. batch'[k] = q /\ \A l \in Kind : l # k => batch'[l] = batch[l]
  BY <1>1 DEF TypeOK
<1>4. /\ ToSet(batch[k]) = ToSet(q) \cup {r}
      /\ IsInjective(q) /\ r \notin ToSet(q)
  BY <1>1, <1>2, ToSetHeadTail, DistinctTail DEF OnceInv
<1>5. /\ Ordered(q) /\ \A s \in ToSet(q) : s.by = r.by => r.num < s.num
  BY <1>1, <1>2, OrderedTail DEF OrderInv
<1> HIDE DEF r, q
<1>6. /\ r \in Queued(batch) /\ r \notin ToSet(answered) /\ r \notin Queued(pending)
      /\ r.kind = k
  <2>1. r \in Queued(batch) /\ r.kind = k
    BY <1>4 DEF Queued, OnceInv
  <2>2. QED
    BY <2>1 DEF OnceInv
<1>7. ToSet(answered') = ToSet(answered) \cup {r} /\ IsInjective(answered')
  BY <1>1, <1>2, <1>6, ToSetAppend, DistinctAppend DEF OnceInv
<1>8. Queued(batch') \cup {r} = Queued(batch) /\ r \notin Queued(batch')
  <2>1. Queued(batch') \cup {r} = Queued(batch)
    BY <1>3, <1>4 DEF Queued
  <2>2. \A l \in Kind : r \notin ToSet(batch'[l])
    BY <1>3, <1>4, <1>6 DEF OnceInv
  <2>3. QED
    BY <2>1, <2>2 DEF Queued
<1>9. Queued(pending') = Queued(pending) /\ pending' = pending
  BY <1>1
<1>10. Requests' = Requests
  BY <1>7, <1>8, <1>9 DEF Requests
<1>11. \A l \in Kind : /\ IsInjective(pending'[l]) /\ IsInjective(batch'[l])
                       /\ \A s \in ToSet(pending'[l]) \cup ToSet(batch'[l]) : s.kind = l
                       /\ Ordered(pending'[l]) /\ Ordered(batch'[l])
  <2> TAKE l \in Kind
  <2>1. CASE l = k
    BY <1>3, <1>4, <1>5, <1>9, <2>1 DEF OnceInv, OrderInv
  <2>2. CASE l # k
    BY <1>3, <1>9, <2>2 DEF OnceInv, OrderInv
  <2>3. QED
    BY <2>1, <2>2
<1>12. /\ Queued(pending') \cap Queued(batch') = {}
       /\ ToSet(answered') \cap (Queued(pending') \cup Queued(batch')) = {}
  <2>1. /\ Queued(pending) \cap Queued(batch) = {}
        /\ ToSet(answered) \cap (Queued(pending) \cup Queued(batch)) = {}
    BY DEF OnceInv
  <2>2. QED
    BY <1>6, <1>7, <1>8, <1>9, <2>1
<1>13. OnceInv'
  <2>1. /\ \A s, u \in Requests : s.by = u.by /\ s.num = u.num => s = u
        /\ \A s \in Requests : s.num \in 1..calls[s.by]
        /\ \A t \in By : \A i \in 1..calls[t] : \E s \in Requests : s.by = t /\ s.num = i
    BY DEF OnceInv
  <2>2. calls' = calls /\ loop' \notin {"init", "bad", "poll", "woken"}
    BY <1>1
  <2>3. /\ \A s, u \in Requests' : s.by = u.by /\ s.num = u.num => s = u
        /\ \A s \in Requests' : s.num \in 1..calls'[s.by]
        /\ \A t \in By : \A i \in 1..calls'[t] : \E s \in Requests' : s.by = t /\ s.num = i
    BY <1>10, <2>1, <2>2
  <2>4. QED
    BY <1>7, <1>11, <1>12, <2>2, <2>3 DEF OnceInv
<1>14. \A s \in Queued(batch') \cup ToSet(answered'), u \in Queued(pending') :
          s.by = u.by => s.num < u.num
  BY <1>6, <1>7, <1>8, <1>9 DEF OrderInv
<1>15. \A u \in Requests : u.num \in Nat
  BY QueuedIsRequest DEF Request
<1>16. ASSUME NEW u \in Queued(batch'), u.by = r.by, u.num < r.num
       PROVE  Rank(u.kind) > Rank(k)
  <2>1. PICK l \in Kind : u \in ToSet(batch'[l])
    BY DEF Queued
  <2>2. u.kind = l
    BY <1>11, <2>1
  <2>3. l # k
    <3>1. u.num \in Nat /\ r.num \in Nat
      BY <1>6, <1>8, <1>15 DEF Requests
    <3>2. QED
      BY <1>3, <1>5, <1>16, <2>1, <3>1
  <2>4. batch[l] # <<>>
    BY <1>3, <2>1, <2>3, ToSetEmpty
  <2>5. QED
    BY <1>1, <2>2, <2>3, <2>4 DEF Kind, Rank
<1>17. ASSUME NEW u \in Queued(pending), u.by = r.by PROVE ~(u.num < r.num)
  <2>1. r.num < u.num
    BY <1>6, <1>17 DEF OrderInv
  <2>2. u.num \in Nat /\ r.num \in Nat
    BY <1>6, <1>15 DEF Requests
  <2>3. QED
    BY <2>1, <2>2
<1>18. CallOrder'
  <2>1. \A s \in ToSet(answered), u \in Queued(pending) \cup Queued(batch') :
           s.by = u.by /\ u.num < s.num => Rank(u.kind) > Rank(s.kind)
    BY <1>8 DEF OrderInv, CallOrder
  <2>2. \A u \in Queued(pending) \cup Queued(batch') :
           r.by = u.by /\ u.num < r.num => Rank(u.kind) > Rank(r.kind)
    BY <1>6, <1>16, <1>17
  <2>3. QED
    BY <1>7, <1>9, <2>1, <2>2 DEF CallOrder
<1>19. QED
  BY <1>11, <1>13, <1>14, <1>18 DEF OrderInv

\* The exit branch: the binds and sends of the batch are answered at once.
LEMMA ExitHandsOver ==
    ASSUME TypeOK, HandOver, ExitLoop
    PROVE  HandOver'
<1> DEFINE b == batch["bind"]
           s == batch["send"]
           c == batch["close"]
<1> USE DEF HandOver
<1>1. /\ answered' = (answered \o b) \o s
      /\ batch' = [NoRequests EXCEPT !["close"] = c]
      /\ loop' = "closing" /\ UNCHANGED <<pending, calls>>
  BY DEF ExitLoop
<1>2. b \in Seq(Request) /\ s \in Seq(Request) /\ c \in Seq(Request) /\ answered \in Seq(Request)
  BY DEF TypeOK, Kind
<1>3. batch'["close"] = c /\ batch'["bind"] = <<>> /\ batch'["send"] = <<>>
  BY <1>1 DEF NoRequests, Kind
<1>4. /\ IsInjective(b) /\ IsInjective(s) /\ IsInjective(c) /\ Ordered(c)
      /\ \A r \in ToSet(b) : r.kind = "bind"
      /\ \A r \in ToSet(s) : r.kind = "send"
      /\ \A r \in ToSet(c) : r.kind = "close"
  BY DEF OnceInv, OrderInv, Kind
<1>5. Queued(batch) = ToSet(b) \cup ToSet(s) \cup ToSet(c)
  BY DEF Queued, Kind
<1> HIDE DEF b, s, c
<1>6. Queued(batch') = ToSet(c)
  BY <1>3, ToSetEmpty DEF Queued, Kind
<1>7. /\ ToSet(b) \cap ToSet(s) = {} /\ ToSet(c) \cap (ToSet(b) \cup ToSet(s)) = {}
      /\ ToSet(answered) \cap (ToSet(b) \cup ToSet(s) \cup ToSet(c) \cup Queued(pending)) = {}
      /\ Queued(pending) \cap (ToSet(b) \cup ToSet(s) \cup ToSet(c)) = {}
  <2>1. /\ ToSet(b) \cap ToSet(s) = {} /\ ToSet(c) \cap (ToSet(b) \cup ToSet(s)) = {}
    BY <1>4
  <2>2. /\ ToSet(answered) \cap (Queued(pending) \cup Queued(batch)) = {}
        /\ Queued(pending) \cap Queued(batch) = {}
    BY DEF OnceInv
  <2>3. QED
    BY <1>5, <2>1, <2>2
<1>8. /\ ToSet(answered') = ToSet(answered) \cup ToSet(b) \cup ToSet(s)
      /\ IsInjective(answered')
  <2> DEFINE q == answered \o b
  <2>1. q \in Seq(Request) /\ ToSet(q) = ToSet(answered) \cup ToSet(b)
    BY <1>2, ToSetConcat
  <2>2. IsInjective(q)
    <3>1. IsInjective(answered) /\ ToSet(answered) \cap ToSet(b) = {}
      BY <1>7 DEF OnceInv
    <3>2. QED
      BY <1>2, <1>4, <3>1, DistinctConcat
  <2>3. answered' = q \o s
    BY <1>1
  <2> HIDE DEF q
  <2>4. ToSet(q \o s) = ToSet(q) \cup ToSet(s)
    BY <1>2, <2>1, ToSetConcat
  <2>5. IsInjective(q \o s)
    <3>1. ToSet(q) \cap ToSet(s) = {}
      BY <1>7, <2>1
    <3>2. QED
      BY <1>2, <1>4, <2>1, <2>2, <3>1, DistinctConcat
  <2>6. QED
    BY <2>1, <2>3, <2>4, <2>5
<1>9. Queued(pending') = Queued(pending) /\ pending' = pending
  BY <1>1
<1>10. Requests' = Requests
  BY <1>5, <1>6, <1>8, <1>9 DEF Requests
<1>11. \A l \in Kind : /\ IsInjective(pending'[l]) /\ IsInjective(batch'[l])
                       /\ \A r \in ToSet(pending'[l]) \cup ToSet(batch'[l]) : r.kind = l
                       /\ Ordered(pending'[l]) /\ Ordered(batch'[l])
  <2>1. IsInjective(<<>>) /\ ToSet(<<>>) = {} /\ Ordered(<<>>)
    BY DistinctEmpty, ToSetEmpty DEF Ordered
  <2>2. QED
    BY <1>3, <1>4, <1>9, <2>1 DEF OnceInv, OrderInv, Kind
<1>12. /\ Queued(pending') \cap Queued(batch') = {}
       /\ ToSet(answered') \cap (Queued(pending') \cup Queued(batch')) = {}
  BY <1>6, <1>7, <1>8, <1>9
<1>13. OnceInv'
  BY <1>1, <1>8, <1>10, <1>11, <1>12, ZenonT(60) DEF OnceInv
<1>14. \A r \in Queued(batch') \cup ToSet(answered'), u \in Queued(pending') :
          r.by = u.by => r.num < u.num
  BY <1>5, <1>6, <1>8, <1>9 DEF OrderInv
<1>15. \A u \in Requests : u.num \in Nat
  BY QueuedIsRequest DEF Request
<1>16. CallOrder'
  <2>1. \A r \in ToSet(answered), u \in Queued(pending) \cup ToSet(c) :
           r.by = u.by /\ u.num < r.num => Rank(u.kind) > Rank(r.kind)
    BY <1>5 DEF OrderInv, CallOrder
  <2>2. \A r \in ToSet(b) \cup ToSet(s), u \in ToSet(c) : Rank(u.kind) > Rank(r.kind)
    BY <1>4 DEF Rank
  <2>3. ASSUME NEW r \in ToSet(b) \cup ToSet(s), NEW u \in Queued(pending), r.by = u.by
        PROVE  ~(u.num < r.num)
    <3>1. r.num < u.num
      BY <1>5, <2>3 DEF OrderInv
    <3>2. u.num \in Nat /\ r.num \in Nat
      BY <1>5, <1>15 DEF Requests
    <3>3. QED
      BY <3>1, <3>2
  <2>4. QED
    BY <1>6, <1>8, <1>9, <2>1, <2>2, <2>3 DEF CallOrder
<1>17. QED
  BY <1>11, <1>13, <1>14, <1>16 DEF OrderInv

LEMMA NextHandOver == TypeOK /\ HandOver /\ [Next]_vars => HandOver'
<1> SUFFICES ASSUME TypeOK, HandOver, [Next]_vars PROVE HandOver'
  OBVIOUS
<1>1. ASSUME NEW t \in By, NEW k \in Kind,
             calls' = [calls EXCEPT ![t] = @ + 1],
             pending' = [pending EXCEPT ![k] =
                             Append(@, [kind |-> k, by |-> t, num |-> calls[t] + 1])],
             UNCHANGED <<batch, answered>>, loop' = loop \/ loop' = "crashed"
      PROVE  HandOver'
  <2> DEFINE r == [kind |-> k, by |-> t, num |-> calls[t] + 1]
  <2>1. r \in Request /\ r.kind = k /\ r.by = t /\ r.num = calls[t] + 1
    BY DEF Request, TypeOK
  <2>2. pending' = [pending EXCEPT ![k] = Append(pending[k], r)]
    BY <1>1
  <2> HIDE DEF r
  <2>3. QED
    BY <1>1, <2>1, <2>2, CallHandsOver
<1>2. ASSUME NEW t \in Caller, NEW k \in Kind, Push(t, k) PROVE HandOver'
  BY <1>1, <1>2 DEF Push, By
<1>3. ASSUME NEW k \in Kind, Echo(k) PROVE HandOver'
  BY <1>1, <1>3 DEF Echo, By
<1>14. ASSUME NEW k \in Kind, LateCall(k) PROVE HandOver'
  BY <1>1, <1>14 DEF LateCall, By
<1>4. CASE Copy
  BY <1>4, CopyHandsOver
<1>5. ASSUME NEW k \in Kind, Serve(k) PROVE HandOver'
  BY <1>5, ServeHandsOver
<1>6. CASE ExitLoop
  BY <1>6, ExitHandsOver
<1>7. ASSUME UNCHANGED <<pending, batch, answered, calls>>,
             loop' \in {"init", "bad", "poll", "woken"} => batch = NoRequests
      PROVE  HandOver'
  BY <1>7 DEF HandOver, OnceInv, OrderInv, CallOrder, Requests, Queued
<1>8. loop \in {"init", "bad", "poll", "woken"} => batch = NoRequests
  BY DEF HandOver, OnceInv
<1>9. ASSUME NEW t \in Caller, Signal(t) PROVE HandOver'
  BY <1>7, <1>8, <1>9 DEF Signal
<1>10. CASE Construct \/ WantExit \/ SignalExit \/ Join
  BY <1>7, <1>8, <1>10 DEF Construct, WantExit, SignalExit, Join
<1>11. CASE StartLoop \/ Wake \/ ReadExit \/ Return
  BY <1>7, <1>8, <1>11 DEF StartLoop, Wake, ReadExit, Return
<1>15. CASE HandlesClosed \/ OrphansEnd \/ EndLoop
  BY <1>7, <1>8, <1>15 DEF HandlesClosed, OrphansEnd, EndLoop
<1>12. CASE Over \/ UNCHANGED vars
  BY <1>7, <1>8, <1>12 DEF Over, vars
<1>13. QED
  BY <1>2, <1>3, <1>4, <1>5, <1>6, <1>9, <1>10, <1>11, <1>12,
     <1>14, <1>15 DEF Next, LoopStep

LEMMA HandOverInvariance == Spec => [](TypeOK /\ HandOver)
BY InitIInv, NextTypeOK, InitHandOver, NextHandOver, PTL DEF Spec, IInv

\* on_wakeup's copy under m_lock neither loses a request nor takes it twice,
\* whichever threads push meanwhile and whatever it is called back for.
THEOREM NoRequestIsLost == Spec => []InOnePlace
<1>1. TypeOK /\ HandOver => InOnePlace
  <2> SUFFICES ASSUME TypeOK, HandOver, NEW t \in By, NEW i \in 1..MaxCalls[t]
               PROVE  LET Count(q) == Cardinality({j \in DOMAIN q : q[j].by = t /\ q[j].num = i})
                          All(q) == Count(q["bind"]) + Count(q["send"]) + Count(q["close"])
                      IN  All(pending) + All(batch) + Count(answered)
                            = IF i <= calls[t] THEN 1 ELSE 0
    BY DEF InOnePlace
  <2> DEFINE Count(q) == Cardinality({j \in DOMAIN q : q[j].by = t /\ q[j].num = i})
  <2> USE DEF HandOver
  <2>1. Queued(pending) = ToSet(pending["bind"]) \cup ToSet(pending["send"]) \cup ToSet(pending["close"])
        /\ Queued(batch) = ToSet(batch["bind"]) \cup ToSet(batch["send"]) \cup ToSet(batch["close"])
    BY DEF Queued, Kind
  <2>2. calls[t] \in Nat /\ i \in Nat /\ i >= 1
    BY CallsAssumption DEF TypeOK
  <2>3. ASSUME i <= calls[t]
        PROVE  \E r \in Requests : r.by = t /\ r.num = i
    BY <2>2, <2>3 DEF OnceInv
  <2>4. ASSUME NEW r \in Requests, r.by = t, r.num = i
        PROVE  i <= calls[t]
    BY <2>2, <2>4 DEF OnceInv
  <2>5. ASSUME NEW q, ToSet(q) \subseteq Requests, ~(i <= calls[t])
        PROVE  Count(q) = 0
    <3> DEFINE C == {j \in DOMAIN q : q[j].by = t /\ q[j].num = i}
    <3>1. C = {}
      BY <2>4, <2>5 DEF ToSet
    <3> HIDE DEF C
    <3>2. Cardinality(C) = 0
      BY <3>1, FS_EmptySet
    <3>3. QED
      BY <3>2 DEF C
  <2>6. ASSUME NEW r \in Requests, r.by = t, r.num = i,
               NEW q, ToSet(q) \subseteq Requests, IsInjective(q)
        PROVE  Count(q) = IF r \in ToSet(q) THEN 1 ELSE 0
    <3>1. \A j \in DOMAIN q : q[j].by = t /\ q[j].num = i <=> q[j] = r
      BY <2>6 DEF OnceInv, ToSet
    <3>2. {j \in DOMAIN q : q[j].by = t /\ q[j].num = i} = {j \in DOMAIN q : q[j] = r}
      BY <3>1
    <3>3. QED
      BY <2>6, <3>2, CountDistinct
  <2>7. /\ ToSet(answered) \subseteq Requests /\ IsInjective(answered)
        /\ \A k \in Kind : /\ ToSet(pending[k]) \subseteq Requests /\ IsInjective(pending[k])
                           /\ ToSet(batch[k]) \subseteq Requests /\ IsInjective(batch[k])
    BY DEF OnceInv, Requests, Queued
  <2> HIDE DEF Count
  <2>8. Count(pending["bind"]) + Count(pending["send"]) + Count(pending["close"])
          + (Count(batch["bind"]) + Count(batch["send"]) + Count(batch["close"]))
          + Count(answered) = IF i <= calls[t] THEN 1 ELSE 0
    <3>1. CASE ~(i <= calls[t])
      <4>1. /\ Count(answered) = 0
            /\ \A k \in Kind : Count(pending[k]) = 0 /\ Count(batch[k]) = 0
        BY <2>5, <2>7, <3>1
      <4>2. QED
        BY <3>1, <4>1 DEF Kind
    <3>2. CASE i <= calls[t]
      <4>1. PICK r \in Requests : r.by = t /\ r.num = i
        BY <2>3, <3>2
      <4>2. /\ Count(answered) = IF r \in ToSet(answered) THEN 1 ELSE 0
            /\ \A k \in Kind : /\ Count(pending[k]) = IF r \in ToSet(pending[k]) THEN 1 ELSE 0
                               /\ Count(batch[k]) = IF r \in ToSet(batch[k]) THEN 1 ELSE 0
        BY <2>6, <2>7, <4>1
      <4>3. \A k \in Kind : r \in ToSet(pending[k]) \cup ToSet(batch[k]) => r.kind = k
        BY DEF OnceInv
      <4>4. /\ r \in Queued(pending) \/ r \in Queued(batch) \/ r \in ToSet(answered)
            /\ ~(r \in Queued(pending) /\ r \in Queued(batch))
            /\ ~(r \in ToSet(answered) /\ r \in Queued(pending) \cup Queued(batch))
        BY <4>1 DEF Requests, OnceInv
      <4>5. QED
        BY <2>1, <3>2, <4>2, <4>3, <4>4 DEF Kind
    <3>3. QED
      BY <3>1, <3>2
  <2>9. QED
    BY <2>8 DEF Count
<1>2. QED
  BY <1>1, HandOverInvariance, PTL

\* The three loops of on_wakeup, and the three queues behind them, keep a close
\* behind the sends, and a send behind the binds, that its thread called earlier.
THEOREM CallsKeepOrder == Spec => []CallOrder
<1>1. HandOver => CallOrder
  BY DEF HandOver, OrderInv
<1>2. QED
  BY <1>1, HandOverInvariance, PTL
=============================================================================
