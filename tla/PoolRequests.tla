---------------------------- MODULE PoolRequests ----------------------------
(***************************************************************************)
(* How CnetworkPool hands requests from the application's threads to its   *)
(* loop thread (src/network_pool.h, on_wakeup in src/network_pool.cpp):    *)
(* bind, send and close push on a queue under m_lock and signal a uv_async *)
(* handle; on_wakeup moves the three queues away under m_lock, then reads  *)
(* m_bWantExit, then serves them; the destructor sets m_bWantExit, signals *)
(* and joins; uv_run returns, and the join with it, when the last handle   *)
(* is closed.  What serving a send or a close does, and how a connection   *)
(* ends, is TcpEngine's matter.                                            *)
(***************************************************************************)
EXTENDS Naturals, Sequences, FiniteSets, SequencesExt

CONSTANTS Caller,      \* threads of the application that call the pool
          LoopThread,  \* the pool's own thread, which may call it from a callback
          MaxCalls     \* bound: calls of each thread

By == Caller \cup {LoopThread}

ASSUME CallsAssumption == LoopThread \notin Caller /\ MaxCalls \in [By -> Nat]

VARIABLES
    pending,   \* m_pendingBind, m_pendingSend and m_pendingClose
    signaled,  \* the pending flag of the uv_async handle: signals coalesce
    wakeup,    \* m_wakeup: "unset" until the loop made it, "null" after exit
    wantExit,  \* m_bWantExit
    calling,   \* threads between releasing m_lock and uv_async_send
    calls,     \* calls made by each thread
    loop,      \* where the loop thread is
    batch,     \* bindCopy, sendCopy and closeCopy
    answered,  \* requests served, or dropped by the exit branch, in order
    left,      \* after the exit branch, what keeps uv_run from returning
    owner      \* where the thread that constructs and destroys the pool is

vars == <<pending, signaled, wakeup, wantExit, calling, calls, loop, batch, answered, left, owner>>

Kind == {"bind", "send", "close"}
Request == [kind : Kind, by : By, num : Nat]
NoRequests == [k \in Kind |-> <<>>]

\* "ending": handles that are closed, or in graceful close and sure to end.
\* "orphan": open connections in neither table, because the late event of an
\* older connection erased their entry; reads restart their idle timer.
Leftover == {"ending", "orphan"}

Queued(q) == UNION {ToSet(q[k]) : k \in Kind}

-----------------------------------------------------------------------------
(* The application's threads.                                              *)

\* bind, send or close: build the request and push it under m_lock.  The pool
\* is in use: constructed, and not yet being destroyed.
Push(t, k) ==
    /\ owner = "using"
    /\ t \notin calling
    /\ calls[t] < MaxCalls[t]
    /\ calls' = [calls EXCEPT ![t] = @ + 1]
    /\ pending' = [pending EXCEPT ![k] =
                       Append(@, [kind |-> k, by |-> t, num |-> calls[t] + 1])]
    /\ calling' = calling \cup {t}
    /\ UNCHANGED <<signaled, wakeup, wantExit, loop, batch, answered, owner, left>>

\* Mutant: the signal of the previous call is taken to be enough.
SignalOnce(t) ==
    /\ t \in calling
    /\ calling' = calling \ {t}
    /\ signaled' = (signaled \/ calls[t] = 1)
    /\ UNCHANGED <<pending, wakeup, wantExit, calls, loop, batch, answered, owner, left>>

\* uv_async_send(m_wakeup->getAsync()), and the call returns.
Signal(t) ==
    /\ t \in calling
    /\ calling' = calling \ {t}
    /\ signaled' = TRUE
    /\ UNCHANGED <<pending, wakeup, wantExit, calls, loop, batch, answered, owner, left>>

\* A callback calls bind, send or close: the same on the loop thread, in one step,
\* as it alone makes m_wakeup and resets it.  Callbacks come from libuv and while a
\* batch is served, never before a first request was; the destructor may be running.
Echo(k) ==
    /\ loop \in {"poll", "serve"}
    /\ answered # <<>>
    /\ calls[LoopThread] < MaxCalls[LoopThread]
    /\ calls' = [calls EXCEPT ![LoopThread] = @ + 1]
    /\ pending' = [pending EXCEPT ![k] =
                       Append(@, [kind |-> k, by |-> LoopThread, num |-> calls[LoopThread] + 1])]
    /\ signaled' = TRUE
    /\ UNCHANGED <<wakeup, wantExit, calling, loop, batch, answered, owner, left>>

\* The same after m_wakeup was reset: a callback of the exit branch, or of a handle
\* that is still open, pushes its request and signals through a null pointer.
LateCall(k) ==
    /\ loop = "closing"
    /\ answered # <<>>
    /\ calls[LoopThread] < MaxCalls[LoopThread]
    /\ calls' = [calls EXCEPT ![LoopThread] = @ + 1]
    /\ pending' = [pending EXCEPT ![k] =
                       Append(@, [kind |-> k, by |-> LoopThread, num |-> calls[LoopThread] + 1])]
    /\ loop' = "crashed"
    /\ owner' = "crashed"
    /\ UNCHANGED <<signaled, wakeup, wantExit, calling, batch, answered, left>>

\* The constructor stops spinning on m_state: the pool is usable or it throws.
Construct ==
    /\ owner = "constructing"
    /\ loop # "init"
    /\ owner' = IF loop = "bad" THEN "thrown" ELSE "using"
    /\ UNCHANGED <<pending, signaled, wakeup, wantExit, calling, calls, loop, batch, answered, left>>

\* The destructor, once no call is in progress: sets m_bWantExit.
WantExit ==
    /\ owner = "using"
    /\ calling = {}
    /\ wantExit' = TRUE
    /\ owner' = "signalling"
    /\ UNCHANGED <<pending, signaled, wakeup, calling, calls, loop, batch, answered, left>>

\* Mutant: the destructor joins without waking the loop thread.
JoinUnsignalled ==
    /\ owner = "signalling"
    /\ owner' = "joining"
    /\ UNCHANGED <<pending, signaled, wakeup, wantExit, calling, calls, loop, batch, answered, left>>

\* The destructor signals through m_wakeup, a null pointer if the loop thread
\* is already past Casync::close_set_nullptr.
SignalExit ==
    /\ owner = "signalling"
    /\ \/ wakeup = "open" /\ signaled' = TRUE /\ owner' = "joining"
       \/ wakeup = "null" /\ owner' = "crashed" /\ UNCHANGED signaled
    /\ UNCHANGED <<pending, wakeup, wantExit, calling, calls, loop, batch, answered, left>>

Join ==
    /\ owner = "joining"
    /\ loop = "done"
    /\ owner' = "destroyed"
    /\ UNCHANGED <<pending, signaled, wakeup, wantExit, calling, calls, loop, batch, answered, left>>

-----------------------------------------------------------------------------
(* The loop thread.                                                        *)

\* internalThread up to uv_run: m_wakeup is made before m_state is set.
StartLoop ==
    /\ loop = "init"
    /\ \/ loop' = "bad" /\ UNCHANGED wakeup
       \/ loop' = "poll" /\ wakeup' = "open"
    /\ UNCHANGED <<pending, signaled, wantExit, calling, calls, batch, answered, owner, left>>

\* libuv clears the flag, then calls on_wakeup.
Wake ==
    /\ loop = "poll"
    /\ signaled
    /\ signaled' = FALSE
    /\ loop' = "woken"
    /\ UNCHANGED <<pending, wakeup, wantExit, calling, calls, batch, answered, owner, left>>

\* Mutant: the sends are moved away but not cleared.
CopyTwice ==
    /\ loop = "woken"
    /\ batch' = pending
    /\ pending' = [NoRequests EXCEPT !["send"] = pending["send"]]
    /\ loop' = "copied"
    /\ UNCHANGED <<signaled, wakeup, wantExit, calling, calls, answered, owner, left>>

\* The three queues are moved away under m_lock.
Copy ==
    /\ loop = "woken"
    /\ batch' = pending
    /\ pending' = NoRequests
    /\ loop' = "copied"
    /\ UNCHANGED <<signaled, wakeup, wantExit, calling, calls, answered, owner, left>>

\* if (m_bWantExit), after m_lock was released.
ReadExit ==
    /\ loop = "copied"
    /\ loop' = IF wantExit THEN "exit" ELSE "serve"
    /\ UNCHANGED <<pending, signaled, wakeup, wantExit, calling, calls, batch, answered, owner, left>>

\* Mutant: the closes of a batch are served before its sends.
ServeCloseFirst(k) ==
    /\ loop = "serve"
    /\ batch[k] # <<>>
    /\ k = "bind" => batch["send"] = <<>>
    /\ k \in {"bind", "send"} => batch["close"] = <<>>
    /\ answered' = Append(answered, Head(batch[k]))
    /\ batch' = [batch EXCEPT ![k] = Tail(@)]
    /\ UNCHANGED <<pending, signaled, wakeup, wantExit, calling, calls, loop, owner, left>>

\* One iteration of the bind, send or close loop, which run in this order.
Serve(k) ==
    /\ loop = "serve"
    /\ batch[k] # <<>>
    /\ k # "bind" => batch["bind"] = <<>>
    /\ k = "close" => batch["send"] = <<>>
    /\ answered' = Append(answered, Head(batch[k]))
    /\ batch' = [batch EXCEPT ![k] = Tail(@)]
    /\ UNCHANGED <<pending, signaled, wakeup, wantExit, calling, calls, loop, owner, left>>

\* on_wakeup returns to the loop.
Return ==
    /\ loop = "serve"
    /\ batch = NoRequests
    /\ loop' = "poll"
    /\ UNCHANGED <<pending, signaled, wakeup, wantExit, calling, calls, batch, answered, owner, left>>

\* The exit branch: m_wakeup is nulled, the copied binds and sends are answered
\* with a failure, the copied closes are left unserved.  The handles in the tables
\* are closed; of the connections in none of them, an orphan stays as it is.
ExitLoop ==
    /\ loop = "exit"
    /\ wakeup' = "null"
    /\ answered' = answered \o batch["bind"] \o batch["send"]
    /\ batch' = [NoRequests EXCEPT !["close"] = batch["close"]]
    /\ loop' = "closing"
    /\ \/ left' = {"ending"}
       \/ left' = Leftover /\ \E r \in ToSet(answered) : r.kind # "close"
    /\ UNCHANGED <<pending, signaled, wantExit, calling, calls, owner>>

\* The close callbacks of everything that is ending have run.
HandlesClosed ==
    /\ loop = "closing"
    /\ "ending" \in left
    /\ left' = left \ {"ending"}
    /\ UNCHANGED <<pending, signaled, wakeup, wantExit, calling, calls, loop, batch, answered, owner>>

\* The orphans are closed: by their peer, by an error, or because nothing was read
\* for the idle timeout.  A peer that keeps sending need never let this happen.
OrphansEnd ==
    /\ loop = "closing"
    /\ "orphan" \in left
    /\ left' = {"ending"}
    /\ UNCHANGED <<pending, signaled, wakeup, wantExit, calling, calls, loop, batch, answered, owner>>

\* uv_run returns: no handle is left.
EndLoop ==
    /\ loop = "closing"
    /\ left = {}
    /\ loop' = "done"
    /\ UNCHANGED <<pending, signaled, wakeup, wantExit, calling, calls, batch, answered, left, owner>>

\* The program is over, or the pool was never made.
Over ==
    /\ owner \in {"destroyed", "crashed", "thrown"}
    /\ UNCHANGED vars

-----------------------------------------------------------------------------
Init ==
    /\ pending = NoRequests
    /\ signaled = FALSE
    /\ wakeup = "unset"
    /\ wantExit = FALSE
    /\ calling = {}
    /\ calls = [t \in By |-> 0]
    /\ loop = "init"
    /\ batch = NoRequests
    /\ answered = <<>>
    /\ left = {}
    /\ owner = "constructing"

LoopStep ==
    \/ StartLoop
    \/ Wake
    \/ Copy
    \/ ReadExit
    \/ \E k \in Kind : Serve(k)
    \/ Return
    \/ ExitLoop
    \/ HandlesClosed
    \/ EndLoop

Next ==
    \/ \E t \in Caller : (\E k \in Kind : Push(t, k)) \/ Signal(t)
    \/ \E k \in Kind : Echo(k) \/ LateCall(k)
    \/ Construct
    \/ WantExit
    \/ SignalExit
    \/ Join
    \/ LoopStep
    \/ OrphansEnd
    \/ Over

Spec == Init /\ [][Next]_vars

\* The loop thread keeps running, libuv closes what it was asked to close, a thread
\* inside a call and a destructor finish.  No thread and no callback has to call, the
\* owner may keep the pool forever, and so may a peer an orphaned connection.
Fairness ==
    /\ WF_vars(LoopStep)
    /\ WF_vars(Construct)
    /\ WF_vars(SignalExit)
    /\ WF_vars(Join)
    /\ \A t \in Caller : WF_vars(Signal(t))

FairSpec == Spec /\ Fairness

-----------------------------------------------------------------------------
(* Safety.                                                                 *)

\* Every variable has its type.
TypeOK ==
    /\ pending \in [Kind -> Seq(Request)]
    /\ signaled \in BOOLEAN
    /\ wakeup \in {"unset", "open", "null"}
    /\ wantExit \in BOOLEAN
    /\ calling \subseteq Caller
    /\ calls \in [By -> Nat]
    /\ loop \in {"init", "bad", "poll", "woken", "copied", "serve", "exit", "closing",
                 "done", "crashed"}
    /\ batch \in [Kind -> Seq(Request)]
    /\ answered \in Seq(Request)
    /\ left \subseteq Leftover
    /\ owner \in {"constructing", "thrown", "using", "signalling", "joining",
                  "destroyed", "crashed"}

\* No lost wakeup: a request that on_wakeup has not yet moved away has a signal
\* that libuv still has to deliver, or its caller is about to give one, whatever
\* signals were coalesced and however the push fell around the copy.
NoLostWakeup ==
    Queued(pending) # {} /\ loop \in {"poll", "copied", "serve"} =>
        signaled \/ calling # {}

\* Nor is the exit signal lost: once the destructor waits, the loop thread will
\* read m_bWantExit again, or has read it.
NoLostExit ==
    owner = "joining" => signaled \/ loop \in {"woken", "copied", "exit", "closing", "done"}

\* Every request is in one place: queued, in the batch, or answered, once.
InOnePlace ==
    \A t \in By : \A i \in 1..MaxCalls[t] :
        LET Count(q) == Cardinality({j \in DOMAIN q : q[j].by = t /\ q[j].num = i})
            All(q) == Count(q["bind"]) + Count(q["send"]) + Count(q["close"])
        IN  All(pending) + All(batch) + Count(answered)
              = IF i <= calls[t] THEN 1 ELSE 0

\* A thread's requests are served in the order of its calls, except that a send
\* may pass an earlier close and a bind an earlier send or close: the message of
\* a send is on its way before a close of a later call is served.
Rank(k) == CASE k = "bind" -> 1 [] k = "send" -> 2 [] k = "close" -> 3

CallOrder ==
    \A r \in ToSet(answered), s \in Queued(pending) \cup Queued(batch) :
        r.by = s.by /\ s.num < r.num => Rank(s.kind) > Rank(r.kind)

-----------------------------------------------------------------------------
(* A claim of the source that the code does not keep.                      *)

\* network_pool.h:149, "Following data must be accessed by internal thread", of
\* m_wakeup among others: the destructor never finds it nulled.
WakeupValid == owner = "signalling" => wakeup = "open"

-----------------------------------------------------------------------------
(* Liveness.                                                               *)

\* Every request is answered, unless the pool is destroyed first.
RequestsAnswered ==
    \A t \in By : \A i \in 1..MaxCalls[t] :
        calls[t] >= i ~> wantExit \/ \E j \in DOMAIN answered :
                                         answered[j].by = t /\ answered[j].num = i

\* The destructor returns, unless the peer of an orphaned connection keeps that
\* connection open forever: whatever signals coalesced, the exit branch is reached,
\* and uv_run outlives it by nothing else.  (A call through the nulled m_wakeup, the
\* destructor's or a late callback's, ends the program instead.)
DestructorReturns ==
    []<>("orphan" \notin left) => (wantExit ~> owner \in {"destroyed", "crashed"})
=============================================================================
