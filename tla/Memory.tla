------------------------------- MODULE Memory -------------------------------
(***************************************************************************)
(* Memory: the lists of free blocks that all threads share (__alloc and    *)
(* __free, src/fast_allocator.cpp), the counts of a CmemoryTrace           *)
(* (src/memory_trace.h) and the operations of Cbuffer (src/buffer.h) that  *)
(* obtain, pass on and return blocks.  The bytes of a buffer are left out. *)
(*                                                                         *)
(* A thread runs one operation of one buffer at a time, step by step; a    *)
(* buffer is used by one thread at a time, as its users see to.            *)
(***************************************************************************)
EXTENDS Integers, Sequences, FiniteSets, SequencesExt

CONSTANTS Thread,     \* threads
          Trace,      \* CmemoryTrace objects
          PoolTrace,  \* the one of the pool
          Buffer,     \* addresses of Cbuffer objects
          Block,      \* addresses malloc may return
          NoBlock,    \* nullptr
          NoBuffer,   \* no Cbuffer constructed, or none used
          Length,     \* lengths asked for
          Header,     \* sizeof(size_t)
          Limit       \* s_maxAllocatorStoreNumber, of each size; 0: not stored

ASSUME MemoryAssumption ==
    /\ PoolTrace \in Trace
    /\ IsFiniteSet(Block)
    /\ NoBlock \notin Block /\ NoBuffer \notin Buffer
    /\ Length \subseteq Nat /\ 0 \in Length
    /\ NoBuffer \notin [trace : Trace, data : Block \cup {NoBlock}, length : Length, max : Length]
    /\ Header \in Nat \ {0}
    /\ Limit \in [{n + Header : n \in Length \ {0}} -> Nat]

VARIABLES
    heap,     \* blocks that belong to malloc
    room,     \* the size malloc gave each block, 0 while it belongs to malloc
    word,     \* the first word of each block: its size, the next of a store, or
              \* NoBlock while it belongs to malloc
    head,     \* s_allocatorStore
    count,    \* s_allocatorStoreCount
    usage,    \* m_size of each trace
    objects,  \* m_count of each trace
    buffer,   \* the Cbuffer objects
    loose,    \* blocks given to libuv by transfer()
    call      \* what each thread is doing

store == <<head, count>>
trace == <<usage, objects>>
memory == <<heap, room, word>>
vars == <<memory, store, trace, buffer, loose, call>>

Size == DOMAIN Limit

EmptyBuffer(t) == [trace |-> t, data |-> NoBlock, length |-> 0, max |-> 0]

\* Where a thread is, with which blocks, and what the buffer is to become: `old` is to
\* be returned, `got` was obtained, of `want` bytes if it is to be obtained at all.
Idle == [at |-> "idle", buffer |-> NoBuffer, from |-> NoBuffer, trace |-> PoolTrace,
         old |-> NoBlock, got |-> NoBlock, want |-> 0]

Busy(b) == \E th \in Thread : b \in {call[th].buffer, call[th].from}
Exists(b) == buffer[b] # NoBuffer
Usable(b) == Exists(b) /\ ~Busy(b)

-----------------------------------------------------------------------------
(* The steps of __alloc and __free.                                         *)

Taken(th, block, next) == [call EXCEPT ![th].got = block, ![th].at = next]
Goes(th, next) == [call EXCEPT ![th].at = next]

\* __alloc under s_globalLock: the first stored block of the size.
Take(th) ==
    LET s == call[th].want + Header
        block == head[s] IN
    /\ call[th].at = "take"
    /\ IF Limit[s] = 0 \/ block = NoBlock
       THEN call' = Taken(th, NoBlock, "malloc") /\ UNCHANGED store
       ELSE /\ call' = Taken(th, block, "malloc")
            /\ head' = [head EXCEPT ![s] = word[block]]
            /\ count' = [count EXCEPT ![s] = @ - 1]
    /\ UNCHANGED <<memory, trace, buffer, loose>>

\* __alloc without a stored block: malloc.
Malloc(th) ==
    /\ call[th].at = "malloc"
    /\ IF call[th].got # NoBlock
       THEN call' = Taken(th, call[th].got, "enter") /\ UNCHANGED <<heap, room>>
       ELSE \E block \in heap :
               /\ call' = Taken(th, block, "enter")
               /\ heap' = heap \ {block}
               /\ room' = [room EXCEPT ![block] = call[th].want + Header]
    /\ UNCHANGED <<word, store, trace, buffer, loose>>

\* What follows __free: the block that takes the place of the old one, unless it was
\* obtained before.
Given(th) ==
    LET c == call[th] IN
    [call EXCEPT ![th].old = NoBlock,
                 ![th].at = IF c.want > 0 /\ c.got = NoBlock THEN "take" ELSE "finish"]

\* Mutant: one block too many is stored.
GiveOneMore(th) ==
    LET block == call[th].old
        s == word[block] IN
    /\ call[th].at = "give"
    /\ IF Limit[s] > 0 /\ count[s] <= Limit[s]
       THEN /\ word' = [word EXCEPT ![block] = head[s]]
            /\ head' = [head EXCEPT ![s] = block]
            /\ count' = [count EXCEPT ![s] = @ + 1]
            /\ UNCHANGED <<heap, room>>
       ELSE /\ heap' = heap \cup {block}
            /\ room' = [room EXCEPT ![block] = 0]
            /\ word' = [word EXCEPT ![block] = NoBlock]
            /\ UNCHANGED store
    /\ call' = Given(th)
    /\ UNCHANGED <<trace, buffer, loose>>

\* __free under s_globalLock: the block is stored, or goes back to malloc.
Give(th) ==
    LET block == call[th].old
        s == word[block] IN
    /\ call[th].at = "give"
    /\ IF Limit[s] > 0 /\ count[s] < Limit[s]
       THEN /\ word' = [word EXCEPT ![block] = head[s]]
            /\ head' = [head EXCEPT ![s] = block]
            /\ count' = [count EXCEPT ![s] = @ + 1]
            /\ UNCHANGED <<heap, room>>
       ELSE /\ heap' = heap \cup {block}
            /\ room' = [room EXCEPT ![block] = 0]
            /\ word' = [word EXCEPT ![block] = NoBlock]
            /\ UNCHANGED store
    /\ call' = Given(th)
    /\ UNCHANGED <<trace, buffer, loose>>

-----------------------------------------------------------------------------
(* The steps of CmemoryTrace: the two counts are atomic, each for itself.   *)

\* _malloc_throw after __alloc.  An old block whose bytes were kept is returned next.
Enter(th) ==
    LET c == call[th] IN
    /\ call[th].at = "enter"
    /\ word' = [word EXCEPT ![c.got] = c.want + Header]
    /\ usage' = [usage EXCEPT ![c.trace] = @ + c.want + Header]
    /\ objects' = [objects EXCEPT ![c.trace] = @ + 1]
    /\ call' = Goes(th, IF c.old = NoBlock THEN "finish" ELSE "leave")
    /\ UNCHANGED <<heap, room, store, buffer, loose>>

\* _free_set_nullptr before __free.
Leave(th) ==
    LET c == call[th] IN
    /\ call[th].at = "leave"
    /\ usage' = [usage EXCEPT ![c.trace] = @ - word[c.old]]
    /\ objects' = [objects EXCEPT ![c.trace] = @ - 1]
    /\ call' = Goes(th, "give")
    /\ UNCHANGED <<memory, store, buffer, loose>>

\* The operation ends: the buffer has the new block, if it asked for one.
Finish(th) ==
    LET c == call[th] IN
    /\ call[th].at = "finish"
    /\ buffer' = IF c.want = 0 THEN buffer
                 ELSE [buffer EXCEPT ![c.buffer] =
                          [trace |-> c.trace, data |-> c.got,
                           length |-> c.want, max |-> c.want]]
    /\ call' = [call EXCEPT ![th] = Idle]
    /\ UNCHANGED <<memory, store, trace, loose>>

-----------------------------------------------------------------------------
(* The operations of Cbuffer.                                               *)

\* _free_set_nullptr of no block does nothing.
FreeThenObtain(block) == IF block = NoBlock THEN "take" ELSE "leave"

\* A thread begins an operation that has steps.  Bound: malloc has a block for
\* each operation in progress.
Begin(th, c) ==
    /\ call[th] = Idle
    /\ Cardinality({u \in Thread : call[u] # Idle}) < Cardinality(heap)
    /\ call' = [call EXCEPT ![th] = c]
    /\ UNCHANGED <<memory, store, trace>>

\* An operation that is over at once.
AtOnce(th) ==
    /\ call[th] = Idle
    /\ UNCHANGED <<memory, store, trace, loose, call>>

\* Cbuffer(trace), Cbuffer(trace, length), Cbuffer(trace, data, length), and
\* Cbuffer(another), which takes trace and length from it.
Construct(th, b, t, n, from) ==
    /\ ~Exists(b) /\ ~Busy(b)
    /\ IF n = 0
       THEN AtOnce(th) /\ buffer' = [buffer EXCEPT ![b] = EmptyBuffer(t)]
       ELSE /\ Begin(th, [Idle EXCEPT !.at = "take", !.buffer = b,
                                      !.from = from, !.trace = t, !.want = n])
            /\ UNCHANGED <<buffer, loose>>

New(th, b) == \E t \in Trace, n \in Length : Construct(th, b, t, n, NoBuffer)
CopyConstruct(th, b, q) == Usable(q) /\ Construct(th, b, buffer[q].trace, buffer[q].length, q)

\* Cbuffer(std::move(another))
MoveConstruct(th, b, q) ==
    /\ ~Exists(b) /\ ~Busy(b) /\ Usable(q)
    /\ AtOnce(th)
    /\ buffer' = [buffer EXCEPT ![b] = buffer[q], ![q] = EmptyBuffer(buffer[q].trace)]

\* ~Cbuffer()
Destroy(th, b) ==
    /\ Usable(b)
    /\ buffer' = [buffer EXCEPT ![b] = NoBuffer]
    /\ IF buffer[b].data = NoBlock
       THEN AtOnce(th)
       ELSE /\ Begin(th, [Idle EXCEPT !.at = "leave", !.buffer = b,
                                      !.trace = buffer[b].trace, !.old = buffer[b].data])
            /\ UNCHANGED loose

\* A longer block for b: the old one goes first, unless its bytes are to be kept.
Replace(th, b, n, from, keep) ==
    LET old == buffer[b].data IN
    /\ Begin(th, [Idle EXCEPT
                    !.at = IF keep THEN "take" ELSE FreeThenObtain(old),
                    !.buffer = b, !.from = from, !.trace = buffer[b].trace,
                    !.old = old, !.want = n])
    /\ buffer' = [buffer EXCEPT ![b].data = NoBlock]
    /\ UNCHANGED loose

\* set(data, length), and operator=(another), with the length of another.
Put(th, b, n, from) ==
    IF n <= buffer[b].max
    THEN AtOnce(th) /\ buffer' = [buffer EXCEPT ![b].length = n]
    ELSE Replace(th, b, n, from, FALSE)

SetData(th, b) == Usable(b) /\ \E n \in Length : Put(th, b, n, NoBuffer)
CopyAssign(th, b, q) == Usable(b) /\ Usable(q) /\ Put(th, b, buffer[q].length, q)

\* resize(preferLength, validLength)
Resize(th, b) ==
    /\ Usable(b)
    /\ \E n \in Length, valid \in BOOLEAN :  \* validLength > 0
          IF n <= buffer[b].max
          THEN AtOnce(th) /\ buffer' = [buffer EXCEPT ![b].length = n]
          ELSE Replace(th, b, n, NoBuffer, valid /\ buffer[b].length > 0)

\* Mutant: the block is taken, but not its trace.
MoveAssignKeepsTrace(th, b, q) ==
    /\ Usable(b) /\ Usable(q)
    /\ buffer' = [[buffer EXCEPT ![b] = IF b = q THEN @ ELSE [buffer[q] EXCEPT !.trace = buffer[b].trace]]
                     EXCEPT ![q] = EmptyBuffer(buffer[q].trace)]
    /\ IF buffer[b].data = NoBlock
       THEN AtOnce(th)
       ELSE /\ Begin(th, [Idle EXCEPT !.at = "leave", !.buffer = b,
                                      !.trace = buffer[b].trace, !.old = buffer[b].data])
            /\ UNCHANGED loose

\* operator=(std::move(another)): the trace comes with the block, and the old
\* block is returned to the old trace.  An assignment to itself empties a buffer.
MoveAssign(th, b, q) ==
    /\ Usable(b) /\ Usable(q)
    /\ buffer' = [[buffer EXCEPT ![b] = buffer[q]] EXCEPT ![q] = EmptyBuffer(buffer[q].trace)]
    /\ IF buffer[b].data = NoBlock
       THEN AtOnce(th)
       ELSE /\ Begin(th, [Idle EXCEPT !.at = "leave", !.buffer = b,
                                      !.trace = buffer[b].trace, !.old = buffer[b].data])
            /\ UNCHANGED loose

\* transfer(): the pool gives the block of one of its own buffers to libuv, and
\* returns it itself afterwards.
Transfer(th, b) ==
    /\ Usable(b) /\ buffer[b].trace = PoolTrace /\ buffer[b].data # NoBlock
    /\ call[th] = Idle
    /\ loose' = loose \cup {buffer[b].data}
    /\ buffer' = [buffer EXCEPT ![b] = EmptyBuffer(PoolTrace)]
    /\ UNCHANGED <<memory, store, trace, call>>

FreeLoose(th) ==
    /\ \E block \in loose :
          /\ Begin(th, [Idle EXCEPT !.at = "leave", !.old = block])
          /\ loose' = loose \ {block}
    /\ UNCHANGED buffer

-----------------------------------------------------------------------------
Init ==
    /\ heap = Block
    /\ room = [block \in Block |-> 0]
    /\ word = [block \in Block |-> NoBlock]
    /\ head = [s \in Size |-> NoBlock]
    /\ count = [s \in Size |-> 0]
    /\ usage = [t \in Trace |-> 0]
    /\ objects = [t \in Trace |-> 0]
    /\ buffer = [b \in Buffer |-> NoBuffer]
    /\ loose = {}
    /\ call = [th \in Thread |-> Idle]

Continue(th) == Take(th) \/ Malloc(th) \/ Give(th) \/ Enter(th) \/ Leave(th) \/ Finish(th)

Operation(th) ==
    \/ \E b \in Buffer : New(th, b) \/ Destroy(th, b) \/ SetData(th, b)
                            \/ Resize(th, b) \/ Transfer(th, b)
    \/ \E b, q \in Buffer : CopyConstruct(th, b, q) \/ MoveConstruct(th, b, q)
                               \/ CopyAssign(th, b, q) \/ MoveAssign(th, b, q)
    \/ FreeLoose(th)

Next == \E th \in Thread : Continue(th) \/ Operation(th)

Spec == Init /\ [][Next]_vars

-----------------------------------------------------------------------------
(* Safety.                                                                  *)

\* Block k of the store of size s, from 0; NoBlock from its end on.
Stored(s) ==
    LET block[k \in 0..Cardinality(Block)] ==
          IF k = 0 THEN head[s]
          ELSE IF block[k - 1] = NoBlock THEN NoBlock ELSE word[block[k - 1]]
    IN block
StoredSet(s) == {Stored(s)[k] : k \in DOMAIN Stored(s)} \ {NoBlock}

\* A block in the hands of a thread.
InHand == {call[th].old : th \in Thread} \cup {call[th].got : th \in Thread}
InBuffer == {buffer[b].data : b \in {c \in Buffer : Exists(c)}}

\* The stores are what their counts say: each is a list of as many different blocks
\* as are counted, which is no more than the limit, each large enough for its size.
\* No block is in two places, whichever threads work on the stores: in two lists,
\* in a list and in use, or in use twice, by buffers or in the hands of threads.
StoresAreExact ==
    /\ \A s \in Size :
          /\ count[s] = Cardinality(StoredSet(s)) /\ count[s] <= Limit[s]
          /\ Stored(s)[count[s]] = NoBlock
          /\ \A block \in StoredSet(s) : room[block] = s
          /\ \A r \in Size \ {s} : StoredSet(r) \cap StoredSet(s) = {}
    /\ LET stored == UNION {StoredSet(s) : s \in Size}
           places == <<heap, stored, InBuffer \ {NoBlock}, loose, InHand \ {NoBlock}>>
       IN /\ \A i, j \in DOMAIN places : i # j => places[i] \cap places[j] = {}
          /\ UNION ToSet(places) = Block
    /\ \A b, c \in Buffer :
          Exists(b) /\ Exists(c) /\ buffer[b].data = buffer[c].data /\ b # c
              => buffer[b].data = NoBlock
    /\ \A th, u \in Thread :
          /\ call[th].old = call[u].got => call[th].old = NoBlock
          /\ call[th].old = call[u].old /\ th # u => call[th].old = NoBlock
          /\ call[th].got = call[u].got /\ th # u => call[th].got = NoBlock

\* The blocks that a trace has counted: in its buffers, given to libuv by the pool,
\* or in the hands of a thread that has entered or not yet left.
Counted(t) ==
    {buffer[b].data : b \in {c \in Buffer : Exists(c) /\ buffer[c].trace = t}}
      \cup (IF t = PoolTrace THEN loose ELSE {})
      \cup {call[th].got : th \in {u \in Thread :
                call[u].trace = t /\ call[u].at \notin {"take", "malloc", "enter"}}}
      \cup {call[th].old : th \in {u \in Thread :
                call[u].trace = t /\ call[u].at # "give"}}

\* getObjectCount and getMemoryUsage say how many blocks a trace has and how large
\* they are, wherever its buffers were moved to or came from: a block is returned
\* to the trace that obtained it.
TracesAreExact ==
    \A t \in Trace :
        LET blocks == Counted(t) \ {NoBlock} IN
        /\ objects[t] = Cardinality(blocks)
        /\ usage[t] = MapThenSumSet(LAMBDA block : room[block], blocks)
        /\ \A b \in Buffer : Exists(b) /\ ~Busy(b) =>
               IF buffer[b].data = NoBlock THEN buffer[b].max = 0
               ELSE buffer[b].max + Header = room[buffer[b].data]
                       /\ buffer[b].length <= buffer[b].max

=============================================================================
