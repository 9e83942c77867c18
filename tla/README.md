# A formal model of network_pool

TLA+ models of the C++ library in `src/`: TCP, UDP and HTTP networking on one
libuv loop thread. TLC checks the models on small instances, TLAPS proves the
theorems for every value of the constants. Line numbers refer to the files as
they are in `src/`.

## The system

| Component | State | Operations | Interacts with | Hard behaviour |
|---|---|---|---|---|
| TCP connection engine (`network_pool.cpp`) | `m_node2stream`, `m_connecting`, `m_waitingSend`, each `Ctcp` | the send and close loops of `on_wakeup`, its exit branch, the connect, accept, read, write and timer callbacks | libuv; the application through `CnetworkPoolCallback` | callbacks of old connections arriving while a newer one to the same node exists; cancelled requests; every libuv call may fail; one timer for three timeouts |
| Request hand-over (`network_pool.h`, `on_wakeup`, `internalThread`) | three pending deques, `m_lock`, `m_bWantExit`, `m_wakeup`, the async flag | constructor, destructor, `bind`, `send`, `close` | application threads, loop thread | coalescing wakeups; the exit flag read outside the lock; destructor against loop thread |
| Bound ports and UDP (`network_pool.cpp`) | `m_tcpServers`, `m_udpServers`, `m_udpIndex` | bind, unbind, UDP send and completion, exit | libuv, the application | handles closed with datagrams in flight; an index that outlives its vector |
| `Ctcp`, `Cudp`, `Casync` (`uv_wrapper.*`) | handles, `m_closing`, `m_shutdown` | `alloc`, `close_set_nullptr`, `shutdown_and_close_set_nullptr` | the two above | two close callbacks in either order; half-built objects |
| Work queue (`work_queue.h`) | `m_tasks`, `m_exit`, `m_cv`, threads | `pushTask`, `getNext`, constructor, destructor | worker threads; the HTTP server | lost notifications, spurious wakeups, exit racing a wait |
| HTTP server (`http_server.*`) | a context per connection, the tasks, `m_canceled` | the pool's callbacks; `ChttpTask::run` | pool, work queue | stale responses, reordered pipelined responses, contexts that vanish during a graceful close |
| HTTP parser (`http_context.h`) | buffer, parse state, lines, chunks | `prepareBuffer`, `recvPush`, `analysis`, `reinitForNext` | HTTP server | input split anywhere; chunk-size arithmetic; the buffer limit |
| Allocator (`fast_allocator.*`, `memory_trace.h`) | free lists, counters | allocate, free | everything | list and count under concurrency and at the limit |
| Buffer (`buffer.h`) | a block, its trace and lengths | construct, copy, move, resize, transfer | everything | whose block and whose count after a move |
| Addresses (`network_node.h`) | protocol, address, cached hash | construct, set, copy, compare | every table | a hash that no longer fits, colliding hashes |
| Callback interface (`network_callback.h`) | none | `connectionStatus`, `drop`, `bindStatus`, ... | implemented by the application and the HTTP server | |

What makes each correct: the engine's tables, objects, notifications and
messages must agree after every callback, and every message must be answered
once; the hand-over must lose no request and no wakeup; a port is open if and only
if it was last reported bound; every task is run or at least deleted, once; the
server must send each response on the connection that asked, in order; the parser
must give the same requests however the input is split; the free lists hold each
block once. `PROJECT.json` lists every hazard at its line.

## Modules

| Module | Models | Size of its main instance |
|---|---|---|
| `TcpService` | what the application is promised over TCP (abstract) | |
| `TcpEngine` | TCP connection engine and `Ctcp`; implements `TcpService` | 2 nodes, 3 objects, 3 messages: 912,392 states |
| `TcpEngineProofs` | its theorems, and that it implements `TcpService` | |
| `PoolRequests` | hand-over, constructor, destructor, calls from callbacks | 3 calls of 2 threads, one of a callback: 227,393 states |
| `PoolRequestsProofs` | its theorems | |
| `PoolServers` | bound ports, UDP, `Cudp`, listening `Ctcp` | 4 ports (one of no protocol it serves), 3 handles, 3 messages: 240,414 states |
| `PoolServersProofs` | its theorems | |
| `WorkQueue` | `CworkQueue` | 3 workers, 4 tasks: 65,762 states |
| `WorkQueueProofs` | its theorems | |
| `SequenceLemmas` | what the proofs use about sequences, least numbers, folds and descents | |
| `HttpServer` | `ChttpServer`, `ChttpTask`, composed with `WorkQueue` | 2 workers, 2 nodes, 2 connections, 2 requests: 616,913 states |
| `HttpSyntax` | what the bytes of a connection mean (reference definition) | |
| `HttpContext` | `ChttpContext`, the parser and its buffer, against `HttpSyntax` | 16 beginnings and up to 4 more bytes of 7, in any reads: 636,441 states |
| `HttpProofs` | the theorems of `HttpContext`, and of `HttpServer` (those of `WorkQueueProofs` among them) | |
| `Memory` | `__alloc`, `__free`, `CmemoryTrace`, `Cbuffer` | 2 threads, 2 buffers, 2 traces, 5 blocks: 157,923 states |
| `MemoryProofs` | its theorems | |
| `NetworkNode` | `Csockaddr`, `CnetworkNode` as a key | 2 objects, 2 keys, 9 addresses: 18,632 states |
| `MC...` | the instances of the above, with what each requires of its bounds | |

Operators named in a comment as "Mutant" are faulty variants of the operator
that follows them. No specification uses them; they show that each
property fails when the code is wrong in that way.

### TcpEngine

All of the engine runs on the loop thread, so one action is one libuv callback or
one request served by `on_wakeup`; no other engine code runs in between. That
requests of one batch may interleave with callbacks is more than the code does
(a batch is served in one go), hence safe for invariants; the batch itself is
`PoolRequests`' subject.

- `node2stream`, `connecting` and `waitingSend` are the three tables. An absent
  entry of `m_waitingSend` is the empty sequence: the code never keeps an empty one.
- `tcp[c]` is the `Ctcp` at address `c` with the libuv requests outstanding on it:
  `connectReq`, `shutdownReq` and `writes`, the messages of each `uv_write` in
  order. `queued` counts the writes at the end of `writes` that the kernel has not
  taken yet: `write_queue_size` is zero when it is. `timer` says which timeout is
  armed. A deleted object is `FreeTcp` and its address may be reused.
- `up`, `sent` and `dropped` are history variables: the last `connectionStatus` of
  a node, the completions and the `drop` calls of a message.
- libuv calls that can fail (allocation, `uv_timer_start`, `uv_write`,
  `uv_read_start`, `uv_accept`, `uv_shutdown`, `uv_tcp_connect`) fail
  nondeterministically, with the clean-up the code has for each.
- From libuv is taken: requests of a handle that is closed are called back with
  an error before its close callback; writes complete in order; a write that was
  flushed before the close reports success; timers are one-shot and stopped by
  `uv_close`; nothing is read after it.
- The `message` callback changes no state of the engine. The listening sockets
  appear only as the guard `~exited` of `OnNewConnection`.

**Refinement.** `TcpService` knows nodes, messages and notifications only: a
message taken for a node is pending there until it is sent or dropped, once; a node comes
up, and goes down, while the pool runs; exit brings every node down and drops what has
not been handed to libuv. `Service` maps it onto the engine: the pending messages of
a node are those in its waiting queue and in the writes of every connection of the
node, old ones included. `KeepsService`, checked in `tcp_engine` and proved in
`TcpEngineProofs`, says that every step of the engine is a step of `TcpService` or
changes nothing it mentions.

### PoolRequests

Application threads run `Push` (under `m_lock`, one action) and `Signal`
(`uv_async_send`) with anything in between. The loop thread runs `Wake`, `Copy`
(under `m_lock`), `ReadExit` (outside it), `Serve` for each request, `Return` or
`ExitLoop`. After the exit branch `uv_run` goes on (`closing`) until nothing is
`left`: what is `ending`, closed or in graceful close, goes by libuv's promises
(`HandlesClosed`), an `orphan` only when its peer or its idle timeout ends it
(`OrphansEnd`), and `EndLoop` is the return of `uv_run`. An orphan is an open
connection whose entry the late event of an older connection to the node erased, so
that the exit branch does not find it; `TcpEngine` has it in detail (`Orphan`), and
its `ConnectionsEnd` is what justifies that all else ends. The owner runs
`Construct`, `WantExit`, `SignalExit`, `Join`. `Push` requires that the destructor
has not begun and `WantExit` that no call is in progress, as for any C++ object.
`Echo` is a call made by a callback on the loop thread itself, from `uv_run` or
while a batch is served; what it pushes belongs to the next batch. `LateCall` is
such a call from a callback of the exit branch or of a handle that is still open
after it: it pushes its request and signals through a null `m_wakeup`. A call that
has returned may well have been queued between `Copy` and `ReadExit`.
`uv_async_send` through a null `m_wakeup`, by `LateCall` or by the destructor, ends
in the state `crashed`. `m_bWantExit` and `m_wakeup` are not atomic; the model gives
their reads and writes a sequentially consistent order, and the run `pool_wakeup`
shows the race on `m_wakeup` already there.

### PoolServers

One action per bind or send request served, per completion and per close
callback. `life` and `node` are the objects, `inFlight[h]` the `uv_udp_send`
requests of a `Cudp`. `status` records `bindStatus`; `ignored`, `done`, `failed`,
`dropped` and `rejected` what became of each message that is not for TCP; `uses`
counts the turns since `m_udpServers` last changed. The batch that the exit branch
finds is any number of the messages not yet served.

### WorkQueue

`m_lock` is held over every critical section, so `GetNext` (from entering, or
waking, to sleeping or returning), `PushTask` and `SetExit` are single actions.
`m_cv.wait` may return at any time (`Spurious`), without any fairness. The
constructor may fail to start a thread, or fail to store one it started, which
destroys a joinable `std::thread` and ends the process (`terminated`).

### HttpServer

`Queue == INSTANCE WorkQueue`: each step of a worker, of `pushTask` and of the
destructor is the queue's action joined with what the server does in it, so that
`ChttpTask::run`, one step in `WorkQueue`, becomes the test of `m_canceled`
(`Begin`), `pool->send` (`Respond`) and `pool->close` (`Close`), with other threads
in between. The loop thread is in one callback at a time (`loop`): `Message` adds
input, then one step per turn of the `_again` loop (`Incomplete`, `Reject`, `NoMemory`,
`NewTask`); `ConnectionDown` erases the context, `CancelTask` cancels. `context[n]` holds
what has been read and not made into tasks, as a sequence of requests and
malformed input. `m_canceled` is a plain `bool` read without a lock; it is read once per
task, so either value is an interleaving of the model. `conn` numbers the
connections to tell those of one node apart. The application is taken to set the
pool before it binds, to destroy the server when the pool calls nobody back any
more, and to keep the pool until then.

### HttpSyntax and HttpContext

`HttpContext` is `analysis()` with one action per turn of its outer loop, each
with its early returns; `Receive` is the buffer preparation, the read and
`recvPush`, of any number of bytes that fits; `ReinitForNext` is its
namesake. Positions
are the code's, from 0. Sizes are modulo `Word`. A byte is a model character; a header the parser
acts upon (`Connection`, `Transfer-Encoding`, `Content-Length`) is one such character,
alone on its line, because how a line is split at its colon does not depend on the
state. `HttpSyntax` says declaratively, over all the bytes received, which requests they
contain and what follows the last: an incomplete request, a malformed one, or input on
which the code and RFC 7230 differ (a chunk not followed by CR LF, which the
code accepts, and a chunk size near the width of `size_t`, to which it adds 2).
`RequestsMatchSyntax` compares the two after every read.

### Memory

A thread runs one operation of one buffer; `at` says which of its steps is next: the free
list's under `s_globalLock`, `malloc`, and the two atomic counts are steps of their
own, so two threads interleave between any of them. `word` is the first word of
a block, which is its size while in use and the next block while stored; `room` is what `malloc`
gave. A thread remembers the blocks it is working on (`got`, `old`). The bytes of a
buffer are left out; `length` and `max` are not. A buffer is used by one thread at a
time, as with any C++ object. `malloc` has a block whenever it is asked: what follows
a `bad_alloc` is not modelled.

### NetworkNode

An address is its family with the fields that family has. `FromRaw` and `FromName`
are the two ways to make one; `NewNode` ends with `rehash()`, `DefaultNode` does not.
The table stands for every `std::unordered_map` keyed by nodes: it stores a key with its hash and
finds by stored hash, then `operator==`. The arithmetic of the hash is that of the
code modulo `Word`.

## Runs

| Run | Question | Result |
|---|---|---|
| `tcp_engine` | Do tables, objects, notifications and messages agree through every order of requests, callbacks, failures and exit; does the engine implement `TcpService`? | pass |
| `tcp_engine_live` | With a silent peer, does everything that closes go away, after exit all but orphans, and is every message answered? | pass |
| `tcp_idempotent` | May `shutdownTcpConnection` be called at any time (`network_pool.cpp:717`)? | violated |
| `tcp_graceful` | Does a graceful close wait for pending writes (`network_pool.h:249`)? | violated |
| `pool_requests` | Is every request and wakeup delivered once, in order, every request answered, and does the destructor return unless a peer keeps an orphaned connection? | pass |
| `pool_wakeup` | Is `m_wakeup` the loop thread's own (`network_pool.h:149`)? | violated |
| `pool_servers` | Do ports, handles and notifications agree; is the round robin fair; is every datagram settled once; can `uv_run` return after exit? | pass |
| `work_queue` | Is one notification per task enough, and nothing leaked, whatever wakes when; is every task run, and does the destructor return? | pass |
| `http_server` | Do contexts, tasks and cancellations stay with their connection when a node leaves and returns, and with whom may a response change places? | pass |
| `http_context` | Are the requests the same however the input is split; does the parser stay inside what it received? | pass |
| `memory` | Is every block in one place and counted by its own trace, whichever threads allocate, move and return? | pass |
| `network_node` | Does a table keyed by nodes find exactly what was put in, and are nodes totally ordered? | pass |

What the violations show:

1. **`tcp_idempotent`**. `shutdownTcpConnection` erases by node. After a graceful
   close the node may connect again; when the old connection's EOF or timeout
   arrives, it is the new connection that is reported down and forgotten, open and
   unreachable until its own timeout.
2. **`tcp_graceful`**. A peer that ends its own direction while a graceful close is
   flushing has the connection closed at once and the pending writes dropped.
3. **`pool_wakeup`**. With a wakeup pending, the loop thread may exit between the
   destructor's two statements, and the destructor then uses a null `m_wakeup`.

The first two need two connections or a close and a late event, which is
why no single call sequence in a test would show it.

Three things that the models do and no property forbids, for a reader's notice: a
connection in graceful close or orphaned is in no table, so that exit leaves it to
its peer or its timer, and the destructor waits for it: for an orphan, for as long
as its peer sends something within each idle timeout (`ConnectionsEnd` and
`DestructorReturns` except exactly this); a request queued between `on_wakeup`'s
unlock and its test of `m_bWantExit` is destroyed with the pool, unanswered
(`RequestsAnswered` excludes it); and the exit branch reports UDP messages dropped,
which nothing else does.

### Bounds

- `MaxMsg`, `MaxCalls` and the sets of tasks bound what the application does in one
  behaviour; everything else runs on.
- Two nodes let one be disturbed by the other's events; three `Ctcp` objects are
  one more than a connection and its successor to the same node need, so that an
  address is also reused while both are alive. Three messages can be waiting, in
  flight and new at once, or all in one order-relevant queue.
- Two calls of one thread, one of another and one of a callback give every overlap
  of a push with a copy, a served batch and an exit, and two calls of one thread in one or in
  two batches.
- Two UDP ports and a TCP port on three handles make the round robin wrap, grow and
  shrink while an unbound handle is still closing; the third message goes around.
- Three workers and four tasks let one worker sleep, one run and one wake while
  tasks queue. Two connections and two requests on two nodes and two workers put
  requests on one connection, on its successor or on another's; two requests may
  come with one read.
- A `size_t` of 16 values with digits of 4 lets a chunk size of three digits wrap, and one of two
  come within 2 of it; a buffer that starts at 6 bytes, doubles, and ends at 28 grows twice
  and fills up. The 16 beginnings put the 4 arbitrary bytes after every state of
  the parser, in a second request and at the limit.
- Five blocks are what two threads, two buffers, a free list of two and `malloc` can
  have at once with one to spare; one size is stored, up to two blocks, and one never.
- A hash of 256 values and ports of 4 make two of the nine addresses collide (an
  `ASSUME` of the instance), and two objects give every copy onto another.
- Symmetry (of nodes, objects, workers, threads, buffers, blocks) is used in
  `tcp_engine`, `http_server`, `memory` and `network_node`, which check no liveness; that
  pushed tasks are run is `work_queue`'s `TasksRun`.
- Only `http_context` may stop: the input ends.

### Fairness

Liveness assumes of the environment only what its documentation promises: libuv
closes the handles it was asked to close, answers the requests outstanding on
them, reports writes that completed and fires armed timers; a running thread
keeps running; a thread in a call or a constructor or destructor goes on. Nothing
is assumed of peers, of the network or of the application; `OrphansEnd` has no fairness. `OnTimeout` is fair for the
connect and send timeouts only: the idle timeout may be restarted by reads for
ever. A send restarts the send timeout too, which `MaxMsg` bounds; an application
that never stops sending to a peer that never reads is outside these runs.
Spurious wakeups of the work queue are possible and never relied on.

## Proofs

All proofs are checked by TLAPS without further assumptions than the named
`ASSUME`s on the constants: the "no such" values (`NoNode`, `NoConn`, `NoTask`, ...) are
not members of the sets they extend, bounds are naturals, `Worker` and `Block` are finite. The
type invariants of these modules are proved and not run again.

**TcpEngineProofs.** The inductive invariant `IInv` joins the type invariant, the
properties `MapIsUsable`, `WaitingHasConnect`, `StatusMatchesMap`, `ExitIsFinal`, and
two strengthenings. `ObjectInv` says which combinations of handles, flags, timer
and requests a `Ctcp` can be in; without it nothing is known of an object that
only a late callback still refers to, and neither `DeadlineSet` nor
`NothingDangles` is inductive. `ConnectingInv` ties `m_connecting` to the objects with
a connect request. The hard case is `WaitingHasConnect`: `shutdownTcpConnection`
of some other connection to the node must empty the waiting queue together with the map
entry, and a connect that completes must flush it. Theorems: `TypeCorrect`,
`MapAlwaysUsable`, `NoStrandedMessage`, `StatusIsTruth`, `NoDanglingCtcp`,
`AlwaysTimed`, `ExitFinal`.

**TcpEngineProofs, messages.** The refinement, and `Accounted`. `AccountInv` says in sets what
`Accounted` says in numbers: no message waits twice, is carried by two connections, in
two writes, or is settled and still somewhere. Nearly every handler does one thing to messages: those
that one connection carried and those that waited for its node, with those just taken,
become the ones that wait, are carried, were sent or were dropped. `Turnover` states
this once; `TurnoverKeeps` and `TurnoverAnswers` conclude that the account is kept and
that the step is one of `TcpService`; a lemma per handler shows that it is a `Turnover`
or touches no message. The exit branch, which drops for all nodes at once, has a
proof of its own. `SubmissionOrder` is inductive beside these: a step lets messages go
(`Lightens`), lets the next one wait (`Waits`) or be written (`Writes`), or writes all that
waited on a connection that carried nothing (`Flushes`). Theorems: `EachInOnePlace`,
`ImplementsService`, `LeavesInOrder`.

**PoolRequestsProofs.** `IInv` adds `OwnerInv`: before the loop runs nothing is
queued, and a destructor that has begun has set the flag. `WakeupNeverLost`
and `ExitNeverLost` follow for any number of threads and calls. `HandOver` is a second
inductive invariant: `OnceInv`, a request is in one place and every call made has one;
`OrderInv`, each queue is in call order and all of a batch is older than what is
queued. `NoRequestIsLost` and `CallsKeepOrder` follow, the first by counting.

**PoolServersProofs.** `PortsInv` (the tables are the open handles) with `StatusInv`
gives `NoHandleIsLost` and `StatusIsTrue`; `MessagesInv` gives `MessagesAccounted`.
`TurnInv`: the ports from where `m_udpIndex` stood when they last changed up to where it
stands have had one turn more than the others.
`TurnsAreFair` follows, although an erase may leave the index anywhere.

**WorkQueueProofs.** That no worker sleeps while a task waits is not inductive by
itself: the worker notified for one task may be overtaken by another on its way back from a
run. `NoIdleSleeper` counts: while anyone sleeps, there are at least as many awake
workers heading for the deque as tasks. `PlaceInv` says where the tasks are and gives
`DestructorIsComplete`; `OnceInv` says that none is in two places and gives `OwnedByOne`.

**HttpProofs, the parser.** What a context has recorded is not inductive by itself: a line that is
complete stays so only while no later step overwrites its terminator or moves the index
back, and the length of the line being read says nothing yet. `ContextInv` says of the
present context and of each one handed to a task: every line but the one being read ends
with its terminator below the index (`LinesInv`); a chunk lies between the headers
and the index unless its own length wrapped, and there is none before the
headers are complete (`ChunksInv`); before the line being read there is a terminator,
unless it is the first, which does not begin with a line feed (`OpenInv`); the data fits
in the buffer and a refusal comes at the limit (`SizeInv`). Two steps fold over a whole line
or all headers (`Scanned`, `Decoded`): that they change nothing but what a header or a size
may set (`SamePlaces`) is shown for one line or byte and carried along the chain of the fold's
steps (`DecodedChain`, `ScannedChain`). Theorems: `ParserInvariant`; from it `RecordedBounded` (`RecordedInBounds`), `RefusedOnlyAtLimit`
(no read is refused below the limit, which is proved and not run), and `LineEndsAreInside`, which is what the code's comment "ptr[0] != '\n' checked
before" (`http_context.h:202`) stands for: `ptr[m_analysisIndex - 1]` is in the buffer and the
length of a line that ends in CR LF is never below zero. They hold for all inputs, reads and sizes of the buffer,
assuming that the initial size and the margin are at least 1 and that `size_t` is a multiple
of the digits' radix.

**HttpProofs, what the parser says of its input.** `RequestsMatchSyntax` compares the
contexts with the bytes received, `got`; that is not inductive, because what `got` means changes
with every read: an incomplete request becomes a whole one. `SyntaxInv` therefore speaks of
*every* input `t` that begins with `got`. Either the requests of `t` are those handed out
and then those that begin where the buffer does (`InStep`), and the present context says of
`t` what its state means (`Parsed`); or `t` has a request that the protocol and the
parser read differently, and all before it were handed out (`Lost`). A read then
changes nothing but which inputs are meant (`MoreParsed`). `Parsed` says, state by state,
which line feeds, blank lines and bare line feeds have been passed, which
bytes of the buffer are still those of `t` (`Raw`: terminators overwrite the others), which lines were
cut (`OpenBlock`), what the headers said (`HeadRead`), that the chunks read and the
chunked body behind them make the whole body (`ChunksRead`), and what part of a size line says
(`SizeRead`, modulo `Word`). One lemma per step (`...Parsed`) shows that `Parsed` holds again or
the request is `Unspecified`; the steps that end a request show that its context is the
request of `t` (`SyntaxNextInv`). That the parser waits only for input that is
missing needs `Short`: a turn ends with nothing left to read or with less than the
body or chunk that is due. Theorems: `SyntaxInvariant`, `RequestsAreThose`, for every input,
every division of it into reads, every size of the buffer, every radix and every
width of `size_t` that is a multiple of it.

`HttpSyntax` is recursive over the input, and so are the folds of the parser. Their
values for every input are reached without an induction theorem, by the least
counterexample (`LeastNat`): a recursive function exists and satisfies its equation,
or there is a least beginning of it that does not (`DescentExists`, `MaxFoldExists`); it has a
property everywhere, or there is a least position at which it has not (`InductTo`,
`InductDown`); two functions that follow the same steps are equal (`ChainAgrees`).

**HttpProofs, the server.** `ServerStep` shows every step of the server to be a step of its
queue or none, so that the queue's invariant and theorems hold here through
`INSTANCE WorkQueueProofs` (`DrivesQueue`). What is left is the server's: `ConnInv` (what
a callback in progress relies on), `WorkerInv` (what a worker's place in `run()` says of its task),
`OrderInv` (the deque holds the latest tasks, in order) and `NonePassedOver`, which is
`OvertakesOnlyRunning` of all connections together and, unlike it, inductive.

**NetworkNodeProofs.** Every node, however an object came by it, is the node that
`rehash()` makes of its protocol and address (`KeysAreNodes`): an object that was never
set is one too, because `0 * 31 + AF_UNSPEC` is the hash 0 it starts with. So the stored hash
of a key is never out of date, and `operator==`, which compares hashes first, is
equality of addresses (`FieldsInjective`: no field is left out). That sequences of one
length are ordered by the first difference needs that a set of numbers has a
least one. Theorems: `TablesAreExact`, `OrderTotal`, for every width of the
hash, whatever collides. They assume what a `sockaddr` holds: a port and one word, or a port,
four words, a flow label and a scope (`InputAssumption`).

**MemoryProofs.** The lists of `StoresAreExact` are recursive functions that follow the
first words of blocks, which no induction over the steps can reason about directly. The
invariant therefore names what they find: every block has one place (in a store, with a thread, in
a buffer or with `malloc`), and each store a stack of the blocks it lists, whose words are linked in
that order. An action moves at most two blocks. `BufferInv`, `CallInv` and `BlockInv` say what a
buffer, an operation at each of its steps, and the word and room of a block can be; without
`CallInv` nothing is known of the block that a thread has taken from a list and not yet
put anywhere. The list of a store is then its stack: were it not, there would be a
least depth at which they differ (`LeastNat`). `TracesAreExact` is inductive beside the
invariant, action by action; its sum takes blocks in an order that `CHOOSE` decides, and
`SumAdd` and `TotalRemove` show that the order does not matter. Theorems: `StoresExact`,
`TracesExact`, for any threads, traces and buffers, any number of blocks and any limits.

`SequenceLemmas` has what these share: what appending, taking and concatenating do to
the elements of a sequence, to their order and to their being different; `LeastNat`,
which stands in for induction, with what is drawn from it (`InductTo`, `InductDown`,
`InitialSegment`); and that a fold over a finite set and a function that
descends exist (`FoldExists`, `MaxFoldExists`, `DescentExists`) and are what their
steps make of them.

Every safety property that the passing runs check, and the refinement, is a theorem.
Only model-checked: the liveness properties (fairness and ENABLED are beyond the
prover), and what the three runs that end in a violation show.

## Not modelled

- `ChttpContext::getInfo`, which changes nothing; how a header line is split at its
  colon, which depends on no state.
- `CnetworkPair`, which nothing uses (its assignment forgets `m_protocol`,
  `network_node.h:471`); `getIp` and `getPort`, which change nothing.
- `malloc` that fails. `_malloc_throw` throws, and a `Cbuffer` that was growing is left
  with its old `m_maxLength` and no block (`buffer.h:126`, `156`, `182`).
- Receiving a datagram, which changes no state of the pool.
- `peer_server.h`, included by nothing and not compiling; the debug macros and the
  makefile; socket options other than their failure.

What is left of the plan: `NetworkPool`, which composes `PoolRequests` with a
one-connection engine and a listener, for what lies between them (batches, a listener
that stops accepting, the old connection's bytes in the new connection's parser).
