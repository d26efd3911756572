# MProcessIOCP, specified and checked

TLA+ modules for the IOCP server of this repository, the TLC runs that check
them on small instances and the theorems TLAPS proves about them for instances
of any size.

## 1. The system

A master process (`Master`) starts worker processes and talks to them over
named queues (`IPC`). A worker process (`IOCPServer`) runs a TCP server
(`IOCP`) on top of an I/O completion port. The server does the program's own
work, and has most of the modules.

| Part | Source | State it keeps | Operations | Interacts with |
|---|---|---|---|---|
| TCP worker | `IOCP/Src/CommunicationWorker.cpp`, `AsyncOperator.cpp` | none of its own; buffers and clients passed to it | the five handlers of `ProcessIOMessage`, `OnOperationCanceled`, `DoRead`, `AsyncSend`, `ContinueAsyncSend`, `ContinueAsyncRead` | called by the pool threads; posts to the port; uses both tables |
| Client manager | `ClientManager.cpp/.h` | `m_mapClientContext`: SOCKET to client | add, remove, look up, visit, close a socket | called by pool threads, the accept thread and the timer |
| Buffer manager | `IOCPBufferManager.cpp` | `m_HashBuffer` (handed out), `m_CacheBuffer` (idle, per thread) | allocate, release, fill and free the cache | called by pool and accept threads |
| IOCP buffer | `IOCPBuffer.cpp` | operation type, used and total length, WSABUF | set up a read or a write, append, flush, grow | owned by one operation at a time |
| IO pool | `IOPool.cpp` | the completion port, 2 threads per processor | start, destroy, associate, the thread loop | calls the TCP worker through `m_pPoolClient` |
| TCP server | `TCPServer.cpp` | pool, accept thread, connection check | start, stop, associate an incoming socket | composes the three |
| Accept threads | `Accept.cpp`, `LockAccept.cpp`, `AcceptBase.h` | running flag, event, banned addresses | start, run, exit | call back into the TCP server |
| Connection check | `ConnectionCheck.cpp` | running flag | every 30 s close the sockets of expired clients | visits the client table |
| Protocol analysis | `ProtocolAnalysis.cpp`, `CommonProtocol.cpp`, `CommonPack.cpp`, `IOPack.cpp` | none; positions in a buffer | split a read into packets, echo them | calls back to post the next read |
| Hash map and list | `Public/Include/HashMap` | buckets, linked nodes with spin locks, an atomic counter | add, remove, look up, visit, free | below both tables |
| Worker, thread, event | `Public/Src/Worker.cpp`, `Thread.cpp` | exit event, run status | start, run, exit, wait | base of the accept and timer threads |
| Blocking queue, singleton | `Public/Include/Common` | a list, an interrupt flag; the registered instances | put, take, interrupt; get, destroy | used all over |
| Master, IPC, commands | `Master`, `Public/Src/MasterIPC.cpp`, `WorkerIPC.cpp`, `WorkerTaskCommand.cpp`, `IPC` | the workers and their queues | start a worker, ping, command, exit | across processes |
| Process management, sockets, utilities | `ProcessM`, `SocketLayer.cpp`, `BaseUtility` | none that outlives a call | wrap system calls, log | leaves |

**What is hard.** Nothing in the server holds a lock across two of its steps.
A read of a client is posted to the port, taken by any thread, started as an
overlapped `WSARecv`, completed by the system and taken by any thread again;
each of those posts may fail, and each failure exit has to give the buffer back
once and remove the client once. Several threads find the same client dead at
the same time. Clients are known only by their SOCKET value, which the system
reissues the moment the socket is closed, and the table entry goes before the
socket does. The timer closes sockets under clients it leaves registered. The
echo loop of a read still runs when the next read of that client, in the same
buffer, is already under way. `PROJECT.json` lists these as hazards, each at
its line, with the properties that would catch it.

**What makes each part correct.**

- TCP worker, buffers: a buffer handed out has exactly one owner (the port, the
  kernel or a thread) and always has one, whatever fails.
- Client manager: the counter follows the table; the number of clients is
  bounded; the handle of a registered client is its own open socket; removal
  happens once.
- Connections: a registered client is always being read from or about to be
  removed; one whose socket is closed is removed; a connection is admitted and
  dropped at most once and nothing left of it brings another one back.
- Sending: no byte is written twice, none to another connection, the write queue
  counter is the number of writes under way.
- Receiving: however the stream is cut, the parser stays in step with its frames,
  holds no complete one back and never reads into a full buffer; no packet is handed
  on twice, and each is handed on once unless the connection ends at it.
- Buffer manager: a buffer is in one place, the cache stays near its limit, a
  released buffer is recycled.
- Hash map and list: to its callers it is a table whose operations happen at
  once, and a search finds what is there from before to after it.
- Server: Stop leaves no thread, port or wait behind and terminates, in process mode
  once `WSAAccept` returns; a waiting connection is taken while the accept thread hears
  of it.
- Connection check: idle clients are cut, and nobody else but by the races its property
  names.
- Master and workers: an answer belongs to the ping it is taken for; every
  worker on the list serves; a worker whose master is gone leaves its loop and, unless
  it waits for its accept thread, ends.
- Blocking queue, packs: no lost wake-up; what was written is what is read.

## 2. Modules

### TcpWorker

The server core as a state machine: pool threads, accept thread, timer, peers
and the system interleave. State, and what it stands for:

| Variable | Code |
|---|---|
| `sock` | which connection a SOCKET value is open for (the system's handle table) |
| `client`, `size` | `m_mapClientContext` and its `m_nSize` |
| `registered` | the keys of `m_HashBuffer`: buffers handed out |
| `op` | `m_nOperationType` of every buffer |
| `port` | the queue of the completion port, first in first out |
| `kernel` | overlapped operations under way, with the connection each was started on |
| `proc` | per thread: where it is in its handler (`pc`, `ret`, `after`) and its locals (`pIOCPBuffer`, the key, the result, packets still to echo, the parse's result) |
| `conns`, `packets`, `expiries` | bounds: what peers and the clock did so far |

An action is the code of one thread from one access of shared state up to the
next. `RemoveClient` is therefore three actions (take the node out of the list,
count it, close the socket), `AddClient` two, and `ReleaseBuffer` one; a
handler that only touches its own buffer before it posts is one. The failure
exits call `RemoveClient` in a chain (`AsyncSend` removes the client, then
`OnReadCompleted` removes it again and releases the buffer); `ret` and `after`
are the two return addresses such a chain needs, and `Return` and `Echo` follow
them.

`FailSites` (out of `Sites`) names the calls of `PostQueuedCompletionStatus`
that may fail. The other conditions on those exits (an allocation or a set-up
that fails, an invalid handle) lead to the same code, so they are the same
choice. `WSARecv` and `WSASend` may always fail, since the peer may have reset
the connection, and always do on a closed handle.

Abstracted: the contents and lengths of buffers (a read holds any number of
whole packets up to the bound and then ends, is cut or is malformed; a write is
complete, partial or empty); the clock (any client may expire at any time, which
covers every clock and, too, the unsigned subtraction of `IsExpired`); the lists
under the tables (insertion and removal of a key are one step, which `HashList`
is shown to implement); `m_pCallBack` of the protocol and of the client manager
(no code in the repository sets either); the nodes that outlive their removal (a
released buffer is only cached when the last reader of its node lets go: here it
may be handed out at once, or later).

`Crashed` is the null pointer of `TCPServer.cpp:129`: the client just added is
looked up again, and a stale completion may have removed it. The process stops
there, so the properties say what holds until then.

### Connections, TcpConnections

`Connections` is what the server promises of the connections peers open to it:
each is accepted once, in order, is admitted or refused, is a client until it is
dropped, and never comes back; its socket may be closed at any time and is
closed in the end. `TcpConnections` maps the state of `TcpWorker` to it: a
connection is *accepted* while the accept thread is at `IsAccept` or `AddClient`
with it, a *client* while some handle is registered for it, *gone* after that;
it is open while some handle is open for it; the process is up until `Crashed`.
A step of `TcpWorker` is a step of `Connections` or changes nothing of this.

### SendPath

`AsyncSend`, `OnWrite`, `OnWriteCompleted`, `ContinueAsyncSend` and the system's
writes, for one SOCKET value that is given to several connections in turn. `buf`
has the lengths of `CIOCPBuffer` (total, offset of the rest) and `wire` the pieces
that `WSASend` took, as packet, offset and length. `queue` is
`m_nWriteQueueSize` with its width. The system completes writes in any order
(`kernel` is a set); closing the socket cancels those under way, and their
completions come some time after, failed; any write may fail, since the peer may
reset the connection. `RemoveClient` is one step and each packet has a buffer of its
own: `TcpWorker` has the gaps and the pool. The pause of `CheckWriteQueueStatus`
only delays a sender and is left out.

### Framing

The receiving side of one connection: `CIOCPBuffer` as `base`, `used`, `length` and
`wsa`; the loop of `ParseReceivePackage` step by step with the position of its
`CIOPack`; the hand-over of the packets while another thread reads on. Each echo may
fail, which removes the client and drops the rest of the batch (`SendFails`); other
threads may remove the client at any time (`RemoveClient`), and its read then ends
with its buffer released (`ClientGone`). The peer sends any stream of frames (good
ones, ones with a bad magic number, ones whose body cannot be parsed), the system
delivers it in any pieces. Bytes are positions of the stream. Whether the protocol has
a call-back (`hasCallBack`) is chosen in the initial state. `gone` is that the client
is in the table no more; `stream`, `parsed`, `handed` and `lost` (packets at or behind
a failed echo) are history. Frames are those whose header names the length of their
body; one that lies about it is a frame of another length.

### BufferPool

`CIOCPBufferManager`: `used` is `m_HashBuffer`, `cache` and `size` are
`m_CacheBuffer` by bucket, `mem` the buffers that exist. A released buffer goes
through the list's release call-back only when the last reference to its node is
dropped (`dying`, `refs`), by whichever thread drops it, perhaps one that only
passed the node on its own way. A list operation is one step, its count another.

### HashTable, HashList

`HashTable` is what `CHashMap` promises: a bag of keyed nodes that add, remove and
clear change at once, and lookups that take time and answer with what was there
at some moment meanwhile, missing nothing that was there all along. `HashList` is
the code: nodes with `next`, a spin lock and the removing flag, `InitHashArray`,
traversals that lock two neighbours at a time, removals that unlink under the
neighbour's lock, the counter a step later. `ImplementsTable` is the refinement,
with `lookup` and `answer` as history. `TcpWorker` and `BufferPool` rely on it
where they take a list operation for one step. A `shared_ptr` is copied at once,
with its old or its new value: that the copy races with an assignment is beyond
the model.

### ServerLifecycle

`CTCPServer::Start`, `Stop`, `Wait`, the switches, `CWorker`, `CThread`,
`CKernelEvent`, `CIOPool::Start` and `Destroy`, both accept threads and the run loop
of `CConnectionCheck`. `ctl` is the thread that owns the server; `accept` and
`check` are the two workers with their exit event, thread and flag; `ports` are the
completion ports ever created with the exits and work queued on each, `thread` the
pool's threads and where they wait. The two accept threads differ in what wakes
them: `CAccept` waits for `m_hWSAEvent`, which `Exit` closes, `CLockAccept` waits in
`WSAAccept`, which only a peer ends; which of them the server uses,
`bProcessMode`, is chosen in the initial state. `backlog` are the connections that
wait at the listening socket, in their order. A thread of the pool takes a work
item or an exit; what it does with a work item is `TcpWorker`'s.

### ConnectionCheck

The visits and `IsExpired`. Times are kept relative to now, so time has no bound:
`age` is the ticks since `m_dwLastTime`, cut off where longer ones are told apart no
more; `tickAge` and `lastRead` are the check's two reads, in either order
(`tickFirst`, which the build fixes: a variable of the initial state), subtracted
unsigned. `raced` remembers that `UpdateTime` came between them. Clients of one
SOCKET value are held apart by `HandleOf`; closing the value closes whoever has it.

### MasterWorker

`CMaster`, `CMasterIPC`, `CWorkerIPC`, `CWorkerTaskCommand` and the worker's `main`.
`created`, `opened` and `messages` are the named queues, which outlive the processes;
each process has its step, its tries and what it waits for. A crash may happen
anywhere; in behaviours with `mayFail` calls of the system fail at will,
`KillProcessByPID` and the search for the master among them; the worker that was not
killed goes on and is remembered in `spared`. A worker that leaves its loop destroys
its server; if that was started the process is at `Stop` until `WSAAccept` returns
(`ServerStops`), which only a peer brings about. The exit exchange of `UnInit` is not
there: it needs workers on the list when `Run` ends, and `EndsWithoutWorkers` shows
that there are never any. Queues left by an earlier process with the same id are not
modelled.

### IOPack

`CIOPack` as a stream of bytes with its two storages, `m_szBuffer` and
`m_pBuffer`, and `GetBuffer` deciding by the length alone. A byte says which
part of which value it is, so a byte lost or read out of step shows. Values are
written by `operator<<` and `AddData` in up to three pieces, each of which may throw
(`Refuses`), grow the pack, or write behind a new buffer shorter than `m_szBuffer`
(`Overruns`; nothing is said from then on). `Construct` makes a pack from the bytes of
another, as the parser does from what was received, and such a pack may be written to;
`EmptyUse` and `SkipReadPos` are used as their callers use them, to write again from
the start and to go back over what was read. `Assigned` keeps a heap buffer that the
other pack does not have.

`written`, `read`, `spoilt` and `instep` are history. A pack is `spoilt` when it grew
by copying `m_pBuffer` while its bytes were in `m_szBuffer` (`Loses`), or when an
exception left a part of a value in it; it is out of step when it is read from where
no value begins: behind an unsigned short, which is written with four bytes and read
with two, or after `EmptyUse` without `Reset`. What reading gives there is not
modelled, nor are `OffestUse`, which has no caller, and `>>` into a `std::string&`,
which always throws.

### BlockingQueue

The mutex, the condition variable as its set of waiters, and the interruption,
which takes no mutex: `late` has the consumers that had tested the flag before it
was set and not begun to wait. A waiter may wake up by itself.

### MC modules

Each component has an MC module that gives its constants values for TLC and
names the symmetric sets. Symmetry is not used where liveness is checked.

### Proof modules

`TcpWorkerProofs`, `SendPathProofs`, `FramingProofs`, `BufferPoolProofs`,
`HashListProofs`, `ServerLifecycleProofs`, `MasterWorkerProofs` and
`BlockingQueueProofs` (section 4). Each EXTENDS its component's module,
`TcpWorkerProofs` the one with the refinement, `TcpConnections`.
`ServerLifecycleProofs` also has the proofs about the thread that the server
starts beside its workers, `ConnectionCheck`, and `FramingProofs` those about the
packs that frames are read with, `IOPack`; each EXTENDS both modules, so those two
name their specifications apart (`CheckSpec`, `PackSpec`), and they share no
variable. The components declare no RECURSIVE operator.

## 3. Runs

All bounds are in the `.cfg` files. Deadlock is checked for `HashList` and
`ConnectionCheck`, which have no last state; the other systems may stop:
peers have opened the connections of the bound, a process has ended, a server was
stopped, a pack was written behind its buffer.

| Run | Instance | Shows |
|---|---|---|
| Safe | `TcpConnections`: 2 handles, 3 buffers, 2 threads, 3 connections, limit 0, 1 packet each, failing posts except three sites | one owner per buffer, no client left alone, no double close, the bound of the clients, and that the server implements `Connections` |
| Live | `TcpConnections`: 1 handle, 2 buffers, 2 threads, 2 connections, 1 expiry, every post may fail; fair | nothing leaks; every connection is decided upon, dropped and closed |
| NewBuffer | 1 handle, 1 connection, 1 packet | a comment that the code does not keep (below) |
| Lifecycle | `ServerLifecycle`: both modes, 1 start, 2 stops, accepting off and on, 1 address, 2 pool threads; fair | `Stop` leaves nothing, and returns unless `WSAAccept` does not; a waiting connection is taken unless its signal is lost |
| Table | `HashList`: 2 threads, 2 nodes with different keys in 1 bucket, every operation, 1 `Clear` | the list implements `HashTable`; its locks cannot block each other |
| Pool | `BufferPool`: 3 threads, 2 of them in a bucket, 4 buffers, cache of 1; fair | each buffer in one place; the cache bounded; releases recycled |
| Framing | all streams of up to 3 frames in all pieces, 2 executing threads, failing echoes, removed clients; fair | the parser stays in step, holds nothing back, hands no packet on twice, and every packet once but with the exceptions below |
| Processes | `MasterWorker`: 2 workers, 2 crashes, failing calls or none; fair | pings and answers stay paired, no unmanaged worker serves, orphans leave their loop |
| Sends | `SendPath`: packets of 3 and 1 bytes, 2 threads, 2 connections on one SOCKET value, 4 writes; fair | nothing sent twice, every send ends, the write queue is exact: each with the exception below |
| Check | `ConnectionCheck`: 3 clients, 2 with one SOCKET value, 1 tick between the two reads, in either order; fair | who is cut, and that idle clients are |
| Trip | `IOPack`: 2 packs, 4 operations that write, 4 values of 3 kinds | what is written stays and is read back: with the exceptions below |
| Queue | `BlockingQueue`: 2 producers, 3 consumers, 3 elements, 1 spurious wake-up; fair | no wake-up is lost |

### What the properties say

**Safe.** `ExclusiveOwner`: a buffer handed out is with the port, the kernel or one
thread, never with two. `RegisteredIsOpen`: nobody closes the socket of a
registered client. `NoStrandedClient`: each client has a read under way or a thread
that attends to it. `ClientBound`: one client above the limit at most.
`CrashNeedsReissue`: the null pointer of `TCPServer.cpp:129` needs a stale
completion of an earlier connection on the same handle.
`ImplementsConnections` is the refinement of `Connections`. `Sites` are the calls
of `PostQueuedCompletionStatus` that may fail; this run leaves out three, because
the code does not survive them: after a failed `Associate` the accept thread
closes a handle that `RemoveClient` has closed already (`RegisteredIsOpen`), and
after a failed `ReadFinished` or `AsyncSend` a buffer is released that has
another owner (`ExclusiveOwner`): `DoRead` releases it and `OnReadCompleted` does
again, and if it was another client's next read by then, that client has none
(`NoStrandedClient`). It leaves out the expiry too: `Vistor` closes
the socket of a client that stays registered.

**Live** has all of these failures and the expiry. `NoBufferLeak`: every buffer
handed out is somewhere. `CountMatches`: the counter lags by the threads between
list and counter. `BuffersComeBack`: once all sockets stay closed, every buffer is
released. `ConnectionsProceed`, the fairness of `Connections`: a connection taken is
decided upon, a client whose socket was closed is dropped, the socket of one that is
gone is closed, as long as `ExclusiveOwner` holds: otherwise a client's read may be
overwritten by the next use of its buffer, and nothing notices its end.

For the components below, the invariants that belong together are checked as one
(`WorkersOK`, `ListOK`, `PoolOK`, `ParserOK`, `MasterOK`, `WritesOK`, `PackOK`), each a
conjunction of the type invariant and of the named parts that follow.

**Lifecycle.** `WorkersOK` is `EventTellsThread` (the exit event of a worker is set
exactly while its thread does not run) and `PortInUseIsOpen` (nobody uses a closed
port). `QuietWhenStopped`: after a failed start or a `Stop` there is no thread and no
open port left. `OneExitPerThread`: while `Destroy` joins, the port holds an exit for
each thread that has not ended and none beyond. `StopReturns`: the
waits of `Stop` end, but that of process mode, where `Exit` clears a flag and waits
for a thread that may sit in `WSAAccept` (`LockAccept.cpp:51,79-83`): if no peer ever
connects it waits for good. `PendingIsAccepted`: a waiting connection is taken, unless
the accept thread took its FD_ACCEPT while accepting was off (`Accept.cpp:88,109-112`):
it is `Deaf` from then on, also when accepting is on again.
One address suffices, since the accept thread works on one connection at a time; the
queue behind it was tried with two (330 000 states) and shows the same.

**Table.** `ListOK` is `LocksAreHeld` (a locked node is locked by a thread inside the
list), `SizeCounts` and `NothingIsMissed`, which is the invariant behind the
refinement `ImplementsTable`: what a traversal has to find is behind it or ahead of
it, also when it stands on a node that was unlinked. Two threads and two nodes
suffice for that: one thread stands on a node, the other unlinks it or its neighbour
and adds it again.

**Pool.** `PoolOK` is `OnePlace`, `SizeCounts`, `UnderflowNeedsSharing` (the unsigned
counter follows the cache, and where it wraps a second thread had to share the
bucket) and `NothingLeaks` (the destructor frees every buffer). `CacheIsBounded`: the
cache is above its limit by the threads that passed the test together; a cache of
one, with three threads, lets all of them pass it. `ReleasedIsRecycled`: a buffer
released while another thread holds its node comes back all the same.

**Framing.** `ParserOK` is `InStep` (the frames come out one after the other, however
the stream is cut), `ReadHasRoom` and `BufferIsBounded`. `NothingIsHeld`: no complete
frame stays in the buffer while a read is under way. `HandedOnce`,
`EveryPacketIsHanded`: the hand-over to the threads. Two kinds of packets are not
handed on, and the connection has ended with them: those at or behind an echo that
failed (`CommonProtocol.cpp:100-104`), and the packets before a bad frame, or before
a next read that could not be posted, when the server has a call-back, which is denied
their list. That a client is removed by
another thread loses none. Body lengths 1, 4, 5 and 14 make frames that fit the
buffer, that fill it, that make it grow, and that exceed the limit; pieces are of any
length. With these every comparison of the parser has both outcomes, and three frames
let a read begin and end inside different ones.

**Processes.** `MasterOK` is `NoStrayWorker` (who serves is on the list; every process
that runs is, but for the one being started and those that `KillProcessByPID` failed
to end, whose result `Master.cpp:57` does not look at), `SendNeverBlocks` and
`EndsWithoutWorkers` (the loop of the master never ends while it has workers).
`AnswersArePaired`: no answer is left over that the next ping could take for its own.
`OrphansEnd`: a worker notices that its master is gone and leaves its loop. A worker
that never served ends; one that serves does not until a peer connects: `~CTCPServer`
waits for a thread in `WSAAccept` (`TCPServer.cpp:27-30`, `LockAccept.cpp:51`).
`EveryListedServes` excepts a crash or a failing call: a worker that died before it
got the socket ends the loop of `Master.cpp:67` for those behind it. `PingIsAnswered`
excepts the worker that has left its loop: `Pong` takes a timeout and does not use it.

**Sends.** After a partial write the rest is sent from the wrong place, and its
completion is taken for a partial write again (`CommunicationWorker.cpp:238`). So
`SentOnce` (in `WritesOK`) and `EverySendEnds` except packets that were written in
part, while `SendsWithinData` (in `WritesOK` too) holds for those as well.
`QueueIsExact` excepts clients for whom a thread worked on a write of an earlier
holder of their SOCKET value.

**Check.** `OnlyIdleIsCut`, `IdleIsCut`. In `IsExpired` the compiler may read the clock
or `m_dwLastTime` first; the run has builds of both kinds. Where the clock is first, an
`UpdateTime` between the reads makes the unsigned difference huge and a busy client is
cut: `OnlyIdleIsCut` names that race as the only way a client is cut that was not idle
(without the exception the run fails). The third client may come to the SOCKET value of
the first, and lose its socket in its place if the first has left the table while it
was visited: the property's second part says that nobody else does.

**Trip.** `PackOK` is `BytesAreKept` (growing, copying, assigning and emptying lose no
byte of what was written) and `RoundTrip` (the next value is read as it was written).
A length of 9 starts on the heap, 0 in the object; packs made from others may be as
short as one byte, and four operations are enough to make one, write to it and grow it
twice. Excepted are the packs known to have lost bytes, and the reads out of step. A
pack made from a few bytes may grow to the very length of `m_szBuffer`, with a heap
buffer nobody looks at; when it grows again that buffer is copied and the bytes are
lost. (If it grows to less, `Overruns`.) The same happens to one on the heap that is
assigned a short one and then grows. The echo loop writes to a pack made from the
received bytes (`CommonProtocol.cpp:32, 97-98`), but no more than it was made from, so
that one never grows; without exception the run fails.

**Queue.** `NoLostWakeup`: while consumers wait, each element has a `Put` about to
notify or a consumer awake. `NeverPopsEmpty`, `ElementIsTaken`. `InterruptWakes`: an
interruption misses only consumers that had tested before it and not begun to wait.
Three consumers and two producers make the notification of one producer overlap with
an element taken by a consumer that never waited.

**NewBuffer** is expected to fail: `ProtocolAnalysis.h:23` says that a *new* buffer
can be posted before the packets are worked on, and `DoRead` posts the buffer they
came in.

### Why the bounds are enough

Every property of the core concerns one buffer, one handle or one client. The
interleavings that could break it need two pool threads (two removals of one
client), the accept thread beside them, a handle that is reissued to a second
connection while operations of the first are queued, and another client beside it
(for the limit and the double close). A client has at most one read and one write
per packet under way. The mutants in `PROJECT.json`, one for each property, are
found on these instances.

### Fairness

| Module | Assumed fair | Why the code justifies it | Not assumed |
|---|---|---|---|
| `TcpConnections` | each pool thread, the accept thread inside a connection, the kernel's completion of operations on a closed socket | no step of a handler waits; `CancelIo` and `closesocket` promise it | peers, the timer, new connections |
| `ServerLifecycle` | each step of the owner, the workers and the pool threads; a queued exit is taken (strong, the port is a queue); the signal of the listening socket | the other threads wait for events and threads, which the guards say; `CLockAccept` waits in `WSAAccept`, which is not fair without a peer | that anyone calls `Start` or `Stop`, connections |
| `BufferPool` | a thread inside a call | a call waits for spin locks only | that calls are made |
| `Framing` | the steps of reading, parsing, executing; the end of a read whose client is gone | no step waits; the socket of a removed client is closed | that the peer sends, that echoes succeed or fail, that clients are removed |
| `MasterWorker` | each process | waits are part of the guards | crashes and failures never have to happen; that `~CTCPServer` of a serving worker returns |
| `SendPath` | each thread, the kernel | as above | packets, connections |
| `ConnectionCheck` | time and the check | the check sleeps, nothing else | clients |
| `BlockingQueue` | a thread inside a call, strongly; `notify_all` | a mutex that is free again and again is got in the end | that calls are made |

## 4. Proofs

Each proof module rests on the named `ConstantsAssumption` of its component
(`CheckAssumption` of `ConnectionCheck`, `PackAssumption` of `IOPack`): sets
of handles, nodes, threads, producers and consumers are finite, bounds are natural
numbers, special values are distinct. The theorems hold for every size of those
sets and every bound.

Every invariant and every other safety property that a run checks is proved, the
two refinements among them.

| Theorem | States | If |
|---|---|---|
| `TcpWorkerProofs!TypeCorrect` | `Spec => []TypeOK` | |
| `TcpWorkerProofs!NothingLeaks` | `Spec => []NoBufferLeak` | |
| `TcpWorkerProofs!CounterAgrees` | `Spec => []CountMatches` | |
| `TcpWorkerProofs!ClientsBounded` | `Spec => []ClientBound` | |
| `TcpWorkerProofs!SocketsStayOpen` | `Spec => []RegisteredIsOpen` | `MaxExpiries = 0`, posting `OP_IOInitialize` never fails |
| `TcpWorkerProofs!BuffersHaveOneOwner` | `Spec => []ExclusiveOwner` | `LatePostsSucceed` |
| `TcpWorkerProofs!NobodyStranded` | `Spec => []NoStrandedClient` | `LatePostsSucceed` |
| `TcpWorkerProofs!TcpImplementsConnections` | `Spec => ImplementsConnections` | |
| `TcpWorkerProofs!FirstConnectionIsSafe` | `Spec => []CrashNeedsReissue` | |
| `SendPathProofs!WritesAreSound` | `Spec => []WritesOK` | |
| `SendPathProofs!QueueCountsWrites` | `Spec => []QueueIsExact` | fewer packets than a `UINT` counts |
| `FramingProofs!ParserAgrees` | `Spec => []ParserOK` | |
| `FramingProofs!NoFrameWaits` | `Spec => []NothingIsHeld` | |
| `FramingProofs!NoPacketTwice` | `Spec => []HandedOnce` | |
| `FramingProofs!PacksKeepTheirBytes` | `PackSpec => []PackOK` | |
| `HashListProofs!ListIsSound` | `Spec => []ListOK` | |
| `HashListProofs!ListImplementsTable` | `Spec => ImplementsTable` | |
| `BufferPoolProofs!PoolBooksAgree` | `Spec => []PoolOK` | |
| `BufferPoolProofs!CacheBounded` | `Spec => []CacheIsBounded` | there is a thread |
| `ServerLifecycleProofs!WorkersConsistent` | `Spec => []WorkersOK` | `MaxStarts <= 1` |
| `ServerLifecycleProofs!NothingRunsWhenStopped` | `Spec => []QuietWhenStopped` | `MaxStarts <= 1` |
| `ServerLifecycleProofs!ExitsMatchThreads` | `Spec => []OneExitPerThread` | `MaxStarts <= 1` |
| `ServerLifecycleProofs!ChecksTypeCorrect` | `CheckSpec => []CheckTypeOK` | |
| `ServerLifecycleProofs!NobodyElseIsCut` | `CheckSpec => OnlyIdleIsCut` | none: either order of the reads, any `HandleOf` |
| `MasterWorkerProofs!MasterInCharge` | `Spec => []MasterOK` | |
| `MasterWorkerProofs!PingsArePaired` | `Spec => []AnswersArePaired` | |
| `BlockingQueueProofs!TypeCorrect` | `Spec => []TypeOK` | |
| `BlockingQueueProofs!PopsAnElement` | `Spec => []NeverPopsEmpty` | |
| `BlockingQueueProofs!InterruptReaches` | `Spec => []InterruptWakes` | |
| `BlockingQueueProofs!WakeupsSuffice` | `Spec => []NoLostWakeup` | |

The conditions are the code's own: where one fails, sections 3 and 6 say what goes
wrong. `LatePostsSucceed` is that the posts of `DoRead` after a read and of
`AsyncSend` succeed. `MaxStarts <= 1` is what the callers do
(`IOCPServer/IOCPServer/Main.cpp:25`; `WorkerTaskCommand.cpp:86`, once for the one
socket the master sends): a second `Start` after a `Stop` finds `m_bRunStatus` still
set and makes no thread. The bound of the cache is `E_BUFFER_CACHE_SIZE` and the number of
threads less one, which means nothing without threads.

### TcpWorker

**Types and buffers.** `TypeOK` gives a thread's locals their types but does not
relate them, and `NoBufferLeak` is lost at once when, say, a thread reaches
`ReleaseBuffer` with no buffer in its hands or `AsyncSend` with a return address
that forgets it. The invariant proved is `NoBufferLeak` with `IInv`, which is
`TypeOK` and, for each thread, `WorkOK`: which buffer, key and return addresses go
with each label. The lemmas about `Remove`, `Echo` and `Return` show that the
control flow keeps `WorkOK` and that the thread still owes what it owed;
`StepKeeps`, `PostKeeps` and `QuietKeeps` reduce an action to one of three shapes
(a thread moves on, a thread posts its buffer, nothing of the ownership changes);
then there is one lemma per action, and `NextOK` assembles them.

**Counter and bound.** `CountMatches` is inductive once one knows that only the
accept thread is ever in `AssociateIncomingClientSocket` (`OnlyAcceptor`) and has a
connection number in hand there (`Accepted`). `ClientBound` is not: between
`IsAccept`, where the counter is read, and `AddClient` the test must still be good.
`RoomForOne` says so. It holds since the counter never lags behind the clients at
`IsAccept` (only the accept thread counts up, and it is not counting then) and
every other thread only takes clients away. A step either leads into pool code and
counts nothing (`Plain`), or is one of the few that change the table or the
counter.

**Sockets.** `RegisteredIsOpen` needs what goes on off the table: a thread between
taking a client out and closing its socket is the only one for that handle, and the
handle is still open and has no client (`RemovesItsOwn`); a handle the accept
thread has just been given has no client and nobody about to close it
(`AdmitsFresh`); and the accept thread itself never removes a client
(`AcceptorRemovesNone`). The two conditions of the theorem are used at exactly two
steps, `Vistor` and the failing post of `Associate`; section 3 says what goes wrong
there.

**Owners.** `ExclusiveOwner` is inductive together with `ReleasesLast`: the return
address that leads from a release back into the echo loop is only set where the post
of `DoRead` fails, which is the condition; everywhere else a release is the last
thing a thread does with its buffer. `NInv` is `NoStrandedClient` made precise:
`KeepsIn` says place by place which thread still sees to a client, and leaves out
those that have done so. A step takes the read of one client, and `OthersKeep` shows
that it leaves those of all the others, since each buffer has its one owner.

**The life of a connection.** A step of `TcpWorker` does one of a few things to the
tables and the accept thread (`ClosesOne`, `DropsOne`, `TakesOne`, `AdmitsOne`,
`GivesUp`, `Crashes`, or nothing): one lemma per action. Each of these is a step of
`Connections` or a stutter if a connection is registered under one handle and open
on one handle only, no connection from the future is, and the one the accept thread
still decides upon is not registered (`MInv`, inductive). For the first connection
`QInv` says that port, kernel and pool rest until it is associated.

### The other components

**SendPath.** `SInv` says where each packet is: once on the port, with the system or
with a thread (`Apart`), with the operation that goes with the place (`PortOK`,
`KernelOK`, `ThreadOK`), and written already or still to be written, never both
(`WireOK`), unless a part of it was. `Enough` carries the size of a write from the
system to the test of `OnWriteCompleted`. `QueueIsExact` counts the writes of a
client; a step adds or removes one of them and the counter follows. The bound on the
packets keeps the unsigned counter from wrapping upwards.

**Framing.** `BufferInv` puts the parser where the frames taken so far end
(`PlaceOK`), says that no frame behind it is there in whole while a read is under
way and after the loop (`NotLate`), and that a read has room and the buffer grew only
when a frame shorter than the limit filled it (`RoomOK`, `LoopOK`). That frames do
not overlap is a fact about the stream, for streams of any length: `InOrder`, by
induction, for which `NaturalsBySet` gives a rule with a set in the place of the
predicate, from the library's theorem on minimal elements. `HereIsNext` concludes
that the frame whose header is read is the next one. `PacketsOK` keeps the batches of the threads,
the list being filled and the packets handed on apart; a new packet is above all of
them, since it is the next one. A failed echo takes a whole batch away from them.

**IOPack.** `PackInv` says of each pack that its positions are within its length and
that, if it is longer than `m_szBuffer`, it has a buffer on the heap of that length
(`Packed`), which is what makes `GetBuffer` right to decide by the length alone. A pack
that is not spoilt has places where the values written end, the last at `m_nUse`, with
each value's bytes between two of them (`Cuts`, `Holds`), and if it is in step one of
them is at `m_nPos` (`Fits`). `ResizedIs` and `GrowingKeeps` are about
`GenerateNewBuffer`: the bytes are copied unless the pack `Loses` them. `AddingKeeps`
is about one piece of a value, `WriteGoesOn` and `AddToWrites` put the pieces together
with the exceptions between them, `DataIsKept` is about the constructor. `AheadIs`
shows that what a read finds is the value's bytes, `ReadIsSound` that the read then
neither throws nor answers anything else, `SkipIsSound` that skipping back ends where
the value before began. That those places are the recursive function `Ends` of the
property is `EndsAre`, once more by `NaturalsBySet`.

**HashList.** What a traversal has before it is a reachability, `Reach`, the least
set that the links do not lead out of; the first lemmas say how it changes when one
link does. `IInv` has the shape of the lists (`ShapeOK`: nodes behind a head belong
to its bucket, no chain is circular, none runs into another) and four kinds of nodes:
new ones, known to the thread that adds them alone (`NewOK`); linked ones; marked
ones, each in the hands of the one writer about to unlink it (`MarksOK`); and those
cut off, which are in no list but may keep a link into one (`CutOK`). A writer has
its list to itself since it holds the lock of the head, which `LocksOK` derives for
every lock from the place of the thread that holds it; it implies `LocksAreHeld`.
`LookupsOK` strengthens `NothingIsMissed`: whatever a lookup must answer it has found,
or it is before the lookup, or in a bucket still to come, and all it has found it may
answer. The step that matters is the unlinking of a node on which a traversal
stands: the node's own link stays, and what it reaches is what the list has behind it.
`SizeCounts` is about cardinalities, and each change of the counter pairs with the
thread that has linked or unlinked a node and not counted it yet.

The refinement follows from the same invariant. A node enters the table with `Link`
and leaves it when it is marked, or popped, and with `FreeList` a bucket is emptied;
a lookup begins with its call and ends where it returns, and `LookupsOK` says that
the answer is one that `HashTable` allows. Each other step leaves the table
unchanged: so does the unlinking itself, since the node was marked before.

**BufferPool.** `PInv` says where every buffer is: `ThreadOK` (what a thread at each
place has in its hands), `RefsOK` (who holds a node), `SetsApart`, `ThreadsApart`,
`NoneLost` (a released buffer has a holder or a thread that destroys it) and
`Stopped`. The counters are cardinalities of those sets; `StillCached` finds the
bucket mate that an underflow needs, and `Passed` counts the threads between test
and insertion, which is the bound of the cache.

**ServerLifecycle.** `SInv` has for the owner, by its place, which workers may be
alive and whether a port is open (`OwnerOK`), that a port in use is open and a
closed one has no thread (`PortsOK`, `PoolThreadsOK`), for each worker that its event
is set exactly while it does not run (`WorkerOK`), and that nothing exists before
the first `Start` (`Fresh`).

**MasterWorker.** `InCharge` describes the two queues of a worker completely: `Quiet`
or `Pinged` by whether the master waits for that worker's answer, and for a worker
that is not on the list that it ended, is the one being started or was spared (`Pair`,
`MasterPlace`). `UnlistedUntold`, which outlives the master, keeps the socket out of
the queue of a worker that is not on the list. Crashes at any moment and failing calls
are covered.

**Blocking queue.** `MutexOK` says who holds the mutex at which label, so that no two
threads are between lock and unlock. With it `SizeOK` (a consumer about to pop has
seen an element, one about to wait has seen none) and `LateOK` (whoever is about to
wait after the interruption had tested before it) are inductive; `BoundsOK` adds what
`TypeOK` still lacks. `WakeOK` is the count behind `NoLostWakeup`: elements are at
most the puts still to notify and the consumers awake. Each step that lowers the right
side lowers the left, or sets or meets a state without waiters; `FS_*` lemmas of the
library count the two sets.

**Connection check.** `TimeIsKnown` relates what a visit has read to the idle time at
that moment (`lastRead = seen`; with the clock first, the client's time is no younger
than that read unless it was set since), `ElapsedIsTime` shows that the unsigned
subtraction is then the true one, and `Quotient` turns the test on whole seconds into
a bound on ticks. `HandleIsItsOwn` says that a client in the table shares its SOCKET
value with no open connection, so that only a client that has left can take another's
socket with it.

The strengthened invariants were checked by TLC on instances of the components
before they were proved.

### Model-checked only

- Every liveness property, since fairness and ENABLED are out of the prover's reach:
  `BuffersComeBack`, `ConnectionsProceed`, `StopReturns`, `PendingIsAccepted`,
  `ReleasedIsRecycled`, `EveryPacketIsHanded`, `PingIsAnswered`, `OrphansEnd`,
  `EveryListedServes`, `EverySendEnds`, `IdleIsCut`, `ElementIsTaken`.

## 5. Plan

Nothing that the provers can reach is left of the properties the runs check. A change
of the code is a change of the definitions that `PROJECT.json` maps to its lines; the
runs come first, then the lemma about that action. Worth adding next is not a proof:
frames whose header lies about their body, and what the echo then writes (section 6).

## 6. Not modelled

**Components.** Singletons (`Sington.h`): only first calls at the same time are of
interest, and the list of clean-ups that all types share without a common mutex is
written at start-up in this program. Object factory: nothing creates an object
through it. Logging, paths, error texts, string conversion, the display of
processes, socket options: pure input and output, with no state that a model
checker would tell apart.

**Inside modelled components.**

- `TcpWorker`: the call-backs that nobody sets; contents and lengths (in `Framing`
  and `SendPath`). `SendPath` removes a client in one step.
- `HashList`: a `shared_ptr` is copied at once; the hash functions are constants.
- `MasterWorker`: the exit exchange of `UnInit`, which needs workers on the list when
  `Run` ends; queues left behind by an earlier process with the same id.
- `Framing`: frames whose header lies about the length of their body.
- `IOPack`: `OffestUse`, which has no caller; `>>` into a `std::string&`; what is read
  from a place where no value begins, or from a pack that lost bytes.
- `BufferPool`: `InitCache`, which nobody calls.

**Seen in the code, without a run of their own.** The limit of clients may be
exceeded by one (`ClientBound` states it). `AddClient` can meet the client of an
earlier connection on a reissued handle. A second `Start` after a `Stop` sees
`m_bRunStatus` still set and creates no thread. The blacklist is hashed by the
thread that writes it. An FD_ACCEPT that is taken while accepting is switched off
is not signalled again. `Pong` does not use its timeout, and a worker waits without
one for its first ping. A partial write sends bytes again. A posted packet may
reach the next holder of a SOCKET value, and sends of several threads may overtake
one another. The check may cut a busy client (the clock read first) or one on a
reissued handle. An unsigned short is written with four bytes and read
with two. Each is the exception of a property in section 3 or a hazard in
`PROJECT.json`.
