# Specifications of AsioNetMiddleware

TLA+ models, model-checking configurations and machine-checked proofs for the
C++ networking middleware in `src/AsioNet` and the connection of its Unity client
in `src/CsNetwork`. Everything is translated from the source; `PROJECT.json` maps
each definition to the lines it stands for.

## 1. The system

AsioNetMiddleware is a proxy between game clients and game servers, and the
libraries that both ends link. The parts, the state each keeps, what can be done
to it, and whom it talks to:

| part | state | operations | talks to |
|---|---|---|---|
| `basic_async_session` | `_state`, socket, receive buffer, retry timer, tick timer, clocks, session logic | connect, accept, receive loop, send, close, kick, tick | its strand, its logic, whoever owns it |
| session logics (`default_`, `client_`, `server_`, `active_server_`, `inner_session_logic`) | authentication state, sequence numbers, peer ids, key | unwrap, wrap, `try_copy_to_storage`, kick peer | session, `proxy_manager`, storage |
| `proxy_manager` | three maps of sessions (unmanaged, client, server), acceptor, clean-up timer | accept, authenticate, move to managed, send, kick, clean up | sessions, `SafeHashMap` |
| `active_server_session_mgr`, `inner_pair_session` | one session, one storage, the head read last | start, send, `pick_msg`, stop | session, ring buffer |
| `RingBuffer` | slots, two indices | `tryWrite`, `tryRead`, `tryReadShift`, `count`, `full`, `empty` | one producer thread, one consumer thread |
| `SafeHashMap` | a map and a recursive mutex | insert, erase, try_get, complex_operation | `proxy_manager` |
| `ThreadCacheContiner`, `ThreadWrapper` | per-thread caches, listeners of thread ends, two mutexes | get, clear, register, end of a thread | object pools |
| `Spinlock`, `ObjectPool`, `ThreadSafeObjectPool` | lock word and owner, stack of free objects | lock/unlock, get/release/clear | every buffer, head and job agent |
| `async_job_executor`, `job_agent` | io_context, strands, threads, references | start, stop, destruction, strand of a uid | sessions, acceptor, pools |
| wire protocol (`protocol`, `proto_mask`, `rc4`, `buffer_read`) | none | pack, unpack, mask, crypt | session logics |
| `CsNetwork` (C#): `SocketClient`, `BlockPool`, ring buffer, serializer | current and last state, socket, threads, the flag of the pool | `Connect`, `Send`, `Tick`, callback of `BeginConnect` | the proxy |
| WLog, JsonUtils, compression, vendored asio, rapidjson, zlib | I/O, text, third-party code | | |

How they interact. A session's socket and timers are built on one strand of the
executor, so that their handlers never overlap; everything else calls a session
from outside the strand: the thread that accepts it (`passively_connect_succ`,
`start_tick`), threads that send, and managers that kick. A handler that has
received data takes whole frames off the buffer, gives each to the logic and
stores it in the ring buffer, from which the application's thread picks messages
without a lock. A full ring arms a retry timer. An executor is kept alive by its
owner, by its threads and by the agents of sessions, which are pooled.

What is hard here: calls from other threads between two handlers; completions
and timers in any order; handlers of cancelled operations, which still run; the
lifetime of a session, which is held by handlers and by its owner but not by its
tick, and of an executor, whose last reference may go on its own thread; pooled
objects that come as they were left; the lock-free hand-over of records; a
sequence number that several threads increment; unsigned arithmetic on sizes.
`PROJECT.json` lists the hazards, each at its line.

What makes each part correct:

* session: one receive loop on a sound buffer, one tick chain, a life that only
  goes forward, an open descriptor as long as it is not `CLOSE_DONE`, silent
  peers and errors end it;
* ring: a FIFO; storage: whole records, picked in order;
* manager: a session is in the map that fits its logic, and closed sessions go;
* link: numbers in step at both ends, an answer that fits the verdict;
* executor: a session runs on the executor it asked for, a destructor waits for
  nobody, posted handlers run;
* caches, pools, locks: no object handed to two owners, no deadlock, no unlock
  of somebody else's lock;
* Unity client: `Connected` is announced and true, and the machine settles.

## 2. The modules

| module | models | configuration |
|---|---|---|
| `BasicAsyncSession` | `basic_async_session.{h,cpp}` with the strand, the kernel and the peer | `Session_*.cfg` |
| `SpscFifo` | what a ring buffer promises | (used by `RingBuffer`) |
| `RingBuffer` | `RingBuffer.h`, two threads, element by element | `Ring_counted.cfg` |
| `MessageStorage` | `try_copy_to_storage` and `pick_msg` of both users of the ring | `Storage_both.cfg` |
| `ProxyManager` | `proxy_manager`, `default_session_logic`, `SafeHashMap` and the pool of logics, on several threads | `Proxy_*.cfg` |
| `ThreadSafeObjectPool` | `Spinlock`, `ObjectPool`, `ThreadSafeObjectPool`, `ThreadCacheContiner`, `ThreadWrapper` | `Pool_threads.cfg` |
| `Wire` | the head and the mask of a frame | (used by `ServerLink`) |
| `ServerLink` | a game server and the proxy, with the streams between them | `Server_link.cfg` |
| `Executor` | `async_job_executor`, `job_agent`, `ThreadWrapper`, and who holds them | `Executor.cfg` |
| `CsSocketClient` | `SocketClient.cs` and `BlockPool.Instance` | `Cs_client.cfg` |
| `BasicAsyncSessionProofs`, `RingBufferProofs`, `MessageStorageProofs`, `ProxyManagerProofs`, `ThreadSafeObjectPoolProofs`, `ServerLinkProofs`, `ExecutorProofs`, `CsSocketClientProofs` | theorems about the module they are named after; those about `Wire` are in `ServerLinkProofs` | proofs only |

The specifications are checked directly: constants get their values in the
`.cfg` files and there are no wrapper modules. Where a module has several
programs to consider (a session of the proxy or of a game server, the executors of the
proxy or of inner pairs), the choice is a variable that `Init` sets and nothing
changes, so that one run covers them all. Operators named `W_...` are wrong
variants of the definition behind them (a dropped guard, a missing reset, an
off-by-one); nothing uses them, and replacing the definition by its variant must
break the property `PROJECT.json` names.

How the modules fit together. `MessageStorage` uses the ring as the FIFO that
`RingBuffer` is shown to implement. `ServerLink` sends frames of `Wire`, and takes
from `BasicAsyncSession` that handlers of a session do not overlap and that its
stream delivers in order. `ProxyManager` decides who passes an authentication;
`ServerLink` follows a game server that does. `Executor` stands under all of them: it
is what runs their strands.

### BasicAsyncSession

The strand is a sequence of ready handlers; running its head is one step. What
is still in the kernel is kept apart (`reads`, `writes`, `retry`, `tick`,
`opc = "connecting"`) and joins the strand when it completes. Correspondence:

| code | model |
|---|---|
| whose session it is | `program`: accepted by the proxy, or connected by a game server |
| `_state` | `state` |
| `_sock.is_open()`, before, during and after | `sock` = none, open, closed |
| `_recv_not_entire` null or not, and its `length` | `hasBuf`, `len` |
| an outstanding `async_read_some`: its offset, and whether its buffer is still the session's | `reads` |
| an outstanding `async_write_some`: whether its callback kicks | `writes` |
| `_timer`, `_tick_timer` armed | `retry`, `tick` |
| `_keep_alive_frame_count` | `frame` |
| now − `_last_recv_time`, now − `_last_send_time`, in tick intervals | `idleRecv`, `idleSend` |
| `shared_from_this()` captures and the owner's pointer | `Alive`, `owned` |
| undefined behaviour (null buffer, wrapped capacity, destroyed session) | `fault`, behind which nothing runs |

The program decides what its logic may do: the proxy's stores never fill and its
managers kick; a game server's storage may refuse a message, nobody kicks, and the
owner may let go.

Every handler is one action that does all its body does: the read handler adds
to the buffer, picks every whole frame, compacts, reads again; the tick handler
evaluates the keep-alive and arms itself. `close()` is an operator, the early
return or one posted handler. `clear_all_timer()` turns armed timers into ready
handlers, because a cancelled wait completes with an error; the retry handler
looks at it, the tick does not.

Calls from outside the strand are actions that may come between any two
handlers: `passively_connect_succ` and `PassiveStartTick` are two steps of the
accepting thread, `async_send` and `async_send_issue` the check of `_state` and
the write behind it. `async_send_multi` does the same with two buffers.

Abstractions: bytes are units (`F` to a frame, `Cap` to the buffer); a message
the logic refuses or consumes is a frame like another; time advances when a
tick fires. The model lets a manager kick a session as soon as it is connected,
which includes sessions that have not been authenticated yet and that no manager
would know: more behaviour than the code has. In one place it has less: `kick()` itself looks
at no state (`basic_async_session.cpp:207-213`), while the model has no kick in `INIT`
and `WAIT_CONNECT`, as managers know connected sessions only; what a callback bound to a
stale raw `this` might kick is left out. So is the exception of `remote_endpoint()` in
`get_remote_ip()` (line 203), as exceptions are everywhere in the C++ modules.

### RingBuffer and SpscFifo

Each copy of an element and each store to an index is a step. The indices are
plain `size_t`, so a build may store the result of `+=` before that of `%=` (an
unoptimised one does) or the second only; `SplitStores` says which. `RefinesFifo`
maps the slots from `readIndex`, `count` of them, to the abstract
queue: a block is stored when `_writeIndex` moves, taken when `_readIndex` moves,
and the wrap behind it must change nothing that either side computes. Between two
different stores the code orders nothing; program order is assumed (x86, and
`char` elements that may alias the indices). `Counted` is the contract the class
needs: `tryRead` tests for an empty ring only, so a consumer must not ask for
more than `count()`.

### MessageStorage

Since `RingBuffer` implements `SpscFifo`, the storage is a queue here and every
`tryWrite`/`tryRead` a step; taking more than is stored leaves that contract and
is the fault `overread`. `reader` is the pair of classes.
`try_copy_to_storage` is one test for room and then a write per part;
`pick_msg` is its tests and reads one by one, with what uninitialised variables
and a pooled head hold chosen freely. There is no caller of `pick_msg` in the
repository, and `_storage` is private: the model lets the application call it at any
time, with whatever is stored. `picks` counts the messages copied to the caller; the inner
pair's `pick_msg` returns `false` for each of them (`inner_pair_session.cpp:114`). `blind`
records that a head was read when nothing was stored.

### ProxyManager

The acceptor's thread and a strand for every session, each with a program
counter. An authentication request is the only frame an unverified session's
logic reacts to; its calls into the manager are steps, because other strands
work on the same maps, and because sessions may share a uid (`clock()`), each
other's sessions.

| code | model |
|---|---|
| `_un_managed_sessions`, `_server_sessions` | `unmanaged`, `server`: uid to session |
| `_logic` of a session | `logic`: a pooled object, `ServerLogic` or none |
| `_authentication`, `_session_holder` of a `default_session_logic` | `auth`, `holder` |
| the free objects of the pool | `pool` |
| the member function a strand runs, `s_s` and `origin_logic` | `this`, `found`, `origin` |
| who asked for what, who was answered what | `asked`, `answer` (history) |

`SafeHashMap` is modelled as it behaves: `erase` leaves a key that is there, and
`complex_operation` runs no handler. So no client ever finds a server, the client
map stays empty, and `client_session_logic` never comes into being; the branch
behind a found server is left out. Each map operation is one step: the look-up
before the lock is a data race inside `std::unordered_map`, below this model.
A session's connection is open or closed; what leads from one to the other is
`BasicAsyncSession`'s. `clean_up_closed_session` is an action that stutters,
since its handler never runs; it is there for the liveness run.

### ThreadSafeObjectPool

One container of caches, for one type of object, and any number of threads that
get objects, drop the last reference to one (the deleter looks for the cache of
the id that got it, on whatever thread it runs) and may end. Every lock taken,
test and access is a step; a thread's call is the record of where it is and what
it carries.

| code | model |
|---|---|
| `GET_CURRENT_THREAD_ID` | `IdOf`: the thread, or 1 for all of them where `sameId` (Linux, `getpid()`) |
| `_threadIdMap`, `_pidListenerMap` | `threadIdMap`, `listeners` (how many) |
| `_mut`, `_mapMut` | `mut`, `mapMut`: who holds them |
| caches constructed and deleted | `made`, `live` |
| `_pool`, `lock_variable`, `owner` of a cache | `stack`, `locked`, `owner` |
| the id a deleter has captured | `out` |
| locals of a call; the listeners still to be called | `pc`, `op`, `key`, `use`, `item`; `left` |
| null cache, `top()` of an empty stack, deleted cache, `assert(false)` | `fault`, behind which nothing runs |

`quiet` is about the program that uses the pool: a thread ends only when nobody
has an object of its id or is using its cache. Nothing in the code arranges for
that; `NoFault` needs it, the lock and ownership properties do not.

A thread that waits for a mutex has no step until it is free, and the spinning
`compare_exchange_strong` is a step when it succeeds. `unlock()` is one step: it
reads the two atomics of a lock that only its owner can change.

Left out: the data race of the look-up without `_mut` inside
`std::unordered_map`, `_count`, which nothing reads (and `clear()` miscounts),
and constructors and destructors of pooled objects that use other pools (for
job agents see `Executor`).

### Wire

A frame is its length, mask, command, sequence number and the sum of its data: the
total of the 16-bit words `mask_off_32()` makes of it, which is all the mask
depends on. `HeadOctets` is the packed head in memory on a little-endian machine, and
`get_mask` the deferred carries of `proto_mask.hpp` on the words of head and data.
What carries are lost and how often they are folded is translated, not the
mathematics of a one's complement sum.

### ServerLink

| code | model |
|---|---|
| `_state` of the game server's session | `state` |
| threads inside `wrap_to_send_data()`, and their frame | `pc`, `len`, `cmd`, `old`, `new` |
| `_seq`, `_authentication` of `active_server_session_logic` | `gSeq`, `gAuth` |
| the TCP streams | `up`, `back` |
| the logic of the proxy's session and its members | `logic`, `pSeq`, `pAuth` |
| that sends have overlapped, that one has undone another's `++_seq` | `raced`, `lost` (history) |

`++_seq` is a load and a store, and the number that goes into the frame is the value
stored or, where the build reads the member again, what is there by then.
The strand of the session sends the request and keep-alives, `App` the messages.
The proxy is one action per frame: both logics count every frame, refused or
not, and refuse those with another number. Data that are no request but come
first are read as one; what is found in the place of the type decides. `eager` is
the application that sends before it has the answer.

The model takes a frame as a whole: the short writes of `async_write_some`
(`basic_async_session.cpp:142`) are left out, as are frames the proxy sends on behalf of
clients, of which there are none.

### Executor

| code | model |
|---|---|
| the `shared_ptr`s to an executor: of its manager or pair, of its threads (`self`), of agents (`_owner`) | `owned`, `SelfHeld`, `owner` |
| `_io_context.stop()`, the destructor | `stopped`, `destroyed` |
| a thread: in `run()`, returned from it, behind `beforeDestroyThread()` | `pc` |
| the pool of `job_agent`s, one for the process (the ids of threads are the same on Linux) | `pool` |
| `_job_agent` of a session, and the executor its maker passed | `agent`, `asked` |
| `_acceptor_job_agent` | `kept` |

Each reference that goes is a step, and `Destroy` says which executors go with it.
`Serve` runs the next handler of a session on a thread of the executor of its
agent, which need not be the one that was asked for. A thread holds its executor until it
is behind `beforeDestroyThread` (`SelfHeld`), so a destructor never waits for another thread:
that is how the code is built, and no property repeats it.

### CsSocketClient

The main thread's `Connect()` and `Tick()` are steps from one access of `State` or of the
socket to the next, as no lock spans two of them; the callback of `BeginConnect` on
its pool thread likewise (`cb`). `sock` is what the network and `Close()` have made of
each socket, of which `AsyncConnect()` makes a new one each time without closing
the old. `program` is what the game's connect action does: it writes a line, or it
sends a token, in which case it meets `BlockPool.Instance`. `slipped`, `overlapped` and
`outrun` record the races that the properties except: `State` changed between lines 173 and
174; a callback that would store `StateConnected` had its socket closed or replaced before it
did; the callback of an old socket stored while `AsyncConnect()` was between its own store
(line 92) and the new socket (line 100).

## 3. What is checked

Properties that hold:

* `session_both`: a session of the proxy and one of a game server. Two-unit
  frames in a buffer of three, so that frames arrive torn and the buffer can be
  full with a partial frame; a kick, a write and senders in flight, two reads and
  up to four handlers waiting, so that the retry timer runs beside the receive loop.
  `ReadLoopAlive`, `OneTick`, `SocketMatchesState` and `StateNeverRegresses` are
  asked of both; `OneReadAtEnd` and `NoFault` of the proxy only, since with a
  storage that fills they do not hold: when the retry handler runs while a read is
  outstanding, `pick_entire_msgs` starts a second one at the same offset, and if
  the picks emptied the buffer it is reset under the first. Deadlock is not
  checked, since a fault or the end of the session stops it.
* `session_live`: under fairness, a session of either program whose peer is silent is
  dropped, and every error of a read, a write or a connection ends in a closed socket, as
  does a retry wait that a second full storage cancels: two reads and
  two receive loops are enough for a retry to fire and for one to be cancelled.
  A fault, which only the game server's session meets, is excepted, since nothing is modelled
  behind it. Frames fit the buffer. Deadlock is not checked, since a fault
  or the end of a session that was let go stops it.
* `ring_counted`: the ring refines the FIFO; four slots and blocks of up to
  three, so that the indices wrap at every position, with two values, which is
  enough to tell a lost, doubled or reordered element. Four divides the word of
  64, the case in which the ring is right on every build; `RingBufferProofs`
  proves that this condition is all it needs.
* `storage_both`: records stored whole and, for the inner pair, picked whole, once and
  in order (`TornOnlyIfBlind`). The ring holds less than two of the largest records, so
  that records are refused too. Both are polled at any time, also on an empty storage,
  where `empty(n)`, true for exactly `n` elements and false for fewer, lets the inner pair
  read a head that is not there (`inner_pair_session.cpp:96`). From then on nothing is
  promised; the invariant says that this is the only way to get there. The same
  `empty` otherwise saves the inner pair from a head without its data, since a ring that
  holds just a head counts as empty; where a head comes between the test and the read, the
  head is kept and its data are waited for.
* `proxy_sessions`: three sessions, the fewest in which one is promoted by a second
  while a third is accepted with a pooled object; any of them may share uids.
  The server map holds nothing but server logics, to which its users cast
  without a test, and no logic object is both pooled and in use. As long as uids
  differ, who is promoted asked for it; when they repeat that fails, one
  session's request promotes another's. Deadlock is not checked: `stop_proxy`
  stops everything.
* `pool_threads`: three threads, so that two contend for the cache of a third, or
  all for one, with ids of their own or one id; one of them ends, quietly or not.
  Whatever else goes wrong, one thread at most is at a stack (`MutualExclusion`), a
  cache never stays locked (`NeverLeftLocked`), also while `clear()` gives its lock
  away and takes it back, and an object never has two owners (`OneOwner`). With
  ids of their own and quiet ends, nothing does go wrong (`NoFault`): `get()` tests
  the size without the lock, but only the thread of the cache takes from it; and the
  end of a thread finds the cache it clears (`ClearedHasCache`). Deadlock is not
  checked, because there is one: `getThreadCache` takes `_mapMut` with `_mut` held,
  the end of a thread takes `_mut` with `_mapMut` held, and a first call that meets
  an end may stop both.
* `server_link`: an application thread and the strand, four sends and numbers
  modulo four, so that they wrap, two overlap in every way and more follow. The
  proxy refuses a frame only when two sends have overlapped
  (`RefusedOnlyAfterRace`); only a lost update of `_seq` leaves the ends out of
  step, and then for ever (`InStepUnlessLost`). The game server's verdict mirrors
  the proxy's (`VerdictMirrored`: `check_verify_res` takes `EC_Success` for a
  failure, so that a server that was accepted thinks it was not). A server that
  waits for the answer is never kicked and gets it (`WaitingServerNeverKicked`,
  `Authenticates`); one that does not may have a message or keep-alive taken for
  its request, as `_state` says connected before the request is sent.
* `executor`: two executors, three sessions, three agents: enough for an agent to
  serve a second session after the executor it belongs to is stopped, or has lost its
  owner. `AgentOfAsked` is stated for programs whose sessions all ask for one
  executor, as the proxy's do. `AgentsOutliveUse`: agents are shared by the whole process,
  and any thread that ends deletes those in the pool, executors with them; still no
  session uses an agent of somebody else, a deleted one or one of a destroyed executor,
  in both programs. `Served`: a posted handler runs unless something was stopped, also when
  the agent belongs to an executor that no pair owns any more.
* `cs_client`: three sockets, so that the callback of a replaced one meets both its
  successor and the one behind. `ConnectedEntered` holds but for runs that slipped.
  `ConnectedIsCurrent` says that three races, and nothing else, make `State` lie:
  `overlapped`, `outrun`, and an entry of Timeout or Closed that closes the socket
  which a callback has announced behind the read of line 173. Each of the three is needed: the
  invariant fails without it. The machine settles (`Settles`) whatever the network does, or
  hangs in the second `Send()`.

Disagreements between the code and its comments (each run finds the
counterexample):

* `session_dangling`: the tick that the destructor cancels runs on a destroyed
  session.
* `proxy_stale`: `verify_authentication` goes on writing to its logic object when
  that is back in the pool, and to the next session's.
* `proxy_cleanup`: a managed server that closes is never destroyed: it is still in
  both maps. Each of the two faults of `SafeHashMap` is enough for that.

Seen while modelling, without a run of their own.

* Sessions. A peer that closes after a keep-alive kick may leave the session in
  `TO_CLOSE` with its descriptor open, since `async_recv_loop` no longer reads
  (`basic_async_session.cpp:97`). A frame larger than the buffer (`F > Cap`)
  makes the receive loop spin on reads of no space, each of which refreshes the
  keep-alive (`basic_async_session.cpp:110`), so that `SilentPeerDropped` fails.
* Ring. With `SplitStores`, a capacity that does not divide 2^w breaks
  `NeverOverwritesStored`, and the 10 MiB of `TOTAL_CACHE_SIZE` (`NetUtils.hpp:15`)
  do not divide 2^64: when the consumer's index is stored before it is wrapped and the
  producer's has wrapped already, the difference in `count()` is negative, and modulo
  2^w and then modulo the capacity it is the wrong count. `tryReadShift` refuses
  exactly what is stored (`RingBuffer.h:81`).
* Storage. `pick_msg` of the game server manager tests `_already_read_length` the
  wrong way round (`active_server_session_mgr.cpp:101`) and delivers messages that
  nobody sent: `PickedIsNextStored` fails for `reader = "server"`. `pick_msg` of
  the inner pair passes its test on an empty storage (`inner_pair_session.cpp:96`), reads
  whatever the pooled head holds, and takes the next messages by that length: it may
  then deliver what nobody sent, or read more than is stored. When it does deliver, it
  returns `false` like a poll that found nothing (line 114), so that its caller cannot tell.
* Proxy. No client finds a server (`SafeHashMap.hpp:137`, the same cause as in
  `proxy_cleanup`), and a game server that connects twice is managed twice
  (`proxy_manager.cpp:121` looks for the uid of the new session).
* Pools. Where threads share an id, two first calls at the same time register two
  listeners for one cache, and the end of one thread clears it twice, which the
  code asserts cannot be (`ThreadCacheContainer.h:110`); two threads may see the
  last object of the cache, and the second pops an empty stack (`ObjectPool.h:71`).
  Where a thread ends while others have its objects, their deleters meet a deleted
  cache (`ThreadCacheContainer.h:105`).
* Executors. The thread whose function object holds the last reference runs the
  destructor and joins itself, which throws (`async_job.cpp:12-19`, the fault
  `self_join`). A pooled agent keeps the `_owner` it was made with, so that the second
  pair of a process may run on the first pair's executor, even a stopped one, and
  executors nobody stops live for ever. The callback of a connection is bound to a
  raw pointer to its pair (`dangling_pair`). A passive inner pair never accepts: its
  `acceptor_executor` is never started, and as it inherits
  `enable_shared_from_this` privately (`inner_pair_session.h:29`) its
  `shared_from_this()` throws.
* Wire. A response's key loses its last octet (`protocol.hpp:222`, `protocol.hpp:235`), and
  `send_confirm_connect` passes a length that counts the head.
* Unity client. After the races that `ConnectedIsCurrent` excepts, `State` may say
  `Connected` with a socket that is closed or not yet connected, in some for ever, and the
  callback of an old socket may close the state of the new one. A connection that completes between lines 173 and 174 of
  `SocketClient.cs` is never announced (`slipped`). The constructor of `BlockPool` throws,
  so that the first `Send` throws and every later one spins (`BlockMalloc.cs:45`).

Fairness. Each assumption is about something the code or the platform runs
without being asked:

* `BasicAsyncSession`. `WF(StrandStep)`: the threads of the executor run the
  io_context, and a strand's ready handlers are run in turn (`async_job.cpp`,
  `start`). `WF` on the completions: the kernel completes a read when there is
  something to read, a write on a live connection, and a timer when it expires.
  `WF` on the accepting thread and on a sender that has passed its check: a call
  returns. Nothing is assumed of the peer, of kickers and of new senders.
  `SilentPeerDropped` excepts behaviours in which the peer goes on sending for ever.
* `ProxyManager`: calls return, the clean-up timer goes on firing.
* `ServerLink`: `WF(Strand)` and `WF(Proxy)`, the strands of the two sessions run what is
  ready and the stream delivers; nobody has to send, and keep-alives need not come.
* `Executor`: a thread that can return, clear or end does, and a posted handler that some
  thread may run is run. Nobody has to start, stop or make anything.
* `CsSocketClient`: frames go on, time passes, `AsyncConnect()` returns. Nothing is asked
  of the network or of callbacks.

Bounds. `MaxUnits`, `MaxWrites`, `MaxReads`, `MaxReady`, `MaxKicks`, `MaxBlock`,
`MaxMsgs`, `MaxSessions`, `MaxUid`, `MaxObjects`, `MaxPools`, `MaxSends`, `MaxBack`,
`MaxAgents` and `MaxSockets` stop what would grow for ever; each is described where
it is declared. Two objects are enough for one to be pooled while another is
out, three caches for one to be made while a second is being deleted. The sums of
data are 0 and one that makes the mask carry twice. The bounds are part of the
next-state relation, so the theorems hold for every value of them. In
`session_live` `MaxReady` (three) holds a completion up while that many handlers are
waiting, no longer than the strand needs to run them; senders and closes still add
to the strand. The capacity of `ring_counted` divides the word, which the 10 MiB of the code
do not do for 2^64: for those the run says something about builds that store wrapped
indices only, as there the word plays no part, and what happens on others is described above.

## 4. What is proved

All proofs are checked by TLAPS for every value of the constants that satisfies
the named assumptions. They say that sizes and bounds are naturals and those that
count things are not 0, that the network delay is at most the timeout, that threads
are numbers and those that end are some of them, that `SeqWidth` is at most 2^32, that
a sum is one of at most 32768 words, and that names which are told apart differ.

`BasicAsyncSessionProofs`:

* `TypeCorrect`: `TypeOK` is inductive. The lemmas before it give the type of each
  operator that handlers are built from; one step per action.
* `SocketMatchesStateAlways`: `CLOSE_DONE` if and only if the descriptor is
  closed. Inductive with the invariant `OpenInv`, which says what the state may
  be while a session is being opened; it is needed because opening overwrites
  `_state` without looking at it.
* `NeverRegresses`: the action property, from the same invariant.
* `LoopNeverStops`: `ReadLoopAlive`, for either program. `LoopInv` says the same of the
  handlers as a set: each handler of a read that runs appends a read, and no other
  step removes one. The proofs of the next three work with it: a step
  keeps, adds or removes the handlers of a set (`NoneOf`, `OneOf`, `Kept`), whatever their
  places on the strand.
* `TicksOnce`: `OneTick`. Until the session is started nothing of the tick exists, and from then
  on exactly one of the armed wait and the ready handler (`TickInv`, with
  `OpenInv` for the first part).
* `OneReaderOnly`, `HandlersFindBuffers`: `OneReadAtEnd` and `NoFault`. A storage that never
  refuses never arms the retry timer, so that each read follows the one
  before it; it is aimed behind `len`, which never passes the capacity because
  a read is never given more room than is left (`ReadInv`, with `OpenInv`: no read is out
  when the session is opened).

`RingBufferProofs`: for every capacity, word, block size and set of values, under
`Sound`: consumers count before they read (`Counted`), and either the build stores
wrapped indices only or the capacity divides the word.

* The inductive invariant is `RInv`. `TypeOK` bounds an index by twice the
  capacity. `ProdInv` says that the room a `tryWrite` found is still there,
  whatever the consumer has done since, and that what it has copied is in its
  slots; `ConsInv` that what a read relies on is still stored and that `ret` is its
  front; `SplitInv` that no index is outside the ring unless `SplitStores`.
* `RingTypeCorrect` and `StoredNeverOverwritten`: `TypeOK` and
  `NeverOverwritesStored`. Two slots less than a capacity apart are different.
* `RingImplementsFifo`: `RefinesFifo`. A store of an index appends to or removes
  from the mapped queue, every other step leaves it alone.

The argument is on the distance of the two indices modulo the capacity, which is
what `count` is when the capacity divides the word or neither index is outside
the ring, and which wrapping an index does not change. The first lemmas are
the arithmetic of that (`Same` is congruence), so that the provers never
meet a modulus of a variable inside a larger formula.

`MessageStorageProofs`: for any capacity, any lengths and either pair of classes.

* `StorageTypeCorrect`: `TypeOK`, inductive with `Shape`.
* `MessagesStoredWhole`: `StoredWhole`. While a record is being written there is room for
  all that is left of it (`RoomInv`): the test of `try_copy_to_storage` provides it, a
  `tryWrite` uses as much of it as it writes, and the consumer can only add to it.
* `InnerTornOnlyIfBlind`: `TornOnlyIfBlind`, with no assumption about when the application
  polls. `InnerInv` says that
  some `start` and `done` exist: where each message begins in all that has ever been
  written, and how much of that has been taken. What is stored is then known unit by unit
  (`Content`), and the consumer is at the beginning of a message or just behind
  its head (`Reads`), whose length it then keeps from poll to poll. Behind a head
  there is nothing, or the whole of its data, as those are one `tryWrite`;
  `RoomInv` excludes that it failed. A blind read is the one step that leaves `InnerInv`.

`ProxyManagerProofs`: for any number of sessions, uids, repeated or not, and game
servers.

* `ManagerTypeCorrect`: `TypeOK`, inductive with `Range` (what has not been made yet is
  nowhere) and `MovesHaveFound` (a strand inside `move_server_available` has a
  session and a logic object).
* `ServersAreServers`: `ServersHaveServerLogic`, with `AboutToInsert`: between the two
  steps of a move the session found has its new logic already, and a session somebody
  can find is not destroyed.
* `LogicsAreOwned`: `LogicOwned`, with the fact that an object of a session has been held
  (`OwnedObjects`), so that the next session cannot be given it as a new one.
* `PromotedHaveAsked`: `PromotedAsked`. Maps and moves keep a session under its own uid
  (`ByUid`), whether uids repeat or not, and only who asked to be a server moves
  (`MoversAsked`); when uids differ the session found is the one that asked.

`ThreadSafeObjectPoolProofs`: for any set of threads, with or without ids of their
own, however they end.

* The inductive invariant is `LockInv`. A thread that is past the
  compare-and-swap of a live cache has it locked (`Guarded`) and is alone there
  (`Alone`); it is the owner from its next step on (`Owned`), which is why its
  `unlock()` is not refused: nobody else can store an owner in between. `Kept` is
  the converse of `Guarded`, `Untouched` says that a new cache starts unlocked.
  `Carries` and `EndsOnly`, next to the types, say that a release has its object
  until it has pushed it and that the end of a thread is in no other call.
* `PoolTypeCorrect`, `SpinlockExcludes`, `SpinlockReturned`: `TypeOK`,
  `MutualExclusion` and `NeverLeftLocked` from it.
* `ObjectsHaveOneOwner`: `OneOwner`. The places of an object exclude each other
  (`Apart`), and a cache to come is empty (`EmptyToCome`), since one that started
  with objects would share them. `top()` with `pop()` is one step of the model, which
  `SpinlockExcludes` justifies.
* `EndsFindCaches`: `ClearedHasCache`. With ids of their own, the keys in use belong to
  threads (`KeyInv`). An id without a cache is known to its own thread only, and for
  one that has a cache nobody makes another, so its thread registers once; the
  end of that thread has one listener and finds the entry, which it alone
  removes (`ClearInv`).
* `QuietProgramsAreSafe`: `NoFault`. If moreover a thread ends only when nobody uses its
  id, the caches in the map are alive (`Alive`) and different for different ids (`Distinct`);
  a call past its look-up is at the cache the map still has (`Finds`), and what
  `get` has seen on a stack is still there, since other threads only push.

`ServerLinkProofs`, first about `Wire`: facts about functions, without a specification. The
folds are worked out as arithmetic on the sum of all words.

* `HonestFramesVerify`: what `wrap_to_send_data` makes passes every receiver's test.
* `OctetErrorsDetected`: two frames whose sums differ by less than 65535, without being
  equal, cannot both pass.
* `HeadOctetErrorsDetected`: so a frame with one changed octet of its mask, its command with the
  flag, or its number is refused, as an octet weighs 1 or 256. It says nothing of the two
  octets of the length: with another length the receiver sums up other data. The key has
  its own test.

Then about the link, for any set of application threads, any width of the number and
any sums.

* `TypeCorrect`: `TypeOK`.
* `VerdictsMirrored`: the answers on their way back fit the proxy's verdict, and what the
  game server has stored is the opposite (`VerdictInv`).
* `RefusedOnlyForRaces`: without a race (`NumberInv`), one writer at a time makes a frame,
  the frames on their way continue the proxy's count without a gap, and `_seq` is
  the number of the last of them or of the frame being made.
* `WaitingServersStay`: until the answer comes only the strand writes, so the
  request is the first frame; it has the right number by `NumberInv` and the right
  mask by `HonestFramesVerify` (`AllVerify`), so the proxy passes it.
* `InStepAgain`: `InStepUnlessLost`. Up to multiples of the width, `_seq` is ahead of the
  proxy's count by the frames on their way and the numbers taken but not yet written,
  unless an increment was lost (`LagInv`); nothing on its way leaves a
  multiple of the width between two numbers below it.

`ExecutorProofs`: for any set of sessions and any number of agents.

* `ExecutorTypeCorrect`: `TypeOK`, with `Held` (a session has an agent once it is made).
* `PooledAgentsFit`: `AgentOfAsked`. An agent has one place at a time (`PlaceInv`): the
  acceptor, the pool or one session; and every other agent belongs to an executor
  some session has asked for (`AskedInv`).
* `UsedAgentsLive`: `AgentsOutliveUse`. By `PlaceInv` an agent in use is not in the pool, which
  is all that a thread deletes; and nobody owns a destroyed executor or can make an
  agent for it again (`DestroyedInv`), so the executor of an agent in use is not one.

`CsSocketClientProofs`: for any number of sockets.

* `ClientTypeCorrect`: `TypeOK`, with `SocketInv` about the middle of `AsyncConnect()`.
* `EnteredBeforeResting`: `ConnectedEntered`. Behind a connect action that returned, the
  threads are started (`EntryInv`).
* `ConnectedMeansCurrent`: `ConnectedIsCurrent`. Unless one has been overtaken, a callback that
  will store `StateConnected` is that of the current socket, which is connected; unless the
  machine was outrun as well, `State` has been stored by one of those, and only an entry that
  read another state has closed the socket since (`CurrentInv`, `ClosedByEntry`).

Every invariant and the action property of the passing runs, and the refinement of `SpscFifo`, are
stated by a theorem. Only model-checked are the liveness properties (`SilentPeerDropped`,
`ErrorCloses`, `Authenticates`, `Served`, `Settles`), which are out of the prover's reach, as are
`ENABLED` and induction over data: that the sum of a frame of so many octets is
what `Wire` takes it for is not proved.

## 5. What is not modelled

* The client's path through the proxy: `client_session_logic`, forwarding, rc4,
  `move_client_available` and the client map. `complex_operation` never calls its
  handler, so no execution of the program gets there.
* Short writes: `async_write_some` may send a part of a buffer, and nothing sends the
  rest (`basic_async_session.cpp:142`). What follows is a torn stream at the peer, about
  which no part of the code promises anything.
* The accepting inner pair, which never accepts; `broadcast`, which sends like `send`;
  `cal_server_uid`, which hashes the first character of a name only.
* The buffers, threads and serializer of the Unity client: `TryRead` and `TryWrite` of its ring
  buffer always report failure, so nothing is ever received or sent.
* `RingBuffer::clear` and `tryWriteShit`, which no code calls while both sides run;
  `clearUnusedThreadCache`, at the end of the process; counters nothing reads.
* Data races inside `std::unordered_map`, below the steps of these models.
* Logging, JSON configuration, compression (a wrapper of zlib), singletons and random
  numbers.
* The vendored asio, rapidjson and zlib, which are nearly all of the lines under `src/`.
  asio appears as its callers use it: completions, strands, cancelled timers.
