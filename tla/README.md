# A TLA+ model of the cross-chain agent

The repository holds an agent that moves amounts between two chains: *layer 1*
(a backbone chain) and *layer 2* (a sub-chain whose ledgers a manager contract
confirms on layer 1). On each layer runs a bridge contract. The agent listens to
the events of both contracts and submits to each of them what happened on the
other. This directory holds a model of the contracts, the chains and the agent, models
of the libraries under them (threads, timers, sockets, database, log, conversions), the
model-checking configurations of all of these, and proofs of the main safety properties.

## The system

A transfer that starts on layer A (its *origin*) and ends on layer B (its
*destination*) takes four steps:

1. the sender calls `StartTx` on A; the contract keeps the amount, `status` INIT;
2. the agent calls `SendTx` on B with an amount of its own, kept by that contract;
3. the agent calls `SendAckedTx` on A: with success, A pays the agent; with
   failure or timeout, the sender may call `Refund`;
4. the agent calls `SendAckedTx` on B with success: B pays the receiver.

`SendAckedTx` of the origin emits an event only for success.

| component | state | operations | correct when |
|---|---|---|---|
| bridge contracts (`cross_contract/`) | one `CrossTxInfo` per transfer; the balance | `StartTx`, `SendTx`, `SendAckedTx`, `Refund`, `SetTimeout`, `SetOwner` | one outcome per transfer; never pays more than it received |
| `Layer1ToLayer2Handle` (`src/glue`) | `send_tx`, `send_ack`, `reply_ack` maps, each with a lock and a copy in the database | three event handlers, three sweeps of `OnTimer`, `Initialize` | reports success only for what the other contract recorded; a transfer saved is not forgotten |
| `Layer2ToLayer1Handle` | the same and `start_tx`, transfers that wait for a confirmed ledger | the same and `HandleConfirmSeqEvent`, `StartTxTimeOut` | the same; `SendTx` only after the confirmation |
| `HandleManager` | the two handles | dispatch of events, timer, balance check, `UPDATE_PERIOD` | each event reaches its handle |
| `HttpClient` (`src/common/web_client.cpp`) | none | submit, query of an entry, of a transaction's result, of a status | a failed query is not taken for an answer |
| web socket clients (`src/websocket`) | `connected_`, the link, the runs of the event loop on the stack | open, fail, close, subscribe, reconnect from inside a handler, stop | a closed connection is opened again; no event after the exit |
| web server (`src/webserver`) | the endpoint; the clients it owns | start, submit if both clients are connected, exit | exit ends; nothing uses a deleted instance |
| database (`src/database`) | key-value store; write batches in 100 slots | put, delete, scan by prefix; batches | a batch is written whole or not at all; each batch has its own slot |
| main, timer loop (`src/main`), `utils::Timer` | modules and timers with their times | register, add, delete, fire; signal | not early, in order, once; the loop ends |
| daemon (`src/daemon`, `src/common/daemon.cpp`) | a time in shared memory | the agent writes, `agentd` looks every 100 s and starts it | an agent that stopped is started; one that writes is left alone |
| threads, locks, pools (`src/utils`) | queues, counters, flags, handles | add, take, run, wait, join, stop | each task runs once; `Wait` and `Stop` return and mean it |
| logger (`src/utils/logger.cpp`) | the active file, its backups | write, rotate by size and age, expire | no line is lost before it expires |
| socket library (`net.cpp`, `async_net.cpp`) | sockets, operations under way, epoll batches | accept, connect, handshake, receive, send, close | events and addresses reach the socket they are for |
| overlay network (`src/common/network*`) | connections, handles, delayed deletions | open, ping, expire, close | a peer that lives is kept, one that is silent removed; nothing is used after it was deleted |
| utilities (`strings.h`, `utils.cpp`, `file.cpp`, `basen.h`) | none | conversions of strings, numbers, URLs, paths, bytes | round trips; the two implementations of one idea agree |
| keys and signatures | a cache of addresses | sign, verify, encode | |

Interaction: each web socket client has a thread that calls `HandleManager`, which
calls a handle; `RunLoop` on the main thread calls `OnTimer` of both handles. So
three threads work on the maps of each handle, under a lock per map, and between
any two HTTP calls of a handler the chains and the other threads go on. All that
survives a restart is the database.

What is hard here: a submitted transaction whose answer is lost may still
execute; success, failure and timeout of one transfer may be in a pool together;
an event may be treated before the thread that caused it has saved its entry; the
database and the map are written one after the other, the first without the lock;
sent-again acknowledgements leave the old hash in the map; events are lost while a
socket is closed and never asked for again; a database write that fails is only logged;
three clocks are compared. In the libraries: flags shared by threads without a lock,
notifications outside the lock, callbacks of a connection that the loop is expiring,
events of an earlier life of a reused socket, an order of exit that `main` only follows when
every initialisation succeeded. `PROJECT.json`
lists these as hazards, with the properties that cover them.

## The modules

| module | models |
|---|---|
| `CrossChainBridge` | both contracts, the pool of transactions of each chain, clocks, event streams, the manager contract's confirmations |
| `CrossTxHandle` | what the handles share: maps and database, threads and locks, the steps of a handler, the queries of `HttpClient` |
| `Layer1ToLayer2Handle`, `Layer2ToLayer1Handle` | the handlers, transactions and timer sweeps |
| `HandleManager` | the composition: dispatch, connections, crash and restart, fairness, and the properties |
| `AtomicTransfer` | the abstract specification: what the bridge promises for each transfer |
| `MCHandleManager` | values of the constants for TLC |
| `HandleManagerTypes`, `HandleManagerSafety`, `HandleManagerRefinement`, `HandleManagerMemory` | proofs: types; the contracts and what the agent reports; the refinement; what the agent remembers |
| `ReadWriteLock` | `utils::ReadWriteLock` and the cache of encoded addresses that it guards (`PublicKeyV4::GetEncAddress`) |
| `WebSocketClient`, `WebServer` | both web socket clients, and over them the web server from `Initialize` to the end of `main` |
| `Timer` | `RunLoop` of `main`, `TimerNotify` and `utils::Timer` |
| `Daemon` | both sides of the watchdog |
| `Storage` | write batches and their slots, single writes, unsynced writes, crashes |
| `Thread`, `ThreadPool` | `utils::Thread` and the polling pool over it |
| `ThreadNewPool` | the pool on condition variables |
| `ThreadsProof` | proofs about the lock, both pools, the timers, the watchdog and the web server |
| `NetworkAdapter`, `Network` | the socket server and client of the overlay with their delayed deletion; over them `Network` with its connections, callbacks and loop |
| `Logger` | rotation and expiry of the log file |
| `AsyncVxIo` | the epoll library: polls, serial numbers, I/O threads |
| `AsyncSocket` | the asio sockets and the acceptor |
| `LibrariesProof` | proofs about the acceptor and the streams, the write batches, the log |
| `SocketsProof`, `OverlayProof` | proofs about the epoll library; about the overlay network |
| `Strings`, `Numerals`, `Urls`, `BaseN` | the conversions, as operators on sequences of character codes or bytes |
| `MCThreads`, `MCLibraries`, `MCSockets` | the libraries side by side for TLC |
| `MCOverlay`, `MCLogger` | the parts of `MCLibraries` for `Network` and `Logger`, and their properties: a module of their own, so that they can be proved about apart from the recursive conversions |

The libraries do not share state with the model of the transfer; what the agent sees of
them is in `HandleManager` as a fault: a lost event (`WebSocketClient`), a failed or lost
write (`Storage`), a restart (`Daemon`), a sweep that comes late (`Timer`).

For the same reason TLC checks the libraries side by side: each of the three MC modules
extends or instantiates several of them, and its variable `part`, chosen in the initial state, says
which one this behaviour runs while the others stay at their initial state. The states of
such a run are the union, not the product, of those of its parts, and a property of a part
says what it says of the component alone. Fairness is that of each component; conditions
of different parts are joined in one (`WF(A of one part \/ B of another)`), which is the
same because one part runs. The liveness properties of the libraries have the form
`[]<>(not waiting, or excused)`. Each MC module joins what a component promises into
one or two properties, whose named parts are defined in the component's module.

How state and actions correspond to the code:

- `crossTxInfo[l][t]` is the entry of `crossTxInfo_` on layer `l`. The parties, the
  amount and `errorDesc` are left out: the contracts copy them and the agent never
  changes them. `paidIn` and `paidOut` count amounts of the transfer, which are equal.
- `pool[l][h]` is the transaction with hash `h`. It is pending until the chain
  executes it (one action for the whole contract function), a `require` fails, or the
  chain drops it (its `max_ledger_seq` has passed). A hash is used again only when
  no pending transaction has it and the agent keeps it nowhere.
- `tlogs[l]` is the stream of events on the web socket, in order. An event emitted
  while the socket is closed is lost, and so are those in flight when it closes.
- `mem` are the maps, `db` their copies. `Initialize` loads the maps; it comes before
  the sockets connect because `main` initialises `HandleManager` before `WebServer`.
- `th[p]` is the handler the thread `p` is in: a sequence of steps, submit, put,
  emplace, delete, erase. What the handler has read is in `th[p].cross`, and is as
  old as that. A loop over a map holds its lock; a handler that needs it waits.
- The map entry of a failed query is never made: the handler returns, the event is
  gone, as in the code.
- The 60 s of `send_ack_timeout_` are less than one tick of the clock: an entry of
  an ack map may be due at any time. Unless the fault `slow` is in `Faults`, its
  transaction has left the pool by then.
- `GetCrossTxStatus` asks for the layer-2 address whatever its endpoint; through
  the layer-1 endpoint it finds nothing and returns 0, which is INIT.
- Erasing the current element of a range-based `for` invalidates its iterator. The
  model lets the loop go on or end; a stop of the process is `Crash`.
- Timer sweeps come in any order, while the code runs them in one order each 60 s.
- Layer 2 closes one ledger per tick, so the clock stands for its sequence number.
- A write of the database that fails (fault `database`) leaves `db` as it is and the handler
  goes on, since the code logs the result and nothing else.
- In `ReadWriteLock` the calls on `_enterLock` and `_reads` are one action each, since
  another thread may run between any two of them. The cache is a set of keys: the
  address is a function of the key. `Insert` stands for the change of the map; the
  thread is inside it from the place `insert` until `WriteUnlock`.

In the other modules what is done under one lock is one step, and a step ends where
another thread may run:

- `ThreadPool`: `proc` of a `Thread` follows `threadProc`, whose last two writes (`handle_`,
  `running_`) are two steps; a join is a loop over the threads.
- `ThreadNewPool`: a worker in `condition_variable::wait` comes back when it is notified or
  for no reason; `notify_one` comes after the lock was released, and the read of `m_taskSize`
  after a task without it.
- `Timer`: the handlers of a pass run without `lock_`, so timers are added and deleted
  between two of them, and the clock runs on.
- `Daemon`: of a time only matters whether it was ever written and whether it changed since
  the last look.
- `WebSocketClient`: a reconnect is a run of the event loop inside a handler of the last
  run; `depth` counts them.
- `Network`: `cb[h]` is where the callback of handle `h` stands between two critical
  sections. A connection, a handle and a pointer in a list of delayed deletions are told
  apart, so that the use of a deleted one shows.
- `Storage`: the two locked sections of `NewWriteBatch` are two steps; `history` is what
  RocksDB may recover to when the host stops.
- `Network`: `OnPong` looks at both maps without `conns_list_lock_`, once to find the
  connection and once to touch it: two steps. The race on the maps is undefined in C++; the
  model lets each look-up see the maps as they are before or after another thread's section.
- `Logger`: a file is the set of its lines with two times; a backup's name has the
  resolution of a second, which is a tick. The rename, the copy that replaces it and the
  reopening of the file may fail; a copy that fails has brought over some of the lines.
- `AsyncVxIo`: each `Create` and each `Attach` begins a life of the socket object; an event
  carries the life it was polled in, and a thread the serial number it compares, which it
  reads when it dispatches the event. `Create`, `Attach`, `Detach`, `Close`, `SetPrepared`,
  `Listen` and `Connect` are public: the model lets any of them happen between any two steps
  of the threads, as a handler of this or another socket or another thread may call them.
- `AsyncSocket`: an operation is started, ends (`done`), and its handler runs later on the
  thread of the `io_service`; the acceptor knows the socket it fills by one member. `OnError`
  does nothing unless an owner overrides it, so in the model it only tells (`noticed`).
- The conversions keep the loops of the code as recursion over positions, with the
  unsigned positions of `std::string` (`npos` is the largest, and wraps).

## The runs

The runs of the transfer have one transfer each, except `BothWays`, which has one in each direction. The
contracts treat each identifier alone, and the handles' maps are keyed by it: two
transfers only share threads, locks and hashes, which `BothWays` is for. Two hashes
per layer allow an acknowledgement and its repetition, or opposite ones, to be in the
pool together. `MaxTime` bounds the clock: it lets `StartTx` happen at different
times, every timeout pass, and a `SendTx` execute before, at and after it. The clock's
end is why a run does not check for deadlock: the model really stops there when
everything is settled. `Skew` sets the clocks apart.

| run | faults | result |
|---|---|---|
| `L1ToL2Crash` | submit, crash; the agent's clock two ticks ahead, so that it may report a timeout before a late `SendTx` | the contracts settle the transfer one way, as the refinement says, and the hand-over between maps holds |
| `L2ToL1Crash` | submit, crash | in the other direction the agent reports success only for what was executed, and hands over before it clears |
| `L1ToL2Slow` | crash, slow, database; the clocks of the destination and of the agent ahead | acknowledgements sent again while the first is pending pay each amount once; entries loaded after a failed write or deletion, however old, make the agent report no untrue success |
| `L1ToL2LostEvents` | drop, disconnectL2, two equal `StartTx` in a block | the agent locks one amount and never forgets it |
| `BothWays` | drop, query, database | two transfers do not disturb each other; while the agent runs, the maps alone keep every locked amount |
| `L1ToL2Live`, `L2ToL1Live` | the destination's socket closes | every transfer is settled, and delivered when the agent was paid |
| `L1SendTxAtTimeout` | none | violation: see below |
| `L1FailureAckResent` | drop | violation: see below |

The runs of the libraries:

| run, part | instance | result |
|---|---|---|
| `Threads`, lock | three threads, two keys | writers of the cache are alone, and a writer in its loop gets in |
| newPool | two workers, two tasks, spurious wakeups | the counter is right, `Wait` may be believed, no notification is lost, `Stop` returns |
| pool | two workers, two tasks, a failing start, one `Terminate` | a task runs at most once, `WaitAndJoin` means all of them ran, joins end |
| timer | two modules, two timers, delays 0, 1 and 3, four ticks | no timer fires early, twice or after it was deleted, or out of order; each fires; a signal ends the loop |
| daemon | three faults, one `agentd` | an alarm only for an agent that stopped, is silent or has no segment; it is started again |
| web | both clients, lost links and failed attempts, one request; the endpoint may fail | a client reconnects and exit ends; once the endpoint has started, no event comes after the `HandleManager` is deleted |
| `Libraries`, storage | three batches over two slots, two open at a time, calls of `NewWriteBatch` not overlapping | each open batch has a slot of its own, is all or nothing through crashes, and frees its slot |
| logger | files of two lines or ticks, four lines, four ticks; the rename, the copy and the reopening may fail | a line that has not expired is in some file, unless it was truncated after rename and copy had both failed; what had expired is gone after a check |
| tcp | two clients and two accepted sockets | bytes arrive in order, an accepted socket has its peer's address |
| overlay, expiry | an inbound and an outbound connection; two inbound ones | the maps agree, nothing is used after its deletion, `OnDisconnect` comes once, a peer that answers is kept |
| strings | all pairs of a string of up to three of six characters and one of up to two | splitting, joining, replacing, two tokenizers, two readers of attributes, two trims and the comparisons agree |
| integers, decimals, hex | all strings of up to four characters, numbers of 8 bits | what does not fit is refused, the rest is exact, round trips hold |
| url, normalize, path | all short hosts, paths, addresses | a URL comes apart into what it was made of; normalising twice is normalising once, and with a protocol it leaves no empty, `.` or `..` segment before the question mark; a path is its directory and its file |
| bytes | all sequences of up to five of five bytes | decoding gives the bytes back, and the sizes reserved are exact |
| `Sockets`, ssl | a client and an accepted socket with the handshake | a server socket whose client has closed hands on all that the client sent, and its owner is told |
| overlay | one outbound connection | a silent peer is removed |
| epoll | one socket in two lives, created or attached, that two I/O threads may serve | what is left of an event is dropped when `Create` has begun a new life; one thread takes the events of one life; no thread runs when `Close` has returned |
| batch | the same with one thread, and another socket whose events may stand before it in the batch | the same |
| connect | one socket in two lives that may connect, one thread | a `Connect` that blocked is answered, or the OUT that told its end was passed over; a failure is always told; `Close` returns |

Bounds. Two of each actor are what the races of a library take: two workers that compete for
one notification, two connections that expire in one pass, two lives of one socket. The
numbers of `Numerals` have 8 bits and three digits in place of 32 or 64 bits, the same
relation of width and digits; the alphabets hold the characters on both sides of each
comparison of the code. `npos` is 2^16 - 1. `Logger` needs two bounds that are not only
there for TLC. No more lines are written in a second than fill one file (`MaxRate <=
size_capacity_ + 1`), since two files that fill up in one second are backed up under one
name; the capacity is 100 MB where `configure_base.cpp:11` is not overruled. And the agent
is never silent for as long as files are kept (`MaxSilence < Expire`, 10 days), since a
silent active file is deleted while it is open. The part tcp has one `io_service` and the part
ssl two: which of them a socket gets changes nothing in the model, where the handlers of
different sockets come in any order. In the part overlay one connection may be refused or fall
silent; in the part expiry, which opens two, both may fall silent. The parts of the epoll library
split what would be one large instance: two threads, two sockets and a connect. A run turns
deadlock off where its system may stop: tasks, timers, lines and faults are finite, an exit
ends everything, and the conversions have no second step.

Fairness of the libraries: threads that can run are scheduled (weak fairness of each
worker, loop, handler); what a peer or a user may or may not do has none. `Network` takes
strong fairness of the clock and of the answer of a living peer, because only finitely many
steps fit in a second, and weak fairness of websocketpp's closing handshake, which has a
timeout. `AsyncVxIo` assumes that handlers return, that TCP ends an attempt
to connect, and that the call of `Connect` that made it returns. In `WebServer` faults are
bounded, so a node that is asked again and again answers in the end. In `Daemon` only the
look of `agentd` is fair: nobody has to start it.

The liveness runs of the transfer assume (`Fairness` in `HandleManager`): time passes; a chain
executes what is in its pool; a thread that can run does; a thread that waits for a
lock gets it, and every map is swept again and again, which is strong fairness. The code
justifies the last two: the timer thread, the only one that takes a map's lock again and
again, sleeps between sweeps, and `OnTimer` calls every sweep. They also assume that
the origin's socket stays open and the agent runs, since the code does not ask again for
a lost `StartTxEvent` or `SendAckedTxEvent`; that the destination's clock is ahead
of the origin's, since otherwise an execution time may not be after the
creation time and every success is rejected; and `EventuallySettled` excludes the
transfer of the first finding.

The part lock assumes weak fairness of each thread and nothing of the order in which
the mutex is granted, so it does not say that every call returns: `pthread_mutex_lock`
may pass a waiting thread over.

### Findings

- *`SendTx` at its timeout.* `L1CrossChainBridge.sol:97` requires `>=` where its message
  and the layer-2 contract say greater. A `SendTx` executed at that instant can never be
  acknowledged with success (`SendAckedTx` requires less): both amounts stay locked
  unless the timer reports a timeout, and the timer reports success.
- *A failure acknowledged for ever.* When a first acknowledgement of failure is dropped
  and a second one executes, `SendAckToLayer1TimeOut` still looks for the first hash
  (`emplace` does not replace it) and then for a status it cannot get
  (`web_client.cpp:296`), so the entry is sent again every 60 s until a restart, which
  loads the hash of the database.

### Observations

Met while modelling; the models have these behaviours, and no run is about them:

- `JoinWithStop`: `threadProc` clears `handle_` before `running_` (`thread.cpp:12`), and a join
  returns as soon as the handle is invalid, so the owner may delete a `Thread` that is still
  written to; `thread.h:46` says that it waits for the thread to be stopped.
- A restarted `agentd` (`daemon/src/main.cpp:154`): it removes its segment when it stops; a
  running agent stays attached to the old one, and the next `agentd` takes it for dead.
  `AlarmOnlyIfSilent` is therefore checked with one `agentd`.
- An endpoint that fails (`web_server.cpp:45`): the clients' threads were started before;
  nobody stops them, and an event may reach the deleted `HandleManager` (`singleton.h:48`
  asserts that there is one). `EventHasManager` therefore leaves out a `main`
  that was aborted because its endpoint failed.
- More than 100 batches (`storage_lock.cpp:35`): the index past the vector's end is returned
  and written to; the limit tested is 10000, while the message says 100. Two overlapping
  calls of `NewWriteBatch` may also get one slot, since its lock is taken twice.
- Events of a closed socket (`async_net.cpp:688`): the serial number is read when the event is
  dispatched, and only `Create` changes it. So "check if event is valid" still holds after the
  socket was closed or detached, or attached anew; and an event of an earlier life that stands
  later in a batch, behind one whose handler closes and creates the socket, is handled in the
  new life. `HandlersOfASocket` says what the check does ensure.
- The answer to `Connect` (`async_net.cpp:691`, `699`): an OUT told before `Connect` is taken for the
  answer, while the kernel is still connecting; and the one that tells the end is passed over if
  the socket is not prepared, or if `Socket::Connect` has not yet set `m_bConnectBlocked`. Epoll
  does not tell it again. `ConnectAnswered` excepts the latter; that a failed attempt is told
  holds without exception, as ERR is handled whatever the socket has prepared.
- `AsyncVxIo::Close` deletes the threads: a call on a socket during or after that uses a deleted
  object, and so does a thread whose batch holds an event of a deleted socket. The model leaves
  out both. `m_nNextIoIdx` is counted without a lock; any thread may be chosen.
- `OnError` of the asio sockets is empty (`net.cpp:731`, `net.cpp:1142`): after an error the
  socket stays open until its owner closes it. `AsyncSendTo` of UDP ignores its errors.
- `remote_endpoint()` throws when the peer has already reset the connection (`net.cpp:697`, `821`,
  `838`, `1081`), and nothing catches it in a thread of `AsyncIo`: the process ends, which is
  `RemoteEndpointThrows`.
- A rotation may lose every line of a file (`logger.cpp:113`): the result of the copy that replaces
  a failed rename is ignored, and line 116 opens the file with `wb`. `File::Copy` (`file.cpp:355`)
  may fail at any of its steps. `LogKeptAsConfigured` excepts the lines lost that way (`lost`).
- `TimerNotify` keeps the pointers of its objects for good (`general.h:62`): a `Network` that is
  deleted leaves those of its `server_` and `client_` behind, which `RunLoop` would call. Nobody
  in the repository makes a `Network`; the model assumes that whoever deletes one has ended
  `RunLoop` before (`loop` is `destroyed`, and no timer runs then).
- A `SendTx` that was executed may be reported as TIMEOUT (`web_client.cpp:224`): a query that fails
  is answered like a transaction that failed. The model has it; `AgentKnowledge` constrains
  reports of success only. What keeps it harmless is that the origin compares times: a report
  of failure or timeout never reaches the destination's contract (`DestNeverRefundable`), and no transfer
  is both paid and refunded.
- `Wait` of `ThreadNewPool` (`thread_pool.cpp:80`): one that overlaps a `Stop` with queued tasks is never
  notified, as `m_taskSize` is cleared after the notification. `PoolCallsReturn` excepts it (`dropped`).
- `NormalizeUrlPath` (`strings.h:441`) without a protocol starts behind the third character,
  since `npos + 3` wraps to 2: `/../a` and `//a` stay as they are. `ParseUrl` (`strings.h:422`)
  only calls it that way. `NormalizeSettles` says what is left of the promise.
- `TrimRight` (`strings.h:583`) keeps one space of a string of spaces; `Trim` does not.
- `IsContainStringIgnoreCase` (`strings.h:707`) makes copies in upper case and then searches
  the strings it was given. It is not modelled.

## The proofs

The theorems about the transfer hold for every set of transfers, any origins, hashes, clocks, timeout
and faults, under the assumptions `ConstantsAssumption` and `NoHashAssumption`
(types of the constants, and a `NoHash` that is no hash).

- `TypeCorrect`: `Spec => []TypeOK`. Inductive as it stands.
- `Safety`: `Spec => []SafetyInv`, with `SafetyInv == TypeOK /\ ContractsAgree /\
  AgentKnowledge`. That a transfer is not both paid and refunded is not inductive:
  one must know that a pending `SendAckedTx` with success carries the time of a
  `SendTx` that was executed, hence the same of every map entry, database entry,
  handler and event it may come from. `AgentKnowledge` says so of each. Its parts
  rest on facts a contract records for good (an entry exists, its execution time, a
  payment on the origin), so a step preserves them whatever is old: the lemmas
  `Lasting` and `PoolLasting` say so once for all actions.
- `PaidOrRefunded`, `PaidForLockedAmount`, `Solvency`, `NoRefundOfAgent`, `Knowledge`
  follow from it.
- `Refinement`: `Spec => ImplementsAtomicTransfer`, the contracts' entries mapped to
  the states of `AtomicTransfer`.
- `Agreement`: `Spec => []ContractsAgree`, a part of `SafetyInv`. All of these cover the fault
  `database` too: the lemmas about saving and clearing treat a write that fails.

What the agent remembers (`HandleManagerMemory`, on top of `Safety`):

- `ClearedAcksSettled`: `Spec => []ClearInv`, for every fault. A sweep clears an entry of an ack
  map because the transaction whose hash the entry keeps was executed. So one must know that
  this hash names an acknowledgement of that very transfer, or is not in use, although
  entries are loaded, sent again and kept by `emplace`, and that an executed
  acknowledgement has settled its transfer (`AcksSettled`).
- `HandedOver`: `Spec => HandedOverBeforeCleared`, if database writes do not fail. A handler
  deletes the old entry after it has put the new one. In between another thread may clear the
  new one, but only when its stage is settled, which is for good; so the job that is about
  to clear still finds the next entry or a settled stage (`DbHandedOn`).
- `Remembered`: `Spec => []LockedIsRemembered`, without crashes and with an answer to every
  submit, while events are lost, queries fail and database writes fail. It is the same argument for
  the maps (`MapsHandedOn`), with one fact more: a `SendTx` in the pool or executed has a
  map entry or a thread that is about to make it (`SentIsRemembered`).

  The hypotheses are what the code needs. A deletion or a put that fails is only logged, so a
  failed put followed by a deletion that succeeds leaves nothing in the database; a crash between
  a `SendTx` that was accepted and its put, or a lost answer to it, leaves an executed `SendTx`
  that no map has: nothing in the code looks for such transfers.

Threads, timers and watchdog (`ThreadsProof`), for any finite set of threads or workers, any
tasks, delays, intervals and bounds (`ThreadAssumption`, `PoolAssumption`,
`ThreadPoolAssumption`, `TimerAssumption`):

- `LockInvariant`: `Spec => []LockInv`. `MutualExclusion` alone is not inductive: one must know that
  `_reads` counts the readers, who holds `_enterLock`, and that the counter stays 0 under
  the write lock. `Exclusion` follows: a reader inside would be counted, a second writer
  would hold the same mutex.
- `SizeIsRight` (`SizeCounts`, a part of `TasksAccountedFor`) and `WaitIsSound`. `PoolInv` adds to
  `SizeCounts` that no task is lost (until the queue is thrown away, a task that was added was
  run, is queued or is held by a worker that is about to run it) and that a stop in progress is
  known to all. A counter of 0 then means an empty queue and no worker with a task, so every
  task was run.
- `Tasks`: `P!Spec /\ NewPoolSpec => []TasksAccountedFor`; the two pools share no variable. That
  `WaitAndJoin` returns behind all tasks needs, beside a place for each task (`TasksApart`):
  that a worker with a task is in `threads_` with `handle_` and `running_` set, so that the join
  waits for it (`AliveIsKnown`), that the join has left no such worker behind it
  (`JoinPassed`), and that the queue it saw empty stays so (`QueueStaysEmpty`).
- `Alarms`: `D!Spec => AlarmOnlyIfSilent`. `WatchdogInv` says that an agent that is attached uses the
  segment `agentd` looks at. This is so because `agentd` is started once; see the observations.
- `TimersSound`: `T!Spec => []TimersOnceInOrder`. `TimerInv`: an element is in one of the
  lists or was fired or deleted; the times of those fired, taken and waiting follow each other;
  and no module was handed a time after the clock. The order from one pass to the next is not
  inductive without the last two. `CheckExpire` takes a prefix of the sorted list, so the
  proof needs facts on `SubSeq` and no induction.
- `Events`: `WebSpec => []EventHasManager`, for any number of
  lost links. Each event loop on the stack of a client beyond the first belongs to a lost link
  (`DepthOK`); `connected_` is reset before the client tries again (`Unconnected`);
  and `main` gets past each join only when that client's thread has ended (`ExitInv`).

Libraries (`LibrariesProof`):

- `PeerAddress`: `Spec => []PeerAddressIsPeer`, for any sockets and threads.
  The address is written by the handler of the accept, through a member of the acceptor; so
  one must know that this member names a socket nobody uses yet (`FillsNewSocket`) and that
  every socket with an operation under way or a handler to run knows its peer
  (`ActiveKnowsPeer`).
- `Streams`: `Spec => []StreamsKeptApart`. What a socket has received, the
  buffer its handler has not seen yet and the wire are together what the other end sent
  (`InStream`); a socket has one receive at a time, and links are paired.
- `Batches`: `StorageSpec => []BatchAllOrNothing`, if calls of `NewWriteBatch` do
  not overlap and at most as many batches are open as there are slots; the observations say what
  happens otherwise. Slots and open batches know each other (`SlotsAndBatches`), so a free
  slot is found by counting (`FiniteSetTheorems`), and every state in `history` has each batch
  whole.
- `LogsKept`: `L!Spec => []LogKeptAsConfigured`, for any capacities, expiry and number of
  lines, moves, copies and opens that fail and restarts, under `LoggerAssumption` (the two bounds
  above). A line that is in no file was truncated after a failed move and a copy that did not
  reach it (`lost`); nothing else loses one. A rotation may overwrite a backup: when the move
  failed and was replaced by a copy, the open failed too, and a restart rotates the old file
  again in the same second. That this loses nothing else is `BackupsCovered`: the new backup holds the lines of the one it replaces,
  or it cannot come about, because its file was begun in this second and is still too short.
  `Rated`, which counts the lines of the second, is there for that. The check for expired
  files decides and deletes in different critical sections; `ListedOK` says that the file that is
  written was recent when it was listed, or that none is open and none will be before a
  restart, which ends the check.

Events of the epoll library (`SocketsProof`):

- `HandlersOfSockets`: `V!Spec => []HandlersOfASocket`, for any sockets, threads, lives, and
  calls by any thread or handler. By `EpollInv` a socket is registered with no poll but that of
  its own thread, so an event of a life that is not over is with the thread of that life, and
  the next life's thread has none of it (`BatchOK`). The number a thread has read is not above
  the socket's, and if they agree no life was begun since but by `Attach` (`DispatchedOK`).

Overlay network (`OverlayProof`), for any connections, delays and timeouts with
`OverlayAssumption`: a closing handshake ends before `OnTimer` may delete its connection, and a
quarter of the timeout, the time to answer a ping and one tick are within the timeout.

- `ConnectionsReleasedOnce`: `N!Spec => []ConnectionReleasedOnce`. `OverlayInv` follows a handle
  through its life: one that is not registered yet has no past (`NewOK`); one in
  the maps was not reported (`RegisteredOK`); one that waits for its deletion waits at
  least as long as websocketpp still calls it (`DelayedOK`); and a callback of a message that is between two
  critical sections has just touched its connection, so that the loop does not find it
  expired at the same time (`CallbackOK`).
- `LivePeersKept`: `N!Spec => []LivePeerKept`. `AnswersOK` bounds the age of what a living peer
  sent by the age of the ping it has not answered; without such a ping, a check has left
  a connection that was pinged at most a quarter of the timeout ago or has just received.

Only model-checked:

- liveness (`EventuallySettled`, `EventuallyDelivered`, `WriterEnters`, `PoolCallsReturn`,
  `TimersFire`, `AgentRestarted`, `ReconnectsUntilExit`, `CloseIsNoticed`, `SilentPeerRemoved`,
  `ConnectAnswered`): outside the prover's reach;
- the conversions (`TextsAgree`, `NumbersExact`): recursive operators, whose value for every
  input takes induction over data.

## Not modelled

- Keys and signatures (`private_key.cpp`, `crypto.cpp`, `ecc_sm2.cpp`, `sm3.cpp`,
  `data_secret_key.cpp`): arithmetic on numbers of 256 bits, block ciphers and hashes, which
  have no small instance that says anything of the real one. Their shared cache is modelled.
- `SetTimeout` and `SetOwner` of the contracts, and `UPDATE_PERIOD`, which calls the first:
  `timeout_` is a constant. The contracts copy it into each entry and compare the copy only.
- The balance check of `HandleManager::Initialize`: it only keeps the agent from starting.
- JSON, protobuf and the blobs of transactions; the reading of the configuration and of the
  command line; wording of the log.
- `dbtool` prints the database. `system.cpp`, `timestamp.cpp` and most of `file.cpp` wrap
  calls of the operating system.
- UDP sockets, the blocking `Socket` beyond what the epoll library uses, the Windows branches.
- `Mutex`, `Semaphore` and `Event` are taken as the atomic objects of pthread they wrap.

## What is left

`timeout_` as a variable, with `SetTimeout` and `UPDATE_PERIOD`.
