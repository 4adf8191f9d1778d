# A TLA+ model of msgpack-rpc-boost

msgpack-rpc-boost is an asynchronous RPC library in C++ on top of Boost.Asio
and MessagePack. A program calls a method of a remote server through a
*session* and gets a *future*; worker threads of a *loop* read the answers,
run the timers, accept connections and dispatch requests. Everything hard in
it comes from what those threads share without one common lock: the request
table, the futures, one socket per session, the table of pooled sessions, the
set of server connections.

The TLA+ modules in this directory model that core, TLC checks them on small
instances, and TLAPS proves every safety property of the runs that hold for
every number of threads, calls, connections, workers and so on. `PROJECT.json`
lists components, runs, mutations, findings, hazards and theorems, and maps
each definition to the lines it models. Paths below are relative to `src/src/msgpack/rpc/`.

## 1. Inventory

### Components

| component | source | state | operations | model |
|---|---|---|---|---|
| request table | `reqtable.{h,cc}` | `m_map` (id to future), `m_mutex` | insert, take, take_all, step_timeout | `ReqTable` |
| session | `session.{h,cc}`, `session_impl.h`, `atomic_ops.h` | `m_msgid_rr`, `m_reqtable`, `m_timeout`, `m_step_timer` | call, notify, on_response, on_system_error, on_connect_failed, step_timer_handler | `Session` |
| future | `future.{h,cc}`, `future_impl.h`, `exception.{h,cc}` | `m_session` (its presence means "not ready"), `m_result`, `m_error`, `m_timeout`, `m_callback`, condition variable | set_result, attach_callback, wait, timed_wait, join, get, recv | `Session`, `Loop` |
| TCP client transport | `transport/tcp.cc`, `transport/stream_handler.{h,cc}` | one socket, `mutex`, `m_connecting`, connect timer, strand, unpacker | send_data, connect with retries, on_connect, on_timeout, start, on_read, on_system_error | `TcpClient` |
| session pool | `session_pool.{h,cc}`, `session_pool_impl.h` | `m_table` (address to session and ttl), step timer | get_session, step_timer_handler | `SessionPool` |
| TCP server transport | `transport/tcp.cc`, `transport/stream_handler.cc` | acceptor, `m_connections`, `m_conn`, one socket per connection | start_accept, on_accept, on_read, on_system_error, close | `TcpServer` |
| server, requests | `server.{h,cc}`, `server_impl.h`, `request.{h,cc}`, `request_impl.h` | `m_stran`, `m_dp`; `m_ms` of each request | on_request, on_notify, request::call, result, error, close | `TcpServer` |
| client | `client.{h,cc}` | one session without a pool | the constructors and the session's operations | `SessionPool` |
| loop | `loop.{h,cc}` | io_service, `m_workers` | start, run, run_once, flush, end, join, submit, destructor | `Loop` |
| UDP client transport | `transport/udp.cc`, `transport/dgram_handler.{h,cc}` | one datagram socket, strand, unpacker, `m_remote` | send_data, connect, start, on_read | `UdpClient` |
| UDP server transport | `transport/udp.cc`, `transport/dgram_handler.{h,cc}` | one datagram socket, a `response_sender` per request | on_read, on_request, on_notify, send_data, close | `UdpServer` |
| message format | `protocol.h`, `message_sendable.h`, `types.h`, `buffer.{h,cc}` | none | pack, unpack | not modelled |
| caller | `caller.h` | none | call, notify: overloads that forward their arguments | `Session` |
| address, interfaces | `address.*`, `transport*.h`, `impl_fwd.h` | none | none | not modelled |

### Interactions

* A *call* (`session::send_request`) draws an id with `atomic_increment`,
  inserts a new future into the table and hands the message to the transport
  *after* the insert. The transport connects on demand, in the caller's thread.
* An *answer* comes from `stream_handler::on_read` on the connection's strand:
  `session_impl::on_response` takes the future out of the table and completes it.
* A *failed write* (in a user thread), a *failed read* (on the strand) and a
  *failed connect* (in a user thread or in the connect timer) take all futures
  out of the table and complete them with an error; then the socket is closed.
* The *step timer* of the session takes out the futures whose time is over and
  completes them with a timeout, then arms itself again.
* `future::get`, `wait` and `join` block a user thread; when their own time
  is over they complete the future *themselves*, which stays in the table.
* A *callback* is run by `set_result` under the future's mutex, or posted to
  the loop if the future is ready when it is attached.
* The *pool* counts down entries whose `shared_ptr` is unique and erases them;
  the socket's pending read and the handlers of the step timer and of the
  connect timer survive that.
* On the server `on_accept` inserts a connection into the set and starts its
  reads; `on_read` builds requests and dispatches them; any thread may answer.
  A failed read and a failed write both remove the connection.
* Over *UDP* nothing is reported to the session: a failed connect closes the
  socket, a failed send throws, a failed receive is not followed by another.
  A server's request keeps a copy of the endpoint it came from.
* Without workers a thread that waits (`future_impl::recv`) runs handlers of
  the *loop* itself, one at a time, its own or those of other calls. The
  last owner of the loop destroys it, and that may be one of its workers: in
  a callback, or in a handler that completes the last future. A callback in a
  worker may also call `join()`, which then detaches its own thread.

### What is hard, and what correctness means

* Four competitors for one future: an answer, the timer, two kinds of errors.
  Each request must be completed exactly once by one of them
  (`ExclusiveCustody`, `NoLostCall`, `KeepsPromise`).
* A waiter that gives up races with all of them and does not touch the table
  (`StableResult`, `TornRead`, `CallbackOnce`).
* Ids wrap around (`OwnReply`, `NoLostCall` in run `session`).
* One socket is closed and connected again by three kinds of actors without a
  common lock (`OneConnect`, `NeverDeaf`, `CleanReconnect`, `OrphansAreLate`,
  `SendReturns`).
* Reference counts decide on the lifetime of sessions, and three users of a
  session do not count (`UsedIsPooled`, `KeptLongEnough`, `UnusedIsDropped`).
* A server connection breaks while several threads answer on it and the server
  is being closed (`AnsweredOnce`, `FramesIntact`, `SentOrLost`, `Managed`,
  `NoneSkipped`, `AcceptsAgain`, `GoneIsDropped`).
* Datagrams are lost, repeated and cut, an error ends the receiving for good,
  and nothing is locked while a UDP socket is connected (`DeafAfterError`,
  `OneReceive`, `UdpCallSettles`, `RepliesGoHome`, `AnsweredOnce`).
* The loop is started, stopped, joined and destroyed by whoever has it, its
  own callbacks included (`OneTeam`, `LastOutFrees`, `RecvReturns`,
  `JoinReturns`).

The list of hazards, each at the line where it bites, is in `PROJECT.json`.

## 2. Modules

```
                                       +--refines--  TcpClient
Promise  <--refines--  Session  <------|
                          |  EXTENDS   +--refines--  UdpClient
                       ReqTable
                    SessionProofs  <--EXTENDS--  FutureProofs, TcpClientProofs, UdpClientProofs
SessionPool         TcpServer         UdpServer         Loop
SessionPoolProofs   TcpServerProofs   UdpServerProofs   LoopProofs
                                                MC* : instances for TLC
```

**ReqTable** has the methods of `reqtable` as operators on the map; each is
atomic because the code holds `m_mutex`. A free slot holds `NoFuture`.

**Promise** is the abstract specification: each call is issued once and
settled at most once and for good, with the peer's answer to that very call
or with one of the two local errors; an issued call is settled in the end.

**Session** has `session_impl` with the futures. User threads, the transport's
handlers (`Readers`) and the step timer (`Timer`) are processes. A step is what
happens between two points where another thread can interfere: one table
method, one `set_result` or `attach_callback` (both under the future's mutex),
one unlocked read. The vector of futures a handler has taken out of the table
is `todo[p]`, what it will give them is `give[p]`. `get_impl` reads
`m_error`, then `m_result`, and `throw_exception` reads `m_error` again: three
steps. `m_session` being set is `fstate = "pending"`. Here the transport may
write, drop, throw or report an error; the peer answers in any order, and an
answer may arrive any number of times. History variables (`completions`,
`settled`, `expired`, `issued`, `ran`) record what the properties refer to.

**TcpClient** EXTENDS `Session` and ties each of those choices to the socket,
the strand and the connect timer. Opening the socket starts a new incarnation;
a read belongs to the incarnation on which it was started. Every step is a
step of `Session` or leaves its variables alone, which `TcpClientProofs` proves.
Waiting and callbacks do not touch the socket and are left out of `TNext`, but
for one: a callback that `on_connect_failed` runs while its thread holds
`client_transport::mutex`, and that calls again on the session, waits for that
very mutex (`callback_calls_again`). The connect timer holds no mutex: its
tests, the `close()` of the socket and the report to the session are three
steps, and another thread may connect and write between any two of them.

**UdpClient** does the same for `client_transport`, `client_socket` and
`dgram_handler` of UDP, with the network as an adversary. Nothing is locked
around `is_open()` and `connect()`; `crowded` records that two threads were in
there at once. `refused` is the error that an ICMP message leaves at a
connected socket: the next receive or send fails with it. A datagram holds one
answer or a notification. One that is cut by the room in the unpacker's buffer
is kept in `rest` until the next datagram, which is taken for its end
(`unpacked`); what two receives on one buffer make of a datagram is one lost,
repeated or bad. `UdpClientProofs` proves that every step is one of `Session`.

**UdpServer** models the one receive of the server's socket, `m_remote`, the
unpacker and the requests with their `response_sender`. A delivered copy of a
datagram makes a request object of its own. A datagram longer than the room in
the unpacker's buffer is cut, and `unpacked` says what comes of that: the rest
is taken from the next datagram. `send_to` may throw into the program.

**SessionPool** models the pool's table and the lifetime of sessions: which
`shared_ptr`s exist (table, handles, waiting futures, a handler that has locked
its `weak_ptr`) and which three users do not count (the step timer's handler,
the connect timer's handlers, `dials`, and the socket with its pending read).
`Clients` are the sessions that `client` constructors make and no table has. A
read that has locked its session may complete one future, many or none (a
notification, an unknown id). The step timer's handler is queued, runs,
completes futures, and arms the timer: four steps, between which the session
may go. A handler that finds its session or transport destroyed is where the
behaviour ends: nothing is claimed about what follows it.

**TcpServer** models accepting, the set of connections, reading and
dispatching, answering from several threads with a response written in two
halves, and `server::close`. `remote_endpoint()` throws for a connection the
client has reset; that leaves `on_accept` before `start_accept` and
keeps `stop` from closing the socket, as in the code. What a destroyed transport
does is not modelled: `on_system_error` is disabled once it is gone.

**Loop** models `loop_impl`: threads of the program and workers as processes
that are outside, in `start`, `join` or `recv`, or inside the io_service,
where they take one handler at a time. Of the sessions only what the loop sees
is left: a call that waits, and a step timer. One expiry of the timer is one
handler, taken by one process, which arms the timer again. Callbacks may call
`start`, `end`, `submit` and `join`; a worker that joins itself is detached
and forgotten while it is still in `run()` (`detached`). The io_service
is external: it stops when told to, or when somebody is inside and there is no
work; the code never resets it. References to the loop (threads, the session,
callbacks whose future has one) decide who runs the destructor; the session's
own reference goes with its handle or with the last future that waits, which a
handler completes.

Operators whose comment begins with "A mutated form" are not part of the
specification: each is a plausible bug, put in place of the definition that
follows it to see that a property notices.

## 3. Runs

| run | checks | instance | result |
|---|---|---|---|
| `session` | `TypeOK`, `ExclusiveCustody`, `NoLostCall`, `OwnReply` | 1 thread, 3 calls, 2 ids, one reader and the timer | holds: only calls with the same id are confused or pushed out |
| `future` | `CallbackOnce`, `TornRead`, `StableResult`, `KeepsPromise` with its liveness | 1 call, 2 threads, 2 callbacks, answers with and without an error | holds |
| `tcp_client` | `TTypeOK`, `OneConnect`, `NeverDeaf`, `CleanReconnect`, `OrphansAreLate` | 2 threads, 1 call, notifications, 2 connections | holds |
| `tcp_live` | `SendReturns` | 2 threads that send notifications, 3 connections | holds |
| `tcp_connect_timeout` | `ConnectTimesOut` | 1 thread, 1 call, 2 connections, a connect may hang | violated, see below |
| `pool` | `TypeOK`, `UsedIsPooled`, `KeptLongEnough`, `UnusedIsDropped` | 1 thread, 1 address, 2 sessions for it, a client, 1 call | holds |
| `tcp_server` | `TypeOK`, `AnsweredOnce`, `FramesIntact`, `SentOrLost`, `Managed`, `NoneSkipped`, `AcceptsAgain`, `GoneIsDropped` | 2 threads, 1 connection, 2 requests, 1 notification | holds |
| `server_close` | `NoTrailingAccept` | 1 thread, 2 connections | violated |
| `udp_client` | `UTypeOK`, `DeafAfterError`, `OneReceive`, `UdpCallSettles` | 2 threads, 1 call, notifications, 2 incarnations of the socket | holds |
| `udp_server` | `TypeOK`, `RepliesGoHome`, `AnsweredOnce`, `DeafAfterError` | 2 clients, 2 threads, a request and a notification, each delivered up to twice and possibly cut | holds |
| `loop` | `TypeOK`, `OneTeam`, `LastOutFrees` | 2 threads, teams of 1, 2 workers, 2 callbacks of which one refers to the loop, 1 call | holds |
| `loop_live` | `RecvReturns`, `JoinReturns` | 2 threads, 1 worker, 1 callback that refers to the loop, 1 call | holds |

Several of the properties that hold say exactly how far the code goes, because
the stronger wish is not true of it: `StableResult` allows a result to change
between a waiter's timeout and a handler's, `TornRead` allows a mixed result
when a wait ran out, `OwnReply` allows a foreign answer after a wrap,
`CleanReconnect` holds while only the strand closes the socket,
`OrphansAreLate` excepts requests inserted during the error handling,
`SendReturns` excepts a callback that waits for the mutex of its own thread and
whoever comes to the mutex after it, `UnusedIsDropped` a session that a read
has locked at the pool's ticks time and again, `AnsweredOnce` two simultaneous
answers, `Managed` the connection on which `on_accept` threw, `DeafAfterError`
a socket after an error, `OneReceive` two threads in `connect`, `RepliesGoHome`
a message put together from two datagrams, `OneTeam` and `LastOutFrees` a
worker that has joined itself and two processes in `start` and `join` at once,
`RecvReturns` a loop that was stopped and one where others stay inside and may
take every handler. These exceptions are where the hazards bite: a property
with one says that nothing else goes wrong there, not that this cannot.

### Bounds

* Two threads and one or two calls give every pair of competitors (a thread, the
  reader, the timer); more of the same kind only adds copies, and for the
  safety properties the proofs cover every number.
* `IdSpace` stands for 2^32. With 4 ids the calls of a run do not wrap; with
  2 ids and 3 calls they do (id 1, 0, 1), and the first two of them are the
  case without a wrap.
* `MaxAttach = 2`: a callback and one that replaces it.
* `future` has one call, so `KeepsPromise` is there about when and how often it
  is settled; that calls do not get each other's answers is `OwnReply` in run
  `session` and the theorem `Refinement`.
* `MaxConn = 2`: a connection, its failure, and the one that follows it;
  `reconnect_limit = 2`: one retry. Over UDP an incarnation of the socket, its
  failure and the next. In `tcp_live` it is 3, for each retry takes one.
  Behaviours end when the last incarnation is closed, so `SendReturns` says
  nothing of a thread that never gets the mutex because others connect for
  ever; the mutex does not promise to be fair.
* `tcp_live` has no calls, only notifications, because of its size. They take
  the same way through `send_data()` and wait for the same mutex. So its
  behaviours have no callbacks; that of `callback_calls_again`, which
  `SendReturns` excepts, is in `tcp_client`.
* `TimeLimit = 1` stands for the 60 steps of the pool: an entry is counted
  down, and it is not yet dropped when it was used in between.
* The pool has one address and two sessions: one is dropped and another made
  for its address. Entries of different addresses share nothing but the mutex.
  One user thread suffices as a thread may hold several handles, and one call
  as calls of a session count only as references.
* `MaxCopies = 2`: a datagram and its copy.
* The loop has two workers and teams of one: a loop can be started twice, one
  team after the other or two threads at once. `Timeout = 1`: the timer has to
  fire twice.
* The server has one connection, which is accepted after any number of failed
  accepts: connections share only the acceptor and the set.
* `loop_live` has one worker, which makes its graph small enough for liveness;
  a worker that joins itself, and the mode without workers, need no second.
* `CHECK_DEADLOCK FALSE` is used for the servers, where nothing more happens
  once they are closed or all messages of the run are answered, and for the
  loop, which may be destroyed.

### Fairness

Weak fairness is assumed of what the scheduler and the loop run anyway: a
thread that is inside the library and not blocked goes on, a worker runs
every handler that is ready, an armed timer expires, callbacks and dispatchers
return. Nothing is assumed of the peer (it need not answer), of clients,
of the program (it need not wait, answer or let go) or of the network.
`TSpec` assumes in addition that a `connect()` of the socket ends, as the
operating system sees to it; `TSpecMayHang` does not, and is the specification
of run `tcp_connect_timeout`. In `SessionPool` the pool's timer goes on, and a
read that has locked a session ends; nothing says that a read does not lock it
again. In `Loop` a process inside the io_service takes some handler if there
is always one ready for it, weakly fair per process: when another process takes
each of them first, it may sleep for ever, since the io_service does not promise
who gets a handler. Callbacks return (strong fairness of `task_ends`, because a
callback may make any number of calls before it does). `UdpCallSettles` assumes
nothing of the network.

### Where the code and its documentation disagree

* **`tcp_connect_timeout`.** The timer that `connect` arms for the
  "connection time out" (`transport/tcp.cc:245`) does nothing while the socket is
  open, and the synchronous connect has opened it.
* **`server_close`.** `server::close` stops the loop "to prevent trailing
  handle_accept()", but does not wait for a worker that is in it.

Three more comments promise more than the code does; what is left of them is
in the models and the properties that hold:

* `on_read` is to "set exception for orphaned promises"
  (`transport/stream_handler.cc:85`). The requests are taken out of the table
  before the socket is closed; one written in between gets no exception and
  waits for the step timer (`OrphansAreLate`). The same comment in
  `transport/dgram_handler.cc:93` is followed by no such thing at all: over
  UDP every orphan waits for the timer (`UdpCallSettles`).
* "There are no contexts that references the session" (`session_pool.cc:95`)
  overlooks the handlers bound to a plain `this`, of the session's step timer
  (`session.cc:108`) and of the transport's connect timer
  (`transport/tcp.cc:247`): in `SessionPool` a session is destroyed while one of
  them is queued (`timer`, `dials`).
* "`m_pimpl->m_reqtable` is empty" of such a session (`session_pool.cc:97`) is
  not so: a future whose `timed_wait` ran out has let go of its session and is
  still in the table (`"given_up"`).

## 4. Proofs

`SessionProofs` proves, for every set of threads, readers and calls and every
`IdSpace > 1` (from `SessionAssumption` and `ReqTable`'s assumptions alone):

* `TypeCorrect`, `Custody`, `NothingLost`, `OwnReplies`:
  `Safety => []` of `TypeOK`, `ExclusiveCustody`, `NoLostCall` and `OwnReply`;
* `Stability`: the action property `StableResult`;
* `Refinement`: `Safety /\ []NoWrap => P!PSafety`, the safety part of
  `Promise`. `NoWrap` (fewer ids drawn than there are) is necessary: after a
  wrap the id of a pending call may be given out again, and run `session` has
  such behaviours.

The argument is the inductive invariant `IInv`, the conjunction of named parts:

* `ControlInv`: where a process is agrees with the future it works on, an id
  between its drawing and the insert belongs to one thread, and what the
  program, the peer and the processes know of has been inserted;
* `IdInv`: ids are handed out in order, so they differ until they wrap around;
* `GiveInv`: what a handler is about to give is a local error or an answer with
  the id of each future it holds;
* `ResultInv`: a result that is an answer carries the id of its future, and a
  future that no handler has completed can only be ready by a waiter's timeout;
* `TypeOK`, `ExclusiveCustody` and `NoLostCall` themselves.

None of the safety properties is inductive alone. `ExclusiveCustody` needs
`ControlInv` to know that a future being inserted is in nobody's hands;
`OwnReply` needs `GiveInv`, since the answer and the table are read in one step
and the future is written in another; `StableResult` needs `ResultInv`, to
know that a ready future which a handler completes held a timeout. There is one
lemma per group of actions and conjunct; lemmas about `taken`, `after_take`,
`after_take_all` and `after_step_timeout` state what the table's operators do.

`FutureProofs` adds `OneRun` (`[]CallbackOnce`) and `Mixtures` (`[]TornRead`).
`CallbackInv` says that callbacks are numbered as they are attached, so that a
new one has never run. `GetInv` says what is still true between the two looks
that `get_impl` takes at the result: a future once seen without an error has
none, or *another* thread has given up on it (`ReplyOverwritten`: only a waiter
overwrites an answer, and it is at its own `set_result`, so it is not the thread
in `get_impl`).

`TcpClientProofs` proves `TcpImplementsSession`, `TSafety => Safety`, and from
it `TcpCustody` and `TcpKeepsPromise`: the table properties and the safety part
of `Promise` hold over TCP. About the socket itself, from `TcpAssumption`:

* `OneConnectAtATime` and `AlwaysReading`: `OneConnect` and `NeverDeaf` are
  inductive once the types are known (`TcpTypeCorrect`);
* `CleanStart`, `[]CleanReconnect`, needs `CleanInv`: as long as only the strand
  has closed the socket it is open during `connect`, and no read is outstanding
  before `on_connect_success` has started one;
* `Orphans`, `[]OrphansAreLate`, needs `OrphanInv`: while an error is being
  reported the table holds late requests only, and every other request in it
  was written to the connection there is now. So it does not matter which of
  the three actors closes the socket.

`UdpClientProofs` proves the same of UDP (`UdpImplementsSession`, `UdpCustody`,
`UdpKeepsPromise`), `UTypeCorrect` (whose part about the session comes from
`TypeCorrect` through the refinement), `UdpListens` (`[]DeafAfterError`) and
`UdpOneReceive` (`[]OneReceive`), the last with `OneConnecting`, which says
where the one thread that connects is.

`SessionPoolProofs` proves `TypeCorrect`, `Pooling` and `Keeping`
(`UsedIsPooled`, `KeptLongEnough`) from `PoolInv`: who refers to a session
agrees with its life (`RefInv`), the steps it was unused are known through its
ttl (`TtlInv`), and an entry found to be expired stays unused until it is erased
(`DoomedInv`).

`TcpServerProofs` proves `TypeCorrect`, `ManagedAreRead`, `NoneLost`, `Frames`,
`OneAnswer` and `SentOrLostAlways` (`Managed`, `NoneSkipped`, `FramesIntact`,
`AnsweredOnce`, `SentOrLost`). `ReadInv` says where a message is between socket
and dispatcher; `WriteInv` that the mutex of a connection is held by the one
thread that writes, and a response cut in half is the last; `AnswerInv` and
`FailureInv` tie what has happened to a request to the thread that answers it.
That a connection once lost stays lost (`LostForGood`) is what makes the
unlocked `is_open()` harmless there.

`UdpServerProofs` proves `TypeCorrect`, `Homing`, `OneAnswer` and `Listening`
(`RepliesGoHome`, `AnsweredOnce`, `DeafAfterError`). `NetInv` and `StrandInv`
say what the network, the receive and `on_read` have in hand, in particular
that `m_remote` is not overwritten while `on_read` is at work; even the types
need them, as no more requests may be made of a message than datagrams came.

`LoopProofs` proves `TypeCorrect`, `Teams` and `LastOut` (`OneTeam`,
`LastOutFrees`, with their exceptions). `TeamInv`: the workers inside the
io_service that have not joined themselves are among `m_workers`, and together
with those `start` has still to create they are no more than the team; `join`
waits for each of them before it clears the vector. `PlaceInv` and `LifeInv`:
when nothing refers to the loop all threads are outside, and one process is in
the destructor; `TaskInv` keeps the loop alive while a callback that refers to
it runs, also while that is in `start` or `join`. `FiniteSetTheorems` gives the
cardinalities.

Each theorem rests on the named assumption of its component's module and
nothing else; they say that sets of processes and values are disjoint and
bounds are numbers. `UdpServerAssumption` also says that `None` is no request
object. The inductive invariants were checked with TLC on the instances of the
runs before they were proved.

Only model-checked are the properties that need fairness, which is beyond the
prover: `SendReturns`, `UnusedIsDropped`, `AcceptsAgain`, `GoneIsDropped`,
`UdpCallSettles`, `RecvReturns`, `JoinReturns`, and in `KeepsPromise` that an
issued call is settled in the end. The two violations are TLC's alone.

## 5. What is not modelled

* The sockets in the mode without workers: `Loop` has `recv()` and `flush()`,
  but `TcpClient` and `UdpClient` assume `is_running()`. In that mode the same
  handlers run, in fewer threads.
* Two threads in `join()` of one loop at once: `m_workers` is cleared while the
  other walks it. Callbacks that enter the io_service again (`run`, `flush`, or
  `get()` without workers). What is left of a step timer whose session is
  destroyed is in `SessionPool`, not in `Loop`.
* The destruction of the pool, with its own step timer on a plain `this`
  (`session_pool.cc:42`, `73`).
* What a UDP answer put together from two datagrams says, beyond its id.
* `server::serve` and `listen` after the server has started; `set_timeout` of
  the pool, `set_broadcast`.
* Bytes: a message is a model value. Packing, unpacking and the buffer's
  limits belong to the MessagePack library. A message that cannot be handled is
  an action (`bad_message`, `dispatch_throws`).
* Time: a deadline may pass whenever it is armed, a wait may run out at
  any moment. Spurious wake-ups and the overflow of `m_timeout * 1000` are lost
  by that.
* Callbacks that use their own future (a deadlock on its mutex).
* `BOOST_LOG` output, address classes, the arguments of calls.

## 6. Plan

Done so far, in order of importance: `ReqTable`, `Promise`, `Session` with
its proofs; `TcpClient` and `UdpClient` with the proofs that they are
`Session`s; `SessionPool` with clients; `TcpServer`, `UdpServer`; `Loop`.

Every invariant of the runs and the action property `StableResult` are proved.
What may follow:

1. the remaining lemmas of a step-by-step refinement of `Promise` across a wrap
   of the ids, with the calls that share an id left out;
2. action properties of the transports beside their invariants: what a step may
   never do to a connection or a request that is done with.
