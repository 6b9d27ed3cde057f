# TLA+ models of TinyWebServer

Specifications of the server in `src/`, from `accept()` to the last byte of a
response and the connections of MySQL, checked with TLC on small instances and
proved with TLAPS for all of them. This file says what the system's parts are,
which module models which, what the checks and proofs show, and what is not
covered. `PROJECT.json` lists the runs, maps every
definition to the lines it models, and lists the hazards the properties are for.

## 1. The system

| Component | State | Operations | Talks to |
|---|---|---|---|
| `EpollServer` (main reactor), `webserver.cpp` | listening socket, round robin index | accept, choose a sub reactor | `SubReactor::addConnection` |
| `SubReactor`, `sub_reactor.cpp` | pending queue (mutex), eventfd, epoll, connection table, timer handles, counter | `addConnection`, event loop, `handleNewConnection`, `handleRead`, `handleWrite`, start/stop | `HttpConnection`, `TimerWheel`, `FThreadPool` |
| `TimerWheel`, `time_wheel.cpp` | buckets, current slot, timers (mutex) | `addTimer`, `refresh`, `cancel`, `triggerNow`, `tick` | callbacks of its owner |
| `HttpConnection`, `http_conn.cpp` | buffers, parser, `closing_`, one-shot registration | `ReadOnce`, `ProcessHttp`, `WriteOnce`, `Destroy` | kernel, parser, router |
| `InputBuffer`, `OutputBuffer` | bytes read; bytes to send, iovec, mapping or file | read until EAGAIN, write once | kernel |
| `HttpRequestParser` | parsing state over one request | `parse` | - |
| `HttpResponse` | status, body, file and range, headers | setters, `finalize`, `build_response` | file system |
| `HttpRouter`, `HttpController`, `StaticFileController` | routes, filled once | `match`, page handlers, files with ranges | `UserService` |
| `UserService`, `user_service.cpp` | none (the table `user`) | `registerUser`, `verifyUser`, `userExists`, `escapeString` | `MySQLConnectionPool` |
| `MySQLConnectionPool` | queue of connections, condition variable | `getConnection`, `releaseConnection` | MySQL |
| `FThreadPool`, `threadpool.cpp` | queue of tasks, counters, flags | `pushTask`, workers, `waitTasksFinish`, destructor | tasks of `SubReactor` |
| Logger, ConfigManager | in a submodule whose directory is empty here | - | - |

The main reactor accepts and deals connections out round robin. Each sub
reactor is one thread with an epoll, a table of connections indexed by
descriptor, and a timer wheel. With `server.use_thread_pool` (the default of
the code; off in `conf/server.json`) a readable connection is read by the sub
reactor and processed by a worker; otherwise everything happens in the sub
reactor. The handlers of `/register` and `/login` block in MySQL from whichever
of these threads runs them.

What is hard here: the wake-up protocol between two reactors (queue, eventfd,
edge-triggered epoll); descriptors that are closed and handed out again while
an event, a timer handle, a callback or a task still names them; one-shot
registrations that every path must arm again; half-closed connections; timers
refreshed while they are cancelled or being collected; workers that use a table
without a lock; nested acquisition from a bounded pool; requests that arrive in
pieces and a parser, a buffer and a connection that each keep some state over
them; responses that the kernel cuts anywhere, with four counters to keep in
step; lengths that are announced before the file is opened; a pool whose
counters, queue and condition variable are not all under one lock, and its
destruction. `PROJECT.json` "hazards" has each one with its line.

What makes each part correct: the wheel fires every timer at the tick its
timeout says, once, and never after a cancel; the hand-over loses and
duplicates no descriptor; a connection has exactly one timer, and dies with it;
an event is handled for the connection it was reported for; a closing
connection sends nothing more; idle connections are reaped; every request gets
its own answer, in order, or its connection is closed; every response arrives
in order, as long as its Content-Length says, and releases its file; the thread
pool runs every task once while it lives and its workers end with it; the MySQL
pool loses no connection and its users do not block each other for ever.

## 2. Modules

| Module | What it is |
|---|---|
| `Countdown` | one tick of a family of countdowns, as functions |
| `TimerService` | abstract specification of a timer facility: countdowns, cancelled timers, owed callbacks |
| `TimerWheel` | `time_wheel.{h,cpp}`, implementing `TimerService` |
| `SubReactor` | sub reactors with the accept side, the epoll, the outcomes of `HttpConnection`, the idle timers and the workers' use of the table; uses `Countdown` for its wheel |
| `MySQLPool` | the connection pool under arbitrary users |
| `UserService` | the handlers of `/register` and `/login` over `MySQLPool` |
| `RequestReply` | abstract specification: the requests of a connection are answered one by one, in order |
| `HttpConnection` | one connection and its client: `http_conn.cpp`, `http_parser.cpp`, `input_buffer.cpp`; implements `RequestReply` |
| `ResponseStream` | abstract specification: responses arrive byte after byte, complete, or the connection ends |
| `OutputBuffer` | `output_buffer.{h,cpp}` under arbitrary responses; implements `ResponseStream` |
| `RequestHandler` | from a parsed request to its response (`http_router.cpp`, `http_controller.cpp`, `static_file_controller.cpp`, `http_response.cpp`, the pre-handlers) over `OutputBuffer` |
| `FThreadPool` | `threadpool.{h,cpp}` with the end of the process |
| `MC*` | constants for TLC |
| `TimerWheelProofs`, `SubReactorProofs`, `SubReactorEvents`, `UserServiceProofs`, `HttpConnectionProofs`, `OutputBufferProofs`, `RequestHandlerProofs`, `FThreadPoolProofs` | theorems |

Each module looks at the same connection from one side. `SubReactor` has all
connections, their descriptors and the races of three kinds of threads, and
knows of a request only whether there is one. `HttpConnection` has one
connection and what it was asked and answers, and knows of an answer only what
it was computed from. `RequestHandler` says what that answer is and extends
`OutputBuffer`, which says how it leaves. `UserService` has what two of the
handlers do meanwhile.

Definitions keep the names of the code. A definition that stands just before
the one it varies, and that no specification uses, is that operation with a
plausible bug (`CopyQueue` for `SwapQueue`); PROJECT.json "mutants" says which
property notices it.

### TimerWheel
`wheel`, `slot`, `rotations`, `canceled`, `current_slot` are the fields of the
code. What `mtx_` protects is atomic, with the exceptions the code has:
`refresh()` reads `canceled` before it locks (`RefreshCheck`, then
`RefreshLocked`); `tick()` is `TickBegin`, one `Scan` step per list element and
`TickEnd` (`ticking` is the lock held); collected callbacks run later
(`expired`, `RunCallback`). Buckets are sets; `todo` is what the iterator has
not reached. Real time is left out: a tick may happen whenever the ticking
thread is free. Timers are added once each. Timer callbacks do not call the
wheel in this model, which is true of the program's only callback.

The refinement maps a bucket and a rotation count to the number of ticks that
are left (`Remaining`). A tick of the wheel takes many steps: the abstract tick
is the step that takes the lock, and what the scan is going to collect counts
as collected already (`WillExpire`).

### SubReactor
A socket is its client (`sock[f]`), and the kernel knows of it a set of flags:
unread input, end of the stream, reset, full send buffer. `arm` is what the
epoll of each reactor listens for on a descriptor: nothing (not registered), off
(a one-shot that has fired), input or output. `counter` and `edge` are the
eventfd's value and its place on the ready list. The loop is `pc`: waiting,
events, taking the queue (`swap`, `install`), callbacks (`expire`). A handler
(`HandleRead`, `HandleWrite`, ...) is one step: it runs in one thread and what
the client may do meanwhile is in its alternatives (a reset between the read and
the write, a send buffer that fills). A worker's task is four steps: it takes
the task, reads `connections_[fd]`, reads it again to call through it, and ends
with `modFd`; `fault` is set when what it reads or uses is gone, or when both
threads use one connection. After a fault the model stops.

Abstracted: bytes of requests and responses (nothing, something, or the last
thing to send), the 1024-event limit of `epoll_wait`, its errors, SIGPIPE (the
code never ignores it: a write to a reset connection may also end the process,
after which there is nothing to state), the listening socket and its errors
(EMFILE), start and stop. A client comes back only when nothing of its last
connection is left, so that names are not reused before the descriptors are.

### MySQLPool and UserService
`getConnection()` either takes a connection or waits on the condition variable
(`Take`, `Block`); a waiting thread leaves the wait when it is notified or
spuriously, and competes for the mutex with everyone else (`woken`). `init()`
opens all connections or the server does not start, so the branch that opens
more is not in the model. `UserService` runs the handlers: each function takes
its connection (`outer`), then one more for each string to escape, runs its
statement and returns; `After` is what `handleRegister` and `registerUser` call
next. A statement may fail (`MayFail`), an INSERT also after it was carried out.

### HttpConnection
A request is a method, the rest of its line, its fields, the empty line and a
body of some bytes; the network may cut after any of them (`mode.cuts`), and a
piece takes one place of the buffer. `conn` is the `HttpConnection`: the read
buffer, the parser's `state_` and `content_length_`, the answer that is being
written, `close_connection_`, `closing_`, and what epoll listens for. The
operators `ParseRequestLine`, `ParseHeaders`, `ParseBody` are `parse()`: it
begins where the last call ended, with a new `HttpRequest` and at the start of
the buffer, and says which pieces its result came from; `Expected` is what they
should be. `HandleRead`, `Work`, `HandleWrite` and `HandleWriteFails` are
`handleRead`, the task and `handleWrite`. Requests are good, malformed, without a
Host, without any field (never complete, since the blank line goes with the
request line), or with a form or the query of a GET that cannot be decoded
(`std::stoi` throws, which the task's future swallows; without the pool it ends
the process). `ReadFails` has the full buffer: `recv` with no room returns 0.

The idle timer has no guard but the time. `Elapse` says that 15 s have passed
since the last refresh, which may happen in any state of an open connection;
`HandleRead` and `HandleWrite`, and nothing else, take it back; `Timeout` is the
callback, and asks neither for a task that is queued or being processed, nor for
a request that has arrived, nor for an answer that is being written. So a
complete request may be dropped for it, and `Dropped` lists it.

The client asks again when it has its answer. Left out: a header line whose name
is empty, over which `parse_headers` loops for ever; `read_lt`, which nobody
calls.

### OutputBuffer and RequestHandler
Bytes are named by where they come from, so that a response is right when its
byte `i` is `i`. `SetMmap` and `SetSendfile` are the two `set_response_with_*`;
`Writev` and `Sendfile` the two halves of `write_to`, in which the kernel takes
any number of bytes; `Finish` and `AdvanceIov` are the counters and the iovec.
A buffer may be used in any way its interface allows (`Next`), and
`RequestHandler` uses it as the program does: `Responses` is the part of
`ProcessHttp` after parsing, with the pre-handlers, `Match`, the handlers and
`HandleRange`, whose sizes are those of a `size_t` (`SIZE_MODULUS`); `Finalize`
may find the file gone. Texts are their lengths; URIs are what the routes tell
apart. `ProcessHttpThrows` is a Range bound that does not fit a `size_t`
(`std::stoull` throws, `static_file_controller.cpp:134`): there is no response
and no event armed, so that it is one step with the end of the connection.

Three constants have what the code does not survive: `HeaderCuts` (the kernel
cuts a header twice with `writev`: `output_buffer.cpp:204` advances `iov_base` by
all bytes sent so far each time), `OffPage` (finding `output_mmap`) and
`OpenMayFail` (`open` fails after the length was announced:
`output_buffer.cpp:49`). The run `responses` has none of them, and each theorem
assumes those it needs (section 5). `Fits` is the strongest condition: no header
is cut twice, what is announced can be opened, and ranges that start within a
page are sent with `sendfile`. The last is a condition on how the server is set
up and what it is asked for: `conf/server.json` has `use_sendfile` off, where any
such range is mapped. `InPlace` says the same of one response.

### FThreadPool
Every step outside the mutex is an action, and so is every read or write of an
atomic: a worker is at `worker[w]` of its loop, holds the mutex from `Lock` to
`Pop`, `Return` or `Block`, and may wake up for no reason. `pushTask` queues a
task (the outer overload returns only after the inner one, so that both
notifications follow) and notifies twice. The end of the process is
`StopCallers` (the loops are joined), `waitTasksFinish`, which reads its two
counters one after the other, `ClearRunning` and `NotifyAll`, neither under the
mutex, and `Join`. What tasks do is in `SubReactor`.

## 3. Runs

| Run | Instance | Shows |
|---|---|---|
| `timer_wheel` | 3 slots, a timer of 4 ticks (more than a rotation), a repeating one of 3 (exactly one), 2 threads | types; a timer is in the bucket it names; a tick ends; timers fire; the wheel implements `TimerService` |
| `reactor` | 1 reactor, no pool, 2 clients, 3 descriptors of which one is too large, timeout of 1 tick, resets | hand-over, timers, counter, wake-ups, current events, silence after half-close, and a response under way keeps listening |
| `reactor_reuse` | 2 reactors, both modes, 2 clients sharing 1 descriptor, 1 worker, end of stream | the same invariants across reactors and workers; a dispatched connection is taken; an idle one is reaped |
| `reactor_uaf` (violation) | 1 reactor, pool | a worker uses a destroyed connection |
| `reactor_halfclose` (violation) | 1 reactor, no pool | a dropped EPOLLRDHUP disarms an unfinished response |
| `users` | 2 threads, 3 connections, statements may fail | conservation, no idle connection while threads wait, no circular wait, requests keep completing |
| `users_deadlock` (violation) | 2 threads, 2 connections | everyone waits for everyone |
| `http` | 2 requests of 6 kinds with bodies of 0 to 3 bytes over a buffer of 6; with the pool, cut within the request line; without, not cut | every answer is that to its request, in order (`RequestReply`); what is dropped is dropped for a reason the code has; nobody waits for ever |
| `http_split` (violation) | the same, cut anywhere | a request in pieces gets another answer |
| `responses` | every kind of request, files of 0 and 3 bytes, ranges with bounds 0, 2, 3, 16 and none, pages of 2 bytes, `size_t` of 4 bits, writev and sendfile | bytes in order, framing, ranges, release of files, `ResponseStream`, responses end |
| `output_mmap` (violation) | a file of 3 bytes, writev, ranges from byte 1 | the second piece comes from the wrong place |
| `workers` | 2 workers, 2 callers, 3 tasks, destruction | what `waitTasksFinish` may conclude from its counters, conservation and order of tasks, notifications, tasks are run, workers return |

Bounds. Two clients and one descriptor are the least for a descriptor to be
reused; a second and a third descriptor let two connections be alive, one event
of a batch precede another, and one be refused. Two reactors are the least for a
descriptor to move from one table to another. A timeout of one tick lets a timer
be refreshed between two ticks, and of zero keeps the liveness graph small.
`MaxTasks` bounds the queue of the pool (it has no bound in the code): in
`SubReactor` a reactor that would push onto a full one is held back, which only
removes interleavings; in `FThreadPool` it bounds the tasks that are ever
pushed, and three tasks keep both workers busy with one queued. `Endings`
chooses how clients end their side, to keep the instances small. Three slots are
the least with a current, a next and another bucket; the timeouts take a timer
through zero, one and more rotations. With two threads and three connections the
pool is one short of what both can hold, so that one waits. Two requests
(`MaxRequests`) are the least for something of the first to be left to the
second; bodies of up to three bytes make requests that are smaller than the
buffer, fill it and exceed it. A file of three bytes and pages of two have a
page that is whole and one that is not, and header, range and cuts of one byte
give every order of cuts; a `size_t` of four bits wraps around at `0 - 1` as the
real one does, and 16 is a bound that does not fit it. Clients are symmetric in
`reactor`, which checks no liveness. TLC checks deadlock except where the system
really stops: in `http` and `responses` when the connection is closed and its
client has no more to ask, in `workers` when the process has ended or a worker
has missed the end.

Fairness. A thread that can take a step eventually does: weak fairness on the
steps of the main reactor once it has accepted, of each sub reactor, worker and
handler. Clients owe nothing. `SF(TickAdvance)`: a loop that comes to `tick()`
again and again finds one day that the interval is over. In the wheel, the loop
comes back to `tick()` and a thread comes to run what it has collected whatever
other calls it makes meanwhile (strong fairness), and a locked call returns
(weak). None is assumed of the mutexes: `RequestsComplete` says that some
request completes, not that each does, since nothing in the code keeps a thread
from being overtaken for ever at the pool. In `HttpConnection` the loop and the
workers go on (each weakly fair), and an answer is cut finitely often: the
client reads. That 15 s pass without a refresh is owed only when neither the
loop nor a worker has anything to do for the connection (`Quiet`), so that
`AnsweredOrClosed` does not lean on the timer where a thread should act. In
`RequestHandler` likewise, the descriptor becomes writable again
(`WF(WriteTo)`), each time for at least one byte. In `FThreadPool` each worker,
each caller's notification and the end of the process, once it has begun, are
weakly fair; wake-ups without a reason are possible and never owed.

## 4. Findings

* With the thread pool, a worker and the event loop use one `HttpConnection`
  without synchronisation, up to use after free (`reactor_uaf`;
  `sub_reactor.cpp:179-183`).
* An event with neither EPOLLIN nor EPOLLOUT is dropped although it disarmed
  the one-shot registration; the rest of a response is never sent to a client
  that half-closes its side (`reactor_halfclose`; `sub_reactor.cpp:270-277`).
* As many threads as MySQL connections can wait for each other for ever, which
  `conf/server.json` allows (24 workers, 8 connections) (`users_deadlock`).
* A request that arrives in pieces is lost or misread. Without the pool the
  write that follows an incomplete parse resets the connection and its buffer;
  with it the next parse goes on in the old state at the start of the buffer,
  with an empty request (`http_split`; `sub_reactor.cpp:190`,
  `http_conn.cpp:162`).
* A mapped range that does not begin at a page and is sent in two pieces goes on
  with the wrong bytes (`output_mmap`; `output_buffer.cpp:200`).

Seen while modelling, in the models where it says so, and no run of their own:

* A repeating timer with (ticks + 1) mod slots = 0 returns to the end of the
  bucket being scanned, is reached again and pushed back again: `tick()` never
  releases its lock (`time_wheel.cpp:98-107`). `RepeatFits` excludes it; no
  caller asks for a repeating timer yet.
* Two concurrent registrations of a name both find it free and both insert it
  (`user_service.cpp:19-36`), although `root/registerError.html:19` says that a
  name that exists is refused. `UserService` has the interleaving.
* A worker between its test and blocking misses the notification of the
  destructor, which is sent without the mutex (`threadpool.cpp:19`): the process
  hangs in `join`. `ShutdownCompletes` excludes that start.
* `waitTasksFinish` reads its two counters one after the other: their difference
  may wrap around, which only makes it wait again, and it returns while tasks
  are queued or even while one runs (`threadpool.cpp:40`). `LeftAtMostSeen` is
  what it may rely on. The queued ones may still refer to reactors that
  `~EpollServer` has destroyed.
* The idle timer is refreshed by the loop only: it closes a connection whose
  request has been waiting for a worker, or in a worker for MySQL, for 15 s, and
  one whose client has not read for as long (`sub_reactor.cpp:157`). `Dropped`
  has it.
* A Range bound of 2^64 or more, a bad escape in a form or in the query of a GET:
  the exception ends in the task's future, and the connection is left to the
  timer; without the pool it ends the process (`static_file_controller.cpp:134`,
  `http_parser.cpp:51`, `http_parser.cpp:207`).
* A request without header fields is never complete (`http_parser.cpp:99`); a
  header line with an empty name is never left (`http_parser.cpp:234`).
* The header of a response cut twice by `writev` is advanced too far
  (`output_buffer.cpp:204`), and a file that cannot be opened any more leaves a
  header without what it announces (`output_buffer.cpp:49`).
* A 304 carries the file (`static_file_controller.cpp:58`); "bytes=-n" is served
  as the first n + 1 bytes and a range that ends beyond the file is refused
  (`static_file_controller.cpp:134-138`); a URI without a route is answered 200
  and empty; requests sent ahead are dropped with the read buffer
  (`http_conn.cpp:106`); `add_post_handler` adds to the pre-handlers
  (`http_conn.h:35`).

## 5. Proofs

All for any values of the constants that satisfy the modules' assumptions (sets
of clients, descriptors, threads of any size; any number of slots, reactors;
any timeout; any number of workers, callers and tasks; any number of requests
with bodies of any size over any buffer; files, headers and pages of any size).

* `TimerWheelProofs`. The inductive invariant `WheelInv` is `TypeOK`,
  `SlotRecordsBucket` and `ScanInv` (the scan visits only the current bucket,
  under the lock): without `SlotRecordsBucket` a refresh would leave a copy of a
  timer behind and without `ScanInv` a rotation could be lowered below zero.
  `WheelImplementsService`, under `RepeatFits`: every step maps to an abstract
  step or a stutter; the arithmetic of slots (a distance around the ring
  shrinks by one with every tick) is in lemmas of its own. `ScanIsBounded`:
  while a tick scans, no other thread adds to the timers it still has to look
  at, and each of its own steps takes one off, which is the safety half of
  `TickCompletes`.
* `SubReactorProofs`. `TypeCorrect`, with a lemma per group of handlers.
  `WakeInv` (a wake-up is under way for a non-empty queue), `HolderInv` (a
  descriptor is open exactly when one of the four places holds it), `TimerInv`
  (handles, callbacks and timers are in bijection with the connections;
  collected callbacks run before anything else of the loop), and `CountInv`. The
  last two need the one before: a handler that closes a descriptor disturbs only
  its own timer because the descriptor has one holder and its client one socket.
* `UserServiceProofs`. `PoolInvariant` holds for arbitrary users of the pool;
  each step of `UserService` is a step of the pool (`StepIsPoolStep`).
  `EnoughConnections` assumes fewer threads than connections: if the queue is
  empty, two connections are held by one thread (pigeonhole), which `HeldInv`
  says is one that waits for nothing; if it is not, `NoIdleConnection` provides
  a woken thread.
* `SubReactorEvents`. Without the pool: no task is ever queued (`Quiet`), only
  connections of the table are registered (`ArmedIsLive`), a batch has one event
  for a descriptor (`OneEvent`) and is empty when timers run (`BatchFirst`). With
  `HeldOnce` and `TimersMatchConnections` this makes `EventsAreCurrent`
  inductive: whoever closes a descriptor has just handled its only event, or runs
  when there are none. `ClosingStaysSilent` is inductive once `Quiet` is known:
  reading from a closing connection fails on any input, so that it has nothing
  to write. Two theorems say that the violations of section 4 have one cause
  each. `OnlyThePoolRaces` is immediate: without the pool nobody but the loop uses
  a connection, and `FaultFree` holds (run `reactor_uaf`).
  `OnlyHalfCloseSilences`: if no client half-closes, no response is silenced
  (`UnsentIsListening`), so that the dropped EPOLLRDHUP is the only way to
  forget one (run `reactor_halfclose`).
* `HttpConnectionProofs`. `Progress` says, of an open connection, in which phase
  its newest request is: answered and nothing left of it (`Idle`); partly in the
  buffer, partly in the kernel, partly unsent, and the three make up the request
  (`Receiving`); one that gets no answer (`Stuck`); with the `Expected` answer
  being written (`Writing`); or dropped (`Closing`). `AnswersMatch` alone is not
  inductive: that the next answer is right depends on the buffer holding nothing
  but the request, and on the parser's state being that of a new connection.
  What `parse()` makes of a whole request is in lemmas about its searches, which
  use the least index with a property instead of an induction over the buffer.
  From it follow `AnswersAreRight`, `ConnectionImplementsRequestReply` and
  `CompleteRequestsAreKept` (a request that has arrived is dropped only for the
  reasons that `Dropped` lists: the client closes, the idle timer, a full
  buffer, or a request the parser waits on or cannot decode). They assume
  `CutsAreHarmless`: the network cuts requests within the request line, with the
  pool, and nowhere without it, which is what run `http` has. The assumption is
  about the network, which guarantees no such thing; run `http_split` shows what
  the code does without it. `ConnectionTyped` holds of any cuts.
* `OutputBufferProofs`. `StreamInv` relates the four counters to what has been
  sent: `WindowInv` says, for each way of sending, where in the response the
  next byte of each piece lies. `BytesArriveInOrder` assumes `~HeaderCuts` and
  says `InPlace => BytesInOrder`, for responses that are sent with `sendfile` or
  begin at a page, next to others that do not; `BufferImplementsStream` assumes
  `Fits`, since one response out of place or without its file is a step that the
  abstract stream does not have. `OutputTyped` and `ResourcesAreReleased` need no
  assumption.
* `RequestHandlerProofs`. Every step of `RequestHandler` is a step of the buffer
  (`StepIsBufferStep`), so that what is proved of the buffer holds of it. `Sound`
  is what all handlers leave of a response: a length that is that of its text or
  its range, and a range within its file; `RangesAreServed` and
  `ResponsesAreFramed` follow through `Finalize`, also when the file vanishes
  before it. `ResponsesAreFramed` assumes `~OpenMayFail`: a file that cannot be
  opened any more after its length was announced breaks `Framed`.
  `HandlerSendsInOrder` and `HandlerImplementsStream` have the assumptions of the
  theorems about the buffer: with `use_sendfile` off, as in `conf/server.json`,
  they say nothing of a range that starts within a page, and run `output_mmap`
  shows that it goes wrong.
* `FThreadPoolProofs`. `PoolInv` adds to the three invariants where the mutex is
  (`LockInv`), that nothing is queued between a failed test and the release of
  the mutex (`WaitInv`), that workers return only when the pool ends
  (`DoneInv`), and which workers have a task (`TaskInv`). `CountersAgree` says
  what the two counters count at any one time: cardinalities change by one as
  workers move. It does not say that the difference of two reads is one of them,
  and `waitTasksFinish` reads one after the other, so that the difference may
  wrap around. `LeftWasSeen` is what its two reads do guarantee: each is a bound
  on what is left from then on (`SeenInv`), because nothing is pushed any more.
  `NoLostNotification` rests on a worker looking at the queue and releasing the
  mutex in one go.

Model-checked only: all liveness (`TickCompletes`, `TimersFire`,
`AcceptedIsTaken`, `IdleIsReaped`, `RequestsComplete`, `ResponseEnds`,
`AnsweredOrClosed`, `TasksRun`, `ShutdownCompletes`), which TLAPS cannot prove
under fairness. Every invariant, action property and refinement that a run checks
is stated by a theorem; of those that a run violates, the theorem has the
assumption under which they hold.

## 6. Not modelled

* `SubReactor::start`, `stop` and the destructors: the main loop ends only when
  `epoll_wait` fails. `FThreadPool` has the order in which the loops and the pool
  end.
* The listening socket: its level-triggered epoll, EMFILE (the loop spins until a
  descriptor is free) and other errors of `accept`; a descriptor of 65536 or more
  is refused in the model as in the code, without being closed.
* The syntax of a request below the pieces of `HttpConnection`, MIME types and the
  wording of headers and pages; pipelined requests.
* The growth of the MySQL pool after a failed `init()`, which ends the process
  first, and reconnecting (`mysql_conn_pool.cpp:82`), whose failures `MayFail`
  has.
* `TimerWheel`'s use from within a callback: the only callback does not.
* Logger and configuration (a submodule that is not in this tree) and the
  programs under `test/`.
