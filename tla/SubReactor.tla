----------------------------- MODULE SubReactor -----------------------------
(***************************************************************************)
(* webserver/sub_reactor.{h,cpp} with the accept side of webserver.cpp and *)
(* the parts of http_conn.cpp, time_wheel.cpp and threadpool.cpp that its  *)
(* event loop drives.                                                      *)
(*                                                                         *)
(* The main reactor accepts connections and deals their descriptors out to *)
(* the sub reactors, round robin: it pushes onto the queue of one of them  *)
(* and writes its eventfd.  Each sub reactor is one thread looping over    *)
(* epoll_wait, the events, and its timer wheel; it owns the table of its   *)
(* connections, which is indexed by descriptor.  With use_thread_pool_ the *)
(* requests are processed by workers of FThreadPool, which reach into that *)
(* table without a lock.                                                   *)
(*                                                                         *)
(* Abstractions.  A socket is its client c, alive as long as its           *)
(* descriptor is open; what the kernel knows about it is a set of flags.   *)
(* The request and the response are reduced to: nothing to send, bytes to  *)
(* send, and close when they are sent.  A handler runs in one thread and   *)
(* is one step; what a worker does between its reads of the table is one   *)
(* step each.  The lock-protected queues are sets where order is immaterial*)
(***************************************************************************)
EXTENDS Countdown, FiniteSets, Sequences

CONSTANTS
    Conn,       \* the clients, each with at most one connection at a time
    FD,         \* the descriptors the kernel may hand out
    MAX_FD,     \* the size of connections_ (65536 in the code)
    N,          \* the number of sub reactors
    Timeout,    \* the idle timeout in ticks (15 s / 100 ms = 150 in the code)
    Worker,     \* the threads of FThreadPool
    MaxTasks,   \* bound: tasks queued in the pool at a time
    PoolModes,  \* the values of server.use_thread_pool under study
    Endings,    \* bound: how clients end their side, among "fin" and "rst"
    None        \* no client, no descriptor

Reactor == 0 .. N - 1

ASSUME SubReactorAssumption ==
    /\ FD \subseteq Nat
    /\ MAX_FD \in Nat
    /\ N \in Nat \ {0}
    /\ Timeout \in Nat
    /\ MaxTasks \in Nat
    /\ PoolModes \subseteq BOOLEAN
    /\ Endings \subseteq {"fin", "rst"}
    /\ None \notin Conn \cup FD \cup (Reactor \X FD)

VARIABLES
    \* The kernel.
    sock,       \* sock[f]: the client behind descriptor f, None if f is closed
    net,        \* net[c]: what the kernel holds for the socket of c
    arm,        \* arm[r][f]: what r's epoll listens to on f
    counter,    \* counter[r]: the eventfd of r has a count to read
    edge,       \* edge[r]: the eventfd is on the ready list of r's epoll
    \* The main reactor.
    mpc, mfd, mto,  \* where it is, and the descriptor and reactor in hand
    next_sub_reactor,
    \* The queue between them, under pending_mutex_.
    pending,    \* pending_connections_
    \* A sub reactor.
    pc,         \* where its loop is
    batch,      \* the events of epoll_wait it has yet to handle
    woken,      \* one of them is the eventfd's
    taken,      \* local_queue
    live,       \* the descriptors with a HttpConnection in connections_
    closing,    \* those with closing_
    sending,    \* those with bytes_to_send_ > 0
    last,       \* those with close_connection_
    handle,     \* timer_handles_: the timer (named by its client) or None
    timer,      \* the countdowns of timer_wheel_
    cbfd,       \* cbfd[c]: the descriptor captured by the callback of c's timer
    expired,    \* the timers whose callbacks tick() has collected
    count,      \* connection_count_
    \* The thread pool.
    use_thread_pool,
    tasks,      \* tasks_, each a reactor and a descriptor
    wpc, job, serving,  \* a worker: where it is, its task, the object it uses
    fault       \* undefined behaviour happened

kernel == <<sock, net, arm, counter, edge>>
main == <<mpc, mfd, mto, next_sub_reactor>>
table == <<live, closing, sending, last, count>>
timers == <<handle, timer, cbfd, expired>>
pool == <<tasks, wpc, job, serving>>
vars == <<kernel, main, pending, pc, batch, woken, taken, table, timers,
          use_thread_pool, pool, fault>>

Flag == {"input", "fin", "rst", "full"}
Kind == {"in", "out", "other"}

Init ==
    /\ sock = [f \in FD |-> None]
    /\ net = [c \in Conn |-> {}]
    /\ arm = [r \in Reactor |-> [f \in FD |-> "none"]]
    /\ counter = [r \in Reactor |-> FALSE]
    /\ edge = [r \in Reactor |-> FALSE]
    /\ mpc = "accept" /\ mfd = None /\ mto = 0 /\ next_sub_reactor = 0
    /\ pending = [r \in Reactor |-> {}]
    /\ pc = [r \in Reactor |-> "wait"]
    /\ batch = [r \in Reactor |-> {}]
    /\ woken = [r \in Reactor |-> FALSE]
    /\ taken = [r \in Reactor |-> {}]
    /\ live = [r \in Reactor |-> {}]
    /\ closing = [r \in Reactor |-> {}]
    /\ sending = [r \in Reactor |-> {}]
    /\ last = [r \in Reactor |-> {}]
    /\ count = [r \in Reactor |-> 0]
    /\ handle = [r \in Reactor |-> [f \in FD |-> None]]
    /\ timer = [r \in Reactor |-> [c \in Conn |-> Off]]
    /\ cbfd = [c \in Conn |-> None]
    /\ expired = [r \in Reactor |-> {}]
    /\ use_thread_pool \in PoolModes
    /\ tasks = <<>>
    /\ wpc = [w \in Worker |-> "idle"]
    /\ job = [w \in Worker |-> None]
    /\ serving = [w \in Worker |-> None]
    /\ fault = FALSE

-----------------------------------------------------------------------------
(* The clients: connected as soon as the descriptor exists.                *)

Connected(c) == \E f \in FD : sock[f] = c

Raise(c, flag) ==
    /\ ~fault
    /\ Connected(c)
    /\ net' = [net EXCEPT ![c] = @ \cup {flag}]
    /\ UNCHANGED <<sock, arm, counter, edge, main, pending, pc, batch, woken,
                   taken, table, timers, use_thread_pool, pool, fault>>

\* A piece of a request arrives.
Send(c) == net[c] \cap {"fin", "rst"} = {} /\ Raise(c, "input")

\* The client closes its sending side, or aborts the connection.
CloseWrite(c) == "fin" \in Endings /\ net[c] \cap {"fin", "rst"} = {} /\ Raise(c, "fin")
Abort(c) == "rst" \in Endings /\ "rst" \notin net[c] /\ Raise(c, "rst")

\* The client reads: there is room for more of the response.
Drain(c) ==
    /\ ~fault
    /\ Connected(c)
    /\ "full" \in net[c]
    /\ net' = [net EXCEPT ![c] = @ \ {"full"}]
    /\ UNCHANGED <<sock, arm, counter, edge, main, pending, pc, batch, woken,
                   taken, table, timers, use_thread_pool, pool, fault>>

-----------------------------------------------------------------------------
(* The main reactor: acceptConnections, selectSubReactor, addConnection.   *)

\* A client is new to the server when nothing is left of its last connection.
Unknown(c) ==
    /\ ~Connected(c)
    /\ \A r \in Reactor : timer[r][c] = Off /\ c \notin expired[r]
    /\ \A w \in Worker : serving[w] # c

\* accept() and the choice of a sub reactor.
Accept(c, f) ==
    /\ ~fault
    /\ mpc = "accept"
    /\ Unknown(c)
    /\ sock[f] = None
    /\ sock' = [sock EXCEPT ![f] = c]
    /\ mpc' = "push"
    /\ mfd' = f
    /\ mto' = next_sub_reactor
    /\ next_sub_reactor' = (next_sub_reactor + 1) % N
    /\ UNCHANGED <<net, arm, counter, edge, pending, pc, batch, woken, taken,
                   table, timers, use_thread_pool, pool, fault>>

\* addConnection, under pending_mutex_.
Push ==
    /\ ~fault
    /\ mpc = "push"
    /\ pending' = [pending EXCEPT ![mto] = @ \cup {mfd}]
    /\ mpc' = "signal"
    /\ mfd' = None
    /\ UNCHANGED <<mto, next_sub_reactor, kernel, pc, batch, woken, taken,
                   table, timers, use_thread_pool, pool, fault>>

\* Signal that counts on a level: the eventfd is not on the ready list.
SignalNoEdge ==
    /\ ~fault
    /\ mpc = "signal"
    /\ counter' = [counter EXCEPT ![mto] = TRUE]
    /\ mpc' = "accept"
    /\ UNCHANGED <<mfd, mto, next_sub_reactor, sock, net, arm, edge, pending,
                   pc, batch, woken, taken, table, timers, use_thread_pool,
                   pool, fault>>

\* addConnection: the eventfd is written, which is an edge every time.
Signal ==
    /\ ~fault
    /\ mpc = "signal"
    /\ counter' = [counter EXCEPT ![mto] = TRUE]
    /\ edge' = [edge EXCEPT ![mto] = TRUE]
    /\ mpc' = "accept"
    /\ UNCHANGED <<mfd, mto, next_sub_reactor, sock, net, arm, pending, pc,
                   batch, woken, taken, table, timers, use_thread_pool, pool,
                   fault>>

-----------------------------------------------------------------------------
(* A sub reactor: eventLoop and handleNewConnection.                       *)

\* The event epoll reports for a registration, None if there is none.  A
\* one-shot registration that has fired reports nothing more, not even a
\* hang-up; the end of the peer's stream (EPOLLRDHUP) is always asked for.
Event(r, f) ==
    CASE arm[r][f] = "in" /\ net[sock[f]] \cap {"input", "fin", "rst"} # {} -> "in"
      [] arm[r][f] = "out" /\ ("full" \notin net[sock[f]] \/ "rst" \in net[sock[f]]) -> "out"
      [] arm[r][f] = "out" /\ "full" \in net[sock[f]]
           /\ "fin" \in net[sock[f]] /\ "rst" \notin net[sock[f]] -> "other"
      [] OTHER -> None

\* EpollWait without EPOLLONESHOT.
EpollWaitNoOneshot(r) ==
    /\ ~fault
    /\ pc[r] = "wait"
    /\ batch' = [batch EXCEPT ![r] = {<<f, Event(r, f)>> : f \in {g \in FD : Event(r, g) # None}}]
    /\ woken' = [woken EXCEPT ![r] = edge[r] /\ counter[r]]
    /\ edge' = [edge EXCEPT ![r] = FALSE]
    /\ pc' = [pc EXCEPT ![r] = "events"]
    /\ UNCHANGED <<sock, net, arm, counter, main, pending, taken, table, timers,
                   use_thread_pool, pool, fault>>

\* epoll_wait returns everything that is ready, or nothing when it times out
\* (1024 events are enough for the instances).  Each event disarms its one-shot
\* registration.
EpollWait(r) ==
    /\ ~fault
    /\ pc[r] = "wait"
    /\ batch' = [batch EXCEPT ![r] = {<<f, Event(r, f)>> : f \in {g \in FD : Event(r, g) # None}}]
    /\ woken' = [woken EXCEPT ![r] = edge[r] /\ counter[r]]
    /\ edge' = [edge EXCEPT ![r] = FALSE]
    /\ arm' = [arm EXCEPT ![r] = [f \in FD |-> IF Event(r, f) # None THEN "off" ELSE @[f]]]
    /\ pc' = [pc EXCEPT ![r] = "events"]
    /\ UNCHANGED <<sock, net, counter, main, pending, taken, table, timers,
                   use_thread_pool, pool, fault>>

\* handleNewConnection first reads the eventfd ...
ReadEventfd(r) ==
    /\ ~fault
    /\ pc[r] = "events" /\ woken[r]
    /\ woken' = [woken EXCEPT ![r] = FALSE]
    /\ counter' = [counter EXCEPT ![r] = FALSE]
    /\ pc' = [pc EXCEPT ![r] = "swap"]
    /\ UNCHANGED <<sock, net, arm, edge, main, pending, batch, taken, table,
                   timers, use_thread_pool, pool, fault>>

\* SwapQueue that takes one connection per wake-up, and one that copies the
\* queue instead of swapping it.
SwapOne(r) ==
    /\ ~fault
    /\ pc[r] = "swap"
    /\ \E f \in pending[r] :
          /\ taken' = [taken EXCEPT ![r] = {f}]
          /\ pending' = [pending EXCEPT ![r] = @ \ {f}]
    /\ pc' = [pc EXCEPT ![r] = "install"]
    /\ UNCHANGED <<kernel, main, batch, woken, table, timers, use_thread_pool,
                   pool, fault>>

CopyQueue(r) ==
    /\ ~fault
    /\ pc[r] = "swap"
    /\ taken' = [taken EXCEPT ![r] = pending[r]]
    /\ pc' = [pc EXCEPT ![r] = IF pending[r] = {} THEN "events" ELSE "install"]
    /\ UNCHANGED <<kernel, main, pending, batch, woken, table, timers,
                   use_thread_pool, pool, fault>>

\* ... then takes the whole queue, under pending_mutex_ ...
SwapQueue(r) ==
    /\ ~fault
    /\ pc[r] = "swap"
    /\ taken' = [taken EXCEPT ![r] = pending[r]]
    /\ pending' = [pending EXCEPT ![r] = {}]
    /\ pc' = [pc EXCEPT ![r] = IF pending[r] = {} THEN "events" ELSE "install"]
    /\ UNCHANGED <<kernel, main, batch, woken, table, timers, use_thread_pool,
                   pool, fault>>

\* The next of them is out of the local queue.
Pop(r, f) ==
    /\ ~fault
    /\ pc[r] = "install" /\ f \in taken[r]
    /\ taken' = [taken EXCEPT ![r] = @ \ {f}]
    /\ pc' = [pc EXCEPT ![r] = IF taken[r] = {f} THEN "events" ELSE "install"]

\* ... refuses the descriptors its table has no place for ...
Refuse(r, f) ==
    /\ f >= MAX_FD
    /\ Pop(r, f)
    /\ UNCHANGED <<kernel, main, pending, batch, woken, table, timers,
                   use_thread_pool, pool, fault>>

\* ... and gives each of the others an empty connection, a registration with
\* epoll (whose failure is only logged) and a timer.
Install(r, f) ==
    LET c == sock[f]
        old == handle[r][f]
        rest == IF old = None THEN timer[r] ELSE [timer[r] EXCEPT ![old] = Off] IN
    /\ f < MAX_FD
    /\ Pop(r, f)
    /\ live' = [live EXCEPT ![r] = @ \cup {f}]
    /\ closing' = [closing EXCEPT ![r] = @ \ {f}]
    /\ sending' = [sending EXCEPT ![r] = @ \ {f}]
    /\ count' = [count EXCEPT ![r] = @ + 1]
    /\ \E registered \in BOOLEAN :
          arm' = [arm EXCEPT ![r][f] = IF registered THEN "in" ELSE "none"]
    /\ handle' = [handle EXCEPT ![r][f] = c]
    /\ timer' = [timer EXCEPT ![r] = [rest EXCEPT ![c] = Timeout]]
    /\ cbfd' = [cbfd EXCEPT ![c] = f]
    /\ UNCHANGED <<sock, net, counter, edge, main, pending, batch, woken, last,
                   expired, use_thread_pool, pool, fault>>

-----------------------------------------------------------------------------
(* What the handlers are made of.                                          *)

\* timer_wheel_.refresh(timer) and timer_wheel_.cancel(timer), if there is one.
RefreshTimer(r, f) ==
    /\ timer' = IF handle[r][f] = None THEN timer
                ELSE [timer EXCEPT ![r][handle[r][f]] = Timeout]
    /\ UNCHANGED <<handle, cbfd, expired>>

\* CancelTimer that drops the handle and leaves the timer in the wheel.
DropHandle(r, f) ==
    /\ handle' = [handle EXCEPT ![r][f] = None]
    /\ UNCHANGED <<timer, cbfd, expired>>

CancelTimer(r, f) ==
    /\ timer' = IF handle[r][f] = None THEN timer
                ELSE [timer EXCEPT ![r][handle[r][f]] = Off]
    /\ cbfd' = IF handle[r][f] = None THEN cbfd
               ELSE [cbfd EXCEPT ![handle[r][f]] = None]
    /\ handle' = [handle EXCEPT ![r][f] = None]
    /\ UNCHANGED expired

\* Destroy without connections_[fd].reset().
DestroyKeepsSlot(r, f) ==
    /\ sock' = [sock EXCEPT ![f] = None]
    /\ net' = [net EXCEPT ![sock[f]] = {}]
    /\ arm' = [q \in Reactor |-> [arm[q] EXCEPT ![f] = "none"]]
    /\ closing' = [closing EXCEPT ![r] = @ \ {f}]
    /\ sending' = [sending EXCEPT ![r] = @ \ {f}]
    /\ last' = [last EXCEPT ![r] = @ \ {f}]
    /\ UNCHANGED live

\* HttpConnection::Destroy and connections_[fd].reset(): the descriptor is
\* closed, which removes it from epoll, and free to be handed out again.
Destroy(r, f) ==
    /\ sock' = [sock EXCEPT ![f] = None]
    /\ net' = [net EXCEPT ![sock[f]] = {}]
    /\ arm' = [q \in Reactor |-> [arm[q] EXCEPT ![f] = "none"]]
    /\ live' = [live EXCEPT ![r] = @ \ {f}]
    /\ closing' = [closing EXCEPT ![r] = @ \ {f}]
    /\ sending' = [sending EXCEPT ![r] = @ \ {f}]
    /\ last' = [last EXCEPT ![r] = @ \ {f}]

\* CloseConnection on an error path that forgets the counter.
CloseUncounted(r, f) ==
    /\ CancelTimer(r, f)
    /\ Destroy(r, f)
    /\ UNCHANGED count

\* The end of both handlers for a connection that failed.
CloseConnection(r, f) ==
    /\ CancelTimer(r, f)
    /\ Destroy(r, f)
    /\ count' = [count EXCEPT ![r] = @ - 1]

Member(set, f, b) == IF b THEN set \cup {f} ELSE set \ {f}

\* Leave that stops the timer of a connection that was served.
LeaveUntimed(r, f, listen, flags, isSending, isLast, isClosing) ==
    /\ sending' = [sending EXCEPT ![r] = Member(@, f, isSending)]
    /\ last' = [last EXCEPT ![r] = Member(@, f, isLast)]
    /\ closing' = [closing EXCEPT ![r] = Member(@, f, isClosing)]
    /\ arm' = [arm EXCEPT ![r][f] = listen]
    /\ net' = [net EXCEPT ![sock[f]] = flags]
    /\ CancelTimer(r, f)
    /\ UNCHANGED <<sock, live, count>>

\* The state a connection is left in, its kernel flags, and its timer refreshed.
Leave(r, f, listen, flags, isSending, isLast, isClosing) ==
    /\ sending' = [sending EXCEPT ![r] = Member(@, f, isSending)]
    /\ last' = [last EXCEPT ![r] = Member(@, f, isLast)]
    /\ closing' = [closing EXCEPT ![r] = Member(@, f, isClosing)]
    /\ arm' = [arm EXCEPT ![r][f] = listen]
    /\ net' = [net EXCEPT ![sock[f]] = flags]
    /\ RefreshTimer(r, f)
    /\ UNCHANGED <<sock, live, count>>

\* OutputBuffer::write_to(): what it can return, the client having aborted the
\* connection or the socket buffer being full.
WriteTo(flags, isSending) ==
    IF ~isSending THEN {"SUCCESS"}
    ELSE IF "rst" \in flags THEN {"ERROR"}
    ELSE IF "full" \in flags THEN {"CONTINUE"}
    ELSE {"SUCCESS", "CONTINUE"}

\* WriteOnce that leaves the one-shot registration disarmed when it is to go on.
WriteOnceUnarmed(r, f, flags, isSending, isLast) ==
    \E result \in WriteTo(flags, isSending) :
       \/ /\ result = "SUCCESS"
          /\ Leave(r, f, "in", flags, FALSE, isLast, isLast)
       \/ /\ result = "CONTINUE"
          /\ \E now \in {flags, flags \cup {"full"}} :
                Leave(r, f, arm[r][f], now, TRUE, isLast, f \in closing[r])
       \/ /\ result = "ERROR"
          /\ CloseConnection(r, f)

\* WriteOnce() and what the handlers do with its result, for a connection with
\* something to send or not, and to be closed afterwards or not; flags is the
\* kernel's view of it.
WriteOnce(r, f, flags, isSending, isLast) ==
    \E result \in WriteTo(flags, isSending) :
       \/ \* Ready for the next request, or half-closed to wait for the peer's FIN.
          /\ result = "SUCCESS"
          /\ Leave(r, f, "in", flags, FALSE, isLast, isLast)
       \/ \* The kernel took part of it, or nothing.
          /\ result = "CONTINUE"
          /\ \E now \in {flags, flags \cup {"full"}} :
                Leave(r, f, "out", now, TRUE, isLast, f \in closing[r])
       \/ /\ result = "ERROR"
          /\ CloseConnection(r, f)

\* ProcessHttp(): the request is incomplete, or a response is prepared after
\* which the connection is kept or closed.
Reply == {"incomplete", "keep", "close"}

\* ReadMaySucceed for a connection whose closing_ is not looked at.
ReadWhileClosing(r, f) == net[sock[f]] \cap {"fin", "rst"} = {}

\* ReadOnce(): a connection that is closing may only see the peer's FIN; any
\* other reads until there is nothing left, and fails on the end of the stream,
\* an error, or a buffer that is full.
ReadMaySucceed(r, f) ==
    net[sock[f]] \cap (IF f \in closing[r] THEN {"input", "fin", "rst"} ELSE {"fin", "rst"}) = {}

ReadMayFail(r, f) == net[sock[f]] \cap {"input", "fin", "rst"} # {}

\* A worker is inside the connection that the reactor is about to use.
Busy(r, f) ==
    \E w \in Worker : wpc[w] = "process" /\ job[w] = <<r, f>> /\ serving[w] = sock[f]

-----------------------------------------------------------------------------
(* A sub reactor: its handlers, each a whole turn of the event loop.       *)

NextEvent(r, f, kind) ==
    /\ ~fault
    /\ pc[r] = "events"
    /\ <<f, kind>> \in batch[r]
    /\ batch' = [batch EXCEPT ![r] = @ \ {<<f, kind>>}]
    /\ UNCHANGED <<counter, edge, main, pending, pc, woken, taken, use_thread_pool>>

\* An event for an empty slot, or one with neither EPOLLIN nor EPOLLOUT, is
\* dropped; its registration stays disarmed.
IgnoreEvent(r, f, kind) ==
    /\ NextEvent(r, f, kind)
    /\ kind # "other" => f \notin live[r]
    /\ UNCHANGED <<sock, net, arm, table, timers, pool, fault>>

\* handleRead: ReadOnce() fails and the connection is closed.
HandleReadFails(r, f) ==
    /\ NextEvent(r, f, "in")
    /\ f \in live[r] /\ ~Busy(r, f)
    /\ ReadMayFail(r, f)
    /\ CloseConnection(r, f)
    /\ UNCHANGED <<pool, fault>>

\* handleRead without the pool: whatever ProcessHttp() found, WriteOnce()
\* follows.  The client may abort in between.
HandleRead(r, f) ==
    /\ NextEvent(r, f, "in")
    /\ ~use_thread_pool
    /\ f \in live[r]
    /\ ReadMaySucceed(r, f)
    /\ \E reply \in Reply, late \in SUBSET ({"rst"} \cap Endings) :
          /\ reply # "incomplete" => "input" \in net[sock[f]]
          /\ WriteOnce(r, f, (net[sock[f]] \ {"input"}) \cup late,
                       reply # "incomplete" \/ f \in sending[r],
                       reply = "close" \/ f \in last[r])
    /\ UNCHANGED <<pool, fault>>

\* handleRead with the pool: a task that captures this and the descriptor.
HandleReadPool(r, f) ==
    /\ NextEvent(r, f, "in")
    /\ use_thread_pool
    /\ f \in live[r] /\ ~Busy(r, f)
    /\ ReadMaySucceed(r, f)
    /\ Len(tasks) < MaxTasks
    /\ tasks' = Append(tasks, <<r, f>>)
    /\ net' = [net EXCEPT ![sock[f]] = @ \ {"input"}]
    /\ RefreshTimer(r, f)
    /\ UNCHANGED <<sock, arm, table, wpc, job, serving, fault>>

HandleWrite(r, f) ==
    /\ NextEvent(r, f, "out")
    /\ f \in live[r] /\ ~Busy(r, f)
    /\ WriteOnce(r, f, net[sock[f]], f \in sending[r], f \in last[r])
    /\ UNCHANGED <<pool, fault>>

\* Either handler uses the object while a worker does: a data race.
HandlerRaces(r, f, kind) ==
    /\ NextEvent(r, f, kind)
    /\ kind # "other"
    /\ f \in live[r] /\ Busy(r, f)
    /\ fault' = TRUE
    /\ UNCHANGED <<sock, net, arm, table, timers, pool>>

\* timer_wheel_.tick() after the last event: too early, or one slot forward.
TickEarly(r) ==
    /\ ~fault
    /\ pc[r] = "events" /\ batch[r] = {} /\ ~woken[r]
    /\ pc' = [pc EXCEPT ![r] = "wait"]
    /\ UNCHANGED <<kernel, main, pending, batch, woken, taken, table, timers,
                   use_thread_pool, pool, fault>>

TickAdvance(r) ==
    /\ ~fault
    /\ pc[r] = "events" /\ batch[r] = {} /\ ~woken[r]
    /\ expired' = [expired EXCEPT ![r] = Expiring(timer[r])]
    /\ timer' = [timer EXCEPT ![r] = AfterTick(@, {}, @)]
    /\ pc' = [pc EXCEPT ![r] = IF Expiring(timer[r]) = {} THEN "wait" ELSE "expire"]
    /\ UNCHANGED <<kernel, main, pending, batch, woken, taken, table, handle,
                   cbfd, use_thread_pool, pool, fault>>

\* RunCallback that leaves the handle of the timer that fired.
CallbackKeepsHandle(r, c) ==
    LET f == cbfd[c] IN
    /\ ~fault
    /\ pc[r] = "expire" /\ c \in expired[r]
    /\ IF f \in live[r] THEN Destroy(r, f)
       ELSE UNCHANGED <<sock, net, arm, live, closing, sending, last>>
    /\ cbfd' = [cbfd EXCEPT ![c] = None]
    /\ count' = [count EXCEPT ![r] = @ - 1]
    /\ expired' = [expired EXCEPT ![r] = @ \ {c}]
    /\ pc' = [pc EXCEPT ![r] = IF expired[r] = {c} THEN "wait" ELSE "expire"]
    /\ UNCHANGED <<counter, edge, main, pending, batch, woken, taken, handle,
                   timer, use_thread_pool, pool, fault>>

\* The callback of an expired timer: the connection of its descriptor, if any,
\* is destroyed; its handle is erased and the count goes down regardless.
RunCallback(r, c) ==
    LET f == cbfd[c] IN
    /\ ~fault
    /\ pc[r] = "expire" /\ c \in expired[r]
    /\ IF f \in live[r] THEN Destroy(r, f)
       ELSE UNCHANGED <<sock, net, arm, live, closing, sending, last>>
    /\ handle' = [handle EXCEPT ![r][f] = None]
    /\ cbfd' = [cbfd EXCEPT ![c] = None]
    /\ count' = [count EXCEPT ![r] = @ - 1]
    /\ expired' = [expired EXCEPT ![r] = @ \ {c}]
    /\ pc' = [pc EXCEPT ![r] = IF expired[r] = {c} THEN "wait" ELSE "expire"]
    /\ UNCHANGED <<counter, edge, main, pending, batch, woken, taken, timer,
                   use_thread_pool, pool, fault>>

-----------------------------------------------------------------------------
(* A worker of the pool runs the lambda of handleRead.                     *)

Step(w, from, to) == ~fault /\ wpc[w] = from /\ wpc' = [wpc EXCEPT ![w] = to]

TakeTask(w) ==
    /\ Step(w, "idle", "check")
    /\ tasks # <<>>
    /\ job' = [job EXCEPT ![w] = Head(tasks)]
    /\ tasks' = Tail(tasks)
    /\ UNCHANGED <<kernel, main, pending, pc, batch, woken, taken, table,
                   timers, use_thread_pool, serving, fault>>

\* if (connections_[fd]), without a lock.
CheckSlot(w) ==
    LET r == job[w][1]  f == job[w][2] IN
    /\ wpc[w] = "check"
    /\ IF f \in live[r]
       THEN Step(w, "check", "enter") /\ UNCHANGED job
       ELSE Step(w, "check", "idle") /\ job' = [job EXCEPT ![w] = None]
    /\ UNCHANGED <<kernel, main, pending, pc, batch, woken, taken, table,
                   timers, use_thread_pool, tasks, serving, fault>>

\* connections_[fd] is read again, for the object to call: it may be gone.
EnterObject(w) ==
    LET r == job[w][1]  f == job[w][2] IN
    /\ Step(w, "enter", "process")
    /\ IF f \in live[r]
       THEN serving' = [serving EXCEPT ![w] = sock[f]] /\ UNCHANGED fault
       ELSE fault' = TRUE /\ UNCHANGED serving
    /\ UNCHANGED <<kernel, main, pending, pc, batch, woken, taken, table,
                   timers, use_thread_pool, tasks, job>>

\* ProcessHttp() on the object, up to its last act, modFd: if the object has
\* been destroyed meanwhile it was used after it was freed.
Process(w) ==
    LET r == job[w][1]  f == job[w][2] IN
    /\ Step(w, "process", "idle")
    /\ job' = [job EXCEPT ![w] = None]
    /\ serving' = [serving EXCEPT ![w] = None]
    /\ IF f \in live[r] /\ sock[f] = serving[w]
       THEN /\ \E reply \in Reply :
                  /\ arm' = [arm EXCEPT ![r][f] = IF reply = "incomplete" THEN "in" ELSE "out"]
                  /\ sending' = [sending EXCEPT ![r] =
                                    Member(@, f, reply # "incomplete" \/ f \in @)]
                  /\ last' = [last EXCEPT ![r] = Member(@, f, reply = "close" \/ f \in @)]
            /\ UNCHANGED fault
       ELSE fault' = TRUE /\ UNCHANGED <<arm, sending, last>>
    /\ UNCHANGED <<sock, net, counter, edge, main, pending, pc, batch, woken,
                   taken, live, closing, count, timers, use_thread_pool, tasks>>

-----------------------------------------------------------------------------
ClientStep == \E c \in Conn : Send(c) \/ CloseWrite(c) \/ Abort(c) \/ Drain(c)

MainStep == Push \/ Signal \/ \E c \in Conn, f \in FD : Accept(c, f)

Handler(r, f) ==
    \/ HandleReadFails(r, f)
    \/ HandleRead(r, f)
    \/ HandleReadPool(r, f)
    \/ HandleWrite(r, f)
    \/ \E kind \in Kind : IgnoreEvent(r, f, kind) \/ HandlerRaces(r, f, kind)

ReactorStep(r) ==
    \/ EpollWait(r)
    \/ ReadEventfd(r)
    \/ SwapQueue(r)
    \/ \E f \in FD : Refuse(r, f) \/ Install(r, f) \/ Handler(r, f)
    \/ TickEarly(r)
    \/ TickAdvance(r)
    \/ \E c \in Conn : RunCallback(r, c)

WorkerStep(w) == TakeTask(w) \/ CheckSlot(w) \/ EnterObject(w) \/ Process(w)

\* After undefined behaviour nothing is said of the program.
Halted == fault /\ UNCHANGED vars

Next ==
    \/ ClientStep
    \/ MainStep
    \/ \E r \in Reactor : ReactorStep(r)
    \/ \E w \in Worker : WorkerStep(w)
    \/ Halted

\* The threads keep running (clients need not), and time passes: sooner or
\* later a loop that comes to tick() again and again finds that tick_interval_
\* is over.
Fairness ==
    /\ WF_vars(Push \/ Signal)
    /\ \A r \in Reactor : WF_vars(ReactorStep(r)) /\ SF_vars(TickAdvance(r))
    /\ \A w \in Worker : WF_vars(WorkerStep(w))

Spec == Init /\ [][Next]_vars /\ Fairness

-----------------------------------------------------------------------------
(* Properties.                                                             *)

\* Every variable keeps its type.
TypeOK ==
    /\ sock \in [FD -> Conn \cup {None}]
    /\ net \in [Conn -> SUBSET Flag]
    /\ arm \in [Reactor -> [FD -> {"none", "off", "in", "out"}]]
    /\ counter \in [Reactor -> BOOLEAN]
    /\ edge \in [Reactor -> BOOLEAN]
    /\ mpc \in {"accept", "push", "signal"}
    /\ mfd \in FD \cup {None}
    /\ mto \in Reactor
    /\ next_sub_reactor \in Reactor
    /\ pending \in [Reactor -> SUBSET FD]
    /\ pc \in [Reactor -> {"wait", "events", "swap", "install", "expire"}]
    /\ batch \in [Reactor -> SUBSET (FD \X Kind)]
    /\ woken \in [Reactor -> BOOLEAN]
    /\ taken \in [Reactor -> SUBSET FD]
    /\ live \in [Reactor -> SUBSET FD]
    /\ closing \in [Reactor -> SUBSET FD]
    /\ sending \in [Reactor -> SUBSET FD]
    /\ last \in [Reactor -> SUBSET FD]
    /\ count \in [Reactor -> Int]
    /\ handle \in [Reactor -> [FD -> Conn \cup {None}]]
    /\ timer \in [Reactor -> [Conn -> 0 .. Timeout \cup {Off}]]
    /\ cbfd \in [Conn -> FD \cup {None}]
    /\ expired \in [Reactor -> SUBSET Conn]
    /\ use_thread_pool \in BOOLEAN
    /\ tasks \in Seq(Reactor \X FD)
    /\ wpc \in [Worker -> {"idle", "check", "enter", "process"}]
    /\ job \in [Worker -> (Reactor \X FD) \cup {None}]
    /\ serving \in [Worker -> Conn \cup {None}]
    /\ fault \in BOOLEAN

\* Where an accepted descriptor may be: in the main reactor's hand, in the
\* queue of a sub reactor, in its local queue, or in its table.
Place == {"main", "pending", "taken", "live"}
Held(place, r) ==
    CASE place = "main"    -> IF r = mto /\ mfd # None THEN {mfd} ELSE {}
      [] place = "pending" -> pending[r]
      [] place = "taken"   -> taken[r]
      [] place = "live"    -> live[r]

\* The descriptors pass from the main reactor to the table of one sub reactor
\* without being lost, duplicated or handed to two of them, and each is closed
\* by the one that holds it, once: a descriptor has a holder exactly as long as
\* it is open (but for those refused for their number), and only one.
FdHasOneHolder ==
    /\ \A p \in Place, r \in Reactor : \A f \in Held(p, r) : sock[f] # None
    /\ \A f \in FD : sock[f] # None /\ f < MAX_FD =>
          \E p \in Place, r \in Reactor : f \in Held(p, r)
    /\ \A p, q \in Place, r, s \in Reactor :
          Held(p, r) \cap Held(q, s) # {} => p = q /\ r = s

\* Every connection has one timer, its own, armed or about to fire, under the
\* handle of its descriptor; and no timer, not even one whose callback is
\* already collected, outlives its connection: it would destroy the next one
\* that is given the same descriptor.
TimersMatchConnections == \A r \in Reactor :
    /\ \A f \in live[r] :
          /\ handle[r][f] = sock[f]
          /\ cbfd[sock[f]] = f
          /\ timer[r][sock[f]] # Off \/ sock[f] \in expired[r]
    /\ \A f \in FD \ live[r] : handle[r][f] = None
    /\ \A c \in Conn : timer[r][c] # Off \/ c \in expired[r] =>
          cbfd[c] \in live[r] /\ sock[cbfd[c]] = c

\* connection_count_, which five places update, is the number of connections.
CountIsExact == \A r \in Reactor : count[r] = Cardinality(live[r])

\* A sub reactor never goes to sleep over a queued connection: as long as there
\* is one, its eventfd is ready, or about to be written, or the loop is on its
\* way to the queue.
NoLostWakeup == \A r \in Reactor : pending[r] # {} =>
    \/ edge[r] /\ counter[r]
    \/ mpc = "signal" /\ mto = r
    \/ woken[r]
    \/ pc[r] = "swap"

\* Between epoll_wait and the handler of an event, neither another event of the
\* batch nor the timer wheel nor the reuse of a closed descriptor makes the
\* event one of another connection: it is still there, and still disarmed.
\* (Not so with the pool, see FaultFree.)
EventsAreCurrent == ~use_thread_pool =>
    \A r \in Reactor : \A e \in batch[r] : e[1] \in live[r] /\ arm[r][e[1]] = "off"

\* Once the server has sent its FIN it sends no more: a connection that waits
\* for the peer's is never handed to the parser again.
ClosingStaysSilent == ~use_thread_pool =>
    \A r \in Reactor : closing[r] \cap sending[r] = {} /\ closing[r] \subseteq last[r]

\* A connection that the main reactor has dispatched leaves the queue of its
\* sub reactor, however the wake-ups of several interleave.
AcceptedIsTaken == \A r \in Reactor, f \in FD : f \in pending[r] ~> (f \notin pending[r] \/ fault)

\* No connection stays for ever without being served: a client that goes quiet,
\* a registration that failed or an event that was dropped all end with the
\* idle timer, and the descriptor is closed.
IdleIsReaped == \A r \in Reactor, f \in FD :
    \/ []<>(f \notin live[r] \/ fault)
    \/ []<><<HandleRead(r, f) \/ HandleReadPool(r, f) \/ HandleWrite(r, f)>>_vars

\* sub_reactor.cpp:280 and sub_reactor.h:57: the loop ticks its own timer wheel
\* and needs no lock - so that nobody else is using the connection that an idle
\* timer, or a handler, destroys or modifies.
FaultFree == ~fault

\* output_buffer.h:14, http_conn.cpp:114: a response that is not written out
\* keeps its connection listening for EPOLLOUT.
UnsentIsListening == ~use_thread_pool => \A r \in Reactor : \A f \in sending[r] :
    arm[r][f] = "out" \/ \E kind \in Kind : <<f, kind>> \in batch[r]
=============================================================================
