----------------------------- MODULE MySQLPool ------------------------------
(***************************************************************************)
(* util/mysql_conn_pool.{h,cpp}: a fixed set of MySQL connections that     *)
(* threads take and give back.  mutex_ makes each call atomic, except that *)
(* getConnection() waits on cond_ while the pool is empty; it then looks   *)
(* at the queue again, when it has been notified or for no reason.         *)
(*                                                                         *)
(* init() opens all max_conn_ connections or the server does not start     *)
(* (webserver.cpp:36-43) and none is ever discarded, so getConnection()    *)
(* never finds curr_conn_ < max_conn_, and its branch that opens one more  *)
(* is left out.  What the threads do with the connections is left open     *)
(* here; UserService says it.                                              *)
(***************************************************************************)
EXTENDS FiniteSets, Integers

CONSTANTS
    Connection, \* the MySQLConnections that init() opens
    Thread      \* the threads that handle requests

ASSUME MySQLPoolAssumption == IsFiniteSet(Connection) /\ IsFiniteSet(Thread)

VARIABLES
    conn_queue, \* conn_queue_, whose order decides nothing
    held,       \* held[t]: the connections t has a MySQLConnectionGuard of
    waiting,    \* the threads blocked in cond_.wait
    woken       \* those that left it and have yet to look at the queue again

poolvars == <<conn_queue, held, waiting, woken>>

PoolInit ==
    /\ conn_queue = Connection
    /\ held = [t \in Thread |-> {}]
    /\ waiting = {}
    /\ woken = {}

-----------------------------------------------------------------------------
(* getConnection()                                                         *)

\* There is a connection: t takes it.
Take(t, c) ==
    /\ t \notin waiting
    /\ c \in conn_queue
    /\ conn_queue' = conn_queue \ {c}
    /\ held' = [held EXCEPT ![t] = @ \cup {c}]
    /\ woken' = woken \ {t}
    /\ UNCHANGED waiting

\* There is none: t waits, for the first time or again.
Block(t) ==
    /\ t \notin waiting
    /\ conn_queue = {}
    /\ waiting' = waiting \cup {t}
    /\ woken' = woken \ {t}
    /\ UNCHANGED <<conn_queue, held>>

\* cond_.wait returns although nobody called notify_one.
Spurious(t) ==
    /\ t \in waiting
    /\ waiting' = waiting \ {t}
    /\ woken' = woken \cup {t}
    /\ UNCHANGED <<conn_queue, held>>

-----------------------------------------------------------------------------
(* ~MySQLConnectionGuard() and releaseConnection()                         *)

\* NotifyOne whose notification reaches nobody.
NotifyNobody == UNCHANGED <<waiting, woken>>

\* cond_.notify_one(): one of the waiting threads, if there is any, wakes up.
NotifyOne ==
    IF waiting = {} THEN UNCHANGED <<waiting, woken>>
    ELSE \E w \in waiting : waiting' = waiting \ {w} /\ woken' = woken \cup {w}

\* Release by a guard that is still there afterwards.
ReleaseKeepsGuard(t, c) ==
    /\ t \notin waiting \cup woken
    /\ c \in held[t]
    /\ conn_queue' = conn_queue \cup {c}
    /\ NotifyOne
    /\ UNCHANGED held

Release(t, c) ==
    /\ t \notin waiting \cup woken
    /\ c \in held[t]
    /\ held' = [held EXCEPT ![t] = @ \ {c}]
    /\ conn_queue' = conn_queue \cup {c}
    /\ NotifyOne

-----------------------------------------------------------------------------
PoolNext == \E t \in Thread :
    \/ \E c \in Connection : Take(t, c) \/ Release(t, c)
    \/ Block(t)
    \/ Spurious(t)

PoolSpec == PoolInit /\ [][PoolNext]_poolvars

-----------------------------------------------------------------------------
(* Properties.                                                             *)

PoolTypeOK ==
    /\ conn_queue \subseteq Connection
    /\ held \in [Thread -> SUBSET Connection]
    /\ waiting \subseteq Thread
    /\ woken \subseteq Thread \ waiting

\* A MySQL connection, which only one thread at a time may use, is in the queue
\* or under the guard of one thread, and none is lost.
ConnectionsConserved ==
    /\ conn_queue \cup UNION {held[t] : t \in Thread} = Connection
    /\ \A t \in Thread : held[t] \cap conn_queue = {}
    /\ \A t, u \in Thread : t # u => held[t] \cap held[u] = {}

\* Connections never lie in the queue unnoticed: as long as threads wait, every
\* queued connection has a thread that has been woken to look for it, even if
\* others that never waited take connections away in between.
NoIdleConnection == waiting # {} => Cardinality(conn_queue) <= Cardinality(woken)
=============================================================================
