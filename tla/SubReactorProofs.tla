-------------------------- MODULE SubReactorProofs --------------------------
(***************************************************************************)
(* Proofs about SubReactor, for every number of reactors, workers, clients *)
(* and descriptors, every timeout and both settings of use_thread_pool_.   *)
(***************************************************************************)
EXTENDS SubReactor, FiniteSetTheorems, TLAPS

-----------------------------------------------------------------------------
(* Types.                                                                  *)

\* Zero is a reactor: somebody serves the first connection.
LEMMA ReactorType == Reactor \subseteq Nat /\ 0 \in Reactor
BY SubReactorAssumption DEF Reactor

\* The part of the state that the handlers of an event share.
TableType ==
    /\ sock \in [FD -> Conn \cup {None}]
    /\ net \in [Conn -> SUBSET Flag]
    /\ arm \in [Reactor -> [FD -> {"none", "off", "in", "out"}]]
    /\ live \in [Reactor -> SUBSET FD]
    /\ closing \in [Reactor -> SUBSET FD]
    /\ sending \in [Reactor -> SUBSET FD]
    /\ last \in [Reactor -> SUBSET FD]
    /\ count \in [Reactor -> Int]
    /\ handle \in [Reactor -> [FD -> Conn \cup {None}]]
    /\ timer \in [Reactor -> [Conn -> 0 .. Timeout \cup {Off}]]
    /\ cbfd \in [Conn -> FD \cup {None}]
    /\ expired \in [Reactor -> SUBSET Conn]

LEMMA DestroyType ==
  ASSUME TypeOK, NEW r \in Reactor, NEW f \in FD, Destroy(r, f)
  PROVE  /\ sock' \in [FD -> Conn \cup {None}]
         /\ net' \in [Conn -> SUBSET Flag]
         /\ arm' \in [Reactor -> [FD -> {"none", "off", "in", "out"}]]
         /\ live' \in [Reactor -> SUBSET FD]
         /\ closing' \in [Reactor -> SUBSET FD]
         /\ sending' \in [Reactor -> SUBSET FD]
         /\ last' \in [Reactor -> SUBSET FD]
BY SubReactorAssumption DEF TypeOK, Destroy

LEMMA RefreshTimerType ==
  ASSUME TypeOK, NEW r \in Reactor, NEW f \in FD, RefreshTimer(r, f)
  PROVE  /\ handle' \in [Reactor -> [FD -> Conn \cup {None}]]
         /\ timer' \in [Reactor -> [Conn -> 0 .. Timeout \cup {Off}]]
         /\ cbfd' \in [Conn -> FD \cup {None}]
         /\ expired' \in [Reactor -> SUBSET Conn]
BY SubReactorAssumption DEF TypeOK, RefreshTimer, Off

LEMMA CancelTimerType ==
  ASSUME TypeOK, NEW r \in Reactor, NEW f \in FD, CancelTimer(r, f)
  PROVE  /\ handle' \in [Reactor -> [FD -> Conn \cup {None}]]
         /\ timer' \in [Reactor -> [Conn -> 0 .. Timeout \cup {Off}]]
         /\ cbfd' \in [Conn -> FD \cup {None}]
         /\ expired' \in [Reactor -> SUBSET Conn]
BY SubReactorAssumption DEF TypeOK, CancelTimer, Off

LEMMA CloseConnectionType ==
  ASSUME TypeOK, NEW r \in Reactor, NEW f \in FD, CloseConnection(r, f)
  PROVE  TableType'
<1>1. count' \in [Reactor -> Int]
  BY DEF TypeOK, CloseConnection
<1> QED
  BY <1>1, DestroyType, CancelTimerType DEF CloseConnection, TableType

LEMMA LeaveType ==
  ASSUME TypeOK, NEW r \in Reactor, NEW f \in FD, NEW listen \in {"in", "out"},
         NEW flags, sock[f] \in Conn => flags \subseteq Flag,
         NEW isSending, NEW isLast, NEW isClosing,
         Leave(r, f, listen, flags, isSending, isLast, isClosing)
  PROVE  TableType'
<1>1. net' \in [Conn -> SUBSET Flag]
  BY DEF TypeOK, Leave
<1>2. arm' \in [Reactor -> [FD -> {"none", "off", "in", "out"}]]
  BY DEF TypeOK, Leave
<1>3. /\ closing' \in [Reactor -> SUBSET FD]
      /\ sending' \in [Reactor -> SUBSET FD]
      /\ last' \in [Reactor -> SUBSET FD]
  BY DEF TypeOK, Leave, Member
<1> QED
  BY <1>1, <1>2, <1>3, RefreshTimerType DEF TypeOK, Leave, TableType

LEMMA WriteOnceType ==
  ASSUME TypeOK, NEW r \in Reactor, NEW f \in FD,
         NEW flags, sock[f] \in Conn => flags \subseteq Flag,
         NEW isSending, NEW isLast,
         WriteOnce(r, f, flags, isSending, isLast)
  PROVE  TableType'
<1>1. CASE Leave(r, f, "in", flags, FALSE, isLast, isLast)
  BY <1>1, LeaveType
<1>2. CASE \E now \in {flags, flags \cup {"full"}} :
              Leave(r, f, "out", now, TRUE, isLast, f \in closing[r])
  <2>1. PICK now \in {flags, flags \cup {"full"}} :
              Leave(r, f, "out", now, TRUE, isLast, f \in closing[r])
    BY <1>2
  <2>2. sock[f] \in Conn => now \subseteq Flag
    BY <2>1 DEF Flag
  <2> QED
    BY <2>1, <2>2, LeaveType
<1>3. CASE CloseConnection(r, f)
  BY <1>3, CloseConnectionType
<1>4. PICK result \in WriteTo(flags, isSending) :
         \/ Leave(r, f, "in", flags, FALSE, isLast, isLast)
         \/ \E now \in {flags, flags \cup {"full"}} :
               Leave(r, f, "out", now, TRUE, isLast, f \in closing[r])
         \/ CloseConnection(r, f)
  BY DEF WriteOnce
<1> QED
  BY <1>1, <1>2, <1>3, <1>4

LEMMA TypeInit == Init => TypeOK
<1> SUFFICES ASSUME Init PROVE TypeOK
  OBVIOUS
<1> USE SubReactorAssumption, ReactorType DEF Init
<1>1. TableType
  BY DEF TableType, Off
<1>2. tasks \in Seq(Reactor \X FD)
  OBVIOUS
<1>3. /\ counter \in [Reactor -> BOOLEAN]
      /\ edge \in [Reactor -> BOOLEAN]
      /\ mpc \in {"accept", "push", "signal"}
      /\ mfd \in FD \cup {None}
      /\ mto \in Reactor
      /\ next_sub_reactor \in Reactor
  OBVIOUS
<1>4. /\ pending \in [Reactor -> SUBSET FD]
      /\ pc \in [Reactor -> {"wait", "events", "swap", "install", "expire"}]
      /\ batch \in [Reactor -> SUBSET (FD \X Kind)]
      /\ woken \in [Reactor -> BOOLEAN]
      /\ taken \in [Reactor -> SUBSET FD]
  OBVIOUS
<1>5. /\ wpc \in [Worker -> {"idle", "check", "enter", "process"}]
      /\ job \in [Worker -> (Reactor \X FD) \cup {None}]
      /\ serving \in [Worker -> Conn \cup {None}]
      /\ use_thread_pool \in BOOLEAN /\ fault \in BOOLEAN
  OBVIOUS
<1> QED
  BY <1>1, <1>2, <1>3, <1>4, <1>5 DEF TypeOK, TableType

\* What makes the types inductive: a descriptor in the main reactor's hand and a
\* worker's task are there exactly while they are being dealt with.
HandsInv ==
    /\ mpc = "push" <=> mfd # None
    /\ \A w \in Worker : wpc[w] # "idle" => job[w] # None

LEMMA HandsInit == Init => HandsInv
BY DEF Init, HandsInv

LEMMA HandsNext == TypeOK /\ HandsInv /\ [Next]_vars => HandsInv'
<1> SUFFICES ASSUME TypeOK, HandsInv, [Next]_vars PROVE HandsInv'
  OBVIOUS
<1> USE SubReactorAssumption DEF TypeOK, HandsInv, kernel, main, table, timers, pool, vars
<1>1. ASSUME UNCHANGED <<main, wpc, job>> PROVE HandsInv'
  BY <1>1
<1>2. ASSUME NEW c \in Conn, NEW f \in FD, Accept(c, f) PROVE HandsInv'
  BY <1>2 DEF Accept
<1>3. CASE Push
  BY <1>3 DEF Push
<1>4. CASE Signal
  BY <1>4 DEF Signal
<1>5. ASSUME NEW w \in Worker, WorkerStep(w) PROVE HandsInv'
  <2>1. CASE TakeTask(w)
    <3>1. Head(tasks) \in Reactor \X FD
      BY <2>1 DEF TakeTask
    <3>2. Head(tasks) # None
      BY <3>1
    <3> QED
      BY <2>1, <3>2 DEF TakeTask, Step
  <2>2. CASE CheckSlot(w)
    BY <2>2 DEF CheckSlot, Step
  <2>3. CASE EnterObject(w)
    BY <2>3 DEF EnterObject, Step
  <2>4. CASE Process(w)
    BY <2>4 DEF Process, Step
  <2> QED
    BY <1>5, <2>1, <2>2, <2>3, <2>4 DEF WorkerStep
<1>6. CASE ClientStep
  BY <1>1, <1>6 DEF ClientStep, Send, CloseWrite, Abort, Raise, Drain
<1>7. ASSUME NEW r \in Reactor, ReactorStep(r) PROVE HandsInv'
  <2>1. ASSUME EpollWait(r) \/ ReadEventfd(r) \/ SwapQueue(r) \/ TickEarly(r) \/ TickAdvance(r)
        PROVE  UNCHANGED <<main, wpc, job>>
    BY ONLY <2>1 DEF EpollWait, ReadEventfd, SwapQueue, TickEarly, TickAdvance, main, pool
  <2>2. ASSUME NEW f \in FD, Refuse(r, f) \/ Install(r, f) PROVE UNCHANGED <<main, wpc, job>>
    BY ONLY <2>2 DEF Refuse, Install, main, pool
  <2>3. ASSUME NEW f \in FD, Handler(r, f) PROVE UNCHANGED <<main, wpc, job>>
    BY ONLY <2>3 DEF Handler, HandleReadFails, HandleRead, HandleReadPool, HandleWrite,
                     IgnoreEvent, HandlerRaces, NextEvent, main, pool
  <2>4. ASSUME NEW c \in Conn, RunCallback(r, c) PROVE UNCHANGED <<main, wpc, job>>
    BY ONLY <2>4 DEF RunCallback, main, pool
  <2>5. UNCHANGED <<main, wpc, job>>
    BY <1>7, <2>1, <2>2, <2>3, <2>4 DEF ReactorStep
  <2> QED
    BY <1>1, <2>5
<1>8. CASE UNCHANGED vars
  BY <1>1, <1>8
<1> QED
  BY <1>2, <1>3, <1>4, <1>5, <1>6, <1>7, <1>8 DEF Next, MainStep, Halted

LEMMA TypeNext == TypeOK /\ HandsInv /\ [Next]_vars => TypeOK'
<1> SUFFICES ASSUME TypeOK, HandsInv, [Next]_vars PROVE TypeOK'
  OBVIOUS
<1> USE SubReactorAssumption, ReactorType DEF TypeOK, kernel, main, table, timers, pool, vars
<1>1. ASSUME NEW c \in Conn, NEW flag \in Flag, Raise(c, flag) PROVE TypeOK'
  BY <1>1 DEF Raise
<1>2. ASSUME NEW c \in Conn, Drain(c) PROVE TypeOK'
  BY <1>2 DEF Drain
<1>3. ASSUME NEW c \in Conn, NEW f \in FD, Accept(c, f) PROVE TypeOK'
  <2>1. (next_sub_reactor + 1) % N \in Reactor
    <3>1. next_sub_reactor \in Nat /\ N \in Nat \ {0}
      BY DEF Reactor
    <3>2. (next_sub_reactor + 1) % N \in 0 .. N - 1
      BY ONLY <3>1
    <3> QED
      BY <3>2 DEF Reactor
  <2>2. sock' \in [FD -> Conn \cup {None}]
    BY <1>3 DEF Accept
  <2> QED
    BY <1>3, <2>1, <2>2 DEF Accept
<1>4. CASE Push
  <2>1. pending' \in [Reactor -> SUBSET FD]
    BY <1>4 DEF Push, HandsInv
  <2> QED
    BY <1>4, <2>1 DEF Push
<1>5. CASE Signal
  BY <1>5 DEF Signal
<1>6. ASSUME NEW r \in Reactor, EpollWait(r) PROVE TypeOK'
  <2>1. \A f \in FD : Event(r, f) # None => Event(r, f) \in Kind
    BY DEF Event, Kind
  <2> QED
    <3>1. batch' \in [Reactor -> SUBSET (FD \X Kind)]
      BY <1>6, <2>1 DEF EpollWait
    <3>2. arm' \in [Reactor -> [FD -> {"none", "off", "in", "out"}]]
      BY <1>6 DEF EpollWait
    <3> QED
      BY <1>6, <3>1, <3>2 DEF EpollWait
<1>7. ASSUME NEW r \in Reactor, ReadEventfd(r) PROVE TypeOK'
  BY <1>7 DEF ReadEventfd
<1>8. ASSUME NEW r \in Reactor, SwapQueue(r) PROVE TypeOK'
  BY <1>8 DEF SwapQueue
<1>9. ASSUME NEW r \in Reactor, NEW f \in FD, Refuse(r, f) PROVE TypeOK'
  BY <1>9 DEF Refuse, Pop
<1>10. ASSUME NEW r \in Reactor, NEW f \in FD, Install(r, f) PROVE TypeOK'
  <2>1. arm' \in [Reactor -> [FD -> {"none", "off", "in", "out"}]]
    BY <1>10 DEF Install
  <2>2. handle' \in [Reactor -> [FD -> Conn \cup {None}]]
    BY <1>10 DEF Install
  <2>3. timer' \in [Reactor -> [Conn -> 0 .. Timeout \cup {Off}]]
    <3> DEFINE c == sock[f]
               old == handle[r][f]
               rest == IF old = None THEN timer[r] ELSE [timer[r] EXCEPT ![old] = Off]
    <3>1. rest \in [Conn -> 0 .. Timeout \cup {Off}]
      BY DEF Off
    <3>2. Timeout \in 0 .. Timeout
      OBVIOUS
    <3>3. [rest EXCEPT ![c] = Timeout] \in [Conn -> 0 .. Timeout \cup {Off}]
      <4> HIDE DEF rest, c
      <4> QED BY <3>1, <3>2
    <3>4. timer' = [timer EXCEPT ![r] = [rest EXCEPT ![c] = Timeout]]
      BY <1>10 DEF Install
    <3> HIDE DEF rest, c
    <3> QED
      BY <3>3, <3>4
  <2>4. cbfd' \in [Conn -> FD \cup {None}]
    BY <1>10 DEF Install
  <2>5. /\ taken' \in [Reactor -> SUBSET FD]
        /\ pc' \in [Reactor -> {"wait", "events", "swap", "install", "expire"}]
    BY <1>10 DEF Install, Pop
  <2>6. /\ live' \in [Reactor -> SUBSET FD]
        /\ closing' \in [Reactor -> SUBSET FD]
        /\ sending' \in [Reactor -> SUBSET FD]
        /\ count' \in [Reactor -> Int]
    BY SMTT(30), <1>10 DEF Install
  <2> QED
    BY <1>10, <2>1, <2>2, <2>3, <2>4, <2>5, <2>6 DEF Install
<1>11. ASSUME NEW r \in Reactor, NEW f \in FD, NEW kind \in Kind, NextEvent(r, f, kind),
              TableType', UNCHANGED <<pool, fault>>
       PROVE  TypeOK'
  BY <1>11 DEF NextEvent, TableType
<1>12. ASSUME NEW r \in Reactor, NEW f \in FD, NEW kind \in Kind, IgnoreEvent(r, f, kind)
       PROVE  TypeOK'
  BY <1>12, <1>11 DEF IgnoreEvent, TableType
<1>13. ASSUME NEW r \in Reactor, NEW f \in FD, HandleReadFails(r, f) PROVE TypeOK'
  BY <1>13, <1>11, CloseConnectionType DEF HandleReadFails, Kind
<1>14. ASSUME NEW r \in Reactor, NEW f \in FD, HandleRead(r, f) PROVE TypeOK'
  <2>1. PICK reply \in Reply, late \in SUBSET ({"rst"} \cap Endings) :
           WriteOnce(r, f, (net[sock[f]] \ {"input"}) \cup late,
                     reply # "incomplete" \/ f \in sending[r],
                     reply = "close" \/ f \in last[r])
    BY <1>14 DEF HandleRead
  <2>2. sock[f] \in Conn => (net[sock[f]] \ {"input"}) \cup late \subseteq Flag
    BY DEF Flag
  <2>3. TableType'
    BY <2>1, <2>2, WriteOnceType
  <2> QED
    BY <1>14, <1>11, <2>3 DEF HandleRead, Kind
<1>15. ASSUME NEW r \in Reactor, NEW f \in FD, HandleReadPool(r, f) PROVE TypeOK'
  <2>1. tasks' \in Seq(Reactor \X FD)
    BY <1>15 DEF HandleReadPool
  <2>2. net' \in [Conn -> SUBSET Flag]
    BY <1>15 DEF HandleReadPool
  <2>3. batch' \in [Reactor -> SUBSET (FD \X Kind)]
    BY <1>15 DEF HandleReadPool, NextEvent
  <2> QED
    BY <1>15, <2>1, <2>2, <2>3, RefreshTimerType DEF HandleReadPool, NextEvent
<1>16. ASSUME NEW r \in Reactor, NEW f \in FD, HandleWrite(r, f) PROVE TypeOK'
  <2>1. TableType'
    BY <1>16, WriteOnceType DEF HandleWrite
  <2> QED
    BY <1>16, <1>11, <2>1 DEF HandleWrite, Kind
<1>17. ASSUME NEW r \in Reactor, NEW f \in FD, NEW kind \in Kind, HandlerRaces(r, f, kind)
       PROVE  TypeOK'
  BY <1>17 DEF HandlerRaces, NextEvent
<1>18. ASSUME NEW r \in Reactor, TickEarly(r) PROVE TypeOK'
  BY <1>18 DEF TickEarly
<1>19. ASSUME NEW r \in Reactor, TickAdvance(r) PROVE TypeOK'
  <2>1. AfterTick(timer[r], {}, timer[r]) \in [Conn -> 0 .. Timeout \cup {Off}]
    <3> DEFINE old == timer[r]
    <3>1. old \in [Conn -> 0 .. Timeout \cup {Off}]
      OBVIOUS
    <3> HIDE DEF old
    <3>2. \A k \in 0 .. Timeout \cup {Off} :
             (IF k > 0 THEN k - 1 ELSE Off) \in 0 .. Timeout \cup {Off}
      BY DEF Off
    <3>3. AfterTick(old, {}, old) = [c \in Conn |-> IF old[c] > 0 THEN old[c] - 1 ELSE Off]
      BY <3>1 DEF AfterTick
    <3>4. AfterTick(old, {}, old) \in [Conn -> 0 .. Timeout \cup {Off}]
      <4> DEFINE T == 0 .. Timeout \cup {Off}
      <4>1. \A k \in T : (IF k > 0 THEN k - 1 ELSE Off) \in T
        BY <3>2
      <4>2. old \in [Conn -> T]
        BY <3>1
      <4> HIDE DEF T
      <4>3. [c \in Conn |-> IF old[c] > 0 THEN old[c] - 1 ELSE Off] \in [Conn -> T]
        BY <4>1, <4>2
      <4> QED
        BY <3>3, <4>3 DEF T
    <3> QED
      BY <3>4 DEF old
  <2>2. Expiring(timer[r]) \subseteq Conn
    BY DEF Expiring
  <2> QED
    BY <1>19, <2>1, <2>2 DEF TickAdvance
<1>20. ASSUME NEW r \in Reactor, NEW c \in Conn, RunCallback(r, c) PROVE TypeOK'
  <2>1. /\ sock' \in [FD -> Conn \cup {None}]
        /\ net' \in [Conn -> SUBSET Flag]
        /\ arm' \in [Reactor -> [FD -> {"none", "off", "in", "out"}]]
        /\ live' \in [Reactor -> SUBSET FD]
        /\ closing' \in [Reactor -> SUBSET FD]
        /\ sending' \in [Reactor -> SUBSET FD]
        /\ last' \in [Reactor -> SUBSET FD]
    <3>1. CASE cbfd[c] \in live[r]
      <4>1. cbfd[c] \in FD /\ Destroy(r, cbfd[c])
        BY <1>20, <3>1 DEF RunCallback
      <4> QED
        BY <4>1, DestroyType
    <3>2. CASE cbfd[c] \notin live[r]
      <4>1. UNCHANGED <<sock, net, arm, live, closing, sending, last>>
        BY <1>20, <3>2 DEF RunCallback
      <4> QED
        BY <4>1
    <3> QED
      BY <3>1, <3>2
  <2>2. /\ handle' \in [Reactor -> [FD -> Conn \cup {None}]]
        /\ cbfd' \in [Conn -> FD \cup {None}]
    BY <1>20 DEF RunCallback
  <2>4. /\ count' \in [Reactor -> Int]
        /\ expired' \in [Reactor -> SUBSET Conn]
    BY <1>20 DEF RunCallback
  <2>3. pc' \in [Reactor -> {"wait", "events", "swap", "install", "expire"}]
    BY <1>20 DEF RunCallback
  <2> QED
    BY <1>20, <2>1, <2>2, <2>3, <2>4 DEF RunCallback
<1>21. ASSUME NEW w \in Worker, TakeTask(w) PROVE TypeOK'
  <2>1. Head(tasks) \in Reactor \X FD /\ Tail(tasks) \in Seq(Reactor \X FD)
    BY <1>21 DEF TakeTask
  <2> QED
    BY <1>21, <2>1 DEF TakeTask, Step
<1>22. ASSUME NEW w \in Worker, CheckSlot(w) PROVE TypeOK'
  <2>1. wpc' \in [Worker -> {"idle", "check", "enter", "process"}]
    <3>1. \E to \in {"enter", "idle"} : wpc' = [wpc EXCEPT ![w] = to]
      BY ONLY <1>22 DEF CheckSlot, Step
    <3>2. wpc \in [Worker -> {"idle", "check", "enter", "process"}]
      OBVIOUS
    <3> QED
      BY ONLY <3>1, <3>2
  <2>2. job' \in [Worker -> (Reactor \X FD) \cup {None}]
    <3>1. job' = job \/ job' = [job EXCEPT ![w] = None]
      BY ONLY <1>22 DEF CheckSlot
    <3>2. job \in [Worker -> (Reactor \X FD) \cup {None}]
      OBVIOUS
    <3> QED
      BY ONLY <3>1, <3>2
  <2> QED
    BY <1>22, <2>1, <2>2 DEF CheckSlot
<1>23. ASSUME NEW w \in Worker, EnterObject(w) PROVE TypeOK'
  <2>1. job[w][2] \in FD
    BY <1>23 DEF EnterObject, Step, HandsInv
  <2>2. wpc' \in [Worker -> {"idle", "check", "enter", "process"}]
    BY <1>23 DEF EnterObject, Step
  <2>4. \/ serving' = [serving EXCEPT ![w] = sock[job[w][2]]] /\ UNCHANGED fault
        \/ fault' = TRUE /\ UNCHANGED serving
    BY <1>23 DEF EnterObject
  <2>5. sock[job[w][2]] \in Conn \cup {None}
    BY <2>1
  <2>3. serving' \in [Worker -> Conn \cup {None}] /\ fault' \in BOOLEAN
    <3>1. serving \in [Worker -> Conn \cup {None}] /\ fault \in BOOLEAN
      OBVIOUS
    <3> QED
      BY ONLY <2>4, <2>5, <3>1
  <2> QED
    BY <1>23, <2>2, <2>3 DEF EnterObject
<1>24. ASSUME NEW w \in Worker, Process(w) PROVE TypeOK'
  <2>1. /\ wpc' \in [Worker -> {"idle", "check", "enter", "process"}]
        /\ job' \in [Worker -> (Reactor \X FD) \cup {None}]
        /\ serving' \in [Worker -> Conn \cup {None}]
        /\ fault' \in BOOLEAN
    BY <1>24 DEF Process, Step
  <2>3. job[w][1] \in Reactor /\ job[w][2] \in FD
    BY <1>24 DEF Process, Step, HandsInv
  <2>2. /\ arm' \in [Reactor -> [FD -> {"none", "off", "in", "out"}]]
        /\ sending' \in [Reactor -> SUBSET FD]
        /\ last' \in [Reactor -> SUBSET FD]
    <3> DEFINE r == job[w][1]
               f == job[w][2]
    <3>1. CASE f \in live[r] /\ sock[f] = serving[w]
      <4>1. PICK reply \in Reply :
               /\ arm' = [arm EXCEPT ![r][f] = IF reply = "incomplete" THEN "in" ELSE "out"]
               /\ sending' = [sending EXCEPT ![r] = Member(@, f, reply # "incomplete" \/ f \in @)]
               /\ last' = [last EXCEPT ![r] = Member(@, f, reply = "close" \/ f \in @)]
        BY <1>24, <3>1 DEF Process
      <4>2. r \in Reactor /\ f \in FD
        BY <2>3
      <4> HIDE DEF r, f
      <4>3. arm' \in [Reactor -> [FD -> {"none", "off", "in", "out"}]]
        BY <4>1, <4>2
      <4>4. sending' \in [Reactor -> SUBSET FD] /\ last' \in [Reactor -> SUBSET FD]
        BY <4>1, <4>2 DEF Member
      <4> QED
        BY <4>3, <4>4
    <3>2. CASE ~(f \in live[r] /\ sock[f] = serving[w])
      BY <1>24, <3>2 DEF Process
    <3> QED
      BY <3>1, <3>2
  <2> QED
    BY <1>24, <2>1, <2>2 DEF Process
<1>25. CASE UNCHANGED vars
  BY <1>25
<1> QED
  BY <1>1, <1>2, <1>3, <1>4, <1>5, <1>6, <1>7, <1>8, <1>9, <1>10, <1>12, <1>13, <1>14,
     <1>15, <1>16, <1>17, <1>18, <1>19, <1>20, <1>21, <1>22, <1>23, <1>24, <1>25
     DEF Next, ClientStep, Send, CloseWrite, Abort, MainStep, ReactorStep, Handler,
         WorkerStep, Halted, Flag

\* Every variable keeps its type (TypeOK), whatever the clients do.
THEOREM TypeCorrect == Spec => []TypeOK
<1>1. Init => TypeOK /\ HandsInv
  BY TypeInit, HandsInit
<1>2. TypeOK /\ HandsInv /\ [Next]_vars => (TypeOK /\ HandsInv)'
  BY TypeNext, HandsNext
<1> QED
  BY <1>1, <1>2, PTL DEF Spec

-----------------------------------------------------------------------------
(* Safety, on top of the types.                                            *)

TypeInv == TypeOK /\ HandsInv

LEMMA TypeInvInit == Init => TypeInv
BY TypeInit, HandsInit DEF TypeInv

LEMMA TypeInvNext == TypeInv /\ [Next]_vars => TypeInv'
BY TypeNext, HandsNext DEF TypeInv

-----------------------------------------------------------------------------
(* What the steps have in common.                                          *)

\* A handler closes the connection of its event, or leaves it in the table with
\* its timer refreshed or as it was; it touches no queue (sub_reactor.cpp:169-246).
LEMMA HandlerCases ==
  ASSUME NEW r \in Reactor, NEW f \in FD, Handler(r, f)
  PROVE  /\ pc[r] = "events"
         /\ \E kind \in Kind : /\ <<f, kind>> \in batch[r]
                               /\ batch' = [batch EXCEPT ![r] = @ \ {<<f, kind>>}]
         /\ UNCHANGED <<counter, edge, main, pending, pc, woken, taken, use_thread_pool>>
         /\ \/ f \in live[r] /\ CloseConnection(r, f)
            \/ f \in live[r] /\ RefreshTimer(r, f) /\ UNCHANGED <<sock, live, count>>
            \/ UNCHANGED <<sock, live, count, timers>>
<1>1. ASSUME NEW flags, NEW isSending, NEW isLast,
             WriteOnce(r, f, flags, isSending, isLast)
      PROVE  CloseConnection(r, f) \/ (RefreshTimer(r, f) /\ UNCHANGED <<sock, live, count>>)
  <2>1. PICK result \in WriteTo(flags, isSending) :
           \/ Leave(r, f, "in", flags, FALSE, isLast, isLast)
           \/ \E now \in {flags, flags \cup {"full"}} :
                 Leave(r, f, "out", now, TRUE, isLast, f \in closing[r])
           \/ CloseConnection(r, f)
    BY <1>1 DEF WriteOnce
  <2>2. ASSUME NEW listen, NEW now, NEW a, NEW b, NEW d, Leave(r, f, listen, now, a, b, d)
        PROVE  RefreshTimer(r, f) /\ UNCHANGED <<sock, live, count>>
    BY <2>2 DEF Leave
  <2>3. CASE \E now \in {flags, flags \cup {"full"}} :
               Leave(r, f, "out", now, TRUE, isLast, f \in closing[r])
    <3>1. PICK now \in {flags, flags \cup {"full"}} :
               Leave(r, f, "out", now, TRUE, isLast, f \in closing[r])
      BY <2>3
    <3> QED
      BY <3>1, <2>2
  <2>4. CASE Leave(r, f, "in", flags, FALSE, isLast, isLast)
    BY <2>4, <2>2
  <2> QED
    BY <2>1, <2>3, <2>4
<1>2. CASE HandleReadFails(r, f)
  BY <1>2 DEF HandleReadFails, NextEvent, Kind
<1>3. CASE HandleRead(r, f)
  BY <1>1, <1>3 DEF HandleRead, NextEvent, Kind
<1>4. CASE HandleReadPool(r, f)
  BY <1>4 DEF HandleReadPool, NextEvent, Kind, table
<1>5. CASE HandleWrite(r, f)
  BY <1>1, <1>5 DEF HandleWrite, NextEvent, Kind
<1>6. ASSUME NEW kind \in Kind, IgnoreEvent(r, f, kind) \/ HandlerRaces(r, f, kind)
      PROVE  /\ NextEvent(r, f, kind)
             /\ UNCHANGED <<sock, live, count, timers>>
  BY <1>6 DEF IgnoreEvent, HandlerRaces, table
<1> QED
  BY <1>2, <1>3, <1>4, <1>5, <1>6 DEF Handler, NextEvent

\* The steps of clients and workers leave the reactors' tables alone.
LEMMA OthersFrame ==
  ASSUME ClientStep \/ (\E w \in Worker : WorkerStep(w)) \/ Halted \/ UNCHANGED vars
  PROVE  UNCHANGED <<sock, counter, edge, main, pending, pc, batch, woken, taken,
                     live, closing, count, timers, use_thread_pool>>
<1> USE DEF kernel, main, table, timers, pool, vars
<1>1. CASE ClientStep
  BY <1>1 DEF ClientStep, Send, CloseWrite, Abort, Raise, Drain
<1>2. ASSUME NEW w \in Worker, WorkerStep(w)
      PROVE  UNCHANGED <<sock, counter, edge, main, pending, pc, batch, woken, taken,
                         live, closing, count, timers, use_thread_pool>>
  BY <1>2 DEF WorkerStep, TakeTask, CheckSlot, EnterObject, Process
<1>3. CASE Halted \/ UNCHANGED vars
  BY <1>3 DEF Halted
<1> QED
  BY <1>1, <1>2, <1>3

-----------------------------------------------------------------------------
(* No lost wake-up.                                                        *)

\* Every event of the eventfd is dealt with in the turn that epoll_wait
\* reported it.
WakeInv == NoLostWakeup /\ \A r \in Reactor : woken[r] => pc[r] = "events"

LEMMA WakeNext == TypeInv /\ WakeInv /\ [Next]_vars => WakeInv'
<1> SUFFICES ASSUME TypeInv, WakeInv, [Next]_vars PROVE WakeInv'
  OBVIOUS
<1> USE SubReactorAssumption DEF TypeInv, TypeOK, WakeInv, NoLostWakeup,
        kernel, main, table, timers, pool, vars
<1>1. ASSUME UNCHANGED <<pending, edge, counter, main, woken, pc>> PROVE WakeInv'
  BY <1>1
<1>2. ASSUME NEW c \in Conn, NEW f \in FD, Accept(c, f) PROVE WakeInv'
  BY <1>2 DEF Accept
<1>3. CASE Push
  BY <1>3 DEF Push
<1>4. CASE Signal
  BY <1>4 DEF Signal
<1>5. ASSUME NEW r \in Reactor, EpollWait(r) PROVE WakeInv'
  BY <1>5 DEF EpollWait
<1>6. ASSUME NEW r \in Reactor, ReadEventfd(r) PROVE WakeInv'
  BY <1>6 DEF ReadEventfd
<1>7. ASSUME NEW r \in Reactor, SwapQueue(r) PROVE WakeInv'
  BY <1>7 DEF SwapQueue
<1>8. ASSUME NEW r \in Reactor, NEW f \in FD, Refuse(r, f) \/ Install(r, f) PROVE WakeInv'
  <2>1. /\ pc[r] = "install" /\ pc' \in {[pc EXCEPT ![r] = "events"], pc}
        /\ UNCHANGED <<pending, edge, counter, main, woken>>
    BY <1>8 DEF Refuse, Install, Pop
  <2> QED
    BY <2>1
<1>9. ASSUME NEW r \in Reactor, NEW f \in FD, Handler(r, f) PROVE WakeInv'
  BY <1>1, <1>9, HandlerCases
<1>10. ASSUME NEW r \in Reactor, TickEarly(r) \/ TickAdvance(r) PROVE WakeInv'
  <2>1. /\ ~woken[r] /\ pc[r] = "events"
        /\ \E next \in {"wait", "expire"} : pc' = [pc EXCEPT ![r] = next]
        /\ UNCHANGED <<pending, edge, counter, main, woken>>
    BY <1>10 DEF TickEarly, TickAdvance
  <2> QED
    BY <2>1
<1>11. ASSUME NEW r \in Reactor, NEW c \in Conn, RunCallback(r, c) PROVE WakeInv'
  BY <1>11 DEF RunCallback
<1>12. CASE ClientStep \/ (\E w \in Worker : WorkerStep(w)) \/ Halted \/ UNCHANGED vars
  BY <1>1, <1>12, OthersFrame
<1> QED
  BY <1>2, <1>3, <1>4, <1>5, <1>6, <1>7, <1>8, <1>9, <1>10, <1>11, <1>12
     DEF Next, MainStep, ReactorStep

\* A reactor never sleeps over a queued connection (NoLostWakeup), however the
\* pushes, the writes of the eventfd and the loop interleave.
THEOREM WakeupsAreNotLost == Spec => []NoLostWakeup
<1>1. Init => TypeInv /\ WakeInv
  BY TypeInvInit DEF Init, WakeInv, NoLostWakeup
<1>2. TypeInv /\ WakeInv /\ [Next]_vars => (TypeInv /\ WakeInv)'
  BY TypeInvNext, WakeNext
<1>3. WakeInv => NoLostWakeup
  BY DEF WakeInv
<1> QED
  BY <1>1, <1>2, <1>3, PTL DEF Spec

-----------------------------------------------------------------------------
(* One holder for every descriptor.                                        *)

\* FdHasOneHolder, spelled out for the four places: what is held is open, ...
HeldIsOpen ==
    /\ mfd # None => sock[mfd] # None
    /\ \A r \in Reactor : \A f \in pending[r] \cup taken[r] \cup live[r] : sock[f] # None

\* ... what is open is held, ...
OpenIsHeld == \A f \in FD : sock[f] # None /\ f < MAX_FD =>
    f = mfd \/ \E r \in Reactor : f \in pending[r] \cup taken[r] \cup live[r]

\* ... and nothing is held twice.
HeldOnce == \A f \in FD, r, s \in Reactor :
    /\ f \in pending[r] => f # mfd /\ f \notin taken[s] /\ f \notin live[s]
    /\ f \in taken[r] => f # mfd /\ f \notin live[s]
    /\ f \in live[r] => f # mfd
    /\ r # s => /\ ~(f \in pending[r] /\ f \in pending[s])
                /\ ~(f \in taken[r] /\ f \in taken[s])
                /\ ~(f \in live[r] /\ f \in live[s])

\* The local queue of handleNewConnection is emptied before it returns.
LocalQueue == \A r \in Reactor : pc[r] # "install" => taken[r] = {}

HolderInv == HeldIsOpen /\ OpenIsHeld /\ HeldOnce /\ LocalQueue

LEMMA HeldIn ==
  ASSUME NEW r
  PROVE  /\ Held("main", r) = IF r = mto /\ mfd # None THEN {mfd} ELSE {}
         /\ Held("pending", r) = pending[r]
         /\ Held("taken", r) = taken[r]
         /\ Held("live", r) = live[r]
BY DEF Held

LEMMA HolderInvImplies == TypeInv /\ HolderInv => FdHasOneHolder
<1> SUFFICES ASSUME TypeInv, HolderInv PROVE FdHasOneHolder
  OBVIOUS
<1> USE DEF HolderInv, HeldIsOpen, OpenIsHeld, HeldOnce, Place
<1>1. ASSUME NEW p \in Place, NEW r \in Reactor, NEW f \in Held(p, r) PROVE sock[f] # None
  BY <1>1, HeldIn
<1>2. ASSUME NEW f \in FD, sock[f] # None, f < MAX_FD
      PROVE  \E p \in Place, r \in Reactor : f \in Held(p, r)
  <2>1. CASE f = mfd
    <3>1. f # None /\ mto \in Reactor
      BY SubReactorAssumption DEF TypeInv, TypeOK
    <3>2. f \in Held("main", mto)
      BY <2>1, <3>1, HeldIn
    <3> QED
      BY <3>1, <3>2
  <2>2. ASSUME NEW r \in Reactor, f \in pending[r] \cup taken[r] \cup live[r]
        PROVE  \E p \in Place, s \in Reactor : f \in Held(p, s)
    <3>1. f \in Held("pending", r) \/ f \in Held("taken", r) \/ f \in Held("live", r)
      BY <2>2, HeldIn
    <3> QED
      BY <3>1
  <2> QED
    BY <1>2, <2>1, <2>2
<1>3. ASSUME NEW p \in Place, NEW q \in Place, NEW r \in Reactor, NEW s \in Reactor,
             NEW f, f \in Held(p, r), f \in Held(q, s)
      PROVE  p = q /\ r = s
  <2>3. f \in FD
    BY <1>3, HeldIn DEF TypeInv, TypeOK
  <2>1. \/ p = "main" /\ f = mfd /\ r = mto
        \/ p = "pending" /\ f \in pending[r]
        \/ p = "taken" /\ f \in taken[r]
        \/ p = "live" /\ f \in live[r]
    BY <1>3, HeldIn
  <2>2. \/ q = "main" /\ f = mfd /\ s = mto
        \/ q = "pending" /\ f \in pending[s]
        \/ q = "taken" /\ f \in taken[s]
        \/ q = "live" /\ f \in live[s]
    BY <1>3, HeldIn
  <2> QED
    BY <2>1, <2>2, <2>3
<1> QED
  BY <1>1, <1>2, <1>3 DEF FdHasOneHolder

LEMMA HolderInit == Init => HolderInv
BY DEF Init, HolderInv, HeldIsOpen, OpenIsHeld, HeldOnce, LocalQueue

LEMMA HolderNext == TypeInv /\ HolderInv /\ [Next]_vars => HolderInv'
<1> SUFFICES ASSUME TypeInv, HolderInv, [Next]_vars PROVE HolderInv'
  OBVIOUS
<1>0. /\ sock \in [FD -> Conn \cup {None}]
      /\ mfd \in FD \cup {None}
      /\ mpc = "push" <=> mfd # None
      /\ pending \in [Reactor -> SUBSET FD]
      /\ taken \in [Reactor -> SUBSET FD]
      /\ live \in [Reactor -> SUBSET FD]
      /\ pc \in [Reactor -> {"wait", "events", "swap", "install", "expire"}]
      /\ mto \in Reactor
      /\ None \notin Conn \cup FD
      /\ FD \subseteq Nat /\ MAX_FD \in Nat
  BY SubReactorAssumption DEF TypeInv, TypeOK, HandsInv
<1> USE <1>0 DEF HolderInv, HeldIsOpen, OpenIsHeld, HeldOnce, LocalQueue
<1>1. ASSUME UNCHANGED <<sock, mfd, pending, taken, live, pc>> PROVE HolderInv'
  BY <1>1
<1>2. ASSUME NEW c \in Conn, NEW f \in FD, Accept(c, f) PROVE HolderInv'
  <2>1. /\ mfd = None /\ mfd' = f
        /\ sock[f] = None /\ c # None
        /\ \A g \in FD : sock'[g] = IF g = f THEN c ELSE sock[g]
        /\ UNCHANGED <<pending, taken, live, pc>>
    BY <1>2 DEF Accept, table
  <2>2. \A r \in Reactor : f \notin pending[r] \cup taken[r] \cup live[r]
    BY <2>1
  <2>3. HeldIsOpen'
    BY <2>1
  <2>4. OpenIsHeld'
    BY <2>1
  <2>5. HeldOnce'
    BY <2>1, <2>2
  <2>6. LocalQueue'
    BY <2>1
  <2> QED
    BY <2>3, <2>4, <2>5, <2>6
<1>3. CASE Push
  <2>1. /\ mfd \in FD /\ mfd' = None
        /\ \A s \in Reactor : pending'[s] = IF s = mto THEN pending[mto] \cup {mfd} ELSE pending[s]
        /\ UNCHANGED <<sock, taken, live, pc>>
    BY <1>3 DEF Push, kernel, table
  <2>2. HeldIsOpen'
    <3>1. sock[mfd] # None
      BY <2>1
    <3>2. ASSUME NEW r \in Reactor, NEW f \in pending'[r] \cup taken'[r] \cup live'[r]
          PROVE  sock'[f] # None
      <4>1. f = mfd \/ f \in pending[r] \cup taken[r] \cup live[r]
        BY <2>1
      <4> QED
        BY <2>1, <3>1, <4>1
    <3>3. mfd' = None
      BY <2>1
    <3> QED
      BY <3>2, <3>3
  <2>3. OpenIsHeld'
    BY <2>1
  <2>4. HeldOnce'
    BY <2>1
  <2>5. LocalQueue'
    BY <2>1
  <2> QED
    BY <2>2, <2>3, <2>4, <2>5
<1>4. CASE Signal
  BY <1>1, <1>4 DEF Signal, table
<1>5. ASSUME NEW r \in Reactor, pc[r] # "install",
             \E next \in {"events", "swap", "wait", "expire"} : pc' = [pc EXCEPT ![r] = next],
             UNCHANGED <<sock, mfd, pending, taken, live>>
      PROVE  HolderInv'
  <2>1. LocalQueue'
    BY <1>5
  <2>2. HeldIsOpen' /\ OpenIsHeld' /\ HeldOnce'
    BY <1>5
  <2> QED
    BY <2>1, <2>2
<1>6. ASSUME NEW r \in Reactor,
             EpollWait(r) \/ ReadEventfd(r) \/ TickEarly(r) \/ TickAdvance(r)
      PROVE  HolderInv'
  <2>1. /\ pc[r] # "install"
        /\ \E next \in {"events", "swap", "wait", "expire"} : pc' = [pc EXCEPT ![r] = next]
        /\ UNCHANGED <<sock, mfd, pending, taken, live>>
    BY <1>6 DEF EpollWait, ReadEventfd, TickEarly, TickAdvance, kernel, main, table
  <2> QED
    BY <1>5, <2>1
<1>7. ASSUME NEW r \in Reactor, SwapQueue(r) PROVE HolderInv'
  <2>1. pc[r] = "swap" /\ UNCHANGED <<sock, mfd, live>>
    BY <1>7 DEF SwapQueue, kernel, main, table
  <2>2. pc' = [pc EXCEPT ![r] = IF pending[r] = {} THEN "events" ELSE "install"]
    BY <1>7 DEF SwapQueue
  <2>3. \A s \in Reactor : /\ pending'[s] = IF s = r THEN {} ELSE pending[s]
                           /\ taken'[s] = IF s = r THEN pending[r] ELSE taken[s]
    BY <1>7 DEF SwapQueue
  <2>4. taken[r] = {}
    BY <2>1
  <2>5. HeldIsOpen'
    <3>1. mfd' = mfd /\ sock' = sock /\ live' = live
      BY <2>1
    <3>2. ASSUME NEW s \in Reactor, NEW f \in pending'[s] \cup taken'[s] \cup live'[s]
          PROVE  \E q \in Reactor : f \in pending[q] \cup taken[q] \cup live[q]
      BY ONLY <2>3, <3>1, <3>2
    <3>3. mfd # None => sock[mfd] # None
      OBVIOUS
    <3>4. \A q \in Reactor : \A f \in pending[q] \cup taken[q] \cup live[q] : sock[f] # None
      OBVIOUS
    <3> QED
      BY ONLY <3>1, <3>2, <3>3, <3>4 DEF HeldIsOpen
  <2>6. OpenIsHeld'
    BY <2>1, <2>3, <2>4
  <2>7. HeldOnce'
    BY <2>1, <2>3
  <2>8. LocalQueue'
    BY <2>1, <2>2, <2>3
  <2> QED
    BY <2>5, <2>6, <2>7, <2>8
<1>8. ASSUME NEW r \in Reactor, NEW f \in FD, Pop(r, f)
      PROVE  /\ f \in taken[r]
             /\ \A s \in Reactor : taken'[s] = IF s = r THEN taken[r] \ {f} ELSE taken[s]
             /\ LocalQueue'
  BY <1>8 DEF Pop
<1>9. ASSUME NEW r \in Reactor, NEW f \in FD, Refuse(r, f) PROVE HolderInv'
  <2>1. ~(f < MAX_FD) /\ Pop(r, f) /\ UNCHANGED <<sock, mfd, pending, live>>
    BY <1>9 DEF Refuse, kernel, main, table
  <2>2. /\ f \in taken[r] /\ LocalQueue'
        /\ \A s \in Reactor : taken'[s] = IF s = r THEN taken[r] \ {f} ELSE taken[s]
    BY <1>8, <2>1
  <2>3. HeldIsOpen'
    BY <2>1, <2>2
  <2>4. OpenIsHeld'
    BY <2>1, <2>2
  <2>5. HeldOnce'
    BY <2>1, <2>2
  <2> QED
    BY <2>2, <2>3, <2>4, <2>5
<1>10. ASSUME NEW r \in Reactor, NEW f \in FD, Install(r, f) PROVE HolderInv'
  <2>1. Pop(r, f) /\ UNCHANGED <<sock, mfd, pending>>
    BY <1>10 DEF Install, main
  <2>2. \A s \in Reactor : live'[s] = IF s = r THEN live[r] \cup {f} ELSE live[s]
    BY <1>10 DEF Install
  <2>3. /\ f \in taken[r] /\ LocalQueue'
        /\ \A s \in Reactor : taken'[s] = IF s = r THEN taken[r] \ {f} ELSE taken[s]
    BY <1>8, <2>1
  <2>4. HeldIsOpen'
    BY <2>1, <2>2, <2>3
  <2>5. OpenIsHeld'
    BY <2>1, <2>2, <2>3
  <2>6. HeldOnce'
    BY <2>1, <2>2, <2>3
  <2> QED
    BY <2>3, <2>4, <2>5, <2>6
<1>11. ASSUME NEW r \in Reactor, NEW f \in live[r], Destroy(r, f), pc[r] # "install",
              \E next \in {"events", "wait", "expire"} : pc' = [pc EXCEPT ![r] = next],
              UNCHANGED <<mfd, pending, taken>>
       PROVE  HolderInv'
  <2>1. /\ \A s \in Reactor : live'[s] = IF s = r THEN live[r] \ {f} ELSE live[s]
        /\ \A g \in FD : sock'[g] = IF g = f THEN None ELSE sock[g]
    BY <1>11 DEF Destroy
  <2>2. HeldIsOpen'
    BY <1>11, <2>1
  <2>3. OpenIsHeld'
    BY <1>11, <2>1
  <2>4. HeldOnce'
    BY <1>11, <2>1
  <2>5. LocalQueue'
    BY <1>11
  <2> QED
    BY <2>2, <2>3, <2>4, <2>5
<1>12. ASSUME NEW r \in Reactor, NEW f \in FD, Handler(r, f) PROVE HolderInv'
  <2>1. /\ pc[r] # "install" /\ UNCHANGED <<mfd, pending, taken, pc>>
        /\ \E next \in {"events", "wait", "expire"} : pc' = [pc EXCEPT ![r] = next]
    BY <1>12, HandlerCases DEF main
  <2>2. CASE f \in live[r] /\ CloseConnection(r, f)
    BY <1>11, <2>1, <2>2 DEF CloseConnection
  <2>3. CASE UNCHANGED <<sock, live>>
    BY <1>1, <2>1, <2>3
  <2> QED
    BY <1>12, <2>2, <2>3, HandlerCases
<1>13. ASSUME NEW r \in Reactor, NEW c \in Conn, RunCallback(r, c) PROVE HolderInv'
  <2>1. /\ pc[r] # "install" /\ UNCHANGED <<mfd, pending, taken>>
        /\ \E next \in {"wait", "expire"} : pc' = [pc EXCEPT ![r] = next]
    BY <1>13 DEF RunCallback, main
  <2>2. CASE cbfd[c] \in live[r] /\ Destroy(r, cbfd[c])
    BY <1>11, <2>1, <2>2
  <2>3. CASE UNCHANGED <<sock, live>>
    <3>1. \E next \in {"events", "swap", "wait", "expire"} : pc' = [pc EXCEPT ![r] = next]
      BY <2>1
    <3> QED
      BY <1>5, <2>1, <2>3, <3>1
  <2> QED
    BY <1>13, <2>2, <2>3 DEF RunCallback
<1>14. CASE ClientStep \/ (\E w \in Worker : WorkerStep(w)) \/ Halted \/ UNCHANGED vars
  BY <1>1, <1>14, OthersFrame DEF main
<1> QED
  BY <1>2, <1>3, <1>4, <1>6, <1>7, <1>9, <1>10, <1>12, <1>13, <1>14
     DEF Next, MainStep, ReactorStep

\* A descriptor has a holder exactly as long as it is open, and only one
\* (FdHasOneHolder): none is lost, closed twice or served by two reactors.
THEOREM OneHolder == Spec => []FdHasOneHolder
<1>1. Init => TypeInv /\ HolderInv
  BY TypeInvInit, HolderInit
<1>2. TypeInv /\ HolderInv /\ [Next]_vars => (TypeInv /\ HolderInv)'
  BY TypeInvNext, HolderNext
<1> QED
  BY <1>1, <1>2, HolderInvImplies, PTL DEF Spec

-----------------------------------------------------------------------------
(* One timer for every connection.                                         *)

LiveHasTimer == \A r \in Reactor : \A f \in live[r] :
    /\ handle[r][f] = sock[f]
    /\ cbfd[sock[f]] = f
    /\ timer[r][sock[f]] # Off \/ sock[f] \in expired[r]

FreeHasNoHandle == \A r \in Reactor : \A f \in FD \ live[r] : handle[r][f] = None

TimerHasLive == \A r \in Reactor, c \in Conn : timer[r][c] # Off \/ c \in expired[r] =>
    cbfd[c] \in live[r] /\ sock[cbfd[c]] = c

\* A client is behind one descriptor.
OneSocket == \A f, g \in FD : sock[f] # None /\ sock[f] = sock[g] => f = g

\* Callbacks are run before the loop goes on, and their timers are out of the
\* wheel.
ExpiredFirst == \A r \in Reactor :
    /\ pc[r] # "expire" => expired[r] = {}
    /\ \A c \in expired[r] : timer[r][c] = Off

TimerInv == LiveHasTimer /\ FreeHasNoHandle /\ TimerHasLive /\ OneSocket /\ ExpiredFirst

LEMMA TimerInvImplies == TimerInv => TimersMatchConnections
BY DEF TimerInv, LiveHasTimer, FreeHasNoHandle, TimerHasLive, TimersMatchConnections

LEMMA TimerInit == Init => TimerInv
BY DEF Init, TimerInv, LiveHasTimer, FreeHasNoHandle, TimerHasLive, OneSocket, ExpiredFirst

\* The types that the steps below rely on.
LEMMA TimerTypes ==
  ASSUME TypeInv
  PROVE  /\ sock \in [FD -> Conn \cup {None}]
         /\ live \in [Reactor -> SUBSET FD]
         /\ handle \in [Reactor -> [FD -> Conn \cup {None}]]
         /\ timer \in [Reactor -> [Conn -> 0 .. Timeout \cup {Off}]]
         /\ cbfd \in [Conn -> FD \cup {None}]
         /\ expired \in [Reactor -> SUBSET Conn]
         /\ pc \in [Reactor -> {"wait", "events", "swap", "install", "expire"}]
         /\ None \notin Conn \cup FD
         /\ Timeout # Off
BY SubReactorAssumption DEF TypeInv, TypeOK, Off

\* The connection of c and its timer go together (time_wheel.cpp:59-65,
\* sub_reactor.cpp:157-165, 200-218, 236-245).
Removes(r, f, c) ==
    /\ \A g \in FD : sock'[g] = IF g = f THEN None ELSE sock[g]
    /\ \A s \in Reactor : live'[s] = IF s = r THEN live[r] \ {f} ELSE live[s]
    /\ \A s \in Reactor : expired'[s] = IF s = r THEN expired[r] \ {c} ELSE expired[s]
    /\ \A s \in Reactor, g \in FD :
          handle'[s][g] = IF s = r /\ g = f THEN None ELSE handle[s][g]
    /\ \A s \in Reactor, d \in Conn :
          timer'[s][d] = IF s = r /\ d = c THEN Off ELSE timer[s][d]
    /\ \A d \in Conn : cbfd'[d] = IF d = c THEN None ELSE cbfd[d]
    /\ \A s \in Reactor : pc'[s] # "expire" => expired'[s] = {}

LEMMA RemoveKeepsTimerInv ==
  ASSUME TypeInv, HolderInv, TimerInv, NEW r \in Reactor, NEW f \in live[r],
         NEW c \in Conn, sock[f] = c, Removes(r, f, c)
  PROVE  TimerInv'
<1> USE TimerTypes DEF TimerInv, Removes
<1>1. \A s \in Reactor : s # r => f \notin live[s]
  BY DEF HolderInv, HeldOnce
<1>2. \A s \in Reactor : \A g \in live[s] : g \in FD /\ sock[g] \in Conn
  BY DEF HolderInv, HeldIsOpen
<1>3. \A s \in Reactor : \A g \in live'[s] : /\ g \in live[s] /\ g # f
                                             /\ sock'[g] = sock[g] /\ sock[g] # c
  BY <1>1, <1>2 DEF OneSocket
<1>4. LiveHasTimer'
  <2> SUFFICES ASSUME NEW s \in Reactor, NEW g \in live'[s]
               PROVE  /\ handle'[s][g] = sock'[g]
                      /\ cbfd'[sock'[g]] = g
                      /\ timer'[s][sock'[g]] # Off \/ sock'[g] \in expired'[s]
    BY DEF LiveHasTimer
  <2>1. /\ g \in live[s] /\ g # f /\ g \in FD
        /\ sock'[g] = sock[g] /\ sock[g] # c /\ sock[g] \in Conn
    BY <1>2, <1>3
  <2>2. /\ handle[s][g] = sock[g] /\ cbfd[sock[g]] = g
        /\ timer[s][sock[g]] # Off \/ sock[g] \in expired[s]
    BY <2>1 DEF LiveHasTimer
  <2>3. timer'[s][sock[g]] = timer[s][sock[g]]
    BY <2>1
  <2>4. sock[g] \in expired[s] => sock[g] \in expired'[s]
    <3>1. expired'[s] = IF s = r THEN expired[r] \ {c} ELSE expired[s]
      OBVIOUS
    <3> QED
      BY ONLY <2>1, <3>1
  <2> QED
    BY <2>1, <2>2, <2>3, <2>4
<1>5. FreeHasNoHandle'
  <2> SUFFICES ASSUME NEW s \in Reactor, NEW g \in FD \ live'[s] PROVE handle'[s][g] = None
    BY DEF FreeHasNoHandle
  <2>1. handle'[s][g] = IF s = r /\ g = f THEN None ELSE handle[s][g]
    OBVIOUS
  <2>2. CASE s = r /\ g = f
    BY <2>1, <2>2
  <2>3. CASE ~(s = r /\ g = f)
    <3>1. g \in FD \ live[s]
      BY <2>3
    <3> QED
      BY <2>1, <2>3, <3>1 DEF FreeHasNoHandle
  <2> QED
    BY <2>2, <2>3
<1>6. TimerHasLive'
  <2> SUFFICES ASSUME NEW s \in Reactor, NEW d \in Conn, timer'[s][d] # Off \/ d \in expired'[s]
               PROVE  cbfd'[d] \in live'[s] /\ sock'[cbfd'[d]] = d
    BY DEF TimerHasLive
  <2>1. timer[s][d] # Off \/ d \in expired[s]
    OBVIOUS
  <2>2. cbfd[d] \in live[s] /\ sock[cbfd[d]] = d
    BY <2>1 DEF TimerHasLive
  <2>3. d # c
    <3>1. CASE s = r
      BY <3>1
    <3>2. CASE s # r
      BY <2>2, <3>2, <1>1, <1>2 DEF OneSocket
    <3> QED
      BY <3>1, <3>2
  <2>4. cbfd[d] # f
    BY <2>2, <2>3
  <2> QED
    BY SMTT(30), <2>2, <2>3, <2>4, <1>2
<1>7. OneSocket'
  BY DEF OneSocket
<1>8. ExpiredFirst'
  <2>1. ASSUME NEW s \in Reactor, NEW d \in expired'[s] PROVE timer'[s][d] = Off
    <3>1. d \in expired[s] /\ d \in Conn
      BY SMTT(30), <2>1
    <3> QED
      BY <3>1 DEF ExpiredFirst
  <2> QED
    BY <2>1 DEF ExpiredFirst
<1> QED
  BY <1>4, <1>5, <1>6, <1>7, <1>8

\* A collected callback finds the connection it was armed for.
LEMMA CallbackCloses ==
  ASSUME TypeInv, HolderInv, TimerInv, NEW r \in Reactor, NEW c \in Conn, RunCallback(r, c)
  PROVE  cbfd[c] \in live[r] /\ sock[cbfd[c]] = c /\ Destroy(r, cbfd[c])
<1>1. cbfd[c] \in live[r] /\ sock[cbfd[c]] = c
  BY DEF RunCallback, TimerInv, TimerHasLive
<1> QED
  BY <1>1 DEF RunCallback

LEMMA TimerNext == TypeInv /\ HolderInv /\ TimerInv /\ [Next]_vars => TimerInv'
<1> SUFFICES ASSUME TypeInv, HolderInv, TimerInv, [Next]_vars PROVE TimerInv'
  OBVIOUS
<1> USE TimerTypes
<1>1. ASSUME UNCHANGED <<sock, live, handle, timer, cbfd, expired, pc>> PROVE TimerInv'
  BY <1>1 DEF TimerInv, LiveHasTimer, FreeHasNoHandle, TimerHasLive, OneSocket, ExpiredFirst
<1>2. ASSUME NEW c \in Conn, NEW f \in FD, Accept(c, f) PROVE TimerInv'
  <2>1. /\ sock[f] = None /\ \A g \in FD : sock[g] # c
        /\ \A r \in Reactor : timer[r][c] = Off /\ c \notin expired[r]
        /\ \A g \in FD : sock'[g] = IF g = f THEN c ELSE sock[g]
        /\ UNCHANGED <<live, handle, timer, cbfd, expired, pc>>
    BY <1>2 DEF Accept, Unknown, Connected, table, timers
  <2>2. \A r \in Reactor : f \notin live[r]
    BY <2>1 DEF HolderInv, HeldIsOpen
  <2>3. LiveHasTimer'
    BY <2>1, <2>2 DEF TimerInv, LiveHasTimer
  <2>4. TimerHasLive'
    BY <2>1, <2>2 DEF TimerInv, TimerHasLive
  <2>5. OneSocket'
    BY <2>1 DEF TimerInv, OneSocket
  <2>6. FreeHasNoHandle' /\ ExpiredFirst'
    BY <2>1 DEF TimerInv, FreeHasNoHandle, ExpiredFirst
  <2> QED
    BY <2>3, <2>4, <2>5, <2>6 DEF TimerInv
<1>3. CASE Push \/ Signal
  BY <1>1, <1>3 DEF Push, Signal, kernel, table, timers
<1>4. ASSUME NEW r \in Reactor, pc[r] # "expire",
             UNCHANGED <<sock, live, handle, timer, cbfd, expired>>,
             \E next : pc' = [pc EXCEPT ![r] = next]
      PROVE  TimerInv'
  <2>1. ExpiredFirst'
    BY <1>4 DEF TimerInv, ExpiredFirst
  <2> QED
    BY <1>4, <2>1 DEF TimerInv, LiveHasTimer, FreeHasNoHandle, TimerHasLive, OneSocket
<1>5. ASSUME NEW r \in Reactor,
             EpollWait(r) \/ ReadEventfd(r) \/ SwapQueue(r) \/ TickEarly(r)
                \/ \E f \in FD : Refuse(r, f)
      PROVE  TimerInv'
  <2>1. /\ pc[r] # "expire"
        /\ UNCHANGED <<sock, live, handle, timer, cbfd, expired>>
        /\ \E next : pc' = [pc EXCEPT ![r] = next]
    BY <1>5 DEF EpollWait, ReadEventfd, SwapQueue, TickEarly, Refuse, Pop, kernel, table, timers
  <2> QED
    BY <1>4, <2>1
<1>6. ASSUME NEW r \in Reactor, NEW f \in FD, Install(r, f) PROVE TimerInv'
  <2> DEFINE c == sock[f]
  <2>1. /\ f \in taken[r] /\ pc[r] = "install" /\ pc'[r] # "expire"
        /\ \A s \in Reactor : s # r => pc'[s] = pc[s]
        /\ UNCHANGED <<sock, expired>>
    BY <1>6 DEF Install, Pop
  <2>2. c \in Conn /\ \A s \in Reactor : f \notin live[s]
    BY <2>1 DEF HolderInv, HeldIsOpen, HeldOnce
  <2>3. handle[r][f] = None
    BY <2>2 DEF TimerInv, FreeHasNoHandle
  <2>4. \A s \in Reactor, d \in Conn :
           timer'[s][d] = IF s = r /\ d = c THEN Timeout ELSE timer[s][d]
    BY <1>6, <2>2, <2>3 DEF Install
  <2>5. /\ \A s \in Reactor : live'[s] = IF s = r THEN live[r] \cup {f} ELSE live[s]
        /\ \A s \in Reactor, g \in FD :
              handle'[s][g] = IF s = r /\ g = f THEN c ELSE handle[s][g]
        /\ \A d \in Conn : cbfd'[d] = IF d = c THEN f ELSE cbfd[d]
    BY <1>6, <2>2 DEF Install
  <2>6. \A s \in Reactor : timer[s][c] = Off /\ c \notin expired[s]
    BY <2>2 DEF TimerInv, TimerHasLive, OneSocket
  <2>7. \A s \in Reactor : \A g \in live[s] : g \in FD /\ sock[g] \in Conn /\ g # f /\ sock[g] # c
    BY <2>2 DEF TimerInv, OneSocket, HolderInv, HeldIsOpen
  <2> HIDE DEF c
  <2>8. c = sock[f]
    BY DEF c
  <2>9. LiveHasTimer'
    BY <2>1, <2>2, <2>4, <2>5, <2>7, <2>8 DEF TimerInv, LiveHasTimer
  <2>10. FreeHasNoHandle'
    BY SMTT(30), <2>1, <2>5 DEF TimerInv, FreeHasNoHandle
  <2>11. TimerHasLive'
    <3> SUFFICES ASSUME NEW s \in Reactor, NEW d \in Conn,
                        timer'[s][d] # Off \/ d \in expired'[s]
                 PROVE  cbfd'[d] \in live'[s] /\ sock'[cbfd'[d]] = d
      BY DEF TimerHasLive
    <3>1. CASE d = c
      <4>1. s = r
        BY <2>1, <2>4, <2>6, <3>1
      <4> QED
        BY <3>1, <4>1, <2>1, <2>5, <2>8
    <3>2. CASE d # c
      <4>1. cbfd[d] \in live[s] /\ sock[cbfd[d]] = d
        BY <2>1, <2>4, <3>2 DEF TimerInv, TimerHasLive
      <4> QED
        BY <3>2, <4>1, <2>1, <2>5
    <3> QED
      BY <3>1, <3>2
  <2>12. OneSocket'
    BY <2>1 DEF TimerInv, OneSocket
  <2>13. ExpiredFirst'
    <3>1. ASSUME NEW s \in Reactor, NEW d \in expired'[s] PROVE timer'[s][d] = Off
      <4>1. d \in expired[s] /\ d \in Conn /\ d # c
        BY <2>1, <2>6, <3>1
      <4> QED
        BY <2>4, <4>1 DEF TimerInv, ExpiredFirst
    <3>2. \A s \in Reactor : pc'[s] # "expire" => expired'[s] = {}
      BY <2>1 DEF TimerInv, ExpiredFirst
    <3> QED
      BY <3>1, <3>2 DEF ExpiredFirst
  <2> QED
    BY <2>9, <2>10, <2>11, <2>12, <2>13 DEF TimerInv
<1>7. ASSUME NEW r \in Reactor, NEW f \in live[r], pc[r] = "events", CloseConnection(r, f), UNCHANGED pc
      PROVE  TimerInv'
  <2>1. sock[f] \in Conn /\ handle[r][f] = sock[f] /\ expired[r] = {}
    BY SMTT(30), <1>7 DEF HolderInv, HeldIsOpen, TimerInv, LiveHasTimer, ExpiredFirst
  <2>2. /\ \A g \in FD : sock'[g] = IF g = f THEN None ELSE sock[g]
        /\ \A s \in Reactor : live'[s] = IF s = r THEN live[r] \ {f} ELSE live[s]
    BY <1>7 DEF CloseConnection, Destroy
  <2>3. /\ \A s \in Reactor, g \in FD :
              handle'[s][g] = IF s = r /\ g = f THEN None ELSE handle[s][g]
        /\ \A s \in Reactor, d \in Conn :
              timer'[s][d] = IF s = r /\ d = sock[f] THEN Off ELSE timer[s][d]
        /\ \A d \in Conn : cbfd'[d] = IF d = sock[f] THEN None ELSE cbfd[d]
        /\ UNCHANGED expired
    BY <1>7, <2>1 DEF CloseConnection, CancelTimer
  <2>4. /\ \A s \in Reactor : expired'[s] = IF s = r THEN expired[r] \ {sock[f]} ELSE expired[s]
        /\ \A s \in Reactor : pc'[s] # "expire" => expired'[s] = {}
    BY <1>7, <2>1, <2>3 DEF TimerInv, ExpiredFirst
  <2>5. Removes(r, f, sock[f])
    BY <2>2, <2>3, <2>4 DEF Removes
  <2> QED
    BY <2>1, <2>5, RemoveKeepsTimerInv
<1>8. ASSUME NEW r \in Reactor, NEW f \in live[r], pc[r] = "events", RefreshTimer(r, f),
             UNCHANGED <<sock, live, pc>>
      PROVE  TimerInv'
  <2>1. sock[f] \in Conn /\ handle[r][f] = sock[f] /\ cbfd[sock[f]] = f
    BY <1>8 DEF HolderInv, HeldIsOpen, TimerInv, LiveHasTimer
  <2>2. /\ \A s \in Reactor, d \in Conn :
              timer'[s][d] = IF s = r /\ d = sock[f] THEN Timeout ELSE timer[s][d]
        /\ UNCHANGED <<handle, cbfd, expired>>
    BY <1>8, <2>1 DEF RefreshTimer
  <2>3. \A s \in Reactor : \A g \in live[s] : g \in FD /\ sock[g] \in Conn
    BY DEF HolderInv, HeldIsOpen
  <2>4. LiveHasTimer'
    BY <1>8, <2>2, <2>3 DEF TimerInv, LiveHasTimer
  <2>5. TimerHasLive'
    BY <1>8, <2>1, <2>2 DEF TimerInv, TimerHasLive
  <2>6. FreeHasNoHandle' /\ OneSocket'
    BY <1>8, <2>2 DEF TimerInv, FreeHasNoHandle, OneSocket
  <2>7. expired[r] = {}
    BY <1>8 DEF TimerInv, ExpiredFirst
  <2>8. ExpiredFirst'
    <3>1. ASSUME NEW s \in Reactor, NEW d \in expired'[s] PROVE timer'[s][d] = Off
      <4>1. d \in expired[s] /\ d \in Conn /\ s # r
        BY <2>2, <2>7, <3>1
      <4> QED
        BY <2>2, <4>1 DEF TimerInv, ExpiredFirst
    <3>2. \A s \in Reactor : pc'[s] # "expire" => expired'[s] = {}
      BY <1>8, <2>2 DEF TimerInv, ExpiredFirst
    <3> QED
      BY <3>1, <3>2 DEF ExpiredFirst
  <2> QED
    BY <2>4, <2>5, <2>6, <2>8 DEF TimerInv
<1>9. ASSUME NEW r \in Reactor, NEW f \in FD, Handler(r, f) PROVE TimerInv'
  <2>1. pc[r] = "events" /\ UNCHANGED pc
    BY <1>9, HandlerCases
  <2> QED
    BY <1>1, <1>7, <1>8, <1>9, <2>1, HandlerCases DEF timers
<1>10. ASSUME NEW r \in Reactor, TickAdvance(r) PROVE TimerInv'
  <2>1. /\ pc[r] = "events" /\ UNCHANGED <<sock, live, handle, cbfd>>
        /\ pc' = [pc EXCEPT ![r] = IF Expiring(timer[r]) = {} THEN "wait" ELSE "expire"]
    BY <1>10 DEF TickAdvance, kernel, table
  <2>2. expired[r] = {}
    BY <2>1 DEF TimerInv, ExpiredFirst
  <2>3. \A s \in Reactor : expired'[s] = IF s = r THEN {d \in Conn : timer[r][d] = 0} ELSE expired[s]
    BY <1>10 DEF TickAdvance, Expiring
  <2>4. \A s \in Reactor, d \in Conn :
           timer'[s][d] = IF s # r THEN timer[s][d]
                          ELSE IF timer[r][d] > 0 THEN timer[r][d] - 1 ELSE Off
    BY <1>10 DEF TickAdvance, AfterTick
  <2>5. \A k \in 0 .. Timeout \cup {Off} :
           /\ k = Off => k # 0 /\ ~(k > 0)
           /\ k # Off /\ k # 0 => k > 0 /\ k - 1 # Off
           /\ k = 0 => k # Off /\ ~(k > 0)
    BY SubReactorAssumption DEF Off
  <2>6. \A d \in Conn : /\ d \in expired'[r] => timer'[r][d] = Off /\ timer[r][d] # Off
                        /\ timer[r][d] # Off => timer'[r][d] # Off \/ d \in expired'[r]
                        /\ timer'[r][d] # Off => timer[r][d] # Off
    <3> SUFFICES ASSUME NEW d \in Conn
                 PROVE  /\ d \in expired'[r] => timer'[r][d] = Off /\ timer[r][d] # Off
                        /\ timer[r][d] # Off => timer'[r][d] # Off \/ d \in expired'[r]
                        /\ timer'[r][d] # Off => timer[r][d] # Off
      OBVIOUS
    <3> DEFINE k == timer[r][d]
    <3>1. k \in 0 .. Timeout \cup {Off}
      OBVIOUS
    <3>2. d \in expired'[r] <=> k = 0
      BY <2>3
    <3>3. timer'[r][d] = IF k > 0 THEN k - 1 ELSE Off
      BY <2>4
    <3> HIDE DEF k
    <3>4. CASE k = Off
      BY <2>5, <3>1, <3>2, <3>3, <3>4 DEF k
    <3>5. CASE k = 0
      BY <2>5, <3>1, <3>2, <3>3, <3>5 DEF k
    <3>6. CASE k # Off /\ k # 0
      BY <2>5, <3>1, <3>2, <3>3, <3>6 DEF k
    <3> QED
      BY <3>4, <3>5, <3>6
  <2>7. \A s \in Reactor : \A g \in live[s] : g \in FD /\ sock[g] \in Conn
    BY DEF HolderInv, HeldIsOpen
  <2>8. \A s \in Reactor : s # r => expired'[s] = expired[s] /\ \A d \in Conn : timer'[s][d] = timer[s][d]
    BY <2>3, <2>4
  <2>9. LiveHasTimer'
    <3> SUFFICES ASSUME NEW s \in Reactor, NEW g \in live[s]
                 PROVE  /\ handle[s][g] = sock[g]
                        /\ cbfd[sock[g]] = g
                        /\ timer'[s][sock[g]] # Off \/ sock[g] \in expired'[s]
      BY <2>1 DEF LiveHasTimer
    <3>1. /\ handle[s][g] = sock[g] /\ cbfd[sock[g]] = g
          /\ timer[s][sock[g]] # Off \/ sock[g] \in expired[s]
      BY DEF TimerInv, LiveHasTimer
    <3>2. CASE s = r
      <4> DEFINE d == sock[g]
      <4>1. d \in Conn
        BY <2>7
      <4> HIDE DEF d
      <4>2. /\ timer[r][d] # Off
            /\ timer[r][d] # Off => timer'[r][d] # Off \/ d \in expired'[r]
        BY <2>2, <2>6, <3>1, <3>2, <4>1 DEF d
      <4> QED
        BY <3>1, <3>2, <4>2 DEF d
    <3>3. CASE s # r
      BY <2>7, <2>8, <3>1, <3>3
    <3> QED
      BY <3>2, <3>3
  <2>10. TimerHasLive'
    <3> SUFFICES ASSUME NEW s \in Reactor, NEW d \in Conn,
                        timer'[s][d] # Off \/ d \in expired'[s]
                 PROVE  cbfd[d] \in live[s] /\ sock[cbfd[d]] = d
      BY <2>1 DEF TimerHasLive
    <3>1. timer[s][d] # Off \/ d \in expired[s]
      <4>1. CASE s = r
        <5>1. /\ d \in expired'[r] => timer[r][d] # Off
              /\ timer'[r][d] # Off => timer[r][d] # Off
          BY <2>6
        <5>2. timer'[r][d] # Off \/ d \in expired'[r]
          BY <4>1
        <5> QED
          BY <4>1, <5>1, <5>2
      <4>2. CASE s # r
        BY <2>8, <4>2
      <4> QED
        BY <4>1, <4>2
    <3> QED
      BY <3>1 DEF TimerInv, TimerHasLive
  <2>11. FreeHasNoHandle' /\ OneSocket'
    BY <2>1 DEF TimerInv, FreeHasNoHandle, OneSocket
  <2>12. ExpiredFirst'
    <3>1. Expiring(timer[r]) = expired'[r]
      BY <2>3 DEF Expiring
    <3>2. \A s \in Reactor : \A d \in expired'[s] : d \in Conn
      BY <2>3
    <3>3. ASSUME NEW s \in Reactor, NEW d \in expired'[s] PROVE timer'[s][d] = Off
      <4>1. CASE s = r
        <5>1. d \in Conn /\ d \in expired'[r]
          BY <3>2, <3>3, <4>1
        <5>2. timer'[r][d] = Off
          BY <2>6, <5>1
        <5> QED
          BY <4>1, <5>2
      <4>2. CASE s # r
        BY <2>8, <3>2, <3>3, <4>2 DEF TimerInv, ExpiredFirst
      <4> QED
        BY <4>1, <4>2
    <3>4. ASSUME NEW s \in Reactor, pc'[s] # "expire" PROVE expired'[s] = {}
      <4>1. CASE s = r
        BY <2>1, <3>1, <3>4, <4>1
      <4>2. CASE s # r
        BY <2>1, <2>8, <3>4, <4>2 DEF TimerInv, ExpiredFirst
      <4> QED
        BY <4>1, <4>2
    <3> QED
      BY <3>3, <3>4 DEF ExpiredFirst
  <2> QED
    BY <2>9, <2>10, <2>11, <2>12 DEF TimerInv
<1>11. ASSUME NEW r \in Reactor, NEW c \in Conn, RunCallback(r, c) PROVE TimerInv'
  <2> DEFINE f == cbfd[c]
  <2>1. f \in live[r] /\ sock[f] = c /\ Destroy(r, f)
    BY <1>11, CallbackCloses
  <2>2. pc[r] = "expire" /\ c \in expired[r] /\ timer[r][c] = Off
    BY <1>11 DEF RunCallback, TimerInv, ExpiredFirst
  <2>3. /\ \A g \in FD : sock'[g] = IF g = f THEN None ELSE sock[g]
        /\ \A s \in Reactor : live'[s] = IF s = r THEN live[r] \ {f} ELSE live[s]
    BY <2>1 DEF Destroy
  <2>4. /\ \A s \in Reactor, g \in FD :
              handle'[s][g] = IF s = r /\ g = f THEN None ELSE handle[s][g]
        /\ \A s \in Reactor, d \in Conn :
              timer'[s][d] = IF s = r /\ d = c THEN Off ELSE timer[s][d]
        /\ \A d \in Conn : cbfd'[d] = IF d = c THEN None ELSE cbfd[d]
    BY <1>11, <2>2 DEF RunCallback
  <2>5. \A s \in Reactor : expired'[s] = IF s = r THEN expired[r] \ {c} ELSE expired[s]
    BY <1>11 DEF RunCallback
  <2>6. pc' = [pc EXCEPT ![r] = IF expired[r] = {c} THEN "wait" ELSE "expire"]
    BY <1>11 DEF RunCallback
  <2>7. \A s \in Reactor : pc'[s] # "expire" => expired'[s] = {}
    BY <2>5, <2>6 DEF TimerInv, ExpiredFirst
  <2> HIDE DEF f
  <2>8. Removes(r, f, c)
    BY <2>3, <2>4, <2>5, <2>7 DEF Removes
  <2> QED
    BY <2>1, <2>8, RemoveKeepsTimerInv
<1>12. CASE ClientStep \/ (\E w \in Worker : WorkerStep(w)) \/ Halted \/ UNCHANGED vars
  BY <1>1, <1>12, OthersFrame DEF timers
<1> QED
  BY <1>2, <1>3, <1>5, <1>6, <1>9, <1>10, <1>11, <1>12
     DEF Next, MainStep, ReactorStep

\* Every connection has its own timer, armed or about to fire, and no timer
\* outlives its connection (TimersMatchConnections): a descriptor that is handed
\* out again is never closed by the timer of its previous owner.
THEOREM OneTimer == Spec => []TimersMatchConnections
<1>1. Init => TypeInv /\ HolderInv /\ TimerInv
  BY TypeInvInit, HolderInit, TimerInit
<1>2. TypeInv /\ HolderInv /\ TimerInv /\ [Next]_vars => (TypeInv /\ HolderInv /\ TimerInv)'
  BY TypeInvNext, HolderNext, TimerNext
<1> QED
  BY <1>1, <1>2, TimerInvImplies, PTL DEF Spec

-----------------------------------------------------------------------------
(* The number of connections.                                              *)

CountInv == \A r \in Reactor : IsFiniteSet(live[r]) /\ count[r] = Cardinality(live[r])

LEMMA CountNext == TypeInv /\ HolderInv /\ TimerInv /\ CountInv /\ [Next]_vars => CountInv'
<1> SUFFICES ASSUME TypeInv, HolderInv, TimerInv, CountInv, [Next]_vars PROVE CountInv'
  OBVIOUS
<1>0. live \in [Reactor -> SUBSET FD] /\ count \in [Reactor -> Int]
  BY DEF TypeInv, TypeOK
<1> USE <1>0 DEF CountInv
<1>1. CASE UNCHANGED <<live, count>>
  BY <1>1
<1>2. ASSUME NEW r \in Reactor, NEW f \in FD, Install(r, f) PROVE CountInv'
  <2>1. f \notin live[r]
    BY <1>2 DEF Install, Pop, HolderInv, HeldOnce
  <2>2. /\ IsFiniteSet(live[r] \cup {f})
        /\ Cardinality(live[r] \cup {f}) = Cardinality(live[r]) + 1
    BY <2>1, FS_AddElement
  <2>3. \A s \in Reactor : /\ live'[s] = IF s = r THEN live[r] \cup {f} ELSE live[s]
                           /\ count'[s] = IF s = r THEN count[r] + 1 ELSE count[s]
    BY <1>2 DEF Install
  <2> QED
    BY <2>2, <2>3
<1>3. ASSUME NEW r \in Reactor, NEW f \in live[r], Destroy(r, f),
             count' = [count EXCEPT ![r] = @ - 1]
      PROVE  CountInv'
  <2>1. /\ IsFiniteSet(live[r] \ {f})
        /\ Cardinality(live[r] \ {f}) = Cardinality(live[r]) - 1
    BY <1>3, FS_RemoveElement
  <2>2. \A s \in Reactor : /\ live'[s] = IF s = r THEN live[r] \ {f} ELSE live[s]
                           /\ count'[s] = IF s = r THEN count[r] - 1 ELSE count[s]
    BY <1>3 DEF Destroy
  <2> QED
    BY <2>1, <2>2
<1>4. ASSUME NEW r \in Reactor, NEW f \in FD, Handler(r, f) PROVE CountInv'
  BY <1>1, <1>3, <1>4, HandlerCases DEF CloseConnection
<1>5. ASSUME NEW r \in Reactor, NEW c \in Conn, RunCallback(r, c) PROVE CountInv'
  <2>1. count' = [count EXCEPT ![r] = @ - 1]
    BY <1>5 DEF RunCallback
  <2> QED
    BY <1>3, <1>5, <2>1, CallbackCloses
<1>6. ASSUME NEW r \in Reactor,
             EpollWait(r) \/ ReadEventfd(r) \/ SwapQueue(r) \/ TickEarly(r) \/ TickAdvance(r)
                \/ \E f \in FD : Refuse(r, f)
      PROVE  CountInv'
  BY <1>1, <1>6 DEF EpollWait, ReadEventfd, SwapQueue, TickEarly, TickAdvance, Refuse, table
<1>7. CASE MainStep
  BY <1>1, <1>7 DEF MainStep, Accept, Push, Signal, table
<1>8. CASE ClientStep \/ (\E w \in Worker : WorkerStep(w)) \/ Halted \/ UNCHANGED vars
  BY <1>1, <1>8, OthersFrame
<1> QED
  BY <1>2, <1>4, <1>5, <1>6, <1>7, <1>8 DEF Next, ReactorStep

\* The counter that five places update is the number of connections
\* (CountIsExact).
THEOREM ExactCount == Spec => []CountIsExact
<1>1. Init => TypeInv /\ HolderInv /\ TimerInv /\ CountInv
  BY TypeInvInit, HolderInit, TimerInit, FS_EmptySet DEF Init, CountInv
<1>2. TypeInv /\ HolderInv /\ TimerInv /\ CountInv /\ [Next]_vars =>
         (TypeInv /\ HolderInv /\ TimerInv /\ CountInv)'
  BY TypeInvNext, HolderNext, TimerNext, CountNext
<1>3. CountInv => CountIsExact
  BY DEF CountInv, CountIsExact
<1> QED
  BY <1>1, <1>2, <1>3, PTL DEF Spec
=============================================================================
