-------------------------- MODULE SubReactorEvents --------------------------
(***************************************************************************)
(* Proofs of what SubReactor promises of events and of half-closed         *)
(* connections when it runs without the thread pool.                       *)
(***************************************************************************)
EXTENDS SubReactorProofs

\* Without the pool nothing is ever queued for a worker.
Quiet == tasks = <<>> /\ \A w \in Worker : wpc[w] = "idle"

\* Only connections of the table are registered with its epoll.
ArmedIsLive == \A r \in Reactor, f \in FD : arm[r][f] # "none" => f \in live[r]

\* EventsAreCurrent, for one mode.
Current == \A r \in Reactor : \A e \in batch[r] : e[1] \in live[r] /\ arm[r][e[1]] = "off"

\* epoll_wait reports a descriptor once.
OneEvent == \A r \in Reactor : \A d, e \in batch[r] : d[1] = e[1] => d = e

\* Callbacks run when all events have been handled.
BatchFirst == \A r \in Reactor : pc[r] \in {"wait", "expire"} => batch[r] = {}

EventInv == ~use_thread_pool => Quiet /\ ArmedIsLive /\ Current /\ OneEvent /\ BatchFirst

LEMMA EventInit == Init => EventInv
BY DEF Init, EventInv, Quiet, ArmedIsLive, Current, OneEvent, BatchFirst

LEMMA EventTypes ==
  ASSUME TypeInv
  PROVE  /\ live \in [Reactor -> SUBSET FD]
         /\ arm \in [Reactor -> [FD -> {"none", "off", "in", "out"}]]
         /\ batch \in [Reactor -> SUBSET (FD \X Kind)]
         /\ pc \in [Reactor -> {"wait", "events", "swap", "install", "expire"}]
         /\ closing \in [Reactor -> SUBSET FD]
         /\ sending \in [Reactor -> SUBSET FD]
         /\ last \in [Reactor -> SUBSET FD]
         /\ None \notin Conn \cup FD
BY SubReactorAssumption DEF TypeInv, TypeOK

-----------------------------------------------------------------------------
(* Steps.                                                                  *)

\* The mode is read from the configuration once.
LEMMA ModeNext == [Next]_vars => use_thread_pool' = use_thread_pool
<1> SUFFICES ASSUME [Next]_vars PROVE use_thread_pool' = use_thread_pool
  OBVIOUS
<1>1. CASE MainStep
  BY <1>1 DEF MainStep, Push, Signal, Accept
<1>2. ASSUME NEW r \in Reactor, NEW f \in FD, Handler(r, f)
      PROVE  use_thread_pool' = use_thread_pool
  BY <1>2, HandlerCases
<1>3. ASSUME NEW r \in Reactor, ReactorStep(r) PROVE use_thread_pool' = use_thread_pool
  BY <1>2, <1>3 DEF ReactorStep, EpollWait, ReadEventfd, SwapQueue, Refuse, Install,
                    TickEarly, TickAdvance, RunCallback
<1>4. CASE ClientStep \/ (\E w \in Worker : WorkerStep(w)) \/ Halted \/ UNCHANGED vars
  BY <1>4, OthersFrame
<1> QED
  BY <1>1, <1>3, <1>4 DEF Next

\* What a connection that is left in the table keeps of its state: a response
\* under way is not one of a connection that is closing (http_conn.cpp:104-120).
LeavesInStep(r, f) ==
    \E listen \in {"in", "out"}, isSending, isLast, isClosing \in BOOLEAN :
        /\ isClosing => ~isSending /\ isLast
        /\ isSending => listen = "out"
        /\ arm' = [arm EXCEPT ![r][f] = listen]
        /\ sending' = [sending EXCEPT ![r] = Member(@, f, isSending)]
        /\ last' = [last EXCEPT ![r] = Member(@, f, isLast)]
        /\ closing' = [closing EXCEPT ![r] = Member(@, f, isClosing)]
        /\ UNCHANGED <<sock, live>>

\* A connection that is closing has nothing to write.
LEMMA WriteOnceCases ==
  ASSUME NEW r \in Reactor, NEW f \in live[r], NEW flags, NEW isSending \in BOOLEAN,
         NEW isLast \in BOOLEAN, WriteOnce(r, f, flags, isSending, isLast),
         f \in closing[r] => ~isSending
  PROVE  CloseConnection(r, f) \/ LeavesInStep(r, f)
<1>1. PICK result \in WriteTo(flags, isSending) :
        \/ result = "SUCCESS" /\ Leave(r, f, "in", flags, FALSE, isLast, isLast)
        \/ /\ result = "CONTINUE"
           /\ \E now \in {flags, flags \cup {"full"}} :
                 Leave(r, f, "out", now, TRUE, isLast, f \in closing[r])
        \/ result = "ERROR" /\ CloseConnection(r, f)
  BY DEF WriteOnce
<1>2. CASE Leave(r, f, "in", flags, FALSE, isLast, isLast)
  BY <1>2 DEF Leave, LeavesInStep
<1>3. ASSUME result = "CONTINUE", NEW now, Leave(r, f, "out", now, TRUE, isLast, f \in closing[r])
      PROVE  LeavesInStep(r, f)
  <2>1. f \notin closing[r]
    BY <1>1, <1>3 DEF WriteTo
  <2>2. (f \in closing[r]) = FALSE
    BY <2>1
  <2>3. Leave(r, f, "out", now, TRUE, isLast, FALSE)
    BY <1>3, <2>2
  <2> QED
    BY <2>3 DEF Leave, LeavesInStep
<1> QED
  BY <1>1, <1>2, <1>3

\* A handler without the pool: it closes the connection of its event, leaves it
\* with a new registration, or drops the event.
LEMMA QuietHandler ==
  ASSUME TypeInv, ~use_thread_pool, Quiet, ClosingStaysSilent,
         NEW r \in Reactor, NEW f \in FD, Handler(r, f)
  PROVE  /\ \/ f \in live[r] /\ CloseConnection(r, f)
            \/ f \in live[r] /\ LeavesInStep(r, f)
            \/ /\ \E kind \in Kind : IgnoreEvent(r, f, kind)
               /\ UNCHANGED <<sock, arm, live, closing, sending, last>>
         /\ UNCHANGED <<tasks, wpc>>
<1>1. CASE HandleReadFails(r, f)
  BY <1>1 DEF HandleReadFails, pool
<1>2. CASE HandleRead(r, f)
  <2>1. PICK reply \in Reply, late \in SUBSET ({"rst"} \cap Endings) :
          /\ reply # "incomplete" => "input" \in net[sock[f]]
          /\ WriteOnce(r, f, (net[sock[f]] \ {"input"}) \cup late,
                       reply # "incomplete" \/ f \in sending[r],
                       reply = "close" \/ f \in last[r])
    BY <1>2 DEF HandleRead
  <2>2. f \in live[r] /\ ReadMaySucceed(r, f) /\ UNCHANGED <<tasks, wpc>>
    BY <1>2 DEF HandleRead, pool
  <2>3. f \in closing[r] => ~(reply # "incomplete" \/ f \in sending[r])
    BY <2>1, <2>2 DEF ReadMaySucceed, ClosingStaysSilent
  <2> QED
    BY <2>1, <2>2, <2>3, WriteOnceCases
<1>3. CASE HandleReadPool(r, f)
  BY <1>3 DEF HandleReadPool
<1>4. CASE HandleWrite(r, f)
  <2>1. /\ f \in live[r] /\ UNCHANGED <<tasks, wpc>>
        /\ WriteOnce(r, f, net[sock[f]], f \in sending[r], f \in last[r])
    BY <1>4 DEF HandleWrite, pool
  <2> DEFINE isSending == f \in sending[r]
             isLast == f \in last[r]
  <2>2. f \in closing[r] => ~isSending
    BY DEF ClosingStaysSilent
  <2>3. isSending \in BOOLEAN /\ isLast \in BOOLEAN
    OBVIOUS
  <2>4. WriteOnce(r, f, net[sock[f]], isSending, isLast)
    BY <2>1
  <2> HIDE DEF isSending, isLast
  <2> QED
    BY <2>1, <2>2, <2>3, <2>4, WriteOnceCases
<1>5. ASSUME NEW kind \in Kind, IgnoreEvent(r, f, kind)
      PROVE  UNCHANGED <<sock, arm, live, closing, sending, last, tasks, wpc>>
  BY <1>5 DEF IgnoreEvent, table, pool
<1>6. ASSUME NEW kind \in Kind, HandlerRaces(r, f, kind) PROVE FALSE
  BY <1>6 DEF HandlerRaces, Busy, Quiet
<1> QED
  BY <1>1, <1>2, <1>3, <1>4, <1>5, <1>6 DEF Handler

\* Clients leave epoll and the connections alone, and idle workers do nothing.
LEMMA QuietOthers ==
  ASSUME Quiet,
         ClientStep \/ (\E w \in Worker : WorkerStep(w)) \/ Halted \/ UNCHANGED vars
  PROVE  UNCHANGED <<arm, batch, pc, live, closing, sending, last, tasks, wpc>>
<1>1. CASE ClientStep
  BY <1>1 DEF ClientStep, Send, CloseWrite, Abort, Raise, Drain, table, pool
<1>2. ASSUME NEW w \in Worker, WorkerStep(w) PROVE FALSE
  BY <1>2 DEF WorkerStep, TakeTask, CheckSlot, EnterObject, Process, Step, Quiet
<1>3. CASE Halted \/ UNCHANGED vars
  BY <1>3 DEF Halted, vars, kernel, table, pool
<1> QED
  BY <1>1, <1>2, <1>3

-----------------------------------------------------------------------------
(* Events.                                                                 *)

LEMMA EventNext ==
  TypeInv /\ HolderInv /\ TimerInv /\ ClosingStaysSilent /\ EventInv /\ [Next]_vars => EventInv'
<1> SUFFICES ASSUME TypeInv, HolderInv, TimerInv, ClosingStaysSilent, EventInv, [Next]_vars,
                    ~use_thread_pool
             PROVE  (Quiet /\ ArmedIsLive /\ Current /\ OneEvent /\ BatchFirst)'
  BY ModeNext DEF EventInv
<1>0. Quiet /\ ArmedIsLive /\ Current /\ OneEvent /\ BatchFirst
  BY DEF EventInv
<1> USE <1>0, EventTypes DEF ArmedIsLive, Current, OneEvent, BatchFirst
<1> DEFINE Goal == (Quiet /\ ArmedIsLive /\ Current /\ OneEvent /\ BatchFirst)'
<1>1. ASSUME UNCHANGED <<arm, batch, pc, live, tasks, wpc>> PROVE Goal
  BY <1>1 DEF Quiet
<1>2. CASE MainStep
  BY <1>1, <1>2 DEF MainStep, Accept, Push, Signal, kernel, table, pool
\* A step of a reactor that neither waits nor closes nor installs.
<1>3. ASSUME NEW r \in Reactor, \E next \in {"events", "swap", "install"} : pc' = [pc EXCEPT ![r] = next],
             UNCHANGED <<arm, batch, live, tasks, wpc>>
      PROVE  Goal
  BY <1>3 DEF Quiet
<1>4. ASSUME NEW r \in Reactor, EpollWait(r) PROVE Goal
  <2>0. \A e \in batch'[r] : \E f \in FD : Event(r, f) # None /\ e = <<f, Event(r, f)>>
    <3>1. batch'[r] = {<<f, Event(r, f)>> : f \in {g \in FD : Event(r, g) # None}}
      BY <1>4 DEF EpollWait
    <3> QED
      BY <3>1
  <2>1. /\ \A s \in Reactor : s # r => batch'[s] = batch[s]
        /\ \A s \in Reactor, f \in FD :
              arm'[s][f] = IF s = r /\ Event(r, f) # None THEN "off" ELSE arm[s][f]
        /\ \A s \in Reactor : pc'[s] = IF s = r THEN "events" ELSE pc[s]
        /\ UNCHANGED <<live, tasks, wpc>>
    BY <1>4 DEF EpollWait, table, pool
  <2>2. \A f \in FD : Event(r, f) # None => f \in live[r]
    BY DEF Event
  <2>3. ArmedIsLive'
    BY <2>1, <2>2
  <2>4. Current'
    <3> SUFFICES ASSUME NEW s \in Reactor, NEW e \in batch'[s]
                 PROVE  e[1] \in live[s] /\ arm'[s][e[1]] = "off"
      BY <2>1
    <3>1. CASE s = r
      <4>1. PICK f \in FD : Event(r, f) # None /\ e = <<f, Event(r, f)>>
        BY <2>0, <3>1
      <4> QED
        BY <2>1, <2>2, <3>1, <4>1
    <3>2. CASE s # r
      <4>1. e \in batch[s] /\ e[1] \in FD
        BY <2>1, <3>2
      <4> QED
        BY <2>1, <3>2, <4>1
    <3> QED
      BY <3>1, <3>2
  <2>5. OneEvent'
    <3> SUFFICES ASSUME NEW s \in Reactor, NEW d \in batch'[s], NEW e \in batch'[s], d[1] = e[1]
                 PROVE  d = e
      OBVIOUS
    <3>1. CASE s = r
      <4>1. PICK f \in FD : d = <<f, Event(r, f)>>
        BY <2>0, <3>1
      <4>2. PICK g \in FD : e = <<g, Event(r, g)>>
        BY <2>0, <3>1
      <4> QED
        BY <4>1, <4>2
    <3>2. CASE s # r
      BY <2>1, <3>2
    <3> QED
      BY <3>1, <3>2
  <2>6. BatchFirst' /\ Quiet'
    BY <2>1 DEF Quiet
  <2> QED
    BY <2>3, <2>4, <2>5, <2>6
<1>5. ASSUME NEW r \in Reactor, ReadEventfd(r) \/ SwapQueue(r) \/ (\E f \in FD : Refuse(r, f))
      PROVE  Goal
  <2>1. /\ \E next \in {"events", "swap", "install"} : pc' = [pc EXCEPT ![r] = next]
        /\ UNCHANGED <<arm, batch, live, tasks, wpc>>
    BY <1>5 DEF ReadEventfd, SwapQueue, Refuse, Pop, kernel, table, pool
  <2> QED
    BY <1>3, <2>1
<1>6. ASSUME NEW r \in Reactor, NEW f \in FD, Install(r, f) PROVE Goal
  <2>1. /\ f \in taken[r]
        /\ \E next \in {"events", "install"} : pc' = [pc EXCEPT ![r] = next]
        /\ UNCHANGED <<batch, tasks, wpc>>
    BY <1>6 DEF Install, Pop, pool
  <2>2. \A s \in Reactor : f \notin live[s]
    BY <2>1 DEF HolderInv, HeldOnce
  <2>3. \A s \in Reactor : live'[s] = IF s = r THEN live[r] \cup {f} ELSE live[s]
    BY <1>6 DEF Install
  <2>4. \A s \in Reactor, g \in FD : s # r \/ g # f => arm'[s][g] = arm[s][g]
    BY <1>6 DEF Install
  <2>5. \A s \in Reactor : \A e \in batch[s] : e[1] \in FD /\ e[1] # f
    BY <2>2
  <2>6. ArmedIsLive'
    BY <2>3, <2>4
  <2>7. Current'
    <3> SUFFICES ASSUME NEW s \in Reactor, NEW e \in batch[s]
                 PROVE  e[1] \in live'[s] /\ arm'[s][e[1]] = "off"
      BY <2>1
    <3>1. e[1] \in FD /\ e[1] # f /\ e[1] \in live[s] /\ arm[s][e[1]] = "off"
      BY <2>5
    <3> QED
      BY <2>3, <2>4, <3>1
  <2>8. (Quiet /\ OneEvent /\ BatchFirst)'
    BY <2>1 DEF Quiet
  <2> QED
    BY <2>6, <2>7, <2>8
\* Closing a connection of which no event is left.
<1>7. ASSUME NEW r \in Reactor, NEW f \in live[r], Destroy(r, f),
             \A s \in Reactor : batch'[s] \subseteq batch[s] /\ \A e \in batch'[s] : s = r => e[1] # f,
             \A s \in Reactor : pc'[s] \in {"wait", "expire"} => batch'[s] = {},
             UNCHANGED <<tasks, wpc>>
      PROVE  Goal
  <2>1. \A s \in Reactor : live'[s] = IF s = r THEN live[r] \ {f} ELSE live[s]
    BY <1>7 DEF Destroy
  <2>2. \A s \in Reactor, g \in FD : arm'[s][g] = IF g = f THEN "none" ELSE arm[s][g]
    BY <1>7 DEF Destroy
  <2>3. \A s \in Reactor : s # r => f \notin live[s]
    BY DEF HolderInv, HeldOnce
  <2>4. \A s \in Reactor : \A e \in batch'[s] : e \in batch[s] /\ e[1] \in FD /\ e[1] # f
    BY <1>7, <2>3
  <2>5. ArmedIsLive'
    BY <2>1, <2>2
  <2>6. Current'
    <3> SUFFICES ASSUME NEW s \in Reactor, NEW e \in batch'[s]
                 PROVE  e[1] \in live'[s] /\ arm'[s][e[1]] = "off"
      OBVIOUS
    <3>1. e \in batch[s] /\ e[1] \in FD /\ e[1] # f
      BY <2>4
    <3>2. e[1] \in live[s] /\ arm[s][e[1]] = "off"
      BY <3>1
    <3> QED
      BY <2>1, <2>2, <3>1, <3>2
  <2>7. (Quiet /\ OneEvent /\ BatchFirst)'
    BY <1>7, <2>4 DEF Quiet
  <2> QED
    BY <2>5, <2>6, <2>7
<1>8. ASSUME NEW r \in Reactor, NEW f \in FD, Handler(r, f) PROVE Goal
  <2>0. pc[r] = "events" /\ UNCHANGED pc
    BY ONLY <1>8, HandlerCases
  <2>1. \E kind \in Kind : /\ <<f, kind>> \in batch[r]
                           /\ batch' = [batch EXCEPT ![r] = @ \ {<<f, kind>>}]
    BY ONLY <1>8, HandlerCases
  <2>2. /\ \A s \in Reactor : batch'[s] \subseteq batch[s]
        /\ \A e \in batch'[r] : e[1] # f
    <3>1. PICK kind \in Kind : /\ <<f, kind>> \in batch[r]
                               /\ batch' = [batch EXCEPT ![r] = @ \ {<<f, kind>>}]
      BY <2>1
    <3>2. ASSUME NEW e \in batch[r], e[1] = f PROVE e = <<f, kind>>
      BY <3>1, <3>2
    <3> QED
      BY <3>1, <3>2
  <2>3. \A s \in Reactor : pc'[s] \in {"wait", "expire"} => batch'[s] = {}
    BY <2>0, <2>2
  <2>4. UNCHANGED <<tasks, wpc>>
    BY <1>8, QuietHandler
  <2>5. CASE f \in live[r] /\ CloseConnection(r, f)
    <3>1. f \in live[r] /\ Destroy(r, f)
      BY ONLY <2>5 DEF CloseConnection
    <3>2. \A s \in Reactor : batch'[s] \subseteq batch[s] /\ \A e \in batch'[s] : s = r => e[1] # f
      BY ONLY <2>2
    <3> QED
      BY ONLY <1>7, <2>3, <2>4, <3>1, <3>2
  <2>6. ASSUME UNCHANGED live, \A s \in Reactor, g \in FD : s # r \/ g # f => arm'[s][g] = arm[s][g],
               arm'[r][f] # "none" => f \in live[r]
        PROVE  Goal
    <3>1. \A s \in Reactor : \A e \in batch'[s] : e \in batch[s] /\ e[1] \in FD /\ (s = r => e[1] # f)
      BY <2>2
    <3>2. ArmedIsLive'
      BY SMTT(30), <2>6
    <3>3. Current'
      BY <2>6, <3>1
    <3>4. (Quiet /\ OneEvent /\ BatchFirst)'
      BY <2>3, <2>4, <3>1 DEF Quiet
    <3> QED
      BY <3>2, <3>3, <3>4
  <2>7. CASE f \in live[r] /\ LeavesInStep(r, f)
    <3>1. /\ UNCHANGED live
          /\ \A s \in Reactor, g \in FD : s # r \/ g # f => arm'[s][g] = arm[s][g]
      BY <2>7 DEF LeavesInStep
    <3> QED
      BY <2>6, <2>7, <3>1
  <2>8. CASE UNCHANGED <<sock, arm, live, closing, sending, last>>
    BY <2>6, <2>8
  <2> QED
    BY <1>8, <2>5, <2>7, <2>8, QuietHandler
<1>9. ASSUME NEW r \in Reactor, TickEarly(r) \/ TickAdvance(r) PROVE Goal
  <2>1. /\ batch[r] = {} /\ \E next \in {"wait", "expire"} : pc' = [pc EXCEPT ![r] = next]
        /\ UNCHANGED <<arm, batch, live, tasks, wpc>>
    BY <1>9 DEF TickEarly, TickAdvance, kernel, table, pool
  <2> QED
    BY <2>1 DEF Quiet
<1>10. ASSUME NEW r \in Reactor, NEW c \in Conn, RunCallback(r, c) PROVE Goal
  <2>1. cbfd[c] \in live[r] /\ Destroy(r, cbfd[c])
    BY <1>10, CallbackCloses
  <2>2. /\ pc[r] = "expire" /\ UNCHANGED <<batch, tasks, wpc>>
        /\ \E next \in {"wait", "expire"} : pc' = [pc EXCEPT ![r] = next]
    BY <1>10 DEF RunCallback, pool
  <2>3. batch[r] = {}
    BY <2>2
  <2>4. \A s \in Reactor : pc'[s] \in {"wait", "expire"} => batch'[s] = {}
    BY <2>2, <2>3
  <2> QED
    BY <1>7, <2>1, <2>2, <2>3, <2>4
<1>11. CASE ClientStep \/ (\E w \in Worker : WorkerStep(w)) \/ Halted \/ UNCHANGED vars
  BY <1>1, <1>11, QuietOthers
<1> QED
  BY <1>2, <1>4, <1>5, <1>6, <1>8, <1>9, <1>10, <1>11 DEF Next, ReactorStep

-----------------------------------------------------------------------------
(* Half-closed connections.                                                *)

LEMMA ClosingNext ==
  TypeInv /\ HolderInv /\ TimerInv /\ EventInv /\ ClosingStaysSilent /\ [Next]_vars
     => ClosingStaysSilent'
<1> SUFFICES ASSUME TypeInv, HolderInv, TimerInv, EventInv, ClosingStaysSilent, [Next]_vars,
                    ~use_thread_pool
             PROVE  \A r \in Reactor : closing'[r] \cap sending'[r] = {} /\ closing'[r] \subseteq last'[r]
  BY ModeNext DEF ClosingStaysSilent
<1>0. Quiet
  BY DEF EventInv
<1> USE EventTypes DEF ClosingStaysSilent
<1> DEFINE Goal == \A r \in Reactor : closing'[r] \cap sending'[r] = {} /\ closing'[r] \subseteq last'[r]
<1>1. ASSUME UNCHANGED <<closing, sending, last>> PROVE Goal
  BY <1>1
<1>2. ASSUME NEW r \in Reactor, NEW f \in FD, Install(r, f) PROVE Goal
  <2>1. /\ \A s \in Reactor : closing'[s] = IF s = r THEN closing[r] \ {f} ELSE closing[s]
        /\ \A s \in Reactor : sending'[s] = IF s = r THEN sending[r] \ {f} ELSE sending[s]
        /\ UNCHANGED last
    BY <1>2 DEF Install
  <2> QED
    BY <2>1
<1>3. ASSUME NEW r \in Reactor, NEW f, Destroy(r, f) PROVE Goal
  <2>1. /\ \A s \in Reactor : closing'[s] = IF s = r THEN closing[r] \ {f} ELSE closing[s]
        /\ \A s \in Reactor : sending'[s] = IF s = r THEN sending[r] \ {f} ELSE sending[s]
        /\ \A s \in Reactor : last'[s] = IF s = r THEN last[r] \ {f} ELSE last[s]
    BY <1>3 DEF Destroy
  <2> QED
    BY <2>1
<1>4. ASSUME NEW r \in Reactor, NEW f \in FD, LeavesInStep(r, f) PROVE Goal
  <2>1. PICK isSending, isLast, isClosing \in BOOLEAN :
          /\ isClosing => ~isSending /\ isLast
          /\ sending' = [sending EXCEPT ![r] = Member(@, f, isSending)]
          /\ last' = [last EXCEPT ![r] = Member(@, f, isLast)]
          /\ closing' = [closing EXCEPT ![r] = Member(@, f, isClosing)]
    BY <1>4 DEF LeavesInStep
  <2>2. /\ \A s \in Reactor : s # r => /\ closing'[s] = closing[s] /\ sending'[s] = sending[s]
                                       /\ last'[s] = last[s]
        /\ \A g : /\ g \in closing'[r] <=> IF g = f THEN isClosing ELSE g \in closing[r]
                  /\ g \in sending'[r] <=> IF g = f THEN isSending ELSE g \in sending[r]
                  /\ g \in last'[r] <=> IF g = f THEN isLast ELSE g \in last[r]
    BY <2>1 DEF Member
  <2>3. closing'[r] \cap sending'[r] = {} /\ closing'[r] \subseteq last'[r]
    BY <2>1, <2>2
  <2> QED
    BY <2>2, <2>3
<1>5. ASSUME NEW r \in Reactor, NEW f \in FD, Handler(r, f) PROVE Goal
  BY <1>0, <1>1, <1>3, <1>4, <1>5, QuietHandler DEF CloseConnection
<1>6. ASSUME NEW r \in Reactor, NEW c \in Conn, RunCallback(r, c) PROVE Goal
  BY <1>3, <1>6, CallbackCloses
<1>7. ASSUME NEW r \in Reactor,
             EpollWait(r) \/ ReadEventfd(r) \/ SwapQueue(r) \/ TickEarly(r) \/ TickAdvance(r)
                \/ \E f \in FD : Refuse(r, f)
      PROVE  Goal
  BY <1>1, <1>7 DEF EpollWait, ReadEventfd, SwapQueue, TickEarly, TickAdvance, Refuse, table
<1>8. CASE MainStep
  BY <1>1, <1>8 DEF MainStep, Accept, Push, Signal, table
<1>9. CASE ClientStep \/ (\E w \in Worker : WorkerStep(w)) \/ Halted \/ UNCHANGED vars
  BY <1>0, <1>1, <1>9, QuietOthers
<1> QED
  BY <1>2, <1>5, <1>6, <1>7, <1>8, <1>9 DEF Next, ReactorStep

-----------------------------------------------------------------------------
Invariant == TypeInv /\ HolderInv /\ TimerInv /\ EventInv /\ ClosingStaysSilent

LEMMA InvariantHolds == Spec => []Invariant
<1>1. Init => Invariant
  BY TypeInvInit, HolderInit, TimerInit, EventInit
     DEF Invariant, Init, ClosingStaysSilent
<1>2. Invariant /\ [Next]_vars => Invariant'
  BY TypeInvNext, HolderNext, TimerNext, EventNext, ClosingNext DEF Invariant
<1> QED
  BY <1>1, <1>2, PTL DEF Spec

\* Without the pool, no event of a batch is handled for another connection than
\* the one it was reported for (EventsAreCurrent): neither another event, nor
\* the timers, nor the reuse of a descriptor comes in between.
THEOREM EventsStayCurrent == Spec => []EventsAreCurrent
<1>1. Invariant => EventsAreCurrent
  BY DEF Invariant, EventInv, Current, EventsAreCurrent
<1> QED
  BY <1>1, InvariantHolds, PTL

\* Without the pool, a connection that has been half-closed has nothing to send
\* and never will (ClosingStaysSilent).
THEOREM ClosedIsSilent == Spec => []ClosingStaysSilent
<1>1. Invariant => ClosingStaysSilent
  BY DEF Invariant
<1> QED
  BY <1>1, InvariantHolds, PTL

-----------------------------------------------------------------------------
(* What the pool, and what a client that half-closes, are to blame for.    *)

Serial == ~use_thread_pool

LEMMA FaultNext == EventInv /\ Serial /\ ~fault /\ [Next]_vars => ~fault'
<1> SUFFICES ASSUME EventInv, Serial, ~fault, [Next]_vars PROVE ~fault'
  OBVIOUS
<1>0. Quiet
  BY DEF EventInv, Serial
<1>1. ASSUME NEW r \in Reactor, NEW f \in FD, Handler(r, f) PROVE ~fault'
  <2>1. ASSUME NEW kind \in Kind, HandlerRaces(r, f, kind) PROVE FALSE
    BY <1>0, <2>1 DEF HandlerRaces, Busy, Quiet
  <2> QED
    BY <1>1, <2>1 DEF Handler, HandleReadFails, HandleRead, HandleReadPool, HandleWrite, IgnoreEvent
<1>2. ASSUME NEW r \in Reactor, ReactorStep(r) PROVE ~fault'
  BY <1>1, <1>2 DEF ReactorStep, EpollWait, ReadEventfd, SwapQueue, Refuse, Install, Pop,
                    TickEarly, TickAdvance, RunCallback
<1>3. ASSUME NEW w \in Worker, WorkerStep(w) PROVE FALSE
  BY <1>0, <1>3 DEF WorkerStep, TakeTask, CheckSlot, EnterObject, Process, Step, Quiet
<1>4. CASE MainStep \/ ClientStep \/ Halted \/ UNCHANGED vars
  BY <1>4 DEF MainStep, Push, Signal, Accept, ClientStep, Send, CloseWrite, Abort, Raise, Drain,
              Halted, vars
<1> QED
  BY <1>2, <1>3, <1>4 DEF Next

\* sub_reactor.cpp:280: without the pool the loop does own what it works on, so
\* that FaultFree holds; the workers alone break it (run reactor_uaf).
THEOREM OnlyThePoolRaces == ASSUME TRUE \notin PoolModes PROVE Spec => []FaultFree
<1>1. Init => Serial /\ FaultFree
  BY SubReactorAssumption DEF Init, Serial, FaultFree
<1>2. Serial /\ [Next]_vars => Serial'
  BY ModeNext DEF Serial
<1>3. Invariant /\ Serial /\ FaultFree /\ [Next]_vars => FaultFree'
  BY FaultNext DEF Invariant, FaultFree
<1> QED
  BY <1>1, <1>2, <1>3, InvariantHolds, PTL DEF Spec

\* No client half-closes, so that no event is one that the loop drops.
NeverFin ==
    /\ \A c \in Conn : "fin" \notin net[c]
    /\ \A r \in Reactor : \A e \in batch[r] : e[2] # "other"

FinTaken == \E c, flags : net' = [net EXCEPT ![c] = flags] /\ "fin" \notin flags

LEMMA FinIsTaken ==
  ASSUME NEW c, NEW flags, "fin" \notin flags, net' = [net EXCEPT ![c] = flags]
  PROVE  FinTaken
BY DEF FinTaken

LEMMA HandlerNet ==
  ASSUME TypeInv, HolderInv, NeverFin, NEW r \in Reactor, NEW f \in FD, Handler(r, f)
  PROVE  net' = net \/ FinTaken
<1>1. ASSUME f \in live[r] PROVE sock[f] \in Conn /\ "fin" \notin net[sock[f]]
  <2>1. sock[f] \in Conn
    BY <1>1 DEF HolderInv, HeldIsOpen, TypeInv, TypeOK
  <2> QED
    BY <2>1 DEF NeverFin
<1>2. ASSUME CloseConnection(r, f) PROVE FinTaken
  <2>1. net' = [net EXCEPT ![sock[f]] = {}] /\ "fin" \notin {}
    BY <1>2 DEF CloseConnection, Destroy
  <2> QED
    BY ONLY <2>1, FinIsTaken, Zenon
<1>3. ASSUME NEW flags, "fin" \notin flags, NEW isSending, NEW isLast,
             WriteOnce(r, f, flags, isSending, isLast)
      PROVE  FinTaken
  <2>1. ASSUME NEW listen, NEW now \in {flags, flags \cup {"full"}}, NEW a, NEW b, NEW d,
               Leave(r, f, listen, now, a, b, d)
        PROVE  FinTaken
    <3>1. net' = [net EXCEPT ![sock[f]] = now] /\ "fin" \notin now
      BY <1>3, <2>1 DEF Leave
    <3> QED
      BY <3>1 DEF FinTaken
  <2>2. \/ Leave(r, f, "in", flags, FALSE, isLast, isLast)
        \/ \E now \in {flags, flags \cup {"full"}} :
               Leave(r, f, "out", now, TRUE, isLast, f \in closing[r])
        \/ CloseConnection(r, f)
    BY <1>3 DEF WriteOnce
  <2> QED
    BY <1>2, <2>1, <2>2
<1>4. CASE HandleReadFails(r, f)
  BY <1>2, <1>4 DEF HandleReadFails
<1>5. CASE HandleRead(r, f)
  <2>1. PICK reply \in Reply, late \in SUBSET ({"rst"} \cap Endings) :
          WriteOnce(r, f, (net[sock[f]] \ {"input"}) \cup late,
                    reply # "incomplete" \/ f \in sending[r],
                    reply = "close" \/ f \in last[r])
    BY <1>5 DEF HandleRead
  <2>2. "fin" \notin (net[sock[f]] \ {"input"}) \cup late
    BY <1>1, <1>5 DEF HandleRead
  <2> QED
    BY <1>3, <2>1, <2>2
<1>6. CASE HandleReadPool(r, f)
  <2>1. net' = [net EXCEPT ![sock[f]] = net[sock[f]] \ {"input"}] /\ f \in live[r]
    BY <1>6 DEF HandleReadPool
  <2> QED
    BY <1>1, <2>1 DEF FinTaken
<1>7. CASE HandleWrite(r, f)
  BY <1>1, <1>3, <1>7 DEF HandleWrite
<1>8. ASSUME NEW kind \in Kind, IgnoreEvent(r, f, kind) \/ HandlerRaces(r, f, kind)
      PROVE  net' = net
  BY <1>8 DEF IgnoreEvent, HandlerRaces
<1> QED
  BY <1>4, <1>5, <1>6, <1>7, <1>8 DEF Handler

LEMMA NeverFinNext ==
  ASSUME "fin" \notin Endings, TypeInv, HolderInv, TimerInv, EventInv, Serial, NeverFin, [Next]_vars
  PROVE  NeverFin'
<1>0. net \in [Conn -> SUBSET Flag] /\ batch \in [Reactor -> SUBSET (FD \X Kind)]
  BY DEF TypeInv, TypeOK
<1>1. ASSUME net' = net \/ FinTaken PROVE \A c \in Conn : "fin" \notin net'[c]
  BY <1>0, <1>1 DEF NeverFin, FinTaken
<1>2. ASSUME \A r \in Reactor : batch'[r] \subseteq batch[r], net' = net \/ FinTaken
      PROVE  NeverFin'
  BY <1>1, <1>2 DEF NeverFin
<1>3. ASSUME NEW c \in Conn, NEW flag \in {"input", "rst"}, Raise(c, flag) PROVE NeverFin'
  <2>1. net' = [net EXCEPT ![c] = net[c] \cup {flag}] /\ "fin" \notin net[c] \cup {flag} /\ batch' = batch
    BY <1>3 DEF Raise, NeverFin
  <2> QED
    BY <1>2, <2>1 DEF FinTaken
<1>4. CASE ClientStep
  <2>1. ASSUME NEW c \in Conn, Drain(c) PROVE NeverFin'
    <3>1. net' = [net EXCEPT ![c] = net[c] \ {"full"}] /\ "fin" \notin net[c] /\ batch' = batch
      BY <2>1 DEF Drain, NeverFin
    <3>2. FinTaken
      BY ONLY <3>1, FinIsTaken, Zenon
    <3> QED
      BY <1>2, <3>1, <3>2
  <2> QED
    BY <1>3, <1>4, <2>1 DEF ClientStep, Send, CloseWrite, Abort
<1>5. ASSUME NEW r \in Reactor, EpollWait(r) PROVE NeverFin'
  <2>1. net' = net /\ batch' = [batch EXCEPT ![r] = {<<f, Event(r, f)>> : f \in {g \in FD : Event(r, g) # None}}]
    BY <1>5 DEF EpollWait
  <2>2. \A f \in FD : Event(r, f) # None => Event(r, f) # "other"
    <3> SUFFICES ASSUME NEW f \in FD, Event(r, f) # None, Event(r, f) = "other" PROVE FALSE
      OBVIOUS
    <3>1. arm[r][f] = "out" /\ "fin" \in net[sock[f]]
      BY DEF Event
    <3>2. f \in live[r]
      BY <3>1 DEF EventInv, Serial, ArmedIsLive
    <3>3. sock[f] \in Conn
      BY <3>2 DEF HolderInv, HeldIsOpen, TypeInv, TypeOK
    <3> QED
      BY <3>1, <3>3 DEF NeverFin
  <2>3. ASSUME NEW s \in Reactor, NEW e \in batch'[s] PROVE e[2] # "other"
    BY <1>0, <2>1, <2>2, <2>3 DEF NeverFin
  <2> QED
    BY <1>1, <2>1, <2>3 DEF NeverFin
<1>6. ASSUME NEW r \in Reactor, NEW f \in FD, Handler(r, f) PROVE NeverFin'
  <2>1. \E kind \in Kind : batch' = [batch EXCEPT ![r] = @ \ {<<f, kind>>}]
    BY ONLY <1>6, HandlerCases
  <2>2. \A s \in Reactor : batch'[s] \subseteq batch[s]
    BY <1>0, <2>1
  <2> QED
    BY <1>2, <1>6, <2>2, HandlerNet
<1>7. ASSUME NEW r \in Reactor, NEW c \in Conn, RunCallback(r, c) PROVE NeverFin'
  <2>1. batch' = batch /\ Destroy(r, cbfd[c])
    BY <1>7, CallbackCloses DEF RunCallback
  <2>2. net' = [net EXCEPT ![sock[cbfd[c]]] = {}] /\ "fin" \notin {}
    BY <2>1 DEF Destroy
  <2>3. FinTaken
    BY ONLY <2>2, FinIsTaken, Zenon
  <2> QED
    BY <1>2, <2>1, <2>3
<1>8. ASSUME NEW r \in Reactor,
             ReadEventfd(r) \/ SwapQueue(r) \/ TickEarly(r) \/ TickAdvance(r)
                \/ \E f \in FD : Refuse(r, f) \/ Install(r, f)
      PROVE  NeverFin'
  BY <1>2, <1>8 DEF ReadEventfd, SwapQueue, TickEarly, TickAdvance, Refuse, Install, Pop, kernel
<1>9. CASE MainStep \/ Halted \/ UNCHANGED vars
  BY <1>2, <1>9 DEF MainStep, Push, Signal, Accept, Halted, vars, kernel
<1>10. ASSUME NEW w \in Worker, WorkerStep(w) PROVE NeverFin'
  BY <1>2, <1>10 DEF WorkerStep, TakeTask, CheckSlot, EnterObject, Process, kernel
<1> QED
  BY <1>4, <1>5, <1>6, <1>7, <1>8, <1>9, <1>10 DEF Next, ReactorStep

\* UnsentIsListening, for one mode.
Listening == \A r \in Reactor : \A f \in sending[r] :
    arm[r][f] = "out" \/ \E kind \in Kind : <<f, kind>> \in batch[r]

LEMMA ListeningNext ==
  ASSUME Invariant, Serial, NeverFin, Listening, [Next]_vars
  PROVE  Listening'
<1>0. /\ TypeInv /\ HolderInv /\ TimerInv /\ EventInv /\ ClosingStaysSilent
      /\ Quiet /\ ArmedIsLive /\ Current /\ OneEvent /\ BatchFirst
  BY DEF Invariant, EventInv, Serial
<1> USE <1>0, EventTypes
<1>1. ASSUME \A r \in Reactor : sending'[r] \subseteq sending[r], UNCHANGED <<arm, batch>>
      PROVE  Listening'
  BY <1>1 DEF Listening
<1>2. ASSUME NEW r \in Reactor, EpollWait(r) PROVE Listening'
  <2>1. /\ \A s \in Reactor : s # r => batch'[s] = batch[s]
        /\ \A s \in Reactor, f \in FD :
              arm'[s][f] = IF s = r /\ Event(r, f) # None THEN "off" ELSE arm[s][f]
        /\ batch'[r] = {<<f, Event(r, f)>> : f \in {g \in FD : Event(r, g) # None}}
        /\ UNCHANGED sending /\ batch[r] = {}
    BY <1>2 DEF EpollWait, table, BatchFirst
  <2>2. ASSUME NEW f \in sending[r]
        PROVE  arm'[r][f] = "out" \/ \E kind \in Kind : <<f, kind>> \in batch'[r]
    <3>1. f \in FD /\ arm[r][f] = "out"
      BY <2>1, <2>2 DEF Listening
    <3>2. CASE Event(r, f) = None
      BY <2>1, <3>1, <3>2
    <3>3. CASE Event(r, f) # None
      <4>1. Event(r, f) \in Kind
        BY <3>3 DEF Event, Kind
      <4>2. <<f, Event(r, f)>> \in batch'[r]
        BY <2>1, <3>1, <3>3
      <4> QED
        BY <4>1, <4>2
    <3> QED
      BY <3>2, <3>3
  <2>3. ASSUME NEW s \in Reactor, s # r, NEW f \in sending[s]
        PROVE  arm'[s][f] = "out" \/ \E kind \in Kind : <<f, kind>> \in batch'[s]
    BY <2>1, <2>3 DEF Listening
  <2> QED
    BY <2>1, <2>2, <2>3 DEF Listening
<1>3. ASSUME NEW r \in Reactor, NEW f \in FD, Install(r, f) PROVE Listening'
  <2>1. /\ \A s \in Reactor : sending'[s] = IF s = r THEN sending[r] \ {f} ELSE sending[s]
        /\ \A s \in Reactor, g \in FD : s # r \/ g # f => arm'[s][g] = arm[s][g]
        /\ batch' = batch
    BY <1>3 DEF Install
  <2>2. ASSUME NEW s \in Reactor, NEW g \in sending'[s]
        PROVE  arm'[s][g] = "out" \/ \E kind \in Kind : <<g, kind>> \in batch'[s]
    <3>1. g \in sending[s] /\ g \in FD /\ (s # r \/ g # f)
      BY <2>1, <2>2
    <3>2. arm[s][g] = "out" \/ \E kind \in Kind : <<g, kind>> \in batch[s]
      BY <3>1 DEF Listening
    <3> QED
      BY <2>1, <3>1, <3>2
  <2> QED
    BY <2>2 DEF Listening
\* Closing a connection drops at most its own events.
<1>4. ASSUME NEW r \in Reactor, NEW f \in live[r], Destroy(r, f),
             \A s \in Reactor : \A e \in batch[s] : s # r \/ e[1] # f => e \in batch'[s]
      PROVE  Listening'
  <2>1. \A s \in Reactor : sending'[s] = IF s = r THEN sending[r] \ {f} ELSE sending[s]
    BY <1>4 DEF Destroy
  <2>2. \A s \in Reactor, g \in FD : arm'[s][g] = IF g = f THEN "none" ELSE arm[s][g]
    BY <1>4 DEF Destroy
  <2>3. ASSUME NEW s \in Reactor, NEW g \in sending'[s]
        PROVE  arm'[s][g] = "out" \/ \E kind \in Kind : <<g, kind>> \in batch'[s]
    <3>1. g \in sending[s] /\ g \in FD /\ (s # r \/ g # f)
      BY <2>1, <2>3
    <3>2. CASE arm[s][g] = "out"
      <4>1. g \in live[s]
        BY <3>1, <3>2 DEF ArmedIsLive
      <4>2. g # f
        BY <3>1, <4>1 DEF HolderInv, HeldOnce
      <4> QED
        BY <2>2, <3>1, <3>2, <4>2
    <3>3. ASSUME NEW kind \in Kind, <<g, kind>> \in batch[s]
          PROVE  <<g, kind>> \in batch'[s]
      BY <1>4, <3>1, <3>3
    <3> QED
      BY <3>1, <3>2, <3>3 DEF Listening
  <2> QED
    BY <2>3 DEF Listening
<1>5. ASSUME NEW r \in Reactor, NEW f \in FD, Handler(r, f) PROVE Listening'
  <2>1. PICK kind \in Kind : /\ <<f, kind>> \in batch[r]
                             /\ batch' = [batch EXCEPT ![r] = @ \ {<<f, kind>>}]
    BY ONLY <1>5, HandlerCases
  <2>2. \A s \in Reactor : \A e \in batch[s] : s # r \/ e[1] # f => e \in batch'[s]
    BY <2>1
  <2>3. f \in live[r]
    BY <2>1 DEF Current
  <2>4. ASSUME NEW k \in Kind, IgnoreEvent(r, f, k) PROVE FALSE
    <3>1. <<f, k>> \in batch[r] /\ (k # "other" => f \notin live[r])
      BY <2>4 DEF IgnoreEvent, NextEvent
    <3>2. k # "other"
      BY <3>1 DEF NeverFin
    <3> QED
      BY <2>3, <3>1, <3>2
  <2>5. CASE CloseConnection(r, f)
    BY <1>4, <2>2, <2>3, <2>5 DEF CloseConnection
  <2>6. CASE LeavesInStep(r, f)
    <3>1. PICK listen \in {"in", "out"}, isSending \in BOOLEAN :
            /\ isSending => listen = "out"
            /\ arm' = [arm EXCEPT ![r][f] = listen]
            /\ sending' = [sending EXCEPT ![r] = Member(@, f, isSending)]
      BY <2>6 DEF LeavesInStep
    <3>2. /\ \A s \in Reactor : s # r => sending'[s] = sending[s]
          /\ \A g : g \in sending'[r] <=> IF g = f THEN isSending ELSE g \in sending[r]
          /\ \A s \in Reactor, g \in FD :
                arm'[s][g] = IF s = r /\ g = f THEN listen ELSE arm[s][g]
      BY <3>1 DEF Member
    <3>3. ASSUME NEW s \in Reactor, NEW g \in sending'[s]
          PROVE  arm'[s][g] = "out" \/ \E k \in Kind : <<g, k>> \in batch'[s]
      <4>1. CASE s = r /\ g = f
        BY <3>1, <3>2, <3>3, <4>1
      <4>2. CASE s # r \/ g # f
        <5>1. g \in sending[s] /\ g \in FD
          BY <3>2, <3>3, <4>2
        <5>2. ASSUME NEW k \in Kind, <<g, k>> \in batch[s]
              PROVE  <<g, k>> \in batch'[s]
          BY <2>2, <4>2, <5>2
        <5> QED
          BY <3>2, <4>2, <5>1, <5>2 DEF Listening
      <4> QED
        BY <4>1, <4>2
    <3> QED
      BY <3>3 DEF Listening
  <2> QED
    BY <1>5, <2>4, <2>5, <2>6, QuietHandler DEF Serial
<1>6. ASSUME NEW r \in Reactor, NEW c \in Conn, RunCallback(r, c) PROVE Listening'
  <2>1. cbfd[c] \in live[r] /\ Destroy(r, cbfd[c]) /\ batch' = batch
    BY <1>6, CallbackCloses DEF RunCallback
  <2> QED
    BY <1>4, <2>1
<1>7. ASSUME NEW r \in Reactor,
             ReadEventfd(r) \/ SwapQueue(r) \/ TickEarly(r) \/ TickAdvance(r)
                \/ \E f \in FD : Refuse(r, f)
      PROVE  Listening'
  BY <1>1, <1>7 DEF ReadEventfd, SwapQueue, TickEarly, TickAdvance, Refuse, Pop, kernel, table
<1>8. CASE MainStep
  BY <1>1, <1>8 DEF MainStep, Accept, Push, Signal, kernel, table
<1>9. CASE ClientStep \/ (\E w \in Worker : WorkerStep(w)) \/ Halted \/ UNCHANGED vars
  BY <1>1, <1>9, QuietOthers
<1> QED
  BY <1>2, <1>3, <1>5, <1>6, <1>7, <1>8, <1>9 DEF Next, ReactorStep

\* http_conn.cpp:114: without the pool, and if no client half-closes, a response
\* that is under way keeps its connection listening (UnsentIsListening).  The
\* event that the loop drops after a half-close (run reactor_halfclose) is thus
\* the only way in which it can be forgotten.
THEOREM OnlyHalfCloseSilences ==
  ASSUME "fin" \notin Endings PROVE Spec => []UnsentIsListening
<1>1. Init => NeverFin /\ Listening
  BY DEF Init, NeverFin, Listening
<1>2. Serial /\ Invariant /\ NeverFin /\ Listening /\ [Next]_vars => (NeverFin /\ Listening)'
  BY NeverFinNext, ListeningNext DEF Invariant
<1>3. (~Serial) /\ [Next]_vars => (~Serial)'
  BY ModeNext DEF Serial
<1>4. Serial /\ [Next]_vars => Serial'
  BY ModeNext DEF Serial
<1>5. (Serial => Listening) => UnsentIsListening
  BY DEF Serial, Listening, UnsentIsListening
<1> QED
  BY <1>1, <1>2, <1>3, <1>4, <1>5, InvariantHolds, PTL DEF Spec
=============================================================================
