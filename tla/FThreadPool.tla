----------------------------- MODULE FThreadPool -----------------------------
(***************************************************************************)
(* util/threadpool.{h,cpp}: the workers, the threads that push tasks (the  *)
(* loops of the sub reactors), and the end of the process, where           *)
(* ~EpollServer joins those threads before the static pool is destroyed.   *)
(*                                                                         *)
(* Every step outside the mutex, and every atomic that is read or written, *)
(* is an action.  Nothing sets paused_.  Tasks are numbered as they are    *)
(* pushed; what they do, and an exception, which ends in their future, is  *)
(* left out.                                                               *)
(***************************************************************************)
EXTENDS Integers, Sequences, FiniteSets

CONSTANTS
    Workers, Callers,
    MaxTasks,       \* bound on the tasks that are pushed
    None            \* no thread, no value

ASSUME PoolAssumption ==
    /\ Workers # {} /\ IsFiniteSet(Workers)
    /\ None \notin Workers /\ None \notin Nat
    /\ MaxTasks \in Nat

VARIABLES
    running_,
    tasks_,             \* the queue
    tasksCnt_, runningThreadCount_,
    mutex_,             \* the worker that holds it across steps, or None
    worker,             \* where each worker is
    task,               \* what it has popped
    caller,             \* where each caller is
    main,               \* how far the end of the process is
    seen,               \* the count and the queue's length as waitTasksFinish read them
    pushed,             \* the tasks are 1 .. pushed
    finished            \* those that have been run

vars == <<running_, tasks_, tasksCnt_, runningThreadCount_, mutex_, worker, task, caller, main,
          seen, pushed, finished>>

Init ==
    /\ running_ = TRUE
    /\ tasks_ = <<>> /\ tasksCnt_ = 0 /\ runningThreadCount_ = 0
    /\ mutex_ = None
    /\ worker = [w \in Workers |-> "loop"]
    /\ task = [w \in Workers |-> None]
    /\ caller = [c \in Callers |-> "idle"]
    /\ main = "serving" /\ seen = <<None, None>>
    /\ pushed = 0 /\ finished = {}

Goto(w, there) == worker' = [worker EXCEPT ![w] = there]

-----------------------------------------------------------------------------
(* worker()                                                                *)

\* while (running_)
Loop(w) ==
    /\ worker[w] = "loop"
    /\ Goto(w, IF running_ THEN "lock" ELSE "done")
    /\ UNCHANGED <<running_, tasks_, tasksCnt_, runningThreadCount_, mutex_, task, caller, main,
                   seen, pushed, finished>>

Lock(w) ==
    /\ worker[w] = "lock" /\ mutex_ = None
    /\ mutex_' = w
    /\ Goto(w, "test")
    /\ UNCHANGED <<running_, tasks_, tasksCnt_, runningThreadCount_, task, caller, main, seen,
                   pushed, finished>>

\* The predicate of wait() is false: the mutex is still held.
TestFails(w) ==
    /\ worker[w] = "test"
    /\ running_ /\ tasks_ = <<>>
    /\ Goto(w, "wait")
    /\ UNCHANGED <<running_, tasks_, tasksCnt_, runningThreadCount_, mutex_, task, caller, main,
                   seen, pushed, finished>>

\* wait() releases the mutex and blocks.
Block(w) ==
    /\ worker[w] = "wait"
    /\ mutex_' = None
    /\ Goto(w, "blocked")
    /\ UNCHANGED <<running_, tasks_, tasksCnt_, runningThreadCount_, task, caller, main, seen,
                   pushed, finished>>

\* Notified or not, wait() takes the mutex again and looks.
SpuriousWake(w) ==
    /\ worker[w] = "blocked"
    /\ Goto(w, "lock")
    /\ UNCHANGED <<running_, tasks_, tasksCnt_, runningThreadCount_, mutex_, task, caller, main,
                   seen, pushed, finished>>

\* The predicate is true, but only because the pool ends.
Return(w) ==
    /\ worker[w] = "test"
    /\ ~running_ /\ tasks_ = <<>>
    /\ mutex_' = None
    /\ Goto(w, "done")
    /\ UNCHANGED <<running_, tasks_, tasksCnt_, runningThreadCount_, task, caller, main, seen,
                   pushed, finished>>

\* Pop that leaves the task in the queue.
PopKeeps(w) ==
    /\ worker[w] = "test"
    /\ tasks_ # <<>>
    /\ task' = [task EXCEPT ![w] = Head(tasks_)]
    /\ mutex_' = None
    /\ Goto(w, "run")
    /\ UNCHANGED <<running_, tasks_, tasksCnt_, runningThreadCount_, caller, main, seen, pushed,
                   finished>>

Pop(w) ==
    /\ worker[w] = "test"
    /\ tasks_ # <<>>
    /\ task' = [task EXCEPT ![w] = Head(tasks_)]
    /\ tasks_' = Tail(tasks_)
    /\ mutex_' = None
    /\ Goto(w, "run")
    /\ UNCHANGED <<running_, tasksCnt_, runningThreadCount_, caller, main, seen, pushed, finished>>

Start(w) ==
    /\ worker[w] = "run"
    /\ runningThreadCount_' = runningThreadCount_ + 1
    /\ Goto(w, "running")
    /\ UNCHANGED <<running_, tasks_, tasksCnt_, mutex_, task, caller, main, seen, pushed, finished>>

End(w) ==
    /\ worker[w] = "running"
    /\ runningThreadCount_' = runningThreadCount_ - 1
    /\ finished' = finished \cup {task[w]}
    /\ task' = [task EXCEPT ![w] = None]
    /\ Goto(w, "ended")
    /\ UNCHANGED <<running_, tasks_, tasksCnt_, mutex_, caller, main, seen, pushed>>

\* Count that decrements the wrong counter.
CountTwice(w) ==
    /\ worker[w] = "ended"
    /\ runningThreadCount_' = runningThreadCount_ - 1
    /\ Goto(w, "loop")
    /\ UNCHANGED <<running_, tasks_, tasksCnt_, mutex_, task, caller, main, seen, pushed, finished>>

Count(w) ==
    /\ worker[w] = "ended"
    /\ tasksCnt_' = tasksCnt_ - 1
    /\ Goto(w, "loop")
    /\ UNCHANGED <<running_, tasks_, runningThreadCount_, mutex_, task, caller, main, seen, pushed,
                   finished>>

Work(w) == Loop(w) \/ Lock(w) \/ TestFails(w) \/ Block(w) \/ Return(w) \/ Pop(w) \/ Start(w)
               \/ End(w) \/ Count(w)

-----------------------------------------------------------------------------
(* pushTask(): the overload that wraps a task reads running_, calls the    *)
(* one that queues it, which notifies, and notifies once more.             *)

\* Push by loops that are not joined before the pool is destroyed.
PushWhileWaiting(c) ==
    /\ caller[c] = "idle"
    /\ running_ /\ pushed < MaxTasks
    /\ mutex_ = None
    /\ pushed' = pushed + 1
    /\ tasks_' = Append(tasks_, pushed')
    /\ tasksCnt_' = tasksCnt_ + 1
    /\ caller' = [caller EXCEPT ![c] = "notify"]
    /\ UNCHANGED <<running_, runningThreadCount_, mutex_, worker, task, main, seen, finished>>

\* The task is queued under the mutex.
Push(c) ==
    /\ main = "serving" /\ caller[c] = "idle"
    /\ running_ /\ pushed < MaxTasks
    /\ mutex_ = None
    /\ pushed' = pushed + 1
    /\ tasks_' = Append(tasks_, pushed')
    /\ tasksCnt_' = tasksCnt_ + 1
    /\ caller' = [caller EXCEPT ![c] = "notify"]
    /\ UNCHANGED <<running_, runningThreadCount_, mutex_, worker, task, main, seen, finished>>

\* notify_one() wakes one of those that are blocked.
NotifyOne ==
    LET blocked == {w \in Workers : worker[w] = "blocked"} IN
    IF blocked = {} THEN UNCHANGED worker ELSE \E w \in blocked : Goto(w, "lock")

\* Notify without the call in the inner overload, nor in the outer one.
NotifyNobody(c) ==
    /\ caller[c] \in {"notify", "notify again"}
    /\ caller' = [caller EXCEPT ![c] = IF @ = "notify" THEN "notify again" ELSE "idle"]
    /\ UNCHANGED <<running_, tasks_, tasksCnt_, runningThreadCount_, mutex_, worker, task, main,
                   seen, pushed, finished>>

Notify(c) ==
    /\ caller[c] \in {"notify", "notify again"}
    /\ NotifyOne
    /\ caller' = [caller EXCEPT ![c] = IF @ = "notify" THEN "notify again" ELSE "idle"]
    /\ UNCHANGED <<running_, tasks_, tasksCnt_, runningThreadCount_, mutex_, task, main, seen,
                   pushed, finished>>

-----------------------------------------------------------------------------
(* The end of the process                                                  *)

\* The loops have been joined.
StopCallers ==
    /\ main = "serving" /\ \A c \in Callers : caller[c] = "idle"
    /\ main' = "waiting"
    /\ UNCHANGED <<running_, tasks_, tasksCnt_, runningThreadCount_, mutex_, worker, task, caller,
                   seen, pushed, finished>>

\* tasksCnt_ - tasksQueuedCnt(), whose operands are read in any order.
ReadCount ==
    /\ main = "waiting" /\ seen[1] = None
    /\ seen' = [seen EXCEPT ![1] = tasksCnt_]
    /\ UNCHANGED <<running_, tasks_, tasksCnt_, runningThreadCount_, mutex_, worker, task, caller,
                   main, pushed, finished>>

ReadQueued ==
    /\ main = "waiting" /\ seen[2] = None /\ mutex_ = None
    /\ seen' = [seen EXCEPT ![2] = Len(tasks_)]
    /\ UNCHANGED <<running_, tasks_, tasksCnt_, runningThreadCount_, mutex_, worker, task, caller,
                   main, pushed, finished>>

WaitTasksFinish ==
    /\ main = "waiting" /\ seen[1] # None /\ seen[2] # None
    /\ main' = IF seen[1] = seen[2] THEN "waited" ELSE "waiting"
    /\ seen' = <<None, None>>
    /\ UNCHANGED <<running_, tasks_, tasksCnt_, runningThreadCount_, mutex_, worker, task, caller,
                   pushed, finished>>

\* Neither of the two steps takes the mutex.
ClearRunning ==
    /\ main = "waited"
    /\ running_' = FALSE
    /\ main' = "notifying"
    /\ UNCHANGED <<tasks_, tasksCnt_, runningThreadCount_, mutex_, worker, task, caller, seen,
                   pushed, finished>>

\* NotifyAll that calls notify_one().
NotifyAllButOne ==
    /\ main = "notifying"
    /\ NotifyOne
    /\ main' = "joining"
    /\ UNCHANGED <<running_, tasks_, tasksCnt_, runningThreadCount_, mutex_, task, caller, seen,
                   pushed, finished>>

NotifyAll ==
    /\ main = "notifying"
    /\ worker' = [w \in Workers |-> IF worker[w] = "blocked" THEN "lock" ELSE worker[w]]
    /\ main' = "joining"
    /\ UNCHANGED <<running_, tasks_, tasksCnt_, runningThreadCount_, mutex_, task, caller, seen,
                   pushed, finished>>

Join ==
    /\ main = "joining" /\ \A w \in Workers : worker[w] = "done"
    /\ main' = "joined"
    /\ UNCHANGED <<running_, tasks_, tasksCnt_, runningThreadCount_, mutex_, worker, task, caller,
                   seen, pushed, finished>>

Shutdown == ReadCount \/ ReadQueued \/ WaitTasksFinish \/ ClearRunning \/ NotifyAll \/ Join

-----------------------------------------------------------------------------
Next ==
    \/ \E w \in Workers : Work(w) \/ SpuriousWake(w)
    \/ \E c \in Callers : Push(c) \/ Notify(c)
    \/ StopCallers
    \/ Shutdown

\* The threads run; nothing has to be pushed, nor to end.
Spec ==
    /\ Init /\ [][Next]_vars
    /\ \A w \in Workers : WF_vars(Work(w))
    /\ \A c \in Callers : WF_vars(Notify(c))
    /\ WF_vars(Shutdown)

-----------------------------------------------------------------------------
(* Properties.                                                             *)

TypeOK ==
    /\ running_ \in BOOLEAN /\ tasks_ \in Seq(Nat)
    /\ tasksCnt_ \in Nat /\ runningThreadCount_ \in Nat
    /\ mutex_ \in Workers \cup {None}
    /\ worker \in [Workers -> {"loop", "lock", "test", "wait", "blocked", "run", "running",
                               "ended", "done"}]
    /\ task \in [Workers -> Nat \cup {None}]
    /\ caller \in [Callers -> {"idle", "notify", "notify again"}]
    /\ main \in {"serving", "waiting", "waited", "notifying", "joining", "joined"}
    /\ seen \in (Nat \cup {None}) \X (Nat \cup {None})
    /\ pushed \in Nat /\ finished \subseteq Nat

\* The tasks that workers have taken and not yet counted as ended.
taken == {w \in Workers : worker[w] \in {"run", "running", "ended"}}

\* threadpool.cpp:33: waitTasksFinish reads the count and the queue one after the
\* other, so that what it compares may never have been true of one moment: it goes
\* on when tasks are left or running, and the difference may wrap around, which only
\* sends it round again.  But no more tasks are left than it has seen, because the
\* loops are joined before: if it goes on having seen no task in the queue, all
\* tasks have ended.
LeftAtMostSeen ==
    /\ seen[1] # None => Len(tasks_) + Cardinality(taken) <= seen[1]
    /\ seen[2] # None => Len(tasks_) <= seen[2]

held == {task[w] : w \in {v \in Workers : worker[v] \in {"run", "running"}}}

\* Tasks leave the queue in the order they were pushed, and each is queued, or
\* with one worker, or finished: none is lost and none is run twice.
TasksConserved ==
    /\ \A i \in DOMAIN tasks_ : tasks_[i] = pushed - Len(tasks_) + i
    /\ held \cup finished = 1 .. pushed - Len(tasks_)
    /\ held \cap finished = {}
    /\ \A v, w \in Workers : v # w /\ task[v] # None => task[v] # task[w]

\* While the pool runs and a task is queued, a worker is awake or about to be
\* woken (threadpool.h:46 adds the notification that was missing).
NoLostNotification ==
    running_ /\ tasks_ # <<>> =>
        \/ \E w \in Workers : worker[w] \notin {"wait", "blocked", "done"}
        \/ \E c \in Callers : caller[c] # "idle"

\* A task that has been pushed is run, unless the process ends.
TasksRun == \A i \in 1 .. MaxTasks : pushed >= i ~> i \in finished \/ main # "serving"

\* The workers return when the pool is destroyed, provided that none of them was
\* between its test and blocking when notify_all() was called.
ShutdownCompletes ==
    main = "notifying" /\ (\A w \in Workers : worker[w] # "wait")
        ~> \A w \in Workers : worker[w] = "done"
=============================================================================
