-------------------------- MODULE FThreadPoolProofs --------------------------
(***************************************************************************)
(* Theorems about FThreadPool, for any number of workers and callers.      *)
(***************************************************************************)
EXTENDS FThreadPool, FiniteSetTheorems, TLAPS

Places == {"loop", "lock", "test", "wait", "blocked", "run", "running", "ended", "done"}
Holding == {"test", "wait"}             \* with the mutex
Executing == {"run", "running"}         \* with a task

\* The mutex is held by the worker that looks at the queue.
LockInv == \A w \in Workers : worker[w] \in Holding <=> mutex_ = w

\* Nothing is pushed between a test that fails and wait()'s release of the mutex.
WaitInv == \A w \in Workers : worker[w] = "wait" => tasks_ = <<>>

DoneInv == \A w \in Workers : worker[w] = "done" => ~running_

TaskInv == \A w \in Workers : task[w] # None <=> worker[w] \in Executing

Busy == taken
Running == {w \in Workers : worker[w] = "running"}

\* The counters are the lengths they stand for, but for the step between the end of
\* a task and its being counted.
CountersAgree ==
    /\ tasksCnt_ = Len(tasks_) + Cardinality(Busy)
    /\ runningThreadCount_ = Cardinality(Running)

\* What waitTasksFinish has seen: nothing that was read is exceeded later.
SeenInv ==
    /\ main # "waiting" => seen = <<None, None>>
    /\ seen[1] # None => tasksCnt_ <= seen[1]
    /\ seen[2] # None => Len(tasks_) <= seen[2]

-----------------------------------------------------------------------------
(* One worker moves                                                          *)

LEMMA Move ==
    ASSUME worker \in [Workers -> Places], NEW w \in Workers, NEW there \in Places, Goto(w, there)
    PROVE  /\ worker' \in [Workers -> Places]
           /\ worker'[w] = there
           /\ \A v \in Workers \ {w} : worker'[v] = worker[v]
  BY DEF Goto

LEMMA SetsAreFinite ==
    /\ IsFiniteSet(Busy) /\ Cardinality(Busy) \in Nat
    /\ IsFiniteSet(Running) /\ Cardinality(Running) \in Nat
  <1>1. Busy \in SUBSET Workers /\ Running \in SUBSET Workers
    BY DEF Busy, taken, Running
  <1> QED
    BY <1>1, PoolAssumption, FS_Subset, FS_CardinalityType

\* What a move does to the sets that are counted.
LEMMA MoveCounts ==
    ASSUME worker \in [Workers -> Places], NEW w \in Workers, NEW there \in Places, Goto(w, there)
    PROVE  /\ Cardinality(Busy') = IF there \in {"run", "running", "ended"}
                                   THEN IF w \in Busy THEN Cardinality(Busy) ELSE Cardinality(Busy) + 1
                                   ELSE IF w \in Busy THEN Cardinality(Busy) - 1 ELSE Cardinality(Busy)
           /\ Cardinality(Running') = IF there = "running"
                                      THEN IF w \in Running THEN Cardinality(Running)
                                           ELSE Cardinality(Running) + 1
                                      ELSE IF w \in Running THEN Cardinality(Running) - 1
                                           ELSE Cardinality(Running)
  <1>1. worker'[w] = there /\ \A v \in Workers \ {w} : worker'[v] = worker[v]
    BY Move
  <1>2. Busy' = IF there \in {"run", "running", "ended"} THEN Busy \cup {w} ELSE Busy \ {w}
    BY <1>1 DEF Busy, taken
  <1>3. Running' = IF there = "running" THEN Running \cup {w} ELSE Running \ {w}
    BY <1>1 DEF Running
  <1>4. /\ Cardinality(Busy \cup {w}) = IF w \in Busy THEN Cardinality(Busy) ELSE Cardinality(Busy) + 1
        /\ Cardinality(Busy \ {w}) = IF w \in Busy THEN Cardinality(Busy) - 1 ELSE Cardinality(Busy)
    BY SetsAreFinite, FS_AddElement, FS_RemoveElement
  <1>5. /\ Cardinality(Running \cup {w}) =
               IF w \in Running THEN Cardinality(Running) ELSE Cardinality(Running) + 1
        /\ Cardinality(Running \ {w}) =
               IF w \in Running THEN Cardinality(Running) - 1 ELSE Cardinality(Running)
    BY SetsAreFinite, FS_AddElement, FS_RemoveElement
  <1> QED
    BY <1>2, <1>3, <1>4, <1>5

\* A notification only moves workers that are blocked.
Woken == /\ worker' \in [Workers -> Places]
         /\ \A w \in Workers : worker'[w] = worker[w] \/ (worker[w] = "blocked" /\ worker'[w] = "lock")

LEMMA NotifyOneWakes == ASSUME worker \in [Workers -> Places], NotifyOne PROVE Woken
  <1> DEFINE blocked == {w \in Workers : worker[w] = "blocked"}
  <1>1. CASE blocked = {}
    BY <1>1 DEF NotifyOne, Woken
  <1>2. CASE blocked # {}
    <2>1. PICK w \in blocked : Goto(w, "lock")
      BY <1>2 DEF NotifyOne
    <2> QED
      BY <2>1, Move DEF Woken, Places
  <1> QED
    BY <1>1, <1>2

LEMMA NotifyAllWakes == ASSUME worker \in [Workers -> Places], NotifyAll PROVE Woken
  BY DEF NotifyAll, Woken, Places

LEMMA WokenCounts == ASSUME Woken PROVE Busy' = Busy /\ Running' = Running
  BY DEF Woken, Busy, taken, Running

-----------------------------------------------------------------------------
(* The kinds of steps: a worker that moves without a task, one that takes,   *)
(* starts, ends or counts one, and the steps of other threads.               *)

Idle(w) == Loop(w) \/ Lock(w) \/ TestFails(w) \/ Block(w) \/ SpuriousWake(w) \/ Return(w)

Wake == (\E c \in Callers : Notify(c)) \/ NotifyAll

MainOnly == StopCallers \/ ReadCount \/ ReadQueued \/ WaitTasksFinish \/ Join

LEMMA Kinds ==
    ASSUME [Next]_vars
    PROVE  \/ \E w \in Workers : Idle(w) \/ Pop(w) \/ Start(w) \/ End(w) \/ Count(w)
           \/ \E c \in Callers : Push(c)
           \/ Wake \/ MainOnly \/ ClearRunning \/ UNCHANGED vars
  BY DEF Next, Work, Shutdown, Idle, Wake, MainOnly

LEMMA IdleMoves ==
    ASSUME NEW w \in Workers, Idle(w), worker \in [Workers -> Places]
    PROVE  /\ UNCHANGED <<running_, tasks_, tasksCnt_, runningThreadCount_, task, caller, pushed, finished>>
           /\ w \notin Busy /\ w \notin Running
           /\ \E there \in {"loop", "lock", "test", "wait", "blocked", "done"} : Goto(w, there)
  BY DEF Idle, Loop, Lock, TestFails, Block, SpuriousWake, Return, Busy, taken, Running

LEMMA WakeMoves ==
    ASSUME Wake, worker \in [Workers -> Places]
    PROVE  /\ UNCHANGED <<running_, tasks_, tasksCnt_, runningThreadCount_, mutex_, task, pushed, finished>>
           /\ Woken
  BY NotifyOneWakes, NotifyAllWakes DEF Wake, Notify, NotifyAll

-----------------------------------------------------------------------------
(* The counters                                                              *)

LEMMA NextCounts ==
    ASSUME TypeOK, CountersAgree, [Next]_vars
    PROVE  CountersAgree' /\ tasksCnt_' \in Nat /\ runningThreadCount_' \in Nat /\ tasks_' \in Seq(Nat)
  <1>1. /\ tasks_ \in Seq(Nat) /\ tasksCnt_ \in Nat /\ runningThreadCount_ \in Nat /\ pushed \in Nat
        /\ worker \in [Workers -> Places]
    BY DEF TypeOK, Places
  <1>2. Len(tasks_) \in Nat /\ Cardinality(Busy) \in Nat /\ Cardinality(Running) \in Nat
    BY <1>1, SetsAreFinite
  <1>3. tasksCnt_ = Len(tasks_) + Cardinality(Busy) /\ runningThreadCount_ = Cardinality(Running)
    BY DEF CountersAgree
  <1> SUFFICES /\ tasksCnt_' = Len(tasks_') + Cardinality(Busy')
               /\ runningThreadCount_' = Cardinality(Running')
               /\ tasksCnt_' \in Nat /\ runningThreadCount_' \in Nat /\ tasks_' \in Seq(Nat)
    BY DEF CountersAgree
  <1> DEFINE Goal == /\ tasksCnt_' = Len(tasks_') + Cardinality(Busy')
                     /\ runningThreadCount_' = Cardinality(Running')
                     /\ tasksCnt_' \in Nat /\ runningThreadCount_' \in Nat /\ tasks_' \in Seq(Nat)
  <1>4. ASSUME NEW w \in Workers, Idle(w) PROVE Goal
    <2>1. PICK there \in {"loop", "lock", "test", "wait", "blocked", "done"} : Goto(w, there)
      BY <1>1, <1>4, IdleMoves
    <2>2. there \in Places /\ there \notin {"run", "running", "ended"}
      BY DEF Places
    <2>3. Cardinality(Busy') = Cardinality(Busy) /\ Cardinality(Running') = Cardinality(Running)
      BY <1>1, <1>4, <2>1, <2>2, IdleMoves, MoveCounts
    <2> QED
      BY <1>1, <1>2, <1>3, <1>4, <2>3, IdleMoves
  <1>5. ASSUME NEW w \in Workers, Pop(w) PROVE Goal
    <2>1. /\ Goto(w, "run") /\ tasks_ # <<>> /\ tasks_' = Tail(tasks_)
          /\ UNCHANGED <<tasksCnt_, runningThreadCount_>> /\ worker[w] = "test"
      BY <1>5 DEF Pop
    <2>2. Cardinality(Busy') = Cardinality(Busy) + 1 /\ Cardinality(Running') = Cardinality(Running)
      BY <1>1, <2>1, MoveCounts DEF Busy, taken, Running, Places
    <2>3. tasks_' \in Seq(Nat) /\ Len(tasks_') = Len(tasks_) - 1
      BY <1>1, <2>1
    <2> QED
      BY <1>1, <1>2, <1>3, <2>1, <2>2, <2>3
  <1>6. ASSUME NEW w \in Workers, Start(w) PROVE Goal
    <2>1. /\ Goto(w, "running") /\ runningThreadCount_' = runningThreadCount_ + 1
          /\ UNCHANGED <<tasksCnt_, tasks_>> /\ worker[w] = "run"
      BY <1>6 DEF Start
    <2>2. Cardinality(Busy') = Cardinality(Busy) /\ Cardinality(Running') = Cardinality(Running) + 1
      BY <1>1, <2>1, MoveCounts DEF Busy, taken, Running, Places
    <2> QED
      BY <1>1, <1>2, <1>3, <2>1, <2>2
  <1>7. ASSUME NEW w \in Workers, End(w) PROVE Goal
    <2>1. /\ Goto(w, "ended") /\ runningThreadCount_' = runningThreadCount_ - 1
          /\ UNCHANGED <<tasksCnt_, tasks_>> /\ worker[w] = "running"
      BY <1>7 DEF End
    <2>2. Cardinality(Busy') = Cardinality(Busy) /\ Cardinality(Running') = Cardinality(Running) - 1
      BY <1>1, <2>1, MoveCounts DEF Busy, taken, Running, Places
    <2>3. Cardinality(Running') \in Nat
      <3>1. Running' \in SUBSET Workers
        BY DEF Running
      <3> QED
        BY <3>1, PoolAssumption, FS_Subset, FS_CardinalityType
    <2> QED
      BY <1>1, <1>2, <1>3, <2>1, <2>2, <2>3
  <1>8. ASSUME NEW w \in Workers, Count(w) PROVE Goal
    <2>1. /\ Goto(w, "loop") /\ tasksCnt_' = tasksCnt_ - 1
          /\ UNCHANGED <<runningThreadCount_, tasks_>> /\ worker[w] = "ended"
      BY <1>8 DEF Count
    <2>2. Cardinality(Busy') = Cardinality(Busy) - 1 /\ Cardinality(Running') = Cardinality(Running)
      BY <1>1, <2>1, MoveCounts DEF Busy, taken, Running, Places
    <2>3. Cardinality(Busy') \in Nat
      <3>1. Busy' \in SUBSET Workers
        BY DEF Busy, taken
      <3> QED
        BY <3>1, PoolAssumption, FS_Subset, FS_CardinalityType
    <2> QED
      BY <1>1, <1>2, <1>3, <2>1, <2>2, <2>3
  <1>9. ASSUME NEW c \in Callers, Push(c) PROVE Goal
    <2>1. /\ tasks_' = Append(tasks_, pushed + 1) /\ tasksCnt_' = tasksCnt_ + 1
          /\ UNCHANGED <<runningThreadCount_, worker>>
      BY <1>9 DEF Push
    <2>2. Busy' = Busy /\ Running' = Running
      BY <2>1 DEF Busy, taken, Running
    <2>3. tasks_' \in Seq(Nat) /\ Len(tasks_') = Len(tasks_) + 1
      BY <1>1, <2>1
    <2> QED
      BY <1>1, <1>2, <1>3, <2>1, <2>2, <2>3
  <1>10. CASE Wake
    <2>1. UNCHANGED <<tasks_, tasksCnt_, runningThreadCount_>> /\ Busy' = Busy /\ Running' = Running
      BY <1>1, <1>10, WakeMoves, WokenCounts
    <2> QED
      BY <1>1, <1>3, <2>1
  <1>11. CASE MainOnly \/ ClearRunning \/ UNCHANGED vars
    <2>1. UNCHANGED <<tasks_, tasksCnt_, runningThreadCount_, worker>>
      BY <1>11 DEF MainOnly, StopCallers, ReadCount, ReadQueued, WaitTasksFinish, Join, ClearRunning, vars
    <2>2. Busy' = Busy /\ Running' = Running
      BY <2>1 DEF Busy, taken, Running
    <2> QED
      BY <1>1, <1>3, <2>1, <2>2
  <1> QED
    BY <1>4, <1>5, <1>6, <1>7, <1>8, <1>9, <1>10, <1>11, Kinds

-----------------------------------------------------------------------------
(* What the end of the process has seen                                      *)

\* While the pool waits nothing is pushed.
LEMMA NextSeen ==
    ASSUME TypeOK, SeenInv, [Next]_vars
    PROVE  SeenInv'
  <1>1. /\ tasks_ \in Seq(Nat) /\ Len(tasks_) \in Nat /\ tasksCnt_ \in Nat
        /\ seen \in (Nat \cup {None}) \X (Nat \cup {None}) /\ None \notin Nat
    <2>1. /\ tasks_ \in Seq(Nat) /\ tasksCnt_ \in Nat
          /\ seen \in (Nat \cup {None}) \X (Nat \cup {None})
      BY Zenon DEF TypeOK
    <2> QED
      BY <2>1, PoolAssumption
  <1>2. seen = <<seen[1], seen[2]>> /\ seen[1] \in Nat \cup {None} /\ seen[2] \in Nat \cup {None}
    BY <1>1
  <1> USE DEF SeenInv
  <1>3. CASE /\ UNCHANGED <<main, seen>>
             /\ tasksCnt_' = tasksCnt_ \/ tasksCnt_' = tasksCnt_ - 1
             /\ tasks_' = tasks_ \/ (tasks_ # <<>> /\ tasks_' = Tail(tasks_))
    <2>1. Len(tasks_') <= Len(tasks_) /\ Len(tasks_') \in Nat
      BY <1>1, <1>3
    <2>2. tasksCnt_' <= tasksCnt_ /\ tasksCnt_' \in Int
      BY <1>1, <1>3
    <2> QED
      BY <1>1, <1>2, <1>3, <2>1, <2>2
  <1>4. ASSUME NEW w \in Workers, Idle(w) \/ Pop(w) \/ Start(w) \/ End(w) \/ Count(w)
        PROVE  <1>3!1
    BY <1>4 DEF Idle, Loop, Lock, TestFails, Block, SpuriousWake, Return, Pop, Start, End, Count
  <1>5. ASSUME NEW c \in Callers, Push(c)
        PROVE  SeenInv'
    <2>1. main = "serving" /\ UNCHANGED <<main, seen>>
      BY <1>5 DEF Push
    <2> QED
      BY <2>1
  <1>6. CASE Wake \/ ClearRunning \/ Join \/ UNCHANGED vars
    BY <1>6 DEF Wake, Notify, NotifyAll, ClearRunning, Join, vars
  <1>7. CASE StopCallers \/ WaitTasksFinish
    BY <1>7 DEF StopCallers, WaitTasksFinish
  <1>8. CASE ReadCount
    <2>1. seen' = <<tasksCnt_, seen[2]>> /\ UNCHANGED <<main, tasks_, tasksCnt_>> /\ main = "waiting"
      BY <1>2, <1>8 DEF ReadCount
    <2> QED
      BY <1>1, <2>1
  <1>9. CASE ReadQueued
    <2>1. seen' = <<seen[1], Len(tasks_)>> /\ UNCHANGED <<main, tasks_, tasksCnt_>> /\ main = "waiting"
      BY <1>2, <1>9 DEF ReadQueued
    <2> QED
      BY <1>1, <2>1
  <1> QED
    BY <1>3, <1>4, <1>5, <1>6, <1>7, <1>8, <1>9, Kinds DEF MainOnly

-----------------------------------------------------------------------------
(* Types, and where the threads are                                          *)

LEMMA NextTyped ==
    ASSUME TypeOK, CountersAgree, TaskInv, [Next]_vars
    PROVE  TypeOK'
  <1>1. tasksCnt_' \in Nat /\ runningThreadCount_' \in Nat /\ tasks_' \in Seq(Nat)
    BY NextCounts
  <1>2. worker \in [Workers -> Places] /\ task \in [Workers -> Nat \cup {None}]
        /\ pushed \in Nat /\ finished \subseteq Nat /\ tasks_ \in Seq(Nat)
    BY DEF TypeOK, Places
  <1>7. /\ seen \in (Nat \cup {None}) \X (Nat \cup {None}) /\ tasksCnt_ \in Nat
        /\ running_ \in BOOLEAN /\ mutex_ \in Workers \cup {None}
        /\ main \in {"serving", "waiting", "waited", "notifying", "joining", "joined"}
    BY Zenon DEF TypeOK
  <1>3. worker' \in [Workers -> Places]
    <2>1. ASSUME NEW w \in Workers, Idle(w) \/ Pop(w) \/ Start(w) \/ End(w) \/ Count(w)
          PROVE  worker' \in [Workers -> Places]
      <3>1. \E there \in Places : Goto(w, there)
        <4>1. CASE Idle(w)
          BY <1>2, <4>1, IdleMoves DEF Places
        <4>2. CASE Pop(w) \/ Start(w) \/ End(w) \/ Count(w)
          BY <4>2 DEF Pop, Start, End, Count, Places
        <4> QED
          BY <2>1, <4>1, <4>2
      <3> QED
        BY <1>2, <3>1, Move
    <2>2. CASE Wake
      BY <1>2, <2>2, WakeMoves DEF Woken
    <2>3. CASE (\E c \in Callers : Push(c)) \/ MainOnly \/ ClearRunning \/ UNCHANGED vars
      BY <1>2, <2>3 DEF Push, MainOnly, StopCallers, ReadCount, ReadQueued, WaitTasksFinish, Join,
                        ClearRunning, vars
    <2> QED
      BY <2>1, <2>2, <2>3, Kinds
  <1>4. task' \in [Workers -> Nat \cup {None}] /\ finished' \subseteq Nat
    <2>1. ASSUME NEW w \in Workers, Pop(w)
          PROVE  task' \in [Workers -> Nat \cup {None}] /\ finished' \subseteq Nat
      <3>1. Head(tasks_) \in Nat
        BY <1>2, <2>1 DEF Pop
      <3> QED
        BY <1>2, <2>1, <3>1 DEF Pop
    <2>2. ASSUME NEW w \in Workers, End(w)
          PROVE  task' \in [Workers -> Nat \cup {None}] /\ finished' \subseteq Nat
      <3>1. task[w] \in Nat
        BY <1>2, <2>2 DEF End, TaskInv, Executing
      <3> QED
        BY <1>2, <2>2, <3>1 DEF End
    <2>3. CASE ~\E w \in Workers : Pop(w) \/ End(w)
      <3>1. UNCHANGED <<task, finished>>
        BY <1>2, <2>3, Kinds, IdleMoves, WakeMoves
           DEF Start, Count, Push, MainOnly, StopCallers, ReadCount, ReadQueued, WaitTasksFinish, Join,
               ClearRunning, vars
      <3> QED
        BY <1>2, <3>1
    <2> QED
      BY <2>1, <2>2, <2>3
  <1>5. /\ running_' \in BOOLEAN /\ mutex_' \in Workers \cup {None} /\ pushed' \in Nat
        /\ caller' \in [Callers -> {"idle", "notify", "notify again"}]
        /\ main' \in {"serving", "waiting", "waited", "notifying", "joining", "joined"}
    <2> DEFINE Goal == /\ running_' \in BOOLEAN /\ mutex_' \in Workers \cup {None} /\ pushed' \in Nat
                       /\ caller' \in [Callers -> {"idle", "notify", "notify again"}]
                       /\ main' \in {"serving", "waiting", "waited", "notifying", "joining", "joined"}
    <2>1. ASSUME NEW w \in Workers, Work(w) \/ SpuriousWake(w) PROVE Goal
      <3>1. UNCHANGED <<running_, pushed, caller, main>>
        BY <2>1 DEF Work, Loop, Lock, TestFails, Block, SpuriousWake, Return, Pop, Start, End, Count
      <3>2. mutex_' \in {w, None, mutex_}
        BY <2>1 DEF Work, Loop, Lock, TestFails, Block, SpuriousWake, Return, Pop, Start, End, Count
      <3> QED
        BY <3>1, <3>2 DEF TypeOK
    <2>2. ASSUME NEW c \in Callers, Push(c) \/ Notify(c) PROVE Goal
      <3>1. caller' \in [Callers -> {"idle", "notify", "notify again"}]
        <4>1. \/ caller' = [caller EXCEPT ![c] = "notify"]
              \/ caller' = [caller EXCEPT ![c] = "notify again"]
              \/ caller' = [caller EXCEPT ![c] = "idle"]
          BY <2>2 DEF Push, Notify
        <4>2. caller \in [Callers -> {"idle", "notify", "notify again"}]
          BY DEF TypeOK
        <4> QED
          BY <4>1, <4>2
      <3>2. UNCHANGED <<running_, mutex_, main>> /\ pushed' \in {pushed, pushed + 1}
        BY <2>2 DEF Push, Notify
      <3>3. pushed' \in Nat
        BY <1>2, <3>2
      <3> QED
        BY <1>7, <3>1, <3>2, <3>3, Zenon
    <2>3. CASE StopCallers \/ Shutdown \/ UNCHANGED vars
      BY <2>3 DEF TypeOK, StopCallers, Shutdown, ReadCount, ReadQueued, WaitTasksFinish, ClearRunning,
                  NotifyAll, Join, vars
    <2> QED
      BY <2>1, <2>2, <2>3 DEF Next
  <1>6. seen' \in (Nat \cup {None}) \X (Nat \cup {None})
    <2>1. CASE ReadCount \/ ReadQueued
      <3>1. Len(tasks_) \in Nat /\ tasksCnt_ \in Nat
        BY <1>2, <1>7
      <3>2. seen = <<seen[1], seen[2]>> /\ seen[1] \in Nat \cup {None} /\ seen[2] \in Nat \cup {None}
        BY <1>7
      <3>3. seen' = <<tasksCnt_, seen[2]>> \/ seen' = <<seen[1], Len(tasks_)>>
        BY <2>1, <3>2 DEF ReadCount, ReadQueued
      <3> QED
        BY <3>1, <3>2, <3>3
    <2>2. CASE WaitTasksFinish
      BY <2>2 DEF WaitTasksFinish
    <2>3. CASE ~(ReadCount \/ ReadQueued \/ WaitTasksFinish)
      <3>1. UNCHANGED seen
        BY <2>3 DEF Next, Work, Loop, Lock, TestFails, Block, SpuriousWake, Return, Pop, Start, End, Count,
                    Push, Notify, StopCallers, Shutdown, ClearRunning, NotifyAll, Join, vars
      <3> QED
        BY <3>1 DEF TypeOK
    <2> QED
      BY <2>1, <2>2, <2>3
  <1> QED
    BY <1>1, <1>3, <1>4, <1>5, <1>6 DEF TypeOK, Places

Control == LockInv /\ WaitInv /\ DoneInv /\ TaskInv

LEMMA NextControl ==
    ASSUME TypeOK, Control, [Next]_vars
    PROVE  Control'
  <1>1. /\ worker \in [Workers -> Places] /\ task \in [Workers -> Nat \cup {None}]
        /\ mutex_ \in Workers \cup {None} /\ tasks_ \in Seq(Nat) /\ None \notin Workers
        /\ None \notin Nat /\ pushed \in Nat /\ running_ \in BOOLEAN
    BY PoolAssumption DEF TypeOK, Places
  <1> USE DEF Control
  <1>2. ASSUME NEW w \in Workers, Idle(w) PROVE Control'
    <2>1. PICK there \in {"loop", "lock", "test", "wait", "blocked", "done"} : Goto(w, there)
      BY <1>1, <1>2, IdleMoves
    <2>2. worker'[w] = there /\ \A v \in Workers \ {w} : worker'[v] = worker[v]
      BY <1>1, <2>1, Move DEF Places
    <2>3. UNCHANGED <<running_, tasks_, task>> /\ worker[w] \notin Executing
      BY <1>1, <1>2, IdleMoves DEF Busy, taken, Executing
    <2>4. TaskInv'
      BY <2>1, <2>2, <2>3 DEF TaskInv, Executing
    <2>5. LockInv'
      BY <1>1, <1>2, <2>2 DEF LockInv, Holding, Idle, Loop, Lock, TestFails, Block, SpuriousWake, Return, Goto
    <2>6. WaitInv' /\ DoneInv'
      BY <1>1, <1>2, <2>2, <2>3
         DEF WaitInv, DoneInv, Idle, Loop, Lock, TestFails, Block, SpuriousWake, Return, Goto
    <2> QED
      BY <2>4, <2>5, <2>6
  <1>3. ASSUME NEW w \in Workers, Pop(w) PROVE Control'
    <2>1. /\ Goto(w, "run") /\ tasks_' = Tail(tasks_) /\ worker[w] = "test" /\ mutex_' = None
          /\ task' = [task EXCEPT ![w] = Head(tasks_)] /\ UNCHANGED running_ /\ tasks_ # <<>>
      BY <1>3 DEF Pop
    <2>2. worker'[w] = "run" /\ \A v \in Workers \ {w} : worker'[v] = worker[v]
      BY <1>1, <2>1, Move DEF Places
    <2>3. Head(tasks_) \in Nat
      BY <1>1, <2>1
    <2>4. \A v \in Workers \ {w} : worker[v] \notin Holding
      BY <1>1, <2>1 DEF LockInv, Holding
    <2>5. LockInv' /\ WaitInv' /\ DoneInv'
      BY <1>1, <2>1, <2>2, <2>4 DEF LockInv, WaitInv, DoneInv, Holding
    <2>6. TaskInv'
      BY <1>1, <2>1, <2>2, <2>3 DEF TaskInv, Executing
    <2> QED
      BY <2>5, <2>6
  <1>4. ASSUME NEW w \in Workers, Start(w) \/ End(w) \/ Count(w) PROVE Control'
    <2>1. /\ UNCHANGED <<running_, tasks_, mutex_>>
          /\ worker'[w] \in {"running", "ended", "loop"} /\ worker[w] \in {"run", "running", "ended"}
          /\ \A v \in Workers \ {w} : worker'[v] = worker[v]
      BY <1>1, <1>4, Move DEF Start, End, Count, Places
    <2>2. LockInv' /\ WaitInv' /\ DoneInv'
      BY <1>1, <2>1 DEF LockInv, WaitInv, DoneInv, Holding
    <2>3. TaskInv'
      BY <1>1, <1>4 DEF Start, End, Count, TaskInv, Executing, Goto
    <2> QED
      BY <2>2, <2>3
  <1>5. ASSUME NEW c \in Callers, Push(c) PROVE Control'
    <2>1. UNCHANGED <<running_, worker, mutex_, task>> /\ mutex_ = None
      BY <1>5 DEF Push
    <2>2. \A w \in Workers : worker[w] # "wait"
      BY <1>1, <2>1 DEF LockInv, Holding
    <2> QED
      BY <2>1, <2>2 DEF LockInv, WaitInv, DoneInv, TaskInv
  <1>6. CASE Wake
    BY <1>1, <1>6, WakeMoves DEF Woken, LockInv, WaitInv, DoneInv, TaskInv, Holding, Executing
  <1>7. CASE MainOnly \/ ClearRunning \/ UNCHANGED vars
    <2>1. UNCHANGED <<tasks_, worker, mutex_, task>> /\ (running_' => running_)
      BY <1>1, <1>7 DEF MainOnly, StopCallers, ReadCount, ReadQueued, WaitTasksFinish, Join, ClearRunning, vars
    <2> QED
      BY <2>1 DEF LockInv, WaitInv, DoneInv, TaskInv
  <1> QED
    BY <1>2, <1>3, <1>4, <1>5, <1>6, <1>7, Kinds

-----------------------------------------------------------------------------
(* Notifications                                                             *)

\* A step that changes no other thread leaves a worker that is awake awake; the
\* one that moves either stays awake or blocks with the queue empty; a caller
\* that is done leaves nobody blocked, or has woken one.
LEMMA NextNotified ==
    ASSUME TypeOK, Control, Control', NoLostNotification, [Next]_vars
    PROVE  NoLostNotification'
  <1>1. /\ worker \in [Workers -> Places] /\ caller \in [Callers -> {"idle", "notify", "notify again"}]
        /\ Workers # {} /\ tasks_ \in Seq(Nat) /\ running_ \in BOOLEAN
    BY PoolAssumption DEF TypeOK, Places
  <1> DEFINE Awake(w) == worker[w] \notin {"wait", "blocked", "done"}
             Pending == \E c \in Callers : caller[c] # "idle"
  <1> SUFFICES ASSUME running_', tasks_' # <<>>
               PROVE  \/ \E w \in Workers : Awake(w)'
                      \/ Pending'
    BY DEF NoLostNotification
  <1>2. ASSUME NEW w \in Workers, Idle(w)
        PROVE  \/ \E v \in Workers : Awake(v)'
               \/ Pending'
    <2>1. UNCHANGED <<running_, tasks_, caller>>
      BY <1>1, <1>2, IdleMoves
    <2>2. CASE Pending
      BY <2>1, <2>2
    <2>3. CASE ~Pending
      <3>1. PICK v \in Workers : Awake(v)
        BY <2>1, <2>3 DEF NoLostNotification
      <3>2. CASE v # w
        <4>1. worker'[v] = worker[v]
          <5>1. PICK there \in Places : Goto(w, there)
            BY <1>1, <1>2, IdleMoves DEF Places
          <5> QED
            BY <1>1, <3>2, <5>1, Move
        <4> QED
          BY <3>1, <4>1
      <3>3. CASE v = w
        <4>1. worker[w] \notin {"wait", "blocked", "done"}
          BY <3>1, <3>3
        <4>2. worker'[w] \in {"lock", "test"}
          BY <1>1, <1>2, <2>1, <4>1 DEF Idle, Loop, Lock, TestFails, Block, SpuriousWake, Return, Goto
        <4> QED
          BY <4>2
      <3> QED
        BY <3>2, <3>3
    <2> QED
      BY <2>2, <2>3
  <1>3. ASSUME NEW w \in Workers, Pop(w) \/ Start(w) \/ End(w) \/ Count(w)
        PROVE  \E v \in Workers : Awake(v)'
    <2>1. worker'[w] \in {"run", "running", "ended", "loop"}
      BY <1>1, <1>3 DEF Pop, Start, End, Count, Goto
    <2> QED
      BY <2>1
  <1>4. ASSUME NEW c \in Callers, Push(c) PROVE Pending'
    <2>1. caller'[c] = "notify"
      BY <1>1, <1>4 DEF Push
    <2> QED
      BY <2>1
  <1>5. CASE Wake
    <2>1. UNCHANGED <<running_, tasks_>> /\ Woken
      BY <1>1, <1>5, WakeMoves
    <2>2. CASE \E w \in Workers : worker[w] = "blocked" /\ worker'[w] = "lock"
      BY <2>2
    <2>3. CASE ~\E w \in Workers : worker[w] = "blocked" /\ worker'[w] = "lock"
      <3>1. \A w \in Workers : worker'[w] = worker[w]
        BY <2>1, <2>3 DEF Woken
      <3>2. \A w \in Workers : worker[w] # "blocked"
        BY <1>1, <1>5, <2>3, <3>1 DEF Wake, Notify, NotifyOne, NotifyAll, Goto
      <3>3. \A w \in Workers : worker[w] \notin {"wait", "done"}
        BY <2>1 DEF Control, WaitInv, DoneInv
      <3>4. PICK w \in Workers : TRUE
        BY <1>1
      <3>5. worker'[w] \notin {"wait", "blocked", "done"}
        BY <3>1, <3>2, <3>3
      <3> QED
        BY <3>5
    <2> QED
      BY <2>2, <2>3
  <1>6. CASE MainOnly \/ ClearRunning \/ UNCHANGED vars
    <2>1. UNCHANGED <<tasks_, worker, caller>> /\ running_
      BY <1>1, <1>6 DEF MainOnly, StopCallers, ReadCount, ReadQueued, WaitTasksFinish, Join, ClearRunning, vars
    <2> QED
      BY <2>1 DEF NoLostNotification
  <1> QED
    BY <1>2, <1>3, <1>4, <1>5, <1>6, Kinds

-----------------------------------------------------------------------------
(* Tasks                                                                     *)

\* What the workers hold is what task says.
Tasks == {task[w] : w \in {v \in Workers : task[v] # None}}

LEMMA NextConserves ==
    ASSUME TypeOK, Control, Control', TasksConserved, Len(tasks_) <= pushed, [Next]_vars
    PROVE  TasksConserved' /\ Len(tasks_') <= pushed'
  <1>1. /\ task \in [Workers -> Nat \cup {None}] /\ tasks_ \in Seq(Nat) /\ pushed \in Nat
        /\ None \notin Nat /\ worker \in [Workers -> Places]
    BY PoolAssumption DEF TypeOK, Places
  <1>2. Len(tasks_) \in Nat /\ DOMAIN tasks_ = 1 .. Len(tasks_)
    BY <1>1
  <1>3. held = Tasks /\ held' = Tasks'
    BY DEF Control, TaskInv, held, Tasks, Executing
  <1>4. /\ \A i \in 1 .. Len(tasks_) : tasks_[i] = pushed - Len(tasks_) + i
        /\ Tasks \cup finished = 1 .. pushed - Len(tasks_) /\ Tasks \cap finished = {}
        /\ \A v, w \in Workers : v # w /\ task[v] # None => task[v] # task[w]
    BY <1>2, <1>3 DEF TasksConserved
  <1> DEFINE Goal == /\ \A i \in DOMAIN tasks_' : tasks_'[i] = pushed' - Len(tasks_') + i
                     /\ Tasks' \cup finished' = 1 .. pushed' - Len(tasks_') /\ Tasks' \cap finished' = {}
                     /\ \A v, w \in Workers : v # w /\ task'[v] # None => task'[v] # task'[w]
                     /\ Len(tasks_') <= pushed'
  <1> SUFFICES Goal
    BY <1>3 DEF TasksConserved
  <1>5. ASSUME NEW w \in Workers, Pop(w) PROVE Goal
    <2> DEFINE next == pushed - Len(tasks_) + 1
    <2>1. /\ task' = [task EXCEPT ![w] = Head(tasks_)] /\ tasks_' = Tail(tasks_) /\ tasks_ # <<>>
          /\ UNCHANGED <<pushed, finished>> /\ worker[w] = "test"
      BY <1>5 DEF Pop
    <2>2. /\ Len(tasks_) > 0 /\ Head(tasks_) = next /\ next \in Nat
          /\ Len(tasks_') = Len(tasks_) - 1 /\ DOMAIN tasks_' = 1 .. Len(tasks_) - 1
          /\ \A i \in 1 .. Len(tasks_) - 1 : tasks_'[i] = tasks_[i + 1]
      BY <1>1, <1>2, <1>4, <2>1
    <2>3. task[w] = None
      BY <2>1 DEF Control, TaskInv, Executing
    <2> HIDE DEF next
    <2>4. task'[w] = next /\ \A v \in Workers \ {w} : task'[v] = task[v]
      BY <1>1, <2>1, <2>2
    <2>5. next # None
      BY <1>1, <2>2
    <2>6. Tasks' = Tasks \cup {next}
      BY <2>3, <2>4, <2>5 DEF Tasks
    <2>7. \A t \in Tasks \cup finished : t # next
      BY <1>1, <1>2, <1>4, <2>2 DEF next
    <2>8. 1 .. pushed' - Len(tasks_') = (1 .. pushed - Len(tasks_)) \cup {next}
      BY <1>1, <1>2, <2>1, <2>2 DEF next
    <2>9. \A i \in 1 .. Len(tasks_) - 1 : tasks_'[i] = pushed - (Len(tasks_) - 1) + i
      BY <1>1, <1>2, <1>4, <2>2
    <2>10. \A v \in Workers \ {w} : task[v] # next
      BY <2>5, <2>7 DEF Tasks
    <2>11. \A u, v \in Workers : u # v /\ task'[u] # None => task'[u] # task'[v]
      BY <1>4, <2>4, <2>10
    <2>12. Tasks' \cup finished' = 1 .. pushed' - Len(tasks_') /\ Tasks' \cap finished' = {}
      BY <1>4, <2>1, <2>6, <2>7, <2>8
    <2>13. \A i \in DOMAIN tasks_' : tasks_'[i] = pushed' - Len(tasks_') + i
      BY <2>1, <2>2, <2>9
    <2>14. Len(tasks_') <= pushed'
      BY <1>1, <1>2, <2>1, <2>2
    <2> QED
      BY <2>11, <2>12, <2>13, <2>14
  <1>6. ASSUME NEW w \in Workers, End(w) PROVE Goal
    <2>1. /\ task' = [task EXCEPT ![w] = None] /\ finished' = finished \cup {task[w]}
          /\ UNCHANGED <<pushed, tasks_>> /\ worker[w] = "running"
      BY <1>6 DEF End
    <2>2. task[w] # None
      BY <2>1 DEF Control, TaskInv, Executing
    <2>3. task'[w] = None /\ \A v \in Workers \ {w} : task'[v] = task[v]
      BY <1>1, <2>1
    <2>4. task[w] \in Tasks
      BY <2>2 DEF Tasks
    <2>5. Tasks' = Tasks \ {task[w]}
      BY <1>4, <2>2, <2>3 DEF Tasks
    <2>6. Tasks' \cup finished' = Tasks \cup finished /\ Tasks' \cap finished' = {}
      BY <1>4, <2>1, <2>4, <2>5
    <2>7. \A u, v \in Workers : u # v /\ task'[u] # None => task'[u] # task'[v]
      BY <1>4, <2>3
    <2> QED
      BY <1>2, <1>4, <2>1, <2>6, <2>7
  <1>7. ASSUME NEW c \in Callers, Push(c) PROVE Goal
    <2>1. /\ pushed' = pushed + 1 /\ tasks_' = Append(tasks_, pushed + 1)
          /\ UNCHANGED <<task, finished>>
      BY <1>7 DEF Push
    <2>2. /\ Len(tasks_') = Len(tasks_) + 1 /\ DOMAIN tasks_' = 1 .. Len(tasks_) + 1
          /\ \A i \in 1 .. Len(tasks_) : tasks_'[i] = tasks_[i]
          /\ tasks_'[Len(tasks_) + 1] = pushed + 1
      BY <1>1, <2>1
    <2>3. pushed' - Len(tasks_') = pushed - Len(tasks_)
      BY <1>1, <1>2, <2>1, <2>2
    <2>4. \A i \in DOMAIN tasks_' : tasks_'[i] = pushed' - Len(tasks_') + i
      <3> SUFFICES ASSUME NEW i \in 1 .. Len(tasks_) + 1
                   PROVE  tasks_'[i] = pushed - Len(tasks_) + i
        BY <2>2, <2>3
      <3>1. CASE i = Len(tasks_) + 1
        BY <1>1, <1>2, <2>2, <3>1
      <3>2. CASE i # Len(tasks_) + 1
        <4>1. i \in 1 .. Len(tasks_)
          BY <1>2, <3>2
        <4> QED
          BY <1>4, <2>2, <4>1
      <3> QED
        BY <3>1, <3>2
    <2>5. Tasks' = Tasks
      BY <2>1 DEF Tasks
    <2>6. Len(tasks_') <= pushed'
      BY <1>1, <1>2, <2>1, <2>2
    <2> QED
      BY <1>4, <2>1, <2>3, <2>4, <2>5, <2>6
  <1>8. CASE UNCHANGED <<task, tasks_, pushed, finished>>
    BY <1>2, <1>4, <1>8 DEF Tasks
  <1>9. ASSUME NEW w \in Workers, Idle(w) \/ Start(w) \/ Count(w)
        PROVE  UNCHANGED <<task, tasks_, pushed, finished>>
    BY <1>1, <1>9, IdleMoves DEF Start, Count
  <1>10. Wake => UNCHANGED <<task, tasks_, pushed, finished>>
    BY <1>1, WakeMoves
  <1>11. MainOnly \/ ClearRunning \/ UNCHANGED vars => UNCHANGED <<task, tasks_, pushed, finished>>
    BY DEF MainOnly, StopCallers, ReadCount, ReadQueued, WaitTasksFinish, Join, ClearRunning, vars
  <1> HIDE DEF Goal
  <1> QED
    BY <1>5, <1>6, <1>7, <1>8, <1>9, <1>10, <1>11, Kinds

-----------------------------------------------------------------------------
(* The theorems                                                              *)

PoolInv == TypeOK /\ CountersAgree /\ SeenInv /\ Control /\ NoLostNotification
               /\ TasksConserved /\ Len(tasks_) <= pushed

LEMMA InitPool == Init => PoolInv
  <1> SUFFICES ASSUME Init PROVE PoolInv
    OBVIOUS
  <1>1. Busy = {} /\ Running = {} /\ held = {}
    BY DEF Init, Busy, taken, Running, held
  <1>2. Len(tasks_) = 0 /\ DOMAIN tasks_ = {} /\ tasks_ \in Seq(Nat) /\ 1 .. 0 = {}
    BY DEF Init
  <1>3. CountersAgree
    <2>1. Cardinality(Busy) = 0 /\ Cardinality(Running) = 0
      BY <1>1, FS_EmptySet
    <2>2. tasksCnt_ = 0 /\ runningThreadCount_ = 0
      BY DEF Init
    <2>3. tasksCnt_ = Len(tasks_) + Cardinality(Busy) /\ runningThreadCount_ = Cardinality(Running)
      BY <1>2, <2>1, <2>2
    <2> QED
      BY <2>3 DEF CountersAgree
  <1>4. TypeOK
    BY <1>2 DEF Init, TypeOK
  <1>5. Control
    BY PoolAssumption DEF Init, Control, LockInv, WaitInv, DoneInv, TaskInv, Holding, Executing
  <1>6. TasksConserved
    BY <1>1, <1>2 DEF Init, TasksConserved
  <1>7. SeenInv
    BY DEF Init, SeenInv
  <1> QED
    BY <1>2, <1>3, <1>4, <1>5, <1>6, <1>7 DEF Init, PoolInv, NoLostNotification

LEMMA NextPool == PoolInv /\ [Next]_vars => PoolInv'
  <1> SUFFICES ASSUME PoolInv, [Next]_vars PROVE PoolInv'
    OBVIOUS
  <1> USE DEF PoolInv
  <1>1. Control'
    BY NextControl
  <1>2. TypeOK' /\ CountersAgree'
    BY NextTyped, NextCounts DEF Control
  <1>3. NoLostNotification'
    BY <1>1, NextNotified
  <1>4. TasksConserved' /\ Len(tasks_') <= pushed'
    BY <1>1, NextConserves
  <1>5. SeenInv'
    BY NextSeen
  <1> QED
    BY <1>1, <1>2, <1>3, <1>4, <1>5

LEMMA PoolInvariant == Spec => []PoolInv
  BY InitPool, NextPool, PTL DEF Spec

(* threadpool.h: every variable of the pool keeps its type; no counter is    *)
(* decremented below zero.                                                   *)
THEOREM PoolTyped == Spec => []TypeOK
  <1>1. PoolInv => TypeOK
    BY DEF PoolInv
  <1> QED
    BY <1>1, PoolInvariant, PTL

(* threadpool.cpp:33: when the pool is destroyed, at most as many tasks are   *)
(* left as waitTasksFinish has seen, though it reads the count and the queue  *)
(* at different moments: nothing is pushed any more.                          *)
THEOREM LeftWasSeen == Spec => []LeftAtMostSeen
  <1>1. PoolInv => LeftAtMostSeen
    BY DEF PoolInv, CountersAgree, SeenInv, LeftAtMostSeen, Busy
  <1> QED
    BY <1>1, PoolInvariant, PTL

(* threadpool.cpp:53, threadpool.h:39: tasks are run once, in order, and     *)
(* none is lost.                                                             *)
THEOREM PoolConserves == Spec => []TasksConserved
  <1>1. PoolInv => TasksConserved
    BY DEF PoolInv
  <1> QED
    BY <1>1, PoolInvariant, PTL

(* threadpool.h:46: while the pool runs, a queued task has a worker that is  *)
(* awake or a notification on its way.                                       *)
THEOREM PoolNotifies == Spec => []NoLostNotification
  <1>1. PoolInv => NoLostNotification
    BY DEF PoolInv
  <1> QED
    BY <1>1, PoolInvariant, PTL
=============================================================================
