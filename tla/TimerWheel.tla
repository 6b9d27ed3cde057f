----------------------------- MODULE TimerWheel -----------------------------
(***************************************************************************)
(* util/time_wheel.{h,cpp}: the hashed timing wheel that every SubReactor  *)
(* (and the main reactor) owns.  Any thread may add, refresh, trigger or   *)
(* cancel a timer; one thread calls tick().  mtx_ makes each of these      *)
(* atomic, with three exceptions the model keeps:                          *)
(*   - refresh() tests timer->canceled before it takes the lock;           *)
(*   - tick() scans a bucket element by element (the lock is held, but the *)
(*     scan of a bucket that grows under it need not end);                 *)
(*   - the callbacks collected by tick() and triggerNow() run after the    *)
(*     lock is released.                                                   *)
(* A bucket is a set: list order only decides the order of callbacks.      *)
(***************************************************************************)
EXTENDS Countdown

CONSTANTS
    Timer,      \* the Timer objects addTimer can create
    Repeating,  \* those created with repeat = true
    Ticks,      \* Ticks[t] = timeout / tick_interval_
    Thread,     \* the threads that use the wheel
    Ticker,     \* the thread that calls tick()
    Slots,      \* slots_ (256 in the code)
    None        \* no timer

ASSUME TimerWheelAssumption ==
    /\ Repeating \subseteq Timer
    /\ Ticks \in [Timer -> Nat]
    /\ Ticker \in Thread
    /\ Slots \in Nat \ {0}
    /\ None \notin Timer

\* The timers whose re-insertion does not land in the bucket being scanned.
\* Not an assumption of the code, which accepts every timeout.
RepeatFits == \A t \in Repeating : (Ticks[t] + 1) % Slots # 0

VARIABLES
    wheel,         \* wheel_: the timers of each bucket
    slot,          \* Timer::slot
    rotations,     \* Timer::rotations
    canceled,      \* Timer::canceled
    current_slot,  \* current_slot_
    added,         \* the Timer objects that exist
    ticking,       \* tick() holds mtx_ and scans wheel_[current_slot_]
    todo,          \* the timers of that bucket its iterator has yet to reach
    expired,       \* per thread, callbacks collected and not yet called
    refreshing     \* per thread, the timer whose canceled flag refresh() read

timers == <<slot, rotations, canceled, added>>
vars == <<wheel, slot, rotations, canceled, current_slot, added,
          ticking, todo, expired, refreshing>>

Bucket == 0 .. Slots - 1

Init ==
    /\ wheel = [s \in Bucket |-> {}]
    /\ slot = [t \in Timer |-> 0]
    /\ rotations = [t \in Timer |-> 0]
    /\ canceled = [t \in Timer |-> FALSE]
    /\ current_slot = 0
    /\ added = {}
    /\ ticking = FALSE
    /\ todo = {}
    /\ expired = [th \in Thread |-> {}]
    /\ refreshing = [th \in Thread |-> None]

\* th can take mtx_ for a call of its own.
CanLock(th) == ~ticking /\ refreshing[th] = None

\* removeLocked(t): only the bucket that t names is searched.
Removed(t) == [wheel EXCEPT ![slot[t]] = @ \ {t}]

\* Insert that forgets to record the bucket.
InsertUnrecorded(w, t, from) ==
    /\ wheel' = [w EXCEPT ![(from + Ticks[t]) % Slots] = @ \cup {t}]
    /\ rotations' = [rotations EXCEPT ![t] = Ticks[t] \div Slots]
    /\ UNCHANGED slot

\* t goes into bucket (from + ticks) % slots_ of the wheel w.
Insert(w, t, from) ==
    LET s == (from + Ticks[t]) % Slots IN
    /\ wheel' = [w EXCEPT ![s] = @ \cup {t}]
    /\ slot' = [slot EXCEPT ![t] = s]
    /\ rotations' = [rotations EXCEPT ![t] = Ticks[t] \div Slots]

-----------------------------------------------------------------------------
(* Calls of any thread.                                                    *)

AddTimer(th, t) ==
    /\ CanLock(th)
    /\ t \notin added
    /\ added' = added \cup {t}
    /\ Insert(wheel, t, current_slot)
    /\ UNCHANGED <<canceled, current_slot, ticking, todo, expired, refreshing>>

\* refresh() returns at once on a cancelled timer; this test takes no lock,
\* so it may run while tick() scans.
RefreshCheck(th, t) ==
    /\ refreshing[th] = None
    /\ th = Ticker => ~ticking
    /\ t \in added
    /\ ~canceled[t]
    /\ refreshing' = [refreshing EXCEPT ![th] = t]
    /\ UNCHANGED <<wheel, timers, current_slot, ticking, todo, expired>>

RefreshLocked(th) ==
    /\ ~ticking
    /\ refreshing[th] # None
    /\ Insert(Removed(refreshing[th]), refreshing[th], current_slot)
    /\ refreshing' = [refreshing EXCEPT ![th] = None]
    /\ UNCHANGED <<canceled, added, current_slot, ticking, todo, expired>>

\* triggerNow() runs the callback before it returns, so it is called by a
\* thread that owes none.
TriggerNow(th, t) ==
    /\ CanLock(th)
    /\ expired[th] = {}
    /\ t \in added
    /\ wheel' = Removed(t)
    /\ expired' = [expired EXCEPT ![th] = IF canceled[t] THEN {} ELSE {t}]
    /\ UNCHANGED <<timers, current_slot, ticking, todo, refreshing>>

CancelTimer(th, t) ==
    /\ CanLock(th)
    /\ t \in added
    /\ canceled' = [canceled EXCEPT ![t] = TRUE]
    /\ wheel' = Removed(t)
    /\ UNCHANGED <<slot, rotations, added, current_slot, ticking, todo,
                   expired, refreshing>>

\* A collected callback runs without the lock (a tick may hold it meanwhile,
\* but not the thread's own).
RunCallback(th, t) ==
    /\ refreshing[th] = None
    /\ th = Ticker => ~ticking
    /\ t \in expired[th]
    /\ expired' = [expired EXCEPT ![th] = @ \ {t}]
    /\ UNCHANGED <<wheel, timers, current_slot, ticking, todo, refreshing>>

-----------------------------------------------------------------------------
(* tick().                                                                 *)

\* A whole tick_interval_ has passed, and the callbacks of the last tick ran.
TickBegin ==
    /\ CanLock(Ticker)
    /\ expired[Ticker] = {}
    /\ ticking' = TRUE
    /\ todo' = wheel[current_slot]
    /\ UNCHANGED <<wheel, timers, current_slot, expired, refreshing>>

\* ScanCanceled that neither erases the timer nor moves the iterator on.
ScanCanceledStuck(t) ==
    /\ ticking /\ t \in todo
    /\ canceled[t]
    /\ UNCHANGED vars

ScanCanceled(t) ==
    /\ ticking /\ t \in todo
    /\ canceled[t]
    /\ wheel' = [wheel EXCEPT ![current_slot] = @ \ {t}]
    /\ todo' = todo \ {t}
    /\ UNCHANGED <<timers, current_slot, ticking, expired, refreshing>>

\* ScanRotate that does not test rotations, and one that does not lower it.
ScanRotateUntested(t) ==
    /\ ticking /\ t \in todo
    /\ ~canceled[t]
    /\ rotations' = [rotations EXCEPT ![t] = @ - 1]
    /\ todo' = todo \ {t}
    /\ UNCHANGED <<wheel, slot, canceled, added, current_slot, ticking,
                   expired, refreshing>>

ScanRotateIdle(t) ==
    /\ ticking /\ t \in todo
    /\ ~canceled[t]
    /\ rotations[t] > 0
    /\ todo' = todo \ {t}
    /\ UNCHANGED <<wheel, timers, current_slot, ticking, expired, refreshing>>

ScanRotate(t) ==
    /\ ticking /\ t \in todo
    /\ ~canceled[t]
    /\ rotations[t] > 0
    /\ rotations' = [rotations EXCEPT ![t] = @ - 1]
    /\ todo' = todo \ {t}
    /\ UNCHANGED <<wheel, slot, canceled, added, current_slot, ticking,
                   expired, refreshing>>

\* ScanExpire that returns a repeating timer relative to the slot being
\* scanned, a tick too early.
ScanExpireEarly(t) ==
    /\ ticking /\ t \in todo
    /\ ~canceled[t]
    /\ rotations[t] = 0
    /\ expired' = [expired EXCEPT ![Ticker] = @ \cup {t}]
    /\ LET left == [wheel EXCEPT ![current_slot] = @ \ {t}] IN
       IF t \in Repeating
       THEN /\ Insert(left, t, current_slot)
            /\ todo' = IF slot'[t] = current_slot THEN todo ELSE todo \ {t}
       ELSE /\ wheel' = left
            /\ todo' = todo \ {t}
            /\ UNCHANGED <<slot, rotations>>
    /\ UNCHANGED <<canceled, added, current_slot, ticking, refreshing>>

\* The bucket is left, except by a repeating timer that push_back returns to
\* its end: the iterator will reach that one again.
ScanExpire(t) ==
    /\ ticking /\ t \in todo
    /\ ~canceled[t]
    /\ rotations[t] = 0
    /\ expired' = [expired EXCEPT ![Ticker] = @ \cup {t}]
    /\ LET left == [wheel EXCEPT ![current_slot] = @ \ {t}] IN
       IF t \in Repeating
       THEN /\ Insert(left, t, current_slot + 1)
            /\ todo' = IF slot'[t] = current_slot THEN todo ELSE todo \ {t}
       ELSE /\ wheel' = left
            /\ todo' = todo \ {t}
            /\ UNCHANGED <<slot, rotations>>
    /\ UNCHANGED <<canceled, added, current_slot, ticking, refreshing>>

TickEnd ==
    /\ ticking /\ todo = {}
    /\ current_slot' = (current_slot + 1) % Slots
    /\ ticking' = FALSE
    /\ UNCHANGED <<wheel, timers, todo, expired, refreshing>>

Scan == \E t \in Timer : ScanCanceled(t) \/ ScanRotate(t) \/ ScanExpire(t)

-----------------------------------------------------------------------------
Next ==
    \/ TickBegin
    \/ Scan
    \/ TickEnd
    \/ \E th \in Thread :
          \/ RefreshLocked(th)
          \/ \E t \in Timer :
                \/ AddTimer(th, t)
                \/ RefreshCheck(th, t)
                \/ TriggerNow(th, t)
                \/ CancelTimer(th, t)
                \/ RunCallback(th, t)

\* Program order: whatever a thread calls in between, the loop comes back to
\* tick(), a call of the wheel returns and the collected callbacks are run
\* one after the other.  Callers owe nothing.
Fairness ==
    /\ SF_vars(TickBegin)
    /\ WF_vars(Scan)
    /\ WF_vars(TickEnd)
    /\ \A th \in Thread : WF_vars(RefreshLocked(th))
    /\ \A th \in Thread : SF_vars(\E t \in Timer : RunCallback(th, t))

Spec == Init /\ [][Next]_vars /\ Fairness

-----------------------------------------------------------------------------
(* What the countdown of a timer is, read off the wheel.                   *)

\* The slot the next tick will scan: a tick under way counts as done.
NextSlot == IF ticking THEN (current_slot + 1) % Slots ELSE current_slot

Distance(from, to) == IF to >= from THEN to - from ELSE to - from + Slots

InWheel(t) == t \in wheel[slot[t]]

Remaining == [t \in Timer |->
    IF ~InWheel(t) \/ canceled[t] THEN Off
    ELSE IF t \notin todo
         THEN Distance(NextSlot, slot[t]) + rotations[t] * Slots
    ELSE IF rotations[t] > 0 THEN rotations[t] * Slots - 1
    ELSE IF t \in Repeating THEN Ticks[t] ELSE Off]

\* A tick under way owes the callbacks its scan is going to collect.
WillExpire == {t \in todo : ~canceled[t] /\ rotations[t] = 0}

Due == [th \in Thread |->
    IF th = Ticker THEN expired[th] \cup WillExpire ELSE expired[th]]

Service == INSTANCE TimerService WITH remaining <- Remaining, due <- Due

-----------------------------------------------------------------------------
(* Properties.                                                             *)

\* Every field keeps its type; rotations (a size_t) never wraps below zero.
TypeOK ==
    /\ wheel \in [Bucket -> SUBSET Timer]
    /\ slot \in [Timer -> Bucket]
    /\ rotations \in [Timer -> Nat]
    /\ canceled \in [Timer -> BOOLEAN]
    /\ current_slot \in Bucket
    /\ added \subseteq Timer
    /\ ticking \in BOOLEAN
    /\ todo \subseteq Timer
    /\ expired \in [Thread -> SUBSET Timer]
    /\ refreshing \in [Thread -> Timer \cup {None}]

\* removeLocked searches only the bucket a timer names: whatever refreshes,
\* repeats and cancellations do, a timer sits in that bucket or in none, so
\* that cancel and refresh never leave a second copy of it behind.
SlotRecordsBucket == \A s \in Bucket : \A t \in wheel[s] : slot[t] = s

\* What the scan relies on: it visits timers of the current bucket only, and
\* only under the lock; a timer is filed, cancelled or about to be refreshed
\* only once addTimer made it.  With the two above, inductive.
ScanInv ==
    /\ todo \subseteq wheel[current_slot]
    /\ ~ticking => todo = {}
    /\ \A s \in Bucket : wheel[s] \subseteq added
    /\ \A t \in Timer : canceled[t] => t \in added
    /\ \A th \in Thread : refreshing[th] # None => refreshing[th] \in added

WheelInv == TypeOK /\ SlotRecordsBucket /\ ScanInv

\* The scan of a bucket ends and tick() releases mtx_ (time_wheel.cpp:79-111):
\* no other thread is locked out of the wheel for ever.
TickCompletes == ticking ~> ~ticking

\* A timer that stays armed fires, for the first time or again, unless its
\* owner refreshes it for ever.
TimersFire == \A t \in Timer :
    \/ []<>(\/ Remaining[t] = Off
            \/ \E th \in Thread : t \in Due[th])
    \/ []<><<\E th \in Thread : refreshing[th] = t /\ RefreshLocked(th)>>_vars

\* The wheel counts exactly: for every mix of calls and interleaving of a
\* refresh with a cancel, each timer expires at the very tick its countdown
\* says, once, and never after it was cancelled.
ImplementsTimerService == Service!TSSpec
=============================================================================
