-------------------------- MODULE TimerWheelProofs --------------------------
(***************************************************************************)
(* Proofs about TimerWheel, for every number of slots and every set of     *)
(* timers, timeouts and threads: type correctness, the filing invariant,   *)
(* and - for repeat timeouts that do not land in the bucket being scanned -*)
(* that the wheel implements TimerService.                                 *)
(***************************************************************************)
EXTENDS TimerWheel, TLAPS

-----------------------------------------------------------------------------
(* Arithmetic of slots.                                                    *)

\* Ticks split into whole rotations and a remainder (time_wheel.cpp:15-17).
LEMMA DivMod ==
  ASSUME NEW n \in Nat \ {0}, NEW k \in Nat
  PROVE  /\ k % n \in 0 .. n - 1
         /\ k \div n \in Nat
         /\ k = (k \div n) * n + (k % n)
  OBVIOUS

\* The remainder is the only number below n that differs from k by a multiple.
LEMMA ModUnique ==
  ASSUME NEW n \in Nat \ {0}, NEW q \in Nat, NEW r \in 0 .. n - 1
  PROVE  (q * n + r) % n = r
  OBVIOUS

\* The slot r slots and q rotations ahead of c.
LEMMA AheadSlot ==
  ASSUME TimerWheelAssumption, NEW c \in Bucket,
         NEW q \in Nat, NEW r \in 0 .. Slots - 1
  PROVE  (c + (q * Slots + r)) % Slots = IF c + r < Slots THEN c + r ELSE c + r - Slots
<1> USE DEF TimerWheelAssumption, Bucket
<1>1. CASE c + r < Slots
  <2> DEFINE d == c + r
  <2>1. d \in 0 .. Slots - 1
    BY <1>1
  <2>2. c + (q * Slots + r) = q * Slots + d
    OBVIOUS
  <2> HIDE DEF d
  <2>3. (q * Slots + d) % Slots = d
    BY <2>1, ModUnique
  <2> QED BY <1>1, <2>2, <2>3 DEF d
<1>2. CASE ~(c + r < Slots)
  <2> DEFINE d == c + r - Slots
             p == q + 1
  <2>1. d \in 0 .. Slots - 1 /\ p \in Nat
    BY <1>2
  <2>2. c + (q * Slots + r) = p * Slots + d
    OBVIOUS
  <2> HIDE DEF d, p
  <2>3. (p * Slots + d) % Slots = d
    BY <2>1, ModUnique
  <2> QED BY <1>2, <2>2, <2>3 DEF d
<1> QED BY <1>1, <1>2

\* Moving one slot forward, wrapping at the end (time_wheel.cpp:109).
LEMMA NextSlotValue ==
  ASSUME TimerWheelAssumption, NEW c \in Bucket
  PROVE  (c + 1) % Slots = IF c = Slots - 1 THEN 0 ELSE c + 1
<1> USE DEF TimerWheelAssumption, Bucket
<1>1. CASE Slots = 1
  <2>1. (1 * 1 + 0) % 1 = 0
    BY ModUnique
  <2> QED BY <1>1, <2>1
<1>2. CASE Slots # 1
  <2>1. 1 \in 0 .. Slots - 1
    BY <1>2
  <2>2. (c + (0 * Slots + 1)) % Slots = IF c + 1 < Slots THEN c + 1 ELSE c + 1 - Slots
    BY <2>1, AheadSlot
  <2> QED BY <2>2
<1> QED BY <1>1, <1>2

\* A timer filed k ticks ahead of slot c is k ticks away from c, counting the
\* rotations it is given (time_wheel.cpp:15-18, 32-35, 101-104).
LEMMA FiledDistance ==
  ASSUME TimerWheelAssumption, NEW c \in Bucket, NEW k \in Nat
  PROVE  /\ (c + k) % Slots \in Bucket
         /\ Distance(c, (c + k) % Slots) + (k \div Slots) * Slots = k
<1> USE DEF TimerWheelAssumption, Bucket
<1> DEFINE q == k \div Slots
           r == k % Slots
<1>1. r \in 0 .. Slots - 1 /\ q \in Nat /\ k = q * Slots + r
  BY DivMod
<1> HIDE DEF q, r
<1>2. (c + k) % Slots = IF c + r < Slots THEN c + r ELSE c + r - Slots
  BY <1>1, AheadSlot
<1>3. Distance(c, (c + k) % Slots) = r
  BY <1>1, <1>2 DEF Distance
<1> QED BY <1>1, <1>2, <1>3 DEF q

\* The repeating timer of a bucket leaves it when its timeout fits.
LEMMA RepeatLeaves ==
  ASSUME TimerWheelAssumption, RepeatFits, NEW c \in Bucket, NEW t \in Repeating
  PROVE  (c + 1 + Ticks[t]) % Slots # c
<1> USE DEF TimerWheelAssumption, Bucket
<1> DEFINE k == Ticks[t] + 1
           q == k \div Slots
           r == k % Slots
<1>0. k \in Nat
  OBVIOUS
<1>1. r \in 0 .. Slots - 1 /\ q \in Nat /\ k = q * Slots + r
  BY <1>0, DivMod
<1>2. r # 0
  BY DEF RepeatFits
<1>3. c + 1 + Ticks[t] = c + k
  OBVIOUS
<1> HIDE DEF k, q, r
<1>4. (c + k) % Slots = IF c + r < Slots THEN c + r ELSE c + r - Slots
  BY <1>1, AheadSlot
<1> QED BY <1>1, <1>2, <1>3, <1>4

-----------------------------------------------------------------------------
(* Filing a timer and taking it out.                                       *)

\* The state after t was added to bucket s of the wheel w.
FiledIn(w, t, s) ==
    /\ s \in Bucket
    /\ wheel' \in [Bucket -> SUBSET Timer]
    /\ slot' \in [Timer -> Bucket]
    /\ rotations' \in [Timer -> Nat]
    /\ slot'[t] = s
    /\ rotations'[t] = Ticks[t] \div Slots
    /\ \A u \in Timer \ {t} : slot'[u] = slot[u] /\ rotations'[u] = rotations[u]
    /\ \A b \in Bucket : wheel'[b] = IF b = s THEN w[b] \cup {t} ELSE w[b]

\* Insert keeps the types and puts t in the one bucket it then names.
LEMMA InsertFiles ==
  ASSUME TimerWheelAssumption, TypeOK, NEW t \in Timer, NEW from \in 0 .. Slots,
         NEW w \in [Bucket -> SUBSET Timer], Insert(w, t, from)
  PROVE  FiledIn(w, t, (from + Ticks[t]) % Slots)
<1>1. from + Ticks[t] \in Nat /\ Ticks[t] \in Nat /\ Slots \in Nat \ {0}
  BY DEF TimerWheelAssumption
<1>2. (from + Ticks[t]) % Slots \in Bucket /\ Ticks[t] \div Slots \in Nat
  BY <1>1, DivMod DEF Bucket
<1> QED BY <1>2 DEF Insert, TypeOK, FiledIn

\* removeLocked takes t out of every bucket, although it searches only one.
LEMMA RemovedEverywhere ==
  ASSUME TypeOK, SlotRecordsBucket, NEW t \in Timer
  PROVE  /\ Removed(t) \in [Bucket -> SUBSET Timer]
         /\ \A s \in Bucket : Removed(t)[s] = wheel[s] \ {t}
BY DEF TypeOK, SlotRecordsBucket, Removed

-----------------------------------------------------------------------------
(* The inductive invariant.                                                *)

LEMMA InitInv == ASSUME TimerWheelAssumption, Init PROVE WheelInv
<1>1. 0 \in Bucket
  BY DEF TimerWheelAssumption, Bucket
<1>2. canceled \in [Timer -> BOOLEAN] /\ \A t \in Timer : ~canceled[t]
  BY Zenon DEF Init
<1>3. TypeOK
  BY <1>1, <1>2 DEF Init, TypeOK
<1>4. SlotRecordsBucket
  BY DEF Init, SlotRecordsBucket
<1>5. ScanInv
  BY <1>1, <1>2 DEF Init, ScanInv
<1> QED BY <1>3, <1>4, <1>5 DEF WheelInv

LEMMA StutterInv == ASSUME WheelInv, UNCHANGED vars PROVE WheelInv'
BY DEF WheelInv, TypeOK, SlotRecordsBucket, ScanInv, vars, Bucket

LEMMA AddTimerInv ==
  ASSUME TimerWheelAssumption, WheelInv, NEW th \in Thread, NEW t \in Timer,
         AddTimer(th, t)
  PROVE  WheelInv'
<1> USE DEF WheelInv
<1>1. current_slot \in 0 .. Slots /\ wheel \in [Bucket -> SUBSET Timer]
  BY DEF TypeOK, Bucket, TimerWheelAssumption
<1>2. Insert(wheel, t, current_slot)
  BY DEF AddTimer
<1> DEFINE s0 == (current_slot + Ticks[t]) % Slots
<1>filed. FiledIn(wheel, t, s0)
  BY <1>1, <1>2, InsertFiles
<1> HIDE DEF s0
<1>3. TypeOK'
  BY <1>filed DEF AddTimer, TypeOK, Bucket, FiledIn
<1>4. \A s \in Bucket : t \notin wheel[s]
  BY DEF AddTimer, ScanInv
<1>5. SlotRecordsBucket'
  BY <1>filed, <1>4 DEF SlotRecordsBucket, TypeOK, FiledIn
<1>6. ScanInv'
  BY <1>filed DEF ScanInv, AddTimer, TypeOK, CanLock, FiledIn
<1> QED BY <1>3, <1>5, <1>6

LEMMA RefreshLockedInv ==
  ASSUME TimerWheelAssumption, WheelInv, NEW th \in Thread, RefreshLocked(th)
  PROVE  WheelInv'
<1> USE DEF WheelInv
<1> DEFINE t == refreshing[th]
<1>1. /\ current_slot \in 0 .. Slots
      /\ t \in Timer /\ t \in added
      /\ Insert(Removed(t), t, current_slot)
  BY DEF TypeOK, Bucket, TimerWheelAssumption, RefreshLocked, ScanInv
<1> HIDE DEF t
<1>2. /\ Removed(t) \in [Bucket -> SUBSET Timer]
      /\ \A s \in Bucket : Removed(t)[s] = wheel[s] \ {t}
  BY <1>1, RemovedEverywhere
<1> DEFINE s0 == (current_slot + Ticks[t]) % Slots
<1>filed. FiledIn(Removed(t), t, s0)
  BY <1>1, <1>2, InsertFiles
<1> HIDE DEF s0
<1>3. TypeOK'
  BY <1>1, <1>2, <1>filed DEF RefreshLocked, TypeOK, Bucket, FiledIn
<1>4. SlotRecordsBucket'
  BY <1>1, <1>2, <1>filed DEF SlotRecordsBucket, TypeOK, FiledIn
<1>5. ScanInv'
  BY <1>1, <1>2, <1>filed DEF ScanInv, RefreshLocked, TypeOK, FiledIn
<1> QED BY <1>3, <1>4, <1>5

LEMMA RefreshCheckInv ==
  ASSUME WheelInv, NEW th \in Thread, NEW t \in Timer, RefreshCheck(th, t)
  PROVE  WheelInv'
BY DEF WheelInv, TypeOK, SlotRecordsBucket, ScanInv, RefreshCheck, timers, Bucket

LEMMA TriggerNowInv ==
  ASSUME WheelInv, NEW th \in Thread, NEW t \in Timer, TriggerNow(th, t)
  PROVE  WheelInv'
<1>1. /\ Removed(t) \in [Bucket -> SUBSET Timer]
      /\ \A s \in Bucket : Removed(t)[s] = wheel[s] \ {t}
  BY RemovedEverywhere DEF WheelInv
<1> QED BY <1>1 DEF WheelInv, TypeOK, SlotRecordsBucket, ScanInv, TriggerNow, CanLock,
                    timers, Bucket

LEMMA CancelTimerInv ==
  ASSUME WheelInv, NEW th \in Thread, NEW t \in Timer, CancelTimer(th, t)
  PROVE  WheelInv'
<1>1. /\ Removed(t) \in [Bucket -> SUBSET Timer]
      /\ \A s \in Bucket : Removed(t)[s] = wheel[s] \ {t}
  BY RemovedEverywhere DEF WheelInv
<1> QED BY <1>1 DEF WheelInv, TypeOK, SlotRecordsBucket, ScanInv, CancelTimer, CanLock,
                    Bucket

LEMMA RunCallbackInv ==
  ASSUME WheelInv, NEW th \in Thread, NEW t \in Timer, RunCallback(th, t)
  PROVE  WheelInv'
BY DEF WheelInv, TypeOK, SlotRecordsBucket, ScanInv, RunCallback, timers, Bucket

LEMMA TickBeginInv == ASSUME WheelInv, TickBegin PROVE WheelInv'
BY DEF WheelInv, TypeOK, SlotRecordsBucket, ScanInv, TickBegin, timers, Bucket

LEMMA ScanCanceledInv ==
  ASSUME WheelInv, NEW t \in Timer, ScanCanceled(t) PROVE WheelInv'
BY DEF WheelInv, TypeOK, SlotRecordsBucket, ScanInv, ScanCanceled, timers, Bucket

LEMMA ScanRotateInv ==
  ASSUME WheelInv, NEW t \in Timer, ScanRotate(t) PROVE WheelInv'
BY DEF WheelInv, TypeOK, SlotRecordsBucket, ScanInv, ScanRotate, timers, Bucket

LEMMA ScanExpireInv ==
  ASSUME TimerWheelAssumption, WheelInv, NEW t \in Timer, ScanExpire(t)
  PROVE  WheelInv'
<1> USE DEF WheelInv
<1> DEFINE left == [wheel EXCEPT ![current_slot] = @ \ {t}]
<1>1. /\ left \in [Bucket -> SUBSET Timer]
      /\ \A s \in Bucket : left[s] = wheel[s] \ {t}
      /\ current_slot + 1 \in 0 .. Slots
      /\ Ticker \in Thread
  BY DEF TypeOK, SlotRecordsBucket, ScanInv, ScanExpire, Bucket, TimerWheelAssumption
<1>2. CASE t \in Repeating
  <2>1. /\ Insert(left, t, current_slot + 1)
        /\ todo' = IF slot'[t] = current_slot THEN todo ELSE todo \ {t}
    BY <1>2 DEF ScanExpire
  <2> HIDE DEF left
  <2> DEFINE s0 == (current_slot + 1 + Ticks[t]) % Slots
  <2>2. FiledIn(left, t, s0)
    BY <1>1, <2>1, InsertFiles
  <2> HIDE DEF s0
  <2>3. TypeOK'
    BY <1>1, <2>1, <2>2 DEF TypeOK, ScanExpire, Bucket, FiledIn
  <2>4. SlotRecordsBucket'
    BY <1>1, <2>2 DEF SlotRecordsBucket, TypeOK, FiledIn
  <2>5. ScanInv'
    BY <1>1, <2>1, <2>2 DEF ScanInv, ScanExpire, TypeOK, FiledIn
  <2> QED BY <2>3, <2>4, <2>5
<1>3. CASE t \notin Repeating
  <2>1. wheel' = left /\ todo' = todo \ {t} /\ UNCHANGED <<slot, rotations>>
    BY <1>3 DEF ScanExpire
  <2> HIDE DEF left
  <2> QED BY <1>1, <2>1 DEF TypeOK, SlotRecordsBucket, ScanInv, ScanExpire, Bucket
<1> QED BY <1>2, <1>3

LEMMA TickEndInv ==
  ASSUME TimerWheelAssumption, WheelInv, TickEnd PROVE WheelInv'
<1>1. current_slot' \in Bucket
  BY NextSlotValue DEF WheelInv, TypeOK, TickEnd, Bucket, TimerWheelAssumption
<1> QED BY <1>1 DEF WheelInv, TypeOK, SlotRecordsBucket, ScanInv, TickEnd, timers, Bucket

\* Every step of Next keeps the invariant: one case per action.
LEMMA NextInv ==
  ASSUME TimerWheelAssumption, WheelInv, [Next]_vars PROVE WheelInv'
<1>1. ASSUME TickBegin PROVE WheelInv'
  BY <1>1, TickBeginInv
<1>2. ASSUME Scan PROVE WheelInv'
  BY <1>2, ScanCanceledInv, ScanRotateInv, ScanExpireInv DEF Scan
<1>3. ASSUME TickEnd PROVE WheelInv'
  BY <1>3, TickEndInv
<1>4. ASSUME NEW th \in Thread, RefreshLocked(th) PROVE WheelInv'
  BY <1>4, RefreshLockedInv
<1>5. ASSUME NEW th \in Thread, NEW t \in Timer,
             \/ AddTimer(th, t)
             \/ RefreshCheck(th, t)
             \/ TriggerNow(th, t)
             \/ CancelTimer(th, t)
             \/ RunCallback(th, t)
      PROVE  WheelInv'
  BY <1>5, AddTimerInv, RefreshCheckInv, TriggerNowInv, CancelTimerInv, RunCallbackInv
<1>6. ASSUME UNCHANGED vars PROVE WheelInv'
  BY <1>6, StutterInv
<1> QED BY <1>1, <1>2, <1>3, <1>4, <1>5, <1>6 DEF Next

\* WheelInv holds in every reachable state, for every wheel.
THEOREM WheelInvariant == Spec => []WheelInv
<1>1. Init => WheelInv
  BY TimerWheelAssumption, InitInv
<1>2. WheelInv /\ [Next]_vars => WheelInv'
  BY TimerWheelAssumption, NextInv
<1> QED BY <1>1, <1>2, PTL DEF Spec

\* The fields keep their types: in particular the unsigned rotations of a
\* timer are never decremented below zero (time_wheel.cpp:88-90).
THEOREM TypeCorrect == Spec => []TypeOK
BY WheelInvariant, PTL DEF WheelInv

\* A timer is filed under the slot it records or not at all, so searching one
\* bucket is enough to remove it (time_wheel.cpp:129-137).
THEOREM SlotRecords == Spec => []SlotRecordsBucket
BY WheelInvariant, PTL DEF WheelInv

-----------------------------------------------------------------------------
(* Refinement: what each action does to the countdowns and to the owed     *)
(* callbacks.                                                              *)

\* The value of a countdown outside a tick, before and after a step.
LEMMA RestingValue ==
  ASSUME WheelInv, WheelInv', ~ticking, ~ticking', NEW t \in Timer
  PROVE  /\ Remaining[t] = IF InWheel(t) /\ ~canceled[t]
                           THEN Distance(current_slot, slot[t]) + rotations[t] * Slots
                           ELSE Off
         /\ Remaining'[t] = IF InWheel(t)' /\ ~canceled'[t]
                            THEN Distance(current_slot', slot'[t]) + rotations'[t] * Slots
                            ELSE Off
<1>1. todo = {} /\ todo' = {}
  BY DEF WheelInv, ScanInv
<1>2. NextSlot = current_slot /\ NextSlot' = current_slot'
  BY DEF NextSlot
<1> QED BY <1>1, <1>2 DEF Remaining

\* Filing t afresh gives it its whole timeout, if it is live.
LEMMA FiledCountdown ==
  ASSUME TimerWheelAssumption, WheelInv, WheelInv', NEW t \in Timer,
         NEW w \in [Bucket -> SUBSET Timer],
         \A b \in Bucket : w[b] \ {t} = wheel[b] \ {t},
         FiledIn(w, t, (current_slot + Ticks[t]) % Slots),
         ~ticking, UNCHANGED <<canceled, current_slot, ticking>>
  PROVE  Remaining' = [Remaining EXCEPT ![t] = IF canceled[t] THEN Off ELSE Ticks[t]]
<1>1. /\ current_slot \in Bucket /\ Ticks[t] \in Nat
      /\ slot \in [Timer -> Bucket]
  BY DEF WheelInv, TypeOK, TimerWheelAssumption
<1>2. Remaining'[t] = IF canceled[t] THEN Off ELSE Ticks[t]
  <2>1. InWheel(t)'
    BY <1>1 DEF InWheel, FiledIn
  <2>2. Remaining'[t] = IF canceled[t] THEN Off
                        ELSE Distance(current_slot, slot'[t]) + rotations'[t] * Slots
    BY <2>1, RestingValue
  <2>3. Distance(current_slot, (current_slot + Ticks[t]) % Slots)
           + (Ticks[t] \div Slots) * Slots = Ticks[t]
    BY <1>1, FiledDistance
  <2>4. slot'[t] = (current_slot + Ticks[t]) % Slots /\ rotations'[t] = Ticks[t] \div Slots
    BY DEF FiledIn
  <2> QED BY <2>2, <2>3, <2>4
<1>3. ASSUME NEW u \in Timer \ {t} PROVE Remaining'[u] = Remaining[u]
  <2>1. InWheel(u)' <=> InWheel(u)
    BY <1>1 DEF InWheel, FiledIn
  <2>2. slot'[u] = slot[u] /\ rotations'[u] = rotations[u]
    BY DEF FiledIn
  <2> QED BY <2>1, <2>2, RestingValue
<1> QED BY <1>2, <1>3 DEF Remaining

\* Taking t out of the wheel disarms it.
LEMMA RemovedCountdown ==
  ASSUME WheelInv, WheelInv', NEW t \in Timer, wheel' = Removed(t), ~ticking,
         UNCHANGED <<slot, rotations, current_slot, ticking>>,
         \A u \in Timer \ {t} : canceled'[u] = canceled[u]
  PROVE  Remaining' = [Remaining EXCEPT ![t] = Off]
<1>1. \A b \in Bucket : wheel'[b] = wheel[b] \ {t}
  BY RemovedEverywhere DEF WheelInv
<1>2. slot \in [Timer -> Bucket]
  BY DEF WheelInv, TypeOK
<1>3. Remaining'[t] = Off
  <2>1. ~InWheel(t)'
    BY <1>1, <1>2 DEF InWheel
  <2> QED BY <2>1, RestingValue
<1>4. ASSUME NEW u \in Timer \ {t} PROVE Remaining'[u] = Remaining[u]
  <2>1. InWheel(u)' <=> InWheel(u)
    BY <1>1, <1>2 DEF InWheel
  <2> QED BY <2>1, RestingValue
<1> QED BY <1>3, <1>4 DEF Remaining

\* Outside a tick, the callbacks owed are those collected.
LEMMA RestingDue ==
  ASSUME WheelInv, WheelInv', ~ticking, ~ticking'
  PROVE  Due = [th \in Thread |-> expired[th]] /\ Due' = [th \in Thread |-> expired'[th]]
<1>1. todo = {} /\ todo' = {}
  BY DEF WheelInv, ScanInv
<1>2. WillExpire = {} /\ WillExpire' = {}
  BY <1>1 DEF WillExpire
<1> QED BY <1>2 DEF Due

-----------------------------------------------------------------------------
(* Refinement, action by action.                                           *)

\* The service step or the stutter that a step of the wheel amounts to.
ServiceStep == [Service!TSNext]_(Service!tsvars)

LEMMA InitRefines == ASSUME TimerWheelAssumption, Init PROVE Service!TSInit
<1>1. \A t \in Timer : ~InWheel(t)
  BY DEF Init, InWheel, TimerWheelAssumption, Bucket
<1>2. Remaining = [t \in Timer |-> Off]
  BY <1>1 DEF Remaining
<1>3. WillExpire = {}
  BY DEF WillExpire, Init
<1>4. Due = [th \in Thread |-> {}]
  BY <1>3 DEF Due, Init
<1>5. canceled = [t \in Timer |-> FALSE]
  BY Zenon DEF Init
<1> QED BY <1>2, <1>4, <1>5 DEF Service!TSInit, Service!Off, Off

LEMMA AddTimerRefines ==
  ASSUME TimerWheelAssumption, WheelInv, WheelInv', NEW th \in Thread, NEW t \in Timer,
         AddTimer(th, t)
  PROVE  Service!Start(t)
<1>1. /\ ~ticking /\ ~ticking' /\ UNCHANGED <<canceled, current_slot, ticking, expired>>
      /\ Insert(wheel, t, current_slot)
      /\ ~canceled[t]
  BY DEF AddTimer, CanLock, WheelInv, ScanInv
<1>2. wheel \in [Bucket -> SUBSET Timer] /\ current_slot \in 0 .. Slots /\ TypeOK
  BY DEF WheelInv, TypeOK, Bucket, TimerWheelAssumption
<1>3. FiledIn(wheel, t, (current_slot + Ticks[t]) % Slots)
  BY <1>1, <1>2, InsertFiles
<1>4. Remaining' = [Remaining EXCEPT ![t] = Ticks[t]]
  BY <1>1, <1>2, <1>3, FiledCountdown
<1>5. Due' = Due
  BY <1>1, RestingDue
<1> QED BY <1>1, <1>4, <1>5 DEF Service!Start

LEMMA RefreshLockedRefines ==
  ASSUME TimerWheelAssumption, WheelInv, WheelInv', NEW th \in Thread, RefreshLocked(th)
  PROVE  ServiceStep
<1> DEFINE t == refreshing[th]
<1>1. /\ ~ticking /\ ~ticking' /\ UNCHANGED <<canceled, current_slot, ticking, expired>>
      /\ t \in Timer
      /\ Insert(Removed(t), t, current_slot)
  BY DEF RefreshLocked, WheelInv, TypeOK
<1> HIDE DEF t
<1>2. current_slot \in 0 .. Slots /\ TypeOK /\ SlotRecordsBucket
  BY DEF WheelInv, TypeOK, Bucket, TimerWheelAssumption
<1>3. /\ Removed(t) \in [Bucket -> SUBSET Timer]
      /\ \A b \in Bucket : Removed(t)[b] = wheel[b] \ {t}
  BY <1>1, <1>2, RemovedEverywhere
<1>4. FiledIn(Removed(t), t, (current_slot + Ticks[t]) % Slots)
  BY <1>1, <1>2, <1>3, InsertFiles
<1>5. \A b \in Bucket : Removed(t)[b] \ {t} = wheel[b] \ {t}
  BY <1>3
<1>6. Remaining' = [Remaining EXCEPT ![t] = IF canceled[t] THEN Off ELSE Ticks[t]]
  BY <1>1, <1>3, <1>4, <1>5, FiledCountdown
<1>7. Due' = Due
  BY <1>1, RestingDue
<1>8. CASE canceled[t]
  <2>1. Remaining[t] = Off
    BY <1>1, <1>8, RestingValue
  <2>2. Remaining' = Remaining
    BY <1>6, <1>8, <2>1 DEF Remaining
  <2> QED BY <1>1, <1>7, <2>2 DEF ServiceStep, Service!tsvars
<1>9. CASE ~canceled[t]
  <2>1. Service!Start(t)
    BY <1>1, <1>6, <1>7, <1>9 DEF Service!Start
  <2> QED BY <1>1, <2>1 DEF ServiceStep, Service!TSNext
<1> QED BY <1>8, <1>9

LEMMA CancelTimerRefines ==
  ASSUME WheelInv, WheelInv', NEW th \in Thread, NEW t \in Timer, CancelTimer(th, t)
  PROVE  Service!Cancel(t)
<1>1. /\ ~ticking /\ ~ticking'
      /\ wheel' = Removed(t)
      /\ UNCHANGED <<slot, rotations, current_slot, ticking, expired>>
      /\ canceled' = [canceled EXCEPT ![t] = TRUE]
      /\ canceled \in [Timer -> BOOLEAN]
  BY DEF CancelTimer, CanLock, WheelInv, TypeOK
<1>2. \A u \in Timer \ {t} : canceled'[u] = canceled[u]
  BY <1>1
<1>3. Remaining' = [Remaining EXCEPT ![t] = Off]
  BY <1>1, <1>2, RemovedCountdown
<1>4. Due' = Due
  BY <1>1, RestingDue
<1> QED BY <1>1, <1>3, <1>4 DEF Service!Cancel, Service!Off, Off

LEMMA TriggerNowRefines ==
  ASSUME WheelInv, WheelInv', NEW th \in Thread, NEW t \in Timer, TriggerNow(th, t)
  PROVE  Service!Trigger(th, t)
<1>1. /\ ~ticking /\ ~ticking'
      /\ wheel' = Removed(t)
      /\ UNCHANGED <<slot, rotations, current_slot, ticking, canceled>>
      /\ expired[th] = {}
      /\ expired' = [expired EXCEPT ![th] = IF canceled[t] THEN {} ELSE {t}]
      /\ expired \in [Thread -> SUBSET Timer]
  BY DEF TriggerNow, CanLock, timers, WheelInv, TypeOK
<1>2. Remaining' = [Remaining EXCEPT ![t] = Off]
  BY <1>1, RemovedCountdown
<1>3. Due = expired /\ Due' = expired'
  BY <1>1, RestingDue
<1>4. Due' = [Due EXCEPT ![th] = @ \cup (IF canceled[t] THEN {} ELSE {t})]
  BY <1>1, <1>3
<1> QED BY <1>1, <1>2, <1>4 DEF Service!Trigger, Service!Off, Off

LEMMA RunCallbackRefines ==
  ASSUME TimerWheelAssumption, WheelInv, WheelInv', NEW th \in Thread, NEW t \in Timer,
         RunCallback(th, t)
  PROVE  Service!Run(th, t)
<1>1. /\ t \in expired[th]
      /\ expired' = [expired EXCEPT ![th] = @ \ {t}]
      /\ expired \in [Thread -> SUBSET Timer]
      /\ UNCHANGED <<wheel, slot, rotations, canceled, current_slot, ticking, todo>>
      /\ th = Ticker => ~ticking
  BY DEF RunCallback, timers, WheelInv, TypeOK
<1>2. Remaining' = Remaining
  BY <1>1 DEF Remaining, InWheel, NextSlot
<1>3. WillExpire' = WillExpire /\ (th = Ticker => WillExpire = {})
  BY <1>1 DEF WillExpire, WheelInv, ScanInv
<1>4. t \in Due[th] /\ Due' = [Due EXCEPT ![th] = @ \ {t}]
  BY <1>1, <1>3 DEF Due
<1> QED BY <1>1, <1>2, <1>4 DEF Service!Run

-----------------------------------------------------------------------------
(* Refinement of tick(): its beginning is the service's tick, the scan and *)
(* its end carry out what was announced.                                   *)

LEMMA Rotations ==
  ASSUME TimerWheelAssumption, NEW r \in Nat
  PROVE  /\ r * Slots \in Nat
         /\ r = 0 => r * Slots = 0
         /\ r > 0 => r * Slots >= Slots /\ r * Slots > 0
         /\ r > 0 => (r - 1) * Slots = r * Slots - Slots
BY DEF TimerWheelAssumption

\* Stepping one slot forward brings every other slot one tick nearer.
LEMMA NextDistance ==
  ASSUME TimerWheelAssumption, NEW c \in Bucket, NEW s \in Bucket
  PROVE  /\ Distance(c, s) \in Nat
         /\ Distance(c, s) = 0 <=> s = c
         /\ s # c => Distance((c + 1) % Slots, s) = Distance(c, s) - 1
         /\ s = c => Distance((c + 1) % Slots, s) = Slots - 1
<1>1. (c + 1) % Slots = IF c = Slots - 1 THEN 0 ELSE c + 1
  BY NextSlotValue
<1> QED BY <1>1 DEF Distance, Bucket, TimerWheelAssumption

\* The countdowns at the beginning of a tick are those of the service's tick.
LEMMA TickBeginCountdown ==
  ASSUME TimerWheelAssumption, WheelInv, WheelInv', TickBegin, NEW t \in Timer
  PROVE  /\ Remaining'[t] = IF Remaining[t] > 0 THEN Remaining[t] - 1
                            ELSE IF Remaining[t] = 0 /\ t \in Repeating THEN Ticks[t]
                            ELSE Off
         /\ (t \in todo' /\ ~canceled[t] /\ rotations[t] = 0) <=> Remaining[t] = 0
<1>1. /\ ~ticking /\ ticking' = TRUE /\ todo' = wheel[current_slot]
      /\ UNCHANGED <<wheel, slot, rotations, canceled, current_slot>>
      /\ current_slot \in Bucket /\ slot[t] \in Bucket /\ rotations[t] \in Nat
      /\ todo = {}
  BY DEF TickBegin, CanLock, timers, WheelInv, TypeOK, ScanInv
<1>2. NextSlot = current_slot /\ NextSlot' = (current_slot + 1) % Slots
  BY <1>1 DEF NextSlot
<1>3. InWheel(t)' <=> InWheel(t)
  BY <1>1 DEF InWheel
<1>4. t \in todo' <=> InWheel(t) /\ slot[t] = current_slot
  BY <1>1 DEF InWheel, WheelInv, SlotRecordsBucket
<1> DEFINE live == InWheel(t) /\ ~canceled[t]
           turns == rotations[t] * Slots
<1>5. Remaining[t] = IF live THEN Distance(current_slot, slot[t]) + turns ELSE Off
  BY <1>1, <1>2 DEF Remaining
<1>6. Remaining'[t] =
        IF ~live THEN Off
        ELSE IF t \notin todo' THEN Distance((current_slot + 1) % Slots, slot[t]) + turns
        ELSE IF rotations[t] > 0 THEN turns - 1
        ELSE IF t \in Repeating THEN Ticks[t] ELSE Off
  BY <1>1, <1>2, <1>3 DEF Remaining
<1>7. /\ turns \in Nat
      /\ rotations[t] = 0 => turns = 0
      /\ rotations[t] > 0 => turns > 0
  BY <1>1, Rotations
<1>8. /\ Distance(current_slot, slot[t]) \in Nat
      /\ Distance(current_slot, slot[t]) = 0 <=> slot[t] = current_slot
      /\ slot[t] # current_slot =>
           Distance((current_slot + 1) % Slots, slot[t]) = Distance(current_slot, slot[t]) - 1
  BY <1>1, NextDistance
<1> HIDE DEF turns
<1>9. CASE ~live
  BY <1>4, <1>5, <1>6, <1>9 DEF Off
<1>10. CASE live /\ slot[t] = current_slot
  BY <1>1, <1>4, <1>5, <1>6, <1>7, <1>8, <1>10
<1>11. CASE live /\ slot[t] # current_slot
  BY <1>1, <1>4, <1>5, <1>6, <1>7, <1>8, <1>11
<1> QED BY <1>9, <1>10, <1>11

LEMMA TickBeginRefines ==
  ASSUME TimerWheelAssumption, WheelInv, WheelInv', TickBegin
  PROVE  Service!Tick
<1>1. /\ UNCHANGED <<canceled, rotations, expired>>
      /\ todo' \subseteq Timer /\ todo = {}
      /\ expired \in [Thread -> SUBSET Timer]
  BY DEF TickBegin, CanLock, timers, WheelInv, TypeOK, ScanInv
<1>2. Remaining' = Service!AfterTick(Remaining, Repeating, Ticks)
  BY TickBeginCountdown DEF Remaining, Service!AfterTick, Service!Off, Off
<1>3. WillExpire = {}
  BY <1>1 DEF WillExpire
<1>4. WillExpire' = Service!Expiring(Remaining)
  <2>1. \A t \in Timer : t \in WillExpire' <=> Remaining[t] = 0
    BY <1>1, TickBeginCountdown DEF WillExpire
  <2>2. WillExpire' \subseteq Timer
    BY <1>1 DEF WillExpire
  <2>3. DOMAIN Remaining = Timer
    BY DEF Remaining
  <2> QED BY <2>1, <2>2, <2>3 DEF Service!Expiring
<1>5. Due' = [Due EXCEPT ![Ticker] = @ \cup Service!Expiring(Remaining)]
  BY <1>1, <1>3, <1>4, TimerWheelAssumption DEF Due
<1> QED BY <1>1, <1>2, <1>5 DEF Service!Tick

LEMMA ScanCanceledRefines ==
  ASSUME WheelInv, NEW t \in Timer, ScanCanceled(t)
  PROVE  UNCHANGED Service!tsvars
<1>1. /\ ticking /\ ticking' /\ canceled[t]
      /\ UNCHANGED <<slot, rotations, canceled, current_slot, expired>>
      /\ wheel' = [wheel EXCEPT ![current_slot] = @ \ {t}]
      /\ todo' = todo \ {t}
      /\ wheel \in [Bucket -> SUBSET Timer] /\ slot \in [Timer -> Bucket]
  BY DEF ScanCanceled, timers, WheelInv, TypeOK
<1>2. NextSlot' = NextSlot
  BY <1>1 DEF NextSlot
<1>3. ASSUME NEW u \in Timer \ {t} PROVE InWheel(u)' <=> InWheel(u)
  BY <1>1 DEF InWheel
<1>4. ASSUME NEW u \in Timer PROVE Remaining'[u] = Remaining[u]
  BY <1>1, <1>2, <1>3 DEF Remaining
<1>5. Remaining' = Remaining
  BY <1>4 DEF Remaining
<1>6. Due' = Due
  BY <1>1 DEF Due, WillExpire
<1> QED BY <1>1, <1>5, <1>6 DEF Service!tsvars

LEMMA ScanRotateRefines ==
  ASSUME TimerWheelAssumption, WheelInv, NEW t \in Timer, ScanRotate(t)
  PROVE  UNCHANGED Service!tsvars
<1>1. /\ ticking /\ ticking' /\ ~canceled[t] /\ t \in todo /\ rotations[t] > 0
      /\ UNCHANGED <<wheel, slot, canceled, current_slot, expired>>
      /\ rotations' = [rotations EXCEPT ![t] = @ - 1]
      /\ todo' = todo \ {t}
      /\ rotations \in [Timer -> Nat] /\ current_slot \in Bucket
  BY DEF ScanRotate, WheelInv, TypeOK
<1>2. slot[t] = current_slot /\ InWheel(t)
  BY <1>1 DEF WheelInv, TypeOK, SlotRecordsBucket, ScanInv, InWheel
<1>3. NextSlot' = NextSlot /\ NextSlot = (current_slot + 1) % Slots
  BY <1>1 DEF NextSlot
<1>4. ASSUME NEW u \in Timer PROVE InWheel(u)' <=> InWheel(u)
  BY <1>1 DEF InWheel
<1>5. Remaining'[t] = Remaining[t]
  <2>1. Remaining[t] = rotations[t] * Slots - 1
    BY <1>1, <1>2 DEF Remaining
  <2>2. Remaining'[t] = Distance((current_slot + 1) % Slots, current_slot)
                          + (rotations[t] - 1) * Slots
    BY <1>1, <1>2, <1>3, <1>4 DEF Remaining
  <2>3. Distance((current_slot + 1) % Slots, current_slot) = Slots - 1
    BY <1>1, NextDistance
  <2>4. (rotations[t] - 1) * Slots = rotations[t] * Slots - Slots
        /\ rotations[t] * Slots \in Nat /\ Slots \in Nat
    BY <1>1, Rotations DEF TimerWheelAssumption
  <2> QED BY <2>1, <2>2, <2>3, <2>4
<1>6. ASSUME NEW u \in Timer \ {t} PROVE Remaining'[u] = Remaining[u]
  BY <1>1, <1>3, <1>4 DEF Remaining
<1>7. Remaining' = Remaining
  BY <1>5, <1>6 DEF Remaining
<1>8. Due' = Due
  <2>1. \A u \in todo \ {t} : rotations'[u] = rotations[u]
    BY <1>1 DEF WheelInv, TypeOK
  <2>2. WillExpire' = WillExpire
    BY <1>1, <2>1 DEF WillExpire
  <2> QED BY <1>1, <2>2 DEF Due
<1> QED BY <1>1, <1>7, <1>8 DEF Service!tsvars

LEMMA ScanExpireRefines ==
  ASSUME TimerWheelAssumption, RepeatFits, WheelInv, WheelInv', NEW t \in Timer,
         ScanExpire(t)
  PROVE  UNCHANGED Service!tsvars
<1> DEFINE left == [wheel EXCEPT ![current_slot] = @ \ {t}]
<1>1. /\ ticking /\ ticking' /\ ~canceled[t] /\ t \in todo /\ rotations[t] = 0
      /\ UNCHANGED <<canceled, current_slot>>
      /\ expired' = [expired EXCEPT ![Ticker] = @ \cup {t}]
      /\ expired \in [Thread -> SUBSET Timer] /\ Ticker \in Thread
      /\ wheel \in [Bucket -> SUBSET Timer] /\ slot \in [Timer -> Bucket]
      /\ current_slot \in Bucket /\ todo \subseteq Timer /\ TypeOK
  BY TimerWheelAssumption DEF ScanExpire, WheelInv, TypeOK
<1>2. slot[t] = current_slot /\ InWheel(t)
  BY <1>1 DEF WheelInv, SlotRecordsBucket, ScanInv, InWheel
<1>3. NextSlot' = NextSlot /\ NextSlot = (current_slot + 1) % Slots
  BY <1>1 DEF NextSlot
<1>4. left \in [Bucket -> SUBSET Timer] /\ \A s \in Bucket : left[s] = wheel[s] \ {t}
  <2>1. \A s \in Bucket \ {current_slot} : t \notin wheel[s]
    BY <1>2 DEF WheelInv, SlotRecordsBucket
  <2> QED BY <1>1, <2>1
<1>5. /\ todo' = todo \ {t}
      /\ \A u \in Timer \ {t} : /\ slot'[u] = slot[u]
                                /\ rotations'[u] = rotations[u]
                                /\ InWheel(u)' <=> InWheel(u)
      /\ Remaining'[t] = IF t \in Repeating THEN Ticks[t] ELSE Off
  <2>1. CASE t \notin Repeating
    <3>1. wheel' = left /\ todo' = todo \ {t} /\ UNCHANGED <<slot, rotations>>
      BY <2>1 DEF ScanExpire
    <3>2. ~InWheel(t)'
      BY <1>1, <1>4, <3>1 DEF InWheel
    <3>3. Remaining'[t] = Off
      BY <3>2 DEF Remaining
    <3> HIDE DEF left
    <3> QED BY <1>1, <1>4, <2>1, <3>1, <3>3 DEF InWheel
  <2>2. CASE t \in Repeating
    <3> DEFINE s0 == (current_slot + 1 + Ticks[t]) % Slots
    <3>1. /\ Insert(left, t, current_slot + 1)
          /\ todo' = IF slot'[t] = current_slot THEN todo ELSE todo \ {t}
      BY <2>2 DEF ScanExpire
    <3>2. current_slot + 1 \in 0 .. Slots /\ Ticks[t] \in Nat
      BY <1>1 DEF Bucket, TimerWheelAssumption
    <3> HIDE DEF left
    <3>3. FiledIn(left, t, s0)
      BY <1>1, <1>4, <3>1, <3>2, InsertFiles
    <3>4. s0 # current_slot
      BY <1>1, <2>2, RepeatLeaves
    <3>5. todo' = todo \ {t}
      BY <3>1, <3>3, <3>4 DEF FiledIn
    <3>6. s0 = (((current_slot + 1) % Slots) + Ticks[t]) % Slots
          /\ (current_slot + 1) % Slots \in Bucket
      <4>1. (current_slot + 1) % Slots
              = IF current_slot = Slots - 1 THEN 0 ELSE current_slot + 1
        BY <1>1, NextSlotValue
      <4>2. (current_slot + 1) % Slots \in Bucket
        BY <4>1, <1>1 DEF Bucket, TimerWheelAssumption
      <4>3. CASE current_slot = Slots - 1
        <5> DEFINE q == Ticks[t] \div Slots
                   r == Ticks[t] % Slots
        <5>1. q \in Nat /\ r \in 0 .. Slots - 1 /\ Ticks[t] = q * Slots + r /\ Slots \in Nat \ {0}
          BY <3>2, DivMod DEF TimerWheelAssumption
        <5> HIDE DEF q
        <5>2. current_slot + 1 + Ticks[t] = (q + 1) * Slots + r /\ q + 1 \in Nat
          BY <4>3, <5>1
        <5> HIDE DEF r
        <5>3. ((q + 1) * Slots + r) % Slots = r
          BY <5>1, <5>2, ModUnique
        <5> QED BY <4>1, <4>2, <4>3, <5>2, <5>3, <3>2 DEF r
      <4>4. CASE current_slot # Slots - 1
        BY <4>1, <4>2, <4>4
      <4> QED BY <4>3, <4>4
    <3>7. Distance((current_slot + 1) % Slots, s0) + (Ticks[t] \div Slots) * Slots = Ticks[t]
      BY <3>2, <3>6, FiledDistance
    <3> HIDE DEF s0
    <3>8. InWheel(t)' /\ slot'[t] = s0 /\ rotations'[t] = Ticks[t] \div Slots
      BY <3>3 DEF InWheel, FiledIn
    <3>9. Remaining'[t] = Ticks[t]
      <4>1. Remaining'[t] = Distance((current_slot + 1) % Slots, slot'[t])
                              + rotations'[t] * Slots
        BY <1>1, <1>3, <3>5, <3>8 DEF Remaining
      <4> QED BY <4>1, <3>7, <3>8
    <3>10. \A u \in Timer \ {t} : InWheel(u)' <=> InWheel(u)
      BY <1>1, <1>4, <3>3 DEF InWheel, FiledIn
    <3>11. \A u \in Timer \ {t} : slot'[u] = slot[u] /\ rotations'[u] = rotations[u]
      BY <3>3 DEF FiledIn
    <3> QED BY <2>2, <3>5, <3>9, <3>10, <3>11
  <2> QED BY <2>1, <2>2
<1>6. Remaining[t] = IF t \in Repeating THEN Ticks[t] ELSE Off
  BY <1>1, <1>2 DEF Remaining
<1>7. ASSUME NEW u \in Timer \ {t} PROVE Remaining'[u] = Remaining[u]
  BY <1>1, <1>3, <1>5 DEF Remaining
<1>8. Remaining' = Remaining
  BY <1>5, <1>6, <1>7 DEF Remaining
<1>9. Due' = Due
  <2>1. expired'[Ticker] \cup WillExpire' = expired[Ticker] \cup WillExpire
    BY <1>1, <1>5 DEF WillExpire
  <2> QED BY <1>1, <2>1 DEF Due
<1> QED BY <1>1, <1>8, <1>9 DEF Service!tsvars

LEMMA TickEndRefines ==
  ASSUME WheelInv, TickEnd
  PROVE  UNCHANGED Service!tsvars
<1>1. /\ ticking /\ ~ticking' /\ todo = {} /\ todo' = {}
      /\ UNCHANGED <<wheel, slot, rotations, canceled, expired>>
      /\ current_slot' = (current_slot + 1) % Slots
  BY DEF TickEnd, timers
<1>2. NextSlot' = NextSlot
  BY <1>1 DEF NextSlot
<1>3. Remaining' = Remaining
  BY <1>1, <1>2 DEF Remaining, InWheel
<1>4. Due' = Due
  BY <1>1 DEF Due, WillExpire
<1> QED BY <1>1, <1>3, <1>4 DEF Service!tsvars

\* Every step of the wheel is a step of the service or a stutter.
LEMMA NextRefines ==
  ASSUME TimerWheelAssumption, RepeatFits, WheelInv, WheelInv', [Next]_vars
  PROVE  ServiceStep
<1> USE DEF ServiceStep
<1>1. ASSUME TickBegin PROVE ServiceStep
  BY <1>1, TickBeginRefines DEF Service!TSNext
<1>2. ASSUME Scan PROVE ServiceStep
  BY <1>2, ScanCanceledRefines, ScanRotateRefines, ScanExpireRefines DEF Scan
<1>3. ASSUME TickEnd PROVE ServiceStep
  BY <1>3, TickEndRefines
<1>4. ASSUME NEW th \in Thread, RefreshLocked(th) PROVE ServiceStep
  BY <1>4, RefreshLockedRefines
<1>5. ASSUME NEW th \in Thread, NEW t \in Timer, AddTimer(th, t) PROVE ServiceStep
  BY <1>5, AddTimerRefines DEF Service!TSNext
<1>6. ASSUME NEW th \in Thread, NEW t \in Timer, RefreshCheck(th, t) PROVE ServiceStep
  <2>1. UNCHANGED <<wheel, slot, rotations, canceled, current_slot, ticking, todo, expired>>
    BY <1>6 DEF RefreshCheck, timers
  <2>2. UNCHANGED Service!tsvars
    BY <2>1 DEF Service!tsvars, Remaining, Due, InWheel, NextSlot, WillExpire
  <2> QED BY <2>2
<1>7. ASSUME NEW th \in Thread, NEW t \in Timer, TriggerNow(th, t) PROVE ServiceStep
  BY <1>7, TriggerNowRefines DEF Service!TSNext
<1>8. ASSUME NEW th \in Thread, NEW t \in Timer, CancelTimer(th, t) PROVE ServiceStep
  BY <1>8, CancelTimerRefines DEF Service!TSNext
<1>9. ASSUME NEW th \in Thread, NEW t \in Timer, RunCallback(th, t) PROVE ServiceStep
  BY <1>9, RunCallbackRefines DEF Service!TSNext
<1>10. ASSUME UNCHANGED vars PROVE ServiceStep
  <2>1. UNCHANGED Service!tsvars
    BY <1>10 DEF vars, Service!tsvars, Remaining, Due, InWheel, NextSlot, WillExpire
  <2> QED BY <2>1
<1> QED BY <1>1, <1>2, <1>3, <1>4, <1>5, <1>6, <1>7, <1>8, <1>9, <1>10 DEF Next

\* As long as no repeating timer is re-inserted into the bucket under scan,
\* the wheel is a timer service: whatever the number of slots, the timeouts,
\* the threads and the interleaving, every timer expires at exactly the tick
\* its countdown says and a cancelled one never does (time_wheel.cpp:7-137).
THEOREM WheelImplementsService ==
  ASSUME RepeatFits
  PROVE  Spec => ImplementsTimerService
<1>1. Init => Service!TSInit
  BY TimerWheelAssumption, InitRefines
<1>2. WheelInv /\ WheelInv' /\ [Next]_vars => [Service!TSNext]_(Service!tsvars)
  BY RepeatFits, TimerWheelAssumption, NextRefines DEF ServiceStep
<1> QED BY <1>1, <1>2, WheelInvariant, PTL DEF Spec, ImplementsTimerService, Service!TSSpec

-----------------------------------------------------------------------------
(* The scan of a tick.                                                     *)

\* Nothing is added to what a tick has to look at, and each step of its scan
\* takes one timer off.
ScanShortens == ticking => todo' \subseteq todo /\ (Scan => todo' # todo)

LEMMA ScanStepShortens ==
  ASSUME TimerWheelAssumption, RepeatFits, WheelInv, NEW t \in Timer,
         ScanCanceled(t) \/ ScanRotate(t) \/ ScanExpire(t)
  PROVE  t \in todo /\ todo' = todo \ {t}
<1>1. CASE ScanExpire(t) /\ t \in Repeating
  <2>1. slot' = [slot EXCEPT ![t] = (current_slot + 1 + Ticks[t]) % Slots]
    BY <1>1 DEF ScanExpire, Insert
  <2>2. slot'[t] # current_slot
    BY <1>1, <2>1, RepeatLeaves DEF WheelInv, TypeOK
  <2> QED BY <1>1, <2>2 DEF ScanExpire
<1>2. CASE ScanExpire(t) /\ t \notin Repeating
  BY <1>2 DEF ScanExpire
<1>3. CASE ScanCanceled(t) \/ ScanRotate(t)
  BY <1>3 DEF ScanCanceled, ScanRotate
<1> QED BY <1>1, <1>2, <1>3

LEMMA StepShortens ==
  ASSUME TimerWheelAssumption, RepeatFits, WheelInv, [Next]_vars
  PROVE  ScanShortens
<1> SUFFICES ASSUME ticking PROVE todo' \subseteq todo /\ (Scan => todo' # todo)
  BY DEF ScanShortens
<1>1. CASE Scan
  BY <1>1, ScanStepShortens DEF Scan
<1>2. ASSUME ~Scan PROVE todo' = todo
  BY <1>2 DEF Next, TickBegin, CanLock, TickEnd, RefreshLocked, AddTimer, RefreshCheck,
              TriggerNow, CancelTimer, RunCallback, vars
<1> QED BY <1>1, <1>2

\* time_wheel.cpp:79-111: while tick() holds the lock its iterator only moves
\* towards the end of the bucket, whatever the other threads do, so that the
\* scan is as long as the bucket.  This is the step that TickCompletes repeats.
THEOREM ScanIsBounded == ASSUME RepeatFits PROVE Spec => [][ScanShortens]_vars
<1>1. WheelInv /\ [Next]_vars => [ScanShortens]_vars
  BY TimerWheelAssumption, StepShortens
<1> QED BY <1>1, WheelInvariant, PTL DEF Spec
=============================================================================
