---------------------------- MODULE TimerService ----------------------------
(***************************************************************************)
(* What a timer facility promises its callers, free of wheels, slots and   *)
(* rotations: every armed timer counts the ticks that are left before it   *)
(* expires, a tick expires exactly the timers with none left, and the      *)
(* callback of an expired (or triggered) timer is owed by the thread that  *)
(* collected it, which runs it later, outside the facility's lock.         *)
(* TimerWheel implements this specification.                               *)
(***************************************************************************)
EXTENDS Countdown

CONSTANTS
    Timer,      \* the timers handed out by addTimer
    Repeating,  \* those created with repeat = true
    Ticks,      \* Ticks[t]: the timeout of t in whole ticks
    Thread,     \* the threads that call the facility
    Ticker      \* the one of them that calls tick()

VARIABLES
    remaining,  \* remaining[t]: ticks left before t expires, Off if t is not armed
    canceled,   \* canceled[t]: t was cancelled, for good
    due         \* due[th]: callbacks thread th has collected and not yet run

tsvars == <<remaining, canceled, due>>

-----------------------------------------------------------------------------
TSInit ==
    /\ remaining = [t \in Timer |-> Off]
    /\ canceled = [t \in Timer |-> FALSE]
    /\ due = [th \in Thread |-> {}]

\* A new timer is armed, or a live one is given its full timeout again.
Start(t) ==
    /\ ~canceled[t]
    /\ remaining' = [remaining EXCEPT ![t] = Ticks[t]]
    /\ UNCHANGED <<canceled, due>>

\* A cancelled timer is disarmed and can never be armed again.
Cancel(t) ==
    /\ canceled' = [canceled EXCEPT ![t] = TRUE]
    /\ remaining' = [remaining EXCEPT ![t] = Off]
    /\ UNCHANGED due

\* A timer is expired by hand: the caller owes its callback, unless cancelled.
Trigger(th, t) ==
    /\ remaining' = [remaining EXCEPT ![t] = Off]
    /\ due' = [due EXCEPT ![th] = @ \cup (IF canceled[t] THEN {} ELSE {t})]
    /\ UNCHANGED canceled

\* One tick: all countdowns move together, the expired callbacks are collected.
Tick ==
    /\ due' = [due EXCEPT ![Ticker] = @ \cup Expiring(remaining)]
    /\ remaining' = AfterTick(remaining, Repeating, Ticks)
    /\ UNCHANGED canceled

\* A thread runs one of the callbacks it owes.
Run(th, t) ==
    /\ t \in due[th]
    /\ due' = [due EXCEPT ![th] = @ \ {t}]
    /\ UNCHANGED <<remaining, canceled>>

TSNext ==
    \/ Tick
    \/ \E t \in Timer : Start(t) \/ Cancel(t)
    \/ \E th \in Thread, t \in Timer : Trigger(th, t) \/ Run(th, t)

TSSpec == TSInit /\ [][TSNext]_tsvars
=============================================================================
