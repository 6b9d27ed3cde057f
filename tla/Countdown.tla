----------------------------- MODULE Countdown ------------------------------
(***************************************************************************)
(* What one tick of a timer facility does to a family of countdowns r, a   *)
(* function from timers to the number of ticks each has left before it     *)
(* expires, or Off for a timer that is not armed.                          *)
(***************************************************************************)
EXTENDS Integers

Off == -1

\* The timers that expire in the next tick.
Expiring(r) == {t \in DOMAIN r : r[t] = 0}

\* AfterTick that counts down timers that are not armed, too.
AfterTickUnarmed(r, again, ticks) ==
    [t \in DOMAIN r |-> IF r[t] = 0 /\ t \in again THEN ticks[t] ELSE r[t] - 1]

\* The countdowns after it; the timers of again start over from ticks[t].
AfterTick(r, again, ticks) ==
    [t \in DOMAIN r |->
        IF r[t] > 0 THEN r[t] - 1
        ELSE IF r[t] = 0 /\ t \in again THEN ticks[t]
        ELSE Off]
=============================================================================
