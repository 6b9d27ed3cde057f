---------------------------- MODULE MCTimerWheel ----------------------------
(***************************************************************************)
(* A wheel of three slots shared by the loop that ticks it and one other   *)
(* thread: a timer that needs a rotation and a bit (4 ticks) and a         *)
(* repeating one of exactly one rotation (3 ticks).                        *)
(***************************************************************************)
EXTENDS TimerWheel, TLC

CONSTANTS slow, beat, loop, other

MCTimer == {slow, beat}
MCRepeating == {beat}
MCTicks == slow :> 4 @@ beat :> 3
MCThread == {loop, other}
=============================================================================
