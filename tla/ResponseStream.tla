--------------------------- MODULE ResponseStream ---------------------------
(***************************************************************************)
(* What the client of one connection is promised of the responses on it:   *)
(* each announces how long it is and arrives byte after byte, in order;    *)
(* the next begins when it is complete; only the end of the connection     *)
(* cuts one short.  Byte i of a response is written i.                     *)
(***************************************************************************)
EXTENDS Naturals, Sequences

VARIABLES
    stream,     \* what has arrived of the latest response
    total,      \* its length
    phase       \* "idle" between responses, "sending", "closed"

vars == <<stream, total, phase>>

Init == stream = <<>> /\ total = 0 /\ phase = "idle"

Begin ==
    /\ phase = "idle" /\ phase' = "sending"
    /\ total' \in Nat \ {0}
    /\ stream' = <<>>

Deliver ==
    /\ phase = "sending"
    /\ Len(stream') \in Len(stream) + 1 .. total
    /\ stream' = [i \in 1 .. Len(stream') |-> i]
    /\ phase' = IF Len(stream') = total THEN "idle" ELSE "sending"
    /\ UNCHANGED total

Close == phase' = "closed" /\ UNCHANGED <<stream, total>>

Next == Begin \/ Deliver \/ Close

Spec == Init /\ [][Next]_vars
=============================================================================
