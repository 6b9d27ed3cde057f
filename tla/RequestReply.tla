---------------------------- MODULE RequestReply ----------------------------
(***************************************************************************)
(* What HTTP promises the client of one connection: its requests are       *)
(* answered one by one, in their order, until the connection is closed.    *)
(***************************************************************************)
EXTENDS Naturals, Sequences

VARIABLES
    wanted,     \* the right answers to the requests so far
    answers,    \* those that were given
    open

vars == <<wanted, answers, open>>

Init == wanted = <<>> /\ answers = <<>> /\ open = TRUE

Ask ==
    /\ Len(wanted') = Len(wanted) + 1
    /\ SubSeq(wanted', 1, Len(wanted)) = wanted
    /\ UNCHANGED <<answers, open>>

Answer ==
    /\ open /\ Len(answers) < Len(wanted)
    /\ answers' = Append(answers, wanted[Len(answers) + 1])
    /\ UNCHANGED <<wanted, open>>

Close == open' = FALSE /\ UNCHANGED <<wanted, answers>>

Next == Ask \/ Answer \/ Close

Spec == Init /\ [][Next]_vars
=============================================================================
