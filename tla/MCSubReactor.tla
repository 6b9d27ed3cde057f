---------------------------- MODULE MCSubReactor ----------------------------
(***************************************************************************)
(* Two clients, so that a descriptor that is closed is soon given to       *)
(* somebody else.  The .cfg files give the instances their bounds.         *)
(***************************************************************************)
EXTENDS SubReactor, TLC

CONSTANTS alice, bob, worker

\* The clients are interchangeable where no liveness is checked.
Clients == Permutations({alice, bob})
=============================================================================
