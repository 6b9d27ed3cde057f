---------------------------- MODULE MCFThreadPool ----------------------------
(***************************************************************************)
(* FThreadPool with two workers and two callers that push three tasks.     *)
(***************************************************************************)
EXTENDS FThreadPool
=============================================================================
