--------------------------- MODULE MCUserService ----------------------------
(***************************************************************************)
(* UserService with the threads and connections that the .cfg files list.  *)
(***************************************************************************)
EXTENDS UserService
=============================================================================
