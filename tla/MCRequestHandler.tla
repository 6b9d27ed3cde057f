-------------------------- MODULE MCRequestHandler --------------------------
(***************************************************************************)
(* RequestHandler with files of no byte and of three, pages of two bytes,  *)
(* and a size_t of four bits.                                              *)
(***************************************************************************)
EXTENDS RequestHandler
=============================================================================
