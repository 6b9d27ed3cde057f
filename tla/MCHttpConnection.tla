-------------------------- MODULE MCHttpConnection --------------------------
(***************************************************************************)
(* HttpConnection with two requests, and a buffer that some of them fill   *)
(* or exceed.                                                              *)
(***************************************************************************)
EXTENDS HttpConnection

\* The network cuts only request lines, or nothing.
GentleModes == {[pool |-> TRUE, cuts |-> {"method"}],
                [pool |-> FALSE, cuts |-> {}]}

\* It cuts after any piece.
CutModes == [pool : BOOLEAN, cuts : {{"method", "line", "fields", "end", "body"}}]
=============================================================================
