--------------------------- MODULE MCHttpClients ----------------------------
(* Small instances of HttpClients. *)
EXTENDS HttpClients

CONSTANTS loop, check1, check2

MCThread == {loop, check1, check2}
=============================================================================
