---------------------------- MODULE MCLogShipper ----------------------------
(* Small instances of LogShipper. *)
EXTENDS LogShipper

CONSTANTS l1, l2, l3, l4

MCLine == {l1, l2, l3, l4}
MCUnescaped == {l4}
=============================================================================
