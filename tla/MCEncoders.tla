----------------------------- MODULE MCEncoders -----------------------------
(* Small instances of Encoders. *)
EXTENDS Encoders

MCShift == [k \in 0 .. Order |-> 2 ^ k]
MCFileLength == {0, 1, 31, 40, 64, 70}
=============================================================================
