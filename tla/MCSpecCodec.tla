---------------------------- MODULE MCSpecCodec -----------------------------
(* Instances of SpecCodec for TLC: numbers around zero, and one that does  *)
(* not fit into an int32 field on each side.                               *)
EXTENDS SpecCodec

MCInts == {-2000, -1, 0, 1, 2000}
=============================================================================
