------------------------------- MODULE MCLsdb -------------------------------
(* Two areas with an LSA in common, one area with room for only one of two *)
(* LSAs, and an LSA outside the areas; sequence numbers on both sides of   *)
(* the sign change, and a second checksum and later ages for one of them.  *)
EXTENDS Lsdb

Copy(s, c, a) == [seq |-> s, sum |-> c, age |-> a]
MCWire == {Copy(2, 0, 0), Copy(3, 0, 0), Copy(3, 1, 3), Copy(0, 0, 1)}

(* A router that restarts originates the same instance again. *)
Again == {Copy(2, 0, 0)}
=============================================================================
