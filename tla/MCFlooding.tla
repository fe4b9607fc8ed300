----------------------------- MODULE MCFlooding -----------------------------
EXTENDS Flooding

(* One link. *)
LinkOn == [s \in {12} |-> {1, 2}]
LinkHead == [s \in {12} |-> Nobody]

(* A line of two links. *)
LineOn == [s \in {12, 23} |-> {s \div 10, s % 10}]
LineHead == [s \in {12, 23} |-> Nobody]

(* One broadcast network of three: 3 is the DR, 2 the backup. *)
LanOn == [s \in {0} |-> {1, 2, 3}]
LanChief == [s \in {0} |-> 3]
LanDeputy == [s \in {0} |-> 2]

(* The same with one more router: 1 and 4 meet only by way of the DR. *)
WideOn == [s \in {0} |-> 1..4]
=============================================================================
