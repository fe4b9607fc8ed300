----------------------------- MODULE MCInstance -----------------------------
EXTENDS Instance

(* Area 1 has a broadcast interface with another router and a              *)
(* point-to-point one, area 2 a passive one.                               *)
MCArea == {1, 2}
MCIntf == {10, 20}
MCAreaOf == [i \in MCIntf |-> i \div 10]
MCNear == [i \in MCIntf |-> CASE i = 10 -> {1} [] i = 11 -> {3} [] OTHER -> {}]

(* One area with one point-to-point interface. *)
OneIntf == {11}
OneAreaOf == [i \in OneIntf |-> 1]
OneNear == [i \in OneIntf |-> {3}]

(* One area with one broadcast interface and two other routers. *)
LanIntf == {10}
LanAreaOf == [i \in LanIntf |-> 1]
LanNear == [i \in LanIntf |-> {1, 2}]
=============================================================================
