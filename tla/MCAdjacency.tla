---------------------------- MODULE MCAdjacency ----------------------------
(***************************************************************************)
(* Small instances of Adjacency: two LSAs, LSA n being the Router LSA of   *)
(* router n.                                                               *)
(***************************************************************************)
EXTENDS Adjacency

MCKey == {1, 2}
MCOwnKey == [n \in Node |-> n]

(* Router 2 also holds an old Router LSA of router 1, and its own is newer. *)
Stale == [n \in Node |-> [k \in MCKey |-> IF n = 2 THEN 2 ELSE IF k = n THEN 1 ELSE 0]]

NoFeed == [n \in Node |-> {}]
OneFeed == [n \in Node |-> IF n = 2 THEN {2} ELSE {}]
AllFeed == [n \in Node |-> {n}]

(* One LSA, that of router 2, of which others know newer instances. *)
OneKey == {2}
OneOwner == [n \in Node |-> 2]
OneHeld == [n \in Node |-> [k \in OneKey |-> IF n = 2 THEN 1 ELSE 0]]
BothFeed == [n \in Node |-> OneKey]
=============================================================================
