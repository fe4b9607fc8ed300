------------------------------ MODULE MCRoutes ------------------------------
EXTENDS Daemon

C(t, c, c2, h) == [type |-> t, cost |-> c, cost2 |-> c2, hops |-> h]

(* Candidates of every class; two that tie, and type 2 externals whose     *)
(* order by cost is not that by external metric.  The default route (0) is *)
(* there or not.                                                           *)
Mixed ==
    <<{C(1, 1, 0, {1}), C(1, 1, 0, {2}), C(1, 2, 0, {2}), C(2, 1, 0, {1, Direct}),
       C(3, 1, 0, {2}), C(4, 1, 2, {1}), C(4, 2, 1, {2})}>>
    @@ (0 :> {C(4, 1, 1, {1})})

(* Connected now, behind a gateway later. *)
Moving == [d \in 0..1 |-> {C(1, 1, 0, {Direct}), C(1, 1, 0, {1}), C(1, 1, 0, {2})}]

(* Behind a gateway, at several costs. *)
Costs == [d \in 0..1 |-> {C(1, c, 0, {h}) : c \in 1..3, h \in {1, 2}}]

(* The processes differ only in their names. *)
CONSTANTS p1, p2
Processes == Permutations({p1, p2})
=============================================================================
