---------------------------- MODULE RouteChoice ----------------------------
(***************************************************************************)
(* Candidates for a destination, as route extraction computes them and the *)
(* routing table compares and merges them.  A next hop is a neighbour, or  *)
(* Direct for 0.0.0.0.                                                     *)
(***************************************************************************)
EXTENDS Integers, FiniteSets, SequencesExt

Direct == 0

(* path_type: intra-area, inter-area, type 1 external, type 2 external.    *)
Candidate == [type : 1..4, cost : Nat, cost2 : Nat, hops : SUBSET Nat]
NoRoute == [type |-> 0]

IsBetterThan(a, b) ==
    IF a.type # b.type THEN a.type < b.type
    ELSE \/ a.type = 4 /\ a.cost2 < b.cost2
         \/ (a.type = 4 => a.cost2 = b.cost2) /\ a.cost < b.cost

MergeFirst(old, c) ==   \* mutant: next hops of equal routes are not merged
    IF old = NoRoute \/ IsBetterThan(c, old) THEN c ELSE old
(* One more candidate for a destination. *)
Merge(old, c) ==
    CASE old = NoRoute \/ IsBetterThan(c, old) -> c
      [] old # NoRoute /\ ~IsBetterThan(c, old) ->
           IF ~IsBetterThan(old, c) /\ c.type = old.type
             THEN [old EXCEPT !.hops = @ \cup c.hops] ELSE old

Best(s) == FoldLeft(Merge, NoRoute, s)

(* The reference, without an order: the class and cost that section 16.3.2 *)
(* prefers, with the next hops of all candidates that have them.           *)
Rank(c) == <<c.type, c.cost2, c.cost>>
Below(a, b) ==
    \/ a[1] < b[1]
    \/ a[1] = b[1] /\ (a[2] < b[2] \/ (a[2] = b[2] /\ a[3] < b[3]))
Top(S) == {c \in S : \A b \in S : ~Below(Rank(b), Rank(c))}
BestOf(S) ==
    IF S = {} THEN NoRoute
    ELSE [(CHOOSE c \in Top(S) : TRUE) EXCEPT !.hops = UNION {c.hops : c \in Top(S)}]
=============================================================================
