------------------------------- MODULE MCLan -------------------------------
(* Two or three routers; by router ID alone the highest has the best claim. *)
EXTENDS Lan

MCRouter == {1, 2, 3}

OneFavoured == [r \in MCRouter |-> IF r = 1 THEN 2 ELSE 1]

MCPair == {1, 2}
EqualPair == [r \in MCPair |-> 1]
=============================================================================
