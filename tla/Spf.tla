-------------------------------- MODULE Spf --------------------------------
(***************************************************************************)
(* One run of DijkstraEngine.calculate over the link state database of an  *)
(* area, one vertex at a time, and the next hops it finds.                 *)
(*                                                                         *)
(* Vertices are routers and transit networks, as numbers.  The tree of the *)
(* code is a dict whose keys are addresses: the router ID of a router, the *)
(* DR's interface address for a network.  IdOf gives these keys, and two   *)
(* vertices may have the same one.  A next hop is the neighbour that it    *)
(* is the address of, or Direct.                                           *)
(***************************************************************************)
EXTENDS RouteChoice

CONSTANTS
    Router,    \* routers, a set of positive numbers
    Net,       \* transit networks, numbers too
    Root,      \* the router that calculates
    IdOf,      \* IdOf[v]: the key of vertex v
    Metrics,   \* the link metrics
    Lsdbs      \* the databases that the run may find

Vertex == Router \cup Net
NoLink == -1

(* The LSAs of an area that are not of age MaxAge: the vertices with an    *)
(* LSA, the metric of every router's link to every other router and to     *)
(* every network, and the routers that each Network LSA lists; and near,   *)
(* the vertices that the root's interfaces know as a neighbour or a DR.    *)
Lsdb == [has : SUBSET Vertex, link : [Router \X Vertex -> Metrics \cup {NoLink}],
         attached : [Net -> SUBSET Router], near : SUBSET Vertex]

ASSUME SpfAssumption ==
    /\ Router \subseteq Nat \ {0} /\ Net \subseteq Nat \ {0} /\ Router \cap Net = {}
    /\ IsFiniteSet(Vertex)
    /\ Root \in Router
    /\ IdOf \in [Vertex -> Nat]
    /\ Metrics \subseteq Nat /\ IsFiniteSet(Metrics)
    /\ Lsdbs \subseteq Lsdb
    /\ \A d \in Lsdbs : Root \in d.has /\ \A r \in Router : d.link[<<r, r>>] = NoLink

VARIABLES
    lsdb,   \* the database, which does not change during a run
    tree,   \* tree[i]: the vertex in the tree under key i, or None
    cand    \* the candidates: vertices with a distance and next hops

vars == <<lsdb, tree, cand>>

Keys == {IdOf[v] : v \in Vertex}
None == [dist |-> -1]
InTree(v) == tree[IdOf[v]] # None

Init ==
    /\ lsdb \in Lsdbs
    /\ tree = [i \in Keys |-> None]
    /\ cand = {[v |-> Root, dist |-> 0, hops |-> {}]}

-----------------------------------------------------------------------------
(* What a vertex leads to, and at what cost: a router by its links, a      *)
(* network to its attached routers at no cost, if there is an LSA.         *)
Cost(d, u, v) == IF u \in Router THEN d.link[<<u, v>>] ELSE 0
Leads(d, u) ==
    {v \in Vertex \ {u} :
        /\ v \in d.has
        /\ IF u \in Router THEN d.link[<<u, v>>] # NoLink ELSE v \in d.attached[u]}

(* _get_direct_nexthops *)
DirectHops(v) == CASE v \notin lsdb.near -> {}
                   [] v \in lsdb.near /\ v \in Router -> {v}
                   [] OTHER -> {Direct}

HopsByParent(c, v) ==   \* mutant: each router passes for the next hop to the one behind it
    IF c.v \in Router THEN DirectHops(v) ELSE c.hops
HopsTo(c, v) ==
    IF c.v = Root /\ DirectHops(v) # {} THEN DirectHops(v) ELSE c.hops

PushedFromRouters(c) ==   \* mutant: a Network LSA leads nowhere
    {[v |-> v, dist |-> c.dist + Cost(lsdb, c.v, v), hops |-> HopsTo(c, v)] :
        v \in {w \in Leads(lsdb, c.v) : c.v \in Router /\ ~InTree(w)}}
PushedUnlinked(c) ==   \* mutant: every vertex with an LSA, linked or not
    {[v |-> v, dist |-> c.dist + Cost(lsdb, c.v, v), hops |-> HopsTo(c, v)] :
        v \in {w \in lsdb.has : ~InTree(w) /\ w # c.v}}

(* _update_candidate for each link: the heap keeps every entry.            *)
Pushed(c) ==
    {[v |-> v, dist |-> c.dist + Cost(lsdb, c.v, v), hops |-> HopsTo(c, v)] :
        v \in {w \in Leads(lsdb, c.v) : ~InTree(w) /\ IdOf[w] # IdOf[c.v]}}

(* heapq.heappop; the order of links, which breaks ties, is left open.     *)
FirstIn(c) == c \in cand   \* mutant: a stack instead of a heap
Nearest(c) == c \in cand /\ \A e \in cand : c.dist <= e.dist

Pop(c) ==
    /\ Nearest(c)
    /\ IF InTree(c.v)
         THEN cand' = cand \ {c} /\ UNCHANGED tree
         ELSE /\ tree' = [tree EXCEPT ![IdOf[c.v]] = c]
              /\ cand' = (cand \ {c}) \cup Pushed(c)
    /\ UNCHANGED lsdb

Next == \E c \in cand : Pop(c)

Spec == Init /\ [][Next]_vars

-----------------------------------------------------------------------------
(* Properties.                                                             *)

Far == 1 + Cardinality(Vertex) * (CHOOSE m \in Metrics \cup {0} : \A n \in Metrics : n <= m)
Least(S) == CHOOSE m \in S : \A n \in S : m <= n

(* The reference: where a walk of at most n links from u may end, and how  *)
(* long it is; and the length of a shortest one, Far when there is none.   *)
Further(d, W) == W \cup UNION {{<<v, p[2] + Cost(d, p[1], v)>> : v \in Leads(d, p[1])} : p \in W}
WalksUpTo(d, u) ==
    LET w[n \in Nat] == IF n = 0 THEN {<<u, 0>>} ELSE Further(d, w[n - 1])
    IN w
Walks(d, u) == WalksUpTo(d, u)[Cardinality(Vertex) - 1]
DistancesFrom(u) ==
    LET W == Walks(lsdb, u)
    IN [v \in Vertex |-> Least({p[2] : p \in {q \in W : q[1] = v}} \cup {Far})]

Entry == [v : Vertex, dist : Nat, hops : SUBSET (Router \cup {Direct})]
TypeOK ==
    /\ lsdb \in Lsdb
    /\ tree \in [Keys -> Entry \cup {None}]
    /\ cand \subseteq Entry

Placed(v) == InTree(v) /\ tree[IdOf[v]].v = v

(* What is in the tree stays there, so its distance must be the shortest   *)
(* one at the moment it is put in, although stale entries of the same      *)
(* vertex remain in the heap and links may be one-way.                     *)
TreeIsShortest ==
    LET D == DistancesFrom(Root)
    IN \A v \in Vertex : Placed(v) => tree[IdOf[v]].dist = D[v]

(* Every next hop of a vertex starts a shortest path to it.                *)
StartOf(h) == IF h = Direct THEN {n \in Net : n \in lsdb.near} ELSE {h}
NextHopsLead ==
    LET D == [s \in Leads(lsdb, Root) |-> DistancesFrom(s)]
    IN \A v \in Vertex \ {Root} : Placed(v) =>
          \A h \in tree[IdOf[v]].hops : \E s \in StartOf(h) :
             /\ s \in Leads(lsdb, Root)
             /\ Cost(lsdb, Root, s) + D[s][v] = tree[IdOf[v]].dist

(* When the heap is empty, the tree has exactly the vertices that can be   *)
(* reached.                                                                *)
ReachesAll ==
    cand = {} =>
       LET D == DistancesFrom(Root) IN \A v \in Vertex : Placed(v) <=> D[v] < Far

(* The README promises "calculation with ECMP": every neighbour that       *)
(* starts a shortest path is a next hop.                                   *)
EqualCostPaths ==
    cand = {} => \A v \in Vertex \ {Root} : Placed(v) =>
       \A s \in Leads(lsdb, Root) \cap lsdb.near \cap Router :
          Cost(lsdb, Root, s) + DistancesFrom(s)[v] = tree[IdOf[v]].dist => s \in tree[IdOf[v]].hops

(* _convert_nexthops takes the next hop 0.0.0.0 for a "Connected route":   *)
(* only a network that the root is attached to has it.                     *)
DirectIsConnected ==
    \A v \in Vertex : Placed(v) /\ Direct \in tree[IdOf[v]].hops => v \in Net /\ v \in lsdb.near

(* calculate follows section 16.1, which has a vertex examined only when   *)
(* its LSA has a link back to the parent.                                  *)
LinksBothWays ==
    \A v \in Vertex \ {Root} : Placed(v) => \E u \in Leads(lsdb, v) : v \in Leads(lsdb, u)
=============================================================================
