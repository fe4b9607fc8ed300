----------------------------- MODULE Extraction -----------------------------
(***************************************************************************)
(* Route extraction: what calculate_intra_area_routes,                     *)
(* calculate_inter_area_routes, calculate_asbr_routes and                  *)
(* calculate_external_routes make of the tree that Spf has finished and of *)
(* the Summary and AS External LSAs, as candidates for the routing table.  *)
(*                                                                         *)
(* One area.  Destinations are prefixes that are given as numbers.  The    *)
(* order of the lists is left open, for RouteChoice does not depend on it, *)
(* but for a forwarding address, where the first route wins.               *)
(***************************************************************************)
EXTENDS Spf

CONSTANTS
    Place,          \* destinations
    Asbr,           \* routers that originate AS External LSAs
    StubOf,         \* StubOf[r]: the stub links of router r
    PlaceOf,        \* PlaceOf[n]: the destination that network n is
    Summaries,      \* type 3 LSAs of the area
    AsbrSummaries,  \* type 4 LSAs of the area
    Externals,      \* type 5 LSAs
    Infinity,       \* LSInfinity
    Covers,         \* Covers[a]: the destinations that address a lies in
    Length          \* Length[d]: the length of prefix d

NoForward == 0

ASSUME ExtractionAssumption ==
    /\ \A r \in Router : /\ \A s \in StubOf[r] : s.to \in Place /\ s.metric \in Nat
                         /\ IsFiniteSet(StubOf[r])
    /\ PlaceOf \in [Net -> Place]
    /\ Summaries \subseteq [from : Router, to : Place, metric : Nat, old : BOOLEAN]
    /\ AsbrSummaries \subseteq [from : Router, to : Asbr, metric : Nat, old : BOOLEAN]
    /\ Externals \subseteq [from : Asbr, to : Place, metric : Nat, two : BOOLEAN,
                            forward : Nat, old : BOOLEAN]
    /\ IsFiniteSet(Summaries) /\ IsFiniteSet(Externals)
    /\ Length \in [Place -> Nat]
    /\ \A x \in Externals : x.forward # NoForward =>
          /\ Covers[x.forward] \subseteq Place
          /\ \A d, e \in Covers[x.forward] : Length[d] = Length[e] => d = e

-----------------------------------------------------------------------------
(* A candidate, with the destination that it is for. *)
To(d, r) == [to |-> d, route |-> r]
Path(type, cost, cost2, hops) == [type |-> type, cost |-> cost, cost2 |-> cost2, hops |-> hops]

(* calculate_intra_area_routes *)
Placings == {tree[i] : i \in Keys} \ {None}
Intra ==
    (UNION {{To(s.to, Path(1, e.dist + s.metric, 0, e.hops)) : s \in StubOf[e.v]} :
              e \in {p \in Placings : p.v \in Router}})
    \cup {To(PlaceOf[e.v], Path(1, e.dist, 0, e.hops)) : e \in {p \in Placings : p.v \in Net}}

(* The LSAs that count: not of age MaxAge, below LSInfinity, from a router *)
(* in the tree.                                                            *)
Reached(x) == x \in Router /\ InTree(x)
UsableInfinite(s) == ~s.old /\ Reached(s.from)   \* mutant: LSInfinity is a metric like others
Usable(s) == ~s.old /\ s.metric < Infinity /\ Reached(s.from)
EntryOf(s) == tree[IdOf[s.from]]

(* calculate_inter_area_routes *)
Inter ==
    {To(s.to, Path(2, EntryOf(s).dist + s.metric, 0, EntryOf(s).hops)) :
        s \in {t \in Summaries : /\ Usable(t) /\ t.from # Root
                                 /\ ~\E r \in Intra : r.to = t.to}}

(* calculate_asbr_routes *)
AsbrCosts(x) == {EntryOf(s).dist + s.metric : s \in {t \in AsbrSummaries : Usable(t) /\ t.to = x}}

(* _find_route_to: the first of the longest matches, intra-area before     *)
(* inter-area.                                                             *)
Matches(a, R) ==
    {r \in R : r.to \in Covers[a] /\ \A q \in Intra \cup Inter : q.to \in Covers[a] => Length[q.to] <= Length[r.to]}
FirstMatches(a) == IF Matches(a, Intra) # {} THEN Matches(a, Intra) ELSE Matches(a, Inter)

(* calculate_external_routes: the cost of a router outside the tree comes  *)
(* without next hops, and a smaller one replaces that of the tree without  *)
(* them.                                                                   *)
AsbrWay(x) ==
    LET tree0 == IF Reached(x) THEN {EntryOf([from |-> x]).dist} ELSE {}
    IN [cost |-> Least(tree0 \cup AsbrCosts(x)),
        hops |-> IF Reached(x) THEN EntryOf([from |-> x]).hops ELSE {}]
Ways(x) ==
    IF x.forward # NoForward /\ FirstMatches(x.forward) # {}
      THEN {[cost |-> m.route.cost, hops |-> m.route.hops] : m \in FirstMatches(x.forward)}
      ELSE {AsbrWay(x.from)}
Counted == {x \in Externals : ~x.old /\ (Reached(x.from) \/ AsbrCosts(x.from) # {})}
External(x) ==
    {IF x.two THEN Path(4, w.cost, x.metric, w.hops) ELSE Path(3, w.cost + x.metric, 0, w.hops) :
        w \in Ways(x)}

(* What the routing table may be offered for d. *)
Within(d) == {r.route : r \in {q \in Intra \cup Inter : q.to = d}}
Outside(d) ==
    LET X == {x \in Counted : x.to = d}
    IN {{f[x] : x \in X} : f \in {g \in [X -> UNION {External(x) : x \in X}] : \A x \in X : g[x] \in External(x)}}
Offers(d) == {Within(d) \cup S : S \in Outside(d)}
TableRoute(S) == FoldSet(LAMBDA c, r : Merge(r, c), NoRoute, S)

-----------------------------------------------------------------------------
(* Properties.                                                             *)

(* The reference: the costs of the paths to destination d of each class,   *)
(* by the distances in the graph of LSAs.                                  *)
IntraCosts(d, D) ==
    (UNION {{D[r] + s.metric : s \in {t \in StubOf[r] : t.to = d}} : r \in {q \in Router : D[q] < Far}})
    \cup {D[n] : n \in {m \in Net : D[m] < Far /\ PlaceOf[m] = d}}
Fresh(S, D) == {s \in S : ~s.old /\ s.metric < Infinity /\ D[s.from] < Far}
InterCosts(d, D) == {D[s.from] + s.metric : s \in {t \in Fresh(Summaries, D) : t.to = d /\ t.from # Root}}
Inside(d, D) == IF IntraCosts(d, D) # {} THEN IntraCosts(d, D) ELSE InterCosts(d, D)
ToAsbr(x, D) ==
    {D[r] : r \in {q \in Router : q = x /\ D[q] < Far}}
    \cup {D[s.from] + s.metric : s \in {t \in Fresh(AsbrSummaries, D) : t.to = x}}

(* The destination by which an address is reached. *)
Nearby(a, D) ==
    {d \in Covers[a] : Inside(d, D) # {} /\ \A e \in Covers[a] : Inside(e, D) # {} => Length[e] <= Length[d]}
WayCosts(x, D) ==
    LET by == IF x.forward = NoForward THEN {} ELSE Nearby(x.forward, D)
    IN IF by # {} THEN UNION {Inside(d, D) : d \in by} ELSE ToAsbr(x.from, D)
ExternalRanks(d, D) ==
    {LET way == Least(WayCosts(x, D)) IN IF x.two THEN <<4, x.metric, way>> ELSE <<3, 0, way + x.metric>> :
        x \in {y \in Externals : ~y.old /\ y.to = d /\ ToAsbr(y.from, D) # {}}}
Ranks(d, D) ==
    CASE IntraCosts(d, D) # {} -> {<<1, 0, Least(IntraCosts(d, D))>>}
      [] IntraCosts(d, D) = {} /\ InterCosts(d, D) # {} -> {<<2, 0, Least(InterCosts(d, D))>>}
      [] OTHER -> ExternalRanks(d, D)

(* From the LSAs to the routing table: the route to every destination is   *)
(* of the class that sections 16.1 to 16.4 prefer and has the cost of the  *)
(* shortest path, whatever other LSAs, old, infinite, own or of routers    *)
(* that cannot be reached, are in the database; and there is none when     *)
(* there is no path.                                                       *)
RoutesAreShortest ==
    cand = {} =>
       LET D == DistancesFrom(Root)
       IN \A d \in Place : \A S \in Offers(d) :
             LET r == TableRoute(S) ranks == Ranks(d, D)
             IN IF ranks = {} THEN r = NoRoute
                ELSE r # NoRoute /\ Rank(r) \in ranks /\ \A k \in ranks : ~Below(k, Rank(r))

(* "Calculate AS External routes from Type 5 LSAs": a destination outside  *)
(* the routing domain has a next hop, as its ASBR or forwarding address    *)
(* has.                                                                    *)
ExternalsHaveHops ==
    cand = {} =>
       \A d \in Place : \A S \in Offers(d) :
          LET r == TableRoute(S) IN r # NoRoute /\ r.type > 2 => r.hops # {}
=============================================================================
