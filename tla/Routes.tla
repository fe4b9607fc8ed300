------------------------------- MODULE Routes -------------------------------
(***************************************************************************)
(* The routing table and its copy in the kernel: what update makes of the  *)
(* candidates that an SPF run computed, what sync_to_kernel pushes, and    *)
(* what Netlink makes of that.                                             *)
(*                                                                         *)
(* An SPF run is one callback; the kernel may refuse any of the calls that *)
(* it makes, and the code goes on with the next one.  A kernel entry is    *)
(* known by its destination and its metric, so that a replace with another *)
(* metric adds an entry, and a delete without a metric takes the entry of  *)
(* lowest metric.                                                          *)
(***************************************************************************)
EXTENDS RouteChoice

CONSTANTS
    Dest,      \* destinations
    Default,   \* the destination 0.0.0.0/0
    Route,     \* Route[d]: the candidates that SPF may compute for d
    Most,      \* bound: candidates in one run
    Refusals   \* TRUE: the kernel may refuse a call, or the socket itself

ASSUME RoutesAssumption ==
    /\ IsFiniteSet(Dest)
    /\ Route \in [Dest -> SUBSET Candidate] /\ Most \in Nat
    /\ \A d \in Dest : \A c \in Route[d] : c.type # 4 => c.cost2 = 0
    /\ Refusals \in BOOLEAN

VARIABLES
    routes,    \* _routes: the route to each destination, or NoRoute
    kernel,    \* the kernel's entries with proto 89
    running,   \* between start and the end of shutdown
    netlink,   \* _netlink is not None
    offered,   \* history: the candidates of the last SPF run
    refused    \* history: the destinations for which a call failed last

vars == <<routes, kernel, running, netlink, offered, refused>>

(* The lists come one after the other: intra-area, inter-area, externals.  *)
Class(c) == IF c.type < 3 THEN c.type ELSE 3
Lists(d) ==
    {s \in UNION {[1..n -> Route[d]] : n \in 0..Most} :
        \A i, j \in DOMAIN s : i < j => Class(s[i]) <= Class(s[j])}

(* What an SPF run may come to: candidates for each destination, and what  *)
(* update makes of the order in which they are listed.                     *)
Runs ==
    LET Computed == {l \in [Dest -> UNION {Lists(d) : d \in Dest}] :
                       /\ \A d \in Dest : l[d] \in Lists(d)
                       /\ MapThenSumSet(LAMBDA d : Len(l[d]), Dest) <= Most}
    IN {[from |-> [d \in Dest |-> ToSet(l[d])], best |-> [d \in Dest |-> Best(l[d])]] :
          l \in Computed}

Init ==
    /\ routes = [d \in Dest |-> NoRoute]
    /\ kernel = {} /\ running = TRUE /\ netlink = TRUE
    /\ offered = [d \in Dest |-> {}]
    /\ refused = {}

-----------------------------------------------------------------------------
(* update *)

ChangedByCost(old, new) ==   \* mutant: next hops are not compared
    old.cost # new.cost \/ old.type # new.type
Changed(old, new) ==
    old.cost # new.cost \/ old.type # new.type \/ old.hops # new.hops \/ old.cost2 # new.cost2

(* sync_to_kernel and the Netlink calls. *)
EntryAll(d, r) ==   \* mutant: connected next hops are passed on
    [dest |-> d, metric |-> r.cost, hops |-> r.hops]
Entry(d, r) == [dest |-> d, metric |-> r.cost, hops |-> r.hops \ {Direct}]
Lowest(K, d) == {e \in K : e.dest = d /\ \A f \in K : f.dest = d => e.metric <= f.metric}
Deleted(K, D) == K \ UNION {Lowest(K, d) : d \in D}
Replaced(K, E) == {f \in K : ~\E e \in E : e.dest = f.dest /\ e.metric = f.metric} \cup E

(* The destinations for which the kernel refuses a call out of these.      *)
Failing(D) == IF Refusals THEN SUBSET D ELSE {{}}

RunSpf(run) ==
    LET new     == run.best
        removed == {d \in Dest : routes[d] # NoRoute /\ new[d] = NoRoute}
        pushed  == {d \in Dest :
                      /\ new[d] # NoRoute
                      /\ routes[d] # NoRoute => Changed(routes[d], new[d])
                      /\ new[d].hops \ {Direct} # {}}
    IN /\ running /\ netlink
       /\ \E no \in Failing(pushed \cup removed) :
            /\ kernel' = Replaced(Deleted(kernel, removed \ no),
                                  {Entry(d, new[d]) : d \in pushed \ no})
            /\ refused' = (refused \ (pushed \cup removed)) \cup no
       /\ routes' = new /\ offered' = run.from
       /\ UNCHANGED <<running, netlink>>

(* flush_ospf_routes calls delete once for each entry listed that has an  *)
(* RTA_DST attribute, which takes the entry of lowest metric, or fails and *)
(* is passed over.  done[d] of the calls for d succeed; none do if the     *)
(* entries cannot be listed.                                               *)
CallsOnce(d) ==   \* mutant: one call for a destination, not for an entry
    IF d # Default /\ \E e \in kernel : e.dest = d THEN 1 ELSE 0
Calls(d) == Cardinality({e \in kernel : e.dest = d /\ d # Default})
Flush(done) ==
    /\ kernel' = {e \in kernel :
                    Cardinality({f \in kernel : f.dest = e.dest /\ f.metric < e.metric})
                      >= done[e.dest]}
    /\ refused' = {d \in Dest : done[d] < Calls(d)}

(* Without a socket there is nothing to flush the routes with.             *)
Shutdown ==
    /\ running /\ running' = FALSE
    /\ \/ /\ netlink
          /\ \E done \in [Dest -> 0..Cardinality(kernel)] :
               /\ \A d \in Dest : done[d] <= Calls(d) /\ (Refusals \/ done[d] = Calls(d))
               /\ Flush(done)
       \/ /\ ~netlink
          /\ UNCHANGED <<kernel, refused>>
    /\ UNCHANGED <<routes, netlink, offered>>

(* The next process, after a shutdown or a crash, starts with an empty     *)
(* table and leaves the kernel alone.  init_netlink may fail; then no SPF  *)
(* ever runs, for the event loop does not.                                 *)
Start ==
    /\ running' = TRUE
    /\ netlink' \in IF Refusals THEN BOOLEAN ELSE {TRUE}
    /\ routes' = [d \in Dest |-> NoRoute]
    /\ offered' = [d \in Dest |-> {}]
    /\ refused' = {}
    /\ UNCHANGED kernel

Next ==
    \/ \E run \in Runs : RunSpf(run)
    \/ Shutdown \/ Start

Spec == Init /\ [][Next]_vars

-----------------------------------------------------------------------------
(* Properties.                                                             *)

KernelEntry == [dest : Dest, metric : Nat, hops : SUBSET (Nat \ {Direct})]

TypeOK ==
    /\ routes \in [Dest -> Candidate \cup {NoRoute}]
    /\ kernel \subseteq KernelEntry
    /\ running \in BOOLEAN /\ netlink \in BOOLEAN
    /\ offered \in [Dest -> SUBSET Candidate]
    /\ \A d \in Dest : offered[d] \subseteq Route[d]
    /\ refused \subseteq Dest

(* The table holds, for every destination, the candidate that section      *)
(* 16.3.2 prefers, with the next hops of all candidates as good as it, in  *)
(* whatever order they were computed.                                      *)
BestWins == \A d \in Dest : routes[d] = BestOf(offered[d])

(* The kernel's routes follow the candidates as module Fib promises, which *)
(* knows neither the table nor the order of the lists.                     *)
F == INSTANCE Fib WITH offer <- offered
RefinesFib == F!Spec

(* Whatever the kernel held before, the route that the table has is in it, *)
(* with its next hops and metric, if the kernel took it.                   *)
HasGateway(d) == routes[d] # NoRoute /\ routes[d].hops \ {Direct} # {}
Installed ==
    \A d \in Dest : HasGateway(d) /\ running /\ d \notin refused => Entry(d, routes[d]) \in kernel

(* When a process that had its socket has shut down, the kernel has no     *)
(* entry of it, nor of one that crashed or failed to withdraw its routes   *)
(* before it, but for the default route and for destinations of which the  *)
(* kernel refused a delete in this very shutdown (flush_ospf_routes).      *)
NothingLeft ==
    ~running /\ netlink => \A e \in kernel : e.dest = Default \/ e.dest \in refused

(* flush_ospf_routes "Remove all OSPF-installed routes": of a kernel that  *)
(* refuses nothing.                                                        *)
AllFlushed == ~running /\ netlink /\ refused = {} => kernel = {}

(* install_route "Uses 'replace' semantics for idempotent updates": the    *)
(* kernel has one entry for a destination, not one for each metric that    *)
(* its route has had.                                                      *)
OneEntry == \A e, f \in kernel : e.dest = f.dest => e = f

(* The table is there to push only the changes: the kernel has no entry    *)
(* for a destination to which the table has no gateway.                    *)
NoStrayEntry == \A e \in kernel : HasGateway(e.dest)
=============================================================================
