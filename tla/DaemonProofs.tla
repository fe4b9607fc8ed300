---------------------------- MODULE DaemonProofs ----------------------------
(***************************************************************************)
(* Proofs about modules Routes and Daemon, for all destinations,           *)
(* candidates, numbers of candidates and processes.                        *)
(*                                                                         *)
(* A step of a process is a step of the routing table or leaves it alone,  *)
(* so that what the table and the kernel keep between them is shown for    *)
(* the steps of Routes.  What Best computes matters only where the table   *)
(* is compared with the best of all candidates, as BestWins and Fib do.    *)
(***************************************************************************)
EXTENDS Daemon, RouteChoiceProofs, FunctionTheorems, FiniteSetTheorems

(* The kernel has OSPF routes only to destinations of the table. *)
KernelKnown == \A e \in kernel : e.dest \in Dest

(* What every process keeps of the table and the kernel. *)
RInv == Installed /\ KernelKnown

(* A process that runs has its name in the file; two cannot. *)
Named == /\ at \in [Proc -> {"gone", "up", "ended"}]
         /\ pidFile \in Proc \cup {NoFile}
         /\ \A p \in Proc : at[p] # "gone" => pidFile = p

-----------------------------------------------------------------------------
(* The kernel's operations. *)

(* Withdrawing routes and replacing others leaves an entry alone whose     *)
(* destination is neither.                                                 *)
LEMMA OthersStay ==
    ASSUME NEW K, NEW D, NEW E, NEW e \in K,
           e.dest \notin D, \A g \in E : g.dest # e.dest
    PROVE  e \in Replaced(Deleted(K, D), E)
<1>1. e \in Deleted(K, D)
  BY DEF Deleted, Lowest
<1> QED
  BY <1>1 DEF Replaced

(* A route that is neither new nor changed has the entry that it had.      *)
LEMMA SameEntry ==
    ASSUME NEW d, NEW old, NEW new, ~Changed(old, new)
    PROVE  Entry(d, old) = Entry(d, new) /\ old.hops = new.hops
  BY DEF Changed, Entry

-----------------------------------------------------------------------------
(* The steps of the table. *)

LEMMA RunSpfKnown == ASSUME KernelKnown, NEW run, RunSpf(run) PROVE KernelKnown'
<1> DEFINE new     == run.best
           removed == {d \in Dest : routes[d] # NoRoute /\ new[d] = NoRoute}
           pushed  == {d \in Dest :
                         /\ new[d] # NoRoute
                         /\ routes[d] # NoRoute => Changed(routes[d], new[d])
                         /\ new[d].hops \ {Direct} # {}}
<1>1. PICK no \in Failing(pushed \cup removed) :
        kernel' = Replaced(Deleted(kernel, removed \ no), {Entry(d, new[d]) : d \in pushed \ no})
  BY DEF RunSpf
<1> HIDE DEF new
<1>2. \A e \in Deleted(kernel, removed \ no) : e \in kernel
  BY DEF Deleted
<1>3. \A d \in pushed \ no : Entry(d, new[d]).dest = d
  BY DEF Entry
<1>q. QED
  BY <1>1, <1>2, <1>3 DEF KernelKnown, Replaced

LEMMA RunSpfInv == ASSUME RInv, NEW run, RunSpf(run) PROVE RInv'
<1> DEFINE new     == run.best
           removed == {d \in Dest : routes[d] # NoRoute /\ new[d] = NoRoute}
           pushed  == {d \in Dest :
                         /\ new[d] # NoRoute
                         /\ routes[d] # NoRoute => Changed(routes[d], new[d])
                         /\ new[d].hops \ {Direct} # {}}
<1>1. /\ running
      /\ routes' = new /\ UNCHANGED running
  BY DEF RunSpf
<1>2. PICK no \in Failing(pushed \cup removed) :
        /\ kernel' = Replaced(Deleted(kernel, removed \ no), {Entry(d, new[d]) : d \in pushed \ no})
        /\ refused' = (refused \ (pushed \cup removed)) \cup no
  BY DEF RunSpf
<1> HIDE DEF new
<1>3. Installed'
  <2> SUFFICES ASSUME NEW d \in Dest, new[d] # NoRoute, new[d].hops \ {Direct} # {}, d \notin refused'
               PROVE  Entry(d, new[d]) \in kernel'
    BY <1>1 DEF Installed, HasGateway, Entry
  <2>1. CASE d \in pushed
    BY <1>2, <2>1 DEF Replaced
  <2>2. CASE d \notin pushed
    <3>1. /\ routes[d] # NoRoute /\ ~Changed(routes[d], new[d])
          /\ d \notin removed /\ d \notin refused
      BY <1>2, <2>2
    <3>2. Entry(d, routes[d]) = Entry(d, new[d]) /\ HasGateway(d)
      BY <3>1, SameEntry DEF HasGateway
    <3>3. Entry(d, new[d]) \in kernel
      BY <1>1, <3>1, <3>2 DEF RInv, Installed
    <3> DEFINE E == {Entry(x, new[x]) : x \in pushed \ no}
    <3>4. Entry(d, new[d]).dest = d /\ \A g \in E : g.dest # d
      BY <2>2 DEF Entry
    <3>5. Entry(d, new[d]) \in Replaced(Deleted(kernel, removed \ no), E)
      <4> HIDE DEF E, removed
      <4> QED
        BY <3>1, <3>3, <3>4, OthersStay
    <3> QED
      BY <1>2, <3>5
  <2> QED
    BY <2>1, <2>2
<1>4. KernelKnown'
  BY RunSpfKnown DEF RInv
<1> QED
  BY <1>3, <1>4 DEF RInv

LEMMA ShutdownLess == ASSUME Shutdown PROVE kernel' \subseteq kernel
  BY DEF Shutdown, Flush

LEMMA ShutdownInv == ASSUME RInv, Shutdown PROVE RInv'
<1>1. ~running'
  BY DEF Shutdown
<1>q. QED
  BY <1>1, ShutdownLess DEF RInv, Installed, KernelKnown

LEMMA StartInv == ASSUME RInv, Start PROVE RInv'
  BY DEF RInv, Start, Installed, KernelKnown, HasGateway

(* What a daemon does is a step of the routing table or none. *)
LEMMA TableSteps ==
    ASSUME [DaemonNext]_daemonVars
    PROVE  \/ \E run : RunSpf(run)
           \/ Shutdown \/ Start \/ UNCHANGED vars
  BY DEF DaemonNext, daemonVars, Begin, Refuse, Calculate, Stop, RemovePid, Crash, CleanUp

LEMMA RInvNext == RInv /\ [DaemonNext]_daemonVars => RInv'
<1> SUFFICES ASSUME RInv, [DaemonNext]_daemonVars PROVE RInv'
  OBVIOUS
<1>1. CASE UNCHANGED vars
  BY <1>1 DEF vars, RInv, Installed, KernelKnown, HasGateway, Entry
<1> QED
  BY <1>1, TableSteps, RunSpfInv, ShutdownInv, StartInv

(* Routing table and kernel: sync_to_kernel pushes differences only, and   *)
(* yet every route with a gateway is in the kernel unless that refused it, *)
(* over any number of runs, shutdowns and crashes.                         *)
THEOREM InstalledAlways == DaemonSpec => []Installed
<1>1. DaemonInit => RInv
  BY DEF DaemonInit, Init, RInv, Installed, KernelKnown, HasGateway
<1>2. RInv => Installed
  BY DEF RInv
<1> QED
  BY <1>1, <1>2, RInvNext, PTL DEF DaemonSpec

-----------------------------------------------------------------------------
(* The routes of the table. *)

LEMMA ListIsProper ==
    ASSUME NEW d \in Dest, NEW s \in Lists(d)
    PROVE  /\ Best(s) = BestOf(ToSet(s)) /\ ToSet(s) \subseteq Route[d]
           /\ Best(s) \in Candidate \cup {NoRoute}
<1>1. PICK n \in 0..Most : s \in [1..n -> Route[d]]
  BY DEF Lists
<1>2. Route[d] \subseteq Proper
  BY RoutesAssumption DEF Proper
<1>3. n \in Nat /\ DOMAIN s = 1..n /\ \A i \in 1..n : s[i] \in Proper
  BY <1>1, <1>2, RoutesAssumption
<1>4. Best(s) = BestOf(ToSet(s)) /\ Best(s) \in Proper \cup {NoRoute}
  BY <1>3, BestOfList
<1>5. ToSet(s) \subseteq Route[d]
  BY <1>1 DEF ToSet
<1>q. QED
  BY <1>4, <1>5 DEF Proper

LEMMA RunIsProper ==
    ASSUME NEW run \in Runs
    PROVE  /\ run.best \in [Dest -> Candidate \cup {NoRoute}]
           /\ run.from \in [Dest -> SUBSET Candidate]
           /\ \A d \in Dest : run.from[d] \subseteq Route[d] /\ run.best[d] = BestOf(run.from[d])
<1>1. PICK l \in [Dest -> UNION {Lists(d) : d \in Dest}] :
        /\ \A d \in Dest : l[d] \in Lists(d)
        /\ run = [from |-> [d \in Dest |-> ToSet(l[d])], best |-> [d \in Dest |-> Best(l[d])]]
  BY DEF Runs
<1>2. \A d \in Dest : /\ Best(l[d]) = BestOf(ToSet(l[d])) /\ ToSet(l[d]) \subseteq Route[d]
                      /\ Best(l[d]) \in Candidate \cup {NoRoute}
  BY <1>1, ListIsProper
<1>3. \A d \in Dest : ToSet(l[d]) \subseteq Candidate
  BY <1>2, RoutesAssumption
<1>q. QED
  BY <1>1, <1>2, <1>3

LEMMA NoCandidates == BestOf({}) = NoRoute
  BY DEF BestOf

TInv == TypeOK /\ BestWins

LEMMA RunSpfTable == ASSUME TInv, NEW run \in Runs, RunSpf(run) PROVE TInv'
<1> DEFINE new     == run.best
           removed == {d \in Dest : routes[d] # NoRoute /\ new[d] = NoRoute}
           pushed  == {d \in Dest :
                         /\ new[d] # NoRoute
                         /\ routes[d] # NoRoute => Changed(routes[d], new[d])
                         /\ new[d].hops \ {Direct} # {}}
<1>1. routes' = new /\ offered' = run.from /\ UNCHANGED <<running, netlink>>
  BY DEF RunSpf
<1>2. PICK no \in Failing(pushed \cup removed) :
        /\ kernel' = Replaced(Deleted(kernel, removed \ no), {Entry(d, new[d]) : d \in pushed \ no})
        /\ refused' = (refused \ (pushed \cup removed)) \cup no
  BY DEF RunSpf
<1>3. \A d \in Dest : new[d] \in Candidate \cup {NoRoute}
  BY RunIsProper
<1> HIDE DEF new
<1>4. \A d \in pushed : Entry(d, new[d]) \in KernelEntry
  <2> SUFFICES ASSUME NEW d \in pushed PROVE Entry(d, new[d]) \in KernelEntry
    OBVIOUS
  <2>1. new[d] \in Candidate
    BY <1>3
  <2>q. QED
    BY <2>1 DEF Entry, KernelEntry, Candidate
<1>5. kernel' \subseteq KernelEntry
  BY <1>2, <1>4 DEF TInv, TypeOK, Replaced, Deleted
<1>6. no \subseteq Dest
  BY DEF Failing
<1>7. refused' \subseteq Dest /\ running' \in BOOLEAN /\ netlink' \in BOOLEAN
  BY <1>1, <1>2, <1>6 DEF TInv, TypeOK
<1>8. TypeOK'
  BY <1>1, <1>5, <1>7, RunIsProper DEF TypeOK, new
<1>9. BestWins'
  BY <1>1, RunIsProper DEF BestWins, new
<1>q. QED
  BY <1>8, <1>9 DEF TInv

LEMMA TableStepsTyped ==
    ASSUME [DaemonNext]_daemonVars
    PROVE  \/ \E run \in Runs : RunSpf(run)
           \/ Shutdown \/ Start \/ UNCHANGED vars
  BY DEF DaemonNext, daemonVars, Begin, Refuse, Calculate, Stop, RemovePid, Crash, CleanUp

LEMMA TableInit == Init => TInv
  BY NoCandidates DEF Init, TInv, TypeOK, BestWins

LEMMA TableNext == TInv /\ [DaemonNext]_daemonVars => TInv'
<1> SUFFICES ASSUME TInv, [DaemonNext]_daemonVars PROVE TInv'
  OBVIOUS
<1>1. CASE UNCHANGED vars
  BY <1>1 DEF vars, TInv, TypeOK, BestWins
<1>2. CASE Shutdown
  <2>1. kernel' \subseteq kernel
    BY <1>2, ShutdownLess
  <2>2. refused' \subseteq Dest
    BY <1>2 DEF Shutdown, Flush, TInv, TypeOK
  <2>q. QED
    BY <1>2, <2>1, <2>2 DEF Shutdown, TInv, TypeOK, BestWins
<1>3. CASE Start
  <2>1. netlink' \in BOOLEAN
    BY <1>3 DEF Start
  <2>q. QED
    BY <1>3, <2>1, NoCandidates DEF Start, TInv, TypeOK, BestWins
<1>q. QED
  BY <1>1, <1>2, <1>3, TableStepsTyped, RunSpfTable

(* The table has candidates and the kernel entries for known destinations  *)
(* without the next hop 0.0.0.0.                                           *)
THEOREM TableTypeCorrect == DaemonSpec => []TypeOK
<1>1. DaemonInit => TInv
  BY TableInit DEF DaemonInit
<1>2. TInv => TypeOK
  BY DEF TInv
<1>q. QED
  BY <1>1, <1>2, TableNext, PTL DEF DaemonSpec

(* update: whatever the number and order of the candidates, the table has  *)
(* the one that section 16.3.2 prefers, with the next hops of all that are *)
(* as good.                                                                *)
THEOREM BestAlwaysWins == DaemonSpec => []BestWins
<1>1. DaemonInit => TInv
  BY TableInit DEF DaemonInit
<1>2. TInv => BestWins
  BY DEF TInv
<1>q. QED
  BY <1>1, <1>2, TableNext, PTL DEF DaemonSpec

-----------------------------------------------------------------------------
(* The end of a process. *)

(* The kernel never has infinitely many entries.                           *)
LEMMA FewEntries == ASSUME IsFiniteSet(kernel), NEW run, RunSpf(run) PROVE IsFiniteSet(kernel')
<1> DEFINE new     == run.best
           removed == {d \in Dest : routes[d] # NoRoute /\ new[d] = NoRoute}
           pushed  == {d \in Dest :
                         /\ new[d] # NoRoute
                         /\ routes[d] # NoRoute => Changed(routes[d], new[d])
                         /\ new[d].hops \ {Direct} # {}}
<1>1. PICK no \in Failing(pushed \cup removed) :
        kernel' = Replaced(Deleted(kernel, removed \ no), {Entry(d, new[d]) : d \in pushed \ no})
  BY DEF RunSpf
<1> DEFINE E == {Entry(d, new[d]) : d \in pushed \ no}
           M == [d \in pushed \ no |-> Entry(d, new[d])]
<1>2. IsFiniteSet(pushed \ no)
  <2>1. pushed \ no \subseteq Dest /\ IsFiniteSet(Dest)
    BY RoutesAssumption
  <2>q. QED
    BY <2>1, FS_Subset
<1> HIDE DEF new, pushed
<1>3. IsFiniteSet(E)
  <2>1. M \in [pushed \ no -> E] /\ \A g \in E : \E d \in pushed \ no : M[d] = g
    OBVIOUS
  <2>2. M \in Surjection(pushed \ no, E)
    BY <2>1, Fun_IsSurj
  <2>q. QED
    BY <1>2, <2>2, FS_Surjection
<1>4. kernel' \subseteq kernel \cup E
  BY <1>1 DEF Replaced, Deleted
<1>q. QED
  BY <1>3, <1>4, FS_Union, FS_Subset

(* An entry survives the flush only if one of the calls for its            *)
(* destination failed: as many deletes of the lowest as there are entries  *)
(* leave none.                                                             *)
LEMMA FlushLeaves ==
    ASSUME IsFiniteSet(kernel), kernel \subseteq KernelEntry, NEW done \in [Dest -> 0..Cardinality(kernel)], Flush(done),
           NEW e \in kernel', e.dest \in Dest \ {Default}
    PROVE  e.dest \in refused'
<1> DEFINE d     == e.dest
           At    == {f \in kernel : f.dest = d /\ d # Default}
           Lower == {f \in kernel : f.dest = d /\ f.metric < e.metric}
<1>1. e \in kernel /\ Cardinality(Lower) >= done[d]
  BY DEF Flush
<1>2. At \subseteq kernel /\ Lower \subseteq At /\ e \in At /\ e \notin Lower
  <2>1. ~(e.metric < e.metric)
    BY <1>1 DEF KernelEntry
  <2>q. QED
    BY <1>1, <2>1
<1> HIDE DEF At, Lower
<1>3. IsFiniteSet(At) /\ IsFiniteSet(Lower)
  BY <1>2, FS_Subset
<1>4. /\ Cardinality(Lower) \in Nat /\ Cardinality(At) \in Nat
      /\ Cardinality(Lower) < Cardinality(At)
  BY <1>2, <1>3, FS_Subset, FS_CardinalityType
<1>5. done[d] < Cardinality(At)
  BY <1>1, <1>4
<1>q. QED
  BY <1>5 DEF Flush, Calls, At

LInv == TypeOK /\ IsFiniteSet(kernel) /\ KernelKnown /\ NothingLeft

LEMMA LInvNext == LInv /\ TypeOK' /\ [DaemonNext]_daemonVars => LInv'
<1> SUFFICES ASSUME LInv, TypeOK', [DaemonNext]_daemonVars PROVE LInv'
  OBVIOUS
<1>1. CASE UNCHANGED vars
  BY <1>1 DEF vars, LInv, KernelKnown, NothingLeft
<1>2. ASSUME NEW run, RunSpf(run) PROVE LInv'
  <2>1. running'
    BY <1>2 DEF RunSpf
  <2>2. IsFiniteSet(kernel') /\ KernelKnown'
    BY <1>2, FewEntries, RunSpfKnown DEF LInv
  <2>q. QED
    BY <2>1, <2>2 DEF LInv, NothingLeft
<1>3. CASE Shutdown
  <2>1. kernel' \subseteq kernel /\ IsFiniteSet(kernel') /\ KernelKnown'
    BY <1>3, ShutdownLess, FS_Subset DEF LInv, KernelKnown
  <2>2. ASSUME netlink', NEW e \in kernel', e.dest # Default PROVE e.dest \in refused'
    <3>1. PICK done \in [Dest -> 0..Cardinality(kernel)] : Flush(done)
      BY <1>3, <2>2 DEF Shutdown
    <3>2. e.dest \in Dest \ {Default} /\ kernel \subseteq KernelEntry
      BY <2>1, <2>2 DEF KernelKnown, LInv, TypeOK
    <3>q. QED
      BY <3>1, <3>2, FlushLeaves DEF LInv
  <2>q. QED
    BY <2>1, <2>2 DEF LInv, NothingLeft
<1>4. CASE Start
  BY <1>4 DEF Start, LInv, NothingLeft, KernelKnown
<1>q. QED
  BY <1>1, <1>2, <1>3, <1>4, TableSteps

(* flush_ospf_routes: a process that has its socket leaves nothing when it *)
(* ends, of itself or of those before it, however they ended, but the      *)
(* default route and the destinations of which the kernel refused a delete *)
(* now.  As many deletes as entries suffice, though each takes the lowest. *)
THEOREM NothingLeftAlways == DaemonSpec => []NothingLeft
<1>1. DaemonInit => LInv
  <2>1. IsFiniteSet({})
    BY FS_EmptySet
  <2>q. QED
    BY <2>1, TableInit DEF DaemonInit, Init, LInv, KernelKnown, NothingLeft, TInv
<1>2. LInv => NothingLeft
  BY DEF LInv
<1>q. QED
  BY <1>1, <1>2, LInvNext, TableTypeCorrect, PTL DEF DaemonSpec

-----------------------------------------------------------------------------
(* The kernel follows the candidates as module Fib promises. *)

FInv == TInv /\ KernelKnown /\ IsFiniteSet(kernel)

(* Two routes that compare as equal in update are the same.                *)
LEMMA ChangedIsOther ==
    ASSUME NEW r \in Candidate, NEW s \in Candidate
    PROVE  Changed(r, s) <=> r # s
<1>1. ASSUME ~Changed(r, s) PROVE r = s
  <2>1. /\ r = [type |-> r.type, cost |-> r.cost, cost2 |-> r.cost2, hops |-> r.hops]
        /\ s = [type |-> s.type, cost |-> s.cost, cost2 |-> s.cost2, hops |-> s.hops]
    BY DEF Candidate
  <2>2. r.type = s.type /\ r.cost = s.cost /\ r.cost2 = s.cost2 /\ r.hops = s.hops
    BY <1>1 DEF Changed
  <2>q. QED
    BY <2>1, <2>2
<1>2. r = s => ~Changed(r, s)
  BY DEF Changed
<1>q. QED
  BY <1>1, <1>2

(* Fib chooses as RouteChoice does.                                        *)
LEMMA SameChoice ==
    F!NoRoute = NoRoute /\ F!Direct = Direct /\ \A S : F!BestOf(S) = BestOf(S)
  BY Zenon DEF F!NoRoute, NoRoute, F!Direct, Direct, F!BestOf, BestOf,
               F!Top, Top, F!Below, Below, F!Rank, Rank

(* What the kernel has for d after a withdrawal and a replacement.         *)
LEMMA AtOther ==
    ASSUME NEW K, NEW D, NEW E, NEW d, d \notin D, \A g \in E : g.dest # d
    PROVE  F!At(Replaced(Deleted(K, D), E), d) = F!At(K, d)
  BY DEF F!At, Replaced, Deleted, Lowest

LEMMA AtPut ==
    ASSUME NEW K, NEW D, NEW E, NEW d, NEW w \in E, d \notin D, w.dest = d,
           \A g \in E : g.dest = d => g = w
    PROVE  F!At(Replaced(Deleted(K, D), E), d)
             = {e \in F!At(K, d) : e.metric # w.metric} \cup {w}
  BY DEF F!At, Replaced, Deleted, Lowest

LEMMA AtLess ==
    ASSUME NEW K \in SUBSET KernelEntry, NEW D, NEW E, NEW d \in D, \A g \in E : g.dest # d
    PROVE  F!At(Replaced(Deleted(K, D), E), d)
             = {e \in F!At(K, d) : \E f \in F!At(K, d) : f.metric < e.metric}
<1>1. F!At(Replaced(Deleted(K, D), E), d) = F!At(K, d) \ Lowest(K, d)
  BY DEF F!At, Replaced, Deleted, Lowest
<1>2. \A e, f \in K : (e.metric <= f.metric) <=> ~(f.metric < e.metric)
  BY DEF KernelEntry
<1>q. QED
  BY <1>1, <1>2 DEF F!At, Lowest

LEMMA SyncStep ==
    ASSUME FInv, NEW run \in Runs, RunSpf(run), NEW d \in Dest
    PROVE  F!Step(d, routes[d], routes'[d])
<1> DEFINE new     == run.best
           removed == {x \in Dest : routes[x] # NoRoute /\ new[x] = NoRoute}
           pushed  == {x \in Dest :
                         /\ new[x] # NoRoute
                         /\ routes[x] # NoRoute => Changed(routes[x], new[x])
                         /\ new[x].hops \ {Direct} # {}}
           r == routes[d]
           s == new[d]
<1>1. routes' = new
  BY DEF RunSpf
<1>2. PICK no \in Failing(pushed \cup removed) :
        /\ kernel' = Replaced(Deleted(kernel, removed \ no), {Entry(x, new[x]) : x \in pushed \ no})
        /\ refused' = (refused \ (pushed \cup removed)) \cup no
  BY DEF RunSpf
<1>3. r \in Candidate \cup {NoRoute} /\ s \in Candidate \cup {NoRoute}
  BY RunIsProper DEF FInv, TInv, TypeOK
<1> HIDE DEF new
<1> DEFINE E == {Entry(x, new[x]) : x \in pushed \ no}
<1>4. \A g \in E : \E x \in pushed \ no : g = Entry(x, new[x]) /\ g.dest = x
  BY DEF Entry
<1>5. d \in removed <=> r # NoRoute /\ s = NoRoute
  OBVIOUS
<1>6. d \in pushed <=> r # s /\ s # NoRoute /\ s.hops \ {Direct} # {}
  <2>1. r \in Candidate /\ s \in Candidate => (Changed(r, s) <=> r # s)
    BY ChangedIsOther
  <2>q. QED
    BY <1>3, <2>1
<1>7. routes'[d] = s
  BY <1>1
<1>8. /\ d \notin pushed \ no => \A g \in E : g.dest # d
      /\ d \in pushed \ no => /\ Entry(d, s) \in E
                              /\ \A g \in E : g.dest = d => g = Entry(d, s)
  BY <1>4
<1>9. kernel' = Replaced(Deleted(kernel, removed \ no), E)
  BY <1>2
<1>10. /\ d \in refused' <=> d \in no \/ (d \in refused /\ d \notin pushed /\ d \notin removed)
       /\ d \in no => d \in pushed \/ d \in removed
  BY <1>2 DEF Failing
<1>11. s # NoRoute => F!Gateways(s) = s.hops \ {Direct} /\ F!Wanted(d, s) = Entry(d, s)
  BY SameChoice DEF F!Gateways, F!Wanted, Entry
<1>12. F!Gateways(NoRoute) = {}
  BY SameChoice DEF F!Gateways
<1>13. kernel \subseteq KernelEntry
  BY DEF FInv, TInv, TypeOK
<1> HIDE DEF E, pushed, removed, s, r
<1>14. CASE d \notin pushed /\ d \notin removed
  <2>1. F!Same(d)
    BY <1>8, <1>9, <1>14, AtOther DEF F!Same
  <2>2. F!Alone(d)
    BY <1>10, <1>14, <2>1 DEF F!Alone
  <2>3. r = s \/ (s # NoRoute /\ F!Gateways(s) = {})
    BY <1>3, <1>5, <1>6, <1>11, <1>14
  <2>q. QED
    BY <1>7, <1>12, <2>2, <2>3, SameChoice DEF F!Step, r
<1>15. CASE d \in no
  <2>1. /\ d \in removed => r # s /\ s = NoRoute
        /\ d \in pushed => r # s /\ s # NoRoute /\ F!Gateways(s) # {}
    BY <1>5, <1>6, <1>11
  <2>2. F!Same(d)
    BY <1>8, <1>9, <1>15, AtOther DEF F!Same
  <2>3. F!Refused(d)
    BY <1>10, <1>15, <2>2 DEF F!Refused
  <2>q. QED
    BY <1>7, <1>10, <1>12, <1>15, <2>1, <2>3, SameChoice DEF F!Step, r
<1>16. CASE d \in removed \ no
  <2>1. r # s /\ s = NoRoute /\ d \notin pushed
    BY <1>5, <1>6, <1>16
  <2>2. F!At(kernel', d) = {e \in F!At(kernel, d) : \E f \in F!At(kernel, d) : f.metric < e.metric}
    BY <1>8, <1>9, <1>13, <1>16, <2>1, AtLess
  <2>3. F!Withdraw(d)
    BY <1>10, <1>16, <2>1, <2>2 DEF F!Withdraw
  <2>4. F!Step(d, r, s)
    BY <1>12, <2>1, <2>3, SameChoice DEF F!Step
  <2>q. QED
    BY <1>7, <2>4 DEF r
<1>17. CASE d \in pushed \ no
  <2>1. r # s /\ s # NoRoute /\ F!Gateways(s) # {} /\ d \notin removed
    BY <1>5, <1>6, <1>11, <1>17
  <2>2. Entry(d, s).dest = d /\ Entry(d, s).metric = s.cost
    BY DEF Entry
  <2>3. F!At(kernel', d) = {e \in F!At(kernel, d) : e.metric # s.cost} \cup {Entry(d, s)}
    BY <1>8, <1>9, <1>17, <2>1, <2>2, AtPut
  <2>4. F!Put(d, s)
    BY <1>10, <1>11, <1>17, <2>1, <2>3 DEF F!Put
  <2>q. QED
    BY <1>7, <2>1, <2>4, SameChoice DEF F!Step, r
<1>q. QED
  BY <1>14, <1>15, <1>16, <1>17

(* The end of a process, with a socket and without.                        *)
LEMMA DownStep == ASSUME FInv, Shutdown PROVE F!Down
<1>1. running /\ running' = FALSE /\ UNCHANGED <<offered, netlink>> /\ kernel' \subseteq kernel
  BY ShutdownLess DEF Shutdown, FInv, TInv, TypeOK
<1>2. ASSUME netlink
      PROVE  F!Same(Default) /\ \A d \in Dest \ {Default} : F!Emptied(d) \/ d \in refused'
  <2>1. PICK done \in [Dest -> 0..Cardinality(kernel)] :
          /\ \A d \in Dest : done[d] <= Calls(d) /\ (Refusals \/ done[d] = Calls(d))
          /\ Flush(done)
    BY <1>2 DEF Shutdown
  <2>2. F!Same(Default)
    <3>1. ASSUME NEW e \in kernel, e.dest = Default PROVE e \in kernel'
      <4> DEFINE Lower == {f \in kernel : f.dest = e.dest /\ f.metric < e.metric}
      <4>1. Default \in Dest
        BY <3>1 DEF FInv, KernelKnown
      <4>2. Calls(Default) = 0
        <5>1. {f \in kernel : f.dest = Default /\ Default # Default} = {}
          OBVIOUS
        <5>q. QED
          BY <5>1, FS_EmptySet DEF Calls
      <4>3. done[e.dest] = 0
        BY <2>1, <3>1, <4>1, <4>2
      <4>4. Cardinality(Lower) \in Nat
        <5>1. Lower \subseteq kernel
          OBVIOUS
        <5>q. QED
          BY <5>1, FS_Subset, FS_CardinalityType DEF FInv
      <4>5. Cardinality(Lower) >= done[e.dest]
        BY <4>3, <4>4
      <4>q. QED
        BY <2>1, <4>5 DEF Flush
    <3>q. QED
      BY <1>1, <3>1 DEF F!Same, F!At
  <2>3. ASSUME NEW d \in Dest \ {Default}, d \notin refused' PROVE F!Emptied(d)
    <3>1. \A e \in kernel' : e.dest # d
      BY <2>1, <2>3, FlushLeaves DEF FInv, TInv, TypeOK
    <3>q. QED
      BY <2>3, <3>1 DEF F!Emptied, F!At
  <2>q. QED
    BY <2>2, <2>3
<1>3. ~netlink => UNCHANGED <<kernel, refused>>
  BY DEF Shutdown
<1>q. QED
  BY <1>1, <1>2, <1>3 DEF F!Down

LEMMA FibSteps == FInv /\ [DaemonNext]_daemonVars => [F!Next]_F!vars
<1> SUFFICES ASSUME FInv, [DaemonNext]_daemonVars PROVE [F!Next]_F!vars
  OBVIOUS
<1>1. CASE UNCHANGED vars
  BY <1>1 DEF vars, F!vars
<1>2. ASSUME NEW run \in Runs, RunSpf(run) PROVE F!Sync
  <2>1. running /\ netlink /\ UNCHANGED <<running, netlink>> /\ offered' = run.from
    BY <1>2 DEF RunSpf
  <2>2. \A d \in Dest : offered'[d] \subseteq Route[d]
    BY <2>1, RunIsProper
  <2>3. TInv' /\ KernelKnown'
    BY <1>2, RunSpfTable, RunSpfKnown DEF FInv
  <2>4. ASSUME NEW d \in Dest PROVE F!Step(d, BestOf(offered[d]), BestOf(offered'[d]))
    <3>1. F!Step(d, routes[d], routes'[d])
      BY <1>2, SyncStep
    <3>2. routes[d] = BestOf(offered[d]) /\ routes'[d] = BestOf(offered'[d])
      BY <2>3 DEF FInv, TInv, BestWins
    <3>q. QED
      BY <3>1, <3>2
  <2>5. \A e \in kernel' : e.dest \in Dest
    BY <2>3 DEF KernelKnown
  <2>q. QED
    BY <2>1, <2>2, <2>4, <2>5, SameChoice DEF F!Sync
<1>3. CASE Shutdown
  BY <1>3, DownStep DEF F!Next
<1>4. CASE Start
  BY <1>4 DEF Start, F!Next, F!Up
<1>q. QED
  BY <1>1, <1>2, <1>3, <1>4, TableStepsTyped DEF F!Next

LEMMA FInvNext == FInv /\ [DaemonNext]_daemonVars => FInv'
<1> SUFFICES ASSUME FInv, [DaemonNext]_daemonVars PROVE KernelKnown' /\ IsFiniteSet(kernel')
  BY TableNext DEF FInv
<1>1. CASE UNCHANGED vars
  BY <1>1 DEF vars, FInv, KernelKnown
<1>2. CASE Shutdown
  BY <1>2, ShutdownLess, FS_Subset DEF FInv, KernelKnown
<1>3. CASE Start
  BY <1>3 DEF Start, FInv, KernelKnown
<1>q. QED
  BY <1>1, <1>2, <1>3, TableStepsTyped, RunSpfKnown, FewEntries DEF FInv

(* sync_to_kernel and flush_ospf_routes implement Fib: the kernel follows  *)
(* the sets of candidates, though the daemon compares its table only with  *)
(* the one before, in lists.                                               *)
THEOREM KernelFollows == DaemonSpec => RefinesFib
<1>1. DaemonInit => FInv /\ F!Init
  <2>1. IsFiniteSet({})
    BY FS_EmptySet
  <2>q. QED
    BY <2>1, TableInit DEF DaemonInit, Init, FInv, KernelKnown, F!Init
<1>q. QED
  BY <1>1, FInvNext, FibSteps, PTL DEF DaemonSpec, RefinesFib, F!Spec

-----------------------------------------------------------------------------
(* The PID file. *)

LEMMA NamedNext ==
    ASSUME ~WriteFails
    PROVE  Named /\ [DaemonNext]_daemonVars => Named'
<1> SUFFICES ASSUME Named, [DaemonNext]_daemonVars PROVE Named'
  OBVIOUS
<1> USE DEF Named
<1>1. ASSUME NEW p \in Proc, Begin(p) PROVE Named'
  BY <1>1, DaemonAssumption DEF Begin, DaemonAssumption
<1>2. ASSUME NEW p \in Proc, Refuse(p) PROVE Named'
  BY <1>2 DEF Refuse
<1>3. ASSUME NEW p \in Proc, Calculate(p) PROVE Named'
  BY <1>3 DEF Calculate
<1>4. ASSUME NEW p \in Proc, Stop(p) PROVE Named'
  BY <1>4 DEF Stop
<1>5. ASSUME NEW p \in Proc, RemovePid(p) PROVE Named'
  BY <1>5 DEF RemovePid
<1>6. ASSUME NEW p \in Proc, Crash(p) PROVE Named'
  BY <1>6 DEF Crash
<1>7. CASE CleanUp
  BY <1>7 DEF CleanUp
<1>8. CASE UNCHANGED daemonVars
  BY <1>8 DEF daemonVars
<1> QED
  BY <1>1, <1>2, <1>3, <1>4, <1>5, <1>6, <1>7, <1>8 DEF DaemonNext

(* _write_pid and _remove_pid: while the PID file can be written, no two   *)
(* daemons are past it, whichever of them crash, end or are refused.       *)
THEOREM OneDaemonAlways ==
    ASSUME ~WriteFails
    PROVE  DaemonSpec => []OneDaemon
<1>1. DaemonInit => Named
  BY DEF DaemonInit, Named
<1>2. Named => OneDaemon
  BY DEF Named, OneDaemon
<1> QED
  BY <1>1, <1>2, NamedNext, PTL DEF DaemonSpec
=============================================================================
