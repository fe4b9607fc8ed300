------------------------------ MODULE Flooding ------------------------------
(***************************************************************************)
(* Flooding in one area: the FloodingEngine of every router, the database  *)
(* and the retransmission lists it keeps, the LS Updates and delayed       *)
(* acknowledgements between the routers, and the scheduling of SPF.        *)
(*                                                                         *)
(* An instance of an LSA is a number, 0 when the LSA is not held, and the  *)
(* newer instance is the larger (module LsaOrder).  Router r's Router LSA  *)
(* has the key r; the other keys are LSAs of routers that run other code   *)
(* and come in over links outside the model.  Segments are point-to-point  *)
(* links and broadcast networks whose DR and backup do not change.  How an *)
(* adjacency forms is in module Adjacency; Connect takes the outcome that  *)
(* module shows for an exchange in which nothing is lost or refused.       *)
(***************************************************************************)
EXTENDS Integers, FiniteSets

CONSTANTS
    Router,     \* the routers
    Key,        \* the LSAs
    Seg,        \* the segments
    On,         \* On[s]: the routers on segment s
    Chief,      \* Chief[s]: its DR, or Nobody on a point-to-point link
    Deputy,     \* Deputy[s]: its backup, or Nobody
    Border,     \* the routers with a link out of the model
    OwnInst,    \* the first instances that a router may originate
    Flushed,    \* the instances of age MaxAge
    MaxInst,    \* bound: the last instance of an LSA
    MaxRxmt,    \* MAX_RXMT_LIST
    Fault,      \* the kinds of fault that may happen, the refusal of a newer instance by
                \* MinLSArrival among them
    MaxFaults   \* bound: faults in a behaviour

Nobody == 0

ASSUME FloodingAssumption ==
    /\ Router \subseteq Nat \ {0} /\ IsFiniteSet(Router)
    /\ Key \subseteq Nat
    /\ On \in [Seg -> SUBSET Router]
    /\ Chief \in [Seg -> Router \cup {Nobody}] /\ Deputy \in [Seg -> Router \cup {Nobody}]
    /\ \A s \in Seg : {Chief[s], Deputy[s]} \subseteq On[s] \cup {Nobody}
    /\ \A s \in Seg : Chief[s] = Nobody => Deputy[s] = Nobody
    /\ Border \subseteq Router
    /\ OwnInst \subseteq Nat \ {0} /\ Flushed \subseteq Nat /\ OwnInst \cap Flushed = {}
    /\ MaxInst \in Nat /\ MaxRxmt \in Nat \ {0}
    /\ MaxFaults \in Nat

VARIABLES
    node,    \* node[r]: the state of router r
    lsu,     \* the LSAs on their way, each with its segment, sender and receiver
    faults,  \* the number of faults so far
    lost     \* history: an LSA was lost on its way, or refused by MinLSArrival

vars == <<node, lsu, faults, lost>>

-----------------------------------------------------------------------------
(* The topology.                                                           *)

Lan(s) == Chief[s] # Nobody
Heads(s) == {Chief[s], Deputy[s]} \ {Nobody}
SegsOf(r) == {s \in Seg : r \in On[s]}

(* The pairs that _should_form_adjacency wants. *)
Pairs(s) == {p \in On[s] \X On[s] : p[1] # p[2] /\ (Lan(s) => \E i \in 1..2 : p[i] \in Heads(s))}

(* Where a packet to AllSPFRouters or AllDRouters from r goes. *)
Audience(r, s) == (IF ~Lan(s) \/ r \in Heads(s) THEN On[s] ELSE Heads(s)) \ {r}

-----------------------------------------------------------------------------
(* A router.  adj: the neighbours that are at least in Exchange.  rxmt:    *)
(* the retransmission lists of all of them, keys only.  acks: the delayed  *)
(* acknowledgements.  spf: _spf_pending.  out: the LSAs sent in the        *)
(* callback that runs.  History, not in the code: mine is the instance     *)
(* that r itself originated last, dirty the LSAs that changed since SPF    *)
(* ran last.                                                               *)
NewNode == [db |-> [k \in Key |-> 0], adj |-> {}, rxmt |-> {}, acks |-> {},
            spf |-> FALSE, out |-> {}, mine |-> 0, dirty |-> {}]

Packet(s, r, m, k, i) ==
    [seg |-> s, from |-> r, to |-> m, key |-> k, inst |-> i, asked |-> FALSE]
Answer(s, r, m, k, i) == [Packet(s, r, m, k, i) EXCEPT !.asked = TRUE]

Eligible(e, s) == {m \in Router : <<s, m>> \in e.adj}
Listed(e, s, m) == {k \in Key : <<s, m, k>> \in e.rxmt}

(* The neighbours that get a new entry in their list, and those of them    *)
(* whose list is full.                                                     *)
Entering(e, s, k) == {m \in Eligible(e, s) : k \notin Listed(e, s, m)}
Choked(e, s, k) == {m \in Entering(e, s, k) : Cardinality(Listed(e, s, m)) >= MaxRxmt}

(* The neighbours are visited in order: the first one with a full list is  *)
(* killed, and the LSA is not sent on the interface at all.                *)
FirstChoked(e, s, k) == CHOOSE m \in Choked(e, s, k) : \A l \in Choked(e, s, k) : m <= l
Reached(e, s, k) ==
    {m \in Entering(e, s, k) : Choked(e, s, k) # {} => m < FirstChoked(e, s, k)}

(* Mutant: a neighbour that has an entry for the LSA already holds up its  *)
(* sending to the others.                                                  *)
FloodToNewOnly(r, e, S, k) ==
    LET added == {<<t[1], t[2], k>> : t \in {u \in S \X Router : u[2] \in Entering(e, u[1], k)}}
    IN [e EXCEPT !.rxmt = @ \cup added,
                 !.out  = @ \cup {Packet(t[1], r, t[2], k, e.db[k]) : t \in added}]

(* _flood_to_interface for each of the interfaces S. *)
FloodTo(r, e, S, k) ==
    LET killed == {t \in S \X Router :
                     t[2] \in Choked(e, t[1], k) /\ t[2] = FirstChoked(e, t[1], k)}
        added  == {<<t[1], t[2], k>> : t \in {u \in S \X Router : u[2] \in Reached(e, u[1], k)}}
        sent   == {s \in S : Eligible(e, s) # {} /\ Choked(e, s, k) = {}}
        heard  == {t \in sent \X Router : t[2] \in Audience(r, t[1])
                       /\ (Lan(t[1]) \/ t[2] \in Eligible(e, t[1]))}
    IN [e EXCEPT !.adj  = @ \ killed,
                 !.rxmt = {t \in @ \cup added : <<t[1], t[2]>> \notin killed},
                 !.out  = @ \cup {Packet(t[1], r, t[2], k, e.db[k]) : t \in heard}]

(* Mutant: nobody repeats what comes in on a network. *)
FloodBackNever(r, e, s, k) == e

(* _flood_back_to_source *)
FloodBack(r, e, s, k) ==
    IF Lan(s) /\ r = Chief[s]
      THEN [e EXCEPT !.out = @ \cup {Packet(s, r, m, k, e.db[k]) : m \in Audience(r, s)}]
      ELSE e

FloodLsa(r, e, k) == FloodTo(r, e, SegsOf(r), k)
FloodOn(r, e, s, k) == FloodBack(r, FloodTo(r, e, SegsOf(r) \ {s}, k), s, k)

Set(e, k, i) == [e EXCEPT !.db[k] = i, !.dirty = @ \cup {k}]
(* Mutant: no acknowledgement on a network. *)
AcknowledgeP2POnly(e, s, k) ==
    IF Lan(s) THEN e ELSE [e EXCEPT !.acks = @ \cup {<<s, k>>}]

Acknowledge(e, s, k) == [e EXCEPT !.acks = @ \cup {<<s, k>>}]
ScheduleSpf(e) == [e EXCEPT !.spf = TRUE]
Unlist(e, s, m, k) == [e EXCEPT !.rxmt = @ \ {<<s, m, k>>}]

(* Mutant: SPF is not scheduled for an LSA that the router held before. *)
TakeNewerRoutesNew(r, e, p) ==
    LET a == Acknowledge(FloodOn(r, Set(e, p.key, p.inst), p.seg, p.key), p.seg, p.key)
    IN IF e.db[p.key] = 0 THEN ScheduleSpf(a) ELSE a

(* A newer instance.  When it is r's own LSA, refresh_lsa is called, which *)
(* does nothing: the instance was installed a moment ago, and every        *)
(* sequence number in use is above MAX_SEQ_NUM as an unsigned word.        *)
TakeNewer(r, e, p) ==
    LET k == p.key
        f == FloodOn(r, Set(e, k, p.inst), p.seg, k)
    IN CASE k # r -> ScheduleSpf(Acknowledge(f, p.seg, k))
         [] k = r /\ p.inst \in Flushed -> [f EXCEPT !.db[k] = 0]
         [] OTHER -> f

(* Mutant: every instance but the same one is taken. *)
ReceiveAny(r, e, p, refused) ==
    Unlist(IF p.inst # e.db[p.key] THEN TakeNewer(r, e, p) ELSE e, p.seg, p.from, p.key)

(* Mutant: the same instance leaves the entry on the list. *)
ReceiveKeepsListed(r, e, p, refused) ==
    CASE p.inst > e.db[p.key] -> Unlist(TakeNewer(r, e, p), p.seg, p.from, p.key)
      [] OTHER -> e

(* receive_lsu: _process_received_lsa, then process_ls_update. *)
ReceiveLsu(r, e, p, refused) ==
    LET held == e.db[p.key]
        f == CASE p.inst > held /\ ~refused -> TakeNewer(r, e, p)
               [] p.inst > held /\ refused -> e
               [] p.inst = held -> IF Lan(p.seg) THEN Acknowledge(e, p.seg, p.key) ELSE e
               [] OTHER -> [e EXCEPT !.out = {Packet(p.seg, r, p.from, p.key, held)}]
    IN Unlist(f, p.seg, p.from, p.key)

(* Mutant: the list outlives the adjacency. *)
ForgetKeepsList(e, s, m) == [e EXCEPT !.adj = @ \ {<<s, m>>}]

Forget(e, s, m) ==
    [e EXCEPT !.adj = @ \ {<<s, m>>}, !.rxmt = {t \in @ : <<t[1], t[2]>> # <<s, m>>}]

-----------------------------------------------------------------------------
(* Callbacks.                                                              *)

Init ==
    /\ node = [r \in Router |-> NewNode]
    /\ lsu = {} /\ faults = 0 /\ lost = FALSE

Strike(kind) ==
    /\ kind \in Fault /\ faults < MaxFaults /\ faults' = faults + 1
    /\ lost' = (lost \/ kind \in {"lose", "refuse"})
NoFault == UNCHANGED <<faults, lost>>

(* Router r has come to e; its packets leave, and L were on the wire.      *)
Step(r, e, L) ==
    /\ node' = [node EXCEPT ![r] = [e EXCEPT !.out = {}]]
    /\ lsu' = L \cup e.out

(* originate_router_lsa: only the first one of a router gets through       *)
(* _originate, for the next sequence number is above MAX_SEQ_NUM.          *)
Originate(r) ==
    /\ r \in Key /\ node[r].db[r] = 0
    /\ \E i \in OwnInst :
         Step(r, FloodLsa(r, [Set(node[r], r, i) EXCEPT !.mine = i], r), lsu)
    /\ NoFault

(* A newer instance of a foreign LSA comes in over a link outside, or an   *)
(* LSA that some other router has seen reach MaxAge.                       *)
Learn(r, k) ==
    /\ r \in Border
    /\ \E i \in 1..MaxInst :
         /\ i > node[r].db[k] /\ (k \in Router => k # r /\ i \in Flushed)
         /\ Step(r, ScheduleSpf(FloodLsa(r, Set(node[r], k, i), k)), lsu)
    /\ NoFault

Receive(p) ==
    \/ /\ Step(p.to, ReceiveLsu(p.to, node[p.to], p, FALSE), lsu \ {p})
       /\ NoFault
    \/ /\ p.inst > node[p.to].db[p.key] /\ node[p.to].db[p.key] > 0
       /\ Strike("refuse")
       /\ Step(p.to, ReceiveLsu(p.to, node[p.to], p, TRUE), lsu \ {p})

(* The receiver has no OspfNeighbor for the sender yet. *)
Ignore(p) ==
    /\ <<p.seg, p.from>> \notin node[p.to].adj
    /\ lsu' = lsu \ {p}
    /\ UNCHANGED node /\ NoFault

(* _flush_delayed_acks, and process_ls_ack in those who hear it.  It is    *)
(* the queue that delays an acknowledgement here, and not the wire.        *)
FlushAcks(r, s) ==
    LET due == {k \in Key : <<s, k>> \in node[r].acks}
    IN /\ due # {}
       /\ node' = [m \in Router |->
                     IF m = r THEN [node[r] EXCEPT !.acks = {t \in @ : t[1] # s}]
                     ELSE IF m \in Audience(r, s)
                       THEN [node[m] EXCEPT !.rxmt = {t \in @ : ~(t[1] = s /\ t[2] = r /\ t[3] \in due)}]
                     ELSE node[m]]
       /\ UNCHANGED lsu /\ NoFault

RunSpf(r) ==
    /\ node[r].spf
    /\ node' = [node EXCEPT ![r].spf = FALSE, ![r].dirty = {}]
    /\ UNCHANGED lsu /\ NoFault

(* An adjacency comes up.  Each side has described its database and the    *)
(* other asks for what is newer there; from now on it is flooded to.  That *)
(* takes seconds: what the two sent each other before has arrived.         *)
Between(s, r, m, p) == p.seg = s /\ {p.from, p.to} = {r, m}
Connect(s, r, m) ==
    /\ <<r, m>> \in Pairs(s) /\ r < m
    /\ \A p \in lsu : ~Between(s, r, m, p)
    /\ <<s, m>> \notin node[r].adj /\ <<s, r>> \notin node[m].adj
    /\ node' = [node EXCEPT ![r].adj = @ \cup {<<s, m>>}, ![m].adj = @ \cup {<<s, r>>}]
    /\ lsu' = lsu \cup {Answer(s, r, m, k, node[r].db[k]) :
                          k \in {j \in Key : node[r].db[j] > node[m].db[j]}}
                  \cup {Answer(s, m, r, k, node[m].db[k]) :
                          k \in {j \in Key : node[m].db[j] > node[r].db[j]}}
    /\ NoFault

(* r gives an adjacency up: the other side has done so already and says so *)
(* in its Hellos, or its Hellos do not arrive.                             *)
Drop(s, r, m) ==
    /\ <<s, m>> \in node[r].adj
    /\ \/ <<s, r>> \notin node[m].adj /\ NoFault
       \/ Strike("expire")
    /\ node' = [node EXCEPT ![r] = Forget(@, s, m)]
    /\ UNCHANGED lsu

Restart(r) ==
    /\ Strike("restart")
    /\ node' = [node EXCEPT ![r] = NewNode]
    /\ lsu' = {p \in lsu : p.to # r}

(* What was asked for is asked for again until it comes (module Adjacency). *)
Lose(p) ==
    /\ ~p.asked /\ Strike("lose")
    /\ lsu' = lsu \ {p}
    /\ UNCHANGED node

Duplicate(p) ==
    /\ Strike("duplicate")
    /\ Step(p.to, ReceiveLsu(p.to, node[p.to], p, FALSE), lsu)

Next ==
    \/ \E r \in Router : \/ Originate(r) \/ RunSpf(r) \/ Restart(r)
                         \/ \E k \in Key : Learn(r, k)
                         \/ \E s \in SegsOf(r) : FlushAcks(r, s)
    \/ \E s \in Seg : \E r, m \in On[s] : Connect(s, r, m) \/ Drop(s, r, m)
    \/ \E p \in lsu : Receive(p) \/ Ignore(p) \/ Lose(p) \/ Duplicate(p)

Spec == Init /\ [][Next]_vars

(* Packets are read and timers fire; Router LSAs are originated a second   *)
(* after the start; Hellos bring every adjacency up again.                 *)
Quietly(A) == A /\ UNCHANGED faults
Fairness ==
    /\ \A r \in Router : WF_vars(Originate(r)) /\ WF_vars(RunSpf(r))
    /\ WF_vars(\E p \in lsu : Receive(p))
    /\ WF_vars(\E r \in Router : \E s \in SegsOf(r) : FlushAcks(r, s))
    /\ WF_vars(\E s \in Seg : \E r, m \in On[s] : Connect(s, r, m) \/ Quietly(Drop(s, r, m)))

FairSpec == Spec /\ Fairness

-----------------------------------------------------------------------------
(* Properties.                                                             *)

(* The types, and no list is left of an adjacency that is gone.            *)
LsuPacket ==
    [seg : Seg, from : Router, to : Router, key : Key, inst : Nat, asked : BOOLEAN]
Node == [db : [Key -> Nat], adj : SUBSET (Seg \X Router),
         rxmt : SUBSET (Seg \X Router \X Key), acks : SUBSET (Seg \X Key),
         spf : BOOLEAN, out : {{}}, mine : Nat, dirty : SUBSET Key]

TypeOK ==
    /\ node \in [Router -> Node]
    /\ \A r \in Router : \A t \in node[r].rxmt : <<t[1], t[2]>> \in node[r].adj
    /\ lsu \subseteq LsuPacket
    /\ faults \in Nat /\ lost \in BOOLEAN

(* Until some LSA is lost or refused, two routers that are adjacent to     *)
(* each other do not differ for long: for what one has and the other has   *)
(* not, an LSA at least as new is on its way to the other, or to the DR of *)
(* the network, which will repeat it.                                      *)
(* A network counts when all its adjacencies are up: the backup does not   *)
(* repeat what a router sends before it is adjacent to the DR as well.     *)
(* A router's own LSA is left out: it removes that when it is flushed.     *)
Adjacent(s, r, m) == <<s, m>> \in node[r].adj /\ <<s, r>> \in node[m].adj
Connected(s, r, m) ==
    Adjacent(s, r, m) /\ (Lan(s) => \A p \in Pairs(s) : Adjacent(s, p[1], p[2]))
Coming(s, m, k, i) == \E p \in lsu : p.seg = s /\ p.to = m /\ p.key = k /\ p.inst >= i
NoGap ==
    ~lost => \A s \in Seg : \A r, m \in On[s] : \A k \in Key \ {m} :
       Connected(s, r, m) /\ node[r].db[k] > node[m].db[k] =>
          \/ Coming(s, m, k, node[r].db[k])
          \/ Lan(s) /\ Coming(s, Chief[s], k, node[r].db[k])

(* configuration.md has unacknowledged LSUs retransmitted: what an adjacent *)
(* neighbour lacks, and what is not on its way, is on its list.            *)
ListedUntilKnown ==
    \A s \in Seg : \A r, m \in On[s] : \A k \in Key \ {m} :
       Connected(s, r, m) /\ node[r].db[k] > node[m].db[k] /\ ~Coming(s, m, k, node[r].db[k])
          => k \in Listed(node[r], s, m)

(* The routes were computed from all the LSAs of other routers that are in *)
(* the database, or SPF is scheduled.                                      *)
RoutesFollow == \A r \in Router : node[r].dirty \ {r} # {} => node[r].spf

(* architecture.md says "LSDB install() -> instance.schedule_spf()": the   *)
(* routes follow every LSA, the router's own as well.                      *)
InstallSchedules == \A r \in Router : node[r].dirty # {} => node[r].spf

(* Whatever is lost, doubled or overtaken on the way, a router never puts  *)
(* an older instance in the place of a newer one; it forgets an LSA when   *)
(* it restarts, and its own when another router flushes that.              *)
NoStepBack ==
    [][\A r \in Router : \A k \in Key :
         node'[r].db[k] >= node[r].db[k] \/ node'[r] = NewNode
         \/ (k = r /\ node'[r].db[k] = 0)]_vars

(* "OSPF reliable flooding": the routers on the network, connected to each *)
(* other, come to one and the same database when the faults are over.      *)
EventuallyAlike == <>[](\A r, m \in Router : node[r].db = node[m].db)

(* So they do after restarts, dead intervals and repetitions, unless some  *)
(* LSA was lost or refused, which nothing makes up for.                    *)
AlikeUnlessLost == <>lost \/ EventuallyAlike

(* Every retransmission list empties: each LSA that is flooded and not     *)
(* lost or refused is acknowledged, by an acknowledgement or by an LSA     *)
(* that crosses it.                                                        *)
ListsDrain == <>lost \/ <>[](\A r \in Router : node[r].rxmt = {})

(* The code says of a newer version of an own LSA "Re-originate with even  *)
(* higher sequence number": the instance of a router's own LSA that lasts  *)
(* is the one that it originated itself.                                   *)
OwnLsaPrevails == <>[](\A r \in Router : r \in Key => node[r].db[r] = node[r].mine)
=============================================================================
