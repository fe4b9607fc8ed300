--------------------------- MODULE FloodingProofs ---------------------------
(***************************************************************************)
(* Invariance proofs for Flooding, for every topology, every kind and      *)
(* number of faults, full retransmission lists and MinLSArrival included.  *)
(*                                                                         *)
(* One predicate, Sane, says of a router's record what the invariants say, *)
(* and holds between any two handlers of a callback, when the packets that *)
(* the callback sends are still in the record.  One lemma per handler says *)
(* that it keeps a record Sane and what it does to the database.           *)
(***************************************************************************)
EXTENDS Flooding, FiniteSetTheorems, TLAPS

(* A router's record in the middle of a callback. *)
Busy == [db : [Key -> Nat], adj : SUBSET (Seg \X Router),
         rxmt : SUBSET (Seg \X Router \X Key), acks : SUBSET (Seg \X Key),
         spf : BOOLEAN, out : SUBSET LsuPacket, mine : Nat, dirty : SUBSET Key]

(* No list outlives its adjacency. *)
NoOrphans(e) == \A t \in e.rxmt : <<t[1], t[2]>> \in e.adj

Sane(r, e) ==
    /\ e \in Busy
    /\ NoOrphans(e)
    /\ e.dirty \ {r} # {} => e.spf

IInv == TypeOK /\ RoutesFollow

(* What a handler of router r may do to the database and to the rest that  *)
(* the properties speak of.                                                *)
KeepsDb(e, f) == f.db = e.db /\ f.dirty = e.dirty /\ f.spf = e.spf /\ f.mine = e.mine

(* No entry of the database steps back, but r's own LSA may be removed.    *)
Onward(r, e, f) ==
    \A k \in Key : f.db[k] >= e.db[k] \/ (k = r /\ f.db[k] = 0)

-----------------------------------------------------------------------------
(* The topology and the packets.                                           *)

LEMMA AudienceType ==
    ASSUME NEW r \in Router, NEW s \in Seg
    PROVE  Audience(r, s) \subseteq Router
  BY FloodingAssumption DEF Audience, Heads

LEMMA PacketType ==
    ASSUME NEW s \in Seg, NEW r \in Router, NEW m \in Router, NEW k \in Key, NEW i \in Nat
    PROVE  Packet(s, r, m, k, i) \in LsuPacket /\ Answer(s, r, m, k, i) \in LsuPacket
  BY DEF Packet, Answer, LsuPacket

LEMMA NewNodeSane ==
    ASSUME NEW r \in Router
    PROVE  Sane(r, NewNode) /\ NewNode.out = {}
  BY DEF NewNode, Sane, Busy, NoOrphans

(* A record at rest is one whose packets have left.                        *)
LEMMA Rest ==
    ASSUME NEW r \in Router, NEW e, Sane(r, e)
    PROVE  LET f == [e EXCEPT !.out = {}]
           IN f \in Node /\ Sane(r, f) /\ KeepsDb(e, f)
  BY DEF Sane, Busy, NoOrphans, Node, KeepsDb

LEMMA Resting ==
    ASSUME IInv, NEW r \in Router
    PROVE  Sane(r, node[r]) /\ node[r].out = {}
  BY DEF IInv, TypeOK, RoutesFollow, Sane, Busy, Node, NoOrphans

-----------------------------------------------------------------------------
(* The steps of a handler.                                                 *)

LEMMA SetSane ==
    ASSUME NEW r \in Router, NEW e, Sane(r, e), NEW k \in Key, NEW i \in Nat
    PROVE  LET f == Set(e, k, i)
           IN /\ f \in Busy /\ NoOrphans(f)
              /\ f.db = [e.db EXCEPT ![k] = i] /\ f.dirty = e.dirty \cup {k}
              /\ f.spf = e.spf /\ f.mine = e.mine
  BY DEF Sane, Busy, NoOrphans, Set

LEMMA FloodToKeeps ==
    ASSUME NEW r \in Router, NEW e \in Busy, NoOrphans(e), NEW S \in SUBSET Seg, NEW k \in Key
    PROVE  LET f == FloodTo(r, e, S, k)
           IN f \in Busy /\ NoOrphans(f) /\ KeepsDb(e, f)
<1> DEFINE
      killed == {t \in S \X Router :
                   t[2] \in Choked(e, t[1], k) /\ t[2] = FirstChoked(e, t[1], k)}
      added  == {<<t[1], t[2], k>> : t \in {u \in S \X Router : u[2] \in Reached(e, u[1], k)}}
      sent   == {s \in S : Eligible(e, s) # {} /\ Choked(e, s, k) = {}}
      heard  == {t \in sent \X Router : t[2] \in Audience(r, t[1])
                    /\ (Lan(t[1]) \/ t[2] \in Eligible(e, t[1]))}
      out    == {Packet(t[1], r, t[2], k, e.db[k]) : t \in heard}
      f      == FloodTo(r, e, S, k)
<1>1. f = [e EXCEPT !.adj  = e.adj \ killed,
                    !.rxmt = {t \in e.rxmt \cup added : <<t[1], t[2]>> \notin killed},
                    !.out  = e.out \cup out]
  BY DEF FloodTo, Busy
<1>2. added \subseteq Seg \X Router \X Key
  OBVIOUS
<1>3. out \subseteq LsuPacket
  <2>1. ASSUME NEW t \in heard
        PROVE  Packet(t[1], r, t[2], k, e.db[k]) \in LsuPacket
    <3>1. t[1] \in Seg /\ t[2] \in Router /\ e.db[k] \in Nat
      BY DEF Busy
    <3>q. QED
      BY <3>1, PacketType
  <2>q. QED
    BY <2>1
<1>4. \A t \in added : <<t[1], t[2]>> \in e.adj
  <2>1. ASSUME NEW u \in S \X Router, u[2] \in Reached(e, u[1], k)
        PROVE  <<u[1], u[2]>> \in e.adj
    BY <2>1 DEF Reached, Entering, Eligible
  <2>2. ASSUME NEW t \in added PROVE <<t[1], t[2]>> \in e.adj
    <3>1. PICK u \in {v \in S \X Router : v[2] \in Reached(e, v[1], k)} :
             t = <<u[1], u[2], k>>
      BY <2>2
    <3>q. QED
      BY <2>1, <3>1
  <2>q. QED
    BY <2>2
<1> HIDE DEF killed, added, out, f
<1>5. f \in Busy /\ KeepsDb(e, f)
  <2>1. /\ e.adj \ killed \in SUBSET (Seg \X Router)
        /\ {t \in e.rxmt \cup added : <<t[1], t[2]>> \notin killed}
             \in SUBSET (Seg \X Router \X Key)
        /\ e.out \cup out \in SUBSET LsuPacket
    BY <1>2, <1>3 DEF Busy
  <2>q. QED
    BY <1>1, <2>1 DEF Busy, KeepsDb
<1>6. NoOrphans(f)
  BY <1>1, <1>4 DEF Busy, NoOrphans
<1>q. QED
  BY <1>5, <1>6 DEF f

LEMMA FloodBackKeeps ==
    ASSUME NEW r \in Router, NEW e \in Busy, NoOrphans(e), NEW s \in Seg, NEW k \in Key
    PROVE  LET f == FloodBack(r, e, s, k)
           IN f \in Busy /\ NoOrphans(f) /\ KeepsDb(e, f)
<1> DEFINE out == {Packet(s, r, m, k, e.db[k]) : m \in Audience(r, s)}
<1>1. out \subseteq LsuPacket
  BY AudienceType, PacketType DEF Busy
<1> HIDE DEF out
<1>2. FloodBack(r, e, s, k) \in {e, [e EXCEPT !.out = e.out \cup out]}
  BY DEF FloodBack, out, Busy
<1>q. QED
  BY <1>1, <1>2 DEF Busy, NoOrphans, KeepsDb

LEMMA FloodLsaKeeps ==
    ASSUME NEW r \in Router, NEW e \in Busy, NoOrphans(e), NEW k \in Key
    PROVE  LET f == FloodLsa(r, e, k)
           IN f \in Busy /\ NoOrphans(f) /\ KeepsDb(e, f)
<1>1. SegsOf(r) \in SUBSET Seg
  BY DEF SegsOf
<1>q. QED
  BY <1>1, FloodToKeeps DEF FloodLsa

LEMMA FloodOnKeeps ==
    ASSUME NEW r \in Router, NEW e \in Busy, NoOrphans(e), NEW s \in Seg, NEW k \in Key
    PROVE  LET f == FloodOn(r, e, s, k)
           IN f \in Busy /\ NoOrphans(f) /\ KeepsDb(e, f)
<1> DEFINE g == FloodTo(r, e, SegsOf(r) \ {s}, k)
<1>1. SegsOf(r) \ {s} \in SUBSET Seg
  BY DEF SegsOf
<1>2. g \in Busy /\ NoOrphans(g) /\ KeepsDb(e, g)
  BY <1>1, FloodToKeeps
<1> HIDE DEF g
<1>3. LET f == FloodBack(r, g, s, k) IN f \in Busy /\ NoOrphans(f) /\ KeepsDb(g, f)
  BY <1>2, FloodBackKeeps
<1>q. QED
  BY <1>2, <1>3 DEF FloodOn, g, KeepsDb

LEMMA AcknowledgeKeeps ==
    ASSUME NEW e \in Busy, NoOrphans(e), NEW s \in Seg, NEW k \in Key
    PROVE  LET f == Acknowledge(e, s, k)
           IN f \in Busy /\ NoOrphans(f) /\ KeepsDb(e, f)
  BY DEF Acknowledge, Busy, NoOrphans, KeepsDb

LEMMA ScheduleSpfSane ==
    ASSUME NEW r \in Router, NEW e \in Busy, NoOrphans(e)
    PROVE  LET f == ScheduleSpf(e) IN Sane(r, f) /\ f.db = e.db
  BY DEF ScheduleSpf, Busy, NoOrphans, Sane

LEMMA UnlistSane ==
    ASSUME NEW r \in Router, NEW e, Sane(r, e), NEW s, NEW m, NEW k
    PROVE  LET f == Unlist(e, s, m, k) IN Sane(r, f) /\ KeepsDb(e, f)
<1>1. e.rxmt \ {<<s, m, k>>} \in SUBSET (Seg \X Router \X Key)
  BY DEF Sane, Busy
<1>q. QED
  BY <1>1 DEF Unlist, Busy, NoOrphans, Sane, KeepsDb

LEMMA ForgetSane ==
    ASSUME NEW r \in Router, NEW e, Sane(r, e), NEW s, NEW m
    PROVE  LET f == Forget(e, s, m)
           IN Sane(r, f) /\ KeepsDb(e, f) /\ f.out = e.out
<1>1. /\ {t \in e.rxmt : <<t[1], t[2]>> # <<s, m>>} \in SUBSET (Seg \X Router \X Key)
      /\ e.adj \ {<<s, m>>} \in SUBSET (Seg \X Router)
  BY DEF Sane, Busy
<1>2. Forget(e, s, m) =
        [e EXCEPT !.adj = e.adj \ {<<s, m>>},
                  !.rxmt = {t \in e.rxmt : <<t[1], t[2]>> # <<s, m>>}]
  BY DEF Forget, Sane, Busy
<1>q. QED
  BY <1>1, <1>2 DEF Busy, NoOrphans, Sane, KeepsDb

-----------------------------------------------------------------------------
(* The handlers.                                                           *)

LEMMA TakeNewerSane ==
    ASSUME NEW r \in Router, NEW e, Sane(r, e), NEW p \in LsuPacket, p.inst > e.db[p.key]
    PROVE  LET f == TakeNewer(r, e, p) IN Sane(r, f) /\ Onward(r, e, f)
<1> DEFINE g == Set(e, p.key, p.inst)
           h == FloodOn(r, g, p.seg, p.key)
<1>1. p.key \in Key /\ p.seg \in Seg /\ p.inst \in Nat
  BY DEF LsuPacket
<1>2. /\ g \in Busy /\ NoOrphans(g)
      /\ g.db = [e.db EXCEPT ![p.key] = p.inst] /\ g.dirty = e.dirty \cup {p.key}
      /\ g.spf = e.spf
  BY <1>1, SetSane
<1> HIDE DEF g
<1>3. h \in Busy /\ NoOrphans(h) /\ KeepsDb(g, h)
  BY <1>1, <1>2, FloodOnKeeps
<1> HIDE DEF h
<1>4. Onward(r, e, g) /\ Onward(r, e, h)
  BY <1>1, <1>2, <1>3 DEF Onward, Sane, Busy, KeepsDb
<1>5. TakeNewer(r, e, p) =
        CASE p.key # r -> ScheduleSpf(Acknowledge(h, p.seg, p.key))
          [] p.key = r /\ p.inst \in Flushed -> [h EXCEPT !.db[p.key] = 0]
          [] OTHER -> h
  BY DEF TakeNewer, g, h
<1>6. CASE p.key # r
  <2>1. TakeNewer(r, e, p) = ScheduleSpf(Acknowledge(h, p.seg, p.key))
    BY <1>5, <1>6
  <2>2. LET a == Acknowledge(h, p.seg, p.key)
        IN a \in Busy /\ NoOrphans(a) /\ KeepsDb(h, a)
    BY <1>1, <1>3, AcknowledgeKeeps
  <2>q. QED
    BY <2>1, <2>2, <1>4, ScheduleSpfSane DEF Onward, KeepsDb
<1>7. CASE p.key = r
  <2>1. TakeNewer(r, e, p) \in {h, [h EXCEPT !.db[r] = 0]}
    BY <1>5, <1>7
  <2>2. h.dirty \ {r} = e.dirty \ {r} /\ h.spf = e.spf
    BY <1>2, <1>3, <1>7 DEF KeepsDb
  <2>3. Sane(r, h) /\ Sane(r, [h EXCEPT !.db[r] = 0])
    BY <2>2, <1>3 DEF Sane, Busy, NoOrphans
  <2>4. Onward(r, e, [h EXCEPT !.db[r] = 0])
    BY <1>3, <1>4 DEF Onward, Busy
  <2>q. QED
    BY <2>1, <2>3, <2>4, <1>4
<1>q. QED
  BY <1>6, <1>7

LEMMA ReceiveLsuSane ==
    ASSUME NEW r \in Router, NEW e, Sane(r, e), NEW p \in LsuPacket, NEW refused \in BOOLEAN
    PROVE  LET f == ReceiveLsu(r, e, p, refused) IN Sane(r, f) /\ Onward(r, e, f)
<1> DEFINE held == e.db[p.key]
           same == IF Lan(p.seg) THEN Acknowledge(e, p.seg, p.key) ELSE e
           back == [e EXCEPT !.out = {Packet(p.seg, r, p.from, p.key, held)}]
           f == CASE p.inst > held /\ ~refused -> TakeNewer(r, e, p)
                  [] p.inst > held /\ refused -> e
                  [] p.inst = held -> same
                  [] OTHER -> back
<1>1. /\ p.key \in Key /\ p.seg \in Seg /\ p.inst \in Nat /\ p.from \in Router
      /\ held \in Nat
  BY DEF LsuPacket, Sane, Busy
<1>2. \/ p.inst > held /\ f = TakeNewer(r, e, p)
      \/ f \in {e, Acknowledge(e, p.seg, p.key), back}
  <2>1. p.inst = held => ~(p.inst > held)
    BY <1>1
  <2>2. same \in {e, Acknowledge(e, p.seg, p.key)}
    OBVIOUS
  <2> HIDE DEF held, same, back
  <2>3. (f = TakeNewer(r, e, p) /\ p.inst > held) \/ f \in {e, same, back}
    BY <2>1, Zenon
  <2>q. QED
    BY <2>2, <2>3
<1>3. Sane(r, e) /\ Onward(r, e, e)
  BY DEF Onward, Sane, Busy
<1>4. LET a == Acknowledge(e, p.seg, p.key) IN Sane(r, a) /\ Onward(r, e, a)
  BY <1>1, AcknowledgeKeeps, <1>3 DEF Sane, KeepsDb, Onward
<1>5. LET a == [e EXCEPT !.out = {Packet(p.seg, r, p.from, p.key, e.db[p.key])}]
      IN Sane(r, a) /\ Onward(r, e, a)
  <2>1. {Packet(p.seg, r, p.from, p.key, e.db[p.key])} \in SUBSET LsuPacket
    BY <1>1, PacketType
  <2>q. QED
    BY <2>1, <1>3 DEF Sane, Busy, NoOrphans, Onward
<1> HIDE DEF f
<1>6. Sane(r, f) /\ Onward(r, e, f)
  BY <1>2, <1>3, <1>4, <1>5, TakeNewerSane
<1>7. LET g == Unlist(f, p.seg, p.from, p.key) IN Sane(r, g) /\ KeepsDb(f, g)
  BY <1>6, UnlistSane
<1>q. QED
  BY <1>6, <1>7 DEF ReceiveLsu, f, Onward, KeepsDb

-----------------------------------------------------------------------------
(* The callbacks.                                                          *)

(* What every callback comes to for router r: a record at rest.            *)
Calm(r, e, f) ==
    /\ f \in Node /\ Sane(r, f)
    /\ Onward(r, e, f) \/ f = NewNode

LEMMA InitIInv == Init => IInv
<1> SUFFICES ASSUME Init PROVE IInv
  OBVIOUS
<1>1. NewNode \in Node /\ NewNode.rxmt = {} /\ NewNode.dirty = {}
  BY DEF NewNode, Node
<1>q. QED
  BY <1>1 DEF Init, IInv, TypeOK, RoutesFollow

(* A callback of one router that sends packets. *)
LEMMA StepCalm ==
    ASSUME IInv, NEW r \in Router, NEW e, Sane(r, e), Onward(r, node[r], e),
           NEW L \in SUBSET LsuPacket, Step(r, e, L)
    PROVE  /\ \A q \in Router : Calm(q, node[q], node'[q])
           /\ node' \in [Router -> Node] /\ lsu' \subseteq LsuPacket
<1> DEFINE f == [e EXCEPT !.out = {}]
<1>1. f \in Node /\ Sane(r, f) /\ KeepsDb(e, f)
  BY Rest
<1>2. node' = [node EXCEPT ![r] = f] /\ lsu' = L \cup e.out
  BY DEF Step
<1> HIDE DEF f
<1>3. Calm(r, node[r], f)
  BY <1>1 DEF Calm, Onward, KeepsDb
<1>4. \A q \in Router : Calm(q, node[q], node[q])
  BY Resting DEF Calm, Onward, IInv, TypeOK, Node
<1>5. e.out \subseteq LsuPacket
  BY DEF Sane, Busy
<1>q. QED
  BY <1>1, <1>2, <1>3, <1>4, <1>5 DEF IInv, TypeOK

LEMMA SameCalm ==
    ASSUME IInv, UNCHANGED node
    PROVE  /\ \A q \in Router : Calm(q, node[q], node'[q])
           /\ node' \in [Router -> Node]
  BY Resting DEF Calm, Onward, IInv, TypeOK, Node

LEMMA OriginateCalm ==
    ASSUME IInv, NEW r \in Router, Originate(r)
    PROVE  /\ \A q \in Router : Calm(q, node[q], node'[q])
           /\ node' \in [Router -> Node] /\ lsu' \subseteq LsuPacket
<1>1. PICK i \in OwnInst :
        Step(r, FloodLsa(r, [Set(node[r], r, i) EXCEPT !.mine = i], r), lsu)
  BY DEF Originate
<1> DEFINE g == Set(node[r], r, i)
           h == [g EXCEPT !.mine = i]
<1>2. r \in Key /\ node[r].db[r] = 0 /\ i \in Nat /\ Sane(r, node[r])
  BY Resting, FloodingAssumption DEF Originate
<1>3. /\ g \in Busy /\ NoOrphans(g)
      /\ g.db = [node[r].db EXCEPT ![r] = i] /\ g.dirty = node[r].dirty \cup {r}
      /\ g.spf = node[r].spf
  BY <1>2, SetSane
<1> HIDE DEF g
<1>4. h \in Busy /\ NoOrphans(h) /\ h.db = g.db /\ h.dirty = g.dirty /\ h.spf = g.spf
  BY <1>2, <1>3 DEF Busy, NoOrphans
<1> HIDE DEF h
<1>5. LET f == FloodLsa(r, h, r) IN f \in Busy /\ NoOrphans(f) /\ KeepsDb(h, f)
  BY <1>2, <1>4, FloodLsaKeeps
<1>6. LET f == FloodLsa(r, h, r) IN Sane(r, f) /\ Onward(r, node[r], f)
  BY <1>2, <1>3, <1>4, <1>5 DEF Sane, KeepsDb, Onward, Busy
<1>7. Step(r, FloodLsa(r, h, r), lsu)
  BY <1>1 DEF h, g
<1>q. QED
  BY <1>6, <1>7, StepCalm DEF IInv, TypeOK

LEMMA LearnCalm ==
    ASSUME IInv, NEW r \in Router, NEW k \in Key, Learn(r, k)
    PROVE  /\ \A q \in Router : Calm(q, node[q], node'[q])
           /\ node' \in [Router -> Node] /\ lsu' \subseteq LsuPacket
<1>1. PICK i \in 1..MaxInst :
        /\ i > node[r].db[k]
        /\ Step(r, ScheduleSpf(FloodLsa(r, Set(node[r], k, i), k)), lsu)
  BY DEF Learn
<1> DEFINE g == Set(node[r], k, i)
           h == FloodLsa(r, g, k)
<1>2. Sane(r, node[r]) /\ i \in Nat
  BY Resting, FloodingAssumption
<1>3. g \in Busy /\ NoOrphans(g) /\ g.db = [node[r].db EXCEPT ![k] = i]
  BY <1>2, SetSane
<1> HIDE DEF g
<1>4. h \in Busy /\ NoOrphans(h) /\ KeepsDb(g, h)
  BY <1>3, FloodLsaKeeps
<1> HIDE DEF h
<1>5. LET f == ScheduleSpf(h) IN Sane(r, f) /\ f.db = h.db
  BY <1>4, ScheduleSpfSane
<1>6. Onward(r, node[r], ScheduleSpf(h))
  BY <1>1, <1>2, <1>3, <1>4, <1>5 DEF Sane, KeepsDb, Onward, Busy
<1>7. Step(r, ScheduleSpf(h), lsu)
  BY <1>1 DEF h, g
<1>q. QED
  BY <1>5, <1>6, <1>7, StepCalm DEF IInv, TypeOK

(* Receive and Duplicate: the same handler, the packet consumed or not.    *)
LEMMA ReceiveCalm ==
    ASSUME IInv, NEW p \in lsu, NEW refused \in BOOLEAN, NEW L \in SUBSET lsu,
           Step(p.to, ReceiveLsu(p.to, node[p.to], p, refused), L)
    PROVE  /\ \A q \in Router : Calm(q, node[q], node'[q])
           /\ node' \in [Router -> Node] /\ lsu' \subseteq LsuPacket
<1>1. p \in LsuPacket /\ p.to \in Router /\ L \in SUBSET LsuPacket
  BY DEF IInv, TypeOK, LsuPacket
<1>2. Sane(p.to, node[p.to])
  BY <1>1, Resting
<1>3. LET f == ReceiveLsu(p.to, node[p.to], p, refused)
      IN Sane(p.to, f) /\ Onward(p.to, node[p.to], f)
  BY <1>1, <1>2, ReceiveLsuSane
<1>q. QED
  BY <1>1, <1>3, StepCalm

LEMMA FlushAcksCalm ==
    ASSUME IInv, NEW r \in Router, NEW s \in SegsOf(r), FlushAcks(r, s)
    PROVE  /\ \A q \in Router : Calm(q, node[q], node'[q])
           /\ node' \in [Router -> Node]
<1> DEFINE
      due == {k \in Key : <<s, k>> \in node[r].acks}
      sent == [node[r] EXCEPT !.acks = {t \in @ : t[1] # s}]
      told(m) == [node[m] EXCEPT !.rxmt = {t \in @ : ~(t[1] = s /\ t[2] = r /\ t[3] \in due)}]
<1>1. node' = [m \in Router |-> IF m = r THEN sent
                               ELSE IF m \in Audience(r, s) THEN told(m) ELSE node[m]]
  BY DEF FlushAcks
<1>2. ASSUME NEW m \in Router PROVE node[m] \in Node /\ Sane(m, node[m])
  BY Resting DEF IInv, TypeOK
<1>3. ASSUME NEW m \in Router
      PROVE  /\ told(m) \in Node /\ NoOrphans(told(m)) /\ told(m).db = node[m].db
             /\ told(m).dirty = node[m].dirty /\ told(m).spf = node[m].spf
             /\ told(m).out = {}
  <2>1. {t \in node[m].rxmt : ~(t[1] = s /\ t[2] = r /\ t[3] \in due)}
           \in SUBSET (Seg \X Router \X Key)
    BY <1>2 DEF Node
  <2>2. told(m) = [node[m] EXCEPT !.rxmt =
                     {t \in node[m].rxmt : ~(t[1] = s /\ t[2] = r /\ t[3] \in due)}]
    BY <1>2 DEF Node
  <2> HIDE DEF due
  <2>q. QED
    BY <2>1, <2>2, <1>2 DEF Node, Sane, NoOrphans
<1>4. /\ sent \in Node /\ NoOrphans(sent) /\ sent.db = node[r].db
      /\ sent.dirty = node[r].dirty /\ sent.spf = node[r].spf /\ sent.out = {}
  <2>1. {t \in node[r].acks : t[1] # s} \in SUBSET (Seg \X Key)
    BY <1>2 DEF Node
  <2>2. sent = [node[r] EXCEPT !.acks = {t \in node[r].acks : t[1] # s}]
    BY <1>2 DEF Node
  <2>q. QED
    BY <2>1, <2>2, <1>2 DEF Node, Sane, NoOrphans
<1> HIDE DEF due, sent, told
<1>5. ASSUME NEW m \in Router
      PROVE  Calm(m, node[m], sent) \/ m # r
  BY <1>2, <1>4 DEF Calm, Sane, Busy, Node, Onward
<1>6. ASSUME NEW m \in Router PROVE Calm(m, node[m], told(m)) /\ Calm(m, node[m], node[m])
  BY <1>2, <1>3 DEF Calm, Sane, Busy, Node, Onward
<1>q. QED
  BY <1>1, <1>5, <1>6 DEF Calm

LEMMA RunSpfCalm ==
    ASSUME IInv, NEW r \in Router, RunSpf(r)
    PROVE  /\ \A q \in Router : Calm(q, node[q], node'[q])
           /\ node' \in [Router -> Node]
<1> DEFINE e == [node[r] EXCEPT !.spf = FALSE, !.dirty = {}]
<1>1. node' = [node EXCEPT ![r] = e]
  BY DEF RunSpf, IInv, TypeOK, Node
<1>2. \A q \in Router : node[q] \in Node /\ Sane(q, node[q])
  BY Resting DEF IInv, TypeOK
<1>3. Calm(r, node[r], e)
  <2>1. /\ e \in Node /\ e.db = node[r].db /\ e.rxmt = node[r].rxmt
        /\ e.adj = node[r].adj /\ e.dirty = {}
    BY <1>2 DEF Node
  <2>2. e \in Busy /\ NoOrphans(e) /\ Onward(r, node[r], e)
    BY <1>2, <2>1 DEF Node, Sane, NoOrphans, Busy, Onward
  <2>q. QED
    BY <2>1, <2>2 DEF Calm, Sane
<1>4. \A q \in Router : Calm(q, node[q], node[q])
  BY <1>2 DEF Calm, Onward, Node
<1> HIDE DEF e
<1>q. QED
  BY <1>1, <1>3, <1>4 DEF Calm, IInv, TypeOK

LEMMA ConnectCalm ==
    ASSUME IInv, NEW s \in Seg, NEW r \in On[s], NEW m \in On[s], Connect(s, r, m)
    PROVE  /\ \A q \in Router : Calm(q, node[q], node'[q])
           /\ node' \in [Router -> Node] /\ lsu' \subseteq LsuPacket
<1>1. r \in Router /\ m \in Router /\ r # m
  BY FloodingAssumption DEF Connect
<1>2. \A q \in Router : node[q] \in Node /\ Sane(q, node[q])
  BY Resting DEF IInv, TypeOK
<1> DEFINE e(q, l) == [node[q] EXCEPT !.adj = node[q].adj \cup {<<s, l>>}]
<1>3. ASSUME NEW q \in Router, NEW l \in Router PROVE Calm(q, node[q], e(q, l))
  BY <1>2 DEF Calm, Sane, Busy, Node, Onward, NoOrphans
<1>4. \A q \in Router : Calm(q, node[q], node[q])
  BY <1>2 DEF Calm, Onward, Node
<1>5. node' = [node EXCEPT ![r] = e(r, m), ![m] = e(m, r)]
  BY <1>1 DEF Connect, IInv, TypeOK, Node
<1> HIDE DEF e
<1>6. /\ \A q \in Router : Calm(q, node[q], node'[q])
      /\ node' \in [Router -> Node]
  BY <1>1, <1>3, <1>4, <1>5 DEF Calm, IInv, TypeOK
<1>7. ASSUME NEW k \in Key
      PROVE  /\ Answer(s, r, m, k, node[r].db[k]) \in LsuPacket
             /\ Answer(s, m, r, k, node[m].db[k]) \in LsuPacket
  <2>1. node[r].db[k] \in Nat /\ node[m].db[k] \in Nat
    BY <1>1, <1>2 DEF Node
  <2>q. QED
    BY <1>1, <2>1, PacketType
<1>8. lsu' \subseteq LsuPacket
  BY <1>7 DEF Connect, IInv, TypeOK
<1>q. QED
  BY <1>6, <1>8

LEMMA DropCalm ==
    ASSUME IInv, NEW s \in Seg, NEW r \in On[s], NEW m \in On[s], Drop(s, r, m)
    PROVE  /\ \A q \in Router : Calm(q, node[q], node'[q])
           /\ node' \in [Router -> Node]
<1>1. r \in Router
  BY FloodingAssumption
<1>2. \A q \in Router : node[q] \in Node /\ Sane(q, node[q]) /\ node[q].out = {}
  BY Resting DEF IInv, TypeOK
<1> DEFINE e == Forget(node[r], s, m)
<1>3. Sane(r, e) /\ KeepsDb(node[r], e) /\ e.out = {}
  BY <1>1, <1>2, ForgetSane
<1>4. node' = [node EXCEPT ![r] = e]
  BY DEF Drop
<1> HIDE DEF e
<1>5. Calm(r, node[r], e)
  BY <1>1, <1>2, <1>3 DEF Calm, Sane, Busy, Node, Onward, KeepsDb
<1>6. \A q \in Router : Calm(q, node[q], node[q])
  BY <1>2 DEF Calm, Onward, Node
<1>q. QED
  BY <1>4, <1>5, <1>6 DEF Calm, IInv, TypeOK

LEMMA RestartCalm ==
    ASSUME IInv, NEW r \in Router, Restart(r)
    PROVE  /\ \A q \in Router : Calm(q, node[q], node'[q])
           /\ node' \in [Router -> Node]
<1>1. NewNode \in Node
  BY DEF NewNode, Node
<1>2. \A q \in Router : node[q] \in Node /\ Sane(q, node[q])
  BY Resting DEF IInv, TypeOK
<1>3. node' = [node EXCEPT ![r] = NewNode]
  BY DEF Restart
<1>4. Calm(r, node[r], NewNode)
  BY <1>1, NewNodeSane DEF Calm
<1>5. \A q \in Router : Calm(q, node[q], node[q])
  BY <1>2 DEF Calm, Onward, Node
<1>q. QED
  BY <1>3, <1>4, <1>5 DEF Calm, IInv, TypeOK

-----------------------------------------------------------------------------
(* Every step.                                                             *)

LEMMA NextCalm ==
    ASSUME IInv, [Next]_vars
    PROVE  /\ \A r \in Router : Calm(r, node[r], node'[r])
           /\ TypeOK'
<1> DEFINE Goal == /\ \A r \in Router : Calm(r, node[r], node'[r])
                   /\ node' \in [Router -> Node] /\ lsu' \subseteq LsuPacket
                   /\ faults' \in Nat /\ lost' \in BOOLEAN
<1> USE DEF NoFault
<1>1. lsu \subseteq LsuPacket /\ faults \in Nat /\ lost \in BOOLEAN
  BY DEF IInv, TypeOK
<1>2. ASSUME NEW kind, Strike(kind) PROVE faults' \in Nat /\ lost' \in BOOLEAN
  BY <1>1, <1>2 DEF Strike
<1>3. ASSUME NEW r \in Router, Originate(r) PROVE Goal
  BY <1>1, <1>3, OriginateCalm DEF Originate
<1>4. ASSUME NEW r \in Router, RunSpf(r) PROVE Goal
  BY <1>1, <1>4, RunSpfCalm DEF RunSpf
<1>5. ASSUME NEW r \in Router, Restart(r) PROVE Goal
  <2>1. lsu' \subseteq LsuPacket
    BY <1>1, <1>5 DEF Restart
  <2>q. QED
    BY <1>2, <1>5, <2>1, RestartCalm DEF Restart
<1>6. ASSUME NEW r \in Router, NEW k \in Key, Learn(r, k) PROVE Goal
  BY <1>1, <1>6, LearnCalm DEF Learn
<1>7. ASSUME NEW r \in Router, NEW s \in SegsOf(r), FlushAcks(r, s) PROVE Goal
  BY <1>1, <1>7, FlushAcksCalm DEF FlushAcks
<1>8. ASSUME NEW s \in Seg, NEW r \in On[s], NEW m \in On[s], Connect(s, r, m) PROVE Goal
  BY <1>1, <1>8, ConnectCalm DEF Connect
<1>9. ASSUME NEW s \in Seg, NEW r \in On[s], NEW m \in On[s], Drop(s, r, m) PROVE Goal
  BY <1>1, <1>2, <1>9, DropCalm DEF Drop
<1>10. ASSUME NEW p \in lsu, Receive(p) PROVE Goal
  <2>1. PICK refused \in BOOLEAN :
          Step(p.to, ReceiveLsu(p.to, node[p.to], p, refused), lsu \ {p})
    BY <1>10 DEF Receive
  <2>2. faults' \in Nat /\ lost' \in BOOLEAN
    BY <1>1, <1>2, <1>10 DEF Receive
  <2>q. QED
    BY <1>1, <2>1, <2>2, ReceiveCalm
<1>11. ASSUME NEW p \in lsu, Duplicate(p) PROVE Goal
  BY <1>2, <1>11, ReceiveCalm DEF Duplicate
<1>12. ASSUME NEW p \in lsu, Ignore(p) \/ Lose(p) PROVE Goal
  <2>1. UNCHANGED node /\ lsu' \subseteq lsu /\ faults' \in Nat /\ lost' \in BOOLEAN
    BY <1>1, <1>2, <1>12 DEF Ignore, Lose
  <2>q. QED
    BY <1>1, <2>1, SameCalm
<1>13. ASSUME UNCHANGED vars PROVE Goal
  <2>1. UNCHANGED node /\ lsu' = lsu /\ faults' = faults /\ lost' = lost
    BY <1>13 DEF vars
  <2>q. QED
    BY <1>1, <2>1, SameCalm
<1> HIDE DEF Goal
<1>14. Goal
  BY <1>3, <1>4, <1>5, <1>6, <1>7, <1>8, <1>9, <1>10, <1>11, <1>12, <1>13 DEF Next
<1> USE DEF Goal
<1>15. \A r \in Router : \A t \in node'[r].rxmt : <<t[1], t[2]>> \in node'[r].adj
  BY <1>14 DEF Calm, Sane, NoOrphans
<1>q. QED
  BY <1>14, <1>15 DEF TypeOK

LEMMA NextIInv == IInv /\ [Next]_vars => IInv'
<1> SUFFICES ASSUME IInv, [Next]_vars PROVE IInv'
  OBVIOUS
<1>1. RoutesFollow'
  BY NextCalm DEF Calm, Sane, RoutesFollow
<1>q. QED
  BY <1>1, NextCalm DEF IInv

(* Types, lists with an owner and changes that SPF will see, through every *)
(* handler of receive_lsu, flood_lsa and the timers.                       *)
THEOREM Invariance == Spec => []IInv
  BY InitIInv, NextIInv, PTL DEF Spec

(* Every router's record, list and packet has its type, and no             *)
(* retransmission list outlives the adjacency it belongs to (Neighbor's    *)
(* ls_retransmission_list is cleared wherever the neighbour leaves         *)
(* Exchange, a full list included).                                        *)
THEOREM TypeCorrect == Spec => []TypeOK
<1>1. IInv => TypeOK
  BY DEF IInv
<1>q. QED
  BY <1>1, Invariance, PTL

(* Wherever an LSA of another router enters the database, SPF is scheduled *)
(* in the same callback (receive_lsu, schedule_spf).                       *)
THEOREM RoutesFollowDatabase == Spec => []RoutesFollow
<1>1. IInv => RoutesFollow
  BY DEF IInv
<1>q. QED
  BY <1>1, Invariance, PTL

(* Whatever is lost, doubled, overtaken or refused, an instance in a       *)
(* database only gives way to a newer one (receive_lsu), unless the router *)
(* restarts or removes its own LSA.                                        *)
THEOREM NeverStepsBack == Spec => NoStepBack
<1>1. IInv /\ [Next]_vars =>
        [\A r \in Router : \A k \in Key :
            node'[r].db[k] >= node[r].db[k] \/ node'[r] = NewNode
            \/ (k = r /\ node'[r].db[k] = 0)]_vars
  BY NextCalm DEF Calm, Onward
<1>q. QED
  BY <1>1, Invariance, PTL DEF Spec, NoStepBack
-----------------------------------------------------------------------------
(* NoGap: what flooding promises until something is lost or refused.       *)

(* A point-to-point link joins two routers. *)
IsLink(s) == ~Lan(s) /\ \A a, b, c \in On[s] : a = b \/ b = c \/ a = c

(* No router restarts, no list is ever full and nobody removes an own LSA. *)
Steady ==
    /\ Fault \subseteq {"duplicate", "expire", "lose", "refuse"}
    /\ IsFiniteSet(Key) /\ Cardinality(Key) <= MaxRxmt
    /\ Flushed = {} \/ Key \cap Router = {}

(* What the theorem NothingMissing asks of the constants.                  *)
Delivers == \A s \in Seg : IsLink(s) \/ (Lan(s) /\ Steady)

(* Some packet of L is from r to m and brings k, i or newer.               *)
Bears(L, s, r, m, k, i) ==
    \E p \in L : p.seg = s /\ p.from = r /\ p.to = m /\ p.key = k /\ p.inst >= i

(* Packets and adjacencies are where the topology allows them.             *)
InPlace ==
    /\ \A p \in lsu : {p.from, p.to} \subseteq On[p.seg] /\ p.from # p.to
    /\ \A r \in Router : \A t \in node[r].adj : <<r, t[2]>> \in Pairs(t[1])

(* The sender of what is on its way has it, or something newer, as long as *)
(* the adjacency stands.                                                   *)
Backed ==
    \A p \in lsu :
       Steady \/ (p.key # p.from /\ Adjacent(p.seg, p.from, p.to))
          => node[p.from].db[p.key] >= p.inst

(* The two ends of a link, and the DR of a network, send what they have to *)
(* whom they are adjacent to.                                              *)
Tells ==
    \A s \in Seg : \A r, m \in On[s] : \A k \in Key \ {m} :
       /\ IsLink(s) \/ r = Chief[s]
       /\ Adjacent(s, r, m) /\ node[r].db[k] > node[m].db[k]
       => Bears(lsu, s, r, m, k, node[r].db[k])

(* What a router of a network has is known to the DR, or on its way there, *)
(* or some router has it that is not adjacent to the DR yet and will then  *)
(* send it.                                                                *)
Served(s, k, i) ==
    \/ node[Chief[s]].db[k] >= i
    \/ Coming(s, Chief[s], k, i)
    \/ \E q \in On[s] \ {Chief[s]} : ~Adjacent(s, q, Chief[s]) /\ node[q].db[k] >= i
ReachesChief ==
    Steady =>
       \A s \in Seg : Lan(s) =>
          \A r \in On[s] : \A k \in Key : Served(s, k, node[r].db[k])

GapInv == IInv /\ InPlace /\ Backed /\ Tells /\ ReachesChief

(* What a callback of router r does that has to do with one LSA k: it      *)
(* leaves the other LSAs and the other routers alone, it takes the packets *)
(* X off the wire (one, or none), and when it has news of k it sends that  *)
(* to everyone whom it is adjacent to, except where the news came from.    *)
Fit(s, r, m) == m \in On[s] /\ (IsLink(s) \/ (Lan(s) /\ Steady /\ Chief[s] \in {r, m}))
Deed(r, k, X) ==
    /\ \A q \in Router \ {r} : node'[q].db = node[q].db /\ node'[q].adj = node[q].adj
    /\ \A j \in Key \ {k} : node'[r].db[j] = node[r].db[j]
    /\ node'[r].db[k] >= node[r].db[k] \/ (k = r /\ ~Steady)
    /\ node'[r].adj \subseteq node[r].adj
    /\ Steady => node'[r].adj = node[r].adj
    /\ X \subseteq lsu /\ lsu \ X \subseteq lsu'
    /\ \A x \in X : /\ x.to = r /\ x.key = k
                    /\ node'[r].db[k] >= x.inst \/ (k = r /\ ~Steady)
    /\ \A p \in lsu' \ lsu :
          /\ p.from = r /\ r \in On[p.seg] /\ p.to \in On[p.seg] \ {r} /\ p.key = k
          /\ node'[r].db[k] >= p.inst \/ (k = r /\ ~Steady)
    /\ node'[r].db[k] > node[r].db[k] =>
          \A t \in node'[r].adj : Fit(t[1], r, t[2]) =>
             \/ Bears(lsu', t[1], r, t[2], k, node'[r].db[k])
             \/ \E x \in X : /\ x.seg = t[1] /\ x.inst >= node'[r].db[k]
                             /\ Lan(t[1]) => r # Chief[t[1]]

LEMMA OnRouter ==
    /\ \A s \in Seg : On[s] \subseteq Router
    /\ \A s \in Seg : Lan(s) => Chief[s] \in On[s]
  BY FloodingAssumption DEF Lan

LEMMA DbNat ==
    TypeOK => /\ \A r \in Router : \A k \in Key : node[r].db[k] \in Nat
              /\ \A r \in Router : node[r].adj \subseteq Seg \X Router
              /\ \A p \in lsu : /\ p.seg \in Seg /\ p.from \in Router /\ p.to \in Router
                                /\ p.key \in Key /\ p.inst \in Nat
  BY DEF TypeOK, Node, LsuPacket

LEMMA DbNatNext ==
    TypeOK' => /\ \A r \in Router : \A k \in Key : node'[r].db[k] \in Nat
               /\ \A p \in lsu' : /\ p.seg \in Seg /\ p.from \in Router /\ p.to \in Router
                                  /\ p.key \in Key /\ p.inst \in Nat
  BY DEF TypeOK, Node, LsuPacket

(* Two routers that are adjacent are two, and on the segment.              *)
LEMMA AdjacentOn ==
    ASSUME InPlace, NEW s \in Seg, NEW r \in Router, NEW m, Adjacent(s, r, m)
    PROVE  r \in On[s] /\ m \in On[s] /\ r # m
  BY DEF InPlace, Adjacent, Pairs

LEMMA DeedInPlace ==
    ASSUME GapInv, NEW r \in Router, NEW k \in Key, NEW X, Deed(r, k, X)
    PROVE  InPlace'
<1>1. \A p \in lsu' : {p.from, p.to} \subseteq On[p.seg] /\ p.from # p.to
  BY DEF GapInv, InPlace, Deed
<1>2. \A q \in Router : node'[q].adj \subseteq node[q].adj
  BY DEF Deed
<1>q. QED
  BY <1>1, <1>2 DEF GapInv, InPlace

LEMMA DeedBacked ==
    ASSUME GapInv, NEW r \in Router, NEW k \in Key, NEW X, Deed(r, k, X), TypeOK'
    PROVE  Backed'
<1> SUFFICES ASSUME NEW p \in lsu',
                    Steady \/ (p.key # p.from /\ Adjacent(p.seg, p.from, p.to)')
             PROVE  node'[p.from].db[p.key] >= p.inst
  BY DEF Backed
<1>1. /\ p.from \in Router /\ p.key \in Key /\ p.inst \in Nat
      /\ node'[p.from].db[p.key] \in Nat
  BY DbNatNext
<1>2. CASE p \in lsu \ lsu' \/ p \in lsu
  <2>1. node[p.from].db[p.key] \in Nat
    BY <1>1, DbNat DEF GapInv, IInv
  <2>2. Adjacent(p.seg, p.from, p.to)' => Adjacent(p.seg, p.from, p.to)
    <3>1. p.to \in Router
      BY DbNatNext
    <3>q. QED
      BY <1>1, <3>1 DEF Adjacent, Deed
  <2>3. node[p.from].db[p.key] >= p.inst
    BY <1>2, <2>2 DEF GapInv, Backed
  <2>4. \/ node'[p.from].db[p.key] >= node[p.from].db[p.key]
        \/ p.key = p.from /\ ~Steady
    BY <1>1, <2>1 DEF Deed
  <2>q. QED
    BY <1>1, <2>1, <2>3, <2>4
<1>3. CASE p \in lsu' \ lsu
  BY <1>3 DEF Deed
<1>q. QED
  BY <1>2, <1>3

LEMMA DeedTells ==
    ASSUME GapInv, Delivers, NEW r \in Router, NEW k \in Key, NEW X, Deed(r, k, X), TypeOK'
    PROVE  Tells'
<1> SUFFICES ASSUME NEW s \in Seg, NEW a \in On[s], NEW m \in On[s], NEW j \in Key \ {m},
                    IsLink(s) \/ a = Chief[s],
                    Adjacent(s, a, m)', node'[a].db[j] > node'[m].db[j]
             PROVE  Bears(lsu', s, a, m, j, node'[a].db[j])
  BY DEF Tells, Bears
<1>1. /\ a \in Router /\ m \in Router
      /\ node[a].db[j] \in Nat /\ node[m].db[j] \in Nat
      /\ node'[a].db[j] \in Nat /\ node'[m].db[j] \in Nat
  BY OnRouter, DbNat, DbNatNext DEF GapInv, IInv
<1>2. Adjacent(s, a, m) /\ a # m
  <2>1. Adjacent(s, a, m)
    BY <1>1 DEF Adjacent, Deed
  <2>q. QED
    BY <1>1, <2>1, AdjacentOn DEF GapInv
(* What was on its way to another router still is.                         *)
<1>3. ASSUME node[a].db[j] > node[m].db[j], node[a].db[j] >= node'[a].db[j],
             m # r \/ node'[m].db[j] >= node[m].db[j]
      PROVE  Bears(lsu', s, a, m, j, node'[a].db[j])
  <2>1. PICK p \in lsu : /\ p.seg = s /\ p.from = a /\ p.to = m /\ p.key = j
                         /\ p.inst >= node[a].db[j]
    BY <1>2, <1>3 DEF GapInv, Tells, Bears
  <2>2. p.inst \in Nat
    BY DbNat DEF GapInv, IInv
  <2>3. p \notin X
    <3>1. SUFFICES ASSUME p \in X PROVE FALSE
      OBVIOUS
    <3>2. m = r /\ j = k /\ node'[r].db[k] >= p.inst
      BY <2>1, <3>1 DEF Deed
    <3>q. QED
      BY <1>1, <1>3, <2>1, <2>2, <3>2
  <2>4. p \in lsu'
    BY <2>3 DEF Deed
  <2>5. p.inst >= node'[a].db[j]
    BY <1>1, <1>3, <2>1, <2>2
  <2>q. QED
    BY <2>1, <2>4, <2>5 DEF Bears
<1>4. CASE a # r
  <2>1. node'[a].db[j] = node[a].db[j]
    BY <1>1, <1>4 DEF Deed
  <2>2. node'[m].db[j] >= node[m].db[j]
    BY <1>1 DEF Deed
  <2>q. QED
    BY <1>1, <1>3, <2>1, <2>2
<1>5. CASE a = r /\ node[r].db[j] >= node'[r].db[j]
  <2>1. node'[m].db[j] = node[m].db[j]
    BY <1>1, <1>2, <1>5 DEF Deed
  <2>q. QED
    BY <1>1, <1>2, <1>3, <1>5, <2>1
<1>6. CASE a = r /\ node'[r].db[j] > node[r].db[j]
  <2>1. j = k /\ node'[m].db = node[m].db
    BY <1>1, <1>2, <1>6 DEF Deed
  <2>2. <<s, m>> \in node'[r].adj /\ Fit(s, r, m)
    BY <1>6 DEF Adjacent, Fit, Delivers, IsLink
  <2>3. \/ Bears(lsu', s, r, m, k, node'[r].db[k])
        \/ \E x \in X : x.seg = s /\ x.inst >= node'[r].db[k] /\ (Lan(s) => r # Chief[s])
    BY <1>6, <2>1, <2>2 DEF Deed
  <2>4. CASE \E x \in X : x.seg = s /\ x.inst >= node'[r].db[k] /\ (Lan(s) => r # Chief[s])
    <3>1. PICK x \in X : x.seg = s /\ x.inst >= node'[r].db[k] /\ (Lan(s) => r # Chief[s])
      BY <2>4
    <3>2. x \in lsu /\ x.to = r /\ x.key = k /\ x.inst \in Nat
      BY DbNat DEF Deed, GapInv, IInv
    <3>3. IsLink(s)
      BY <1>6, <3>1 DEF Delivers
    <3>4. x.from = m
      BY <1>2, <1>6, <3>1, <3>2, <3>3 DEF GapInv, InPlace, IsLink
    <3>5. Adjacent(s, m, r)
      BY <1>2, <1>6 DEF Adjacent
    <3>6. node[m].db[k] >= x.inst
      BY <2>1, <3>1, <3>2, <3>4, <3>5 DEF GapInv, Backed
    <3>q. QED
      BY <1>1, <1>6, <2>1, <3>1, <3>2, <3>6
  <2>q. QED
    BY <1>6, <2>1, <2>3, <2>4
<1>q. QED
  BY <1>1, <1>4, <1>5, <1>6

(* What has a way to the DR keeps it.                                      *)
LEMMA DeedServes ==
    ASSUME GapInv, Steady, NEW r \in Router, NEW k \in Key, NEW X, Deed(r, k, X), TypeOK',
           NEW s \in Seg, Lan(s), NEW j \in Key, NEW i \in Nat, Served(s, j, i)
    PROVE  Served(s, j, i)'
<1> DEFINE D == Chief[s]
<1>1. D \in Router /\ D \in On[s]
  BY OnRouter
<1>2. \A q \in Router : /\ node[q].db[j] \in Nat /\ node'[q].db[j] \in Nat
                        /\ node'[q].db[j] >= node[q].db[j]
                        /\ node'[q].adj = node[q].adj
  <2>1. ASSUME NEW q \in Router PROVE node[q].db[j] \in Nat /\ node'[q].db[j] \in Nat
    BY DbNat, DbNatNext DEF GapInv, IInv
  <2>2. ASSUME NEW q \in Router
        PROVE  node'[q].db[j] >= node[q].db[j] /\ node'[q].adj = node[q].adj
    BY <2>1 DEF Deed
  <2>q. QED
    BY <2>1, <2>2
<1>3. CASE node[D].db[j] >= i
  BY <1>1, <1>2, <1>3 DEF Served
<1>4. CASE Coming(s, D, j, i)
  <2>1. PICK p \in lsu : p.seg = s /\ p.to = D /\ p.key = j /\ p.inst >= i
    BY <1>4 DEF Coming
  <2>2. p.inst \in Nat
    BY DbNat DEF GapInv, IInv
  <2>3. CASE p \in X
    <3>1. D = r /\ j = k /\ node'[r].db[k] >= p.inst
      BY <2>1, <2>3 DEF Deed
    <3>2. node'[D].db[j] >= i
      BY <1>1, <1>2, <2>1, <2>2, <3>1
    <3>q. QED
      BY <3>2 DEF Served
  <2>4. CASE p \notin X
    <3>1. p \in lsu'
      BY <2>4 DEF Deed
    <3>q. QED
      BY <2>1, <3>1 DEF Served, Coming
  <2>q. QED
    BY <2>3, <2>4
<1>5. ASSUME NEW q \in On[s] \ {D}, ~Adjacent(s, q, D), node[q].db[j] >= i
      PROVE  Served(s, j, i)'
  <2>1. q \in Router
    BY OnRouter
  <2>2. ~Adjacent(s, q, D)' /\ node'[q].db[j] >= i
    BY <1>1, <1>2, <1>5, <2>1 DEF Adjacent
  <2>q. QED
    BY <2>2 DEF Served
<1>q. QED
  BY <1>3, <1>4, <1>5 DEF Served

LEMMA ServedLess ==
    ASSUME TypeOK, NEW s \in Seg, Lan(s), NEW k \in Key,
           NEW i \in Nat, NEW l \in Nat, i >= l, Served(s, k, i)
    PROVE  Served(s, k, l)
<1>1. /\ Chief[s] \in Router /\ On[s] \subseteq Router
      /\ \A q \in Router : node[q].db[k] \in Nat
      /\ \A p \in lsu : p.inst \in Nat
  BY OnRouter, DbNat
<1>2. node[Chief[s]].db[k] >= i => node[Chief[s]].db[k] >= l
  BY <1>1
<1>3. Coming(s, Chief[s], k, i) => Coming(s, Chief[s], k, l)
  BY <1>1 DEF Coming
<1>4. \A q \in On[s] : node[q].db[k] >= i => node[q].db[k] >= l
  BY <1>1
<1>q. QED
  BY <1>2, <1>3, <1>4 DEF Served

LEMMA DeedReaches ==
    ASSUME GapInv, NEW r \in Router, NEW k \in Key, NEW X, Deed(r, k, X), TypeOK'
    PROVE  ReachesChief'
<1> SUFFICES ASSUME Steady, NEW s \in Seg, Lan(s), NEW a \in On[s], NEW j \in Key
             PROVE  Served(s, j, node[a].db[j])'
  BY DEF ReachesChief
<1>1. /\ a \in Router /\ Chief[s] \in On[s] /\ Chief[s] \in Router
      /\ node[a].db[j] \in Nat /\ node'[a].db[j] \in Nat
  BY OnRouter, DbNat, DbNatNext DEF GapInv, IInv
<1>2. PICK i \in Nat : i = node'[a].db[j]
  BY <1>1
<1>3. SUFFICES Served(s, j, i)'
  BY <1>2 DEF Served, Coming
<1>4. CASE a # r \/ j # k \/ node'[r].db[k] = node[r].db[k]
  <2>1. i = node[a].db[j]
    BY <1>1, <1>2, <1>4 DEF Deed
  <2>2. Served(s, j, i)
    BY <2>1 DEF GapInv, ReachesChief
  <2>q. QED
    BY <2>2, DeedServes
<1>5. CASE a = r /\ j = k /\ node'[r].db[k] # node[r].db[k]
  <2>1. node'[r].db[k] > node[r].db[k]
    BY <1>1, <1>5 DEF Deed
  <2>2. CASE r = Chief[s] \/ ~Adjacent(s, r, Chief[s])'
    BY <1>1, <1>2, <1>5, <2>2 DEF Served
  <2>3. CASE r # Chief[s] /\ Adjacent(s, r, Chief[s])'
    <3>1. <<s, Chief[s]>> \in node'[r].adj /\ Fit(s, r, Chief[s])
      BY <1>1, <2>3 DEF Adjacent, Fit
    <3>2. \/ Bears(lsu', s, r, Chief[s], k, i)
          \/ \E x \in X : x.seg = s /\ x.inst >= i
      BY <1>2, <1>5, <2>1, <3>1 DEF Deed
    <3>3. CASE Bears(lsu', s, r, Chief[s], k, i)
      BY <1>5, <3>3 DEF Bears, Coming, Served
    <3>4. ASSUME NEW x \in X, x.seg = s, x.inst >= i
          PROVE  Served(s, k, i)'
      <4>1. x \in lsu /\ x.key = k /\ x.inst \in Nat /\ x.from \in On[s] /\ x.from \in Router
        BY <3>4, DbNat DEF Deed, GapInv, IInv, InPlace
      <4>2. node[x.from].db[k] >= x.inst /\ node[x.from].db[k] \in Nat
        BY <4>1, DbNat DEF GapInv, Backed, IInv
      <4>3. Served(s, k, node[x.from].db[k])
        BY <4>1 DEF GapInv, ReachesChief
      <4>4. node[x.from].db[k] >= i
        BY <3>4, <4>1, <4>2
      <4>5. Served(s, k, i)
        BY <4>2, <4>3, <4>4, ServedLess DEF GapInv, IInv
      <4>q. QED
        BY <4>5, DeedServes
    <3>q. QED
      BY <1>5, <3>2, <3>3, <3>4
  <2>q. QED
    BY <2>2, <2>3
<1>q. QED
  BY <1>4, <1>5

LEMMA DeedGapInv ==
    ASSUME GapInv, Delivers, NEW r \in Router, NEW k \in Key, NEW X, Deed(r, k, X), TypeOK'
    PROVE  InPlace' /\ Backed' /\ Tells' /\ ReachesChief'
  BY DeedInPlace, DeedBacked, DeedTells, DeedReaches

-----------------------------------------------------------------------------
(* What flooding puts on the wire.                                         *)

Placed(r, e) == \A t \in e.adj : <<r, t[2]>> \in Pairs(t[1])

(* From e to f router r has sent instance i of k, and nothing else, to     *)
(* everyone that it is still adjacent to, but on the segments E.           *)
Flooded(r, e, f, k, i, E) ==
    /\ f.adj \subseteq e.adj /\ (Steady => f.adj = e.adj)
    /\ \A p \in f.out \ e.out :
          /\ p.from = r /\ r \in On[p.seg] /\ p.to \in On[p.seg] \ {r}
          /\ p.key = k /\ p.inst = i
    /\ \A t \in f.adj : Fit(t[1], r, t[2]) /\ t[1] \notin E => Bears(f.out, t[1], r, t[2], k, i)

LEMMA AudienceOn ==
    ASSUME NEW r, NEW s \in Seg
    PROVE  Audience(r, s) \subseteq On[s] \ {r}
  BY FloodingAssumption DEF Audience, Heads

LEMMA AudienceFit ==
    ASSUME NEW s \in Seg, NEW r, NEW m, r # m, Fit(s, r, m)
    PROVE  m \in Audience(r, s)
  BY DEF Fit, Audience, Heads, IsLink, Lan

(* A list has room when there are no more LSAs than it may hold.           *)
LEMMA NeverChoked ==
    ASSUME Steady, NEW e \in Busy, NEW s, NEW k \in Key
    PROVE  Choked(e, s, k) = {}
<1> SUFFICES ASSUME NEW m \in Choked(e, s, k) PROVE FALSE
  OBVIOUS
<1> DEFINE L == Listed(e, s, m)
<1>1. L \subseteq Key \ {k} /\ Cardinality(L) >= MaxRxmt
  BY DEF Choked, Entering, Listed
<1> HIDE DEF L
<1>2. IsFiniteSet(Key) /\ Cardinality(Key) <= MaxRxmt /\ MaxRxmt \in Nat
  BY FloodingAssumption DEF Steady
<1>3. IsFiniteSet(Key \ {k}) /\ Cardinality(Key \ {k}) = Cardinality(Key) - 1
  BY <1>2, FS_RemoveElement
<1>4. Cardinality(L) <= Cardinality(Key \ {k}) /\ IsFiniteSet(L)
  BY <1>1, <1>3, FS_Subset
<1>5. Cardinality(L) \in Nat /\ Cardinality(Key) \in Nat
  BY <1>2, <1>4, FS_CardinalityType
<1>q. QED
  BY <1>1, <1>2, <1>3, <1>4, <1>5

LEMMA FloodToFlooded ==
    ASSUME NEW r \in Router, NEW e \in Busy, Placed(r, e), NEW k \in Key,
           NEW S \in SUBSET SegsOf(r)
    PROVE  Flooded(r, e, FloodTo(r, e, S, k), k, e.db[k], Seg \ S)
<1> DEFINE
      killed == {t \in S \X Router :
                   t[2] \in Choked(e, t[1], k) /\ t[2] = FirstChoked(e, t[1], k)}
      added  == {<<t[1], t[2], k>> : t \in {u \in S \X Router : u[2] \in Reached(e, u[1], k)}}
      sent   == {s \in S : Eligible(e, s) # {} /\ Choked(e, s, k) = {}}
      heard  == {t \in sent \X Router : t[2] \in Audience(r, t[1])
                    /\ (Lan(t[1]) \/ t[2] \in Eligible(e, t[1]))}
      out    == {Packet(t[1], r, t[2], k, e.db[k]) : t \in heard}
      f      == FloodTo(r, e, S, k)
<1>1. f = [e EXCEPT !.adj  = e.adj \ killed,
                    !.rxmt = {t \in e.rxmt \cup added : <<t[1], t[2]>> \notin killed},
                    !.out  = e.out \cup out]
  BY DEF FloodTo, Busy
<1>2. S \subseteq Seg /\ \A s \in S : r \in On[s]
  BY DEF SegsOf
<1> HIDE DEF f
<1>3. f.adj = e.adj \ killed /\ f.out = e.out \cup out
  <2> HIDE DEF killed, added, out
  <2>q. QED
    BY <1>1 DEF Busy
<1>4. Steady => killed = {}
  BY NeverChoked
<1>5. ASSUME NEW p \in out
      PROVE  /\ p.from = r /\ r \in On[p.seg] /\ p.to \in On[p.seg] \ {r}
             /\ p.key = k /\ p.inst = e.db[k]
  <2>1. PICK t \in heard : p = Packet(t[1], r, t[2], k, e.db[k])
    BY <1>5
  <2>2. p.seg = t[1] /\ p.to = t[2] /\ p.from = r /\ p.key = k /\ p.inst = e.db[k]
    BY <2>1 DEF Packet
  <2>3. t[1] \in S /\ t[2] \in On[t[1]] \ {r}
    BY <1>2, AudienceOn
  <2>q. QED
    BY <1>2, <2>2, <2>3
<1>6. ASSUME NEW t \in f.adj, Fit(t[1], r, t[2]), t[1] \in S
      PROVE  Bears(out, t[1], r, t[2], k, e.db[k])
  <2> DEFINE s == t[1]
             m == t[2]
  <2>1. t \in e.adj /\ t \notin killed /\ t = <<s, m>> /\ s \in Seg /\ m \in Router
    BY <1>3 DEF Busy
  <2>2. m \in Eligible(e, s) /\ m # r /\ m \in On[s]
    BY <2>1 DEF Eligible, Placed, Pairs
  <2>3. m \in Audience(r, s)
    BY <1>6, <2>1, <2>2, AudienceFit
(* On a link the only neighbour is not the one that is given up.           *)
  <2>4. Choked(e, s, k) = {}
    <3>1. CASE Steady
      BY <3>1, NeverChoked
    <3>2. CASE IsLink(s)
      <4>1. \A l \in Choked(e, s, k) : l = m
        <5>1. ASSUME NEW l \in Choked(e, s, k) PROVE l = m
          <6>1. <<s, l>> \in e.adj
            BY DEF Choked, Entering, Eligible
          <6>2. l \in On[s] /\ l # r /\ r \in On[s]
            BY <6>1 DEF Placed, Pairs
          <6>q. QED
            BY <3>2, <2>2, <6>2 DEF IsLink
        <5>q. QED
          BY <5>1
      <4>2. SUFFICES ASSUME m \in Choked(e, s, k) PROVE FALSE
        BY <4>1
      <4>3. m <= m
        BY <2>1, FloodingAssumption
      <4>4. m = FirstChoked(e, s, k)
        BY <4>1, <4>2, <4>3 DEF FirstChoked
      <4>q. QED
        BY <1>6, <2>1, <4>2, <4>4
    <3>q. QED
      BY <1>6, <3>1, <3>2 DEF Fit
  <2>5. <<s, m>> \in heard
    BY <1>6, <2>1, <2>2, <2>3, <2>4
  <2>6. Packet(s, r, m, k, e.db[k]) \in out
    BY <2>5
  <2>7. e.db[k] >= e.db[k]
    BY DEF Busy
  <2>q. QED
    BY <2>6, <2>7 DEF Bears, Packet
<1> HIDE DEF killed, out
<1>7. \A t \in f.adj : Fit(t[1], r, t[2]) /\ t[1] \notin Seg \ S
                          => Bears(f.out, t[1], r, t[2], k, e.db[k])
  <2>1. ASSUME NEW t \in f.adj, Fit(t[1], r, t[2]), t[1] \notin Seg \ S
        PROVE  Bears(f.out, t[1], r, t[2], k, e.db[k])
    <3>1. t[1] \in S
      BY <1>3, <2>1 DEF Busy
    <3>q. QED
      BY <1>3, <1>6, <2>1, <3>1 DEF Bears
  <2>q. QED
    BY <2>1
<1>8. f.adj \subseteq e.adj /\ (Steady => f.adj = e.adj)
  BY <1>3, <1>4
<1>9. \A p \in f.out \ e.out :
          /\ p.from = r /\ r \in On[p.seg] /\ p.to \in On[p.seg] \ {r}
          /\ p.key = k /\ p.inst = e.db[k]
  BY <1>3, <1>5
<1>q. QED
  BY <1>7, <1>8, <1>9 DEF Flooded, f

(* FloodOn excuses the segment that the news came in on, but for the DR.   *)
Excused(r, s) == IF Lan(s) /\ r = Chief[s] THEN {} ELSE {s}

LEMMA FloodLsaFlooded ==
    ASSUME NEW r \in Router, NEW e \in Busy, Placed(r, e), NEW k \in Key
    PROVE  Flooded(r, e, FloodLsa(r, e, k), k, e.db[k], {})
<1> DEFINE f == FloodTo(r, e, SegsOf(r), k)
<1>1. Flooded(r, e, f, k, e.db[k], Seg \ SegsOf(r))
  BY FloodToFlooded
<1> HIDE DEF f
<1>2. \A t \in f.adj : t[1] \notin Seg \ SegsOf(r)
  <2>1. \A t \in f.adj : t \in e.adj
    BY <1>1 DEF Flooded
  <2>2. \A t \in e.adj : r \in On[t[1]] /\ t[1] \in Seg
    BY DEF Placed, Pairs, Busy
  <2>q. QED
    BY <2>1, <2>2 DEF SegsOf
<1>q. QED
  BY <1>1, <1>2 DEF Flooded, FloodLsa, f

LEMMA FloodOnFlooded ==
    ASSUME NEW r \in Router, NEW e \in Busy, NoOrphans(e), Placed(r, e), NEW k \in Key,
           NEW s \in Seg, r \in On[s]
    PROVE  Flooded(r, e, FloodOn(r, e, s, k), k, e.db[k], Excused(r, s))
<1> DEFINE S == SegsOf(r) \ {s}
           g == FloodTo(r, e, S, k)
           f == FloodBack(r, g, s, k)
           out == {Packet(s, r, m, k, e.db[k]) : m \in Audience(r, s)}
<1>1. Flooded(r, e, g, k, e.db[k], Seg \ S)
  BY FloodToFlooded
<1>2. g \in Busy /\ g.db = e.db
  <2>1. S \in SUBSET Seg
    BY DEF SegsOf
  <2>q. QED
    BY <2>1, FloodToKeeps DEF KeepsDb
<1> HIDE DEF g
<1>3. \A t \in g.adj : t[1] \notin Seg \ S \/ t[1] = s
  <2>1. \A t \in g.adj : t \in e.adj
    BY <1>1 DEF Flooded
  <2>2. \A t \in e.adj : r \in On[t[1]] /\ t[1] \in Seg
    BY DEF Placed, Pairs, Busy
  <2>q. QED
    BY <2>1, <2>2 DEF SegsOf
<1>4. CASE ~(Lan(s) /\ r = Chief[s])
  <2>1. f = g /\ Excused(r, s) = {s}
    BY <1>4 DEF FloodBack, Excused
  <2>q. QED
    BY <1>1, <1>3, <2>1 DEF Flooded, FloodOn, g
<1>5. CASE Lan(s) /\ r = Chief[s]
  <2>1. f = [g EXCEPT !.out = g.out \cup out] /\ Excused(r, s) = {}
    BY <1>2, <1>5 DEF FloodBack, Excused, Busy
  <2>2. ASSUME NEW p \in out
        PROVE  /\ p.from = r /\ r \in On[p.seg] /\ p.to \in On[p.seg] \ {r}
               /\ p.key = k /\ p.inst = e.db[k]
    <3>1. PICK m \in Audience(r, s) : p = Packet(s, r, m, k, e.db[k])
      BY <2>2
    <3>q. QED
      BY <3>1, AudienceOn DEF Packet
  <2>3. ASSUME NEW t \in g.adj, t[1] = s, Fit(s, r, t[2])
        PROVE  Bears(out, s, r, t[2], k, e.db[k])
    <3>1. r # t[2]
      BY <1>1 DEF Flooded, Placed, Pairs
    <3>2. t[2] \in Audience(r, s)
      BY <2>3, <3>1, AudienceFit
    <3>3. Packet(s, r, t[2], k, e.db[k]) \in out
      BY <3>2
    <3>4. e.db[k] >= e.db[k]
      BY DEF Busy
    <3>q. QED
      BY <3>3, <3>4 DEF Bears, Packet
  <2> HIDE DEF out, f
  <2>4. f.adj = g.adj /\ f.out = g.out \cup out
    BY <1>2, <2>1 DEF Busy
  <2>5. \A t \in f.adj : Fit(t[1], r, t[2]) => Bears(f.out, t[1], r, t[2], k, e.db[k])
    BY <1>1, <1>3, <2>3, <2>4 DEF Flooded, Bears
  <2>6. \A p \in f.out \ e.out :
          /\ p.from = r /\ r \in On[p.seg] /\ p.to \in On[p.seg] \ {r}
          /\ p.key = k /\ p.inst = e.db[k]
    BY <1>1, <2>2, <2>4 DEF Flooded
  <2>7. f.adj \subseteq e.adj /\ (Steady => f.adj = e.adj)
    BY <1>1, <2>4 DEF Flooded
  <2>q. QED
    BY <2>1, <2>5, <2>6, <2>7 DEF Flooded, FloodOn, f, g
<1>q. QED
  BY <1>4, <1>5

-----------------------------------------------------------------------------
(* The callbacks that are deeds.                                           *)

(* A handler that brings router r to f, which has flooded f.db[k].         *)
LEMMA StepDeed ==
    ASSUME TypeOK, InPlace, NEW r \in Router, NEW k \in Key, NEW f,
           NEW X \in SUBSET lsu, NEW L \in SUBSET lsu, lsu \ X \subseteq L,
           \A j \in Key \ {k} : f.db[j] = node[r].db[j],
           f.db[k] >= node[r].db[k] \/ (k = r /\ ~Steady),
           f.adj \subseteq node[r].adj, Steady => f.adj = node[r].adj,
           \A x \in X : /\ x.to = r /\ x.key = k
                        /\ f.db[k] >= x.inst \/ (k = r /\ ~Steady),
           \A p \in f.out :
              /\ p.from = r /\ r \in On[p.seg] /\ p.to \in On[p.seg] \ {r} /\ p.key = k
              /\ f.db[k] >= p.inst \/ (k = r /\ ~Steady),
           f.db[k] > node[r].db[k] =>
              \A t \in f.adj : Fit(t[1], r, t[2]) =>
                 \/ Bears(f.out, t[1], r, t[2], k, f.db[k])
                 \/ \E x \in X : /\ x.seg = t[1] /\ x.inst >= f.db[k]
                                 /\ Lan(t[1]) => r # Chief[t[1]],
           f \in Busy, Step(r, f, L)
    PROVE  Deed(r, k, X)
<1>1. /\ node' = [node EXCEPT ![r] = [f EXCEPT !.out = {}]]
      /\ lsu' = L \cup f.out
  BY DEF Step
<1>2. /\ node'[r].db = f.db /\ node'[r].adj = f.adj
      /\ \A q \in Router \ {r} : node'[q] = node[q]
  BY <1>1 DEF TypeOK, Busy
<1>3. \A p \in lsu' \ lsu : p \in f.out
  BY <1>1
<1>4. lsu \ X \subseteq lsu'
  BY <1>1
<1>5. \A p \in f.out : p \in lsu'
  BY <1>1
<1>6. node'[r].db[k] > node[r].db[k] =>
          \A t \in node'[r].adj : Fit(t[1], r, t[2]) =>
             \/ Bears(lsu', t[1], r, t[2], k, node'[r].db[k])
             \/ \E x \in X : /\ x.seg = t[1] /\ x.inst >= node'[r].db[k]
                             /\ Lan(t[1]) => r # Chief[t[1]]
  BY <1>2, <1>5 DEF Bears
<1>q. QED
  BY <1>2, <1>3, <1>4, <1>6 DEF Deed

LEMMA PlacedNode ==
    ASSUME InPlace, NEW r \in Router, NEW e, e.adj = node[r].adj
    PROVE  Placed(r, e)
  BY DEF InPlace, Placed

LEMMA OriginateDeed ==
    ASSUME GapInv, NEW r \in Router, Originate(r)
    PROVE  r \in Key /\ Deed(r, r, {})
<1>1. PICK i \in OwnInst :
        Step(r, FloodLsa(r, [Set(node[r], r, i) EXCEPT !.mine = i], r), lsu)
  BY DEF Originate
<1> DEFINE h == [Set(node[r], r, i) EXCEPT !.mine = i]
           f == FloodLsa(r, h, r)
<1>2. /\ r \in Key /\ node[r].db[r] = 0 /\ i \in Nat
      /\ Sane(r, node[r]) /\ node[r].out = {}
  BY Resting, FloodingAssumption DEF Originate, GapInv
<1>3. h \in Busy /\ NoOrphans(h) /\ h.adj = node[r].adj /\ h.out = {}
      /\ h.db = [node[r].db EXCEPT ![r] = i]
  BY <1>2 DEF Set, Sane, Busy, NoOrphans
<1> HIDE DEF h
<1>4. f \in Busy /\ f.db = h.db
  BY <1>2, <1>3, FloodLsaKeeps DEF KeepsDb
<1>5. Flooded(r, h, f, r, i, {})
  <2>1. h.db[r] = i
    BY <1>2, <1>3 DEF Sane, Busy
  <2>q. QED
    BY <1>2, <1>3, <2>1, PlacedNode, FloodLsaFlooded DEF GapInv
<1>6. Step(r, f, lsu)
  BY <1>1 DEF h
<1> HIDE DEF f
<1>7. /\ f.db[r] = i /\ node[r].db[r] \in Nat
      /\ \A j \in Key \ {r} : f.db[j] = node[r].db[j]
  BY <1>2, <1>3, <1>4 DEF Sane, Busy
<1>8. /\ i >= node[r].db[r] /\ i >= i
  BY <1>2
<1>q. QED
  BY <1>2, <1>3, <1>4, <1>5, <1>6, <1>7, <1>8, StepDeed DEF Flooded, GapInv, IInv

LEMMA LearnDeed ==
    ASSUME GapInv, NEW r \in Router, NEW k \in Key, Learn(r, k)
    PROVE  Deed(r, k, {})
<1>1. PICK i \in 1..MaxInst :
        /\ i > node[r].db[k]
        /\ Step(r, ScheduleSpf(FloodLsa(r, Set(node[r], k, i), k)), lsu)
  BY DEF Learn
<1> DEFINE h == Set(node[r], k, i)
           g == FloodLsa(r, h, k)
           f == ScheduleSpf(g)
<1>2. i \in Nat /\ Sane(r, node[r]) /\ node[r].out = {}
  BY Resting, FloodingAssumption DEF GapInv
<1>3. h \in Busy /\ NoOrphans(h) /\ h.adj = node[r].adj /\ h.out = {}
      /\ h.db = [node[r].db EXCEPT ![k] = i]
  BY <1>2 DEF Set, Sane, Busy, NoOrphans
<1> HIDE DEF h
<1>4. g \in Busy /\ NoOrphans(g) /\ g.db = h.db
  BY <1>2, <1>3, FloodLsaKeeps DEF KeepsDb
<1>5. Flooded(r, h, g, k, i, {})
  <2>1. h.db[k] = i
    BY <1>2, <1>3 DEF Sane, Busy
  <2>q. QED
    BY <1>2, <1>3, <2>1, PlacedNode, FloodLsaFlooded DEF GapInv
<1> HIDE DEF g
<1>6. f \in Busy /\ f.db = g.db /\ f.adj = g.adj /\ f.out = g.out
  BY <1>4 DEF ScheduleSpf, Busy
<1>7. Step(r, f, lsu)
  BY <1>1 DEF h, g
<1> HIDE DEF f
<1>8. /\ f.db[k] = i /\ node[r].db[k] \in Nat
      /\ \A j \in Key \ {k} : f.db[j] = node[r].db[j]
  BY <1>2, <1>3, <1>4, <1>6 DEF Sane, Busy
<1>9. i >= node[r].db[k] /\ i >= i
  BY <1>1, <1>2, <1>8
<1>q. QED
  BY <1>2, <1>3, <1>4, <1>5, <1>6, <1>7, <1>8, <1>9, StepDeed DEF Flooded, GapInv, IInv

(* What taking a newer instance does, apart from acknowledging it.         *)
LEMMA TakeNewerFlooded ==
    ASSUME NEW r \in Router, NEW e, Sane(r, e), e.out = {}, Placed(r, e), NEW p \in LsuPacket,
           r \in On[p.seg], p.inst > e.db[p.key]
    PROVE  LET f == TakeNewer(r, e, p)
           IN /\ Flooded(r, e, f, p.key, p.inst, Excused(r, p.seg))
              /\ \A j \in Key \ {p.key} : f.db[j] = e.db[j]
              /\ f.db[p.key] = p.inst \/ (f.db[p.key] = 0 /\ p.key = r /\ ~Steady)
<1> DEFINE k == p.key
           g == Set(e, k, p.inst)
           h == FloodOn(r, g, p.seg, k)
           f == TakeNewer(r, e, p)
<1>1. k \in Key /\ p.seg \in Seg /\ p.inst \in Nat
  BY DEF LsuPacket
<1>2. /\ g \in Busy /\ NoOrphans(g) /\ g.adj = e.adj /\ g.out = {}
      /\ g.db = [e.db EXCEPT ![k] = p.inst]
  BY <1>1 DEF Set, Sane, Busy, NoOrphans
<1> HIDE DEF g
<1>3. h \in Busy /\ h.db = g.db
  BY <1>1, <1>2, FloodOnKeeps DEF KeepsDb
<1>4. Flooded(r, g, h, k, p.inst, Excused(r, p.seg))
  <2>1. g.db[k] = p.inst
    BY <1>1, <1>2 DEF Sane, Busy
  <2>2. Placed(r, g)
    BY <1>2 DEF Placed
  <2>q. QED
    BY <1>1, <1>2, <2>1, <2>2, FloodOnFlooded
<1> HIDE DEF h
<1>5. f = CASE k # r -> ScheduleSpf(Acknowledge(h, p.seg, k))
            [] k = r /\ p.inst \in Flushed -> [h EXCEPT !.db[k] = 0]
            [] OTHER -> h
  BY DEF TakeNewer, g, h
<1> HIDE DEF f
<1>6. /\ f.adj = h.adj /\ f.out = h.out
      /\ f.db = h.db \/ (k = r /\ p.inst \in Flushed /\ f.db = [h.db EXCEPT ![k] = 0])
  <2>1. CASE k # r
    BY <1>3, <1>5, <2>1 DEF ScheduleSpf, Acknowledge, Busy
  <2>2. CASE k = r /\ p.inst \in Flushed
    BY <1>3, <1>5, <2>2 DEF Busy
  <2>3. CASE k = r /\ p.inst \notin Flushed
    BY <1>5, <2>3
  <2>q. QED
    BY <2>1, <2>2, <2>3
<1>7. k = r /\ p.inst \in Flushed => ~Steady
  BY <1>1 DEF Steady
<1>8. h.db[k] = p.inst /\ \A j \in Key \ {k} : h.db[j] = e.db[j]
  BY <1>1, <1>2, <1>3 DEF Sane, Busy
<1>9. f.db[k] = p.inst \/ (f.db[k] = 0 /\ k = r /\ ~Steady)
  BY <1>1, <1>3, <1>6, <1>7, <1>8 DEF Busy
<1>10. \A j \in Key \ {k} : f.db[j] = e.db[j]
  BY <1>1, <1>3, <1>6, <1>8 DEF Busy
<1>11. Flooded(r, e, f, k, p.inst, Excused(r, p.seg))
  <2>1. e.out = g.out
    BY <1>2
  <2>q. QED
    BY <1>2, <1>4, <1>6, <2>1 DEF Flooded
<1>q. QED
  BY <1>9, <1>10, <1>11 DEF f

(* Receive and Duplicate. *)
LEMMA ReceiveDeed ==
    ASSUME GapInv, NEW p \in lsu, NEW L \in SUBSET lsu, lsu \ {p} \subseteq L,
           Step(p.to, ReceiveLsu(p.to, node[p.to], p, FALSE), L)
    PROVE  Deed(p.to, p.key, {p})
<1> DEFINE r == p.to
           k == p.key
           e == node[r]
           held == e.db[k]
           f == ReceiveLsu(r, e, p, FALSE)
<1>1. /\ p \in LsuPacket /\ r \in Router /\ k \in Key /\ p.seg \in Seg /\ p.inst \in Nat
      /\ p.from \in Router /\ r \in On[p.seg] /\ p.from \in On[p.seg] \ {r}
  BY DEF GapInv, IInv, TypeOK, InPlace, LsuPacket
<1>2. Sane(r, e) /\ e.out = {} /\ Placed(r, e) /\ held \in Nat /\ e.adj = node[r].adj
  BY <1>1, Resting, PlacedNode, DbNat DEF GapInv, IInv
<1>3. Sane(r, f)
  BY <1>1, <1>2, ReceiveLsuSane
<1>4. CASE p.inst > held
  <2> DEFINE g == TakeNewer(r, e, p)
  <2>0. p.inst # held
    BY <1>1, <1>2, <1>4
  <2>1. f = Unlist(g, p.seg, p.from, k)
    BY <1>4, <2>0, Zenon DEF ReceiveLsu
  <2>2. Sane(r, g)
    BY <1>1, <1>2, <1>4, TakeNewerSane
  <2>3. /\ Flooded(r, e, g, k, p.inst, Excused(r, p.seg))
        /\ \A j \in Key \ {k} : g.db[j] = e.db[j]
        /\ g.db[k] = p.inst \/ (g.db[k] = 0 /\ k = r /\ ~Steady)
    BY <1>1, <1>2, <1>4, TakeNewerFlooded
  <2> HIDE DEF g
  <2>4. f.db = g.db /\ f.adj = g.adj /\ f.out = g.out
    BY <2>1, <2>2 DEF Unlist, Sane, Busy
  <2> HIDE DEF f
  <2>5. /\ f.db[k] >= p.inst \/ (k = r /\ ~Steady)
        /\ f.db[k] >= held \/ (k = r /\ ~Steady)
    BY <1>1, <1>2, <1>4, <2>3, <2>4
  <2>6. \A q \in f.out :
              /\ q.from = r /\ r \in On[q.seg] /\ q.to \in On[q.seg] \ {r} /\ q.key = k
              /\ f.db[k] >= q.inst \/ (k = r /\ ~Steady)
    BY <1>2, <2>3, <2>4, <2>5 DEF Flooded
  <2>7. ASSUME f.db[k] > held
        PROVE  \A t \in f.adj : Fit(t[1], r, t[2]) =>
                 \/ Bears(f.out, t[1], r, t[2], k, f.db[k])
                 \/ \E x \in {p} : /\ x.seg = t[1] /\ x.inst >= f.db[k]
                                   /\ Lan(t[1]) => r # Chief[t[1]]
    <3>1. f.db[k] = p.inst
      BY <1>2, <2>3, <2>4, <2>7
    <3>2. p.inst >= f.db[k]
      BY <1>1, <3>1
    <3>q. QED
      BY <2>3, <2>4, <3>1, <3>2 DEF Flooded, Excused
  <2>8. f \in Busy /\ f.adj \subseteq node[r].adj /\ (Steady => f.adj = node[r].adj)
    BY <1>3, <2>3, <2>4 DEF Sane, Flooded
  <2>9. Step(r, f, L)
    BY DEF f
  <2>q. QED
    BY <1>1, <2>3, <2>4, <2>5, <2>6, <2>7, <2>8, <2>9, StepDeed DEF GapInv, IInv
<1>5. CASE ~(p.inst > held)
  <2>1. ~(p.inst > held /\ ~FALSE) /\ held >= p.inst
    BY <1>1, <1>2, <1>5
  <2> DEFINE same == IF Lan(p.seg) THEN Acknowledge(e, p.seg, k) ELSE e
             reply == Packet(p.seg, r, p.from, k, held)
             back == [e EXCEPT !.out = {reply}]
  <2>2. f \in {Unlist(same, p.seg, p.from, k), Unlist(back, p.seg, p.from, k)}
    <3> HIDE DEF same, back
    <3>1. p.inst = held => f = Unlist(same, p.seg, p.from, k)
      BY <1>5 DEF ReceiveLsu, same
    <3>2. p.inst # held => f = Unlist(back, p.seg, p.from, k)
      BY <1>5 DEF ReceiveLsu, back
    <3>q. QED
      BY <3>1, <3>2
  <2>3. /\ f.db = e.db /\ f.adj = e.adj
        /\ f.out \subseteq {reply}
    BY <1>2, <2>2 DEF Unlist, Acknowledge, Sane, Busy
  <2>4. reply.from = r /\ reply.seg = p.seg /\ reply.to = p.from /\ reply.key = k /\ reply.inst = held
    BY DEF Packet
  <2> HIDE DEF f, reply
  <2>5. held >= held /\ ~(held > held)
    BY <1>2
  <2>6. \A q \in f.out :
              /\ q.from = r /\ r \in On[q.seg] /\ q.to \in On[q.seg] \ {r} /\ q.key = k
              /\ f.db[k] >= q.inst \/ (k = r /\ ~Steady)
    BY <1>1, <2>3, <2>4, <2>5
  <2>7. f \in Busy
    BY <1>3 DEF Sane
  <2>9. Step(r, f, L)
    BY DEF f
  <2>q. QED
    BY <1>1, <2>1, <2>3, <2>5, <2>6, <2>7, <2>9, StepDeed DEF GapInv, IInv
<1>q. QED
  BY <1>4, <1>5

-----------------------------------------------------------------------------
(* The other steps.                                                        *)

(* Nothing of it is touched by an acknowledgement or a run of SPF.         *)
LEMMA StillGapInv ==
    ASSUME GapInv, lsu' = lsu,
           \A r \in Router : node'[r].db = node[r].db /\ node'[r].adj = node[r].adj
    PROVE  InPlace' /\ Backed' /\ Tells' /\ ReachesChief'
<1>1. /\ \A s \in Seg : On[s] \subseteq Router
      /\ \A s \in Seg : Lan(s) => Chief[s] \in Router
      /\ \A p \in lsu : p.from \in Router /\ p.to \in Router
      /\ \A r \in Router : \A t \in node[r].adj : t[2] \in Router
  BY OnRouter, DbNat DEF GapInv, IInv
<1>2. \A s \in Seg : \A r, m \in Router : Adjacent(s, r, m)' <=> Adjacent(s, r, m)
  BY DEF Adjacent
<1>3. InPlace'
  BY DEF GapInv, InPlace
<1>4. Backed'
  <2>1. \A p \in lsu : p.seg \in Seg
    BY DbNat DEF GapInv, IInv
  <2>q. QED
    BY <1>1, <1>2, <2>1 DEF GapInv, Backed
<1>5. Tells'
  BY <1>1, <1>2 DEF GapInv, Tells, Bears
<1>6. ReachesChief'
  BY <1>1, <1>2 DEF GapInv, ReachesChief, Served, Coming
<1>q. QED
  BY <1>3, <1>4, <1>5, <1>6

(* A packet leaves the wire that had no effect.                            *)
LEMMA IgnoreGapInv ==
    ASSUME GapInv, NEW p \in lsu, Ignore(p)
    PROVE  InPlace' /\ Backed' /\ Tells' /\ ReachesChief'
<1>1. /\ p.seg \in Seg /\ p.from \in Router /\ p.to \in Router
      /\ p.from \in On[p.seg] /\ p.to \in On[p.seg] /\ p.from # p.to
      /\ p.key \in Key /\ p.inst \in Nat
  BY DbNat DEF GapInv, IInv, InPlace
<1>2. node' = node /\ lsu' = lsu \ {p} /\ ~Adjacent(p.seg, p.from, p.to)
  BY DEF Ignore, Adjacent
<1>3. InPlace'
  BY <1>2 DEF GapInv, InPlace
<1>4. Backed'
  BY <1>2 DEF GapInv, Backed, Adjacent
<1>5. Tells'
  <2> SUFFICES ASSUME NEW s \in Seg, NEW r \in On[s], NEW m \in On[s], NEW k \in Key \ {m},
                      IsLink(s) \/ r = Chief[s],
                      Adjacent(s, r, m)', node'[r].db[k] > node'[m].db[k]
               PROVE  Bears(lsu', s, r, m, k, node'[r].db[k])
    BY DEF Tells
  <2>1. Adjacent(s, r, m) /\ node[r].db[k] > node[m].db[k]
    BY <1>2 DEF Adjacent
  <2>2. PICK q \in lsu : /\ q.seg = s /\ q.from = r /\ q.to = m /\ q.key = k
                         /\ q.inst >= node[r].db[k]
    BY <2>1 DEF GapInv, Tells, Bears
  <2>3. q # p
    BY <1>2, <2>1, <2>2
  <2>q. QED
    BY <1>2, <2>2, <2>3 DEF Bears
<1>6. ReachesChief'
  <2> SUFFICES ASSUME Steady, NEW s \in Seg, Lan(s), NEW r \in On[s], NEW k \in Key
               PROVE  Served(s, k, node[r].db[k])'
    BY DEF ReachesChief
  <2> DEFINE D == Chief[s]
  <2>1. Served(s, k, node[r].db[k]) /\ r \in Router /\ node[r].db[k] \in Nat
    BY OnRouter, DbNat DEF GapInv, ReachesChief, IInv
  <2>2. CASE Coming(s, D, k, node[r].db[k])
    <3>1. PICK q \in lsu : q.seg = s /\ q.to = D /\ q.key = k /\ q.inst >= node[r].db[k]
      BY <2>2 DEF Coming
    <3>2. CASE q # p
      BY <1>2, <3>1, <3>2 DEF Served, Coming
    <3>3. CASE q = p
      <4>1. node[p.from].db[k] >= p.inst /\ node[p.from].db[k] \in Nat
        BY <1>1, <3>1, <3>3, DbNat DEF GapInv, Backed, IInv
      <4>2. node[p.from].db[k] >= node[r].db[k]
        BY <1>1, <2>1, <3>1, <3>3, <4>1
      <4>3. p.from \in On[s] \ {D} /\ ~Adjacent(s, p.from, D)
        BY <1>1, <1>2, <3>1, <3>3
      <4>q. QED
        BY <1>2, <4>2, <4>3 DEF Served, Adjacent
    <3>q. QED
      BY <3>2, <3>3
  <2>3. CASE ~Coming(s, D, k, node[r].db[k])
    BY <1>2, <2>1, <2>3 DEF Served, Adjacent
  <2>q. QED
    BY <2>2, <2>3
<1>q. QED
  BY <1>3, <1>4, <1>5, <1>6

(* An adjacency comes up: each side sends what is newer, and nothing is on *)
(* its way between them.                                                   *)
LEMMA ConnectGapInv ==
    ASSUME GapInv, NEW s \in Seg, NEW a \in On[s], NEW b \in On[s], Connect(s, a, b), TypeOK'
    PROVE  InPlace' /\ Backed' /\ Tells' /\ ReachesChief'
<1>1. /\ a \in Router /\ b \in Router /\ a # b
      /\ <<a, b>> \in Pairs(s) /\ <<b, a>> \in Pairs(s)
  BY FloodingAssumption DEF Connect, Pairs
<1>2. /\ \A q \in Router : node'[q].db = node[q].db
      /\ \A q \in Router \ {a, b} : node'[q].adj = node[q].adj
      /\ node'[a].adj = node[a].adj \cup {<<s, b>>}
      /\ node'[b].adj = node[b].adj \cup {<<s, a>>}
  <2>1. node' = [node EXCEPT ![a] = [node[a] EXCEPT !.adj = node[a].adj \cup {<<s, b>>}],
                             ![b] = [node[b] EXCEPT !.adj = node[b].adj \cup {<<s, a>>}]]
    BY <1>1 DEF Connect, GapInv, IInv, TypeOK, Node
  <2>2. \A q \in Router : node[q] \in Node
    BY DEF GapInv, IInv, TypeOK
  <2>3. node \in [Router -> Node]
    BY DEF GapInv, IInv, TypeOK
  <2>q. QED
    BY <1>1, <2>1, <2>2, <2>3 DEF Node
<1>3. lsu \subseteq lsu' /\ \A p \in lsu : ~Between(s, a, b, p)
  BY DEF Connect
<1>4. ASSUME NEW p \in lsu' \ lsu
      PROVE  /\ p.seg = s /\ {p.from, p.to} = {a, b} /\ p.from # p.to
             /\ p.key \in Key /\ p.inst = node[p.from].db[p.key]
  <2>1. \/ \E k \in Key : p = Answer(s, a, b, k, node[a].db[k])
        \/ \E k \in Key : p = Answer(s, b, a, k, node[b].db[k])
    BY <1>4 DEF Connect
  <2>q. QED
    BY <1>1, <2>1 DEF Answer, Packet
<1>5. ASSUME NEW x \in {a, b}, NEW y \in {a, b}, x # y, NEW k \in Key,
             node[x].db[k] > node[y].db[k]
      PROVE  Bears(lsu', s, x, y, k, node[x].db[k])
  <2> DEFINE p == Answer(s, x, y, k, node[x].db[k])
  <2>1. p \in lsu'
    BY <1>5 DEF Connect
  <2>2. /\ p.seg = s /\ p.from = x /\ p.to = y /\ p.key = k
        /\ p.inst = node[x].db[k]
    BY DEF Answer, Packet
  <2>3. node[x].db[k] \in Nat
    BY <1>1, DbNat DEF GapInv, IInv
  <2>q. QED
    BY <2>1, <2>2, <2>3 DEF Bears
<1>6. ASSUME NEW t \in Seg, NEW r \in Router, NEW m \in Router, Adjacent(t, r, m)'
      PROVE  Adjacent(t, r, m) \/ (t = s /\ r \in {a, b} /\ m \in {a, b} /\ r # m)
  BY <1>1, <1>2, <1>6 DEF Adjacent
<1>7. \A t \in Seg : \A r, m \in Router : Adjacent(t, r, m) => Adjacent(t, r, m)'
  BY <1>1, <1>2 DEF Adjacent
<1>8. InPlace'
  <2>1. \A p \in lsu' : {p.from, p.to} \subseteq On[p.seg] /\ p.from # p.to
    BY <1>4 DEF GapInv, InPlace
  <2>2. ASSUME NEW r \in Router, NEW t \in node'[r].adj
        PROVE  <<r, t[2]>> \in Pairs(t[1])
    <3>1. \/ t \in node[r].adj
          \/ r = a /\ t = <<s, b>>
          \/ r = b /\ t = <<s, a>>
      BY <1>1, <1>2, <2>2
    <3>q. QED
      BY <1>1, <3>1 DEF GapInv, InPlace
  <2>q. QED
    BY <2>1, <2>2 DEF InPlace
<1>9. Backed'
  <2> SUFFICES ASSUME NEW p \in lsu',
                      Steady \/ (p.key # p.from /\ Adjacent(p.seg, p.from, p.to)')
               PROVE  node'[p.from].db[p.key] >= p.inst
    BY DEF Backed
  <2>1. /\ p.seg \in Seg /\ p.from \in Router /\ p.to \in Router /\ p.key \in Key
        /\ p.inst \in Nat /\ node'[p.from].db = node[p.from].db
    BY <1>2, DbNatNext DEF TypeOK, LsuPacket
  <2>2. CASE p \in lsu
    <3>1. Adjacent(p.seg, p.from, p.to)' => Adjacent(p.seg, p.from, p.to)
      BY <1>3, <1>6, <2>1, <2>2 DEF Between
    <3>q. QED
      BY <2>1, <2>2, <3>1 DEF GapInv, Backed
  <2>3. CASE p \notin lsu
    BY <1>4, <2>1, <2>3
  <2>q. QED
    BY <2>2, <2>3
<1>10. Tells'
  <2> SUFFICES ASSUME NEW t \in Seg, NEW r \in On[t], NEW m \in On[t], NEW k \in Key \ {m},
                      IsLink(t) \/ r = Chief[t],
                      Adjacent(t, r, m)', node'[r].db[k] > node'[m].db[k]
               PROVE  Bears(lsu', t, r, m, k, node'[r].db[k])
    BY DEF Tells
  <2>1. /\ r \in Router /\ m \in Router
        /\ node'[r].db = node[r].db /\ node'[m].db = node[m].db
    BY <1>2, OnRouter
  <2>2. CASE Adjacent(t, r, m)
    <3>1. Bears(lsu, t, r, m, k, node[r].db[k])
      BY <2>1, <2>2 DEF GapInv, Tells
    <3>q. QED
      BY <1>3, <2>1, <3>1 DEF Bears
  <2>3. CASE t = s /\ r \in {a, b} /\ m \in {a, b} /\ r # m
    BY <1>5, <2>1, <2>3
  <2>q. QED
    BY <1>6, <2>1, <2>2, <2>3
<1>11. ReachesChief'
  <2> SUFFICES ASSUME Steady, NEW t \in Seg, Lan(t), NEW r \in On[t], NEW k \in Key
               PROVE  Served(t, k, node[r].db[k])'
    BY DEF ReachesChief
  <2> DEFINE D == Chief[t]
  <2>1. D \in Router /\ r \in Router /\ On[t] \subseteq Router
    BY OnRouter
  <2>2. \A q \in Router : node'[q].db = node[q].db /\ node[q].db[k] \in Nat
    BY <1>2, DbNat DEF GapInv, IInv
  <2>3. Served(t, k, node[r].db[k])
    BY DEF GapInv, ReachesChief
  <2>4. CASE node[D].db[k] >= node[r].db[k]
    BY <2>1, <2>2, <2>4 DEF Served
  <2>5. CASE Coming(t, D, k, node[r].db[k])
    BY <1>3, <2>1, <2>2, <2>5 DEF Served, Coming
  <2>6. ASSUME NEW q \in On[t] \ {D}, ~Adjacent(t, q, D), node[q].db[k] >= node[r].db[k]
        PROVE  Served(t, k, node[r].db[k])'
    <3>1. CASE ~Adjacent(t, q, D)'
      BY <2>1, <2>2, <2>6, <3>1 DEF Served
    <3>2. CASE Adjacent(t, q, D)'
      <4>1. t = s /\ q \in {a, b} /\ D \in {a, b} /\ q # D
        BY <1>6, <2>1, <2>6, <3>2
      <4>2. CASE node[q].db[k] > node[D].db[k]
        <5>1. PICK p \in lsu' : /\ p.seg = s /\ p.to = D /\ p.key = k
                                /\ p.inst >= node[q].db[k]
          BY <1>5, <4>1, <4>2 DEF Bears
        <5>2. p.inst \in Nat
          BY DbNatNext
        <5>3. p.inst >= node'[r].db[k]
          BY <2>1, <2>2, <2>6, <5>1, <5>2
        <5>q. QED
          BY <4>1, <5>1, <5>3 DEF Served, Coming
      <4>3. CASE ~(node[q].db[k] > node[D].db[k])
        <5>1. node[D].db[k] >= node[r].db[k]
          BY <2>1, <2>2, <2>6, <4>3
        <5>q. QED
          BY <2>1, <2>2, <5>1 DEF Served
      <4>q. QED
        BY <4>2, <4>3
    <3>q. QED
      BY <3>1, <3>2
  <2>q. QED
    BY <2>3, <2>4, <2>5, <2>6 DEF Served
<1>q. QED
  BY <1>8, <1>9, <1>10, <1>11

(* An adjacency is given up, or a router restarts: that only ends what the *)
(* invariant asks for.                                                     *)
LEMMA LeaveGapInv ==
    ASSUME GapInv, NEW r \in Router,
           Steady => node'[r].db = node[r].db /\ lsu' = lsu,
           \A q \in Router \ {r} : node'[q] = node[q],
           node'[r].adj \subseteq node[r].adj,
           node'[r].db = node[r].db \/ node'[r].adj = {},
           lsu' \subseteq lsu, \A p \in lsu : p.to # r => p \in lsu',
           node'[r].adj # {} => lsu' = lsu
    PROVE  InPlace' /\ Backed' /\ Tells' /\ ReachesChief'
<1>1. \A t \in Seg : \A a, m \in Router :
        Adjacent(t, a, m)' => /\ Adjacent(t, a, m)
                              /\ node'[a].db = node[a].db /\ node'[m].db = node[m].db
                              /\ (lsu' = lsu \/ (a # r /\ m # r))
  BY DEF Adjacent
<1>2. InPlace'
  BY DEF GapInv, InPlace
<1>3. Backed'
  <2> SUFFICES ASSUME NEW p \in lsu',
                      Steady \/ (p.key # p.from /\ Adjacent(p.seg, p.from, p.to)')
               PROVE  node'[p.from].db[p.key] >= p.inst
    BY DEF Backed
  <2>1. p \in lsu /\ p.seg \in Seg /\ p.from \in Router /\ p.to \in Router
    BY DbNat DEF GapInv, IInv
  <2>2. Steady => node'[p.from].db = node[p.from].db
    BY <2>1
  <2>q. QED
    BY <1>1, <2>1, <2>2 DEF GapInv, Backed
<1>4. Tells'
  <2> SUFFICES ASSUME NEW t \in Seg, NEW a \in On[t], NEW m \in On[t], NEW k \in Key \ {m},
                      IsLink(t) \/ a = Chief[t],
                      Adjacent(t, a, m)', node'[a].db[k] > node'[m].db[k]
               PROVE  Bears(lsu', t, a, m, k, node'[a].db[k])
    BY DEF Tells
  <2>1. a \in Router /\ m \in Router
    BY OnRouter
  <2>2. Bears(lsu, t, a, m, k, node'[a].db[k])
    BY <1>1, <2>1 DEF GapInv, Tells
  <2>q. QED
    BY <1>1, <2>1, <2>2 DEF Bears
<1>5. ReachesChief'
  <2> SUFFICES ASSUME Steady, NEW s \in Seg, Lan(s), NEW a \in On[s], NEW k \in Key
               PROVE  Served(s, k, node[a].db[k])'
    BY DEF ReachesChief
  <2>1. Chief[s] \in Router /\ On[s] \subseteq Router /\ a \in Router
    BY OnRouter
  <2>2. \A q \in Router : node'[q].db = node[q].db
    OBVIOUS
  <2>3. Served(s, k, node[a].db[k])
    BY DEF GapInv, ReachesChief
  <2>q. QED
    BY <1>1, <2>1, <2>2, <2>3 DEF Served, Coming
<1>q. QED
  BY <1>2, <1>3, <1>4, <1>5

LEMMA DropGapInv ==
    ASSUME GapInv, NEW s \in Seg, NEW r \in On[s], NEW m \in On[s], Drop(s, r, m)
    PROVE  InPlace' /\ Backed' /\ Tells' /\ ReachesChief'
<1>1. r \in Router /\ m \in Router
  BY OnRouter
<1> DEFINE e == Forget(node[r], s, m)
<1>3. KeepsDb(node[r], e) /\ e.adj \subseteq node[r].adj
  <2>1. Sane(r, node[r])
    BY <1>1, Resting DEF GapInv
  <2>2. KeepsDb(node[r], e)
    BY <1>1, <2>1, ForgetSane
  <2>q. QED
    BY <2>1, <2>2 DEF Forget, Sane, Busy
<1> HIDE DEF e
<1>4. /\ node' = [node EXCEPT ![r] = e] /\ lsu' = lsu
  BY DEF Drop, e
<1>5. node'[r] = e /\ \A q \in Router \ {r} : node'[q] = node[q]
  BY <1>1, <1>4 DEF GapInv, IInv, TypeOK
<1>q. QED
  BY <1>1, <1>3, <1>4, <1>5, LeaveGapInv DEF KeepsDb

LEMMA RestartGapInv ==
    ASSUME GapInv, NEW r \in Router, Restart(r)
    PROVE  InPlace' /\ Backed' /\ Tells' /\ ReachesChief'
<1>1. ~Steady
  BY DEF Restart, Strike, Steady
<1>2. /\ node' = [node EXCEPT ![r] = NewNode] /\ lsu' = {p \in lsu : p.to # r}
  BY DEF Restart
<1>3. node'[r].adj = {} /\ \A q \in Router \ {r} : node'[q] = node[q]
  BY <1>2 DEF GapInv, IInv, TypeOK, NewNode
<1>q. QED
  BY <1>1, <1>2, <1>3, LeaveGapInv

-----------------------------------------------------------------------------
(* Every step.                                                             *)

LEMMA InitGapInv == Init => GapInv
<1> SUFFICES ASSUME Init PROVE GapInv
  OBVIOUS
<1>1. /\ lsu = {} /\ \A r \in Router : node[r].adj = {}
      /\ \A r \in Router : \A k \in Key : node[r].db[k] = 0
  BY DEF Init, NewNode
<1>2. InPlace /\ Backed /\ Tells
  BY <1>1, OnRouter DEF InPlace, Backed, Tells, Adjacent
<1>3. ReachesChief
  <2>1. \A s \in Seg : Lan(s) => \A r \in On[s] : \A k \in Key :
           node[Chief[s]].db[k] >= node[r].db[k]
    BY <1>1, OnRouter
  <2>q. QED
    BY <2>1 DEF ReachesChief, Served
<1>q. QED
  BY <1>2, <1>3, InitIInv DEF GapInv

LEMMA NextGapInv ==
    ASSUME Delivers, GapInv, [Next]_vars, ~lost'
    PROVE  GapInv'
<1> DEFINE Goal == InPlace' /\ Backed' /\ Tells' /\ ReachesChief'
<1>1. IInv' /\ TypeOK'
  BY NextIInv DEF GapInv, IInv
<1>2. ASSUME NEW r \in Router, Originate(r) PROVE Goal
  BY <1>1, <1>2, OriginateDeed, DeedGapInv
<1>3. ASSUME NEW r \in Router, NEW k \in Key, Learn(r, k) PROVE Goal
  BY <1>1, <1>3, LearnDeed, DeedGapInv
<1>4. ASSUME NEW p \in lsu, Receive(p) \/ Duplicate(p) PROVE Goal
  <2>1. PICK L \in SUBSET lsu :
          /\ lsu \ {p} \subseteq L
          /\ Step(p.to, ReceiveLsu(p.to, node[p.to], p, FALSE), L)
    <3>1. CASE Receive(p)
      <4>1. Step(p.to, ReceiveLsu(p.to, node[p.to], p, FALSE), lsu \ {p})
        BY <3>1 DEF Receive, Strike
      <4>q. QED
        BY <4>1
    <3>2. CASE Duplicate(p)
      BY <3>2 DEF Duplicate
    <3>q. QED
      BY <1>4, <3>1, <3>2
  <2>2. p.to \in Router /\ p.key \in Key
    BY DbNat DEF GapInv, IInv
  <2>3. Deed(p.to, p.key, {p})
    BY <2>1, ReceiveDeed
  <2>q. QED
    BY <1>1, <2>2, <2>3, DeedGapInv
<1>5. ASSUME NEW r \in Router, RunSpf(r) PROVE Goal
  <2>1. /\ node' = [node EXCEPT ![r] = [node[r] EXCEPT !.spf = FALSE, !.dirty = {}]]
        /\ lsu' = lsu
    BY <1>5 DEF RunSpf, GapInv, IInv, TypeOK, Node
  <2>2. \A q \in Router : node'[q].db = node[q].db /\ node'[q].adj = node[q].adj
    BY <2>1 DEF GapInv, IInv, TypeOK, Node
  <2>q. QED
    BY <2>1, <2>2, StillGapInv
<1>6. ASSUME NEW r \in Router, NEW s \in SegsOf(r), FlushAcks(r, s) PROVE Goal
  <2>1. \A q \in Router : node'[q].db = node[q].db /\ node'[q].adj = node[q].adj
    BY <1>6 DEF FlushAcks, GapInv, IInv, TypeOK, Node
  <2>2. lsu' = lsu
    BY <1>6 DEF FlushAcks
  <2>q. QED
    BY <2>1, <2>2, StillGapInv
<1>7. ASSUME NEW s \in Seg, NEW r \in On[s], NEW m \in On[s], Connect(s, r, m) PROVE Goal
  BY <1>1, <1>7, ConnectGapInv
<1>8. ASSUME NEW s \in Seg, NEW r \in On[s], NEW m \in On[s], Drop(s, r, m) PROVE Goal
  BY <1>8, DropGapInv
<1>9. ASSUME NEW r \in Router, Restart(r) PROVE Goal
  BY <1>9, RestartGapInv
<1>10. ASSUME NEW p \in lsu, Ignore(p) PROVE Goal
  BY <1>10, IgnoreGapInv
<1>11. ASSUME NEW p \in lsu, Lose(p) PROVE Goal
  BY <1>11 DEF Lose, Strike
<1>12. ASSUME UNCHANGED vars PROVE Goal
  BY <1>12, StillGapInv DEF vars
<1> HIDE DEF Goal
<1>13. Goal
  BY <1>2, <1>3, <1>4, <1>5, <1>6, <1>7, <1>8, <1>9, <1>10, <1>11, <1>12 DEF Next
<1>q. QED
  BY <1>1, <1>13 DEF Goal, GapInv

(* On a network whose adjacencies are all up everyone is adjacent to the   *)
(* DR, so that every LSA has reached the DR or is on its way there; and    *)
(* the DR tells everyone.                                                  *)
LEMMA GapInvNoGap ==
    ASSUME GapInv, Delivers
    PROVE  NoGap
<1> SUFFICES ASSUME NEW s \in Seg, NEW r \in On[s], NEW m \in On[s], NEW k \in Key \ {m},
                    Connected(s, r, m), node[r].db[k] > node[m].db[k]
             PROVE  \/ Coming(s, m, k, node[r].db[k])
                    \/ Lan(s) /\ Coming(s, Chief[s], k, node[r].db[k])
  BY Zenon DEF NoGap
<1>1. /\ r \in Router /\ m \in Router
      /\ node[r].db[k] \in Nat /\ node[m].db[k] \in Nat
  BY OnRouter, DbNat DEF GapInv, IInv
<1>2. Adjacent(s, r, m)
  BY DEF Connected
<1>3. CASE IsLink(s)
  <2>1. Bears(lsu, s, r, m, k, node[r].db[k])
    BY <1>2, <1>3 DEF GapInv, Tells
  <2>q. QED
    BY <2>1 DEF Bears, Coming
<1>4. CASE Lan(s) /\ Steady
  <2> DEFINE D == Chief[s]
  <2>1. D \in On[s] /\ D \in Router /\ node[D].db[k] \in Nat
    BY <1>4, OnRouter, DbNat DEF GapInv, IInv
  <2>2. ASSUME NEW q \in On[s] \ {D} PROVE Adjacent(s, q, D) /\ Adjacent(s, D, q)
    <3>1. <<q, D>> \in Pairs(s)
      <4>1. D \in Heads(s)
        BY <1>4 DEF Heads, Lan
      <4>2. <<q, D>>[2] \in Heads(s) /\ 2 \in 1..2
        BY <4>1
      <4>q. QED
        BY <2>1, <2>2, <4>2 DEF Pairs
    <3>2. Adjacent(s, <<q, D>>[1], <<q, D>>[2])
      BY <1>4, <3>1 DEF Connected
    <3>q. QED
      BY <3>2 DEF Adjacent
  <2>3. Served(s, k, node[r].db[k])
    BY <1>4 DEF GapInv, ReachesChief
  <2>4. node[D].db[k] >= node[r].db[k] \/ Coming(s, D, k, node[r].db[k])
    BY <2>2, <2>3 DEF Served
  <2>5. CASE node[D].db[k] >= node[r].db[k]
    <3>1. node[D].db[k] > node[m].db[k] /\ m # D
      BY <1>1, <2>1, <2>5
    <3>2. Bears(lsu, s, D, m, k, node[D].db[k])
      BY <2>1, <2>2, <3>1 DEF GapInv, Tells
    <3>3. PICK p \in lsu : p.seg = s /\ p.to = m /\ p.key = k /\ p.inst >= node[D].db[k]
      BY <3>2 DEF Bears
    <3>4. p.inst \in Nat
      BY DbNat DEF GapInv, IInv
    <3>5. p.inst >= node[r].db[k]
      BY <1>1, <2>1, <2>5, <3>3, <3>4
    <3>q. QED
      BY <3>3, <3>5 DEF Coming
  <2>q. QED
    BY <1>4, <2>4, <2>5
<1>q. QED
  BY <1>3, <1>4 DEF Delivers

(* What was lost or refused stays so.                                      *)
LEMMA LostForGood == ASSUME [Next]_vars, lost PROVE lost'
<1>1. ASSUME NEW kind, Strike(kind) PROVE lost'
  BY <1>1 DEF Strike
<1> USE DEF NoFault
<1>2. ASSUME NEW r \in Router, Originate(r) \/ RunSpf(r) \/ Restart(r) PROVE lost'
  BY <1>1, <1>2 DEF Originate, RunSpf, Restart
<1>3. ASSUME NEW r \in Router, NEW k \in Key, Learn(r, k) PROVE lost'
  BY <1>3 DEF Learn
<1>4. ASSUME NEW r \in Router, NEW s \in SegsOf(r), FlushAcks(r, s) PROVE lost'
  BY <1>4 DEF FlushAcks
<1>5. ASSUME NEW s \in Seg, NEW r \in On[s], NEW m \in On[s], Connect(s, r, m) \/ Drop(s, r, m)
      PROVE  lost'
  BY <1>1, <1>5 DEF Connect, Drop
<1>6. ASSUME NEW p \in lsu, Receive(p) \/ Ignore(p) \/ Lose(p) \/ Duplicate(p) PROVE lost'
  BY <1>1, <1>6 DEF Receive, Ignore, Lose, Duplicate
<1>q. QED
  BY <1>2, <1>3, <1>4, <1>5, <1>6 DEF Next, vars

(* Whatever one of two adjacent routers has and the other lacks is on its  *)
(* way: floods, acknowledgements and the exchange of an adjacency leave no *)
(* gap that nothing will fill, until an LSA is lost or MinLSArrival        *)
(* refuses one.  On links that holds through restarts, dead intervals,     *)
(* repetitions and full lists; on networks through dead intervals and      *)
(* repetitions, when the lists hold all LSAs and nobody restarts or        *)
(* removes its own LSA.  Lifting any one of these conditions opens a gap,  *)
(* which TLC finds.                                                        *)
THEOREM NothingMissing ==
    ASSUME Delivers
    PROVE  Spec => []NoGap
<1> DEFINE Kept == lost \/ GapInv
<1>1. Kept /\ [Next]_vars => Kept'
  BY NextGapInv, LostForGood
<1>2. Kept => NoGap
  <2>1. lost => NoGap
    BY DEF NoGap
  <2>q. QED
    BY <2>1, GapInvNoGap
<1>3. Init => Kept
  BY InitGapInv
<1>q. QED
  BY <1>1, <1>2, <1>3, PTL DEF Spec
=============================================================================
